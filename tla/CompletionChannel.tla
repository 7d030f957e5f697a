-------------------------- MODULE CompletionChannel --------------------------
(***************************************************************************)
(* What a completion queue promises (the documentation of                  *)
(* CompletionQueue::poll, os/library/ibverbs/src/cq.rs): completions are   *)
(* popped in the order they entered the queue, each of them once.          *)
(***************************************************************************)
EXTENDS Sequences

CONSTANTS Completion, NoCompletion

VARIABLES queue,      \* completions reported and not yet popped
          popped      \* the completion the last pop returned

Init == queue = <<>> /\ popped = NoCompletion

Report(c) == queue' = Append(queue, c) /\ UNCHANGED popped

Pop == queue # <<>> /\ popped' = Head(queue) /\ queue' = Tail(queue)

Next == (\E c \in Completion : Report(c)) \/ Pop

Spec == Init /\ [][Next]_<<queue, popped>>

\* An application that keeps polling gets every completion.
FairSpec == Spec /\ WF_<<queue, popped>>(Pop)
=============================================================================
