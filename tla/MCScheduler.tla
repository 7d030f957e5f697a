----------------------------- MODULE MCScheduler -----------------------------
(***************************************************************************)
(* Scheduler for TLC: the threads other than Boot are interchangeable.     *)
(***************************************************************************)
EXTENDS Scheduler, TLC

Symmetry == Permutations(Thread \ {Boot})

\* What the other cores do after one of them stopped is not explored.
Healthy == \A c \in Core : op[c].pc \notin {"hung", "panic"}

\* At most InboxCap messages under way to all cores together.
LightTraffic == SumFunction([c \in Core |-> Len(inbox[c])]) <= InboxCap
==============================================================================
