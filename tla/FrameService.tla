----------------------------- MODULE FrameService -----------------------------
(***************************************************************************)
(* What a page frame allocator promises: a request for n frames is         *)
(* answered by n contiguous frames that were free, and fails only when     *)
(* there are none; frames given back are free again.                       *)
(***************************************************************************)
EXTENDS Integers

CONSTANT Frame

VARIABLES free, out   \* out: no request could be answered, the kernel stops

Run(s, n) == s..(s + n - 1)

Init == free \subseteq Frame /\ out = FALSE

Alloc(n) ==
  /\ ~out
  /\ \/ \E s \in free : Run(s, n) \subseteq free /\ free' = free \ Run(s, n) /\ out' = FALSE
     \/ /\ \A s \in free : ~(Run(s, n) \subseteq free)
        /\ out' = TRUE /\ free' = free
Free(s, n) ==
  /\ ~out
  /\ Run(s, n) \subseteq Frame \ free
  /\ free' = free \cup Run(s, n)
  /\ UNCHANGED out

Next == \E n \in Frame, s \in Frame : n > 0 /\ (Alloc(n) \/ Free(s, n))

Spec == Init /\ [][Next]_<<free, out>>
=============================================================================
