------------------------------ MODULE FrameOrders ------------------------------
(***************************************************************************)
(* The page frame allocator of the default build and how the kernel uses   *)
(* it: os/kernel/src/memory/frames_lf.rs in front of the library LLFree,   *)
(* and the callers that give frames back: as the range that they were      *)
(* given (shared memory, IDE, page tables, the card's firmware area), or,  *)
(* for the virtio buffers, by the number of pages that was asked for.      *)
(***************************************************************************)
EXTENDS Integers, FiniteSets

CONSTANTS MaxFrame,    \* frames are 0..MaxFrame-1
          Users,       \* who holds frames
          MaxRequest,  \* the largest request
          Ways         \* how frames are given back: "whole", "dma"

OrdersAssumption ==
  /\ MaxFrame \in Nat /\ MaxRequest \in Nat
  /\ Ways \subseteq {"whole", "dma"}

VARIABLES
  free,    \* the frames LLFree may give out
  holds,   \* what each user has: the range, how many frames it asked for, its way
  panic

vars == <<free, holds, panic>>

None == [start |-> 0, len |-> 0, asked |-> 0, way |-> "none"]
Run(s, n) == s..(s + n - 1)
Range(h) == Run(h.start, h.len)

Init ==
  /\ free \in SUBSET (0..(MaxFrame - 1))
  /\ holds = [u \in Users |-> None]
  /\ panic = "no"

\* round_up_pow2
Powers == {1, 2, 4, 8, 16}

\* Mutant of RoundUp: nothing is rounded.
RoundUpNot(n) == n
RoundUp(n) == CHOOSE k \in Powers : k >= n /\ \A j \in Powers : j >= n => k <= j

\* LLFree::get: 2^order frames, aligned to their number (external).
Candidates(n) == {s \in free : s % n = 0 /\ Run(s, n) \subseteq free}

\* alloc_frames, alloc_internal
Alloc(u, n, way) ==
  /\ panic = "no" /\ holds[u] = None
  /\ LET k == RoundUp(n) IN
     \/ \E s \in Candidates(k) :
          /\ free' = free \ Run(s, k)
          /\ holds' = [holds EXCEPT ![u] = [start |-> s, len |-> k, asked |-> n, way |-> way]]
          /\ UNCHANGED panic
     \/ /\ Candidates(k) = {}
        /\ panic' = "out of memory" /\ UNCHANGED <<free, holds>>

\* free: the length must be a power of two; LLFree::put refuses frames that are free.
PutOk(s, n) == n \in Powers /\ s % n = 0 /\ Run(s, n) \cap free = {}
\* Mutant of Put: the last frame is left out.
PutShort(s, n) ==
  IF PutOk(s, n) THEN free' = free \cup Run(s, n - 1) /\ UNCHANGED panic
  ELSE panic' = "free" /\ UNCHANGED free
Put(s, n) ==
  IF PutOk(s, n) THEN free' = free \cup Run(s, n) /\ UNCHANGED panic
  ELSE panic' = "free" /\ UNCHANGED free

\* shm::delete, IDE, page tables, the firmware area: the range that alloc returned.
FreeWhole(u) ==
  /\ panic = "no" /\ holds[u].way = "whole"
  /\ Put(holds[u].start, holds[u].len)
  /\ holds' = [holds EXCEPT ![u] = None]

\* Hal::dma_dealloc, Dma::drop: the pages that were asked for.
FreeDma(u) ==
  /\ panic = "no" /\ holds[u].way = "dma"
  /\ Put(holds[u].start, holds[u].asked)
  /\ holds' = [holds EXCEPT ![u] = None]

Next ==
  \E u \in Users :
    \/ \E n \in 1..MaxRequest, way \in Ways : Alloc(u, n, way)
    \/ FreeWhole(u) \/ FreeDma(u)

Spec == Init /\ [][Next]_vars

-----------------------------------------------------------------------------
\* The frames are frames, and the users hold ranges.
TypeOK ==
  /\ free \subseteq 0..(MaxFrame - 1)
  /\ \A u \in Users : Range(holds[u]) \subseteq 0..(MaxFrame - 1)
  /\ panic \in {"no", "out of memory", "free"}

\* What users hold is apart from each other and from the free frames.
Disjoint ==
  \A u \in Users : /\ Range(holds[u]) \cap free = {}
                   /\ \A v \in Users \ {u} : Range(holds[u]) \cap Range(holds[v]) = {}

\* A user has at least what it asked for, and a whole range is aligned to its
\* length, on which the tables for the card rely (vpms_from_frames).
EnoughAligned ==
  \A u \in Users : /\ holds[u].len >= holds[u].asked
                   /\ holds[u].way = "whole" => holds[u].start % holds[u].len = 0

\* Giving back what was allocated is accepted.
FreeAccepted == panic # "free"

\* A frame that is not free is with a user: none is lost.
NoneLostStep ==
  \A u \in Users : holds[u] # None /\ holds'[u] = None => Range(holds[u]) \subseteq free'
=============================================================================
