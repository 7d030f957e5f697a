------------------------------ MODULE FrameList ------------------------------
(***************************************************************************)
(* The page frame allocator that keeps its free blocks in a list:          *)
(* os/kernel/src/memory/frames.rs (feature frame_alloc_locking).           *)
(*                                                                         *)
(* A block of free frames is a record in its own first frame, linked to    *)
(* the next one; here the list is a sequence of [start, frame_count].      *)
(* Each operation runs under the allocator's lock.  reserve_block and      *)
(* find_free_block_at have no callers.                                     *)
(***************************************************************************)
EXTENDS Integers, Sequences, FiniteSets, SequencesExt

CONSTANT MaxFrame     \* frames are 1..MaxFrame; frame 0 is never handed out

ListAssumption == MaxFrame \in Nat

VARIABLES
  list,    \* PAGE_FRAME_ALLOCATOR
  unseen,  \* frames of the available regions that init has not yet inserted
  given,   \* history: the frames inserted at boot
  held,    \* history: the frames that callers hold
  panic    \* the kernel has stopped

vars == <<list, unseen, given, held, panic>>

Frame == 1..MaxFrame
Blocks == {[start |-> s, frame_count |-> n] : s \in Frame, n \in Frame}
Run(s, n) == s..(s + n - 1)
End(b) == b.start + b.frame_count
FramesOf(b) == Run(b.start, b.frame_count)
Cover(l) == UNION {FramesOf(l[i]) : i \in DOMAIN l}
Least(S) == CHOOSE i \in S : \A j \in S : i <= j

Init ==
  /\ list = <<>>
  /\ unseen \in SUBSET Frame
  /\ given = {} /\ held = {} /\ panic = "no"

-----------------------------------------------------------------------------
\* insert: before the first block that starts above the new one.
Place(l, b) ==
  LET above == {i \in DOMAIN l : l[i].start > b.start}
  IN  IF above = {} THEN Len(l) + 1 ELSE Least(above)
Insert(l, b) == InsertAt(l, Place(l, b), b)

\* find_free_block: the first block that is large enough.
Large(n) == {i \in DOMAIN list : list[i].frame_count >= n}

Remaining(b, n) == [start |-> b.start + n, frame_count |-> b.frame_count - n]

PutBack(l, b) == IF b.frame_count > 0 THEN Insert(l, b) ELSE l

\* alloc_block
Alloc(n) ==
  /\ panic = "no" /\ unseen = {}
  /\ \/ /\ Large(n) # {}
        /\ LET i == Least(Large(n))
           IN  /\ list' = PutBack(RemoveAt(list, i), Remaining(list[i], n))
               /\ held' = held \cup Run(list[i].start, n)
        /\ UNCHANGED panic
     \/ /\ Large(n) = {}
        /\ panic' = "out of memory" /\ UNCHANGED <<list, held>>
  /\ UNCHANGED <<unseen, given>>

-----------------------------------------------------------------------------
Overlaps(f, b) == ~(End(f) <= b.start \/ f.start >= End(b))

\* The search of free_block ends at the first block that stops it.
Stops(f, b) == Overlaps(f, b) \/ End(f) = b.start \/ End(b) >= f.start
Stop(f) == {i \in DOMAIN list : Stops(f, list[i])}

ExtendBottom(i, f) ==
  [list EXCEPT ![i] = [start |-> f.start, frame_count |-> @.frame_count + f.frame_count]]

ExtendTop(i, f) ==
  LET more == [list EXCEPT ![i].frame_count = @ + f.frame_count]
  IN  IF i < Len(list) /\ End(more[i]) = list[i + 1].start
      THEN RemoveAt([more EXCEPT ![i].frame_count = @ + list[i + 1].frame_count], i + 1)
      ELSE more

\* free_block: f is joined with its neighbours, or gets an entry of its own.
FreeBlock(f) ==
  LET i == Least(Stop(f)) IN
  IF Stop(f) # {} /\ Overlaps(f, list[i])
  THEN panic' = "double free" /\ UNCHANGED list
  ELSE /\ list' = IF Stop(f) = {} THEN Insert(list, f)
                  ELSE IF End(f) = list[i].start THEN ExtendBottom(i, f)
                  ELSE IF End(list[i]) = f.start THEN ExtendTop(i, f)
                  ELSE Insert(list, f)
       /\ UNCHANGED panic

\* init, mark_avail: the available regions in ascending order; two of them may touch.
MarkAvail(f) ==
  /\ panic = "no"
  /\ FramesOf(f) \subseteq unseen /\ \A g \in unseen : f.start <= g
  /\ FreeBlock(f)
  /\ unseen' = unseen \ FramesOf(f)
  /\ given' = given \cup FramesOf(f)
  /\ UNCHANGED held

\* free: all or some of what was allocated, by anyone.
Free(f) ==
  /\ panic = "no" /\ unseen = {}
  /\ FramesOf(f) \subseteq held
  /\ FreeBlock(f)
  /\ held' = held \ FramesOf(f)
  /\ UNCHANGED <<unseen, given>>

Next ==
  \/ \E n \in Frame : Alloc(n)
  \/ \E f \in Blocks : MarkAvail(f)
  \/ \E f \in Blocks : Free(f)

Spec == Init /\ [][Next]_vars

-----------------------------------------------------------------------------
\* The list holds blocks, and histories hold frames.
TypeOK ==
  /\ list \in Seq(Blocks)
  /\ given \subseteq Frame /\ held \subseteq Frame /\ unseen \subseteq Frame
  /\ panic \in {"no", "out of memory", "double free"}

\* The blocks are in ascending order and fused: no two of them touch.
ListFused == \A i \in 1..Len(list) - 1 : End(list[i]) < list[i + 1].start

\* A frame is in the list or with a caller, never both; none is lost.
FramesKept == Cover(list) \cap held = {} /\ Cover(list) \cup held = given

\* Giving back what one has is never taken for a double free.
FreeAccepted == panic # "double free"

\* The list answers as the promise says: it runs out of memory only when there
\* is no run of free frames that is long enough.
PromisedFree == IF unseen = {} THEN Cover(list) ELSE unseen \cup given
Promise == INSTANCE FrameService WITH
  free <- PromisedFree, out <- panic = "out of memory"
PromiseStep == [Promise!Next]_<<PromisedFree, panic = "out of memory">>
=============================================================================
