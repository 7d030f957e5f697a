------------------------------ MODULE SendQueue ------------------------------
(***************************************************************************)
(* The send queue of a queue pair of the userspace mlx4 provider,          *)
(* os/library/ibverbs/src/provider/mlx4/queue_pair.rs.                     *)
(*                                                                         *)
(* Software writes work queue elements (WQEs) into a ring that the card    *)
(* reads on its own.  The doorbell only names the queue pair: the card     *)
(* goes on through the ring until it meets a WQE whose ownership bit says  *)
(* it is not of this round.  Software therefore keeps the Spare WQEs after *)
(* its head `stamped', so that a card that runs or prefetches ahead of the *)
(* head finds them invalid.                                                *)
(*                                                                         *)
(* QueuePair sits behind an RwLock that a call of post_send holds for      *)
(* writing throughout, and that resolving a completion also takes, so      *)
(* software runs one call at a time; the card runs concurrently with it.   *)
(*                                                                         *)
(* A request is identified by the index it was posted at.  Its WQE fills   *)
(* one basic block (new_send_queue derives max_gs from the block size).    *)
(***************************************************************************)
EXTENDS Ring, Sequences

CONSTANTS Spare,    \* spare_wqes: 2 KB of headroom and one more WQE
          Flags,    \* the values of SendFlags::SIGNALED the caller uses
          Sloppy    \* what the caller may do: "open": end a call with an
                    \* unsignaled request; "fail": make a call fail after
                    \* some of its requests were posted

SendQueueAssumption ==
  /\ Spare \in 1 .. Cnt - 2
  /\ Flags \in SUBSET BOOLEAN
  /\ Sloppy \in SUBSET {"open", "fail"}

VARIABLES
  head, tail,       \* WorkQueue::head, tail
  meta,             \* WorkQueue::meta, per slot
  buf,              \* WorkQueue::buffer, per slot: the ownership bit and
                    \* the request the data of the WQE describes, if its
                    \* 64-byte chunks are not stamped
  diverged,         \* WorkQueue::divergence_reported
  pc,               \* where the call of post_send is
  first,            \* head when the call began (its requests so far)
  chain,            \* chain_size, a local variable of post_send
  hw,               \* the card's position in the ring
  running,          \* the card was told, and has not met an invalid WQE
  broken,           \* the card has put the queue pair in the error state
  cqes              \* completions the card has reported, oldest first

software == <<head, tail, meta, diverged, pc, first, chain>>
card == <<hw, running, broken, cqes>>
vars == <<head, tail, meta, buf, diverged, pc, first, chain,
          hw, running, broken, cqes>>

-----------------------------------------------------------------------------
NoMeta == [wr |-> -1, size |-> 0]        \* Option::None
Meta == [wr : Index, size : 1 .. Wrap] \cup {NoMeta}
Stamped == -1                            \* a WQE that describes no request
Wqe == [owner : 0 .. 1, wr : Index \cup {Stamped}, signaled : BOOLEAN]
Cqe == [index : Index, wr : Index, signaled : BOOLEAN, error : BOOLEAN]

\* new_send_queue: max_post = wqe_cnt - spare_wqes
MaxPost == Cnt - Spare

Outstanding == Sub(head, tail)
\* Mutant of WouldOverflow: the headroom is not kept free.
WouldOverflowLoose == Outstanding + 1 > Cnt
WouldOverflow == Outstanding + 1 >= MaxPost

\* The ownership bit a WQE of this index carries, and the one its stamp does.
Owner(i) == Round(i)
StampOwner(i) == 1 - Round(i)

\* stamp_wqebb: the first word of every 64-byte chunk becomes 0x?fffffff, so
\* what the WQE described is gone.
Stamp(b, i) ==
  [b EXCEPT ![Slot(i)] = [owner |-> StampOwner(i), wr |-> Stamped,
                          signaled |-> FALSE]]

\* Mutant of MetaForHead: the slot behind the head is used.
MetaForHeadNext ==
  [meta EXCEPT ![Slot(Add(head, 1))] = [wr |-> head, size |-> chain]]

\* update_meta_for_head
MetaForHead ==
  [meta EXCEPT ![Slot(head)] = [wr |-> head, size |-> chain]]

-----------------------------------------------------------------------------
\* QueuePair::create stamps every WQE for the first round before the card
\* gets the buffer.
InitBuf ==
  [s \in Slots |-> [owner |-> StampOwner(s), wr |-> Stamped, signaled |-> FALSE]]

Init ==
  /\ head = 0 /\ tail = 0
  /\ meta = [s \in Slots |-> NoMeta]
  /\ buf = InitBuf
  /\ diverged = FALSE
  /\ pc = "idle" /\ first = 0 /\ chain = 1
  /\ hw = 0 /\ running = FALSE /\ broken = FALSE /\ cqes = <<>>

\* post_send is entered with at least one request, in ReadyToSend.
PostSend ==
  /\ pc = "idle"
  /\ pc' = "next"
  /\ first' = head
  /\ chain' = 1
  /\ UNCHANGED <<head, tail, meta, buf, diverged, card>>

\* Everything of the next request but its owner_opcode word is written.  A
\* caller that never leaves a chain open keeps room for a signaled request.
WriteWqe(sig) ==
  /\ pc = "next"
  /\ ~WouldOverflow
  /\ sig \/ "open" \in Sloppy \/ Outstanding + 2 < MaxPost
  /\ buf' = [buf EXCEPT ![Slot(head)].wr = head, ![Slot(head)].signaled = sig]
  /\ pc' = "written"
  /\ UNCHANGED <<head, tail, meta, diverged, first, chain, card>>

\* ctrl.owner_opcode is set; from here on the card may execute the WQE.
SetOwner ==
  /\ pc = "written"
  /\ buf' = [buf EXCEPT ![Slot(head)] = [owner |-> Owner(head), wr |-> head,
                                         signaled |-> @.signaled]]
  /\ pc' = "owned"
  /\ UNCHANGED <<head, tail, meta, diverged, first, chain, card>>

\* The end of the headroom is stamped.  A signaled request is given the chain
\* of unsignaled ones before it in this call, and the head moves on.
Advance ==
  /\ pc = "owned"
  /\ buf' = Stamp(buf, Add(head, Spare))
  /\ IF buf[Slot(head)].signaled
     THEN meta' = MetaForHead /\ chain' = 1
     ELSE meta' = meta /\ chain' = chain + 1
  /\ head' = Add(head, 1)
  /\ pc' = "next"
  /\ UNCHANGED <<tail, diverged, first, card>>

\* Mutant of RingDoorbell: not for a single request.
RingDoorbellForBatches ==
  /\ pc = "next" /\ head # first
  /\ chain = 1 \/ "open" \in Sloppy
  /\ pc' = "idle"
  /\ running' = (running \/ Sub(head, first) > 1)
  /\ UNCHANGED <<head, tail, meta, buf, diverged, first, chain, hw, broken, cqes>>

\* The last request is written: ring the doorbell and return.
RingDoorbell ==
  /\ pc = "next" /\ head # first
  /\ chain = 1 \/ "open" \in Sloppy
  /\ pc' = "idle"
  /\ running' = TRUE
  /\ UNCHANGED <<head, tail, meta, buf, diverged, first, chain, hw, broken, cqes>>

\* The queue is full, or the next request has too many scatter entries: the
\* call returns an error, without the doorbell.
PostFail ==
  /\ pc = "next"
  /\ head = first \/ "fail" \in Sloppy
  /\ chain = 1 \/ "open" \in Sloppy
  /\ pc' = "idle"
  /\ UNCHANGED <<head, tail, meta, buf, diverged, first, chain, card>>

\* WorkQueue::resolve_completion for the WQE index of a completion
ResolvedMeta(c) == meta[Slot(c.index)]

\* poll_one takes the oldest completion and resolves it.
Poll ==
  /\ pc = "idle" /\ cqes # <<>>
  /\ LET c == Head(cqes) IN
       /\ diverged' = (diverged \/ Slot(tail) # Slot(c.index))
       /\ meta' = [meta EXCEPT ![Slot(c.index)] = NoMeta]
       /\ tail' = Add(tail, ResolvedMeta(c).size)
  /\ cqes' = Tail(cqes)
  /\ UNCHANGED <<head, buf, pc, first, chain, hw, running, broken>>

-----------------------------------------------------------------------------
(* The card (external).  It executes WQEs in ring order, completes a       *)
(* request when it is signaled or failed, and after a failure flushes all  *)
(* later requests with an error.                                           *)

Valid(i) == buf[Slot(i)].owner = Owner(i)

Complete(err) ==
  LET w == buf[Slot(hw)] IN
    IF w.signaled \/ err
    THEN Append(cqes, [index |-> hw, wr |-> w.wr, signaled |-> w.signaled,
                       error |-> err])
    ELSE cqes

CardExecute ==
  /\ running /\ Valid(hw)
  /\ \E err \in {broken, TRUE} :
       /\ broken' = err
       /\ cqes' = Complete(err)
  /\ hw' = Add(hw, 1)
  /\ UNCHANGED <<software, buf, running>>

CardStop ==
  /\ running /\ ~Valid(hw)
  /\ running' = FALSE
  /\ UNCHANGED <<software, buf, hw, broken, cqes>>

Next ==
  \/ PostSend
  \/ \E sig \in Flags : WriteWqe(sig)
  \/ SetOwner
  \/ Advance
  \/ RingDoorbell
  \/ PostFail
  \/ Poll
  \/ CardExecute
  \/ CardStop

Spec == Init /\ [][Next]_vars

-----------------------------------------------------------------------------
\* Ring indices wrap, entries and completions have their types.
TypeOK ==
  /\ head \in Index /\ tail \in Index /\ hw \in Index /\ first \in Index
  /\ meta \in [Slots -> Meta]
  /\ buf \in [Slots -> Wqe]
  /\ diverged \in BOOLEAN /\ running \in BOOLEAN /\ broken \in BOOLEAN
  /\ pc \in {"idle", "next", "written", "owned"}
  /\ chain \in 1 .. Wrap
  /\ cqes \in Seq(Cqe)

\* The end of what the card may execute: the WQE at the head is part of it
\* once its ownership bit is set.
Posted == IF pc = "owned" THEN Add(head, 1) ELSE head

\* No request is overwritten or stamped before the card has executed it: every
\* WQE from the card's position to the head is valid and describes the request
\* posted at its index.
Intact ==
  \A d \in 0 .. Cnt - 1 :
    d < Sub(Posted, hw) => LET i == Add(hw, d)
                           IN  Valid(i) /\ buf[Slot(i)].wr = i

\* A card that runs or prefetches past the last posted WQE finds every chunk of
\* the headroom invalid, the ownership bit and the stamps of the later chunks:
\* 2 KB + 1 WQE while no request is being posted, and 2 KB until the stamp of
\* the request being posted is written.  That request itself stays invalid
\* until all of it is written.
HeadroomInvalid ==
  \A d \in 0 .. Spare - 1 :
    LET i == Add(head, d) IN
      /\ Valid(i) => d = 0 /\ pc = "owned"
      /\ buf[Slot(i)].wr # Stamped => d = 0 /\ pc \in {"written", "owned"}

\* The completion of a signaled request is reported with the wr_id the request
\* was posted with, however the ring has wrapped in between.
ReportsItsRequest ==
  pc = "idle" => \A k \in 1 .. Len(cqes) :
    cqes[k].signaled => ResolvedMeta(cqes[k]).wr = cqes[k].wr

\* The tail never passes the card: a slot counts as free only when the card
\* has executed its request.
TailBehindCard == Sub(hw, tail) <= Sub(Posted, tail)

\* Once the card has executed everything and every completion was polled, no
\* request counts as outstanding any more.
QueueDrains ==
  pc = "idle" /\ hw = head /\ cqes = <<>> => tail = head

\* When every request is signaled the driver's expectation of the next WQE
\* index agrees with the card, so it never reports a divergence.
NoFalseAlarm == ~diverged

\* What a full queue, and a card that rests on a posted request, must leave.
Full == pc = "idle" /\ WouldOverflow
Unhandled == hw # Posted
=============================================================================
