------------------------------ MODULE RecvQueue ------------------------------
(***************************************************************************)
(* The receive queue of a queue pair of the userspace mlx4 provider,       *)
(* os/library/ibverbs/src/provider/mlx4/queue_pair.rs.                     *)
(*                                                                         *)
(* A receive WQE is a list of max_gs data segments, ended by a terminator  *)
(* unless it is full.  The card learns of new WQEs from a counter in host  *)
(* memory, the low 16 bits of the head, that post_receive writes once for  *)
(* the whole call; it consumes WQEs in order, one per incoming message.    *)
(*                                                                         *)
(* As in SendQueue, a request is identified by the index it was posted at, *)
(* and calls of software exclude each other.  A WQE is written in one step *)
(* because the card does not look at it before the counter covers it.      *)
(***************************************************************************)
EXTENDS Ring, Sequences

CONSTANTS MaxGs,      \* max_gs, segments of a WQE
          MaxPost,    \* max_post
          Short,      \* 2^16, the range of the counter the card reads
          MaxRecvWr,  \* max_recv_wr the queue pair was created with
          Sloppy      \* a call may fail after some requests were posted

RecvQueueAssumption ==
  /\ MaxGs \in Nat \ {0}
  /\ Short \in Nat \ {0} /\ Short % Cnt = 0 /\ Wrap % Short = 0
  /\ MaxPost \in 2 .. Cnt       \* max_post is cut to wqe_cnt
  /\ MaxRecvWr \in 0 .. MaxPost
  /\ Sloppy \in BOOLEAN

VARIABLES
  head, tail, meta,   \* of the WorkQueue; meta is the wr_id or NoWr
  seg,                \* the buffer: seg[slot][k], k-th segment of a WQE
  req,                \* per slot, the request last posted there
  pc, first,          \* the call of post_receive, and head when it began
  counter,            \* receive_wqe_counter
  hw,                 \* the card's position, 16 bits
  cqes                \* receive completions, oldest first

vars == <<head, tail, meta, seg, req, pc, first, counter, hw, cqes>>

NoWr == -1
Last == -2            \* WqeDataSegment::last()
Segment == 1 .. MaxGs
Request == [wr : Index \cup {NoWr}, sges : 0 .. MaxGs]

-----------------------------------------------------------------------------
Outstanding == Sub(head, tail)
WouldOverflow == Outstanding + 1 >= MaxPost

\* Mutant of Written: there is no terminator.
WrittenUnended(old, i, n) == [k \in Segment |-> IF k <= n THEN i ELSE old[k]]

\* The WQE with n segments of request i written over its old contents, and
\* its terminator if a segment is left.
Written(old, i, n) ==
  [k \in Segment |-> IF k <= n THEN i ELSE IF k = n + 1 THEN Last ELSE old[k]]

\* What the card scatters into: the segments before the terminator.
ScatterList(w) ==
  {k \in Segment : \A j \in 1 .. k : w[j] # Last}

Init ==
  /\ head = 0 /\ tail = 0
  /\ meta = [s \in Slots |-> NoWr]
  /\ seg = [s \in Slots |-> [k \in Segment |-> NoWr]]
  /\ req = [s \in Slots |-> [wr |-> NoWr, sges |-> 0]]
  /\ pc = "idle" /\ first = 0
  /\ counter = 0 /\ hw = 0 /\ cqes = <<>>

PostReceive ==
  /\ pc = "idle"
  /\ pc' = "next"
  /\ first' = head
  /\ UNCHANGED <<head, tail, meta, seg, req, counter, hw, cqes>>

\* One turn of the loop: segments, metadata, terminator, head.
WriteWqe(n) ==
  /\ pc = "next"
  /\ ~WouldOverflow
  /\ seg' = [seg EXCEPT ![Slot(head)] = Written(@, head, n)]
  /\ req' = [req EXCEPT ![Slot(head)] = [wr |-> head, sges |-> n]]
  /\ meta' = [meta EXCEPT ![Slot(head)] = head]
  /\ head' = Add(head, 1)
  /\ UNCHANGED <<tail, pc, first, counter, hw, cqes>>

\* The counter is published and the call returns.
Publish ==
  /\ pc = "next" /\ head # first
  /\ counter' = head % Short
  /\ pc' = "idle"
  /\ UNCHANGED <<head, tail, meta, seg, req, first, hw, cqes>>

\* The queue is full or the next request has too many entries: an error is
\* returned and the counter stays as it was.
PostFail ==
  /\ pc = "next"
  /\ head = first \/ Sloppy
  /\ pc' = "idle"
  /\ UNCHANGED <<head, tail, meta, seg, req, first, counter, hw, cqes>>

\* poll_one and resolve_completion.
Poll ==
  /\ pc = "idle" /\ cqes # <<>>
  /\ LET s == Slot(Head(cqes).index) IN
       /\ meta' = [meta EXCEPT ![s] = NoWr]
       /\ tail' = IF meta[s] = NoWr THEN tail ELSE Add(tail, 1)
  /\ cqes' = Tail(cqes)
  /\ UNCHANGED <<head, seg, req, pc, first, counter, hw>>

\* The card (external): a message consumes the next WQE it was told of.
CardReceive ==
  /\ hw # counter
  /\ cqes' = Append(cqes, [index |-> hw, wr |-> req[Slot(hw)].wr])
  /\ hw' = (hw + 1) % Short
  /\ UNCHANGED <<head, tail, meta, seg, req, pc, first, counter>>

Next ==
  \/ PostReceive
  \/ \E n \in 0 .. MaxGs : WriteWqe(n)
  \/ Publish
  \/ PostFail
  \/ Poll
  \/ CardReceive

Spec == Init /\ [][Next]_vars

-----------------------------------------------------------------------------
\* Ring indices wrap, work requests and segments have their types.
TypeOK ==
  /\ head \in Index /\ tail \in Index /\ first \in Index
  /\ meta \in [Slots -> Index \cup {NoWr}]
  /\ seg \in [Slots -> [Segment -> Index \cup {NoWr, Last}]]
  /\ req \in [Slots -> Request]
  /\ pc \in {"idle", "next"}
  /\ counter \in 0 .. Short - 1 /\ hw \in 0 .. Short - 1
  /\ cqes \in Seq([index : 0 .. Short - 1, wr : Index \cup {NoWr}])

\* The WQEs the card may consume
Told == (counter - hw) % Short

\* A WQE the card may consume holds exactly the scatter list of the request
\* posted there: no segment is missing, spilled over from a neighbour or left
\* from an earlier round.
ScatterListExact ==
  \A d \in 0 .. Cnt - 1 :
    d < Told =>
      LET s == Slot(hw + d) IN
        /\ ScatterList(seg[s]) = 1 .. req[s].sges
        /\ \A k \in 1 .. req[s].sges : seg[s][k] = req[s].wr

\* The completion of a receive is reported with the wr_id of the request whose
\* buffers the message went to.
ReportsItsRequest ==
  \A k \in 1 .. Len(cqes) : meta[Slot(cqes[k].index)] = cqes[k].wr

\* The card has consumed no WQE that counts as free, and was told of no WQE
\* that was not posted: what it consumed and what it may consume are together
\* no more than what is outstanding.
CardWithinOutstanding == Len(cqes) + Told <= Outstanding

\* Once everything that was posted is consumed and polled, the queue is empty.
QueueDrains ==
  pc = "idle" /\ cqes = <<>> /\ hw = head % Short => tail = head
=============================================================================
