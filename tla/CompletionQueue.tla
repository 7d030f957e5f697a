--------------------------- MODULE CompletionQueue ---------------------------
(***************************************************************************)
(* The completion queue of the userspace mlx4 provider,                    *)
(* os/library/ibverbs/src/provider/mlx4/completion_queue.rs: a ring of     *)
(* entries (CQEs) the card writes and software reads without a lock        *)
(* between them.  The card writes the byte with the ownership bit of an    *)
(* entry last; software probes that bit first and reads the entry only     *)
(* after it.  Software tells the card how far it has read through a        *)
(* doorbell record of 24 bits, written once for a whole poll.              *)
(*                                                                         *)
(* poll holds the lock on consumer_index throughout, so one poll runs at a *)
(* time.  What a CQE says is a member of Completion.                       *)
(***************************************************************************)
EXTENDS Ring, Sequences

CONSTANTS Narrow,         \* 2^24, the range of the doorbell record
          Completion, NoCompletion

CompletionQueueAssumption ==
  /\ Narrow \in Nat \ {0} /\ Narrow % (2 * Cnt) = 0 /\ Wrap % Narrow = 0
  /\ NoCompletion \notin Completion

VARIABLES
  cqe,            \* the buffer: per slot the ownership bit and the contents
  consumer,       \* consumer_index
  doorbell,       \* update_consumer_index, 24 bits
  pc,             \* where poll is
  popped,         \* what the last poll_one returned
  producer,       \* the card's position
  writing         \* the card has written the contents of the next entry

vars == <<cqe, consumer, doorbell, pc, popped, producer, writing>>

-----------------------------------------------------------------------------
(* The card (external).  Sw2HwCq initialises the ownership of all entries  *)
(* to the card.  An entry is written only if the doorbell says there is    *)
(* room: the application sizes the queue for what it posts.                *)

Room == (producer - doorbell) % Narrow < Cnt

CardWrite(c) ==
  /\ ~writing /\ Room
  /\ cqe' = [cqe EXCEPT ![Slot(producer)].val = c]
  /\ writing' = TRUE
  /\ UNCHANGED <<consumer, doorbell, pc, popped, producer>>

CardOwner ==
  /\ writing
  /\ cqe' = [cqe EXCEPT ![Slot(producer)].owner = Round(producer)]
  /\ producer' = Add(producer, 1)
  /\ writing' = FALSE
  /\ UNCHANGED <<consumer, doorbell, pc, popped>>

-----------------------------------------------------------------------------
Init ==
  /\ cqe = [s \in Slots |-> [owner |-> 1, val |-> NoCompletion]]
  /\ consumer = 0 /\ doorbell = 0
  /\ pc = "idle" /\ popped = NoCompletion
  /\ producer = 0 /\ writing = FALSE

PollBegin ==
  /\ pc = "idle"
  /\ pc' = "probe"
  /\ UNCHANGED <<cqe, consumer, doorbell, popped, producer, writing>>

\* get_cqe_sw: is the entry at the consumer index owned by software?
Owned(i) == cqe[Slot(i)].owner = Round(i)
Probe ==
  /\ pc = "probe"
  /\ Owned(consumer)
  /\ pc' = "read"
  /\ UNCHANGED <<cqe, consumer, doorbell, popped, producer, writing>>

\* Mutant of ReadCqe: the next entry is read.
ReadCqeAhead ==
  /\ pc = "read"
  /\ popped' = cqe[Slot(Add(consumer, 1))].val
  /\ consumer' = Add(consumer, 1)
  /\ pc' = "probe"
  /\ UNCHANGED <<cqe, doorbell, producer, writing>>

\* The rest of the entry is read, the completion filled in, and the index
\* moves on to the next one.
ReadCqe ==
  /\ pc = "read"
  /\ popped' = cqe[Slot(consumer)].val
  /\ consumer' = Add(consumer, 1)
  /\ pc' = "probe"
  /\ UNCHANGED <<cqe, doorbell, producer, writing>>

\* Mutant of PollEnd: the doorbell record is not updated.
PollEndStale ==
  /\ pc = "probe"
  /\ pc' = "idle"
  /\ UNCHANGED <<cqe, consumer, doorbell, popped, producer, writing>>

\* The queue is empty or the caller's slice is full: the doorbell record is
\* updated and poll returns.
PollEnd ==
  /\ pc = "probe"
  /\ doorbell' = consumer % Narrow
  /\ pc' = "idle"
  /\ UNCHANGED <<cqe, consumer, popped, producer, writing>>

Next ==
  \/ \E c \in Completion : CardWrite(c)
  \/ CardOwner
  \/ PollBegin
  \/ Probe
  \/ ReadCqe
  \/ PollEnd

Spec == Init /\ [][Next]_vars

-----------------------------------------------------------------------------
\* Indices are u32 and the doorbell record has 24 bits; the rest has its type.
TypeOK ==
  /\ cqe \in [Slots -> [owner : 0 .. 1, val : Completion \cup {NoCompletion}]]
  /\ consumer \in Index /\ producer \in Index
  /\ doorbell \in 0 .. Narrow - 1
  /\ pc \in {"idle", "probe", "read"}
  /\ popped \in Completion \cup {NoCompletion}
  /\ writing \in BOOLEAN

\* An entry software may read is complete and is not rewritten under it: from
\* the consumer index on, exactly the entries the card has finished and
\* software has not read look owned by software.
OwnershipExact ==
  /\ Sub(producer, consumer) <= Cnt
  /\ \A d \in 0 .. Cnt - 1 :
       Owned(Add(consumer, d)) <=> d < Sub(producer, consumer)

Pending ==
  [k \in 1 .. Sub(producer, consumer) |-> cqe[Slot(Add(consumer, k - 1))].val]

Channel == INSTANCE CompletionChannel WITH queue <- Pending

\* The ring implements the promise of poll: every completion is popped once,
\* in order, with the contents the card gave it.
ChannelStep == [Channel!Next]_<<Pending, popped>>
=============================================================================
