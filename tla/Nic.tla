--------------------------------- MODULE Nic ---------------------------------
(***************************************************************************)
(* The RTL8139 driver (src/os/kernel/src/device/rtl8139.rs): the receive    *)
(* ring and its pool of buffers, the four transmit descriptors, the         *)
(* interrupt handler, and the tokens smoltcp receives and sends with.  The  *)
(* card is external: it fills the ring, sends what a descriptor names, and  *)
(* sets bits of the status register.                                        *)
(*                                                                         *)
(* Ring offsets count the 4-byte units a packet with its header is rounded  *)
(* up to; a packet is its number in the order of arrival.                   *)
(***************************************************************************)
EXTENDS Integers, Sequences, FiniteSets, SequencesExt

CONSTANTS Ring,          \* the receive ring in units (8192 bytes / 4)
          Lengths,       \* the lengths of packets with their header, in bytes
          RECV_QUEUE_CAP,
          Descriptors,   \* 4
          IndexMod,      \* the transmit index is a u8
          MaxPackets,    \* bound: packets received
          MaxSends       \* bound: packets sent

VARIABLES drv, card
vars == <<drv, card>>

NicAssumption ==
    /\ Ring \in Nat \ {0} /\ RECV_QUEUE_CAP \in Nat \ {0} /\ Descriptors \in Nat \ {0} /\ IndexMod \in Nat \ {0}
    /\ Lengths \subseteq Nat \ {0} /\ \A l \in Lengths : (l + 3) \div 4 < Ring

\* -------------------------------------------------------------- the card
\* The write offset moves by the packet rounded up; one unit stays unused, so
\* that equal offsets mean an empty buffer.

Units(len) == (len + 3) \div 4
Used == (card.wr - card.rd) % Ring
BufferEmpty == card.wr = card.rd

\* A packet arrives, or there is no room for it.  (The receive configuration
\* accepts no packet with errors, so the header's OK bit is set.)
Arrives ==
    /\ card.arrived < MaxPackets
    /\ \E len \in Lengths :
          LET id == card.arrived + 1
              fits == Used + Units(len) < Ring
          IN  card' = [card EXCEPT !.arrived = id,
                          !.wr = IF fits THEN (@ + Units(len)) % Ring ELSE @,
                          !.ring = IF fits THEN Append(@, [id |-> id, at |-> card.wr, len |-> len]) ELSE @,
                          !.lost = IF fits THEN @ ELSE @ \cup {id},
                          !.status = @ \cup {IF fits THEN "RECEIVE_OK" ELSE "RX_BUFFER_OVERFLOW"}]
    /\ UNCHANGED drv

\* The card has sent the packet of a descriptor.
Transmitted(d) ==
    /\ card.desc[d] # 0
    /\ card' = [card EXCEPT !.desc[d] = 0, !.status = @ \cup {"TRANSMIT_OK"}, !.sent = Append(@, card.desc[d])]
    /\ UNCHANGED drv

\* ------------------------------------------------- Rtl8139TxToken::consume
\* The frame is queued for freeing, then filled, then handed to a descriptor.

TxQueue ==
    /\ drv.tx.pc = "idle" /\ drv.sends < MaxSends
    /\ LET f == drv.sends + 1
       IN  drv' = [drv EXCEPT !.sends = f, !.tx = [pc |-> "filled", frame |-> f], !.send_queue = Append(@, f), !.owned = @ \cup {f}]
    /\ UNCHANGED card

next_transmit_descriptor ==
    /\ drv.tx.pc = "filled"
    /\ drv' = [drv EXCEPT !.tx.pc = "wait", !.index = (@ + 1) % IndexMod]
    /\ UNCHANGED card

Descriptor == ((drv.index - 1) % IndexMod) % Descriptors
available == card.desc[Descriptor] = 0

\* Mutant: the descriptor is not waited for.
TxSendAnyway ==
    /\ drv.tx.pc = "wait"
    /\ card' = [card EXCEPT !.desc[Descriptor] = drv.tx.frame]
    /\ drv' = [drv EXCEPT !.tx = [pc |-> "idle", frame |-> 0]]

TxSend ==
    /\ drv.tx.pc = "wait" /\ available
    /\ card' = [card EXCEPT !.desc[Descriptor] = drv.tx.frame]
    /\ drv' = [drv EXCEPT !.tx = [pc |-> "idle", frame |-> 0]]

\* ------------------------------------------- Rtl8139InterruptHandler::trigger
\* The status is read and cleared, then what was sent is freed, then the ring
\* is emptied.  The handler runs on one core while the card goes on.

Trigger ==
    /\ drv.irq.pc = "idle" /\ card.status # {}
    /\ drv' = [drv EXCEPT !.irq = [pc |-> "read", status |-> card.status]]
    /\ UNCHANGED card

\* Mutant: the status register is cleared altogether, not the bits that were read.
ClearAll ==
    /\ drv.irq.pc = "read"
    /\ card' = [card EXCEPT !.status = {}]
    /\ drv' = [drv EXCEPT !.irq.pc = "free"]

ClearStatus ==
    /\ drv.irq.pc = "read"
    /\ card' = [card EXCEPT !.status = @ \ drv.irq.status]
    /\ drv' = [drv EXCEPT !.irq.pc = "free"]

\* Every queued frame is freed, if the allocator is not locked.
FreeSent ==
    /\ drv.irq.pc = "free"
    /\ \E locked \in BOOLEAN :
          LET frees == "TRANSMIT_OK" \in drv.irq.status /\ ~locked
          IN  drv' = [drv EXCEPT !.irq.pc = IF drv.irq.status \cap {"RECEIVE_OK", "RX_BUFFER_OVERFLOW"} # {} THEN "receive" ELSE "idle",
                          !.send_queue = IF frees THEN <<>> ELSE @,
                          !.owned = IF frees THEN @ \ Range(drv.send_queue) ELSE @]
    /\ UNCHANGED card

\* A mutant: a packet that ends at the end of the ring does not wrap.
NextIndexLate(index, len) == LET i == index + Units(len) IN IF i > Ring THEN i % Ring ELSE i

\* process_received_packet: one round of its loop.
NextIndex(index, len) == LET i == index + Units(len) IN IF i >= Ring THEN i % Ring ELSE i

\* What the header at an offset says (external: the card wrote it).
PacketAt(i) == {k \in DOMAIN card.ring : card.ring[k].at = i}

process_received_packet ==
    /\ drv.irq.pc = "receive"
    /\ IF BufferEmpty THEN drv' = [drv EXCEPT !.irq.pc = "idle"] /\ UNCHANGED card
       ELSE IF PacketAt(drv.read) = {} THEN drv' = [drv EXCEPT !.irq.pc = "lost"] /\ UNCHANGED card
       ELSE LET k == CHOOSE x \in PacketAt(drv.read) : TRUE
                p == card.ring[k]
                to == NextIndex(drv.read, p.len)
                room == drv.empty > 0
            IN  /\ card' = [card EXCEPT !.rd = to, !.ring = RemoveAt(@, k)]
                /\ drv' = [drv EXCEPT !.read = to,
                              !.empty = IF room THEN @ - 1 ELSE @,
                              !.messages = IF room THEN Append(@, p.id) ELSE @,
                              !.dropped = IF room THEN @ ELSE @ \cup {p.id}]

\* --------------------------------------------------- receiving (smoltcp)

receive ==
    /\ drv.token = 0 /\ drv.messages # <<>>
    /\ drv' = [drv EXCEPT !.token = Head(drv.messages), !.messages = Tail(@)]
    /\ UNCHANGED card

\* Rtl8139RxToken::consume: the buffer is empty again; expect("Failed ..").
RxConsume ==
    /\ drv.token # 0
    /\ drv' = [drv EXCEPT !.token = 0, !.delivered = Append(@, drv.token), !.empty = @ + 1]
    /\ UNCHANGED card

Init ==
    /\ drv = [tx |-> [pc |-> "idle", frame |-> 0], index |-> 0, sends |-> 0, send_queue |-> <<>>, owned |-> {},
              irq |-> [pc |-> "idle", status |-> {}], read |-> 0, empty |-> RECV_QUEUE_CAP, messages |-> <<>>,
              dropped |-> {}, token |-> 0, delivered |-> <<>>]
    /\ card = [wr |-> 0, rd |-> 0, ring |-> <<>>, arrived |-> 0, lost |-> {}, status |-> {},
               desc |-> [d \in 0 .. Descriptors - 1 |-> 0], sent |-> <<>>]

Next ==
    \/ Arrives
    \/ \E d \in 0 .. Descriptors - 1 : Transmitted(d)
    \/ TxQueue \/ next_transmit_descriptor \/ TxSend
    \/ Trigger \/ ClearStatus \/ FreeSent \/ process_received_packet
    \/ receive \/ RxConsume

Spec == Init /\ [][Next]_vars

\* ------------------------------------------------------------- properties

TypeOK ==
    /\ drv.empty \in 0 .. RECV_QUEUE_CAP /\ drv.read \in 0 .. Ring - 1 /\ drv.index \in 0 .. IndexMod - 1
    /\ drv.irq.pc \in {"idle", "read", "free", "receive"}

\* The pool's buffers are all somewhere, so that giving one back never fails,
\* and the driver reads the ring where the card has written it.
BuffersKept ==
    /\ drv.empty + Len(drv.messages) + (IF drv.token # 0 THEN 1 ELSE 0) = RECV_QUEUE_CAP
    /\ drv.read = card.rd
    /\ ~BufferEmpty => PacketAt(drv.read) # {}

\* Packets come up in order and once, and one that does not was dropped for want
\* of ring or pool.
ReceivedInOrder ==
    LET up == drv.delivered \o (IF drv.token # 0 THEN <<drv.token>> ELSE <<>>) \o drv.messages \o [i \in DOMAIN card.ring |-> card.ring[i].id]
    IN  /\ \A i, j \in DOMAIN up : i < j => up[i] < up[j]
        /\ Range(up) \cup drv.dropped \cup card.lost = 1 .. card.arrived

\* No packet waits in the ring with nothing to tell the driver of it.
NoLostInterrupt ==
    ~BufferEmpty => \/ card.status \cap {"RECEIVE_OK", "RX_BUFFER_OVERFLOW"} # {}
                    \/ drv.irq.pc # "idle" /\ drv.irq.status \cap {"RECEIVE_OK", "RX_BUFFER_OVERFLOW"} # {}

\* Every packet handed to the card is sent once: no descriptor is overwritten
\* while the card owns it.
SentOnce ==
    \A f \in 1 .. drv.sends : f # drv.tx.frame =>
        Cardinality({i \in DOMAIN card.sent : card.sent[i] = f}) + Cardinality({d \in DOMAIN card.desc : card.desc[d] = f}) = 1

\* TxToken::consume's comment: the buffer is freed after its transmission.
FreedAfterTransmission ==
    \A f \in 1 .. drv.sends : f \in drv.owned \/ f \in Range(card.sent)

=============================================================================
