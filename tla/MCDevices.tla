------------------------------ MODULE MCDevices ------------------------------
(***************************************************************************)
(* Drivers against devices that fail, each explored on its own: the         *)
(* kernel's mlx4 driver, whose verbs meet a card that refuses commands,     *)
(* answers late or fails queries, and whose bring-up meets one that fails   *)
(* at any step; the rtl8139 network card; IDE drives.                       *)
(***************************************************************************)
EXTENDS Integers

VARIABLE part     \* the component that runs
VARIABLES contexts, obj, hw, next, uarList, pdNumbers, mapped, late, busy, end
VARIABLES drv, card, eq
VARIABLES receiveDrv, receiveCard
VARIABLES info, init, last, dev, irqOff, irq, disk, pc, req, done, buf, bm,
          frames, old, ret

Any == INSTANCE Verbs WITH
  Proc <- {"p1", "p2"}, MaxCtx <- 2, MaxNum <- 1, Uars <- 2, Pds <- 1,
  Blueflame <- TRUE, Uses <- {}, Faults <- {"refuse", "late", "query"}
Refuse == INSTANCE Verbs WITH
  Proc <- {"p1", "p2"}, MaxCtx <- 2, MaxNum <- 1, Uars <- 2, Pds <- 2,
  Blueflame <- TRUE, Uses <- {}, Faults <- {"refuse"}
Up == INSTANCE Card WITH
  Ports <- 2, RsvdEqs <- 0, MaxFaults <- 2, Entries <- 2, MaxEvents <- 4
Receive == INSTANCE Nic WITH
  Ring <- 4, RECV_QUEUE_CAP <- 2, Descriptors <- 2, IndexMod <- 4,
  Lengths <- {4, 5}, MaxPackets <- 6, MaxSends <- 0, drv <- receiveDrv,
  card <- receiveCard
Transmit == INSTANCE Nic WITH
  Ring <- 4, RECV_QUEUE_CAP <- 2, Descriptors <- 2, IndexMod <- 4,
  Lengths <- {5}, MaxPackets <- 2, MaxSends <- 5, drv <- receiveDrv,
  card <- receiveCard
Drive == INSTANCE Ide WITH
  Sectors <- 9, Byte <- 2, Cnt <- 2, Word <- 2, MaxCount <- 3,
  Kinds <- {<<"lba28", FALSE>>, <<"lba48", TRUE>>},
  Faults <- {"ready", "short"}
Dma == INSTANCE Ide WITH
  Sectors <- 3, Byte <- 2, Cnt <- 2, Word <- 2, MaxCount <- 2,
  Kinds <- {<<"lba48", TRUE>>}, Faults <- {"dma"}

ASSUME BoundsMakeSense ==
  /\ Any!VerbsAssumption
  /\ Refuse!VerbsAssumption
  /\ Up!CardAssumption
  /\ Receive!NicAssumption
  /\ Transmit!NicAssumption
  /\ Drive!IdeAssumption
  /\ Dma!IdeAssumption

anyVars == <<contexts, obj, hw, next, uarList, pdNumbers, mapped, late, busy,
             end>>
upVars == <<drv, card, eq>>
receiveVars == <<receiveDrv, receiveCard>>
driveVars == <<info, init, last, dev, irqOff, irq, disk, pc, req, done, buf,
               bm, frames, old, ret>>
vars == <<part, anyVars, upVars, receiveVars, driveVars>>

\* A component that does not run has no state.
Off == "off"
AnyOff ==
  /\ contexts = Off /\ obj = Off /\ hw = Off /\ next = Off /\ uarList = Off
  /\ pdNumbers = Off /\ mapped = Off /\ late = Off /\ busy = Off
  /\ end = Off
UpOff ==
  /\ drv = Off /\ card = Off /\ eq = Off
ReceiveOff ==
  /\ receiveDrv = Off /\ receiveCard = Off
DriveOff ==
  /\ info = Off /\ init = Off /\ last = Off /\ dev = Off /\ irqOff = Off
  /\ irq = Off /\ disk = Off /\ pc = Off /\ req = Off /\ done = Off
  /\ buf = Off /\ bm = Off /\ frames = Off /\ old = Off /\ ret = Off

Init ==
  \/ /\ part = "any" /\ Any!Init
     /\ UpOff /\ ReceiveOff /\ DriveOff
  \/ /\ part = "refuse" /\ Refuse!Init
     /\ UpOff /\ ReceiveOff /\ DriveOff
  \/ /\ part = "card" /\ Up!Init
     /\ AnyOff /\ ReceiveOff /\ DriveOff
  \/ /\ part = "receive" /\ Receive!Init
     /\ AnyOff /\ UpOff /\ DriveOff
  \/ /\ part = "transmit" /\ Transmit!Init
     /\ AnyOff /\ UpOff /\ DriveOff
  \/ /\ part = "ide" /\ Drive!Init
     /\ AnyOff /\ UpOff /\ ReceiveOff
  \/ /\ part = "dma" /\ Dma!Init
     /\ AnyOff /\ UpOff /\ ReceiveOff

Next ==
  \/ /\ part = "any" /\ Any!Next
     /\ UNCHANGED <<part, upVars, receiveVars, driveVars>>
  \/ /\ part = "refuse" /\ Refuse!Next
     /\ UNCHANGED <<part, upVars, receiveVars, driveVars>>
  \/ /\ part = "card" /\ Up!Next
     /\ UNCHANGED <<part, anyVars, receiveVars, driveVars>>
  \/ /\ part = "receive" /\ Receive!Next
     /\ UNCHANGED <<part, anyVars, upVars, driveVars>>
  \/ /\ part = "transmit" /\ Transmit!Next
     /\ UNCHANGED <<part, anyVars, upVars, driveVars>>
  \/ /\ part = "ide" /\ Drive!Next
     /\ UNCHANGED <<part, anyVars, upVars, receiveVars>>
  \/ /\ part = "dma" /\ Dma!Next
     /\ UNCHANGED <<part, anyVars, upVars, receiveVars>>

Spec == Init /\ [][Next]_vars

-----------------------------------------------------------------------------
\* Whatever commands fail or come late: objects stay in the context of the
\* process that made them, and a UAR page serves one context, and no other after
\* it unless the card has let go of everything (mod.rs, release).
ContextsApart == part = "any" => Any!TypeOK /\ Any!SameContext /\ Any!UarExclusive

\* A card that only refuses: the driver tracks what the card has, objects of two
\* contexts never share a protection domain, and release reports success only
\* when the card holds nothing of the process.
ReleaseExact ==
  part = "refuse" =>
    /\ Refuse!TypeOK /\ Refuse!TrackedExact
    /\ Refuse!ReleaseTellsTruth /\ Refuse!PdExclusive

\* The mlx4 driver brings a card up that may fail at any step (mod.rs, init and
\* abort_init): a driver that is up has everything on the card it needs; after an
\* abort the card maps nothing of ours and every frame is back; only the firmware's
\* frames are ever freed with the card still using them. The interrupt handler
\* (event_queue.rs) sees every event once and in order and re-arms only what it has
\* emptied. The profile's tables do not overlap (profile.rs).
CardExact ==
  part = "card" =>
    /\ Up!TypeOK /\ Up!UpIsComplete /\ Up!AbortIsClean /\ Up!FreedOnlyFirmware
    /\ Up!EventsInOrder /\ Up!NoLostEvent /\ Up!DoorbellOfQueue
    /\ (Up!Init => Up!ProfilePacked /\ Up!TablesRight)

\* The network card (rtl8139.rs) and the network thread: each receive buffer is in
\* one place, packets that wrap around the ring arrive whole and in order, the
\* handler leaves no packet behind with its interrupt cleared, and a packet is sent
\* once, from the descriptor whose turn it is.
NicExact ==
  /\ part = "receive" =>
       /\ Receive!TypeOK /\ Receive!BuffersKept /\ Receive!ReceivedInOrder
       /\ Receive!NoLostInterrupt /\ Receive!SentOnce
  /\ part = "transmit" =>
       /\ Transmit!TypeOK /\ Transmit!BuffersKept /\ Transmit!ReceivedInOrder
       /\ Transmit!NoLostInterrupt /\ Transmit!SentOnce

\* A read or write of an IDE drive (ide.rs) moves exactly the sectors asked for, or
\* the first of them that it reports, on the drive asked for, with LBA28 and LBA48
\* addresses, PIO and DMA. The drive that is taken for selected is the selected one,
\* also after a DMA transfer that timed out and went on.
IdeExact ==
  /\ part = "ide" => Drive!TypeOK /\ Drive!SelectionKnown /\ Drive!TransferExact
  /\ part = "dma" => Dma!TypeOK /\ Dma!SelectionKnown
=============================================================================
