-------------------------------- MODULE Ide ---------------------------------
(***************************************************************************)
(* The IDE driver (os/kernel/src/device/ide.rs), with the block devices    *)
(* and partitions on top of it (storage/block.rs, storage/mod.rs) and the  *)
(* two drives of a channel below.                                          *)
(*                                                                         *)
(* A sector is one value.  The registers of the channel are kept, with     *)
(* Byte values in an address register and Cnt in a count register instead  *)
(* of 256, so that requests need every register and several commands.      *)
(* The channel is locked for a whole request: only the drives, the bus     *)
(* master and the interrupt run beside the driver.  Selecting a drive is   *)
(* assumed to last until the next selection, as the driver does.           *)
(*                                                                         *)
(* Faults, which the code meets with a timeout: "ready" (the drive does    *)
(* not answer a request), "short" (nor the next sector of a PIO transfer), *)
(* "select" (nor after the selection), "late" (it could not be selected    *)
(* for a command and answers it), "dma" (a DMA transfer hangs).            *)
(***************************************************************************)
EXTENDS Naturals, Sequences, FiniteSets, FiniteSetsExt

CONSTANTS
  Sectors,    \* sectors of a drive
  Byte, Cnt,  \* values of an address register and of the count register
  Word,       \* sectors that a 16-bit byte index can tell apart
  MaxCount,   \* bound on the sectors of a request
  Kinds,      \* kinds of drives: <<addressing, DMA>>
  Faults

Drive == {0, 1}
NONE == [lba |-> FALSE, drive |-> 2, head |-> 0]    \* u8::MAX

IdeAssumption ==
  /\ {Sectors, Byte, Cnt, Word, MaxCount} \subseteq Nat \ {0}
  /\ Kinds \subseteq {"chs", "lba28", "lba48"} \X BOOLEAN
  /\ Faults \subseteq {"ready", "short", "select", "late", "dma"}

VARIABLES
  info,    \* the drives that were identified, by number
  init,    \* the drive that init_drives looks at next; 2 when it is done
  last,    \* last_device_control: what the driver thinks is selected
  dev,     \* what is selected
  irqOff,  \* interrupts_disabled
  irq,     \* received_interrupt
  disk,    \* the contents of the drives
  pc, req, done, buf,   \* the request under way, sectors processed, its buffer
  bm,      \* the bus master: active, its command and how far it is
  frames,  \* whether the frames of the DMA buffer are allocated
  old, ret \* the drives before the request; what it returned

vars == <<info, init, last, dev, irqOff, irq, disk, pc, req, done, buf, bm, frames, old, ret>>

Fresh(i) == 100 + i     \* the data a request writes
NoReq == [drive |-> 0, mode |-> "read", sector |-> 0, count |-> 0, end |-> Sectors]
NoBm == [on |-> FALSE, drive |-> 0, mode |-> "read", sector |-> 0, count |-> 0, at |-> 0]

Contents == [d \in Drive |-> [s \in 0 .. Sectors - 1 |-> 10 * d + s]]

Init ==
  /\ info = [d \in Drive |-> <<>>] /\ init = 0
  /\ last = NONE /\ dev = [lba |-> FALSE, drive |-> 0, head |-> 0]
  /\ irqOff = FALSE /\ irq = FALSE
  /\ disk = Contents
  /\ pc = "reset" /\ req = NoReq /\ done = 0 /\ buf = [i \in 0 .. MaxCount - 1 |-> 0]
  /\ bm = NoBm /\ frames = FALSE
  /\ old = disk /\ ret = [n |-> 0]

-----------------------------------------------------------------------------
\* Mutant of Cached: the address bits are not compared.
CachedDrive(drive, lba, head) == last # NONE /\ last.drive = drive
\* The drive is selected already: for the drive itself any selection will do, an
\* LBA access needs the same head bits.
Cached(drive, lba, head) ==
  \/ ~lba /\ last # NONE /\ last.drive = drive
  \/ [lba |-> lba, drive |-> drive, head |-> head] = last

\* select_drive: nothing to do; or the drive is busy before or after the register
\* is written; the register is remembered only at the end.
Select(drive, lba, head, ok) ==
  LET s == [lba |-> lba, drive |-> drive, head |-> head]
  IN  IF Cached(drive, lba, head) THEN ok = TRUE /\ UNCHANGED <<last, dev>>
      ELSE \/ ok = TRUE /\ dev' = s /\ last' = s
           \/ ok = FALSE /\ "ready" \in Faults /\ UNCHANGED <<last, dev>>
           \/ ok = FALSE /\ "select" \in Faults /\ dev' = s /\ UNCHANGED last

\* init_drives: one drive after the other is reset, identified and read from.
NextDrive == init' = init + 1 /\ pc' = IF init = 0 THEN "reset" ELSE "idle"

\* reset_drive: the drive cannot be selected, is not there or answers wrongly; the
\* interrupts are disabled once the reset has begun.
ResetDrive ==
  /\ pc = "reset"
  /\ \E ok \in BOOLEAN, there \in BOOLEAN, resets \in BOOLEAN :
       /\ Select(init, FALSE, 0, ok) /\ (there => ok) /\ (resets => there)
       /\ irqOff' = (irqOff \/ there)
       /\ IF resets THEN pc' = "identify" /\ UNCHANGED init ELSE NextDrive
  /\ UNCHANGED <<info, irq, disk, req, done, buf, bm, frames, old, ret>>

\* identify_drive: a drive that answers has its kind of addressing and transfer.
IdentifyDrive ==
  /\ pc = "identify"
  /\ irqOff' = TRUE
  /\ \E ok \in BOOLEAN, kind \in Kinds :
       /\ Select(init, FALSE, 0, ok)
       /\ \/ ok /\ info' = [info EXCEPT ![init] = kind] /\ pc' = "size" /\ UNCHANGED init
          \/ NextDrive /\ UNCHANGED info
  /\ UNCHANGED <<irq, disk, req, done, buf, bm, frames, old, ret>>

\* determine_ata_sector_size: the first sector is read, with prepare_ata_io, until
\* the drive has no more to say.
SectorSize ==
  /\ pc = "size"
  /\ \E ok \in BOOLEAN : Select(init, info[init][1] # "chs", 0, ok)
  /\ NextDrive
  /\ UNCHANGED <<info, irqOff, irq, disk, req, done, buf, bm, frames, old, ret>>

-----------------------------------------------------------------------------
\* The address registers, and the sector a drive finds in them.  An LBA48 access
\* writes each register twice, and the drive keeps both values.
Bits(sector, i) == (sector \div Byte^i) % Byte
LbaToChs(sector, heads, spt) ==
  [c |-> sector \div (heads * spt), h |-> sector % (heads * spt), s |-> sector % spt]

Registers(addressing, sector, count) ==
  CASE addressing = "chs" -> LbaToChs(sector, 2, 2)
    [] addressing = "lba28" -> [low |-> <<0, Bits(sector, 0)>>, mid |-> <<0, Bits(sector, 1)>>,
                                high |-> <<0, Bits(sector, 2)>>, count |-> <<0, count % Cnt>>]
    [] addressing = "lba48" -> [low |-> <<Bits(sector, 3), Bits(sector, 0)>>,
                                mid |-> <<Bits(sector, 4), Bits(sector, 1)>>,
                                high |-> <<Bits(sector, 5), Bits(sector, 2)>>,
                                count |-> <<(count \div Cnt) % Cnt, count % Cnt>>]

HeadBits(addressing, sector) ==
  CASE addressing = "chs" -> LbaToChs(sector, 2, 2).h
    [] addressing = "lba28" -> sector \div Byte^3
    [] addressing = "lba48" -> 0

DevSector(addressing, r) ==
  CASE addressing = "chs" -> (r.c * 2 + dev'.head) * 2 + r.s - 1
    [] addressing = "lba28" -> r.low[2] + Byte * r.mid[2] + Byte^2 * r.high[2] + Byte^3 * dev'.head
    [] addressing = "lba48" -> r.low[2] + Byte * r.mid[2] + Byte^2 * r.high[2]
                               + Byte^3 * r.low[1] + Byte^4 * r.mid[1] + Byte^5 * r.high[1]
DevCount(addressing, r, count) ==
  IF addressing = "chs" THEN count ELSE Cnt * r.count[1] + r.count[2]

\* Partition: a request is cut at its end and passed on.  The sector has been moved
\* before the rest is computed, with 64 bits.
Cut(start, size, sector, count) ==
  Min({count, IF size >= sector + start THEN size - (sector + start) ELSE 2^20})
Partitions == {[start |-> 1, size |-> Sectors - 2], [start |-> 0, size |-> 2]}

-----------------------------------------------------------------------------
\* A request is made.  Its drive may hold anything: every sector starts with a value
\* of its own, whatever the requests before it have written.
Asked(d, mode, sector, count, end) ==
  /\ init = 2 /\ pc = "idle" /\ info[d] # <<>>
  /\ info[d][2] \/ count <= Word
  /\ req' = [drive |-> d, mode |-> mode, sector |-> sector, count |-> count, end |-> end]
  /\ pc' = "select" /\ done' = 0 /\ ret' = [n |-> 0]
  /\ disk' = Contents /\ old' = Contents
  /\ buf' = [i \in 0 .. MaxCount - 1 |-> IF mode = "write" /\ i < count THEN Fresh(i) ELSE 0]
  /\ UNCHANGED <<info, init, last, dev, irqOff, irq, bm, frames>>

\* IdeDrive::read and write.
Ask(d, mode, sector, count) ==
  sector + count <= Sectors /\ Asked(d, mode, sector, count, Sectors)

\* Partition::read and write.
AskPartition(d, p, mode, sector, count) ==
  /\ sector < p.size /\ sector + p.start + Cut(p.start, p.size, sector, count) <= Sectors
  /\ Asked(d, mode, sector + p.start, Cut(p.start, p.size, sector, count), p.start + p.size)

Finish(n) ==
  /\ pc' = "idle"
  /\ ret' = [n |-> n, req |-> req]

\* perform_ata_io: the drive is selected, interrupts are enabled.
SelectDrive ==
  /\ pc = "select"
  /\ \E ok \in BOOLEAN :
       /\ Select(req.drive, FALSE, 0, ok)
       /\ IF ok THEN pc' = "ready" /\ irq' = FALSE /\ irqOff' = FALSE /\ UNCHANGED ret
                ELSE Finish(0) /\ UNCHANGED <<irq, irqOff>>
  /\ UNCHANGED <<info, init, disk, req, done, buf, bm, frames, old>>

Ready ==
  /\ pc = "ready"
  /\ \/ pc' = "chunk" /\ UNCHANGED ret
     \/ "ready" \in Faults /\ Finish(0)
  /\ UNCHANGED <<info, init, last, dev, irqOff, irq, disk, req, done, buf, bm, frames, old>>

\* The loop of perform_ata_io: the next command is for as many sectors as a count
\* register holds.
Chunk ==
  LET max == IF info[req.drive][1] = "lba48" THEN Cnt^2 - 1 ELSE Cnt - 1
  IN  Min({req.count - done, max})
Addressing == info[req.drive][1]

\* prepare_ata_io; whether the drive could be selected is not looked at.
Prepare(ok) == Select(req.drive, Addressing # "chs", HeadBits(Addressing, req.sector + done), ok)
Regs == Registers(Addressing, req.sector + done, Chunk)
At == DevSector(Addressing, Regs)
Answers == At + DevCount(Addressing, Regs, Chunk) <= Sectors

\* The sector's place in the buffer is computed with 16 bits.
Slot(i) == done + (i % Word)

\* perform_ata_pio: n sectors are moved, none when the drive does not answer.
Pio(n) ==
  /\ pc = "chunk" /\ done < req.count /\ ~info[req.drive][2]
  /\ \E ok \in BOOLEAN : Prepare(ok) /\ (n > 0 => ok \/ "late" \in Faults)
  /\ n \in 0 .. Chunk /\ (n > 0 => Answers)
  /\ IF req.mode = "read"
     THEN /\ buf' = [i \in DOMAIN buf |->
                       IF \E j \in 0 .. n - 1 : Slot(j) = i
                       THEN disk[dev'.drive][At + Max({j \in 0 .. n - 1 : Slot(j) = i})] ELSE buf[i]]
          /\ UNCHANGED disk
     ELSE /\ disk' = [disk EXCEPT ![dev'.drive] =
                        [s \in DOMAIN @ |-> IF s \in At .. At + n - 1 THEN buf[Slot(s - At)] ELSE @[s]]]
          /\ UNCHANGED buf
  /\ done' = done + n
  /\ IF n = 0 THEN Finish(done) ELSE UNCHANGED <<pc, ret>>
  /\ n = 0 => "ready" \in Faults \/ ~Answers
  /\ n \in 1 .. Chunk - 1 => "short" \in Faults
  /\ UNCHANGED <<info, init, irqOff, irq, req, bm, frames, old>>

\* perform_ata_dma: buffer and table are allocated, the drive is commanded and the
\* bus master enabled; when the drive does not answer the frames are freed.
DmaStart ==
  /\ pc = "chunk" /\ done < req.count /\ info[req.drive][2]
  /\ \E ok \in BOOLEAN : Prepare(ok) /\ pc' \in {"idle"} \cup (IF ok \/ "late" \in Faults THEN {"dma"} ELSE {})
  /\ \/ /\ Answers
        /\ frames' = TRUE /\ irq' = FALSE /\ pc' = "dma"
        /\ bm' = [on |-> TRUE, drive |-> dev'.drive, mode |-> req.mode, sector |-> At,
                  count |-> DevCount(Addressing, Regs, Chunk), at |-> 0]
        /\ UNCHANGED ret
     \/ /\ "ready" \in Faults \/ ~Answers
        /\ Finish(done)
        /\ UNCHANGED <<frames, irq, bm>>
  /\ UNCHANGED <<info, init, irqOff, disk, req, done, buf, old>>

\* The bus master moves a sector; behind the last one it stops, with an interrupt.
DmaMoves ==
  /\ bm.on /\ bm.at < bm.count
  /\ IF bm.mode = "read"
     THEN buf' = IF pc = "dma" THEN [buf EXCEPT ![done + bm.at] = disk[bm.drive][bm.sector + bm.at]]
                 ELSE buf
     ELSE UNCHANGED buf
  /\ disk' = IF bm.mode = "write"
             THEN [disk EXCEPT ![bm.drive][bm.sector + bm.at] = buf[done + bm.at]] ELSE disk
  /\ bm' = [bm EXCEPT !.at = @ + 1]
  /\ UNCHANGED <<info, init, last, dev, irqOff, irq, pc, req, done, frames, old, ret>>

DmaInterrupt ==
  /\ bm.on /\ bm.at = bm.count
  /\ bm' = [bm EXCEPT !.on = FALSE]
  /\ irq' = TRUE
  /\ UNCHANGED <<info, init, last, dev, irqOff, disk, pc, req, done, buf, frames, old, ret>>

\* The interrupt has come: the transfer is complete, the data is copied to the
\* buffer and the frames are freed.
DmaDone ==
  /\ pc = "dma" /\ irq /\ ~bm.on
  /\ done' = done + Chunk
  /\ frames' = FALSE /\ pc' = "chunk" /\ bm' = NoBm
  /\ UNCHANGED <<info, init, last, dev, irqOff, irq, disk, req, buf, old, ret>>

\* It has not come in time: the frames are freed, the bus master is not stopped.
DmaTimeout ==
  /\ pc = "dma" /\ "dma" \in Faults /\ ~irq
  /\ frames' = FALSE
  /\ Finish(done)
  /\ UNCHANGED <<info, init, last, dev, irqOff, irq, disk, req, done, buf, bm, old>>

EndRequest ==
  /\ pc = "chunk" /\ done >= req.count
  /\ Finish(done)
  /\ UNCHANGED <<info, init, last, dev, irqOff, irq, disk, req, done, buf, bm, frames, old>>

Next ==
  \/ ResetDrive \/ IdentifyDrive \/ SectorSize
  \/ \E d \in Drive, mode \in {"read", "write"}, s \in 0 .. Sectors - 1, n \in 1 .. MaxCount :
       Ask(d, mode, s, n) \/ \E p \in Partitions : AskPartition(d, p, mode, s, n)
  \/ SelectDrive \/ Ready \/ EndRequest
  \/ \E n \in 0 .. MaxCount : Pio(n)
  \/ DmaStart \/ DmaMoves \/ DmaInterrupt \/ DmaDone \/ DmaTimeout

Spec == Init /\ [][Next]_vars

-----------------------------------------------------------------------------
TypeOK ==
  /\ \A d \in Drive : info[d] \in Kinds \cup {<<>>}
  /\ init \in 0 .. 2 /\ dev.drive \in Drive /\ last.drive \in 0 .. 2
  /\ pc \in {"reset", "identify", "size", "idle", "select", "ready", "chunk", "dma"}
  /\ done \in 0 .. MaxCount /\ DOMAIN buf = 0 .. MaxCount - 1

\* While a drive is remembered as selected, it is.
SelectionKnown == last # NONE => last = dev

\* A request moves the sectors it reports, on its own drive and at their place, in
\* as many commands as it takes, and no sector outside it is ever changed.
TransferExact ==
  /\ pc = "idle" /\ ret.n > 0 =>
       \A i \in 0 .. ret.n - 1 :
         LET r == ret.req IN
         IF r.mode = "read" THEN buf[i] = old[r.drive][r.sector + i]
         ELSE disk[r.drive][r.sector + i] = Fresh(i)
  /\ \A d \in Drive, s \in 0 .. Sectors - 1 :
       disk[d][s] # old[d][s] =>
         /\ req.mode = "write" /\ d = req.drive
         /\ s \in req.sector .. req.sector + req.count - 1

\* "Sector boundaries are checked to prevent reading/writing outside the partition"
\* (storage/block.rs): what a partition passes on to its drive ends in it.
PartitionKept == req.sector + req.count <= req.end
=============================================================================
