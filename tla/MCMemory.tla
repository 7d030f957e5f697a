------------------------------ MODULE MCMemory -------------------------------
(***************************************************************************)
(* The memory of the system, each component explored on its own: the boot's *)
(* regions, the two frame allocators, the page tables, the address space of *)
(* a process and shared memory, which meet through the operations one calls *)
(* of the other; then the rings that an application shares with the mlx4    *)
(* card (os/library/ibverbs/src/provider/mlx4): the send queue, the receive *)
(* queue and the completion queue. A component runs twice where its callers *)
(* can use it in ways under which less is promised.                         *)
(***************************************************************************)
EXTENDS Integers, Sequences

VARIABLE part     \* the component that runs
VARIABLES pc, done, available, reserved, limit, heap, fixed, boot_info, given,
          kept, free
VARIABLES list, unseen, listGiven, held, panic
VARIABLES ordersFree, holds, ordersPanic
VARIABLES tree, flat
VARIABLES spaceTree, areas, spacePc, rss, alive
VARIABLES naming, entry, nextId, area, deleting, freed
VARIABLES head, tail, meta, buf, diverged, sendPc, first, chain, hw, running,
          broken, cqes
VARIABLES receiveHead, receiveTail, receiveMeta, seg, req, receivePc,
          receiveFirst, counter, receiveHw, receiveCqes
VARIABLES cqe, consumer, doorbell, completedPc, popped, producer, writing

Boot == INSTANCE BootMemory WITH
  MaxFrame <- 7, MaxAreas <- 2, FixedCount <- 2, HeapFrames <- 2,
  PageSize <- 2, MaxChunk <- 4, Faults <- {}
List == INSTANCE FrameList WITH
  MaxFrame <- 7, given <- listGiven
Orders == INSTANCE FrameOrders WITH
  MaxFrame <- 8, Users <- {"u1", "u2"}, MaxRequest <- 4,
  Ways <- {"whole", "dma"}, free <- ordersFree, panic <- ordersPanic
Whole == INSTANCE FrameOrders WITH
  MaxFrame <- 8, Users <- {"u1", "u2"}, MaxRequest <- 4, Ways <- {"whole"},
  free <- ordersFree, panic <- ordersPanic
Pages == INSTANCE PageTables WITH
  Fanout <- 2, Depth <- 3, Frames <- 15, Holes <- FALSE, MaxMapped <- 4
Space == INSTANCE AddressSpace WITH
  Fanout <- 2, Depth <- 3, Frames <- 15, Thread <- {"t1", "t2"},
  KernelPages <- 2, MaxAreas <- 2, MaxLen <- 2, Uses <- {},
  tree <- spaceTree, pc <- spacePc
Shm == INSTANCE SharedMemory WITH
  Proc <- {"p1", "p2"}, Name <- {"n1", "n2"}, Area <- {"a1", "a2"},
  MaxId <- 2, Wide <- 8, Uses <- {}
Misuse == INSTANCE SharedMemory WITH
  Proc <- {"p1", "p2"}, Name <- {"n1", "n2"}, Area <- {"a1", "a2"},
  MaxId <- 1, Wide <- 8, Uses <- {"late", "again"}
Send == INSTANCE SendQueue WITH
  Cnt <- 8, Wrap <- 16, Spare <- 4, Flags <- {TRUE, FALSE},
  Sloppy <- {"open", "fail"}, pc <- sendPc
Signaled == INSTANCE SendQueue WITH
  Cnt <- 8, Wrap <- 16, Spare <- 3, Flags <- {TRUE}, Sloppy <- {"fail"},
  pc <- sendPc
Receive == INSTANCE RecvQueue WITH
  Cnt <- 4, Wrap <- 8, Short <- 8, MaxGs <- 2, MaxPost <- 3, MaxRecvWr <- 3,
  Sloppy <- TRUE, head <- receiveHead, tail <- receiveTail,
  meta <- receiveMeta, pc <- receivePc, first <- receiveFirst,
  hw <- receiveHw, cqes <- receiveCqes
Full == INSTANCE RecvQueue WITH
  Cnt <- 4, Wrap <- 8, Short <- 8, MaxGs <- 1, MaxPost <- 4, MaxRecvWr <- 3,
  Sloppy <- TRUE, head <- receiveHead, tail <- receiveTail,
  meta <- receiveMeta, pc <- receivePc, first <- receiveFirst,
  hw <- receiveHw, cqes <- receiveCqes
Completed == INSTANCE CompletionQueue WITH
  Cnt <- 4, Narrow <- 8, Wrap <- 16, Completion <- {"c1", "c2"},
  NoCompletion <- "none", pc <- completedPc

ASSUME BoundsMakeSense ==
  /\ Boot!BootAssumption
  /\ List!ListAssumption
  /\ Orders!OrdersAssumption
  /\ Whole!OrdersAssumption
  /\ Pages!PageTablesAssumption
  /\ Pages!PageTreeAssumption
  /\ Space!AddressSpaceAssumption
  /\ Space!PageTreeAssumption
  /\ Shm!SharedMemoryAssumption
  /\ Misuse!SharedMemoryAssumption
  /\ Send!SendQueueAssumption
  /\ Send!RingAssumption
  /\ Signaled!SendQueueAssumption
  /\ Signaled!RingAssumption
  /\ Receive!RecvQueueAssumption
  /\ Receive!RingAssumption
  /\ Full!RecvQueueAssumption
  /\ Full!RingAssumption
  /\ Completed!CompletionQueueAssumption
  /\ Completed!RingAssumption

bootVars == <<pc, done, available, reserved, limit, heap, fixed, boot_info,
              given, kept, free>>
listVars == <<list, unseen, listGiven, held, panic>>
ordersVars == <<ordersFree, holds, ordersPanic>>
pagesVars == <<tree, flat>>
spaceVars == <<spaceTree, areas, spacePc, rss, alive>>
shmVars == <<naming, entry, nextId, area, deleting, freed>>
sendVars == <<head, tail, meta, buf, diverged, sendPc, first, chain, hw,
              running, broken, cqes>>
receiveVars == <<receiveHead, receiveTail, receiveMeta, seg, req, receivePc,
                 receiveFirst, counter, receiveHw, receiveCqes>>
completedVars == <<cqe, consumer, doorbell, completedPc, popped, producer,
                   writing>>
vars == <<part, bootVars, listVars, ordersVars, pagesVars, spaceVars, shmVars,
          sendVars, receiveVars, completedVars>>

\* A component that does not run has no state.
Off == "off"
BootOff ==
  /\ pc = Off /\ done = Off /\ available = Off /\ reserved = Off
  /\ limit = Off /\ heap = Off /\ fixed = Off /\ boot_info = Off
  /\ given = Off /\ kept = Off /\ free = Off
ListOff ==
  /\ list = Off /\ unseen = Off /\ listGiven = Off /\ held = Off
  /\ panic = Off
OrdersOff ==
  /\ ordersFree = Off /\ holds = Off /\ ordersPanic = Off
PagesOff ==
  /\ tree = Off /\ flat = Off
SpaceOff ==
  /\ spaceTree = Off /\ areas = Off /\ spacePc = Off /\ rss = Off
  /\ alive = Off
ShmOff ==
  /\ naming = Off /\ entry = Off /\ nextId = Off /\ area = Off
  /\ deleting = Off /\ freed = Off
SendOff ==
  /\ head = Off /\ tail = Off /\ meta = Off /\ buf = Off /\ diverged = Off
  /\ sendPc = Off /\ first = Off /\ chain = Off /\ hw = Off /\ running = Off
  /\ broken = Off /\ cqes = Off
ReceiveOff ==
  /\ receiveHead = Off /\ receiveTail = Off /\ receiveMeta = Off
  /\ seg = Off /\ req = Off /\ receivePc = Off /\ receiveFirst = Off
  /\ counter = Off /\ receiveHw = Off /\ receiveCqes = Off
CompletedOff ==
  /\ cqe = Off /\ consumer = Off /\ doorbell = Off /\ completedPc = Off
  /\ popped = Off /\ producer = Off /\ writing = Off

Init ==
  \/ /\ part = "boot" /\ Boot!Init
     /\ ListOff /\ OrdersOff /\ PagesOff /\ SpaceOff /\ ShmOff /\ SendOff
     /\ ReceiveOff /\ CompletedOff
  \/ /\ part = "list" /\ List!Init
     /\ BootOff /\ OrdersOff /\ PagesOff /\ SpaceOff /\ ShmOff /\ SendOff
     /\ ReceiveOff /\ CompletedOff
  \/ /\ part = "orders" /\ Orders!Init
     /\ BootOff /\ ListOff /\ PagesOff /\ SpaceOff /\ ShmOff /\ SendOff
     /\ ReceiveOff /\ CompletedOff
  \/ /\ part = "whole" /\ Whole!Init
     /\ BootOff /\ ListOff /\ PagesOff /\ SpaceOff /\ ShmOff /\ SendOff
     /\ ReceiveOff /\ CompletedOff
  \/ /\ part = "pages" /\ Pages!Init
     /\ BootOff /\ ListOff /\ OrdersOff /\ SpaceOff /\ ShmOff /\ SendOff
     /\ ReceiveOff /\ CompletedOff
  \/ /\ part = "space" /\ Space!Init
     /\ BootOff /\ ListOff /\ OrdersOff /\ PagesOff /\ ShmOff /\ SendOff
     /\ ReceiveOff /\ CompletedOff
  \/ /\ part = "shm" /\ Shm!Init
     /\ BootOff /\ ListOff /\ OrdersOff /\ PagesOff /\ SpaceOff /\ SendOff
     /\ ReceiveOff /\ CompletedOff
  \/ /\ part = "misuse" /\ Misuse!Init
     /\ BootOff /\ ListOff /\ OrdersOff /\ PagesOff /\ SpaceOff /\ SendOff
     /\ ReceiveOff /\ CompletedOff
  \/ /\ part = "send" /\ Send!Init
     /\ BootOff /\ ListOff /\ OrdersOff /\ PagesOff /\ SpaceOff /\ ShmOff
     /\ ReceiveOff /\ CompletedOff
  \/ /\ part = "signaled" /\ Signaled!Init
     /\ BootOff /\ ListOff /\ OrdersOff /\ PagesOff /\ SpaceOff /\ ShmOff
     /\ ReceiveOff /\ CompletedOff
  \/ /\ part = "receive" /\ Receive!Init
     /\ BootOff /\ ListOff /\ OrdersOff /\ PagesOff /\ SpaceOff /\ ShmOff
     /\ SendOff /\ CompletedOff
  \/ /\ part = "full" /\ Full!Init
     /\ BootOff /\ ListOff /\ OrdersOff /\ PagesOff /\ SpaceOff /\ ShmOff
     /\ SendOff /\ CompletedOff
  \/ /\ part = "completion" /\ Completed!Init
     /\ BootOff /\ ListOff /\ OrdersOff /\ PagesOff /\ SpaceOff /\ ShmOff
     /\ SendOff /\ ReceiveOff

Next ==
  \/ /\ part = "boot" /\ Boot!Next
     /\ UNCHANGED <<part, listVars, ordersVars, pagesVars, spaceVars, shmVars,
                    sendVars, receiveVars, completedVars>>
  \/ /\ part = "list" /\ List!Next
     /\ UNCHANGED <<part, bootVars, ordersVars, pagesVars, spaceVars, shmVars,
                    sendVars, receiveVars, completedVars>>
  \/ /\ part = "orders" /\ Orders!Next
     /\ UNCHANGED <<part, bootVars, listVars, pagesVars, spaceVars, shmVars,
                    sendVars, receiveVars, completedVars>>
  \/ /\ part = "whole" /\ Whole!Next
     /\ UNCHANGED <<part, bootVars, listVars, pagesVars, spaceVars, shmVars,
                    sendVars, receiveVars, completedVars>>
  \/ /\ part = "pages" /\ Pages!Next
     /\ UNCHANGED <<part, bootVars, listVars, ordersVars, spaceVars, shmVars,
                    sendVars, receiveVars, completedVars>>
  \/ /\ part = "space" /\ Space!Next
     /\ UNCHANGED <<part, bootVars, listVars, ordersVars, pagesVars, shmVars,
                    sendVars, receiveVars, completedVars>>
  \/ /\ part = "shm" /\ Shm!Next
     /\ UNCHANGED <<part, bootVars, listVars, ordersVars, pagesVars,
                    spaceVars, sendVars, receiveVars, completedVars>>
  \/ /\ part = "misuse" /\ Misuse!Next
     /\ UNCHANGED <<part, bootVars, listVars, ordersVars, pagesVars,
                    spaceVars, sendVars, receiveVars, completedVars>>
  \/ /\ part = "send" /\ Send!Next
     /\ UNCHANGED <<part, bootVars, listVars, ordersVars, pagesVars,
                    spaceVars, shmVars, receiveVars, completedVars>>
  \/ /\ part = "signaled" /\ Signaled!Next
     /\ UNCHANGED <<part, bootVars, listVars, ordersVars, pagesVars,
                    spaceVars, shmVars, receiveVars, completedVars>>
  \/ /\ part = "receive" /\ Receive!Next
     /\ UNCHANGED <<part, bootVars, listVars, ordersVars, pagesVars,
                    spaceVars, shmVars, sendVars, completedVars>>
  \/ /\ part = "full" /\ Full!Next
     /\ UNCHANGED <<part, bootVars, listVars, ordersVars, pagesVars,
                    spaceVars, shmVars, sendVars, completedVars>>
  \/ /\ part = "completion" /\ Completed!Next
     /\ UNCHANGED <<part, bootVars, listVars, ordersVars, pagesVars,
                    spaceVars, shmVars, sendVars, receiveVars>>

Spec == Init /\ [][Next]_vars

-----------------------------------------------------------------------------
\* Booting hands the allocator every frame of the memory map that is not in
\* use, and no other: after each insertion and reservation (boot_memory.rs) the
\* regions are exact and apart, the gaps complement the reserved regions, and
\* none of the chunks is refused. In the list of free blocks (frames.rs) neighbours
\* are fused after any order of frees, and a frame is free or held and never both.
\* Blocks LLFree (frames_lf.rs) gives out are large enough, aligned and apart,
\* whoever frees in between. What was allocated is accepted back, by LLFree if it is
\* freed with the size asked for.
FramesExact ==
  /\ part = "boot" =>
       /\ Boot!TypeOK /\ Boot!SetsApart /\ Boot!AvailableExact /\ Boot!Complement
       /\ Boot!NotRefused /\ Boot!FreeExact
  /\ part = "list" => List!TypeOK /\ List!ListFused /\ List!FreeAccepted /\ List!FramesKept
  /\ part = "orders" => Orders!TypeOK /\ Orders!Disjoint /\ Orders!EnoughAligned
  /\ part = "whole" => Whole!TypeOK /\ Whole!FreeAccepted

\* Every step of the list is a step of the promised allocator (FrameService): an
\* allocation fails only if no run is long enough. A block given back to LLFree
\* is free with all its frames.
FramesPromised ==
  /\ part = "list" => List!Promise!Init
  /\ [][/\ part = "list" => List!PromiseStep
        /\ part = "whole" => Whole!NoneLostStep]_vars

\* After any maps, unmaps and changes of flags the page tables (pages.rs) translate
\* every page as the calls asked for; frames are neither lost nor freed twice, and a
\* table is there exactly while a page beneath it is in use. While threads allocate,
\* map, fault and free (vmm.rs), areas stay apart, pages are mapped as their area was
\* allocated, rss counts them, and the end of the process gives every frame back.
MappingsExact ==
  /\ part = "pages" =>
       /\ Pages!TypeOK /\ Pages!TranslateExact
       /\ Pages!FramesAccounted /\ Pages!TablesTrimmed
  /\ part = "space" =>
       /\ Space!TypeOK /\ Space!AreasDisjoint /\ Space!MappedAsAllocated
       /\ Space!EndGivesBack /\ Space!RssExact

\* Shared memory: the counter is the number of attached areas and frames are not
\* freed under a mapping; even if regions are attached late or detached twice, a
\* region is freed once and no name leads to a freed one.
RegionsExact ==
  /\ part = "shm" => Shm!TypeOK /\ Shm!CounterExact /\ Shm!MappedNotFreed
  /\ part = "misuse" => Misuse!TypeOK /\ Misuse!NameNeverDangles /\ Misuse!FreedOnce

\* However post_send and the card interleave and the ring wraps, the card finds
\* what was posted, finds the headroom behind it invalid, and is never passed by
\* the tail. It never consumes more receives than are outstanding, and their
\* scatter lists end where the request's do; what is consumed and polled is free
\* again.
QueuesIntact ==
  /\ part = "send" =>
       Send!TypeOK /\ Send!Intact /\ Send!HeadroomInvalid /\ Send!TailBehindCard
  /\ part = "receive" =>
       /\ Receive!TypeOK /\ Receive!CardWithinOutstanding
       /\ Receive!ScatterListExact /\ Receive!QueueDrains
  /\ part = "full" =>
       /\ Full!TypeOK /\ Full!CardWithinOutstanding
       /\ Full!ScatterListExact /\ Full!QueueDrains

\* A completion is reported with the wr_id of its request (resolve_wr_id). When
\* every request is signaled the driver never takes one for lost.
ReportsItsRequest ==
  /\ part = "send" => Send!ReportsItsRequest
  /\ part = "signaled" => Signaled!TypeOK /\ Signaled!ReportsItsRequest /\ Signaled!NoFalseAlarm
  /\ part = "receive" => Receive!ReportsItsRequest
  /\ part = "full" => Full!ReportsItsRequest

\* Every step of the ring of completions is a step of the channel that poll
\* promises (CompletionChannel), or none: through every wrap, exactly the entries
\* the card has finished and software has not read look owned by software.
ImplementsChannel ==
  /\ part = "completion" => Completed!Channel!Init
  /\ [](part = "completion" => Completed!TypeOK /\ Completed!OwnershipExact)
  /\ [][part = "completion" => Completed!ChannelStep]_vars
=============================================================================
