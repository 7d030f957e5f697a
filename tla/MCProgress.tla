----------------------------- MODULE MCProgress ------------------------------
(***************************************************************************)
(* What must happen in the end, for the components that wait: shared        *)
(* memory, pipes, the rings between the application and the card, the       *)
(* interrupt handlers of the two cards and sockets, each explored on its    *)
(* own and used as its callers are meant to: no region is attached late, no *)
(* thread ends with a pipe open, a call of post_send ends with a signaled   *)
(* request.                                                                 *)
(***************************************************************************)
EXTENDS Integers, Sequences

VARIABLE part     \* the component that runs
VARIABLES naming, entry, nextId, area, deleting, freed
VARIABLES pc, want, moved, calls, queue, count, has_reader, has_writer, mutex
VARIABLES head, tail, meta, buf, diverged, sendPc, first, chain, hw, running,
          broken, cqes
VARIABLES receiveHead, receiveTail, receiveMeta, seg, req, receivePc,
          receiveFirst, counter, receiveHw, receiveCqes
VARIABLES cqe, consumer, doorbell, completedPc, popped, producer, writing
VARIABLES drv, card, eq
VARIABLES receivedDrv, receivedCard
VARIABLES net

Shm == INSTANCE SharedMemory WITH
  Proc <- {"p1", "p2"}, Name <- {"n1"}, Area <- {"a1"}, MaxId <- 2,
  Wide <- 8, Uses <- {}
Pipes == INSTANCE Pipe WITH
  Readers <- {"r1"}, Writers <- {"w1"}, Size <- 2, MaxBytes <- 3,
  MaxCalls <- 3, Faults <- {}
Send == INSTANCE SendQueue WITH
  Cnt <- 8, Wrap <- 16, Spare <- 5, Flags <- {TRUE, FALSE}, Sloppy <- {},
  pc <- sendPc
Receive == INSTANCE RecvQueue WITH
  Cnt <- 4, Wrap <- 16, Short <- 8, MaxGs <- 1, MaxPost <- 4,
  MaxRecvWr <- 3, Sloppy <- FALSE, head <- receiveHead, tail <- receiveTail,
  meta <- receiveMeta, pc <- receivePc, first <- receiveFirst,
  hw <- receiveHw, cqes <- receiveCqes
Completed == INSTANCE CompletionQueue WITH
  Cnt <- 4, Narrow <- 8, Wrap <- 16, Completion <- {"c1"},
  NoCompletion <- "none", pc <- completedPc
Up == INSTANCE Card WITH
  Ports <- 0, RsvdEqs <- 0, MaxFaults <- 1, Entries <- 2, MaxEvents <- 5
Received == INSTANCE Nic WITH
  Ring <- 4, Lengths <- {4, 5}, RECV_QUEUE_CAP <- 2, Descriptors <- 2,
  IndexMod <- 4, MaxPackets <- 4, MaxSends <- 0, drv <- receivedDrv,
  card <- receivedCard
Socks == INSTANCE Sockets WITH
  Threads <- {"t1", "t2"}, ProcessOf <- [t1 |-> "p1", t2 |-> "p2"],
  Calls <- {"udp", "drop", "read", "resolve"}, Cleaner <- FALSE, Slots <- 2,
  MaxCalls <- 2, MaxEvents <- 0

ASSUME BoundsMakeSense ==
  /\ Shm!SharedMemoryAssumption
  /\ Pipes!PipeAssumption
  /\ Send!SendQueueAssumption
  /\ Send!RingAssumption
  /\ Receive!RecvQueueAssumption
  /\ Receive!RingAssumption
  /\ Completed!CompletionQueueAssumption
  /\ Completed!RingAssumption
  /\ Up!CardAssumption
  /\ Received!NicAssumption
  /\ Socks!SocketsAssumption

shmVars == <<naming, entry, nextId, area, deleting, freed>>
pipesVars == <<pc, want, moved, calls, queue, count, has_reader, has_writer,
               mutex>>
sendVars == <<head, tail, meta, buf, diverged, sendPc, first, chain, hw,
              running, broken, cqes>>
receiveVars == <<receiveHead, receiveTail, receiveMeta, seg, req, receivePc,
                 receiveFirst, counter, receiveHw, receiveCqes>>
completedVars == <<cqe, consumer, doorbell, completedPc, popped, producer,
                   writing>>
upVars == <<drv, card, eq>>
receivedVars == <<receivedDrv, receivedCard>>
socksVars == <<net>>
vars == <<part, shmVars, pipesVars, sendVars, receiveVars, completedVars,
          upVars, receivedVars, socksVars>>

\* A component that does not run has no state.
Off == "off"
ShmOff ==
  /\ naming = Off /\ entry = Off /\ nextId = Off /\ area = Off
  /\ deleting = Off /\ freed = Off
PipesOff ==
  /\ pc = Off /\ want = Off /\ moved = Off /\ calls = Off /\ queue = Off
  /\ count = Off /\ has_reader = Off /\ has_writer = Off /\ mutex = Off
SendOff ==
  /\ head = Off /\ tail = Off /\ meta = Off /\ buf = Off /\ diverged = Off
  /\ sendPc = Off /\ first = Off /\ chain = Off /\ hw = Off /\ running = Off
  /\ broken = Off /\ cqes = Off
ReceiveOff ==
  /\ receiveHead = Off /\ receiveTail = Off /\ receiveMeta = Off
  /\ seg = Off /\ req = Off /\ receivePc = Off /\ receiveFirst = Off
  /\ counter = Off /\ receiveHw = Off /\ receiveCqes = Off
CompletedOff ==
  /\ cqe = Off /\ consumer = Off /\ doorbell = Off /\ completedPc = Off
  /\ popped = Off /\ producer = Off /\ writing = Off
UpOff ==
  /\ drv = Off /\ card = Off /\ eq = Off
ReceivedOff ==
  /\ receivedDrv = Off /\ receivedCard = Off
SocksOff ==
  /\ net = Off

Init ==
  \/ /\ part = "shm" /\ Shm!Init
     /\ PipesOff /\ SendOff /\ ReceiveOff /\ CompletedOff /\ UpOff
     /\ ReceivedOff /\ SocksOff
  \/ /\ part = "pipe" /\ Pipes!Init
     /\ ShmOff /\ SendOff /\ ReceiveOff /\ CompletedOff /\ UpOff
     /\ ReceivedOff /\ SocksOff
  \/ /\ part = "send" /\ Send!Init
     /\ ShmOff /\ PipesOff /\ ReceiveOff /\ CompletedOff /\ UpOff
     /\ ReceivedOff /\ SocksOff
  \/ /\ part = "receive" /\ Receive!Init
     /\ ShmOff /\ PipesOff /\ SendOff /\ CompletedOff /\ UpOff
     /\ ReceivedOff /\ SocksOff
  \/ /\ part = "completion" /\ Completed!Init
     /\ ShmOff /\ PipesOff /\ SendOff /\ ReceiveOff /\ UpOff /\ ReceivedOff
     /\ SocksOff
  \/ /\ part = "card" /\ Up!Init
     /\ ShmOff /\ PipesOff /\ SendOff /\ ReceiveOff /\ CompletedOff
     /\ ReceivedOff /\ SocksOff
  \/ /\ part = "nic" /\ Received!Init
     /\ ShmOff /\ PipesOff /\ SendOff /\ ReceiveOff /\ CompletedOff /\ UpOff
     /\ SocksOff
  \/ /\ part = "sockets" /\ Socks!Init
     /\ ShmOff /\ PipesOff /\ SendOff /\ ReceiveOff /\ CompletedOff /\ UpOff
     /\ ReceivedOff

Next ==
  \/ /\ part = "shm" /\ Shm!Next
     /\ UNCHANGED <<part, pipesVars, sendVars, receiveVars, completedVars,
                    upVars, receivedVars, socksVars>>
  \/ /\ part = "pipe" /\ Pipes!Next
     /\ UNCHANGED <<part, shmVars, sendVars, receiveVars, completedVars,
                    upVars, receivedVars, socksVars>>
  \/ /\ part = "send" /\ Send!Next
     /\ UNCHANGED <<part, shmVars, pipesVars, receiveVars, completedVars,
                    upVars, receivedVars, socksVars>>
  \/ /\ part = "receive" /\ Receive!Next
     /\ UNCHANGED <<part, shmVars, pipesVars, sendVars, completedVars, upVars,
                    receivedVars, socksVars>>
  \/ /\ part = "completion" /\ Completed!Next
     /\ UNCHANGED <<part, shmVars, pipesVars, sendVars, receiveVars, upVars,
                    receivedVars, socksVars>>
  \/ /\ part = "card" /\ Up!Next
     /\ UNCHANGED <<part, shmVars, pipesVars, sendVars, receiveVars,
                    completedVars, receivedVars, socksVars>>
  \/ /\ part = "nic" /\ Received!Next
     /\ UNCHANGED <<part, shmVars, pipesVars, sendVars, receiveVars,
                    completedVars, upVars, socksVars>>
  \/ /\ part = "sockets" /\ Socks!Next
     /\ UNCHANGED <<part, shmVars, pipesVars, sendVars, receiveVars,
                    completedVars, upVars, receivedVars>>

\* A system call that has begun runs to its end; threads that have a pipe open go
\* on and close it in the end.
CallsFair ==
  /\ \A p \in {"p1", "p2"} : WF_shmVars(part = "shm" /\ Shm!Delete(p))
  /\ \A t \in {"r1", "w1"} : WF_pipesVars(part = "pipe" /\ Pipes!Step(t))

\* A call of post_send or post_receive runs to its end, the card works on, and the
\* application keeps polling: strong fairness, as a poll waits for the call.
PostFair ==
  /\ WF_sendVars(part = "send" /\ \E sig \in BOOLEAN : Send!WriteWqe(sig))
  /\ WF_sendVars(part = "send" /\ Send!SetOwner)
  /\ WF_sendVars(part = "send" /\ Send!Advance)
  /\ WF_sendVars(part = "send" /\ Send!RingDoorbell)
  /\ WF_sendVars(part = "send" /\ Send!PostFail)
  /\ WF_receiveVars(part = "receive" /\ \E n \in 0 .. 1 : Receive!WriteWqe(n))
  /\ WF_receiveVars(part = "receive" /\ Receive!Publish)
  /\ WF_receiveVars(part = "receive" /\ Receive!PostFail)
CardFair ==
  /\ WF_sendVars(part = "send" /\ Send!CardExecute)
  /\ WF_sendVars(part = "send" /\ Send!CardStop)
  /\ WF_completedVars(part = "completion" /\ Completed!CardOwner)
PollFair ==
  /\ SF_sendVars(part = "send" /\ Send!Poll)
  /\ WF_completedVars(part = "completion" /\ Completed!PollBegin)
  /\ WF_completedVars(part = "completion" /\ Completed!ReadCqe)
  /\ WF_completedVars(part = "completion" /\ Completed!PollEnd)
  /\ SF_completedVars(part = "completion" /\ Completed!Probe)


\* The processor takes an interrupt that is pending and runs its handler to the end;
\* the network thread polls in a loop, and takes the packets out of its queue.
HandlersFair ==
  /\ WF_upVars(part = "card" /\ Up!Trigger)
  /\ WF_upVars(part = "card" /\ Up!TryRead)
  /\ WF_upVars(part = "card" /\ Up!consume_entry)
  /\ WF_upVars(part = "card" /\ Up!RingDoorbell)
  /\ WF_receivedVars(part = "nic" /\ Received!Trigger)
  /\ WF_receivedVars(part = "nic" /\ Received!ClearStatus)
  /\ WF_receivedVars(part = "nic" /\ Received!FreeSent)
  /\ WF_receivedVars(part = "nic" /\ Received!process_received_packet)
  /\ WF_receivedVars(part = "nic" /\ Received!receive)
  /\ WF_receivedVars(part = "nic" /\ Received!RxConsume)
SocketsFair ==
  /\ \A t \in {"t1", "t2"} : WF_socksVars(part = "sockets" /\ Socks!Step(t))
  /\ WF_socksVars(part = "sockets" /\ Socks!PollInterfaces)
  /\ WF_socksVars(part = "sockets" /\ Socks!PollSockets)
  /\ WF_socksVars(part = "sockets" /\ Socks!PollDevice)
  /\ WF_socksVars(part = "sockets" /\ Socks!PollCollects)

Spec ==
  /\ Init /\ [][Next]_vars
  /\ CallsFair /\ PostFair /\ CardFair /\ PollFair /\ HandlersFair /\ SocketsFair

-----------------------------------------------------------------------------
\* A region of shared memory that is unlinked and that nobody has attached is
\* deleted (shm.rs, detach and unlink). A socket that its process has dropped leaves
\* the set, although the network thread only tries for the locks (network/mod.rs,
\* poll_sockets).
GarbageCollected ==
  /\ \A i \in Shm!Id : (part = "shm" /\ Shm!Garbage(i)) ~> (part = "shm" /\ freed[i] > 0)
  /\ \A h \in 1 .. 2 :
       (part = "sockets" /\ Socks!Dropped(h)) ~> (part = "sockets" /\ Socks!Collected(h))

\* Every read and every write of a pipe returns once the other side is used or
\* closed (tmpfs.rs).
CallsReturn ==
  \A t \in {"r1", "w1"} :
    (part = "pipe" /\ Pipes!Calling(t)) ~> (part = "pipe" /\ ~Pipes!Calling(t))

\* A full send queue does not stay full, and the card never rests for ever on a
\* request that was posted; what it has executed and the caller has polled is not
\* outstanding any more. Every posted receive is offered to the card (post_receive),
\* and the card never runs out of room for completions for good (poll).
RingsMoveOn ==
  /\ (part = "send" /\ Send!Full) ~> (part = "send" /\ ~Send!Full)
  /\ <>[](part = "send" /\ Send!Unhandled) => []<><<hw' # hw>>_hw
  /\ [](part = "send" => Send!QueueDrains)
  /\ []<>(part = "receive" => counter = receiveHead % 8)
  /\ (part = "completion" /\ ~Completed!Room) ~> (part = "completion" /\ Completed!Room)

\* Every event the mlx4 card posts is reported by the handler, which re-arms the
\* queue (event_queue.rs), and every packet in the ring of the rtl8139 is taken out
\* of it (rtl8139.rs, trigger), also those that come while the handler runs.
EventsServed ==
  /\ \A n \in 1 .. 5 :
       (part = "card" /\ Up!Posted(n)) ~> (part = "card" /\ Up!Reported(n))
  /\ (part = "nic" /\ ~Received!BufferEmpty) ~> (part = "nic" /\ Received!BufferEmpty)
=============================================================================
