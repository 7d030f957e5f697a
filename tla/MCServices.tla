----------------------------- MODULE MCServices ------------------------------
(***************************************************************************)
(* What the kernel offers to processes, each explored on its own: the tree  *)
(* of tmpfs and procfs, the table of open objects and pipes                 *)
(* (os/kernel/src/naming), processes and their threads                      *)
(* (os/kernel/src/process) and sockets (os/kernel/src/network). A component *)
(* runs several times where threads differ in what they use, or in how well *)
(* they behave.                                                             *)
(***************************************************************************)
EXTENDS Naturals, Sequences

VARIABLE part     \* the component that runs
VARIABLES kind, files, procs, ended, cwd, th
VARIABLES open_handles, free_handles, obj, len, size, has_reader, sharedTh,
          want, panicked
VARIABLES pc, pipesWant, moved, calls, queue, count, pipesHas_reader,
          has_writer, mutex
VARIABLES active, exited, refs, dropped, thr, trefs, call, doomed, cpu, cr3,
          lock
VARIABLES net

\* A directory and a name in it, the mount and names that clash with it.
TreePaths == {<<"a">>, <<"a", "b">>, <<"a", "proc">>, <<"proc", "a">>}
ProcPaths == {<<"proc">>, <<"proc", "p1">>, <<"proc", "ps">>, <<"a">>}

\* Each thread that uses sockets has a process of its own.
Owner == [t1 |-> "p1", t2 |-> "p2"]

Tree == INSTANCE FileTree WITH
  Thread <- {"t1", "t2"}, Pids <- {"p1"}, Paths <- TreePaths, MaxNodes <- 5
Proc == INSTANCE FileTree WITH
  Thread <- {"t1"}, Pids <- {"p1", "p2"}, Paths <- ProcPaths, MaxNodes <- 4
Shared == INSTANCE OpenObjects WITH
  Thread <- {"t1", "t2"}, Handles <- 1, MaxOpens <- 2, MaxSize <- 1,
  Width <- 3, Faults <- {"share", "full"}, th <- sharedTh
Own == INSTANCE OpenObjects WITH
  Thread <- {"t1", "t2"}, Handles <- 2, MaxOpens <- 2, MaxSize <- 2,
  Width <- 3, Faults <- {}, th <- sharedTh
Pipes == INSTANCE Pipe WITH
  Readers <- {"r1", "r2"}, Writers <- {"w1"}, Size <- 2, MaxBytes <- 3,
  MaxCalls <- 3, Faults <- {"exit"}, want <- pipesWant,
  has_reader <- pipesHas_reader
Procs == INSTANCE Processes WITH
  Core <- {"c1", "c2"}, MaxProc <- 2, MaxThread <- 2, Page <- 2, Word <- 2,
  MaxBytes <- 5
Thrs == INSTANCE Processes WITH
  Core <- {"c1", "c2"}, MaxProc <- 1, MaxThread <- 3, Page <- 2, Word <- 2,
  MaxBytes <- 5
Exit == INSTANCE Sockets WITH
  Threads <- {"t1", "t2"}, ProcessOf <- Owner,
  Calls <- {"udp", "icmp", "drop"}, Cleaner <- TRUE, Slots <- 2,
  MaxCalls <- 2, MaxEvents <- 0
Stream == INSTANCE Sockets WITH
  Threads <- {"t1"}, ProcessOf <- [t1 |-> "p1"],
  Calls <- {"listen", "accept", "connect", "write", "read", "drop", "can"},
  Cleaner <- FALSE, Slots <- 3, MaxCalls <- 4, MaxEvents <- 2
Udp == INSTANCE Sockets WITH
  Threads <- {"t1", "t2"}, ProcessOf <- Owner,
  Calls <- {"udp", "drop", "write", "read", "resolve"}, Cleaner <- FALSE,
  Slots <- 2, MaxCalls <- 2, MaxEvents <- 1
Tcp == INSTANCE Sockets WITH
  Threads <- {"t1", "t2"}, ProcessOf <- Owner,
  Calls <- {"connect", "listen", "drop"}, Cleaner <- FALSE, Slots <- 2,
  MaxCalls <- 2, MaxEvents <- 1

ASSUME BoundsMakeSense ==
  /\ Tree!TreeAssumption
  /\ Proc!TreeAssumption
  /\ Shared!ObjectsAssumption
  /\ Own!ObjectsAssumption
  /\ Pipes!PipeAssumption
  /\ Procs!ProcessesAssumption
  /\ Thrs!ProcessesAssumption
  /\ Exit!SocketsAssumption
  /\ Stream!SocketsAssumption
  /\ Udp!SocketsAssumption
  /\ Tcp!SocketsAssumption

treeVars == <<kind, files, procs, ended, cwd, th>>
sharedVars == <<open_handles, free_handles, obj, len, size, has_reader,
                sharedTh, want, panicked>>
pipesVars == <<pc, pipesWant, moved, calls, queue, count, pipesHas_reader,
               has_writer, mutex>>
procsVars == <<active, exited, refs, dropped, thr, trefs, call, doomed, cpu,
               cr3, lock>>
exitVars == <<net>>
vars == <<part, treeVars, sharedVars, pipesVars, procsVars, exitVars>>

\* A component that does not run has no state.
Off == "off"
TreeOff ==
  /\ kind = Off /\ files = Off /\ procs = Off /\ ended = Off /\ cwd = Off
  /\ th = Off
SharedOff ==
  /\ open_handles = Off /\ free_handles = Off /\ obj = Off /\ len = Off
  /\ size = Off /\ has_reader = Off /\ sharedTh = Off /\ want = Off
  /\ panicked = Off
PipesOff ==
  /\ pc = Off /\ pipesWant = Off /\ moved = Off /\ calls = Off
  /\ queue = Off /\ count = Off /\ pipesHas_reader = Off /\ has_writer = Off
  /\ mutex = Off
ProcsOff ==
  /\ active = Off /\ exited = Off /\ refs = Off /\ dropped = Off
  /\ thr = Off /\ trefs = Off /\ call = Off /\ doomed = Off /\ cpu = Off
  /\ cr3 = Off /\ lock = Off
ExitOff ==
  /\ net = Off

Init ==
  \/ /\ part = "tree" /\ Tree!Init
     /\ SharedOff /\ PipesOff /\ ProcsOff /\ ExitOff
  \/ /\ part = "proc" /\ Proc!Init
     /\ SharedOff /\ PipesOff /\ ProcsOff /\ ExitOff
  \/ /\ part = "shared" /\ Shared!Init
     /\ TreeOff /\ PipesOff /\ ProcsOff /\ ExitOff
  \/ /\ part = "own" /\ Own!Init
     /\ TreeOff /\ PipesOff /\ ProcsOff /\ ExitOff
  \/ /\ part = "pipe" /\ Pipes!Init
     /\ TreeOff /\ SharedOff /\ ProcsOff /\ ExitOff
  \/ /\ part = "processes" /\ Procs!Init
     /\ TreeOff /\ SharedOff /\ PipesOff /\ ExitOff
  \/ /\ part = "threads" /\ Thrs!Init
     /\ TreeOff /\ SharedOff /\ PipesOff /\ ExitOff
  \/ /\ part = "exit" /\ Exit!Init
     /\ TreeOff /\ SharedOff /\ PipesOff /\ ProcsOff
  \/ /\ part = "stream" /\ Stream!Init
     /\ TreeOff /\ SharedOff /\ PipesOff /\ ProcsOff
  \/ /\ part = "udp" /\ Udp!Init
     /\ TreeOff /\ SharedOff /\ PipesOff /\ ProcsOff
  \/ /\ part = "tcp" /\ Tcp!Init
     /\ TreeOff /\ SharedOff /\ PipesOff /\ ProcsOff

Next ==
  \/ /\ part = "tree" /\ Tree!Next
     /\ UNCHANGED <<part, sharedVars, pipesVars, procsVars, exitVars>>
  \/ /\ part = "proc" /\ Proc!Next
     /\ UNCHANGED <<part, sharedVars, pipesVars, procsVars, exitVars>>
  \/ /\ part = "shared" /\ Shared!Next
     /\ UNCHANGED <<part, treeVars, pipesVars, procsVars, exitVars>>
  \/ /\ part = "own" /\ Own!Next
     /\ UNCHANGED <<part, treeVars, pipesVars, procsVars, exitVars>>
  \/ /\ part = "pipe" /\ Pipes!Next
     /\ UNCHANGED <<part, treeVars, sharedVars, procsVars, exitVars>>
  \/ /\ part = "processes" /\ Procs!Next
     /\ UNCHANGED <<part, treeVars, sharedVars, pipesVars, exitVars>>
  \/ /\ part = "threads" /\ Thrs!Next
     /\ UNCHANGED <<part, treeVars, sharedVars, pipesVars, exitVars>>
  \/ /\ part = "exit" /\ Exit!Next
     /\ UNCHANGED <<part, treeVars, sharedVars, pipesVars, procsVars>>
  \/ /\ part = "stream" /\ Stream!Next
     /\ UNCHANGED <<part, treeVars, sharedVars, pipesVars, procsVars>>
  \/ /\ part = "udp" /\ Udp!Next
     /\ UNCHANGED <<part, treeVars, sharedVars, pipesVars, procsVars>>
  \/ /\ part = "tcp" /\ Tcp!Next
     /\ UNCHANGED <<part, treeVars, sharedVars, pipesVars, procsVars>>

Spec == Init /\ [][Next]_vars

\* Two processes that open and drop sockets, and exit, while the network thread polls.
ExitSpec ==
  /\ part = "exit" /\ Exit!Init
  /\ TreeOff /\ SharedOff /\ PipesOff /\ ProcsOff
  /\ [][Next]_vars

-----------------------------------------------------------------------------
\* Threads that create the same names at once (api.rs) leave each name once in a
\* directory and nothing under the mount; a directory read to its end
\* (Dir::readdir) gives every entry it had when it was opened, and none twice.
TreeExact ==
  part = "tree" => Tree!TypeOK /\ Tree!NamesUnique /\ Tree!HiddenEmpty /\ Tree!ListComplete

\* A path of tmpfs leads to the same object for ever, and the working directory
\* is a directory or that of a process that has ended.
PathsStable ==
  /\ [](part = "proc" => Proc!TypeOK /\ Proc!CwdIsDir)
  /\ [][part = "proc" => Proc!PathStableStep]_vars

\* Whoever uses and closes handles (open_objects.rs), also those of another thread,
\* a handle is in use exactly when it has an entry, and a file is as long as it
\* tells. Threads that keep to their handles find the position where their calls
\* lead, and the pipe is claimed only while it is open. The count of a pipe
\* (tmpfs.rs) is exact but for bytes about to be counted, and each side of it has
\* one thread at most.
HandlesExact ==
  /\ part = "shared" => Shared!TypeOK /\ Shared!HandlesExact /\ Shared!SizeIsData
  /\ part = "own" => Own!TypeOK /\ Own!ClaimMatches /\ Own!PosExact
  /\ part = "pipe" => Pipes!TypeOK /\ Pipes!CountExact /\ Pipes!OneEach

\* While threads start programs, exit, are killed and are cleaned up after on two
\* cores: the kernel stays the first process, a process has exactly the references
\* its threads and the lists hold (process_manager.rs), the address space a core
\* has loaded outlives the thread that runs in it, and a program finds its file
\* and its zeroed rest in the pages it was given (thread.rs).
ProcessesExact ==
  /\ part = "processes" =>
       /\ Procs!TypeOK /\ Procs!KernelFirst /\ Procs!RefsExact
       /\ Procs!SpacesOutliveThreads /\ Procs!LoadedExact /\ Procs!FramesMatch
  /\ part = "threads" =>
       /\ Thrs!TypeOK /\ Thrs!KernelFirst /\ Thrs!RefsExact
       /\ Thrs!SpacesOutliveThreads /\ Thrs!LoadedExact /\ Thrs!FramesMatch

\* The socket of a handle a process holds is in the set
\* and its own, whatever the network thread collects meanwhile (network/mod.rs); a process
\* that is dropped has none left; there is a route only with an address, and then
\* name servers; what sys_net.rs packs the library unpacks. Without the cleanup, and
\* with calls that take the locks in the order of the network thread, nobody waits
\* in a circle.
SocketsExact ==
  /\ part = "exit" =>
       /\ Exit!TypeOK /\ Exit!SocketsKept /\ Exit!CleanupFindsNone
       /\ Exit!LeaseConsistent /\ (Exit!Init => Exit!ReturnsExact)
  /\ part = "stream" =>
       /\ Stream!TypeOK /\ Stream!SocketsKept /\ Stream!LeaseConsistent
       /\ Stream!NoCircularWait
  /\ part = "udp" =>
       /\ Udp!TypeOK /\ Udp!SocketsKept /\ Udp!LeaseConsistent /\ Udp!NoCircularWait
  /\ part = "tcp" =>
       /\ Tcp!TypeOK /\ Tcp!SocketsKept /\ Tcp!LeaseConsistent /\ Tcp!NoCircularWait

\* What poll_sockets (network/mod.rs) says of its try_lock: the network thread and
\* an application never wait for each other's locks.
PollAvoidsDeadlock == part = "exit" => Exit!PollAvoidsDeadlock
=============================================================================
