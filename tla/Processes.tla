----------------------------- MODULE Processes ------------------------------
(***************************************************************************)
(* Processes and their threads (os/kernel/src/process/process.rs,          *)
(* process_manager.rs, thread.rs; syscall/sys_concurrent.rs; the cleanup   *)
(* thread of boot.rs), on several cores.                                   *)
(*                                                                         *)
(* A process is an Arc that the process manager's lists, every thread and  *)
(* a running loader hold; a thread is an Arc that a queue or a core holds. *)
(* The counts are part of the state: the functions that never return       *)
(* (kickoff, exit) have to drop their references by hand.  Dropping the    *)
(* last reference runs the cleanup handlers and frees the address space.   *)
(*                                                                         *)
(* Queues are sets here (their order is the subject of Scheduler), a kill  *)
(* of a thread on another core is a message that arrives later (doomed).   *)
(***************************************************************************)
EXTENDS Naturals, Sequences, FiniteSets, SequencesExt

CONSTANTS Core, MaxProc, MaxThread,
          Page, Word, MaxBytes   \* sizes of a page and a pointer; bound on files

Kernel == 0
Bsp == CHOOSE c \in Core : TRUE   \* the core that boots
Idle == 0
NoProc == MaxProc + 1

ProcessesAssumption ==
  Core # {} /\ {MaxProc, MaxThread, Page, Word} \subseteq Nat \ {0} /\ MaxBytes \in Nat

VARIABLES
  active,   \* active_processes: a Vec, its first entry is the kernel
  exited,   \* exited_processes
  refs,     \* references to each process; dropped at 0
  dropped,  \* processes whose Drop has run, with the core's own space or not
  thr,      \* the threads ever made: process, state, core it waits on
  trefs,    \* references to each thread
  call,     \* what each thread is doing in the kernel
  doomed,   \* threads with a Kill message under way
  cpu,      \* the current thread of each core
  cr3,      \* the address space each core has loaded
  lock      \* the thread that holds the process manager for writing

vars == <<active, exited, refs, dropped, thr, trefs, call, doomed, cpu, cr3, lock>>

User == [at |-> "user", proc |-> NoProc, kill |-> {}]
Panicked == \E t \in DOMAIN call : call[t].at = "panic"

\* The kernel, and the process of the first application with its thread ready.
Init ==
  /\ active = <<Kernel, 1>> /\ exited = {}
  /\ refs = [p \in 0 .. MaxProc |-> CASE p = Kernel -> 1 [] p = 1 -> 2 [] OTHER -> 0]
  /\ dropped = {}
  /\ thr = <<[proc |-> 1, st |-> "ready", core |-> Bsp]>>
  /\ trefs = <<1>>
  /\ call = <<[User EXCEPT !.at = "kickoff"]>>
  /\ doomed = {}
  /\ cpu = [c \in Core |-> Idle] /\ cr3 = [c \in Core |-> Kernel]
  /\ lock = Idle

Thread == DOMAIN thr
Pids == 1 .. MaxProc
Running(c, t) == t \in Thread /\ cpu[c] = t /\ ~Panicked
NewPid == CHOOSE p \in Pids : refs[p] = 0 /\ p \notin dropped /\
                              \A q \in Pids : q < p => (refs[q] > 0 \/ q \in dropped)
CanMakeProc == \E p \in Pids : refs[p] = 0 /\ p \notin dropped

-----------------------------------------------------------------------------
\* parse_and_map_elf_bin and copy_to_addr_space: what a segment with `file' bytes
\* in the ELF file and `mem' in memory is loaded as.  Whole pages are mapped; the
\* bytes are copied, the rest of the last page and the pages after it are zeroed.
DivCeil(n, d) == (n + d - 1) \div d

ZeroedTail(file) ==
  IF file % Page = 0 THEN {} ELSE file .. DivCeil(file, Page) * Page - 1

\* Mutant of ZeroedBss: the page the file ends in is taken for one of the rest.
ZeroedBssLate(file, mem) == (DivCeil(file, Page) + 1) * Page .. DivCeil(mem, Page) * Page - 1
ZeroedBss(file, mem) == DivCeil(file, Page) * Page .. DivCeil(mem, Page) * Page - 1

Segment(file, mem) ==
  IF mem = 0 \/ file > mem THEN <<>>
  ELSE [b \in 0 .. DivCeil(mem, Page) * Page - 1 |->
          IF b \in ZeroedTail(file) \cup ZeroedBss(file, mem) THEN "zero"
          ELSE IF b < file THEN "file" ELSE "old"]

\* copy_args: the number of arguments, the pointers to them, and the strings, each
\* with a zero byte behind it.  The name of the program comes first.
ArgStart(lens, i) ==
  Word + Word * Len(lens) + FoldFunction(+, 0, [j \in 1 .. i - 1 |-> lens[j] + 1])
Env(lens) ==
  [argc |-> Len(lens), argv |-> [i \in DOMAIN lens |-> ArgStart(lens, i)],
   nul |-> {ArgStart(lens, i) + lens[i] : i \in DOMAIN lens}]

\* Args::next reads a string from where its pointer leads to the first zero byte.
ReadArg(env, i) == (CHOOSE z \in env.nul : z >= env.argv[i] /\
                      \A y \in env.nul : y >= env.argv[i] => z <= y) - env.argv[i]

\* thread_switch: the order in which registers are pushed, from the higher to the
\* lower address, and popped; the return address lies above them.
SwitchPushes ==
  <<"flags", "r8", "r9", "r10", "r11", "r12", "r13", "r14", "r15",
    "rax", "rbx", "rcx", "rdx", "rsi", "rdi", "rbp", "fs", "gs">>
SwitchPops ==
  <<"gs", "fs", "rbp", "rdi", "rsi", "rdx", "rcx", "rbx", "rax",
    "r15", "r14", "r13", "r12", "r11", "r10", "r9", "r8", "flags">>
StartPops == SwitchPops

\* prepare_kernel_stack: what a new stack holds, from its highest word down, and
\* how many words above the saved stack pointer there are.
NewStack == <<"dummy", "kickoff">> \o SwitchPushes
NewStackWords == 20

\* switch_to_user_mode: the words from the saved stack pointer up, read by iretq.
UserFrame == <<"entry", "cs", "flags", "stack", "ss", "dummy">>
IretPops == <<"entry", "cs", "flags", "stack", "ss">>

-----------------------------------------------------------------------------
\* Dropping one reference to a process; the last one drops the process, its
\* handlers first and its address space after them.
Drop(r, d, p) ==
  /\ refs' = [r EXCEPT ![p] = @ - 1]
  /\ dropped' = IF r[p] = 1 THEN d \cup {p} ELSE d

\* Dropping a reference to a thread: the last one gives up its process.
DropThread(t) ==
  /\ trefs' = [trefs EXCEPT ![t] = @ - 1]
  /\ IF trefs[t] = 1 THEN Drop(refs, dropped, thr[t].proc) ELSE UNCHANGED <<refs, dropped>>

\* current_process: with the kernel as the only active process it is the answer
\* to everyone, also to a thread whose process has left the list.
CurrentProcess(t) == IF Len(active) > 1 THEN thr[t].proc ELSE active[1]

NewThread(p, c, st) ==
  /\ thr' = Append(thr, [proc |-> p, st |-> st, core |-> c])
  /\ trefs' = Append(trefs, 1)

\* load_application: the process is made and listed first.
LoadCreate(c, t) ==
  /\ Running(c, t) /\ call[t] = User /\ lock = Idle
  /\ CanMakeProc /\ Len(thr) < MaxThread
  /\ active' = Append(active, NewPid)
  /\ refs' = [refs EXCEPT ![NewPid] = 2]
  /\ call' = [call EXCEPT ![t] = [User EXCEPT !.at = "load", !.proc = NewPid]]
  /\ UNCHANGED <<exited, dropped, thr, trefs, doomed, cpu, cr3, lock>>

\* ... the ELF file is not valid: the process stays in the list without a thread.
LoadFails(c, t) ==
  /\ Running(c, t) /\ call[t].at = "load"
  /\ Drop(refs, dropped, call[t].proc)
  /\ call' = [call EXCEPT ![t] = User]
  /\ UNCHANGED <<active, exited, thr, trefs, doomed, cpu, cr3, lock>>

\* ... its main thread is made, takes over the loader's reference and is ready.
LoadReady(c, t) ==
  /\ Running(c, t) /\ call[t].at = "load" /\ Len(thr) < MaxThread
  /\ NewThread(call[t].proc, c, "ready")
  /\ call' = Append([call EXCEPT ![t] = User], [User EXCEPT !.at = "kickoff"])
  /\ UNCHANGED <<active, exited, refs, dropped, doomed, cpu, cr3, lock>>

\* sys_thread_create: the thread is made under the read lock, and ready later.
ThreadCreate(c, t) ==
  /\ Running(c, t) /\ call[t] = User /\ lock = Idle /\ Len(thr) < MaxThread
  /\ refs' = [refs EXCEPT ![CurrentProcess(t)] = @ + 1]
  /\ NewThread(CurrentProcess(t), c, "new")
  /\ call' = Append([call EXCEPT ![t].at = "made", ![t].kill = {Len(thr) + 1}],
                    [User EXCEPT !.at = "kickoff"])
  /\ UNCHANGED <<active, exited, dropped, doomed, cpu, cr3, lock>>

ThreadReady(c, t) ==
  /\ Running(c, t) /\ call[t].at = "made"
  /\ thr' = [u \in Thread |-> IF u \in call[t].kill THEN [thr[u] EXCEPT !.st = "ready", !.core = c]
                              ELSE thr[u]]
  /\ call' = [call EXCEPT ![t] = User]
  /\ UNCHANGED <<active, exited, refs, dropped, trefs, doomed, cpu, cr3, lock>>

\* Mutant of Kickoff: the reference is kept across the call that never returns.
KickoffKeeps(c, t) ==
  /\ Running(c, t) /\ call[t].at = "kickoff"
  /\ trefs' = [trefs EXCEPT ![t] = @ + 1]
  /\ call' = [call EXCEPT ![t] = User]
  /\ UNCHANGED <<active, exited, refs, dropped, thr, doomed, cpu, cr3, lock>>

\* kickoff_kernel_thread: it looks at the current thread and drops it by hand.
\* A thread of an application that was given to the kernel process has no code to
\* jump to: the page fault is a panic.
Kickoff(c, t) ==
  /\ Running(c, t) /\ call[t].at = "kickoff"
  /\ call' = [call EXCEPT ![t] = IF thr[t].proc = Kernel THEN [User EXCEPT !.at = "panic"] ELSE User]
  /\ UNCHANGED <<active, exited, refs, dropped, thr, trefs, doomed, cpu, cr3, lock>>

-----------------------------------------------------------------------------
Dead(t) == [thr EXCEPT ![t].st = "dead", ![t].core = Bsp]

\* thread_ids: only threads in the ready queue of this core are found.
ThreadIds(c, p) == {u \in Thread : thr[u].st = "ready" /\ thr[u].core = c /\ thr[u].proc = p}

\* kill on core c: a thread that waits on this core goes at once, for another
\* one a message is sent; a thread that is dead is left alone.
Kill(c, u) ==
  IF thr[u].st \in {"ready", "away"} /\ thr[u].core = c
  THEN /\ thr' = Dead(u)
       /\ DropThread(u)
       /\ UNCHANGED doomed
  ELSE /\ doomed' = IF thr[u].st \in {"new", "dead"} THEN doomed ELSE doomed \cup {u}
       /\ UNCHANGED <<thr, trefs, refs, dropped>>

\* sys_thread_kill.
ThreadKill(c, t, u) ==
  /\ Running(c, t) /\ call[t] = User /\ u \in Thread \ {t}
  /\ Kill(c, u)
  /\ UNCHANGED <<active, exited, call, cpu, cr3, lock>>

\* The message reaches the core the thread waits on.
KillArrives(u) ==
  /\ u \in doomed /\ ~Panicked
  /\ \/ /\ thr[u].st \in {"ready", "away"}
        /\ thr' = Dead(u)
        /\ DropThread(u)
     \/ thr[u].st = "dead" /\ UNCHANGED <<thr, trefs, refs, dropped>>
  /\ doomed' = doomed \ {u}
  /\ UNCHANGED <<active, exited, call, cpu, cr3, lock>>

\* sys_process_exit, ProcessManager::exit: the process is looked up, which panics
\* when it has left the list already, and the threads to kill are collected.
ProcessExit(c, t) ==
  /\ Running(c, t) /\ call[t] = User /\ lock = Idle
  /\ IF Contains(active, thr[t].proc)
     THEN /\ lock' = t
          /\ call' = [call EXCEPT ![t] = [User EXCEPT !.at = "exit",
                                            !.kill = ThreadIds(c, thr[t].proc) \ {t}]]
     ELSE call' = [call EXCEPT ![t].at = "panic"] /\ UNCHANGED lock
  /\ UNCHANGED <<active, exited, refs, dropped, thr, trefs, doomed, cpu, cr3>>

ExitKill(c, t, u) ==
  /\ Running(c, t) /\ call[t].at = "exit" /\ u \in call[t].kill
  /\ call' = [call EXCEPT ![t].kill = @ \ {u}]
  /\ Kill(c, u)
  /\ UNCHANGED <<active, exited, cpu, cr3, lock>>

\* Mutant of SwapRemove: the last entry is moved to the front.
SwapRemoveFront(s, i) == <<Last(s)>> \o Front(RemoveAt(s \o <<Last(s)>>, i))

\* Vec::swap_remove: the last entry takes the place of the removed one.
SwapRemove(s, i) == Front([s EXCEPT ![i] = Last(s)])

\* ... and the process moves to the exited ones.
ExitEnd(c, t) ==
  /\ Running(c, t) /\ call[t].at = "exit" /\ call[t].kill = {}
  /\ active' = SwapRemove(active, CHOOSE i \in DOMAIN active : active[i] = thr[t].proc)
  /\ exited' = exited \cup {thr[t].proc}
  /\ lock' = Idle
  /\ call' = [call EXCEPT ![t].at = "leave"]
  /\ UNCHANGED <<refs, dropped, thr, trefs, doomed, cpu, cr3>>

\* The cleanup thread: drop_exited_process.
Cleanup ==
  /\ lock = Idle /\ exited # {} /\ ~Panicked
  /\ exited' = {}
  /\ refs' = [p \in DOMAIN refs |-> IF p \in exited THEN refs[p] - 1 ELSE refs[p]]
  /\ dropped' = dropped \cup {p \in exited : refs[p] = 1}
  /\ UNCHANGED <<active, thr, trefs, call, doomed, cpu, cr3, lock>>

-----------------------------------------------------------------------------
\* The next thread of a core: one of its ready threads, or the idle thread.
Nexts(c) ==
  LET r == {u \in Thread : thr[u].st = "ready" /\ thr[u].core = c}
  IN  IF r = {} THEN {Idle} ELSE r
SpaceOf(t) == IF t = Idle THEN Kernel ELSE thr[t].proc
Runs(f, n) == IF n = Idle THEN f ELSE [f EXCEPT ![n].st = "run", ![n].core = Bsp]

\* scheduler.exit for the thread itself, or after its process: the thread is dead,
\* another one is current, and the reference to the old one is dropped, while the
\* core still has its address space loaded.
ThreadExit(c, t) ==
  /\ Running(c, t) /\ call[t].at \in {"user", "leave"}
  /\ \E n \in Nexts(c) :
       /\ thr' = Runs(Dead(t), n)
       /\ cpu' = [cpu EXCEPT ![c] = n]
  /\ DropThread(t)
  /\ call' = [call EXCEPT ![t].at = "gone"]
  /\ UNCHANGED <<active, exited, doomed, cr3, lock>>

\* Thread::switch after it: the next thread's address space is loaded.
SwitchDone(c) ==
  /\ cr3[c] # SpaceOf(cpu[c]) /\ ~Panicked
  /\ cr3' = [cr3 EXCEPT ![c] = SpaceOf(cpu[c])]
  /\ UNCHANGED <<active, exited, refs, dropped, thr, trefs, call, doomed, cpu, lock>>

\* A thread loses its core: to the timer (it stays ready), or because it waits.
Switch(c, st) ==
  /\ ~Panicked /\ cr3[c] = SpaceOf(cpu[c])
  /\ cpu[c] = Idle => st = "ready"
  /\ \E n \in Nexts(c) :
       /\ n # cpu[c]
       /\ thr' = IF cpu[c] = Idle THEN Runs(thr, n)
                 ELSE Runs([thr EXCEPT ![cpu[c]].st = st, ![cpu[c]].core = c], n)
       /\ cpu' = [cpu EXCEPT ![c] = n]
       /\ cr3' = [cr3 EXCEPT ![c] = SpaceOf(n)]
  /\ UNCHANGED <<active, exited, refs, dropped, trefs, call, doomed, lock>>

\* A waiting thread is woken, or a ready one moves to another core.
Moves(t, c) ==
  /\ ~Panicked /\ t \in Thread
  /\ \/ thr[t].st = "away" /\ thr[t].core = c
     \/ thr[t].st = "ready" /\ thr[t].core # c
  /\ thr' = [thr EXCEPT ![t].st = "ready", ![t].core = c]
  /\ UNCHANGED <<active, exited, refs, dropped, trefs, call, doomed, cpu, cr3, lock>>

Next ==
  \/ \E c \in Core, t \in 1 .. MaxThread :
       \/ LoadCreate(c, t) \/ LoadFails(c, t) \/ LoadReady(c, t)
       \/ ThreadCreate(c, t) \/ ThreadReady(c, t) \/ Kickoff(c, t)
       \/ ProcessExit(c, t) \/ ExitEnd(c, t) \/ ThreadExit(c, t) \/ Moves(t, c)
       \/ \E u \in 1 .. MaxThread : ThreadKill(c, t, u) \/ ExitKill(c, t, u)
  \/ \E u \in 1 .. MaxThread : KillArrives(u)
  \/ \E c \in Core : SwitchDone(c) \/ \E st \in {"ready", "away"} : Switch(c, st)
  \/ Cleanup

Spec == Init /\ [][Next]_vars

-----------------------------------------------------------------------------
TypeOK ==
  /\ active \in Seq(0 .. MaxProc) /\ exited \subseteq Pids
  /\ refs \in [0 .. MaxProc -> Nat] /\ dropped \subseteq Pids
  /\ \A t \in Thread : thr[t].st \in {"new", "ready", "run", "away", "dead"}
  /\ Len(call) = Len(thr) /\ Len(trefs) = Len(thr) /\ doomed \subseteq Thread
  /\ lock \in Thread \cup {Idle}

\* The kernel is the first active process for ever, whatever swap_remove moves;
\* no process is listed twice.
KernelFirst ==
  /\ active[1] = Kernel
  /\ IsInjective(active) /\ exited \cap ToSet(active) = {}

\* References are neither lost nor kept by functions that do not return: a thread
\* is gone once it is dead, and a process once it is in no list, has no thread and
\* is not being loaded (by a thread that was killed in the middle: for ever).
RefsExact ==
  /\ \A t \in Thread : trefs[t] = IF thr[t].st = "dead" THEN 0 ELSE 1
  /\ \A p \in Pids :
       refs[p] = Cardinality({i \in DOMAIN active : active[i] = p})
                 + Cardinality({p} \cap exited)
                 + Cardinality({t \in Thread : thr[t].proc = p /\ thr[t].st # "dead"})
                 + Cardinality({t \in Thread : call[t].at = "load" /\ call[t].proc = p})
  /\ \A p \in dropped : refs[p] = 0

\* An address space outlives its threads, and only a core that is leaving it for
\* good has loaded one that is gone.
SpacesOutliveThreads ==
  /\ \A t \in Thread : thr[t].st # "dead" => thr[t].proc \notin dropped
  /\ \A c \in Core : cr3[c] \in dropped => cr3[c] # SpaceOf(cpu[c])

\* A loaded segment is the file's bytes, zeroes behind them and nothing left over
\* from the frames' last use; a program reads the arguments it was given, from
\* behind the pointers.
LoadedExact ==
  /\ \A mem \in 1 .. MaxBytes, file \in 0 .. MaxBytes :
       LET s == Segment(file, mem)
       IN  file <= mem => \A b \in DOMAIN s : s[b] = IF b < file THEN "file" ELSE "zero"
  /\ \A n \in 1 .. 3 : \A lens \in [1 .. n -> 0 .. 2] :
       \A i \in 1 .. n : /\ ReadArg(Env(lens), i) = lens[i]
                         /\ Env(lens).argv[i] >= Word * (1 + n)

\* A thread finds its registers as it left them, a new one starts at kickoff with
\* the words of its stack in the registers they are for.
FramesMatch ==
  LET up == Reverse(NewStack)
  IN  /\ SwitchPops = Reverse(SwitchPushes)
      /\ Len(NewStack) = NewStackWords
      /\ StartPops = SubSeq(up, 1, Len(StartPops)) /\ up[Len(StartPops) + 1] = "kickoff"
      /\ IretPops = SubSeq(UserFrame, 1, Len(IretPops))

\* "If the last thread of a process terminates, it cannot delete its own address
\* space" (boot.rs): no core frees the address space it runs in.
NoOneDropsItsOwn == \A c \in Core : cr3[c] \notin dropped
=============================================================================
