------------------------------ MODULE WaitQueue ------------------------------
(***************************************************************************)
(* Wait queues: os/kernel/src/sync/wait_queue.rs with the spinlock of      *)
(* sync/irqsave_spinlock.rs and park_current, unblock and yield_now of     *)
(* process/scheduler.rs.                                                   *)
(*                                                                         *)
(* Threads have a core each and are preempted by its timer, but not while  *)
(* they hold or spin for the lock, which keeps interrupts off.  A thread   *)
(* that waits enters itself in the queue, sets its state to Parking and    *)
(* yields; it stays in the ready queue of its core, and tests its          *)
(* condition, and enters itself, again whenever it runs.                   *)
(***************************************************************************)
EXTENDS Naturals, Sequences, FiniteSets, TLAPS

CONSTANTS Waiters, Notifiers,  \* threads
          Core,                \* cores
          Home,                \* the core of a thread
          MaxQueue             \* entries of the queue the model remembers

Thread == Waiters \cup Notifiers

ASSUME WaitAssumption ==
  /\ Waiters \cap Notifiers = {} /\ "none" \notin Thread
  /\ Home \in [Thread -> Core] /\ MaxQueue \in Nat

\* A Home for model checking: every core has a waiter, so that a notifier shares one's.
EveryCoreWaits ==
  CHOOSE h \in [Thread -> Core] : \A c \in Core : \E t \in Waiters : h[t] = c

VARIABLES
  pc,      \* where each thread is
  state,   \* ThreadState
  cur,     \* the thread each core runs
  ready,   \* the ready queue of each core, next thread first
  lock,    \* holder of the spinlock, or "none"
  queue,   \* the queue
  cond,    \* the condition waited for
  woken    \* what the last notify returned: the threads it counted

vars == <<pc, state, cur, ready, lock, queue, cond, woken>>

OnCore(c) == {t \in Thread : Home[t] = c}
Runs(t) == cur[Home[t]] = t
IrqOff(t) == pc[t] \in {"spin", "locked", "nspin", "nlocked"}

Complete(all, c) ==
  Len(all) = Cardinality(OnCore(c)) /\ {all[i] : i \in DOMAIN all} = OnCore(c)

Init ==
  /\ pc = [t \in Thread |-> IF t \in Waiters THEN "idle" ELSE "quiet"]
  /\ state = [t \in Thread |-> "Ready"]
  /\ cur \in [Core -> Thread]
  /\ ready \in [Core -> UNION {[1..n -> Thread] : n \in 0..Cardinality(Thread)}]
  /\ \A c \in Core : Complete(<<cur[c]>> \o ready[c], c)
  /\ lock = "none" /\ queue = <<>> /\ cond = FALSE /\ woken = <<>>

\* The next ready thread runs; the one that ran is queued behind the others.
SwitchOn(c) ==
  /\ ready[c] # <<>>
  /\ cur' = [cur EXCEPT ![c] = Head(ready[c])]
  /\ ready' = [ready EXCEPT ![c] = Append(Tail(@), cur[c])]

Goto(t, l) == pc' = [pc EXCEPT ![t] = l]

-----------------------------------------------------------------------------
\* wait: the condition is tested, and again with the lock held.
Wait(t) ==
  /\ Runs(t) /\ pc[t] = "idle"
  /\ Goto(t, "test")
  /\ UNCHANGED <<state, cur, ready, lock, queue, cond, woken>>

Test(t) ==
  /\ Runs(t) /\ pc[t] = "test"
  /\ Goto(t, IF cond THEN "idle" ELSE "spin")
  /\ UNCHANGED <<state, cur, ready, lock, queue, cond, woken>>

\* IrqSaveSpinlock::lock, with interrupts off.
Lock(t) ==
  /\ Runs(t) /\ pc[t] \in {"spin", "nspin"} /\ lock = "none"
  /\ lock' = t
  /\ Goto(t, IF pc[t] = "spin" THEN "locked" ELSE "nlocked")
  /\ UNCHANGED <<state, cur, ready, queue, cond, woken>>

\* The thread enters itself and parks; the guard is dropped in both cases.
Enter(t) ==
  /\ Runs(t) /\ pc[t] = "locked"
  /\ IF cond THEN Goto(t, "idle") /\ UNCHANGED <<queue, state>>
     ELSE /\ queue' = IF Len(queue) < MaxQueue THEN Append(queue, t) ELSE queue
          /\ state' = [state EXCEPT ![t] = "Parking"]
          /\ Goto(t, "yield")
  /\ lock' = "none"
  /\ UNCHANGED <<cur, ready, cond, woken>>

\* Mutant of Yield: the thread is taken off its core until it is woken.
YieldBlocks(t) ==
  /\ Runs(t) /\ pc[t] = "yield" /\ state[t] # "Parking"
  /\ Goto(t, "test")
  /\ UNCHANGED <<state, cur, ready, lock, queue, cond, woken>>

\* yield_now: another thread of the core runs, if there is one.
Yield(t) ==
  /\ Runs(t) /\ pc[t] = "yield"
  /\ Goto(t, "test")
  /\ \/ ready[Home[t]] = <<>> /\ UNCHANGED <<state, cur, ready>>
     \/ /\ SwitchOn(Home[t])
        /\ state' = [state EXCEPT ![t] = "Ready", ![Head(ready[Home[t]])] = "Running"]
  /\ UNCHANGED <<lock, queue, cond, woken>>

\* Mutant of Preemptible: the lock does not turn interrupts off.
PreemptibleAlways(t) == TRUE
Preemptible(t) == ~IrqOff(t)

\* switch_thread on a timer interrupt.
Timer(c) ==
  /\ Preemptible(cur[c])
  /\ SwitchOn(c)
  /\ UNCHANGED <<pc, state, lock, queue, cond, woken>>

-----------------------------------------------------------------------------
\* A thread makes the condition true, or uses it up, and notifies.
Change(t) ==
  /\ Runs(t) /\ pc[t] = "quiet" /\ cond' \in BOOLEAN
  /\ Goto(t, "nspin")
  /\ UNCHANGED <<state, cur, ready, lock, queue, woken>>

\* unblock, called on the core of t: its blocked_list is empty, because nothing
\* ever blocks, so u is found when it runs on this core or is ready there.
Found(t, u) == Home[u] = Home[t]
Unblocked(t, u) ==
  IF u = t THEN [state EXCEPT ![t] = "Running"]
  ELSE [state EXCEPT ![t] = "Ready"]   \* of the thread that runs, not of u

\* notify_one: the first entry whose thread is found.
NotifyOne(t) ==
  /\ Runs(t) /\ pc[t] = "nlocked"
  /\ LET hits == {i \in DOMAIN queue : Found(t, queue[i])} IN
       IF hits = {} THEN queue' = <<>> /\ woken' = <<>> /\ UNCHANGED state
       ELSE LET i == CHOOSE i \in hits : \A j \in hits : i <= j IN
              /\ queue' = SubSeq(queue, i + 1, Len(queue))
              /\ woken' = <<queue[i]>>
              /\ state' = Unblocked(t, queue[i])
  /\ lock' = "none" /\ Goto(t, "quiet")
  /\ UNCHANGED <<cur, ready, cond>>

\* notify_all: every entry whose thread is found counts.
NotifyAll(t) ==
  /\ Runs(t) /\ pc[t] = "nlocked"
  /\ woken' = SelectSeq(queue, LAMBDA u : Found(t, u))
  /\ queue' = <<>>
  /\ state' = IF woken' = <<>> THEN state ELSE Unblocked(t, woken'[Len(woken')])
  /\ lock' = "none" /\ Goto(t, "quiet")
  /\ UNCHANGED <<cur, ready, cond>>

Step(t) ==
  \/ Test(t) \/ Lock(t) \/ Enter(t) \/ Yield(t) \/ NotifyOne(t) \/ NotifyAll(t)

Next ==
  \/ \E t \in Thread : Step(t)
  \/ \E t \in Waiters : Wait(t)
  \/ \E t \in Notifiers : Change(t)
  \/ \E c \in Core : Timer(c)

\* A thread that runs makes steps, and the timer of a core keeps ticking.
Spec ==
  /\ Init /\ [][Next]_vars
  /\ \A t \in Thread : SF_vars(Step(t))
  /\ \A c \in Core : SF_vars(Timer(c))

-----------------------------------------------------------------------------
\* Threads and lock have their types, and every thread of a core runs there or is
\* ready there, once.
TypeOK ==
  /\ pc \in [Thread -> {"idle", "test", "spin", "locked", "yield", "quiet", "nspin", "nlocked"}]
  /\ state \in [Thread -> {"Ready", "Running", "Parking"}]
  /\ lock \in Thread \cup {"none"}
  /\ \A c \in Core : Complete(<<cur[c]>> \o ready[c], c)
  /\ queue \in Seq(Waiters)

\* The thread that holds the lock runs, so that nobody spins, with interrupts off,
\* on the core that the holder needs.
HolderRuns == lock # "none" => Runs(lock)

\* Once the condition holds for good, every thread that waits for it returns.
WaitersReturn ==
  \A t \in Waiters : (<>[]cond) => []<>(pc[t] = "idle")

-----------------------------------------------------------------------------
\* The inductive invariant behind HolderRuns.  Whoever has interrupts off runs,
\* since neither the timer nor yield_now switches away from it; and a thread is
\* between lock and the end of its guard exactly while it is the holder.
Holding(t) == pc[t] \in {"locked", "nlocked"}
LockInv ==
  /\ pc \in [Thread -> {"idle", "test", "spin", "locked", "yield", "quiet", "nspin", "nlocked"}]
  /\ cur = [c \in Core |-> cur[c]]
  /\ lock \in Thread \cup {"none"}
  /\ \A t \in Thread : IrqOff(t) => Runs(t)
  /\ \A t \in Thread : Holding(t) <=> lock = t

LEMMA LockInvInit == Init => LockInv
BY WaitAssumption DEF Init, LockInv, IrqOff, Holding, Thread

\* A switch on a core whose thread has interrupts on takes nobody off a core who
\* has them off.
LEMMA SwitchKeepsRunning ==
  ASSUME LockInv, NEW c \in Core, SwitchOn(c), ~IrqOff(cur[c]),
         NEW t \in Thread, IrqOff(t)
  PROVE  cur'[Home[t]] = t
<1>1. cur[Home[t]] = t
  BY DEF LockInv, Runs
<1>2. Home[t] # c
  BY <1>1
<1>3. cur' = [cur EXCEPT ![c] = Head(ready[c])] /\ cur = [d \in Core |-> cur[d]]
  BY DEF SwitchOn, LockInv
<1>4. Home[t] \in Core
  BY WaitAssumption
<1> QED BY <1>1, <1>2, <1>3, <1>4

LEMMA LockInvStep == LockInv /\ [Next]_vars => LockInv'
<1> SUFFICES ASSUME LockInv, [Next]_vars PROVE LockInv'
  OBVIOUS
<1> USE DEF LockInv, IrqOff, Holding, Runs, Goto
<1>1. ASSUME NEW t \in Thread, Test(t) PROVE LockInv'
  BY <1>1 DEF Test
<1>2. ASSUME NEW t \in Thread, Lock(t) PROVE LockInv'
  BY <1>2, WaitAssumption DEF Lock
<1>3. ASSUME NEW t \in Thread, Enter(t) PROVE LockInv'
  <2>1. PICK l \in {"idle", "yield"} : pc' = [pc EXCEPT ![t] = l]
    BY <1>3 DEF Enter
  <2>2. lock' = "none" /\ cur' = cur /\ lock = t
    BY <1>3 DEF Enter
  <2> QED BY <2>1, <2>2, WaitAssumption
<1>4. ASSUME NEW t \in Thread, Yield(t) PROVE LockInv'
  <2>1. CASE UNCHANGED <<state, cur, ready>>
    BY <1>4, <2>1 DEF Yield
  <2>2. CASE SwitchOn(Home[t])
    <3>1. Home[t] \in Core /\ cur[Home[t]] = t /\ ~IrqOff(t)
      BY <1>4, WaitAssumption DEF Yield
    <3>2. \A u \in Thread : IrqOff(u) => cur'[Home[u]] = u
      BY <2>2, <3>1, SwitchKeepsRunning
    <3>3. cur' = [c \in Core |-> cur'[c]]
      BY <2>2 DEF SwitchOn
    <3>4. pc' = [pc EXCEPT ![t] = "test"] /\ lock' = lock
      BY <1>4 DEF Yield
    <3> QED BY <1>4, <3>2, <3>3, <3>4 DEF Yield
  <2> QED BY <1>4, <2>1, <2>2 DEF Yield
<1>5. ASSUME NEW t \in Thread, NotifyOne(t) PROVE LockInv'
  BY <1>5, WaitAssumption DEF NotifyOne
<1>6. ASSUME NEW t \in Thread, NotifyAll(t) PROVE LockInv'
  BY <1>6, WaitAssumption DEF NotifyAll
<1>7. ASSUME NEW t \in Waiters, Wait(t) PROVE LockInv'
  BY <1>7 DEF Wait, Thread
<1>8. ASSUME NEW t \in Notifiers, Change(t) PROVE LockInv'
  BY <1>8 DEF Change, Thread
<1>9. ASSUME NEW c \in Core, Timer(c) PROVE LockInv'
  <2>1. \A u \in Thread : IrqOff(u) => cur'[Home[u]] = u
    BY <1>9, SwitchKeepsRunning DEF Timer, Preemptible
  <2>2. cur' = [d \in Core |-> cur'[d]] /\ pc' = pc /\ lock' = lock
    BY <1>9 DEF Timer, SwitchOn
  <2> QED BY <2>1, <2>2
<1>10. CASE UNCHANGED vars
  BY <1>10 DEF vars
<1> QED
  BY <1>1, <1>2, <1>3, <1>4, <1>5, <1>6, <1>7, <1>8, <1>9, <1>10 DEF Next, Step

\* For any threads on any cores: the thread that holds a wait queue's lock
\* (irqsave_spinlock.rs) is the one its core runs, so that no thread of that core
\* ever spins, with interrupts off, for a holder that cannot run.
THEOREM HolderKeepsCore == Spec => []HolderRuns
<1>1. LockInv => HolderRuns
  BY DEF LockInv, HolderRuns, Holding, IrqOff
<1> QED
  BY <1>1, LockInvInit, LockInvStep, PTL DEF Spec
=============================================================================
