------------------------------ MODULE Scheduler ------------------------------
(***************************************************************************)
(* The per-core scheduler of the kernel (kernel/src/process/scheduler.rs). *)
(* Every core owns a ready queue, a sleep list and a join map, all three   *)
(* touched only by code running on that core with its `ready_state` lock   *)
(* held.  Cores interact through four things alone: the global set of      *)
(* living thread ids, the bounded inbox of each core, the exported         *)
(* run-queue lengths and the reschedule flags.                             *)
(*                                                                         *)
(* An operation that talks to other cores is several steps; op[c] is the   *)
(* program counter of the core that holds its own `ready_state` lock.      *)
(***************************************************************************)
EXTENDS Integers, FiniteSets, Sequences, Functions

CONSTANTS
    NCores,      \* ACTIVE_CPUS
    Thread,      \* thread ids
    Boot,        \* the thread core 0 starts with
    Idle,        \* the idle thread of a core, never in any queue
    InboxCap,    \* capacity of each inbox (100 in boot.rs)
    DrainMax,    \* messages handled per drain (10 in the code)
    RqWrap,      \* rq_len is an unsigned counter modulo RqWrap (2^32)
    Sleeper,     \* the threads of this instance that call sleep
    Joiner,      \* the threads of this instance that call join
    JoinEarly,   \* may join be called with an id whose ready() is not done yet?
    Killable     \* the ids that the threads of this instance may pass to kill

Core == 0 .. NCores - 1

ASSUME CoresAssumption  == NCores \in Nat \ {0}
ASSUME ThreadAssumption == IsFiniteSet(Thread) /\ Boot \in Thread /\ Idle \notin Thread
ASSUME BoundAssumption  == /\ InboxCap \in Nat \ {0}
                           /\ DrainMax \in Nat \ {0}
                           /\ RqWrap \in Nat \ {0}
ASSUME UseAssumption    == /\ {Sleeper, Joiner, Killable} \subseteq SUBSET Thread
                           /\ JoinEarly \in BOOLEAN

VARIABLES
    alive,     \* ACTIVE_TIDS
    fresh,     \* ids not handed out by next_thread_id yet
    making,    \* the thread each thread is inside ready() for, as a set
    current,   \* ReadyState.current_thread of each core
    ready,     \* ReadyState.ready_queue of each core; its head runs next
    sleeping,  \* sleep_list of each core
    due,       \* the sleepers whose wake-up time has passed
    joiners,   \* join_map of each core: target -> threads waiting for it
    inbox,     \* the channel of each core, oldest message first
    rqLen,     \* PerCpuRef.rq_len
    resched,   \* PerCpuRef.resched_flag
    op         \* what the holder of the core's ready_state lock is doing

vars == <<alive, fresh, making, current, ready, sleeping, due, joiners, inbox, rqLen,
          resched, op>>

(***************************************************************************)
(* MessageItem and MessageCmd.                                             *)
(***************************************************************************)
ThreadMsg(t) == [type |-> "Thread", tid |-> t]
ExitedMsg(t) == [type |-> "JoinTargetExited", tid |-> t]
KillMsg(t)   == [type |-> "Kill", tid |-> t]
Message      == [type : {"Thread", "JoinTargetExited", "Kill"}, tid : Thread]

(***************************************************************************)
(* pc "run": the lock is free.  "join": between the liveness check and the *)
(* registration of a joiner.  "unjoin" and "bcast": sending                *)
(* JoinTargetExited resp. Kill to the cores in todo.  "drain": in          *)
(* drain_inbox_into_ready with n messages left to take.  "hung": waiting   *)
(* for a lock the core holds itself.  "panic": the kernel panicked.        *)
(* cont says where an inner operation returns to.                          *)
(***************************************************************************)
Op == [pc   : {"run", "join", "unjoin", "bcast", "drain", "hung", "panic"},
       tid  : Thread,
       todo : SUBSET Core,
       n    : 0 .. DrainMax,
       got  : BOOLEAN,
       cont : {"run", "exit", "tick", "block"}]

Unlocked == [pc |-> "run", tid |-> Boot, todo |-> {}, n |-> 0, got |-> FALSE,
             cont |-> "run"]
Draining(cont) == [pc |-> "drain", tid |-> Boot, todo |-> {}, n |-> DrainMax,
                   got |-> FALSE, cont |-> cont]
Sending(o, pc, t, dests) == [o EXCEPT !.pc = pc, !.tid = t, !.todo = dests]

Init ==
    /\ alive = {Boot}
    /\ fresh = Thread \ {Boot}
    /\ making = [t \in Thread |-> {}]
    /\ current = [c \in Core |-> IF c = 0 THEN Boot ELSE Idle]
    /\ ready = [c \in Core |-> <<>>]
    /\ sleeping = [c \in Core |-> {}]
    /\ due = {}
    /\ joiners = [c \in Core |-> [t \in Thread |-> {}]]
    /\ inbox = [c \in Core |-> <<>>]
    /\ rqLen = [c \in Core |-> (IF c = 0 THEN 1 ELSE 0) % RqWrap]
    /\ resched = [c \in Core |-> FALSE]
    /\ op = [c \in Core |-> Unlocked]

(***************************************************************************)
(* Helpers.                                                                *)
(***************************************************************************)
PlusUnwrapped(n, k) == n + k                  \* faulty: no wrap-around
Plus(n, k) == (n + k) % RqWrap
Others(c) == Core \ {c}

\* The orders in which a loop over the set S (a map, a list) may push its elements.
Orders(S) == UNION {Bijection(1 .. n, S) : n \in 0 .. Cardinality(S)}

\* A thread of the model executes on c, in no call, and c's ready_state lock is free.
Executing(c, t) == op[c].pc = "run" /\ current[c] = t /\ t \in Thread /\ making[t] = {}

(***************************************************************************)
(* block_and_switch, called with the new ready queue q, sleep list s and   *)
(* run-queue length r of core c.  With an empty queue the expired sleepers *)
(* are woken (in any order) and the inbox is drained before a choice.      *)
(***************************************************************************)
BlockAndSwitch(c, q, s, d, r) ==
    \/ /\ q # <<>>
       /\ current' = [current EXCEPT ![c] = Head(q)]
       /\ ready' = [ready EXCEPT ![c] = Tail(q)]
       /\ sleeping' = [sleeping EXCEPT ![c] = s]
       /\ due' = d
       /\ rqLen' = [rqLen EXCEPT ![c] = r]
       /\ op' = [op EXCEPT ![c] = Unlocked]
    \/ /\ q = <<>>
       /\ \E w \in Orders(s \cap d) :
            /\ ready' = [ready EXCEPT ![c] = w]
            /\ rqLen' = [rqLen EXCEPT ![c] = Plus(r, Len(w))]
       /\ sleeping' = [sleeping EXCEPT ![c] = s \ d]
       /\ due' = d \ s
       /\ op' = [op EXCEPT ![c] = Draining("block")]
       /\ UNCHANGED current

(***************************************************************************)
(* The body of unjoin up to its sends, with the queue q and join map m of  *)
(* core c: the local joiners of t become ready, the others are told.       *)
(* o is the operation unjoin is called from.                               *)
(***************************************************************************)
UnjoinLocalOnly(c, t, q, m, o) ==             \* faulty: the other cores are not told
    /\ \E w \in Orders(m[t]) :
         /\ ready' = [ready EXCEPT ![c] = q \o w]
         /\ rqLen' = [rqLen EXCEPT ![c] = Plus(rqLen[c], Len(w))]
    /\ joiners' = [joiners EXCEPT ![c] = [m EXCEPT ![t] = {}]]
    /\ op' = [op EXCEPT ![c] = Sending(o, "unjoin", t, {})]
Unjoin(c, t, q, m, o) ==
    /\ \E w \in Orders(m[t]) :
         /\ ready' = [ready EXCEPT ![c] = q \o w]
         /\ rqLen' = [rqLen EXCEPT ![c] = Plus(rqLen[c], Len(w))]
    /\ joiners' = [joiners EXCEPT ![c] = [m EXCEPT ![t] = {}]]
    /\ op' = [op EXCEPT ![c] = Sending(o, "unjoin", t, Others(c))]

(***************************************************************************)
(* Operations of the thread that runs on core c.                           *)
(***************************************************************************)

\* ready() for a new thread u, up to its locks: u is alive to everyone.
Spawn(c, t, u) ==
    /\ Executing(c, t)
    /\ u \in fresh
    /\ fresh' = fresh \ {u}
    /\ alive' = alive \cup {u}
    /\ making' = [making EXCEPT ![t] = {u}]
    /\ UNCHANGED <<current, ready, sleeping, due, joiners, inbox, rqLen, resched, op>>

\* The rest of ready(), on the core t runs on by then.  A list of joiners that
\* this core already has for u is replaced by an empty one.
SpawnReady(c, t, u) ==
    /\ op[c].pc = "run" /\ current[c] = t
    /\ u \in making[t]
    /\ making' = [making EXCEPT ![t] = {}]
    /\ ready' = [ready EXCEPT ![c] = Append(@, u)]
    /\ rqLen' = [rqLen EXCEPT ![c] = Plus(@, 1)]
    /\ joiners' = [joiners EXCEPT ![c][u] = {}]
    /\ UNCHANGED <<alive, fresh, current, sleeping, due, inbox, resched, op>>

\* sleep(ms); `now` when the wake-up time has passed before the list is checked.
Sleep(c, t, now) ==
    /\ Executing(c, t)
    /\ t \in Sleeper
    /\ BlockAndSwitch(c, ready[c], sleeping[c] \cup {t},
                      IF now THEN due \cup {t} ELSE due, Plus(rqLen[c], -1))
    /\ UNCHANGED <<alive, fresh, making, joiners, inbox, resched>>

\* join(u) up to the check of u under the locks; a dead u is ESRCH, no step.
JoinCheck(c, t, u) ==
    /\ Executing(c, t)
    /\ t \in Joiner
    /\ u \in alive
    /\ JoinEarly \/ \A x \in Thread : u \notin making[x]
    /\ op' = [op EXCEPT ![c].pc = "join", ![c].tid = u]
    /\ UNCHANGED <<alive, fresh, making, current, ready, sleeping, due, joiners, inbox,
                   rqLen, resched>>

\* The rest of join: register in the join map of this core and block.
JoinBlock(c) ==
    /\ op[c].pc = "join"
    /\ joiners' = [joiners EXCEPT ![c][op[c].tid] = @ \cup {current[c]}]
    /\ BlockAndSwitch(c, ready[c], sleeping[c], due, Plus(rqLen[c], -1))
    /\ UNCHANGED <<alive, fresh, making, inbox, resched>>

\* exit(): dead to everyone first, then the joiners are woken.
Exit(c, t) ==
    /\ Executing(c, t)
    /\ alive' = alive \ {t}
    /\ Unjoin(c, t, ready[c], joiners[c], [op[c] EXCEPT !.cont = "exit"])
    /\ UNCHANGED <<fresh, making, current, sleeping, due, inbox, resched>>

\* yield_now(): nothing happens on an empty queue.
Yield(c, t) ==
    /\ Executing(c, t)
    /\ ready[c] # <<>>
    /\ current' = [current EXCEPT ![c] = Head(ready[c])]
    /\ ready' = [ready EXCEPT ![c] = Append(Tail(ready[c]), t)]
    /\ UNCHANGED <<alive, fresh, making, sleeping, due, joiners, inbox, rqLen, resched, op>>

(***************************************************************************)
(* kill_locally for a living thread u.  The sleep list's length before is  *)
(* compared with the lengths of both lists after, so a non-empty ready     *)
(* queue counts as "found"; only when it does not are the joins searched.  *)
(***************************************************************************)
\* retain(id # u); u occurs at most once in a queue (NeverTwice).
Without(q, u) ==
    IF u \in Range(q)
    THEN LET i == CHOOSE j \in DOMAIN q : q[j] = u
         IN  SubSeq(q, 1, i - 1) \o SubSeq(q, i + 1, Len(q))
    ELSE q
InReady(c, u) == u \in Range(ready[c])
SeenInSleepList(c, u) ==
    Cardinality(sleeping[c]) # Len(ready[c]) + Cardinality(sleeping[c] \ {u})
InJoins(c, u) == \E x \in Thread : u \in joiners[c][x]
Found(c, u) == InReady(c, u) \/ SeenInSleepList(c, u) \/ InJoins(c, u)

KillLocally(c, u, o) ==
    LET early == InReady(c, u)
        m == IF early \/ SeenInSleepList(c, u) THEN joiners[c]
             ELSE [x \in Thread |-> joiners[c][x] \ {u}]
    IN  /\ sleeping' = [sleeping EXCEPT ![c] = IF early THEN @ ELSE @ \ {u}]
        /\ due' = IF early \/ u \notin sleeping[c] THEN due ELSE due \ {u}
        /\ alive' = alive \ {u}
        /\ Unjoin(c, u, Without(ready[c], u), m, o)

KillMissedUnjoins(c, u) ==                    \* faulty: drops the joiners of u
    /\ ~ Found(c, u)
    /\ sleeping' = [sleeping EXCEPT ![c] = @ \ {u}]
    /\ due' = IF u \in sleeping[c] THEN due \ {u} ELSE due
    /\ joiners' = [joiners EXCEPT ![c][u] = {}]
    /\ UNCHANGED <<alive, ready, rqLen>>

\* Nothing recognised as u: u leaves the sleep list if it was there.
KillMissed(c, u) ==
    /\ ~ Found(c, u)
    /\ sleeping' = [sleeping EXCEPT ![c] = @ \ {u}]
    /\ due' = IF u \in sleeping[c] THEN due \ {u} ELSE due
    /\ UNCHANGED <<alive, ready, joiners, rqLen>>

\* kill(u), called by another thread than u; a dead u is nothing to do.
Kill(c, t, u) ==
    /\ Executing(c, t)
    /\ u \in Killable \cap alive
    /\ u # t
    /\ \/ Found(c, u) /\ KillLocally(c, u, op[c])
       \/ /\ KillMissed(c, u)
          /\ op' = [op EXCEPT ![c] = Sending(@, "bcast", u, Others(c))]
    /\ UNCHANGED <<fresh, making, current, inbox, resched>>

(***************************************************************************)
(* schedule_on_all_others, one core at a time, and what follows it.  A     *)
(* full inbox is an `expect` on the failed try_send.  A core is among its  *)
(* own destinations only when it re-sends a Kill to itself (schedule_on,   *)
(* with a reschedule IPI): that send may fail silently.                    *)
(***************************************************************************)
Send(c) ==
    /\ op[c].pc \in {"unjoin", "bcast"}
    /\ \E d \in op[c].todo :
         \/ /\ Len(inbox[d]) < InboxCap
            /\ inbox' = [inbox EXCEPT ![d] = Append(@,
                  IF op[c].pc = "unjoin" THEN ExitedMsg(op[c].tid)
                                         ELSE KillMsg(op[c].tid))]
            /\ resched' = [resched EXCEPT ![c] = @ \/ d = c]
            /\ op' = [op EXCEPT ![c].todo = @ \ {d}]
         \/ /\ Len(inbox[d]) >= InboxCap
            /\ op' = [op EXCEPT ![c] = IF op[c].pc = "bcast" /\ d = c
                                       THEN [op[c] EXCEPT !.todo = @ \ {d}]
                                       ELSE [op[c] EXCEPT !.pc = "panic"]]
            /\ UNCHANGED <<inbox, resched>>
    /\ UNCHANGED <<alive, fresh, making, current, ready, sleeping, due, joiners, rqLen>>

\* The end of exit(): the thread gives up its core for good.
ExitSwitch(c) ==
    /\ op[c].pc = "unjoin" /\ op[c].todo = {} /\ op[c].cont = "exit"
    /\ BlockAndSwitch(c, ready[c], sleeping[c], due, Plus(rqLen[c], -1))
    /\ UNCHANGED <<alive, fresh, making, joiners, inbox, resched>>

\* The end of kill(), or of a Kill handled while draining.
KillDone(c) ==
    /\ op[c].pc \in {"unjoin", "bcast"} /\ op[c].todo = {} /\ op[c].cont # "exit"
    /\ rqLen' = [rqLen EXCEPT ![c] = IF op[c].pc = "unjoin" THEN Plus(@, -1) ELSE @]
    /\ op' = [op EXCEPT ![c] = IF @.cont = "run" THEN Unlocked
                               ELSE [@ EXCEPT !.pc = "drain"]]
    /\ UNCHANGED <<alive, fresh, making, current, ready, sleeping, due, joiners, inbox,
                   resched>>

TickKeepsSleepers(c) ==                       \* faulty: no retain on the sleep list
    /\ op[c].pc = "run"
    /\ \E w \in Orders(sleeping[c] \cap due) :
         /\ ready' = [ready EXCEPT ![c] = @ \o w]
         /\ rqLen' = [rqLen EXCEPT ![c] = Plus(@, Len(w))]
    /\ op' = [op EXCEPT ![c] = Draining("tick")]
    /\ UNCHANGED <<alive, fresh, making, current, sleeping, due, joiners, inbox, resched>>

(***************************************************************************)
(* The timer tick: switch_thread, from its entry to the drain.             *)
(***************************************************************************)
Tick(c) ==
    /\ op[c].pc = "run"
    /\ \E w \in Orders(sleeping[c] \cap due) :
         /\ ready' = [ready EXCEPT ![c] = @ \o w]
         /\ rqLen' = [rqLen EXCEPT ![c] = Plus(@, Len(w))]
    /\ sleeping' = [sleeping EXCEPT ![c] = @ \ due]
    /\ due' = due \ sleeping[c]
    /\ op' = [op EXCEPT ![c] = Draining("tick")]
    /\ UNCHANGED <<alive, fresh, making, current, joiners, inbox, resched>>

(***************************************************************************)
(* One message of drain_inbox_into_ready, by kind.                         *)
(***************************************************************************)
Receives(c, type, t) ==
    /\ op[c].pc = "drain" /\ op[c].n > 0
    /\ inbox[c] # <<>>
    /\ Head(inbox[c]) = [type |-> type, tid |-> t]

DrainThreadUncounted(c, t) ==                 \* faulty: no inc_rq_len
    /\ Receives(c, "Thread", t)
    /\ inbox' = [inbox EXCEPT ![c] = Tail(@)]
    /\ ready' = [ready EXCEPT ![c] = Append(@, t)]
    /\ op' = [op EXCEPT ![c].n = @ - 1, ![c].got = TRUE]
    /\ UNCHANGED <<alive, fresh, making, current, sleeping, due, joiners, resched, rqLen>>

DrainThread(c, t) ==
    /\ Receives(c, "Thread", t)
    /\ inbox' = [inbox EXCEPT ![c] = Tail(@)]
    /\ ready' = [ready EXCEPT ![c] = Append(@, t)]
    /\ rqLen' = [rqLen EXCEPT ![c] = Plus(@, 1)]
    /\ op' = [op EXCEPT ![c].n = @ - 1, ![c].got = TRUE]
    /\ UNCHANGED <<alive, fresh, making, current, sleeping, due, joiners, resched>>

DrainExited(c, t) ==
    /\ Receives(c, "JoinTargetExited", t)
    /\ inbox' = [inbox EXCEPT ![c] = Tail(@)]
    /\ \E w \in Orders(joiners[c][t]) :
         /\ ready' = [ready EXCEPT ![c] = @ \o w]
         /\ rqLen' = [rqLen EXCEPT ![c] = Plus(@, Len(w))]
    /\ joiners' = [joiners EXCEPT ![c][t] = {}]
    /\ op' = [op EXCEPT ![c].n = @ - 1]
    /\ UNCHANGED <<alive, fresh, making, current, sleeping, due, resched>>

DrainKillDead(c, t) ==
    /\ Receives(c, "Kill", t)
    /\ t \notin alive
    /\ inbox' = [inbox EXCEPT ![c] = Tail(@)]
    /\ op' = [op EXCEPT ![c].n = @ - 1]
    /\ UNCHANGED <<alive, fresh, making, current, ready, sleeping, due, joiners, rqLen,
                   resched>>

\* t runs here: the command goes back to this core's inbox and to all others.
DrainKillCurrent(c, t) ==
    /\ Receives(c, "Kill", t)
    /\ t \in alive /\ current[c] = t
    /\ inbox' = [inbox EXCEPT ![c] = Tail(@)]
    /\ op' = [op EXCEPT ![c] = Sending([op[c] EXCEPT !.n = @ - 1], "bcast", t, Core)]
    /\ UNCHANGED <<alive, fresh, making, current, ready, sleeping, due, joiners, rqLen,
                   resched>>

\* kill_locally needs the sleep_list lock unless t is in the ready queue, and
\* block_and_switch drains with that lock held.
DrainKillHangs(c, t) ==
    /\ Receives(c, "Kill", t)
    /\ t \in alive /\ current[c] # t /\ ~ InReady(c, t)
    /\ op[c].cont = "block"
    /\ inbox' = [inbox EXCEPT ![c] = Tail(@)]
    /\ op' = [op EXCEPT ![c].pc = "hung"]
    /\ UNCHANGED <<alive, fresh, making, current, ready, sleeping, due, joiners, rqLen,
                   resched>>

DrainKill(c, t) ==
    /\ Receives(c, "Kill", t)
    /\ t \in alive /\ current[c] # t
    /\ op[c].cont = "tick" \/ InReady(c, t)
    /\ inbox' = [inbox EXCEPT ![c] = Tail(@)]
    /\ \/ Found(c, t) /\ KillLocally(c, t, [op[c] EXCEPT !.n = @ - 1])
       \/ KillMissed(c, t) /\ op' = [op EXCEPT ![c].n = @ - 1]
    /\ UNCHANGED <<fresh, making, current, resched>>

(***************************************************************************)
(* Load balancing on the exported run-queue lengths.                       *)
(***************************************************************************)
\* find_less_loaded_core and find_more_loaded_core take the first such core.
LeastLoaded(d) == \A e \in Core : rqLen[d] < rqLen[e] \/ (rqLen[d] = rqLen[e] /\ d <= e)
MostLoaded(d)  == \A e \in Core : rqLen[d] > rqLen[e] \/ (rqLen[d] = rqLen[e] /\ d <= e)

\* active_thread_count saturates.
ActiveThreads ==
    LET sum == FoldFunction(+, 0, rqLen) IN IF sum >= RqWrap THEN RqWrap - 1 ELSE sum
ShouldBalance(c) == rqLen[c] > (ActiveThreads \div NCores) + 1

\* How many threads balance_once takes out of the queue of c for core d.
Surplus(c, d) ==
    LET own == rqLen[c]
        load == rqLen[d]
        k == (own - load) \div 4 + 1
    IN  IF own > 1 /\ load < own /\ own >= load + 2
        THEN IF k <= Len(ready[c]) THEN k ELSE Len(ready[c])
        ELSE 0
Moves(c, d) ==
    IF (resched[c] /\ ~ op[c].got) \/ ShouldBalance(c) THEN Surplus(c, d) ELSE 0

OldestOneShort(q, k) == SubSeq(q, 1, Len(q) - k - 1)     \* faulty: off by one
\* The newest k threads of the queue, newest first, and the rest.
Newest(q, k) == [i \in 1 .. k |-> q[Len(q) + 1 - i]]
Oldest(q, k) == SubSeq(q, 1, Len(q) - k)

\* What schedule_on gets into the inbox of d; a thread beyond that is dropped.
Sent(c, d) ==
    LET k == Moves(c, d)
        room == InboxCap - Len(inbox[d])
    IN  [i \in 1 .. (IF k <= room THEN k ELSE room) |-> ThreadMsg(Newest(ready[c], k)[i])]

(***************************************************************************)
(* The end of a drain: the rest of switch_thread, or of block_and_switch.  *)
(***************************************************************************)
Drained(c, cont) ==
    /\ op[c].pc = "drain" /\ op[c].cont = cont
    /\ op[c].n = 0 \/ inbox[c] = <<>>

\* balance_once towards d, when it is due.
Rebalance(c, d) ==
    /\ Drained(c, "tick")
    /\ LeastLoaded(d)
    /\ inbox' = [inbox EXCEPT ![d] = @ \o Sent(c, d)]
    /\ rqLen' = [rqLen EXCEPT ![c] = Plus(@, - Moves(c, d))]
    /\ resched' = [e \in Core |-> IF e = c THEN resched[c] /\ ~ op[c].got
                                  ELSE resched[e] \/ (e = d /\ Sent(c, d) # <<>>)]
    /\ op' = [op EXCEPT ![c] = Unlocked]
    /\ UNCHANGED <<alive, fresh, making, sleeping, due, joiners>>

\* Switch to the oldest ready thread, or to the idle thread when there is none.
TickSwitch(c, d) ==
    /\ Rebalance(c, d)
    /\ LET q == Oldest(ready[c], Moves(c, d))
           back == IF current[c] = Idle THEN <<>> ELSE <<current[c]>>
       IN  /\ current' = [current EXCEPT ![c] = IF q = <<>> THEN Idle ELSE Head(q)]
           /\ ready' = [ready EXCEPT ![c] = IF q = <<>> THEN back ELSE Tail(q) \o back]

\* The current thread has its stacks (or the TSS) locked: no switch.
TickSkip(c, d) ==
    /\ Rebalance(c, d)
    /\ current[c] # Idle
    /\ ready' = [ready EXCEPT ![c] = Oldest(@, Moves(c, d))]
    /\ UNCHANGED current

BlockSwitch(c) ==
    /\ Drained(c, "block")
    /\ resched' = [resched EXCEPT ![c] = @ /\ ~ op[c].got]
    /\ current' = [current EXCEPT ![c] = IF ready[c] = <<>> THEN Idle ELSE Head(ready[c])]
    /\ ready' = [ready EXCEPT ![c] = IF @ = <<>> THEN @ ELSE Tail(@)]
    /\ op' = [op EXCEPT ![c] = Unlocked]
    /\ UNCHANGED <<alive, fresh, making, sleeping, due, joiners, inbox, rqLen>>

(***************************************************************************)
(* The idle thread asks the most loaded core to give threads away.         *)
(***************************************************************************)
LookForOverloaded(c, d) ==
    /\ op[c].pc = "run" /\ current[c] = Idle
    /\ MostLoaded(d)
    /\ rqLen[d] > rqLen[c] /\ rqLen[d] >= 2
    /\ resched' = [resched EXCEPT ![d] = TRUE]
    /\ UNCHANGED <<alive, fresh, making, current, ready, sleeping, due, joiners, inbox,
                   rqLen, op>>

\* Time passes for a sleeper.
Expire(t) ==
    /\ t \notin due
    /\ \E c \in Core : t \in sleeping[c]
    /\ due' = due \cup {t}
    /\ UNCHANGED <<alive, fresh, making, current, ready, sleeping, joiners, inbox, rqLen,
                   resched, op>>

ThreadOp(c, t) ==
    \/ \E u \in Thread : Spawn(c, t, u) \/ SpawnReady(c, t, u) \/ JoinCheck(c, t, u) \/ Kill(c, t, u)
    \/ \E now \in BOOLEAN : Sleep(c, t, now)
    \/ Exit(c, t)
    \/ Yield(c, t)

DrainOne(c) ==
    \E t \in Thread : \/ DrainThread(c, t) \/ DrainExited(c, t)
                      \/ DrainKillDead(c, t) \/ DrainKillCurrent(c, t)
                      \/ DrainKillHangs(c, t) \/ DrainKill(c, t)

\* The steps of a core that holds its ready_state lock.
Locked(c) == \/ JoinBlock(c) \/ Send(c) \/ ExitSwitch(c) \/ KillDone(c)
             \/ DrainOne(c) \/ BlockSwitch(c)
             \/ \E d \in Core : TickSwitch(c, d) \/ TickSkip(c, d)

Next ==
    \/ \E c \in Core : \/ \E t \in Thread : ThreadOp(c, t)
                       \/ Locked(c) \/ Tick(c)
                       \/ \E d \in Core : LookForOverloaded(c, d)
    \/ \E t \in Thread : Expire(t)

Spec == Init /\ [][Next]_vars

(***************************************************************************)
(* Fairness: a core that holds the lock runs on, its periodic timer fires, *)
(* and time passes.  Nothing is assumed of what threads do.                *)
(***************************************************************************)
Fairness == /\ \A c \in Core : WF_vars(Locked(c)) /\ WF_vars(Tick(c))
            /\ \A t \in Thread : WF_vars(Expire(t))
FairSpec == Spec /\ Fairness

(***************************************************************************)
(* Properties.                                                             *)
(***************************************************************************)

\* Types; the inboxes never hold more than their capacity.
TypeOK ==
    /\ alive \subseteq Thread
    /\ fresh \subseteq Thread
    /\ making \in [Thread -> SUBSET Thread]
    /\ current \in [Core -> Thread \cup {Idle}]
    /\ ready \in [Core -> Seq(Thread)]
    /\ sleeping \in [Core -> SUBSET Thread]
    /\ due \subseteq Thread
    /\ joiners \in [Core -> [Thread -> SUBSET Thread]]
    /\ inbox \in [Core -> Seq(Message)]
    /\ \A c \in Core : Len(inbox[c]) <= InboxCap
    /\ rqLen \in [Core -> 0 .. RqWrap - 1]
    /\ resched \in [Core -> BOOLEAN]
    /\ op \in [Core -> Op]

\* Someone is still going to wake the joiners of t on core c: t lives, or its
\* JoinTargetExited waits in the inbox of c, or its sender still has c to do.
HasWaker(c, t) ==
    \/ t \in alive
    \/ \E i \in 1 .. Len(inbox[c]) : inbox[c][i] = ExitedMsg(t)
    \/ \E d \in Core : /\ op[d].pc \in {"unjoin", "panic"}
                        /\ op[d].tid = t
                        /\ c \in op[d].todo

\* No lost wake-up in join (352-377) against exit, kill and the broadcast of
\* JoinTargetExited (379-405): a thread registered, or about to register, in
\* the join map of its core always has a wake-up coming.
JoinerHasWaker ==
    \A c \in Core, t \in Thread :
        joiners[c][t] # {} \/ (op[c].pc = "join" /\ op[c].tid = t) => HasWaker(c, t)

\* The inductive invariant behind JoinerHasWaker and JoinWaits: an id that has
\* not been handed out is in no queue, map or message, and JoinTargetExited is
\* only ever sent for a dead thread.
GoodMessage ==
    {m \in Message : /\ m.type # "Kill" => m.tid \notin fresh
                     /\ m.type = "JoinTargetExited" => m.tid \notin alive}
FreshIsNowhere ==
    /\ alive \cap fresh = {}
    /\ making \in [Thread -> SUBSET (Thread \ fresh)]
    /\ current \in [Core -> (Thread \ fresh) \cup {Idle}]
    /\ ready \in [Core -> Seq(Thread \ fresh)]
    /\ sleeping \in [Core -> SUBSET (Thread \ fresh)]
    /\ joiners \in [Core -> [Thread -> SUBSET (Thread \ fresh)]]
    /\ \A c \in Core, t \in fresh : joiners[c][t] = {}
    /\ \A c \in Core : op[c].pc = "join" => op[c].tid \notin fresh /\ current[c] # Idle
ExitedIsDead ==
    /\ inbox \in [Core -> Seq(GoodMessage)]
    /\ \A c \in Core : op[c].pc = "unjoin" => op[c].tid \notin alive \cup fresh

\* Nobody waits, or is about to wait, for a thread that is still being made.
Unregistered ==
    \A t \in Thread : \A u \in making[t], c \in Core :
        joiners[c][u] = {} /\ ~ (op[c].pc = "join" /\ op[c].tid = u)

\* The thread that runs on c has entered another list (or died) but is still
\* current_thread until the switch.
Departed(c) == op[c].cont \in {"block", "exit"}

\* Every list, queue slot or message that holds t.
Places(t) ==
         {<<"made", x>> : x \in {x \in Thread : t \in making[x]}}
    \cup {<<"current", c>> : c \in {c \in Core : current[c] = t /\ ~ Departed(c)}}
    \cup (UNION {{<<"ready", c, i>> : i \in {i \in DOMAIN ready[c] : ready[c][i] = t}} :
                    c \in Core})
    \cup {<<"sleep", c>> : c \in {c \in Core : t \in sleeping[c]}}
    \cup {<<"join", x>> : x \in {x \in Core \X Thread : t \in joiners[x[1]][x[2]]}}
    \cup (UNION {{<<"inbox", c, i>> :
                    i \in {i \in DOMAIN inbox[c] : inbox[c][i] = ThreadMsg(t)}} : c \in Core})

\* Whatever is killed, migrated, woken or put to sleep: no thread is ever in two
\* queues, or running on one core and queued on another (two cores on one stack).
NeverTwice == \A t \in Thread : \A p, r \in Places(t) : p = r

\* Without kill, and while no inbox overflows, exactly the living threads are
\* somewhere: no migration, wake-up or exit loses a thread or leaves a dead one.
NoThreadLost == \A t \in Thread : t \in alive <=> Places(t) # {}

\* Without kill the exported length is exact: what should_balance_now and
\* find_less_loaded_core read is the number of runnable threads of the core.
RqLenExact ==
    \A c \in Core : rqLen[c] = Len(ready[c]) +
        (IF current[c] \in Thread /\ op[c].cont # "block" THEN 1 ELSE 0)

\* A joiner leaves the join map only when its target is dead, or when it was
\* killed itself: neither the empty list that ready() inserts for a new id (277)
\* nor a late JoinTargetExited can release it early.
JoinStep ==
    \A c \in Core, t, u \in Thread :
        u \in joiners[c][t] /\ u \notin joiners'[c][t]
            => t \notin alive' \/ u \notin alive'
JoinWaits == [][JoinStep]_vars

\* kill_locally is documented to report whether "a thread with the given id was
\* found" (424): a thread is marked dead only by its own exit or by the core
\* that holds it in one of its lists.
KilledWasFound ==
    [][\A u \in alive \ alive' : \E c \in Core :
          /\ op'[c].pc = "unjoin" /\ op'[c].tid = u
          /\ \/ op'[c].cont = "exit"
             \/ InReady(c, u) \/ u \in sleeping[c] \/ InJoins(c, u)]_vars

\* schedule_on_all_others expects every send to succeed (1091).
SendsSucceed == \A c \in Core : op[c].pc # "panic"

\* block_and_switch takes the sleep_list lock for a block of its own, "so that
\* the lock is released automatically" (529): no core waits for its own lock.
LockIsReleased == \A c \in Core : op[c].pc # "hung"

(***************************************************************************)
(* How the cores implement JoinService.  A thread waits from the moment    *)
(* its join saw the target alive under the locks (scheduler.rs:365) until  *)
(* it is moved to a ready queue.                                           *)
(***************************************************************************)
LifeOf(t) == IF t \in fresh THEN "unborn" ELSE IF t \in alive THEN "alive" ELSE "dead"
WaitsFor(t) ==
    {u \in Thread : \E c \in Core :
        \/ t \in joiners[c][u]
        \/ op[c].pc = "join" /\ current[c] = t /\ op[c].tid = u}
lives == [t \in Thread |-> LifeOf(t)]
waiting == [t \in Thread |-> WaitsFor(t)]

Service == INSTANCE JoinService WITH life <- lives, waits <- waiting

\* join, as the cores carry it out together, is the join the callers are
\* promised: no thread returns from it before its target is dead, whichever
\* core either is on and however the two race.
ImplementsJoin == Service!Spec

\* ... and every thread whose target is dead does return, given that timers
\* fire and a core holding its scheduler lock runs on.
ImplementsFairJoin == Service!FairSpec
==============================================================================
