----------------------------- MODULE JoinService -----------------------------
(***************************************************************************)
(* What Scheduler::join promises its callers (kernel/src/process/          *)
(* scheduler.rs:351 "Calling thread will block until thread with           *)
(* `thread_id` has terminated"), free of cores, queues and messages: a     *)
(* thread may wait for a living one, waits only for one at a time, goes on *)
(* only after that one is dead, and then does go on.                       *)
(***************************************************************************)
CONSTANTS Thread, Boot

VARIABLES
    life,     \* "unborn", "alive" or "dead"
    waits     \* the thread each thread is waiting for, as a set of at most one

svars == <<life, waits>>

Waiters(u) == {t \in Thread : u \in waits[t]}
Released(R) == [t \in Thread |-> IF t \in R THEN {} ELSE waits[t]]

Init ==
    /\ life = [t \in Thread |-> IF t = Boot THEN "alive" ELSE "unborn"]
    /\ waits = [t \in Thread |-> {}]

Create(t) ==
    /\ life[t] = "unborn"
    /\ life' = [life EXCEPT ![t] = "alive"]
    /\ UNCHANGED waits

Join(t, u) ==
    /\ life[t] = "alive" /\ waits[t] = {}
    /\ life[u] = "alive"
    /\ waits' = [waits EXCEPT ![t] = {u}]
    /\ UNCHANGED life

\* Those who wait on the core of t may return in the step in which t dies.
Exit(t) ==
    /\ life[t] = "alive" /\ waits[t] = {}
    /\ life' = [life EXCEPT ![t] = "dead"]
    /\ \E R \in SUBSET Waiters(t) : waits' = Released(R)

Return(u, R) ==
    /\ life[u] = "dead"
    /\ R \subseteq Waiters(u)
    /\ waits' = Released(R)
    /\ UNCHANGED life

Next ==
    \/ \E t \in Thread : Create(t) \/ Exit(t)
    \/ \E t, u \in Thread : Join(t, u)
    \/ \E u \in Thread : \E R \in SUBSET Waiters(u) : Return(u, R)

Spec == Init /\ [][Next]_svars

Fairness ==
    \A t, u \in Thread : WF_svars(\E R \in SUBSET Waiters(u) : t \in R /\ Return(u, R))
FairSpec == Spec /\ Fairness
==============================================================================
