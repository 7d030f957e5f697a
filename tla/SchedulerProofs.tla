--------------------------- MODULE SchedulerProofs ---------------------------
(***************************************************************************)
(* The theorems about Scheduler.  For any number of cores and threads: the *)
(* types; a joiner always has somebody to wake it; join waits for the exit; *)
(* no thread is ever in two places.  When no thread is killed: the run-queue *)
(* lengths are exact, an inbox with room for every thread never fills up, no *)
(* thread gets lost, and the cores together implement JoinService.         *)
(***************************************************************************)
EXTENDS SchedulerSteps, SchedulerPlaces, SchedulerNoKill, FiniteSetTheorems, TLAPS

\* The invariant holds in every reachable state.
LEMMA Invariance == Spec => []IInv
<1>1. IInv /\ [Next]_vars => IInv'
  BY NextStep
<1> QED
  BY <1>1, InitOK, PTL DEF Spec

\* The scheduler's state always has its types, and no inbox ever holds more
\* messages than its capacity, whatever threads spawn, join, kill and exit on
\* however many cores (scheduler.rs).
THEOREM TypeCorrect == Spec => []TypeOK
BY Invariance, IInvTypeOK, PTL

\* join never sleeps past the death of its target (scheduler.rs 352-405 against
\* 885-924): whenever a thread waits, or is about to wait, for t on core c, then
\* t is alive or a JoinTargetExited for t is on its way to c.
THEOREM NoLostWakeup == Spec => []JoinerHasWaker
<1>1. IInv => JoinerHasWaker
  BY DEF IInv
<1> QED
  BY <1>1, Invariance, PTL

\* join returns only for a dead target, or to a thread that was killed itself: no
\* stale message, kill of a third thread or migration releases a joiner, as long
\* as nobody joins a thread whose ready() is still under way.
THEOREM JoinReturnsAfterExit == ~ JoinEarly => (Spec => JoinWaits)
<1> SUFFICES ASSUME ~ JoinEarly PROVE Spec => JoinWaits
  OBVIOUS
<1>1. Init => Unregistered
  BY DEF Init, Unregistered
<1>2. IInv /\ Unregistered /\ [Next]_vars => Unregistered' /\ [JoinStep]_vars
  BY NextStep, UnregisteredStep
<1> QED
  BY <1>1, <1>2, Invariance, PTL DEF Spec, JoinWaits

\* The invariant holds in every reachable state.
LEMMA PlacedInvariance == Spec => []Placed
<1>1. Init => Placed
  BY InitPlaced
<1>2. IInv /\ Placed /\ [Next]_vars => Placed'
  BY PlacedStep
<1> QED
  BY <1>1, <1>2, Invariance, PTL DEF Spec

\* Whatever is killed, migrated, woken or put to sleep, no thread is in two lists,
\* nor running on one core and queued on another (scheduler.rs 203-1021).
THEOREM NoThreadTwice == Spec => []NeverTwice
BY PlacedInvariance, Invariance, PlacedNeverTwice, PTL

\* A sequence over a finite set that repeats nothing is no longer than the set.
LEMMA ThreadsShort == Short
<1>1. Cardinality(Thread) \in Nat
  BY ThreadAssumption, FS_CardinalityType, Zenon
<1>2. ASSUME NEW q \in Seq(Thread), IsInjective(q) PROVE Len(q) <= Cardinality(Thread)
  <2>1. Len(q) \in Nat /\ q \in [1 .. Len(q) -> Thread] /\ DOMAIN q = 1 .. Len(q)
    BY LenIs
  <2>2. q \in Injection(1 .. Len(q), Thread)
    BY <1>2, <2>1 DEF Injection, IsInjective
  <2>3. Cardinality(1 .. Len(q)) <= Cardinality(Thread)
    BY <2>2, ThreadAssumption, FS_Injection, Zenon
  <2>4. Cardinality(1 .. Len(q)) = Len(q)
    BY <2>1, FS_Interval
  <2> QED
    BY <2>3, <2>4, Zenon
<1> QED
  BY <1>1, <1>2, Zenon DEF Short

\* Without killable threads there is never a kill.
LEMMA CalmInvariance == Killable = {} => (Spec => []Calm)
<1> SUFFICES ASSUME Killable = {} PROVE Spec => []Calm
  OBVIOUS
<1>1. Init => Calm
  BY InitCalm
<1>2. IInv /\ Placed /\ Calm /\ [Next]_vars => Calm'
  BY CalmStep
<1> QED
  BY <1>1, <1>2, Invariance, PlacedInvariance, PTL DEF Spec

\* Without kill, and with a counter that can count every thread, rq_len is the
\* number of runnable threads of its core (inc_rq_len and dec_rq_len at every
\* push and pop, scheduler.rs 203-1021).
THEOREM LoadExact ==
  Killable = {} /\ Cardinality(Thread) + 1 < RqWrap => (Spec => []RqLenExact)
<1> SUFFICES ASSUME Killable = {}, RqFits PROVE Spec => []RqLenExact
  BY ThreadsShort DEF RqFits
<1>1. Init => RqLenExact
  BY InitExact
<1>2. IInv /\ Placed /\ Calm /\ TypeOK' /\ Placed' /\ RqLenExact /\ [Next]_vars => RqLenExact'
  BY ExactNext, Zenon
<1> QED
  BY <1>1, <1>2, IInvTypeOK, Invariance, PlacedInvariance, CalmInvariance, PTL DEF Spec

\* At the start nobody is dead and nothing is announced.
LEMMA InitWhole == ASSUME Init PROVE Whole /\ AllOf(held) = alive
<1>1. \A c \in Core : op[c].pc = "run" /\ inbox[c] = <<>>
  BY DEF Init, Unlocked
<1>2. TidsOnce(<<>>)
  BY DEF TidsOnce
<1> QED
  BY <1>1, <1>2, InitPlaced, Zenon DEF Whole, NoneDead, Announced, SendsSucceed

\* Without kill only living threads are held.
LEMMA NoneDeadInvariance == Killable = {} => (Spec => []NoneDead)
<1> SUFFICES ASSUME Killable = {} PROVE Spec => []NoneDead
  OBVIOUS
<1>1. Init => NoneDead
  BY InitWhole DEF Whole
<1>2. ASSUME IInv, Placed, Calm, NoneDead, [Next]_vars PROVE NoneDead'
  <2>1. Stays \/ \E t \in Thread : Comes(t) \/ Leaves(t)
    BY <1>2, Population, Zenon
  <2> QED
    BY <1>2, <2>1, Zenon DEF NoneDead, Stays, Comes, Leaves
<1> QED
  BY <1>1, <1>2, Invariance, PlacedInvariance, CalmInvariance, PTL DEF Spec

\* With room for every thread an inbox never has two messages about one.
LEMMA WholeInvariance == Ample => (Spec => []Whole)
<1> SUFFICES ASSUME Ample PROVE Spec => []Whole
  OBVIOUS
<1>1. Spec => []Calm /\ []NoneDead
  BY CalmInvariance, NoneDeadInvariance, Zenon DEF Ample
<1>2. Init => Announced
  BY InitWhole, Zenon DEF Whole
<1>3. IInv /\ Placed /\ Calm /\ NoneDead /\ Announced /\ [Next]_vars => Announced'
  BY AnnouncedStep DEF Whole
<1>4. NoneDead /\ Announced => Whole
  BY DEF Whole
<1> QED
  BY <1>1, <1>2, <1>3, <1>4, Invariance, PlacedInvariance, PTL DEF Spec

\* Without kill, and with as much room in an inbox as there are threads, no
\* try_send of schedule_on_all_others finds a full inbox, so that the `expect` on
\* it (1091) never panics: an inbox has at most one message about a thread.
THEOREM RoomForAll ==
  Killable = {} /\ Cardinality(Thread) <= InboxCap => (Spec => []SendsSucceed)
<1> SUFFICES ASSUME Ample PROVE Spec => []SendsSucceed
  BY ThreadsShort, Zenon DEF Ample
<1>1. Whole => SendsSucceed
  BY DEF Whole, Announced
<1> QED
  BY <1>1, WholeInvariance, PTL

\* Under the same conditions, and with join called on threads that are ready (see
\* JoinEarly), the living threads are exactly the threads that some list, queue,
\* message or core has: neither the hand-over of balance_once (841-878) and
\* drain_inbox_into_ready (885-924) nor a wake-up or exit loses a thread or leaves
\* a dead one behind.
THEOREM ThreadsKept ==
  Killable = {} /\ ~ JoinEarly /\ Cardinality(Thread) <= InboxCap => (Spec => []NoThreadLost)
<1> SUFFICES ASSUME Ample, ~ JoinEarly PROVE Spec => []NoThreadLost
  BY ThreadsShort, Zenon DEF Ample
<1> DEFINE All == AllOf(held) = alive
<1>1. Init => All /\ Unregistered
  BY InitWhole, Zenon DEF Init, Unregistered
<1>2. IInv /\ Unregistered /\ [Next]_vars => Unregistered'
  BY UnregisteredStep, Zenon
<1>3. ASSUME IInv, Placed, Calm, Whole, Unregistered, All, [Next]_vars PROVE All'
  <2>1. Roomy
    BY <1>3, RebalanceWhole, Zenon DEF Roomy
  <2>2. Stays \/ \E t \in Thread : Comes(t) \/ Leaves(t)
    BY <1>3, Population, Zenon DEF Ample
  <2> QED
    BY <1>3, <2>1, <2>2 DEF Stays, Comes, Leaves
<1>4. ASSUME IInv, Placed, All PROVE NoThreadLost
  <2>1. ASSUME NEW t \in Thread, t \in alive PROVE Places(t) # {}
    <3>1. PICK k \in Holder : t \in held[k]
      BY <1>4, <2>1, HeldIs, Zenon DEF AllOf
    <3> QED
      BY <1>4, <3>1, HeldHasPlace, Zenon
  <2>2. ASSUME NEW t \in Thread, Places(t) # {} PROVE t \in alive
    <3>1. PICK k \in Holder : t \in held[k]
      BY <1>4, <2>2, PlaceIsSeat, Zenon
    <3> QED
      BY <1>4, <3>1, HeldIs, Zenon DEF AllOf
  <2> QED
    BY <2>1, <2>2, Zenon DEF NoThreadLost
<1>5. Spec => []Whole /\ []Calm
  BY WholeInvariance, CalmInvariance, Zenon DEF Ample
<1> HIDE DEF All
<1> QED
  BY <1>1, <1>2, <1>3, <1>4, <1>5, Invariance, PlacedInvariance, PTL DEF Spec

\* Without kill, and with join called on threads that are ready, join as the
\* cores carry it out (352-405, 885-924) is the join that JoinService promises.
THEOREM JoinRefines == Killable = {} /\ ~ JoinEarly => (Spec => ImplementsJoin)
<1> SUFFICES ASSUME Killable = {}, ~ JoinEarly PROVE Spec => ImplementsJoin
  OBVIOUS
<1>1. Init => Unregistered
  BY DEF Init, Unregistered
<1>2. IInv /\ Unregistered /\ [Next]_vars => Unregistered'
  BY UnregisteredStep
<1>3. IInv /\ Placed /\ Calm /\ NoneDead /\ Unregistered /\ [Next]_vars => [Service!Next]_(Service!svars)
  BY NextServes
<1>4. Spec => []Calm /\ []NoneDead
  BY CalmInvariance, NoneDeadInvariance
<1> QED
  BY <1>1, <1>2, <1>3, <1>4, InitServes, Invariance, PlacedInvariance, PTL
     DEF Spec, ImplementsJoin, Service!Spec
==============================================================================
