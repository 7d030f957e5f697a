--------------------------- MODULE SchedulerNoKill ---------------------------
(***************************************************************************)
(* Scheduler when no thread is killed: every action keeps the exported     *)
(* run-queue lengths exact, sends no second message about a thread to a core, *)
(* and is a step of JoinService or none.                                   *)
(***************************************************************************)
EXTENDS SchedulerFacts, TLAPS

\* No kill at the start.
LEMMA InitCalm == ASSUME Init PROVE Calm
<1>1. \A c \in Core : op[c] = Unlocked /\ inbox[c] = <<>>
  BY DEF Init
<1> QED
  BY <1>1 DEF Calm, CalmOp, NoKill, Unlocked, Range

\* A step that takes or adds no Kill leaves none.
LEMMA TakenNoKill ==
  ASSUME NEW m \in Seq(Message), m # <<>>, NoKill(m) PROVE NoKill(Tail(m))
BY TailOnce DEF NoKill

\* Messages other than Kill add none.
LEMMA AddedNoKill ==
  ASSUME NEW m \in Seq(Message), NoKill(m), NEW s \in Seq(Message),
         \A x \in Range(s) : x.type # "Kill"
  PROVE  NoKill(m \o s)
<1>1. Range(m \o s) = Range(m) \cup Range(s)
  BY JoinOnce
<1> QED
  BY <1>1, Zenon DEF NoKill, KillMsg

\* An idle or draining core handles no kill and no exit.
LEMMA OpCalm ==
  /\ CalmOp(Unlocked) /\ Unlocked.cont # "exit"
  /\ \A k \in {"tick", "block"} : CalmOp(Draining(k)) /\ Draining(k).cont # "exit"
BY DEF CalmOp, Unlocked, Draining

\* A block leaves the core idle, running or draining.
LEMMA BlockCalm ==
  ASSUME IInv, Calm, NEW c \in Core, NEW q, NEW s, NEW d, NEW r, BlockAndSwitch(c, q, s, d, r),
         inbox' = inbox
  PROVE  Calm'
<1>1. /\ op' = [op EXCEPT ![c] = Unlocked] \/ op' = [op EXCEPT ![c] = Draining("block")]
      /\ \A e \in Core \ {c} : current'[e] = current[e]
  BY Types DEF BlockAndSwitch
<1>2. op'[c] \in {Unlocked, Draining("block")} /\ \A e \in Core \ {c} : op'[e] = op[e]
  BY <1>1, Types
<1> QED
  BY <1>1, <1>2, OpCalm DEF Calm

\* A core that goes on at the same place.
LEMMA SameCalm ==
  ASSUME Calm, current' = current,
         \A e \in Core : op'[e].pc = op[e].pc /\ op'[e].cont = op[e].cont,
         \A e \in Core : NoKill(inbox'[e])
  PROVE  Calm'
BY DEF Calm, CalmOp

\* The operations of a running thread start no kill.
LEMMA CalmThread ==
  ASSUME IInv, Placed, Calm, Killable = {}, NEW c \in Core, NEW t \in Thread, ThreadOp(c, t)
  PROVE  Calm'
<1>1. op \in [Core -> Op] /\ current \in [Core -> Thread \cup {Idle}]
  BY Types
<1>2. ASSUME NEW u \in Thread, Spawn(c, t, u) \/ SpawnReady(c, t, u) PROVE Calm'
  BY <1>2 DEF Spawn, SpawnReady, Calm
<1>3. ASSUME NEW u \in Thread, JoinCheck(c, t, u) PROVE Calm'
  <2>1. /\ op' = [op EXCEPT ![c].pc = "join", ![c].tid = u] /\ op[c].pc = "run"
        /\ UNCHANGED <<current, inbox>>
    BY <1>3 DEF JoinCheck, Executing
  <2>2. op'[c].pc = "join" /\ op'[c].cont = op[c].cont /\ \A e \in Core \ {c} : op'[e] = op[e]
    BY <1>1, <2>1 DEF Op
  <2> QED
    BY <2>1, <2>2, Zenon DEF Calm, CalmOp
<1>4. ASSUME NEW u \in Thread, Kill(c, t, u) PROVE Calm'
  BY <1>4 DEF Kill
<1>5. ASSUME NEW now \in BOOLEAN, Sleep(c, t, now) PROVE Calm'
  BY <1>5, BlockCalm DEF Sleep
<1>6. CASE Exit(c, t)
  <2>1. /\ op' = [op EXCEPT ![c] = Sending([op[c] EXCEPT !.cont = "exit"], "unjoin", t, Others(c))]
        /\ current[c] = t /\ UNCHANGED <<current, inbox>>
    BY <1>6 DEF Exit, Executing, Unjoin
  <2>2. op'[c].pc = "unjoin" /\ op'[c].cont = "exit" /\ \A e \in Core \ {c} : op'[e] = op[e]
    BY <1>1, <2>1 DEF Op, Sending
  <2> QED
    BY <2>1, <2>2, ThreadAssumption DEF Calm, CalmOp
<1>7. CASE Yield(c, t)
  <2>1. UNCHANGED <<op, inbox>> /\ op[c].pc = "run" /\ \A e \in Core \ {c} : current'[e] = current[e]
    BY <1>1, <1>7 DEF Yield, Executing
  <2>2. op[c].cont # "exit"
    BY <2>1 DEF Calm, CalmOp
  <2> QED
    BY <2>1, <2>2 DEF Calm
<1> QED
  BY <1>2, <1>3, <1>4, <1>5, <1>6, <1>7 DEF ThreadOp

\* A message taken starts no kill.
LEMMA CalmDrain ==
  ASSUME IInv, Placed, Calm, NEW c \in Core, DrainOne(c)
  PROVE  Calm'
<1>1. PICK t \in Thread : DrainThread(c, t) \/ DrainExited(c, t)
  BY CalmExcludes DEF DrainOne
<1>2. op \in [Core -> Op] /\ inbox \in [Core -> Seq(Message)]
  BY Types
<1>3. /\ inbox[c] # <<>> /\ inbox' = [inbox EXCEPT ![c] = Tail(@)] /\ current' = current
      /\ op' = [op EXCEPT ![c].n = @ - 1, ![c].got = TRUE] \/ op' = [op EXCEPT ![c].n = @ - 1]
  BY <1>1 DEF DrainThread, DrainExited, Receives
<1>4. \A e \in Core : op'[e].pc = op[e].pc /\ op'[e].cont = op[e].cont
  <2>1. CASE op' = [op EXCEPT ![c].n = @ - 1, ![c].got = TRUE]
    BY <1>2, <2>1 DEF Op
  <2>2. CASE op' = [op EXCEPT ![c].n = @ - 1]
    BY <1>2, <2>2 DEF Op
  <2> QED
    BY <1>3, <2>1, <2>2
<1>5. \A e \in Core : NoKill(inbox'[e])
  <2>1. NoKill(Tail(inbox[c]))
    BY <1>2, <1>3, TakenNoKill DEF Calm
  <2> QED
    BY <1>2, <1>3, <2>1 DEF Calm
<1> QED
  BY <1>3, <1>4, <1>5, SameCalm

\* A send of schedule_on_all_others is no Kill.
LEMMA CalmSend ==
  ASSUME IInv, Calm, NEW c \in Core, Send(c)
  PROVE  Calm'
<1>1. op \in [Core -> Op] /\ inbox \in [Core -> Seq(Message)]
  BY Types
<1>2. op[c].pc = "unjoin" /\ current' = current
  BY DEF Send, Calm, CalmOp
<1>3. PICK d \in op[c].todo :
         \/ /\ inbox' = [inbox EXCEPT ![d] = Append(@, ExitedMsg(op[c].tid))]
            /\ op' = [op EXCEPT ![c].todo = @ \ {d}]
         \/ op' = [op EXCEPT ![c] = [op[c] EXCEPT !.pc = "panic"]] /\ inbox' = inbox
  BY <1>2 DEF Send
<1>4. d \in Core /\ op[c].tid \in Thread /\ op[c] \in Op
  BY <1>1 DEF Op
<1>5. /\ op'[c].cont = op[c].cont /\ op'[c].pc \in {"unjoin", "panic"}
      /\ \A e \in Core \ {c} : op'[e] = op[e]
  <2>1. CASE op' = [op EXCEPT ![c].todo = @ \ {d}]
    BY <1>1, <1>2, <2>1 DEF Op
  <2>2. CASE op' = [op EXCEPT ![c] = [op[c] EXCEPT !.pc = "panic"]]
    BY <1>1, <1>4, <2>2 DEF Op
  <2> QED
    BY <1>3, <2>1, <2>2
<1>6. \A e \in Core : NoKill(inbox'[e])
  <2>1. CASE inbox' = inbox
    BY <2>1 DEF Calm
  <2>2. CASE inbox' = [inbox EXCEPT ![d] = Append(@, ExitedMsg(op[c].tid))]
    <3> DEFINE x == ExitedMsg(op[c].tid)
    <3>1. inbox[d] \in Seq(Message) /\ x \in Message /\ x.type = "JoinTargetExited"
      BY <1>1, <1>4, Zenon DEF ExitedMsg, Message
    <3> HIDE DEF x
    <3>2. Range(Append(inbox[d], x)) = Range(inbox[d]) \cup {x}
      BY <3>1, AppendOnce
    <3>3. NoKill(Append(inbox[d], x))
      <4>1. NoKill(inbox[d])
        BY <1>4 DEF Calm
      <4>2. \A t \in Thread : KillMsg(t) # x
        BY <3>1 DEF KillMsg
      <4> QED
        BY <3>2, <4>1, <4>2 DEF NoKill
    <3>4. inbox' = [inbox EXCEPT ![d] = Append(inbox[d], x)]
      BY <2>2 DEF x
    <3> QED
      BY <1>1, <1>4, <3>3, <3>4 DEF Calm
  <2> QED
    BY <1>3, <2>1, <2>2
<1> QED
  BY <1>2, <1>5, <1>6 DEF Calm, CalmOp

\* balance_once sends no Kill.
LEMMA CalmRebalance ==
  ASSUME IInv, Placed, Calm, NEW c \in Core, NEW d \in Core, Rebalance(c, d),
         \A e \in Core \ {c} : current'[e] = current[e]
  PROVE  Calm'
<1> DEFINE s == Sent(c, d)
<1>1. op \in [Core -> Op] /\ inbox \in [Core -> Seq(Message)] /\ IsInjective(ready[c])
  BY Types DEF Placed, Orderly
<1>2. op'[c] = Unlocked /\ \A e \in Core \ {c} : op'[e] = op[e]
  BY <1>1 DEF Rebalance
<1>3. inbox' = [inbox EXCEPT ![d] = inbox[d] \o s]
  BY DEF Rebalance
<1>4. s \in Seq(Message)
  BY <1>1, SentOnce
<1>5. \A x \in Range(s) : x.type # "Kill"
  <2>1. \A i \in DOMAIN s : s[i].type = "Thread"
    BY DEF Sent, ThreadMsg
  <2> HIDE DEF s
  <2> QED
    BY <2>1 DEF Range
<1> HIDE DEF s
<1>6. NoKill(inbox[d] \o s)
  BY <1>1, <1>4, <1>5, AddedNoKill DEF Calm
<1> QED
  BY <1>1, <1>2, <1>3, <1>6, OpCalm, Zenon DEF Calm

\* No step starts a kill.
LEMMA CalmStep ==
  ASSUME IInv, Placed, Calm, Killable = {}, [Next]_vars
  PROVE  Calm'
<1>1. op \in [Core -> Op] /\ current \in [Core -> Thread \cup {Idle}]
  BY Types
<1>2. ASSUME NEW c \in Core, NEW t \in Thread, ThreadOp(c, t) PROVE Calm'
  BY <1>2, CalmThread
<1>3. ASSUME NEW c \in Core, Locked(c) PROVE Calm'
  <2>1. CASE JoinBlock(c)
    BY <2>1, BlockCalm DEF JoinBlock
  <2>2. CASE Send(c)
    BY <2>2, CalmSend
  <2>3. CASE ExitSwitch(c)
    BY <2>3, BlockCalm DEF ExitSwitch
  <2>4. CASE KillDone(c)
    BY <2>4, CalmExcludes
  <2>5. CASE DrainOne(c)
    BY <2>5, CalmDrain
  <2>6. CASE BlockSwitch(c)
    <3>1. /\ op' = [op EXCEPT ![c] = Unlocked] /\ inbox' = inbox
          /\ \A e \in Core \ {c} : current'[e] = current[e]
      BY <1>1, <2>6 DEF BlockSwitch
    <3>2. op'[c] = Unlocked /\ \A e \in Core \ {c} : op'[e] = op[e]
      BY <1>1, <3>1
    <3> QED
      BY <3>1, <3>2, OpCalm DEF Calm
  <2>7. ASSUME NEW d \in Core, TickSwitch(c, d) PROVE Calm'
    <3>1. Rebalance(c, d) /\ \A e \in Core \ {c} : current'[e] = current[e]
      BY <1>1, <2>7 DEF TickSwitch
    <3> QED
      BY <3>1, CalmRebalance
  <2>8. ASSUME NEW d \in Core, TickSkip(c, d) PROVE Calm'
    BY <2>8, CalmRebalance DEF TickSkip
  <2> QED
    BY <1>3, <2>1, <2>2, <2>3, <2>4, <2>5, <2>6, <2>7, <2>8 DEF Locked
<1>4. ASSUME NEW c \in Core, Tick(c) PROVE Calm'
  <2>1. op' = [op EXCEPT ![c] = Draining("tick")] /\ UNCHANGED <<current, inbox>>
    BY <1>4 DEF Tick
  <2>2. op'[c] = Draining("tick") /\ \A e \in Core \ {c} : op'[e] = op[e]
    BY <1>1, <2>1
  <2> QED
    BY <2>1, <2>2, OpCalm DEF Calm
<1>5. ASSUME NEW c \in Core, NEW d \in Core, LookForOverloaded(c, d) PROVE Calm'
  BY <1>5 DEF LookForOverloaded, Calm
<1>6. ASSUME NEW t \in Thread, Expire(t) PROVE Calm'
  BY <1>6 DEF Expire, Calm
<1>7. CASE UNCHANGED vars
  BY <1>7 DEF vars, Calm
<1> QED
  BY <1>2, <1>3, <1>4, <1>5, <1>6, <1>7 DEF Next

(***************************************************************************)
(* The exported length of a run queue.                                     *)
(***************************************************************************)
Counted(c)  == IF current[c] \in Thread /\ op[c].cont # "block" THEN 1 ELSE 0
Runnable(c) == Len(ready[c]) + Counted(c)

\* A queue that lists no thread twice is no longer than there are threads.
Short ==
  /\ Cardinality(Thread) \in Nat
  /\ \A q \in Seq(Thread) : IsInjective(q) => Len(q) <= Cardinality(Thread)

\* The counter of a run queue has room for every thread.
RqFits == Short /\ Cardinality(Thread) + 1 < RqWrap

\* The counter has room for the runnable threads of a core.
LEMMA RunnableFits ==
  ASSUME IInv, Placed, RqFits, NEW c \in Core
  PROVE  Runnable(c) \in 0 .. RqWrap - 1 /\ Len(ready[c]) \in Nat
<1>1. ready[c] \in Seq(Thread) /\ IsInjective(ready[c])
  BY Types DEF Placed, Orderly
<1>2. Len(ready[c]) <= Cardinality(Thread) /\ Len(ready[c]) \in Nat /\ Cardinality(Thread) \in Nat
  BY <1>1, LenIs DEF RqFits, Short
<1>3. Counted(c) \in 0 .. 1
  BY DEF Counted
<1> QED
  BY <1>2, <1>3, BoundAssumption DEF Runnable, RqFits

\* A sum within the range of the counter does not wrap.
LEMMA PlusExact ==
  ASSUME NEW n \in Int, NEW k \in Int, n + k \in 0 .. RqWrap - 1
  PROVE  Plus(n, k) = n + k
<1> DEFINE x == n + k
<1>1. x \in 0 .. RqWrap - 1
  OBVIOUS
<1>2. Plus(n, k) = x % RqWrap
  BY DEF Plus
<1> HIDE DEF x
<1>3. x % RqWrap = x
  BY <1>1, BoundAssumption
<1> QED
  BY <1>2, <1>3 DEF x

\* A step of core c that adds k to its count and k to what it counts.
LEMMA ExactStep ==
  ASSUME IInv, Placed, RqFits, TypeOK', Placed', RqLenExact, NEW c \in Core, NEW k \in Int,
         \A e \in Core \ {c} : Runnable(e)' = Runnable(e) /\ rqLen'[e] = rqLen[e],
         rqLen'[c] = Plus(rqLen[c], k), Runnable(c)' = Runnable(c) + k
  PROVE  RqLenExact'
<1>1. \A e \in Core : rqLen[e] = Runnable(e)
  BY Zenon DEF RqLenExact, Runnable, Counted
<1>2. Runnable(c) \in 0 .. RqWrap - 1 /\ Runnable(c)' \in 0 .. RqWrap - 1
  <2>1. Runnable(c) \in 0 .. RqWrap - 1
    BY RunnableFits
  <2>2. ready'[c] \in Seq(Thread) /\ IsInjective(ready'[c])
    BY DEF TypeOK, Placed, Orderly
  <2>3. Len(ready'[c]) <= Cardinality(Thread) /\ Len(ready'[c]) \in Nat /\ Cardinality(Thread) \in Nat
    BY <2>2, LenIs DEF RqFits, Short
  <2>4. Counted(c)' \in 0 .. 1
    BY DEF Counted
  <2> QED
    BY <2>1, <2>3, <2>4, BoundAssumption DEF Runnable, RqFits
<1>3. Plus(rqLen[c], k) = Runnable(c)'
  BY <1>1, <1>2, PlusExact
<1>4. \A e \in Core : rqLen'[e] = Runnable(e)'
  BY <1>1, <1>3
<1> QED
  BY <1>4, Zenon DEF RqLenExact, Runnable, Counted

\* What another core counts changes only with its own lists.
LEMMA OthersCount ==
  ASSUME NEW e \in Core, ready'[e] = ready[e], current'[e] = current[e],
         op'[e].cont = op[e].cont \/ (op'[e].cont # "block" /\ op[e].cont # "block")
  PROVE  Runnable(e)' = Runnable(e)
BY Zenon DEF Runnable, Counted

\* Nothing is counted differently.
LEMMA ExactSame ==
  ASSUME IInv, Placed, RqLenExact, rqLen' = rqLen,
         \A e \in Core : Runnable(e)' = Runnable(e)
  PROVE  RqLenExact'
<1>1. \A e \in Core : rqLen[e] = Runnable(e)
  BY Zenon DEF RqLenExact, Runnable, Counted
<1>2. \A e \in Core : rqLen'[e] = Runnable(e)'
  BY <1>1
<1> QED
  BY <1>2, Zenon DEF RqLenExact, Runnable, Counted

\* A wake-up of the threads of S, listed by w.
LEMMA ExactWake ==
  ASSUME IInv, Placed, RqFits, TypeOK', Placed', RqLenExact, NEW c \in Core,
         NEW S \in SUBSET Thread, NEW w \in Orders(S),
         ready' = [ready EXCEPT ![c] = ready[c] \o w],
         rqLen' = [rqLen EXCEPT ![c] = Plus(rqLen[c], Len(w))],
         current' = current,
         \A e \in Core : op'[e].cont = op[e].cont \/ (op'[e].cont # "block" /\ op[e].cont # "block")
  PROVE  RqLenExact'
<1>1. /\ ready \in [Core -> Seq(Thread)] /\ rqLen \in [Core -> 0 .. RqWrap - 1]
      /\ ready[c] \in Seq(Thread)
  BY Types
<1>3. Len(ready[c] \o w) = Len(ready[c]) + Len(w) /\ Len(w) \in Nat /\ Len(ready[c]) \in Nat
  <2>1. Len(ready[c] \o w) = Len(ready[c]) + Len(w)
    BY <1>1, PushOnce
  <2>2. w \in Seq(S)
    BY OrderType
  <2> QED
    BY <1>1, <2>1, <2>2, LenIs
<1>4. Counted(c)' = Counted(c) /\ Counted(c) \in Int
  BY DEF Counted
<1>5. Runnable(c)' = Runnable(c) + Len(w)
  BY <1>1, <1>3, <1>4 DEF Runnable
<1>6. \A e \in Core \ {c} : Runnable(e)' = Runnable(e)
  BY <1>1, OthersCount
<1>7. rqLen'[c] = Plus(rqLen[c], Len(w)) /\ \A e \in Core \ {c} : rqLen'[e] = rqLen[e]
  BY <1>1
<1>8. Len(w) \in Int
  BY <1>3
<1> QED
  BY <1>5, <1>6, <1>7, <1>8, ExactStep

\* One thread more in the queue.
LEMMA ExactEnqueue ==
  ASSUME IInv, Placed, RqFits, TypeOK', Placed', RqLenExact, NEW c \in Core, NEW u \in Thread,
         ready' = [ready EXCEPT ![c] = Append(ready[c], u)],
         rqLen' = [rqLen EXCEPT ![c] = Plus(rqLen[c], 1)],
         current' = current,
         \A e \in Core : op'[e].cont = op[e].cont
  PROVE  RqLenExact'
<1>1. /\ ready \in [Core -> Seq(Thread)] /\ rqLen \in [Core -> 0 .. RqWrap - 1]
      /\ ready[c] \in Seq(Thread)
  BY Types
<1>2. Len(Append(ready[c], u)) = Len(ready[c]) + 1 /\ Len(ready[c]) \in Nat
  BY <1>1, AppendIs, LenIs
<1>3. Counted(c)' = Counted(c) /\ Counted(c) \in Int
  BY DEF Counted
<1>4. Runnable(c)' = Runnable(c) + 1
  BY <1>1, <1>2, <1>3 DEF Runnable
<1>5. \A e \in Core \ {c} : Runnable(e)' = Runnable(e)
  BY <1>1, OthersCount
<1>6. rqLen'[c] = Plus(rqLen[c], 1) /\ \A e \in Core \ {c} : rqLen'[e] = rqLen[e]
  BY <1>1
<1>7. 1 \in Int
  OBVIOUS
<1> QED
  BY <1>4, <1>5, <1>6, <1>7, ExactStep

\* A block: the running thread is counted no more, the woken sleepers are.
LEMMA ExactBlock ==
  ASSUME IInv, Placed, RqFits, TypeOK', Placed', RqLenExact, NEW c \in Core,
         NEW s \in SUBSET Thread, NEW d,
         BlockAndSwitch(c, ready[c], s, d, Plus(rqLen[c], -1)),
         current[c] \in Thread, op[c].cont # "block"
  PROVE  RqLenExact'
<1>1. /\ ready \in [Core -> Seq(Thread)] /\ rqLen \in [Core -> 0 .. RqWrap - 1]
      /\ current \in [Core -> Thread \cup {Idle}] /\ op \in [Core -> Op]
      /\ ready[c] \in Seq(Thread) /\ Len(ready[c]) \in Nat
  BY Types, CoreFacts
<1>2. /\ Runnable(c) = Len(ready[c]) + 1 /\ rqLen[c] = Len(ready[c]) + 1
      /\ Runnable(c) \in 0 .. RqWrap - 1
  BY RunnableFits, Zenon DEF RqLenExact, Runnable, Counted
<1>3. Plus(rqLen[c], -1) = Len(ready[c])
  <2>1. rqLen[c] \in Int /\ -1 \in Int /\ rqLen[c] + (-1) = Len(ready[c])
    BY <1>1, <1>2
  <2>2. Len(ready[c]) \in 0 .. RqWrap - 1
    BY <1>1, <1>2, BoundAssumption
  <2> QED
    BY <2>1, <2>2, PlusExact
<1>4. CASE ready[c] # <<>>
  <2>1. /\ current' = [current EXCEPT ![c] = Head(ready[c])]
        /\ ready' = [ready EXCEPT ![c] = Tail(ready[c])]
        /\ rqLen' = [rqLen EXCEPT ![c] = Plus(rqLen[c], -1)]
        /\ op' = [op EXCEPT ![c] = Unlocked]
    BY <1>4 DEF BlockAndSwitch
  <2>2. Len(Tail(ready[c])) = Len(ready[c]) - 1 /\ Head(ready[c]) \in Thread
    BY <1>1, <1>4, TailIs
  <2>3. Counted(c)' = 1
    BY <1>1, <2>1, <2>2, UnlockedIs DEF Counted
  <2>4. Runnable(c)' = Runnable(c) + (-1)
    <3>1. Len(ready'[c]) = Len(ready[c]) - 1
      BY <1>1, <2>1, <2>2
    <3> QED
      BY <1>1, <1>2, <2>3, <3>1 DEF Runnable
  <2>5. \A e \in Core \ {c} : Runnable(e)' = Runnable(e) /\ rqLen'[e] = rqLen[e]
    BY <1>1, <2>1, OthersCount
  <2>6. rqLen'[c] = Plus(rqLen[c], -1) /\ -1 \in Int
    BY <1>1, <2>1
  <2> QED
    BY <2>4, <2>5, <2>6, ExactStep
<1>5. CASE ready[c] = <<>>
  <2> DEFINE V == s \cap d
  <2>1. PICK w \in Orders(V) :
          /\ ready' = [ready EXCEPT ![c] = w]
          /\ rqLen' = [rqLen EXCEPT ![c] = Plus(Plus(rqLen[c], -1), Len(w))]
    BY <1>5, Zenon DEF BlockAndSwitch
  <2>2. op' = [op EXCEPT ![c] = Draining("block")] /\ current' = current
    BY <1>5 DEF BlockAndSwitch
  <2>3. Len(w) \in Nat
    <3> HIDE DEF V
    <3>2. w \in Seq(V)
      BY OrderType
    <3> QED
      BY <3>2, LenIs
  <2>4. Len(ready[c]) = 0
    BY <1>5
  <2>5. Counted(c)' = 0
    BY <1>1, <2>2, DrainingIs DEF Counted
  <2>6. Runnable(c)' = Runnable(c) + (Len(w) - 1)
    <3>1. Len(ready'[c]) = Len(w)
      BY <1>1, <2>1
    <3> QED
      BY <1>2, <2>3, <2>4, <2>5, <3>1 DEF Runnable
  <2>7. \A e \in Core \ {c} : Runnable(e)' = Runnable(e) /\ rqLen'[e] = rqLen[e]
    BY <1>1, <2>1, <2>2, OthersCount
  <2>8. rqLen'[c] = Plus(rqLen[c], Len(w) - 1) /\ Len(w) - 1 \in Int
    <3>1. rqLen'[c] = Plus(0, Len(w))
      BY <1>1, <1>3, <2>1, <2>4
    <3>2. 0 + Len(w) = rqLen[c] + (Len(w) - 1)
      BY <1>2, <2>3, <2>4
    <3> QED
      BY <2>3, <3>1, <3>2 DEF Plus
  <2> QED
    BY <2>6, <2>7, <2>8, ExactStep
<1> QED
  BY <1>4, <1>5

\* The operations of a running thread keep the counts exact.
LEMMA ExactThread ==
  ASSUME IInv, Placed, Calm, RqFits, Killable = {}, TypeOK', Placed', RqLenExact,
         NEW c \in Core, NEW t \in Thread, ThreadOp(c, t)
  PROVE  RqLenExact'
<1>1. /\ ready \in [Core -> Seq(Thread)] /\ rqLen \in [Core -> 0 .. RqWrap - 1]
      /\ current \in [Core -> Thread \cup {Idle}] /\ op \in [Core -> Op]
      /\ sleeping \in [Core -> SUBSET Thread] /\ joiners \in [Core -> [Thread -> SUBSET Thread]]
  BY Types
<1>2. op[c].pc = "run" => op[c].cont = "run"
  BY DEF Placed, Orderly, ContOf
<1>3. ASSUME NEW u \in Thread, Spawn(c, t, u) PROVE RqLenExact'
  BY <1>3, Zenon DEF Spawn, RqLenExact
<1>4. ASSUME NEW u \in Thread, SpawnReady(c, t, u) PROVE RqLenExact'
  <2>1. /\ ready' = [ready EXCEPT ![c] = Append(ready[c], u)]
        /\ rqLen' = [rqLen EXCEPT ![c] = Plus(rqLen[c], 1)]
        /\ UNCHANGED <<current, op>>
    BY <1>1, <1>4 DEF SpawnReady
  <2> QED
    BY <2>1, ExactEnqueue, Zenon
<1>5. ASSUME NEW u \in Thread, JoinCheck(c, t, u) PROVE RqLenExact'
  <2>1. op' = [op EXCEPT ![c].pc = "join", ![c].tid = u] /\ UNCHANGED <<current, ready, rqLen>>
    BY <1>5 DEF JoinCheck
  <2>2. \A e \in Core : op'[e].cont = op[e].cont
    BY <1>1, <2>1 DEF Op
  <2>3. \A e \in Core : Runnable(e)' = Runnable(e)
    BY <2>1, <2>2, OthersCount, Zenon
  <2> QED
    BY <2>1, <2>3, ExactSame
<1>6. ASSUME NEW u \in Thread, Kill(c, t, u) PROVE RqLenExact'
  BY <1>6 DEF Kill
<1>7. ASSUME NEW now \in BOOLEAN, Sleep(c, t, now) PROVE RqLenExact'
  <2> DEFINE s == sleeping[c] \cup {t}
             d == IF now THEN due \cup {t} ELSE due
  <2>1. BlockAndSwitch(c, ready[c], s, d, Plus(rqLen[c], -1)) /\ current[c] \in Thread /\ op[c].pc = "run"
    BY <1>7 DEF Sleep, Executing
  <2>2. s \in SUBSET Thread
    BY <1>1
  <2> HIDE DEF s, d
  <2> QED
    BY <1>2, <2>1, <2>2, ExactBlock
<1>8. CASE Exit(c, t)
  <2>1. PICK w \in Orders(joiners[c][t]) :
          /\ ready' = [ready EXCEPT ![c] = ready[c] \o w]
          /\ rqLen' = [rqLen EXCEPT ![c] = Plus(rqLen[c], Len(w))]
    BY <1>8, Zenon DEF Exit, Unjoin
  <2>2. /\ op' = [op EXCEPT ![c] = Sending([op[c] EXCEPT !.cont = "exit"], "unjoin", t, Others(c))]
        /\ op[c].pc = "run" /\ current' = current
    BY <1>8 DEF Exit, Unjoin, Executing
  <2>3. op'[c].cont = "exit" /\ \A e \in Core \ {c} : op'[e] = op[e]
    BY <1>1, <2>2 DEF Op, Sending
  <2>4. \A e \in Core : op'[e].cont = op[e].cont \/ (op'[e].cont # "block" /\ op[e].cont # "block")
    BY <1>2, <2>2, <2>3
  <2>5. joiners[c][t] \in SUBSET Thread
    BY <1>1
  <2> QED
    BY <2>1, <2>2, <2>4, <2>5, ExactWake, Zenon
<1>9. CASE Yield(c, t)
  <2>1. /\ ready[c] # <<>> /\ current[c] = t /\ op[c].pc = "run"
        /\ current' = [current EXCEPT ![c] = Head(ready[c])]
        /\ ready' = [ready EXCEPT ![c] = Append(Tail(ready[c]), t)]
        /\ UNCHANGED <<op, rqLen>>
    BY <1>9 DEF Yield, Executing
  <2>2. /\ Len(Tail(ready[c])) = Len(ready[c]) - 1 /\ Head(ready[c]) \in Thread
        /\ Tail(ready[c]) \in Seq(Thread) /\ Len(ready[c]) \in Nat
    BY <1>1, <2>1, TailIs, LenIs
  <2>3. Len(Append(Tail(ready[c]), t)) = Len(ready[c])
    <3> DEFINE b == Tail(ready[c])
    <3>1. b \in Seq(Thread) /\ Len(b) = Len(ready[c]) - 1
      BY <2>2
    <3> HIDE DEF b
    <3>2. Len(Append(b, t)) = Len(b) + 1
      BY <3>1, AppendIs
    <3> QED
      BY <2>2, <3>1, <3>2 DEF b
  <2>4. Counted(c)' = 1 /\ Counted(c) = 1
    BY <1>1, <1>2, <2>1, <2>2 DEF Counted
  <2>5. Runnable(c)' = Runnable(c)
    BY <1>1, <2>1, <2>3, <2>4 DEF Runnable
  <2>6. \A e \in Core \ {c} : Runnable(e)' = Runnable(e)
    BY <1>1, <2>1, OthersCount
  <2> QED
    BY <2>1, <2>5, <2>6, ExactSame
<1> QED
  BY <1>3, <1>4, <1>5, <1>6, <1>7, <1>8, <1>9 DEF ThreadOp

\* So does a message taken from the inbox.
LEMMA ExactDrain ==
  ASSUME IInv, Placed, Calm, RqFits, TypeOK', Placed', RqLenExact, NEW c \in Core, DrainOne(c)
  PROVE  RqLenExact'
<1>1. /\ ready \in [Core -> Seq(Thread)] /\ rqLen \in [Core -> 0 .. RqWrap - 1]
      /\ op \in [Core -> Op] /\ joiners \in [Core -> [Thread -> SUBSET Thread]]
  BY Types
<1>2. PICK t \in Thread : DrainThread(c, t) \/ DrainExited(c, t)
  BY CalmExcludes DEF DrainOne
<1>3. CASE DrainThread(c, t)
  <2>1. /\ ready' = [ready EXCEPT ![c] = Append(ready[c], t)]
        /\ rqLen' = [rqLen EXCEPT ![c] = Plus(rqLen[c], 1)]
        /\ current' = current /\ op' = [op EXCEPT ![c].n = @ - 1, ![c].got = TRUE]
    BY <1>1, <1>3 DEF DrainThread
  <2>2. \A e \in Core : op'[e].cont = op[e].cont
    BY <1>1, <2>1 DEF Op
  <2> QED
    BY <2>1, <2>2, ExactEnqueue, Zenon
<1>4. CASE DrainExited(c, t)
  <2>1. PICK w \in Orders(joiners[c][t]) :
          /\ ready' = [ready EXCEPT ![c] = ready[c] \o w]
          /\ rqLen' = [rqLen EXCEPT ![c] = Plus(rqLen[c], Len(w))]
    BY <1>1, <1>4, Zenon DEF DrainExited
  <2>2. current' = current /\ op' = [op EXCEPT ![c].n = @ - 1]
    BY <1>4 DEF DrainExited
  <2>3. \A e \in Core : op'[e].cont = op[e].cont
    BY <1>1, <2>2 DEF Op
  <2>4. joiners[c][t] \in SUBSET Thread
    BY <1>1
  <2> QED
    BY <2>1, <2>2, <2>3, <2>4, ExactWake, Zenon
<1> QED
  BY <1>2, <1>3, <1>4

\* What balance_once takes off the queue it takes off the count.
LEMMA ExactRebalance ==
  ASSUME IInv, Placed, RqFits, TypeOK', Placed', RqLenExact, NEW c \in Core, NEW d \in Core,
         TickSwitch(c, d) \/ TickSkip(c, d)
  PROVE  RqLenExact'
<1> DEFINE k == Moves(c, d)
           q == Oldest(ready[c], k)
           back == IF current[c] = Idle THEN <<>> ELSE <<current[c]>>
<1>1. /\ ready \in [Core -> Seq(Thread)] /\ rqLen \in [Core -> 0 .. RqWrap - 1]
      /\ current \in [Core -> Thread \cup {Idle}] /\ op \in [Core -> Op]
      /\ ready[c] \in Seq(Thread) /\ Len(ready[c]) \in Nat
  BY Types, CoreFacts
<1>2. k \in 0 .. Len(ready[c])
  <2>1. rqLen \in [Core -> Int]
    BY <1>1, BoundAssumption
  <2> QED
    BY <1>1, <2>1, MovesType
<1>3. q \in Seq(Thread) /\ Len(q) = Len(ready[c]) - k
  BY <1>1, <1>2, SplitType, SplitOnce, Zenon
<1>4. /\ op[c].cont = "tick" /\ op' = [op EXCEPT ![c] = Unlocked]
      /\ rqLen' = [rqLen EXCEPT ![c] = Plus(rqLen[c], -k)]
  BY <1>1, Zenon DEF TickSwitch, TickSkip, Rebalance, Drained
<1>5. Runnable(c)' = Runnable(c) + (-k) /\ \A e \in Core \ {c} : ready'[e] = ready[e] /\ current'[e] = current[e]
  <2>1. CASE TickSwitch(c, d)
    <3>1. /\ current' = [current EXCEPT ![c] = IF q = <<>> THEN Idle ELSE Head(q)]
          /\ ready' = [ready EXCEPT ![c] = IF q = <<>> THEN back ELSE Tail(q) \o back]
      BY <2>1 DEF TickSwitch
    <3> HIDE DEF q, k
    <3>2. back \in Seq(Thread) /\ Len(back) = Counted(c)
      BY <1>1, <1>4, ThreadAssumption DEF Counted
    <3> HIDE DEF back
    <3>3. CASE q = <<>>
      <4>1. current'[c] = Idle /\ ready'[c] = back /\ Len(q) = 0
        BY <1>1, <3>1, <3>3
      <4>2. Counted(c)' = 0
        BY <4>1, ThreadAssumption DEF Counted
      <4>3. k \in Int /\ Len(ready[c]) = k /\ Counted(c) \in Int
        BY <1>1, <1>2, <1>3, <4>1 DEF Counted
      <4>4. Runnable(c)' = Runnable(c) + (-k)
        BY <3>2, <4>1, <4>2, <4>3 DEF Runnable
      <4> QED
        BY <1>1, <3>1, <4>4
    <3>4. CASE q # <<>>
      <4>1. current'[c] = Head(q) /\ ready'[c] = Tail(q) \o back
        BY <1>1, <3>1, <3>4
      <4>2. Tail(q) \in Seq(Thread) /\ Len(Tail(q)) = Len(q) - 1 /\ Head(q) \in Thread
        BY <1>3, <3>4, TailIs
      <4>3. Counted(c)' = 1
        BY <1>1, <1>4, <4>1, <4>2, UnlockedIs DEF Counted
      <4>4. Len(Tail(q) \o back) = Len(Tail(q)) + Len(back)
        BY <3>2, <4>2, ConcatIs
      <4>5. k \in Int /\ Counted(c) \in Int /\ Len(q) \in Int
        BY <1>1, <1>2, <1>3 DEF Counted
      <4>6. Runnable(c)' = Len(q) - 1 + Len(back) + 1 /\ Runnable(c) = Len(ready[c]) + Counted(c)
        BY <4>1, <4>2, <4>3, <4>4 DEF Runnable
      <4>7. Runnable(c)' = Runnable(c) + (-k)
        BY <1>1, <1>3, <3>2, <4>5, <4>6
      <4> QED
        BY <1>1, <3>1, <4>7
    <3> QED
      BY <3>3, <3>4
  <2>2. CASE TickSkip(c, d)
    <3>1. current' = current /\ ready' = [ready EXCEPT ![c] = q]
      BY <1>1, <2>2 DEF TickSkip
    <3> HIDE DEF q, k
    <3>2. Counted(c)' = Counted(c) /\ Counted(c) \in Int /\ k \in Int
      BY <1>1, <1>2, <1>4, <3>1, UnlockedIs DEF Counted
    <3>3. Runnable(c)' = Len(q) + Counted(c) /\ Runnable(c) = Len(ready[c]) + Counted(c)
      BY <1>1, <3>1, <3>2 DEF Runnable
    <3>4. Runnable(c)' = Runnable(c) + (-k)
      BY <1>1, <1>3, <3>2, <3>3
    <3> QED
      BY <1>1, <3>1, <3>4
  <2> QED
    BY <2>1, <2>2, Zenon
<1>6. \A e \in Core \ {c} : Runnable(e)' = Runnable(e) /\ rqLen'[e] = rqLen[e]
  BY <1>1, <1>4, <1>5, OthersCount
<1>7. rqLen'[c] = Plus(rqLen[c], -k) /\ -k \in Int
  BY <1>1, <1>2, <1>4
<1> HIDE DEF k
<1> QED
  BY <1>5, <1>6, <1>7, ExactStep

\* So does every step of a core that holds its lock.
LEMMA ExactLocked ==
  ASSUME IInv, Placed, Calm, RqFits, Killable = {}, TypeOK', Placed', RqLenExact,
         NEW c \in Core, Locked(c)
  PROVE  RqLenExact'
<1>1. /\ ready \in [Core -> Seq(Thread)] /\ rqLen \in [Core -> 0 .. RqWrap - 1]
      /\ current \in [Core -> Thread \cup {Idle}] /\ op \in [Core -> Op]
      /\ sleeping \in [Core -> SUBSET Thread]
      /\ sleeping[c] \in SUBSET Thread
  BY Types
<1>2. CASE JoinBlock(c)
  <2>1. /\ BlockAndSwitch(c, ready[c], sleeping[c], due, Plus(rqLen[c], -1)) /\ op[c].pc = "join"
    BY <1>2 DEF JoinBlock
  <2>2. current[c] \in Thread
    BY <1>1, <2>1 DEF IInv, FreshIsNowhere
  <2>3. op[c].cont # "block"
    BY <2>1 DEF Placed, Orderly, ContOf
  <2> QED
    BY <1>1, <2>1, <2>2, <2>3, ExactBlock
<1>3. CASE Send(c)
  <2>1. UNCHANGED <<ready, current, rqLen>>
    BY <1>3 DEF Send
  <2>2. PICK d \in op[c].todo : op' = [op EXCEPT ![c].todo = @ \ {d}]
                                \/ op' = [op EXCEPT ![c] = [op[c] EXCEPT !.pc = "panic"]]
    BY <1>1, <1>3, Zenon DEF Send, Calm, CalmOp
  <2>3. \A e \in Core : op'[e].cont = op[e].cont
    <3>1. CASE op' = [op EXCEPT ![c].todo = @ \ {d}]
      BY <1>1, <3>1 DEF Op
    <3>2. CASE op' = [op EXCEPT ![c] = [op[c] EXCEPT !.pc = "panic"]]
      BY <1>1, <3>2 DEF Op
    <3> QED
      BY <2>2, <3>1, <3>2
  <2>4. \A e \in Core : Runnable(e)' = Runnable(e)
    BY <2>1, <2>3, OthersCount
  <2> QED
    BY <2>1, <2>4, ExactSame
<1>4. CASE ExitSwitch(c)
  <2>1. /\ BlockAndSwitch(c, ready[c], sleeping[c], due, Plus(rqLen[c], -1)) /\ op[c].cont = "exit"
    BY <1>4 DEF ExitSwitch
  <2>2. current[c] \in Thread
    BY <1>1, <2>1 DEF Calm
  <2> QED
    BY <1>1, <2>1, <2>2, ExactBlock, Zenon
<1>5. CASE KillDone(c)
  BY <1>5, CalmExcludes
<1>6. CASE DrainOne(c)
  BY <1>6, ExactDrain
<1>7. CASE BlockSwitch(c)
  <2> DEFINE q == ready[c]
  <2>1. /\ op[c].cont = "block" /\ op' = [op EXCEPT ![c] = Unlocked] /\ rqLen' = rqLen
        /\ current' = [current EXCEPT ![c] = IF q = <<>> THEN Idle ELSE Head(q)]
        /\ ready' = [ready EXCEPT ![c] = IF q = <<>> THEN q ELSE Tail(q)]
    BY <1>1, <1>7 DEF BlockSwitch, Drained
  <2>2. q \in Seq(Thread) /\ Len(q) \in Nat
    BY <1>1, LenIs
  <2>3. Runnable(c) = Len(q)
    BY <2>1, <2>2 DEF Runnable, Counted
  <2>4. Runnable(c)' = Len(q)
    <3>1. CASE q = <<>>
      BY <1>1, <2>1, <2>2, <3>1, ThreadAssumption DEF Runnable, Counted
    <3>2. CASE q # <<>>
      <4>1. Head(q) \in Thread /\ Len(Tail(q)) = Len(q) - 1
        BY <2>2, <3>2, TailIs
      <4>2. ready'[c] = Tail(q) /\ current'[c] = Head(q) /\ op'[c] = Unlocked
        BY <1>1, <2>1, <3>2
      <4>3. Counted(c)' = 1
        BY <4>1, <4>2, UnlockedIs DEF Counted
      <4> QED
        BY <2>2, <4>1, <4>2, <4>3 DEF Runnable
    <3> QED
      BY <3>1, <3>2
  <2>5. \A e \in Core \ {c} : Runnable(e)' = Runnable(e)
    BY <1>1, <2>1, OthersCount
  <2> QED
    BY <2>1, <2>3, <2>4, <2>5, ExactSame
<1>8. ASSUME NEW d \in Core, TickSwitch(c, d) \/ TickSkip(c, d) PROVE RqLenExact'
  BY <1>8, ExactRebalance
<1> QED
  BY <1>2, <1>3, <1>4, <1>5, <1>6, <1>7, <1>8 DEF Locked

\* Every step keeps the counts exact.
LEMMA ExactNext ==
  ASSUME IInv, Placed, Calm, RqFits, Killable = {}, TypeOK', Placed', RqLenExact, [Next]_vars
  PROVE  RqLenExact'
<1>1. ASSUME NEW c \in Core, Tick(c) PROVE RqLenExact'
  <2> DEFINE S == sleeping[c] \cap due
  <2>1. PICK w \in Orders(S) :
          /\ ready' = [ready EXCEPT ![c] = ready[c] \o w]
          /\ rqLen' = [rqLen EXCEPT ![c] = Plus(rqLen[c], Len(w))]
    BY <1>1, Types, Zenon DEF Tick
  <2>2. op' = [op EXCEPT ![c] = Draining("tick")] /\ current' = current /\ op[c].pc = "run"
    BY <1>1 DEF Tick
  <2>3. op'[c].cont = "tick" /\ op[c].cont = "run" /\ \A e \in Core \ {c} : op'[e] = op[e]
    BY <2>2, Types, DrainingIs, Zenon DEF Placed, Orderly, ContOf
  <2>4. \A e \in Core : op'[e].cont = op[e].cont \/ (op'[e].cont # "block" /\ op[e].cont # "block")
    BY <2>3
  <2>5. S \in SUBSET Thread
    BY Types
  <2> HIDE DEF S
  <2> QED
    BY <2>1, <2>2, <2>4, <2>5, ExactWake, Zenon
<1>2. ASSUME NEW c \in Core, NEW d \in Core, LookForOverloaded(c, d) PROVE RqLenExact'
  BY <1>2, Zenon DEF LookForOverloaded, RqLenExact
<1>3. ASSUME NEW t \in Thread, Expire(t) PROVE RqLenExact'
  BY <1>3, Zenon DEF Expire, RqLenExact
<1>4. CASE UNCHANGED vars
  BY <1>4, Zenon DEF vars, RqLenExact
<1> QED
  BY <1>1, <1>2, <1>3, <1>4, ExactThread, ExactLocked DEF Next

\* The counts are exact at the start.
LEMMA InitExact == ASSUME Init, RqFits PROVE RqLenExact
<1>2. 1 % RqWrap = 1 /\ 0 % RqWrap = 0
  BY BoundAssumption DEF RqFits, Short
<1>3. \A c \in Core : /\ rqLen[c] = IF c = 0 THEN 1 ELSE 0
                      /\ current[c] = IF c = 0 THEN Boot ELSE Idle
                      /\ Len(ready[c]) = 0 /\ op[c] = Unlocked
  BY <1>2 DEF Init
<1>4. ASSUME NEW c \in Core PROVE rqLen[c] = Len(ready[c]) + Counted(c)
  <2>1. op[c].cont # "block"
    BY <1>3, UnlockedIs
  <2>2. rqLen[c] = Counted(c) /\ Counted(c) \in Int
    BY <1>3, <2>1, ThreadAssumption DEF Counted
  <2> QED
    BY <1>3, <2>2
<1> QED
  BY <1>4, Zenon DEF RqLenExact, Counted

(***************************************************************************)
(* Room in the inboxes.  Without kill an inbox has at most one message     *)
(* about a thread: its migration while it lives, its exit afterwards.  So  *)
(* an inbox with room for every thread never fills up.                     *)
(***************************************************************************)
TidsOf(m)   == {m[i].tid : i \in DOMAIN m}
TidsOnce(m) == \A i, j \in DOMAIN m : m[i].tid = m[j].tid => i = j

Announced ==
  /\ \A d \in Core : TidsOnce(inbox[d])
  /\ \A c \in Core : op[c].pc = "unjoin" =>
        \A d \in op[c].todo : op[c].tid \notin TidsOf(inbox[d])
  /\ \A c, e \in Core : op[c].pc = "unjoin" /\ op[e].pc = "unjoin" /\ c # e
                            => op[c].tid # op[e].tid
  /\ SendsSucceed

\* A message is taken out of an inbox.
LEMMA TidsTail ==
  ASSUME NEW m \in Seq(Message), m # <<>>, TidsOnce(m)
  PROVE  TidsOnce(Tail(m)) /\ TidsOf(Tail(m)) \subseteq TidsOf(m)
<1>1. /\ Len(m) \in Nat \ {0} /\ DOMAIN m = 1 .. Len(m)
      /\ DOMAIN Tail(m) = 1 .. Len(m) - 1
      /\ \A i \in 1 .. Len(m) - 1 : Tail(m)[i] = m[i + 1]
  BY TailIs, LenIs, EmptyIs
<1>2. \A i \in 1 .. Len(m) - 1 : i + 1 \in DOMAIN m
  BY <1>1
<1>3. TidsOnce(Tail(m))
  BY <1>1, <1>2 DEF TidsOnce
<1>4. TidsOf(Tail(m)) \subseteq TidsOf(m)
  BY <1>1, <1>2 DEF TidsOf
<1> QED
  BY <1>3, <1>4

\* Messages about other threads are added to an inbox.
LEMMA TidsAdd ==
  ASSUME NEW m \in Seq(Message), TidsOnce(m), NEW s \in Seq(Message), TidsOnce(s),
         TidsOf(m) \cap TidsOf(s) = {}
  PROVE  TidsOnce(m \o s) /\ TidsOf(m \o s) \subseteq TidsOf(m) \cup TidsOf(s)
<1>1. /\ Len(m) \in Nat /\ DOMAIN m = 1 .. Len(m)
      /\ Len(s) \in Nat /\ DOMAIN s = 1 .. Len(s)
      /\ DOMAIN (m \o s) = 1 .. Len(m) + Len(s)
      /\ \A i \in 1 .. Len(m) + Len(s) : (m \o s)[i] = IF i <= Len(m) THEN m[i] ELSE s[i - Len(m)]
  BY LenIs, ConcatIs
<1>2. /\ \A i \in 1 .. Len(m) : (m \o s)[i] = m[i]
      /\ \A i \in 1 .. Len(m) + Len(s) :
            \/ i \in 1 .. Len(m)
            \/ i - Len(m) \in 1 .. Len(s) /\ (m \o s)[i] = s[i - Len(m)]
  BY <1>1
<1>3. \A i \in 1 .. Len(m), j \in 1 .. Len(s) : m[i].tid # s[j].tid
  BY <1>1, Zenon DEF TidsOf
<1>4. ASSUME NEW i \in 1 .. Len(m) + Len(s), NEW j \in 1 .. Len(m) + Len(s),
             (m \o s)[i].tid = (m \o s)[j].tid
      PROVE  i = j
  <2>1. CASE i \in 1 .. Len(m) /\ j \in 1 .. Len(m)
    <3>1. m[i].tid = m[j].tid
      BY <1>2, <1>4, <2>1
    <3> QED
      BY <1>1, <2>1, <3>1 DEF TidsOnce
  <2>2. CASE i - Len(m) \in 1 .. Len(s) /\ j - Len(m) \in 1 .. Len(s)
    <3>1. (m \o s)[i] = s[i - Len(m)] /\ (m \o s)[j] = s[j - Len(m)]
      BY <1>1, <2>2
    <3>2. s[i - Len(m)].tid = s[j - Len(m)].tid
      BY <1>4, <3>1
    <3>3. i - Len(m) = j - Len(m)
      BY <1>1, <2>2, <3>2 DEF TidsOnce
    <3> QED
      BY <1>1, <3>3
  <2>3. CASE i \in 1 .. Len(m) /\ j - Len(m) \in 1 .. Len(s)
    <3>1. (m \o s)[i] = m[i] /\ (m \o s)[j] = s[j - Len(m)]
      BY <1>1, <2>3
    <3> QED
      BY <1>3, <1>4, <2>3, <3>1
  <2>4. CASE i - Len(m) \in 1 .. Len(s) /\ j \in 1 .. Len(m)
    <3>1. (m \o s)[j] = m[j] /\ (m \o s)[i] = s[i - Len(m)]
      BY <1>1, <2>4
    <3> QED
      BY <1>3, <1>4, <2>4, <3>1
  <2> QED
    BY <1>2, <2>1, <2>2, <2>3, <2>4
<1>5. TidsOnce(m \o s)
  BY <1>1, <1>4 DEF TidsOnce
<1>6. TidsOf(m \o s) \subseteq TidsOf(m) \cup TidsOf(s)
  BY <1>1, <1>2 DEF TidsOf
<1> QED
  BY <1>5, <1>6

\* One message about another thread is added to an inbox.
LEMMA TidsAppend ==
  ASSUME NEW m \in Seq(Message), TidsOnce(m), NEW x \in Message, x.tid \notin TidsOf(m)
  PROVE  TidsOnce(Append(m, x)) /\ TidsOf(Append(m, x)) = TidsOf(m) \cup {x.tid}
<1>1. /\ Len(m) \in Nat /\ DOMAIN m = 1 .. Len(m)
      /\ DOMAIN Append(m, x) = 1 .. Len(m) + 1
      /\ \A i \in 1 .. Len(m) : Append(m, x)[i] = m[i]
      /\ Append(m, x)[Len(m) + 1] = x
  BY AppendIs, LenIs
<1>2. /\ \A i \in 1 .. Len(m) + 1 : i \in 1 .. Len(m) \/ i = Len(m) + 1
      /\ \A i \in 1 .. Len(m) : i \in 1 .. Len(m) + 1 /\ m[i].tid # x.tid
      /\ Len(m) + 1 \in 1 .. Len(m) + 1
  BY <1>1 DEF TidsOf
<1>3. TidsOnce(Append(m, x))
  BY <1>1, <1>2 DEF TidsOnce
<1>4. TidsOf(Append(m, x)) = TidsOf(m) \cup {x.tid}
  BY <1>1, <1>2 DEF TidsOf
<1> QED
  BY <1>3, <1>4

\* The messages of an inbox and a list of other threads are about different threads.
LEMMA TidsFit ==
  ASSUME Short, NEW m \in Seq(Message), TidsOnce(m), NEW f \in Seq(Thread), IsInjective(f),
         Range(f) \cap TidsOf(m) = {}
  PROVE  /\ Len(m) \in Nat /\ Len(f) \in Nat /\ Cardinality(Thread) \in Nat
         /\ Len(m) + Len(f) <= Cardinality(Thread)
<1> DEFINE g == [i \in 1 .. Len(m) |-> m[i].tid]
<1>1. Len(m) \in Nat /\ DOMAIN m = 1 .. Len(m) /\ \A i \in 1 .. Len(m) : m[i] \in Message
  BY LenIs, ElementIs
<1>2. \A i \in 1 .. Len(m) : m[i].tid \in Thread
  BY <1>1 DEF Message
<1>3. g \in Seq(Thread) /\ Len(g) = Len(m)
  <2>1. g \in [1 .. Len(m) -> Thread]
    BY <1>2
  <2> HIDE DEF g
  <2> QED
    BY <1>1, <2>1, SeqIs, LenIs
<1>4. IsInjective(g) /\ Range(g) = TidsOf(m)
  BY <1>1 DEF IsInjective, Range, TidsOnce, TidsOf
<1> HIDE DEF g
<1>5. IsInjective(g \o f) /\ Len(g \o f) = Len(g) + Len(f)
  BY <1>3, <1>4, JoinOnce
<1>6. g \o f \in Seq(Thread)
  BY <1>3, ConcatIs
<1>7. Len(g \o f) <= Cardinality(Thread) /\ Cardinality(Thread) \in Nat
  BY <1>5, <1>6, Zenon DEF Short
<1> QED
  BY <1>1, <1>3, <1>5, <1>7, LenIs

\* What a held thread and a message have to do with each other.
LEMMA TidsLive ==
  ASSUME IInv, Placed, Calm, NEW d \in Core, NEW t \in TidsOf(inbox[d])
  PROVE  t \in alive => t \in held[Post(d)]
<1>1. PICK i \in DOMAIN inbox[d] : inbox[d][i].tid = t
  BY DEF TidsOf
<1>2. inbox[d][i] \in GoodMessage
  <2>1. inbox[d] \in Seq(GoodMessage)
    BY DEF IInv, ExitedIsDead
  <2> QED
    BY <1>1, <2>1, ElementIs, LenIs
<1>3. inbox[d][i] \in Range(inbox[d]) /\ t \in Thread
  BY <1>1, <1>2 DEF Range, GoodMessage, Message
<1>4. inbox[d][i].type # "Kill"
  <2>1. inbox[d][i].type = "Kill" => inbox[d][i] = KillMsg(t)
    BY <1>1, <1>2 DEF GoodMessage, Message, KillMsg
  <2> QED
    BY <1>3, <2>1 DEF Calm, NoKill
<1>5. CASE inbox[d][i].type = "JoinTargetExited"
  BY <1>1, <1>2, <1>5, Zenon DEF GoodMessage
<1>6. CASE inbox[d][i].type = "Thread"
  <2>1. inbox[d][i] = ThreadMsg(t)
    BY <1>1, <1>2, <1>6 DEF GoodMessage, Message, ThreadMsg
  <2>2. t \in Carried(inbox[d])
    BY <1>3, <2>1 DEF Carried
  <2> QED
    BY <2>2, HeldIs, Zenon
<1> QED
  BY <1>2, <1>4, <1>5, <1>6 DEF GoodMessage, Message

\* A step that starts no exit and adds no message.
LEMMA AnnouncedKept ==
  ASSUME Announced,
         \A d \in Core : TidsOnce(inbox'[d]) /\ TidsOf(inbox'[d]) \subseteq TidsOf(inbox[d]),
         \A e \in Core : op'[e].pc # "panic",
         \A e \in Core : op'[e].pc = "unjoin" =>
             op[e].pc = "unjoin" /\ op'[e].tid = op[e].tid /\ op'[e].todo = op[e].todo,
         op \in [Core -> Op]
  PROVE  Announced'
<1>1. \A e \in Core : op[e].todo \subseteq Core
  BY DEF Op
<1> QED
  BY <1>1, ZenonT(30) DEF Announced, SendsSucceed

\* No kill, and room in every inbox for a message about each thread.
Ample == Short /\ Killable = {} /\ Cardinality(Thread) <= InboxCap

NoneDead == AllOf(held) \subseteq alive

Whole == NoneDead /\ Announced

\* A held thread is alive, and no message in an inbox that does not hold it is about it.
LEMMA HeldAlive ==
  ASSUME IInv, Placed, Calm, Whole, NEW k \in Holder, NEW t \in held[k]
  PROVE  /\ t \in alive
         /\ \A d \in Core : k # Post(d) => t \notin TidsOf(inbox[d])
<1>1. t \in alive
  BY HeldIs, Zenon DEF Whole, NoneDead, AllOf
<1>2. ASSUME NEW d \in Core, k # Post(d), t \in TidsOf(inbox[d]) PROVE FALSE
  <2>1. t \in held[Post(d)] /\ Post(d) \in Holder
    BY <1>1, <1>2, TidsLive, HeldIs, Zenon DEF Whole
  <2> QED
    BY <1>2, <2>1, HeldIs, Zenon DEF Placed, Disjoint
<1> QED
  BY <1>1, <1>2

\* balance_once finds room for all it takes.
LEMMA RebalanceWhole ==
  ASSUME IInv, Placed, Calm, Whole, Ample, NEW c \in Core, NEW d \in Core, Rebalance(c, d)
  PROVE  Moves(c, d) <= InboxCap - Len(inbox[d]) /\ Announced'
<1> DEFINE k == Moves(c, d)
           f == Newest(ready[c], k)
           s == Sent(c, d)
<1>1. /\ ready \in [Core -> Seq(Thread)] /\ inbox \in [Core -> Seq(Message)] /\ op \in [Core -> Op]
      /\ rqLen \in [Core -> Int] /\ IsInjective(ready[c])
      /\ ready[c] \in Seq(Thread) /\ inbox[d] \in Seq(Message) /\ Len(ready[c]) \in Nat
  BY Types, CoreFacts, BoundAssumption DEF Placed, Orderly
<1>2. k \in 0 .. Len(ready[c])
  BY <1>1, MovesType
<1>3. /\ f \in [1 .. k -> Thread] /\ IsInjective(f) /\ Range(f) \subseteq Range(ready[c])
  BY <1>1, <1>2, SplitType, SplitOnce
<1>4. /\ s \in Seq(Message) /\ Carried(s) \subseteq Range(f) /\ CarriedOnce(s)
  BY <1>1, SentOnce
<1>5. \A i \in DOMAIN s : s[i].type = "Thread"
  BY DEF Sent, ThreadMsg
<1>6. /\ inbox' = [inbox EXCEPT ![d] = inbox[d] \o s] /\ op' = [op EXCEPT ![c] = Unlocked]
  BY DEF Rebalance
<1> HIDE DEF f, s, k
<1>7. f \in Seq(Thread) /\ Len(f) = k
  BY <1>1, <1>2, <1>3, SeqIs, LenIs
<1>8. \A t \in Range(f) : t \in alive /\ t \notin TidsOf(inbox[d])
  <2>1. Queue(c) \in Holder /\ held[Queue(c)] = Range(ready[c]) /\ Queue(c) # Post(d)
    BY HeldIs, Zenon DEF Queue, Post
  <2> QED
    BY <1>3, <2>1, HeldAlive, Zenon
<1>9. Len(inbox[d]) \in Nat /\ Len(inbox[d]) + k <= Cardinality(Thread) /\ Cardinality(Thread) \in Nat
  <2>1. TidsOnce(inbox[d]) /\ Range(f) \cap TidsOf(inbox[d]) = {}
    BY <1>8 DEF Whole, Announced
  <2> QED
    BY <1>1, <1>3, <1>7, <2>1, TidsFit, Zenon DEF Ample
<1>10. k <= InboxCap - Len(inbox[d])
  BY <1>2, <1>9, <1>1, BoundAssumption DEF Ample
<1>11. TidsOnce(s) /\ TidsOf(s) \subseteq Range(f)
  <2>1. \A i \in DOMAIN s : s[i] \in Message
    BY <1>4, ElementIs, LenIs, Zenon
  <2>2. \A i \in DOMAIN s : s[i] = ThreadMsg(s[i].tid) /\ s[i].tid \in Thread
    BY <1>5, <2>1 DEF Message, ThreadMsg
  <2>3. \A i \in DOMAIN s : s[i].tid \in Range(f)
    BY <1>4, <2>2 DEF Carried, Range
  <2>4. TidsOnce(s)
    BY <1>4, <1>5, <2>2 DEF TidsOnce, CarriedOnce
  <2> QED
    BY <2>3, <2>4 DEF TidsOf
<1>12. TidsOnce(inbox[d] \o s) /\ TidsOf(inbox[d] \o s) \subseteq TidsOf(inbox[d]) \cup Range(f)
  <2>1. TidsOnce(inbox[d]) /\ TidsOf(inbox[d]) \cap TidsOf(s) = {}
    BY <1>8, <1>11 DEF Whole, Announced
  <2> QED
    BY <1>1, <1>4, <1>11, <2>1, TidsAdd
<1>13. /\ op'[c] = Unlocked /\ Unlocked.pc = "run"
       /\ \A e \in Core \ {c} : op'[e] = op[e]
       /\ inbox'[d] = inbox[d] \o s /\ \A e \in Core \ {d} : inbox'[e] = inbox[e]
  BY <1>1, <1>6, Zenon DEF Unlocked
<1>14. \A e \in Core : op[e].pc = "unjoin" => op[e].tid \notin Range(f) /\ op[e].todo \subseteq Core
  BY <1>1, <1>8, Zenon DEF IInv, ExitedIsDead, Op
<1>15. Announced'
  <2>1. \A e \in Core : TidsOnce(inbox'[e])
    BY <1>12, <1>13, Zenon DEF Whole, Announced
  <2>2. ASSUME NEW e \in Core, op'[e].pc = "unjoin", NEW x \in op'[e].todo
        PROVE  op'[e].tid \notin TidsOf(inbox'[x])
    <3>1. e # c /\ op'[e] = op[e] /\ x \in Core
      BY <1>13, <1>14, <2>2, Zenon
    <3>2. op[e].tid \notin TidsOf(inbox[x]) /\ op[e].tid \notin Range(f)
      BY <1>14, <2>2, <3>1, Zenon DEF Whole, Announced
    <3> QED
      BY <1>12, <1>13, <3>1, <3>2, Zenon
  <2>3. \A e \in Core : op'[e].pc = "unjoin" => op'[e] = op[e]
    BY <1>13
  <2>4. \A e \in Core : op'[e].pc # "panic"
    BY <1>13, Zenon DEF Whole, Announced, SendsSucceed
  <2> QED
    BY <2>1, <2>2, <2>3, <2>4, Zenon DEF Whole, Announced, SendsSucceed
<1> QED
  BY <1>10, <1>15 DEF k

\* schedule_on_all_others finds room.
LEMMA SendWhole ==
  ASSUME IInv, Placed, Calm, Whole, Ample, NEW c \in Core, Send(c)
  PROVE  Announced'
<1> DEFINE t == op[c].tid
           x == ExitedMsg(t)
<1>1. op \in [Core -> Op] /\ inbox \in [Core -> Seq(Message)]
  BY Types
<1>2. op[c].pc = "unjoin"
  BY DEF Send, Calm, CalmOp
<1>3. PICK d \in op[c].todo :
         \/ /\ inbox' = [inbox EXCEPT ![d] = Append(@, x)]
            /\ op' = [op EXCEPT ![c].todo = @ \ {d}]
         \/ Len(inbox[d]) >= InboxCap
  BY <1>2 DEF Send
<1>4. /\ d \in Core /\ t \in Thread /\ inbox[d] \in Seq(Message)
      /\ x \in Message /\ x.tid = t /\ t \notin TidsOf(inbox[d]) /\ TidsOnce(inbox[d])
  BY <1>1, <1>2, Zenon DEF Op, ExitedMsg, Message, Whole, Announced
<1>5. Len(inbox[d]) < InboxCap
  <2> DEFINE f == <<t>>
  <2>1. f \in Seq(Thread) /\ Len(f) = 1 /\ IsInjective(f) /\ Range(f) = {t}
    <3>1. f \in Seq(Thread) /\ Len(f) = 1 /\ DOMAIN f = {1} /\ f[1] = t
      BY <1>4
    <3> HIDE DEF f
    <3> QED
      BY <3>1 DEF IsInjective, Range
  <2>2. Range(f) \cap TidsOf(inbox[d]) = {}
    BY <1>4, <2>1, Zenon
  <2> HIDE DEF f, t
  <2>3. Len(inbox[d]) \in Nat /\ Len(inbox[d]) + 1 <= Cardinality(Thread) /\ Cardinality(Thread) \in Nat
    BY <1>4, <2>1, <2>2, TidsFit, Zenon DEF Ample
  <2> QED
    BY <2>3, BoundAssumption DEF Ample
<1>6. /\ inbox' = [inbox EXCEPT ![d] = Append(@, x)]
      /\ op' = [op EXCEPT ![c].todo = @ \ {d}]
  <2>1. Len(inbox[d]) \in Nat /\ InboxCap \in Nat
    BY <1>4, LenIs, BoundAssumption, Zenon
  <2> QED
    BY <1>3, <1>5, <2>1
<1>7. /\ op'[c].pc = "unjoin" /\ op'[c].tid = t /\ op'[c].todo = op[c].todo \ {d}
      /\ \A e \in Core \ {c} : op'[e] = op[e]
      /\ inbox'[d] = Append(inbox[d], x) /\ \A e \in Core \ {d} : inbox'[e] = inbox[e]
  BY <1>1, <1>2, <1>4, <1>6 DEF Op
<1>8. TidsOnce(inbox'[d]) /\ TidsOf(inbox'[d]) = TidsOf(inbox[d]) \cup {t}
  <2> HIDE DEF x, t
  <2> QED
    BY <1>4, <1>7, TidsAppend
<1>9. \A e \in Core : op[e].todo \subseteq Core
  BY <1>1 DEF Op
<1> HIDE DEF x
<1>10. \A e \in Core : TidsOnce(inbox'[e])
  BY <1>7, <1>8, Zenon DEF Whole, Announced
<1>11. ASSUME NEW e \in Core, op'[e].pc = "unjoin", NEW y \in op'[e].todo
       PROVE  op'[e].tid \notin TidsOf(inbox'[y])
  <2>1. CASE e = c
    BY <1>2, <1>7, <1>9, <1>11, <2>1, Zenon DEF Whole, Announced
  <2>2. CASE e # c
    <3>1. op'[e] = op[e] /\ y \in Core /\ op[e].tid # t /\ op[e].tid \notin TidsOf(inbox[y])
      BY <1>2, <1>7, <1>9, <1>11, <2>2, Zenon DEF Whole, Announced
    <3> QED
      BY <1>7, <1>8, <3>1, Zenon
  <2> QED
    BY <2>1, <2>2, Zenon
<1>12. \A e \in Core : op'[e].pc = op[e].pc /\ op'[e].tid = op[e].tid
  BY <1>2, <1>7
<1>13. SendsSucceed'
  BY <1>12, Zenon DEF Whole, Announced, SendsSucceed
<1>14. \A a, e \in Core : op'[a].pc = "unjoin" /\ op'[e].pc = "unjoin" /\ a # e
                             => op'[a].tid # op'[e].tid
  <2>1. \A a, e \in Core : op[a].pc = "unjoin" /\ op[e].pc = "unjoin" /\ a # e
                             => op[a].tid # op[e].tid
    BY Zenon DEF Whole, Announced
  <2>2. ASSUME NEW a \in Core, NEW e \in Core,
               op'[a].pc = "unjoin", op'[e].pc = "unjoin", a # e
        PROVE  op'[a].tid # op'[e].tid
    <3>1. op[a].pc = "unjoin" /\ op[e].pc = "unjoin"
      BY <1>12, <2>2, Zenon
    <3>2. op[a].tid # op[e].tid
      BY <2>1, <2>2, <3>1, Zenon
    <3>3. op'[a].tid = op[a].tid /\ op'[e].tid = op[e].tid
      BY <1>12, Zenon
    <3> QED
      BY <3>2, <3>3, Zenon
  <2> QED
    BY <2>2, Zenon
<1> QED
  BY <1>10, <1>11, <1>13, <1>14, Zenon DEF Announced

\* Nothing has been announced of a thread that exits now.
LEMMA ExitWhole ==
  ASSUME IInv, Placed, Calm, Whole, NEW c \in Core, NEW t \in Thread, Exit(c, t)
  PROVE  Announced'
<1>1. op \in [Core -> Op]
  BY Types
<1>2. /\ op[c].pc = "run" /\ current[c] = t /\ inbox' = inbox
      /\ op' = [op EXCEPT ![c] = Sending([op[c] EXCEPT !.cont = "exit"], "unjoin", t, Others(c))]
  BY DEF Exit, Unjoin, Executing
<1>3. /\ op'[c].pc = "unjoin" /\ op'[c].tid = t /\ op'[c].todo \subseteq Core
      /\ \A e \in Core \ {c} : op'[e] = op[e]
  BY <1>1, <1>2 DEF Op, Sending, Others
<1>4. t \in alive /\ \A d \in Core : t \notin TidsOf(inbox[d])
  <2>1. Runs(c) \in Holder /\ t \in held[Runs(c)] /\ \A d \in Core : Runs(c) # Post(d)
    BY <1>2, RunsFacts, HeldIs, ThreadAssumption DEF Runs, Post
  <2> QED
    BY <2>1, HeldAlive
<1>5. \A e \in Core : op[e].pc = "unjoin" => op[e].tid # t
  BY <1>4 DEF IInv, ExitedIsDead
<1>6. ASSUME NEW e \in Core, op'[e].pc = "unjoin", NEW y \in op'[e].todo
      PROVE  op'[e].tid \notin TidsOf(inbox'[y])
  <2>1. CASE e = c
    BY <1>2, <1>3, <1>4, <1>6, <2>1
  <2>2. CASE e # c
    BY <1>2, <1>3, <1>6, <2>2, Zenon DEF Whole, Announced
  <2> QED
    BY <2>1, <2>2
<1>7. ASSUME NEW e \in Core, NEW y \in Core, op'[e].pc = "unjoin", op'[y].pc = "unjoin", e # y
      PROVE  op'[e].tid # op'[y].tid
  BY <1>3, <1>5, <1>7, Zenon DEF Whole, Announced
<1>8. \A e \in Core : op'[e].pc # "panic"
  BY <1>3, Zenon DEF Whole, Announced, SendsSucceed
<1> QED
  BY <1>2, <1>6, <1>7, <1>8 DEF Whole, Announced, SendsSucceed

\* The core goes on somewhere else than in an exit, and no message is added.
LEMMA AnnouncedElse ==
  ASSUME IInv, Whole, NEW c \in Core, NEW o, o.pc \notin {"unjoin", "panic"},
         op' = [op EXCEPT ![c] = o], inbox' = inbox
  PROVE  Announced'
<1>1. op \in [Core -> Op]
  BY Types
<1>2. op'[c] = o /\ \A e \in Core \ {c} : op'[e] = op[e]
  BY <1>1
<1>3. \A e \in Core : op'[e].pc # "panic"
  BY <1>2 DEF Whole, Announced, SendsSucceed
<1>4. \A d \in Core : TidsOnce(inbox'[d]) /\ TidsOf(inbox'[d]) \subseteq TidsOf(inbox[d])
  BY DEF Whole, Announced
<1>5. \A e \in Core : op'[e].pc = "unjoin" =>
         op[e].pc = "unjoin" /\ op'[e].tid = op[e].tid /\ op'[e].todo = op[e].todo
  BY <1>2
<1>6. Announced
  BY DEF Whole
<1> QED
  BY <1>1, <1>3, <1>4, <1>5, <1>6, AnnouncedKept

\* block_and_switch announces nothing.
LEMMA BlockAnnounced ==
  ASSUME IInv, Whole, NEW c \in Core, NEW q, NEW s, NEW d, NEW r, BlockAndSwitch(c, q, s, d, r),
         inbox' = inbox
  PROVE  Announced'
<1>1. Unlocked.pc = "run" /\ Draining("block").pc = "drain"
  BY DEF Unlocked, Draining
<1>2. op' = [op EXCEPT ![c] = Unlocked] \/ op' = [op EXCEPT ![c] = Draining("block")]
  BY DEF BlockAndSwitch
<1> QED
  BY <1>1, <1>2, AnnouncedElse

\* The operations of a running thread announce at most its exit.
LEMMA AnnouncedThread ==
  ASSUME IInv, Placed, Calm, Whole, Killable = {}, NEW c \in Core, NEW t \in Thread, ThreadOp(c, t)
  PROVE  Announced'
<1>1. op \in [Core -> Op]
  BY Types, Zenon
<1>2. ASSUME UNCHANGED <<op, inbox>> PROVE Announced'
  BY <1>2, Zenon DEF Whole, Announced, SendsSucceed
<1>3. ASSUME NEW u \in Thread, JoinCheck(c, t, u) PROVE Announced'
  <2> DEFINE o == [op[c] EXCEPT !.pc = "join", !.tid = u]
  <2>1. op' = [op EXCEPT ![c] = o] /\ UNCHANGED <<alive, inbox>>
    BY <1>1, <1>3, Zenon DEF JoinCheck
  <2>2. o.pc = "join"
    BY <1>1 DEF Op
  <2> HIDE DEF o
  <2> QED
    BY <2>1, <2>2, AnnouncedElse, Zenon
<1>4. ASSUME NEW u \in Thread, Spawn(c, t, u) \/ SpawnReady(c, t, u) \/ Kill(c, t, u)
      PROVE  Announced'
  BY <1>2, <1>4, Zenon DEF Spawn, SpawnReady, Kill
<1>5. ASSUME NEW now \in BOOLEAN, Sleep(c, t, now) PROVE Announced'
  BY <1>5, BlockAnnounced, Zenon DEF Sleep
<1>6. CASE Exit(c, t)
  BY <1>6, ExitWhole
<1>7. CASE Yield(c, t)
  BY <1>2, <1>7, Zenon DEF Yield
<1> QED
  BY <1>3, <1>4, <1>5, <1>6, <1>7 DEF ThreadOp

\* A message taken announces nothing.
LEMMA AnnouncedDrain ==
  ASSUME IInv, Calm, Whole, NEW c \in Core, DrainOne(c)
  PROVE  Announced'
<1>1. PICK t \in Thread : DrainThread(c, t) \/ DrainExited(c, t)
  BY CalmExcludes DEF DrainOne
<1>2. op \in [Core -> Op] /\ inbox \in [Core -> Seq(Message)]
  BY Types
<1>3. /\ inbox[c] # <<>> /\ inbox' = [inbox EXCEPT ![c] = Tail(@)]
      /\ op[c].pc = "drain"
      /\ op' = [op EXCEPT ![c].n = @ - 1, ![c].got = TRUE] \/ op' = [op EXCEPT ![c].n = @ - 1]
  BY <1>1 DEF DrainThread, DrainExited, Receives
<1>4. op'[c].pc = "drain" /\ \A e \in Core \ {c} : op'[e] = op[e]
  <2>1. CASE op' = [op EXCEPT ![c].n = @ - 1, ![c].got = TRUE]
    BY <1>2, <1>3, <2>1 DEF Op
  <2>2. CASE op' = [op EXCEPT ![c].n = @ - 1]
    BY <1>2, <1>3, <2>2 DEF Op
  <2> QED
    BY <1>3, <2>1, <2>2
<1>5. \A d \in Core : TidsOnce(inbox'[d]) /\ TidsOf(inbox'[d]) \subseteq TidsOf(inbox[d])
  <2>1. TidsOnce(Tail(inbox[c])) /\ TidsOf(Tail(inbox[c])) \subseteq TidsOf(inbox[c])
    BY <1>2, <1>3, TidsTail, Zenon DEF Whole, Announced
  <2> QED
    BY <1>2, <1>3, <2>1 DEF Whole, Announced
<1>6. \A e \in Core : op'[e].pc # "panic"
  BY <1>4 DEF Whole, Announced, SendsSucceed
<1>7. \A e \in Core : op'[e].pc = "unjoin" =>
         op[e].pc = "unjoin" /\ op'[e].tid = op[e].tid /\ op'[e].todo = op[e].todo
  BY <1>4
<1>8. Announced
  BY DEF Whole
<1> QED
  BY <1>2, <1>5, <1>6, <1>7, <1>8, AnnouncedKept, Zenon

\* No step sends a second message about a thread to a core.
LEMMA AnnouncedStep ==
  ASSUME IInv, Placed, Calm, Whole, Ample, [Next]_vars
  PROVE  Announced'
<1>1. ASSUME NEW c \in Core, Locked(c) PROVE Announced'
  <2>1. CASE JoinBlock(c)
    BY <2>1, BlockAnnounced DEF JoinBlock
  <2>2. CASE Send(c)
    BY <2>2, SendWhole
  <2>3. CASE ExitSwitch(c)
    BY <2>3, BlockAnnounced DEF ExitSwitch
  <2>4. CASE KillDone(c)
    BY <2>4, CalmExcludes
  <2>5. CASE DrainOne(c)
    BY <2>5, AnnouncedDrain
  <2>6. CASE BlockSwitch(c)
    <3>1. op' = [op EXCEPT ![c] = Unlocked] /\ inbox' = inbox /\ Unlocked.pc = "run"
      BY <2>6 DEF BlockSwitch, Unlocked
    <3> QED
      BY <3>1, AnnouncedElse, Zenon
  <2>7. ASSUME NEW d \in Core, TickSwitch(c, d) \/ TickSkip(c, d) PROVE Announced'
    BY <2>7, RebalanceWhole DEF TickSwitch, TickSkip
  <2> QED
    BY <1>1, <2>1, <2>2, <2>3, <2>4, <2>5, <2>6, <2>7, Zenon DEF Locked
<1>2. ASSUME NEW c \in Core, Tick(c) PROVE Announced'
  <2>1. /\ op' = [op EXCEPT ![c] = Draining("tick")] /\ inbox' = inbox
        /\ Draining("tick").pc = "drain"
    BY <1>2, Zenon DEF Tick, Draining
  <2> QED
    BY <2>1, AnnouncedElse, Zenon
<1>3. ASSUME UNCHANGED <<op, inbox>> PROVE Announced'
  BY <1>3, Zenon DEF Whole, Announced, SendsSucceed
<1>4. ASSUME NEW c \in Core, NEW d \in Core, LookForOverloaded(c, d) PROVE Announced'
  BY <1>3, <1>4 DEF LookForOverloaded
<1>5. ASSUME NEW t \in Thread, Expire(t) PROVE Announced'
  BY <1>3, <1>5 DEF Expire
<1>6. CASE UNCHANGED vars
  BY <1>3, <1>6 DEF vars
<1>7. Killable = {}
  BY DEF Ample
<1> QED
  BY <1>1, <1>2, <1>4, <1>5, <1>6, <1>7, AnnouncedThread DEF Next

(***************************************************************************)
(* Without kill, and with join called on threads that are ready, the cores *)
(* implement JoinService.                                                  *)
(***************************************************************************)
SameJoins == \A e \in Core : /\ op'[e].pc = "join" <=> op[e].pc = "join"
                             /\ op[e].pc = "join" => op'[e].tid = op[e].tid /\ current'[e] = current[e]

\* Nobody is born or dies.
LEMMA LivesSame == ASSUME UNCHANGED <<alive, fresh>> PROVE lives' = lives
BY DEF lives, LifeOf

\* Nobody starts or stops waiting.
LEMMA WaitingSame ==
  ASSUME SameJoins, \A e \in Core, u \in Thread : joiners'[e][u] = joiners[e][u]
  PROVE  waiting' = waiting
<1>1. \A t \in Thread : WaitsFor(t)' = WaitsFor(t)
  BY DEF WaitsFor, SameJoins
<1> QED
  BY <1>1 DEF waiting

\* Only the core c changes, from one place that is not "join" to another.
LEMMA NoJoins ==
  ASSUME IInv, NEW c \in Core, op[c].pc # "join", op'[c].pc # "join",
         \A e \in Core \ {c} : op'[e] = op[e] /\ current'[e] = current[e]
  PROVE  SameJoins
BY DEF SameJoins

\* A thread that runs, or is about to register, is held by its core.
LEMMA RunnerHeld ==
  ASSUME IInv, Placed, NEW c \in Core, NEW t \in Thread, op[c].pc \in {"run", "join"}, current[c] = t
  PROVE  Runs(c) \in Holder /\ t \in held[Runs(c)]
<1>1. RunsOn(c) = {current[c]} \ {Idle}
  BY RunsFacts, Zenon
<1>2. t \in RunsOn(c)
  BY <1>1, ThreadAssumption
<1>3. Runs(c) \in Holder /\ held[Runs(c)] = RunsOn(c)
  BY HeldIs, Zenon
<1> QED
  BY <1>2, <1>3, Zenon

\* A held thread that is about to register is held by its core.
LEMMA NotIdleElsewhere ==
  ASSUME IInv, Placed, NEW x \in Thread, NEW k \in Holder, x \in held[k], NEW e \in Core,
         op[e].pc = "join", current[e] = x
  PROVE  k = Runs(e)
<1>1. Runs(e) \in Holder /\ x \in held[Runs(e)]
  BY RunnerHeld
<1> QED
  BY <1>1, HeldIs, Zenon DEF Placed, Disjoint

\* The joiners of t on core c are released, and nobody else.
LEMMA Freed ==
  ASSUME IInv, Placed, NEW c \in Core, NEW t \in Thread, SameJoins,
         joiners' = [joiners EXCEPT ![c][t] = {}]
  PROVE  /\ joiners[c][t] \in SUBSET Service!Waiters(t)
         /\ waiting' = Service!Released(joiners[c][t])
<1> DEFINE R == joiners[c][t]
<1>1. joiners \in [Core -> [Thread -> SUBSET Thread]]
  BY Types
<1>2. /\ joiners'[c][t] = {}
      /\ \A e \in Core, u \in Thread : <<e, u>> # <<c, t>> => joiners'[e][u] = joiners[e][u]
  BY <1>1
<1>3. R \in SUBSET Service!Waiters(t)
  BY <1>1 DEF Service!Waiters, waiting, WaitsFor
<1>4. ASSUME NEW x \in R PROVE WaitsFor(x)' = {}
  <2>1. Wait(c, t) \in Holder /\ x \in held[Wait(c, t)] /\ x \in Thread
    BY <1>1, HeldIs, Zenon
  <2>2. ASSUME NEW e \in Core, NEW u \in Thread, x \in joiners'[e][u] PROVE FALSE
    <3>1. <<e, u>> # <<c, t>> /\ x \in joiners[e][u]
      BY <1>2, <2>2, Zenon
    <3>2. Wait(e, u) \in Holder /\ x \in held[Wait(e, u)] /\ Wait(e, u) # Wait(c, t)
      <4>1. Wait(e, u) \in Holder /\ x \in held[Wait(e, u)]
        BY <3>1, HeldIs, Zenon
      <4>2. Wait(e, u) = Wait(c, t) => u = t /\ e = c
        BY HoldersDiffer
      <4> QED
        BY <3>1, <4>1, <4>2, Zenon
    <3> QED
      BY <2>1, <3>2, HeldIs, Zenon DEF Placed, Disjoint
  <2>3. ASSUME NEW e \in Core, op'[e].pc = "join", current'[e] = x PROVE FALSE
    <3>1. op[e].pc = "join" /\ current[e] = x
      BY <2>3 DEF SameJoins
    <3>2. Wait(c, t) = Runs(e)
      BY <2>1, <3>1, NotIdleElsewhere
    <3> QED
      BY <3>2, HoldersDiffer, Zenon
  <2> QED
    BY <2>2, <2>3, Zenon DEF WaitsFor
<1>5. ASSUME NEW x \in Thread, x \notin R PROVE WaitsFor(x)' = WaitsFor(x)
  <2>1. \A e \in Core, u \in Thread : x \in joiners'[e][u] <=> x \in joiners[e][u]
    BY <1>2, <1>5
  <2> QED
    BY <2>1 DEF WaitsFor, SameJoins
<1> HIDE DEF R
<1>6. waiting' = Service!Released(R)
  BY <1>4, <1>5 DEF Service!Released, waiting
<1> QED
  BY <1>3, <1>6 DEF R

\* A running thread that is in no call waits for nobody.
LEMMA RunsFree ==
  ASSUME IInv, Placed, NEW c \in Core, NEW t \in Thread, op[c].pc = "run", current[c] = t
  PROVE  WaitsFor(t) = {}
<1>1. Runs(c) \in Holder /\ t \in held[Runs(c)]
  BY RunnerHeld
<1>2. ASSUME NEW e \in Core, NEW u \in Thread, t \in joiners[e][u] PROVE FALSE
  <2>1. Wait(e, u) \in Holder /\ t \in held[Wait(e, u)]
    BY <1>2, HeldIs, Zenon
  <2>2. Wait(e, u) # Runs(c)
    <3>1. Wait(e, u) \notin {Runs(c), Queue(c), Bed(c), Post(c)}
      BY HoldersDiffer, Zenon
    <3> QED
      BY <3>1, Zenon
  <2> QED
    BY <1>1, <2>1, <2>2, HeldIs, Zenon DEF Placed, Disjoint
<1>3. ASSUME NEW e \in Core, op[e].pc = "join", current[e] = t PROVE FALSE
  <2>1. Runs(c) = Runs(e)
    BY <1>1, <1>3, NotIdleElsewhere, Zenon
  <2>2. c = e
    BY <2>1, HoldersDiffer, Zenon
  <2> QED
    BY <1>3, <2>2
<1> QED
  BY <1>2, <1>3 DEF WaitsFor

\* A running thread is alive.
LEMMA RunsAlive ==
  ASSUME IInv, Placed, NoneDead, NEW c \in Core, NEW t \in Thread, op[c].pc = "run", current[c] = t
  PROVE  t \in alive /\ lives[t] = "alive"
<1>1. Runs(c) \in Holder /\ t \in held[Runs(c)]
  BY RunnerHeld
<1>2. t \in alive
  BY <1>1, HeldIs, Zenon DEF NoneDead, AllOf
<1>3. t \notin fresh
  BY <1>2, Zenon DEF IInv, FreshIsNowhere
<1> QED
  BY <1>2, <1>3 DEF lives, LifeOf

\* ready() creates a thread of the service.
LEMMA SpawnServes ==
  ASSUME IInv, NEW c \in Core, NEW t \in Thread, NEW u \in Thread, Spawn(c, t, u)
  PROVE  Service!Create(u)
<1>1. /\ u \in fresh /\ fresh' = fresh \ {u} /\ alive' = alive \cup {u}
      /\ UNCHANGED <<joiners, op, current>>
  BY DEF Spawn
<1>2. waiting' = waiting
  BY <1>1, Zenon DEF waiting, WaitsFor
<1>3. lives[u] = "unborn"
  BY <1>1 DEF lives, LifeOf
<1>4. LifeOf(u)' = "alive" /\ \A x \in Thread \ {u} : LifeOf(x)' = LifeOf(x)
  BY <1>1 DEF LifeOf
<1>5. lives' = [lives EXCEPT ![u] = "alive"]
  BY <1>4, Zenon DEF lives
<1> QED
  BY <1>2, <1>3, <1>5 DEF Service!Create

\* The check of join under the locks is the join of the service.
LEMMA JoinServes ==
  ASSUME IInv, Placed, NoneDead, NEW c \in Core, NEW t \in Thread, NEW u \in Thread, JoinCheck(c, t, u)
  PROVE  Service!Join(t, u)
<1>1. /\ op[c].pc = "run" /\ current[c] = t /\ u \in alive
      /\ op' = [op EXCEPT ![c].pc = "join", ![c].tid = u]
      /\ UNCHANGED <<alive, fresh, joiners, current>>
  BY DEF JoinCheck, Executing
<1>2. op \in [Core -> Op]
  BY Types
<1>3. op'[c].pc = "join" /\ op'[c].tid = u /\ \A e \in Core \ {c} : op'[e] = op[e]
  BY <1>1, <1>2 DEF Op
<1>4. lives[t] = "alive" /\ lives[u] = "alive" /\ lives' = lives
  <2>1. u \notin fresh
    BY <1>1 DEF IInv, FreshIsNowhere
  <2> QED
    BY <1>1, <2>1, RunsAlive, LivesSame DEF lives, LifeOf
<1>5. WaitsFor(t) = {}
  BY <1>1, RunsFree
<1>6. WaitsFor(t)' = {u}
  <2>1. \A e \in Core, x \in Thread : t \notin joiners[e][x]
    BY <1>5 DEF WaitsFor
  <2>2. \A e \in Core \ {c} : ~ (op[e].pc = "join" /\ current[e] = t)
    <3> SUFFICES ASSUME NEW e \in Core \ {c}, op[e].pc = "join", current[e] = t PROVE FALSE
      OBVIOUS
    <3>1. op[e].tid \in Thread
      BY <1>2 DEF Op
    <3> QED
      BY <1>5, <3>1 DEF WaitsFor
  <2> QED
    BY <1>1, <1>3, <2>1, <2>2, Zenon DEF WaitsFor
<1>7. ASSUME NEW x \in Thread \ {t} PROVE WaitsFor(x)' = WaitsFor(x)
  BY <1>1, <1>3, <1>7, Zenon DEF WaitsFor
<1>8. waiting[t] = {} /\ waiting' = [waiting EXCEPT ![t] = {u}]
  BY <1>5, <1>6, <1>7, Zenon DEF waiting
<1> QED
  BY <1>4, <1>8 DEF Service!Join

\* The registration of a joiner changes nothing for the service.
LEMMA JoinBlockServes ==
  ASSUME IInv, Placed, NEW c \in Core, JoinBlock(c)
  PROVE  lives' = lives /\ waiting' = waiting
<1> DEFINE t == current[c]
           u == op[c].tid
<1>1. /\ op[c].pc = "join" /\ UNCHANGED <<alive, fresh>>
      /\ joiners' = [joiners EXCEPT ![c][u] = @ \cup {t}]
  BY DEF JoinBlock
<1>2. op \in [Core -> Op] /\ current \in [Core -> Thread \cup {Idle}]
      /\ joiners \in [Core -> [Thread -> SUBSET Thread]]
  BY Types, Zenon
<1>3. /\ op'[c].pc \in {"run", "drain"}
      /\ \A e \in Core \ {c} : op'[e] = op[e] /\ current'[e] = current[e]
  <2>1. Unlocked.pc = "run" /\ Draining("block").pc = "drain"
    BY DEF Unlocked, Draining
  <2>2. CASE /\ current' = [current EXCEPT ![c] = Head(ready[c])]
             /\ op' = [op EXCEPT ![c] = Unlocked]
    BY <1>2, <2>1, <2>2
  <2>3. CASE current' = current /\ op' = [op EXCEPT ![c] = Draining("block")]
    BY <1>2, <2>1, <2>3
  <2> QED
    BY <2>2, <2>3, Zenon DEF JoinBlock, BlockAndSwitch
<1>4. u \in Thread
  BY <1>2 DEF Op
<1>5. /\ joiners'[c][u] = joiners[c][u] \cup {t}
      /\ \A e \in Core, y \in Thread : <<e, y>> # <<c, u>> => joiners'[e][y] = joiners[e][y]
  BY <1>1, <1>2, <1>4
<1>6. ASSUME NEW x \in Thread PROVE WaitsFor(x)' = WaitsFor(x)
  <2>1. ASSUME NEW y \in WaitsFor(x)' PROVE y \in WaitsFor(x)
    <3>1. CASE \E e \in Core : x \in joiners'[e][y]
      <4>1. PICK e \in Core : x \in joiners'[e][y]
        BY <3>1
      <4>2. y \in Thread
        BY Zenon DEF WaitsFor
      <4>3. CASE x \in joiners[e][y]
        BY <4>2, <4>3, Zenon DEF WaitsFor
      <4>4. CASE x \notin joiners[e][y]
        <5>1. e = c /\ y = u /\ x = t
          BY <1>5, <4>1, <4>2, <4>4, Zenon
        <5> QED
          BY <1>1, <4>2, <5>1, Zenon DEF WaitsFor
      <4> QED
        BY <4>3, <4>4
    <3>2. CASE \E e \in Core : op'[e].pc = "join" /\ current'[e] = x /\ op'[e].tid = y
      BY <1>3, <3>2, Zenon DEF WaitsFor
    <3> QED
      BY <2>1, <3>1, <3>2, Zenon DEF WaitsFor
  <2>2. ASSUME NEW y \in WaitsFor(x) PROVE y \in WaitsFor(x)'
    <3>1. y \in Thread
      BY DEF WaitsFor
    <3>2. CASE \E e \in Core : x \in joiners[e][y]
      <4>1. PICK e \in Core : x \in joiners[e][y]
        BY <3>2
      <4>2. x \in joiners'[e][y]
        BY <1>5, <3>1, <4>1, Zenon
      <4> QED
        BY <3>1, <4>2 DEF WaitsFor
    <3>3. CASE \E e \in Core : op[e].pc = "join" /\ current[e] = x /\ op[e].tid = y
      <4>1. PICK e \in Core : op[e].pc = "join" /\ current[e] = x /\ op[e].tid = y
        BY <3>3, Zenon
      <4>2. CASE e = c
        BY <1>5, <3>1, <4>1, <4>2, Zenon DEF WaitsFor
      <4>3. CASE e # c
        BY <1>3, <3>1, <4>1, <4>3, Zenon DEF WaitsFor
      <4> QED
        BY <4>2, <4>3, Zenon
    <3> QED
      BY <3>2, <3>3, Zenon DEF WaitsFor
  <2> QED
    BY <2>1, <2>2, Zenon
<1>7. waiting' = waiting
  BY <1>6 DEF waiting
<1> QED
  BY <1>1, <1>7, LivesSame

\* exit() ends a thread and releases the joiners of its core.
LEMMA ExitServes ==
  ASSUME IInv, Placed, NoneDead, NEW c \in Core, NEW t \in Thread, Exit(c, t)
  PROVE  Service!Exit(t)
<1>1. /\ op[c].pc = "run" /\ current[c] = t /\ alive' = alive \ {t} /\ UNCHANGED <<fresh, current>>
      /\ joiners' = [joiners EXCEPT ![c] = [joiners[c] EXCEPT ![t] = {}]]
      /\ op' = [op EXCEPT ![c] = Sending([op[c] EXCEPT !.cont = "exit"], "unjoin", t, Others(c))]
  BY DEF Exit, Unjoin, Executing
<1>2. op \in [Core -> Op] /\ joiners \in [Core -> [Thread -> SUBSET Thread]]
  BY Types
<1>3. SameJoins
  <2>1. op'[c].pc = "unjoin" /\ \A e \in Core \ {c} : op'[e] = op[e] /\ current'[e] = current[e]
    BY <1>1, <1>2 DEF Op, Sending
  <2> QED
    BY <1>1, <2>1, NoJoins
<1>4. joiners' = [joiners EXCEPT ![c][t] = {}]
  BY <1>1, <1>2
<1>5. joiners[c][t] \in SUBSET Service!Waiters(t) /\ waiting' = Service!Released(joiners[c][t])
  BY <1>3, <1>4, Freed, Zenon
<1>6. lives[t] = "alive" /\ waiting[t] = {} /\ t \in alive
  BY <1>1, RunsAlive, RunsFree DEF waiting
<1>7. LifeOf(t)' = "dead" /\ \A x \in Thread \ {t} : LifeOf(x)' = LifeOf(x)
  BY <1>1, <1>6 DEF LifeOf, IInv, FreshIsNowhere
<1>8. lives' = [lives EXCEPT ![t] = "dead"]
  BY <1>7, Zenon DEF lives
<1> QED
  BY <1>5, <1>6, <1>8, Zenon DEF Service!Exit

\* JoinTargetExited releases the joiners of the core that takes it.
LEMMA DrainServes ==
  ASSUME IInv, Placed, Calm, NEW c \in Core, DrainOne(c)
  PROVE  \/ lives' = lives /\ waiting' = waiting
         \/ \E t \in Thread : \E R \in SUBSET Service!Waiters(t) : Service!Return(t, R)
<1>1. PICK t \in Thread : DrainThread(c, t) \/ DrainExited(c, t)
  BY CalmExcludes DEF DrainOne
<1>2. op \in [Core -> Op] /\ inbox \in [Core -> Seq(Message)]
  BY Types
<1>3. /\ UNCHANGED <<alive, fresh, current>> /\ op[c].pc = "drain"
      /\ op' = [op EXCEPT ![c].n = @ - 1, ![c].got = TRUE] \/ op' = [op EXCEPT ![c].n = @ - 1]
  BY <1>1 DEF DrainThread, DrainExited, Receives
<1>4. op'[c].pc = "drain" /\ \A e \in Core \ {c} : op'[e] = op[e]
  <2>1. CASE op' = [op EXCEPT ![c].n = @ - 1, ![c].got = TRUE]
    BY <1>2, <1>3, <2>1 DEF Op
  <2>2. CASE op' = [op EXCEPT ![c].n = @ - 1]
    BY <1>2, <1>3, <2>2 DEF Op
  <2> QED
    BY <1>3, <2>1, <2>2
<1>5. SameJoins /\ lives' = lives
  BY <1>3, <1>4, NoJoins, LivesSame
<1>6. CASE DrainThread(c, t)
  <2>1. joiners' = joiners
    BY <1>6, Zenon DEF DrainThread
  <2> QED
    BY <1>5, <2>1, WaitingSame
<1>7. CASE DrainExited(c, t)
  <2>1. joiners' = [joiners EXCEPT ![c][t] = {}] /\ inbox[c] # <<>> /\ Head(inbox[c]) = ExitedMsg(t)
    BY <1>7 DEF DrainExited, Receives, ExitedMsg
  <2>2. joiners[c][t] \in SUBSET Service!Waiters(t) /\ waiting' = Service!Released(joiners[c][t])
    BY <1>5, <2>1, Freed, Zenon
  <2>3. lives[t] = "dead"
    <3>1. inbox[c] \in Seq(GoodMessage)
      BY DEF IInv, ExitedIsDead
    <3>2. Head(inbox[c]) \in GoodMessage
      BY <2>1, <3>1, TailIs, Zenon
    <3>3. t \notin alive /\ t \notin fresh
      BY <2>1, <3>2 DEF GoodMessage, ExitedMsg
    <3> QED
      BY <3>3 DEF lives, LifeOf
  <2>4. Service!Return(t, joiners[c][t])
    BY <1>5, <2>2, <2>3, Zenon DEF Service!Return
  <2> QED
    BY <2>2, <2>4
<1> QED
  BY <1>1, <1>6, <1>7

\* The steps that leave every join where it is.
LEMMA ElseServes ==
  ASSUME IInv, NEW c \in Core, op[c].pc # "join", op'[c].pc # "join",
         \A e \in Core \ {c} : op'[e] = op[e] /\ current'[e] = current[e],
         UNCHANGED <<alive, fresh>>,
         \A e \in Core, u \in Thread : joiners'[e][u] = joiners[e][u]
  PROVE  lives' = lives /\ waiting' = waiting
BY NoJoins, LivesSame, WaitingSame

\* block_and_switch leaves the other cores alone.
LEMMA BlockElse ==
  ASSUME IInv, NEW c \in Core, NEW q, NEW s, NEW d, NEW r, BlockAndSwitch(c, q, s, d, r)
  PROVE  /\ op'[c].pc # "join"
         /\ \A e \in Core \ {c} : op'[e] = op[e] /\ current'[e] = current[e]
<1>1. op \in [Core -> Op] /\ current \in [Core -> Thread \cup {Idle}]
  BY Types
<1>2. Unlocked.pc # "join" /\ Draining("block").pc # "join"
  BY DEF Unlocked, Draining
<1>3. CASE /\ current' = [current EXCEPT ![c] = Head(q)]
           /\ op' = [op EXCEPT ![c] = Unlocked]
  BY <1>1, <1>2, <1>3
<1>4. CASE current' = current /\ op' = [op EXCEPT ![c] = Draining("block")]
  BY <1>1, <1>2, <1>4
<1> QED
  BY <1>3, <1>4, Zenon DEF BlockAndSwitch

\* Every operation of a running thread is a step of the service or none.
LEMMA ThreadServes ==
  ASSUME IInv, Placed, NoneDead, Unregistered, Killable = {}, NEW c \in Core, NEW t \in Thread,
         ThreadOp(c, t)
  PROVE  [Service!Next]_(Service!svars)
<1>1. op \in [Core -> Op] /\ current \in [Core -> Thread \cup {Idle}]
      /\ joiners \in [Core -> [Thread -> SUBSET Thread]]
  BY Types
<1>2. ASSUME NEW u \in Thread, Spawn(c, t, u) PROVE Service!Next
  BY <1>2, SpawnServes DEF Service!Next
<1>3. ASSUME NEW u \in Thread, JoinCheck(c, t, u) PROVE Service!Next
  BY <1>3, JoinServes DEF Service!Next
<1>4. CASE Exit(c, t)
  BY <1>4, ExitServes DEF Service!Next
<1>5. ASSUME NEW u \in Thread, Kill(c, t, u) PROVE FALSE
  BY <1>5 DEF Kill
<1>6. ASSUME NEW u \in Thread, SpawnReady(c, t, u) PROVE lives' = lives /\ waiting' = waiting
  <2>1. /\ u \in making[t] /\ joiners' = [joiners EXCEPT ![c][u] = {}] /\ op[c].pc = "run"
        /\ UNCHANGED <<alive, fresh, op, current>>
    BY <1>6 DEF SpawnReady
  <2>2. joiners[c][u] = {}
    BY <2>1 DEF Unregistered
  <2>3. \A e \in Core, x \in Thread : joiners'[e][x] = joiners[e][x]
    BY <1>1, <2>1, <2>2, Zenon
  <2> QED
    BY <2>1, <2>3, ElseServes, Zenon
<1>7. ASSUME NEW now \in BOOLEAN, Sleep(c, t, now) PROVE lives' = lives /\ waiting' = waiting
  <2>1. op[c].pc = "run" /\ UNCHANGED <<alive, fresh, joiners>>
    BY <1>7, Zenon DEF Sleep, Executing
  <2>2. op'[c].pc # "join" /\ \A e \in Core \ {c} : op'[e] = op[e] /\ current'[e] = current[e]
    BY <1>7, BlockElse, Zenon DEF Sleep
  <2> QED
    BY <2>1, <2>2, ElseServes, Zenon
<1>8. CASE Yield(c, t)
  <2>1. /\ op[c].pc = "run" /\ UNCHANGED <<alive, fresh, joiners, op>>
        /\ \A e \in Core \ {c} : current'[e] = current[e]
    BY <1>1, <1>8, Zenon DEF Yield, Executing
  <2> QED
    BY <2>1, ElseServes, ZenonT(30) DEF Service!svars
<1> QED
  BY <1>2, <1>3, <1>4, <1>5, <1>6, <1>7, <1>8, Zenon DEF ThreadOp, Service!svars

\* So is every step of a core that holds its lock.
LEMMA LockedServes ==
  ASSUME IInv, Placed, Calm, NEW c \in Core, Locked(c)
  PROVE  [Service!Next]_(Service!svars)
<1>1. op \in [Core -> Op] /\ current \in [Core -> Thread \cup {Idle}]
  BY Types
<1>2. Unlocked.pc = "run"
  BY DEF Unlocked
<1>3. CASE JoinBlock(c)
  BY <1>3, JoinBlockServes DEF Service!svars
<1>4. CASE Send(c)
  <2>1. op[c].pc = "unjoin" /\ UNCHANGED <<alive, fresh, joiners, current>>
    BY <1>4 DEF Send, Calm, CalmOp
  <2>2. PICK d \in op[c].todo : op' = [op EXCEPT ![c].todo = @ \ {d}]
                                \/ op' = [op EXCEPT ![c] = [op[c] EXCEPT !.pc = "panic"]]
    BY <1>4, <2>1 DEF Send
  <2>3. op'[c].pc # "join" /\ \A e \in Core \ {c} : op'[e] = op[e]
    <3>1. CASE op' = [op EXCEPT ![c].todo = @ \ {d}]
      BY <1>1, <2>1, <3>1 DEF Op
    <3>2. CASE op' = [op EXCEPT ![c] = [op[c] EXCEPT !.pc = "panic"]]
      BY <1>1, <3>2 DEF Op
    <3> QED
      BY <2>2, <3>1, <3>2
  <2> QED
    BY <2>1, <2>3, ElseServes, Zenon DEF Service!svars
<1>5. CASE ExitSwitch(c)
  <2>1. op[c].pc = "unjoin" /\ UNCHANGED <<alive, fresh, joiners>>
    BY <1>5, Zenon DEF ExitSwitch
  <2>2. op'[c].pc # "join" /\ \A e \in Core \ {c} : op'[e] = op[e] /\ current'[e] = current[e]
    BY <1>5, BlockElse, Zenon DEF ExitSwitch
  <2> QED
    BY <2>1, <2>2, ElseServes, Zenon DEF Service!svars
<1>6. CASE KillDone(c)
  BY <1>6, CalmExcludes
<1>7. CASE DrainOne(c)
  BY <1>7, DrainServes DEF Service!svars, Service!Next
<1>8. CASE BlockSwitch(c)
  <2>1. /\ op[c].pc = "drain" /\ op' = [op EXCEPT ![c] = Unlocked]
        /\ UNCHANGED <<alive, fresh, joiners>>
        /\ \A e \in Core \ {c} : current'[e] = current[e]
    BY <1>1, <1>8 DEF BlockSwitch, Drained
  <2>2. op'[c].pc # "join" /\ \A e \in Core \ {c} : op'[e] = op[e]
    BY <1>1, <1>2, <2>1
  <2> QED
    BY <2>1, <2>2, ElseServes, Zenon DEF Service!svars
<1>9. ASSUME NEW d \in Core, TickSwitch(c, d) \/ TickSkip(c, d) PROVE lives' = lives /\ waiting' = waiting
  <2>1. /\ op[c].pc = "drain" /\ op' = [op EXCEPT ![c] = Unlocked]
        /\ UNCHANGED <<alive, fresh, joiners>>
        /\ \A e \in Core \ {c} : current'[e] = current[e]
    BY <1>1, <1>9, Zenon DEF TickSwitch, TickSkip, Rebalance, Drained
  <2>2. op'[c].pc # "join" /\ \A e \in Core \ {c} : op'[e] = op[e]
    BY <1>1, <1>2, <2>1
  <2> QED
    BY <2>1, <2>2, ElseServes, ZenonT(30)
<1> QED
  BY <1>3, <1>4, <1>5, <1>6, <1>7, <1>8, <1>9, Zenon DEF Locked, Service!svars

\* So is every step.
LEMMA NextServes ==
  ASSUME IInv, Placed, Calm, NoneDead, Unregistered, Killable = {}, [Next]_vars
  PROVE  [Service!Next]_(Service!svars)
<1>1. op \in [Core -> Op]
  BY Types
<1>2. ASSUME NEW c \in Core, Tick(c) PROVE lives' = lives /\ waiting' = waiting
  <2>1. /\ op[c].pc = "run" /\ op' = [op EXCEPT ![c] = Draining("tick")]
        /\ Draining("tick").pc = "drain" /\ UNCHANGED <<alive, fresh, joiners, current>>
    BY <1>2, Zenon DEF Tick, Draining
  <2>2. op'[c].pc # "join" /\ \A e \in Core \ {c} : op'[e] = op[e]
    BY <1>1, <2>1
  <2> QED
    BY <2>1, <2>2, ElseServes, Zenon
<1>3. ASSUME UNCHANGED <<alive, fresh, joiners, current, op>> PROVE lives' = lives /\ waiting' = waiting
  BY <1>3 DEF lives, LifeOf, waiting, WaitsFor
<1>4. ASSUME NEW c \in Core, NEW d \in Core, LookForOverloaded(c, d)
      PROVE  lives' = lives /\ waiting' = waiting
  BY <1>3, <1>4, Zenon DEF LookForOverloaded
<1>5. ASSUME NEW t \in Thread, Expire(t) PROVE lives' = lives /\ waiting' = waiting
  BY <1>3, <1>5 DEF Expire
<1>6. CASE UNCHANGED vars
  BY <1>3, <1>6 DEF vars, Service!svars
<1> QED
  BY <1>2, <1>4, <1>5, <1>6, ThreadServes, LockedServes DEF Next, Service!svars

\* The service starts with Boot alive and nobody waiting.
LEMMA InitServes == Init => Service!Init
<1> SUFFICES ASSUME Init PROVE Service!Init
  OBVIOUS
<1>1. /\ alive = {Boot} /\ fresh = Thread \ {Boot}
      /\ \A c \in Core : op[c].pc = "run"
      /\ \A c \in Core, t \in Thread : joiners[c][t] = {}
  BY Zenon DEF Init, Unlocked
<1>2. lives = [t \in Thread |-> IF t = Boot THEN "alive" ELSE "unborn"]
  BY <1>1 DEF lives, LifeOf
<1>3. waiting = [t \in Thread |-> {}]
  BY <1>1 DEF waiting, WaitsFor
<1> QED
  BY <1>2, <1>3 DEF Service!Init
==============================================================================
