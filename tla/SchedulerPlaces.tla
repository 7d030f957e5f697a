--------------------------- MODULE SchedulerPlaces ---------------------------
(***************************************************************************)
(* Every list, queue, inbox and core is a holder of threads.  Every action of *)
(* Scheduler keeps that no two holders have a thread in common and that none *)
(* lists one twice.                                                        *)
(***************************************************************************)
EXTENDS SchedulerFacts, TLAPS

\* Nothing moves.
LEMMA NothingMoves ==
  ASSUME IInv, Placed, UNCHANGED <<making, current, ready, joiners>>,
         \A e \in Core : sleeping'[e] \subseteq sleeping[e],
         \A e \in Core : Carried(inbox'[e]) \subseteq Carried(inbox[e]) /\ CarriedOnce(inbox'[e]),
         \A e \in Core : op'[e].cont = op[e].cont /\ ContOf(op'[e])
  PROVE  /\ Placed'
         /\ sleeping' = sleeping /\ (\A e \in Core : Carried(inbox'[e]) = Carried(inbox[e]))
              => AllOf(held') = AllOf(held)
<1>1. \A e \in Core : RunsOn(e)' = RunsOn(e)
  BY DEF RunsOn, Departed
<1>2. \A i \in Holder : held'[i] \subseteq held[i]
  <2> DEFINE X == {}
  <2>1. X \in SUBSET Holder
    OBVIOUS
  <2> HIDE DEF X
  <2>2. \A i \in Holder \ X : held'[i] \subseteq held[i]
    BY <1>1, <2>1, FrameBelow, Zenon DEF Below
  <2> QED
    BY <2>2 DEF X
<1>3. ASSUME sleeping' = sleeping, \A e \in Core : Carried(inbox'[e]) = Carried(inbox[e])
      PROVE  AllOf(held') = AllOf(held)
  <2> DEFINE X == {}
  <2>1. X \in SUBSET Holder
    OBVIOUS
  <2>2. \A i \in X : FALSE
    OBVIOUS
  <2> HIDE DEF X
  <2>3. \A i \in Holder \ X : held'[i] = held[i]
    BY <1>1, <1>3, <2>1, FrameSame DEF Same
  <2> QED
    BY <2>1, <2>2, <2>3, Kept
<1>4. Disjoint(held')
  BY <1>2, HeldIs, HeldWillBe DEF Placed, Disjoint
<1> QED
  BY <1>3, <1>4 DEF Placed, Orderly

\* yield_now passes the core on.
LEMMA YieldPlaced ==
  ASSUME IInv, Placed, NEW c \in Core, NEW t \in Thread, Yield(c, t)
  PROVE  Placed' /\ AllOf(held') = AllOf(held)
<1> DEFINE q == ready[c]
           h == Head(q)
           X == {Runs(c), Queue(c)}
<1>1. /\ op[c].pc = "run" /\ current[c] = t /\ q # <<>>
      /\ current' = [current EXCEPT ![c] = h]
      /\ ready' = [ready EXCEPT ![c] = Append(Tail(q), t)]
      /\ UNCHANGED <<making, sleeping, joiners, inbox, op>>
  BY DEF Yield, Executing
<1>2. /\ q \in Seq(Thread) /\ Range(q) = Range(Tail(q)) \cup {h}
      /\ IsInjective(Tail(q)) /\ h \notin Range(Tail(q)) /\ h \in Thread /\ Tail(q) \in Seq(Thread)
      /\ current \in [Core -> Thread \cup {Idle}] /\ ready \in [Core -> Seq(Thread)]
  <2>1. q \in Seq(Thread) /\ IsInjective(q)
    BY Types DEF Placed, Orderly
  <2> QED
    BY <1>1, <2>1, TailOnce, TailIs, Types
<1>3. /\ X \in SUBSET Holder /\ Runs(c) # Queue(c)
      /\ held[Runs(c)] = {t} /\ held[Queue(c)] = Range(q)
  BY <1>1, HeldIs, HoldersDiffer, ThreadAssumption, RunsFacts
<1>4. h # t /\ t \notin Range(q) /\ t \notin Range(Tail(q))
  BY <1>2, <1>3, HeldIs DEF Placed, Disjoint
<1>5. /\ Range(Append(Tail(q), t)) = Range(Tail(q)) \cup {t}
      /\ IsInjective(Append(Tail(q), t))
  <2> DEFINE b == Tail(q)
  <2>1. b \in Seq(Thread) /\ IsInjective(b) /\ t \notin Range(b)
    BY <1>2, <1>4
  <2> HIDE DEF b
  <2>2. Range(Append(b, t)) = Range(b) \cup {t} /\ IsInjective(Append(b, t))
    BY <2>1, AppendOnce
  <2> QED
    BY <2>2 DEF b
<1>6. held'[Runs(c)] = {h} /\ held'[Queue(c)] = Range(Tail(q)) \cup {t}
  BY <1>1, <1>2, <1>5, HeldWillBe, ThreadAssumption, Zenon DEF RunsOn, Departed, Placed, Orderly, ContOf
<1>7. \A i \in Holder \ X : held'[i] = held[i]
  <2>1. \A e \in Core : Runs(e) \in X \/ RunsOn(e)' = RunsOn(e)
    BY <1>1, <1>2, Zenon DEF RunsOn, Departed
  <2>2. \A e \in Core : Queue(e) \in X \/ Range(ready'[e]) = Range(ready[e])
    BY <1>1, <1>2
  <2> HIDE DEF X
  <2> QED
    BY <1>1, <1>3, <2>1, <2>2, FrameSame DEF Same
<1>8. Disjoint(held') /\ AllOf(held') = AllOf(held)
  <2>2. \A i \in X : \A x \in held'[i] : \E j \in X : x \in held[j]
    BY <1>2, <1>3, <1>6
  <2>3. \A i \in X : \A x \in held[i] : \E j \in X : x \in held'[j]
    BY <1>2, <1>3, <1>6
  <2>4. \A i, j \in X : i # j => held'[i] \cap held'[j] = {}
    BY <1>2, <1>4, <1>6
  <2> HIDE DEF X
  <2> QED
    BY <1>3, <1>7, <2>2, <2>3, <2>4, Rearranged, Kept DEF Placed
<1>9. /\ \A e \in Core : IsInjective(ready'[e])
      /\ \A e \in Core : CarriedOnce(inbox'[e])
      /\ \A e \in Core : ContOf(op'[e])
  BY <1>1, <1>2, <1>5 DEF Placed, Orderly
<1> QED
  BY <1>1, <1>8, <1>9 DEF Placed, Orderly

\* What a step that wakes threads leaves in order.
RestOrderly ==
  /\ \A e \in Core : CarriedOnce(inbox'[e]) /\ ContOf(op'[e])
  /\ \A x \in Thread : making'[x] \subseteq making[x]

\* The threads S leave the holder j for the queue of c, in any order.
LEMMA WakePlaced ==
  ASSUME IInv, Placed, NEW c \in Core, NEW j \in Holder, j # Queue(c),
         NEW S \in SUBSET Thread, S \subseteq held[j],
         NEW q \in Seq(Thread), IsInjective(q), Range(q) \subseteq Range(ready[c]),
         NEW w \in Orders(S), ready' = [ready EXCEPT ![c] = q \o w],
         held'[j] \subseteq held[j] \ S, Below({j, Queue(c)}), RestOrderly
  PROVE  /\ Placed'
         /\ q = ready[c] /\ held'[j] = held[j] \ S /\ Same({j, Queue(c)})
              => AllOf(held') = AllOf(held)
<1>1. ready \in [Core -> Seq(Thread)] /\ Queue(c) \in Holder /\ held[Queue(c)] = Range(ready[c])
  BY Types, HeldIs
<1>2. Range(ready[c]) \cap S = {}
  BY <1>1, HeldIs DEF Placed, Disjoint
<1>4. Range(q \o w) = Range(q) \cup S /\ IsInjective(q \o w)
  BY <1>2, PushOnce
<1>5. held'[Queue(c)] = Range(q) \cup S
  BY <1>1, <1>4, HeldWillBe
<1>6. Disjoint(held')
  <2>1. MayGo(j, Queue(c), S)
    BY <1>1, <1>5 DEF MayGo
  <2>2. Disjoint(held)
    BY DEF Placed
  <2> QED
    BY <2>1, <2>2, MayGoApart
<1>7. ASSUME q = ready[c], held'[j] = held[j] \ S, Same({j, Queue(c)})
      PROVE  AllOf(held') = AllOf(held)
  <2>1. Goes(j, Queue(c), S)
    BY <1>1, <1>5, <1>7 DEF Goes
  <2>2. Disjoint(held)
    BY DEF Placed
  <2> QED
    BY <1>7, <2>1, <2>2, GoesKeeps
<1>8. \A e \in Core : IsInjective(ready'[e])
  BY <1>1, <1>4 DEF Placed, Orderly
<1> QED
  BY <1>6, <1>7, <1>8 DEF Placed, Orderly, RestOrderly

\* One thread u leaves the holder j for the queue of c.
LEMMA EnqueuePlaced ==
  ASSUME IInv, Placed, NEW c \in Core, NEW j \in Holder, j # Queue(c),
         NEW u \in Thread, u \in held[j], ready' = [ready EXCEPT ![c] = Append(ready[c], u)],
         held'[j] = held[j] \ {u}, Below({j, Queue(c)}), RestOrderly
  PROVE  /\ Placed' /\ AllOf(held') \subseteq AllOf(held)
         /\ Same({j, Queue(c)}) => AllOf(held') = AllOf(held)
<1>1. ready \in [Core -> Seq(Thread)] /\ Queue(c) \in Holder /\ held[Queue(c)] = Range(ready[c])
  BY Types, HeldIs
<1>2. u \notin Range(ready[c])
  BY <1>1, HeldIs DEF Placed, Disjoint
<1>3. ready[c] \in Seq(Thread) /\ IsInjective(ready[c])
  BY <1>1 DEF Placed, Orderly
<1>4. Range(Append(ready[c], u)) = Range(ready[c]) \cup {u} /\ IsInjective(Append(ready[c], u))
  BY <1>2, <1>3, AppendOnce
<1>5. held'[Queue(c)] = held[Queue(c)] \cup {u}
  BY <1>1, <1>4, HeldWillBe
<1>6. Disjoint(held) /\ Goes(j, Queue(c), {u}) /\ MayGo(j, Queue(c), {u})
  BY <1>1, <1>5 DEF Placed, Goes, MayGo
<1>7. Disjoint(held') /\ AllOf(held') \subseteq AllOf(held)
  BY <1>6, MayGoApart
<1>8. ASSUME Same({j, Queue(c)}) PROVE AllOf(held') = AllOf(held)
  BY <1>6, <1>8, GoesKeeps
<1>9. \A e \in Core : IsInjective(ready'[e])
  BY <1>1, <1>4 DEF Placed, Orderly
<1> QED
  BY <1>7, <1>8, <1>9 DEF Placed, Orderly, RestOrderly

\* An id that has not been handed out is nowhere.
LEMMA FreshUnheld ==
  ASSUME IInv, NEW u \in fresh, NEW i \in Holder
  PROVE  u \notin held[i]
<1>1. ASSUME NEW x \in Thread PROVE u \notin making[x]
  BY DEF IInv, FreshIsNowhere
<1>2. ASSUME NEW c \in Core
      PROVE  /\ u \notin RunsOn(c) /\ u \notin Range(ready[c]) /\ u \notin sleeping[c]
             /\ u \notin Carried(inbox[c]) /\ \A x \in Thread : u \notin joiners[c][x]
  <2>1. /\ current[c] \in Born \cup {Idle} /\ ready[c] \in Seq(Born) /\ sleeping[c] \in SUBSET Born
        /\ joiners[c] \in [Thread -> SUBSET Born] /\ inbox[c] \in Seq(GoodMessage)
        /\ u \notin Born
    BY CoreFacts DEF Born
  <2>2. Range(ready[c]) \subseteq Born /\ Range(inbox[c]) \subseteq GoodMessage
    BY <2>1, RangeIs
  <2>3. ThreadMsg(u) \notin GoodMessage
    BY DEF GoodMessage, ThreadMsg
  <2> QED
    BY <2>1, <2>2, <2>3 DEF RunsOn, Carried
<1>3. CASE \E x \in Thread : i = MadeBy(x)
  BY <1>1, <1>3, HeldIs
<1>4. CASE \E c \in Core : i = Runs(c) \/ i = Queue(c) \/ i = Bed(c) \/ i = Post(c)
  BY <1>2, <1>4, HeldIs
<1>5. CASE \E c \in Core, x \in Thread : i = Wait(c, x)
  BY <1>2, <1>5, HeldIs
<1> QED
  BY <1>3, <1>4, <1>5, HolderCases

\* ready() takes an id and holds it.
LEMMA SpawnPlaced ==
  ASSUME IInv, Placed, NEW c \in Core, NEW t \in Thread, NEW u \in Thread, Spawn(c, t, u)
  PROVE  Placed' /\ AllOf(held') = AllOf(held) \cup {u}
<1>1. /\ u \in fresh /\ making[t] = {} /\ making' = [making EXCEPT ![t] = {u}]
      /\ UNCHANGED <<current, ready, sleeping, joiners, inbox, op>>
  BY DEF Spawn, Executing
<1>2. making \in [Thread -> SUBSET Thread] /\ MadeBy(t) \in Holder /\ held[MadeBy(t)] = {}
  BY <1>1, Types, HeldIs
<1>3. held'[MadeBy(t)] = {u}
  BY <1>1, <1>2, HeldWillBe
<1> DEFINE X == {MadeBy(t)}
<1>4. \A i \in Holder \ X : held'[i] = held[i]
  <2>1. X \in SUBSET Holder
    BY <1>2
  <2>2. \A x \in Thread : MadeBy(x) \in X \/ making'[x] = making[x]
    BY <1>1, <1>2
  <2>3. \A e \in Core : RunsOn(e)' = RunsOn(e)
    BY <1>1 DEF RunsOn, Departed
  <2> HIDE DEF X
  <2> QED
    BY <1>1, <2>1, <2>2, <2>3, FrameSame DEF Same
<1>5. \A i \in Holder : u \notin held[i]
  BY <1>1, FreshUnheld
<1>6. Disjoint(held')
  <2> SUFFICES ASSUME NEW i \in Holder, NEW k \in Holder, i # k PROVE held'[i] \cap held'[k] = {}
    BY HeldWillBe DEF Disjoint
  <2>1. held[i] \cap held[k] = {}
    BY HeldIs DEF Placed, Disjoint
  <2> QED
    BY <1>3, <1>4, <1>5, <2>1
<1>7. AllOf(held') = AllOf(held) \cup {u}
  <2>1. \A x : (\E i \in Holder : x \in held'[i]) <=> x = u \/ (\E i \in Holder : x \in held[i])
    BY <1>2, <1>3, <1>4
  <2> QED
    BY <2>1, HeldIs, HeldWillBe DEF AllOf
<1> QED
  BY <1>1, <1>2, <1>6, <1>7 DEF Placed, Orderly

\* ... and hands the thread to the queue of the core.
LEMMA SpawnReadyPlaced ==
  ASSUME IInv, Placed, NEW c \in Core, NEW t \in Thread, NEW u \in Thread, SpawnReady(c, t, u)
  PROVE  /\ Placed' /\ AllOf(held') \subseteq AllOf(held)
         /\ joiners[c][u] = {} => AllOf(held') = AllOf(held)
<1>1. /\ u \in making[t] /\ making' = [making EXCEPT ![t] = {}]
      /\ ready' = [ready EXCEPT ![c] = Append(ready[c], u)]
      /\ joiners' = [joiners EXCEPT ![c][u] = {}]
      /\ UNCHANGED <<current, sleeping, inbox, op>>
  BY Types DEF SpawnReady
<1>2. /\ making \in [Thread -> SUBSET Thread] /\ ready \in [Core -> Seq(Thread)]
      /\ joiners \in [Core -> [Thread -> SUBSET Thread]]
  BY Types
<1>3. making[t] = {u} /\ making'[t] = {}
  BY <1>1, <1>2 DEF Placed, Orderly
<1>4. MadeBy(t) \in Holder /\ held[MadeBy(t)] = {u} /\ held'[MadeBy(t)] = {}
  BY <1>3, HeldIs, HeldWillBe, Zenon
<1>5. Queue(c) \in Holder /\ MadeBy(t) # Queue(c)
  BY HeldIs, HoldersDiffer, Zenon
<1> DEFINE X == {MadeBy(t), Queue(c)}
<1>6. X \in SUBSET Holder
  BY <1>4, <1>5, Zenon
<1>7. \A x \in Thread : MadeBy(x) \in X \/ making'[x] = making[x]
  BY <1>1, <1>2
<1>8. \A e \in Core : Queue(e) \in X \/ Range(ready'[e]) = Range(ready[e])
  BY <1>1, <1>2
<1>9. \A e \in Core : RunsOn(e)' = RunsOn(e)
  BY <1>1 DEF RunsOn, Departed
<1>10. \A e \in Core, x \in Thread : joiners'[e][x] \subseteq joiners[e][x]
  BY <1>1, <1>2
<1>11. joiners[c][u] = {} => \A e \in Core, x \in Thread : joiners'[e][x] = joiners[e][x]
  BY <1>1, <1>2, Zenon
<1>12. Below(X) /\ (joiners[c][u] = {} => Same(X))
  <2> HIDE DEF X
  <2>1. Below(X)
    BY <1>1, <1>6, <1>7, <1>8, <1>9, <1>10, FrameBelow
  <2>2. ASSUME joiners[c][u] = {} PROVE Same(X)
    BY <1>1, <1>6, <1>7, <1>8, <1>9, <1>11, <2>2, FrameSame, Zenon
  <2> QED
    BY <2>1, <2>2
<1>13. RestOrderly
  BY <1>1, <1>2 DEF Placed, Orderly, RestOrderly
<1>14. u \in held[MadeBy(t)] /\ held'[MadeBy(t)] = held[MadeBy(t)] \ {u}
  BY <1>4
<1> QED
  BY <1>1, <1>4, <1>5, <1>12, <1>13, <1>14, EnqueuePlaced, Zenon

\* The timer wakes the sleepers that are due.
LEMMA TickPlaced ==
  ASSUME IInv, Placed, NEW c \in Core, Tick(c)
  PROVE  Placed' /\ AllOf(held') = AllOf(held)
<1> DEFINE S == sleeping[c] \cap due
           X == {Bed(c), Queue(c)}
<1>1. PICK w \in Orders(S) : ready' = [ready EXCEPT ![c] = ready[c] \o w]
  BY Types, Zenon DEF Tick
<1>2. /\ op[c].pc = "run" /\ sleeping' = [sleeping EXCEPT ![c] = @ \ due]
      /\ op' = [op EXCEPT ![c] = Draining("tick")]
      /\ UNCHANGED <<making, current, joiners, inbox>>
  BY DEF Tick
<1>3. /\ ready \in [Core -> Seq(Thread)] /\ sleeping \in [Core -> SUBSET Thread]
      /\ op \in [Core -> Op]
  BY Types, Zenon
<1>4. /\ Bed(c) \in Holder /\ Queue(c) \in Holder /\ Bed(c) # Queue(c)
      /\ held[Bed(c)] = sleeping[c] /\ held'[Bed(c)] = held[Bed(c)] \ S
  BY <1>2, <1>3, HeldIs, HeldWillBe, HoldersDiffer, Zenon
<1>5. \A e \in Core : ~ Departed(c) /\ (Departed(e)' <=> Departed(e)) /\ ContOf(op'[e])
  BY <1>2, <1>3, DrainingIs, Zenon DEF Departed, Placed, Orderly, ContOf
<1>6. Same(X) /\ Below(X)
  <2>1. /\ X \in SUBSET Holder
        /\ \A e \in Core : Queue(e) \in X \/ Range(ready'[e]) = Range(ready[e])
        /\ \A e \in Core : Bed(e) \in X \/ sleeping'[e] = sleeping[e]
        /\ \A e \in Core : RunsOn(e)' = RunsOn(e)
    BY <1>1, <1>2, <1>3, <1>4, <1>5, Zenon DEF RunsOn
  <2> HIDE DEF X
  <2>2. Same(X)
    BY <1>2, <2>1, FrameSame, Zenon
  <2> QED
    BY <2>2, Zenon DEF Same, Below
<1>7. S \in SUBSET Thread /\ S \subseteq held[Bed(c)]
  BY <1>3, <1>4
<1>8. ready[c] \in Seq(Thread) /\ IsInjective(ready[c])
  BY <1>3 DEF Placed, Orderly
<1>9. RestOrderly
  BY <1>2, <1>5 DEF Placed, Orderly, RestOrderly
<1> HIDE DEF S
<1> QED
  BY <1>1, <1>2, <1>4, <1>6, <1>7, <1>8, <1>9, WakePlaced, Zenon

\* The joiners of t on core c become ready, with a queue q and a join map m of
\* which a kill may have taken a thread.
LEMMA UnjoinPlaced ==
  ASSUME IInv, Placed, NEW c \in Core, NEW t \in Thread,
         NEW q \in Seq(Thread), IsInjective(q), Range(q) \subseteq Range(ready[c]),
         NEW m \in [Thread -> SUBSET Thread], \A x \in Thread : m[x] \subseteq joiners[c][x],
         NEW w \in Orders(m[t]), ready' = [ready EXCEPT ![c] = q \o w],
         joiners' = [joiners EXCEPT ![c] = [m EXCEPT ![t] = {}]],
         making' = making,
         \A e \in Core : RunsOn(e)' \subseteq RunsOn(e),
         \A e \in Core : sleeping'[e] \subseteq sleeping[e],
         \A e \in Core : Carried(inbox'[e]) \subseteq Carried(inbox[e]),
         RestOrderly
  PROVE  Placed'
<1> DEFINE S == m[t]
           X == {Wait(c, t), Queue(c)}
<1>1. /\ joiners \in [Core -> [Thread -> SUBSET Thread]]
      /\ ready \in [Core -> Seq(Thread)]
  BY Types
<1>2. /\ Wait(c, t) \in Holder /\ Queue(c) \in Holder
      /\ held[Wait(c, t)] = joiners[c][t]
  BY HeldIs, Zenon
<1>3. Wait(c, t) # Queue(c)
  BY HoldersDiffer, Zenon
<1>4. \A e \in Core, x \in Thread :
        joiners'[e][x] = IF e = c THEN IF x = t THEN {} ELSE m[x] ELSE joiners[e][x]
  BY <1>1, Zenon
<1>5. held'[Wait(c, t)] = {}
  <2>1. held'[Wait(c, t)] = joiners'[c][t]
    BY HeldWillBe, Zenon
  <2>2. joiners'[c][t] = {}
    BY <1>4, Zenon
  <2> QED
    BY <2>1, <2>2, Zenon
<1>6. S \in SUBSET Thread /\ S \subseteq held[Wait(c, t)] /\ held'[Wait(c, t)] \subseteq held[Wait(c, t)] \ S
  BY <1>2, <1>5
<1>7. Below(X)
  <2>1. X \in SUBSET Holder
    BY <1>2
  <2>2. \A e \in Core : Queue(e) \in X \/ Range(ready'[e]) \subseteq Range(ready[e])
    BY <1>1
  <2>3. \A e \in Core, x \in Thread : joiners'[e][x] \subseteq joiners[e][x]
    BY <1>1, <1>4
  <2> HIDE DEF X
  <2> QED
    BY <2>1, <2>2, <2>3, FrameBelow, Zenon
<1> HIDE DEF S
<1>8. w \in Orders(S)
  BY DEF S
<1> QED
  BY <1>2, <1>3, <1>6, <1>7, <1>8, WakePlaced, Zenon

\* Nobody is lost when nothing is killed.
LEMMA UnjoinKeeps ==
  ASSUME IInv, Placed, NEW c \in Core, NEW t \in Thread,
         NEW w \in Orders(joiners[c][t]), ready' = [ready EXCEPT ![c] = ready[c] \o w],
         joiners' = [joiners EXCEPT ![c][t] = {}],
         making' = making, sleeping' = sleeping,
         \A e \in Core : RunsOn(e)' = RunsOn(e),
         \A e \in Core : Carried(inbox'[e]) = Carried(inbox[e]),
         RestOrderly
  PROVE  AllOf(held') = AllOf(held)
<1> DEFINE S == joiners[c][t]
           X == {Wait(c, t), Queue(c)}
<1>1. /\ joiners \in [Core -> [Thread -> SUBSET Thread]]
      /\ ready \in [Core -> Seq(Thread)]
  BY Types
<1>2. /\ Wait(c, t) \in Holder /\ Queue(c) \in Holder
      /\ held[Wait(c, t)] = joiners[c][t]
  BY HeldIs
<1>3. Wait(c, t) # Queue(c)
  BY HoldersDiffer
<1>4. \A e \in Core, x \in Thread :
        joiners'[e][x] = IF e = c /\ x = t THEN {} ELSE joiners[e][x]
  BY <1>1
<1>5. held'[Wait(c, t)] = {}
  BY <1>4, HeldWillBe
<1>6. /\ S \in SUBSET Thread /\ S \subseteq held[Wait(c, t)]
      /\ held'[Wait(c, t)] = held[Wait(c, t)] \ S
      /\ held'[Wait(c, t)] \subseteq held[Wait(c, t)] \ S
  BY <1>1, <1>2, <1>5
<1>7. Same(X) /\ Below(X)
  <2>1. X \in SUBSET Holder
    BY <1>2
  <2>2. \A e \in Core : Queue(e) \in X \/ Range(ready'[e]) = Range(ready[e])
    BY <1>1
  <2>3. \A e \in Core, x \in Thread : Wait(e, x) \in X \/ joiners'[e][x] = joiners[e][x]
    BY <1>1, <1>4
  <2> HIDE DEF X
  <2>4. Same(X)
    BY <2>1, <2>2, <2>3, FrameSame
  <2> QED
    BY <2>4 DEF Same, Below
<1> HIDE DEF S
<1>8. w \in Orders(S)
  BY DEF S
<1>9. ready[c] \in Seq(Thread) /\ IsInjective(ready[c])
  BY <1>1 DEF Placed, Orderly
<1> QED
  BY <1>2, <1>3, <1>6, <1>7, <1>8, <1>9, WakePlaced, Zenon

\* A JoinTargetExited is taken from the inbox.
LEMMA DrainExitedPlaced ==
  ASSUME IInv, Placed, NEW c \in Core, NEW t \in Thread, DrainExited(c, t)
  PROVE  Placed' /\ AllOf(held') = AllOf(held)
<1>1. PICK w \in Orders(joiners[c][t]) : ready' = [ready EXCEPT ![c] = ready[c] \o w]
  BY Types, Zenon DEF DrainExited
<1>2. /\ op[c].pc = "drain" /\ inbox[c] # <<>> /\ Head(inbox[c]).type = "JoinTargetExited"
      /\ inbox' = [inbox EXCEPT ![c] = Tail(inbox[c])]
      /\ joiners' = [joiners EXCEPT ![c][t] = {}]
      /\ op' = [op EXCEPT ![c].n = @ - 1]
      /\ UNCHANGED <<making, current, sleeping>>
  BY DEF DrainExited, Receives
<1>3. /\ inbox \in [Core -> Seq(Message)] /\ op \in [Core -> Op]
      /\ ready \in [Core -> Seq(Thread)]
      /\ joiners \in [Core -> [Thread -> SUBSET Thread]]
  BY Types
<1>4. \A e \in Core : op'[e].cont = op[e].cont /\ op'[e].pc = op[e].pc
  BY <1>2, <1>3 DEF Op
<1>5. \A e \in Core : RunsOn(e)' = RunsOn(e)
  BY <1>2, <1>4 DEF RunsOn, Departed
<1>6. inbox[c] \in Seq(Message) /\ CarriedOnce(inbox[c])
  BY <1>3, Zenon DEF Placed, Orderly
<1>7. Carried(Tail(inbox[c])) = Carried(inbox[c]) /\ CarriedOnce(Tail(inbox[c]))
  BY <1>2, <1>6, TakeOnce
<1>8. \A e \in Core : Carried(inbox'[e]) = Carried(inbox[e])
  BY <1>2, <1>3, <1>7
<1>9. RestOrderly
  BY <1>2, <1>3, <1>4, <1>7, Zenon DEF Placed, Orderly, RestOrderly, ContOf
<1>10. ready[c] \in Seq(Thread) /\ IsInjective(ready[c])
  BY <1>3, Zenon DEF Placed, Orderly
<1>11. /\ joiners[c] \in [Thread -> SUBSET Thread]
       /\ joiners' = [joiners EXCEPT ![c] = [joiners[c] EXCEPT ![t] = {}]]
  BY <1>2, <1>3
<1>12. Placed'
  BY <1>1, <1>2, <1>5, <1>8, <1>9, <1>10, <1>11, UnjoinPlaced, Zenon
<1>13. AllOf(held') = AllOf(held)
  BY <1>1, <1>2, <1>5, <1>8, <1>9, UnjoinKeeps, Zenon
<1> QED
  BY <1>12, <1>13

\* A migrated thread is taken from the inbox.
LEMMA DrainThreadPlaced ==
  ASSUME IInv, Placed, NEW c \in Core, NEW t \in Thread, DrainThread(c, t)
  PROVE  Placed' /\ AllOf(held') = AllOf(held)
<1> DEFINE X == {Post(c), Queue(c)}
<1>1. /\ op[c].pc = "drain" /\ inbox[c] # <<>> /\ Head(inbox[c]) = ThreadMsg(t)
      /\ inbox' = [inbox EXCEPT ![c] = Tail(inbox[c])]
      /\ ready' = [ready EXCEPT ![c] = Append(ready[c], t)]
      /\ op' = [op EXCEPT ![c].n = @ - 1, ![c].got = TRUE]
      /\ UNCHANGED <<making, current, sleeping, joiners>>
  BY DEF DrainThread, Receives, ThreadMsg
<1>2. /\ inbox \in [Core -> Seq(Message)] /\ op \in [Core -> Op]
      /\ ready \in [Core -> Seq(Thread)]
  BY Types
<1>3. \A e \in Core : op'[e].cont = op[e].cont /\ op'[e].pc = op[e].pc
  BY <1>1, <1>2 DEF Op
<1>4. \A e \in Core : RunsOn(e)' = RunsOn(e)
  BY <1>1, <1>3, Zenon DEF RunsOn, Departed
<1>5. inbox[c] \in Seq(Message) /\ CarriedOnce(inbox[c])
  BY <1>2 DEF Placed, Orderly
<1>6. /\ Carried(inbox[c]) = Carried(Tail(inbox[c])) \cup {t}
      /\ t \notin Carried(Tail(inbox[c])) /\ CarriedOnce(Tail(inbox[c]))
  BY <1>1, <1>5, TakeOnce
<1>7. /\ Post(c) \in Holder /\ Queue(c) \in Holder
      /\ held[Post(c)] = Carried(inbox[c]) /\ held'[Post(c)] = Carried(Tail(inbox[c]))
  BY <1>1, <1>2, HeldIs, HeldWillBe
<1>8. Post(c) # Queue(c)
  BY HoldersDiffer
<1>9. t \in held[Post(c)] /\ held'[Post(c)] = held[Post(c)] \ {t}
  BY <1>6, <1>7
<1>10. Same(X) /\ Below(X)
  <2>1. X \in SUBSET Holder
    BY <1>7
  <2>2. \A e \in Core : Queue(e) \in X \/ Range(ready'[e]) = Range(ready[e])
    BY <1>1, <1>2
  <2>3. \A e \in Core : Post(e) \in X \/ Carried(inbox'[e]) = Carried(inbox[e])
    BY <1>1, <1>2
  <2> HIDE DEF X
  <2>4. Same(X)
    BY <1>1, <1>4, <2>1, <2>2, <2>3, FrameSame
  <2> QED
    BY <2>4 DEF Same, Below
<1>11. RestOrderly
  BY <1>1, <1>2, <1>3, <1>6 DEF Placed, Orderly, RestOrderly, ContOf
<1> QED
  BY <1>1, <1>7, <1>8, <1>9, <1>10, <1>11, EnqueuePlaced, Zenon

\* exit(): the joiners of t become ready, and t is in no list any more.
LEMMA ExitPlaced ==
  ASSUME IInv, Placed, NEW c \in Core, NEW t \in Thread, Exit(c, t)
  PROVE  Placed' /\ AllOf(held') = AllOf(held) \ {t}
<1> DEFINE X == {Runs(c), Queue(c), Wait(c, t)}
<1>1. PICK w \in Orders(joiners[c][t]) : ready' = [ready EXCEPT ![c] = ready[c] \o w]
  BY Zenon DEF Exit, Unjoin
<1>2. /\ op[c].pc = "run" /\ current[c] = t
      /\ joiners' = [joiners EXCEPT ![c] = [joiners[c] EXCEPT ![t] = {}]]
      /\ op' = [op EXCEPT ![c] = Sending([op[c] EXCEPT !.cont = "exit"], "unjoin", t, Others(c))]
      /\ UNCHANGED <<making, current, sleeping, inbox>>
  BY DEF Exit, Unjoin, Executing
<1>3. /\ ready \in [Core -> Seq(Thread)] /\ op \in [Core -> Op]
      /\ joiners \in [Core -> [Thread -> SUBSET Thread]]
  BY Types
<1>4. op'[c].cont = "exit" /\ op'[c].pc = "unjoin" /\ \A e \in Core \ {c} : op'[e] = op[e]
  BY <1>2, <1>3 DEF Sending, Op
<1>5. RunsOn(c) = {t} /\ RunsOn(c)' = {} /\ \A e \in Core \ {c} : RunsOn(e)' = RunsOn(e)
  <2>1. RunsOn(c) = {t}
    BY <1>2, RunsFacts, ThreadAssumption
  <2> QED
    BY <1>2, <1>4, <2>1 DEF RunsOn, Departed
<1>6. RestOrderly
  BY <1>2, <1>4 DEF Placed, Orderly, RestOrderly, ContOf
<1>7. ready[c] \in Seq(Thread) /\ IsInjective(ready[c]) /\ joiners[c] \in [Thread -> SUBSET Thread]
  BY <1>3 DEF Placed, Orderly
<1>8. Placed'
  <2>1. \A e \in Core : RunsOn(e)' \subseteq RunsOn(e)
    BY <1>5, Zenon
  <2> QED
    BY <1>1, <1>2, <1>6, <1>7, <2>1, UnjoinPlaced, Zenon
<1>9. AllOf(held') = AllOf(held) \ {t}
  <2>1. joiners[c][t] \in SUBSET Thread
    BY <1>7
  <2>2. Range(ready[c] \o w) = Range(ready[c]) \cup joiners[c][t]
    BY <1>7, <2>1, PushOnce
  <2>3. \A e \in Core, x \in Thread :
          joiners'[e][x] = IF e = c /\ x = t THEN {} ELSE joiners[e][x]
    BY <1>2, <1>3
  <2>4. Range(ready'[c]) = Range(ready[c]) \cup joiners[c][t]
    BY <1>1, <1>3, <2>2, Zenon
  <2>5. /\ held[Runs(c)] = {t} /\ held[Queue(c)] = Range(ready[c])
        /\ held[Wait(c, t)] = joiners[c][t]
        /\ X \in SUBSET Holder
    BY <1>5, HeldIs, Zenon
  <2>6. /\ held'[Runs(c)] = {} /\ held'[Queue(c)] = held[Queue(c)] \cup held[Wait(c, t)]
        /\ held'[Wait(c, t)] = {}
    BY <1>5, <2>3, <2>4, <2>5, HeldWillBe, Zenon
  <2>7. Same(X)
    <3>1. \A e \in Core : Queue(e) \in X \/ Range(ready'[e]) = Range(ready[e])
      BY <1>1, <1>3
    <3>2. \A e \in Core, x \in Thread : Wait(e, x) \in X \/ joiners'[e][x] = joiners[e][x]
      BY <2>3
    <3>3. \A e \in Core : Runs(e) \in X \/ RunsOn(e)' = RunsOn(e)
      BY <1>5, Zenon
    <3> HIDE DEF X
    <3> QED
      BY <1>2, <2>5, <3>1, <3>2, <3>3, FrameSame
  <2>8. \A i \in Holder : t \in held[i] => i = Runs(c)
    BY <2>5, HeldIs, Zenon DEF Placed, Disjoint
  <2>9. ASSUME NEW x PROVE (\E i \in Holder : x \in held'[i]) <=> x # t /\ \E i \in Holder : x \in held[i]
    <3>1. ASSUME NEW i \in Holder, x \in held'[i]
          PROVE  x # t /\ \E k \in Holder : x \in held[k]
      <4>1. CASE i \in X
        <5>1. i = Queue(c) /\ (x \in held[Queue(c)] \/ x \in held[Wait(c, t)])
          BY <2>6, <3>1, <4>1
        <5>2. Queue(c) # Runs(c) /\ Wait(c, t) # Runs(c)
          BY HoldersDiffer
        <5> QED
          BY <2>5, <2>8, <5>1, <5>2, Zenon
      <4>2. CASE i \notin X
        <5>1. x \in held[i] /\ i # Runs(c)
          BY <2>7, <3>1, <4>2 DEF Same
        <5> QED
          BY <2>8, <5>1
      <4> QED
        BY <4>1, <4>2
    <3>2. ASSUME NEW i \in Holder, x \in held[i], x # t
          PROVE  \E k \in Holder : x \in held'[k]
      <4>1. CASE i \in X
        <5>1. x \in held'[Queue(c)]
          BY <2>5, <2>6, <3>2, <4>1
        <5> QED
          BY <2>5, <5>1
      <4>2. CASE i \notin X
        BY <2>7, <3>2, <4>2 DEF Same
      <4> QED
        BY <4>1, <4>2
    <3> QED
      BY <3>1, <3>2, Zenon
  <2>10. \A x : x \in AllOf(held') <=> \E i \in Holder : x \in held'[i]
    BY HeldWillBe, Zenon DEF AllOf
  <2>11. \A x : x \in AllOf(held) <=> \E i \in Holder : x \in held[i]
    BY HeldIs, Zenon DEF AllOf
  <2> QED
    BY <2>9, <2>10, <2>11, Zenon
<1> QED
  BY <1>8, <1>9

\* kill_locally: what it removes is gone, its joiners become ready.
LEMMA KillLocallyPlaced ==
  ASSUME IInv, Placed, NEW c \in Core, NEW u \in Thread, NEW o \in Op, o.cont = op[c].cont,
         KillLocally(c, u, o), UNCHANGED <<making, current>>,
         \A e \in Core : Carried(inbox'[e]) \subseteq Carried(inbox[e]) /\ CarriedOnce(inbox'[e])
  PROVE  Placed'
<1> DEFINE early == InReady(c, u)
           m == IF early \/ SeenInSleepList(c, u) THEN joiners[c]
                ELSE [x \in Thread |-> joiners[c][x] \ {u}]
           q == Without(ready[c], u)
<1>1. PICK w \in Orders(m[u]) : ready' = [ready EXCEPT ![c] = q \o w]
  BY Zenon DEF KillLocally, Unjoin
<1>2. /\ sleeping' = [sleeping EXCEPT ![c] = IF early THEN @ ELSE @ \ {u}]
      /\ joiners' = [joiners EXCEPT ![c] = [m EXCEPT ![u] = {}]]
      /\ op' = [op EXCEPT ![c] = Sending(o, "unjoin", u, Others(c))]
  BY Zenon DEF KillLocally, Unjoin
<1>3. /\ ready \in [Core -> Seq(Thread)] /\ op \in [Core -> Op]
      /\ sleeping \in [Core -> SUBSET Thread]
      /\ joiners \in [Core -> [Thread -> SUBSET Thread]]
  BY Types, Zenon
<1>4. m \in [Thread -> SUBSET Thread] /\ \A x \in Thread : m[x] \subseteq joiners[c][x]
  <2>1. CASE early \/ SeenInSleepList(c, u)
    BY <1>3, <2>1, Zenon
  <2>2. CASE ~ (early \/ SeenInSleepList(c, u))
    BY <1>3, <2>2
  <2> QED
    BY <2>1, <2>2, ZenonT(30)
<1>5. q \in Seq(Thread) /\ Range(q) \subseteq Range(ready[c]) /\ IsInjective(q)
  <2>1. ready[c] \in Seq(Thread) /\ IsInjective(ready[c])
    BY <1>3, Zenon DEF Placed, Orderly
  <2> QED
    BY <2>1, WithoutOnce, WithoutType, Zenon
<1>6. op'[c].cont = op[c].cont /\ op'[c].pc = "unjoin" /\ \A e \in Core \ {c} : op'[e] = op[e]
  BY <1>2, <1>3 DEF Sending, Op
<1>7. \A e \in Core : RunsOn(e)' \subseteq RunsOn(e)
  BY <1>6, Zenon DEF RunsOn, Departed
<1>8. \A e \in Core : sleeping'[e] \subseteq sleeping[e]
  BY <1>2, <1>3, Zenon
<1>9. RestOrderly
  BY <1>6, Zenon DEF Placed, Orderly, RestOrderly, ContOf
<1>10. \A e \in Core : Carried(inbox'[e]) \subseteq Carried(inbox[e])
  OBVIOUS
<1> HIDE DEF m, q
<1> QED
  BY <1>1, <1>2, <1>4, <1>5, <1>7, <1>8, <1>9, <1>10, UnjoinPlaced, Zenon

\* A message that carries no thread is taken.
LEMMA CommandTaken ==
  ASSUME IInv, Placed, NEW c \in Core, NEW t \in Thread, NEW k \in {"JoinTargetExited", "Kill"},
         Receives(c, k, t), inbox' = [inbox EXCEPT ![c] = Tail(@)]
  PROVE  \A e \in Core : Carried(inbox'[e]) = Carried(inbox[e]) /\ CarriedOnce(inbox'[e])
<1>1. inbox \in [Core -> Seq(Message)] /\ CarriedOnce(inbox[c])
  BY Types DEF Placed, Orderly
<1>2. inbox[c] \in Seq(Message) /\ inbox[c] # <<>> /\ Head(inbox[c]).type # "Thread"
  BY <1>1 DEF Receives
<1>3. Carried(Tail(inbox[c])) = Carried(inbox[c]) /\ CarriedOnce(Tail(inbox[c]))
  BY <1>1, <1>2, TakeOnce
<1> QED
  BY <1>1, <1>3, Zenon DEF Placed, Orderly

\* kill(), by a running thread.
LEMMA KillPlaced ==
  ASSUME IInv, Placed, NEW c \in Core, NEW t \in Thread, NEW u \in Thread, Kill(c, t, u)
  PROVE  Placed'
<1>1. op[c].pc = "run" /\ UNCHANGED <<making, current, inbox>>
  BY Zenon DEF Kill, Executing
<1>2. op \in [Core -> Op] /\ sleeping \in [Core -> SUBSET Thread]
  BY Types, Zenon
<1>3. \A e \in Core : Carried(inbox'[e]) \subseteq Carried(inbox[e]) /\ CarriedOnce(inbox'[e])
  BY <1>1, Zenon DEF Placed, Orderly
<1>4. CASE KillLocally(c, u, op[c])
  BY <1>1, <1>2, <1>3, <1>4, KillLocallyPlaced, Zenon
<1>5. CASE KillMissed(c, u) /\ op' = [op EXCEPT ![c] = Sending(@, "bcast", u, Others(c))]
  <2>1. UNCHANGED <<making, current, ready, joiners>>
    BY <1>1, <1>5 DEF KillMissed
  <2>2. \A e \in Core : sleeping'[e] \subseteq sleeping[e]
    BY <1>2, <1>5 DEF KillMissed
  <2>3. op'[c].pc = "bcast" /\ \A e \in Core : op'[e].cont = op[e].cont
    BY <1>2, <1>5 DEF Sending, Op
  <2>4. \A e \in Core : ContOf(op'[e])
    BY <1>2, <1>5, <2>3, Zenon DEF Placed, Orderly, ContOf
  <2> QED
    BY <1>3, <2>1, <2>2, <2>3, <2>4, NothingMoves
<1> QED
  BY <1>4, <1>5, Zenon DEF Kill

\* A Kill is taken from the inbox and obeyed.
LEMMA DrainKillPlaced ==
  ASSUME IInv, Placed, NEW c \in Core, NEW t \in Thread, DrainKill(c, t)
  PROVE  Placed'
<1>1. /\ Receives(c, "Kill", t) /\ inbox' = [inbox EXCEPT ![c] = Tail(@)]
      /\ UNCHANGED <<making, current>>
  BY DEF DrainKill
<1>2. op \in [Core -> Op] /\ sleeping \in [Core -> SUBSET Thread]
  BY Types
<1>3. \A e \in Core : Carried(inbox'[e]) \subseteq Carried(inbox[e]) /\ CarriedOnce(inbox'[e])
  BY <1>1, CommandTaken, ZenonT(30)
<1>4. CASE KillLocally(c, t, [op[c] EXCEPT !.n = @ - 1])
  <2> DEFINE o == [op[c] EXCEPT !.n = @ - 1]
  <2>1. op[c] \in Op /\ op[c].n - 1 \in 0 .. DrainMax
    BY <1>1, <1>2, BoundAssumption DEF Op, Receives
  <2>3. o \in Op /\ o.cont = op[c].cont
    <3> HIDE DEF o
    <3>1. o = [op[c] EXCEPT !.n = op[c].n - 1]
      BY DEF o
    <3> QED
      BY <2>1, <3>1 DEF Op
  <2>2. KillLocally(c, t, o)
    BY <1>4, Zenon
  <2> HIDE DEF o
  <2> QED
    BY <1>1, <1>3, <2>2, <2>3, KillLocallyPlaced, Zenon
<1>5. CASE KillMissed(c, t) /\ op' = [op EXCEPT ![c].n = @ - 1]
  <2>1. UNCHANGED <<making, current, ready, joiners>>
    BY <1>1, <1>5 DEF KillMissed
  <2>2. \A e \in Core : sleeping'[e] \subseteq sleeping[e]
    BY <1>2, <1>5 DEF KillMissed
  <2>3. \A e \in Core : op'[e].pc = op[e].pc /\ op'[e].cont = op[e].cont
    BY <1>2, <1>5 DEF Op
  <2>4. \A e \in Core : ContOf(op'[e])
    BY <2>3, Zenon DEF Placed, Orderly, ContOf
  <2> QED
    BY <1>3, <2>1, <2>2, <2>3, <2>4, NothingMoves
<1> QED
  BY <1>4, <1>5 DEF DrainKill

\* block_and_switch, of a caller that put the running thread (if it had not left
\* the core before) in the sleep list or in the join list of x.
LEMMA BlockPlaced ==
  ASSUME IInv, Placed, NEW c \in Core, NEW x \in Thread,
         NEW s \in SUBSET Thread, NEW W \in SUBSET Thread, NEW d, NEW r,
         BlockAndSwitch(c, ready[c], s, d, r),
         joiners' = [joiners EXCEPT ![c][x] = W],
         UNCHANGED <<making, inbox>>,
         s \cup W = sleeping[c] \cup joiners[c][x] \cup RunsOn(c),
         s \cap W = {}
  PROVE  Placed' /\ AllOf(held') = AllOf(held)
<1> DEFINE q == ready[c]
           h == Head(q)
           X == {Runs(c), Queue(c), Bed(c), Wait(c, x)}
           A == RunsOn(c)
<1>1. /\ current \in [Core -> Thread \cup {Idle}] /\ ready \in [Core -> Seq(Thread)]
      /\ sleeping \in [Core -> SUBSET Thread] /\ op \in [Core -> Op]
      /\ joiners \in [Core -> [Thread -> SUBSET Thread]]
      /\ q \in Seq(Thread) /\ IsInjective(q)
  BY Types DEF Placed, Orderly
<1>2. /\ X \in SUBSET Holder /\ held[Runs(c)] = A /\ held[Queue(c)] = Range(q)
      /\ held[Bed(c)] = sleeping[c] /\ held[Wait(c, x)] = joiners[c][x]
  BY HeldIs
<1>3. /\ Runs(c) # Queue(c) /\ Runs(c) # Bed(c) /\ Runs(c) # Wait(c, x)
      /\ Queue(c) # Bed(c) /\ Queue(c) # Wait(c, x) /\ Bed(c) # Wait(c, x)
  BY HoldersDiffer, Zenon
<1>4. Range(q) \cap A = {} /\ Range(q) \cap sleeping[c] = {} /\ Range(q) \cap joiners[c][x] = {}
  BY <1>2, <1>3, HeldIs DEF Placed, Disjoint
<1>5. Range(q) \cap s = {} /\ Range(q) \cap W = {}
  BY <1>4
<1>6. held'[Wait(c, x)] = W /\ \A e \in Core, y \in Thread : Wait(e, y) \in X \/ joiners'[e][y] = joiners[e][y]
  <2>1. joiners'[c][x] = W /\ \A e \in Core, y \in Thread : (e = c /\ y = x) \/ joiners'[e][y] = joiners[e][y]
    BY <1>1
  <2> QED
    BY <2>1, HeldWillBe
<1>7. ASSUME NEW R, NEW Q, NEW B,
             held'[Runs(c)] = R, held'[Queue(c)] = Q, held'[Bed(c)] = B,
             R \cup Q \cup B = Range(q) \cup s,
             R \cap Q = {}, R \cap B = {}, Q \cap B = {},
             \A e \in Core : Runs(e) \in X \/ RunsOn(e)' = RunsOn(e),
             \A e \in Core : Queue(e) \in X \/ Range(ready'[e]) = Range(ready[e]),
             \A e \in Core : Bed(e) \in X \/ sleeping'[e] = sleeping[e]
      PROVE  Disjoint(held') /\ AllOf(held') = AllOf(held)
  <2>1. Same(X)
    <3> HIDE DEF X
    <3> QED
      BY <1>2, <1>6, <1>7, FrameSame, Zenon
  <2>2. \A i \in X : \A y \in held'[i] : \E j \in X : y \in held[j]
    <3>1. ASSUME NEW y, y \in R \cup Q \cup B \cup W PROVE \E j \in X : y \in held[j]
      <4>1. y \in Range(q) \cup sleeping[c] \cup joiners[c][x] \cup A
        BY <1>7, <3>1
      <4> QED
        BY <1>2, <4>1
    <3> QED
      BY <1>6, <1>7, <3>1
  <2>3. \A i \in X : \A y \in held[i] : \E j \in X : y \in held'[j]
    <3>1. ASSUME NEW y, y \in Range(q) \cup sleeping[c] \cup joiners[c][x] \cup A
          PROVE  \E j \in X : y \in held'[j]
      <4>1. y \in R \cup Q \cup B \cup W
        BY <1>7, <3>1
      <4> QED
        BY <1>6, <1>7, <4>1
    <3> QED
      BY <1>2, <3>1, Zenon
  <2>4. \A i, j \in X : i # j => held'[i] \cap held'[j] = {}
    <3>1. R \cap W = {} /\ Q \cap W = {} /\ B \cap W = {}
      BY <1>5, <1>7
    <3> QED
      BY <1>6, <1>7, <3>1
  <2>5. Disjoint(held)
    BY DEF Placed
  <2>6. \A i \in Holder \ X : held'[i] = held[i]
    BY <2>1 DEF Same
  <2> HIDE DEF X
  <2> QED
    BY <1>2, <2>2, <2>3, <2>4, <2>5, <2>6, Rearranged, Kept, Zenon
<1>8. CASE q # <<>>
  <2>1. /\ current' = [current EXCEPT ![c] = h] /\ ready' = [ready EXCEPT ![c] = Tail(q)]
        /\ sleeping' = [sleeping EXCEPT ![c] = s] /\ op' = [op EXCEPT ![c] = Unlocked]
    BY <1>8 DEF BlockAndSwitch
  <2>2. /\ Range(q) = Range(Tail(q)) \cup {h} /\ h \notin Range(Tail(q))
        /\ IsInjective(Tail(q)) /\ h \in Thread
    BY <1>1, <1>8, TailOnce, TailIs
  <2>3. op'[c] = Unlocked /\ current'[c] = h /\ \A e \in Core \ {c} : op'[e] = op[e] /\ current'[e] = current[e]
    BY <1>1, <2>1
  <2>4. RunsOn(c)' = {h} /\ \A e \in Core \ {c} : RunsOn(e)' = RunsOn(e)
    BY <2>2, <2>3, UnlockedIs, ThreadAssumption, Zenon DEF RunsOn, Departed
  <2>5. held'[Runs(c)] = {h} /\ held'[Queue(c)] = Range(Tail(q)) /\ held'[Bed(c)] = s
    BY <1>1, <2>1, <2>4, HeldWillBe, Zenon
  <2>6. {h} \cup Range(Tail(q)) \cup s = Range(q) \cup s
    BY <2>2
  <2>7. {h} \cap Range(Tail(q)) = {} /\ {h} \cap s = {} /\ Range(Tail(q)) \cap s = {}
    BY <1>5, <2>2
  <2>8. \A e \in Core : Runs(e) \in X \/ RunsOn(e)' = RunsOn(e)
    BY <2>4
  <2>9. \A e \in Core : Queue(e) \in X \/ Range(ready'[e]) = Range(ready[e])
    BY <1>1, <2>1
  <2>10. \A e \in Core : Bed(e) \in X \/ sleeping'[e] = sleeping[e]
    BY <1>1, <2>1, Zenon
  <2>11. Disjoint(held') /\ AllOf(held') = AllOf(held)
    <3> HIDE DEF X
    <3> QED
      BY <1>7, <2>5, <2>6, <2>7, <2>8, <2>9, <2>10
  <2>12. Orderly'
    BY <1>1, <2>1, <2>2, <2>3, UnlockedIs, Zenon DEF Placed, Orderly
  <2> QED
    BY <2>11, <2>12 DEF Placed
<1>9. CASE q = <<>>
  <2>1. PICK w \in Orders(s \cap d) : ready' = [ready EXCEPT ![c] = w]
    BY <1>9, Zenon DEF BlockAndSwitch
  <2>2. /\ sleeping' = [sleeping EXCEPT ![c] = s \ d]
        /\ op' = [op EXCEPT ![c] = Draining("block")] /\ current' = current
    BY <1>9 DEF BlockAndSwitch
  <2>3. Range(w) = s \cap d /\ IsInjective(w) /\ Range(q) = {}
    <3>1. Range(q) = {}
      BY <1>1, <1>9 DEF Range
    <3>2. Range(w) = s \cap d /\ IsInjective(w)
      BY OrderOnce
    <3> QED
      BY <3>1, <3>2
  <2>4. op'[c] = Draining("block") /\ \A e \in Core \ {c} : op'[e] = op[e]
    BY <1>1, <2>2
  <2>5. RunsOn(c)' = {} /\ \A e \in Core \ {c} : RunsOn(e)' = RunsOn(e)
    BY <2>2, <2>4, DrainingIs DEF RunsOn, Departed
  <2>6. held'[Runs(c)] = {} /\ held'[Queue(c)] = s \cap d /\ held'[Bed(c)] = s \ d
    BY <1>1, <2>1, <2>2, <2>3, <2>5, HeldWillBe, Zenon
  <2>7. {} \cup (s \cap d) \cup (s \ d) = Range(q) \cup s
    BY <2>3
  <2>8. {} \cap (s \cap d) = {} /\ {} \cap (s \ d) = {} /\ (s \cap d) \cap (s \ d) = {}
    OBVIOUS
  <2>9. \A e \in Core : Runs(e) \in X \/ RunsOn(e)' = RunsOn(e)
    BY <2>5
  <2>10. \A e \in Core : Queue(e) \in X \/ Range(ready'[e]) = Range(ready[e])
    BY <1>1, <2>1
  <2>11. \A e \in Core : Bed(e) \in X \/ sleeping'[e] = sleeping[e]
    BY <1>1, <2>2
  <2>12. Disjoint(held') /\ AllOf(held') = AllOf(held)
    <3> HIDE DEF X
    <3> QED
      BY <1>7, <2>6, <2>7, <2>8, <2>9, <2>10, <2>11, Zenon
  <2>13. Orderly'
    BY <1>1, <2>1, <2>2, <2>3, <2>4, DrainingIs, Zenon DEF Placed, Orderly
  <2> QED
    BY <2>12, <2>13 DEF Placed
<1> QED
  BY <1>8, <1>9

\* sleep().
LEMMA SleepPlaced ==
  ASSUME IInv, Placed, NEW c \in Core, NEW t \in Thread, NEW now \in BOOLEAN, Sleep(c, t, now)
  PROVE  Placed' /\ AllOf(held') = AllOf(held)
<1> DEFINE s == sleeping[c] \cup {t}
           W == joiners[c][Boot]
           d == IF now THEN due \cup {t} ELSE due
           r == Plus(rqLen[c], -1)
<1>1. /\ op[c].pc = "run" /\ current[c] = t /\ BlockAndSwitch(c, ready[c], s, d, r)
      /\ UNCHANGED <<making, joiners, inbox>>
  BY DEF Sleep, Executing
<1>2. /\ sleeping \in [Core -> SUBSET Thread] /\ joiners \in [Core -> [Thread -> SUBSET Thread]]
      /\ Boot \in Thread
  BY Types, ThreadAssumption
<1>3. RunsOn(c) = {t}
  BY <1>1, RunsFacts, ThreadAssumption
<1>4. s \in SUBSET Thread /\ W \in SUBSET Thread
  BY <1>2
<1>5. joiners' = [joiners EXCEPT ![c][Boot] = W]
  BY <1>1, <1>2
<1>6. s \cup W = sleeping[c] \cup joiners[c][Boot] \cup RunsOn(c)
  BY <1>3
<1>7. s \cap W = {}
  <2>1. /\ held[Runs(c)] = {t} /\ held[Bed(c)] = sleeping[c] /\ held[Wait(c, Boot)] = W
        /\ {Runs(c), Bed(c), Wait(c, Boot)} \subseteq Holder
    BY <1>2, <1>3, HeldIs, ZenonT(30)
  <2>2. Runs(c) # Wait(c, Boot) /\ Bed(c) # Wait(c, Boot)
    BY HoldersDiffer, ThreadAssumption
  <2> QED
    BY <2>1, <2>2, HeldIs, Zenon DEF Placed, Disjoint
<1> HIDE DEF s, W, d, r
<1> QED
  BY <1>1, <1>2, <1>4, <1>5, <1>6, <1>7, BlockPlaced, Zenon

\* join(), after its check.
LEMMA JoinBlockPlaced ==
  ASSUME IInv, Placed, NEW c \in Core, JoinBlock(c)
  PROVE  Placed' /\ AllOf(held') = AllOf(held)
<1> DEFINE x == op[c].tid
           t == current[c]
           s == sleeping[c]
           W == joiners[c][x] \cup {t}
           r == Plus(rqLen[c], -1)
<1>1. /\ op[c].pc = "join" /\ BlockAndSwitch(c, ready[c], s, due, r)
      /\ joiners' = [joiners EXCEPT ![c][x] = W]
      /\ UNCHANGED <<making, inbox>>
  BY Types DEF JoinBlock
<1>2. /\ sleeping \in [Core -> SUBSET Thread] /\ joiners \in [Core -> [Thread -> SUBSET Thread]]
      /\ x \in Thread /\ t \in Thread
  <2>1. t # Idle
    BY <1>1, Zenon DEF IInv, FreshIsNowhere
  <2> QED
    BY <2>1, Types, Zenon DEF Op
<1>3. RunsOn(c) = {t}
  BY <1>1, <1>2, RunsFacts, ThreadAssumption, Zenon
<1>4. s \in SUBSET Thread /\ W \in SUBSET Thread
  BY <1>2
<1>5. s \cup W = sleeping[c] \cup joiners[c][x] \cup RunsOn(c)
  BY <1>3
<1>6. s \cap W = {}
  <2>1. held[Runs(c)] = {t} /\ Runs(c) \in Holder
    BY <1>3, HeldIs, Zenon
  <2>2. held[Bed(c)] = s /\ Bed(c) \in Holder
    BY HeldIs, Zenon
  <2>3. held[Wait(c, x)] = joiners[c][x] /\ Wait(c, x) \in Holder
    BY <1>2, HeldIs, Zenon
  <2>4. Runs(c) # Bed(c) /\ Bed(c) # Wait(c, x)
    BY <1>2, HoldersDiffer, Zenon
  <2>5. \A i, j \in Holder : i # j => held[i] \cap held[j] = {}
    BY HeldIs, Zenon DEF Placed, Disjoint
  <2>6. {t} \cap s = {}
    BY <2>1, <2>2, <2>4, <2>5, Zenon
  <2>7. s \cap joiners[c][x] = {}
    BY <2>2, <2>3, <2>4, <2>5, Zenon
  <2> QED
    BY <2>6, <2>7, Zenon
<1> HIDE DEF s, W, x, t, r
<1> QED
  BY <1>1, <1>2, <1>4, <1>5, <1>6, BlockPlaced, Zenon

\* The end of exit().
LEMMA ExitSwitchPlaced ==
  ASSUME IInv, Placed, NEW c \in Core, ExitSwitch(c)
  PROVE  Placed' /\ AllOf(held') = AllOf(held)
<1> DEFINE s == sleeping[c]
           W == joiners[c][Boot]
           r == Plus(rqLen[c], -1)
<1>1. /\ op[c].cont = "exit" /\ BlockAndSwitch(c, ready[c], s, due, r)
      /\ UNCHANGED <<making, joiners, inbox>>
  BY DEF ExitSwitch
<1>2. /\ sleeping \in [Core -> SUBSET Thread] /\ joiners \in [Core -> [Thread -> SUBSET Thread]]
      /\ Boot \in Thread
  BY Types, ThreadAssumption, Zenon
<1>3. RunsOn(c) = {}
  BY <1>1, RunsFacts, Zenon
<1>4. s \in SUBSET Thread /\ W \in SUBSET Thread
  BY <1>2, Zenon
<1>5. joiners' = [joiners EXCEPT ![c][Boot] = W]
  BY <1>1, <1>2
<1>6. s \cup W = sleeping[c] \cup joiners[c][Boot] \cup RunsOn(c)
  BY <1>3, Zenon
<1>7. s \cap W = {}
  <2>1. /\ held[Bed(c)] = s /\ held[Wait(c, Boot)] = W
        /\ {Bed(c), Wait(c, Boot)} \subseteq Holder
    BY <1>2, HeldIs
  <2>2. Bed(c) # Wait(c, Boot)
    BY HoldersDiffer, ThreadAssumption
  <2> QED
    BY <2>1, <2>2, HeldIs, Zenon DEF Placed, Disjoint
<1> HIDE DEF s, W, r
<1> QED
  BY <1>1, <1>2, <1>4, <1>5, <1>6, <1>7, BlockPlaced, Zenon

\* The end of a drain inside block_and_switch.
LEMMA BlockSwitchPlaced ==
  ASSUME IInv, Placed, NEW c \in Core, BlockSwitch(c)
  PROVE  Placed' /\ AllOf(held') = AllOf(held)
<1> DEFINE q == ready[c]
           h == Head(q)
           X == {Runs(c), Queue(c)}
<1>1. /\ op[c].cont = "block"
      /\ current' = [current EXCEPT ![c] = IF q = <<>> THEN Idle ELSE h]
      /\ ready' = [ready EXCEPT ![c] = IF q = <<>> THEN q ELSE Tail(q)]
      /\ op' = [op EXCEPT ![c] = Unlocked]
      /\ UNCHANGED <<making, sleeping, joiners, inbox>>
  BY Types DEF BlockSwitch, Drained
<1>2. /\ current \in [Core -> Thread \cup {Idle}] /\ ready \in [Core -> Seq(Thread)]
      /\ op \in [Core -> Op] /\ q \in Seq(Thread) /\ IsInjective(q)
  BY Types DEF Placed, Orderly
<1>3. RunsOn(c) = {}
  BY <1>1, RunsFacts
<1>4. /\ X \in SUBSET Holder /\ held[Runs(c)] = {} /\ held[Queue(c)] = Range(q)
  BY <1>3, HeldIs, Zenon
<1>5. op'[c] = Unlocked /\ \A e \in Core \ {c} : op'[e] = op[e] /\ current'[e] = current[e]
  BY <1>1, <1>2
<1>6. \A e \in Core \ {c} : RunsOn(e)' = RunsOn(e)
  BY <1>5 DEF RunsOn, Departed
<1>7. Same(X)
  <2>1. \A e \in Core : Runs(e) \in X \/ RunsOn(e)' = RunsOn(e)
    BY <1>6
  <2>2. \A e \in Core : Queue(e) \in X \/ Range(ready'[e]) = Range(ready[e])
    BY <1>1, <1>2
  <2> HIDE DEF X
  <2> QED
    BY <1>1, <1>4, <2>1, <2>2, FrameSame
<1>8. /\ held'[Runs(c)] \cup held'[Queue(c)] = Range(q)
      /\ held'[Runs(c)] \cap held'[Queue(c)] = {}
      /\ IsInjective(ready'[c])
  <2>1. CASE q = <<>>
    <3>1. current'[c] = Idle /\ ready'[c] = q
      BY <1>1, <1>2, <2>1
    <3>2. RunsOn(c)' = {}
      BY <3>1 DEF RunsOn
    <3> QED
      BY <1>2, <3>1, <3>2, HeldWillBe, Zenon
  <2>2. CASE q # <<>>
    <3>1. current'[c] = h /\ ready'[c] = Tail(q)
      BY <1>1, <1>2, <2>2
    <3>2. /\ Range(q) = Range(Tail(q)) \cup {h} /\ h \notin Range(Tail(q))
          /\ IsInjective(Tail(q)) /\ h \in Thread
      BY <1>2, <2>2, TailOnce, TailIs, Zenon
    <3>3. RunsOn(c)' = {h}
      BY <1>5, <3>1, <3>2, UnlockedIs, ThreadAssumption DEF RunsOn, Departed
    <3>4. held'[Runs(c)] = {h} /\ held'[Queue(c)] = Range(Tail(q))
      BY <3>1, <3>3, HeldWillBe, ZenonT(30)
    <3> QED
      BY <3>1, <3>2, <3>4, Zenon
  <2> QED
    BY <2>1, <2>2, Zenon
<1>9. Disjoint(held') /\ AllOf(held') = AllOf(held)
  <2>1. \A i \in X : \A y \in held'[i] : \E j \in X : y \in held[j]
    BY <1>4, <1>8, Zenon
  <2>2. \A i \in X : \A y \in held[i] : \E j \in X : y \in held'[j]
    BY <1>4, <1>8, Zenon
  <2>3. \A i, j \in X : i # j => held'[i] \cap held'[j] = {}
    BY <1>8, Zenon
  <2>4. Disjoint(held)
    BY DEF Placed
  <2>5. \A i \in Holder \ X : held'[i] = held[i]
    BY <1>7 DEF Same
  <2> HIDE DEF X
  <2> QED
    BY <1>4, <2>1, <2>2, <2>3, <2>4, <2>5, Rearranged, Kept, Zenon
<1>10. Orderly'
  BY <1>1, <1>2, <1>5, <1>8, UnlockedIs, ZenonT(30) DEF Placed, Orderly
<1> QED
  BY <1>9, <1>10 DEF Placed

\* What balance_once takes from the queue of c is what may reach the inbox of d.
LEMMA RebalancePlaced ==
  ASSUME IInv, Placed, NEW c \in Core, NEW d \in Core, Rebalance(c, d)
  PROVE  LET q == Oldest(ready[c], Moves(c, d))
             N == Range(Newest(ready[c], Moves(c, d)))
         IN  /\ q \in Seq(Thread) /\ IsInjective(q)
             /\ Range(ready[c]) = Range(q) \cup N /\ Range(q) \cap N = {}
             /\ Carried(inbox'[d]) \subseteq Carried(inbox[d]) \cup N
             /\ Moves(c, d) <= InboxCap - Len(inbox[d]) => Carried(inbox'[d]) = Carried(inbox[d]) \cup N
             /\ \A e \in Core : e = d \/ Carried(inbox'[e]) = Carried(inbox[e])
             /\ \A e \in Core : CarriedOnce(inbox'[e])
             /\ op[c].pc = "drain" /\ op[c].cont = "tick"
             /\ op'[c] = Unlocked /\ \A e \in Core \ {c} : op'[e] = op[e]
             /\ UNCHANGED <<making, sleeping, joiners>>
<1> DEFINE k == Moves(c, d)
           q == Oldest(ready[c], k)
           N == Range(Newest(ready[c], k))
           s == Sent(c, d)
<1>1. /\ ready[c] \in Seq(Thread) /\ IsInjective(ready[c])
      /\ inbox \in [Core -> Seq(Message)] /\ CarriedOnce(inbox[d])
      /\ op \in [Core -> Op]
  BY Types DEF Placed, Orderly
<1>2. k \in 0 .. Len(ready[c])
  <2>1. rqLen \in [Core -> Int] /\ Len(ready[c]) \in Nat
    BY Types, CoreFacts, BoundAssumption, Zenon
  <2> QED
    BY <2>1, MovesType
<1>3. /\ q \in Seq(Thread) /\ IsInjective(q)
      /\ Range(ready[c]) = Range(q) \cup N /\ Range(q) \cap N = {}
  <2>1. q \in Seq(Thread)
    BY <1>1, <1>2, SplitType
  <2> QED
    BY <1>1, <1>2, <2>1, SplitOnce
<1>4. /\ s \in Seq(Message) /\ Carried(s) \subseteq N /\ CarriedOnce(s)
      /\ k <= InboxCap - Len(inbox[d]) => Carried(s) = N
  BY <1>1, SentOnce
<1>5. Carried(inbox[d]) \cap N = {}
  <2>1. held[Queue(c)] = Range(ready[c]) /\ held[Post(d)] = Carried(inbox[d])
    BY HeldIs, Zenon
  <2>2. Queue(c) # Post(d)
    BY HoldersDiffer, Zenon
  <2>3. held[Queue(c)] \cap held[Post(d)] = {}
    BY <2>2, HeldIs, Zenon DEF Placed, Disjoint
  <2> QED
    BY <1>3, <2>1, <2>3, Zenon
<1>6. /\ inbox' = [inbox EXCEPT ![d] = inbox[d] \o s]
      /\ op[c].pc = "drain" /\ op[c].cont = "tick"
      /\ op' = [op EXCEPT ![c] = Unlocked]
      /\ UNCHANGED <<making, sleeping, joiners>>
  BY Zenon DEF Rebalance, Drained
<1>7. Carried(inbox[d] \o s) = Carried(inbox[d]) \cup Carried(s) /\ CarriedOnce(inbox[d] \o s)
  <2> HIDE DEF s
  <2>1. Carried(inbox[d]) \cap Carried(s) = {} /\ inbox[d] \in Seq(Message)
    BY <1>1, <1>4, <1>5
  <2> QED
    BY <1>1, <1>4, <2>1, AddOnce
<1>8. inbox'[d] = inbox[d] \o s /\ \A e \in Core : e = d \/ inbox'[e] = inbox[e]
  BY <1>1, <1>6
<1>9. op'[c] = Unlocked /\ \A e \in Core \ {c} : op'[e] = op[e]
  BY <1>1, <1>6
<1>10. \A e \in Core : CarriedOnce(inbox'[e])
  BY <1>7, <1>8, Zenon DEF Placed, Orderly
<1> HIDE DEF k, q, N, s
<1>11. /\ Carried(inbox'[d]) \subseteq Carried(inbox[d]) \cup N
       /\ k <= InboxCap - Len(inbox[d]) => Carried(inbox'[d]) = Carried(inbox[d]) \cup N
       /\ \A e \in Core : e = d \/ Carried(inbox'[e]) = Carried(inbox[e])
  BY <1>4, <1>7, <1>8, Zenon
<1> QED
  BY <1>3, <1>6, <1>9, <1>10, <1>11, Zenon DEF k, q, N

\* The timer's switch: threads may migrate, the running one goes to the back.
LEMMA TickSwitchPlaced ==
  ASSUME IInv, Placed, NEW c \in Core, NEW d \in Core, TickSwitch(c, d)
  PROVE  /\ Placed' /\ AllOf(held') \subseteq AllOf(held)
         /\ Moves(c, d) <= InboxCap - Len(inbox[d]) => AllOf(held') = AllOf(held)
<1> DEFINE q == Oldest(ready[c], Moves(c, d))
           N == Range(Newest(ready[c], Moves(c, d)))
           A == RunsOn(c)
           back == IF current[c] = Idle THEN <<>> ELSE <<current[c]>>
           X == {Runs(c), Queue(c), Post(d)}
           roomy == Moves(c, d) <= InboxCap - Len(inbox[d])
<1>1. Rebalance(c, d)
  BY DEF TickSwitch
<1>2. /\ q \in Seq(Thread) /\ IsInjective(q)
      /\ Range(ready[c]) = Range(q) \cup N /\ Range(q) \cap N = {}
      /\ Carried(inbox'[d]) \subseteq Carried(inbox[d]) \cup N
      /\ roomy => Carried(inbox'[d]) = Carried(inbox[d]) \cup N
      /\ \A e \in Core : e = d \/ Carried(inbox'[e]) = Carried(inbox[e])
      /\ \A e \in Core : CarriedOnce(inbox'[e])
      /\ op[c].pc = "drain" /\ op[c].cont = "tick"
      /\ op'[c] = Unlocked /\ \A e \in Core \ {c} : op'[e] = op[e]
      /\ UNCHANGED <<making, sleeping, joiners>>
  BY <1>1, RebalancePlaced, Zenon
<1>3. /\ current' = [current EXCEPT ![c] = IF q = <<>> THEN Idle ELSE Head(q)]
      /\ ready' = [ready EXCEPT ![c] = IF q = <<>> THEN back ELSE Tail(q) \o back]
  BY DEF TickSwitch
<1> HIDE DEF q, N, roomy
<1>4. /\ current \in [Core -> Thread \cup {Idle}] /\ ready \in [Core -> Seq(Thread)]
      /\ A = {current[c]} \ {Idle} /\ back \in Seq(Thread)
      /\ A = Range(back) /\ IsInjective(back)
  <2>1. current \in [Core -> Thread \cup {Idle}] /\ ready \in [Core -> Seq(Thread)]
    BY Types
  <2>2. A = {current[c]} \ {Idle}
    BY <1>2, RunsFacts, Zenon
  <2>3. CASE current[c] = Idle
    BY <2>1, <2>2, <2>3 DEF Range, IsInjective
  <2>4. CASE current[c] # Idle
    <3>1. current[c] \in Thread /\ back = <<current[c]>>
      BY <2>1, <2>4
    <3>2. back \in Seq(Thread) /\ DOMAIN back = {1} /\ back[1] = current[c]
      BY <3>1
    <3> QED
      BY <2>1, <2>2, <2>4, <3>2 DEF Range, IsInjective
  <2> QED
    BY <2>1, <2>3, <2>4, Zenon
<1> HIDE DEF back
<1>5. /\ X \in SUBSET Holder /\ held[Runs(c)] = A /\ held[Queue(c)] = Range(q) \cup N
      /\ held[Post(d)] = Carried(inbox[d]) /\ held'[Post(d)] = Carried(inbox'[d])
  <2>1. X \in SUBSET Holder
    BY HeldIs, Zenon
  <2>2. held[Runs(c)] = A /\ held[Queue(c)] = Range(q) \cup N
    BY <1>2, HeldIs, Zenon
  <2>3. held[Post(d)] = Carried(inbox[d]) /\ held'[Post(d)] = Carried(inbox'[d])
    BY HeldIs, HeldWillBe, Zenon
  <2> QED
    BY <2>1, <2>2, <2>3, Zenon
<1>6. Runs(c) # Queue(c) /\ Runs(c) # Post(d) /\ Queue(c) # Post(d)
  BY HoldersDiffer, Zenon
<1>7. /\ A \cap (Range(q) \cup N) = {} /\ A \cap Carried(inbox[d]) = {}
      /\ Carried(inbox[d]) \cap (Range(q) \cup N) = {}
  <2>1. Disjoint(held)
    BY DEF Placed
  <2> QED
    BY <1>5, <1>6, <2>1, HeldIs, ZenonT(30) DEF Disjoint
<1>8. \A e \in Core \ {c} : RunsOn(e)' = RunsOn(e)
  <2>1. \A e \in Core \ {c} : current'[e] = current[e] /\ op'[e] = op[e]
    BY <1>2, <1>3, <1>4, Zenon
  <2> QED
    BY <2>1, Zenon DEF RunsOn, Departed
<1>9. Same(X)
  <2>1. \A e \in Core : Runs(e) \in X \/ RunsOn(e)' = RunsOn(e)
    BY <1>8
  <2>2. \A e \in Core : Queue(e) \in X \/ Range(ready'[e]) = Range(ready[e])
    BY <1>3, <1>4, Zenon
  <2>3. \A e \in Core : Post(e) \in X \/ Carried(inbox'[e]) = Carried(inbox[e])
    BY <1>2, Zenon
  <2> HIDE DEF X
  <2> QED
    BY <1>2, <1>5, <2>1, <2>2, <2>3, FrameSame, Zenon
<1>10. /\ held'[Runs(c)] \cup held'[Queue(c)] = Range(q) \cup A
       /\ held'[Runs(c)] \cap held'[Queue(c)] = {}
       /\ IsInjective(ready'[c])
  <2>1. CASE q = <<>>
    <3>1. current'[c] = Idle /\ ready'[c] = back
      BY <1>3, <1>4, <2>1
    <3>2. RunsOn(c)' = {} /\ Range(q) = {}
      <4>1. RunsOn(c)' = {}
        BY <3>1, Zenon DEF RunsOn
      <4>2. Range(<<>>) = {}
        BY DEF Range
      <4> QED
        BY <2>1, <4>1, <4>2, Zenon
    <3> QED
      BY <1>4, <3>1, <3>2, HeldWillBe, ZenonT(30)
  <2>2. CASE q # <<>>
    <3>1. current'[c] = Head(q) /\ ready'[c] = Tail(q) \o back
      BY <1>3, <1>4, <2>2
    <3>2. /\ Range(q) = Range(Tail(q)) \cup {Head(q)} /\ Head(q) \notin Range(Tail(q))
          /\ IsInjective(Tail(q)) /\ Head(q) \in Thread /\ Tail(q) \in Seq(Thread)
      BY <1>2, <2>2, TailOnce, TailIs, ZenonT(30)
    <3>3. RunsOn(c)' = {Head(q)}
      BY <1>2, <3>1, <3>2, UnlockedIs, ThreadAssumption, Zenon DEF RunsOn, Departed
    <3>4. Range(Tail(q)) \cap Range(back) = {} /\ Head(q) \notin A
      BY <1>4, <1>7, <3>2
    <3>5. Range(Tail(q) \o back) = Range(Tail(q)) \cup A /\ IsInjective(Tail(q) \o back)
      <4> DEFINE b == Tail(q)
      <4>1. b \in Seq(Thread) /\ IsInjective(b) /\ Range(b) \cap Range(back) = {}
        BY <3>2, <3>4
      <4> HIDE DEF b
      <4>2. Range(b \o back) = Range(b) \cup Range(back) /\ IsInjective(b \o back)
        BY <1>4, <4>1, JoinOnce
      <4> QED
        BY <1>4, <4>2 DEF b
    <3>6. held'[Runs(c)] = {Head(q)} /\ held'[Queue(c)] = Range(Tail(q)) \cup A
      BY <3>1, <3>3, <3>5, HeldWillBe, Zenon
    <3> QED
      BY <3>1, <3>2, <3>4, <3>5, <3>6, Zenon
  <2> QED
    BY <2>1, <2>2, Zenon
<1>11. Disjoint(held') /\ AllOf(held') \subseteq AllOf(held) /\ (roomy => AllOf(held') = AllOf(held))
  <2>1. \A i \in X : \A y \in held'[i] : \E j \in X : y \in held[j]
    <3>1. ASSUME NEW y, y \in Range(q) \cup A \cup Carried(inbox'[d]) PROVE \E j \in X : y \in held[j]
      BY <1>2, <1>5, <3>1, Zenon
    <3>2. ASSUME NEW i \in X, NEW y \in held'[i] PROVE y \in Range(q) \cup A \cup Carried(inbox'[d])
      BY <1>5, <1>10, <3>2, Zenon
    <3> QED
      BY <3>1, <3>2, Zenon
  <2>2. ASSUME roomy PROVE \A i \in X : \A y \in held[i] : \E j \in X : y \in held'[j]
    <3>1. ASSUME NEW y, y \in Range(q) \cup A \cup Carried(inbox'[d]) PROVE \E j \in X : y \in held'[j]
      BY <1>5, <1>10, <3>1, Zenon
    <3>2. ASSUME NEW i \in X, NEW y \in held[i] PROVE y \in Range(q) \cup A \cup Carried(inbox'[d])
      BY <1>2, <1>5, <2>2, <3>2, ZenonT(30)
    <3> QED
      BY <3>1, <3>2, Zenon
  <2>3. \A i, j \in X : i # j => held'[i] \cap held'[j] = {}
    <3>1. (Range(q) \cup A) \cap Carried(inbox'[d]) = {}
      BY <1>2, <1>7, Zenon
    <3>3. held'[Runs(c)] \cap held'[Post(d)] = {} /\ held'[Queue(c)] \cap held'[Post(d)] = {}
      BY <1>5, <1>10, <3>1, Zenon
    <3>4. held'[Post(d)] \cap held'[Runs(c)] = {} /\ held'[Post(d)] \cap held'[Queue(c)] = {}
      BY <3>3, Zenon
    <3>5. held'[Queue(c)] \cap held'[Runs(c)] = {}
      BY <1>10, Zenon
    <3>6. ASSUME NEW i \in X, NEW j \in X, i # j PROVE held'[i] \cap held'[j] = {}
      <4>1. CASE i = Runs(c)
        BY <1>10, <3>3, <3>6, <4>1, Zenon
      <4>2. CASE i = Queue(c)
        BY <3>3, <3>5, <3>6, <4>2, Zenon
      <4>3. CASE i = Post(d)
        BY <3>4, <3>6, <4>3, Zenon
      <4> QED
        BY <4>1, <4>2, <4>3, Zenon
    <3> QED
      BY <3>6, Zenon
  <2>4. Disjoint(held)
    BY DEF Placed
  <2>5. \A i \in Holder \ X : held'[i] = held[i]
    BY <1>9, Zenon DEF Same
  <2> HIDE DEF X
  <2> QED
    BY <1>5, <2>1, <2>2, <2>3, <2>4, <2>5, Rearranged, NoneAdded, Kept, Zenon
<1>12. Orderly'
  BY <1>2, <1>3, <1>4, <1>10, UnlockedIs, Zenon DEF Placed, Orderly
<1> QED
  BY <1>11, <1>12 DEF Placed, roomy

\* ... and without the switch.
LEMMA TickSkipPlaced ==
  ASSUME IInv, Placed, NEW c \in Core, NEW d \in Core, TickSkip(c, d)
  PROVE  /\ Placed' /\ AllOf(held') \subseteq AllOf(held)
         /\ Moves(c, d) <= InboxCap - Len(inbox[d]) => AllOf(held') = AllOf(held)
<1> DEFINE q == Oldest(ready[c], Moves(c, d))
           N == Range(Newest(ready[c], Moves(c, d)))
           X == {Queue(c), Post(d)}
           roomy == Moves(c, d) <= InboxCap - Len(inbox[d])
<1>1. Rebalance(c, d)
  BY DEF TickSkip
<1>2. /\ q \in Seq(Thread) /\ IsInjective(q)
      /\ Range(ready[c]) = Range(q) \cup N /\ Range(q) \cap N = {}
      /\ Carried(inbox'[d]) \subseteq Carried(inbox[d]) \cup N
      /\ roomy => Carried(inbox'[d]) = Carried(inbox[d]) \cup N
      /\ \A e \in Core : e = d \/ Carried(inbox'[e]) = Carried(inbox[e])
      /\ \A e \in Core : CarriedOnce(inbox'[e])
      /\ op[c].pc = "drain" /\ op[c].cont = "tick"
      /\ op'[c] = Unlocked /\ \A e \in Core \ {c} : op'[e] = op[e]
      /\ UNCHANGED <<making, sleeping, joiners>>
  BY <1>1, RebalancePlaced, Zenon
<1>3. current' = current /\ ready' = [ready EXCEPT ![c] = q]
  BY Types DEF TickSkip
<1> HIDE DEF q, N, roomy
<1>4. ready \in [Core -> Seq(Thread)]
  BY Types
<1>5. \A e \in Core : RunsOn(e)' = RunsOn(e)
  BY <1>2, <1>3, UnlockedIs, Zenon DEF RunsOn, Departed
<1>6. Same(X)
  <2>1. X \in SUBSET Holder
    BY HeldIs, Zenon
  <2>2. \A e \in Core : Queue(e) \in X \/ Range(ready'[e]) = Range(ready[e])
    BY <1>3, <1>4
  <2>3. \A e \in Core : Post(e) \in X \/ Carried(inbox'[e]) = Carried(inbox[e])
    BY <1>2, Zenon
  <2> HIDE DEF X
  <2> QED
    BY <1>2, <1>5, <2>1, <2>2, <2>3, FrameSame, Zenon
<1>7. Queue(c) # Post(d) /\ X \in SUBSET Holder
  <2>1. Queue(c) # Post(d)
    BY HoldersDiffer
  <2> QED
    BY <2>1, HeldIs, Zenon
<1>8. /\ held[Queue(c)] = Range(q) \cup N /\ held'[Queue(c)] = Range(q)
      /\ held[Post(d)] = Carried(inbox[d]) /\ held'[Post(d)] = Carried(inbox'[d])
  BY <1>2, <1>3, <1>4, HeldIs, HeldWillBe, Zenon
<1>9. MayGo(Queue(c), Post(d), N) /\ (roomy => Goes(Queue(c), Post(d), N))
  BY <1>2, <1>7, <1>8, Zenon DEF MayGo, Goes
<1>10. Disjoint(held) /\ Below({Queue(c), Post(d)})
  BY <1>6, Zenon DEF Placed, Same, Below
<1>11. Disjoint(held') /\ AllOf(held') \subseteq AllOf(held)
  BY <1>9, <1>10, MayGoApart
<1>12. ASSUME roomy PROVE AllOf(held') = AllOf(held)
  BY <1>6, <1>9, <1>10, <1>12, GoesKeeps
<1>13. Orderly'
  BY <1>2, <1>3, <1>4, UnlockedIs, Zenon DEF Placed, Orderly
<1> QED
  BY <1>11, <1>12, <1>13 DEF Placed, roomy

\* The steps that move no thread.
LEMMA QuietPlaced ==
  ASSUME IInv, Placed, NEW c \in Core,
         \/ \E t, u \in Thread : JoinCheck(c, t, u)
         \/ KillDone(c)
         \/ \E t \in Thread : DrainKillDead(c, t) \/ DrainKillCurrent(c, t) \/ DrainKillHangs(c, t)
         \/ \E d \in Core : LookForOverloaded(c, d)
         \/ \E t \in Thread : Expire(t)
         \/ UNCHANGED vars
  PROVE  Placed' /\ AllOf(held') = AllOf(held)
<1>1. op \in [Core -> Op]
  BY Types
<1>2. \A e \in Core : CarriedOnce(inbox[e]) /\ ContOf(op[e]) /\ op[e] \in Op
  BY <1>1, Zenon DEF Placed, Orderly
<1>3. UNCHANGED <<making, current, ready, joiners, sleeping>>
  BY DEF JoinCheck, KillDone, DrainKillDead, DrainKillCurrent, DrainKillHangs,
         LookForOverloaded, Expire, vars
<1>4. \A e \in Core : Carried(inbox'[e]) = Carried(inbox[e]) /\ CarriedOnce(inbox'[e])
  <2>1. CASE inbox' = inbox
    BY <1>2, <2>1, Zenon
  <2>2. CASE \E t \in Thread : DrainKillDead(c, t) \/ DrainKillCurrent(c, t) \/ DrainKillHangs(c, t)
    <3>1. PICK t \in Thread : Receives(c, "Kill", t) /\ inbox' = [inbox EXCEPT ![c] = Tail(@)]
      BY <2>2 DEF DrainKillDead, DrainKillCurrent, DrainKillHangs
    <3> QED
      BY <3>1, CommandTaken, Zenon
  <2> QED
    BY <2>1, <2>2 DEF JoinCheck, KillDone, LookForOverloaded, Expire, vars
<1>5. \A e \in Core : op'[e].cont = op[e].cont /\ ContOf(op'[e])
  <2>1. CASE op' = op
    BY <1>2, <2>1, Zenon
  <2>2. CASE \E t, u \in Thread : JoinCheck(c, t, u)
    <3>1. PICK u \in Thread : op[c].pc = "run" /\ op' = [op EXCEPT ![c].pc = "join", ![c].tid = u]
      BY <2>2, Zenon DEF JoinCheck, Executing
    <3> QED
      BY <1>1, <1>2, <3>1 DEF Op, ContOf
  <2>3. CASE KillDone(c)
    <3>1. /\ op[c].cont # "exit"
          /\ op' = [op EXCEPT ![c] = IF op[c].cont = "run" THEN Unlocked
                                     ELSE [op[c] EXCEPT !.pc = "drain"]]
      BY <1>1, <2>3 DEF KillDone
    <3>2. op[c].cont = "run" => op'[c] = Unlocked
      BY <1>1, <3>1
    <3>3. op[c].cont # "run" => op'[c].cont = op[c].cont /\ op[c].cont \in {"tick", "block"}
      BY <1>1, <3>1 DEF Op
    <3>4. \A e \in Core \ {c} : op'[e] = op[e]
      BY <1>1, <3>1
    <3>5. op[c].cont # "run" => ContOf(op'[c])
      BY <1>1, <3>1, <3>3 DEF ContOf, Op
    <3> QED
      BY <1>2, <3>2, <3>3, <3>4, <3>5, UnlockedIs, Zenon
  <2>4. CASE \E t \in Thread : DrainKillDead(c, t)
    <3>1. op' = [op EXCEPT ![c].n = @ - 1]
      BY <2>4 DEF DrainKillDead
    <3> QED
      BY <1>1, <1>2, <3>1 DEF Op, ContOf
  <2>5. CASE \E t \in Thread : DrainKillCurrent(c, t)
    <3>1. PICK t \in Thread : op' = [op EXCEPT ![c] = Sending([op[c] EXCEPT !.n = @ - 1], "bcast", t, Core)]
      BY <2>5, Zenon DEF DrainKillCurrent
    <3>2. op'[c].pc = "bcast" /\ op'[c].cont = op[c].cont /\ \A e \in Core \ {c} : op'[e] = op[e]
      BY <1>1, <3>1 DEF Op, Sending
    <3> QED
      BY <1>2, <3>2, Zenon DEF ContOf
  <2>6. CASE \E t \in Thread : DrainKillHangs(c, t)
    <3>1. op' = [op EXCEPT ![c].pc = "hung"]
      BY <2>6 DEF DrainKillHangs
    <3> QED
      BY <1>1, <1>2, <3>1 DEF Op, ContOf
  <2> QED
    BY <2>1, <2>2, <2>3, <2>4, <2>5, <2>6, Zenon DEF LookForOverloaded, Expire, vars
<1> QED
  BY <1>3, <1>4, <1>5, NothingMoves, Zenon

\* A broadcast carries no thread.
LEMMA SendPlaced ==
  ASSUME IInv, Placed, NEW c \in Core, Send(c)
  PROVE  Placed' /\ AllOf(held') = AllOf(held)
<1>1. op \in [Core -> Op] /\ inbox \in [Core -> Seq(Message)]
  BY Types
<1>2. \A e \in Core : CarriedOnce(inbox[e]) /\ ContOf(op[e])
  BY DEF Placed, Orderly
<1>3. UNCHANGED <<making, current, ready, joiners, sleeping>> /\ op[c].pc \in {"unjoin", "bcast"}
  BY DEF Send
<1>4. PICK d \in op[c].todo :
         \/ /\ inbox' = [inbox EXCEPT ![d] = Append(@,
                  IF op[c].pc = "unjoin" THEN ExitedMsg(op[c].tid)
                                         ELSE KillMsg(op[c].tid))]
            /\ op' = [op EXCEPT ![c].todo = @ \ {d}]
         \/ /\ op' = [op EXCEPT ![c] = IF op[c].pc = "bcast" /\ d = c
                                       THEN [op[c] EXCEPT !.todo = @ \ {d}]
                                       ELSE [op[c] EXCEPT !.pc = "panic"]]
            /\ UNCHANGED inbox
  BY DEF Send
<1>5. d \in Core /\ op[c].tid \in Thread
  BY <1>1 DEF Op
<1>6. \A e \in Core : Carried(inbox'[e]) = Carried(inbox[e]) /\ CarriedOnce(inbox'[e])
  <2>1. CASE inbox' = inbox
    BY <1>2, <2>1, Zenon
  <2>2. CASE inbox' # inbox
    <3>1. PICK x \in Message : x.type # "Thread" /\ inbox' = [inbox EXCEPT ![d] = Append(@, x)]
      <4>1. /\ ExitedMsg(op[c].tid) \in Message /\ ExitedMsg(op[c].tid).type # "Thread"
            /\ KillMsg(op[c].tid) \in Message /\ KillMsg(op[c].tid).type # "Thread"
        BY <1>5, Zenon DEF ExitedMsg, KillMsg, Message
      <4> QED
        BY <1>4, <2>2, <4>1, Zenon
    <3>2. inbox[d] \in Seq(Message)
      BY <1>1, <1>5, Zenon
    <3>3. Carried(Append(inbox[d], x)) = Carried(inbox[d]) /\ CarriedOnce(Append(inbox[d], x))
      BY <1>2, <1>5, <3>1, <3>2, CommandOnce, Zenon
    <3> QED
      BY <1>1, <1>2, <1>5, <3>1, <3>3, Zenon
  <2> QED
    BY <2>1, <2>2, Zenon
<1>7. \A e \in Core \ {c} : op'[e] = op[e]
  BY <1>1, <1>4
<1>8. op'[c].cont = op[c].cont /\ op'[c].pc \in {op[c].pc, "panic"}
  <2>1. op[c] \in Op
    BY <1>1
  <2>2. CASE op' = [op EXCEPT ![c].todo = @ \ {d}]
    BY <1>1, <2>2 DEF Op
  <2>3. CASE op'[c] = [op[c] EXCEPT !.todo = @ \ {d}] \/ op'[c] = [op[c] EXCEPT !.pc = "panic"]
    BY <2>1, <2>3 DEF Op
  <2> QED
    BY <1>1, <1>4, <2>2, <2>3, Zenon
<1>9. \A e \in Core : op'[e].cont = op[e].cont /\ ContOf(op'[e])
  BY <1>2, <1>3, <1>7, <1>8, Zenon DEF ContOf
<1> QED
  BY <1>3, <1>6, <1>9, NothingMoves, Zenon

\* Every step keeps every thread in at most one place.
LEMMA PlacedStep ==
  ASSUME IInv, Placed, [Next]_vars
  PROVE  Placed'
<1>1. ASSUME NEW c \in Core, NEW t \in Thread, ThreadOp(c, t) PROVE Placed'
  <2>1. ASSUME NEW u \in Thread, Spawn(c, t, u) PROVE Placed'
    BY <2>1, SpawnPlaced
  <2>2. ASSUME NEW u \in Thread, SpawnReady(c, t, u) PROVE Placed'
    BY <2>2, SpawnReadyPlaced
  <2>3. ASSUME NEW u \in Thread, JoinCheck(c, t, u) PROVE Placed'
    BY <2>3, QuietPlaced
  <2>4. ASSUME NEW u \in Thread, Kill(c, t, u) PROVE Placed'
    BY <2>4, KillPlaced
  <2>5. ASSUME NEW now \in BOOLEAN, Sleep(c, t, now) PROVE Placed'
    BY <2>5, SleepPlaced
  <2>6. CASE Exit(c, t)
    BY <2>6, ExitPlaced
  <2>7. CASE Yield(c, t)
    BY <2>7, YieldPlaced
  <2> QED
    BY <1>1, <2>1, <2>2, <2>3, <2>4, <2>5, <2>6, <2>7 DEF ThreadOp
<1>2. ASSUME NEW c \in Core, DrainOne(c) PROVE Placed'
  <2>1. ASSUME NEW t \in Thread, DrainThread(c, t) PROVE Placed'
    BY <2>1, DrainThreadPlaced
  <2>2. ASSUME NEW t \in Thread, DrainExited(c, t) PROVE Placed'
    BY <2>2, DrainExitedPlaced
  <2>3. ASSUME NEW t \in Thread, DrainKill(c, t) PROVE Placed'
    BY <2>3, DrainKillPlaced
  <2>4. ASSUME NEW t \in Thread, DrainKillDead(c, t) \/ DrainKillCurrent(c, t) \/ DrainKillHangs(c, t)
        PROVE  Placed'
    BY <2>4, QuietPlaced
  <2> QED
    BY <1>2, <2>1, <2>2, <2>3, <2>4 DEF DrainOne
<1>3. ASSUME NEW c \in Core, Locked(c) PROVE Placed'
  <2>1. CASE JoinBlock(c)
    BY <2>1, JoinBlockPlaced
  <2>2. CASE Send(c)
    BY <2>2, SendPlaced
  <2>3. CASE ExitSwitch(c)
    BY <2>3, ExitSwitchPlaced
  <2>4. CASE KillDone(c)
    BY <2>4, QuietPlaced
  <2>5. CASE DrainOne(c)
    BY <1>2, <2>5
  <2>6. CASE BlockSwitch(c)
    BY <2>6, BlockSwitchPlaced
  <2>7. ASSUME NEW d \in Core, TickSwitch(c, d) PROVE Placed'
    BY <2>7, TickSwitchPlaced
  <2>8. ASSUME NEW d \in Core, TickSkip(c, d) PROVE Placed'
    BY <2>8, TickSkipPlaced
  <2> QED
    BY <1>3, <2>1, <2>2, <2>3, <2>4, <2>5, <2>6, <2>7, <2>8 DEF Locked
<1>4. ASSUME NEW c \in Core, Tick(c) PROVE Placed'
  BY <1>4, TickPlaced
<1>5. ASSUME NEW c \in Core, NEW d \in Core, LookForOverloaded(c, d) PROVE Placed'
  BY <1>5, QuietPlaced
<1>6. 0 \in Core
  BY CoresAssumption DEF Core
<1>7. ASSUME (\E t \in Thread : Expire(t)) \/ UNCHANGED vars PROVE Placed'
  BY <1>6, <1>7, QuietPlaced, Zenon
<1> QED
  BY <1>1, <1>3, <1>4, <1>5, <1>7 DEF Next

\* At the start only Boot is held, by core 0.
LEMMA InitPlaced == ASSUME Init PROVE Placed /\ AllOf(held) = alive
<1>1. /\ \A x \in Thread : held[MadeBy(x)] = {}
      /\ \A c \in Core : held[Queue(c)] = {} /\ held[Bed(c)] = {} /\ held[Post(c)] = {}
      /\ \A c \in Core : IsInjective(ready[c]) /\ CarriedOnce(inbox[c])
      /\ \A c \in Core, x \in Thread : held[Wait(c, x)] = {}
  <2>1. /\ \A x \in Thread : making[x] = {}
        /\ \A c \in Core : ready[c] = <<>> /\ sleeping[c] = {} /\ inbox[c] = <<>>
        /\ \A c \in Core, x \in Thread : joiners[c][x] = {}
    BY DEF Init
  <2>2. Range(<<>>) = {} /\ Carried(<<>>) = {} /\ IsInjective(<<>>) /\ CarriedOnce(<<>>)
    BY DEF Range, Carried, IsInjective, CarriedOnce
  <2>3. \A x \in Thread : held[MadeBy(x)] = {}
    BY <2>1, HeldIs, Zenon
  <2>4. ASSUME NEW c \in Core PROVE held[Queue(c)] = {} /\ held[Bed(c)] = {} /\ held[Post(c)] = {}
    <3>1. ready[c] = <<>> /\ sleeping[c] = {} /\ inbox[c] = <<>>
      BY <2>1
    <3>2. /\ held[Queue(c)] = Range(ready[c]) /\ held[Bed(c)] = sleeping[c]
          /\ held[Post(c)] = Carried(inbox[c])
      BY HeldIs, Zenon
    <3> QED
      BY <2>2, <3>1, <3>2
  <2>5. ASSUME NEW c \in Core, NEW x \in Thread PROVE held[Wait(c, x)] = {}
    <3>1. held[Wait(c, x)] = joiners[c][x]
      BY HeldIs, Zenon
    <3> QED
      BY <2>1, <3>1
  <2> QED
    BY <2>1, <2>2, <2>3, <2>4, <2>5, Zenon
<1>2. /\ \A c \in Core : held[Runs(c)] = IF c = 0 THEN {Boot} ELSE {}
      /\ \A c \in Core : ContOf(op[c])
  <2>1. \A c \in Core : current[c] = (IF c = 0 THEN Boot ELSE Idle) /\ op[c] = Unlocked
    BY DEF Init
  <2> QED
    BY <2>1, HeldIs, UnlockedIs, ThreadAssumption, Zenon DEF RunsOn, Departed
<1>3. \A i \in Holder : i # Runs(0) => held[i] = {}
  <2> SUFFICES ASSUME NEW i \in Holder, i # Runs(0) PROVE held[i] = {}
    OBVIOUS
  <2>1. CASE \E x \in Thread : i = MadeBy(x)
    BY <1>1, <2>1, Zenon
  <2>2. CASE \E c \in Core : i = Runs(c)
    BY <1>2, <2>2
  <2>3. CASE \E c \in Core : i = Queue(c) \/ i = Bed(c) \/ i = Post(c)
    BY <1>1, <2>3, Zenon
  <2>4. CASE \E c \in Core, x \in Thread : i = Wait(c, x)
    BY <1>1, <2>4, Zenon
  <2> QED
    BY <2>1, <2>2, <2>3, <2>4, HolderCases
<1>4. Disjoint(held)
  BY <1>3, HeldIs, Zenon DEF Disjoint
<1>5. AllOf(held) = alive
  <2>1. 0 \in Core /\ alive = {Boot}
    BY CoresAssumption DEF Core, Init
  <2>2. Runs(0) \in Holder /\ held[Runs(0)] = {Boot}
    BY <1>2, <2>1, HeldIs, Zenon
  <2>3. \A x : x \in AllOf(held) <=> \E i \in Holder : x \in held[i]
    BY HeldIs, Zenon DEF AllOf
  <2> QED
    BY <1>3, <2>1, <2>2, <2>3, Zenon
<1>6. \A x \in Thread : making[x] = {}
  BY DEF Init
<1> QED
  BY <1>1, <1>2, <1>4, <1>5, <1>6, Zenon DEF Placed, Orderly

\* The place of t in a holder that has it.
Seat(k, t) ==
  CASE k[1] = "made"    -> <<"made", k[2]>>
    [] k[1] = "current" -> <<"current", k[2]>>
    [] k[1] = "ready"   -> <<"ready", k[2], CHOOSE i \in DOMAIN ready[k[2]] : ready[k[2]][i] = t>>
    [] k[1] = "sleep"   -> <<"sleep", k[2]>>
    [] k[1] = "join"    -> <<"join", <<k[2], k[3]>>>>
    [] k[1] = "inbox"   ->
         <<"inbox", k[2], CHOOSE i \in DOMAIN inbox[k[2]] : inbox[k[2]][i] = ThreadMsg(t)>>

\* Every place of t is its seat in a holder that has it ...
LEMMA PlaceIsSeat ==
  ASSUME IInv, Placed, NEW t \in Thread, NEW p \in Places(t)
  PROVE  \E k \in Holder : t \in held[k] /\ p = Seat(k, t)
<1>1. /\ joiners \in [Core -> [Thread -> SUBSET Thread]] /\ Idle \notin Thread
      /\ \A c \in Core : IsInjective(ready[c]) /\ CarriedOnce(inbox[c])
  BY Types, ThreadAssumption DEF Placed, Orderly
<1>2. CASE p \in {<<"made", x>> : x \in {x \in Thread : t \in making[x]}}
  <2>1. PICK x \in Thread : p = <<"made", x>> /\ t \in making[x]
    BY <1>2
  <2>8. MadeBy(x) \in Holder /\ t \in held[MadeBy(x)]
    BY <2>1, HeldIs, Zenon
  <2>7. Seat(MadeBy(x), t) = <<"made", x>>
    BY DEF Seat, MadeBy
  <2>9. p = Seat(MadeBy(x), t)
    BY <2>1, <2>7
  <2> QED
    BY <2>8, <2>9
<1>3. CASE p \in {<<"current", c>> : c \in {c \in Core : current[c] = t /\ ~ Departed(c)}}
  <2>1. PICK c \in Core : p = <<"current", c>> /\ current[c] = t /\ ~ Departed(c)
    BY <1>3
  <2>2. t \in RunsOn(c)
    BY <1>1, <2>1 DEF RunsOn
  <2>8. Runs(c) \in Holder /\ t \in held[Runs(c)]
    BY <2>2, HeldIs, Zenon
  <2>7. Seat(Runs(c), t) = <<"current", c>>
    BY DEF Seat, Runs
  <2>9. p = Seat(Runs(c), t)
    BY <2>1, <2>7
  <2> QED
    BY <2>8, <2>9
<1>4. CASE p \in UNION {{<<"ready", c, i>> : i \in {i \in DOMAIN ready[c] : ready[c][i] = t}} :
                          c \in Core}
  <2>1. PICK c \in Core : \E j \in DOMAIN ready[c] : p = <<"ready", c, j>> /\ ready[c][j] = t
    BY <1>4
  <2>2. PICK i \in DOMAIN ready[c] : p = <<"ready", c, i>> /\ ready[c][i] = t
    BY <2>1
  <2>3. t \in Range(ready[c])
    BY <2>2 DEF Range
  <2>4. i = CHOOSE j \in DOMAIN ready[c] : ready[c][j] = t
    BY <1>1, <2>2 DEF IsInjective
  <2>8. Queue(c) \in Holder /\ t \in held[Queue(c)]
    BY <2>3, HeldIs, Zenon
  <2>7. Seat(Queue(c), t) = <<"ready", c, CHOOSE j \in DOMAIN ready[c] : ready[c][j] = t>>
    BY DEF Seat, Queue
  <2>9. p = Seat(Queue(c), t)
    BY <2>2, <2>4, <2>7
  <2> QED
    BY <2>8, <2>9
<1>5. CASE p \in {<<"sleep", c>> : c \in {c \in Core : t \in sleeping[c]}}
  <2>1. PICK c \in Core : p = <<"sleep", c>> /\ t \in sleeping[c]
    BY <1>5
  <2>8. Bed(c) \in Holder /\ t \in held[Bed(c)]
    BY <2>1, HeldIs, Zenon
  <2>7. Seat(Bed(c), t) = <<"sleep", c>>
    BY DEF Seat, Bed
  <2>9. p = Seat(Bed(c), t)
    BY <2>1, <2>7
  <2> QED
    BY <2>8, <2>9
<1>6. CASE p \in {<<"join", x>> : x \in {x \in Core \X Thread : t \in joiners[x[1]][x[2]]}}
  <2>1. PICK c \in Core, x \in Thread : p = <<"join", <<c, x>>>> /\ t \in joiners[c][x]
    BY <1>6
  <2>8. Wait(c, x) \in Holder /\ t \in held[Wait(c, x)]
    BY <2>1, HeldIs, Zenon
  <2>7. Seat(Wait(c, x), t) = <<"join", <<c, x>>>>
    BY DEF Seat, Wait
  <2>9. p = Seat(Wait(c, x), t)
    BY <2>1, <2>7, Zenon
  <2> QED
    BY <2>8, <2>9
<1>7. CASE p \in UNION {{<<"inbox", c, i>> :
                    i \in {i \in DOMAIN inbox[c] : inbox[c][i] = ThreadMsg(t)}} : c \in Core}
  <2>1. PICK c \in Core : \E j \in DOMAIN inbox[c] : p = <<"inbox", c, j>> /\ inbox[c][j] = ThreadMsg(t)
    BY <1>7, Zenon
  <2>2. PICK i \in DOMAIN inbox[c] : p = <<"inbox", c, i>> /\ inbox[c][i] = ThreadMsg(t)
    BY <2>1
  <2>3. t \in Carried(inbox[c])
    BY <2>2 DEF Carried, Range
  <2>4. i = CHOOSE j \in DOMAIN inbox[c] : inbox[c][j] = ThreadMsg(t)
    <3>1. ThreadMsg(t).type = "Thread"
      BY DEF ThreadMsg
    <3>2. \A j \in DOMAIN inbox[c] : inbox[c][j] = ThreadMsg(t) => j = i
      BY <1>1, <2>2, <3>1, Zenon DEF CarriedOnce
    <3> QED
      BY <2>2, <3>2, Zenon
  <2>8. Post(c) \in Holder /\ t \in held[Post(c)]
    BY <2>3, HeldIs, Zenon
  <2>7. Seat(Post(c), t) = <<"inbox", c, CHOOSE j \in DOMAIN inbox[c] : inbox[c][j] = ThreadMsg(t)>>
    BY DEF Seat, Post
  <2>9. p = Seat(Post(c), t)
    BY <2>2, <2>4, <2>7
  <2> QED
    BY <2>8, <2>9
<1> QED
  BY <1>2, <1>3, <1>4, <1>5, <1>6, <1>7, Zenon DEF Places

\* ... and the seat of t in a holder that has it is a place of t.
LEMMA HeldHasPlace ==
  ASSUME IInv, NEW t \in Thread, NEW k \in Holder, t \in held[k]
  PROVE  Places(t) # {}
<1>1. CASE \E x \in Thread : k = MadeBy(x)
  <2>0. PICK x \in Thread : k = MadeBy(x)
    BY <1>1, Zenon
  <2>1. t \in making[x]
    BY <2>0, HeldIs, Zenon
  <2>2. <<"made", x>> \in Places(t)
    BY <2>1, Zenon DEF Places
  <2> QED
    BY <2>2, Zenon
<1>2. CASE \E c \in Core : k = Runs(c)
  <2>0. PICK c \in Core : k = Runs(c)
    BY <1>2, Zenon
  <2>1. t \in RunsOn(c)
    BY <2>0, HeldIs, Zenon
  <2>2. <<"current", c>> \in Places(t)
    BY <2>1, Zenon DEF Places, RunsOn
  <2> QED
    BY <2>2, Zenon
<1>3. CASE \E c \in Core : k = Queue(c)
  <2>0. PICK c \in Core : k = Queue(c)
    BY <1>3, Zenon
  <2>1. t \in Range(ready[c])
    BY <2>0, HeldIs, Zenon
  <2>2. PICK i \in DOMAIN ready[c] : ready[c][i] = t
    BY <2>1 DEF Range
  <2>3. <<"ready", c, i>> \in Places(t)
    <3>1. <<"ready", c, i>> \in {<<"ready", c, j>> : j \in {j \in DOMAIN ready[c] : ready[c][j] = t}}
      BY <2>2, Zenon
    <3>2. <<"ready", c, i>> \in
            UNION {{<<"ready", e, j>> : j \in {j \in DOMAIN ready[e] : ready[e][j] = t}} : e \in Core}
      BY <3>1, Zenon
    <3> QED
      BY <3>2, Zenon DEF Places
  <2> QED
    BY <2>3, Zenon
<1>4. CASE \E c \in Core : k = Bed(c)
  <2>0. PICK c \in Core : k = Bed(c)
    BY <1>4, Zenon
  <2>1. t \in sleeping[c]
    BY <2>0, HeldIs, Zenon
  <2>2. <<"sleep", c>> \in Places(t)
    BY <2>1, Zenon DEF Places
  <2> QED
    BY <2>2, Zenon
<1>5. CASE \E c \in Core, x \in Thread : k = Wait(c, x)
  <2>0. PICK c \in Core, x \in Thread : k = Wait(c, x)
    BY <1>5, Zenon
  <2>1. t \in joiners[c][x]
    BY <2>0, HeldIs, Zenon
  <2>2. <<"join", <<c, x>>>> \in Places(t)
    BY <2>1, Zenon DEF Places
  <2> QED
    BY <2>2, Zenon
<1>6. CASE \E c \in Core : k = Post(c)
  <2>0. PICK c \in Core : k = Post(c)
    BY <1>6, Zenon
  <2>1. t \in Carried(inbox[c])
    BY <2>0, HeldIs, Zenon
  <2>2. PICK i \in DOMAIN inbox[c] : inbox[c][i] = ThreadMsg(t)
    BY <2>1 DEF Carried, Range
  <2>3. <<"inbox", c, i>> \in Places(t)
    <3>1. <<"inbox", c, i>> \in {<<"inbox", c, j>> : j \in {j \in DOMAIN inbox[c] : inbox[c][j] = ThreadMsg(t)}}
      BY <2>2, Zenon
    <3>2. <<"inbox", c, i>> \in
            UNION {{<<"inbox", e, j>> : j \in {j \in DOMAIN inbox[e] : inbox[e][j] = ThreadMsg(t)}} : e \in Core}
      BY <3>1, Zenon
    <3> QED
      BY <3>2, Zenon DEF Places
  <2> QED
    BY <2>3, Zenon
<1> QED
  BY <1>1, <1>2, <1>3, <1>4, <1>5, <1>6, HolderCases, Zenon

\* Holders without a common thread leave each thread at most one place.
LEMMA PlacedNeverTwice == IInv /\ Placed => NeverTwice
<1> SUFFICES ASSUME IInv, Placed, NEW t \in Thread PROVE \A p, r \in Places(t) : p = r
  BY DEF NeverTwice
<1>1. \A i, k \in Holder : t \in held[i] /\ t \in held[k] => i = k
  BY HeldIs, ZenonT(30) DEF Placed, Disjoint
<1> QED
  BY <1>1, PlaceIsSeat

(***************************************************************************)
(* Who is held, in a step without kill: a spawned thread more, an exiting  *)
(* one less, or the same, unless a migration or an early join loses some.  *)
(***************************************************************************)
Roomy == \A c, d \in Core : Rebalance(c, d) => Moves(c, d) <= InboxCap - Len(inbox[d])

Stays == /\ alive' = alive /\ AllOf(held') \subseteq AllOf(held)
         /\ Roomy /\ Unregistered => AllOf(held') = AllOf(held)

Comes(u) == alive' = alive \cup {u} /\ AllOf(held') = AllOf(held) \cup {u}

Leaves(t) == alive' = alive \ {t} /\ AllOf(held') = AllOf(held) \ {t}

\* Every step leaves who is held alone, or adds or removes the one it makes or ends.
LEMMA Population ==
  ASSUME IInv, Placed, Calm, Killable = {}, [Next]_vars
  PROVE  Stays \/ \E t \in Thread : Comes(t) \/ Leaves(t)
<1>1. ASSUME NEW c \in Core, NEW t \in Thread, ThreadOp(c, t)
      PROVE  Stays \/ \E x \in Thread : Comes(x) \/ Leaves(x)
  <2>1. ASSUME NEW u \in Thread, Spawn(c, t, u) PROVE Comes(u)
    BY <2>1, SpawnPlaced, Zenon DEF Spawn, Comes
  <2>2. ASSUME NEW u \in Thread, SpawnReady(c, t, u) PROVE Stays
    <3>1. alive' = alive /\ (Unregistered => joiners[c][u] = {})
      BY <2>2 DEF SpawnReady, Unregistered
    <3> QED
      BY <2>2, <3>1, SpawnReadyPlaced, Zenon DEF Stays
  <2>3. ASSUME NEW u \in Thread, JoinCheck(c, t, u) PROVE Stays
    BY <2>3, QuietPlaced, Zenon DEF JoinCheck, Stays
  <2>4. ASSUME NEW u \in Thread, Kill(c, t, u) PROVE FALSE
    BY <2>4 DEF Kill
  <2>5. ASSUME NEW now \in BOOLEAN, Sleep(c, t, now) PROVE Stays
    BY <2>5, SleepPlaced, Zenon DEF Sleep, Stays
  <2>6. CASE Exit(c, t)
    BY <2>6, ExitPlaced DEF Exit, Leaves
  <2>7. CASE Yield(c, t)
    BY <2>7, YieldPlaced, Zenon DEF Yield, Stays
  <2> QED
    BY <1>1, <2>1, <2>2, <2>3, <2>4, <2>5, <2>6, <2>7 DEF ThreadOp
<1>2. ASSUME NEW c \in Core, Locked(c) PROVE Stays
  <2>1. CASE JoinBlock(c)
    BY <2>1, JoinBlockPlaced, Zenon DEF JoinBlock, Stays
  <2>2. CASE Send(c)
    BY <2>2, SendPlaced, Zenon DEF Send, Stays
  <2>3. CASE ExitSwitch(c)
    BY <2>3, ExitSwitchPlaced, Zenon DEF ExitSwitch, Stays
  <2>4. CASE KillDone(c)
    BY <2>4, CalmExcludes
  <2>5. CASE DrainOne(c)
    <3>1. PICK t \in Thread : DrainThread(c, t) \/ DrainExited(c, t)
      BY <2>5, CalmExcludes DEF DrainOne
    <3>2. alive' = alive
      BY <3>1 DEF DrainThread, DrainExited
    <3> QED
      BY <3>1, <3>2, DrainThreadPlaced, DrainExitedPlaced, Zenon DEF Stays
  <2>6. CASE BlockSwitch(c)
    BY <2>6, BlockSwitchPlaced, Zenon DEF BlockSwitch, Stays
  <2>7. ASSUME NEW d \in Core, TickSwitch(c, d) \/ TickSkip(c, d) PROVE Stays
    <3>1. Rebalance(c, d)
      BY <2>7 DEF TickSwitch, TickSkip
    <3>2. alive' = alive /\ (Roomy => Moves(c, d) <= InboxCap - Len(inbox[d]))
      BY <3>1, Zenon DEF Rebalance, Roomy
    <3> QED
      BY <2>7, <3>2, TickSwitchPlaced, TickSkipPlaced, Zenon DEF Stays
  <2> QED
    BY <1>2, <2>1, <2>2, <2>3, <2>4, <2>5, <2>6, <2>7 DEF Locked
<1>3. ASSUME NEW c \in Core, Tick(c) PROVE Stays
  BY <1>3, TickPlaced, Zenon DEF Tick, Stays
<1>4. ASSUME NEW c \in Core,
             \/ \E d \in Core : LookForOverloaded(c, d)
             \/ \E t \in Thread : Expire(t)
             \/ UNCHANGED vars
      PROVE  Stays
  <2>1. alive' = alive
    BY <1>4, Zenon DEF LookForOverloaded, Expire, vars
  <2> QED
    BY <1>4, <2>1, QuietPlaced DEF Stays
<1>5. 0 \in Core
  BY CoresAssumption DEF Core
<1> QED
  BY <1>1, <1>2, <1>3, <1>4, <1>5 DEF Next
==============================================================================
