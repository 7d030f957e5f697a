--------------------------- MODULE SchedulerSteps ----------------------------
(***************************************************************************)
(* Every action of Scheduler keeps IInv, releases a joiner only as join    *)
(* allows, and registers nobody with a thread that is still being made.    *)
(***************************************************************************)
EXTENDS SchedulerFacts, TLAPS

\* The invariant holds at the start.
LEMMA InitOK == Init => IInv
<1> SUFFICES ASSUME Init PROVE IInv
  OBVIOUS
<1>1. alive \subseteq Thread /\ fresh \subseteq Thread /\ due \subseteq Thread
  BY ThreadAssumption DEF Init
<1>2. \A c \in Core : Len(inbox[c]) <= InboxCap
  BY BoundAssumption DEF Init
<1>3. Counters
  <2>1. Unlocked \in Op
    BY ThreadAssumption, BoundAssumption DEF Unlocked, Op
  <2>2. 1 % RqWrap \in 0 .. RqWrap - 1 /\ 0 % RqWrap \in 0 .. RqWrap - 1
    BY BoundAssumption
  <2> QED
    BY <2>1, <2>2 DEF Init, Counters
<1>4. FreshIsNowhere
  BY ThreadAssumption DEF Init, FreshIsNowhere, Unlocked
<1>5. ExitedIsDead
  BY DEF Init, ExitedIsDead, Unlocked
<1>6. JoinerHasWaker
  BY DEF Init, JoinerHasWaker, Unlocked
<1> QED
  BY <1>1, <1>2, <1>3, <1>4, <1>5, <1>6 DEF IInv

\* The two operations a core goes to after a switch.
LEMMA IdleOps ==
  /\ Unlocked \in Op /\ Unlocked.pc = "run"
  /\ \A k \in {"tick", "block"} : Draining(k) \in Op /\ Draining(k).pc = "drain"
<1>1. Unlocked \in Op /\ Unlocked.pc = "run"
  BY ThreadAssumption, BoundAssumption DEF Unlocked, Op
<1>2. ASSUME NEW k \in {"tick", "block"} PROVE Draining(k) \in Op /\ Draining(k).pc = "drain"
  BY ThreadAssumption, BoundAssumption DEF Draining, Op
<1> QED
  BY <1>1, <1>2

\* block_and_switch keeps the types, and leaves core c unlocked or draining.
LEMMA BlockAndSwitchType ==
  ASSUME Counters, NEW S, S \subseteq Thread, Lists(S),
         NEW c \in Core, NEW q \in Seq(S), NEW s \in SUBSET S,
         NEW d \in SUBSET Thread, NEW r \in 0 .. RqWrap - 1,
         BlockAndSwitch(c, q, s, d, r), resched' = resched
  PROVE  /\ Counters' /\ due' \subseteq Thread
         /\ current' \in [Core -> S \cup {Idle}] /\ ready' \in [Core -> Seq(S)]
         /\ sleeping' \in [Core -> SUBSET S]
         /\ op'[c].pc \in {"run", "drain"}
         /\ \A e \in Core \ {c} : op'[e] = op[e] /\ current'[e] = current[e]
<1> DEFINE Listed == /\ current' \in [Core -> S \cup {Idle}]
                    /\ ready' \in [Core -> Seq(S)]
                    /\ sleeping' \in [Core -> SUBSET S]
<1>2. CASE q # <<>>
  <2>1. Head(q) \in S /\ Tail(q) \in Seq(S)
    BY <1>2, TailIs
  <2>2. op' = [op EXCEPT ![c] = Unlocked]
    BY <1>2 DEF BlockAndSwitch
  <2>3. op' \in [Core -> Op] /\ op'[c].pc = "run" /\ \A e \in Core \ {c} : op'[e] = op[e]
    BY <2>2, IdleOps DEF Counters
  <2>4. rqLen' \in [Core -> 0 .. RqWrap - 1] /\ due' \subseteq Thread
    BY <1>2 DEF BlockAndSwitch, Counters
  <2>5. Listed
    BY <1>2, <2>1, Zenon DEF BlockAndSwitch, Lists
  <2>6. \A e \in Core \ {c} : current'[e] = current[e]
    BY <1>2 DEF BlockAndSwitch, Lists
  <2> QED
    BY <2>3, <2>4, <2>5, <2>6 DEF Counters
<1>3. CASE q = <<>>
  <2>1. PICK w \in Orders(s \cap d) :
          /\ ready' = [ready EXCEPT ![c] = w]
          /\ rqLen' = [rqLen EXCEPT ![c] = Plus(r, Len(w))]
    BY <1>3, Zenon DEF BlockAndSwitch
  <2>3. w \in Seq(S) /\ Len(w) \in Nat
    BY OrderType, SeqWider
  <2>4. Plus(r, Len(w)) \in 0 .. RqWrap - 1
    BY <2>3, PlusType
  <2>5. op' = [op EXCEPT ![c] = Draining("block")]
    BY <1>3 DEF BlockAndSwitch
  <2>6. op' \in [Core -> Op] /\ op'[c].pc = "drain" /\ \A e \in Core \ {c} : op'[e] = op[e]
    BY <2>5, IdleOps DEF Counters
  <2>7. Listed /\ due' \subseteq Thread
    BY <1>3, <2>1, <2>3, ZenonT(30) DEF BlockAndSwitch, Lists
  <2>8. \A e \in Core \ {c} : current'[e] = current[e]
    BY <1>3 DEF BlockAndSwitch
  <2> QED
    BY <2>1, <2>4, <2>6, <2>7, <2>8 DEF Counters
<1> QED
  BY <1>2, <1>3

\* unjoin keeps the types and starts the sends to the other cores.
LEMMA UnjoinType ==
  ASSUME Counters, NEW S, S \subseteq Thread, ready \in [Core -> Seq(S)],
         joiners \in [Core -> [Thread -> SUBSET S]],
         NEW c \in Core, NEW t \in Thread, NEW q \in Seq(S),
         NEW m \in [Thread -> SUBSET S], NEW o \in Op,
         Unjoin(c, t, q, m, o), resched' = resched
  PROVE  /\ Counters' /\ ready' \in [Core -> Seq(S)]
         /\ joiners' \in [Core -> [Thread -> SUBSET S]]
         /\ joiners'[c] = [m EXCEPT ![t] = {}]
         /\ \A e \in Core \ {c} : op'[e] = op[e] /\ joiners'[e] = joiners[e]
         /\ op'[c].pc = "unjoin" /\ op'[c].tid = t /\ op'[c].todo = Others(c)
<1>1. Sending(o, "unjoin", t, Others(c)) \in Op
  BY Zenon DEF Sending, Op, Others
<1>2. PICK w \in Orders(m[t]) :
        /\ ready' = [ready EXCEPT ![c] = q \o w]
        /\ rqLen' = [rqLen EXCEPT ![c] = Plus(rqLen[c], Len(w))]
  BY Zenon DEF Unjoin
<1>4. w \in Seq(S) /\ Len(w) \in Nat
  BY OrderType, SeqWider
<1>5. q \o w \in Seq(S)
  BY <1>4, ConcatIs
<1>6. Plus(rqLen[c], Len(w)) \in 0 .. RqWrap - 1
  BY <1>4, PlusType DEF Counters
<1>7. joiners' \in [Core -> [Thread -> SUBSET S]]
  BY DEF Unjoin
<1>8. op'[c] = Sending(o, "unjoin", t, Others(c)) /\ op' \in [Core -> Op]
  BY <1>1 DEF Unjoin, Counters
<1>9. op'[c].pc = "unjoin" /\ op'[c].tid = t /\ op'[c].todo = Others(c)
  BY <1>8 DEF Sending, Op
<1> QED
  BY <1>2, <1>5, <1>6, <1>7, <1>8, <1>9, Zenon DEF Unjoin, Counters

(***************************************************************************)
(* When a waker is kept.                                                   *)
(***************************************************************************)

\* Core c does not give up a broadcast, and no message is taken out.
LEMMA WakerStays ==
  ASSUME NEW c \in Core, alive \subseteq alive',
         \A e \in Core : \A i \in 1 .. Len(inbox[e]) :
            i \in 1 .. Len(inbox'[e]) /\ inbox'[e][i] = inbox[e][i],
         \A e \in Core \ {c} : op'[e] = op[e],
         op[c].pc \notin {"unjoin", "panic"} \/ op[c].todo = {}
  PROVE  \A e \in Core, t \in Thread : HasWaker(e, t) => HasWaker(e, t)'
BY DEF HasWaker, ExitedMsg

\* A message that is not the one core c takes out of its inbox stays.
LEMMA KeptMessage ==
  ASSUME NEW c \in Core, inbox \in [Core -> Seq(Message)], inbox[c] # <<>>,
         inbox' = [inbox EXCEPT ![c] = Tail(inbox[c])],
         NEW e \in Core, NEW i \in 1 .. Len(inbox[e]),
         e = c => inbox[e][i] # Head(inbox[c])
  PROVE  \E j \in 1 .. Len(inbox'[e]) : inbox'[e][j] = inbox[e][i]
<1>1. CASE e # c
  BY <1>1
<1>2. CASE e = c
  <2>1. inbox[c] \in Seq(Message) /\ Head(inbox[c]) = inbox[c][1]
    OBVIOUS
  <2>2. i # 1
    BY <1>2, <2>1
  <2>3. /\ Len(Tail(inbox[c])) = Len(inbox[c]) - 1
        /\ \A j \in 1 .. Len(Tail(inbox[c])) : Tail(inbox[c])[j] = inbox[c][j + 1]
    BY <2>1, TailIs
  <2>4. Len(inbox[c]) \in Nat /\ i - 1 \in 1 .. Len(Tail(inbox[c])) /\ (i - 1) + 1 = i
    BY <1>2, <2>1, <2>2, <2>3, LenIs
  <2>5. inbox'[e] = Tail(inbox[c]) /\ inbox'[e][i - 1] = inbox[e][i]
    BY <1>2, <2>3, <2>4
  <2> QED
    BY <2>4, <2>5, Zenon
<1> QED
  BY <1>1, <1>2, Zenon

\* Core c takes its first message out: only joiners on c of the target of a
\* JoinTargetExited lose their waker.
LEMMA WakerLeaves ==
  ASSUME NEW c \in Core, alive' = alive,
         inbox \in [Core -> Seq(Message)], inbox[c] # <<>>,
         inbox' = [inbox EXCEPT ![c] = Tail(inbox[c])],
         \A e \in Core \ {c} : op'[e] = op[e],
         op[c].pc \notin {"unjoin", "panic"},
         NEW e \in Core, NEW t \in Thread, HasWaker(e, t),
         e = c => Head(inbox[c]) # ExitedMsg(t)
  PROVE  HasWaker(e, t)'
<1>1. CASE t \in alive
  BY <1>1 DEF HasWaker
<1>2. ASSUME NEW d \in Core, op[d].pc \in {"unjoin", "panic"}, op[d].tid = t, e \in op[d].todo
      PROVE  HasWaker(e, t)'
  BY <1>2, Zenon DEF HasWaker
<1>3. ASSUME NEW i \in 1 .. Len(inbox[e]), inbox[e][i] = ExitedMsg(t)
      PROVE  HasWaker(e, t)'
  <2>1. e = c => inbox[e][i] # Head(inbox[c])
    BY <1>3
  <2>2. \E j \in 1 .. Len(inbox'[e]) : inbox'[e][j] = inbox[e][i]
    BY <2>1, KeptMessage, Zenon
  <2> QED
    BY <1>3, <2>2, Zenon DEF HasWaker, ExitedMsg
<1> QED
  BY <1>1, <1>2, <1>3, Zenon DEF HasWaker

\* A step that hands out no id and kills nobody keeps the invariant if it
\* keeps these parts of it.
LEMMA StepOK ==
  ASSUME IInv, alive' = alive, fresh' = fresh, making' = making, due' \subseteq Thread,
         Counters',
         current' \in [Core -> Born \cup {Idle}], ready' \in [Core -> Seq(Born)],
         sleeping' \in [Core -> SUBSET Born],
         joiners' \in [Core -> [Thread -> SUBSET Born]],
         \A e \in Core, x \in fresh : joiners'[e][x] = {},
         inbox' \in [Core -> Seq(GoodMessage)],
         \A e \in Core : Len(inbox'[e]) <= InboxCap,
         \A e \in Core : op'[e].pc = "join" => op'[e].tid \notin fresh /\ current'[e] # Idle,
         \A e \in Core : op'[e].pc = "unjoin" => op'[e].tid \notin alive \cup fresh,
         JoinerHasWaker'
  PROVE  IInv'
<1>1. Born' = Born /\ GoodMessage' = GoodMessage
  BY DEF Born, GoodMessage
<1>3. FreshIsNowhere'
  BY <1>1 DEF FreshIsNowhere, IInv, Lists, Born
<1>4. ExitedIsDead'
  BY <1>1 DEF ExitedIsDead
<1> QED
  BY <1>3, <1>4 DEF IInv

\* The other cores stand still, and c does not join or kill.
LEMMA OpFrame ==
  ASSUME IInv, NEW c \in Core, op'[c].pc \notin {"join", "unjoin"},
         \A e \in Core \ {c} : op'[e] = op[e] /\ current'[e] = current[e]
  PROVE  /\ \A e \in Core : op'[e].pc = "join" => op'[e].tid \notin fresh /\ current'[e] # Idle
         /\ \A e \in Core : op'[e].pc = "unjoin" => op'[e].tid \notin alive \cup fresh
BY Zenon DEF IInv, FreshIsNowhere, ExitedIsDead

\* ... and every joiner is left alone.
LEMMA SameJoiners ==
  ASSUME IInv, NEW c \in Core, op'[c].pc # "join",
         \A e \in Core \ {c} : op'[e] = op[e],
         joiners' = joiners,
         \A e \in Core, x \in Thread :
            HasWaker(e, x) /\ (joiners[e][x] # {} \/ e # c) => HasWaker(e, x)'
  PROVE  JoinerHasWaker' /\ JoinStep
BY DEF IInv, JoinerHasWaker, JoinStep

\* A step in which the thread of c blocks, with the sleep list s.
LEMMA BlockFacts ==
  ASSUME IInv, NEW c \in Core, NEW s \in SUBSET Born, NEW d \in SUBSET Thread,
         BlockAndSwitch(c, ready[c], s, d, Plus(rqLen[c], -1)),
         UNCHANGED <<alive, fresh, making, inbox, resched>>,
         op[c].pc \notin {"unjoin", "panic"} \/ op[c].todo = {}
  PROVE  /\ Counters' /\ due' \subseteq Thread
         /\ current' \in [Core -> Born \cup {Idle}] /\ ready' \in [Core -> Seq(Born)]
         /\ sleeping' \in [Core -> SUBSET Born]
         /\ inbox' \in [Core -> Seq(GoodMessage)]
         /\ \A e \in Core : Len(inbox'[e]) <= InboxCap
         /\ op'[c].pc \in {"run", "drain"}
         /\ \A e \in Core \ {c} : op'[e] = op[e]
         /\ \A e \in Core : op'[e].pc = "join" => op'[e].tid \notin fresh /\ current'[e] # Idle
         /\ \A e \in Core : op'[e].pc = "unjoin" => op'[e].tid \notin alive \cup fresh
         /\ \A e \in Core, x \in Thread : HasWaker(e, x) => HasWaker(e, x)'
<1> DEFINE r == Plus(rqLen[c], -1)
<1>1. ready[c] \in Seq(Born) /\ rqLen[c] \in Int
  BY CoreFacts
<1>2. r \in 0 .. RqWrap - 1
  BY <1>1, DecType, Zenon
<1>3. Counters /\ Lists(Born) /\ Born \subseteq Thread
  BY GlobalFacts
<1> HIDE DEF r
<1>4. /\ Counters' /\ due' \subseteq Thread
      /\ current' \in [Core -> Born \cup {Idle}] /\ ready' \in [Core -> Seq(Born)]
      /\ sleeping' \in [Core -> SUBSET Born]
      /\ op'[c].pc \in {"run", "drain"}
      /\ \A e \in Core \ {c} : op'[e] = op[e] /\ current'[e] = current[e]
  <2>1. BlockAndSwitch(c, ready[c], s, d, r)
    BY DEF r
  <2> QED
    BY <1>1, <1>2, <1>3, <2>1, BlockAndSwitchType, Zenon
<1>5. \A e \in Core, x \in Thread : HasWaker(e, x) => HasWaker(e, x)'
  BY <1>4, WakerStays, Zenon
<1>6. /\ \A e \in Core : op'[e].pc = "join" => op'[e].tid \notin fresh /\ current'[e] # Idle
      /\ \A e \in Core : op'[e].pc = "unjoin" => op'[e].tid \notin alive \cup fresh
  BY <1>4, OpFrame
<1>7. inbox' \in [Core -> Seq(GoodMessage)] /\ \A e \in Core : Len(inbox'[e]) <= InboxCap
  BY GlobalFacts DEF IInv
<1> QED
  BY <1>4, <1>5, <1>6, <1>7

\* Taking the first message out of an inbox keeps the inboxes well formed.
LEMMA TailFacts ==
  ASSUME IInv, NEW c \in Core, inbox[c] # <<>>,
         inbox' = [inbox EXCEPT ![c] = Tail(inbox[c])]
  PROVE  /\ Head(inbox[c]) \in GoodMessage
         /\ inbox' \in [Core -> Seq(GoodMessage)]
         /\ \A e \in Core : Len(inbox'[e]) <= InboxCap
<1>1. inbox \in [Core -> Seq(GoodMessage)] /\ \A e \in Core : Len(inbox[e]) \in 0 .. InboxCap
  BY GlobalFacts, CoreFacts
<1>2. /\ Head(inbox[c]) \in GoodMessage /\ Tail(inbox[c]) \in Seq(GoodMessage)
      /\ Len(Tail(inbox[c])) = Len(inbox[c]) - 1
  BY <1>1, TailIs
<1>3. \A e \in Core : inbox'[e] = IF e = c THEN Tail(inbox[c]) ELSE inbox[e]
  BY <1>1
<1> QED
  BY <1>1, <1>2, <1>3, BoundAssumption

\* Core c marks u dead and starts unjoin, as exit and kill_locally do.
LEMMA DeathStep ==
  ASSUME IInv, NEW c \in Core, NEW u \in Born, NEW q \in Seq(Born),
         NEW m \in [Thread -> SUBSET Born], NEW o \in Op,
         Unjoin(c, u, q, m, o), alive' = alive \ {u},
         UNCHANGED <<fresh, making, current, resched>>,
         sleeping' \in [Core -> SUBSET Born], due' \subseteq Thread,
         op[c].pc \notin {"unjoin", "panic"},
         \/ inbox' = inbox
         \/ /\ inbox[c] # <<>> /\ Head(inbox[c]) = KillMsg(u)
            /\ inbox' = [inbox EXCEPT ![c] = Tail(inbox[c])],
         \A x \in Thread : m[x] \subseteq joiners[c][x] /\ joiners[c][x] \ m[x] \subseteq {u}
  PROVE  IInv' /\ JoinStep
<1>1. /\ Counters /\ Born \subseteq Thread /\ ready \in [Core -> Seq(Born)]
      /\ current \in [Core -> Born \cup {Idle}]
      /\ joiners \in [Core -> [Thread -> SUBSET Born]]
  BY GlobalFacts DEF Lists
<1>2. u \in Thread /\ u \notin fresh
  BY DEF Born
<1>3. /\ Counters' /\ ready' \in [Core -> Seq(Born)]
      /\ joiners' \in [Core -> [Thread -> SUBSET Born]]
      /\ joiners'[c] = [m EXCEPT ![u] = {}]
      /\ \A e \in Core \ {c} : op'[e] = op[e] /\ joiners'[e] = joiners[e]
      /\ op'[c].pc = "unjoin" /\ op'[c].tid = u /\ op'[c].todo = Others(c)
  BY <1>1, <1>2, UnjoinType, Zenon
<1>4. /\ \A x \in Thread : joiners'[c][x] = IF x = u THEN {} ELSE m[x]
      /\ \A e \in Core, x \in Thread : joiners'[e][x] \subseteq joiners[e][x]
  <2>1. \A x \in Thread : joiners'[c][x] = IF x = u THEN {} ELSE m[x]
    BY <1>3
  <2>2. \A x \in Thread : joiners'[c][x] \subseteq joiners[c][x]
    BY <2>1
  <2>3. ASSUME NEW e \in Core, e # c PROVE joiners'[e] = joiners[e]
    BY <1>3, <2>3
  <2> QED
    BY <2>1, <2>2, <2>3
<1>5. /\ inbox' \in [Core -> Seq(GoodMessage)] /\ \A e \in Core : Len(inbox'[e]) <= InboxCap
  <2>1. inbox \in [Core -> Seq(GoodMessage)] /\ \A e \in Core : Len(inbox[e]) <= InboxCap
    BY GlobalFacts DEF IInv
  <2> QED
    BY <2>1, TailFacts
<1>6. Born' = Born /\ GoodMessage \subseteq GoodMessage'
  BY DEF Born, GoodMessage
<1>7. FreshIsNowhere'
  <2>1. alive' \cap fresh' = {} /\ \A e \in Core, x \in fresh' : joiners'[e][x] = {}
    BY <1>4, JoinFacts DEF IInv, FreshIsNowhere
  <2>2. \A e \in Core : op'[e].pc = "join" => op'[e].tid \notin fresh' /\ current'[e] # Idle
    BY <1>3, ZenonT(30) DEF IInv, FreshIsNowhere
  <2>3. making' \in [Thread -> SUBSET Born]
    BY DEF IInv, FreshIsNowhere, Born
  <2> QED
    BY <1>1, <1>3, <1>6, <2>1, <2>2, <2>3, Zenon DEF FreshIsNowhere, Born
<1>8. ExitedIsDead'
  <2>1. \A e \in Core : op'[e].pc = "unjoin" => op'[e].tid \notin alive' \cup fresh'
    BY <1>2, <1>3, Zenon DEF IInv, ExitedIsDead
  <2>2. \A e \in Core : inbox'[e] \in Seq(GoodMessage')
    BY <1>5, <1>6, SeqWider, Zenon
  <2> QED
    BY <1>5, <2>1, <2>2 DEF ExitedIsDead
<1>9. JoinerHasWaker'
  <2> SUFFICES ASSUME NEW e \in Core, NEW x \in Thread,
                      joiners'[e][x] # {} \/ (op'[e].pc = "join" /\ op'[e].tid = x)
               PROVE  HasWaker(e, x)'
    BY DEF JoinerHasWaker
  <2>1. HasWaker(e, x) /\ (e = c => x # u)
    <3>1. CASE e = c
      <4>1. joiners'[c][x] # {}
        BY <1>3, <3>1, Zenon
      <4>2. x # u /\ joiners[c][x] # {}
        BY <1>4, <4>1
      <4> QED
        BY <3>1, <4>2 DEF IInv, JoinerHasWaker
    <3>2. CASE e # c
      <4>1. op'[e] = op[e] /\ joiners'[e] = joiners[e]
        BY <1>3, <3>2, Zenon
      <4> QED
        BY <3>2, <4>1 DEF IInv, JoinerHasWaker
    <3> QED
      BY <3>1, <3>2
  <2>2. CASE x = u
    BY <1>3, <2>1, <2>2, Zenon DEF HasWaker, Others
  <2>3. ASSUME x # u, x \in alive PROVE HasWaker(e, x)'
    BY <2>3 DEF HasWaker
  <2>4. ASSUME NEW d \in Core, op[d].pc \in {"unjoin", "panic"}, op[d].tid = x, e \in op[d].todo
        PROVE  HasWaker(e, x)'
    BY <1>3, <2>4, Zenon DEF HasWaker
  <2>5. ASSUME NEW i \in 1 .. Len(inbox[e]), inbox[e][i] = ExitedMsg(x)
        PROVE  HasWaker(e, x)'
    <3>1. inbox \in [Core -> Seq(Message)] /\ ExitedMsg(x) # KillMsg(u)
      BY GlobalFacts, Zenon DEF ExitedMsg, KillMsg
    <3>2. CASE inbox' = inbox
      BY <2>5, <3>2 DEF HasWaker, ExitedMsg
    <3>3. CASE /\ inbox[c] # <<>> /\ Head(inbox[c]) = KillMsg(u)
               /\ inbox' = [inbox EXCEPT ![c] = Tail(inbox[c])]
      <4>1. e = c => inbox[e][i] # Head(inbox[c])
        BY <2>5, <3>1, <3>3, Zenon
      <4>2. \E j \in 1 .. Len(inbox'[e]) : inbox'[e][j] = inbox[e][i]
        BY <3>1, <3>3, <4>1, KeptMessage, Zenon
      <4> QED
        BY <2>5, <4>2, Zenon DEF HasWaker, ExitedMsg
    <3> QED
      BY <3>2, <3>3
  <2> QED
    BY <2>1, <2>2, <2>3, <2>4, <2>5, Zenon DEF HasWaker
<1>10. JoinStep
  <2> SUFFICES ASSUME NEW e \in Core, NEW x \in Thread, NEW y \in Thread,
                      y \in joiners[e][x], y \notin joiners'[e][x]
               PROVE  x \notin alive' \/ y \notin alive'
    BY DEF JoinStep
  <2>1. e = c
    BY <1>3, Zenon
  <2>2. x = u \/ y = u
    BY <1>4, <2>1, Zenon
  <2> QED
    BY <2>2
<1> QED
  BY <1>3, <1>5, <1>7, <1>8, <1>9, <1>10 DEF IInv

\* kill_locally for a thread it takes to be found.
LEMMA KillLocallyStep ==
  ASSUME IInv, NEW c \in Core, NEW u \in alive, NEW o \in Op, KillLocally(c, u, o),
         UNCHANGED <<fresh, making, current, resched>>,
         op[c].pc \notin {"unjoin", "panic"},
         \/ inbox' = inbox
         \/ /\ inbox[c] # <<>> /\ Head(inbox[c]) = KillMsg(u)
            /\ inbox' = [inbox EXCEPT ![c] = Tail(inbox[c])]
  PROVE  IInv' /\ JoinStep
<1> DEFINE early == InReady(c, u)
           m == IF early \/ SeenInSleepList(c, u) THEN joiners[c]
                ELSE [x \in Thread |-> joiners[c][x] \ {u}]
           q == Without(ready[c], u)
<1>1. /\ sleeping' = [sleeping EXCEPT ![c] = IF early THEN @ ELSE @ \ {u}]
      /\ due' = IF early \/ u \notin sleeping[c] THEN due ELSE due \ {u}
      /\ alive' = alive \ {u} /\ Unjoin(c, u, q, m, o)
  BY DEF KillLocally
<1>2. u \in Born
  BY DEF IInv, FreshIsNowhere, Born
<1>3. joiners[c] \in [Thread -> SUBSET Born] /\ ready[c] \in Seq(Born)
  BY CoreFacts
<1>4. q \in Seq(Born)
  BY <1>3, WithoutType
<1>5. /\ m \in [Thread -> SUBSET Born]
      /\ \A x \in Thread : m[x] \subseteq joiners[c][x] /\ joiners[c][x] \ m[x] \subseteq {u}
  BY <1>3
<1>6. sleeping' \in [Core -> SUBSET Born]
  BY <1>1, GlobalFacts DEF Lists
<1>7. due' \subseteq Thread
  BY <1>1 DEF IInv
<1> HIDE DEF early, m, q
<1> QED
  BY <1>1, <1>2, <1>4, <1>5, <1>6, <1>7, DeathStep, Zenon

\* A kill_locally that finds nothing, with what the caller does to inbox and op.
LEMMA KillMissedStep ==
  ASSUME IInv, NEW c \in Core, NEW u \in Thread, KillMissed(c, u),
         UNCHANGED <<fresh, making, current, resched>>,
         op' \in [Core -> Op], op'[c].pc \in {"bcast", "drain"},
         \A e \in Core \ {c} : op'[e] = op[e],
         op[c].pc \notin {"unjoin", "panic"},
         \/ inbox' = inbox
         \/ /\ inbox[c] # <<>> /\ Head(inbox[c]) = KillMsg(u)
            /\ inbox' = [inbox EXCEPT ![c] = Tail(inbox[c])]
  PROVE  IInv' /\ JoinStep
<1>1. /\ UNCHANGED <<alive, ready, joiners, rqLen>>
      /\ sleeping' = [sleeping EXCEPT ![c] = @ \ {u}]
      /\ due' = IF u \in sleeping[c] THEN due \ {u} ELSE due
  BY Zenon DEF KillMissed
<1>2. /\ sleeping' \in [Core -> SUBSET Born] /\ ready' \in [Core -> Seq(Born)]
      /\ current' \in [Core -> Born \cup {Idle}]
  BY <1>1, GlobalFacts DEF Lists
<1>3. due' \subseteq Thread /\ Counters'
  BY <1>1 DEF IInv, Counters
<1>4. inbox' \in [Core -> Seq(GoodMessage)] /\ \A e \in Core : Len(inbox'[e]) <= InboxCap
  <2>1. inbox \in [Core -> Seq(GoodMessage)] /\ \A e \in Core : Len(inbox[e]) <= InboxCap
    BY GlobalFacts DEF IInv
  <2> QED
    BY <2>1, TailFacts
<1>5. ASSUME NEW e \in Core, NEW x \in Thread, HasWaker(e, x) PROVE HasWaker(e, x)'
  <2>1. CASE inbox' = inbox
    BY <1>1, <1>5, <2>1, WakerStays
  <2>2. CASE /\ inbox[c] # <<>> /\ Head(inbox[c]) = KillMsg(u)
             /\ inbox' = [inbox EXCEPT ![c] = Tail(inbox[c])]
    <3>1. Head(inbox[c]) # ExitedMsg(x) /\ inbox \in [Core -> Seq(Message)]
      <4>1. KillMsg(u) # ExitedMsg(x)
        BY DEF KillMsg, ExitedMsg
      <4> QED
        BY <2>2, <4>1, GlobalFacts, Zenon
    <3> QED
      BY <1>1, <1>5, <2>2, <3>1, WakerLeaves, Zenon
  <2> QED
    BY <2>1, <2>2
<1>6. JoinerHasWaker' /\ JoinStep
  BY <1>1, <1>5, SameJoiners, Zenon
<1>7. /\ \A e \in Core : op'[e].pc = "join" => op'[e].tid \notin fresh /\ current'[e] # Idle
      /\ \A e \in Core : op'[e].pc = "unjoin" => op'[e].tid \notin alive \cup fresh
  BY OpFrame, Zenon
<1> QED
  BY <1>1, <1>2, <1>3, <1>4, <1>6, <1>7, JoinFacts, StepOK, Zenon

\* A step of core c that changes no join map, kills nobody and takes no message
\* out of an inbox.
LEMMA QuietStep ==
  ASSUME IInv, NEW c \in Core, UNCHANGED <<alive, fresh, making, joiners>>,
         Counters', due' \subseteq Thread,
         current' \in [Core -> Born \cup {Idle}], ready' \in [Core -> Seq(Born)],
         sleeping' \in [Core -> SUBSET Born],
         inbox' \in [Core -> Seq(GoodMessage)],
         \A e \in Core : Len(inbox'[e]) <= InboxCap,
         \A e \in Core : \A i \in 1 .. Len(inbox[e]) :
            i \in 1 .. Len(inbox'[e]) /\ inbox'[e][i] = inbox[e][i],
         \A e \in Core \ {c} : op'[e] = op[e] /\ current'[e] = current[e],
         op[c].pc \notin {"unjoin", "panic"} \/ op[c].todo = {},
         op'[c].pc \notin {"join", "unjoin"}
  PROVE  IInv' /\ JoinStep
<1>1. \A e \in Core, x \in Thread : HasWaker(e, x) => HasWaker(e, x)'
  BY WakerStays, Zenon
<1>2. JoinerHasWaker' /\ JoinStep
  BY <1>1, SameJoiners, Zenon
<1>3. /\ \A e \in Core : op'[e].pc = "join" => op'[e].tid \notin fresh /\ current'[e] # Idle
      /\ \A e \in Core : op'[e].pc = "unjoin" => op'[e].tid \notin alive \cup fresh
  BY OpFrame
<1> QED
  BY <1>2, <1>3, JoinFacts, StepOK

\* The inboxes are as they were.
LEMMA SameInbox ==
  ASSUME IInv, inbox' = inbox
  PROVE  /\ inbox' \in [Core -> Seq(GoodMessage)]
         /\ \A e \in Core : Len(inbox'[e]) <= InboxCap
         /\ \A e \in Core : \A i \in 1 .. Len(inbox[e]) :
               i \in 1 .. Len(inbox'[e]) /\ inbox'[e][i] = inbox[e][i]
BY GlobalFacts DEF IInv

(***************************************************************************)
(* The steps of the running thread, and the messages its operations send.  *)
(***************************************************************************)
LEMMA SpawnStep ==
  ASSUME IInv, NEW c \in Core, NEW t \in Thread, NEW u \in Thread, Spawn(c, t, u)
  PROVE  IInv' /\ JoinStep
<1> USE DEF IInv
<1>1. Born \cup {u} = Born' /\ u \in Born' /\ Born \subseteq Born'
  BY DEF Spawn, Born
<1>2. FreshIsNowhere'
  <2>1. \A e \in Core : ready[e] \in Seq(Born')
    BY <1>1, SeqWider DEF FreshIsNowhere, Born
  <2>2. ready' \in [Core -> Seq(Born')]
    BY <2>1 DEF Spawn, FreshIsNowhere
  <2>3. Lists(Born)'
    BY <1>1, <2>2, Zenon DEF Spawn, FreshIsNowhere, Lists, Born
  <2>4. joiners' \in [Core -> [Thread -> SUBSET Born']]
    BY <1>1 DEF Spawn, FreshIsNowhere, Born
  <2>5. /\ \A e \in Core, x \in fresh' : joiners'[e][x] = {}
        /\ \A e \in Core : op'[e].pc = "join" => op'[e].tid \notin fresh' /\ current'[e] # Idle
    BY DEF Spawn, FreshIsNowhere
  <2>6. making' \in [Thread -> SUBSET Born']
    BY <1>1 DEF Spawn, FreshIsNowhere, Born
  <2> QED
    BY <2>3, <2>4, <2>5, <2>6, Zenon DEF Spawn, FreshIsNowhere, Lists, Born
<1>3. ExitedIsDead'
  <2>1. GoodMessage \subseteq GoodMessage'
    BY Zenon DEF Spawn, GoodMessage, Message
  <2>2. inbox' \in [Core -> Seq(GoodMessage')]
    BY <2>1, SeqWider, Zenon DEF Spawn, ExitedIsDead
  <2> QED
    BY <2>2 DEF Spawn, ExitedIsDead
<1>4. JoinerHasWaker'
  <2>1. \A e \in Core, x \in Thread : HasWaker(e, x) => HasWaker(e, x)'
    BY WakerStays DEF Spawn, Executing
  <2> QED
    BY <2>1 DEF Spawn, JoinerHasWaker
<1>5. Counters'
  BY DEF Spawn, Counters
<1>6. JoinStep
  BY DEF Spawn, JoinStep
<1> QED
  BY <1>2, <1>3, <1>4, <1>5, <1>6 DEF Spawn

\* sleep.
LEMMA SleepStep ==
  ASSUME IInv, NEW c \in Core, NEW t \in Thread, NEW now \in BOOLEAN, Sleep(c, t, now)
  PROVE  IInv' /\ JoinStep
<1> DEFINE d == IF now THEN due \cup {t} ELSE due
           s == sleeping[c] \cup {t}
<1>1. /\ Executing(c, t) /\ BlockAndSwitch(c, ready[c], s, d, Plus(rqLen[c], -1))
      /\ UNCHANGED <<alive, fresh, making, inbox, resched>> /\ joiners' = joiners
  BY Zenon DEF Sleep
<1>2. op[c].pc = "run" /\ current[c] = t
  BY <1>1 DEF Executing
<1>3. s \in SUBSET Born
  BY <1>2, CoreFacts, ThreadAssumption
<1>4. d \in SUBSET Thread
  BY DEF IInv
<1> HIDE DEF d, s
<1>5. JoinerHasWaker' /\ JoinStep
  BY <1>1, <1>2, <1>3, <1>4, BlockFacts, SameJoiners, Zenon
<1> QED
  BY <1>1, <1>2, <1>3, <1>4, <1>5, BlockFacts, JoinFacts, StepOK, Zenon

\* The switch at the end of exit.
LEMMA ExitSwitchStep ==
  ASSUME IInv, NEW c \in Core, ExitSwitch(c)
  PROVE  IInv' /\ JoinStep
<1>1. /\ op[c].todo = {} /\ BlockAndSwitch(c, ready[c], sleeping[c], due, Plus(rqLen[c], -1))
      /\ UNCHANGED <<alive, fresh, making, inbox, resched>> /\ joiners' = joiners
  BY Zenon DEF ExitSwitch
<1>2. sleeping[c] \in SUBSET Born /\ due \in SUBSET Thread
  BY CoreFacts DEF IInv
<1>3. JoinerHasWaker' /\ JoinStep
  BY <1>1, <1>2, BlockFacts, SameJoiners, Zenon
<1> QED
  BY <1>1, <1>2, <1>3, BlockFacts, JoinFacts, StepOK, Zenon

\* The registration of a joiner.
LEMMA JoinBlockStep ==
  ASSUME IInv, NEW c \in Core, JoinBlock(c)
  PROVE  IInv' /\ JoinStep
<1> DEFINE u == op[c].tid
<1>1. /\ op[c].pc = "join" /\ BlockAndSwitch(c, ready[c], sleeping[c], due, Plus(rqLen[c], -1))
      /\ UNCHANGED <<alive, fresh, making, inbox, resched>>
      /\ joiners' = [joiners EXCEPT ![c][u] = @ \cup {current[c]}]
  BY Zenon DEF JoinBlock
<1>2. sleeping[c] \in SUBSET Born /\ due \in SUBSET Thread
  BY CoreFacts DEF IInv
<1>3. u \in Thread /\ u \notin fresh /\ current[c] \in Born
  BY <1>1, CoreFacts, Zenon DEF IInv, FreshIsNowhere, Op
<1>4. /\ joiners' \in [Core -> [Thread -> SUBSET Born]]
      /\ \A e \in Core, x \in fresh : joiners'[e][x] = {}
  BY <1>1, <1>3, JoinFacts
<1>5. JoinStep
  BY <1>1, <1>3, JoinFacts, Zenon DEF JoinStep
<1>6. JoinerHasWaker'
  <2>1. \A e \in Core, x \in Thread :
          joiners'[e][x] # {} => joiners[e][x] # {} \/ (e = c /\ x = op[c].tid)
    BY <1>1, <1>3, JoinFacts
  <2>2. /\ \A e \in Core, x \in Thread : HasWaker(e, x) => HasWaker(e, x)'
        /\ op'[c].pc \in {"run", "drain"}
        /\ \A e \in Core \ {c} : op'[e] = op[e]
    BY <1>1, <1>2, BlockFacts, Zenon
  <2> QED
    BY <1>1, <2>1, <2>2 DEF IInv, JoinerHasWaker
<1> QED
  BY <1>1, <1>2, <1>4, <1>5, <1>6, BlockFacts, StepOK, Zenon

\* exit.
LEMMA ExitStep ==
  ASSUME IInv, NEW c \in Core, NEW t \in Thread, Exit(c, t)
  PROVE  IInv' /\ JoinStep
<1> DEFINE o == [op[c] EXCEPT !.cont = "exit"]
<1>1. /\ Executing(c, t) /\ alive' = alive \ {t} /\ Unjoin(c, t, ready[c], joiners[c], o)
      /\ UNCHANGED <<fresh, making, current, sleeping, due, inbox, resched>>
  BY DEF Exit
<1>2. /\ current[c] \in Born \cup {Idle} /\ ready[c] \in Seq(Born) /\ op[c] \in Op
      /\ joiners[c] \in [Thread -> SUBSET Born]
  BY CoreFacts, Zenon
<1>3. t \in Born /\ op[c].pc = "run"
  BY <1>1, <1>2, ThreadAssumption DEF Executing
<1>4. o \in Op
  BY <1>2 DEF Op
<1>5. sleeping' \in [Core -> SUBSET Born] /\ due' \subseteq Thread
  BY <1>1, GlobalFacts DEF Lists, IInv
<1> HIDE DEF o
<1> QED
  BY <1>1, <1>2, <1>3, <1>4, <1>5, DeathStep, Zenon

\* kill.
LEMMA KillStep ==
  ASSUME IInv, NEW c \in Core, NEW t \in Thread, NEW u \in Thread, Kill(c, t, u)
  PROVE  IInv' /\ JoinStep
<1>1. /\ op[c].pc = "run" /\ u \in alive
      /\ UNCHANGED <<fresh, making, current, inbox, resched>>
  BY Zenon DEF Kill, Executing
<1>2. op[c] \in Op /\ op \in [Core -> Op]
  BY CoreFacts, Zenon DEF IInv, Counters
<1>3. CASE KillLocally(c, u, op[c])
  BY <1>1, <1>2, <1>3, KillLocallyStep
<1>4. CASE /\ KillMissed(c, u)
           /\ op' = [op EXCEPT ![c] = Sending(@, "bcast", u, Others(c))]
  <2>1. Sending(op[c], "bcast", u, Others(c)) \in Op
    BY <1>2, Zenon DEF Sending, Op, Others
  <2>2. Sending(op[c], "bcast", u, Others(c)).pc = "bcast"
    BY <1>2 DEF Sending, Op
  <2>3. /\ op' \in [Core -> Op] /\ op'[c].pc = "bcast"
        /\ \A e \in Core \ {c} : op'[e] = op[e]
    BY <1>2, <1>4, <2>1, <2>2
  <2> QED
    BY <1>1, <1>4, <2>3, KillMissedStep
<1> QED
  BY <1>3, <1>4, Zenon DEF Kill

\* The check of join.
LEMMA JoinCheckStep ==
  ASSUME IInv, NEW c \in Core, NEW t \in Thread, NEW u \in Thread, JoinCheck(c, t, u)
  PROVE  IInv' /\ JoinStep
<1>1. /\ op[c].pc = "run" /\ current[c] = t /\ u \in alive
      /\ op' = [op EXCEPT ![c].pc = "join", ![c].tid = u]
      /\ UNCHANGED <<alive, fresh, making, current, ready, sleeping, due, joiners, inbox, rqLen, resched>>
  BY DEF JoinCheck, Executing
<1>2. op[c] \in Op /\ op \in [Core -> Op]
  BY CoreFacts DEF IInv, Counters
<1>3. /\ op' \in [Core -> Op] /\ op'[c].pc = "join" /\ op'[c].tid = u
      /\ \A e \in Core \ {c} : op'[e] = op[e]
  BY <1>1, <1>2, Zenon DEF Op
<1>4. Counters'
  BY <1>1, <1>3 DEF IInv, Counters
<1>5. \A e \in Core, x \in Thread : HasWaker(e, x) => HasWaker(e, x)'
  BY <1>1, <1>3, WakerStays
<1>6. JoinerHasWaker' /\ JoinStep
  <2>1. HasWaker(c, u)'
    BY <1>1 DEF HasWaker
  <2> QED
    BY <1>1, <1>3, <1>5, <2>1 DEF IInv, JoinerHasWaker, JoinStep
<1>7. u \notin fresh /\ t # Idle
  BY <1>1, ThreadAssumption DEF IInv, FreshIsNowhere
<1>8. /\ \A e \in Core : op'[e].pc = "join" => op'[e].tid \notin fresh /\ current'[e] # Idle
      /\ \A e \in Core : op'[e].pc = "unjoin" => op'[e].tid \notin alive \cup fresh
  BY <1>1, <1>3, <1>7 DEF IInv, FreshIsNowhere, ExitedIsDead
<1>9. /\ current' \in [Core -> Born \cup {Idle}] /\ ready' \in [Core -> Seq(Born)]
      /\ sleeping' \in [Core -> SUBSET Born] /\ due' \subseteq Thread
  BY <1>1, GlobalFacts DEF Lists, IInv
<1> QED
  BY <1>1, <1>4, <1>6, <1>8, <1>9, SameInbox, JoinFacts, StepOK, Zenon

\* yield_cpu.
LEMMA YieldStep ==
  ASSUME IInv, NEW c \in Core, NEW t \in Thread, Yield(c, t)
  PROVE  IInv' /\ JoinStep
<1>1. /\ op[c].pc = "run" /\ current[c] = t /\ ready[c] # <<>>
      /\ current' = [current EXCEPT ![c] = Head(ready[c])]
      /\ ready' = [ready EXCEPT ![c] = Append(Tail(ready[c]), t)]
      /\ UNCHANGED <<alive, fresh, making, sleeping, due, joiners, inbox, rqLen, resched, op>>
  BY DEF Yield, Executing
<1>2. current[c] \in Born \cup {Idle} /\ ready[c] \in Seq(Born)
  BY CoreFacts
<1>3. Head(ready[c]) \in Born /\ Append(Tail(ready[c]), t) \in Seq(Born)
  <2>1. Head(ready[c]) \in Born /\ Tail(ready[c]) \in Seq(Born)
    BY <1>1, <1>2, TailIs
  <2>2. t \in Born
    BY <1>1, <1>2, ThreadAssumption
  <2> QED
    BY <2>1, <2>2
<1>4. /\ current' \in [Core -> Born \cup {Idle}] /\ ready' \in [Core -> Seq(Born)]
      /\ sleeping' \in [Core -> SUBSET Born]
      /\ \A e \in Core \ {c} : current'[e] = current[e]
  BY <1>1, <1>3, GlobalFacts DEF Lists
<1>5. Counters' /\ due' \subseteq Thread
  BY <1>1 DEF IInv, Counters
<1> QED
  BY <1>1, <1>4, <1>5, SameInbox, QuietStep, Zenon

\* The end of ready().  No joiner is released if none is registered for the new
\* thread.
LEMMA SpawnReadyStep ==
  ASSUME IInv, NEW c \in Core, NEW t \in Thread, NEW u \in Thread, SpawnReady(c, t, u)
  PROVE  IInv' /\ (Unregistered => JoinStep)
<1>1. /\ op[c].pc = "run" /\ u \in making[t]
      /\ making' = [making EXCEPT ![t] = {}]
      /\ ready' = [ready EXCEPT ![c] = Append(@, u)]
      /\ rqLen' = [rqLen EXCEPT ![c] = Plus(@, 1)]
      /\ joiners' = [joiners EXCEPT ![c][u] = {}]
      /\ UNCHANGED <<alive, fresh, current, sleeping, due, inbox, resched, op>>
  BY DEF SpawnReady
<1>2. u \in Born /\ making' \in [Thread -> SUBSET Born]
  BY <1>1, Zenon DEF IInv, FreshIsNowhere, Born
<1>3. /\ joiners' \in [Core -> [Thread -> SUBSET Born]]
      /\ \A e \in Core, x \in Thread :
            joiners'[e][x] = IF e = c /\ x = u THEN {} ELSE joiners[e][x]
  BY <1>1, JoinFacts
<1>4. \A e \in Core, x \in fresh : joiners'[e][x] = {}
  BY <1>3, JoinFacts DEF IInv
<1>5. Counters'
  <2>1. rqLen[c] \in Int /\ 1 \in Int
    BY CoreFacts
  <2>2. Plus(rqLen[c], 1) \in 0 .. RqWrap - 1
    BY <2>1, PlusType, Zenon
  <2> QED
    BY <1>1, <2>2 DEF IInv, Counters
<1>6. /\ current' \in [Core -> Born \cup {Idle}] /\ ready' \in [Core -> Seq(Born)]
      /\ sleeping' \in [Core -> SUBSET Born] /\ due' \subseteq Thread
  BY <1>1, <1>2, GlobalFacts DEF Lists, IInv
<1>7. \A e \in Core, x \in Thread : HasWaker(e, x) => HasWaker(e, x)'
  BY <1>1, SameInbox, WakerStays, Zenon
<1>8. JoinerHasWaker'
  <2> SUFFICES ASSUME NEW e \in Core, NEW x \in Thread,
                      joiners'[e][x] # {} \/ (op'[e].pc = "join" /\ op'[e].tid = x)
               PROVE  HasWaker(e, x)'
    BY Zenon DEF JoinerHasWaker
  <2>1. joiners[e][x] # {} \/ (op[e].pc = "join" /\ op[e].tid = x)
    BY <1>1, <1>3, Zenon
  <2>2. HasWaker(e, x)
    BY <2>1, Zenon DEF IInv, JoinerHasWaker
  <2> QED
    BY <1>7, <2>2, Zenon
<1>9. FreshIsNowhere'
  <2>1. Born' = Born /\ alive' \cap fresh' = {}
    BY <1>1, Zenon DEF Born, IInv, FreshIsNowhere
  <2>2. \A e \in Core : op'[e].pc = "join" => op'[e].tid \notin fresh' /\ current'[e] # Idle
    BY <1>1, Zenon DEF IInv, FreshIsNowhere
  <2> QED
    BY <1>1, <1>2, <1>3, <1>4, <1>6, <2>1, <2>2, Zenon DEF FreshIsNowhere, Born
<1>10. ExitedIsDead'
  BY <1>1, Zenon DEF IInv, ExitedIsDead, GoodMessage
<1>11. ASSUME Unregistered PROVE JoinStep
  <2>1. joiners[c][u] = {}
    BY <1>1, <1>11, Zenon DEF Unregistered
  <2>2. \A e \in Core, x \in Thread : joiners'[e][x] = joiners[e][x]
    BY <1>3, <2>1, Zenon
  <2> QED
    BY <2>2, Zenon DEF JoinStep
<1> QED
  BY <1>1, <1>5, <1>6, <1>8, <1>9, <1>10, <1>11, Zenon DEF IInv

\* What an append to the inbox of d, with room, does to the inboxes.
LEMMA AppendFacts ==
  ASSUME IInv, NEW d \in Core, NEW m \in GoodMessage, Len(inbox[d]) < InboxCap,
         inbox' = [inbox EXCEPT ![d] = Append(@, m)]
  PROVE  /\ inbox' \in [Core -> Seq(GoodMessage)]
         /\ \A e \in Core : Len(inbox'[e]) <= InboxCap
         /\ \A e \in Core : \A i \in 1 .. Len(inbox[e]) :
               i \in 1 .. Len(inbox'[e]) /\ inbox'[e][i] = inbox[e][i]
         /\ \E i \in 1 .. Len(inbox'[d]) : inbox'[d][i] = m
<1>1. inbox \in [Core -> Seq(GoodMessage)] /\ \A e \in Core : Len(inbox[e]) \in 0 .. InboxCap
  BY GlobalFacts, CoreFacts, Zenon
<1> DEFINE a == Append(inbox[d], m)
<1>2. /\ a \in Seq(GoodMessage) /\ Len(a) = Len(inbox[d]) + 1
      /\ \A i \in 1 .. Len(inbox[d]) : a[i] = inbox[d][i]
      /\ a[Len(inbox[d]) + 1] = m
  <2>1. inbox[d] \in Seq(GoodMessage)
    BY <1>1, ZenonT(30)
  <2>2. a \in Seq(GoodMessage) /\ Len(a) = Len(inbox[d]) + 1 /\ a[Len(inbox[d]) + 1] = m
    BY <2>1, AppendIs
  <2>3. \A i \in 1 .. Len(inbox[d]) : a[i] = inbox[d][i]
    BY <2>1, AppendIs
  <2> QED
    BY <2>2, <2>3, Zenon
<1>3. \A e \in Core : inbox'[e] = IF e = d THEN a ELSE inbox[e]
  BY <1>1
<1>4. inbox' \in [Core -> Seq(GoodMessage)]
  BY <1>1, <1>2, Zenon
<1> HIDE DEF a
<1>5. \A e \in Core : Len(inbox'[e]) <= InboxCap
  BY <1>1, <1>2, <1>3, BoundAssumption
<1>6. \A e \in Core : \A i \in 1 .. Len(inbox[e]) :
         i \in 1 .. Len(inbox'[e]) /\ inbox'[e][i] = inbox[e][i]
  BY <1>1, <1>2, <1>3
<1>7. Len(inbox[d]) + 1 \in 1 .. Len(inbox'[d]) /\ inbox'[d][Len(inbox[d]) + 1] = m
  BY <1>1, <1>2, <1>3
<1> QED
  BY <1>4, <1>5, <1>6, <1>7, Zenon

\* One send of schedule_on_all_others.
LEMMA SendStep ==
  ASSUME IInv, NEW c \in Core, Send(c)
  PROVE  IInv' /\ JoinStep
<1>1. /\ op[c].pc \in {"unjoin", "bcast"}
      /\ UNCHANGED <<alive, fresh, making, current, ready, sleeping, due, joiners, rqLen>>
  BY DEF Send
<1>2. op[c] \in Op /\ op \in [Core -> Op]
  BY CoreFacts, Zenon DEF IInv, Counters
<1>3. op[c].tid \in Thread /\ op[c].todo \subseteq Core
  BY <1>2 DEF Op
<1>4. /\ current' \in [Core -> Born \cup {Idle}] /\ ready' \in [Core -> Seq(Born)]
      /\ sleeping' \in [Core -> SUBSET Born] /\ due' \subseteq Thread
  BY <1>1, GlobalFacts, Zenon DEF Lists, IInv
<1> DEFINE msg == IF op[c].pc = "unjoin" THEN ExitedMsg(op[c].tid) ELSE KillMsg(op[c].tid)
<1>5. msg \in GoodMessage
  <2>1. ExitedMsg(op[c].tid) \in Message /\ KillMsg(op[c].tid) \in Message
    BY <1>3 DEF ExitedMsg, KillMsg, Message
  <2>2. op[c].pc = "unjoin" => op[c].tid \notin alive \cup fresh
    BY DEF IInv, ExitedIsDead
  <2> QED
    BY <2>1, <2>2 DEF GoodMessage, ExitedMsg, KillMsg
<1>6. PICK d \in op[c].todo :
         \/ /\ Len(inbox[d]) < InboxCap
            /\ inbox' = [inbox EXCEPT ![d] = Append(@, msg)]
            /\ resched' = [resched EXCEPT ![c] = @ \/ d = c]
            /\ op' = [op EXCEPT ![c].todo = @ \ {d}]
         \/ /\ Len(inbox[d]) >= InboxCap
            /\ op' = [op EXCEPT ![c] = IF op[c].pc = "bcast" /\ d = c
                                       THEN [op[c] EXCEPT !.todo = @ \ {d}]
                                       ELSE [op[c] EXCEPT !.pc = "panic"]]
            /\ UNCHANGED <<inbox, resched>>
  BY DEF Send
<1>7. d \in Core
  BY <1>3, <1>6
<1> HIDE DEF msg
<1>8. /\ op' \in [Core -> Op] /\ \A e \in Core \ {c} : op'[e] = op[e]
      /\ op'[c].tid = op[c].tid
      /\ op'[c].pc \in {op[c].pc, "panic"}
  <2>1. CASE op' = [op EXCEPT ![c].todo = @ \ {d}]
    BY <1>2, <2>1 DEF Op
  <2>2. CASE op' = [op EXCEPT ![c] = IF op[c].pc = "bcast" /\ d = c
                                     THEN [op[c] EXCEPT !.todo = @ \ {d}]
                                     ELSE [op[c] EXCEPT !.pc = "panic"]]
    <3> DEFINE kept == [op[c] EXCEPT !.todo = @ \ {d}]
               dead == [op[c] EXCEPT !.pc = "panic"]
    <3>1. /\ kept \in Op /\ kept.tid = op[c].tid /\ kept.pc = op[c].pc
          /\ dead \in Op /\ dead.tid = op[c].tid /\ dead.pc = "panic"
      BY <1>2 DEF Op
    <3>2. op' = [op EXCEPT ![c] = IF op[c].pc = "bcast" /\ d = c THEN kept ELSE dead]
      BY <2>2
    <3> HIDE DEF kept, dead
    <3> QED
      BY <1>2, <3>1, <3>2
  <2> QED
    BY <1>6, <2>1, <2>2
<1>9. Counters'
  <2>1. resched' \in [Core -> BOOLEAN]
    BY <1>6, Zenon DEF IInv, Counters
  <2> QED
    BY <1>1, <1>8, <2>1 DEF IInv, Counters
<1>10. /\ inbox' \in [Core -> Seq(GoodMessage)]
       /\ \A e \in Core : Len(inbox'[e]) <= InboxCap
       /\ \A e \in Core : \A i \in 1 .. Len(inbox[e]) :
             i \in 1 .. Len(inbox'[e]) /\ inbox'[e][i] = inbox[e][i]
  BY <1>5, <1>6, <1>7, AppendFacts, SameInbox
<1>11. ASSUME NEW e \in Core, NEW x \in Thread, HasWaker(e, x) PROVE HasWaker(e, x)'
  <2>1. CASE x \in alive
    BY <1>1, <2>1, Zenon DEF HasWaker
  <2>2. ASSUME NEW i \in 1 .. Len(inbox[e]), inbox[e][i] = ExitedMsg(x)
        PROVE  HasWaker(e, x)'
    BY <1>10, <2>2, Zenon DEF HasWaker, ExitedMsg
  <2>3. ASSUME NEW f \in Core \ {c}, op[f].pc \in {"unjoin", "panic"}, op[f].tid = x, e \in op[f].todo
        PROVE  HasWaker(e, x)'
    BY <1>8, <2>3, Zenon DEF HasWaker
  <2>4. ASSUME op[c].pc = "unjoin", op[c].tid = x, e \in op[c].todo
        PROVE  HasWaker(e, x)'
    <3>1. CASE Len(inbox[d]) < InboxCap /\ e = d
      <4>1. msg = ExitedMsg(x)
        BY <2>4 DEF msg
      <4>2. Len(inbox[d]) \in 0 .. InboxCap /\ InboxCap \in Nat
        BY <1>7, CoreFacts, BoundAssumption
      <4>3. inbox' = [inbox EXCEPT ![d] = Append(@, msg)]
        BY <1>6, <3>1, <4>2
      <4>4. \E i \in 1 .. Len(inbox'[d]) : inbox'[d][i] = msg
        BY <1>5, <1>7, <3>1, <4>3, AppendFacts, Zenon
      <4> QED
        BY <3>1, <4>1, <4>4 DEF HasWaker, ExitedMsg
    <3>2. CASE Len(inbox[d]) < InboxCap /\ e # d
      <4>1. Len(inbox[d]) \in 0 .. InboxCap /\ InboxCap \in Nat
        BY <1>7, CoreFacts, BoundAssumption
      <4>2. op' = [op EXCEPT ![c].todo = @ \ {d}]
        BY <1>6, <3>2, <4>1
      <4>3. op'[c].pc = "unjoin" /\ op'[c].tid = x /\ e \in op'[c].todo
        BY <1>2, <2>4, <3>2, <4>2 DEF Op
      <4> QED
        BY <4>3 DEF HasWaker
    <3>3. CASE ~ (Len(inbox[d]) < InboxCap)
      <4>1. op'[c].pc = "panic" /\ op'[c].tid = x /\ e \in op'[c].todo
        BY <1>2, <1>6, <2>4, <3>3 DEF Op
      <4> QED
        BY <4>1 DEF HasWaker
    <3> QED
      BY <3>1, <3>2, <3>3
  <2> QED
    BY <1>1, <1>11, <2>1, <2>2, <2>3, <2>4, Zenon DEF HasWaker
<1>12. /\ \A e \in Core : op'[e].pc = "join" => op'[e].tid \notin fresh /\ current'[e] # Idle
       /\ \A e \in Core : op'[e].pc = "unjoin" => op'[e].tid \notin alive \cup fresh
  BY <1>1, <1>8, Zenon DEF IInv, FreshIsNowhere, ExitedIsDead
<1>13. JoinerHasWaker' /\ JoinStep
  BY <1>1, <1>8, <1>11, SameJoiners
<1> QED
  BY <1>1, <1>4, <1>9, <1>10, <1>12, <1>13, JoinFacts, StepOK, Zenon

\* The end of a kill that was sent to the other cores.
LEMMA KillDoneStep ==
  ASSUME IInv, NEW c \in Core, KillDone(c)
  PROVE  IInv' /\ JoinStep
<1>1. /\ op[c].todo = {}
      /\ rqLen' = [rqLen EXCEPT ![c] = IF op[c].pc = "unjoin" THEN Plus(@, -1) ELSE @]
      /\ op' = [op EXCEPT ![c] = IF op[c].cont = "run" THEN Unlocked
                                 ELSE [op[c] EXCEPT !.pc = "drain"]]
      /\ UNCHANGED <<alive, fresh, making, current, ready, sleeping, due, joiners, inbox, resched>>
  BY DEF KillDone
<1>2. op[c] \in Op /\ op \in [Core -> Op] /\ rqLen[c] \in Int
  BY CoreFacts, Zenon DEF IInv, Counters
<1> DEFINE o == [op[c] EXCEPT !.pc = "drain"]
<1>3. o \in Op /\ o.pc = "drain"
  BY <1>2 DEF Op
<1>4. op' = [op EXCEPT ![c] = IF op[c].cont = "run" THEN Unlocked ELSE o]
  BY <1>1
<1> HIDE DEF o
<1>5. /\ op' \in [Core -> Op] /\ op'[c].pc \notin {"join", "unjoin"}
      /\ \A e \in Core \ {c} : op'[e] = op[e]
  BY <1>2, <1>3, <1>4, IdleOps
<1>6. Plus(rqLen[c], -1) \in 0 .. RqWrap - 1
  BY <1>2, DecType
<1>7. Counters'
  BY <1>1, <1>5, <1>6 DEF IInv, Counters
<1>8. /\ current' \in [Core -> Born \cup {Idle}] /\ ready' \in [Core -> Seq(Born)]
      /\ sleeping' \in [Core -> SUBSET Born] /\ due' \subseteq Thread
  BY <1>1, GlobalFacts DEF Lists, IInv
<1> QED
  BY <1>1, <1>5, <1>7, <1>8, SameInbox, QuietStep, Zenon

(***************************************************************************)
(* The timer tick, the drained messages, the switch that follows and the   *)
(* load balancing.                                                         *)
(***************************************************************************)
\* Waking a set of threads at the end of the queue of c, in any order.
LEMMA WakeFacts ==
  ASSUME IInv, NEW c \in Core, NEW s \in SUBSET Born,
         \E w \in Orders(s) : /\ ready' = [ready EXCEPT ![c] = @ \o w]
                                 /\ rqLen' = [rqLen EXCEPT ![c] = Plus(@, Len(w))]
  PROVE  ready' \in [Core -> Seq(Born)] /\ rqLen' \in [Core -> 0 .. RqWrap - 1]
<1>1. PICK w \in Orders(s) : /\ ready' = [ready EXCEPT ![c] = @ \o w]
                                /\ rqLen' = [rqLen EXCEPT ![c] = Plus(@, Len(w))]
  BY Zenon
<1>3. w \in Seq(Born) /\ Len(w) \in Nat
  BY OrderType, SeqWider
<1>4. ready[c] \in Seq(Born) /\ rqLen[c] \in Int
  BY CoreFacts
<1>5. ready[c] \o w \in Seq(Born)
  BY <1>3, <1>4, ConcatIs
<1>6. Plus(rqLen[c], Len(w)) \in 0 .. RqWrap - 1
  <2>1. Len(w) \in Int
    BY <1>3
  <2> QED
    BY <1>4, <2>1, PlusType, Zenon
<1> QED
  BY <1>1, <1>5, <1>6, GlobalFacts, Zenon DEF Lists, Counters

\* The timer interrupt takes the lock and wakes the sleepers that are due.
LEMMA TickStep ==
  ASSUME IInv, NEW c \in Core, Tick(c)
  PROVE  IInv' /\ JoinStep
<1>1. /\ op[c].pc = "run"
      /\ \E w \in Orders(sleeping[c] \cap due) :
           /\ ready' = [ready EXCEPT ![c] = @ \o w]
           /\ rqLen' = [rqLen EXCEPT ![c] = Plus(@, Len(w))]
      /\ sleeping' = [sleeping EXCEPT ![c] = @ \ due]
      /\ due' = due \ sleeping[c]
      /\ op' = [op EXCEPT ![c] = Draining("tick")]
      /\ UNCHANGED <<alive, fresh, making, current, joiners, inbox, resched>>
  BY Zenon DEF Tick
<1>2. sleeping[c] \cap due \in SUBSET Born
  BY CoreFacts
<1>3. ready' \in [Core -> Seq(Born)] /\ rqLen' \in [Core -> 0 .. RqWrap - 1]
  BY <1>1, <1>2, WakeFacts, Zenon
<1>4. /\ op' \in [Core -> Op] /\ op'[c].pc = "drain"
      /\ \A e \in Core \ {c} : op'[e] = op[e]
  BY <1>1, IdleOps, GlobalFacts DEF Counters
<1>5. Counters'
  BY <1>1, <1>3, <1>4 DEF IInv, Counters
<1>6. /\ current' \in [Core -> Born \cup {Idle}]
      /\ sleeping' \in [Core -> SUBSET Born] /\ due' \subseteq Thread
  BY <1>1, GlobalFacts DEF Lists, IInv
<1> QED
  BY <1>1, <1>3, <1>4, <1>5, <1>6, SameInbox, QuietStep, Zenon

\* Core c takes a message other than JoinTargetExited and kills nobody.
LEMMA TakenStep ==
  ASSUME IInv, NEW c \in Core, NEW type, NEW t \in Thread, Receives(c, type, t),
         type # "JoinTargetExited",
         UNCHANGED <<alive, fresh, making, current, sleeping, due, joiners, resched>>,
         inbox' = [inbox EXCEPT ![c] = Tail(@)],
         ready' \in [Core -> Seq(Born)], rqLen' \in [Core -> 0 .. RqWrap - 1],
         op' \in [Core -> Op], \A e \in Core \ {c} : op'[e] = op[e],
         op'[c].pc \notin {"join", "unjoin"}
  PROVE  IInv' /\ JoinStep
<1>1. op[c].pc = "drain" /\ inbox[c] # <<>> /\ Head(inbox[c]).type # "JoinTargetExited"
  BY DEF Receives
<1>2. \A x \in Thread : Head(inbox[c]) # ExitedMsg(x)
  BY <1>1 DEF ExitedMsg
<1>3. inbox \in [Core -> Seq(Message)]
  BY GlobalFacts
<1>4. ASSUME NEW e \in Core, NEW x \in Thread, HasWaker(e, x) PROVE HasWaker(e, x)'
  BY <1>1, <1>2, <1>3, <1>4, WakerLeaves, Zenon
<1>5. JoinerHasWaker' /\ JoinStep
  BY <1>4, SameJoiners, Zenon
<1>6. inbox' \in [Core -> Seq(GoodMessage)] /\ \A e \in Core : Len(inbox'[e]) <= InboxCap
  BY <1>1, TailFacts, Zenon
<1>7. Counters' /\ due' \subseteq Thread
  BY Zenon DEF IInv, Counters
<1>8. current' \in [Core -> Born \cup {Idle}] /\ sleeping' \in [Core -> SUBSET Born]
  BY GlobalFacts, Zenon DEF Lists
<1>9. /\ \A e \in Core : op'[e].pc = "join" => op'[e].tid \notin fresh /\ current'[e] # Idle
      /\ \A e \in Core : op'[e].pc = "unjoin" => op'[e].tid \notin alive \cup fresh
  BY OpFrame, Zenon
<1> QED
  BY <1>5, <1>6, <1>7, <1>8, <1>9, JoinFacts, StepOK, Zenon

\* One message less to take.
LEMMA CountFacts ==
  ASSUME IInv, NEW c \in Core, op[c].n > 0
  PROVE  /\ op[c] \in Op /\ op[c].n - 1 \in 0 .. DrainMax
         /\ [op[c] EXCEPT !.n = @ - 1] \in Op
<1>1. op[c] \in Op
  BY CoreFacts
<1>2. op[c].n \in 0 .. DrainMax
  BY <1>1 DEF Op
<1>3. op[c].n - 1 \in 0 .. DrainMax
  BY <1>2, BoundAssumption
<1> QED
  BY <1>1, <1>3 DEF Op

\* A thread is taken from the inbox.
LEMMA DrainThreadStep ==
  ASSUME IInv, NEW c \in Core, NEW t \in Thread, DrainThread(c, t)
  PROVE  IInv' /\ JoinStep
<1>1. /\ Receives(c, "Thread", t)
      /\ inbox' = [inbox EXCEPT ![c] = Tail(@)]
      /\ ready' = [ready EXCEPT ![c] = Append(@, t)]
      /\ rqLen' = [rqLen EXCEPT ![c] = Plus(@, 1)]
      /\ op' = [op EXCEPT ![c].n = @ - 1, ![c].got = TRUE]
      /\ UNCHANGED <<alive, fresh, making, current, sleeping, due, joiners, resched>>
  BY DEF DrainThread
<1>2. inbox[c] # <<>> /\ Head(inbox[c]) = ThreadMsg(t) /\ op[c].pc = "drain" /\ op[c].n > 0
  BY <1>1 DEF Receives, ThreadMsg
<1>3. t \in Born
  <2>1. ThreadMsg(t) \in GoodMessage
    BY <1>1, <1>2, TailFacts, Zenon
  <2> QED
    BY <2>1 DEF GoodMessage, ThreadMsg, Born
<1>4. op[c] \in Op /\ op \in [Core -> Op] /\ op[c].n - 1 \in 0 .. DrainMax
  BY <1>2, CountFacts, GlobalFacts, Zenon DEF Counters
<1>5. /\ op' \in [Core -> Op] /\ op'[c].pc = "drain"
      /\ \A e \in Core \ {c} : op'[e] = op[e]
  BY <1>1, <1>2, <1>4, Zenon DEF Op
<1>6. ready' \in [Core -> Seq(Born)]
  BY <1>1, <1>3, GlobalFacts DEF Lists
<1>7. rqLen' \in [Core -> 0 .. RqWrap - 1]
  <2>1. rqLen[c] \in Int /\ 1 \in Int
    BY CoreFacts
  <2>2. Plus(rqLen[c], 1) \in 0 .. RqWrap - 1
    BY <2>1, PlusType, Zenon
  <2> QED
    BY <1>1, <2>2, GlobalFacts DEF Counters
<1> QED
  BY <1>1, <1>5, <1>6, <1>7, TakenStep, Zenon

\* A Kill for a thread that is dead.
LEMMA DrainKillDeadStep ==
  ASSUME IInv, NEW c \in Core, NEW t \in Thread, DrainKillDead(c, t)
  PROVE  IInv' /\ JoinStep
<1>1. /\ Receives(c, "Kill", t)
      /\ inbox' = [inbox EXCEPT ![c] = Tail(@)]
      /\ op' = [op EXCEPT ![c].n = @ - 1]
      /\ UNCHANGED <<alive, fresh, making, current, ready, sleeping, due, joiners, rqLen, resched>>
  BY DEF DrainKillDead
<1>2. op[c].pc = "drain" /\ op[c].n > 0
  BY <1>1 DEF Receives
<1>3. op[c] \in Op /\ op \in [Core -> Op] /\ op[c].n - 1 \in 0 .. DrainMax
  BY <1>2, CountFacts, GlobalFacts, Zenon DEF Counters
<1>4. /\ op' \in [Core -> Op] /\ op'[c].pc = "drain"
      /\ \A e \in Core \ {c} : op'[e] = op[e]
  BY <1>1, <1>2, <1>3, Zenon DEF Op
<1>5. ready' \in [Core -> Seq(Born)] /\ rqLen' \in [Core -> 0 .. RqWrap - 1]
  BY <1>1, GlobalFacts DEF Lists, Counters
<1> QED
  BY <1>1, <1>4, <1>5, TakenStep, Zenon

\* A Kill for the thread that the core runs.
LEMMA DrainKillCurrentStep ==
  ASSUME IInv, NEW c \in Core, NEW t \in Thread, DrainKillCurrent(c, t)
  PROVE  IInv' /\ JoinStep
<1> DEFINE o == Sending([op[c] EXCEPT !.n = @ - 1], "bcast", t, Core)
<1>1. /\ Receives(c, "Kill", t)
      /\ inbox' = [inbox EXCEPT ![c] = Tail(@)]
      /\ op' = [op EXCEPT ![c] = o]
      /\ UNCHANGED <<alive, fresh, making, current, ready, sleeping, due, joiners, rqLen, resched>>
  BY DEF DrainKillCurrent
<1>2. op[c].n > 0
  BY <1>1 DEF Receives
<1>3. [op[c] EXCEPT !.n = @ - 1] \in Op /\ op \in [Core -> Op]
  BY <1>2, CountFacts, GlobalFacts DEF Counters
<1>4. o \in Op /\ o.pc = "bcast"
  BY <1>3, Zenon DEF Sending, Op
<1> HIDE DEF o
<1>5. /\ op' \in [Core -> Op] /\ op'[c].pc = "bcast"
      /\ \A e \in Core \ {c} : op'[e] = op[e]
  BY <1>1, <1>3, <1>4
<1>6. ready' \in [Core -> Seq(Born)] /\ rqLen' \in [Core -> 0 .. RqWrap - 1]
  BY <1>1, GlobalFacts DEF Lists, Counters
<1> QED
  BY <1>1, <1>5, <1>6, TakenStep, Zenon

\* A Kill handled while the core holds the lock it needs.
LEMMA DrainKillHangsStep ==
  ASSUME IInv, NEW c \in Core, NEW t \in Thread, DrainKillHangs(c, t)
  PROVE  IInv' /\ JoinStep
<1>1. /\ Receives(c, "Kill", t)
      /\ inbox' = [inbox EXCEPT ![c] = Tail(@)]
      /\ op' = [op EXCEPT ![c].pc = "hung"]
      /\ UNCHANGED <<alive, fresh, making, current, ready, sleeping, due, joiners, rqLen, resched>>
  BY DEF DrainKillHangs
<1>2. op[c] \in Op /\ op \in [Core -> Op]
  BY CoreFacts, GlobalFacts DEF Counters
<1>3. /\ op' \in [Core -> Op] /\ op'[c].pc = "hung"
      /\ \A e \in Core \ {c} : op'[e] = op[e]
  BY <1>1, <1>2 DEF Op
<1>4. ready' \in [Core -> Seq(Born)] /\ rqLen' \in [Core -> 0 .. RqWrap - 1]
  BY <1>1, GlobalFacts DEF Lists, Counters
<1> QED
  BY <1>1, <1>3, <1>4, TakenStep, Zenon

\* A Kill for a thread in a list of the core, or in none.
LEMMA DrainKillStep ==
  ASSUME IInv, NEW c \in Core, NEW t \in Thread, DrainKill(c, t)
  PROVE  IInv' /\ JoinStep
<1> DEFINE o == [op[c] EXCEPT !.n = @ - 1]
<1>1. /\ Receives(c, "Kill", t) /\ t \in alive
      /\ inbox' = [inbox EXCEPT ![c] = Tail(inbox[c])]
      /\ UNCHANGED <<fresh, making, current, resched>>
      /\ KillLocally(c, t, o) \/ (KillMissed(c, t) /\ op' = [op EXCEPT ![c].n = @ - 1])
  BY DEF DrainKill
<1>2. op[c].pc = "drain" /\ op[c].n > 0 /\ inbox[c] # <<>> /\ Head(inbox[c]) = KillMsg(t)
  BY <1>1 DEF Receives, KillMsg
<1>3. o \in Op /\ op[c] \in Op /\ op \in [Core -> Op] /\ op[c].n - 1 \in 0 .. DrainMax
  BY <1>2, CountFacts, GlobalFacts DEF Counters
<1> HIDE DEF o
<1>4. CASE KillLocally(c, t, o)
  BY <1>1, <1>2, <1>3, <1>4, KillLocallyStep, Zenon
<1>5. CASE KillMissed(c, t) /\ op' = [op EXCEPT ![c].n = @ - 1]
  <2>1. /\ op' \in [Core -> Op] /\ op'[c].pc = "drain"
        /\ \A e \in Core \ {c} : op'[e] = op[e]
    BY <1>2, <1>3, <1>5, Zenon DEF Op
  <2> QED
    BY <1>1, <1>2, <1>5, <2>1, KillMissedStep, Zenon
<1> QED
  BY <1>1, <1>4, <1>5

\* JoinTargetExited releases the joiners of the core.
LEMMA DrainExitedStep ==
  ASSUME IInv, NEW c \in Core, NEW t \in Thread, DrainExited(c, t)
  PROVE  IInv' /\ JoinStep
<1>1. /\ Receives(c, "JoinTargetExited", t)
      /\ inbox' = [inbox EXCEPT ![c] = Tail(inbox[c])]
      /\ \E w \in Orders(joiners[c][t]) :
           /\ ready' = [ready EXCEPT ![c] = @ \o w]
           /\ rqLen' = [rqLen EXCEPT ![c] = Plus(@, Len(w))]
      /\ joiners' = [joiners EXCEPT ![c][t] = {}]
      /\ op' = [op EXCEPT ![c].n = @ - 1]
      /\ UNCHANGED <<alive, fresh, making, current, sleeping, due, resched>>
  BY Zenon DEF DrainExited
<1>2. op[c].pc = "drain" /\ op[c].n > 0 /\ inbox[c] # <<>> /\ Head(inbox[c]) = ExitedMsg(t)
  BY <1>1 DEF Receives, ExitedMsg
<1>3. t \notin alive
  <2>1. ExitedMsg(t) \in GoodMessage
    BY <1>1, <1>2, TailFacts, Zenon
  <2> QED
    BY <2>1 DEF GoodMessage, ExitedMsg
<1>4. op[c] \in Op /\ op \in [Core -> Op] /\ op[c].n - 1 \in 0 .. DrainMax
  BY <1>2, CountFacts, GlobalFacts, Zenon DEF Counters
<1>5. /\ op' \in [Core -> Op] /\ op'[c].pc = "drain"
      /\ \A e \in Core \ {c} : op'[e] = op[e]
  BY <1>1, <1>2, <1>4, Zenon DEF Op
<1>6. joiners[c][t] \in SUBSET Born
  BY CoreFacts
<1>7. ready' \in [Core -> Seq(Born)] /\ rqLen' \in [Core -> 0 .. RqWrap - 1]
  BY <1>1, <1>6, WakeFacts, Zenon
<1>8. /\ joiners' \in [Core -> [Thread -> SUBSET Born]]
      /\ \A e \in Core, x \in Thread :
            joiners'[e][x] = IF e = c /\ x = t THEN {} ELSE joiners[e][x]
  BY <1>1, JoinFacts
<1>9. \A e \in Core, x \in fresh : joiners'[e][x] = {}
  BY <1>8, JoinFacts DEF IInv
<1>10. inbox' \in [Core -> Seq(GoodMessage)] /\ \A e \in Core : Len(inbox'[e]) <= InboxCap
  BY <1>1, <1>2, TailFacts, Zenon
<1>11. JoinerHasWaker'
  <2> SUFFICES ASSUME NEW e \in Core, NEW x \in Thread,
                      joiners'[e][x] # {} \/ (op'[e].pc = "join" /\ op'[e].tid = x)
               PROVE  HasWaker(e, x)'
    BY DEF JoinerHasWaker
  <2>1. joiners[e][x] # {} \/ (op[e].pc = "join" /\ op[e].tid = x)
    BY <1>5, <1>8
  <2>2. HasWaker(e, x)
    BY <2>1, Zenon DEF IInv, JoinerHasWaker
  <2>3. e = c => x # t
    BY <1>5, <1>8, Zenon
  <2>4. e = c => Head(inbox[c]) # ExitedMsg(x)
    BY <1>2, <2>3 DEF ExitedMsg
  <2>5. inbox \in [Core -> Seq(Message)]
    BY GlobalFacts
  <2> QED
    BY <1>1, <1>2, <1>5, <2>2, <2>4, <2>5, WakerLeaves, Zenon
<1>12. JoinStep
  BY <1>1, <1>3, <1>8 DEF JoinStep
<1>13. Counters' /\ due' \subseteq Thread
  BY <1>1, <1>5, <1>7 DEF IInv, Counters
<1>14. current' \in [Core -> Born \cup {Idle}] /\ sleeping' \in [Core -> SUBSET Born]
  BY <1>1, GlobalFacts DEF Lists
<1>15. /\ \A e \in Core : op'[e].pc = "join" => op'[e].tid \notin fresh /\ current'[e] # Idle
       /\ \A e \in Core : op'[e].pc = "unjoin" => op'[e].tid \notin alive \cup fresh
  BY <1>1, <1>5, OpFrame, Zenon
<1> QED
  BY <1>1, <1>7, <1>8, <1>9, <1>10, <1>11, <1>12, <1>13, <1>14, <1>15, StepOK

\* balance_once: the inbox of d gets threads that were in the queue of c, within
\* its capacity, and the queue of c keeps the others.
LEMMA RebalanceFacts ==
  ASSUME IInv, NEW c \in Core, NEW d \in Core, Rebalance(c, d)
  PROVE  /\ UNCHANGED <<alive, fresh, making, sleeping, due, joiners>>
         /\ Counters' /\ op[c].pc = "drain" /\ op'[c].pc = "run"
         /\ \A e \in Core \ {c} : op'[e] = op[e]
         /\ inbox' \in [Core -> Seq(GoodMessage)]
         /\ \A e \in Core : Len(inbox'[e]) <= InboxCap
         /\ \A e \in Core : \A i \in 1 .. Len(inbox[e]) :
               i \in 1 .. Len(inbox'[e]) /\ inbox'[e][i] = inbox[e][i]
         /\ Oldest(ready[c], Moves(c, d)) \in Seq(Born)
<1> DEFINE sent == Sent(c, d)
<1>1. /\ op[c].pc = "drain"
      /\ inbox' = [inbox EXCEPT ![d] = @ \o sent]
      /\ rqLen' = [rqLen EXCEPT ![c] = Plus(@, - Moves(c, d))]
      /\ resched' = [e \in Core |-> IF e = c THEN resched[c] /\ ~ op[c].got
                                    ELSE resched[e] \/ (e = d /\ Sent(c, d) # <<>>)]
      /\ op' = [op EXCEPT ![c] = Unlocked]
      /\ UNCHANGED <<alive, fresh, making, sleeping, due, joiners>>
  BY Zenon DEF Rebalance, Drained
<1>2. /\ ready[c] \in Seq(Born) /\ Len(ready[c]) \in Nat
      /\ \A e \in Core : Len(inbox[e]) \in 0 .. InboxCap
      /\ inbox \in [Core -> Seq(GoodMessage)]
  BY CoreFacts, GlobalFacts, Zenon
<1>3. rqLen \in [Core -> Int] /\ rqLen \in [Core -> 0 .. RqWrap - 1]
  BY DEF IInv, Counters
<1>4. Moves(c, d) \in 0 .. Len(ready[c])
  BY <1>2, <1>3, MovesType
<1>5. sent \in Seq(GoodMessage) /\ Len(sent) \in 0 .. InboxCap - Len(inbox[d])
  <2>1. /\ sent \in Seq({ThreadMsg(t) : t \in Born})
        /\ Len(sent) \in 0 .. InboxCap - Len(inbox[d])
    BY <1>2, <1>3, SentType, Zenon
  <2>2. {ThreadMsg(t) : t \in Born} \subseteq GoodMessage
    BY DEF ThreadMsg, GoodMessage, Message, Born
  <2> QED
    BY <2>1, <2>2, SeqWider
<1> HIDE DEF sent
<1>6. Counters'
  <2>1. Plus(rqLen[c], - Moves(c, d)) \in 0 .. RqWrap - 1
    <3>1. rqLen[c] \in Int /\ - Moves(c, d) \in Int
      BY <1>2, <1>3, <1>4
    <3> QED
      BY <3>1, PlusType, Zenon
  <2>2. rqLen' \in [Core -> 0 .. RqWrap - 1]
    BY <1>1, <1>3, <2>1
  <2>3. resched' \in [Core -> BOOLEAN]
    BY <1>1, Zenon
  <2>4. op' \in [Core -> Op]
    BY <1>1, IdleOps, GlobalFacts, Zenon DEF Counters
  <2> QED
    BY <2>2, <2>3, <2>4 DEF Counters
<1>7. op'[c].pc = "run" /\ \A e \in Core \ {c} : op'[e] = op[e]
  BY <1>1, IdleOps, GlobalFacts, Zenon DEF Counters
<1> DEFINE new == inbox[d] \o sent
<1>8. /\ new \in Seq(GoodMessage) /\ Len(new) = Len(inbox[d]) + Len(sent)
      /\ \A i \in 1 .. Len(inbox[d]) : new[i] = inbox[d][i]
  BY <1>2, <1>5, ConcatIs
<1>9. \A e \in Core : inbox'[e] = IF e = d THEN new ELSE inbox[e]
  BY <1>1, <1>2, Zenon
<1>10. inbox' \in [Core -> Seq(GoodMessage)]
  BY <1>1, <1>2, <1>8, Zenon
<1> HIDE DEF new
<1>11. ASSUME NEW e \in Core PROVE Len(inbox'[e]) <= InboxCap
  <2>1. Len(inbox[d]) + Len(sent) <= InboxCap
    BY <1>2, <1>5, BoundAssumption
  <2>2. Len(inbox[e]) <= InboxCap
    BY <1>2, BoundAssumption
  <2> QED
    BY <1>8, <1>9, <2>1, <2>2
<1>12. \A e \in Core : \A i \in 1 .. Len(inbox[e]) :
         i \in 1 .. Len(inbox'[e]) /\ inbox'[e][i] = inbox[e][i]
  <2>1. Len(inbox[d]) \in Nat /\ Len(sent) \in Nat
    BY <1>2, <1>5
  <2>2. \A i \in 1 .. Len(inbox[d]) : i \in 1 .. Len(new) /\ new[i] = inbox[d][i]
    BY <1>8, <2>1
  <2> QED
    BY <1>9, <2>2
<1>13. Oldest(ready[c], Moves(c, d)) \in Seq(Born)
  BY <1>2, <1>4, SplitType
<1> QED
  BY <1>1, <1>6, <1>7, <1>10, <1>11, <1>12, <1>13, Zenon

\* The tick balances and switches.
LEMMA TickSwitchStep ==
  ASSUME IInv, NEW c \in Core, NEW d \in Core, TickSwitch(c, d)
  PROVE  IInv' /\ JoinStep
<1> DEFINE q == Oldest(ready[c], Moves(c, d))
           back == IF current[c] = Idle THEN <<>> ELSE <<current[c]>>
<1>1. /\ Rebalance(c, d)
      /\ current' = [current EXCEPT ![c] = IF q = <<>> THEN Idle ELSE Head(q)]
      /\ ready' = [ready EXCEPT ![c] = IF q = <<>> THEN back ELSE Tail(q) \o back]
  BY DEF TickSwitch
<1>2. q \in Seq(Born) /\ current[c] \in Born \cup {Idle}
  BY <1>1, RebalanceFacts, CoreFacts, Zenon
<1>3. back \in Seq(Born)
  BY <1>2
<1> HIDE DEF q, back
<1>4. q # <<>> => Head(q) \in Born /\ Tail(q) \in Seq(Born)
  BY <1>2, TailIs
<1>5. q # <<>> => Tail(q) \o back \in Seq(Born)
  BY <1>3, <1>4, ConcatIs
<1>6. /\ current' \in [Core -> Born \cup {Idle}] /\ ready' \in [Core -> Seq(Born)]
      /\ \A e \in Core \ {c} : current'[e] = current[e]
  BY <1>1, <1>3, <1>4, <1>5, GlobalFacts, Zenon DEF Lists
<1>7. /\ UNCHANGED <<alive, fresh, making, sleeping, due, joiners>>
      /\ Counters' /\ op[c].pc = "drain" /\ op'[c].pc = "run"
      /\ \A e \in Core \ {c} : op'[e] = op[e]
      /\ inbox' \in [Core -> Seq(GoodMessage)]
      /\ \A e \in Core : Len(inbox'[e]) <= InboxCap
      /\ \A e \in Core : \A i \in 1 .. Len(inbox[e]) :
            i \in 1 .. Len(inbox'[e]) /\ inbox'[e][i] = inbox[e][i]
  BY <1>1, RebalanceFacts, Zenon
<1>8. sleeping' \in [Core -> SUBSET Born] /\ due' \subseteq Thread
  BY <1>7, GlobalFacts, Zenon DEF Lists, IInv
<1> QED
  BY <1>6, <1>7, <1>8, QuietStep, Zenon

\* The tick balances and keeps its thread.
LEMMA TickSkipStep ==
  ASSUME IInv, NEW c \in Core, NEW d \in Core, TickSkip(c, d)
  PROVE  IInv' /\ JoinStep
<1> DEFINE q == Oldest(ready[c], Moves(c, d))
<1>1. Rebalance(c, d) /\ ready' = [ready EXCEPT ![c] = q] /\ current' = current
  BY DEF TickSkip
<1>2. q \in Seq(Born)
  BY <1>1, RebalanceFacts
<1> HIDE DEF q
<1>3. /\ current' \in [Core -> Born \cup {Idle}] /\ ready' \in [Core -> Seq(Born)]
      /\ \A e \in Core \ {c} : current'[e] = current[e]
  BY <1>1, <1>2, GlobalFacts, Zenon DEF Lists
<1>4. /\ UNCHANGED <<alive, fresh, making, sleeping, due, joiners>>
      /\ Counters' /\ op[c].pc = "drain" /\ op'[c].pc = "run"
      /\ \A e \in Core \ {c} : op'[e] = op[e]
      /\ inbox' \in [Core -> Seq(GoodMessage)]
      /\ \A e \in Core : Len(inbox'[e]) <= InboxCap
      /\ \A e \in Core : \A i \in 1 .. Len(inbox[e]) :
            i \in 1 .. Len(inbox'[e]) /\ inbox'[e][i] = inbox[e][i]
  BY <1>1, RebalanceFacts, Zenon
<1>5. sleeping' \in [Core -> SUBSET Born] /\ due' \subseteq Thread
  BY <1>4, GlobalFacts, Zenon DEF Lists, IInv
<1> QED
  BY <1>3, <1>4, <1>5, QuietStep, Zenon

\* block_and_switch goes on after its drain.
LEMMA BlockSwitchStep ==
  ASSUME IInv, NEW c \in Core, BlockSwitch(c)
  PROVE  IInv' /\ JoinStep
<1>1. /\ op[c].pc = "drain"
      /\ resched' = [resched EXCEPT ![c] = @ /\ ~ op[c].got]
      /\ current' = [current EXCEPT ![c] = IF ready[c] = <<>> THEN Idle ELSE Head(ready[c])]
      /\ ready' = [ready EXCEPT ![c] = IF ready[c] = <<>> THEN ready[c] ELSE Tail(ready[c])]
      /\ op' = [op EXCEPT ![c] = Unlocked]
      /\ UNCHANGED <<alive, fresh, making, sleeping, due, joiners, inbox, rqLen>>
  BY DEF BlockSwitch, Drained
<1>2. ready[c] \in Seq(Born)
  BY CoreFacts
<1>3. ready[c] # <<>> => Head(ready[c]) \in Born /\ Tail(ready[c]) \in Seq(Born)
  BY <1>2, TailIs
<1>4. /\ current' \in [Core -> Born \cup {Idle}] /\ ready' \in [Core -> Seq(Born)]
      /\ sleeping' \in [Core -> SUBSET Born]
      /\ \A e \in Core \ {c} : current'[e] = current[e]
  BY <1>1, <1>2, <1>3, GlobalFacts DEF Lists
<1>5. /\ op' \in [Core -> Op] /\ op'[c].pc = "run"
      /\ \A e \in Core \ {c} : op'[e] = op[e]
  BY <1>1, IdleOps, GlobalFacts DEF Counters
<1>6. resched' \in [Core -> BOOLEAN]
  BY <1>1 DEF IInv, Counters
<1>7. Counters' /\ due' \subseteq Thread
  BY <1>1, <1>5, <1>6 DEF IInv, Counters
<1> QED
  BY <1>1, <1>4, <1>5, <1>7, SameInbox, QuietStep, Zenon

\* The idle thread looks for an overloaded core.
LEMMA LookForOverloadedStep ==
  ASSUME IInv, NEW c \in Core, NEW d \in Core, LookForOverloaded(c, d)
  PROVE  IInv' /\ JoinStep
<1>1. /\ op[c].pc = "run" /\ resched' = [resched EXCEPT ![d] = TRUE]
      /\ UNCHANGED <<alive, fresh, making, current, ready, sleeping, due, joiners, inbox, rqLen, op>>
  BY DEF LookForOverloaded
<1>2. Counters' /\ due' \subseteq Thread
  BY <1>1, Zenon DEF IInv, Counters
<1>3. /\ current' \in [Core -> Born \cup {Idle}] /\ ready' \in [Core -> Seq(Born)]
      /\ sleeping' \in [Core -> SUBSET Born]
  BY <1>1, GlobalFacts DEF Lists
<1> QED
  BY <1>1, <1>2, <1>3, SameInbox, QuietStep, Zenon

\* A step that changes at most the due sleepers.
LEMMA TimeStep ==
  ASSUME IInv, due' \subseteq Thread,
         UNCHANGED <<alive, fresh, making, current, ready, sleeping, joiners, inbox, rqLen, resched, op>>
  PROVE  IInv' /\ JoinStep
<1>1. JoinerHasWaker' /\ JoinStep
  <2>1. \A e \in Core, t \in Thread : HasWaker(e, t) => HasWaker(e, t)'
    BY Zenon DEF HasWaker, ExitedMsg
  <2> QED
    BY <2>1, Zenon DEF IInv, JoinerHasWaker, JoinStep
<1>2. Counters' /\ FreshIsNowhere'
  BY DEF IInv, Counters, FreshIsNowhere
<1>3. ExitedIsDead'
  BY Zenon DEF IInv, ExitedIsDead, GoodMessage
<1> QED
  BY <1>1, <1>2, <1>3, Zenon DEF IInv

\* Every step keeps the invariant, and releases a joiner only when its target
\* or the joiner itself is dead, unless the target was still being made.
LEMMA NextStep ==
  ASSUME IInv, [Next]_vars
  PROVE  IInv' /\ (Unregistered => [JoinStep]_vars)
<1> SUFFICES IInv' /\ (Unregistered => JoinStep)
  OBVIOUS
<1>1. ASSUME NEW c \in Core, NEW t \in Thread, ThreadOp(c, t)
      PROVE  IInv' /\ (Unregistered => JoinStep)
  BY <1>1, SpawnStep, SpawnReadyStep, JoinCheckStep, KillStep, SleepStep, ExitStep,
     YieldStep, Zenon DEF ThreadOp
<1>2. ASSUME NEW c \in Core, DrainOne(c) PROVE IInv' /\ JoinStep
  BY <1>2, DrainThreadStep, DrainExitedStep, DrainKillDeadStep, DrainKillCurrentStep,
     DrainKillHangsStep, DrainKillStep, Zenon DEF DrainOne
<1>3. ASSUME NEW c \in Core, Locked(c) PROVE IInv' /\ JoinStep
  BY <1>2, <1>3, JoinBlockStep, SendStep, ExitSwitchStep, KillDoneStep, BlockSwitchStep,
     TickSwitchStep, TickSkipStep, Zenon DEF Locked
<1>4. ASSUME NEW t \in Thread, Expire(t) PROVE IInv' /\ JoinStep
  <2>1. due' \subseteq Thread
    BY <1>4 DEF Expire, IInv
  <2> QED
    BY <1>4, <2>1, TimeStep DEF Expire
<1>5. CASE UNCHANGED vars
  BY <1>5, TimeStep DEF vars, IInv
<1> QED
  BY <1>1, <1>3, <1>4, <1>5, TickStep, LookForOverloadedStep DEF Next

(***************************************************************************)
(* When no thread is joined while it is being made, Unregistered holds:    *)
(* only join itself adds to what is asked for.                             *)
(***************************************************************************)
NobodyAsks ==
  /\ \A e \in Core, x \in Thread : joiners'[e][x] \subseteq joiners[e][x]
  /\ \A e \in Core : op'[e].pc = "join" => op'[e] = op[e]

\* Core c goes on with an operation that is not a join.
LEMMA OtherOp ==
  ASSUME IInv, NEW c \in Core, NEW o, o.pc # "join", op' = [op EXCEPT ![c] = o],
         \A e \in Core, x \in Thread : joiners'[e][x] \subseteq joiners[e][x]
  PROVE  NobodyAsks
BY DEF NobodyAsks, IInv, Counters

\* Releasing joiners registers nobody.
LEMMA UnjoinAsksNobody ==
  ASSUME IInv, NEW c \in Core, NEW u \in Thread, NEW q, NEW m \in [Thread -> SUBSET Born],
         NEW o \in Op, Unjoin(c, u, q, m, o),
         \A x \in Thread : m[x] \subseteq joiners[c][x]
  PROVE  NobodyAsks
<1>1. joiners \in [Core -> [Thread -> SUBSET Born]]
  BY GlobalFacts
<1>2. joiners' = [joiners EXCEPT ![c] = [m EXCEPT ![u] = {}]]
  BY DEF Unjoin
<1>3. \A x \in Thread : joiners'[c][x] \subseteq joiners[c][x]
  BY <1>1, <1>2
<1>4. \A e \in Core \ {c} : joiners'[e] = joiners[e]
  BY <1>1, <1>2
<1>5. op' = [op EXCEPT ![c] = Sending(o, "unjoin", u, Others(c))]
  BY DEF Unjoin
<1>6. Sending(o, "unjoin", u, Others(c)).pc # "join"
  BY Zenon DEF Sending, Op
<1> QED
  BY <1>3, <1>4, <1>5, <1>6, OtherOp, Zenon

\* A kill registers nobody.
LEMMA KillAsksNobody ==
  ASSUME IInv, NEW c \in Core, NEW u \in Thread, NEW o \in Op, KillLocally(c, u, o)
  PROVE  NobodyAsks
<1> DEFINE m == IF InReady(c, u) \/ SeenInSleepList(c, u) THEN joiners[c]
                ELSE [x \in Thread |-> joiners[c][x] \ {u}]
<1>1. Unjoin(c, u, Without(ready[c], u), m, o)
  BY DEF KillLocally
<1>2. joiners[c] \in [Thread -> SUBSET Born]
  BY CoreFacts, Zenon
<1>3. m \in [Thread -> SUBSET Born] /\ \A x \in Thread : m[x] \subseteq joiners[c][x]
  BY <1>2, Zenon
<1> HIDE DEF m
<1> QED
  BY <1>1, <1>3, UnjoinAsksNobody, Zenon

\* block_and_switch registers nobody.
LEMMA BlockAsksNobody ==
  ASSUME IInv, NEW c \in Core, NEW q, NEW s, NEW d, NEW r, BlockAndSwitch(c, q, s, d, r),
         \A e \in Core, x \in Thread : joiners'[e][x] \subseteq joiners[e][x]
  PROVE  NobodyAsks
<1>1. CASE op' = [op EXCEPT ![c] = Unlocked]
  BY <1>1, OtherOp, IdleOps, Zenon
<1>2. CASE op' = [op EXCEPT ![c] = Draining("block")]
  <2>1. Draining("block").pc # "join"
    BY IdleOps
  <2> QED
    BY <1>2, <2>1, OtherOp, Zenon
<1> QED
  BY <1>1, <1>2, Zenon DEF BlockAndSwitch

\* The steps of the running thread other than join.
LEMMA ThreadAsksNobody ==
  ASSUME IInv, NEW c \in Core, NEW t \in Thread,
         \/ \E u \in Thread : Spawn(c, t, u) \/ SpawnReady(c, t, u) \/ Kill(c, t, u)
         \/ \E now \in BOOLEAN : Sleep(c, t, now)
         \/ Exit(c, t) \/ Yield(c, t)
  PROVE  NobodyAsks
<1>1. /\ op[c] \in Op /\ joiners \in [Core -> [Thread -> SUBSET Born]]
      /\ joiners[c] \in [Thread -> SUBSET Born]
  BY CoreFacts, GlobalFacts, Zenon
<1>2. ASSUME NEW u \in Thread, Spawn(c, t, u) PROVE NobodyAsks
  BY <1>2, Zenon DEF Spawn, NobodyAsks
<1>3. ASSUME NEW u \in Thread, SpawnReady(c, t, u) PROVE NobodyAsks
  BY <1>1, <1>3, Zenon DEF SpawnReady, NobodyAsks
<1>4. ASSUME NEW u \in Thread, Kill(c, t, u) PROVE NobodyAsks
  <2>1. CASE KillLocally(c, u, op[c])
    BY <1>1, <2>1, KillAsksNobody
  <2>2. CASE KillMissed(c, u) /\ op' = [op EXCEPT ![c] = Sending(op[c], "bcast", u, Others(c))]
    <3>1. Sending(op[c], "bcast", u, Others(c)).pc # "join"
      BY <1>1 DEF Sending, Op
    <3> QED
      BY <2>2, <3>1, OtherOp, Zenon DEF KillMissed
  <2> QED
    BY <1>4, <2>1, <2>2 DEF Kill
<1>5. ASSUME NEW now \in BOOLEAN, Sleep(c, t, now) PROVE NobodyAsks
  BY <1>5, BlockAsksNobody, Zenon DEF Sleep
<1>6. CASE Exit(c, t)
  <2>1. [op[c] EXCEPT !.cont = "exit"] \in Op
    BY <1>1, Zenon DEF Op
  <2> QED
    BY <1>1, <1>6, <2>1, UnjoinAsksNobody DEF Exit
<1>7. CASE Yield(c, t)
  BY <1>7, Zenon DEF Yield, NobodyAsks
<1> QED
  BY <1>2, <1>3, <1>4, <1>5, <1>6, <1>7

\* The messages a core takes out of its inbox.
LEMMA DrainAsksNobody ==
  ASSUME IInv, NEW c \in Core, DrainOne(c)
  PROVE  NobodyAsks
<1>1. PICK t \in Thread : \/ DrainThread(c, t) \/ DrainExited(c, t)
                         \/ DrainKillDead(c, t) \/ DrainKillCurrent(c, t)
                         \/ DrainKillHangs(c, t) \/ DrainKill(c, t)
  BY DEF DrainOne
<1>2. op \in [Core -> Op] /\ op[c].pc = "drain" /\ op[c].n > 0
  BY <1>1, GlobalFacts, Zenon DEF Counters, Receives, DrainThread, DrainExited, DrainKillDead,
     DrainKillCurrent, DrainKillHangs, DrainKill
<1>3. joiners \in [Core -> [Thread -> SUBSET Born]]
  BY GlobalFacts
<1>4. CASE DrainThread(c, t) \/ DrainKillDead(c, t) \/ DrainKillHangs(c, t)
  <2>1. joiners' = joiners
    BY <1>4 DEF DrainThread, DrainKillDead, DrainKillHangs
  <2>2. \A e \in Core : op'[e].pc = "join" => op'[e] = op[e]
    BY <1>2, <1>4 DEF DrainThread, DrainKillDead, DrainKillHangs, Op
  <2> QED
    BY <2>1, <2>2 DEF NobodyAsks
<1>5. CASE DrainExited(c, t)
  <2>1. joiners' = [joiners EXCEPT ![c][t] = {}] /\ op' = [op EXCEPT ![c].n = @ - 1]
    BY <1>5 DEF DrainExited
  <2>2. \A e \in Core : op'[e].pc = "join" => op'[e] = op[e]
    BY <1>2, <2>1 DEF Op
  <2>3. \A e \in Core, x \in Thread : joiners'[e][x] \subseteq joiners[e][x]
    BY <1>3, <2>1
  <2> QED
    BY <2>2, <2>3 DEF NobodyAsks
<1>6. CASE DrainKillCurrent(c, t)
  <2> DEFINE o == [op[c] EXCEPT !.n = @ - 1]
  <2>1. o \in Op
    BY <1>2, BoundAssumption DEF Op
  <2>2. Sending(o, "bcast", t, Core).pc # "join"
    BY <2>1 DEF Sending, Op
  <2>3. joiners' = joiners /\ op' = [op EXCEPT ![c] = Sending(o, "bcast", t, Core)]
    BY <1>6 DEF DrainKillCurrent
  <2> QED
    BY <2>2, <2>3, OtherOp, Zenon
<1>7. CASE DrainKill(c, t)
  <2> DEFINE o == [op[c] EXCEPT !.n = @ - 1]
  <2>1. o \in Op
    BY <1>2, BoundAssumption DEF Op
  <2>2. CASE KillLocally(c, t, o)
    BY <2>1, <2>2, KillAsksNobody
  <2>3. CASE KillMissed(c, t) /\ op' = [op EXCEPT ![c].n = @ - 1]
    <3>1. \A e \in Core : op'[e].pc = "join" => op'[e] = op[e]
      BY <1>2, <2>3 DEF Op
    <3> QED
      BY <2>3, <3>1 DEF KillMissed, NobodyAsks
  <2> QED
    BY <1>7, <2>2, <2>3 DEF DrainKill
<1> QED
  BY <1>1, <1>4, <1>5, <1>6, <1>7

\* The other steps of a core.
LEMMA CoreAsksNobody ==
  ASSUME IInv, NEW c \in Core,
         \/ Send(c) \/ ExitSwitch(c) \/ KillDone(c) \/ BlockSwitch(c) \/ Tick(c)
         \/ \E d \in Core : TickSwitch(c, d) \/ TickSkip(c, d) \/ LookForOverloaded(c, d)
  PROVE  NobodyAsks
<1>1. op \in [Core -> Op]
  BY GlobalFacts DEF Counters
<1>2. Unlocked.pc # "join" /\ Draining("tick").pc # "join"
  BY IdleOps
<1>3. CASE Send(c)
  <2>1. PICK d \in op[c].todo :
          \/ op' = [op EXCEPT ![c].todo = @ \ {d}]
          \/ op' = [op EXCEPT ![c] = IF op[c].pc = "bcast" /\ d = c
                                     THEN [op[c] EXCEPT !.todo = @ \ {d}]
                                     ELSE [op[c] EXCEPT !.pc = "panic"]]
    BY <1>3 DEF Send
  <2>2. joiners' = joiners /\ op[c].pc \in {"unjoin", "bcast"}
    BY <1>3 DEF Send
  <2>3. \A e \in Core : op'[e].pc = "join" => op'[e] = op[e]
    BY <1>1, <2>1, <2>2 DEF Op
  <2> QED
    BY <2>2, <2>3, Zenon DEF NobodyAsks
<1>4. CASE ExitSwitch(c)
  BY <1>4, BlockAsksNobody, Zenon DEF ExitSwitch
<1>5. CASE KillDone(c)
  <2>1. joiners' = joiners
    BY <1>5 DEF KillDone
  <2>2. op' = [op EXCEPT ![c] = IF op[c].cont = "run" THEN Unlocked
                                ELSE [op[c] EXCEPT !.pc = "drain"]]
    BY <1>1, <1>5 DEF KillDone
  <2>3. [op[c] EXCEPT !.pc = "drain"].pc # "join"
    BY <1>1 DEF Op
  <2> QED
    BY <1>2, <2>1, <2>2, <2>3, OtherOp, Zenon
<1>6. CASE Tick(c)
  BY <1>2, <1>6, OtherOp, Zenon DEF Tick
<1>7. CASE BlockSwitch(c) \/ \E d \in Core : TickSwitch(c, d) \/ TickSkip(c, d)
  <2>1. joiners' = joiners /\ op' = [op EXCEPT ![c] = Unlocked]
    BY <1>7, Zenon DEF BlockSwitch, TickSwitch, TickSkip, Rebalance
  <2> QED
    BY <1>2, <2>1, OtherOp, Zenon
<1>8. CASE \E d \in Core : LookForOverloaded(c, d)
  BY <1>8, Zenon DEF LookForOverloaded, NobodyAsks
<1> QED
  BY <1>3, <1>4, <1>5, <1>6, <1>7, <1>8, Zenon

\* Without JoinEarly nobody waits for a thread that is still being made.
LEMMA UnregisteredStep ==
  ASSUME IInv, ~ JoinEarly, Unregistered, [Next]_vars
  PROVE  Unregistered'
<1>1. /\ making \in [Thread -> SUBSET Born] /\ op \in [Core -> Op]
      /\ joiners \in [Core -> [Thread -> SUBSET Born]]
  BY GlobalFacts, Zenon DEF IInv, FreshIsNowhere, Born, Counters
<1>2. ASSUME NobodyAsks, \A t \in Thread : making'[t] \subseteq making[t]
      PROVE  Unregistered'
  <2> SUFFICES ASSUME NEW t \in Thread, NEW u \in making'[t], NEW e \in Core
               PROVE  joiners'[e][u] = {} /\ ~ (op'[e].pc = "join" /\ op'[e].tid = u)
    BY DEF Unregistered
  <2>1. u \in making[t] /\ u \in Thread
    BY <1>1, <1>2, GlobalFacts
  <2>2. joiners[e][u] = {} /\ ~ (op[e].pc = "join" /\ op[e].tid = u)
    BY <2>1 DEF Unregistered
  <2>3. joiners'[e][u] \subseteq joiners[e][u] /\ (op'[e].pc = "join" => op'[e] = op[e])
    BY <1>2, <2>1 DEF NobodyAsks
  <2> QED
    BY <2>2, <2>3
<1>3. ASSUME NEW c \in Core, NEW t \in Thread, NEW u \in Thread, Spawn(c, t, u)
      PROVE  Unregistered'
  <2>1. /\ \A e \in Core : joiners[e][u] = {} /\ ~ (op[e].pc = "join" /\ op[e].tid = u)
        /\ joiners' = joiners /\ op' = op /\ making' = [making EXCEPT ![t] = {u}]
    BY <1>3, Zenon DEF Spawn, IInv, FreshIsNowhere
  <2> QED
    BY <1>1, <2>1 DEF Unregistered
<1>4. ASSUME NEW c \in Core, NEW t \in Thread, NEW u \in Thread, JoinCheck(c, t, u)
      PROVE  Unregistered'
  <2>1. /\ \A x \in Thread : u \notin making[x]
        /\ joiners' = joiners /\ making' = making
        /\ op' = [op EXCEPT ![c].pc = "join", ![c].tid = u]
    BY <1>4 DEF JoinCheck
  <2>2. op'[c].tid = u /\ \A e \in Core \ {c} : op'[e] = op[e]
    BY <1>1, <2>1 DEF Op
  <2> SUFFICES ASSUME NEW x \in Thread, NEW v \in making[x], NEW e \in Core
               PROVE  joiners[e][v] = {} /\ ~ (op'[e].pc = "join" /\ op'[e].tid = v)
    BY <2>1, Zenon DEF Unregistered
  <2>3. joiners[e][v] = {} /\ ~ (op[e].pc = "join" /\ op[e].tid = v)
    BY DEF Unregistered
  <2>4. v # u
    BY <2>1, Zenon
  <2> QED
    BY <2>2, <2>3, <2>4, Zenon
<1>5. ASSUME NEW c \in Core, JoinBlock(c)
      PROVE  Unregistered'
  <2>1. /\ op[c].pc = "join" /\ making' = making /\ op[c].tid \in Thread
        /\ joiners' = [joiners EXCEPT ![c][op[c].tid] = @ \cup {current[c]}]
    BY <1>1, <1>5, Zenon DEF JoinBlock, Op
  <2>2. /\ \A e \in Core \ {c} : op'[e] = op[e]
        /\ op'[c].pc # "join"
    <3>1. op' = [op EXCEPT ![c] = Unlocked] \/ op' = [op EXCEPT ![c] = Draining("block")]
      BY <1>5 DEF JoinBlock, BlockAndSwitch
    <3>2. Unlocked.pc # "join" /\ Draining("block").pc # "join"
      BY IdleOps
    <3> QED
      BY <1>1, <3>1, <3>2, Zenon
  <2>3. \A t \in Thread : op[c].tid \notin making[t]
    BY <2>1 DEF Unregistered
  <2>4. \A e \in Core, x \in Thread : e # c \/ x # op[c].tid => joiners'[e][x] = joiners[e][x]
    BY <1>1, <2>1
  <2>5. ASSUME NEW t \in Thread, NEW u \in making[t], NEW e \in Core
        PROVE  joiners'[e][u] = {} /\ ~ (op'[e].pc = "join" /\ op'[e].tid = u)
    <3>0. making[t] \in SUBSET Thread
      BY Types, Zenon
    <3>1. u \in Thread /\ u # op[c].tid
      <4>1. u \in Thread
        BY <2>5, <3>0, Zenon
      <4>2. u # op[c].tid
        BY <2>3, <2>5, Zenon
      <4> QED
        BY <4>1, <4>2, Zenon
    <3>2. joiners[e][u] = {} /\ ~ (op[e].pc = "join" /\ op[e].tid = u)
      BY <2>5, Zenon DEF Unregistered
    <3>3. joiners'[e][u] = {}
      BY <2>4, <3>1, <3>2, Zenon
    <3> QED
      BY <2>2, <3>2, <3>3, Zenon
  <2> QED
    BY <2>1, <2>5, Zenon DEF Unregistered
<1>6. ASSUME NEW c \in Core, NEW t \in Thread, ThreadOp(c, t) PROVE Unregistered'
  <2>1. ASSUME NEW u \in Thread, SpawnReady(c, t, u)
        PROVE  \A x \in Thread : making'[x] \subseteq making[x]
    BY <1>1, <2>1 DEF SpawnReady
  <2>2. ASSUME \/ \E u \in Thread : Kill(c, t, u)
               \/ \E now \in BOOLEAN : Sleep(c, t, now)
               \/ Exit(c, t) \/ Yield(c, t)
        PROVE  making' = making
    BY <2>2 DEF Kill, Sleep, Exit, Yield
  <2> QED
    BY <1>2, <1>3, <1>4, <1>6, <2>1, <2>2, ThreadAsksNobody, Zenon DEF ThreadOp
<1>7. ASSUME NEW c \in Core, DrainOne(c) PROVE Unregistered'
  <2>1. making' = making
    BY <1>7, Zenon DEF DrainOne, DrainThread, DrainExited, DrainKillDead, DrainKillCurrent,
       DrainKillHangs, DrainKill
  <2> QED
    BY <1>2, <1>7, <2>1, DrainAsksNobody, Zenon
<1>8. ASSUME NEW c \in Core,
             \/ Send(c) \/ ExitSwitch(c) \/ KillDone(c) \/ BlockSwitch(c) \/ Tick(c)
             \/ \E d \in Core : TickSwitch(c, d) \/ TickSkip(c, d) \/ LookForOverloaded(c, d)
      PROVE  Unregistered'
  <2>1. making' = making
    BY <1>8, Zenon DEF Send, ExitSwitch, KillDone, BlockSwitch, Tick, TickSwitch, TickSkip,
       Rebalance, LookForOverloaded
  <2> QED
    BY <1>2, <1>8, <2>1, CoreAsksNobody, Zenon
<1>9. ASSUME UNCHANGED <<making, joiners, op>> PROVE Unregistered'
  BY <1>9 DEF Unregistered
<1>10. CASE UNCHANGED vars
  BY <1>9, <1>10 DEF vars
<1>11. ASSUME NEW t \in Thread, Expire(t) PROVE Unregistered'
  BY <1>9, <1>11, Zenon DEF Expire
<1>12. ASSUME NEW c \in Core, Locked(c) PROVE Unregistered'
  BY <1>5, <1>7, <1>8, <1>12 DEF Locked
<1> QED
  BY <1>6, <1>8, <1>10, <1>11, <1>12, Zenon DEF Next
==============================================================================
