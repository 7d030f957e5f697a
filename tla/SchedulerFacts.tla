--------------------------- MODULE SchedulerFacts ----------------------------
(***************************************************************************)
(* Facts about Scheduler, for any number of cores and threads and inboxes of *)
(* any capacity: the types of its operators, the inductive invariant IInv, *)
(* sequences that list nothing twice, and who holds which thread.          *)
(***************************************************************************)
EXTENDS Scheduler, TLAPS

(***************************************************************************)
(* Sequences: what the provers know of them, to be cited where needed.     *)
(***************************************************************************)
\* A sequence is a function on an interval from 1.
LEMMA SeqIs == \A S : Seq(S) = UNION {[1 .. n -> S] : n \in Nat}
OBVIOUS

\* The domain of a sequence.
LEMMA LenIs ==
  ASSUME NEW S, NEW q \in Seq(S)
  PROVE  Len(q) \in Nat /\ q \in [1 .. Len(q) -> S] /\ DOMAIN q = 1 .. Len(q)
OBVIOUS

\* Its elements.
LEMMA ElementIs ==
  ASSUME NEW S, NEW q \in Seq(S), NEW i \in 1 .. Len(q)
  PROVE  q[i] \in S
OBVIOUS

\* The set of its elements.
LEMMA RangeIs ==
  ASSUME NEW S, NEW q \in Seq(S)
  PROVE  Range(q) \in SUBSET S
BY DEF Range

\* A sequence over a set is one over every larger set.
LEMMA SeqWider ==
  ASSUME NEW S, NEW T, NEW q \in Seq(S), S \subseteq T
  PROVE  q \in Seq(T)
OBVIOUS

\* The empty sequence.
LEMMA EmptyIs ==
  ASSUME NEW S
  PROVE  /\ <<>> \in Seq(S) /\ Len(<<>>) = 0
         /\ \A q \in Seq(S) : q # <<>> => Len(q) \in Nat \ {0}
OBVIOUS

\* Append.
LEMMA AppendIs ==
  ASSUME NEW S, NEW q \in Seq(S), NEW x \in S
  PROVE  /\ Append(q, x) \in Seq(S) /\ Append(q, x) # <<>>
         /\ Len(Append(q, x)) = Len(q) + 1 /\ Append(q, x)[Len(q) + 1] = x
         /\ \A i \in 1 .. Len(q) : Append(q, x)[i] = q[i]
OBVIOUS

\* Head and Tail.
LEMMA TailIs ==
  ASSUME NEW S, NEW q \in Seq(S), q # <<>>
  PROVE  /\ Head(q) \in S /\ Tail(q) \in Seq(S) /\ Len(Tail(q)) = Len(q) - 1
         /\ \A i \in 1 .. Len(Tail(q)) : Tail(q)[i] = q[i + 1]
OBVIOUS

\* SubSeq.
LEMMA PartIs ==
  ASSUME NEW S, NEW q, NEW m \in Int, NEW n \in Int, \A i \in m .. n : q[i] \in S
  PROVE  /\ SubSeq(q, m, n) \in Seq(S)
         /\ Len(SubSeq(q, m, n)) = IF m <= n THEN n - m + 1 ELSE 0
         /\ \A i \in 1 .. n - m + 1 : SubSeq(q, m, n)[i] = q[m + i - 1]
OBVIOUS

\* Concatenation.
LEMMA ConcatIs ==
  ASSUME NEW S, NEW q \in Seq(S), NEW r \in Seq(S)
  PROVE  /\ q \o r \in Seq(S) /\ Len(q \o r) = Len(q) + Len(r)
         /\ \A i \in 1 .. Len(q) + Len(r) :
              (q \o r)[i] = IF i <= Len(q) THEN q[i] ELSE r[i - Len(q)]
OBVIOUS

(***************************************************************************)
(* Facts about the operators the model is built from.                      *)
(***************************************************************************)

\* The orders in which a set is pushed are sequences over it.
LEMMA OrderType ==
  ASSUME NEW S, NEW w \in Orders(S)
  PROVE  w \in Seq(S) /\ Len(w) \in Nat
<1>1. PICK n \in 0 .. Cardinality(S) : w \in Bijection(1 .. n, S)
  BY DEF Orders
<1>2. w \in [1 .. n -> S] /\ n \in Nat
  BY <1>1 DEF Bijection, Injection
<1>3. w \in Seq(S)
  BY <1>2, SeqIs
<1> QED
  BY <1>3, LenIs

\* Taking one thread out of a queue leaves a queue.
LEMMA WithoutType ==
  ASSUME NEW S, NEW q \in Seq(S), NEW u
  PROVE  Without(q, u) \in Seq(S)
<1>1. CASE u \notin Range(q)
  BY <1>1 DEF Without
<1>2. CASE u \in Range(q)
  <2> DEFINE i == CHOOSE j \in DOMAIN q : q[j] = u
  <2>1. i \in DOMAIN q
    BY <1>2 DEF Range
  <2>2. i \in 1 .. Len(q) /\ Len(q) \in Nat
    BY <2>1, LenIs
  <2>3. SubSeq(q, 1, i - 1) \in Seq(S) /\ SubSeq(q, i + 1, Len(q)) \in Seq(S)
    <3>1. \A j \in 1 .. i - 1 : q[j] \in S
      BY <2>2, ElementIs
    <3>2. \A j \in i + 1 .. Len(q) : q[j] \in S
      BY <2>2, ElementIs
    <3> HIDE DEF i
    <3> QED
      BY <3>1, <3>2, <2>2, PartIs
  <2>4. SubSeq(q, 1, i - 1) \o SubSeq(q, i + 1, Len(q)) \in Seq(S)
    BY <2>3, ConcatIs
  <2> QED
    BY <2>4, <1>2 DEF Without
<1> QED
  BY <1>1, <1>2

\* The wrapping counter stays in its range.
LEMMA PlusType ==
  ASSUME NEW n \in Int, NEW k \in Int
  PROVE  Plus(n, k) \in 0 .. RqWrap - 1
BY BoundAssumption DEF Plus

\* dec_rq_len keeps the counter in its range.
LEMMA DecType ==
  ASSUME NEW n \in Int
  PROVE  Plus(n, -1) \in 0 .. RqWrap - 1
<1>1. -1 \in Int
  OBVIOUS
<1> QED
  BY <1>1, PlusType

\* The two halves of a queue that balance_once splits.
LEMMA SplitType ==
  ASSUME NEW S, NEW q \in Seq(S), NEW k \in 0 .. Len(q)
  PROVE  /\ Oldest(q, k) \in Seq(S)
         /\ Newest(q, k) \in [1 .. k -> S]
<1>1. Len(q) \in Nat /\ \A j \in 1 .. Len(q) : q[j] \in S
  BY LenIs, ElementIs
<1>2. \A j \in 1 .. Len(q) - k : q[j] \in S
  BY <1>1
<1>3. Oldest(q, k) \in Seq(S)
  BY <1>1, <1>2, PartIs DEF Oldest
<1>4. \A i \in 1 .. k : q[Len(q) + 1 - i] \in S
  BY <1>1
<1> QED
  BY <1>3, <1>4 DEF Newest

\* balance_once never takes more threads than the queue holds, and never
\* sends more than the inbox has room for.
LEMMA MovesType ==
  ASSUME NEW c \in Core, NEW d \in Core, rqLen \in [Core -> Int], Len(ready[c]) \in Nat
  PROVE  Moves(c, d) \in 0 .. Len(ready[c])
BY DEF Moves, Surplus

\* What balance_once sends is a sequence of messages.
LEMMA SentType ==
  ASSUME NEW S, NEW c \in Core, NEW d \in Core, rqLen \in [Core -> Int],
         ready[c] \in Seq(S), Len(inbox[d]) \in 0 .. InboxCap
  PROVE  /\ Sent(c, d) \in Seq({ThreadMsg(t) : t \in S})
         /\ Len(Sent(c, d)) \in 0 .. InboxCap - Len(inbox[d])
<1> DEFINE k == Moves(c, d)
           room == InboxCap - Len(inbox[d])
           n == IF k <= room THEN k ELSE room
<1>1. Len(ready[c]) \in Nat
  BY LenIs
<1>2. k \in 0 .. Len(ready[c])
  BY <1>1, MovesType
<1>3. n \in 0 .. room /\ n <= k
  BY <1>1, <1>2, BoundAssumption
<1>4. Newest(ready[c], k) \in [1 .. k -> S]
  BY <1>2, SplitType
<1>5. Sent(c, d) = [i \in 1 .. n |-> ThreadMsg(Newest(ready[c], k)[i])]
  BY DEF Sent
<1> HIDE DEF k, room, n
<1>6. Sent(c, d) \in [1 .. n -> {ThreadMsg(t) : t \in S}]
  BY <1>2, <1>3, <1>4, <1>5
<1>7. n \in Nat
  BY <1>3 DEF room
<1>8. Sent(c, d) \in Seq({ThreadMsg(t) : t \in S}) /\ Len(Sent(c, d)) = n
  BY <1>6, <1>7, SeqIs, LenIs
<1> QED
  BY <1>3, <1>8 DEF room

(***************************************************************************)
(* The inductive invariant.                                                *)
(***************************************************************************)
Counters ==
  /\ rqLen \in [Core -> 0 .. RqWrap - 1]
  /\ resched \in [Core -> BOOLEAN]
  /\ op \in [Core -> Op]

IInv ==
  /\ alive \subseteq Thread /\ fresh \subseteq Thread /\ due \subseteq Thread
  /\ \A c \in Core : Len(inbox[c]) <= InboxCap
  /\ Counters
  /\ FreshIsNowhere
  /\ ExitedIsDead
  /\ JoinerHasWaker

\* The parts of the state a switch or a wake-up changes, for a set S of threads.
Lists(S) ==
  /\ current \in [Core -> S \cup {Idle}]
  /\ ready \in [Core -> Seq(S)]
  /\ sleeping \in [Core -> SUBSET S]

(***************************************************************************)
(* What a step keeps.                                                      *)
(***************************************************************************)
Born == Thread \ fresh

\* What IInv says of one core.
LEMMA CoreFacts ==
  ASSUME IInv, NEW c \in Core
  PROVE  /\ op[c] \in Op
         /\ rqLen[c] \in Int
         /\ current[c] \in Born \cup {Idle}
         /\ ready[c] \in Seq(Born) /\ Len(ready[c]) \in Nat
         /\ sleeping[c] \in SUBSET Born
         /\ joiners[c] \in [Thread -> SUBSET Born]
         /\ inbox[c] \in Seq(GoodMessage) /\ Len(inbox[c]) \in 0 .. InboxCap
<1>1. op[c] \in Op /\ rqLen[c] \in Int
  BY DEF IInv, Counters
<1>2. /\ current[c] \in Born \cup {Idle} /\ ready[c] \in Seq(Born)
      /\ sleeping[c] \in SUBSET Born /\ joiners[c] \in [Thread -> SUBSET Born]
  BY DEF IInv, FreshIsNowhere, Born
<1>3. inbox[c] \in Seq(GoodMessage) /\ Len(inbox[c]) <= InboxCap
  BY DEF IInv, ExitedIsDead
<1>4. Len(ready[c]) \in Nat /\ Len(inbox[c]) \in Nat
  BY <1>2, <1>3, LenIs
<1> QED
  BY <1>1, <1>2, <1>3, <1>4, BoundAssumption

\* What IInv says of all of them.
LEMMA GlobalFacts ==
  ASSUME IInv
  PROVE  /\ Counters /\ Lists(Born) /\ Born \subseteq Thread
         /\ joiners \in [Core -> [Thread -> SUBSET Born]]
         /\ inbox \in [Core -> Seq(GoodMessage)] /\ inbox \in [Core -> Seq(Message)]
<1>1. Counters /\ Lists(Born) /\ joiners \in [Core -> [Thread -> SUBSET Born]]
  BY DEF IInv, FreshIsNowhere, Lists, Born
<1>2. GoodMessage \subseteq Message
  BY DEF GoodMessage
<1>3. inbox \in [Core -> Seq(GoodMessage)]
  BY DEF IInv, ExitedIsDead
<1>4. \A e \in Core : inbox[e] \in Seq(Message)
  BY <1>2, <1>3, SeqWider
<1>5. Born \subseteq Thread
  BY DEF Born
<1> QED
  BY <1>1, <1>3, <1>4, <1>5

\* The join maps as IInv has them.
LEMMA JoinFacts ==
  ASSUME IInv
  PROVE  /\ joiners \in [Core -> [Thread -> SUBSET Born]]
         /\ \A e \in Core, x \in fresh : joiners[e][x] = {}
BY DEF IInv, FreshIsNowhere, Born

\* The invariant is strong enough for the types.
LEMMA IInvTypeOK == IInv => TypeOK
<1> SUFFICES ASSUME IInv PROVE TypeOK
  OBVIOUS
<1>1. Born \subseteq Thread /\ Lists(Born) /\ inbox \in [Core -> Seq(Message)]
  BY GlobalFacts
<1>2. \A c \in Core : ready[c] \in Seq(Thread)
  BY <1>1, SeqWider DEF Lists
<1>3. joiners \in [Core -> [Thread -> SUBSET Thread]]
  BY <1>1, JoinFacts
<1>4. /\ current \in [Core -> Thread \cup {Idle}] /\ ready \in [Core -> Seq(Thread)]
      /\ sleeping \in [Core -> SUBSET Thread]
  BY <1>1, <1>2 DEF Lists
<1>5. making \in [Thread -> SUBSET Thread]
  BY DEF IInv, FreshIsNowhere
<1> QED
  BY <1>1, <1>3, <1>4, <1>5 DEF IInv, TypeOK, Counters

\* A thread added to the end of a queue it is not in.
LEMMA AppendOnce ==
  ASSUME NEW S, NEW q \in Seq(S), NEW u \in S
  PROVE  /\ Range(Append(q, u)) = Range(q) \cup {u}
         /\ IsInjective(q) /\ u \notin Range(q) => IsInjective(Append(q, u))
<1>1. /\ Len(q) \in Nat /\ DOMAIN q = 1 .. Len(q)
      /\ DOMAIN Append(q, u) = 1 .. Len(q) + 1
      /\ \A i \in 1 .. Len(q) : Append(q, u)[i] = q[i]
      /\ Append(q, u)[Len(q) + 1] = u
  BY AppendIs, LenIs
<1>2. Range(Append(q, u)) = Range(q) \cup {u}
  BY <1>1 DEF Range
<1>3. ASSUME IsInjective(q), u \notin Range(q) PROVE IsInjective(Append(q, u))
  BY <1>1, <1>3 DEF Range, IsInjective
<1> QED
  BY <1>2, <1>3

\* The head of a queue is in it, and once it is taken out no more.
LEMMA TailOnce ==
  ASSUME NEW S, NEW q \in Seq(S), q # <<>>
  PROVE  /\ Head(q) \in Range(q)
         /\ Range(q) = Range(Tail(q)) \cup {Head(q)}
         /\ IsInjective(q) => IsInjective(Tail(q)) /\ Head(q) \notin Range(Tail(q))
<1>1. /\ Len(q) \in Nat \ {0} /\ DOMAIN q = 1 .. Len(q)
      /\ DOMAIN Tail(q) = 1 .. Len(q) - 1
      /\ \A i \in 1 .. Len(q) - 1 : Tail(q)[i] = q[i + 1]
      /\ Head(q) = q[1]
  BY TailIs, LenIs, EmptyIs
<1>2. Head(q) \in Range(q)
  BY <1>1 DEF Range
<1>3. Range(Tail(q)) \subseteq Range(q)
  BY <1>1 DEF Range
<1>4. ASSUME NEW x \in Range(q), x # Head(q) PROVE x \in Range(Tail(q))
  <2>1. PICK i \in 1 .. Len(q) : q[i] = x
    BY <1>1 DEF Range
  <2>2. i # 1 /\ i - 1 \in 1 .. Len(q) - 1
    BY <1>1, <1>4, <2>1
  <2>3. Tail(q)[i - 1] = x
    BY <1>1, <2>1, <2>2
  <2> QED
    BY <1>1, <2>2, <2>3, Zenon DEF Range
<1>5. ASSUME IsInjective(q) PROVE IsInjective(Tail(q)) /\ Head(q) \notin Range(Tail(q))
  BY <1>1, <1>5 DEF Range, IsInjective
<1> QED
  BY <1>2, <1>3, <1>4, <1>5

\* An order of a set lists each of its elements once.
LEMMA OrderOnce ==
  ASSUME NEW W, NEW w \in Orders(W)
  PROVE  Range(w) = W /\ IsInjective(w)
<1>1. /\ \A x \in W : \E i \in DOMAIN w : w[i] = x
      /\ \A i \in DOMAIN w : w[i] \in W
      /\ \A i, j \in DOMAIN w : w[i] = w[j] => i = j
  <2>1. PICK n \in 0 .. Cardinality(W) : w \in Bijection(1 .. n, W)
    BY DEF Orders
  <2> QED
    BY <2>1 DEF Bijection, Injection, Surjection, IsInjective
<1> QED
  BY <1>1 DEF Range, IsInjective

\* Two sequences one after the other.
LEMMA JoinOnce ==
  ASSUME NEW S, NEW q \in Seq(S), NEW w \in Seq(S)
  PROVE  /\ Range(q \o w) = Range(q) \cup Range(w)
         /\ Len(q \o w) = Len(q) + Len(w)
         /\ IsInjective(q) /\ IsInjective(w) /\ Range(q) \cap Range(w) = {}
              => IsInjective(q \o w)
<1> DEFINE W == Range(w)
<1>1. w \in Seq(S) /\ Len(w) \in Nat
  BY LenIs
<1>2. /\ Len(q) \in Nat /\ DOMAIN q = 1 .. Len(q) /\ DOMAIN w = 1 .. Len(w)
      /\ Len(q \o w) = Len(q) + Len(w)
      /\ DOMAIN (q \o w) = 1 .. Len(q) + Len(w)
      /\ \A i \in 1 .. Len(q) + Len(w) : (q \o w)[i] = IF i <= Len(q) THEN q[i] ELSE w[i - Len(q)]
  BY <1>1, LenIs, ConcatIs
<1>3. /\ \A x \in W : \E i \in DOMAIN w : w[i] = x
      /\ \A i \in DOMAIN w : w[i] \in W
  BY DEF Range
<1> HIDE DEF W
<1>4. ASSUME NEW x \in Range(q \o w) PROVE x \in Range(q) \cup W
  BY <1>1, <1>2, <1>3 DEF Range
<1>5. ASSUME NEW x \in Range(q) PROVE x \in Range(q \o w)
  BY <1>1, <1>2 DEF Range
<1>6. ASSUME NEW x \in W PROVE x \in Range(q \o w)
  <2>1. PICK i \in 1 .. Len(w) : w[i] = x
    BY <1>2, <1>3
  <2>2. Len(q) + i \in 1 .. Len(q) + Len(w) /\ ~ (Len(q) + i <= Len(q)) /\ (Len(q) + i) - Len(q) = i
    BY <1>1, <1>2
  <2>3. (q \o w)[Len(q) + i] = x
    BY <1>2, <2>1, <2>2
  <2> QED
    BY <1>2, <2>2, <2>3 DEF Range
<1>7. ASSUME IsInjective(q), IsInjective(w), Range(q) \cap W = {},
             NEW i \in 1 .. Len(q) + Len(w), NEW j \in 1 .. Len(q) + Len(w),
             (q \o w)[i] = (q \o w)[j]
      PROVE  i = j
  <2>1. \A k \in 1 .. Len(q) : q[k] \in Range(q)
    BY <1>2 DEF Range
  <2>2. \A k \in 1 .. Len(q) + Len(w) : ~ (k <= Len(q)) => k - Len(q) \in 1 .. Len(w)
    BY <1>1, <1>2
  <2>3. CASE i <= Len(q) /\ j <= Len(q)
    BY <1>2, <1>7, <2>3 DEF IsInjective
  <2>4. CASE ~ (i <= Len(q)) /\ ~ (j <= Len(q))
    <3>1. w[i - Len(q)] = w[j - Len(q)]
      BY <1>2, <1>7, <2>4
    <3>2. i - Len(q) = j - Len(q)
      BY <1>2, <1>7, <2>2, <2>4, <3>1 DEF IsInjective
    <3> QED
      BY <1>1, <1>2, <3>2
  <2>5. CASE i <= Len(q) /\ ~ (j <= Len(q))
    BY <1>2, <1>3, <1>7, <2>1, <2>2, <2>5
  <2>6. CASE ~ (i <= Len(q)) /\ j <= Len(q)
    BY <1>2, <1>3, <1>7, <2>1, <2>2, <2>6
  <2> QED
    BY <2>3, <2>4, <2>5, <2>6
<1> QED
  BY <1>2, <1>4, <1>5, <1>6, <1>7 DEF IsInjective, W

\* Pushing the elements of a set that has none in the queue, in any order.
LEMMA PushOnce ==
  ASSUME NEW S, NEW q \in Seq(S), NEW W \in SUBSET S, NEW w \in Orders(W)
  PROVE  /\ Range(q \o w) = Range(q) \cup W
         /\ Len(q \o w) = Len(q) + Len(w)
         /\ IsInjective(q) /\ Range(q) \cap W = {} => IsInjective(q \o w)
<1>1. w \in Seq(S)
  BY OrderType, SeqWider
<1>2. Range(w) = W /\ IsInjective(w)
  BY OrderOnce
<1> QED
  BY <1>1, <1>2, JoinOnce

\* A part of a queue.
LEMMA SubSeqIs ==
  ASSUME NEW S, NEW q \in Seq(S), NEW m \in 1 .. Len(q) + 1, NEW n \in 0 .. Len(q), m <= n + 1
  PROVE  /\ SubSeq(q, m, n) \in Seq(S)
         /\ Len(SubSeq(q, m, n)) = n - m + 1
         /\ \A i \in 1 .. n - m + 1 : SubSeq(q, m, n)[i] = q[m + i - 1]
<1>1. Len(q) \in Nat /\ m \in Int /\ n \in Int
  BY LenIs
<1>2. \A i \in m .. n : q[i] \in S
  BY <1>1, ElementIs
<1>3. (IF m <= n THEN n - m + 1 ELSE 0) = n - m + 1
  BY <1>1
<1>4. /\ SubSeq(q, m, n) \in Seq(S)
      /\ Len(SubSeq(q, m, n)) = IF m <= n THEN n - m + 1 ELSE 0
      /\ \A i \in 1 .. n - m + 1 : SubSeq(q, m, n)[i] = q[m + i - 1]
  BY <1>1, <1>2, PartIs
<1> QED
  BY <1>3, <1>4

\* retain: what is left was in the queue, once.
LEMMA WithoutOnce ==
  ASSUME NEW S, NEW q \in Seq(S), NEW u, IsInjective(q)
  PROVE  Range(Without(q, u)) \subseteq Range(q) /\ IsInjective(Without(q, u))
<1>1. CASE u \notin Range(q)
  BY <1>1 DEF Without
<1>2. CASE u \in Range(q)
  <2> DEFINE k == CHOOSE j \in DOMAIN q : q[j] = u
             a == SubSeq(q, 1, k - 1)
             b == SubSeq(q, k + 1, Len(q))
  <2>1. k \in 1 .. Len(q) /\ Len(q) \in Nat /\ DOMAIN q = 1 .. Len(q)
    <3>1. k \in DOMAIN q
      BY <1>2 DEF Range
    <3> QED
      BY <3>1, LenIs
  <2>2. Without(q, u) = a \o b
    BY <1>2, Zenon DEF Without
  <2> HIDE DEF k
  <2>3. /\ a \in Seq(S) /\ Len(a) = k - 1 /\ \A i \in 1 .. k - 1 : a[i] = q[i]
        /\ b \in Seq(S) /\ Len(b) = Len(q) - k /\ \A i \in 1 .. Len(q) - k : b[i] = q[k + i]
    <3>1. /\ 1 \in 1 .. Len(q) + 1 /\ k - 1 \in 0 .. Len(q) /\ 1 <= (k - 1) + 1
          /\ k + 1 \in 1 .. Len(q) + 1 /\ Len(q) \in 0 .. Len(q) /\ k + 1 <= Len(q) + 1
      BY <2>1
    <3>2. a \in Seq(S) /\ Len(a) = k - 1 /\ \A i \in 1 .. k - 1 : a[i] = q[i]
      BY <2>1, <3>1, SubSeqIs
    <3>3. /\ b \in Seq(S) /\ Len(b) = Len(q) - (k + 1) + 1
          /\ \A i \in 1 .. Len(q) - (k + 1) + 1 : b[i] = q[(k + 1) + i - 1]
      BY <2>1, <3>1, SubSeqIs, Zenon
    <3>4. Len(q) - (k + 1) + 1 = Len(q) - k /\ \A i \in Int : (k + 1) + i - 1 = k + i
      BY <2>1
    <3> HIDE DEF a, b
    <3>5. ASSUME NEW i \in 1 .. Len(q) - k PROVE b[i] = q[k + i]
      <4>1. (k + 1) + i - 1 = k + i /\ i \in 1 .. Len(q) - (k + 1) + 1
        BY <2>1
      <4> QED
        BY <3>3, <4>1
    <3> QED
      BY <3>2, <3>3, <3>4, <3>5
  <2> HIDE DEF a, b
  <2>4. /\ DOMAIN (a \o b) = 1 .. Len(q) - 1
        /\ \A i \in 1 .. Len(q) - 1 : (a \o b)[i] = IF i < k THEN q[i] ELSE q[i + 1]
    <3>1. /\ a \o b \in Seq(S) /\ Len(a \o b) = Len(a) + Len(b)
          /\ \A i \in 1 .. Len(a) + Len(b) :
                (a \o b)[i] = IF i <= Len(a) THEN a[i] ELSE b[i - Len(a)]
      BY <2>3, ConcatIs, Zenon
    <3>2. Len(a) + Len(b) = Len(q) - 1
      BY <2>1, <2>3
    <3>3. DOMAIN (a \o b) = 1 .. Len(q) - 1
      BY <3>1, <3>2, LenIs
    <3>4. ASSUME NEW i \in 1 .. Len(q) - 1, i < k PROVE (a \o b)[i] = q[i]
      <4>1. i \in 1 .. k - 1 /\ i <= Len(a) /\ i \in 1 .. Len(a) + Len(b)
        BY <2>1, <2>3, <3>2, <3>4
      <4>2. (a \o b)[i] = a[i]
        BY <3>1, <4>1
      <4> QED
        BY <2>3, <4>1, <4>2, Zenon
    <3>5. ASSUME NEW i \in 1 .. Len(q) - 1, ~ (i < k) PROVE (a \o b)[i] = q[i + 1]
      <4>1. i - Len(a) \in 1 .. Len(q) - k /\ k + (i - Len(a)) = i + 1 /\ ~ (i <= Len(a))
        BY <2>1, <2>3, <3>5
      <4>2. b[i - Len(a)] = q[k + (i - Len(a))]
        BY <2>3, <4>1
      <4> QED
        BY <3>1, <3>2, <4>1, <4>2
    <3> QED
      BY <3>3, <3>4, <3>5
  <2>5. \A i \in 1 .. Len(q) - 1 : i \in DOMAIN q /\ i + 1 \in DOMAIN q
    BY <2>1
  <2>6. Range(a \o b) \subseteq Range(q)
    BY <2>4, <2>5 DEF Range
  <2>7. IsInjective(a \o b)
    <3>1. ASSUME NEW i \in 1 .. Len(q) - 1, NEW j \in 1 .. Len(q) - 1, (a \o b)[i] = (a \o b)[j]
          PROVE  i = j
      <4> DEFINE old_i == IF i < k THEN i ELSE i + 1
                 old_j == IF j < k THEN j ELSE j + 1
      <4>1. q[old_i] = q[old_j]
        BY <2>4, <3>1, Zenon
      <4>2. old_i \in DOMAIN q /\ old_j \in DOMAIN q
        BY <2>5
      <4>3. old_i = old_j
        BY <4>1, <4>2 DEF IsInjective
      <4> QED
        BY <2>1, <4>3
    <3> QED
      BY <2>4, <3>1, Zenon DEF IsInjective
  <2> QED
    BY <2>2, <2>6, <2>7
<1> QED
  BY <1>1, <1>2

\* balance_once splits a queue in two.
LEMMA SplitOnce ==
  ASSUME NEW S, NEW q \in Seq(S), NEW k \in 0 .. Len(q)
  PROVE  /\ Range(q) = Range(Oldest(q, k)) \cup Range(Newest(q, k))
         /\ Len(Oldest(q, k)) = Len(q) - k
         /\ IsInjective(q) => /\ IsInjective(Oldest(q, k)) /\ IsInjective(Newest(q, k))
                              /\ Range(Oldest(q, k)) \cap Range(Newest(q, k)) = {}
<1>1. Len(q) \in Nat /\ DOMAIN q = 1 .. Len(q) /\ \A j \in 1 .. Len(q) : q[j] \in S
  BY LenIs, ElementIs
<1>2. /\ DOMAIN Oldest(q, k) = 1 .. Len(q) - k
      /\ Len(Oldest(q, k)) = Len(q) - k
      /\ \A j \in 1 .. Len(q) - k : Oldest(q, k)[j] = q[j]
  <2>1. \A j \in 1 .. Len(q) - k : q[j] \in S
    BY <1>1
  <2>2. 1 <= Len(q) - k + 1 /\ Len(q) - k \in Int
    BY <1>1
  <2>3. /\ Oldest(q, k) \in Seq(S) /\ Len(Oldest(q, k)) = Len(q) - k
        /\ \A j \in 1 .. Len(q) - k : Oldest(q, k)[j] = q[j]
    BY <2>1, <2>2, PartIs DEF Oldest
  <2> QED
    BY <2>3, LenIs
<1>3. DOMAIN Newest(q, k) = 1 .. k /\ \A j \in 1 .. k : Newest(q, k)[j] = q[Len(q) + 1 - j]
  BY DEF Newest
<1>4. ASSUME NEW x \in Range(q) PROVE x \in Range(Oldest(q, k)) \cup Range(Newest(q, k))
  <2>1. PICK i \in 1 .. Len(q) : q[i] = x
    BY <1>1 DEF Range
  <2>2. CASE i <= Len(q) - k
    <3>1. i \in 1 .. Len(q) - k
      BY <1>1, <2>2
    <3> QED
      BY <1>2, <2>1, <3>1 DEF Range
  <2>3. CASE ~ (i <= Len(q) - k)
    <3>1. Len(q) + 1 - i \in 1 .. k /\ Len(q) + 1 - (Len(q) + 1 - i) = i
      BY <1>1, <2>3
    <3>2. Newest(q, k)[Len(q) + 1 - i] = x
      BY <1>3, <2>1, <3>1
    <3> QED
      BY <1>3, <3>1, <3>2 DEF Range
  <2> QED
    BY <2>2, <2>3
<1>5. \A j \in 1 .. k : Len(q) + 1 - j \in 1 .. Len(q)
  BY <1>1
<1>6. Range(Oldest(q, k)) \subseteq Range(q) /\ Range(Newest(q, k)) \subseteq Range(q)
  <2>1. ASSUME NEW j \in 1 .. Len(q) - k PROVE Oldest(q, k)[j] \in Range(q)
    <3>1. j \in DOMAIN q /\ Oldest(q, k)[j] = q[j]
      BY <1>1, <1>2
    <3> QED
      BY <3>1 DEF Range
  <2>2. \A j \in 1 .. k : Newest(q, k)[j] \in Range(q)
    BY <1>1, <1>3, <1>5 DEF Range
  <2>3. /\ Range(Oldest(q, k)) = {Oldest(q, k)[j] : j \in 1 .. Len(q) - k}
        /\ Range(Newest(q, k)) = {Newest(q, k)[j] : j \in 1 .. k}
    BY <1>2, <1>3 DEF Range
  <2> QED
    BY <2>1, <2>2, <2>3
<1>7. ASSUME IsInjective(q)
      PROVE  /\ IsInjective(Oldest(q, k)) /\ IsInjective(Newest(q, k))
             /\ Range(Oldest(q, k)) \cap Range(Newest(q, k)) = {}
  <2>1. IsInjective(Oldest(q, k))
    BY <1>1, <1>2, <1>7 DEF IsInjective
  <2>2. IsInjective(Newest(q, k))
    <3>1. ASSUME NEW i \in 1 .. k, NEW j \in 1 .. k, Newest(q, k)[i] = Newest(q, k)[j]
          PROVE  i = j
      <4>1. Len(q) + 1 - i = Len(q) + 1 - j
        BY <1>1, <1>3, <1>5, <1>7, <3>1 DEF IsInjective
      <4> QED
        BY <1>1, <4>1
    <3> QED
      BY <1>3, <3>1 DEF IsInjective
  <2>3. ASSUME NEW i \in 1 .. Len(q) - k, NEW j \in 1 .. k, Oldest(q, k)[i] = Newest(q, k)[j]
        PROVE  FALSE
    <3>1. q[i] = q[Len(q) + 1 - j] /\ i \in DOMAIN q /\ Len(q) + 1 - j \in DOMAIN q
      BY <1>1, <1>2, <1>3, <1>5, <2>3
    <3>2. i = Len(q) + 1 - j
      BY <1>7, <3>1 DEF IsInjective
    <3> QED
      BY <1>1, <3>2
  <2> QED
    BY <1>2, <1>3, <2>1, <2>2, <2>3 DEF Range
<1> QED
  BY <1>2, <1>4, <1>6, <1>7

\* The threads on their way in an inbox, each in one message.
Carried(m) == {t \in Thread : ThreadMsg(t) \in Range(m)}

CarriedOnce(m) ==
  \A i, j \in DOMAIN m : m[i] = m[j] /\ m[i].type = "Thread" => i = j

\* A message is taken out of an inbox.
LEMMA TakeOnce ==
  ASSUME NEW m \in Seq(Message), m # <<>>
  PROVE  /\ Carried(Tail(m)) \subseteq Carried(m)
         /\ Head(m).type # "Thread" => Carried(Tail(m)) = Carried(m)
         /\ CarriedOnce(m) => CarriedOnce(Tail(m))
         /\ \A t \in Thread : Head(m) = ThreadMsg(t) =>
              /\ Carried(m) = Carried(Tail(m)) \cup {t}
              /\ CarriedOnce(m) => t \notin Carried(Tail(m))
<1>1. /\ Len(m) \in Nat \ {0} /\ DOMAIN m = 1 .. Len(m)
      /\ DOMAIN Tail(m) = 1 .. Len(m) - 1
      /\ \A i \in 1 .. Len(m) - 1 : Tail(m)[i] = m[i + 1]
      /\ Head(m) = m[1]
  BY TailIs, LenIs, EmptyIs
<1>2. Range(m) = Range(Tail(m)) \cup {Head(m)}
  BY TailOnce
<1>3. \A t \in Thread : ThreadMsg(t).type = "Thread" /\ ThreadMsg(t).tid = t
  BY DEF ThreadMsg
<1>4. /\ Carried(Tail(m)) \subseteq Carried(m)
      /\ Head(m).type # "Thread" => Carried(Tail(m)) = Carried(m)
  BY <1>2, <1>3 DEF Carried
<1>5. ASSUME CarriedOnce(m) PROVE CarriedOnce(Tail(m))
  BY <1>1, <1>5 DEF CarriedOnce
<1>6. ASSUME NEW t \in Thread, Head(m) = ThreadMsg(t)
      PROVE  Carried(m) = Carried(Tail(m)) \cup {t}
  BY <1>2, <1>3, <1>6 DEF Carried
<1>7. ASSUME NEW t \in Thread, Head(m) = ThreadMsg(t), CarriedOnce(m), t \in Carried(Tail(m))
      PROVE  FALSE
  <2>1. PICK i \in 1 .. Len(m) - 1 : Tail(m)[i] = ThreadMsg(t)
    BY <1>1, <1>7 DEF Carried, Range
  <2>2. m[i + 1] = m[1] /\ m[1].type = "Thread" /\ i + 1 \in DOMAIN m /\ 1 \in DOMAIN m
    BY <1>1, <1>3, <1>7, <2>1
  <2>3. i + 1 = 1
    BY <1>7, <2>2 DEF CarriedOnce
  <2> QED
    BY <1>1, <2>3
<1> QED
  BY <1>4, <1>5, <1>6, <1>7

\* Messages are added to an inbox.
LEMMA AddOnce ==
  ASSUME NEW m \in Seq(Message), NEW s \in Seq(Message)
  PROVE  /\ Carried(m \o s) = Carried(m) \cup Carried(s)
         /\ CarriedOnce(m) /\ CarriedOnce(s) /\ Carried(m) \cap Carried(s) = {}
              => CarriedOnce(m \o s)
<1>1. /\ Len(m) \in Nat /\ DOMAIN m = 1 .. Len(m)
      /\ Len(s) \in Nat /\ DOMAIN s = 1 .. Len(s)
      /\ DOMAIN (m \o s) = 1 .. Len(m) + Len(s)
      /\ \A i \in 1 .. Len(m) + Len(s) : (m \o s)[i] = IF i <= Len(m) THEN m[i] ELSE s[i - Len(m)]
  BY LenIs, ConcatIs
<1>2. Carried(m \o s) = Carried(m) \cup Carried(s)
  BY JoinOnce DEF Carried
<1>3. ASSUME CarriedOnce(m), CarriedOnce(s), Carried(m) \cap Carried(s) = {},
             NEW i \in 1 .. Len(m) + Len(s), NEW j \in 1 .. Len(m) + Len(s),
             (m \o s)[i] = (m \o s)[j], (m \o s)[i].type = "Thread"
      PROVE  i = j
  <2>1. ASSUME NEW k \in 1 .. Len(m), NEW l \in 1 .. Len(s), m[k] = s[l], m[k].type = "Thread"
        PROVE  FALSE
    <3>1. m[k] \in Message
      BY <1>1, ElementIs
    <3>2. m[k] = ThreadMsg(m[k].tid) /\ m[k].tid \in Thread
      BY <2>1, <3>1 DEF Message, ThreadMsg
    <3>3. m[k] \in Range(m) /\ m[k] \in Range(s)
      BY <1>1, <2>1 DEF Range
    <3> QED
      BY <1>3, <3>2, <3>3 DEF Carried
  <2>2. \A k \in 1 .. Len(m) + Len(s) : ~ (k <= Len(m)) => k - Len(m) \in 1 .. Len(s)
    BY <1>1
  <2>3. CASE i <= Len(m) /\ j <= Len(m)
    BY <1>1, <1>3, <2>3 DEF CarriedOnce
  <2>4. CASE ~ (i <= Len(m)) /\ ~ (j <= Len(m))
    <3>1. s[i - Len(m)] = s[j - Len(m)] /\ s[i - Len(m)].type = "Thread"
      BY <1>1, <1>3, <2>4
    <3>2. i - Len(m) = j - Len(m)
      BY <1>1, <1>3, <2>2, <2>4, <3>1, Zenon DEF CarriedOnce
    <3> QED
      BY <1>1, <3>2
  <2>5. CASE i <= Len(m) /\ ~ (j <= Len(m))
    BY <1>1, <1>3, <2>1, <2>2, <2>5
  <2>6. CASE ~ (i <= Len(m)) /\ j <= Len(m)
    BY <1>1, <1>3, <2>1, <2>2, <2>6
  <2> QED
    BY <2>3, <2>4, <2>5, <2>6
<1> QED
  BY <1>1, <1>2, <1>3 DEF CarriedOnce

\* A command is added to an inbox.
LEMMA CommandOnce ==
  ASSUME NEW m \in Seq(Message), NEW x \in Message, x.type # "Thread"
  PROVE  /\ Carried(Append(m, x)) = Carried(m)
         /\ CarriedOnce(m) => CarriedOnce(Append(m, x))
<1>1. /\ Len(m) \in Nat /\ DOMAIN m = 1 .. Len(m)
      /\ DOMAIN Append(m, x) = 1 .. Len(m) + 1
      /\ \A i \in 1 .. Len(m) : Append(m, x)[i] = m[i]
      /\ Append(m, x)[Len(m) + 1] = x
  BY AppendIs, LenIs
<1>2. Range(Append(m, x)) = Range(m) \cup {x}
  BY AppendOnce
<1>3. \A t \in Thread : ThreadMsg(t) # x
  BY DEF ThreadMsg
<1>4. Carried(Append(m, x)) = Carried(m)
  BY <1>2, <1>3 DEF Carried
<1>5. ASSUME CarriedOnce(m) PROVE CarriedOnce(Append(m, x))
  BY <1>1, <1>5 DEF CarriedOnce
<1> QED
  BY <1>4, <1>5

\* What balance_once sends is part of what it takes out of the queue, all of it
\* when there is room.
LEMMA SentOnce ==
  ASSUME IInv, NEW c \in Core, NEW d \in Core, IsInjective(ready[c])
  PROVE  /\ Sent(c, d) \in Seq(Message)
         /\ Carried(Sent(c, d)) \subseteq Range(Newest(ready[c], Moves(c, d)))
         /\ Moves(c, d) <= InboxCap - Len(inbox[d])
              => Carried(Sent(c, d)) = Range(Newest(ready[c], Moves(c, d)))
         /\ CarriedOnce(Sent(c, d))
<1> DEFINE k == Moves(c, d)
           room == InboxCap - Len(inbox[d])
           n == IF k <= room THEN k ELSE room
           f == Newest(ready[c], k)
<1>1. /\ ready[c] \in Seq(Born) /\ Len(ready[c]) \in Nat /\ Len(inbox[d]) \in 0 .. InboxCap
      /\ rqLen \in [Core -> Int] /\ Born \subseteq Thread
  BY CoreFacts, GlobalFacts DEF Counters
<1>2. k \in 0 .. Len(ready[c])
  BY <1>1, MovesType
<1>3. f \in [1 .. k -> Thread] /\ IsInjective(f)
  BY <1>1, <1>2, SplitType, SplitOnce
<1>4. Sent(c, d) = [i \in 1 .. n |-> ThreadMsg(f[i])]
  BY DEF Sent
<1>5. n \in Nat /\ n <= k /\ (k <= room => n = k)
  BY <1>1, <1>2, BoundAssumption
<1> HIDE DEF k, room, n, f
<1>6. /\ DOMAIN Sent(c, d) = 1 .. n /\ DOMAIN f = 1 .. k
      /\ \A i \in 1 .. n : i \in 1 .. k /\ f[i] \in Thread /\ Sent(c, d)[i] = ThreadMsg(f[i])
  BY <1>2, <1>3, <1>4, <1>5
<1>7. Sent(c, d) \in Seq(Message)
  <2>1. \A t \in Thread : ThreadMsg(t) \in Message
    BY DEF ThreadMsg, Message
  <2>2. Sent(c, d) \in [1 .. n -> Message]
    BY <1>4, <1>6, <2>1
  <2> QED
    BY <1>5, <2>2, SeqIs
<1>8. \A t, u \in Thread : ThreadMsg(t) = ThreadMsg(u) => t = u
  BY DEF ThreadMsg
<1>9. Carried(Sent(c, d)) \subseteq Range(f)
  BY <1>6, <1>8 DEF Carried, Range
<1>10. ASSUME k <= room, NEW t \in Range(f) PROVE t \in Carried(Sent(c, d))
  <2>1. PICK i \in 1 .. k : f[i] = t
    BY <1>6 DEF Range
  <2>2. i \in 1 .. n
    BY <1>5, <1>10, <2>1
  <2> QED
    BY <1>6, <2>1, <2>2 DEF Carried, Range
<1>11. CarriedOnce(Sent(c, d))
  BY <1>3, <1>6, <1>8 DEF CarriedOnce, IsInjective
<1> QED
  BY <1>7, <1>9, <1>10, <1>11, Zenon DEF k, room, f

(***************************************************************************)
(* Holders.                                                                *)
(***************************************************************************)
MadeBy(x)   == <<"made", x, 0>>
Runs(c)     == <<"current", c, 0>>
Queue(c)    == <<"ready", c, 0>>
Bed(c)      == <<"sleep", c, 0>>
Wait(c, x)  == <<"join", c, x>>
Post(c)     == <<"inbox", c, 0>>

Holder ==
       {MadeBy(x) : x \in Thread}
  \cup {Runs(c) : c \in Core} \cup {Queue(c) : c \in Core}
  \cup {Bed(c) : c \in Core} \cup {Post(c) : c \in Core}
  \cup {Wait(c, x) : c \in Core, x \in Thread}

\* The thread that runs on c and has not entered another list.
RunsOn(c) == IF Departed(c) \/ current[c] = Idle THEN {} ELSE {current[c]}

held ==
  [k \in Holder |-> CASE k[1] = "made"    -> making[k[2]]
                      [] k[1] = "current" -> RunsOn(k[2])
                      [] k[1] = "ready"   -> Range(ready[k[2]])
                      [] k[1] = "sleep"   -> sleeping[k[2]]
                      [] k[1] = "join"    -> joiners[k[2]][k[3]]
                      [] k[1] = "inbox"   -> Carried(inbox[k[2]])]

\* What each holder has.
LEMMA HeldIs ==
  /\ DOMAIN held = Holder
  /\ \A x \in Thread : MadeBy(x) \in Holder /\ held[MadeBy(x)] = making[x]
  /\ \A c \in Core : Runs(c) \in Holder /\ held[Runs(c)] = RunsOn(c)
  /\ \A c \in Core : Queue(c) \in Holder /\ held[Queue(c)] = Range(ready[c])
  /\ \A c \in Core : Bed(c) \in Holder /\ held[Bed(c)] = sleeping[c]
  /\ \A c \in Core : Post(c) \in Holder /\ held[Post(c)] = Carried(inbox[c])
  /\ \A c \in Core, x \in Thread : Wait(c, x) \in Holder /\ held[Wait(c, x)] = joiners[c][x]
<1>1. /\ \A x \in Thread : MadeBy(x) \in Holder
      /\ \A c \in Core : {Runs(c), Queue(c), Bed(c), Post(c)} \subseteq Holder
      /\ \A c \in Core, x \in Thread : Wait(c, x) \in Holder
  BY DEF Holder
<1>2. DOMAIN held = Holder
  BY DEF held
<1>3. ASSUME NEW x \in Thread PROVE held[MadeBy(x)] = making[x]
  BY <1>1 DEF held, MadeBy
<1>4. ASSUME NEW c \in Core PROVE held[Runs(c)] = RunsOn(c)
  BY <1>1 DEF held, Runs
<1>5. ASSUME NEW c \in Core PROVE held[Queue(c)] = Range(ready[c])
  BY <1>1 DEF held, Queue
<1>6. ASSUME NEW c \in Core PROVE held[Bed(c)] = sleeping[c]
  BY <1>1 DEF held, Bed
<1>7. ASSUME NEW c \in Core PROVE held[Post(c)] = Carried(inbox[c])
  BY <1>1 DEF held, Post
<1>8. ASSUME NEW c \in Core, NEW x \in Thread PROVE held[Wait(c, x)] = joiners[c][x]
  BY <1>1 DEF held, Wait
<1> QED
  BY <1>1, <1>2, <1>3, <1>4, <1>5, <1>6, <1>7, <1>8

\* What each holder has after a step.
LEMMA HeldWillBe ==
  /\ DOMAIN held' = Holder
  /\ \A x \in Thread : held'[MadeBy(x)] = making'[x]
  /\ \A c \in Core : held'[Runs(c)] = RunsOn(c)'
  /\ \A c \in Core : held'[Queue(c)] = Range(ready'[c])
  /\ \A c \in Core : held'[Bed(c)] = sleeping'[c]
  /\ \A c \in Core : held'[Post(c)] = Carried(inbox'[c])
  /\ \A c \in Core, x \in Thread : held'[Wait(c, x)] = joiners'[c][x]
<1>1. /\ \A x \in Thread : MadeBy(x) \in Holder
      /\ \A c \in Core : {Runs(c), Queue(c), Bed(c), Post(c)} \subseteq Holder
      /\ \A c \in Core, x \in Thread : Wait(c, x) \in Holder
  BY DEF Holder
<1>2. DOMAIN held' = Holder
  BY DEF held
<1>3. ASSUME NEW x \in Thread PROVE held'[MadeBy(x)] = making'[x]
  BY <1>1 DEF held, MadeBy
<1>4. ASSUME NEW c \in Core PROVE held'[Runs(c)] = RunsOn(c)'
  BY <1>1 DEF held, Runs
<1>5. ASSUME NEW c \in Core PROVE held'[Queue(c)] = Range(ready'[c])
  BY <1>1 DEF held, Queue
<1>6. ASSUME NEW c \in Core PROVE held'[Bed(c)] = sleeping'[c]
  BY <1>1 DEF held, Bed
<1>7. ASSUME NEW c \in Core PROVE held'[Post(c)] = Carried(inbox'[c])
  BY <1>1 DEF held, Post
<1>8. ASSUME NEW c \in Core, NEW x \in Thread PROVE held'[Wait(c, x)] = joiners'[c][x]
  BY <1>1 DEF held, Wait
<1> QED
  BY <1>1, <1>2, <1>3, <1>4, <1>5, <1>6, <1>7, <1>8

\* Every holder is of one of the six kinds.
LEMMA HolderCases ==
  ASSUME NEW k \in Holder
  PROVE  \/ \E x \in Thread : k = MadeBy(x)
         \/ \E c \in Core : k = Runs(c) \/ k = Queue(c) \/ k = Bed(c) \/ k = Post(c)
         \/ \E c \in Core, x \in Thread : k = Wait(c, x)
BY DEF Holder

\* Holders of different kinds, cores or threads differ.
LEMMA HoldersDiffer ==
  /\ \A a, b \in Thread, c, d \in Core :
       /\ MadeBy(a) = MadeBy(b) => a = b
       /\ Wait(c, a) = Wait(d, b) => a = b /\ c = d
       /\ MadeBy(a) \notin {Runs(c), Queue(c), Bed(c), Post(c), Wait(c, b)}
       /\ Wait(c, a) \notin {Runs(d), Queue(d), Bed(d), Post(d)}
  /\ \A c, d \in Core :
       /\ Runs(c) = Runs(d) => c = d
       /\ Queue(c) = Queue(d) => c = d
       /\ Bed(c) = Bed(d) => c = d
       /\ Post(c) = Post(d) => c = d
       /\ Runs(c) \notin {Queue(d), Bed(d), Post(d)}
       /\ Queue(c) \notin {Bed(d), Post(d)}
       /\ Bed(c) # Post(d)
BY DEF MadeBy, Runs, Queue, Bed, Wait, Post

Disjoint(g) == \A j, k \in DOMAIN g : j # k => g[j] \cap g[k] = {}

AllOf(g) == UNION {g[k] : k \in DOMAIN g}

\* A step that moves threads among the holders X, and adds to no other.
LEMMA Rearranged ==
  ASSUME Disjoint(held), NEW X \in SUBSET Holder,
         \A i \in Holder \ X : held'[i] \subseteq held[i],
         \A i \in X : \A t \in held'[i] : \E j \in X : t \in held[j],
         \A i, j \in X : i # j => held'[i] \cap held'[j] = {}
  PROVE  Disjoint(held')
<1> SUFFICES ASSUME NEW i \in Holder, NEW j \in Holder, i # j,
                    NEW t, t \in held'[i], t \in held'[j]
             PROVE  FALSE
  BY HeldWillBe DEF Disjoint
<1>1. \A a, b \in Holder : t \in held[a] /\ t \in held[b] => a = b
  BY HeldIs DEF Disjoint
<1>2. CASE i \in X /\ j \in X
  BY <1>2
<1>3. CASE i \in X /\ j \notin X
  BY <1>1, <1>3
<1>4. CASE i \notin X /\ j \in X
  BY <1>1, <1>4
<1>5. CASE i \notin X /\ j \notin X
  BY <1>1, <1>5
<1> QED
  BY <1>2, <1>3, <1>4, <1>5

\* ... and takes from none.
LEMMA Kept ==
  ASSUME NEW X \in SUBSET Holder,
         \A i \in Holder \ X : held'[i] = held[i],
         \A i \in X : \A t \in held'[i] : \E j \in X : t \in held[j],
         \A i \in X : \A t \in held[i] : \E j \in X : t \in held'[j]
  PROVE  AllOf(held') = AllOf(held)
<1>1. ASSUME NEW i \in Holder, NEW t \in held'[i] PROVE \E j \in Holder : t \in held[j]
  OBVIOUS
<1>2. ASSUME NEW i \in Holder, NEW t \in held[i] PROVE \E j \in Holder : t \in held'[j]
  OBVIOUS
<1>3. DOMAIN held = Holder /\ DOMAIN held' = Holder
  BY HeldIs, HeldWillBe
<1> QED
  BY <1>1, <1>2, <1>3 DEF AllOf

\* A step that moves threads among the holders X, and adds to no other, holds no more.
LEMMA NoneAdded ==
  ASSUME NEW X \in SUBSET Holder,
         \A i \in Holder \ X : held'[i] \subseteq held[i],
         \A i \in X : \A t \in held'[i] : \E j \in X : t \in held[j]
  PROVE  AllOf(held') \subseteq AllOf(held)
<1>1. ASSUME NEW i \in Holder, NEW t \in held'[i] PROVE \E j \in Holder : t \in held[j]
  OBVIOUS
<1>2. DOMAIN held = Holder /\ DOMAIN held' = Holder
  BY HeldIs, HeldWillBe
<1> QED
  BY <1>1, <1>2 DEF AllOf

\* A step adds to no holder outside X, or changes none.
Below(X) == X \in SUBSET Holder /\ \A i \in Holder \ X : held'[i] \subseteq held[i]
Same(X)  == X \in SUBSET Holder /\ \A i \in Holder \ X : held'[i] = held[i]

\* What a step does not add to.
LEMMA FrameBelow ==
  ASSUME NEW X \in SUBSET Holder,
         \A x \in Thread : MadeBy(x) \in X \/ making'[x] \subseteq making[x],
         \A e \in Core : Runs(e) \in X \/ RunsOn(e)' \subseteq RunsOn(e),
         \A e \in Core : Queue(e) \in X \/ Range(ready'[e]) \subseteq Range(ready[e]),
         \A e \in Core : Bed(e) \in X \/ sleeping'[e] \subseteq sleeping[e],
         \A e \in Core : Post(e) \in X \/ Carried(inbox'[e]) \subseteq Carried(inbox[e]),
         \A e \in Core, x \in Thread : Wait(e, x) \in X \/ joiners'[e][x] \subseteq joiners[e][x]
  PROVE  Below(X)
<1> SUFFICES ASSUME NEW k \in Holder \ X PROVE held'[k] \subseteq held[k]
  BY DEF Below
<1>1. CASE \E x \in Thread : k = MadeBy(x)
  <2>1. PICK x \in Thread : k = MadeBy(x)
    BY <1>1
  <2>2. held[k] = making[x] /\ held'[k] = making'[x]
    BY <2>1, HeldIs, HeldWillBe, Zenon
  <2> QED
    BY <2>1, <2>2
<1>2. CASE \E c \in Core : k = Runs(c)
  <2>1. PICK c \in Core : k = Runs(c)
    BY <1>2
  <2>2. held[k] = RunsOn(c) /\ held'[k] = RunsOn(c)'
    BY <2>1, HeldIs, HeldWillBe, Zenon
  <2> QED
    BY <2>1, <2>2
<1>3. CASE \E c \in Core : k = Queue(c)
  <2>1. PICK c \in Core : k = Queue(c)
    BY <1>3
  <2>2. held[k] = Range(ready[c]) /\ held'[k] = Range(ready'[c])
    BY <2>1, HeldIs, HeldWillBe, Zenon
  <2> QED
    BY <2>1, <2>2
<1>4. CASE \E c \in Core : k = Bed(c)
  <2>1. PICK c \in Core : k = Bed(c)
    BY <1>4
  <2>2. held[k] = sleeping[c] /\ held'[k] = sleeping'[c]
    BY <2>1, HeldIs, HeldWillBe, Zenon
  <2> QED
    BY <2>1, <2>2
<1>5. CASE \E c \in Core : k = Post(c)
  <2>1. PICK c \in Core : k = Post(c)
    BY <1>5
  <2>2. held[k] = Carried(inbox[c]) /\ held'[k] = Carried(inbox'[c])
    BY <2>1, HeldIs, HeldWillBe, Zenon
  <2> QED
    BY <2>1, <2>2
<1>6. CASE \E c \in Core, x \in Thread : k = Wait(c, x)
  <2>1. PICK c \in Core, x \in Thread : k = Wait(c, x)
    BY <1>6
  <2>2. held[k] = joiners[c][x] /\ held'[k] = joiners'[c][x]
    BY <2>1, HeldIs, HeldWillBe, Zenon
  <2> QED
    BY <2>1, <2>2
<1> QED
  BY <1>1, <1>2, <1>3, <1>4, <1>5, <1>6, HolderCases

\* What a step does not change.
LEMMA FrameSame ==
  ASSUME NEW X \in SUBSET Holder,
         \A x \in Thread : MadeBy(x) \in X \/ making'[x] = making[x],
         \A e \in Core : Runs(e) \in X \/ RunsOn(e)' = RunsOn(e),
         \A e \in Core : Queue(e) \in X \/ Range(ready'[e]) = Range(ready[e]),
         \A e \in Core : Bed(e) \in X \/ sleeping'[e] = sleeping[e],
         \A e \in Core : Post(e) \in X \/ Carried(inbox'[e]) = Carried(inbox[e]),
         \A e \in Core, x \in Thread : Wait(e, x) \in X \/ joiners'[e][x] = joiners[e][x]
  PROVE  Same(X)
<1> SUFFICES ASSUME NEW k \in Holder \ X PROVE held'[k] = held[k]
  BY DEF Same
<1>1. CASE \E x \in Thread : k = MadeBy(x)
  <2>1. PICK x \in Thread : k = MadeBy(x)
    BY <1>1
  <2>2. held[k] = making[x] /\ held'[k] = making'[x]
    BY <2>1, HeldIs, HeldWillBe, Zenon
  <2> QED
    BY <2>1, <2>2
<1>2. CASE \E c \in Core : k = Runs(c)
  <2>1. PICK c \in Core : k = Runs(c)
    BY <1>2
  <2>2. held[k] = RunsOn(c) /\ held'[k] = RunsOn(c)'
    BY <2>1, HeldIs, HeldWillBe, Zenon
  <2> QED
    BY <2>1, <2>2
<1>3. CASE \E c \in Core : k = Queue(c)
  <2>1. PICK c \in Core : k = Queue(c)
    BY <1>3
  <2>2. held[k] = Range(ready[c]) /\ held'[k] = Range(ready'[c])
    BY <2>1, HeldIs, HeldWillBe, Zenon
  <2> QED
    BY <2>1, <2>2
<1>4. CASE \E c \in Core : k = Bed(c)
  <2>1. PICK c \in Core : k = Bed(c)
    BY <1>4
  <2>2. held[k] = sleeping[c] /\ held'[k] = sleeping'[c]
    BY <2>1, HeldIs, HeldWillBe, Zenon
  <2> QED
    BY <2>1, <2>2
<1>5. CASE \E c \in Core : k = Post(c)
  <2>1. PICK c \in Core : k = Post(c)
    BY <1>5
  <2>2. held[k] = Carried(inbox[c]) /\ held'[k] = Carried(inbox'[c])
    BY <2>1, HeldIs, HeldWillBe, Zenon
  <2> QED
    BY <2>1, <2>2
<1>6. CASE \E c \in Core, x \in Thread : k = Wait(c, x)
  <2>1. PICK c \in Core, x \in Thread : k = Wait(c, x)
    BY <1>6
  <2>2. held[k] = joiners[c][x] /\ held'[k] = joiners'[c][x]
    BY <2>1, HeldIs, HeldWillBe, Zenon
  <2> QED
    BY <2>1, <2>2
<1> QED
  BY <1>1, <1>2, <1>3, <1>4, <1>5, <1>6, HolderCases, Zenon

\* Where an operation returns to.
ContOf(o) == /\ o.pc \in {"run", "join"} => o.cont = "run"
             /\ o.pc = "drain" => o.cont \in {"tick", "block"}

\* No queue holds a thread twice, nor an inbox; and a thread makes one at a time.
Orderly ==
  /\ \A c \in Core : IsInjective(ready[c])
  /\ \A c \in Core : CarriedOnce(inbox[c])
  /\ \A c \in Core : ContOf(op[c])
  /\ \A t \in Thread : \A x, y \in making[t] : x = y

Placed == Disjoint(held) /\ Orderly

\* The threads S go from j to k.
Goes(j, k, S) ==
  /\ {j, k} \in SUBSET Holder /\ j # k /\ S \subseteq held[j]
  /\ held'[j] = held[j] \ S /\ held'[k] = held[k] \cup S

\* A move from one holder to another keeps the holders apart and everyone held.
LEMMA GoesKeeps ==
  ASSUME Disjoint(held), NEW j, NEW k, NEW S, Goes(j, k, S), Same({j, k})
  PROVE  Disjoint(held') /\ AllOf(held') = AllOf(held)
<1> DEFINE X == {j, k}
<1>1. X \in SUBSET Holder /\ \A i \in Holder \ X : held'[i] = held[i]
  BY Zenon DEF Same
<1>2. \A i \in X : \A t \in held'[i] : \E e \in X : t \in held[e]
  BY DEF Goes
<1>3. \A i \in X : \A t \in held[i] : \E e \in X : t \in held'[e]
  BY DEF Goes
<1>4. held[j] \cap held[k] = {}
  BY HeldIs DEF Disjoint, Goes
<1>5. \A i, e \in X : i # e => held'[i] \cap held'[e] = {}
  BY <1>4 DEF Goes
<1> HIDE DEF X
<1> QED
  BY <1>1, <1>2, <1>3, <1>5, Rearranged, Kept, Zenon

\* ... and some may get lost.
MayGo(j, k, S) ==
  /\ {j, k} \in SUBSET Holder /\ j # k /\ S \subseteq held[j]
  /\ held'[j] \subseteq held[j] \ S /\ held'[k] \subseteq held[k] \cup S

\* A move that may lose threads keeps the holders apart and holds nobody new.
LEMMA MayGoApart ==
  ASSUME Disjoint(held), NEW j, NEW k, NEW S, MayGo(j, k, S), Below({j, k})
  PROVE  Disjoint(held') /\ AllOf(held') \subseteq AllOf(held)
<1> DEFINE X == {j, k}
<1>1. X \in SUBSET Holder /\ \A i \in Holder \ X : held'[i] \subseteq held[i]
  BY DEF Below
<1>2. \A i \in X : \A t \in held'[i] : \E e \in X : t \in held[e]
  BY DEF MayGo
<1>4. held[j] \cap held[k] = {}
  BY HeldIs DEF Disjoint, MayGo
<1>5. \A i, e \in X : i # e => held'[i] \cap held'[e] = {}
  BY <1>4 DEF MayGo
<1> HIDE DEF X
<1> QED
  BY <1>1, <1>2, <1>5, Rearranged, NoneAdded

\* What runs on a core.
LEMMA RunsFacts ==
  ASSUME IInv, Placed, NEW c \in Core
  PROVE  /\ op[c].pc \in {"run", "join"} => RunsOn(c) = {current[c]} \ {Idle}
         /\ op[c].pc = "drain" /\ op[c].cont = "tick" => RunsOn(c) = {current[c]} \ {Idle}
         /\ op[c].cont \in {"block", "exit"} => RunsOn(c) = {}
BY DEF RunsOn, Departed, Placed, Orderly, ContOf

\* A core with a free lock returns nowhere.
LEMMA UnlockedIs == Unlocked.cont = "run" /\ ContOf(Unlocked)
BY DEF Unlocked, ContOf

\* A drain returns to the tick or the block it belongs to.
LEMMA DrainingIs ==
  \A k \in {"tick", "block"} : Draining(k).cont = k /\ ContOf(Draining(k))
BY DEF Draining, ContOf

\* The types, as the proofs below use them.
LEMMA Types ==
  ASSUME IInv
  PROVE  /\ making \in [Thread -> SUBSET Thread]
         /\ current \in [Core -> Thread \cup {Idle}]
         /\ ready \in [Core -> Seq(Thread)]
         /\ sleeping \in [Core -> SUBSET Thread]
         /\ joiners \in [Core -> [Thread -> SUBSET Thread]]
         /\ inbox \in [Core -> Seq(Message)]
         /\ rqLen \in [Core -> 0 .. RqWrap - 1]
         /\ op \in [Core -> Op]
BY IInvTypeOK DEF TypeOK

(***************************************************************************)
(* Without kill: no Kill is under way, no core handles one, and the core   *)
(* of an exiting thread still has it as its current thread.                *)
(***************************************************************************)
CalmOp(o) == /\ o.pc \notin {"bcast", "hung"}
             /\ o.pc \in {"unjoin", "panic"} <=> o.cont = "exit"

NoKill(m) == \A t \in Thread : KillMsg(t) \notin Range(m)

Calm == /\ \A c \in Core : CalmOp(op[c]) /\ NoKill(inbox[c])
        /\ \A c \in Core : op[c].cont = "exit" => current[c] # Idle

\* No step of a core with a Kill is possible.
LEMMA CalmExcludes ==
  ASSUME IInv, Calm, NEW c \in Core
  PROVE  /\ ~ KillDone(c)
         /\ \A t \in Thread : ~ Receives(c, "Kill", t)
         /\ \A t \in Thread : ~ DrainKillDead(c, t) /\ ~ DrainKillCurrent(c, t)
                              /\ ~ DrainKillHangs(c, t) /\ ~ DrainKill(c, t)
<1>1. ~ KillDone(c)
  BY DEF KillDone, Calm, CalmOp
<1>2. ASSUME NEW t \in Thread, Receives(c, "Kill", t) PROVE FALSE
  <2>1. inbox[c] \in Seq(Message) /\ inbox[c] # <<>> /\ Head(inbox[c]) = KillMsg(t)
    BY <1>2, Types DEF Receives, KillMsg
  <2>2. Head(inbox[c]) \in Range(inbox[c])
    BY <2>1, TailOnce
  <2> QED
    BY <2>1, <2>2 DEF Calm, NoKill
<1> QED
  BY <1>1, <1>2 DEF DrainKillDead, DrainKillCurrent, DrainKillHangs, DrainKill
==============================================================================
