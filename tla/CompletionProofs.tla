--------------------------- MODULE CompletionProofs ---------------------------
(***************************************************************************)
(* For every size of the ring and every width of its indices, the          *)
(* completion queue implements the FIFO that poll promises.  The module    *)
(* first proves what is needed of quotients and remainders by a ring size  *)
(* that is not fixed, then what adding to an index does to its slot and    *)
(* its round, then the invariant, then the refinement.                     *)
(***************************************************************************)
EXTENDS CompletionQueue, SequenceTheorems, TLAPS

-----------------------------------------------------------------------------
(* Quotients and remainders.                                               *)

LEMMA DivMod ==
  ASSUME NEW x \in Int, NEW n \in Nat \ {0}
  PROVE  x \div n \in Int /\ x % n \in 0 .. n - 1 /\ x = n * (x \div n) + (x % n)
OBVIOUS

LEMMA MulPos == ASSUME NEW k \in Int, NEW n \in Nat \ {0}, k >= 1 PROVE n * k >= n
OBVIOUS

LEMMA MulNeg == ASSUME NEW k \in Int, NEW n \in Nat \ {0}, k <= -1 PROVE n * k <= -n
OBVIOUS

LEMMA Distr ==
  ASSUME NEW a \in Int, NEW b \in Int, NEW n \in Nat \ {0}
  PROVE  n * a - n * b = n * (a - b)
OBVIOUS

LEMMA SameQuotient ==
  ASSUME NEW n \in Nat \ {0}, NEW q \in Int, NEW r \in 0 .. n - 1,
         NEW d \in Int, NEW m \in 0 .. n - 1, n * q + r = n * d + m
  PROVE  q = d /\ r = m
<1>1. n * (q - d) = m - r
  BY Distr
<1>2. CASE q - d >= 1
  BY <1>1, <1>2, MulPos
<1>3. CASE q - d <= -1
  BY <1>1, <1>3, MulNeg
<1>4. CASE q = d
  BY <1>4
<1> QED
  BY <1>2, <1>3, <1>4

\* x is n times q and a remainder r.
Split(x, n, q, r) ==
  n \in Nat \ {0} /\ q \in Int /\ r \in 0 .. n - 1 /\ x \in Int /\ x = n * q + r

\* Whatever is n * q + r, with a remainder r, has quotient q and remainder r.
LEMMA Divided ==
  ASSUME NEW n, NEW q, NEW r, NEW x, Split(x, n, q, r)
  PROVE  x \div n = q /\ x % n = r
<1>1. x \div n \in Int /\ x % n \in 0 .. n - 1 /\ x = n * (x \div n) + (x % n)
  BY DivMod DEF Split
<1> QED
  BY <1>1, SameQuotient DEF Split

-----------------------------------------------------------------------------
(* Indices.  Sizes says of the constants what the lemmas need: whole       *)
(* numbers of rounds fit into the range of an index and into that of the   *)
(* doorbell record.                                                        *)

Sizes == RingAssumption /\ CompletionQueueAssumption

LEMMA SizesFacts ==
  ASSUME Sizes
  PROVE  /\ Cnt \in Nat \ {0} /\ Wrap \in Nat \ {0} /\ Narrow \in Nat \ {0}
         /\ Wrap >= 2 * Cnt /\ Narrow >= 2 * Cnt
         /\ \E k \in Int : Wrap = Cnt * (2 * k)
         /\ \E w \in Int : Wrap = Narrow * w
<1>1. Cnt \in Nat \ {0} /\ Wrap \in Nat /\ Narrow \in Nat \ {0}
  BY DEF Sizes, RingAssumption, CompletionQueueAssumption
<1>2. PICK k \in 1 .. Wrap : Wrap = 2 * Cnt * k
  BY DEF Sizes, RingAssumption
<1>3. Wrap = Cnt * (2 * k) /\ Wrap = (2 * Cnt) * k
  BY <1>1, <1>2
<1>4. Wrap >= 2 * Cnt
  BY <1>1, <1>3, MulPos
<1>5. PICK a \in Int : Narrow = (2 * Cnt) * a
  <2>1. Narrow % (2 * Cnt) = 0
    BY DEF Sizes, CompletionQueueAssumption
  <2>2. 2 * Cnt \in Nat \ {0}
    BY <1>1
  <2> QED BY <1>1, <2>1, <2>2, DivMod
<1>6. Narrow >= 2 * Cnt
  <2>1. 2 * Cnt \in Nat \ {0}
    BY <1>1
  <2>2. CASE a >= 1
    BY <2>1, <2>2, <1>5, MulPos
  <2>3. CASE a <= -1
    BY <1>1, <2>1, <2>3, <1>5, MulNeg
  <2>4. CASE a = 0
    BY <1>1, <1>5, <2>4
  <2> QED BY <2>2, <2>3, <2>4
<1>7. PICK w \in Int : Wrap = Narrow * w
  <2>1. Wrap % Narrow = 0
    BY DEF Sizes, CompletionQueueAssumption
  <2> QED BY <1>1, <2>1, DivMod
<1> QED
  BY <1>1, <1>3, <1>4, <1>6, <1>7

\* The slot after d steps, at most one round.
LEMMA SlotAdd ==
  ASSUME Sizes, NEW i \in Index, NEW d \in 0 .. Cnt
  PROVE  /\ Slot(i) \in Slots
         /\ Slot(Add(i, d)) = IF Slot(i) + d < Cnt THEN Slot(i) + d ELSE Slot(i) + d - Cnt
<1>1. PICK k \in Int : Wrap = Cnt * (2 * k)
  BY SizesFacts
<1>2. Cnt \in Nat \ {0} /\ Wrap \in Nat \ {0} /\ Wrap >= 2 * Cnt /\ i \in Int
  BY SizesFacts DEF Index
<1>3. PICK q \in Int, r \in 0 .. Cnt - 1 : i = Cnt * q + r /\ Slot(i) = r
  BY <1>2, DivMod, Zenon DEF Slot
<1>4. PICK p \in Int : Add(i, d) = Cnt * p + (r + d)
  <2>1. CASE i + d >= Wrap
    <3>1. Add(i, d) = (Cnt * q - Cnt * (2 * k)) + (r + d)
      BY <1>1, <1>2, <1>3, <2>1 DEF Add
    <3>2. Add(i, d) = Cnt * (q - 2 * k) + (r + d)
      BY <1>2, <1>3, <3>1, Distr
    <3> QED BY <3>2
  <2>2. CASE ~(i + d >= Wrap)
    BY <1>2, <1>3, <2>2 DEF Add
  <2> QED BY <2>1, <2>2
<1>5. CASE r + d < Cnt
  <2>1. PICK s \in 0 .. Cnt - 1 : s = r + d
    BY <1>2, <1>5
  <2>2. Split(Add(i, d), Cnt, p, s)
    BY <1>2, <1>4, <2>1 DEF Split
  <2>3. Add(i, d) % Cnt = s
    BY <2>2, Divided
  <2> QED BY <1>3, <1>5, <2>1, <2>3 DEF Slot, Slots
<1>6. CASE ~(r + d < Cnt)
  <2>1. PICK s \in 0 .. Cnt - 1 : s = r + d - Cnt
    BY <1>2, <1>6
  <2>2. Split(Add(i, d), Cnt, p + 1, s)
    BY <1>2, <1>4, <2>1 DEF Split
  <2>3. Add(i, d) % Cnt = s
    BY <2>2, Divided
  <2> QED BY <1>3, <1>6, <2>1, <2>3 DEF Slot, Slots
<1> QED
  BY <1>5, <1>6

\* Within a round, different distances are different slots.
LEMMA SlotsApart ==
  ASSUME Sizes, NEW i \in Index, NEW d \in 0 .. Cnt - 1, NEW e \in 0 .. Cnt - 1, d # e
  PROVE  Slot(Add(i, d)) # Slot(Add(i, e))
BY SlotAdd, SizesFacts DEF Slots

\* One round on, the slot is the same and the parity of the round the other.
LEMMA RoundFlips ==
  ASSUME Sizes, NEW i \in Index
  PROVE  Slot(Add(i, Cnt)) = Slot(i) /\ Round(Add(i, Cnt)) # Round(i)
<1>1. PICK k \in Int : Wrap = Cnt * (2 * k)
  BY SizesFacts
<1>2. Cnt \in Nat \ {0} /\ Wrap \in Nat \ {0} /\ Wrap >= 2 * Cnt /\ i \in Int
  BY SizesFacts DEF Index
<1>3. PICK q \in Int, r \in 0 .. Cnt - 1 : i = Cnt * q + r /\ i \div Cnt = q /\ Slot(i) = r
  BY <1>2, DivMod, Zenon DEF Slot
<1>4. PICK p \in Int : Add(i, Cnt) = Cnt * p + r /\ (p = q + 1 \/ p = q + 1 - 2 * k)
  <2>1. CASE i + Cnt >= Wrap
    <3>1. Add(i, Cnt) = (Cnt * (q + 1) - Cnt * (2 * k)) + r
      BY <1>1, <1>2, <1>3, <2>1 DEF Add
    <3>2. Add(i, Cnt) = Cnt * ((q + 1) - 2 * k) + r
      BY <1>2, <1>3, <3>1, Distr
    <3> QED BY <3>2
  <2>2. CASE ~(i + Cnt >= Wrap)
    BY <1>2, <1>3, <2>2 DEF Add
  <2> QED BY <2>1, <2>2
<1>5. Add(i, Cnt) \div Cnt = p /\ Add(i, Cnt) % Cnt = r
  <2>1. Split(Add(i, Cnt), Cnt, p, r)
    BY <1>2, <1>4 DEF Split
  <2> QED BY <2>1, Divided
<1>6. q % 2 # p % 2
  BY <1>4
<1> QED
  BY <1>3, <1>5, <1>6 DEF Slot, Round

\* Adding and subtracting, where nothing is a whole range apart.
LEMMA IndexFacts ==
  ASSUME Sizes, NEW p \in Index, NEW c \in Index
  PROVE  /\ Sub(p, c) \in 0 .. Wrap - 1
         /\ Add(c, Sub(p, c)) = p
         /\ Add(c, 0) = c
         /\ \A d \in 0 .. Cnt : Add(c, d) \in Index
         /\ Sub(p, c) < Cnt => Sub(Add(p, 1), c) = Sub(p, c) + 1
         /\ Sub(p, c) >= 1 => Sub(p, Add(c, 1)) = Sub(p, c) - 1
         /\ \A d \in 0 .. Cnt - 1 : Add(Add(c, 1), d) = Add(c, d + 1)
<1> USE DEF Index, Add, Sub
<1>1. Cnt \in Nat \ {0} /\ Wrap \in Nat \ {0} /\ Wrap >= 2 * Cnt
  BY SizesFacts
<1>2. Sub(p, c) \in 0 .. Wrap - 1 /\ Add(c, Sub(p, c)) = p /\ Add(c, 0) = c
  BY <1>1
<1>3. \A d \in 0 .. Cnt : Add(c, d) \in Index
  BY <1>1
<1>4. Sub(p, c) < Cnt => Sub(Add(p, 1), c) = Sub(p, c) + 1
  BY <1>1
<1>5. Sub(p, c) >= 1 => Sub(p, Add(c, 1)) = Sub(p, c) - 1
  BY <1>1
<1>6. \A d \in 0 .. Cnt - 1 : Add(Add(c, 1), d) = Add(c, d + 1)
  BY <1>1
<1> QED
  BY <1>2, <1>3, <1>4, <1>5, <1>6

\* How far the doorbell record b is behind an index, modulo its range.
Behind(c, b) == (c - b) % Narrow

LEMMA BehindAdd ==
  ASSUME Sizes, NEW c \in Index, NEW b \in 0 .. Narrow - 1, NEW n \in 0 .. Cnt,
         Behind(c, b) + n < Narrow
  PROVE  Behind(c, b) \in Nat /\ Behind(Add(c, n), b) = Behind(c, b) + n
<1>1. PICK w \in Int : Wrap = Narrow * w
  BY SizesFacts
<1>2. /\ Cnt \in Nat \ {0} /\ Wrap \in Nat \ {0} /\ Narrow \in Nat \ {0}
      /\ c \in Int /\ b \in Int /\ c - b \in Int
  BY SizesFacts DEF Index
<1>3. PICK q \in Int, m \in 0 .. Narrow - 1 : c - b = Narrow * q + m /\ Behind(c, b) = m
  BY <1>2, DivMod, Zenon DEF Behind
<1>4. PICK s \in 0 .. Narrow - 1 : s = m + n
  BY <1>2, <1>3
<1>5. PICK p \in Int : Add(c, n) - b = Narrow * p + s
  <2>1. CASE c + n >= Wrap
    <3>1. Add(c, n) - b = (Narrow * q - Narrow * w) + s
      BY <1>1, <1>2, <1>3, <1>4, <2>1 DEF Add
    <3>2. Add(c, n) - b = Narrow * (q - w) + s
      BY <1>2, <1>3, <1>4, <3>1, Distr
    <3> QED BY <3>2
  <2>2. CASE ~(c + n >= Wrap)
    BY <1>2, <1>3, <1>4, <2>2 DEF Add
  <2> QED BY <2>1, <2>2
<1>6. PICK x \in Int : x = Add(c, n) - b
  BY <1>2, <1>5
<1>7. x % Narrow = s
  <2>1. Split(x, Narrow, p, s)
    BY <1>2, <1>5, <1>6 DEF Split
  <2> QED BY <2>1, Divided
<1> QED
  BY <1>3, <1>4, <1>6, <1>7 DEF Behind

LEMMA BehindNone ==
  ASSUME Sizes, NEW c \in Index
  PROVE  c % Narrow \in 0 .. Narrow - 1 /\ Behind(c, c % Narrow) = 0
<1>1. Narrow \in Nat \ {0} /\ c \in Int
  BY SizesFacts DEF Index
<1>2. PICK q \in Int, m \in 0 .. Narrow - 1 : c = Narrow * q + m /\ c % Narrow = m
  BY <1>1, DivMod, Zenon
<1>3. Split(c - m, Narrow, q, 0)
  BY <1>1, <1>2 DEF Split
<1>4. (c - m) % Narrow = 0
  BY <1>3, Divided
<1> QED
  BY <1>2, <1>4 DEF Behind

-----------------------------------------------------------------------------
(* The invariant.  OwnershipExact alone is not inductive: that the card    *)
(* overwrites nothing rests on the doorbell record lagging behind the      *)
(* consumer index, never leading it, so what the card takes for occupied   *)
(* covers what is.  An entry half written still has its room, and a poll   *)
(* about to read still has its entry.                                      *)

Waiting == Sub(producer, consumer)
Occupied == Behind(consumer, doorbell) + Waiting

CompletionInv ==
  /\ TypeOK
  /\ Occupied <= Cnt
  /\ writing => Occupied < Cnt /\ cqe[Slot(producer)].val \in Completion
  /\ \A d \in 0 .. Cnt - 1 : Owned(Add(consumer, d)) <=> d < Waiting
  /\ pc = "read" => Waiting >= 1

\* The numbers of the invariant are numbers.
LEMMA Counts ==
  ASSUME Sizes, TypeOK
  PROVE  /\ Cnt \in Nat \ {0} /\ Narrow \in Nat \ {0} /\ Narrow >= 2 * Cnt
         /\ Waiting \in Nat /\ Behind(consumer, doorbell) \in Nat /\ Occupied \in Nat
         /\ Add(consumer, Waiting) = producer
         /\ Slot(producer) \in Slots /\ Slot(consumer) \in Slots
<1>1. Cnt \in Nat \ {0} /\ Narrow \in Nat \ {0} /\ Narrow >= 2 * Cnt
  BY SizesFacts
<1>2. consumer \in Index /\ producer \in Index /\ doorbell \in 0 .. Narrow - 1
  BY DEF TypeOK
<1>3. Waiting \in Nat /\ Add(consumer, Waiting) = producer
  BY <1>2, IndexFacts, SizesFacts DEF Waiting
<1>4. Behind(consumer, doorbell) \in Nat
  <2>1. consumer - doorbell \in Int
    BY <1>1, <1>2, SizesFacts DEF Index
  <2> QED BY <1>1, <2>1, DivMod DEF Behind
<1>5. Slot(producer) \in Slots /\ Slot(consumer) \in Slots
  <2>1. 0 \in 0 .. Cnt
    BY <1>1
  <2> QED BY <1>2, <2>1, SlotAdd
<1> QED
  BY <1>1, <1>3, <1>4, <1>5 DEF Occupied

LEMMA CompletionInvInit == ASSUME Sizes, Init PROVE CompletionInv
<1>1. Cnt \in Nat \ {0} /\ Wrap \in Nat \ {0} /\ Wrap >= 2 * Cnt /\ Narrow \in Nat \ {0}
  BY SizesFacts
<1>2. TypeOK
  <2>1. cqe \in [Slots -> [owner : 0 .. 1, val : Completion \cup {NoCompletion}]]
    BY DEF Init
  <2>2. writing \in BOOLEAN
    BY Zenon DEF Init
  <2>3. 0 \in Index /\ 0 \in 0 .. Narrow - 1
    BY <1>1 DEF Index
  <2> QED BY <2>1, <2>2, <2>3 DEF Init, TypeOK
<1>3. Waiting = 0 /\ Occupied = 0
  <2>1. 0 \in Index
    BY <1>1 DEF Index
  <2>2. 0 % Narrow = 0
    <3>1. Split(0, Narrow, 0, 0)
      BY <1>1 DEF Split
    <3> QED BY <3>1, Divided
  <2> QED BY <1>1, <2>1, <2>2 DEF Init, Waiting, Occupied, Behind, Sub
<1>4. ASSUME NEW d \in 0 .. Cnt - 1 PROVE ~Owned(Add(consumer, d))
  <2>1. Add(0, d) = d /\ d \in Int
    BY <1>1 DEF Add
  <2>2. Split(d, Cnt, 0, d)
    BY <1>1 DEF Split
  <2>3. d \div Cnt = 0 /\ d % Cnt = d
    BY <2>2, Divided
  <2>4. Round(d) = 0 /\ Slot(d) \in Slots
    BY <2>3 DEF Round, Slot, Slots
  <2> QED BY <2>1, <2>4 DEF Init, Owned
<1> QED
  BY <1>1, <1>2, <1>3, <1>4 DEF CompletionInv, Init

\* Only the contents of a free entry change: no ownership bit, no index.
LEMMA CardWriteKeeps ==
  ASSUME Sizes, CompletionInv, NEW c \in Completion, CardWrite(c)
  PROVE  CompletionInv' /\ Waiting < Cnt
<1>1. TypeOK
  BY DEF CompletionInv
<1>2. TypeOK'
  BY <1>1, Zenon DEF TypeOK, CardWrite
<1>3. Waiting' = Waiting /\ Occupied' = Occupied
  BY DEF CardWrite, Waiting, Occupied, Behind, Sub
<1>4. Occupied < Cnt
  <2>1. Waiting \in 0 .. Cnt /\ Occupied < Narrow
    BY <1>1, Counts DEF CompletionInv, Occupied
  <2>2. Behind(Add(consumer, Waiting), doorbell) = Occupied
    BY <1>1, <2>1, BehindAdd DEF TypeOK, Occupied
  <2>3. Behind(producer, doorbell) = Occupied
    BY <1>1, <2>2, Counts
  <2> QED BY <2>3 DEF CardWrite, Room, Behind
<1>5. cqe'[Slot(producer')].val \in Completion
  BY <1>1, Counts DEF CardWrite, TypeOK
<1>6. ASSUME NEW d \in 0 .. Cnt - 1
      PROVE  Owned(Add(consumer, d))' <=> Owned(Add(consumer, d))
  <2>1. \A s \in Slots : cqe'[s].owner = cqe[s].owner
    BY <1>1 DEF CardWrite, TypeOK
  <2>2. Slot(Add(consumer, d)) \in Slots
    <3>1. 0 \in 0 .. Cnt /\ d \in 0 .. Cnt
      BY <1>1, Counts
    <3>2. Add(consumer, d) \in Index
      BY <1>1, <3>1, IndexFacts DEF TypeOK
    <3> QED BY <3>1, <3>2, SlotAdd
  <2> QED BY <2>1, <2>2 DEF CardWrite, Owned
<1>7. pc' = pc
  BY DEF CardWrite
<1> QED
  BY <1>1, <1>2, <1>3, <1>4, <1>5, <1>6, <1>7, Counts DEF CompletionInv, Occupied

\* The entry behind the waiting ones joins them; no other changes hands.
LEMMA CardOwnerKeeps ==
  ASSUME Sizes, CompletionInv, CardOwner
  PROVE  CompletionInv' /\ Waiting' = Waiting + 1 /\ Waiting < Cnt
<1>1. TypeOK
  BY DEF CompletionInv
<1>2. Waiting \in 0 .. Cnt - 1 /\ Occupied < Cnt
  BY <1>1, Counts DEF CompletionInv, CardOwner, Occupied
<1>3. TypeOK'
  <2>1. Round(producer) \in 0 .. 1
    <3>1. producer \in Int /\ Cnt \in Nat \ {0}
      BY <1>1, SizesFacts DEF TypeOK, Index
    <3>2. producer \div Cnt \in Int
      BY <3>1, DivMod
    <3> QED BY <3>2 DEF Round
  <2>2. Add(producer, 1) \in Index
    <3>1. 1 \in 0 .. Cnt
      BY SizesFacts
    <3> QED BY <1>1, <3>1, IndexFacts DEF TypeOK
  <2>3. cqe' \in [Slots -> [owner : 0 .. 1, val : Completion \cup {NoCompletion}]]
    <3>1. [cqe[Slot(producer)] EXCEPT !.owner = Round(producer)]
             \in [owner : 0 .. 1, val : Completion \cup {NoCompletion}]
      BY <1>1, <2>1, Counts DEF TypeOK
    <3> QED BY <1>1, <3>1, Counts DEF TypeOK, CardOwner
  <2> QED BY <1>1, <2>2, <2>3, Zenon DEF TypeOK, CardOwner
<1>4. Waiting' = Waiting + 1 /\ Occupied' = Occupied + 1
  <2>1. Waiting' = Waiting + 1
    <3>1. Sub(producer, consumer) < Cnt
      BY <1>1, <1>2, Counts DEF Waiting
    <3>2. Sub(Add(producer, 1), consumer) = Sub(producer, consumer) + 1
      BY <1>1, <3>1, IndexFacts DEF TypeOK
    <3> QED BY <3>2 DEF CardOwner, Waiting
  <2>2. Behind(consumer, doorbell)' = Behind(consumer, doorbell)
    BY DEF CardOwner, Behind
  <2> QED BY <1>1, <2>1, <2>2, Counts DEF Occupied
<1>5. ASSUME NEW d \in 0 .. Cnt - 1
      PROVE  Owned(Add(consumer, d))' <=> d < Waiting + 1
  <2>1. Slot(Add(consumer, d)) \in Slots
    <3>1. 0 \in 0 .. Cnt /\ d \in 0 .. Cnt
      BY <1>1, Counts
    <3>2. Add(consumer, d) \in Index
      BY <1>1, <3>1, IndexFacts DEF TypeOK
    <3> QED BY <3>1, <3>2, SlotAdd
  <2>2. CASE d = Waiting
    <3>1. Add(consumer, d) = producer
      BY <1>1, <2>2, Counts
    <3> QED BY <1>1, <1>2, <2>1, <2>2, <3>1 DEF CardOwner, Owned, TypeOK
  <2>3. CASE d # Waiting
    <3>1. Slot(Add(consumer, d)) # Slot(Add(consumer, Waiting))
      BY <1>1, <1>2, <2>3, SlotsApart DEF TypeOK
    <3>2. Slot(Add(consumer, d)) # Slot(producer)
      BY <1>1, <3>1, Counts
    <3>3. Owned(Add(consumer, d))' <=> Owned(Add(consumer, d))
      BY <1>1, <2>1, <3>2 DEF CardOwner, Owned, TypeOK
    <3>4. Owned(Add(consumer, d)) <=> d < Waiting
      BY DEF CompletionInv
    <3> QED BY <1>2, <2>3, <3>3, <3>4
  <2> QED BY <2>2, <2>3
<1>6. consumer' = consumer /\ pc' = pc /\ ~writing'
  BY DEF CardOwner
<1>7. \A d \in 0 .. Cnt - 1 : Owned(Add(consumer, d))' <=> d < Waiting'
  BY <1>4, <1>5
<1>8. Occupied' <= Cnt /\ (pc' = "read" => Waiting' >= 1)
  BY <1>1, <1>2, <1>4, Counts
<1>9. writing' => Occupied' < Cnt /\ (cqe[Slot(producer)].val \in Completion)'
  BY <1>6
<1>10. CompletionInv'
  BY <1>3, <1>7, <1>8, <1>9 DEF CompletionInv
<1> QED
  BY <1>1, <1>2, <1>4, <1>10, Counts

\* The entry read is a round away from being owned again.
LEMMA ReadCqeKeeps ==
  ASSUME Sizes, CompletionInv, ReadCqe
  PROVE  CompletionInv' /\ Waiting >= 1 /\ Waiting' = Waiting - 1
<1>1. TypeOK
  BY DEF CompletionInv
<1>2. Waiting \in 1 .. Cnt /\ Occupied <= Cnt
  BY <1>1, Counts DEF CompletionInv, ReadCqe, Occupied
<1>3. 1 \in 0 .. Cnt /\ Add(consumer, 1) \in Index
  <2>1. 1 \in 0 .. Cnt
    BY SizesFacts
  <2> QED BY <1>1, <2>1, IndexFacts DEF TypeOK
<1>4. TypeOK'
  BY <1>1, <1>3, Counts DEF TypeOK, ReadCqe
<1>5. Waiting' = Waiting - 1
  BY <1>1, <1>2, IndexFacts DEF ReadCqe, Waiting, TypeOK
<1>6. Occupied' = Occupied
  <2>1. Behind(consumer, doorbell) + 1 < Narrow
    BY <1>1, <1>2, Counts DEF Occupied
  <2>2. Behind(Add(consumer, 1), doorbell) = Behind(consumer, doorbell) + 1
    BY <1>1, <1>3, <2>1, BehindAdd DEF TypeOK
  <2>3. Behind(consumer, doorbell)' = Behind(consumer, doorbell) + 1
    BY <2>2 DEF ReadCqe, Behind
  <2> QED BY <1>1, <1>5, <2>3, Counts DEF Occupied
<1>7. ASSUME NEW d \in 0 .. Cnt - 1
      PROVE  Owned(Add(consumer, d))' <=> d < Waiting - 1
  <2>1. Add(consumer', d) = Add(consumer, d + 1)
    BY <1>1, IndexFacts DEF ReadCqe, TypeOK
  <2>2. Owned(Add(consumer, d))' <=> Owned(Add(consumer, d + 1))
    <3>1. Owned(Add(consumer, d))' <=> cqe'[Slot(Add(consumer', d))].owner = Round(Add(consumer', d))
      BY DEF Owned, Slot, Round, Add
    <3> QED BY <2>1, <3>1 DEF ReadCqe, Owned
  <2>3. CASE d < Cnt - 1
    <3>1. PICK e \in 0 .. Cnt - 1 : e = d + 1
      BY <1>1, <2>3, Counts
    <3>2. Owned(Add(consumer, e)) <=> e < Waiting
      BY DEF CompletionInv
    <3> QED BY <1>2, <2>2, <3>1, <3>2
  <2>4. CASE d = Cnt - 1
    <3>1. d + 1 = Cnt
      BY <1>1, <2>4, Counts
    <3>2. Owned(consumer)
      <4>1. 0 \in 0 .. Cnt - 1 /\ 0 < Waiting
        BY <1>1, <1>2, Counts
      <4>2. Add(consumer, 0) = consumer
        BY <1>1, IndexFacts DEF TypeOK
      <4> QED BY <4>1, <4>2 DEF CompletionInv
    <3>3. ~Owned(Add(consumer, Cnt))
      BY <1>1, <3>2, RoundFlips DEF Owned, TypeOK
    <3> QED BY <1>1, <1>2, <2>2, <2>4, <3>1, <3>3, Counts
  <2> QED BY <1>1, <2>3, <2>4, Counts
<1>8. writing' = writing /\ producer' = producer /\ cqe' = cqe /\ pc' # "read"
  BY DEF ReadCqe
<1>9. \A d \in 0 .. Cnt - 1 : Owned(Add(consumer, d))' <=> d < Waiting'
  BY <1>5, <1>7
<1>10. writing' => Occupied' < Cnt /\ (cqe[Slot(producer)].val \in Completion)'
  BY <1>6, <1>8 DEF CompletionInv
<1> QED
  BY <1>2, <1>4, <1>5, <1>6, <1>8, <1>9, <1>10 DEF CompletionInv

\* The doorbell record catches up with the consumer index.
LEMMA PollEndKeeps ==
  ASSUME Sizes, CompletionInv, PollEnd
  PROVE  CompletionInv' /\ Waiting' = Waiting
<1>1. TypeOK
  BY DEF CompletionInv
<1>2. consumer % Narrow \in 0 .. Narrow - 1 /\ Behind(consumer, consumer % Narrow) = 0
  BY <1>1, BehindNone DEF TypeOK
<1>3. TypeOK'
  BY <1>1, <1>2 DEF TypeOK, PollEnd
<1>4. Waiting' = Waiting /\ Behind(consumer, doorbell)' = 0
  BY <1>2 DEF PollEnd, Waiting, Sub, Behind
<1>5. Occupied' <= Occupied /\ Occupied' \in Nat /\ Occupied \in Nat
  BY <1>1, <1>4, Counts DEF Occupied
<1>6. \A d \in 0 .. Cnt - 1 : Owned(Add(consumer, d))' <=> Owned(Add(consumer, d))
  BY DEF PollEnd, Owned
<1>7. UNCHANGED <<cqe, producer, writing>> /\ pc' # "read"
  BY DEF PollEnd
<1>8. Occupied' <= Cnt
  BY <1>1, <1>5, Counts DEF CompletionInv
<1>9. writing' => Occupied' < Cnt /\ (cqe[Slot(producer)].val \in Completion)'
  BY <1>1, <1>5, <1>7, Counts DEF CompletionInv
<1> QED
  BY <1>3, <1>4, <1>6, <1>7, <1>8, <1>9 DEF CompletionInv

\* Polling without reading moves nothing; a probe succeeds only on an entry.
LEMMA ProbeKeeps ==
  ASSUME Sizes, CompletionInv, PollBegin \/ Probe \/ UNCHANGED vars
  PROVE  CompletionInv'
<1>1. TypeOK
  BY DEF CompletionInv
<1>2. UNCHANGED <<cqe, consumer, doorbell, popped, producer, writing>>
  BY DEF PollBegin, Probe, vars
<1>3. TypeOK'
  BY <1>1, <1>2 DEF TypeOK, PollBegin, Probe, vars
<1>4. Waiting' = Waiting /\ Occupied' = Occupied
  BY <1>2 DEF Waiting, Occupied, Behind, Sub
<1>5. \A d \in 0 .. Cnt - 1 : Owned(Add(consumer, d))' <=> Owned(Add(consumer, d))
  BY <1>2 DEF Owned
<1>6. pc' = "read" => Waiting' >= 1
  <2>1. CASE PollBegin
    BY <2>1 DEF PollBegin
  <2>2. CASE Probe
    <3>1. 0 \in 0 .. Cnt - 1 /\ Add(consumer, 0) = consumer
      BY <1>1, Counts, IndexFacts DEF TypeOK
    <3>2. 0 < Waiting
      BY <2>2, <3>1 DEF Probe, CompletionInv
    <3> QED BY <1>1, <1>4, <3>2, Counts
  <2>3. CASE UNCHANGED vars
    BY <1>4, <2>3 DEF vars, CompletionInv
  <2> QED BY <2>1, <2>2, <2>3
<1>7. writing' => Occupied' < Cnt /\ (cqe[Slot(producer)].val \in Completion)'
  BY <1>2, <1>4 DEF CompletionInv
<1>8. Occupied' <= Cnt
  BY <1>4 DEF CompletionInv
<1> QED
  BY <1>3, <1>4, <1>5, <1>6, <1>7, <1>8 DEF CompletionInv

LEMMA CompletionInvStep ==
  ASSUME Sizes, CompletionInv, [Next]_vars
  PROVE  CompletionInv'
BY CardWriteKeeps, CardOwnerKeeps, ReadCqeKeeps, PollEndKeeps, ProbeKeeps DEF Next

\* For every power-of-two ring and every width of its indices: from the
\* consumer index on, exactly the entries the card has finished and poll has
\* not read look owned by software (get_cqe_sw), however the card's writes,
\* the probes and the late doorbell updates interleave.
THEOREM OwnershipAlwaysExact ==
  ASSUME Sizes
  PROVE  Spec => []OwnershipExact
<1>1. Init => CompletionInv
  BY CompletionInvInit
<1>2. CompletionInv /\ [Next]_vars => CompletionInv'
  BY CompletionInvStep
<1>3. CompletionInv => OwnershipExact
  <2> SUFFICES ASSUME CompletionInv PROVE OwnershipExact
    OBVIOUS
  <2>1. Waiting <= Cnt
    BY Counts DEF CompletionInv, Occupied
  <2> QED BY <2>1 DEF CompletionInv, OwnershipExact, Waiting
<1> QED
  BY <1>1, <1>2, <1>3, PTL DEF Spec

-----------------------------------------------------------------------------
(* The refinement: what waits, in order, is the queue of the channel.      *)

Content == Completion \cup {NoCompletion}

LEMMA FunctionSeq ==
  ASSUME NEW S, NEW n \in Nat, NEW f \in [1 .. n -> S]
  PROVE  f \in Seq(S) /\ Len(f) = n
<1>1. f \in Seq(S)
  BY SeqDef
<1>2. Len(f) \in Nat /\ DOMAIN f = 1 .. Len(f) /\ DOMAIN f = 1 .. n
  BY <1>1, LenProperties
<1> QED
  BY <1>1, <1>2

\* The contents of n entries of the buffer b, from the index i on.
Entries(b, i, n) == [k \in 1 .. n |-> b[Slot(Add(i, k - 1))].val]

LEMMA EntriesSeq ==
  ASSUME Sizes, NEW b \in [Slots -> [owner : 0 .. 1, val : Content]],
         NEW i \in Index, NEW n \in 0 .. Cnt
  PROVE  /\ Entries(b, i, n) \in Seq(Content) /\ Len(Entries(b, i, n)) = n
         /\ \A k \in 1 .. n : Entries(b, i, n)[k] = b[Slot(Add(i, k - 1))].val
<1>1. Cnt \in Nat \ {0}
  BY SizesFacts
<1>2. ASSUME NEW k \in 1 .. n PROVE b[Slot(Add(i, k - 1))].val \in Content
  <2>1. PICK d \in 0 .. Cnt : d = k - 1
    BY <1>1
  <2>2. 0 \in 0 .. Cnt /\ Add(i, d) \in Index
    BY <1>1, IndexFacts
  <2>3. Slot(Add(i, d)) \in Slots
    BY <2>2, SlotAdd
  <2> QED BY <2>1, <2>3
<1>3. Entries(b, i, n) \in [1 .. n -> Content]
  BY <1>2 DEF Entries
<1>4. \A k \in 1 .. n : Entries(b, i, n)[k] = b[Slot(Add(i, k - 1))].val
  BY DEF Entries
<1>5. n \in Nat
  BY <1>1
<1> QED
  BY <1>3, <1>4, <1>5, FunctionSeq

LEMMA PendingSeq ==
  ASSUME Sizes, CompletionInv
  PROVE  /\ Pending \in Seq(Content) /\ Len(Pending) = Waiting
         /\ \A k \in 1 .. Waiting : Pending[k] = cqe[Slot(Add(consumer, k - 1))].val
<1>1. TypeOK /\ Waiting \in 0 .. Cnt
  BY Counts DEF CompletionInv, Occupied
<1>2. Pending = Entries(cqe, consumer, Waiting)
  BY DEF Pending, Waiting, Entries
<1> QED
  BY <1>1, <1>2, EntriesSeq DEF TypeOK, Content

\* The entry being filled is behind those that wait.
LEMMA CardWriteHidden ==
  ASSUME Sizes, CompletionInv, NEW c \in Completion, CardWrite(c)
  PROVE  UNCHANGED <<Pending, popped>>
<1>1. TypeOK /\ Waiting \in 0 .. Cnt - 1 /\ Waiting \in Nat /\ Cnt \in Nat
  BY Counts, CardWriteKeeps DEF CompletionInv
<1>2. ASSUME NEW k \in 1 .. Waiting
      PROVE  cqe'[Slot(Add(consumer, k - 1))].val = cqe[Slot(Add(consumer, k - 1))].val
  <2>1. PICK d \in 0 .. Cnt - 1 : d = k - 1 /\ d # Waiting
    BY <1>1
  <2>2. Slot(Add(consumer, d)) # Slot(Add(consumer, Waiting))
    BY <1>1, <2>1, SlotsApart DEF TypeOK
  <2>3. Slot(Add(consumer, d)) # Slot(producer)
    BY <1>1, <2>2, Counts
  <2> QED BY <1>1, <2>1, <2>3 DEF CardWrite, TypeOK
<1>3. Pending' = [k \in 1 .. Sub(producer, consumer) |-> cqe'[Slot(Add(consumer, k - 1))].val]
  BY DEF Pending, CardWrite
<1> QED
  BY <1>2, <1>3 DEF Pending, Waiting, CardWrite

\* Handing an entry over appends it.
LEMMA CardOwnerReports ==
  ASSUME Sizes, CompletionInv, CardOwner
  PROVE  Channel!Next
<1> DEFINE c == cqe[Slot(producer)].val
<1>1. TypeOK /\ Waiting \in 0 .. Cnt - 1 /\ Waiting \in Nat /\ Cnt \in Nat /\ c \in Completion
  <2>1. TypeOK /\ c \in Completion
    BY DEF CompletionInv, CardOwner
  <2>2. Waiting < Cnt
    BY CardOwnerKeeps
  <2> QED BY <2>1, <2>2, Counts
<1>2. CompletionInv' /\ Waiting' = Waiting + 1
  BY CardOwnerKeeps
<1>3. /\ Pending \in Seq(Content) /\ Len(Pending) = Waiting
      /\ \A k \in 1 .. Waiting : Pending[k] = cqe[Slot(Add(consumer, k - 1))].val
  BY PendingSeq
<1>4. /\ Pending' \in Seq(Content) /\ Len(Pending') = Waiting + 1
      /\ \A k \in 1 .. Waiting + 1 : Pending'[k] = cqe'[Slot(Add(consumer', k - 1))].val
  <2>1. TypeOK' /\ Waiting + 1 \in 0 .. Cnt
    BY <1>1, <1>2 DEF CompletionInv
  <2>2. Pending' = Entries(cqe', consumer', Waiting + 1)
    BY <1>2 DEF Pending, Waiting, Entries
  <2> QED BY <2>1, <2>2, EntriesSeq DEF TypeOK, Content
<1>5. \A s \in Slots : cqe'[s].val = cqe[s].val
  BY <1>1 DEF CardOwner, TypeOK
<1>6. ASSUME NEW k \in 1 .. Waiting + 1
      PROVE  Pending'[k] = cqe[Slot(Add(consumer, k - 1))].val
  <2>1. PICK d \in 0 .. Cnt : d = k - 1
    BY <1>1
  <2>2. 0 \in 0 .. Cnt /\ Add(consumer, d) \in Index
    BY <1>1, IndexFacts DEF TypeOK
  <2>3. Slot(Add(consumer, d)) \in Slots
    BY <2>2, SlotAdd
  <2> QED BY <1>4, <1>5, <2>1, <2>3 DEF CardOwner
<1>7. Pending'[Waiting + 1] = c
  <2>1. Pending'[Waiting + 1] = cqe[Slot(Add(consumer, (Waiting + 1) - 1))].val
    BY <1>1, <1>6
  <2>2. (Waiting + 1) - 1 = Waiting
    BY <1>1
  <2> QED BY <1>1, <2>1, <2>2, Counts
<1>8. c \in Content
  BY <1>1 DEF Content
<1>9. /\ Append(Pending, c) \in Seq(Content) /\ Len(Append(Pending, c)) = Waiting + 1
      /\ \A k \in 1 .. Waiting : Append(Pending, c)[k] = Pending[k]
      /\ Append(Pending, c)[Waiting + 1] = c
  BY <1>3, <1>8, AppendProperties
<1>10. Pending' = Append(Pending, c)
  <2>1. ASSUME NEW k \in 1 .. Waiting + 1 PROVE Pending'[k] = Append(Pending, c)[k]
    <3>1. CASE k = Waiting + 1
      BY <1>7, <1>9, <3>1
    <3>2. CASE k # Waiting + 1
      <4>1. k \in 1 .. Waiting
        BY <1>1, <3>2
      <4> QED BY <1>3, <1>6, <1>9, <4>1
    <3> QED BY <3>1, <3>2, Zenon
  <2> QED BY <1>4, <1>9, <2>1, SeqEqual
<1>11. popped' = popped
  BY DEF CardOwner
<1> QED
  BY <1>1, <1>10, <1>11 DEF Channel!Next, Channel!Report

\* Reading the entry at the consumer index pops the oldest.
LEMMA ReadCqePops ==
  ASSUME Sizes, CompletionInv, ReadCqe
  PROVE  Channel!Next
<1>1. TypeOK /\ Waiting \in 1 .. Cnt /\ Waiting \in Nat /\ Cnt \in Nat
  BY Counts, ReadCqeKeeps DEF CompletionInv, Occupied
<1>2. CompletionInv' /\ Waiting' = Waiting - 1
  BY ReadCqeKeeps
<1>3. /\ Pending \in Seq(Content) /\ Len(Pending) = Waiting
      /\ \A k \in 1 .. Waiting : Pending[k] = cqe[Slot(Add(consumer, k - 1))].val
  BY PendingSeq
<1>4. /\ Pending' \in Seq(Content) /\ Len(Pending') = Waiting - 1
      /\ \A k \in 1 .. Waiting - 1 : Pending'[k] = cqe'[Slot(Add(consumer', k - 1))].val
  <2>1. TypeOK' /\ Waiting - 1 \in 0 .. Cnt
    BY <1>1, <1>2 DEF CompletionInv
  <2>2. Pending' = Entries(cqe', consumer', Waiting - 1)
    BY <1>2 DEF Pending, Waiting, Entries
  <2> QED BY <2>1, <2>2, EntriesSeq DEF TypeOK, Content
<1>5. Pending # <<>>
  BY <1>1, <1>3, EmptySeq
<1>6. popped' = Head(Pending)
  <2>1. Head(Pending) = Pending[1] /\ Pending[1] = cqe[Slot(Add(consumer, 1 - 1))].val
    BY <1>1, <1>3, <1>5
  <2>2. Add(consumer, 1 - 1) = consumer
    BY <1>1, IndexFacts DEF TypeOK
  <2> QED BY <2>1, <2>2 DEF ReadCqe
<1>7. /\ Tail(Pending) \in Seq(Content) /\ Len(Tail(Pending)) = Waiting - 1
      /\ \A k \in 1 .. Waiting - 1 : Tail(Pending)[k] = Pending[k + 1]
  BY <1>3, <1>5, HeadTailProperties
<1>8. ASSUME NEW k \in 1 .. Waiting - 1 PROVE Pending'[k] = Tail(Pending)[k]
  <2>1. PICK d \in 0 .. Cnt - 1 : d = k - 1 /\ d + 1 = (k + 1) - 1 /\ k + 1 \in 1 .. Waiting
    BY <1>1
  <2>2. Add(Add(consumer, 1), d) = Add(consumer, d + 1)
    BY <1>1, IndexFacts DEF TypeOK
  <2>3. Pending'[k] = cqe[Slot(Add(consumer, d + 1))].val
    BY <1>4, <2>1, <2>2 DEF ReadCqe
  <2>4. Pending[k + 1] = cqe[Slot(Add(consumer, d + 1))].val
    BY <1>3, <2>1
  <2> QED BY <1>7, <2>3, <2>4
<1>9. Pending' = Tail(Pending)
  BY <1>4, <1>7, <1>8, SeqEqual
<1> QED
  BY <1>5, <1>6, <1>9 DEF Channel!Next, Channel!Pop

\* For every power-of-two ring and every width of its indices, the completion
\* queue is the channel cq.rs promises: what poll returns are the completions
\* the card wrote, each once and in order.
THEOREM RingIsChannel ==
  ASSUME Sizes
  PROVE  Spec => Channel!Spec
<1>1. Init => Channel!Init
  <2> SUFFICES ASSUME Init PROVE Channel!Init
    OBVIOUS
  <2>1. CompletionInv /\ Waiting = 0
    <3>1. Waiting = 0
      BY DEF Init, Waiting, Sub
    <3> QED BY <3>1, CompletionInvInit
  <2>2. Pending \in Seq(Content) /\ Len(Pending) = 0
    BY <2>1, PendingSeq
  <2>3. Pending = <<>>
    BY <2>2, EmptySeq
  <2> QED BY <2>3 DEF Init, Channel!Init
<1>2. CompletionInv /\ [Next]_vars => [Channel!Next]_<<Pending, popped>>
  <2> SUFFICES ASSUME CompletionInv, [Next]_vars
               PROVE  [Channel!Next]_<<Pending, popped>>
    OBVIOUS
  <2>1. CASE \E c \in Completion : CardWrite(c)
    BY <2>1, CardWriteHidden
  <2>2. CASE CardOwner
    BY <2>2, CardOwnerReports
  <2>3. CASE ReadCqe
    BY <2>3, ReadCqePops
  <2>4. CASE PollBegin \/ Probe \/ PollEnd \/ UNCHANGED vars
    BY <2>4 DEF PollBegin, Probe, PollEnd, vars, Pending
  <2> QED BY <2>1, <2>2, <2>3, <2>4 DEF Next
<1>3. Init => CompletionInv
  BY CompletionInvInit
<1>4. CompletionInv /\ [Next]_vars => CompletionInv'
  BY CompletionInvStep
<1> QED
  BY <1>1, <1>2, <1>3, <1>4, PTL DEF Spec, Channel!Spec
====
