--------------------------- MODULE AudioRingProofs ---------------------------
(* That the sound card's thread hears the accepted samples in their order, *)
(* for every size of the ring and every width of its indices that the ring *)
(* divides more than once.                                                 *)
EXTENDS AudioRing, TLAPS

----
\* Arithmetic: the indices wrap at WORD, the slots at RB_CAPACITY

\* A remainder is the number less a multiple.
LEMMA Remainder ==
  ASSUME NEW m \in Nat \ {0}, NEW a \in Int
  PROVE  a % m \in 0 .. m - 1 /\ \E q \in Int : a = q * m + (a % m)
<1>1. a % m \in 0 .. m - 1 BY SMT
<1>2. a = (a \div m) * m + (a % m) BY SMT
<1>3. a \div m \in Int BY SMT
<1> QED BY <1>1, <1>2, <1>3

\* Two remainders that a multiple is between are the same.
LEMMA SameRemainder ==
  ASSUME NEW m \in Nat \ {0}, NEW r \in 0 .. m - 1, NEW s \in 0 .. m - 1, NEW q \in Int, r = q * m + s
  PROVE  r = s
<1>1. CASE q >= 1
  <2>1. q * m >= m BY <1>1, SMT
  <2> QED BY <2>1, SMT
<1>2. CASE q <= -1
  <2>1. q * m <= -m BY <1>2, SMT
  <2> QED BY <2>1, SMT
<1>3. CASE q = 0
  BY <1>3, SMT
<1> QED BY <1>1, <1>2, <1>3, SMT

\* The remainder is the only one in its range.
LEMMA RemainderUnique ==
  ASSUME NEW m \in Nat \ {0}, NEW a \in Int, NEW q \in Int, NEW r \in 0 .. m - 1, a = q * m + r
  PROVE  a % m = r
<1>1. PICK p \in Int : a = p * m + (a % m) BY Remainder
<1>2. a % m \in 0 .. m - 1 BY Remainder
<1>3. a % m = (q - p) * m + r
  <2>1. (q - p) * m = q * m - p * m BY SMT
  <2> QED BY <1>1, <1>2, <2>1, SMT
<1> QED BY <1>2, <1>3, SameRemainder, SMT

\* A multiple more or less makes no difference.
LEMMA ShiftRemainder ==
  ASSUME NEW m \in Nat \ {0}, NEW a \in Int, NEW q \in Int
  PROVE  (a + q * m) % m = a % m
<1>1. PICK p \in Int : a = p * m + (a % m) BY Remainder
<1>2. a % m \in 0 .. m - 1 BY Remainder
<1>3. a + q * m = (p + q) * m + (a % m)
  <2>1. (p + q) * m = p * m + q * m BY SMT
  <2> QED BY <1>1, <1>2, <2>1, SMT
<1>4. a + q * m \in Int /\ p + q \in Int BY SMT
<1> QED BY <1>2, <1>3, <1>4, RemainderUnique

\* The slot of an index is the same before and after it wraps.
LEMMA SlotOfWrapped ==
  ASSUME NEW a \in Int
  PROVE  Slot(a % WORD) = Slot(a)
<1>1. PICK k \in 2 .. WORD : WORD = k * RB_CAPACITY BY RingAssumption
<1>2. WORD \in Nat \ {0} BY <1>1, RingAssumption, SMT
<1>3. PICK q \in Int : a = q * WORD + (a % WORD) BY <1>2, Remainder
<1>4. a % WORD \in Int BY <1>2, Remainder, SMT
<1>5. q * WORD = (q * k) * RB_CAPACITY BY <1>1, RingAssumption, SMT
<1>6. a = (a % WORD) + (q * k) * RB_CAPACITY
  <2>1. PICK m \in Int : m = q * WORD BY <1>2, SMT
  <2>2. a = (a % WORD) + m BY <1>3, <1>4, <2>1, SMT
  <2> QED BY <1>5, <2>1, <2>2
<1>7. q * k \in Int BY <1>1, SMT
<1>8. ((a % WORD) + (q * k) * RB_CAPACITY) % RB_CAPACITY = (a % WORD) % RB_CAPACITY
  BY <1>4, <1>7, ShiftRemainder, RingAssumption
<1> QED BY <1>6, <1>8 DEF Slot

\* Two indices less than a ring apart have different slots.
LEMMA SlotsDiffer ==
  ASSUME NEW a \in Int, NEW d \in 1 .. RB_CAPACITY - 1
  PROVE  Slot(a + d) # Slot(a)
<1> SUFFICES ASSUME Slot(a + d) = Slot(a) PROVE FALSE
  OBVIOUS
<1> DEFINE m == RB_CAPACITY
<1>0. m \in Nat \ {0} /\ a + d \in Int BY RingAssumption, SMT
<1>1. PICK p \in Int : a = p * m + (a % m) BY <1>0, Remainder
<1>2. PICK q \in Int : a + d = q * m + ((a + d) % m) BY <1>0, Remainder
<1>3. a % m \in 0 .. m - 1 /\ (a + d) % m = a % m BY <1>0, Remainder DEF Slot
<1>4. d = (q - p) * m + 0
  <2>1. (q - p) * m = q * m - p * m BY <1>0, SMT
  <2> QED BY <1>0, <1>1, <1>2, <1>3, <2>1, SMT
<1>5. d = 0 BY <1>0, <1>4, SameRemainder, SMT
<1> QED BY <1>5

----
\* What a step does to the indices

\* The ring and the word are not empty, and slots are slots.
LEMMA RingSizes ==
  /\ RB_CAPACITY \in Nat \ {0} /\ WORD \in Nat \ {0} /\ WORD > RB_CAPACITY
  /\ \A i \in Int : Slot(i) \in Slots /\ i % WORD \in 0 .. WORD - 1
<1>1. PICK k \in 2 .. WORD : WORD = k * RB_CAPACITY BY RingAssumption
<1>2. RB_CAPACITY \in Nat \ {0} BY RingAssumption
<1>3. k * RB_CAPACITY >= 2 * RB_CAPACITY BY <1>2, SMT
<1>4. WORD > RB_CAPACITY BY <1>1, <1>2, <1>3, SMT
<1>5. WORD \in Nat \ {0} BY <1>2, <1>4, RingAssumption, SMT
<1>6. \A i \in Int : i % RB_CAPACITY \in 0 .. RB_CAPACITY - 1 BY <1>2, Remainder
<1>7. \A i \in Int : i % WORD \in 0 .. WORD - 1 BY <1>5, Remainder
<1> QED BY <1>2, <1>4, <1>5, <1>6, <1>7 DEF Slot, Slots

\* A sample more: head is the index behind those that wait, before and after.
LEMMA HeadMoves ==
  ASSUME head \in 0 .. WORD - 1, tail \in 0 .. WORD - 1, NEW n \in Nat, n < WORD, n = (head - tail) % WORD
  PROVE  /\ head = (tail + n) % WORD
         /\ n + 1 < WORD => n + 1 = (((head + 1) % WORD) - tail) % WORD
<1>0. WORD \in Nat \ {0} BY RingSizes
<1>1. PICK q \in Int : head - tail = q * WORD + n
  <2>1. head - tail \in Int BY <1>0, SMT
  <2> QED BY <1>0, <2>1, Remainder
<1>2. tail + n = (-q) * WORD + head
  <2>1. (-q) * WORD = -(q * WORD) BY <1>0, SMT
  <2>2. PICK m \in Int : m = q * WORD BY <1>0, SMT
  <2>3. head - tail = m + n BY <1>1, <2>2
  <2>4. tail + n = -m + head BY <1>0, <2>3, SMT
  <2> QED BY <2>1, <2>2, <2>4
<1>3. tail + n \in Int /\ -q \in Int BY <1>0, SMT
<1>4. head = (tail + n) % WORD BY <1>0, <1>2, <1>3, RemainderUnique
<1>5. ASSUME n + 1 < WORD PROVE n + 1 = (((head + 1) % WORD) - tail) % WORD
  <2>1. head + 1 \in Int BY <1>0, SMT
  <2>2. PICK p \in Int : head + 1 = p * WORD + ((head + 1) % WORD) BY <1>0, <2>1, Remainder
  <2>3. (head + 1) % WORD \in 0 .. WORD - 1 BY <1>0, <2>1, Remainder
  <2>4. ((head + 1) % WORD) - tail = (q - p) * WORD + (n + 1)
    <3>1. (q - p) * WORD = q * WORD - p * WORD BY <1>0, SMT
    <3>2. PICK m \in Int : m = q * WORD BY <1>0, SMT
    <3>3. PICK k \in Int : k = p * WORD BY <1>0, SMT
    <3>4. head - tail = m + n BY <1>1, <3>2
    <3>5. PICK r \in Int : r = (head + 1) % WORD BY <1>0, <2>3, SMT
    <3>6. head + 1 = k + r BY <2>2, <3>3, <3>5
    <3>7. r - tail = (m - k) + (n + 1) BY <1>0, <3>4, <3>6, SMT
    <3> QED BY <3>1, <3>2, <3>3, <3>5, <3>7
  <2>5. ((head + 1) % WORD) - tail \in Int /\ q - p \in Int /\ n + 1 \in 0 .. WORD - 1
    BY <1>0, <1>5, <2>3, SMT
  <2> QED BY <1>0, <2>4, <2>5, RemainderUnique
<1> QED BY <1>4, <1>5

\* t samples less.
LEMMA TailMoves ==
  ASSUME head \in 0 .. WORD - 1, tail \in 0 .. WORD - 1, NEW n \in Nat, n < WORD, n = (head - tail) % WORD,
         NEW t \in 0 .. n
  PROVE  n - t = (head - ((tail + t) % WORD)) % WORD
<1>0. WORD \in Nat \ {0} BY RingSizes
<1>1. PICK q \in Int : head - tail = q * WORD + n
  <2>1. head - tail \in Int BY <1>0, SMT
  <2> QED BY <1>0, <2>1, Remainder
<1>2. tail + t \in Int BY <1>0, SMT
<1>3. PICK p \in Int : tail + t = p * WORD + ((tail + t) % WORD) BY <1>0, <1>2, Remainder
<1>4. (tail + t) % WORD \in 0 .. WORD - 1 BY <1>0, <1>2, Remainder
<1>5. head - ((tail + t) % WORD) = (q + p) * WORD + (n - t)
  <2>1. (q + p) * WORD = q * WORD + p * WORD BY <1>0, SMT
  <2> QED BY <1>0, <1>1, <1>3, <1>4, <2>1, SMT
<1>6. head - ((tail + t) % WORD) \in Int /\ q + p \in Int /\ n - t \in 0 .. WORD - 1 BY <1>0, <1>4, SMT
<1> QED BY <1>0, <1>5, <1>6, RemainderUnique

----
\* The invariant

\* Nothing waits at the start.
THEOREM RingStarts == RingInit => RingInv
<1> SUFFICES ASSUME RingInit PROVE RingInv
  OBVIOUS
<1>1. RB_CAPACITY \in Nat \ {0} /\ WORD \in Nat \ {0} BY RingSizes
<1>2. (0 - 0) % WORD = 0
  <2>1. 0 = 0 * WORD + 0 BY <1>1, SMT
  <2> QED BY <1>1, <2>1, RemainderUnique, SMT
<1>3. RingTypeOK
  <2>1. buf \in [Slots -> Sample] BY RingAssumption DEF RingInit
  <2>2. Len(waiting) = 0 /\ waiting \in Seq(Sample) /\ got \in Seq(Sample) BY SMT DEF RingInit
  <2>3. sample \in Sample BY RingAssumption DEF RingInit
  <2> QED BY <1>1, <1>2, <2>1, <2>2, <2>3, SMT DEF RingInit, RingTypeOK
<1> QED BY <1>3, SMT DEF RingInit, RingInv, HearsInOrder

\* rb_push looks at the indices only: it goes on if there is room.
LEMMA PushKeeps ==
  ASSUME RingInv, NEW s \in Sample, Push(s)
  PROVE  RingInv'
<1> USE DEF popVars
<1>1. RingTypeOK' BY SMT DEF RingInv, RingTypeOK, Push
<1>2. pushing' # "no" => Len(waiting') < RB_CAPACITY
  BY RingSizes, SMT DEF RingInv, RingTypeOK, Push
<1>3. HearsInOrder' BY DEF RingInv, HearsInOrder, Push
<1> QED BY <1>1, <1>2, <1>3, Zenon DEF RingInv, Push

\* The slot that is written is none of those that wait.
LEMMA PushWritesKeeps ==
  ASSUME RingInv, PushWrites
  PROVE  RingInv'
<1> USE DEF popVars
<1>1. RB_CAPACITY \in Nat \ {0} /\ WORD \in Nat \ {0} /\ RB_CAPACITY < WORD BY RingSizes
<1>2. Slot(head) \in Slots BY RingSizes, SMT DEF RingInv, RingTypeOK
<1>3. RingTypeOK'
  <2>1. buf' \in [Slots -> Sample] BY <1>2 DEF RingInv, RingTypeOK, PushWrites
  <2> QED BY <2>1, Zenon DEF RingInv, RingTypeOK, PushWrites
<1>4. ASSUME NEW i \in 1 .. Len(waiting)
      PROVE  buf'[Slot((tail + (i - 1)) % WORD)] = waiting[i]
  <2> DEFINE n == Len(waiting)
  <2>1. n \in Nat /\ n < RB_CAPACITY /\ n = (head - tail) % WORD /\ head \in 0 .. WORD - 1 /\ tail \in 0 .. WORD - 1
    BY <1>1, SMT DEF RingInv, RingTypeOK, PushWrites
  <2>2. head = (tail + n) % WORD BY <1>1, <2>1, HeadMoves, SMT
  <2>3. tail + (i - 1) \in Int /\ tail + n \in Int /\ n - (i - 1) \in 1 .. RB_CAPACITY - 1
        /\ tail + n = (tail + (i - 1)) + (n - (i - 1))
    BY <1>1, <2>1, SMT
  <2>4. Slot(head) = Slot(tail + n) BY <2>2, <2>3, SlotOfWrapped
  <2>5. Slot((tail + (i - 1)) % WORD) = Slot(tail + (i - 1)) BY <2>3, SlotOfWrapped
  <2>6. Slot(head) # Slot((tail + (i - 1)) % WORD) BY <2>3, <2>4, <2>5, SlotsDiffer
  <2>7. Slot((tail + (i - 1)) % WORD) \in Slots BY <2>3, <2>5, RingSizes
  <2>8. buf[Slot((tail + (i - 1)) % WORD)] = waiting[i] BY DEF RingInv
  <2> QED BY <1>2, <2>6, <2>7, <2>8 DEF RingInv, RingTypeOK, PushWrites
<1>5. buf'[Slot(head)] = sample BY <1>2 DEF RingInv, RingTypeOK, PushWrites
<1>6. HearsInOrder' BY DEF RingInv, HearsInOrder, PushWrites
<1>7. Len(waiting) < RB_CAPACITY BY DEF RingInv, PushWrites
<1> QED BY <1>3, <1>4, <1>5, <1>6, <1>7, Zenon DEF RingInv, PushWrites

\* The sample behind the waiting ones waits too.
LEMMA PushPublishesKeeps ==
  ASSUME RingInv, PushPublishes
  PROVE  RingInv'
<1> USE DEF popVars
<1> DEFINE n == Len(waiting)
<1>1. RB_CAPACITY \in Nat \ {0} /\ WORD \in Nat \ {0} /\ RB_CAPACITY < WORD BY RingSizes
<1>2. /\ n \in Nat /\ n < RB_CAPACITY /\ n = (head - tail) % WORD
      /\ head \in 0 .. WORD - 1 /\ tail \in 0 .. WORD - 1 /\ head + 1 \in Int
  BY <1>1, SMT DEF RingInv, RingTypeOK, PushPublishes
<1>3. head = (tail + n) % WORD /\ n + 1 = (((head + 1) % WORD) - tail) % WORD
  BY <1>1, <1>2, HeadMoves, SMT
<1>4. /\ waiting' \in Seq(Sample) /\ Len(waiting') = n + 1
      /\ waiting'[n + 1] = sample /\ \A i \in 1 .. n : waiting'[i] = waiting[i]
  BY SMT DEF RingInv, RingTypeOK, PushPublishes
<1>5. RingTypeOK'
  <2>1. head' \in 0 .. WORD - 1 BY <1>2, RingSizes DEF PushPublishes
  <2>2. Len(waiting') <= RB_CAPACITY BY <1>1, <1>2, <1>4, SMT
  <2>3. Len(waiting') = (head' - tail) % WORD BY <1>3, <1>4 DEF PushPublishes
  <2> QED BY <1>4, <2>1, <2>2, <2>3, Zenon DEF RingInv, RingTypeOK, PushPublishes
<1>6. ASSUME NEW i \in 1 .. Len(waiting')
      PROVE  buf[Slot((tail + (i - 1)) % WORD)] = waiting'[i]
  <2>1. CASE i = n + 1
    <3>1. i - 1 = n BY <1>2, <2>1, SMT
    <3> QED BY <1>3, <1>4, <2>1, <3>1 DEF RingInv, PushPublishes
  <2>2. CASE i \in 1 .. n
    BY <1>4, <2>2 DEF RingInv
  <2> QED BY <1>2, <1>4, <2>1, <2>2, SMT
<1>7. HearsInOrder'
  <2> SUFFICES ASSUME popping = "copies"
              PROVE  take <= n + 1 /\ Len(got) <= take /\ \A i \in 1 .. Len(got) : got[i] = waiting'[i]
    BY <1>4 DEF HearsInOrder, PushPublishes
  <2>1. take <= n /\ Len(got) <= take /\ \A i \in 1 .. Len(got) : got[i] = waiting[i]
    BY DEF RingInv, HearsInOrder
  <2>2. Len(got) \in Nat /\ take \in Nat BY SMT DEF RingInv, RingTypeOK
  <2>3. \A i \in 1 .. Len(got) : i \in 1 .. n BY <1>2, <2>1, <2>2, SMT
  <2>4. take <= n + 1 BY <1>2, <2>1, <2>2, SMT
  <2> QED BY <1>4, <2>1, <2>3, <2>4
<1> QED BY <1>5, <1>6, <1>7, Zenon DEF RingInv, PushPublishes

\* The callback starts: no more than what waits.
LEMMA PopKeeps ==
  ASSUME RingInv, NEW n \in FrameCounts, Pop(n)
  PROVE  RingInv'
<1> USE DEF pushVars
<1>1. n \in Nat BY RingAssumption
<1>2. take' \in Nat /\ take' <= Len(waiting) /\ got' = <<>> /\ want' \in Nat
  BY <1>1, SMT DEF RingInv, RingTypeOK, Pop
<1>3. RingTypeOK' BY <1>2, SMT DEF RingInv, RingTypeOK, Pop
<1>4. HearsInOrder' BY <1>2, SMT DEF HearsInOrder, Pop
<1> QED BY <1>3, <1>4, Zenon DEF RingInv, Pop

\* A sample is copied: the next that waits.
LEMMA PopCopiesKeeps ==
  ASSUME RingInv, PopCopies
  PROVE  RingInv'
<1> USE DEF pushVars
<1> DEFINE g == Len(got)
<1>1. /\ g \in Nat /\ take \in Nat /\ g < take /\ take <= Len(waiting) /\ Len(waiting) \in Nat
      /\ \A i \in 1 .. g : got[i] = waiting[i]
  <2>1. g \in Nat /\ take \in Nat /\ Len(waiting) \in Nat BY SMT DEF RingInv, RingTypeOK
  <2>2. g < take /\ take <= Len(waiting) /\ \A i \in 1 .. g : got[i] = waiting[i]
    BY Zenon DEF RingInv, HearsInOrder, PopCopies
  <2> QED BY <2>1, <2>2
<1>2. g + 1 \in 1 .. Len(waiting) /\ g = (g + 1) - 1 BY <1>1, SMT
<1>3. buf[Slot((tail + g) % WORD)] = waiting[g + 1] BY <1>2, Zenon DEF RingInv
<1>4. waiting[g + 1] \in Sample BY <1>2, SMT DEF RingInv, RingTypeOK
<1>5. got' = Append(got, waiting[g + 1]) BY <1>3 DEF PopCopies
<1>6. /\ got' \in Seq(Sample) /\ Len(got') = g + 1
      /\ got'[g + 1] = waiting[g + 1] /\ \A i \in 1 .. g : got'[i] = got[i]
  BY <1>4, <1>5, SMT DEF RingInv, RingTypeOK
<1>7. HearsInOrder'
  <2>1. \A i \in 1 .. g + 1 : got'[i] = waiting[i]
    <3> TAKE i \in 1 .. g + 1
    <3>1. i = g + 1 \/ i \in 1 .. g BY <1>1, SMT
    <3> QED BY <1>1, <1>6, <3>1
  <2>2. g + 1 <= take BY <1>1, SMT
  <2> QED BY <1>1, <1>6, <2>1, <2>2 DEF HearsInOrder, PopCopies
<1>8. RingTypeOK' BY <1>6, Zenon DEF RingInv, RingTypeOK, PopCopies
<1> QED BY <1>7, <1>8, Zenon DEF RingInv, PopCopies

\* The callback has copied all it takes, and tail is behind them.
LEMMA PopPublishesKeeps ==
  ASSUME RingInv, PopPublishes
  PROVE  RingInv'
<1> USE DEF pushVars
<1> DEFINE n == Len(waiting)
<1>1. RB_CAPACITY \in Nat \ {0} /\ WORD \in Nat \ {0} /\ RB_CAPACITY < WORD BY RingSizes
<1>2. /\ n \in Nat /\ n <= RB_CAPACITY /\ n < WORD /\ n = (head - tail) % WORD /\ take \in 0 .. n
      /\ head \in 0 .. WORD - 1 /\ tail \in 0 .. WORD - 1 /\ tail + take \in Int
  BY <1>1, SMT DEF RingInv, RingTypeOK, HearsInOrder, PopPublishes
<1>3. n - take = (head - ((tail + take) % WORD)) % WORD BY <1>2, TailMoves
<1>4. /\ waiting' \in Seq(Sample) /\ Len(waiting') = n - take
      /\ \A i \in 1 .. n - take : waiting'[i] = waiting[i + take]
  <2>1. n - take \in Nat BY <1>2, SMT
  <2>2. \A i \in 1 .. n - take : waiting[i + take] \in Sample
    BY <1>2, SMT DEF RingInv, RingTypeOK
  <2>3. waiting' = [i \in 1 .. n - take |-> waiting[i + take]] BY DEF PopPublishes
  <2> QED BY <2>1, <2>2, <2>3, SMT
<1>5. RingTypeOK'
  <2>1. tail' \in 0 .. WORD - 1 BY <1>2, RingSizes DEF PopPublishes
  <2>2. Len(waiting') <= RB_CAPACITY BY <1>1, <1>2, <1>4, SMT
  <2>3. Len(waiting') = (head - tail') % WORD BY <1>3, <1>4 DEF PopPublishes
  <2> QED BY <1>4, <2>1, <2>2, <2>3, Zenon DEF RingInv, RingTypeOK, PopPublishes
<1>6. ASSUME NEW i \in 1 .. Len(waiting')
      PROVE  buf[Slot((tail' + (i - 1)) % WORD)] = waiting'[i]
  <2> DEFINE a == tail + ((i + take) - 1)
  <2>1. i + take \in 1 .. n /\ a \in Int /\ i \in 1 .. n - take BY <1>2, <1>4, SMT
  <2>2. buf[Slot(a % WORD)] = waiting'[i] BY <1>4, <2>1 DEF RingInv
  <2>3. PICK t \in Int : t = tail' /\ t = (tail + take) % WORD
    <3>1. tail' = (tail + take) % WORD BY DEF PopPublishes
    <3>2. (tail + take) % WORD \in 0 .. WORD - 1 BY <1>2, RingSizes
    <3>3. (tail + take) % WORD \in Int BY <1>1, <3>2, SMT
    <3> QED BY <3>1, <3>3
  <2>4. (tail' + (i - 1)) % WORD = a % WORD
    <3>1. PICK q \in Int : tail + take = q * WORD + ((tail + take) % WORD) BY <1>1, <1>2, Remainder
    <3>2. PICK m \in Int : m = q * WORD BY <1>1, SMT
    <3>3. tail + take = m + t BY <2>3, <3>1, <3>2
    <3>4. a = (t + (i - 1)) + m /\ t + (i - 1) \in Int BY <1>2, <2>1, <3>3, SMT
    <3>5. (t + (i - 1)) % WORD = a % WORD
      <4>1. PICK b \in Int : b = t + (i - 1) BY <3>4
      <4>2. (b + q * WORD) % WORD = b % WORD BY <1>1, <3>1, <4>1, ShiftRemainder
      <4> QED BY <3>2, <3>4, <4>1, <4>2
    <3> QED BY <2>3, <3>5
  <2> QED BY <2>2, <2>4
<1>7. pushing' # "no" => Len(waiting') < RB_CAPACITY
  <2>1. pushing # "no" => n < RB_CAPACITY BY DEF RingInv
  <2>2. n < RB_CAPACITY => n - take < RB_CAPACITY BY <1>1, <1>2, SMT
  <2> QED BY <1>4, <2>1, <2>2 DEF PopPublishes
<1>8. HearsInOrder' BY DEF HearsInOrder, PopPublishes
<1> QED BY <1>5, <1>6, <1>7, <1>8, Zenon DEF RingInv, PopPublishes

\* What the ring holds: the samples that wait, each in its slot.
THEOREM RingHolds == RingSpec => []RingInv
<1>1. RingInv /\ [RingNext]_ringVars => RingInv'
  <2> SUFFICES ASSUME RingInv, [RingNext]_ringVars PROVE RingInv'
    OBVIOUS
  <2>1. CASE UNCHANGED ringVars
    BY <2>1, Zenon DEF RingInv, RingTypeOK, HearsInOrder, ringVars
  <2>2. CASE RingNext
    BY <2>2, PushKeeps, PushWritesKeeps, PushPublishesKeeps, PopKeeps, PopCopiesKeeps, PopPublishesKeeps, Zenon
    DEF RingNext
  <2> QED BY <2>1, <2>2
<1> QED BY <1>1, RingStarts, PTL DEF RingSpec

\* Every variable has its type.
THEOREM RingIsTyped == RingSpec => []RingTypeOK
<1>1. RingInv => RingTypeOK BY DEF RingInv
<1> QED BY <1>1, RingHolds, PTL

\* The sound card's thread hears the accepted samples in their order.
THEOREM RingIsHeardInOrder == RingSpec => []HearsInOrder
<1>1. RingInv => HearsInOrder BY DEF RingInv
<1> QED BY <1>1, RingHolds, PTL

=============================================================================
