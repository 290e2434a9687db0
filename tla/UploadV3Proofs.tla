---------------------------- MODULE UploadV3Proofs ----------------------------
(***************************************************************************)
(* That the format 3 receiver, whose handler fills memory and moves        *)
(* UPLOAD_P on between any two instructions of the main loop, checks what  *)
(* was sent: the verdict is right, whatever the line does, and what it     *)
(* hands to upload_place is what UploadPlaceProofs.tla starts from.        *)
(***************************************************************************)
EXTENDS UploadV3, UploadPlaceProofs

LEMMA Halves ==
  ASSUME NEW a \in Nat
  PROVE  /\ High(a) \in Nat /\ Low(a) \in 0 .. PageSize - 1
         /\ a = High(a) * PageSize + Low(a)
<1>1. PageSize \in Nat /\ PageSize > 0
  BY MapAssumption DEF FixedSize, EntrySize
<1> QED BY <1>1, Z3 DEF High, Low

LEMMA Joined ==
  ASSUME NEW h \in Nat, NEW l \in 0 .. PageSize - 1
  PROVE  /\ h * PageSize + l \in Nat
         /\ High(h * PageSize + l) = h /\ Low(h * PageSize + l) = l
<1>1. PageSize \in Nat /\ PageSize > 0
  BY MapAssumption DEF FixedSize, EntrySize
<1> QED BY <1>1, Z3 DEF High, Low

LEMMA HigherIsMore ==
  ASSUME NEW h \in Nat, NEW g \in Nat, h < g, NEW l \in 0 .. PageSize - 1, NEW m \in Nat
  PROVE  h * PageSize + l < g * PageSize + m
<1>1. PageSize \in Nat /\ PageSize > 0
  BY MapAssumption DEF FixedSize, EntrySize
<1>2. (h + 1) * PageSize <= g * PageSize
  BY <1>1
<1>3. (h + 1) * PageSize = h * PageSize + PageSize
  BY <1>1
<1> QED BY <1>1, <1>2, <1>3

LEMMA HighGrows ==
  ASSUME NEW a \in Nat, NEW b \in Nat, a <= b
  PROVE  High(a) <= High(b) /\ (High(a) = High(b) => Low(a) <= Low(b))
<1>1. PICK h, l, g, m : h = High(a) /\ l = Low(a) /\ g = High(b) /\ m = Low(b)
  OBVIOUS
<1>2. /\ h \in Nat /\ g \in Nat /\ l \in 0 .. PageSize - 1 /\ m \in 0 .. PageSize - 1
      /\ a = h * PageSize + l /\ b = g * PageSize + m
  BY <1>1, Halves
<1>3. ~ (g < h)
  <2> SUFFICES ASSUME g < h PROVE FALSE
    OBVIOUS
  <2>1. l \in Nat /\ PageSize \in Nat
    BY <1>2, MapFacts
  <2>2. g * PageSize + m < h * PageSize + l
    BY <1>2, <2>1, HigherIsMore
  <2> QED BY <1>2, <2>2
<1>4. h <= g
  BY <1>2, <1>3
<1>5. h = g => l <= m
  <2> SUFFICES ASSUME h = g PROVE l <= m
    OBVIOUS
  <2>1. PICK x : x = h * PageSize
    OBVIOUS
  <2>2. x \in Nat /\ PageSize \in Nat
    BY <1>2, <2>1, MapFacts
  <2>3. a = x + l /\ b = x + m
    BY <1>2, <2>1
  <2> QED BY <1>2, <2>2, <2>3
<1> QED BY <1>1, <1>4, <1>5

-----------------------------------------------------------------------------
(***************************************************************************)
(* The stream                                                              *)
(***************************************************************************)

LEMMA CellsAre ==
  /\ {Version, StartAt, HeaderSum, DataSum, Spoilt, Old, Zero, Loader} \subseteq Cells
  /\ \A n \in Nat : Count(n) \in Cells /\ EntryCell(n) \in Cells
  /\ \A n, k \in Nat : Cell(n, k) \in Cells
BY DEF Version, StartAt, HeaderSum, DataSum, Spoilt, Old, Zero, Loader, Count, EntryCell, Cell, Cells, CellKinds

LEMMA DataIsCells ==
  ASSUME NEW t \in Seq(EntryType)
  PROVE  DataOf(t) \in Seq(Cells) /\ Len(t) \in Nat /\ Len(DataOf(t)) \in Nat
<1>1. DataOf(t) \in Seq(DataCells)
  <2>1. 0 \in Nat
    OBVIOUS
  <2> QED BY <2>1, DataStands
<1>2. DataCells \subseteq Cells
  BY CellsAre DEF DataCells
<1>3. \A q \in Seq(DataCells) : q \in Seq(Cells)
  BY <1>2
<1> QED BY <1>1, <1>3

\* What is sent: five cells, the entries, the data.
LEMMA SentCells ==
  ASSUME NEW t \in Seq(EntryType)
  PROVE  /\ Sendable(t) \in Seq(Cells)
         /\ Len(Sendable(t)) = 5 + Len(t) + Len(DataOf(t))
         /\ Sendable(t)[1] = Version /\ Sendable(t)[2] = StartAt /\ Sendable(t)[3] = Count(Len(t))
         /\ Sendable(t)[4] = HeaderSum /\ Sendable(t)[5] = DataSum
         /\ \A i \in 1 .. Len(t) : Sendable(t)[5 + i] = EntryCell(i)
         /\ \A k \in 1 .. Len(DataOf(t)) : Sendable(t)[5 + Len(t) + k] = DataOf(t)[k]
<1>1. DataOf(t) \in Seq(Cells) /\ Len(t) \in Nat
  BY DataIsCells
<1> DEFINE f == <<Version, StartAt, Count(Len(t)), HeaderSum, DataSum>>
           e == [i \in 1 .. Len(t) |-> EntryCell(i)]
           d == DataOf(t)
<1>2. f \in Seq(Cells) /\ Len(f) = 5
  <2>1. Version \in Cells /\ StartAt \in Cells /\ Count(Len(t)) \in Cells /\ HeaderSum \in Cells /\ DataSum \in Cells
    BY <1>1, CellsAre
  <2> QED BY <2>1
<1>3. e \in Seq(Cells) /\ Len(e) = Len(t) /\ \A i \in 1 .. Len(t) : e[i] = EntryCell(i)
  <2>1. \A i \in 1 .. Len(t) : EntryCell(i) \in Cells
    BY <1>1, CellsAre
  <2> QED BY <1>1, <2>1
<1>4. /\ f[1] = Version /\ f[2] = StartAt /\ f[3] = Count(Len(t)) /\ f[4] = HeaderSum /\ f[5] = DataSum
  OBVIOUS
<1>5. Sendable(t) = (f \o e) \o d
  <2>1. Sendable(t) = f \o e \o d
    BY DEF Sendable, Entries
  <2> HIDE DEF f, e, d
  <2> QED BY <2>1
<1>6. d \in Seq(Cells)
  BY <1>1
<1>7. PICK n : n = Len(t)
  OBVIOUS
<1> HIDE DEF f, e, d
<1>8. /\ f \o e \in Seq(Cells) /\ Len(f \o e) = 5 + n
      /\ \A i \in 1 .. 5 + n : (f \o e)[i] = IF i <= 5 THEN f[i] ELSE e[i - 5]
  <2>2. PICK a, b : a = Len(f) /\ b = Len(e)
    OBVIOUS
  <2>3. a = 5 /\ b = n
    BY <1>2, <1>3, <1>7, <2>2
  <2>4. /\ f \o e \in Seq(Cells) /\ Len(f \o e) = Len(f) + Len(e)
        /\ \A i \in 1 .. Len(f) + Len(e) : (f \o e)[i] = IF i <= Len(f) THEN f[i] ELSE e[i - Len(f)]
    <3>1. f \in Seq(Cells) /\ e \in Seq(Cells)
      BY <1>2, <1>3
    <3> QED BY <3>1, ConcatProperties
  <2>5. Len(f) = 5 /\ Len(e) = n
    BY <2>2, <2>3
  <2> QED BY <2>4, <2>5
<1>9. Len(d) \in Nat /\ n \in Nat
  BY <1>1, <1>6, <1>7, LenProperties
<1>10. /\ Sendable(t) \in Seq(Cells) /\ Len(Sendable(t)) = 5 + n + Len(d)
       /\ \A i \in 1 .. 5 + n + Len(d) : Sendable(t)[i] = IF i <= 5 + n THEN (f \o e)[i] ELSE d[i - (5 + n)]
  BY <1>5, <1>6, <1>8, ConcatProperties
<1>11. \A i \in 1 .. 5 : Sendable(t)[i] = f[i]
  <2> TAKE i \in 1 .. 5
  <2>1. i \in 1 .. 5 + n /\ i \in 1 .. 5 + n + Len(d) /\ i <= 5 /\ i <= 5 + n
    BY <1>9
  <2>2. Sendable(t)[i] = (f \o e)[i]
    BY <1>10, <2>1
  <2> QED BY <1>8, <2>1, <2>2
<1>12. \A i \in 1 .. n : Sendable(t)[5 + i] = e[i]
  <2> TAKE i \in 1 .. n
  <2>1. PICK j : j = 5 + i
    OBVIOUS
  <2>2. j \in 1 .. 5 + n /\ j \in 1 .. 5 + n + Len(d) /\ ~ (j <= 5) /\ j <= 5 + n /\ j - 5 = i
    BY <1>9, <2>1
  <2> QED BY <1>8, <1>10, <2>1, <2>2
<1>13. \A k \in 1 .. Len(d) : Sendable(t)[5 + n + k] = d[k]
  <2> TAKE k \in 1 .. Len(d)
  <2>1. PICK j : j = 5 + n + k
    OBVIOUS
  <2>2. j \in 1 .. 5 + n + Len(d) /\ ~ (j <= 5 + n) /\ j - (5 + n) = k
    BY <1>9, <2>1
  <2> QED BY <1>10, <2>1, <2>2
<1>14. /\ 1 \in 1 .. 5 /\ 2 \in 1 .. 5 /\ 3 \in 1 .. 5 /\ 4 \in 1 .. 5 /\ 5 \in 1 .. 5
  OBVIOUS
<1>15. /\ Sendable(t)[1] = Version /\ Sendable(t)[2] = StartAt /\ Sendable(t)[3] = Count(Len(t))
       /\ Sendable(t)[4] = HeaderSum /\ Sendable(t)[5] = DataSum
  BY <1>4, <1>11, <1>14
<1> QED BY <1>3, <1>7, <1>10, <1>12, <1>13, <1>15 DEF d

\* A fault makes the stream no longer.
LEMMA SpoiledCells ==
  ASSUME NEW q \in Seq(Cells), Len(q) >= 5, NEW f \in FaultType
  PROVE  Spoiled(q, f) \in Seq(Cells) /\ Len(Spoiled(q, f)) <= Len(q) /\ Len(Spoiled(q, f)) \in Nat /\ Len(q) \in Nat
<1>1. Len(q) \in Nat /\ f.at \in Nat
  BY DEF FaultType
<1>3. ASSUME NEW v \in Cells, NEW n \in Nat
      PROVE  [q EXCEPT ![n] = v] \in Seq(Cells) /\ Len([q EXCEPT ![n] = v]) = Len(q)
  <2>1. CASE n \in 1 .. Len(q)
    BY <2>1, ExceptSeq
  <2>2. CASE n \notin 1 .. Len(q)
    <3>1. [q EXCEPT ![n] = v] = q
      BY <2>2
    <3> QED BY <3>1
  <2> QED BY <2>1, <2>2
<1>4. [q EXCEPT ![f.at] = Spoilt] \in Seq(Cells) /\ Len([q EXCEPT ![f.at] = Spoilt]) = Len(q)
  <2>1. Spoilt \in Cells
    BY CellsAre
  <2> QED BY <1>1, <1>3, <2>1
<1>5. [q EXCEPT ![3] = Count(f.at)] \in Seq(Cells) /\ Len([q EXCEPT ![3] = Count(f.at)]) = Len(q)
  <2>1. Count(f.at) \in Cells /\ 3 \in Nat
    BY <1>1, CellsAre
  <2> QED BY <1>3, <2>1
<1>6. ASSUME NEW n \in Nat, n <= Len(q)
      PROVE  /\ SubSeq(q, 1, n - 1) \o SubSeq(q, n + 1, Len(q)) \in Seq(Cells)
             /\ Len(SubSeq(q, 1, n - 1) \o SubSeq(q, n + 1, Len(q))) <= Len(q)
  <2>1. PICK u, v : u = SubSeq(q, 1, n - 1) /\ v = SubSeq(q, n + 1, Len(q))
    OBVIOUS
  <2>2. u \in Seq(Cells) /\ v \in Seq(Cells)
    BY <1>1, <1>6, <2>1
  <2>3. Len(u) <= n /\ Len(v) = Len(q) - n /\ (n > 0 => Len(u) = n - 1) /\ (n = 0 => Len(u) = 0)
    BY <1>1, <1>6, <2>1
  <2>4. u \o v \in Seq(Cells) /\ Len(u \o v) = Len(u) + Len(v)
    BY <2>2, ConcatProperties
  <2>5. Len(u) \in Nat /\ Len(v) \in Nat
    BY <2>2, LenProperties
  <2>6. Len(u) + Len(v) <= Len(q)
    BY <1>1, <1>6, <2>3, <2>5
  <2> QED BY <2>1, <2>4, <2>6
<1>7. \/ Spoiled(q, f) \in {q, [q EXCEPT ![f.at] = Spoilt], [q EXCEPT ![3] = Count(f.at)]}
      \/ f.at <= Len(q) /\ Spoiled(q, f) = SubSeq(q, 1, f.at - 1) \o SubSeq(q, f.at + 1, Len(q))
  BY DEF Spoiled
<1>8. Spoiled(q, f) \in Seq(Cells) /\ Len(Spoiled(q, f)) <= Len(q)
  <2>1. CASE Spoiled(q, f) = q
    BY <2>1, <1>1
  <2>2. CASE Spoiled(q, f) = [q EXCEPT ![f.at] = Spoilt]
    BY <2>2, <1>1, <1>4
  <2>3. CASE Spoiled(q, f) = [q EXCEPT ![3] = Count(f.at)]
    BY <2>3, <1>1, <1>5
  <2>4. CASE f.at <= Len(q) /\ Spoiled(q, f) = SubSeq(q, 1, f.at - 1) \o SubSeq(q, f.at + 1, Len(q))
    BY <2>4, <1>1, <1>6
  <2> QED BY <1>7, <2>1, <2>2, <2>3, <2>4
<1>9. Len(Spoiled(q, f)) \in Nat
  BY <1>8, LenProperties
<1> QED BY <1>1, <1>8, <1>9

-----------------------------------------------------------------------------
(***************************************************************************)
(* The loader's check of the table is what the sender promises             *)
(***************************************************************************)

LEMMA EndIsExact ==
  ASSUME NEW e \in EntryType, e.address + e.length < AddressMod
  PROVE  End(e) = e.address + e.length
<1>1. PICK x : x = e.address + e.length
  OBVIOUS
<1>2. x \in Nat /\ AddressMod \in Nat /\ x < AddressMod
  BY <1>1, LoaderAssumption DEF EntryType
<1>3. x % AddressMod = x
  BY <1>2
<1> QED BY <1>1, <1>3 DEF End

LEMMA ProperIsGood ==
  ASSUME NEW t \in Seq(EntryType), Proper(t)
  PROVE  GoodTable(t) /\ Len(t) \in Counts
<1>1. \A i \in 1 .. Len(t) : End(t[i]) = t[i].address + t[i].length /\ t[i].address + t[i].length < AddressMod
  <2> TAKE i \in 1 .. Len(t)
  <2>1. t[i] \in EntryType
    OBVIOUS
  <2>2. PICK a, l : a = t[i].address /\ l = t[i].length
    OBVIOUS
  <2>3. a \in Nat /\ l \in Nat /\ (a + l <= PageSize \/ a + l <= Limit)
    BY <2>2, EntriesAt
  <2>4. a + l < AddressMod
    BY <2>3, MapFacts, LoaderAssumption
  <2> QED BY <2>1, <2>2, <2>4, EndIsExact
<1>2. ASSUME NEW i \in DOMAIN t
      PROVE  GoodEntry(t[i], IF i = 1 THEN 0 ELSE End(t[i - 1]))
  <2>1. i \in 1 .. Len(t) /\ Len(t) \in Nat
    OBVIOUS
  <2>2. t[i].kind \in {"data", "fill"}
    BY DEF Proper
  <2>3. PICK a, l : a = t[i].address /\ l = t[i].length
    OBVIOUS
  <2>4. /\ a \in Nat /\ l \in Nat /\ l > 0
        /\ a + l <= PageSize \/ (RamStart <= a /\ a + l <= Limit)
        /\ End(t[i]) = a + l /\ a + l < AddressMod
    BY <1>1, <2>1, <2>3, EntriesAt
  <2>5. a >= IF i = 1 THEN 0 ELSE End(t[i - 1])
    <3>1. CASE i = 1
      BY <2>4, <3>1
    <3>2. CASE i # 1
      <4>1. i - 1 \in 1 .. Len(t) /\ i - 1 < i
        BY <2>1, <3>2
      <4>2. t[i - 1].address + t[i - 1].length <= t[i].address
        BY <2>1, <4>1, EntriesAt
      <4>3. End(t[i - 1]) = t[i - 1].address + t[i - 1].length
        BY <1>1, <4>1
      <4>4. PICK b : b = End(t[i - 1])
        OBVIOUS
      <4>5. b \in Nat
        BY <4>1, <4>3, <4>4, EntriesAt
      <4> QED BY <2>3, <2>4, <3>2, <4>2, <4>3, <4>4, <4>5
    <3> QED BY <3>1, <3>2
  <2>6. l # 0 /\ (a + l <= PageSize \/ (a >= RamStart /\ a + l <= Limit))
    BY <2>4, MapFacts
  <2> QED BY <2>2, <2>3, <2>4, <2>5, <2>6 DEF GoodEntry
<1>3. Len(t) \in Counts
  BY EntriesAt, MapAssumption DEF Counts
<1> QED BY <1>2, <1>3 DEF GoodTable

LEMMA GoodIsProper ==
  ASSUME NEW t \in Seq(EntryType), GoodTable(t), Len(t) \in Counts,
         HEntries + Len(t) * EntrySize + Len(DataOf(t)) <= Limit
  PROVE  Proper(t)
<1>1. Len(t) \in Nat /\ Len(t) \in 1 .. MaxEntries /\ DOMAIN t = 1 .. Len(t)
  BY DEF Counts
<1>2. ASSUME NEW i \in 1 .. Len(t)
      PROVE  /\ t[i].kind \in {"data", "fill"} /\ t[i].address \in Nat /\ t[i].length \in Nat /\ t[i].length > 0
             /\ End(t[i]) = t[i].address + t[i].length
             /\ End(t[i]) <= PageSize \/ (RamStart <= t[i].address /\ End(t[i]) <= Limit)
             /\ i # 1 => End(t[i - 1]) <= t[i].address
  <2>1. t[i] \in EntryType
    OBVIOUS
  <2>2. GoodEntry(t[i], IF i = 1 THEN 0 ELSE End(t[i - 1]))
    BY <1>1 DEF GoodTable
  <2>3. t[i].address \in Nat /\ t[i].length \in Nat /\ RamStart \in Nat
    BY <2>1, MapFacts DEF EntryType
  <2>4. End(t[i]) = t[i].address + t[i].length
    BY <2>1, <2>2, EndIsExact DEF GoodEntry
  <2>5. t[i].length > 0
    <3>1. PICK l : l = t[i].length
      OBVIOUS
    <3>2. l \in Nat /\ l # 0
      BY <2>2, <2>3, <3>1 DEF GoodEntry
    <3>3. l > 0
      BY <3>2
    <3> QED BY <3>1, <3>3
  <2>6. PICK a : a = t[i].address
    OBVIOUS
  <2>7. a \in Nat
    BY <2>3, <2>6
  <2>8. a >= RamStart => RamStart <= a
    BY <2>3, <2>7
  <2>9. i # 1 => End(t[i - 1]) <= t[i].address
    <3> SUFFICES ASSUME i # 1 PROVE End(t[i - 1]) <= t[i].address
      OBVIOUS
    <3>1. PICK b : b = End(t[i - 1])
      OBVIOUS
    <3>2. t[i - 1] \in EntryType
      BY <1>1
    <3>3. a >= b
      BY <2>2, <2>6, <3>1 DEF GoodEntry
    <3>4. b \in Nat
      <4>1. PICK x : x = t[i - 1].address + t[i - 1].length
        OBVIOUS
      <4>2. x \in Nat /\ AddressMod \in Nat /\ AddressMod > 0
        BY <3>2, <4>1, LoaderAssumption, MapFacts DEF EntryType
      <4>3. x % AddressMod \in Nat
        BY <4>2
      <4> QED BY <3>1, <4>1, <4>3 DEF End
    <3> QED BY <2>6, <2>7, <3>1, <3>3, <3>4
  <2> QED BY <2>2, <2>3, <2>4, <2>5, <2>6, <2>8, <2>9 DEF GoodEntry
<1> DEFINE E(i) == End(t[i])
           A(i) == t[i].address
<1>3. ASSUME NEW i \in 1 .. Len(t), NEW j \in 1 .. Len(t), i < j PROVE E(i) <= A(j)
  <2> DEFINE Bad == {k \in i + 1 .. Len(t) : ~ (E(i) <= A(k))}
  <2>1. ASSUME Bad # {} PROVE FALSE
    <3>1. PICK k \in Bad : \A m \in Bad : k <= m
      <4>1. Bad \subseteq Nat
        BY <1>1
      <4> HIDE DEF Bad
      <4> QED BY <2>1, <4>1, LeastNatural
    <3>2. k \in i + 1 .. Len(t) /\ ~ (E(i) <= A(k)) /\ k \in 1 .. Len(t) /\ k # 1 /\ k \in Nat
      BY <1>1
    <3>3. E(k - 1) <= A(k)
      BY <1>2, <3>2
    <3>4. k # i + 1
      BY <3>2, <3>3
    <3>5. k - 1 \in i + 1 .. Len(t) /\ ~ (k <= k - 1) /\ k - 1 \in 1 .. Len(t)
      BY <3>2, <3>4
    <3>6. E(i) <= A(k - 1)
      BY <3>1, <3>5
    <3>7. A(k - 1) \in Nat /\ A(k) \in Nat /\ E(i) \in Nat /\ E(k - 1) \in Nat /\ A(k - 1) <= E(k - 1)
      <4>1. ASSUME NEW n \in 1 .. Len(t) PROVE A(n) \in Nat /\ E(n) \in Nat /\ A(n) <= E(n)
        <5>1. PICK a, l : a = t[n].address /\ l = t[n].length
          OBVIOUS
        <5>2. a \in Nat /\ l \in Nat /\ End(t[n]) = a + l
          BY <1>2, <5>1
        <5> QED BY <5>1, <5>2
      <4> HIDE DEF A, E
      <4> QED BY <3>2, <3>5, <4>1
    <3> HIDE DEF A, E
    <3> QED BY <3>2, <3>3, <3>6, <3>7
  <2>2. j \in i + 1 .. Len(t)
    BY <1>1, <1>3
  <2> QED BY <2>1, <2>2
<1>4. ASSUME NEW i \in DOMAIN t
      PROVE  /\ t[i].kind \in {"data", "fill"} /\ t[i].length > 0
             /\ Taken(t[i]) \subseteq 0 .. PageSize - 1 \/ Taken(t[i]) \subseteq RamStart .. Limit - 1
  <2>1. PICK a, l : a = t[i].address /\ l = t[i].length
    OBVIOUS
  <2>2. a \in Nat /\ l \in Nat /\ (a + l <= PageSize \/ (RamStart <= a /\ a + l <= Limit))
    BY <1>1, <1>2, <2>1
  <2>3. a .. a + l - 1 \subseteq 0 .. PageSize - 1 \/ a .. a + l - 1 \subseteq RamStart .. Limit - 1
    BY <2>2, MapFacts
  <2> QED BY <1>1, <1>2, <2>1, <2>3 DEF Taken
<1>5. ASSUME NEW i \in DOMAIN t, NEW j \in DOMAIN t, i < j, NEW x \in Taken(t[i]), NEW y \in Taken(t[j])
      PROVE  x < y
  <2>1. PICK a, l, b, n : a = t[i].address /\ l = t[i].length /\ b = t[j].address /\ n = t[j].length
    OBVIOUS
  <2>2. a \in Nat /\ l \in Nat /\ b \in Nat /\ n \in Nat /\ a + l <= b
    BY <1>1, <1>2, <1>3, <1>5, <2>1
  <2>3. x \in a .. a + l - 1 /\ y \in b .. b + n - 1
    BY <2>1 DEF Taken
  <2> QED BY <2>2, <2>3
<1> QED BY <1>1, <1>4, <1>5 DEF Proper

-----------------------------------------------------------------------------
(***************************************************************************)
(* The invariant: what the handler has stored, what the main loop has      *)
(* checked, and that it knows of no more than has come.                    *)
(***************************************************************************)

\* What comes over the line.
Line == Spoiled(Sendable(sent), fault)

Waits == {"read_high", "read_low", "reread", "progress", "check"}
Refusals == {"bad_version", "bad_header", "bad_block", "bad_checksum"}

TypesInv ==
  /\ sent \in Seq(EntryType) /\ fault \in FaultType
  /\ p \in Stream .. Limit /\ seen \in Nat /\ sumAt \in Nat /\ dataStart \in Nat /\ dataEnd \in Nat
  /\ state \in {"fixed", "header", "data"} /\ count \in 0 .. MaxEntries
  /\ block \in 1 .. MaxEntries
  /\ state # "data" => block = 1 /\ table = <<>>
  /\ state = "data" => table = sent

\* Where the main loop is, in which phase.
PcInv ==
  /\ phase \in {"receive", "failed"} \cup Placing
  /\ phase = "receive" => pc \in Waits \cup {"finish"}
  /\ phase = "failed" => pc \in Refusals
  /\ phase \in Placing => pc = "placing"
  /\ phase \notin Placing => job = NoJob /\ entry = 1

\* What the handler has stored and what is still on the wire.
WireInv ==
  /\ DOMAIN mem = Addresses /\ DOMAIN stash = Owned
  /\ \A a \in Owned : mem[a] = Loader /\ stash[a] = Zero
  /\ wire \in Seq(Cells) /\ Len(wire) = Len(Line) - (p - Stream)
  /\ \A k \in 1 .. Len(wire) : wire[k] = Line[p - Stream + k]
  /\ \A k \in 1 .. p - Stream : mem[Stream + k - 1] = Line[k]

\* What the main loop has checked: the fixed fields, the entries, part of the data.
FixedInv ==
  state \in {"header", "data"} =>
    /\ count \in Counts /\ dataStart = HEntries + count * EntrySize
    /\ HEntries <= p
    /\ mem[HVersion] = Version /\ mem[HCount] = Count(count)

HeaderInv ==
  state = "data" =>
    /\ count = Len(sent) /\ dataStart <= p
    /\ HeaderSumMatches /\ GoodTable(sent)
    /\ dataEnd = EndOf(Len(sent)) /\ dataEnd <= Limit
    /\ block <= count

SumInv ==
  state = "data" =>
    /\ sumAt \in dataStart .. dataEnd
    /\ sum \in Seq(Cells) /\ Len(sum) = sumAt - dataStart
    /\ \A k \in 1 .. Len(sum) : sum[k] = mem[dataStart + k - 1]

FinishInv ==
  pc = "finish" => state = "data" /\ sumAt = dataEnd /\ mem[HDataSum] = DataSum /\ sum = DataOf(sent)

\* The stream has come up to x, and a read of UPLOAD_P in two halves will say so.
Arrived(x) ==
  /\ x <= p
  /\ pc = "reread" /\ High(seen) = High(p) => x <= seen
  /\ pc \in {"progress", "check"} => x <= seen

\* UPLOAD_SEEN, read in halves, does not overtake UPLOAD_P, nor fall behind what is
\* summed or shown.
SeenInv ==
  /\ High(seen) <= High(p)
  /\ pc = "reread" /\ High(seen) = High(p) => Low(seen) <= Low(p)
  /\ pc \in {"progress", "check"} => seen <= p
  /\ Arrived(Stream)
  /\ state = "data" => Arrived(sumAt) /\ Arrived(EndOf(block - 1))

ReceiveInv == WireInv /\ FixedInv /\ HeaderInv /\ SumInv /\ FinishInv /\ SeenInv

UploadInv ==
  /\ TypesInv /\ PcInv
  /\ phase = "receive" => ReceiveInv
  /\ phase \in Placing => PlaceInv /\ state = "data"
  /\ VerdictIsRight /\ HandsOver /\ ReadsOnlyWhatArrived

LEMMA StreamFacts ==
  /\ Stream \in Nat /\ PageSize < Stream /\ Stream < RamStart /\ RamStart = 2 * PageSize
  /\ RamStart \in Nat /\ RamStart < Limit /\ Limit \in Nat /\ PageSize \in Nat
  /\ HVersion = Stream /\ HStart = Stream + 1 /\ HCount = Stream + 2 /\ HHeaderSum = Stream + 3
  /\ HDataSum = Stream + 4 /\ HEntries = Stream + 5
  /\ EntrySize = 1
  /\ \A n \in Nat : HEntries + n * EntrySize = Stream + 5 + n
BY MapAssumption DEF RamStart, Stream, FixedSize, EntrySize, HVersion, HStart, HCount, HHeaderSum, HDataSum, HEntries

LEMMA LineFacts ==
  ASSUME TypesInv
  PROVE  /\ Line \in Seq(Cells) /\ Len(Line) \in Nat /\ Len(Line) <= Len(Sendable(sent))
         /\ Len(sent) \in Nat /\ Len(DataOf(sent)) \in Nat /\ DataOf(sent) \in Seq(Cells)
         /\ Len(Sendable(sent)) = 5 + Len(sent) + Len(DataOf(sent))
<1>1. sent \in Seq(EntryType) /\ fault \in FaultType
  BY DEF TypesInv
<1>2. DataOf(sent) \in Seq(Cells) /\ Len(sent) \in Nat /\ Len(DataOf(sent)) \in Nat
  BY <1>1, DataIsCells
<1>3. Sendable(sent) \in Seq(Cells) /\ Len(Sendable(sent)) = 5 + Len(sent) + Len(DataOf(sent))
  BY <1>1, SentCells
<1>4. Len(Sendable(sent)) >= 5
  BY <1>2, <1>3
<1>5. Line \in Seq(Cells) /\ Len(Line) <= Len(Sendable(sent)) /\ Len(Line) \in Nat
  BY <1>1, <1>3, <1>4, SpoiledCells DEF Line
<1> QED BY <1>2, <1>3, <1>5

\* Where the data of a block ends does not depend on what is still to come.
LEMMA EndsAreNat ==
  ASSUME TypesInv, state = "data"
  PROVE  /\ EndOf(0) = dataStart
         /\ \A i \in 0 .. Len(sent) : EndOf(i) \in Nat
         /\ \A i, j \in 0 .. Len(sent) : i <= j => EndOf(i) <= EndOf(j)
         /\ Len(DataOf(sent)) = EndOf(Len(sent)) - dataStart
<1>1. sent \in Seq(EntryType) /\ dataStart \in Nat /\ table = sent /\ Len(sent) \in Nat
  BY LineFacts DEF TypesInv
<1>2. \A i \in 0 .. Len(sent) : EndOf(i) \in Nat /\ \A j \in 0 .. i : EndOf(j) <= EndOf(i)
  BY <1>1, EndsGrow DEF EndOf
<1>3. ASSUME NEW i \in 0 .. Len(sent), NEW j \in 0 .. Len(sent), i <= j PROVE EndOf(i) <= EndOf(j)
  <2>1. i \in 0 .. j
    BY <1>3
  <2> QED BY <1>2, <2>1
<1>4. EndOf(0) = dataStart
  BY <1>1, EndsStep DEF EndOf
<1>5. Len(DataOf(sent)) = EndOf(Len(sent)) - dataStart
  BY <1>1, DataStands DEF EndOf
<1> QED BY <1>2, <1>3, <1>4, <1>5

\* The state in the first phase.
LEMMA WhileReceiving ==
  ASSUME UploadInv, phase = "receive"
  PROVE  /\ TypesInv /\ WireInv /\ FixedInv /\ HeaderInv /\ SumInv /\ FinishInv /\ SeenInv
         /\ job = NoJob /\ entry = 1 /\ pc \in Waits \cup {"finish"}
         /\ phase \notin Placing /\ pc \notin Refusals
BY DEF UploadInv, ReceiveInv, PcInv, Placing, Passes, Refusals, Waits

\* While receiving, the rest of the invariant follows.
LEMMA StillReceiving ==
  ASSUME TypesInv, WireInv, FixedInv, HeaderInv, SumInv, FinishInv, SeenInv,
         phase = "receive", pc \in Waits \cup {"finish"}, job = NoJob, entry = 1
  PROVE  UploadInv
<1>1. phase \notin Placing /\ pc \notin Refusals /\ phase # "failed"
  BY DEF Placing, Passes, Refusals, Waits
<1>2. PcInv
  BY <1>1 DEF PcInv
<1>3. VerdictIsRight
  BY <1>1 DEF VerdictIsRight, Placing, Passes, Refusals
<1>4. HandsOver
  BY DEF HandsOver
<1>5. ReadsOnlyWhatArrived
  BY DEF ReadsOnlyWhatArrived, SeenInv, SumInv, Arrived, TypesInv
<1> QED BY <1>1, <1>2, <1>3, <1>4, <1>5 DEF UploadInv, ReceiveInv

LEMMA UploadStarts == UploadInit => UploadInv
<1> SUFFICES ASSUME UploadInit PROVE UploadInv
  OBVIOUS
<1>1. PICK u \in Uploads : sent = u.table /\ fault = u.fault
  BY DEF UploadInit
<1>2. sent \in Seq(EntryType) /\ fault \in FaultType
  BY <1>1, LoaderAssumption
<1>3. /\ wire = Line /\ phase = "receive" /\ table = <<>> /\ dataStart = 0 /\ dataEnd = 0 /\ entry = 1 /\ job = NoJob
      /\ mem = [a \in Addresses |-> IF a \in Owned THEN Loader ELSE Old] /\ stash = [a \in Owned |-> Zero]
      /\ p = Stream /\ seen = Stream /\ pc = "read_high" /\ state = "fixed" /\ count = 0 /\ sumAt = 0 /\ block = 1
  BY DEF UploadInit, Line
<1>4. TypesInv
  BY <1>2, <1>3, StreamFacts, MapAssumption DEF TypesInv
<1>5. WireInv
  <2>1. Line \in Seq(Cells) /\ Len(Line) \in Nat
    BY <1>4, LineFacts
  <2>2. p - Stream = 0
    BY <1>3, StreamFacts
  <2>3. \A k \in 1 .. Len(wire) : p - Stream + k = k
    BY <2>2
  <2>4. \A a \in Owned : a \in Addresses
    BY MapFacts
  <2> QED BY <1>3, <2>1, <2>2, <2>3, <2>4 DEF WireInv
<1>6. SeenInv
  <2>1. High(seen) = High(p) /\ High(p) \in Nat /\ Stream <= p
    BY <1>3, StreamFacts, Halves
  <2> QED BY <1>3, <2>1 DEF SeenInv, Arrived
<1>7. FixedInv /\ HeaderInv /\ SumInv /\ FinishInv
  BY <1>3 DEF FixedInv, HeaderInv, SumInv, FinishInv
<1> QED BY <1>3, <1>4, <1>5, <1>6, <1>7, StillReceiving DEF Waits

-----------------------------------------------------------------------------
(***************************************************************************)
(* The main loop's own steps, which leave alone what the handler writes    *)
(***************************************************************************)

Receiving ==
  /\ TypesInv /\ WireInv /\ FixedInv /\ HeaderInv /\ SumInv /\ FinishInv /\ SeenInv
  /\ phase = "receive" /\ pc \in Waits \cup {"finish"} /\ job = NoJob /\ entry = 1

LEMMA NextIsReceiving == Receiving' => UploadInv'
<1>1. Receiving => UploadInv
  BY StillReceiving DEF Receiving
<1> QED BY <1>1, PTL

LEMMA LoopKeeps ==
  ASSUME UploadInv, phase = "receive",
         UNCHANGED <<phase, mem, stash, table, dataStart, dataEnd, entry, job, sent, wire, fault, p, state, count, sum, sumAt>>,
         pc' \in Waits, seen' \in Nat, block' \in 1 .. MaxEntries,
         state # "data" => block' = block, state = "data" => block' <= count,
         SeenInv'
  PROVE  UploadInv'
<1>1. /\ TypesInv /\ WireInv /\ FixedInv /\ HeaderInv /\ SumInv /\ job = NoJob /\ entry = 1
  BY WhileReceiving
<1>2. /\ phase' = phase /\ mem' = mem /\ stash' = stash /\ table' = table /\ dataStart' = dataStart /\ dataEnd' = dataEnd
      /\ entry' = entry /\ job' = job /\ sent' = sent /\ wire' = wire /\ fault' = fault /\ p' = p /\ state' = state
      /\ count' = count /\ sum' = sum /\ sumAt' = sumAt
  OBVIOUS
<1>3. TypesInv'
  BY <1>1, <1>2 DEF TypesInv
<1>4. WireInv'
  <2>1. Line' = Line
    BY <1>2 DEF Line
  <2> QED BY <1>1, <1>2, <2>1 DEF WireInv
<1>5. FixedInv'
  BY <1>1, <1>2 DEF FixedInv
<1>6. HeaderInv'
  <2>1. HeaderSumMatches' = HeaderSumMatches
    BY <1>2 DEF HeaderSumMatches, HeaderCells, SentHeader
  <2>2. \A i : EndOf(i)' = EndOf(i)
    BY <1>2 DEF EndOf
  <2>3. EndOf(Len(sent))' = EndOf(Len(sent))
    BY <1>2 DEF EndOf
  <2> QED BY <1>1, <1>2, <2>1, <2>3 DEF HeaderInv
<1>7. SumInv'
  BY <1>1, <1>2 DEF SumInv
<1>8. FinishInv'
  BY DEF FinishInv, Waits
<1> QED BY <1>1, <1>2, <1>3, <1>4, <1>5, <1>6, <1>7, <1>8, NextIsReceiving DEF Receiving

LEMMA SeenFacts ==
  ASSUME UploadInv, phase = "receive"
  PROVE  /\ p \in Nat /\ seen \in Nat /\ block \in 1 .. MaxEntries
         /\ state = "data" => block <= count
         /\ High(p) \in Nat /\ Low(p) \in 0 .. PageSize - 1 /\ p = High(p) * PageSize + Low(p)
         /\ High(seen) \in Nat /\ Low(seen) \in 0 .. PageSize - 1 /\ seen = High(seen) * PageSize + Low(seen)
<1>1. TypesInv /\ HeaderInv
  BY WhileReceiving
<1>2. p \in Nat /\ seen \in Nat
  BY <1>1, StreamFacts DEF TypesInv
<1> QED BY <1>1, <1>2, Halves DEF TypesInv, HeaderInv

LEMMA ReadHighStep ==
  ASSUME UploadInv, ReadHigh
  PROVE  UploadInv'
<1>1. /\ phase = "receive" /\ seen' = High(p) * PageSize + Low(seen) /\ pc' = "read_low"
      /\ UNCHANGED <<phase, mem, stash, table, dataStart, dataEnd, source, entry, job>>
      /\ UNCHANGED <<sent, wire, fault, p, state, count, sum, sumAt, shown, block, paused, lcd>>
  BY DEF ReadHigh, At, placeVars
<1>2. High(seen)' = High(p) /\ seen' \in Nat
  <2>1. \A h, l : h \in Nat /\ l \in 0 .. PageSize - 1 => High(h * PageSize + l) = h /\ h * PageSize + l \in Nat
    BY Joined
  <2> QED BY <1>1, <2>1, SeenFacts
<1>3. SeenInv'
  <2>1. SeenInv /\ High(p) \in Nat
    BY <1>1, WhileReceiving, SeenFacts
  <2>2. High(p)' = High(p)
    BY <1>1 DEF High
  <2>3. EndOf(block - 1)' = EndOf(block - 1)
    BY <1>1 DEF EndOf
  <2> QED BY <1>1, <1>2, <2>1, <2>2, <2>3 DEF SeenInv, Arrived
<1>4. UNCHANGED <<phase, mem, stash, table, dataStart, dataEnd, entry, job, sent, wire, fault, p, state, count, sum, sumAt>>
  BY <1>1
<1>5. pc' \in Waits
  BY <1>1 DEF Waits
<1>6. /\ phase = "receive" /\ seen' \in Nat /\ block' \in 1 .. MaxEntries
      /\ state # "data" => block' = block
      /\ state = "data" => block' <= count
  BY <1>1, SeenFacts, <1>2
<1> QED BY <1>3, <1>4, <1>5, <1>6, LoopKeeps

LEMMA ReadLowStep ==
  ASSUME UploadInv, ReadLow
  PROVE  UploadInv'
<1>1. /\ phase = "receive" /\ seen' = High(seen) * PageSize + Low(p) /\ pc' = "reread"
      /\ UNCHANGED <<phase, mem, stash, table, dataStart, dataEnd, source, entry, job>>
      /\ UNCHANGED <<sent, wire, fault, p, state, count, sum, sumAt, shown, block, paused, lcd>>
  BY DEF ReadLow, At, placeVars
<1>2. High(seen)' = High(seen) /\ Low(seen)' = Low(p) /\ seen' \in Nat
  <2>1. \A h, l : h \in Nat /\ l \in 0 .. PageSize - 1 =>
                    /\ High(h * PageSize + l) = h /\ Low(h * PageSize + l) = l /\ h * PageSize + l \in Nat
    BY Joined
  <2> QED BY <1>1, <2>1, SeenFacts
<1>3. SeenInv'
  <2>1. SeenInv /\ High(p) \in Nat
    BY <1>1, WhileReceiving, SeenFacts
  <2>2. High(p)' = High(p) /\ Low(p)' = Low(p)
    BY <1>1 DEF High, Low
  <2>3. EndOf(block - 1)' = EndOf(block - 1)
    BY <1>1 DEF EndOf
  <2>4. High(seen) = High(p) => seen' = p
    BY <1>1, SeenFacts
  <2>5. Low(p) <= Low(p)
    BY <1>1, SeenFacts
  <2> QED BY <1>1, <1>2, <2>1, <2>2, <2>3, <2>4, <2>5 DEF SeenInv, Arrived
<1>4. UNCHANGED <<phase, mem, stash, table, dataStart, dataEnd, entry, job, sent, wire, fault, p, state, count, sum, sumAt>>
  BY <1>1
<1>5. pc' \in Waits
  BY <1>1 DEF Waits
<1>6. /\ phase = "receive" /\ seen' \in Nat /\ block' \in 1 .. MaxEntries
      /\ state # "data" => block' = block
      /\ state = "data" => block' <= count
  BY <1>1, SeenFacts, <1>2
<1> QED BY <1>3, <1>4, <1>5, <1>6, LoopKeeps

LEMMA RereadStep ==
  ASSUME UploadInv, Reread
  PROVE  UploadInv'
<1>1. /\ phase = "receive" /\ pc = "reread" /\ pc' = IF High(p) = High(seen) THEN "progress" ELSE "read_high"
      /\ UNCHANGED <<phase, mem, stash, table, dataStart, dataEnd, source, entry, job>>
      /\ UNCHANGED <<sent, wire, fault, p, seen, state, count, sum, sumAt, shown, block, paused, lcd>>
  BY DEF Reread, At, placeVars
<1>2. SeenInv'
  <2>1. SeenInv
    BY <1>1, WhileReceiving
  <2>2. High(p)' = High(p) /\ Low(p)' = Low(p) /\ High(seen)' = High(seen) /\ Low(seen)' = Low(seen)
    BY <1>1 DEF High, Low
  <2>3. EndOf(block - 1)' = EndOf(block - 1)
    BY <1>1 DEF EndOf
  <2>4. High(p) = High(seen) => seen <= p
    <3> SUFFICES ASSUME High(p) = High(seen) PROVE seen <= p
      OBVIOUS
    <3>1. PICK x, l, m : x = High(p) * PageSize /\ l = Low(p) /\ m = Low(seen)
      OBVIOUS
    <3>2. x \in Nat /\ l \in Nat /\ m \in Nat /\ m <= l /\ p = x + l /\ seen = x + m
      BY <1>1, <2>1, <3>1, SeenFacts, StreamFacts DEF SeenInv
    <3> QED BY <3>2
  <2> QED BY <1>1, <2>1, <2>2, <2>3, <2>4 DEF SeenInv, Arrived
<1>3. pc' \in Waits
  BY <1>1 DEF Waits
<1>4. UNCHANGED <<phase, mem, stash, table, dataStart, dataEnd, entry, job, sent, wire, fault, p, state, count, sum, sumAt>>
  BY <1>1
<1>6. /\ phase = "receive" /\ seen' \in Nat /\ block' \in 1 .. MaxEntries
      /\ state # "data" => block' = block
      /\ state = "data" => block' <= count
  BY <1>1, SeenFacts
<1> QED BY <1>2, <1>3, <1>4, <1>6, LoopKeeps

\* The block that upload_show_progress moves on to has begun to arrive.
LEMMA ReachedFacts ==
  ASSUME UploadInv, phase = "receive", state = "data", NEW at \in Nat, NEW b, b = Reached(block, at)
  PROVE  /\ b \in block .. count /\ b \in 1 .. Len(sent) /\ b \in 1 .. MaxEntries
         /\ b = block \/ EndOf(b - 1) < at
         /\ EndOf(b - 1) \in Nat
         /\ b = count \/ at <= EndOf(b)
<1>1. TypesInv /\ HeaderInv /\ FixedInv
  BY WhileReceiving
<1>2. block \in Nat /\ block >= 1 /\ block <= count /\ count = Len(sent) /\ count \in 1 .. MaxEntries /\ count \in Nat /\ MaxEntries \in Nat
  BY <1>1, MapAssumption DEF TypesInv, HeaderInv, FixedInv, Counts
<1> DEFINE arriving == {i \in block .. count : i = count \/ EndOf(i) >= at}
<1>3. Reached(block, at) = CHOOSE i \in arriving : \A j \in arriving : i <= j
  BY DEF Reached, EndOf
<1>4. arriving \subseteq Nat /\ count \in arriving
  BY <1>2
<1>5. \E i \in arriving : \A j \in arriving : i <= j
  <2> HIDE DEF arriving
  <2> QED BY <1>4, LeastNatural
<1>6. b \in arriving /\ \A j \in arriving : b <= j
  <2> HIDE DEF arriving
  <2> QED BY <1>3, <1>5
<1>7. b \in block .. count /\ b \in 1 .. Len(sent) /\ b - 1 \in 0 .. Len(sent) /\ b \in 0 .. Len(sent)
      /\ b \in 1 .. MaxEntries
  BY <1>2, <1>6
<1>8. EndOf(b - 1) \in Nat /\ EndOf(b) \in Nat
  BY <1>1, <1>7, EndsAreNat
<1>9. ASSUME b # block PROVE EndOf(b - 1) < at
  <2>1. b - 1 \in block .. count /\ ~ (b <= b - 1)
    BY <1>2, <1>7, <1>9
  <2>2. ~ (EndOf(b - 1) >= at)
    BY <1>6, <2>1
  <2> QED BY <1>8, <2>2
<1>10. b = count \/ at <= EndOf(b)
  BY <1>6, <1>8
<1> QED BY <1>7, <1>8, <1>9, <1>10

LEMMA PaceProgressStep ==
  ASSUME UploadInv, PaceProgress
  PROVE  UploadInv'
<1>1. /\ phase = "receive" /\ pc = "progress" /\ pc' = "check"
      /\ UNCHANGED <<phase, mem, stash, table, dataStart, dataEnd, source, entry, job>>
      /\ UNCHANGED <<sent, wire, fault, p, seen, state, count, sum, sumAt>>
      /\ block' = block \/ (state = "data" /\ block' = Reached(block, seen))
  BY DEF PaceProgress, ShowProgress, Draw, At, placeVars
<1>2. PICK b : b = block'
  OBVIOUS
<1>3. /\ b \in 1 .. MaxEntries
      /\ state # "data" => b = block
      /\ state = "data" => b <= count /\ (b = block \/ EndOf(b - 1) < seen) /\ EndOf(b - 1) \in Nat
  <2>1. CASE b = block
    <3>1. state = "data" => EndOf(b - 1) \in Nat
      <4> SUFFICES ASSUME state = "data" PROVE EndOf(b - 1) \in Nat
        OBVIOUS
      <4>1. TypesInv /\ HeaderInv
        BY <1>1, WhileReceiving
      <4>2. b - 1 \in 0 .. Len(sent)
        BY <2>1, <4>1, LineFacts DEF TypesInv, HeaderInv
      <4> QED BY <4>1, <4>2, EndsAreNat
    <3> QED BY <1>1, <2>1, <3>1, SeenFacts
  <2>2. CASE state = "data" /\ b = Reached(block, seen)
    <3>1. seen \in Nat
      BY <1>1, SeenFacts
    <3>2. b \in block .. count /\ b \in 1 .. MaxEntries /\ (b = block \/ EndOf(b - 1) < seen) /\ EndOf(b - 1) \in Nat
      BY <1>1, <2>2, <3>1, ReachedFacts
    <3>3. count \in Nat /\ block \in Nat
      BY <1>1, WhileReceiving, MapAssumption DEF TypesInv
    <3> QED BY <2>2, <3>2, <3>3
  <2> QED BY <1>1, <1>2, <2>1, <2>2
<1>4. SeenInv'
  <2>1. SeenInv /\ p \in Nat /\ seen \in Nat
    BY <1>1, WhileReceiving, SeenFacts
  <2>2. High(p)' = High(p) /\ High(seen)' = High(seen)
    BY <1>1 DEF High
  <2>3. EndOf(block - 1)' = EndOf(b - 1)
    BY <1>1, <1>2 DEF EndOf
  <2>4. state = "data" => EndOf(b - 1) <= seen /\ EndOf(b - 1) <= p
    <3> SUFFICES ASSUME state = "data" PROVE EndOf(b - 1) <= seen /\ EndOf(b - 1) <= p
      OBVIOUS
    <3>1. seen <= p
      BY <1>1, <2>1 DEF SeenInv
    <3>2. CASE b = block
      BY <1>1, <2>1, <3>2 DEF SeenInv, Arrived
    <3>3. CASE EndOf(b - 1) < seen
      BY <1>3, <2>1, <3>1, <3>3
    <3> QED BY <1>3, <3>2, <3>3
  <2>5. state = "data" => Arrived(EndOf(block - 1))'
    <3>1. \A x : x = EndOf(b - 1) /\ x <= p /\ x <= seen => x <= p' /\ x <= seen'
      BY <1>1
    <3> QED BY <1>1, <2>3, <2>4, <3>1 DEF Arrived
  <2>6. Arrived(Stream)' /\ (state = "data" => Arrived(sumAt)')
    BY <1>1, <2>1 DEF SeenInv, Arrived
  <2>7. High(seen) <= High(p) /\ seen <= p
    BY <1>1, <2>1 DEF SeenInv
  <2> QED BY <1>1, <2>2, <2>5, <2>6, <2>7 DEF SeenInv
<1>5. UNCHANGED <<phase, mem, stash, table, dataStart, dataEnd, entry, job, sent, wire, fault, p, state, count, sum, sumAt>>
  BY <1>1
<1>6. pc' \in Waits
  BY <1>1 DEF Waits
<1>7. /\ phase = "receive" /\ seen' \in Nat /\ block' \in 1 .. MaxEntries
      /\ state # "data" => block' = block
      /\ state = "data" => block' <= count
  BY <1>1, <1>2, <1>3, SeenFacts
<1> QED BY <1>4, <1>5, <1>6, <1>7, LoopKeeps

\* Where the main loop has not moved, nothing it goes by has.
LEMMA TickStep ==
  ASSUME UploadInv, Tick
  PROVE  UploadInv'
<1>1. /\ phase = "receive"
      /\ UNCHANGED <<phase, mem, stash, table, dataStart, dataEnd, source, entry, job>>
      /\ UNCHANGED <<sent, wire, fault, p, seen, pc, state, count, sum, sumAt, shown, block, lcd>>
  BY DEF Tick, placeVars
<1>2. TypesInv /\ WireInv /\ FixedInv /\ HeaderInv /\ SumInv /\ FinishInv /\ SeenInv
      /\ job = NoJob /\ entry = 1 /\ pc \in Waits \cup {"finish"}
  BY <1>1, WhileReceiving
<1>3. Line' = Line /\ HeaderSumMatches' = HeaderSumMatches /\ EndOf(Len(sent))' = EndOf(Len(sent))
      /\ EndOf(block - 1)' = EndOf(block - 1)
      /\ High(p)' = High(p) /\ High(seen)' = High(seen) /\ Low(p)' = Low(p) /\ Low(seen)' = Low(seen)
  BY <1>1 DEF Line, HeaderSumMatches, HeaderCells, SentHeader, EndOf, High, Low
<1>4. TypesInv' /\ WireInv' /\ FixedInv'
  BY <1>1, <1>2, <1>3 DEF TypesInv, WireInv, FixedInv
<1>5. HeaderInv' /\ SumInv' /\ FinishInv'
  BY <1>1, <1>2, <1>3 DEF HeaderInv, SumInv, FinishInv
<1>6. SeenInv'
  BY <1>1, <1>2, <1>3 DEF SeenInv, Arrived
<1> QED BY <1>1, <1>2, <1>4, <1>5, <1>6, NextIsReceiving DEF Receiving

\* The header's cells are where the stream began.
LEMMA HeaderIsBelow ==
  ASSUME UploadInv, phase = "receive"
  PROVE  /\ p \in Nat /\ Stream <= p /\ p <= Limit
         /\ \A a \in Owned : a < p /\ a \in Nat
         /\ state \in {"header", "data"} => HVersion < p /\ HCount < p /\ HHeaderSum < p /\ HDataSum < p /\ HStart < p
         /\ state = "data" => \A i \in 1 .. count : HEntries + i - 1 < p
         /\ state = "data" => \A k \in 1 .. Len(sum) : dataStart + k - 1 < p
<1>1. TypesInv /\ FixedInv /\ HeaderInv /\ SumInv /\ SeenInv
  BY WhileReceiving
<1>2. p \in Nat /\ Stream <= p /\ p <= Limit
  BY <1>1, StreamFacts DEF TypesInv
<1>3. \A a \in Owned : a < p /\ a \in Nat
  BY <1>2, StreamFacts, MapFacts
<1>4. state \in {"header", "data"} => HVersion < p /\ HCount < p /\ HHeaderSum < p /\ HDataSum < p /\ HStart < p
  BY <1>1, <1>2, StreamFacts DEF FixedInv
<1>5. ASSUME state = "data" PROVE \A i \in 1 .. count : HEntries + i - 1 < p
  <2>1. count \in Nat /\ dataStart <= p /\ dataStart = Stream + 5 + count /\ HEntries = Stream + 5
    BY <1>1, <1>5, StreamFacts, MapAssumption DEF FixedInv, HeaderInv, TypesInv
  <2> QED BY <1>2, <2>1, StreamFacts
<1>6. ASSUME state = "data" PROVE \A k \in 1 .. Len(sum) : dataStart + k - 1 < p
  <2>1. sumAt \in Nat /\ dataStart \in Nat /\ Len(sum) = sumAt - dataStart /\ sumAt <= p
    BY <1>1, <1>6 DEF SumInv, TypesInv, SeenInv, Arrived
  <2> QED BY <1>2, <2>1
<1> QED BY <1>2, <1>3, <1>4, <1>5, <1>6

LEMMA ReceiveStep ==
  ASSUME UploadInv, Receive
  PROVE  UploadInv'
<1>1. /\ phase = "receive" /\ wire # <<>> /\ p < Limit
      /\ mem' = [mem EXCEPT ![p] = Head(wire)] /\ p' = p + 1 /\ wire' = Tail(wire)
      /\ UNCHANGED <<phase, stash, table, dataStart, dataEnd, source, entry, job>>
      /\ UNCHANGED <<sent, fault, seen, pc, state, count, sum, sumAt, shown, block, paused, lcd>>
  BY DEF Receive
<1>2. TypesInv /\ WireInv /\ FixedInv /\ HeaderInv /\ SumInv /\ FinishInv /\ SeenInv
      /\ job = NoJob /\ entry = 1 /\ pc \in Waits \cup {"finish"}
  BY <1>1, WhileReceiving
<1>3. Line' = Line /\ EndOf(Len(sent))' = EndOf(Len(sent)) /\ EndOf(block - 1)' = EndOf(block - 1)
      /\ High(seen)' = High(seen) /\ Low(seen)' = Low(seen)
  BY <1>1 DEF Line, EndOf, High, Low
<1>4. p \in Nat /\ Stream \in Nat /\ Stream <= p /\ p \in Addresses
  BY <1>1, StreamFacts, HeaderIsBelow, MapFacts
<1>5. \A a : a # p => mem'[a] = mem[a]
  BY <1>1
<1>6. \A a \in Nat : a < p => mem'[a] = mem[a]
  BY <1>4, <1>5
<1>7. TypesInv'
  BY <1>1, <1>2, <1>4, StreamFacts DEF TypesInv
<1>8. WireInv'
  <2>1. wire \in Seq(Cells) /\ Len(wire) = Len(Line) - (p - Stream) /\ Len(Line) \in Nat
    BY <1>2, LineFacts DEF WireInv
  <2>2. PICK n : n = p - Stream
    OBVIOUS
  <2>3. n \in Nat /\ p' - Stream = n + 1 /\ p = Stream + n
    BY <1>1, <1>4, <2>2
  <2>4. /\ Head(wire) = wire[1] /\ Tail(wire) \in Seq(Cells) /\ Len(Tail(wire)) = Len(wire) - 1
        /\ \A k \in 1 .. Len(Tail(wire)) : Tail(wire)[k] = wire[k + 1]
        /\ Len(wire) \in Nat /\ Len(wire) >= 1
    BY <1>1, <2>1, HeadTailProperties, LenProperties
  <2>5. DOMAIN mem' = Addresses /\ DOMAIN stash' = Owned
    BY <1>1, <1>2 DEF WireInv
  <2>6. \A a \in Owned : mem'[a] = Loader /\ stash'[a] = Zero
    BY <1>1, <1>2, <1>6, HeaderIsBelow DEF WireInv
  <2>7. wire' \in Seq(Cells) /\ Len(wire') = Len(Line) - (p' - Stream)
    BY <1>1, <2>1, <2>2, <2>3, <2>4
  <2>8. ASSUME NEW k \in 1 .. Len(wire') PROVE wire'[k] = Line[p' - Stream + k]
    <3>1. k + 1 \in 1 .. Len(wire) /\ n + (k + 1) = n + 1 + k
      BY <1>1, <2>3, <2>4
    <3>2. wire[k + 1] = Line[n + (k + 1)]
      BY <1>2, <2>2, <3>1 DEF WireInv
    <3> QED BY <1>1, <2>3, <2>4, <3>1, <3>2
  <2>9. ASSUME NEW k \in 1 .. p' - Stream PROVE mem'[Stream + k - 1] = Line[k]
    <3>1. k \in 1 .. n + 1
      BY <2>3
    <3>2. CASE k = n + 1
      <4>1. Stream + k - 1 = p
        BY <1>4, <2>3, <3>2
      <4>2. mem'[p] = wire[1]
        BY <1>1, <1>2, <1>4, <2>4 DEF WireInv
      <4>3. 1 \in 1 .. Len(wire)
        BY <2>4
      <4>4. wire[1] = Line[n + 1]
        BY <1>2, <2>2, <4>3 DEF WireInv
      <4> QED BY <3>2, <4>1, <4>2, <4>4
    <3>3. CASE k # n + 1
      <4>1. k \in 1 .. n /\ Stream + k - 1 \in Nat /\ Stream + k - 1 < p
        BY <1>4, <2>3, <3>1, <3>3
      <4>2. mem[Stream + k - 1] = Line[k]
        BY <1>2, <2>2, <4>1 DEF WireInv
      <4> QED BY <1>6, <4>1, <4>2
    <3> QED BY <3>2, <3>3
  <2> QED BY <1>3, <2>5, <2>6, <2>7, <2>8, <2>9 DEF WireInv
<1>9. state \in {"header", "data"} =>
        /\ mem'[HVersion] = mem[HVersion] /\ mem'[HStart] = mem[HStart] /\ mem'[HCount] = mem[HCount]
        /\ mem'[HHeaderSum] = mem[HHeaderSum] /\ mem'[HDataSum] = mem[HDataSum]
  BY <1>1, <1>6, HeaderIsBelow, StreamFacts
<1>10. FixedInv' /\ FinishInv'
  <2>1. HEntries <= p => HEntries <= p'
    BY <1>1, <1>4, StreamFacts
  <2>2. FixedInv'
    BY <1>1, <1>2, <1>9, <2>1 DEF FixedInv
  <2>3. FinishInv'
    BY <1>1, <1>2, <1>9 DEF FinishInv
  <2> QED BY <2>2, <2>3
<1>11. HeaderInv'
  <2> SUFFICES ASSUME state = "data" PROVE HeaderInv'
    BY <1>1 DEF HeaderInv
  <2>1. HeaderCells' = HeaderCells
    <3>1. \A i \in 1 .. count : mem'[HEntries + i - 1] = mem[HEntries + i - 1]
      <4> TAKE i \in 1 .. count
      <4>1. HEntries + i - 1 < p
        BY <1>1, HeaderIsBelow
      <4>2. HEntries + i - 1 \in Nat
        <5>1. HEntries \in Nat /\ i \in Nat /\ i >= 1
          BY <1>2, StreamFacts, MapAssumption DEF TypesInv
        <5> QED BY <5>1
      <4> QED BY <1>6, <4>1, <4>2
    <3>2. [i \in 1 .. count |-> mem'[HEntries + i - 1]] = [i \in 1 .. count |-> mem[HEntries + i - 1]]
      BY <3>1
    <3> QED BY <1>1, <1>9, <3>2 DEF HeaderCells
  <2>2. SentHeader' = SentHeader
    BY <1>1 DEF SentHeader
  <2>3. HeaderSumMatches'
    BY <1>1, <1>2, <1>9, <2>1, <2>2 DEF HeaderInv, HeaderSumMatches
  <2>4. dataStart <= p'
    BY <1>1, <1>2, <1>4 DEF HeaderInv, TypesInv
  <2> QED BY <1>1, <1>2, <1>3, <2>3, <2>4 DEF HeaderInv
<1>12. SumInv'
  <2>1. state = "data" => \A k \in 1 .. Len(sum) : mem'[dataStart + k - 1] = mem[dataStart + k - 1]
    <3> SUFFICES ASSUME state = "data", NEW k \in 1 .. Len(sum) PROVE mem'[dataStart + k - 1] = mem[dataStart + k - 1]
      OBVIOUS
    <3>1. dataStart + k - 1 < p
      BY <1>1, HeaderIsBelow
    <3>2. dataStart \in Nat /\ k \in Nat /\ k >= 1
      BY <1>2 DEF TypesInv
    <3>3. dataStart + k - 1 \in Nat
      BY <3>2
    <3> QED BY <1>6, <3>1, <3>3
  <2> QED BY <1>1, <1>2, <2>1 DEF SumInv
<1>13. SeenInv'
  <2>1. p \in Nat /\ p' \in Nat /\ p <= p' /\ seen \in Nat
    BY <1>1, <1>4, SeenFacts
  <2>2. High(p) <= High(p') /\ (High(p) = High(p') => Low(p) <= Low(p'))
    BY <2>1, HighGrows
  <2>3. /\ High(p) \in Nat /\ High(p') \in Nat /\ High(seen) \in Nat
        /\ Low(p) \in Nat /\ Low(p') \in Nat /\ Low(seen) \in Nat
    BY <2>1, Halves, StreamFacts
  <2>4. PICK h, g, s, l, m, n : h = High(p) /\ g = High(p') /\ s = High(seen) /\ l = Low(p) /\ m = Low(p') /\ n = Low(seen)
    OBVIOUS
  <2>5. /\ h <= g /\ (h = g => l <= m) /\ s <= h
        /\ pc = "reread" /\ s = h => n <= l
        /\ h \in Nat /\ g \in Nat /\ s \in Nat /\ l \in Nat /\ m \in Nat /\ n \in Nat
    BY <1>2, <2>2, <2>3, <2>4 DEF SeenInv
  <2>6. s <= g /\ (pc = "reread" /\ s = g => n <= m) /\ (s = g => s = h)
    BY <2>5
  <2>7. High(seen) <= High(p') /\ (pc = "reread" /\ High(seen) = High(p') => Low(seen) <= Low(p'))
        /\ (High(seen) = High(p') => High(seen) = High(p))
    BY <2>4, <2>6
  <2>8. High(p)' = High(p') /\ Low(p)' = Low(p')
    BY DEF High, Low
  <2>9. pc \in {"progress", "check"} => seen <= p'
    BY <1>2, <2>1 DEF SeenInv
  <2>10. Arrived(Stream)'
    BY <1>1, <1>2, <1>3, <1>4, <2>7, <2>8 DEF SeenInv, Arrived
  <2>11. ASSUME state = "data" PROVE Arrived(sumAt)' /\ Arrived(EndOf(block - 1))'
    <3>1. sumAt \in Nat /\ EndOf(block - 1) \in Nat
      <4>1. block - 1 \in 0 .. Len(sent)
        BY <1>2, <2>11, LineFacts DEF TypesInv, HeaderInv
      <4> QED BY <1>2, <2>11, <4>1, EndsAreNat DEF TypesInv
    <3>2. sumAt <= p' /\ EndOf(block - 1) <= p'
      BY <1>2, <2>1, <2>11, <3>1 DEF SeenInv, Arrived
    <3> QED BY <1>1, <1>2, <1>3, <2>7, <2>8, <2>11, <3>2 DEF SeenInv, Arrived
  <2> QED BY <1>1, <1>3, <2>7, <2>8, <2>9, <2>10, <2>11 DEF SeenInv
<1> QED BY <1>1, <1>2, <1>7, <1>8, <1>10, <1>11, <1>12, <1>13, NextIsReceiving DEF Receiving

\* What is in memory if the line has changed nothing.
LEMMA IntactMeans ==
  ASSUME UploadInv, phase = "receive", Intact
  PROVE  /\ HEntries <= p => /\ mem[HVersion] = Version /\ mem[HStart] = StartAt /\ mem[HCount] = Count(Len(sent))
                             /\ mem[HHeaderSum] = HeaderSum /\ mem[HDataSum] = DataSum
         /\ \A i \in 1 .. Len(sent) : HEntries + i <= p => mem[HEntries + i - 1] = EntryCell(i)
         /\ \A k \in 1 .. Len(DataOf(sent)) :
              HEntries + Len(sent) + k <= p => mem[HEntries + Len(sent) + k - 1] = DataOf(sent)[k]
<1>1. TypesInv /\ WireInv /\ p \in Nat /\ Stream \in Nat /\ HEntries = Stream + 5
  BY WhileReceiving, HeaderIsBelow, StreamFacts
<1>2. Len(sent) \in Nat /\ Len(DataOf(sent)) \in Nat
  BY <1>1, LineFacts
<1>3. \A k \in 1 .. p - Stream : mem[Stream + k - 1] = Sendable(sent)[k]
  BY <1>1 DEF WireInv, Intact, Line
<1>4. ASSUME NEW k \in Nat, k >= 1, Stream + k <= p PROVE mem[Stream + k - 1] = Sendable(sent)[k]
  <2>1. k \in 1 .. p - Stream
    BY <1>1, <1>4
  <2> QED BY <1>3, <2>1
<1>5. sent \in Seq(EntryType)
  BY <1>1 DEF TypesInv
<1>6. ASSUME HEntries <= p
      PROVE  /\ mem[HVersion] = Version /\ mem[HStart] = StartAt /\ mem[HCount] = Count(Len(sent))
             /\ mem[HHeaderSum] = HeaderSum /\ mem[HDataSum] = DataSum
  <2>1. /\ mem[Stream + 1 - 1] = Sendable(sent)[1] /\ mem[Stream + 2 - 1] = Sendable(sent)[2]
        /\ mem[Stream + 3 - 1] = Sendable(sent)[3] /\ mem[Stream + 4 - 1] = Sendable(sent)[4]
        /\ mem[Stream + 5 - 1] = Sendable(sent)[5]
    BY <1>1, <1>4, <1>6
  <2>2. /\ HVersion = Stream + 1 - 1 /\ HStart = Stream + 2 - 1 /\ HCount = Stream + 3 - 1
        /\ HHeaderSum = Stream + 4 - 1 /\ HDataSum = Stream + 5 - 1
    BY StreamFacts
  <2> QED BY <1>5, <2>1, <2>2, SentCells
<1>7. ASSUME NEW i \in 1 .. Len(sent), HEntries + i <= p PROVE mem[HEntries + i - 1] = EntryCell(i)
  <2>1. 5 + i \in Nat /\ 5 + i >= 1 /\ Stream + (5 + i) <= p /\ Stream + (5 + i) - 1 = HEntries + i - 1
    BY <1>1, <1>2, <1>7
  <2>2. mem[Stream + (5 + i) - 1] = Sendable(sent)[5 + i]
    BY <1>4, <2>1
  <2> QED BY <1>5, <2>1, <2>2, SentCells
<1>8. ASSUME NEW k \in 1 .. Len(DataOf(sent)), HEntries + Len(sent) + k <= p
      PROVE  mem[HEntries + Len(sent) + k - 1] = DataOf(sent)[k]
  <2>1. PICK n : n = Len(sent)
    OBVIOUS
  <2>2. /\ 5 + n + k \in Nat /\ 5 + n + k >= 1 /\ Stream + (5 + n + k) <= p
        /\ Stream + (5 + n + k) - 1 = HEntries + n + k - 1
    BY <1>1, <1>2, <1>8, <2>1
  <2>3. mem[Stream + (5 + n + k) - 1] = Sendable(sent)[5 + n + k]
    BY <1>4, <2>2
  <2>4. Sendable(sent)[5 + n + k] = DataOf(sent)[k]
    BY <1>5, <2>1, SentCells
  <2> QED BY <2>1, <2>2, <2>3, <2>4
<1> QED BY <1>6, <1>7, <1>8

\* An upload is refused for what is wrong with it.
LEMMA RefusalStep ==
  ASSUME UploadInv, phase = "receive", phase' = "failed", pc' \in Refusals,
         UNCHANGED <<table, dataStart, dataEnd, entry, job, sent, fault, p, seen, state, count, sumAt, block>>,
         ~ Intact \/ ~ Proper(sent),
         pc' \in {"bad_version", "bad_checksum"} => ~ Intact,
         pc' = "bad_block" => ~ Proper(sent)
  PROVE  UploadInv'
<1>1. TypesInv /\ job = NoJob /\ entry = 1 /\ ReadsOnlyWhatArrived
  BY WhileReceiving DEF UploadInv
<1>2. /\ table' = table /\ dataStart' = dataStart /\ dataEnd' = dataEnd /\ entry' = entry /\ job' = job
      /\ sent' = sent /\ fault' = fault /\ p' = p /\ seen' = seen /\ state' = state /\ count' = count
      /\ sumAt' = sumAt /\ block' = block
  OBVIOUS
<1>3. TypesInv'
  BY <1>1, <1>2 DEF TypesInv
<1>4. PcInv' /\ phase' \notin Placing
  BY <1>1, <1>2 DEF PcInv, Placing, Passes
<1>5. VerdictIsRight'
  <2>1. (Intact' <=> Intact) /\ (Proper(sent)' <=> Proper(sent))
    BY <1>2 DEF Intact
  <2> QED BY <2>1 DEF VerdictIsRight
<1>6. HandsOver'
  BY DEF HandsOver
<1>7. ReadsOnlyWhatArrived'
  BY <1>1, <1>2 DEF ReadsOnlyWhatArrived, Refusals
<1> QED BY <1>3, <1>4, <1>5, <1>6, <1>7 DEF UploadInv

LEMMA CheckFixedStep ==
  ASSUME UploadInv, CheckStep, CheckFixed
  PROVE  UploadInv'
<1>1. /\ phase = "receive" /\ pc = "check" /\ state = "fixed"
      /\ UNCHANGED <<mem, stash, job, sent, wire, fault, p, seen, block, paused, lcd>>
  BY DEF CheckStep, CheckFixed, At
<1>2. TypesInv /\ WireInv /\ FixedInv /\ HeaderInv /\ SumInv /\ FinishInv /\ SeenInv /\ job = NoJob /\ entry = 1
  BY <1>1, WhileReceiving
<1>3. p \in Nat /\ seen \in Nat /\ seen <= p /\ HEntries \in Nat /\ (seen >= HEntries => HEntries <= p)
  BY <1>1, <1>2, HeaderIsBelow, StreamFacts DEF TypesInv, SeenInv
<1>4. CASE Wait
  <2>1. UNCHANGED <<phase, mem, stash, table, dataStart, dataEnd, entry, job, sent, wire, fault, p, state, count, sum, sumAt>>
    BY <1>1, <1>4 DEF Wait, Loop
  <2>2. pc' = "read_high" /\ pc' \in Waits /\ seen' = seen /\ block' = block
    BY <1>1, <1>4 DEF Wait, Loop, Waits
  <2>3. SeenInv'
    <3>1. High(p)' = High(p) /\ High(seen)' = High(seen)
      BY <1>1 DEF High
    <3> QED BY <1>1, <1>2, <2>1, <2>2, <3>1 DEF SeenInv, Arrived
  <2>4. /\ seen' \in Nat /\ block' \in 1 .. MaxEntries
        /\ state # "data" => block' = block
        /\ state = "data" => block' <= count
    BY <1>1, <1>2, <2>2 DEF TypesInv
  <2> QED BY <1>1, <2>1, <2>2, <2>3, <2>4, LoopKeeps
<1>5. CASE seen >= HEntries /\ mem[HVersion] # Version /\ Refuse("bad_version")
  <2>1. phase' = "failed" /\ pc' = "bad_version" /\ pc' \in Refusals
    BY <1>5 DEF Refuse, Refusals
  <2>2. UNCHANGED <<table, dataStart, dataEnd, entry, job, sent, fault, p, seen, state, count, sumAt, block>>
    BY <1>1, <1>5 DEF Refuse
  <2>3. ~ Intact
    BY <1>1, <1>3, <1>5, IntactMeans
  <2> QED BY <1>1, <2>1, <2>2, <2>3, RefusalStep
<1>6. CASE seen >= HEntries /\ mem[HCount] \notin {Count(n) : n \in Counts} /\ Refuse("bad_header")
  <2>1. phase' = "failed" /\ pc' = "bad_header" /\ pc' \in Refusals
    BY <1>6 DEF Refuse, Refusals
  <2>2. UNCHANGED <<table, dataStart, dataEnd, entry, job, sent, fault, p, seen, state, count, sumAt, block>>
    BY <1>1, <1>6 DEF Refuse
  <2>3. ~ Intact \/ ~ Proper(sent)
    <3> SUFFICES ASSUME Intact, Proper(sent) PROVE FALSE
      OBVIOUS
    <3>1. mem[HCount] = Count(Len(sent))
      BY <1>1, <1>3, <1>6, IntactMeans
    <3>2. Len(sent) \in Counts
      BY <1>2, ProperIsGood DEF TypesInv
    <3> QED BY <1>6, <3>1, <3>2
  <2> QED BY <1>1, <2>1, <2>2, <2>3, RefusalStep
<1>7. ASSUME seen >= HEntries, mem[HVersion] = Version,
             NEW n \in Counts, mem[HCount] = Count(n), count' = n, dataStart' = HEntries + n * EntrySize,
             state' = "header", Loop, UNCHANGED <<table, dataEnd, sum, sumAt, shown>>
      PROVE  UploadInv'
  <2>1. /\ phase' = "receive" /\ pc' = "read_high" /\ entry' = 1 /\ job' = NoJob /\ pc' \in Waits \cup {"finish"}
    BY <1>1, <1>2, <1>7 DEF Loop, Waits
  <2>2. TypesInv'
    <3>1. n \in 0 .. MaxEntries /\ n \in Nat
      BY MapAssumption DEF Counts
    <3>2. dataStart' \in Nat
      BY <1>7, <3>1, StreamFacts
    <3> QED BY <1>1, <1>2, <1>7, <3>1, <3>2 DEF TypesInv
  <2>3. WireInv'
    <3>1. Line' = Line
      BY <1>1 DEF Line
    <3> QED BY <1>1, <1>2, <3>1 DEF WireInv
  <2>4. FixedInv'
    BY <1>1, <1>3, <1>7 DEF FixedInv
  <2>5. HeaderInv' /\ SumInv' /\ FinishInv'
    BY <1>7, <2>1 DEF HeaderInv, SumInv, FinishInv
  <2>6. SeenInv'
    <3>1. High(p)' = High(p) /\ High(seen)' = High(seen)
      BY <1>1 DEF High
    <3> QED BY <1>1, <1>2, <1>7, <2>1, <3>1 DEF SeenInv, Arrived
  <2> QED BY <2>1, <2>2, <2>3, <2>4, <2>5, <2>6, NextIsReceiving DEF Receiving
<1> QED BY <1>4, <1>5, <1>6, <1>7 DEF CheckFixed

LEMMA FourAndMore ==
  ASSUME NEW a, NEW b, NEW c, NEW d, NEW n \in Nat, NEW f
  PROVE  LET q == <<a, b, c, d>> \o [i \in 1 .. n |-> f[i]] IN
         q[1] = a /\ q[2] = b /\ q[3] = c /\ q[4] = d /\ \A i \in 1 .. n : q[4 + i] = f[i]
<1> DEFINE S == {a, b, c, d} \cup {f[i] : i \in 1 .. n}
           r == [i \in 1 .. n |-> f[i]]
           q == <<a, b, c, d>>
<1>1. q \in Seq(S) /\ Len(q) = 4 /\ q[1] = a /\ q[2] = b /\ q[3] = c /\ q[4] = d
  OBVIOUS
<1>2. r \in Seq(S) /\ Len(r) = n /\ \A i \in 1 .. n : r[i] = f[i]
  OBVIOUS
<1> HIDE DEF S, r, q
<1>3. \A i \in 1 .. Len(q) + Len(r) : (q \o r)[i] = IF i <= Len(q) THEN q[i] ELSE r[i - Len(q)]
  BY <1>1, <1>2, ConcatProperties
<1>4. \A i \in 1 .. 4 : (q \o r)[i] = q[i]
  <2> TAKE i \in 1 .. 4
  <2>1. i \in 1 .. Len(q) + Len(r) /\ i <= Len(q)
    BY <1>1, <1>2
  <2> QED BY <1>3, <2>1
<1>5. \A i \in 1 .. n : (q \o r)[4 + i] = f[i]
  <2> TAKE i \in 1 .. n
  <2>1. PICK j : j = 4 + i
    OBVIOUS
  <2>2. j \in 1 .. Len(q) + Len(r) /\ ~ (j <= Len(q)) /\ j - Len(q) = i
    BY <1>1, <1>2, <2>1
  <2> QED BY <1>2, <1>3, <2>1, <2>2
<1>6. 1 \in 1 .. 4 /\ 2 \in 1 .. 4 /\ 3 \in 1 .. 4 /\ 4 \in 1 .. 4
  OBVIOUS
<1> QED BY <1>1, <1>4, <1>5, <1>6 DEF q, r

\* The sum over the header covers all its cells but itself, and so the count.
LEMMA HeaderIsSent ==
  ASSUME TypesInv, mem[HCount] = Count(count), HeaderSumMatches
  PROVE  /\ count = Len(sent)
         /\ mem[HVersion] = Version /\ mem[HStart] = StartAt /\ mem[HCount] = Count(Len(sent))
         /\ mem[HHeaderSum] = HeaderSum /\ mem[HDataSum] = DataSum
         /\ \A i \in 1 .. Len(sent) : mem[HEntries + i - 1] = EntryCell(i)
<1>1. Len(sent) \in Nat /\ count \in Nat
  BY LineFacts, MapAssumption DEF TypesInv
<1>2. HeaderCells = SentHeader /\ mem[HHeaderSum] = HeaderSum
  BY DEF HeaderSumMatches
<1>3. /\ HeaderCells[1] = mem[HVersion] /\ HeaderCells[2] = mem[HStart]
      /\ HeaderCells[3] = mem[HCount] /\ HeaderCells[4] = mem[HDataSum]
      /\ \A i \in 1 .. count : HeaderCells[4 + i] = mem[HEntries + i - 1]
  <2>1. PICK f : f = [i \in 1 .. count |-> mem[HEntries + i - 1]]
    OBVIOUS
  <2>2. f = [i \in 1 .. count |-> f[i]] /\ \A i \in 1 .. count : f[i] = mem[HEntries + i - 1]
    BY <2>1
  <2>3. HeaderCells = <<mem[HVersion], mem[HStart], mem[HCount], mem[HDataSum]>> \o [i \in 1 .. count |-> f[i]]
    BY <2>1, <2>2 DEF HeaderCells
  <2>4. PICK a, b, c, d : a = mem[HVersion] /\ b = mem[HStart] /\ c = mem[HCount] /\ d = mem[HDataSum]
    OBVIOUS
  <2>5. PICK q : q = HeaderCells
    OBVIOUS
  <2>6. q = <<a, b, c, d>> \o [i \in 1 .. count |-> f[i]]
    BY <2>3, <2>4, <2>5
  <2>7. q[1] = a /\ q[2] = b /\ q[3] = c /\ q[4] = d /\ \A i \in 1 .. count : q[4 + i] = f[i]
    BY <1>1, <2>6, FourAndMore
  <2> QED BY <2>2, <2>4, <2>5, <2>7
<1>4. /\ SentHeader[1] = Version /\ SentHeader[2] = StartAt
      /\ SentHeader[3] = Count(Len(sent)) /\ SentHeader[4] = DataSum
      /\ \A i \in 1 .. Len(sent) : SentHeader[4 + i] = EntryCell(i)
  <2>1. PICK f : f = Entries(sent)
    OBVIOUS
  <2>2. f = [i \in 1 .. Len(sent) |-> f[i]] /\ \A i \in 1 .. Len(sent) : f[i] = EntryCell(i)
    BY <2>1 DEF Entries
  <2>3. SentHeader = <<Version, StartAt, Count(Len(sent)), DataSum>> \o [i \in 1 .. Len(sent) |-> f[i]]
    BY <2>1, <2>2 DEF SentHeader
  <2>4. \A a, b, c, d : LET q == <<a, b, c, d>> \o [i \in 1 .. Len(sent) |-> f[i]] IN
          q[1] = a /\ q[2] = b /\ q[3] = c /\ q[4] = d /\ \A i \in 1 .. Len(sent) : q[4 + i] = f[i]
    BY <1>1, FourAndMore
  <2> QED BY <2>2, <2>3, <2>4
<1>5. mem[HCount] = Count(Len(sent)) /\ count = Len(sent)
  BY <1>2, <1>3, <1>4 DEF Count
<1> QED BY <1>2, <1>3, <1>4, <1>5

LEMMA CheckHeaderStep ==
  ASSUME UploadInv, CheckStep, CheckHeader
  PROVE  UploadInv'
<1>1. /\ phase = "receive" /\ pc = "check" /\ state = "header"
      /\ UNCHANGED <<mem, stash, job, sent, wire, fault, p, seen, block, paused, lcd>>
  BY DEF CheckStep, CheckHeader, At
<1>2. TypesInv /\ WireInv /\ FixedInv /\ HeaderInv /\ SumInv /\ FinishInv /\ SeenInv /\ job = NoJob /\ entry = 1
  BY <1>1, WhileReceiving
<1>3. /\ p \in Nat /\ seen \in Nat /\ seen <= p /\ count \in Nat /\ count \in Counts
      /\ dataStart \in Nat /\ dataStart = HEntries + count /\ HEntries \in Nat
      /\ HEntries <= p /\ mem[HCount] = Count(count)
      /\ (seen >= dataStart => dataStart <= p)
  <2>1. count \in Nat /\ count \in Counts /\ dataStart = HEntries + count * EntrySize /\ HEntries <= p
        /\ mem[HCount] = Count(count)
    BY <1>1, <1>2, MapAssumption DEF FixedInv, TypesInv
  <2> QED BY <1>1, <1>2, <2>1, HeaderIsBelow, StreamFacts DEF TypesInv, SeenInv
<1>4. sent \in Seq(EntryType) /\ Len(sent) \in Nat
  BY <1>2, LineFacts DEF TypesInv
<1>5. ASSUME Intact, seen >= dataStart PROVE HeaderSumMatches
  <2>1. /\ mem[HVersion] = Version /\ mem[HStart] = StartAt /\ mem[HCount] = Count(Len(sent))
        /\ mem[HHeaderSum] = HeaderSum /\ mem[HDataSum] = DataSum
    BY <1>1, <1>3, <1>5, IntactMeans
  <2>2. count = Len(sent)
    BY <1>3, <2>1 DEF Count
  <2>3. \A i \in 1 .. count : mem[HEntries + i - 1] = EntryCell(i)
    <3> TAKE i \in 1 .. count
    <3>1. HEntries + i <= p
      BY <1>3, <1>5
    <3> QED BY <1>1, <1>5, <2>2, <3>1, IntactMeans
  <2>4. [i \in 1 .. count |-> mem[HEntries + i - 1]] = Entries(sent)
    BY <2>2, <2>3 DEF Entries
  <2> QED BY <2>1, <2>2, <2>4 DEF HeaderSumMatches, HeaderCells, SentHeader
<1>6. ASSUME HeaderSumMatches PROVE count = Len(sent)
  BY <1>2, <1>3, <1>6, HeaderIsSent
<1>7. CASE Wait
  <2>1. UNCHANGED <<phase, mem, stash, table, dataStart, dataEnd, entry, job, sent, wire, fault, p, state, count, sum, sumAt>>
    BY <1>1, <1>7 DEF Wait, Loop
  <2>2. pc' = "read_high" /\ pc' \in Waits /\ seen' = seen /\ block' = block
    BY <1>1, <1>7 DEF Wait, Loop, Waits
  <2>3. SeenInv'
    <3>1. High(p)' = High(p) /\ High(seen)' = High(seen)
      BY <1>1 DEF High
    <3> QED BY <1>1, <1>2, <2>1, <2>2, <3>1 DEF SeenInv, Arrived
  <2>4. /\ seen' \in Nat /\ block' \in 1 .. MaxEntries
        /\ state # "data" => block' = block
        /\ state = "data" => block' <= count
    BY <1>1, <1>2, <2>2 DEF TypesInv
  <2> QED BY <1>1, <2>1, <2>2, <2>3, <2>4, LoopKeeps
<1>8. ASSUME NEW why, why \in {"bad_header", "bad_block"}, Refuse(why),
             ~ Intact \/ ~ Proper(sent), why = "bad_block" => ~ Proper(sent)
      PROVE  UploadInv'
  <2>1. phase' = "failed" /\ pc' = why /\ pc' \in Refusals
    BY <1>8 DEF Refuse, Refusals
  <2>2. UNCHANGED <<table, dataStart, dataEnd, entry, job, sent, fault, p, seen, state, count, sumAt, block>>
    BY <1>1, <1>8 DEF Refuse
  <2>3. pc' \notin {"bad_version", "bad_checksum"} /\ (pc' = "bad_block" => ~ Proper(sent))
    BY <1>8, <2>1
  <2> QED BY <1>1, <1>8, <2>1, <2>2, <2>3, RefusalStep
<1>9. CASE seen >= dataStart /\ ~ HeaderSumMatches /\ Refuse("bad_header")
  BY <1>5, <1>8, <1>9
<1>10. CASE ~ GoodTable(sent) /\ Refuse("bad_block")
  BY <1>4, <1>8, <1>10, ProperIsGood
<1>11. CASE HeaderSumMatches /\ DataEnds(sent, dataStart)[Len(sent)] > Limit /\ Refuse("bad_header")
  <2>1. ~ Proper(sent)
    <3> SUFFICES ASSUME Proper(sent) PROVE FALSE
      OBVIOUS
    <3>1. dataStart = HEntries + Len(sent) * EntrySize /\ Len(sent) \in 0 .. Len(sent)
      BY <1>3, <1>4, <1>6, <1>11, StreamFacts
    <3>2. DataEnds(sent, dataStart)[Len(sent)] \in Nat /\ DataEnds(sent, dataStart)[Len(sent)] <= Limit
      BY <1>4, <3>1, DataAt
    <3> QED BY <1>11, <3>2, StreamFacts
  <2> QED BY <1>8, <1>11, <2>1
<1>12. ASSUME seen >= dataStart, HeaderSumMatches, GoodTable(sent), DataEnds(sent, dataStart)[Len(sent)] <= Limit,
              table' = sent, dataEnd' = DataEnds(sent, dataStart)[Len(sent)], sumAt' = dataStart, sum' = <<>>,
              state' = "data", Loop, UNCHANGED <<dataStart, count>>
       PROVE  UploadInv'
  <2>1. /\ phase' = "receive" /\ pc' = "read_high" /\ entry' = 1 /\ job' = NoJob /\ pc' \in Waits \cup {"finish"}
    BY <1>1, <1>2, <1>12 DEF Loop, Waits
  <2>2. count = Len(sent) /\ block = 1 /\ dataStart <= p
    BY <1>1, <1>2, <1>3, <1>6, <1>12 DEF TypesInv
  <2>3. /\ DataEnds(sent, dataStart)[Len(sent)] \in Nat /\ DataEnds(sent, dataStart)[0] = dataStart
        /\ dataStart <= DataEnds(sent, dataStart)[Len(sent)]
    <3>1. Len(sent) \in 0 .. Len(sent) /\ 0 \in 0 .. Len(sent)
      BY <1>4
    <3> QED BY <1>3, <1>4, <3>1, EndsGrow, EndsStep
  <2>4. TypesInv'
    BY <1>1, <1>2, <1>3, <1>12, <2>3 DEF TypesInv
  <2>5. WireInv' /\ FixedInv' /\ FinishInv'
    <3>1. Line' = Line
      BY <1>1 DEF Line
    <3>2. WireInv'
      BY <1>1, <1>2, <3>1 DEF WireInv
    <3>3. FixedInv' /\ FinishInv'
      BY <1>1, <1>2, <1>12, <2>1 DEF FixedInv, FinishInv
    <3> QED BY <3>2, <3>3
  <2>6. HeaderInv'
    <3>1. HeaderSumMatches'
      BY <1>1, <1>12 DEF HeaderSumMatches, HeaderCells, SentHeader
    <3>2. EndOf(Len(sent))' = DataEnds(sent, dataStart)[Len(sent)]
      BY <1>1, <1>12 DEF EndOf
    <3>3. block' <= count'
      BY <1>1, <1>3, <1>12, <2>2, MapAssumption DEF Counts
    <3> QED BY <1>1, <1>12, <2>2, <3>1, <3>2, <3>3 DEF HeaderInv
  <2>7. SumInv'
    BY <1>3, <1>12, <2>3 DEF SumInv
  <2>8. SeenInv'
    <3>1. High(p)' = High(p) /\ High(seen)' = High(seen)
      BY <1>1 DEF High
    <3>2. EndOf(block - 1)' = dataStart
      <4>1. block' - 1 = 0
        BY <1>1, <2>2
      <4>2. DataEnds(table, dataStart)' = DataEnds(sent, dataStart)
        BY <1>12
      <4> QED BY <2>3, <4>1, <4>2 DEF EndOf
    <3> QED BY <1>1, <1>2, <1>12, <2>1, <2>2, <3>1, <3>2 DEF SeenInv, Arrived
  <2> QED BY <2>1, <2>4, <2>5, <2>6, <2>7, <2>8, NextIsReceiving DEF Receiving
<1> QED BY <1>7, <1>9, <1>10, <1>11, <1>12 DEF CheckHeader

\* What the handler has stored came over the line.
LEMMA StoredCells ==
  ASSUME UploadInv, phase = "receive"
  PROVE  \A a \in Stream .. p - 1 : mem[a] \in Cells
<1>1. TypesInv /\ WireInv /\ Line \in Seq(Cells) /\ Len(Line) \in Nat /\ p \in Nat /\ Stream \in Nat
  BY WhileReceiving, LineFacts, HeaderIsBelow, StreamFacts
<1>2. Len(wire) \in Nat /\ Len(wire) = Len(Line) - (p - Stream)
  BY <1>1, LenProperties DEF WireInv
<1> SUFFICES ASSUME NEW a \in Stream .. p - 1 PROVE mem[a] \in Cells
  OBVIOUS
<1>3. PICK k : k = a - Stream + 1
  OBVIOUS
<1>4. k \in 1 .. p - Stream /\ k \in 1 .. Len(Line) /\ Stream + k - 1 = a
  BY <1>1, <1>2, <1>3
<1>5. mem[a] = Line[k]
  BY <1>1, <1>4 DEF WireInv
<1> QED BY <1>1, <1>4, <1>5

\* One turn of the sum stops at the data's end and at what has come.
LEMMA SummedFacts ==
  ASSUME UploadInv, phase = "receive", state = "data", pc = "check", NEW n, n = Summed
  PROVE  /\ n \in Nat /\ sumAt \in Nat /\ dataEnd \in Nat /\ dataStart \in Nat /\ seen \in Nat /\ p \in Nat
         /\ dataStart <= sumAt /\ sumAt + n <= dataEnd /\ sumAt + n <= seen /\ seen <= p
<1>1. TypesInv /\ SumInv /\ SeenInv /\ p \in Nat
  BY WhileReceiving, HeaderIsBelow
<1>2. /\ sumAt \in Nat /\ dataEnd \in Nat /\ dataStart \in Nat /\ seen \in Nat
      /\ dataStart <= sumAt /\ sumAt <= dataEnd /\ sumAt <= seen /\ seen <= p
  BY <1>1 DEF TypesInv, SumInv, SeenInv, Arrived
<1> DEFINE stops == {k \in 0 .. SumStep : k = SumStep \/ sumAt + k \in {dataEnd, seen} \/ sumAt + k = Limit}
<1>3. n = CHOOSE k \in stops : \A m \in stops : k <= m
  BY DEF Summed
<1>4. SumStep \in Nat
  BY LoaderAssumption
<1>5. stops \subseteq Nat /\ SumStep \in stops
  BY <1>4
<1>6. n \in stops /\ \A m \in stops : n <= m
  <2>1. \E k \in stops : \A m \in stops : k <= m
    <3> HIDE DEF stops
    <3> QED BY <1>5, LeastNatural
  <2> HIDE DEF stops
  <2> QED BY <1>3, <2>1
<1>7. n \in Nat /\ n <= SumStep
  BY <1>4, <1>6
<1>8. ASSUME NEW x \in {dataEnd, seen} PROVE sumAt + n <= x
  <2> SUFFICES ASSUME ~ (sumAt + n <= x) PROVE FALSE
    OBVIOUS
  <2>1. x \in Nat /\ sumAt <= x
    BY <1>2
  <2>2. PICK m : m = x - sumAt
    OBVIOUS
  <2>3. m \in Nat /\ m < n /\ sumAt + m = x /\ m \in 0 .. SumStep
    BY <1>2, <1>4, <1>7, <2>1, <2>2
  <2>4. m \in stops
    BY <2>3
  <2>5. n <= m
    <3> HIDE DEF stops
    <3> QED BY <1>6, <2>4
  <2> QED BY <1>7, <2>3, <2>5
<1> QED BY <1>1, <1>2, <1>7, <1>8

\* The sum after that turn.
LEMMA SumFacts ==
  ASSUME UploadInv, phase = "receive", state = "data", pc = "check", NEW n, n = Summed,
         NEW all, all = sum \o [i \in 1 .. n |-> mem[sumAt + i - 1]]
  PROVE  /\ all \in Seq(Cells) /\ Len(all) = sumAt + n - dataStart
         /\ \A k \in 1 .. Len(all) : all[k] = mem[dataStart + k - 1]
<1>1. /\ n \in Nat /\ sumAt \in Nat /\ dataEnd \in Nat /\ dataStart \in Nat /\ seen \in Nat /\ p \in Nat
      /\ dataStart <= sumAt /\ sumAt + n <= dataEnd /\ sumAt + n <= seen /\ seen <= p
  BY SummedFacts
<1>2. SumInv /\ HeaderInv /\ FixedInv /\ TypesInv
  BY WhileReceiving
<1>3. Stream \in Nat /\ Stream <= dataStart
  <2>1. count \in Nat /\ dataStart = HEntries + count * EntrySize
    BY <1>2, MapAssumption DEF FixedInv, TypesInv
  <2> QED BY <2>1, StreamFacts
<1>4. PICK r : r = [i \in 1 .. n |-> mem[sumAt + i - 1]]
  OBVIOUS
<1>5. r \in Seq(Cells) /\ Len(r) = n /\ \A i \in 1 .. n : r[i] = mem[sumAt + i - 1]
  <2>1. ASSUME NEW i \in 1 .. n PROVE mem[sumAt + i - 1] \in Cells
    <3>1. sumAt + i - 1 \in Stream .. p - 1
      BY <1>1, <1>3
    <3> QED BY <3>1, StoredCells
  <2> QED BY <1>1, <1>4, <2>1
<1>6. PICK s : s = Len(sum)
  OBVIOUS
<1>7. sum \in Seq(Cells) /\ Len(sum) = s /\ s = sumAt - dataStart /\ s \in Nat
      /\ \A k \in 1 .. s : sum[k] = mem[dataStart + k - 1]
  BY <1>1, <1>2, <1>6 DEF SumInv
<1>8. all = sum \o r
  BY <1>4
<1>9. all \in Seq(Cells) /\ Len(all) = s + n
      /\ \A k \in 1 .. s + n : all[k] = IF k <= s THEN sum[k] ELSE r[k - s]
  <2>1. /\ sum \o r \in Seq(Cells) /\ Len(sum \o r) = Len(sum) + Len(r)
        /\ \A k \in 1 .. Len(sum) + Len(r) : (sum \o r)[k] = IF k <= Len(sum) THEN sum[k] ELSE r[k - Len(sum)]
    BY <1>5, <1>7, ConcatProperties
  <2> QED BY <1>5, <1>6, <1>8, <2>1
<1>10. ASSUME NEW k \in 1 .. s + n PROVE all[k] = mem[dataStart + k - 1]
  <2>1. CASE k <= s
    BY <1>7, <1>9, <2>1
  <2>2. CASE ~ (k <= s)
    <3>1. k - s \in 1 .. n /\ sumAt + (k - s) - 1 = dataStart + k - 1
      BY <1>1, <1>7, <2>2
    <3> QED BY <1>5, <1>9, <2>2, <3>1
  <2> QED BY <2>1, <2>2
<1>11. Len(all) = sumAt + n - dataStart
  BY <1>1, <1>7, <1>9
<1> QED BY <1>9, <1>10, <1>11

LEMMA CheckDataStep ==
  ASSUME UploadInv, CheckStep, CheckData
  PROVE  UploadInv'
<1>1. /\ phase = "receive" /\ pc = "check" /\ state = "data"
      /\ UNCHANGED <<mem, stash, job, sent, wire, fault, p, seen, block, paused, lcd>>
  BY DEF CheckStep, CheckData, At
<1>2. TypesInv /\ WireInv /\ FixedInv /\ HeaderInv /\ SumInv /\ FinishInv /\ SeenInv /\ job = NoJob /\ entry = 1
  BY <1>1, WhileReceiving
<1>3. PICK n, all, at : n = Summed /\ all = sum \o [i \in 1 .. n |-> mem[sumAt + i - 1]] /\ at = sumAt + n
  OBVIOUS
<1>4. /\ n \in Nat /\ sumAt \in Nat /\ dataEnd \in Nat /\ dataStart \in Nat /\ seen \in Nat /\ p \in Nat
      /\ dataStart <= sumAt /\ at \in Nat /\ at <= dataEnd /\ at <= seen /\ seen <= p /\ dataStart <= at
  <2>1. /\ n \in Nat /\ sumAt \in Nat /\ dataEnd \in Nat /\ dataStart \in Nat /\ seen \in Nat /\ p \in Nat
        /\ dataStart <= sumAt /\ sumAt + n <= dataEnd /\ sumAt + n <= seen /\ seen <= p
    BY <1>1, <1>3, SummedFacts
  <2> QED BY <1>3, <2>1
<1>5. all \in Seq(Cells) /\ Len(all) = at - dataStart /\ \A k \in 1 .. Len(all) : all[k] = mem[dataStart + k - 1]
  <2>1. /\ all \in Seq(Cells) /\ Len(all) = sumAt + n - dataStart
        /\ \A k \in 1 .. Len(all) : all[k] = mem[dataStart + k - 1]
    <3>1. n = Summed /\ all = sum \o [i \in 1 .. n |-> mem[sumAt + i - 1]]
      BY <1>3
    <3> QED BY <1>1, <3>1, SumFacts
  <2>2. at = sumAt + n
    BY <1>3
  <2>3. sumAt + n - dataStart = at - dataStart
    BY <1>4, <2>2
  <2> QED BY <2>1, <2>3
<1>6. /\ sent \in Seq(EntryType) /\ table = sent /\ count = Len(sent) /\ count \in Nat
      /\ dataStart = HEntries + Len(sent) /\ HEntries \in Nat /\ HEntries <= p
      /\ Len(DataOf(sent)) = dataEnd - dataStart /\ DataOf(sent) \in Seq(Cells)
  <2>1. sent \in Seq(EntryType) /\ table = sent /\ count = Len(sent) /\ count \in Nat
        /\ dataStart = HEntries + count * EntrySize /\ HEntries <= p /\ dataEnd = EndOf(Len(sent))
    BY <1>1, <1>2, LineFacts DEF TypesInv, HeaderInv, FixedInv
  <2>2. Len(DataOf(sent)) = dataEnd - dataStart /\ DataOf(sent) \in Seq(Cells)
    BY <1>1, <1>2, <2>1, EndsAreNat, LineFacts
  <2> QED BY <2>1, <2>2, StreamFacts
<1>7. ASSUME sumAt' = at, sum' = all, UNCHANGED <<phase, table, dataStart, dataEnd, entry, state, count>>,
             pc' \in {"read_high", "finish"}, FinishInv'
      PROVE  UploadInv'
  <2>1. /\ phase' = "receive" /\ entry' = 1 /\ job' = NoJob /\ pc' \in Waits \cup {"finish"}
    BY <1>1, <1>2, <1>7 DEF Waits
  <2>2. TypesInv'
    BY <1>1, <1>2, <1>4, <1>7 DEF TypesInv
  <2>3. WireInv' /\ FixedInv'
    <3>1. Line' = Line
      BY <1>1 DEF Line
    <3>2. WireInv'
      BY <1>1, <1>2, <3>1 DEF WireInv
    <3>3. FixedInv'
      BY <1>1, <1>2, <1>7 DEF FixedInv
    <3> QED BY <3>2, <3>3
  <2>4. HeaderInv'
    <3>1. HeaderSumMatches' = HeaderSumMatches /\ EndOf(Len(sent))' = EndOf(Len(sent))
      BY <1>1, <1>7 DEF HeaderSumMatches, HeaderCells, SentHeader, EndOf
    <3> QED BY <1>1, <1>2, <1>7, <3>1 DEF HeaderInv
  <2>5. SumInv'
    BY <1>1, <1>4, <1>5, <1>7 DEF SumInv
  <2>6. SeenInv'
    <3>1. High(p)' = High(p) /\ High(seen)' = High(seen) /\ EndOf(block - 1)' = EndOf(block - 1)
      BY <1>1, <1>7 DEF High, EndOf
    <3>2. at <= p
      BY <1>4
    <3> QED BY <1>1, <1>2, <1>7, <3>1, <3>2 DEF SeenInv, Arrived
  <2> QED BY <1>7, <2>1, <2>2, <2>3, <2>4, <2>5, <2>6, NextIsReceiving DEF Receiving
<1>8. CASE sumAt' = at /\ sum' = all /\ Loop /\ UNCHANGED <<table, dataStart, dataEnd, state, count, shown>>
  <2>1. pc' = "read_high" /\ FinishInv'
    BY <1>8 DEF Loop, FinishInv
  <2>2. UNCHANGED <<phase, table, dataStart, dataEnd, entry, state, count>>
    BY <1>8 DEF Loop
  <2> QED BY <1>7, <1>8, <2>1, <2>2
<1>9. CASE /\ AtEnd(at) /\ mem[HDataSum] = DataSum /\ all = DataOf(table)
           /\ pc' = "finish" /\ sumAt' = at /\ sum' = all
           /\ UNCHANGED <<phase, table, dataStart, dataEnd, source, entry, state, count, shown>>
  <2>1. FinishInv'
    BY <1>1, <1>6, <1>9 DEF FinishInv, AtEnd
  <2>2. UNCHANGED <<phase, table, dataStart, dataEnd, entry, state, count>>
    BY <1>9
  <2> QED BY <1>7, <1>9, <2>1, <2>2
<1>10. CASE AtEnd(at) /\ ~ (mem[HDataSum] = DataSum /\ all = DataOf(table)) /\ Refuse("bad_checksum")
  <2>1. phase' = "failed" /\ pc' = "bad_checksum" /\ pc' \in Refusals
    BY <1>10 DEF Refuse, Refusals
  <2>2. UNCHANGED <<table, dataStart, dataEnd, entry, job, sent, fault, p, seen, state, count, sumAt, block>>
    BY <1>1, <1>10 DEF Refuse
  <2>3. ~ Intact
    <3> SUFFICES ASSUME Intact PROVE FALSE
      OBVIOUS
    <3>1. mem[HDataSum] = DataSum
      BY <1>1, <1>6, IntactMeans
    <3>2. at = dataEnd
      BY <1>10 DEF AtEnd
    <3>3. Len(all) = Len(DataOf(sent))
      BY <1>5, <1>6, <3>2
    <3>4. ASSUME NEW k \in 1 .. Len(all) PROVE all[k] = DataOf(sent)[k]
      <4>1. HEntries + Len(sent) + k <= p
        BY <1>4, <1>5, <1>6, <3>2
      <4>2. mem[HEntries + Len(sent) + k - 1] = DataOf(sent)[k]
        BY <1>1, <3>3, <3>4, <4>1, IntactMeans
      <4> QED BY <1>5, <1>6, <4>2
    <3>5. all = DataOf(sent)
      BY <1>5, <1>6, <3>3, <3>4, SeqEqual
    <3> QED BY <1>6, <1>10, <3>1, <3>5
  <2> QED BY <1>1, <2>1, <2>2, <2>3, RefusalStep
<1>11. \/ sumAt' = at /\ sum' = all /\ Loop /\ UNCHANGED <<table, dataStart, dataEnd, state, count, shown>>
       \/ AtEnd(at) /\ ~ (mem[HDataSum] = DataSum /\ all = DataOf(table)) /\ Refuse("bad_checksum")
       \/ /\ AtEnd(at) /\ mem[HDataSum] = DataSum /\ all = DataOf(table)
          /\ pc' = "finish" /\ sumAt' = at /\ sum' = all
          /\ UNCHANGED <<phase, table, dataStart, dataEnd, source, entry, state, count, shown>>
  BY <1>3 DEF CheckData
<1> QED BY <1>8, <1>9, <1>10, <1>11

\* When all is checked, the upload is what was sent and what the sender promises.
LEMMA AllChecked ==
  ASSUME UploadInv, phase = "receive", pc = "finish"
  PROVE  /\ Intact /\ Proper(sent) /\ state = "data" /\ sumAt = dataEnd /\ sumAt <= p
         /\ dataStart = HEntries + Len(sent) * EntrySize
         /\ dataEnd = dataStart + Len(DataOf(sent))
         /\ \A k \in 1 .. Len(DataOf(sent)) : mem[dataStart + k - 1] = DataOf(sent)[k]
         /\ mem[HStart] = StartAt
<1>1. TypesInv /\ WireInv /\ FixedInv /\ HeaderInv /\ SumInv /\ FinishInv /\ SeenInv
  BY WhileReceiving
<1>2. state = "data" /\ sumAt = dataEnd /\ sum = DataOf(sent)
  BY <1>1 DEF FinishInv
<1>3. PICK n, l : n = Len(sent) /\ l = Len(DataOf(sent))
  OBVIOUS
<1>4. /\ count = n /\ n \in Counts /\ n \in Nat /\ l \in Nat /\ dataStart = HEntries + n * EntrySize
      /\ HeaderSumMatches /\ GoodTable(sent) /\ mem[HCount] = Count(count)
      /\ dataEnd = EndOf(Len(sent)) /\ dataEnd <= Limit /\ sumAt <= p
      /\ sent \in Seq(EntryType) /\ dataEnd \in Nat /\ dataStart \in Nat
  BY <1>1, <1>2, <1>3, LineFacts DEF FixedInv, HeaderInv, SeenInv, Arrived, TypesInv
<1>5. l = dataEnd - dataStart /\ dataEnd = dataStart + l
  <2>1. l = dataEnd - dataStart
    BY <1>1, <1>2, <1>3, <1>4, EndsAreNat
  <2> QED BY <1>4, <2>1
<1>6. \A k \in 1 .. l : mem[dataStart + k - 1] = DataOf(sent)[k]
  BY <1>1, <1>2, <1>3 DEF SumInv
<1>7. /\ mem[HVersion] = Version /\ mem[HStart] = StartAt /\ mem[HCount] = Count(n)
      /\ mem[HHeaderSum] = HeaderSum /\ mem[HDataSum] = DataSum
      /\ \A i \in 1 .. n : mem[HEntries + i - 1] = EntryCell(i)
  BY <1>1, <1>3, <1>4, HeaderIsSent
<1>8. Proper(sent)
  <2>1. HEntries + n * EntrySize + l <= Limit
    BY <1>4, <1>5
  <2> QED BY <1>3, <1>4, <2>1, GoodIsProper
<1>9. /\ Stream \in Nat /\ p \in Nat /\ HEntries = Stream + 5 /\ dataStart = Stream + 5 + n
  BY <1>4, StreamFacts, HeaderIsBelow
<1>10. Line \in Seq(Cells) /\ Len(Line) = 5 + n + l /\ p - Stream = 5 + n + l
  <2>1. Line \in Seq(Cells) /\ Len(Line) \in Nat /\ Len(Line) <= 5 + n + l
    BY <1>1, <1>3, LineFacts
  <2>2. Len(wire) \in Nat /\ Len(wire) = Len(Line) - (p - Stream)
    BY <1>1, LenProperties DEF WireInv
  <2>3. PICK x, w : x = Len(Line) /\ w = Len(wire)
    OBVIOUS
  <2>4. /\ x \in Nat /\ x <= 5 + n + l /\ w \in Nat /\ w = x - (p - Stream)
        /\ dataEnd <= p /\ dataEnd = Stream + 5 + n + l
    BY <1>2, <1>4, <1>5, <1>9, <2>1, <2>2, <2>3
  <2>5. x = 5 + n + l /\ p - Stream = 5 + n + l
    BY <1>4, <1>9, <2>4
  <2> QED BY <2>1, <2>3, <2>5
<1>11. Sendable(sent) \in Seq(Cells) /\ Len(Sendable(sent)) = 5 + n + l
  BY <1>3, <1>4, SentCells
<1>12. ASSUME NEW k \in 1 .. 5 + n + l PROVE Line[k] = Sendable(sent)[k]
  <2>1. Line[k] = mem[Stream + k - 1]
    BY <1>1, <1>10 DEF WireInv
  <2>2. CASE k <= 5
    <3>1. k \in {1, 2, 3, 4, 5}
      BY <1>4, <2>2
    <3>2. /\ Stream + 1 - 1 = HVersion /\ Stream + 2 - 1 = HStart /\ Stream + 3 - 1 = HCount
          /\ Stream + 4 - 1 = HHeaderSum /\ Stream + 5 - 1 = HDataSum
      BY StreamFacts
    <3>3. /\ Sendable(sent)[1] = Version /\ Sendable(sent)[2] = StartAt /\ Sendable(sent)[3] = Count(n)
          /\ Sendable(sent)[4] = HeaderSum /\ Sendable(sent)[5] = DataSum
      BY <1>3, <1>4, SentCells
    <3> QED BY <1>7, <2>1, <3>1, <3>2, <3>3
  <2>3. CASE k > 5 /\ k <= 5 + n
    <3>1. PICK i : i = k - 5
      OBVIOUS
    <3>2. i \in 1 .. n /\ k = 5 + i /\ Stream + k - 1 = HEntries + i - 1
      BY <1>4, <1>9, <2>3, <3>1
    <3>3. mem[HEntries + i - 1] = EntryCell(i)
      BY <1>7, <3>2
    <3>4. Sendable(sent)[5 + i] = EntryCell(i)
      BY <1>3, <1>4, <3>2, SentCells
    <3> QED BY <2>1, <3>2, <3>3, <3>4
  <2>4. CASE k > 5 + n
    <3>1. PICK j : j = k - (5 + n)
      OBVIOUS
    <3>2. j \in 1 .. l /\ k = 5 + n + j /\ Stream + k - 1 = dataStart + j - 1
      BY <1>4, <1>9, <2>4, <3>1
    <3>3. mem[dataStart + j - 1] = DataOf(sent)[j]
      BY <1>6, <3>2
    <3>4. Sendable(sent)[5 + n + j] = DataOf(sent)[j]
      BY <1>3, <1>4, <3>2, SentCells
    <3> QED BY <2>1, <3>2, <3>3, <3>4
  <2> QED BY <1>4, <2>2, <2>3, <2>4
<1>13. Line = Sendable(sent)
  BY <1>10, <1>11, <1>12, SeqEqual
<1> QED BY <1>2, <1>3, <1>4, <1>5, <1>6, <1>7, <1>8, <1>13 DEF Intact, Line

LEMMA NextIsReady ==
  (table \in Seq(EntryType) /\ ReadyToPlace /\ DOMAIN mem = Addresses /\ DOMAIN stash = Owned)' => PlaceInv'
<1>1. table \in Seq(EntryType) /\ ReadyToPlace /\ DOMAIN mem = Addresses /\ DOMAIN stash = Owned => PlaceInv
  BY ReadyIsEnough
<1> QED BY <1>1, PTL

LEMMA FinishStep ==
  ASSUME UploadInv, FinishReceiving
  PROVE  UploadInv'
<1>1. /\ phase = "receive" /\ pc = "finish" /\ seen' = p /\ pc' = "placing" /\ phase' = "down"
      /\ source' = dataStart /\ entry' = 1
      /\ UNCHANGED <<mem, stash, table, dataStart, dataEnd, job, sent, wire, fault, p, state, count, sum, sumAt>>
      /\ block' = block \/ (state = "data" /\ block' = Reached(block, p))
  BY DEF FinishReceiving, ShowProgress, Draw, At
<1>2. TypesInv /\ WireInv /\ job = NoJob
  BY <1>1, WhileReceiving
<1>3. /\ Intact /\ Proper(sent) /\ state = "data" /\ sumAt = dataEnd /\ sumAt <= p
      /\ dataStart = HEntries + Len(sent) * EntrySize
      /\ dataEnd = dataStart + Len(DataOf(sent))
      /\ \A k \in 1 .. Len(DataOf(sent)) : mem[dataStart + k - 1] = DataOf(sent)[k]
      /\ mem[HStart] = StartAt
  BY <1>1, AllChecked
<1>4. table = sent /\ sent \in Seq(EntryType) /\ p \in Nat
  BY <1>1, <1>2, <1>3, HeaderIsBelow DEF TypesInv
<1>5. ReadyToPlace'
  BY <1>1, <1>2, <1>3, <1>4 DEF ReadyToPlace, WireInv
<1>6. PlaceInv'
  <2>1. table' \in Seq(EntryType) /\ DOMAIN mem' = Addresses /\ DOMAIN stash' = Owned
    BY <1>1, <1>2, <1>4 DEF WireInv
  <2> QED BY <1>5, <2>1, NextIsReady
<1>7. TypesInv'
  <2>1. PICK b : b = block'
    OBVIOUS
  <2>2. b \in 1 .. MaxEntries
    <3>1. b = Reached(block, p) => b \in 1 .. MaxEntries
      BY <1>1, <1>3, <1>4, ReachedFacts
    <3> QED BY <1>1, <1>2, <2>1, <3>1 DEF TypesInv
  <2> QED BY <1>1, <1>2, <1>3, <1>4, <2>1, <2>2 DEF TypesInv
<1>8. PcInv' /\ phase' \in Placing /\ phase' # "receive"
  BY <1>1 DEF PcInv, Placing, Passes
<1>9. VerdictIsRight'
  <2>1. (Intact' <=> Intact) /\ (Proper(sent)' <=> Proper(sent))
    BY <1>1 DEF Intact
  <2> QED BY <1>1, <1>3, <2>1 DEF VerdictIsRight
<1>10. HandsOver' /\ ReadsOnlyWhatArrived'
  <2>1. sumAt' <= p' /\ sumAt' <= dataEnd'
    BY <1>1, <1>2, <1>3 DEF TypesInv
  <2> QED BY <1>1, <1>5, <2>1 DEF HandsOver, ReadsOnlyWhatArrived
<1> QED BY <1>1, <1>3, <1>6, <1>7, <1>8, <1>9, <1>10 DEF UploadInv

\* upload_place begins with nothing that the receiver left: no copy is under way.
LEMMA PlaceStepStep ==
  ASSUME UploadInv, PlaceStep
  PROVE  UploadInv'
<1>1. Place /\ UNCHANGED receiveVars
  BY DEF PlaceStep
<1>2. /\ sent' = sent /\ fault' = fault /\ p' = p /\ seen' = seen /\ pc' = pc /\ state' = state /\ count' = count
      /\ sumAt' = sumAt /\ block' = block
  BY <1>1 DEF receiveVars
<1>3. phase \in Placing
  BY <1>1 DEF Place, PassDown, EndDown, PassUp, EndUp, PassFill, EndFill, CopyRam, CopyPage, Unstash,
              UploadInv, PcInv, NoJob, Placing, Passes
<1>4. TypesInv /\ pc = "placing" /\ PlaceInv /\ state = "data" /\ ReadsOnlyWhatArrived
      /\ Intact /\ Proper(sent)
  BY <1>3 DEF UploadInv, PcInv, VerdictIsRight, Placing, Passes
<1>5. PlaceInv'
  BY <1>1, <1>4, PlaceStepKeeps
<1>6. phase' \in Placing /\ phase' \notin {"receive", "failed"}
  BY <1>5 DEF PlaceInv, PassInv, Placing, Passes
<1>7. table' = table /\ dataStart' = dataStart /\ dataEnd' = dataEnd
  BY <1>1 DEF Place, PassDown, EndDown, PassUp, EndUp, PassFill, EndFill, CopyRam, CopyPage, Unstash
<1>8. TypesInv'
  BY <1>2, <1>4, <1>7 DEF TypesInv
<1>9. PcInv'
  BY <1>2, <1>4, <1>6 DEF PcInv
<1>10. VerdictIsRight'
  <2>1. (Intact' <=> Intact) /\ (Proper(sent)' <=> Proper(sent))
    BY <1>2 DEF Intact
  <2> QED BY <1>2, <1>4, <1>6, <2>1 DEF VerdictIsRight
<1>11. HandsOver'
  <2> SUFFICES ASSUME phase' = "down", entry' = 1 PROVE FALSE
    BY DEF HandsOver
  <2>1. PassInv /\ CopyInv
    BY <1>4 DEF PlaceInv, PassInv
  <2>2. CASE PassDown
    BY <2>1, <2>2 DEF PassDown, PassInv
  <2>3. CASE CopyRam \/ CopyPage
    <3>1. phase = "down" /\ entry = 1 /\ job.length > 0
      BY <2>3 DEF CopyRam, CopyPage
    <3>2. 0 \in 1 .. Len(table)
      BY <2>1, <3>1 DEF CopyInv
    <3> QED BY <3>2
  <2>4. CASE EndDown \/ PassUp \/ EndUp \/ PassFill \/ EndFill \/ Unstash
    BY <2>4 DEF EndDown, PassUp, EndUp, PassFill, EndFill, Unstash
  <2> QED BY <1>1, <2>2, <2>3, <2>4 DEF Place
<1>12. ReadsOnlyWhatArrived'
  BY <1>2, <1>4, <1>7 DEF ReadsOnlyWhatArrived
<1> QED BY <1>2, <1>4, <1>5, <1>6, <1>8, <1>9, <1>10, <1>11, <1>12 DEF UploadInv

LEMMA SameUpload ==
  ASSUME UploadInv, UNCHANGED vars
  PROVE  UploadInv'
<1>1. /\ UNCHANGED placeVars
      /\ UNCHANGED <<phase, mem, stash, table, dataStart, dataEnd, source, entry, job>>
      /\ UNCHANGED <<sent, wire, fault, p, seen, pc, state, count, sum, sumAt, shown, block, paused, lcd>>
  BY DEF vars, placeVars, receiveVars
<1>2. Line' = Line /\ HeaderSumMatches' = HeaderSumMatches /\ EndOf(Len(sent))' = EndOf(Len(sent))
      /\ EndOf(block - 1)' = EndOf(block - 1)
      /\ High(p)' = High(p) /\ High(seen)' = High(seen) /\ Low(p)' = Low(p) /\ Low(seen)' = Low(seen)
  BY <1>1 DEF Line, HeaderSumMatches, HeaderCells, SentHeader, EndOf, High, Low
<1>3. TypesInv /\ PcInv /\ VerdictIsRight /\ HandsOver /\ ReadsOnlyWhatArrived
  BY DEF UploadInv
<1>4. TypesInv' /\ PcInv' /\ ReadsOnlyWhatArrived'
  BY <1>1, <1>3 DEF TypesInv, PcInv, ReadsOnlyWhatArrived
<1>5. VerdictIsRight'
  <2>1. (Intact' <=> Intact) /\ (Proper(sent)' <=> Proper(sent))
    BY <1>1 DEF Intact
  <2> QED BY <1>1, <1>3, <2>1 DEF VerdictIsRight
<1>6. HandsOver'
  BY <1>1, <1>3 DEF HandsOver, ReadyToPlace
<1>7. phase' \in Placing => PlaceInv' /\ state' = "data"
  <2> SUFFICES ASSUME phase \in Placing PROVE PlaceInv' /\ state' = "data"
    BY <1>1
  <2>1. PlaceInv /\ state = "data"
    BY DEF UploadInv
  <2> QED BY <1>1, <2>1, PlaceStepKeeps
<1>8. phase' = "receive" => ReceiveInv'
  <2> SUFFICES ASSUME phase = "receive" PROVE ReceiveInv'
    BY <1>1
  <2>1. WireInv /\ FixedInv /\ HeaderInv /\ SumInv /\ FinishInv /\ SeenInv
    BY WhileReceiving
  <2>2. WireInv' /\ FixedInv'
    BY <1>1, <1>2, <2>1 DEF WireInv, FixedInv
  <2>3. HeaderInv' /\ SumInv' /\ FinishInv'
    BY <1>1, <1>2, <2>1 DEF HeaderInv, SumInv, FinishInv
  <2>4. SeenInv'
    BY <1>1, <1>2, <2>1 DEF SeenInv, Arrived
  <2> QED BY <2>2, <2>3, <2>4 DEF ReceiveInv
<1> QED BY <1>4, <1>5, <1>6, <1>7, <1>8 DEF UploadInv

LEMMA UploadStepKeeps ==
  ASSUME UploadInv, [Next]_vars
  PROVE  UploadInv'
<1>1. CASE Receive \/ Tick
  BY <1>1, ReceiveStep, TickStep
<1>2. CASE ReadHigh \/ ReadLow \/ Reread
  BY <1>2, ReadHighStep, ReadLowStep, RereadStep
<1>3. CASE PaceProgress \/ FinishReceiving \/ PlaceStep
  BY <1>3, PaceProgressStep, FinishStep, PlaceStepStep
<1>4. CASE CheckStep
  <2>1. CheckFixed \/ CheckHeader \/ CheckData
    BY <1>4 DEF CheckStep
  <2> QED BY <1>4, <2>1, CheckFixedStep, CheckHeaderStep, CheckDataStep
<1>5. CASE Stopped \/ UNCHANGED vars
  BY <1>5, SameUpload DEF Stopped
<1> QED BY <1>1, <1>2, <1>3, <1>4, <1>5 DEF Next, MainStep

-----------------------------------------------------------------------------
(***************************************************************************)
(* The theorems                                                            *)
(***************************************************************************)

\* What the receiver knows at every step: the stream is in memory as it came over the
\* line, what is checked is what was sent, and no byte counts as received that is not.
THEOREM UploadInvariant == Spec => []UploadInv
<1>1. UploadInv /\ [Next]_vars => UploadInv'
  BY UploadStepKeeps
<1> QED BY UploadStarts, <1>1, PTL DEF Spec

\* upload_read_seen: UPLOAD_P is read in two halves while the handler moves it on, and
\* yet the main loop never takes a byte for received that is not.
THEOREM OnlyArrivedIsRead == Spec => []ReadsOnlyWhatArrived
<1>1. UploadInv => ReadsOnlyWhatArrived
  BY DEF UploadInv
<1> QED BY UploadInvariant, <1>1, PTL

\* upload_check_step: whatever table is sent and whatever the line spoils or loses, an
\* upload is moved into place only if it came as it was sent and is proper, and is
\* refused only if not.
THEOREM VerdictIsAlwaysRight == Spec => []VerdictIsRight
<1>1. UploadInv => VerdictIsRight
  BY DEF UploadInv
<1> QED BY UploadInvariant, <1>1, PTL

\* The receiver leaves to upload_place what that relies on.
THEOREM ReceiverHandsOver == Spec => []HandsOver
<1>1. UploadInv => HandsOver
  BY DEF UploadInv
<1> QED BY UploadInvariant, <1>1, PTL

\* Both halves together: what runs is what was sent, every byte in its place.
THEOREM WhatRunsIsWhatWasSent == Spec => [](EverythingInPlace /\ (phase = "run" => table = sent))
<1>1. UploadInv => EverythingInPlace /\ (phase = "run" => table = sent)
  <2> SUFFICES ASSUME UploadInv, phase = "run" PROVE EverythingInPlace /\ table = sent
    BY DEF EverythingInPlace
  <2>1. PlaceInv /\ state = "data" /\ TypesInv
    BY DEF UploadInv, Placing, Passes
  <2> QED BY <2>1, AllInPlace DEF TypesInv
<1> QED BY UploadInvariant, <1>1, PTL

-----------------------------------------------------------------------------
(***************************************************************************)
(* Types                                                                   *)
(***************************************************************************)

\* What UploadInv does not say of the variables' types.
MemoryTypes == mem \in [Addresses -> Cells] /\ stash \in [Owned -> Cells]

BoundTypes ==
  /\ {dataStart, dataEnd, source, sumAt} \subseteq 0 .. Limit
  /\ seen \in 0 .. Limit + PageSize
  /\ entry \in 0 .. MaxEntries + 1

DisplayTypes ==
  /\ shown \in -1 .. Limit /\ paused \in BOOLEAN
  /\ lcd.received \in 0 .. Limit /\ lcd.address \in -1 .. Limit

\* A copy takes its bytes from the stream.
LEMMA CopiedFromMemory ==
  ASSUME PlaceInv, job.length > 0
  PROVE  /\ job.how \in {"page", "down"} => job.from \in Addresses
         /\ job.how = "up" => job.from + job.length - 1 \in Addresses
<1>1. CopyInv /\ TableInv /\ job \in Jobs
  BY DEF PlaceInv, PassInv
<1>2. PICK n, s : n = job.length /\ s = job.from
  OBVIOUS
<1>3. n \in Nat /\ s \in Nat /\ n > 0
  BY <1>1, <1>2 DEF Jobs
<1>4. ASSUME NEW i \in 1 .. Len(table), ~ Fills(table[i])
      PROVE  /\ EndOf(i - 1) \in Nat /\ table[i].length \in Nat
             /\ EndOf(i - 1) + table[i].length <= Limit
  <2>1. Len(table) \in Nat /\ i - 1 \in 0 .. Len(table) /\ i \in 0 .. Len(table)
    BY <1>1, Layout
  <2>2. EndOf(i) = EndOf(i - 1) + table[i].length /\ EndOf(i) <= Limit
    BY <1>1, <1>4, <2>1, Layout
  <2> QED BY <1>1, <2>1, <2>2, Layout
<1>5. ASSUME job.how \in {"page", "down"} PROVE job.from \in Addresses
  <2>1. PICK i : i = entry - 1
    OBVIOUS
  <2>2. i \in 1 .. Len(table) /\ ~ Fills(table[i]) /\ job.length <= table[i].length
        /\ job.from = EndOf(i - 1) + Copied(i)
    BY <1>1, <1>2, <1>3, <1>5, <2>1 DEF CopyInv, Falls
  <2>3. PICK e, l : e = EndOf(i - 1) /\ l = table[i].length
    OBVIOUS
  <2>4. e \in Nat /\ l \in Nat /\ e + l <= Limit /\ n <= l /\ s = e + (l - n)
    BY <1>2, <1>4, <2>2, <2>3 DEF Copied
  <2>5. s \in Nat /\ s < Limit
    BY <1>3, <2>4, MapFacts
  <2> QED BY <1>2, <2>5, MapFacts
<1>6. ASSUME job.how = "up" PROVE job.from + job.length - 1 \in Addresses
  <2>1. PICK i : i = entry + 1
    OBVIOUS
  <2>2. i \in 1 .. Len(table) /\ ~ Fills(table[i]) /\ job.length <= table[i].length
        /\ job.from = EndOf(i - 1)
    BY <1>1, <1>2, <1>3, <1>6, <2>1 DEF CopyInv, Rises
  <2>3. PICK e, l : e = EndOf(i - 1) /\ l = table[i].length
    OBVIOUS
  <2>4. e \in Nat /\ l \in Nat /\ e + l <= Limit /\ n <= l /\ s = e
    BY <1>2, <1>4, <2>2, <2>3
  <2>5. s + n - 1 \in Nat /\ s + n - 1 < Limit
    BY <1>3, <2>4, MapFacts
  <2> QED BY <1>2, <2>5, MapFacts
<1> QED BY <1>5, <1>6

LEMMA MemoryTypesKept ==
  ASSUME UploadInv, MemoryTypes, [Next]_vars
  PROVE  MemoryTypes'
<1>1. mem \in [Addresses -> Cells] /\ stash \in [Owned -> Cells]
  BY DEF MemoryTypes
<1>2. ASSUME NEW a, NEW v \in Cells, mem' = [mem EXCEPT ![a] = v], stash' = stash
      PROVE  MemoryTypes'
  BY <1>1, <1>2 DEF MemoryTypes
<1>3. ASSUME UNCHANGED <<mem, stash>>
      PROVE  MemoryTypes'
  BY <1>1, <1>3 DEF MemoryTypes
<1>4. CASE Receive
  <2>1. phase = "receive" /\ mem' = [mem EXCEPT ![p] = Head(wire)] /\ stash' = stash /\ wire # <<>>
    BY <1>4 DEF Receive
  <2>2. wire \in Seq(Cells)
    BY <2>1, WhileReceiving DEF WireInv
  <2>3. Head(wire) \in Cells
    BY <2>1, <2>2
  <2> QED BY <1>2, <2>1, <2>3
<1>5. CASE Tick \/ ReadHigh \/ ReadLow \/ Reread \/ PaceProgress \/ FinishReceiving \/ CheckStep \/ Stopped \/ UNCHANGED vars
  <2>1. UNCHANGED <<mem, stash>>
    BY <1>5 DEF Tick, ReadHigh, ReadLow, Reread, PaceProgress, FinishReceiving, CheckStep, Stopped, vars, placeVars
  <2> QED BY <1>3, <2>1
<1>6. CASE PassDown \/ EndDown \/ PassUp \/ EndUp \/ PassFill \/ EndFill
  <2>1. UNCHANGED <<mem, stash>>
    BY <1>6 DEF PassDown, EndDown, PassUp, EndUp, PassFill, EndFill
  <2> QED BY <1>3, <2>1
<1>7. Zero \in Cells
  BY CellsAre
<1>8. ASSUME CopyRam \/ CopyPage
      PROVE  /\ job.how \in {"page", "down"} => mem[job.from] \in Cells
             /\ job.how = "up" => mem[job.from + job.length - 1] \in Cells
  <2>1. job.length > 0
    BY <1>8 DEF CopyRam, CopyPage
  <2>2. PlaceInv
    BY <2>1 DEF UploadInv, PcInv, NoJob
  <2> QED BY <1>1, <2>1, <2>2, CopiedFromMemory
<1>9. CASE CopyRam
  <2>1. CASE job.how = "down" /\ Put(job.to, mem[job.from])
    BY <1>2, <1>8, <1>9, <2>1 DEF Put
  <2>2. CASE job.how = "up" /\ Put(job.to + job.length - 1, mem[job.from + job.length - 1])
    BY <1>2, <1>8, <1>9, <2>2 DEF Put
  <2>3. CASE job.how = "clear" /\ Put(job.to, Zero)
    BY <1>2, <1>7, <2>3 DEF Put
  <2> QED BY <1>9, <2>1, <2>2, <2>3 DEF CopyRam
<1>10. CASE CopyPage
  <2>1. PICK v : v = IF job.how = "page" THEN mem[job.from] ELSE Zero
    OBVIOUS
  <2>2. v \in Cells
    BY <1>7, <1>8, <1>10, <2>1
  <2>3. IF job.to \in Owned THEN stash' = [stash EXCEPT ![job.to] = v] /\ mem' = mem
                            ELSE mem' = [mem EXCEPT ![job.to] = v] /\ stash' = stash
    BY <1>10, <2>1 DEF CopyPage, StoreZeroPage, Put
  <2>4. CASE job.to \in Owned
    BY <1>1, <2>2, <2>3, <2>4 DEF MemoryTypes
  <2>5. CASE job.to \notin Owned
    BY <1>2, <2>2, <2>3, <2>5
  <2> QED BY <2>4, <2>5
<1>11. CASE Unstash
  <2>1. mem' = [a \in Addresses |-> IF a \in Owned THEN stash[a] ELSE mem[a]] /\ stash' = stash
    BY <1>11 DEF Unstash
  <2> QED BY <1>1, <2>1 DEF MemoryTypes
<1> QED BY <1>4, <1>5, <1>6, <1>9, <1>10, <1>11 DEF Next, MainStep, PlaceStep, Place

LEMMA BoundTypesKept ==
  ASSUME UploadInv, UploadInv', BoundTypes, [Next]_vars
  PROVE  BoundTypes'
<1>1. /\ dataStart \in 0 .. Limit /\ dataEnd \in 0 .. Limit /\ source \in 0 .. Limit /\ sumAt \in 0 .. Limit
      /\ seen \in 0 .. Limit + PageSize /\ entry \in 0 .. MaxEntries + 1
      /\ Limit \in Nat /\ PageSize \in Nat /\ MaxEntries \in Nat /\ MaxEntries >= 1
  BY StreamFacts, MapAssumption DEF BoundTypes
<1>2. CASE Receive \/ Tick \/ Reread \/ PaceProgress \/ Stopped \/ UNCHANGED vars
  <2>1. UNCHANGED <<dataStart, dataEnd, source, sumAt, seen, entry>>
    BY <1>2 DEF Receive, Tick, Reread, PaceProgress, Stopped, vars, placeVars, receiveVars
  <2> QED BY <1>1, <2>1 DEF BoundTypes
<1>3. CASE ReadHigh \/ ReadLow
  <2>1. phase = "receive" /\ UNCHANGED <<dataStart, dataEnd, source, sumAt, entry>>
        /\ seen' \in {High(p) * PageSize + Low(seen), High(seen) * PageSize + Low(p)}
    BY <1>3 DEF ReadHigh, ReadLow, At, placeVars
  <2>2. PICK h, g, l, m : h = High(p) /\ g = High(seen) /\ l = Low(p) /\ m = Low(seen)
    OBVIOUS
  <2>3. /\ h \in Nat /\ g \in Nat /\ l \in 0 .. PageSize - 1 /\ m \in 0 .. PageSize - 1
        /\ p = h * PageSize + l /\ p \in Nat /\ p <= Limit
    BY <2>1, <2>2, SeenFacts, HeaderIsBelow
  <2>4. g <= h
    BY <2>1, <2>2, WhileReceiving DEF SeenInv
  <2>5. g * PageSize <= h * PageSize /\ g * PageSize \in Nat /\ h * PageSize \in Nat
    BY <1>1, <2>3, <2>4, Z3
  <2>6. seen' = h * PageSize + m \/ seen' = g * PageSize + l
    BY <2>1, <2>2
  <2>7. PICK x, y : x = h * PageSize /\ y = g * PageSize
    OBVIOUS
  <2>8. /\ x \in Nat /\ y \in Nat /\ y <= x /\ x + l <= Limit /\ l \in 0 .. PageSize - 1 /\ m \in 0 .. PageSize - 1
        /\ seen' = x + m \/ seen' = y + l
    BY <2>3, <2>5, <2>6, <2>7
  <2>9. seen' \in 0 .. Limit + PageSize
    BY <1>1, <2>8
  <2> QED BY <1>1, <2>1, <2>9 DEF BoundTypes
<1>4. CASE CheckStep
  <2>1. /\ phase = "receive" /\ pc = "check" /\ seen' = seen /\ source' = source /\ entry' = entry
    BY <1>4 DEF CheckStep, At, CheckFixed, CheckHeader, CheckData, Wait, Loop, Refuse
  <2>2. CASE CheckFixed
    <3>1. sumAt' = sumAt /\ dataEnd' = dataEnd
      BY <2>2 DEF CheckFixed, Wait, Refuse
    <3>2. dataStart' = dataStart \/ \E n \in Counts : dataStart' = HEntries + n * EntrySize
      BY <2>2 DEF CheckFixed, Wait, Refuse
    <3>3. \A n \in Counts : HEntries + n * EntrySize \in 0 .. Limit
      BY <1>1, StreamFacts, LoaderAssumption DEF Counts
    <3> QED BY <1>1, <2>1, <3>1, <3>2, <3>3 DEF BoundTypes
  <2>3. CASE CheckHeader
    <3>1. dataStart' = dataStart /\ sumAt' \in {sumAt, dataStart}
          /\ (dataEnd' = dataEnd \/ dataEnd' <= Limit)
      BY <2>3 DEF CheckHeader, Wait, Refuse
    <3>2. dataEnd' \in Nat
      BY DEF UploadInv, TypesInv
    <3> QED BY <1>1, <2>1, <3>1, <3>2 DEF BoundTypes
  <2>4. CASE CheckData
    <3>1. state = "data" /\ dataStart' = dataStart /\ dataEnd' = dataEnd /\ sumAt' \in {sumAt, sumAt + Summed}
      BY <2>4 DEF CheckData, Refuse
    <3>2. \A n : n = Summed => sumAt + n \in Nat /\ sumAt + n <= dataEnd
      <4> TAKE n
      <4> HAVE n = Summed
      <4>1. n \in Nat /\ sumAt \in Nat /\ sumAt + n <= dataEnd
        BY <2>1, <3>1, SummedFacts
      <4> QED BY <4>1
    <3>3. sumAt' \in 0 .. Limit
      BY <1>1, <3>1, <3>2
    <3> QED BY <1>1, <2>1, <3>1, <3>3 DEF BoundTypes
  <2> QED BY <1>4, <2>2, <2>3, <2>4 DEF CheckStep
<1>5. CASE FinishReceiving
  <2>1. /\ phase = "receive" /\ source' = dataStart /\ entry' = 1 /\ seen' = p
        /\ UNCHANGED <<dataStart, dataEnd, sumAt>>
    BY <1>5 DEF FinishReceiving, At
  <2>2. p \in Nat /\ p <= Limit
    BY <2>1, HeaderIsBelow
  <2> QED BY <1>1, <2>1, <2>2 DEF BoundTypes
<1>6. CASE PlaceStep
  <2>1. Place /\ seen' = seen /\ sumAt' = sumAt /\ dataStart' = dataStart /\ dataEnd' = dataEnd /\ table' = table
    BY <1>6 DEF PlaceStep, receiveVars, Place, PassDown, EndDown, PassUp, EndUp, PassFill, EndFill,
                CopyRam, CopyPage, Unstash
  <2>2. phase \in Placing
    BY <2>1 DEF Place, PassDown, EndDown, PassUp, EndUp, PassFill, EndFill, CopyRam, CopyPage, Unstash,
                UploadInv, PcInv, NoJob, Placing, Passes
  <2>3. PlaceInv /\ PassInv /\ TableInv
    BY <2>2 DEF UploadInv, PlaceInv
  <2>4. PlaceInv' /\ PassInv'
    BY <2>1, <2>3, PlaceStepKeeps DEF PlaceInv
  <2>5. Len(table) \in Nat /\ Len(table) <= MaxEntries
    BY <2>3, Layout
  <2>6. \A i \in 0 .. Len(table) : EndOf(i) \in 0 .. Limit
    <3> TAKE i \in 0 .. Len(table)
    <3>1. EndOf(i) \in Nat /\ EndOf(i) <= Limit
      BY <2>3, Layout
    <3> QED BY <1>1, <3>1
  <2>7. ASSUME phase' \in {"down", "up"} PROVE source' \in 0 .. Limit /\ entry' \in 0 .. MaxEntries + 1
    <3>1. PICK x : x = entry'
      OBVIOUS
    <3>2. CASE phase' = "down"
      <4>1. x \in 1 .. Len(table) + 1 /\ source' = DataEnds(table, dataStart)[x - 1]
        BY <2>1, <2>4, <3>1, <3>2 DEF PassInv, EndOf
      <4>2. x - 1 \in 0 .. Len(table)
        BY <2>5, <4>1
      <4> QED BY <1>1, <2>5, <2>6, <3>1, <4>1, <4>2 DEF EndOf
    <3>3. CASE phase' = "up"
      <4>1. x \in 0 .. Len(table) /\ source' = DataEnds(table, dataStart)[x]
        BY <2>1, <2>4, <3>1, <3>3 DEF PassInv, EndOf
      <4> QED BY <1>1, <2>5, <2>6, <3>1, <4>1 DEF EndOf
    <3> QED BY <2>7, <3>2, <3>3
  <2>8. ASSUME phase' \notin {"down", "up"} PROVE source' \in 0 .. Limit /\ entry' \in 0 .. MaxEntries + 1
    <3>1. source' = source /\ (entry' = entry \/ phase' = "fill")
      BY <2>1, <2>8 DEF Place, PassDown, EndDown, PassUp, EndUp, PassFill, EndFill, CopyRam, CopyPage, Unstash
    <3>2. phase' = "fill" => entry' \in 1 .. Len(table) + 1
      BY <2>1, <2>4 DEF PassInv
    <3> QED BY <1>1, <2>5, <3>1, <3>2
  <2> QED BY <1>1, <2>1, <2>7, <2>8 DEF BoundTypes
<1> QED BY <1>2, <1>3, <1>4, <1>5, <1>6 DEF Next, MainStep

\* What upload_show_progress puts on the display is within memory.
LEMMA DrawnValues ==
  ASSUME UploadInv, phase = "receive", NEW at \in Nat, Stream <= at, at <= p, NEW b,
         b = IF state = "data" THEN Reached(block, at) ELSE block,
         state = "data" => EndOf(block - 1) <= at
  PROVE  /\ at \in 0 .. Limit /\ at - Stream \in 0 .. Limit
         /\ (IF state = "data" THEN NextAddress(b, at) ELSE -1) \in -1 .. Limit
<1>1. /\ Stream \in Nat /\ Limit \in Nat /\ p \in Nat /\ p <= Limit /\ PageSize \in Nat /\ PageSize < Limit
  BY StreamFacts, HeaderIsBelow
<1>2. at \in 0 .. Limit /\ at - Stream \in 0 .. Limit
  BY <1>1
<1>3. ASSUME state = "data" PROVE NextAddress(b, at) \in 0 .. Limit
  <2>1. b \in 1 .. Len(sent) /\ (b = block \/ EndOf(b - 1) < at) /\ EndOf(b - 1) \in Nat
    BY <1>3, ReachedFacts
  <2>2. TypesInv /\ GoodTable(sent) /\ sent \in Seq(EntryType) /\ table = sent /\ Len(sent) \in Nat /\ dataStart \in Nat
    BY <1>3, WhileReceiving, LineFacts DEF HeaderInv, TypesInv
  <2>3. PICK a, l : a = sent[b].address /\ l = sent[b].length
    OBVIOUS
  <2>4. a \in Nat /\ l \in Nat /\ a + l <= Limit
    <3>1. sent[b] \in EntryType /\ b \in DOMAIN sent
      BY <2>1, <2>2
    <3>2. GoodEntry(sent[b], IF b = 1 THEN 0 ELSE End(sent[b - 1]))
      BY <2>2, <3>1 DEF GoodTable
    <3>3. a \in Nat /\ l \in Nat
      BY <2>3, <3>1 DEF EntryType
    <3>4. End(sent[b]) = a + l
      BY <2>3, <3>1, <3>2, EndIsExact DEF GoodEntry
    <3>5. a + l <= PageSize \/ a + l <= Limit
      BY <3>2, <3>4 DEF GoodEntry
    <3> QED BY <1>1, <3>3, <3>5
  <2>5. PICK e, f : e = EndOf(b - 1) /\ f = EndOf(b)
    OBVIOUS
  <2>6. e \in Nat /\ f \in Nat /\ e <= f /\ f <= e + l
    <3>1. EndOf(b) = EndOf(b - 1) + DataLength(sent, b)
      BY <2>1, <2>2, EndsStep DEF EndOf
    <3>2. DataLength(sent, b) = 0 \/ DataLength(sent, b) = l
      BY <2>3 DEF DataLength
    <3> QED BY <2>1, <2>4, <2>5, <3>1, <3>2
  <2>7. e <= at
    BY <1>3, <2>1, <2>5
  <2>8. NextAddress(b, at) = a + (IF at < f THEN at ELSE f) - e
    BY <2>2, <2>3, <2>5 DEF NextAddress, EndOf
  <2>9. PICK r : r = IF at < f THEN at ELSE f
    OBVIOUS
  <2>10. r \in Nat /\ e <= r /\ r <= f
    BY <2>6, <2>7, <2>9
  <2>11. a + r - e \in 0 .. Limit
    BY <1>1, <2>4, <2>6, <2>10
  <2> QED BY <2>8, <2>9, <2>11
<1>4. (IF state = "data" THEN NextAddress(b, at) ELSE -1) \in -1 .. Limit
  <2>1. -1 \in -1 .. Limit /\ \A x \in 0 .. Limit : x \in -1 .. Limit
    BY <1>1
  <2> QED BY <1>3, <2>1
<1> QED BY <1>2, <1>4

LEMMA DisplayTypesKept ==
  ASSUME UploadInv, DisplayTypes, [Next]_vars
  PROVE  DisplayTypes'
<1>1. shown \in -1 .. Limit /\ paused \in BOOLEAN /\ lcd.received \in 0 .. Limit /\ lcd.address \in -1 .. Limit
  BY DEF DisplayTypes
<1>2. Limit \in Nat /\ -1 \in -1 .. Limit /\ \A x \in 0 .. Limit : x \in -1 .. Limit
  BY StreamFacts
<1>3. ASSUME NEW at \in Nat, phase = "receive", Stream <= at, at <= p, state = "data" => EndOf(block - 1) <= at,
             \/ /\ shown' = at /\ paused' = TRUE
                /\ \/ UNCHANGED <<block, lcd>>
                   \/ /\ block' = IF state = "data" THEN Reached(block, at) ELSE block
                      /\ lcd' = [received |-> at - Stream, block |-> block',
                                 address |-> IF state = "data" THEN NextAddress(block', at) ELSE -1]
             \/ UNCHANGED <<shown, paused, block, lcd>>
      PROVE  DisplayTypes'
  <2>1. PICK b, r, x : /\ b = (IF state = "data" THEN Reached(block, at) ELSE block) /\ r = at - Stream
                       /\ x = IF state = "data" THEN NextAddress(b, at) ELSE -1
    OBVIOUS
  <2>2. at \in 0 .. Limit /\ r \in 0 .. Limit /\ x \in -1 .. Limit
    BY <1>3, <2>1, DrawnValues
  <2>3. \/ shown' = at /\ paused' = TRUE /\ lcd' = lcd
        \/ shown' = at /\ paused' = TRUE /\ lcd' = [received |-> r, block |-> b, address |-> x]
        \/ UNCHANGED <<shown, paused, lcd>>
    BY <1>3, <2>1
  <2>4. shown' \in -1 .. Limit /\ paused' \in BOOLEAN
    BY <1>1, <1>2, <2>2, <2>3
  <2>5. lcd'.received \in 0 .. Limit /\ lcd'.address \in -1 .. Limit
    <3>1. CASE lcd' = lcd
      BY <1>1, <3>1
    <3>2. CASE lcd' = [received |-> r, block |-> b, address |-> x]
      BY <2>2, <3>2
    <3> QED BY <2>3, <3>1, <3>2
  <2> QED BY <2>4, <2>5 DEF DisplayTypes
<1>4. CASE Tick
  BY <1>1, <1>4 DEF Tick, DisplayTypes
<1>5. CASE Receive \/ ReadHigh \/ ReadLow \/ Reread \/ PlaceStep \/ Stopped \/ UNCHANGED vars
  <2>1. UNCHANGED <<shown, paused, lcd>>
    BY <1>5 DEF Receive, ReadHigh, ReadLow, Reread, PlaceStep, Stopped, vars, receiveVars
  <2> QED BY <1>1, <2>1 DEF DisplayTypes
<1>6. CASE CheckStep
  <2>1. UNCHANGED <<paused, lcd>> /\ shown' \in {shown, -1}
    BY <1>6 DEF CheckStep, CheckFixed, CheckHeader, CheckData, Wait, Refuse
  <2> QED BY <1>1, <1>2, <2>1 DEF DisplayTypes
<1>7. CASE PaceProgress
  <2>1. PICK at : at = seen
    OBVIOUS
  <2>2. /\ phase = "receive" /\ pc = "progress"
        /\ \/ /\ shown' = at /\ paused' = TRUE
              /\ \/ UNCHANGED <<block, lcd>>
                 \/ /\ block' = IF state = "data" THEN Reached(block, at) ELSE block
                    /\ lcd' = [received |-> at - Stream, block |-> block',
                               address |-> IF state = "data" THEN NextAddress(block', at) ELSE -1]
           \/ UNCHANGED <<shown, paused, block, lcd>>
    BY <1>7, <2>1 DEF PaceProgress, At, ShowProgress, Draw
  <2>3. at \in Nat /\ Stream <= at /\ at <= p /\ (state = "data" => EndOf(block - 1) <= at)
    BY <2>1, <2>2, WhileReceiving, SeenFacts DEF SeenInv, Arrived
  <2> QED BY <1>3, <2>2, <2>3
<1>8. CASE FinishReceiving
  <2>1. PICK at : at = p
    OBVIOUS
  <2>2. /\ phase = "receive"
        /\ \/ /\ shown' = at /\ paused' = TRUE
              /\ \/ UNCHANGED <<block, lcd>>
                 \/ /\ block' = IF state = "data" THEN Reached(block, at) ELSE block
                    /\ lcd' = [received |-> at - Stream, block |-> block',
                               address |-> IF state = "data" THEN NextAddress(block', at) ELSE -1]
           \/ UNCHANGED <<shown, paused, block, lcd>>
    BY <1>8, <2>1 DEF FinishReceiving, At, ShowProgress, Draw
  <2>3. at \in Nat /\ Stream <= at /\ at <= p /\ (state = "data" => EndOf(block - 1) <= at)
    BY <2>1, <2>2, WhileReceiving, HeaderIsBelow DEF SeenInv, Arrived
  <2> QED BY <1>3, <2>2, <2>3
<1> QED BY <1>4, <1>5, <1>6, <1>7, <1>8 DEF Next, MainStep

LEMMA TypesFollow ==
  ASSUME UploadInv, MemoryTypes, BoundTypes, DisplayTypes
  PROVE  UploadTypeOK
<1>1. TypesInv /\ PcInv
  BY DEF UploadInv
<1>2. phase \in {"receive", "down", "up", "fill", "unstash", "run", "failed"}
  BY <1>1 DEF PcInv, Placing, Passes
<1>3. pc \in {"read_high", "read_low", "reread", "progress", "check", "finish", "placing",
              "bad_version", "bad_header", "bad_block", "bad_checksum"}
  BY <1>1, <1>2 DEF PcInv, Placing, Passes, Waits, Refusals
<1>4. table \in {<<>>, sent} /\ state \in {"fixed", "header", "data"} /\ count \in 0 .. MaxEntries /\ block \in 1 .. MaxEntries
  BY <1>1 DEF TypesInv
<1>5. p \in 0 .. Limit
  BY <1>1, StreamFacts DEF TypesInv
<1>6. job.length \in 0 .. Limit
  <2>1. CASE phase \notin Placing
    BY <1>1, <2>1, NoJobIsJob, StreamFacts DEF PcInv
  <2>2. CASE phase \in Placing
    <3>1. job \in Jobs /\ CopyInv /\ TableInv
      BY <2>2 DEF UploadInv, PlaceInv, PassInv
    <3>2. job.length \in Nat
      BY <3>1 DEF Jobs
    <3>3. CASE job.length > 0
      <4>1. PICK i \in 1 .. Len(table) : job.length <= table[i].length
        BY <3>1, <3>3 DEF CopyInv
      <4>2. PICK a, l, n : a = table[i].address /\ l = table[i].length /\ n = job.length
        OBVIOUS
      <4>3. a \in Nat /\ l \in Nat /\ (a + l <= PageSize \/ a + l <= Limit) /\ n \in Nat /\ n <= l
        BY <3>1, <3>2, <4>1, <4>2, Layout
      <4>4. n \in 0 .. Limit
        BY <4>3, StreamFacts
      <4> QED BY <4>2, <4>4
    <3> QED BY <3>2, <3>3, StreamFacts
  <2> QED BY <2>1, <2>2
<1>7. {dataStart, dataEnd, source, sumAt, p} \subseteq 0 .. Limit
  BY <1>5 DEF BoundTypes
<1> QED BY <1>2, <1>3, <1>4, <1>6, <1>7 DEF UploadTypeOK, MemoryTypes, BoundTypes, DisplayTypes

LEMMA TypesStart == UploadInit => MemoryTypes /\ BoundTypes /\ DisplayTypes
<1> SUFFICES ASSUME UploadInit PROVE MemoryTypes /\ BoundTypes /\ DisplayTypes
  OBVIOUS
<1>1. /\ mem = [a \in Addresses |-> IF a \in Owned THEN Loader ELSE Old] /\ stash = [a \in Owned |-> Zero]
      /\ dataStart = 0 /\ dataEnd = 0 /\ source = 0 /\ entry = 1 /\ sumAt = 0 /\ seen = Stream
      /\ shown = -1 /\ paused = FALSE /\ lcd = [received |-> 0, block |-> 0, address |-> -1]
  BY DEF UploadInit
<1>2. MemoryTypes
  BY <1>1, CellsAre DEF MemoryTypes
<1>3. BoundTypes
  BY <1>1, StreamFacts, MapAssumption DEF BoundTypes
<1>4. DisplayTypes
  <2>1. lcd.received = 0 /\ lcd.address = -1
    BY <1>1
  <2>2. 0 \in 0 .. Limit /\ -1 \in -1 .. Limit
    BY StreamFacts
  <2> QED BY <1>1, <2>1, <2>2 DEF DisplayTypes
<1> QED BY <1>2, <1>3, <1>4

\* The types of the loader's variables, and the bounds that its 16-bit and 8-bit
\* variables need: the stream, the sum and the copies stay below INTERRUPT_ROUTINE, and
\* the table's counters within the table.
THEOREM UploadTypes == Spec => []UploadTypeOK
<1> DEFINE Types == MemoryTypes /\ BoundTypes /\ DisplayTypes
<1>1. UploadInit => Types
  BY TypesStart
<1>2. UploadInv /\ UploadInv' /\ Types /\ [Next]_vars => Types'
  BY MemoryTypesKept, BoundTypesKept, DisplayTypesKept
<1>3. UploadInv /\ Types => UploadTypeOK
  BY TypesFollow
<1> HIDE DEF Types
<1> QED BY UploadInvariant, <1>1, <1>2, <1>3, PTL DEF Spec
=============================================================================
