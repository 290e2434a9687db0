-------------------------- MODULE UploadPlaceProofs --------------------------
(***************************************************************************)
(* That upload_place puts every byte of an upload where its table says,    *)
(* although the blocks are moved over the stream they lie in: for every    *)
(* proper table, page size and place of the loader's own variables.        *)
(*                                                                         *)
(* The addresses in a proper table rise, and at least as fast as the       *)
(* places of its data in the stream: so the entries that move down come    *)
(* before those that move up.  The first are moved lowest first, the       *)
(* second highest first, each from the end where its source does not lie   *)
(* under its target, and what a copy writes is never a byte of the stream  *)
(* that still has to be moved.  Zeros are written last, when nothing has.  *)
(***************************************************************************)
EXTENDS UploadPlace, WellFoundedInduction, SequenceTheorems, TLAPS

LEMMA LeastNatural ==
  ASSUME NEW T, T \subseteq Nat, T # {}
  PROVE  \E n \in T : \A m \in T : n <= m
<1> DEFINE R == {x \in Nat \X Nat : x[1] < x[2]}
<1>1. IsWellFoundedOn(R, Nat)
  BY NatLessThanWellFounded DEF OpToRel
<1>2. PICK n \in T : \A m \in T : <<m, n>> \notin R
  <2> HIDE DEF R
  <2> QED BY <1>1, WFMin
<1>3. \A m \in T : ~ (m < n)
  BY <1>2
<1> QED BY <1>2, <1>3

LEMMA SumsExist ==
  ASSUME NEW n \in Nat, NEW s \in Nat, NEW d \in [1 .. n -> Nat]
  PROVE  \E f : f = [i \in 0 .. n |-> IF i = 0 THEN s ELSE f[i - 1] + d[i]]
<1> DEFINE Sums(m) == \E f : f = [i \in 0 .. m |-> IF i = 0 THEN s ELSE f[i - 1] + d[i]]
           Without == {m \in 0 .. n : ~ Sums(m)}
<1>1. ASSUME Without = {} PROVE Sums(n)
  <2> HIDE DEF Sums
  <2> QED BY <1>1
<1> SUFFICES ASSUME Without # {} PROVE FALSE
  BY <1>1
<1>2. PICK m \in Without : \A k \in Without : m <= k
  <2>1. Without \subseteq Nat
    <3> HIDE DEF Sums
    <3> QED OBVIOUS
  <2> HIDE DEF Without
  <2> QED BY <2>1, LeastNatural
<1>3. CASE m = 0
  <2> DEFINE f == [i \in 0 .. 0 |-> s]
  <2>1. f = [i \in 0 .. 0 |-> IF i = 0 THEN s ELSE f[i - 1] + d[i]]
    OBVIOUS
  <2> QED BY <2>1, <1>2, <1>3
<1>4. CASE m # 0
  <2>1. Sums(m - 1)
    <3> HIDE DEF Sums
    <3> QED BY <1>2, <1>4
  <2>2. PICK f : f = [i \in 0 .. m - 1 |-> IF i = 0 THEN s ELSE f[i - 1] + d[i]]
    BY <2>1
  <2> DEFINE g == [i \in 0 .. m |-> IF i = m THEN f[m - 1] + d[m] ELSE f[i]]
  <2>3. \A i \in 0 .. m : g[i] = IF i = 0 THEN s ELSE g[i - 1] + d[i]
    <3> TAKE i \in 0 .. m
    <3>1. CASE i = m
      BY <1>2, <1>4, <3>1
    <3>2. CASE i # m
      <4>1. f[i] = IF i = 0 THEN s ELSE f[i - 1] + d[i]
        BY <1>2, <2>2, <3>2
      <4>2. i # 0 => g[i - 1] = f[i - 1]
        BY <1>2, <3>2
      <4> QED BY <3>2, <4>1, <4>2
    <3> QED BY <3>1, <3>2
  <2>4. g = [i \in 0 .. m |-> IF i = 0 THEN s ELSE g[i - 1] + d[i]]
    <3> HIDE DEF g
    <3>1. g = [i \in 0 .. m |-> g[i]]
      BY DEF g
    <3> QED BY <2>3, <3>1
  <2>5. Sums(m)
    <3> HIDE DEF g
    <3> QED BY <2>4
  <2> QED BY <2>5, <1>2
<1> QED BY <1>3, <1>4

LEMMA EndsAre ==
  ASSUME NEW t \in Seq(EntryType), NEW s \in Nat
  PROVE  DataEnds(t, s) = [i \in 0 .. Len(t) |-> IF i = 0 THEN s ELSE DataEnds(t, s)[i - 1] + DataLength(t, i)]
<1> DEFINE d == [i \in 1 .. Len(t) |-> DataLength(t, i)]
           n == Len(t)
<1>1. d \in [1 .. n -> Nat] /\ n \in Nat
  <2>1. n \in Nat
    OBVIOUS
  <2>2. ASSUME NEW i \in 1 .. n PROVE DataLength(t, i) \in Nat
    <3>1. t[i] \in EntryType
      OBVIOUS
    <3> QED BY <3>1 DEF DataLength, Fills, EntryType
  <2> QED BY <2>1, <2>2
<1>2. \E f : f = [i \in 0 .. n |-> IF i = 0 THEN s ELSE f[i - 1] + d[i]]
  <2> HIDE DEF d, n
  <2> QED BY <1>1, SumsExist
<1>3. PICK f : f = [i \in 0 .. n |-> IF i = 0 THEN s ELSE f[i - 1] + DataLength(t, i)]
  <2>1. PICK f : f = [i \in 0 .. n |-> IF i = 0 THEN s ELSE f[i - 1] + d[i]]
    BY <1>2
  <2>2. \A i \in 0 .. n : (IF i = 0 THEN s ELSE f[i - 1] + d[i]) = (IF i = 0 THEN s ELSE f[i - 1] + DataLength(t, i))
    OBVIOUS
  <2>3. [i \in 0 .. n |-> IF i = 0 THEN s ELSE f[i - 1] + d[i]] = [i \in 0 .. n |-> IF i = 0 THEN s ELSE f[i - 1] + DataLength(t, i)]
    BY <2>2
  <2> QED BY <2>1, <2>3
<1> QED BY <1>3 DEF DataEnds

LEMMA EndsStep ==
  ASSUME NEW t \in Seq(EntryType), NEW s \in Nat
  PROVE  /\ DataEnds(t, s)[0] = s
         /\ \A i \in 1 .. Len(t) : DataEnds(t, s)[i] = DataEnds(t, s)[i - 1] + DataLength(t, i)
         /\ \A i \in 1 .. Len(t) : DataLength(t, i) \in Nat
<1> DEFINE E == DataEnds(t, s)
<1>1. E = [i \in 0 .. Len(t) |-> IF i = 0 THEN s ELSE E[i - 1] + DataLength(t, i)]
  BY EndsAre
<1>2. Len(t) \in Nat
  OBVIOUS
<1>3. ASSUME NEW i \in 1 .. Len(t) PROVE DataLength(t, i) \in Nat
  <2>1. t[i] \in EntryType
    OBVIOUS
  <2> QED BY <2>1 DEF DataLength, Fills, EntryType
<1> HIDE DEF E
<1>4. E[0] = s
  BY <1>1, <1>2
<1>5. ASSUME NEW i \in 1 .. Len(t) PROVE E[i] = E[i - 1] + DataLength(t, i)
  <2>1. i \in 0 .. Len(t) /\ i # 0
    BY <1>2
  <2> QED BY <1>1, <2>1
<1> QED BY <1>3, <1>4, <1>5 DEF E

LEMMA EndsGrow ==
  ASSUME NEW t \in Seq(EntryType), NEW s \in Nat
  PROVE  \A i \in 0 .. Len(t) :
           DataEnds(t, s)[i] \in Nat /\ \A j \in 0 .. i : DataEnds(t, s)[j] <= DataEnds(t, s)[i]
<1> DEFINE E(i) == DataEnds(t, s)[i]
           Right(i) == E(i) \in Nat /\ \A j \in 0 .. i : E(j) <= E(i)
           Wrong == {i \in 0 .. Len(t) : ~ Right(i)}
<1>1. /\ E(0) = s
      /\ \A i \in 1 .. Len(t) : E(i) = E(i - 1) + DataLength(t, i)
      /\ \A i \in 1 .. Len(t) : DataLength(t, i) \in Nat
  BY EndsStep
<1> HIDE DEF E
<1>2. ASSUME Wrong = {} PROVE \A i \in 0 .. Len(t) : Right(i)
  <2> HIDE DEF Right
  <2> QED BY <1>2
<1>3. ASSUME Wrong # {} PROVE FALSE
  <2>1. Wrong \subseteq Nat
    <3> HIDE DEF Right
    <3> QED OBVIOUS
  <2>2. PICK i \in Wrong : \A j \in Wrong : i <= j
    <3> HIDE DEF Wrong
    <3> QED BY <1>3, <2>1, LeastNatural
  <2>3. i \in 0 .. Len(t) /\ ~ Right(i)
    <3> HIDE DEF Right
    <3> QED OBVIOUS
  <2>4. i # 0
    BY <2>3, <1>1
  <2>5. Right(i - 1)
    <3> HIDE DEF Right
    <3> QED BY <2>2, <2>3, <2>4
  <2>6. E(i) = E(i - 1) + DataLength(t, i) /\ DataLength(t, i) \in Nat
    BY <1>1, <2>3, <2>4
  <2>7. E(i - 1) \in Nat /\ E(i - 1) <= E(i) /\ E(i) \in Nat
    BY <2>5, <2>6
  <2>8. ASSUME NEW j \in 0 .. i PROVE E(j) <= E(i)
    <3>1. CASE j = i
      BY <2>7, <3>1
    <3>2. CASE j # i
      <4>1. j \in 0 .. i - 1
        BY <2>3, <3>2
      <4>2. E(j) <= E(i - 1) /\ E(j) \in Nat
        BY <4>1, <2>5, <2>3, <2>2, <2>4
      <4> QED BY <4>2, <2>7
    <3> QED BY <3>1, <3>2
  <2>9. Right(i)
    BY <2>7, <2>8
  <2> QED BY <2>3, <2>9
<1> QED BY <1>2, <1>3 DEF E

LEMMA ConcatenationsExist ==
  ASSUME NEW S, NEW n \in Nat, NEW q \in [1 .. n -> Seq(S)]
  PROVE  \E f : f = [i \in 0 .. n |-> IF i = 0 THEN <<>> ELSE f[i - 1] \o q[i]]
<1> DEFINE Join(x, i) == x \o q[i]
           Joins(m) == \E f : f = [i \in 0 .. m |-> IF i = 0 THEN <<>> ELSE Join(f[i - 1], i)]
           Without == {m \in 0 .. n : ~ Joins(m)}
<1>0. ASSUME Joins(n) PROVE \E f : f = [i \in 0 .. n |-> IF i = 0 THEN <<>> ELSE f[i - 1] \o q[i]]
  BY <1>0
<1> HIDE DEF Join
<1>1. ASSUME Without = {} PROVE Joins(n)
  <2> HIDE DEF Joins
  <2> QED BY <1>1
<1> SUFFICES ASSUME Without # {} PROVE FALSE
  <2> HIDE DEF Joins
  <2> QED BY <1>0, <1>1
<1>2. PICK m \in Without : \A k \in Without : m <= k
  <2>1. Without \subseteq Nat
    <3> HIDE DEF Joins
    <3> QED OBVIOUS
  <2> HIDE DEF Without
  <2> QED BY <2>1, LeastNatural
<1>3. CASE m = 0
  <2> DEFINE f == [i \in 0 .. 0 |-> <<>>]
  <2>1. f = [i \in 0 .. 0 |-> IF i = 0 THEN <<>> ELSE Join(f[i - 1], i)]
    OBVIOUS
  <2> QED BY <2>1, <1>2, <1>3
<1>4. CASE m # 0
  <2>1. Joins(m - 1)
    <3> HIDE DEF Joins
    <3> QED BY <1>2, <1>4
  <2>2. PICK f : f = [i \in 0 .. m - 1 |-> IF i = 0 THEN <<>> ELSE Join(f[i - 1], i)]
    BY <2>1
  <2> DEFINE g == [i \in 0 .. m |-> IF i = m THEN Join(f[m - 1], m) ELSE f[i]]
  <2>3. \A i \in 0 .. m : g[i] = IF i = 0 THEN <<>> ELSE Join(g[i - 1], i)
    <3> TAKE i \in 0 .. m
    <3>1. CASE i = m
      BY <1>2, <1>4, <3>1
    <3>2. CASE i # m
      <4>1. f[i] = IF i = 0 THEN <<>> ELSE Join(f[i - 1], i)
        BY <1>2, <2>2, <3>2
      <4>2. i # 0 => g[i - 1] = f[i - 1]
        BY <1>2, <3>2
      <4> QED BY <3>2, <4>1, <4>2
    <3> QED BY <3>1, <3>2
  <2>4. g = [i \in 0 .. m |-> IF i = 0 THEN <<>> ELSE Join(g[i - 1], i)]
    <3> HIDE DEF g
    <3>1. g = [i \in 0 .. m |-> g[i]]
      BY DEF g
    <3> QED BY <2>3, <3>1
  <2>5. Joins(m)
    <3> HIDE DEF g
    <3> QED BY <2>4
  <2> QED BY <2>5, <1>2
<1> QED BY <1>3, <1>4

LEMMA SecondPart ==
  ASSUME NEW S, NEW u \in Seq(S), NEW v \in Seq(S), NEW k \in 1 .. Len(v)
  PROVE  (u \o v)[Len(u) + k] = v[k]
<1>1. Len(u) \in Nat /\ Len(v) \in Nat
  BY LenProperties
<1> DEFINE i == Len(u) + k
<1>2. i \in 1 .. Len(u) + Len(v) /\ ~ (i <= Len(u)) /\ i - Len(u) = k
  BY <1>1
<1> HIDE DEF i
<1>3. (u \o v)[i] = v[i - Len(u)]
  BY <1>2, ConcatProperties
<1> QED BY <1>2, <1>3 DEF i

\* Every data cell.
DataCells == {Cell(i, k) : i \in Nat, k \in Nat}

LEMMA DataStands ==
  ASSUME NEW t \in Seq(EntryType), NEW s \in Nat
  PROVE  /\ DataOf(t) \in Seq(DataCells)
         /\ Len(DataOf(t)) = DataEnds(t, s)[Len(t)] - s
         /\ \A i \in 1 .. Len(t) : \A k \in 0 .. DataLength(t, i) - 1 :
              DataOf(t)[DataEnds(t, s)[i - 1] - s + k + 1] = Cell(i, k)
<1> DEFINE q == [i \in 1 .. Len(t) |-> [k \in 1 .. DataLength(t, i) |-> Cell(i, k - 1)]]
           n == Len(t)
           E(i) == DataEnds(t, s)[i]
<1>1. /\ E(0) = s
      /\ \A i \in 1 .. n : E(i) = E(i - 1) + DataLength(t, i)
      /\ \A i \in 1 .. n : DataLength(t, i) \in Nat
      /\ n \in Nat
  BY EndsStep
<1>2. \A i \in 0 .. n : E(i) \in Nat /\ \A j \in 0 .. i : E(j) <= E(i)
  BY EndsGrow
<1>3. q \in [1 .. n -> Seq(DataCells)]
  <2> SUFFICES ASSUME NEW i \in 1 .. n PROVE [k \in 1 .. DataLength(t, i) |-> Cell(i, k - 1)] \in Seq(DataCells)
    OBVIOUS
  <2>1. \A k \in 1 .. DataLength(t, i) : Cell(i, k - 1) \in DataCells
    BY <1>1 DEF DataCells
  <2> QED BY <1>1, <2>1
<1>4. PICK f : f = [i \in 0 .. n |-> IF i = 0 THEN <<>> ELSE f[i - 1] \o [k \in 1 .. DataLength(t, i) |-> Cell(i, k - 1)]]
  <2>1. PICK f : f = [i \in 0 .. n |-> IF i = 0 THEN <<>> ELSE f[i - 1] \o q[i]]
    <3> HIDE DEF q, n
    <3> QED BY <1>1, <1>3, ConcatenationsExist
  <2>2. \A i \in 0 .. n : (IF i = 0 THEN <<>> ELSE f[i - 1] \o q[i]) = (IF i = 0 THEN <<>> ELSE f[i - 1] \o [k \in 1 .. DataLength(t, i) |-> Cell(i, k - 1)])
    BY <1>1
  <2>3. [i \in 0 .. n |-> IF i = 0 THEN <<>> ELSE f[i - 1] \o q[i]]
         = [i \in 0 .. n |-> IF i = 0 THEN <<>> ELSE f[i - 1] \o [k \in 1 .. DataLength(t, i) |-> Cell(i, k - 1)]]
    BY <2>2
  <2> QED BY <2>1, <2>3
<1>5. PICK data : /\ data = [i \in 0 .. n |-> IF i = 0 THEN <<>> ELSE data[i - 1] \o [k \in 1 .. DataLength(t, i) |-> Cell(i, k - 1)]]
                  /\ DataOf(t) = data[n]
  <2> DEFINE c == CHOOSE data : data = [i \in 0 .. n |-> IF i = 0 THEN <<>> ELSE data[i - 1] \o [k \in 1 .. DataLength(t, i) |-> Cell(i, k - 1)]]
  <2>1. c = [i \in 0 .. n |-> IF i = 0 THEN <<>> ELSE c[i - 1] \o [k \in 1 .. DataLength(t, i) |-> Cell(i, k - 1)]]
    BY <1>4
  <2>2. DataOf(t) = c[n]
    BY DEF DataOf
  <2> HIDE DEF c
  <2> QED BY <2>1, <2>2
<1>6. /\ data[0] = <<>>
      /\ \A i \in 1 .. n : data[i] = data[i - 1] \o q[i]
  <2>1. data[0] = <<>>
    BY <1>1, <1>5
  <2>2. ASSUME NEW i \in 1 .. n PROVE data[i] = data[i - 1] \o q[i]
    <3>1. i \in 0 .. n /\ i # 0
      BY <1>1
    <3> QED BY <1>5, <3>1
  <2> QED BY <2>1, <2>2
<1>7. \A i \in 1 .. n : /\ Len(q[i]) = DataLength(t, i)
                        /\ \A k \in 0 .. DataLength(t, i) - 1 : q[i][k + 1] = Cell(i, k)
  <2> TAKE i \in 1 .. n
  <2>1. q[i] = [k \in 1 .. DataLength(t, i) |-> Cell(i, k - 1)]
    OBVIOUS
  <2> QED BY <2>1, <1>1
<1> DEFINE Right(i) == /\ data[i] \in Seq(DataCells)
                       /\ Len(data[i]) = E(i) - s
                       /\ \A j \in 1 .. i : \A k \in 0 .. DataLength(t, j) - 1 :
                            data[i][E(j - 1) - s + k + 1] = Cell(j, k)
           Wrong == {i \in 0 .. n : ~ Right(i)}
<1> HIDE DEF q, n, E
<1>8. Right(0)
  BY <1>1, <1>6
<1>9. ASSUME NEW i \in 1 .. n, Right(i - 1) PROVE Right(i)
  <2>1. data[i] = data[i - 1] \o q[i]
    BY <1>6
  <2>2. i \in Nat /\ i - 1 \in 0 .. n /\ i \in 0 .. n
    BY <1>1
  <2>3. q[i] \in Seq(DataCells) /\ data[i - 1] \in Seq(DataCells)
    BY <1>3, <1>9
  <2>4. E(i - 1) \in Nat /\ E(i) = E(i - 1) + DataLength(t, i) /\ DataLength(t, i) \in Nat /\ s <= E(i - 1)
    BY <1>1, <1>2, <2>2
  <2>5. data[i] \in Seq(DataCells) /\ Len(data[i]) = E(i) - s
    <3>1. data[i] \in Seq(DataCells) /\ Len(data[i]) = Len(data[i - 1]) + Len(q[i])
      BY <2>1, <2>3, ConcatProperties
    <3>2. Len(data[i - 1]) = E(i - 1) - s
      BY <1>9
    <3> QED BY <3>1, <3>2, <2>4, <1>7
  <2>6. ASSUME NEW j \in 1 .. i, NEW k \in 0 .. DataLength(t, j) - 1
        PROVE  data[i][E(j - 1) - s + k + 1] = Cell(j, k)
    <3>1. j \in 1 .. n /\ DataLength(t, j) \in Nat /\ E(j) = E(j - 1) + DataLength(t, j) /\ E(j - 1) \in Nat /\ s <= E(j - 1)
      <4>1. j \in 1 .. n /\ j - 1 \in 0 .. n /\ 0 \in 0 .. j - 1
        BY <2>2, <1>1
      <4> QED BY <1>1, <1>2, <4>1
    <3>2. CASE j = i
      <4>1. E(j - 1) - s + k + 1 = Len(data[i - 1]) + (k + 1)
        BY <3>1, <3>2, <1>9
      <4>2. k + 1 \in 1 .. Len(q[i])
        BY <3>1, <3>2, <1>7
      <4>3. (data[i - 1] \o q[i])[Len(data[i - 1]) + (k + 1)] = q[i][k + 1]
        <5> DEFINE u == data[i - 1]
                   v == q[i]
                   m == k + 1
        <5>1. u \in Seq(DataCells) /\ v \in Seq(DataCells) /\ m \in 1 .. Len(v)
          BY <2>3, <4>2
        <5> HIDE DEF u, v, m
        <5>2. (u \o v)[Len(u) + m] = v[m]
          BY <5>1, SecondPart
        <5> QED BY <5>2 DEF u, v, m
      <4> QED BY <2>1, <4>1, <4>3, <1>7, <3>2
    <3>3. CASE j # i
      <4>1. j \in 1 .. i - 1
        BY <2>2, <3>3
      <4>2. E(j) <= E(i - 1)
        BY <1>2, <2>2, <4>1
      <4>3. E(j - 1) - s + k + 1 \in 1 .. Len(data[i - 1])
        <5>1. Len(data[i - 1]) = E(i - 1) - s
          BY <1>9
        <5>2. E(i - 1) - s \in Nat /\ k \in 0 .. E(j) - E(j - 1) - 1
          BY <3>1, <2>4
        <5>3. PICK b, e, g : b = E(j - 1) /\ e = E(j) /\ g = E(i - 1)
          OBVIOUS
        <5>4. b \in Nat /\ e \in Nat /\ g \in Nat /\ s <= b /\ e <= g /\ k \in 0 .. e - b - 1
          BY <5>2, <5>3, <3>1, <4>2, <2>4
        <5>5. b - s + k + 1 \in 1 .. g - s
          BY <5>4
        <5> QED BY <5>1, <5>3, <5>5
      <4>4. (data[i - 1] \o q[i])[E(j - 1) - s + k + 1] = data[i - 1][E(j - 1) - s + k + 1]
        BY <2>3, <4>3
      <4> QED BY <4>4, <4>1, <1>9, <2>1
    <3> QED BY <3>2, <3>3
  <2> QED BY <2>5, <2>6
<1>10. ASSUME Wrong # {} PROVE FALSE
  <2> HIDE DEF Right
  <2>1. Wrong \subseteq Nat
    OBVIOUS
  <2>2. PICK i \in Wrong : \A j \in Wrong : i <= j
    <3> HIDE DEF Wrong
    <3> QED BY <1>10, <2>1, LeastNatural
  <2>3. i \in 0 .. n /\ ~ Right(i) /\ i # 0
    BY <1>8
  <2>4. i \in 1 .. n /\ i - 1 \in 0 .. n /\ i - 1 \notin Wrong
    BY <2>2, <2>3, <1>1
  <2>5. Right(i - 1)
    BY <2>4
  <2> QED BY <2>3, <2>4, <2>5, <1>9
<1>11. Right(n)
  <2> HIDE DEF Right
  <2> QED BY <1>10, <1>1
<1> QED BY <1>11, <1>5 DEF E, n

-----------------------------------------------------------------------------
(***************************************************************************)
(* A proper table: where its entries are and where their data stands       *)
(***************************************************************************)

LEMMA EntriesAt ==
  ASSUME NEW t \in Seq(EntryType), Proper(t)
  PROVE  /\ Len(t) \in Nat /\ Len(t) >= 1 /\ Len(t) <= MaxEntries
         /\ \A i \in 1 .. Len(t) :
              /\ t[i].address \in Nat /\ t[i].length \in Nat /\ t[i].length > 0
              /\ \/ t[i].address + t[i].length <= PageSize
                 \/ RamStart <= t[i].address /\ t[i].address + t[i].length <= Limit
         /\ \A i, j \in 1 .. Len(t) : i < j => t[i].address + t[i].length <= t[j].address
<1>1. Len(t) \in Nat /\ Len(t) >= 1 /\ Len(t) <= MaxEntries /\ DOMAIN t = 1 .. Len(t)
  BY MapAssumption DEF Proper
<1>2. ASSUME NEW i \in 1 .. Len(t)
      PROVE  t[i].address \in Nat /\ t[i].length \in Nat /\ t[i].length > 0
  <2>1. t[i] \in EntryType
    OBVIOUS
  <2> QED BY <1>1, <2>1 DEF EntryType, Proper
<1>3. ASSUME NEW i \in 1 .. Len(t)
      PROVE  \/ t[i].address + t[i].length <= PageSize
             \/ RamStart <= t[i].address /\ t[i].address + t[i].length <= Limit
  <2>1. t[i].address \in Taken(t[i]) /\ t[i].address + t[i].length - 1 \in Taken(t[i])
    BY <1>2 DEF Taken
  <2>2. Taken(t[i]) \subseteq 0 .. PageSize - 1 \/ Taken(t[i]) \subseteq RamStart .. Limit - 1
    BY <1>1 DEF Proper
  <2> QED BY <1>2, <2>1, <2>2, MapAssumption DEF RamStart
<1>4. ASSUME NEW i \in 1 .. Len(t), NEW j \in 1 .. Len(t), i < j
      PROVE  t[i].address + t[i].length <= t[j].address
  <2>1. t[i].address + t[i].length - 1 \in Taken(t[i]) /\ t[j].address \in Taken(t[j])
    BY <1>2 DEF Taken
  <2>2. \A a \in Taken(t[i]), b \in Taken(t[j]) : a < b
    BY <1>1, <1>4 DEF Proper
  <2>3. t[i].address + t[i].length - 1 < t[j].address
    BY <2>1, <2>2
  <2> QED BY <1>2, <2>3
<1> QED BY <1>1, <1>2, <1>3, <1>4

\* Where the entries' data stands, for a table that the stream has room for.
LEMMA DataAt ==
  ASSUME NEW t \in Seq(EntryType), Proper(t), NEW s, s = HEntries + Len(t) * EntrySize
  PROVE  /\ s \in Nat /\ RamStart <= s
         /\ \A i \in 0 .. Len(t) : /\ DataEnds(t, s)[i] \in Nat
                                   /\ s <= DataEnds(t, s)[i] /\ DataEnds(t, s)[i] <= Limit
         /\ \A i, j \in 0 .. Len(t) : i <= j => DataEnds(t, s)[i] <= DataEnds(t, s)[j]
         /\ \A i \in 1 .. Len(t) :
              DataEnds(t, s)[i] = DataEnds(t, s)[i - 1] + (IF Fills(t[i]) THEN 0 ELSE t[i].length)
         /\ DataEnds(t, s)[0] = s
         /\ Len(DataOf(t)) = DataEnds(t, s)[Len(t)] - s
<1> DEFINE E(i) == DataEnds(t, s)[i]
<1>1. Len(t) \in Nat /\ Len(t) >= 1
  BY EntriesAt
<1>2. s \in Nat /\ RamStart <= s
  BY <1>1, MapAssumption DEF HEntries, Stream, RamStart, EntrySize, FixedSize
<1>3. /\ E(0) = s
      /\ \A i \in 1 .. Len(t) : E(i) = E(i - 1) + DataLength(t, i)
  BY <1>2, EndsStep
<1>4. \A i \in 0 .. Len(t) : E(i) \in Nat /\ \A j \in 0 .. i : E(j) <= E(i)
  BY <1>2, EndsGrow
<1>5. Len(DataOf(t)) = E(Len(t)) - s
  BY <1>2, DataStands
<1>6. E(Len(t)) <= Limit
  <2>1. s + Len(DataOf(t)) <= Limit
    BY DEF Proper
  <2>2. E(Len(t)) \in Nat
    BY <1>1, <1>4
  <2> HIDE DEF E
  <2> QED BY <1>2, <1>5, <2>1, <2>2
<1> HIDE DEF E
<1>7. ASSUME NEW i \in 0 .. Len(t), NEW j \in 0 .. Len(t), i <= j PROVE E(i) <= E(j)
  <2>1. i \in 0 .. j
    BY <1>7
  <2> QED BY <1>4, <2>1
<1>8. ASSUME NEW i \in 0 .. Len(t) PROVE E(i) \in Nat /\ s <= E(i) /\ E(i) <= Limit
  <2>1. E(i) \in Nat
    BY <1>4
  <2>2. E(0) <= E(i) /\ E(i) <= E(Len(t))
    BY <1>7, <1>1
  <2>3. E(Len(t)) \in Nat
    BY <1>4, <1>1
  <2> QED BY <1>2, <1>3, <1>6, <2>1, <2>2, <2>3, MapAssumption
<1> QED BY <1>2, <1>3, <1>5, <1>7, <1>8 DEF E, DataLength

-----------------------------------------------------------------------------
(***************************************************************************)
(* The invariant: every byte of an entry is where it belongs, or is still  *)
(* to be moved there and stands where the stream brought it.               *)
(***************************************************************************)

\* Where the data of the entries up to i ends in the stream.
EndOf(i) == DataEnds(table, dataStart)[i]

\* Entries that move down, zero page among them, and those that move up or stay.
Falls(i) == ~ Fills(table[i]) /\ table[i].address < EndOf(i - 1)
Rises(i) == ~ Fills(table[i]) /\ EndOf(i - 1) <= table[i].address

Passes == {"down", "up", "fill"}
Placing == Passes \cup {"unstash", "run"}

\* How many bytes of entry i are copied, when it is the one that the copy is about.
Copied(i) == table[i].length - job.length

\* Byte k of entry i is where it belongs.
Handled(i, k) ==
  \/ phase = "down" /\ Falls(i) /\ i < entry /\ (i = entry - 1 => k < Copied(i))
  \/ phase = "up" /\ Falls(i)
  \/ phase = "up" /\ Rises(i) /\ entry < i /\ (i = entry + 1 => job.length <= k)
  \/ phase = "fill" /\ ~ Fills(table[i])
  \/ phase = "fill" /\ Fills(table[i]) /\ i < entry /\ (i = entry - 1 => k < Copied(i))
  \/ phase \in {"unstash", "run"}

Want(i, k) == IF Fills(table[i]) THEN Zero ELSE Cell(i, k)

\* What will be at address a when the upload runs, as far as it is known.
Now(a) == IF a \in Owned /\ phase # "run" THEN stash[a] ELSE mem[a]

TableInv ==
  /\ table \in Seq(EntryType) /\ Proper(table)
  /\ dataStart = HEntries + Len(table) * EntrySize
  /\ dataEnd = EndOf(Len(table))

\* The copy under way: down and fill from the bottom, up from the top.
CopyInv ==
  job.length > 0 =>
    \/ LET i == entry - 1 IN
       /\ phase = "down" /\ i \in 1 .. Len(table) /\ Falls(i) /\ job.length <= table[i].length
       /\ job.how = IF InZeroPage(table[i]) THEN "page" ELSE "down"
       /\ job.from = EndOf(i - 1) + Copied(i) /\ job.to = table[i].address + Copied(i)
    \/ LET i == entry + 1 IN
       /\ phase = "up" /\ i \in 1 .. Len(table) /\ Rises(i) /\ job.length <= table[i].length
       /\ EndOf(i - 1) < table[i].address
       /\ job.how = "up" /\ job.from = EndOf(i - 1) /\ job.to = table[i].address
    \/ LET i == entry - 1 IN
       /\ phase = "fill" /\ i \in 1 .. Len(table) /\ Fills(table[i]) /\ job.length <= table[i].length
       /\ job.how = IF InZeroPage(table[i]) THEN "clear_page" ELSE "clear"
       /\ job.to = table[i].address + Copied(i)

Hows == {"none", "page", "down", "up", "clear", "clear_page"}
Jobs == [how : Hows, from : Nat, to : Nat, length : Nat]

PassInv ==
  /\ phase \in Placing
  /\ job \in Jobs
  /\ source \in Nat
  /\ phase = "down" => entry \in 1 .. Len(table) + 1 /\ source = EndOf(entry - 1)
  /\ phase = "up" => entry \in 0 .. Len(table) /\ source = EndOf(entry)
  /\ phase = "fill" => entry \in 1 .. Len(table) + 1
  /\ CopyInv

MemoryInv ==
  /\ DOMAIN mem = Addresses /\ DOMAIN stash = Owned
  /\ mem[HStart] = StartAt
  /\ phase # "run" => \A a \in Owned : mem[a] = Loader
  /\ \A a \in Owned : (\A i \in 1 .. Len(table) : a \notin Taken(table[i])) => Now(a) = Zero

BytesInv ==
  \A i \in 1 .. Len(table) : \A k \in 0 .. table[i].length - 1 :
    IF Handled(i, k)
      THEN Now(table[i].address + k) = Want(i, k)
      ELSE ~ Fills(table[i]) => mem[EndOf(i - 1) + k] = Cell(i, k)

PlaceInv == TableInv /\ PassInv /\ MemoryInv /\ BytesInv

LEMMA Layout ==
  ASSUME TableInv
  PROVE  /\ Len(table) \in Nat /\ Len(table) >= 1 /\ Len(table) <= MaxEntries
         /\ \A i \in 1 .. Len(table) :
              /\ table[i].address \in Nat /\ table[i].length \in Nat /\ table[i].length > 0
              /\ \/ table[i].address + table[i].length <= PageSize
                 \/ RamStart <= table[i].address /\ table[i].address + table[i].length <= Limit
         /\ \A i, j \in 1 .. Len(table) : i < j => table[i].address + table[i].length <= table[j].address
         /\ dataStart \in Nat /\ RamStart <= dataStart
         /\ \A i \in 0 .. Len(table) : EndOf(i) \in Nat /\ dataStart <= EndOf(i) /\ EndOf(i) <= Limit
         /\ \A i, j \in 0 .. Len(table) : i <= j => EndOf(i) <= EndOf(j)
         /\ \A i \in 1 .. Len(table) : EndOf(i) = EndOf(i - 1) + (IF Fills(table[i]) THEN 0 ELSE table[i].length)
         /\ EndOf(0) = dataStart
BY EntriesAt, DataAt DEF TableInv, EndOf

LEMMA EntryPlace ==
  ASSUME TableInv, NEW i \in 1 .. Len(table)
  PROVE  /\ i - 1 \in 0 .. Len(table) /\ i \in 0 .. Len(table)
         /\ table[i].address \in Nat /\ table[i].length \in Nat
         /\ EndOf(i - 1) \in Nat /\ EndOf(i) \in Nat /\ EndOf(i) <= Limit
         /\ ~ Fills(table[i]) => EndOf(i) = EndOf(i - 1) + table[i].length
<1>1. i - 1 \in 0 .. Len(table) /\ i \in 0 .. Len(table)
  BY Layout
<1>2. table[i].address \in Nat /\ table[i].length \in Nat
  BY Layout
<1>3. EndOf(i - 1) \in Nat /\ EndOf(i) \in Nat /\ EndOf(i) <= Limit
  BY <1>1, Layout
<1>4. ~ Fills(table[i]) => EndOf(i) = EndOf(i - 1) + table[i].length
  BY Layout
<1> QED BY <1>1, <1>2, <1>3, <1>4

LEMMA MapFacts ==
  /\ PageSize \in Nat /\ Limit \in Nat /\ RamStart = 2 * PageSize /\ RamStart < Limit
  /\ HStart \in Nat /\ PageSize < HStart /\ HStart < RamStart
  /\ \A a \in Owned : a \in Nat /\ a < PageSize
  /\ \A a : a \in Addresses <=> a \in Nat /\ a < Limit
BY MapAssumption DEF RamStart, HStart, Stream, FixedSize, EntrySize, Addresses

\* An entry's bytes are in memory, apart from those of the others.
LEMMA BytesApart ==
  ASSUME TableInv,
         NEW i \in 1 .. Len(table), NEW k \in 0 .. table[i].length - 1
  PROVE  /\ table[i].address + k \in Addresses /\ table[i].address + k # HStart
         /\ table[i].address + k \in Taken(table[i])
         /\ \A j \in 1 .. Len(table) : \A m \in 0 .. table[j].length - 1 :
              table[j].address + m = table[i].address + k => j = i /\ m = k
<1>1. table[i].address \in Nat /\ table[i].length \in Nat
  BY Layout
<1>2. table[i].address + k \in Addresses /\ table[i].address + k # HStart
  <2> DEFINE w == table[i].address + k
  <2>1. w \in Nat /\ (w < PageSize \/ (RamStart <= w /\ w < Limit))
    <3>1. \/ table[i].address + table[i].length <= PageSize
          \/ RamStart <= table[i].address /\ table[i].address + table[i].length <= Limit
      BY Layout
    <3>2. PageSize \in Nat /\ RamStart \in Nat /\ Limit \in Nat
      BY MapFacts
    <3> DEFINE a == table[i].address
               l == table[i].length
    <3>3. a \in Nat /\ l \in Nat
      BY <1>1
    <3>5. k \in 0 .. l - 1
      OBVIOUS
    <3>6. a + l <= PageSize \/ (RamStart <= a /\ a + l <= Limit)
      BY <3>1
    <3> HIDE DEF a, l
    <3>4. a + k \in Nat /\ (a + k < PageSize \/ (RamStart <= a + k /\ a + k < Limit))
      BY <3>2, <3>3, <3>5, <3>6
    <3> QED BY <3>4 DEF a
  <2> HIDE DEF w
  <2>2. w < Limit /\ w # HStart
    BY <2>1, MapFacts
  <2> QED BY <2>1, <2>2, MapFacts DEF w
<1>3. table[i].address + k \in Taken(table[i])
  BY <1>1 DEF Taken
<1>4. ASSUME NEW j \in 1 .. Len(table), NEW m \in 0 .. table[j].length - 1,
             table[j].address + m = table[i].address + k
      PROVE  j = i /\ m = k
  <2>1. table[j].address \in Nat /\ table[j].length \in Nat
    BY Layout
  <2>2. ~ (j < i)
    <3> SUFFICES ASSUME j < i PROVE FALSE
      OBVIOUS
    <3>1. table[j].address + table[j].length <= table[i].address
      BY Layout
    <3> QED BY <1>1, <2>1, <3>1, <1>4
  <2>3. ~ (i < j)
    <3> SUFFICES ASSUME i < j PROVE FALSE
      OBVIOUS
    <3>1. table[i].address + table[i].length <= table[j].address
      BY Layout
    <3> QED BY <1>1, <2>1, <3>1, <1>4, SMTT(30)
  <2>4. j = i
    BY <2>2, <2>3, Layout
  <2> QED BY <2>4, <1>1, <1>4
<1> QED BY <1>2, <1>3, <1>4

\* One more byte is put where it belongs, over none that is still to be moved.
LEMMA OneByte ==
  ASSUME TableInv, MemoryInv, BytesInv, phase \in Passes, phase' = phase,
         UNCHANGED <<table, dataStart, dataEnd>>,
         NEW i \in 1 .. Len(table), NEW k \in 0 .. table[i].length - 1,
         StoreZeroPage(table[i].address + k, Want(i, k)),
         ~ Handled(i, k), Handled(i, k)',
         \A j \in 1 .. Len(table) : \A m \in 0 .. table[j].length - 1 :
           ~ (j = i /\ m = k) => (Handled(j, m)' <=> Handled(j, m)),
         \A j \in 1 .. Len(table) : \A m \in 0 .. table[j].length - 1 :
           ~ Handled(j, m)' /\ ~ Fills(table[j]) => EndOf(j - 1) + m # table[i].address + k
  PROVE  MemoryInv' /\ BytesInv'
<1>0. PICK w : w = table[i].address + k
  OBVIOUS
<1>1. w \in Addresses /\ w # HStart /\ w \in Taken(table[i])
  BY <1>0, BytesApart
<1>2. \A a : a \in Owned => a \in Addresses
  BY MapFacts
<1>3. phase # "run" /\ phase' # "run"
  BY DEF Passes
<1>4. /\ DOMAIN mem' = Addresses /\ DOMAIN stash' = Owned
      /\ Now(w)' = Want(i, k)
      /\ \A a \in Addresses : a # w => Now(a)' = Now(a) /\ mem'[a] = mem[a]
      /\ \A a \in Owned : mem'[a] = mem[a]
  <2>1. CASE w \in Owned
    <3>1. stash' = [stash EXCEPT ![w] = Want(i, k)] /\ mem' = mem
      BY <1>0, <2>1 DEF StoreZeroPage
    <3>2. DOMAIN mem = Addresses /\ DOMAIN stash = Owned
      BY DEF MemoryInv
    <3>3. \A a : Now(a) = (IF a \in Owned THEN stash[a] ELSE mem[a]) /\ Now(a)' = (IF a \in Owned THEN stash'[a] ELSE mem'[a])
      BY <1>3 DEF Now
    <3>4. DOMAIN stash' = Owned /\ stash'[w] = Want(i, k) /\ \A a \in Owned : a # w => stash'[a] = stash[a]
      BY <2>1, <3>1, <3>2
    <3> QED BY <2>1, <3>1, <3>2, <3>3, <3>4
  <2>2. CASE w \notin Owned
    <3>1. mem' = [mem EXCEPT ![w] = Want(i, k)] /\ stash' = stash
      BY <1>0, <2>2 DEF StoreZeroPage, Put
    <3>0. w \in Addresses
      BY <1>1
    <3>2. DOMAIN mem = Addresses /\ DOMAIN stash = Owned
      BY DEF MemoryInv
    <3>3. \A a : Now(a) = (IF a \in Owned THEN stash[a] ELSE mem[a]) /\ Now(a)' = (IF a \in Owned THEN stash'[a] ELSE mem'[a])
      BY <1>3 DEF Now
    <3>4. DOMAIN mem' = Addresses /\ mem'[w] = Want(i, k) /\ \A a \in Addresses : a # w => mem'[a] = mem[a]
      BY <3>0, <3>1, <3>2
    <3> QED BY <1>2, <2>2, <3>1, <3>2, <3>3, <3>4
  <2> QED BY <2>1, <2>2
<1>5. MemoryInv'
  <2>1. HStart \in Addresses
    BY MapFacts
  <2>2. mem'[HStart] = StartAt
    BY <1>1, <1>4, <2>1 DEF MemoryInv
  <2>3. \A a \in Owned : mem'[a] = Loader
    BY <1>3, <1>4 DEF MemoryInv
  <2>4. ASSUME NEW a \in Owned, \A j \in 1 .. Len(table) : a \notin Taken(table[j])
        PROVE  Now(a)' = Zero
    <3>1. a # w
      BY <1>1, <2>4
    <3>2. a \in Addresses
      BY <1>2
    <3> QED BY <1>4, <2>4, <3>1, <3>2 DEF MemoryInv
  <2>5. table' = table
    OBVIOUS
  <2> QED BY <1>4, <2>2, <2>3, <2>4, <2>5 DEF MemoryInv
<1>6. BytesInv'
  <2>1. table' = table /\ dataStart' = dataStart /\ \A j : EndOf(j)' = EndOf(j) /\ \A m : Want(j, m)' = Want(j, m)
    BY DEF EndOf, Want
  <2>2. ASSUME NEW j \in 1 .. Len(table), NEW m \in 0 .. table[j].length - 1
        PROVE  IF Handled(j, m)'
                 THEN \A x : x = table[j].address + m => Now(x)' = Want(j, m)
                 ELSE ~ Fills(table[j]) => mem'[EndOf(j - 1) + m] = Cell(j, m)
    <3>1. CASE j = i /\ m = k
      BY <3>1, <1>0, <1>4
    <3>2. CASE ~ (j = i /\ m = k) /\ Handled(j, m)'
      <4>1. Handled(j, m) /\ Now(table[j].address + m) = Want(j, m)
        BY <3>2 DEF BytesInv
      <4>2. table[j].address + m # w
        BY <3>2, <1>0, BytesApart
      <4>3. table[j].address + m \in Addresses
        BY BytesApart
      <4> QED BY <3>2, <4>1, <4>2, <4>3, <1>4
    <3>3. CASE ~ Handled(j, m)' /\ ~ Fills(table[j])
      <4>1. ~ (j = i /\ m = k)
        BY <3>3
      <4>2. mem[EndOf(j - 1) + m] = Cell(j, m)
        BY <3>3, <4>1 DEF BytesInv
      <4>3. EndOf(j - 1) + m # w
        BY <1>0, <3>3
      <4>4. EndOf(j - 1) + m \in Addresses
        <5>1. /\ EndOf(j - 1) \in Nat /\ table[j].length \in Nat
              /\ EndOf(j) = EndOf(j - 1) + table[j].length /\ EndOf(j) <= Limit
          BY <3>3, EntryPlace
        <5>2. EndOf(j - 1) + m \in Nat /\ EndOf(j - 1) + m < Limit
          BY <5>1, <3>3, MapFacts
        <5> QED BY <5>2, MapFacts
      <4> QED BY <3>3, <4>2, <4>3, <4>4, <1>4
    <3> QED BY <3>1, <3>2, <3>3
  <2>3. ASSUME NEW j \in 1 .. Len(table), NEW m \in 0 .. table[j].length - 1
        PROVE  (table[j].address + m)' = table[j].address + m /\ (EndOf(j - 1) + m)' = EndOf(j - 1) + m
    BY <2>1
  <2> QED BY <2>1, <2>2, <2>3 DEF BytesInv
<1> QED BY <1>5, <1>6

-----------------------------------------------------------------------------
(***************************************************************************)
(* A byte is copied                                                        *)
(***************************************************************************)

\* A byte that is stored in RAM is stored like one in zero page that the loader does
\* not use.
LEMMA RamIsNotOwned ==
  ASSUME TableInv, NEW i \in 1 .. Len(table), NEW k \in 0 .. table[i].length - 1, ~ InZeroPage(table[i])
  PROVE  table[i].address + k \notin Owned
<1>1. table[i].address \in Nat /\ table[i].length \in Nat /\ ~ (table[i].address < PageSize)
  BY Layout DEF InZeroPage
<1>2. ~ (table[i].address + k < PageSize)
  BY <1>1, MapFacts
<1> QED BY <1>2, MapFacts

LEMMA JobMovesOn ==
  ASSUME job \in Jobs, job.length > 0, job' = [job EXCEPT !.from = @ + 1, !.to = @ + 1, !.length = @ - 1]
  PROVE  /\ job' \in Jobs
         /\ job'.length = job.length - 1 /\ job'.from = job.from + 1 /\ job'.to = job.to + 1 /\ job'.how = job.how
<1>1. job'.length = job.length - 1 /\ job'.from = job.from + 1 /\ job'.to = job.to + 1 /\ job'.how = job.how
  BY DEF Jobs
<1>2. job.length - 1 \in Nat /\ job.from + 1 \in Nat /\ job.to + 1 \in Nat
  <2>1. PICK n : n = job.length
    OBVIOUS
  <2>2. n \in Nat /\ n > 0
    BY <2>1 DEF Jobs
  <2>3. n - 1 \in Nat
    BY <2>2
  <2>4. job.from \in Nat /\ job.to \in Nat
    BY DEF Jobs
  <2> QED BY <2>1, <2>3, <2>4
<1>3. job' = [how |-> job.how, from |-> job.from + 1, to |-> job.to + 1, length |-> job.length - 1]
  BY DEF Jobs
<1>4. job.how \in Hows
  BY DEF Jobs
<1>5. job' \in Jobs
  BY <1>2, <1>3, <1>4 DEF Jobs
<1> QED BY <1>1, <1>5

LEMMA PassEntry ==
  ASSUME PassInv, phase \in Passes
  PROVE  entry \in Nat
BY DEF PassInv, Passes

\* The pass down, and zero page: from the bottom up.
LEMMA CopyDownStep ==
  ASSUME PlaceInv, phase = "down", CopyRam \/ CopyPage
  PROVE  PlaceInv'
<1>0. PICK i : i = entry - 1
  OBVIOUS
<1>1. /\ job.length > 0 /\ job \in Jobs
      /\ i \in 1 .. Len(table) /\ Falls(i) /\ job.length <= table[i].length
      /\ job.how = (IF InZeroPage(table[i]) THEN "page" ELSE "down")
      /\ job.from = EndOf(i - 1) + Copied(i) /\ job.to = table[i].address + Copied(i)
  BY <1>0 DEF CopyRam, CopyPage, PlaceInv, PassInv, CopyInv
<1>2. UNCHANGED <<phase, table, dataStart, dataEnd, source, entry>>
  BY DEF CopyRam, CopyPage
<1>3. TableInv /\ MemoryInv /\ BytesInv
  BY DEF PlaceInv
<1>4. /\ table[i].address \in Nat /\ table[i].length \in Nat
      /\ job.length \in Nat /\ job.from \in Nat /\ job.to \in Nat
  BY <1>1, <1>3, Layout DEF Jobs
<1>5. PICK k : k = Copied(i)
  OBVIOUS
<1>6. k \in 0 .. table[i].length - 1
  BY <1>1, <1>4, <1>5 DEF Copied
<1>7. /\ Falls(i)' = Falls(i) /\ \A j : EndOf(j)' = EndOf(j) /\ Falls(j)' = Falls(j) /\ Rises(j)' = Rises(j)
      /\ InZeroPage(table[i])' = InZeroPage(table[i])
  BY <1>2 DEF Falls, Rises, EndOf, Fills, InZeroPage
<1>8. /\ \A j, m : Handled(j, m) <=> Falls(j) /\ j < entry /\ (j = entry - 1 => m < Copied(j))
      /\ \A j, m : Handled(j, m)' <=> Falls(j) /\ j < entry /\ (j = entry - 1 => m < Copied(j)')
  BY <1>2, <1>7 DEF Handled
<1>9. job' = [job EXCEPT !.from = @ + 1, !.to = @ + 1, !.length = @ - 1]
  BY <1>1 DEF CopyRam, CopyPage
<1>10. /\ job' \in Jobs /\ job'.length = job.length - 1 /\ job'.from = job.from + 1 /\ job'.to = job.to + 1
       /\ job'.how = job.how /\ Copied(i)' = k + 1
  <2>1. job' \in Jobs /\ job'.length = job.length - 1 /\ job'.from = job.from + 1 /\ job'.to = job.to + 1 /\ job'.how = job.how
    <3> HIDE DEF Handled
    <3> QED BY <1>1, <1>4, <1>9, JobMovesOn
  <2>2. PICK l, n : l = table[i].length /\ n = job.length
    OBVIOUS
  <2>3. l \in Nat /\ n \in Nat /\ k = l - n
    BY <1>4, <1>5, <2>2 DEF Copied
  <2>4. Copied(i)' = l - (n - 1)
    BY <1>2, <2>1, <2>2 DEF Copied
  <2> QED BY <2>1, <2>3, <2>4
<1>11. ~ Handled(i, k) /\ Handled(i, k)'
  <2>1. ~ (k < Copied(i)) /\ k < Copied(i)' /\ i < entry
    <3>1. entry \in Nat /\ k \in Nat
      BY <1>6, PassEntry DEF PlaceInv, Passes
    <3>2. i < entry /\ k < k + 1 /\ ~ (k < k)
      BY <1>0, <3>1
    <3> QED BY <1>5, <1>10, <3>2
  <2> QED BY <1>0, <1>1, <1>8, <2>1
<1>12. mem[job.from] = Want(i, k)
  BY <1>1, <1>3, <1>5, <1>6, <1>11 DEF BytesInv, Falls, Want
<1>13. StoreZeroPage(table[i].address + k, Want(i, k))
  <2>1. CASE InZeroPage(table[i])
    BY <2>1, <1>1, <1>5, <1>12 DEF CopyRam, CopyPage
  <2>2. CASE ~ InZeroPage(table[i])
    <3>1. Put(table[i].address + k, Want(i, k))
      BY <2>2, <1>1, <1>5, <1>12 DEF CopyRam, CopyPage
    <3>2. table[i].address + k \notin Owned
      BY <2>2, <1>1, <1>3, <1>6, RamIsNotOwned
    <3> QED BY <3>1, <3>2 DEF StoreZeroPage
  <2> QED BY <2>1, <2>2
<1>14. ASSUME NEW j \in 1 .. Len(table), NEW m \in 0 .. table[j].length - 1, ~ (j = i /\ m = k)
       PROVE  Handled(j, m)' <=> Handled(j, m)
  <2>1. j # i => Copied(j)' = Copied(j) \/ j # entry - 1
    BY <1>0
  <2>2. table[j].length \in Nat
    BY <1>3, Layout
  <2>3. j = i => (m < k + 1 <=> m < k)
    BY <1>6, <1>14, <2>2
  <2> QED BY <1>0, <1>5, <1>8, <1>10, <2>3
<1>15. ASSUME NEW j \in 1 .. Len(table), NEW m \in 0 .. table[j].length - 1, ~ Handled(j, m)', ~ Fills(table[j])
       PROVE  EndOf(j - 1) + m # table[i].address + k
  <2>1. PICK a, l, b, n : a = table[i].address /\ l = table[i].length /\ b = table[j].address /\ n = table[j].length
    OBVIOUS
  <2>2. /\ a \in Nat /\ l \in Nat /\ b \in Nat /\ n \in Nat /\ k \in 0 .. l - 1 /\ m \in 0 .. n - 1
        /\ i \in Nat /\ j \in Nat
        /\ EndOf(j - 1) \in Nat /\ EndOf(i - 1) \in Nat /\ a < EndOf(i - 1) /\ EndOf(i) = EndOf(i - 1) + l
    <3>1. table[j].address \in Nat /\ table[j].length \in Nat /\ Len(table) \in Nat /\ EndOf(j - 1) \in Nat /\ EndOf(i - 1) \in Nat
      <4>1. Len(table) \in Nat
        BY <1>3, Layout
      <4> QED BY <1>1, <1>3, <4>1, EntryPlace
    <3>2. table[i].address < EndOf(i - 1) /\ EndOf(i) = EndOf(i - 1) + table[i].length
      BY <1>1, <1>3, Layout DEF Falls
    <3> QED BY <1>1, <1>4, <1>6, <2>1, <3>1, <3>2
  <2> SUFFICES EndOf(j - 1) + m # a + k
    BY <2>1
  <2>3. CASE j = i
    <3>1. ~ (m < k + 1)
      BY <2>3, <1>0, <1>1, <1>8, <1>10, <1>15, PassEntry DEF PlaceInv, Passes
    <3>2. PICK e : e = EndOf(i - 1) /\ e = EndOf(j - 1)
      BY <2>3
    <3>3. e + m # a + k
      BY <2>2, <3>1, <3>2
    <3> QED BY <3>2, <3>3
  <2>4. CASE i < j
    <3>1. EndOf(i) <= EndOf(j - 1)
      BY <2>2, <2>4, <1>1, <1>3, Layout
    <3> QED BY <2>2, <3>1
  <2>5. CASE j < i
    <3>1. ~ Falls(j)
      BY <2>2, <2>5, <1>0, <1>8, <1>15, PassEntry DEF PlaceInv, Passes
    <3>2. EndOf(j - 1) <= b
      <4>1. ~ (b < EndOf(j - 1))
        BY <3>1, <2>1, <1>15 DEF Falls
      <4> QED BY <4>1, <2>2
    <3>3. b + n <= a
      BY <2>1, <2>5, <1>1, <1>3, Layout
    <3> QED BY <2>2, <3>2, <3>3
  <2> QED BY <2>2, <2>3, <2>4, <2>5
<1>16. MemoryInv' /\ BytesInv'
  <2>1. phase \in Passes
    BY DEF Passes
  <2> QED BY <2>1, <1>1, <1>2, <1>3, <1>6, <1>11, <1>13, <1>14, <1>15, OneByte
<1>17. TableInv'
  BY <1>2, <1>3 DEF TableInv, EndOf
<1>18. PassInv'
  <2>1. i = entry' - 1 /\ phase' = "down" /\ Copied(i)' = Copied(i) + 1
    BY <1>0, <1>2, <1>5, <1>10
  <2>2. CopyInv'
    <3>1. job'.length <= table[i].length
      BY <1>1, <1>4, <1>10
    <3>2. job'.from = EndOf(i - 1) + Copied(i)' /\ job'.to = table[i].address + Copied(i)'
      <4>1. PICK a, f, to : a = table[i].address /\ f = job.from /\ to = job.to
        OBVIOUS
      <4>2. a \in Nat /\ EndOf(i - 1) \in Nat /\ k \in Nat /\ f = EndOf(i - 1) + k /\ to = a + k
        BY <1>1, <1>3, <1>4, <1>5, <1>6, <4>1, Layout
      <4>3. f + 1 = EndOf(i - 1) + (k + 1) /\ to + 1 = a + (k + 1)
        BY <4>2
      <4> QED BY <4>1, <4>3, <1>10
    <3> QED BY <1>1, <1>2, <1>7, <1>10, <2>1, <3>1, <3>2 DEF CopyInv
  <2> QED BY <1>2, <1>7, <1>10, <2>1, <2>2 DEF PassInv, PlaceInv
<1> QED BY <1>16, <1>17, <1>18 DEF PlaceInv

\* The pass up: from the top down.
LEMMA CopyUpStep ==
  ASSUME PlaceInv, phase = "up", CopyRam \/ CopyPage
  PROVE  PlaceInv'
<1>0. PICK i : i = entry + 1
  OBVIOUS
<1>1. /\ job.length > 0 /\ job \in Jobs
      /\ i \in 1 .. Len(table) /\ Rises(i) /\ job.length <= table[i].length
      /\ EndOf(i - 1) < table[i].address
      /\ job.how = "up" /\ job.from = EndOf(i - 1) /\ job.to = table[i].address
  BY <1>0 DEF CopyRam, CopyPage, PlaceInv, PassInv, CopyInv
<1>2. UNCHANGED <<phase, table, dataStart, dataEnd, source, entry>>
  BY DEF CopyRam, CopyPage
<1>3. TableInv /\ MemoryInv /\ BytesInv
  BY DEF PlaceInv
<1>4. /\ table[i].address \in Nat /\ table[i].length \in Nat
      /\ job.length \in Nat /\ job.from \in Nat /\ job.to \in Nat
  BY <1>1, <1>3, Layout DEF Jobs
<1>5. PICK k : k = job.length - 1
  OBVIOUS
<1>6. k \in 0 .. table[i].length - 1 /\ job.length = k + 1
  <2>1. PICK l, n : l = table[i].length /\ n = job.length
    OBVIOUS
  <2>2. l \in Nat /\ n \in Nat /\ n > 0 /\ n <= l /\ k = n - 1
    BY <1>1, <1>4, <1>5, <2>1
  <2>3. k \in 0 .. l - 1 /\ n = k + 1
    BY <2>2
  <2> QED BY <2>1, <2>3
<1>7. \A j : EndOf(j)' = EndOf(j) /\ Falls(j)' = Falls(j) /\ Rises(j)' = Rises(j)
  BY <1>2 DEF Falls, Rises, EndOf, Fills
<1>8. /\ \A j, m : Handled(j, m) <=> Falls(j) \/ (Rises(j) /\ entry < j /\ (j = entry + 1 => k + 1 <= m))
      /\ job'.length = k =>
           \A j, m : Handled(j, m)' <=> Falls(j) \/ (Rises(j) /\ entry < j /\ (j = entry + 1 => k <= m))
  BY <1>2, <1>6, <1>7 DEF Handled
<1>9. job' = [job EXCEPT !.length = @ - 1]
  BY <1>1 DEF CopyRam, CopyPage
<1>10. /\ job' \in Jobs /\ job'.length = k
       /\ job'.from = job.from /\ job'.to = job.to /\ job'.how = job.how
  <2>1. k \in Nat
    BY <1>6
  <2>2. job' = [job EXCEPT !.length = k]
    BY <1>5, <1>9
  <2> QED BY <1>1, <2>1, <2>2 DEF Jobs
<1>11. entry \in Nat /\ ~ Falls(i)
  <2>1. ~ Falls(i)
    BY <1>1, <1>3, <1>4, Layout DEF Falls, Rises
  <2> QED BY <2>1, PassEntry DEF PlaceInv, Passes
<1>12. ~ Handled(i, k) /\ Handled(i, k)'
  <2>1. k \in Nat
    BY <1>6
  <2>2. ~ (k + 1 <= k) /\ k <= k /\ entry < i
    BY <2>1, <1>0, <1>11
  <2> QED BY <1>0, <1>1, <1>8, <1>10, <1>11, <2>2
<1>13. StoreZeroPage(table[i].address + k, Want(i, k))
  <2>1. mem[EndOf(i - 1) + k] = Want(i, k)
    BY <1>1, <1>3, <1>6, <1>12 DEF BytesInv, Rises, Want
  <2>2. job.from + job.length - 1 = EndOf(i - 1) + k /\ job.to + job.length - 1 = table[i].address + k
    <3>1. PICK f, to, n : f = job.from /\ to = job.to /\ n = job.length
      OBVIOUS
    <3>2. f \in Nat /\ to \in Nat /\ k \in Nat /\ n = k + 1
      BY <1>4, <1>6, <3>1
    <3>3. f + n - 1 = f + k /\ to + n - 1 = to + k
      BY <3>2
    <3> QED BY <1>1, <3>1, <3>3
  <2>3. Put(table[i].address + k, Want(i, k))
    BY <1>1, <2>1, <2>2 DEF CopyRam, CopyPage
  <2>4. ~ InZeroPage(table[i])
    <3>1. PICK a : a = table[i].address
      OBVIOUS
    <3>2. EndOf(i - 1) \in Nat /\ RamStart <= EndOf(i - 1)
      <4>1. i - 1 \in 0 .. Len(table)
        BY <1>1, <1>3, Layout
      <4>2. EndOf(i - 1) \in Nat /\ dataStart \in Nat /\ RamStart <= dataStart /\ dataStart <= EndOf(i - 1)
        BY <1>3, <4>1, Layout
      <4> QED BY <4>2, MapFacts
    <3>3. a \in Nat /\ EndOf(i - 1) < a
      BY <1>1, <1>4, <3>1
    <3>4. ~ (a < PageSize)
      BY <3>2, <3>3, MapFacts
    <3> QED BY <3>1, <3>4 DEF InZeroPage
  <2>5. table[i].address + k \notin Owned
    BY <2>4, <1>1, <1>3, <1>6, RamIsNotOwned
  <2> QED BY <2>3, <2>5 DEF StoreZeroPage
<1>14. ASSUME NEW j \in 1 .. Len(table), NEW m \in 0 .. table[j].length - 1, ~ (j = i /\ m = k)
       PROVE  Handled(j, m)' <=> Handled(j, m)
  <2>1. table[j].length \in Nat
    BY <1>3, Layout
  <2>2. m \in Nat /\ k \in Nat
    BY <2>1, <1>6
  <2>3. j = i => (k <= m <=> k + 1 <= m)
    BY <1>14, <2>2
  <2> QED BY <1>0, <1>8, <1>10, <2>3
<1>15. ASSUME NEW j \in 1 .. Len(table), NEW m \in 0 .. table[j].length - 1, ~ Handled(j, m)', ~ Fills(table[j])
       PROVE  EndOf(j - 1) + m # table[i].address + k
  <2>1. PICK a, l, b, n : a = table[i].address /\ l = table[i].length /\ b = table[j].address /\ n = table[j].length
    OBVIOUS
  <2>2. /\ a \in Nat /\ l \in Nat /\ b \in Nat /\ n \in Nat /\ k \in 0 .. l - 1 /\ m \in 0 .. n - 1
        /\ i \in Nat /\ j \in Nat
        /\ EndOf(j - 1) \in Nat /\ EndOf(i - 1) \in Nat /\ EndOf(j) \in Nat
        /\ EndOf(i - 1) < a /\ EndOf(j) = EndOf(j - 1) + n
    <3>1. /\ table[j].address \in Nat /\ table[j].length \in Nat /\ Len(table) \in Nat
          /\ EndOf(j - 1) \in Nat /\ EndOf(i - 1) \in Nat /\ EndOf(j) \in Nat
      <4>1. Len(table) \in Nat
        BY <1>3, Layout
      <4> QED BY <1>1, <1>3, <4>1, EntryPlace
    <3>2. EndOf(j) = EndOf(j - 1) + table[j].length
      BY <1>3, <1>15, EntryPlace
    <3> QED BY <1>1, <1>4, <1>6, <2>1, <3>1, <3>2
  <2> SUFFICES EndOf(j - 1) + m # a + k
    BY <2>1
  <2>3. ~ Falls(j) /\ ~ (Rises(j) /\ entry < j /\ (j = i => k <= m))
    BY <1>0, <1>8, <1>10, <1>15
  <2>4. Rises(j)
    <3>1. ~ (b < EndOf(j - 1))
      BY <2>3, <2>1, <1>15 DEF Falls
    <3>2. EndOf(j - 1) <= b
      BY <3>1, <2>2
    <3> QED BY <3>2, <2>1, <1>15 DEF Rises
  <2>5. (j = i /\ ~ (k <= m)) \/ j < i
    BY <2>2, <2>3, <2>4, <1>0, <1>11
  <2>6. CASE j = i /\ ~ (k <= m)
    BY <2>2, <2>6
  <2>7. CASE j < i
    <3>1. EndOf(j) <= EndOf(i - 1)
      BY <2>2, <2>7, <1>1, <1>3, Layout
    <3> QED BY <2>2, <3>1
  <2> QED BY <2>5, <2>6, <2>7
<1>16. MemoryInv' /\ BytesInv'
  <2>1. phase \in Passes
    BY DEF Passes
  <2> QED BY <2>1, <1>1, <1>2, <1>3, <1>6, <1>12, <1>13, <1>14, <1>15, OneByte
<1>17. TableInv'
  BY <1>2, <1>3 DEF TableInv, EndOf
<1>18. PassInv'
  <2>1. i = entry' + 1 /\ phase' = "up"
    BY <1>0, <1>2
  <2>2. CopyInv'
    <3>1. job'.length <= table[i].length
      <4>1. PICK l : l = table[i].length
        OBVIOUS
      <4>2. k <= l
        BY <1>4, <1>6, <4>1
      <4> QED BY <4>1, <4>2, <1>10
    <3> QED BY <1>1, <1>2, <1>7, <1>10, <2>1, <3>1 DEF CopyInv
  <2> QED BY <1>2, <1>7, <1>10, <2>1, <2>2 DEF PassInv, PlaceInv
<1> QED BY <1>16, <1>17, <1>18 DEF PlaceInv

\* The last pass writes the zeros.
LEMMA CopyFillStep ==
  ASSUME PlaceInv, phase = "fill", CopyRam \/ CopyPage
  PROVE  PlaceInv'
<1>0. PICK i : i = entry - 1
  OBVIOUS
<1>1. /\ job.length > 0 /\ job \in Jobs
      /\ i \in 1 .. Len(table) /\ Fills(table[i]) /\ job.length <= table[i].length
      /\ job.to = table[i].address + Copied(i)
  BY <1>0 DEF CopyRam, CopyPage, PlaceInv, PassInv, CopyInv
<1>how. job.how = (IF InZeroPage(table[i]) THEN "clear_page" ELSE "clear")
  BY <1>0 DEF CopyRam, CopyPage, PlaceInv, PassInv, CopyInv
<1>2. UNCHANGED <<phase, table, dataStart, dataEnd, source, entry>>
  BY DEF CopyRam, CopyPage
<1>3. TableInv /\ MemoryInv /\ BytesInv
  BY DEF PlaceInv
<1>4. /\ table[i].address \in Nat /\ table[i].length \in Nat
      /\ job.length \in Nat /\ job.from \in Nat /\ job.to \in Nat
  BY <1>1, <1>3, Layout DEF Jobs
<1>5. PICK k : k = Copied(i)
  OBVIOUS
<1>6. k \in 0 .. table[i].length - 1
  BY <1>1, <1>4, <1>5 DEF Copied
<1>7. \A j : EndOf(j)' = EndOf(j) /\ Falls(j)' = Falls(j) /\ Rises(j)' = Rises(j)
  BY <1>2 DEF Falls, Rises, EndOf, Fills
<1>8. /\ \A j, m : Handled(j, m) <=> ~ Fills(table[j]) \/ (j < entry /\ (j = entry - 1 => m < Copied(j)))
      /\ \A j, m : Handled(j, m)' <=> ~ Fills(table[j]) \/ (j < entry /\ (j = entry - 1 => m < Copied(j)'))
  BY <1>2, <1>7 DEF Handled
<1>9. \/ job' = [job EXCEPT !.from = @ + 1, !.to = @ + 1, !.length = @ - 1]
      \/ job' = [job EXCEPT !.to = @ + 1, !.length = @ - 1]
  BY <1>how DEF CopyRam, CopyPage
<1>10. /\ job' \in Jobs /\ job'.length = job.length - 1 /\ job'.to = job.to + 1 /\ job'.how = job.how
       /\ Copied(i)' = k + 1
  <2>1. ASSUME job' = [job EXCEPT !.from = @ + 1, !.to = @ + 1, !.length = @ - 1]
        PROVE  job' \in Jobs /\ job'.length = job.length - 1 /\ job'.to = job.to + 1 /\ job'.how = job.how
    <3>1. job \in Jobs /\ job.length > 0
      BY <1>1
    <3> QED BY <2>1, <3>1, JobMovesOn
  <2>2. ASSUME job' = [job EXCEPT !.to = @ + 1, !.length = @ - 1]
        PROVE  job' \in Jobs /\ job'.length = job.length - 1 /\ job'.to = job.to + 1 /\ job'.how = job.how
    <3>1. PICK n, to : n = job.length - 1 /\ to = job.to + 1
      OBVIOUS
    <3>2. n \in Nat /\ to \in Nat
      <4>1. PICK x : x = job.length
        OBVIOUS
      <4>2. x - 1 \in Nat
        BY <4>1, <1>1, <1>4
      <4> QED BY <4>1, <4>2, <3>1, <1>4
    <3>3. job' = [job EXCEPT !.to = to, !.length = n]
      BY <2>2, <3>1
    <3>4. job' = [how |-> job.how, from |-> job.from, to |-> to, length |-> n]
      BY <1>1, <3>3 DEF Jobs
    <3>5. job.how \in Hows
      BY <1>1 DEF Jobs
    <3>6. job' \in Jobs
      BY <1>4, <3>2, <3>4, <3>5 DEF Jobs
    <3> QED BY <3>1, <3>4, <3>6
  <2>3. job' \in Jobs /\ job'.length = job.length - 1 /\ job'.to = job.to + 1 /\ job'.how = job.how
    BY <1>9, <2>1, <2>2
  <2>4. PICK l, n : l = table[i].length /\ n = job.length
    OBVIOUS
  <2>5. l \in Nat /\ n \in Nat /\ k = l - n
    BY <1>4, <1>5, <2>4 DEF Copied
  <2>6. Copied(i)' = l - (n - 1)
    BY <1>2, <2>3, <2>4 DEF Copied
  <2> QED BY <2>3, <2>5, <2>6
<1>11. ~ Handled(i, k) /\ Handled(i, k)'
  <2>1. entry \in Nat /\ k \in Nat
    BY <1>6, PassEntry DEF PlaceInv, Passes
  <2>2. i < entry /\ k < k + 1 /\ ~ (k < k)
    BY <1>0, <2>1
  <2> QED BY <1>0, <1>1, <1>5, <1>8, <1>10, <2>2
<1>12. StoreZeroPage(table[i].address + k, Want(i, k))
  <2>1. Want(i, k) = Zero
    BY <1>1 DEF Want
  <2>2. CASE InZeroPage(table[i])
    BY <2>1, <2>2, <1>1, <1>how, <1>5 DEF CopyRam, CopyPage
  <2>3. CASE ~ InZeroPage(table[i])
    <3>1. Put(table[i].address + k, Want(i, k))
      BY <2>1, <2>3, <1>1, <1>how, <1>5 DEF CopyRam, CopyPage
    <3>2. table[i].address + k \notin Owned
      BY <2>3, <1>1, <1>3, <1>6, RamIsNotOwned
    <3> QED BY <3>1, <3>2 DEF StoreZeroPage
  <2> QED BY <2>2, <2>3
<1>13. ASSUME NEW j \in 1 .. Len(table), NEW m \in 0 .. table[j].length - 1, ~ (j = i /\ m = k)
       PROVE  Handled(j, m)' <=> Handled(j, m)
  <2>1. table[j].length \in Nat
    BY <1>3, Layout
  <2>2. m \in Nat /\ k \in Nat
    BY <2>1, <1>6
  <2>3. j = i => (m < k + 1 <=> m < k)
    BY <1>13, <2>2
  <2> QED BY <1>0, <1>5, <1>8, <1>10, <2>3
<1>14. ASSUME NEW j \in 1 .. Len(table), NEW m \in 0 .. table[j].length - 1, ~ Handled(j, m)', ~ Fills(table[j])
       PROVE  EndOf(j - 1) + m # table[i].address + k
  BY <1>8, <1>14
<1>15. MemoryInv' /\ BytesInv'
  <2>1. phase \in Passes
    BY DEF Passes
  <2> QED BY <2>1, <1>1, <1>2, <1>3, <1>6, <1>11, <1>12, <1>13, <1>14, OneByte
<1>16. TableInv'
  BY <1>2, <1>3 DEF TableInv, EndOf
<1>17. PassInv'
  <2>1. i = entry' - 1 /\ phase' = "fill" /\ Copied(i)' = Copied(i) + 1
    BY <1>0, <1>2, <1>5, <1>10
  <2>2. CopyInv'
    <3>1. job'.length <= table[i].length
      <4>1. PICK l, n : l = table[i].length /\ n = job.length
        OBVIOUS
      <4>2. n - 1 <= l
        BY <1>1, <1>4, <4>1
      <4> QED BY <4>1, <4>2, <1>10
    <3>2. job'.to = table[i].address + Copied(i)'
      <4>1. PICK a, to : a = table[i].address /\ to = job.to
        OBVIOUS
      <4>2. a \in Nat /\ k \in Nat /\ to = a + k
        BY <1>1, <1>4, <1>5, <1>6, <4>1
      <4>3. to + 1 = a + (k + 1)
        BY <4>2
      <4> QED BY <4>1, <4>3, <1>10
    <3> QED BY <1>1, <1>how, <1>2, <1>7, <1>10, <2>1, <3>1, <3>2 DEF CopyInv, InZeroPage, Fills
  <2> QED BY <1>2, <1>7, <1>10, <2>1, <2>2 DEF PassInv, PlaceInv
<1> QED BY <1>15, <1>16, <1>17 DEF PlaceInv

-----------------------------------------------------------------------------
(***************************************************************************)
(* On to the next entry, or the next pass                                  *)
(***************************************************************************)

\* No byte moves; an entry whose data already stands where it belongs may be passed.
LEMMA SameMemory ==
  ASSUME TableInv, MemoryInv, BytesInv,
         UNCHANGED <<mem, stash, table, dataStart, dataEnd>>, phase # "run", phase' # "run",
         \A j \in 1 .. Len(table) : \A m \in 0 .. table[j].length - 1 :
           /\ Handled(j, m) => Handled(j, m)'
           /\ Handled(j, m)' => Handled(j, m) \/ (~ Fills(table[j]) /\ table[j].address = EndOf(j - 1))
  PROVE  TableInv' /\ MemoryInv' /\ BytesInv'
<1>1. /\ \A j : EndOf(j)' = EndOf(j) /\ \A m : Want(j, m)' = Want(j, m)
      /\ \A a : Now(a)' = Now(a)
  BY DEF EndOf, Want, Now
<1>2. TableInv' /\ MemoryInv'
  BY <1>1 DEF TableInv, MemoryInv
<1>3. ASSUME NEW j \in 1 .. Len(table), NEW m \in 0 .. table[j].length - 1
      PROVE  IF Handled(j, m)'
               THEN \A x : x = table[j].address + m => Now(x)' = Want(j, m)
               ELSE ~ Fills(table[j]) => mem'[EndOf(j - 1) + m] = Cell(j, m)
  <2>1. CASE Handled(j, m)
    BY <2>1, <1>1 DEF BytesInv
  <2>2. CASE ~ Handled(j, m) /\ ~ Handled(j, m)'
    BY <2>2 DEF BytesInv
  <2>3. CASE ~ Handled(j, m) /\ Handled(j, m)'
    <3>1. ~ Fills(table[j]) /\ table[j].address = EndOf(j - 1)
      BY <2>3
    <3>2. mem[table[j].address + m] = Cell(j, m)
      BY <2>3, <3>1 DEF BytesInv
    <3>3. ~ InZeroPage(table[j])
      <4>1. j - 1 \in 0 .. Len(table)
        BY Layout
      <4>2. dataStart \in Nat /\ EndOf(j - 1) \in Nat /\ RamStart <= dataStart /\ dataStart <= EndOf(j - 1)
        BY <4>1, Layout
      <4>3. ~ (EndOf(j - 1) < PageSize)
        BY <4>2, MapFacts
      <4> QED BY <3>1, <4>3 DEF InZeroPage
    <3>4. table[j].address + m \notin Owned
      BY <3>3, RamIsNotOwned
    <3>5. Now(table[j].address + m) = Cell(j, m)
      BY <3>2, <3>4 DEF Now
    <3> QED BY <2>3, <3>1, <3>5, <1>1 DEF Want
  <2> QED BY <2>1, <2>2, <2>3
<1>4. ASSUME NEW j \in 1 .. Len(table), NEW m \in 0 .. table[j].length - 1
      PROVE  (table[j].address + m)' = table[j].address + m /\ (EndOf(j - 1) + m)' = EndOf(j - 1) + m
  BY <1>1
<1>5. BytesInv'
  BY <1>1, <1>3, <1>4 DEF BytesInv
<1> QED BY <1>2, <1>5

\* What a pass needs to know of the entry that it comes to.
LEMMA EntryFacts ==
  ASSUME TableInv, NEW i \in 1 .. Len(table)
  PROVE  /\ i \in Nat /\ i - 1 \in 0 .. Len(table) /\ i \in 0 .. Len(table) /\ i + 1 \in 1 .. Len(table) + 1
         /\ table[i].address \in Nat /\ table[i].length \in Nat /\ table[i].length > 0
         /\ EndOf(i - 1) \in Nat /\ EndOf(i) \in Nat /\ PageSize < EndOf(i - 1)
         /\ Fills(table[i]) => EndOf(i) = EndOf(i - 1)
         /\ ~ Fills(table[i]) => EndOf(i) = EndOf(i - 1) + table[i].length /\ EndOf(i) - table[i].length = EndOf(i - 1)
         /\ Falls(i) <=> ~ Fills(table[i]) /\ ~ (EndOf(i - 1) <= table[i].address)
         /\ Rises(i) <=> ~ Fills(table[i]) /\ ~ (table[i].address < EndOf(i - 1))
<1>1. i \in Nat /\ i - 1 \in 0 .. Len(table) /\ i \in 0 .. Len(table) /\ i + 1 \in 1 .. Len(table) + 1
  BY Layout
<1>2. table[i].address \in Nat /\ table[i].length \in Nat /\ table[i].length > 0
  BY Layout
<1>3. /\ EndOf(i - 1) \in Nat /\ EndOf(i) \in Nat /\ dataStart \in Nat
      /\ RamStart <= dataStart /\ dataStart <= EndOf(i - 1)
  BY <1>1, Layout
<1>4. PageSize < EndOf(i - 1)
  BY <1>3, MapFacts
<1>5. EndOf(i) = EndOf(i - 1) + (IF Fills(table[i]) THEN 0 ELSE table[i].length)
  BY Layout
<1>6. PICK a, l : a = table[i].address /\ l = table[i].length
  OBVIOUS
<1>7. a \in Nat /\ l \in Nat
  BY <1>2, <1>6
<1>8. /\ (a < EndOf(i - 1)) <=> ~ (EndOf(i - 1) <= a)
      /\ (EndOf(i - 1) <= a) <=> ~ (a < EndOf(i - 1))
      /\ EndOf(i) = EndOf(i - 1) + 0 => EndOf(i) = EndOf(i - 1)
      /\ EndOf(i) = EndOf(i - 1) + l => EndOf(i) - l = EndOf(i - 1)
  BY <1>3, <1>7
<1>9. Fills(table[i]) => EndOf(i) = EndOf(i - 1)
  BY <1>5, <1>8
<1>10. ~ Fills(table[i]) => EndOf(i) = EndOf(i - 1) + table[i].length /\ EndOf(i) - table[i].length = EndOf(i - 1)
  BY <1>5, <1>6, <1>8
<1>11. /\ Falls(i) <=> ~ Fills(table[i]) /\ ~ (EndOf(i - 1) <= table[i].address)
       /\ Rises(i) <=> ~ Fills(table[i]) /\ ~ (table[i].address < EndOf(i - 1))
  BY <1>6, <1>8 DEF Falls, Rises
<1> QED BY <1>1, <1>2, <1>3, <1>4, <1>9, <1>10, <1>11

LEMMA CopyIsJob ==
  ASSUME TableInv, NEW i \in 1 .. Len(table), NEW from \in Nat,
         NEW how \in Hows
  PROVE  /\ CopyOf(table[i], how, from) \in Jobs
         /\ CopyOf(table[i], how, from).length = table[i].length
         /\ CopyOf(table[i], how, from).how = how
         /\ CopyOf(table[i], how, from).from = from
         /\ CopyOf(table[i], how, from).to = table[i].address
<1>1. table[i].address \in Nat /\ table[i].length \in Nat
  BY EntryFacts
<1> QED BY <1>1 DEF CopyOf, Jobs

LEMMA NoJobIsJob == NoJob \in Jobs /\ NoJob.length = 0
BY DEF NoJob, Jobs, Hows

LEMMA PassDownStep ==
  ASSUME PlaceInv, PassDown
  PROVE  PlaceInv'
<1>0. PICK i : i = entry
  OBVIOUS
<1>1. /\ TableInv /\ MemoryInv /\ BytesInv
      /\ phase = "down" /\ phase' = "down" /\ job.length = 0 /\ source = EndOf(i - 1)
      /\ UNCHANGED <<mem, stash, table, dataStart, dataEnd>>
  BY <1>0 DEF PlaceInv, PassInv, PassDown, Idle
<1>2. i \in 1 .. Len(table)
  <2>1. entry \in 1 .. Len(table) + 1 /\ entry <= Len(table) /\ Len(table) \in Nat
    BY <1>1, Layout DEF PlaceInv, PassInv, PassDown
  <2> QED BY <1>0, <2>1
<1>3. /\ i \in Nat /\ entry' = i + 1 /\ entry' - 1 = i /\ i + 1 \in 1 .. Len(table) + 1
      /\ source' = (IF Fills(table[i]) THEN source ELSE source + table[i].length)
      /\ job' = (IF Fills(table[i]) \/ (~ InZeroPage(table[i]) /\ table[i].address >= source)
                   THEN NoJob
                   ELSE CopyOf(table[i], IF InZeroPage(table[i]) THEN "page" ELSE "down", source))
  <2>1. i \in Nat /\ i + 1 - 1 = i
    BY <1>1, <1>2, EntryFacts
  <2> QED BY <1>0, <1>1, <1>2, <2>1, EntryFacts DEF PassDown
<1>4. \A j : EndOf(j)' = EndOf(j) /\ Falls(j)' = Falls(j) /\ Rises(j)' = Rises(j)
  BY <1>1 DEF EndOf, Falls, Rises
<1>5. source' = EndOf(i) /\ source \in Nat /\ source' \in Nat
  BY <1>1, <1>2, <1>3, EntryFacts
<1>6. Falls(i) <=> ~ (Fills(table[i]) \/ (~ InZeroPage(table[i]) /\ table[i].address >= source))
  <2>1. PICK a : a = table[i].address
    OBVIOUS
  <2>2. a \in Nat /\ source \in Nat /\ PageSize < source /\ PageSize \in Nat
    BY <1>1, <1>2, <1>5, <2>1, EntryFacts, MapFacts
  <2>3. a < source <=> ~ (~ (a < PageSize) /\ a >= source)
    BY <2>2
  <2> QED BY <1>1, <2>1, <2>3 DEF Falls, InZeroPage
<1>7. CASE Falls(i)
  <2>1. /\ job' \in Jobs /\ job'.length = table[i].length /\ job'.from = EndOf(i - 1) /\ job'.to = table[i].address
        /\ job'.how = (IF InZeroPage(table[i]) THEN "page" ELSE "down")
    <3>1. PICK how : how = IF InZeroPage(table[i]) THEN "page" ELSE "down"
      OBVIOUS
    <3>2. how \in Hows
      BY <3>1 DEF Hows
    <3>3. job' = CopyOf(table[i], how, source)
      BY <1>3, <1>6, <1>7, <3>1
    <3> QED BY <1>1, <1>2, <1>5, <3>1, <3>2, <3>3, CopyIsJob
  <2>2. Copied(i)' = 0 /\ 0 <= 0
    <3>1. PICK l : l = table[i].length
      OBVIOUS
    <3>2. l - l = 0
      BY <1>1, <1>2, <3>1, EntryFacts
    <3> QED BY <1>1, <2>1, <3>1, <3>2 DEF Copied
  <2>3. CopyInv'
    <3>1. job'.from = EndOf(i - 1) + 0 /\ job'.to = table[i].address + 0 /\ table[i].length <= table[i].length
      BY <1>1, <1>2, <2>1, EntryFacts
    <3> QED BY <1>1, <1>2, <1>3, <1>4, <1>7, <2>1, <2>2, <3>1 DEF CopyInv, InZeroPage
  <2>4. PassInv'
    BY <1>1, <1>3, <1>4, <1>5, <2>1, <2>3 DEF PassInv, Placing, Passes
  <2>5. ASSUME NEW j \in 1 .. Len(table), NEW m \in 0 .. table[j].length - 1
        PROVE  Handled(j, m)' <=> Handled(j, m)
    <3>1. j \in Nat /\ table[j].length \in Nat /\ m \in Nat
      BY <1>1, EntryFacts
    <3>2. j = i => ~ (m < Copied(j)')
      BY <2>2, <3>1
    <3>3. j = i - 1 => m < Copied(j)
      <4>1. PICK l : l = table[j].length
        OBVIOUS
      <4>2. m < l - 0
        BY <3>1, <4>1
      <4> QED BY <1>1, <4>1, <4>2 DEF Copied
    <3>4. j < i + 1 <=> j < i \/ j = i
      BY <3>1, <1>3
    <3>5. ~ (i < i)
      BY <1>3
    <3>6. Handled(j, m) <=> Falls(j) /\ j < i
      BY <1>0, <1>1, <3>3 DEF Handled
    <3>7. Handled(j, m)' <=> Falls(j) /\ j < i
      BY <1>1, <1>3, <1>4, <3>2, <3>4, <3>5 DEF Handled
    <3> QED BY <3>6, <3>7
  <2>6. TableInv' /\ MemoryInv' /\ BytesInv'
    BY <1>1, <2>5, SameMemory
  <2> QED BY <2>4, <2>6 DEF PlaceInv
<1>8. CASE ~ Falls(i)
  <2>1. job' \in Jobs /\ job'.length = 0
    BY <1>3, <1>6, <1>8, NoJobIsJob
  <2>2. PassInv'
    <3>1. ~ (job'.length > 0)
      BY <2>1
    <3> QED BY <1>1, <1>3, <1>4, <1>5, <2>1, <3>1 DEF PassInv, CopyInv, Placing, Passes
  <2>3. ASSUME NEW j \in 1 .. Len(table), NEW m \in 0 .. table[j].length - 1
        PROVE  Handled(j, m)' <=> Handled(j, m)
    <3>1. j \in Nat /\ table[j].length \in Nat /\ m \in Nat
      BY <1>1, EntryFacts
    <3>2. m < Copied(j) /\ m < Copied(j)'
      <4>1. PICK l : l = table[j].length
        OBVIOUS
      <4>2. m < l - 0
        BY <3>1, <4>1
      <4> QED BY <1>1, <2>1, <4>1, <4>2 DEF Copied
    <3>3. j < i + 1 <=> j < i \/ j = i
      BY <3>1, <1>3
    <3>4. Handled(j, m) <=> Falls(j) /\ j < i
      BY <1>0, <1>1, <3>2 DEF Handled
    <3>5. Handled(j, m)' <=> Falls(j) /\ j < i + 1
      BY <1>1, <1>3, <1>4, <3>2 DEF Handled
    <3> QED BY <1>8, <3>3, <3>4, <3>5
  <2>4. TableInv' /\ MemoryInv' /\ BytesInv'
    BY <1>1, <2>3, SameMemory
  <2> QED BY <2>2, <2>4 DEF PlaceInv
<1> QED BY <1>7, <1>8

LEMMA EndDownStep ==
  ASSUME PlaceInv, EndDown
  PROVE  PlaceInv'
<1>1. /\ TableInv /\ MemoryInv /\ BytesInv
      /\ phase = "down" /\ phase' = "up" /\ job.length = 0 /\ job \in Jobs
      /\ UNCHANGED <<mem, stash, table, dataStart, dataEnd, job>>
      /\ entry' = Len(table) /\ source' = dataEnd /\ dataEnd = EndOf(Len(table))
  BY DEF PlaceInv, PassInv, EndDown, Idle, TableInv
<1>2. /\ Len(table) \in Nat /\ entry = Len(table) + 1
      /\ Len(table) \in 0 .. Len(table) /\ EndOf(Len(table)) \in Nat
  <2>1. entry \in 1 .. Len(table) + 1 /\ entry > Len(table) /\ Len(table) \in Nat
    BY <1>1, Layout DEF PlaceInv, PassInv, EndDown
  <2>2. entry = Len(table) + 1 /\ Len(table) \in 0 .. Len(table)
    BY <2>1
  <2> QED BY <1>1, <2>1, <2>2, Layout
<1>3. \A j : EndOf(j)' = EndOf(j) /\ Falls(j)' = Falls(j) /\ Rises(j)' = Rises(j)
  BY <1>1 DEF EndOf, Falls, Rises
<1>4. PassInv'
  <2>1. ~ (job'.length > 0)
    BY <1>1
  <2> QED BY <1>1, <1>2, <1>3, <2>1 DEF PassInv, CopyInv, Placing, Passes
<1>5. ASSUME NEW j \in 1 .. Len(table), NEW m \in 0 .. table[j].length - 1
      PROVE  Handled(j, m)' <=> Handled(j, m)
  <2>1. j \in Nat /\ table[j].length \in Nat /\ m \in Nat
    BY <1>1, EntryFacts
  <2>2. m < Copied(j)
    <3>1. PICK l : l = table[j].length
      OBVIOUS
    <3>2. m < l - 0
      BY <2>1, <3>1
    <3> QED BY <1>1, <3>1, <3>2 DEF Copied
  <2>3. j < entry /\ ~ (entry' < j)
    BY <1>1, <1>2
  <2>4. Handled(j, m) <=> Falls(j)
    BY <1>1, <2>2, <2>3 DEF Handled
  <2>5. Handled(j, m)' <=> Falls(j)
    BY <1>1, <1>3, <2>3 DEF Handled
  <2> QED BY <2>4, <2>5
<1>6. TableInv' /\ MemoryInv' /\ BytesInv'
  BY <1>1, <1>5, SameMemory
<1> QED BY <1>4, <1>6 DEF PlaceInv

LEMMA PassUpStep ==
  ASSUME PlaceInv, PassUp
  PROVE  PlaceInv'
<1>0. PICK i : i = entry
  OBVIOUS
<1>1. /\ TableInv /\ MemoryInv /\ BytesInv
      /\ phase = "up" /\ phase' = "up" /\ job.length = 0 /\ source = EndOf(i) /\ source \in Nat
      /\ UNCHANGED <<mem, stash, table, dataStart, dataEnd>>
  BY <1>0 DEF PlaceInv, PassInv, PassUp, Idle
<1>2. i \in 1 .. Len(table)
  <2>1. entry \in 0 .. Len(table) /\ entry >= 1 /\ Len(table) \in Nat
    BY <1>1, Layout DEF PlaceInv, PassInv, PassUp
  <2> QED BY <1>0, <2>1
<1>3. /\ i \in Nat /\ entry' = i - 1 /\ entry' + 1 = i /\ i - 1 \in 0 .. Len(table)
      /\ source' = (IF Fills(table[i]) THEN source ELSE source - table[i].length)
      /\ job' = (IF ~ Fills(table[i]) /\ source' < table[i].address THEN CopyOf(table[i], "up", source') ELSE NoJob)
  <2>1. i \in Nat /\ i - 1 + 1 = i
    BY <1>1, <1>2, EntryFacts
  <2> QED BY <1>0, <1>1, <1>2, <2>1, EntryFacts DEF PassUp
<1>4. \A j : EndOf(j)' = EndOf(j) /\ Falls(j)' = Falls(j) /\ Rises(j)' = Rises(j)
  BY <1>1 DEF EndOf, Falls, Rises
<1>5. source' = EndOf(i - 1) /\ source' \in Nat
  BY <1>1, <1>2, <1>3, EntryFacts
<1>6. ASSUME NEW j \in 1 .. Len(table), NEW m \in 0 .. table[j].length - 1
      PROVE  /\ Handled(j, m) <=> Falls(j) \/ (Rises(j) /\ i < j)
             /\ Handled(j, m)' <=> Falls(j) \/ (Rises(j) /\ (i < j \/ (j = i /\ job'.length <= m)))
  <2>1. j \in Nat /\ table[j].length \in Nat /\ m \in Nat
    BY <1>1, EntryFacts
  <2>2. 0 <= m
    BY <2>1
  <2>3. i - 1 < j <=> i < j \/ j = i
    BY <2>1, <1>3
  <2>4. ~ (i < i)
    BY <1>3
  <2>5. Handled(j, m) <=> Falls(j) \/ (Rises(j) /\ i < j)
    BY <1>0, <1>1, <2>2 DEF Handled
  <2>6. Handled(j, m)' <=> Falls(j) \/ (Rises(j) /\ i - 1 < j /\ (j = i => job'.length <= m))
    BY <1>1, <1>3, <1>4 DEF Handled
  <2> QED BY <2>3, <2>4, <2>5, <2>6
<1>7. CASE ~ Fills(table[i]) /\ source' < table[i].address
  <2>1. /\ job' \in Jobs /\ job'.length = table[i].length /\ job'.from = EndOf(i - 1) /\ job'.to = table[i].address
        /\ job'.how = "up"
    <3>1. "up" \in Hows
      BY DEF Hows
    <3> QED BY <1>1, <1>2, <1>3, <1>5, <1>7, <3>1, CopyIsJob
  <2>2. PassInv'
    <3>1. Rises(i) /\ table[i].length <= table[i].length
      <4>1. PICK a, l : a = table[i].address /\ l = table[i].length
        OBVIOUS
      <4>2. a \in Nat /\ l \in Nat /\ EndOf(i - 1) \in Nat /\ EndOf(i - 1) < a
        BY <1>1, <1>2, <1>5, <1>7, <4>1, EntryFacts
      <4>3. EndOf(i - 1) <= a /\ l <= l
        BY <4>2
      <4> QED BY <1>7, <4>1, <4>3 DEF Rises
    <3>2. CopyInv'
      BY <1>1, <1>2, <1>3, <1>4, <1>5, <1>7, <2>1, <3>1 DEF CopyInv
    <3> QED BY <1>1, <1>3, <1>4, <1>5, <2>1, <3>2 DEF PassInv, Placing, Passes
  <2>3. ASSUME NEW j \in 1 .. Len(table), NEW m \in 0 .. table[j].length - 1
        PROVE  Handled(j, m)' <=> Handled(j, m)
    <3>1. PICK l : l = table[j].length
      OBVIOUS
    <3>2. l \in Nat /\ m \in 0 .. l - 1
      BY <1>1, <3>1, EntryFacts
    <3>3. ~ (l <= m)
      BY <3>2
    <3>4. j = i => ~ (job'.length <= m)
      BY <2>1, <3>1, <3>3
    <3> QED BY <1>6, <3>4
  <2>4. TableInv' /\ MemoryInv' /\ BytesInv'
    BY <1>1, <2>3, SameMemory
  <2> QED BY <2>2, <2>4 DEF PlaceInv
<1>8. CASE ~ (~ Fills(table[i]) /\ source' < table[i].address)
  <2>1. job' \in Jobs /\ job'.length = 0
    BY <1>3, <1>8, NoJobIsJob
  <2>2. PassInv'
    <3>1. ~ (job'.length > 0)
      BY <2>1
    <3> QED BY <1>1, <1>3, <1>4, <1>5, <2>1, <3>1 DEF PassInv, CopyInv, Placing, Passes
  <2>3. ASSUME NEW j \in 1 .. Len(table), NEW m \in 0 .. table[j].length - 1
        PROVE  /\ Handled(j, m) => Handled(j, m)'
               /\ Handled(j, m)' => Handled(j, m) \/ (~ Fills(table[j]) /\ table[j].address = EndOf(j - 1))
    <3>1. Handled(j, m) => Handled(j, m)'
      BY <1>6
    <3>2. Handled(j, m)' => Handled(j, m) \/ (Rises(j) /\ j = i)
      BY <1>6
    <3>3. Rises(i) => table[i].address = EndOf(i - 1)
      <4>1. PICK a : a = table[i].address
        OBVIOUS
      <4>2. a \in Nat /\ EndOf(i - 1) \in Nat
        BY <1>1, <1>2, <4>1, EntryFacts
      <4>3. ~ (EndOf(i - 1) < a) /\ EndOf(i - 1) <= a => a = EndOf(i - 1)
        BY <4>2
      <4> QED BY <1>5, <1>8, <4>1, <4>3 DEF Rises
    <3> QED BY <3>1, <3>2, <3>3 DEF Rises
  <2>4. TableInv' /\ MemoryInv' /\ BytesInv'
    BY <1>1, <2>3, SameMemory
  <2> QED BY <2>2, <2>4 DEF PlaceInv
<1> QED BY <1>7, <1>8

LEMMA EndUpStep ==
  ASSUME PlaceInv, EndUp
  PROVE  PlaceInv'
<1>1. /\ TableInv /\ MemoryInv /\ BytesInv
      /\ phase = "up" /\ phase' = "fill" /\ job.length = 0 /\ job \in Jobs /\ entry = 0 /\ entry' = 1 /\ source \in Nat
      /\ UNCHANGED <<mem, stash, table, dataStart, dataEnd, job, source>>
  BY DEF PlaceInv, PassInv, EndUp, Idle
<1>2. \A j : EndOf(j)' = EndOf(j) /\ Falls(j)' = Falls(j) /\ Rises(j)' = Rises(j)
  BY <1>1 DEF EndOf, Falls, Rises
<1>3. PassInv'
  <2>1. ~ (job'.length > 0) /\ 1 \in 1 .. Len(table) + 1
    BY <1>1, Layout
  <2> QED BY <1>1, <2>1 DEF PassInv, CopyInv, Placing, Passes
<1>4. ASSUME NEW j \in 1 .. Len(table), NEW m \in 0 .. table[j].length - 1
      PROVE  Handled(j, m)' <=> Handled(j, m)
  <2>1. j \in Nat /\ table[j].length \in Nat /\ m \in Nat
    BY <1>1, EntryFacts
  <2>2. 0 < j /\ ~ (j < 1) /\ 0 <= m
    BY <2>1
  <2>3. Falls(j) \/ Rises(j) <=> ~ Fills(table[j])
    BY <1>1, EntryFacts DEF Falls
  <2>4. Handled(j, m) <=> Falls(j) \/ Rises(j)
    BY <1>1, <2>2 DEF Handled
  <2>5. Handled(j, m)' <=> ~ Fills(table[j])
    BY <1>1, <2>2 DEF Handled
  <2> QED BY <2>3, <2>4, <2>5
<1>5. TableInv' /\ MemoryInv' /\ BytesInv'
  BY <1>1, <1>4, SameMemory
<1> QED BY <1>3, <1>5 DEF PlaceInv

LEMMA PassFillStep ==
  ASSUME PlaceInv, PassFill
  PROVE  PlaceInv'
<1>0. PICK i : i = entry
  OBVIOUS
<1>1. /\ TableInv /\ MemoryInv /\ BytesInv
      /\ phase = "fill" /\ phase' = "fill" /\ job.length = 0 /\ source \in Nat
      /\ UNCHANGED <<mem, stash, table, dataStart, dataEnd, source>>
  BY <1>0 DEF PlaceInv, PassInv, PassFill, Idle
<1>2. i \in 1 .. Len(table)
  <2>1. entry \in 1 .. Len(table) + 1 /\ entry <= Len(table) /\ Len(table) \in Nat
    BY <1>1, Layout DEF PlaceInv, PassInv, PassFill
  <2> QED BY <1>0, <2>1
<1>3. /\ i \in Nat /\ entry' = i + 1 /\ entry' - 1 = i /\ i + 1 \in 1 .. Len(table) + 1
  <2>1. i \in Nat /\ i + 1 - 1 = i
    BY <1>1, <1>2, EntryFacts
  <2>2. entry' = entry + 1
    BY DEF PassFill
  <2> QED BY <1>0, <1>1, <1>2, <2>1, <2>2, EntryFacts
<1>how. job' = (IF Fills(table[i])
                   THEN CopyOf(table[i], IF InZeroPage(table[i]) THEN "clear_page" ELSE "clear", source)
                   ELSE NoJob)
  BY <1>0 DEF PassFill
<1>4. \A j : EndOf(j)' = EndOf(j)
  BY <1>1 DEF EndOf
<1>5. ASSUME NEW j \in 1 .. Len(table), NEW m \in 0 .. table[j].length - 1
      PROVE  /\ Handled(j, m) <=> ~ Fills(table[j]) \/ j < i
             /\ Handled(j, m)' <=> ~ Fills(table[j]) \/ j < i \/ (j = i /\ m < Copied(j)')
  <2>1. j \in Nat /\ table[j].length \in Nat /\ m \in Nat
    BY <1>1, EntryFacts
  <2>2. m < Copied(j)
    <3>1. PICK l : l = table[j].length
      OBVIOUS
    <3>2. m < l - 0
      BY <2>1, <3>1
    <3> QED BY <1>1, <3>1, <3>2 DEF Copied
  <2>3. j < i + 1 <=> j < i \/ j = i
    BY <2>1, <1>3
  <2>4. ~ (i < i)
    BY <1>3
  <2>5. Handled(j, m) <=> ~ Fills(table[j]) \/ j < i
    BY <1>0, <1>1, <2>2 DEF Handled
  <2>6. Handled(j, m)' <=> ~ Fills(table[j]) \/ (j < i + 1 /\ (j = i => m < Copied(j)'))
    BY <1>1, <1>3 DEF Handled
  <2> QED BY <2>3, <2>4, <2>5, <2>6
<1>6. CASE Fills(table[i])
  <2>1. /\ job' \in Jobs /\ job'.length = table[i].length /\ job'.to = table[i].address
        /\ job'.how = (IF InZeroPage(table[i]) THEN "clear_page" ELSE "clear")
    <3>1. PICK how : how = IF InZeroPage(table[i]) THEN "clear_page" ELSE "clear"
      OBVIOUS
    <3>2. how \in Hows
      BY <3>1 DEF Hows
    <3>3. job' = CopyOf(table[i], how, source)
      BY <1>how, <1>6, <3>1
    <3>4. job' \in Jobs /\ job'.length = table[i].length /\ job'.to = table[i].address /\ job'.how = how
      <4> HIDE <3>1
      <4>1. /\ CopyOf(table[i], how, source) \in Jobs
            /\ CopyOf(table[i], how, source).length = table[i].length
            /\ CopyOf(table[i], how, source).how = how
            /\ CopyOf(table[i], how, source).to = table[i].address
        BY <1>1, <1>2, <3>2, CopyIsJob
      <4> QED BY <3>3, <4>1
    <3> QED BY <3>1, <3>4
  <2>2. Copied(i)' = 0 /\ table[i].address = table[i].address + 0 /\ table[i].length <= table[i].length
    <3>1. PICK a, l : a = table[i].address /\ l = table[i].length
      OBVIOUS
    <3>2. l - l = 0 /\ a = a + 0 /\ l <= l
      BY <1>1, <1>2, <3>1, EntryFacts
    <3>3. job'.length = table[i].length /\ table' = table
      BY <1>1, <2>1
    <3>4. Copied(i)' = l - l
      BY <3>1, <3>3 DEF Copied
    <3> QED BY <3>1, <3>2, <3>4
  <2>3. PassInv'
    <3>1. CopyInv'
      BY <1>1, <1>2, <1>3, <1>6, <2>1, <2>2 DEF CopyInv, InZeroPage, Fills
    <3> QED BY <1>1, <1>3, <2>1, <3>1 DEF PassInv, Placing, Passes
  <2>4. ASSUME NEW j \in 1 .. Len(table), NEW m \in 0 .. table[j].length - 1
        PROVE  Handled(j, m)' <=> Handled(j, m)
    <3>1. m \in Nat
      BY <1>1, EntryFacts
    <3>2. ~ (m < 0)
      BY <3>1
    <3>3. j = i => ~ (m < Copied(j)')
      BY <2>2, <3>2
    <3> QED BY <1>5, <3>3
  <2>5. TableInv' /\ MemoryInv' /\ BytesInv'
    BY <1>1, <2>4, SameMemory
  <2> QED BY <2>3, <2>5 DEF PlaceInv
<1>7. CASE ~ Fills(table[i])
  <2>1. job' \in Jobs /\ job'.length = 0
    BY <1>how, <1>7, NoJobIsJob
  <2>2. PassInv'
    <3>1. ~ (job'.length > 0)
      BY <2>1
    <3> QED BY <1>1, <1>3, <2>1, <3>1 DEF PassInv, CopyInv, Placing, Passes
  <2>3. ASSUME NEW j \in 1 .. Len(table), NEW m \in 0 .. table[j].length - 1
        PROVE  Handled(j, m)' <=> Handled(j, m)
    BY <1>5, <1>7
  <2>4. TableInv' /\ MemoryInv' /\ BytesInv'
    BY <1>1, <2>3, SameMemory
  <2> QED BY <2>2, <2>4 DEF PlaceInv
<1> QED BY <1>6, <1>7

LEMMA EndFillStep ==
  ASSUME PlaceInv, EndFill
  PROVE  PlaceInv'
<1>1. /\ TableInv /\ MemoryInv /\ BytesInv
      /\ phase = "fill" /\ phase' = "unstash" /\ job.length = 0 /\ job \in Jobs /\ source \in Nat
      /\ UNCHANGED <<mem, stash, table, dataStart, dataEnd, job, source, entry>>
  BY DEF PlaceInv, PassInv, EndFill, Idle
<1>2. entry \in 1 .. Len(table) + 1 /\ entry > Len(table) /\ Len(table) \in Nat
  BY <1>1, Layout DEF PlaceInv, PassInv, EndFill
<1>3. PassInv'
  <2>1. ~ (job'.length > 0)
    BY <1>1
  <2> QED BY <1>1, <2>1 DEF PassInv, CopyInv, Placing, Passes
<1>4. ASSUME NEW j \in 1 .. Len(table), NEW m \in 0 .. table[j].length - 1
      PROVE  Handled(j, m)' <=> Handled(j, m)
  <2>1. j \in Nat /\ table[j].length \in Nat /\ m \in Nat
    BY <1>1, EntryFacts
  <2>2. m < Copied(j)
    <3>1. PICK l : l = table[j].length
      OBVIOUS
    <3>2. m < l - 0
      BY <2>1, <3>1
    <3> QED BY <1>1, <3>1, <3>2 DEF Copied
  <2>3. j < entry
    BY <1>2
  <2> QED BY <1>1, <2>2, <2>3 DEF Handled
<1>5. TableInv' /\ MemoryInv' /\ BytesInv'
  BY <1>1, <1>4, SameMemory
<1> QED BY <1>3, <1>5 DEF PlaceInv

\* The loader's own bytes, when it needs them no more.
LEMMA UnstashStep ==
  ASSUME PlaceInv, Unstash
  PROVE  PlaceInv'
<1>1. /\ TableInv /\ MemoryInv /\ BytesInv
      /\ phase = "unstash" /\ phase' = "run" /\ job.length = 0 /\ job \in Jobs /\ source \in Nat
      /\ UNCHANGED <<stash, table, dataStart, dataEnd, job, source, entry>>
      /\ mem' = [a \in Addresses |-> IF a \in Owned THEN stash[a] ELSE mem[a]]
  <2>1. phase = "unstash" /\ PassInv /\ TableInv /\ MemoryInv /\ BytesInv
    BY DEF PlaceInv, Unstash
  <2>2. job \in Jobs /\ ~ (job.length > 0) /\ source \in Nat
    BY <2>1 DEF PassInv, CopyInv
  <2>3. job.length = 0
    <3>1. PICK n : n = job.length
      OBVIOUS
    <3>2. n \in Nat /\ ~ (n > 0)
      BY <2>2, <3>1 DEF Jobs
    <3> QED BY <3>1, <3>2
  <2> QED BY <2>1, <2>2, <2>3 DEF Unstash
<1>2. \A a : a \in Owned => a \in Addresses
  BY MapFacts
<1>3. \A j : EndOf(j)' = EndOf(j) /\ \A m : Want(j, m)' = Want(j, m)
  BY <1>1 DEF EndOf, Want
<1>4. \A a \in Addresses : mem'[a] = Now(a) /\ Now(a)' = Now(a)
  BY <1>1 DEF Now
<1>5. PassInv'
  <2>1. ~ (job'.length > 0)
    BY <1>1
  <2> QED BY <1>1, <2>1 DEF PassInv, CopyInv, Placing, Passes
<1>6. TableInv'
  BY <1>1, <1>3 DEF TableInv
<1>7. MemoryInv'
  <2>1. HStart \in Addresses /\ HStart \notin Owned
    BY MapFacts
  <2>2. mem'[HStart] = StartAt
    BY <1>1, <2>1 DEF MemoryInv
  <2> QED BY <1>1, <1>2, <1>4, <2>2 DEF MemoryInv
<1>8. BytesInv'
  <2>1. ASSUME NEW j \in 1 .. Len(table), NEW m \in 0 .. table[j].length - 1
        PROVE  /\ Handled(j, m)' /\ (table[j].address + m)' = table[j].address + m
               /\ \A x : x = table[j].address + m => Now(x)' = Want(j, m)
    <3>1. Handled(j, m) /\ Handled(j, m)'
      BY <1>1 DEF Handled
    <3>2. Now(table[j].address + m) = Want(j, m)
      BY <3>1, <1>1 DEF BytesInv
    <3>3. table[j].address + m \in Addresses
      BY <1>1, BytesApart
    <3> QED BY <1>1, <1>4, <3>1, <3>2, <3>3
  <2> QED BY <1>1, <1>3, <2>1 DEF BytesInv
<1> QED BY <1>5, <1>6, <1>7, <1>8 DEF PlaceInv

LEMMA PlaceStepKeeps ==
  ASSUME PlaceInv, [Place \/ Running]_placeVars
  PROVE  PlaceInv'
<1>1. CASE CopyRam \/ CopyPage
  <2>1. job.length > 0 /\ job \in Jobs /\ CopyInv
    BY <1>1 DEF CopyRam, CopyPage, PlaceInv, PassInv
  <2>2. phase \in Passes
    BY <2>1 DEF CopyInv, Passes
  <2> QED BY <1>1, <2>2, CopyDownStep, CopyUpStep, CopyFillStep DEF Passes
<1>2. CASE UNCHANGED placeVars
  <2>1. /\ UNCHANGED <<phase, mem, stash, table, dataStart, dataEnd, source, entry, job>>
        /\ TableInv /\ PassInv /\ MemoryInv /\ BytesInv
    BY <1>2 DEF placeVars, PlaceInv
  <2>2. /\ \A j : EndOf(j)' = EndOf(j) /\ Falls(j)' = Falls(j) /\ Rises(j)' = Rises(j) /\ Copied(j)' = Copied(j)
        /\ \A a : Now(a)' = Now(a)
    BY <2>1 DEF EndOf, Falls, Rises, Copied, Now
  <2>3. \A j, m : (Handled(j, m)' <=> Handled(j, m)) /\ Want(j, m)' = Want(j, m)
    BY <2>1, <2>2 DEF Handled, Want
  <2>4. CopyInv <=> CopyInv'
    BY <2>1, <2>2 DEF CopyInv
  <2>5. TableInv' /\ PassInv'
    BY <2>1, <2>2, <2>4 DEF TableInv, PassInv
  <2>6. MemoryInv'
    BY <2>1, <2>2 DEF MemoryInv
  <2>7. BytesInv'
    <3>1. ASSUME NEW j \in 1 .. Len(table), NEW m \in 0 .. table[j].length - 1
          PROVE  Now(table[j].address + m)' = Now(table[j].address + m)
      BY <2>1 DEF Now
    <3> QED BY <2>1, <2>2, <2>3, <3>1 DEF BytesInv
  <2> QED BY <2>5, <2>6, <2>7 DEF PlaceInv
<1>3. CASE Running
  BY <1>2, <1>3 DEF Running
<1> QED BY <1>1, <1>2, <1>3, PassDownStep, EndDownStep, PassUpStep, EndUpStep, PassFillStep, EndFillStep, UnstashStep DEF Place

-----------------------------------------------------------------------------
(***************************************************************************)
(* The theorems                                                            *)
(***************************************************************************)

\* What the receiver hands over is what the passes rely on.
LEMMA ReadyIsEnough ==
  ASSUME table \in Seq(EntryType), ReadyToPlace, DOMAIN mem = Addresses, DOMAIN stash = Owned
  PROVE  PlaceInv
<1>1. /\ phase = "down" /\ source = dataStart /\ entry = 1 /\ job = NoJob /\ Proper(table)
      /\ dataStart = HEntries + Len(table) * EntrySize
      /\ dataEnd = dataStart + Len(DataOf(table))
      /\ \A k \in 1 .. Len(DataOf(table)) : mem[dataStart + k - 1] = DataOf(table)[k]
      /\ mem[HStart] = StartAt
      /\ \A a \in Owned : mem[a] = Loader /\ stash[a] = Zero
  BY DEF ReadyToPlace
<1>2. /\ Len(DataOf(table)) = EndOf(Len(table)) - dataStart
      /\ EndOf(0) = dataStart /\ dataStart \in Nat /\ Len(table) \in Nat
      /\ EndOf(Len(table)) \in Nat
  <2>1. Len(table) \in 0 .. Len(table) /\ Len(table) \in Nat
    BY <1>1, EntriesAt
  <2> QED BY <1>1, <2>1, DataAt DEF EndOf
<1>3. TableInv
  <2>1. dataEnd = EndOf(Len(table))
    BY <1>1, <1>2
  <2> QED BY <1>1, <2>1 DEF TableInv
<1>4. PassInv
  <2>1. ~ (job.length > 0)
    BY <1>1, NoJobIsJob
  <2>2. 1 \in 1 .. Len(table) + 1
    BY <1>2
  <2>3. EndOf(entry - 1) = dataStart
    BY <1>1, <1>2
  <2> QED BY <1>1, <1>2, <2>1, <2>2, <2>3, NoJobIsJob DEF PassInv, CopyInv, Placing, Passes
<1>5. MemoryInv
  BY <1>1 DEF MemoryInv, Now
<1>6. ASSUME NEW j \in 1 .. Len(table), NEW m \in 0 .. table[j].length - 1, ~ Fills(table[j])
      PROVE  mem[EndOf(j - 1) + m] = Cell(j, m)
  <2>1. DataLength(table, j) = table[j].length
    BY <1>6 DEF DataLength
  <2>2. DataOf(table)[EndOf(j - 1) - dataStart + m + 1] = Cell(j, m)
    BY <1>2, <2>1, DataStands DEF EndOf
  <2>3. PICK k : k = EndOf(j - 1) - dataStart + m + 1
    OBVIOUS
  <2>4. k \in 1 .. EndOf(Len(table)) - dataStart /\ dataStart + k - 1 = EndOf(j - 1) + m
    <3>1. PICK l : l = table[j].length
      OBVIOUS
    <3>2. /\ l \in Nat /\ m \in 0 .. l - 1 /\ EndOf(j - 1) \in Nat /\ EndOf(j) \in Nat /\ EndOf(j) = EndOf(j - 1) + l
          /\ j - 1 \in 0 .. Len(table)
      BY <1>3, <1>6, <3>1, EntryFacts
    <3>3. dataStart <= EndOf(j - 1) /\ EndOf(j) <= EndOf(Len(table))
      <4>1. /\ \A a \in 0 .. Len(table) : dataStart <= EndOf(a)
            /\ \A a, b \in 0 .. Len(table) : a <= b => EndOf(a) <= EndOf(b)
        BY <1>3, Layout
      <4>2. j \in 0 .. Len(table) /\ Len(table) \in 0 .. Len(table) /\ j <= Len(table)
        BY <1>2
      <4> QED BY <3>2, <4>1, <4>2
    <3>4. PICK e, f, n : e = EndOf(j - 1) /\ f = EndOf(j) /\ n = EndOf(Len(table))
      OBVIOUS
    <3>5. /\ e \in Nat /\ f \in Nat /\ n \in Nat /\ l \in Nat /\ m \in 0 .. l - 1 /\ dataStart \in Nat
          /\ f = e + l /\ dataStart <= e /\ f <= n /\ k = e - dataStart + m + 1
      BY <1>2, <2>3, <3>2, <3>3, <3>4
    <3>6. k \in 1 .. n - dataStart /\ dataStart + k - 1 = e + m
      BY <3>5
    <3> QED BY <3>4, <3>6
  <2> QED BY <1>1, <1>2, <2>2, <2>3, <2>4
<1>7. BytesInv
  <2>1. ASSUME NEW j \in 1 .. Len(table), NEW m \in 0 .. table[j].length - 1
        PROVE  ~ Handled(j, m)
    <3>1. j \in Nat
      BY <1>3, EntryFacts
    <3>2. ~ (j < 1)
      BY <3>1
    <3> QED BY <1>1, <3>2 DEF Handled
  <2> QED BY <1>6, <2>1 DEF BytesInv
<1> QED BY <1>3, <1>4, <1>5, <1>7 DEF PlaceInv

LEMMA PlaceStarts == PlaceInit => PlaceInv
<1> SUFFICES ASSUME PlaceInit PROVE PlaceInv
  OBVIOUS
<1>1. /\ table \in Seq(EntryType) /\ Proper(table)
      /\ phase = "down" /\ entry = 1 /\ job = NoJob
      /\ dataStart = HEntries + Len(table) * EntrySize
      /\ dataEnd = DataEnds(table, dataStart)[Len(table)] /\ source = dataStart
      /\ stash = [a \in Owned |-> Zero]
      /\ mem = [a \in Addresses |->
                  IF a \in Owned THEN Loader
                  ELSE IF a = HStart THEN StartAt
                  ELSE IF a \in dataStart .. dataEnd - 1 THEN DataOf(table)[a - dataStart + 1]
                  ELSE Old]
  BY TablesAssumption DEF PlaceInit
<1>2. /\ dataStart \in Nat /\ RamStart <= dataStart /\ dataEnd \in Nat /\ dataEnd <= Limit
      /\ Len(DataOf(table)) = dataEnd - dataStart /\ dataStart <= dataEnd
  <2>1. Len(table) \in 0 .. Len(table)
    BY <1>1, EntriesAt
  <2> QED BY <1>1, <2>1, DataAt
<1>3. DOMAIN mem = Addresses /\ DOMAIN stash = Owned
  BY <1>1
<1>4. ASSUME NEW k \in 1 .. Len(DataOf(table)) PROVE mem[dataStart + k - 1] = DataOf(table)[k]
  <2>1. PICK a : a = dataStart + k - 1
    OBVIOUS
  <2>2. a \in dataStart .. dataEnd - 1 /\ a - dataStart + 1 = k /\ a \in Nat /\ a < Limit /\ a >= RamStart
    BY <1>2, <2>1, MapFacts
  <2>3. a \in Addresses /\ a \notin Owned /\ a # HStart
    BY <2>2, MapFacts
  <2> QED BY <1>1, <2>1, <2>2, <2>3
<1>5. HStart \in Addresses /\ HStart \notin Owned /\ \A a : a \in Owned => a \in Addresses
  BY MapFacts
<1>6. ReadyToPlace
  <2>1. dataEnd = dataStart + Len(DataOf(table))
    BY <1>2
  <2> QED BY <1>1, <1>4, <1>5, <2>1 DEF ReadyToPlace
<1> QED BY <1>1, <1>3, <1>6, ReadyIsEnough

\* When the passes are through, the invariant says that all is in place.
LEMMA AllInPlace ==
  ASSUME PlaceInv
  PROVE  EverythingInPlace
<1> SUFFICES ASSUME phase = "run"
             PROVE  /\ \A a \in Addresses : mem[a] = Asked(a, IF a \in Owned THEN Zero ELSE mem[a])
                    /\ mem[HStart] = StartAt
  BY DEF EverythingInPlace
<1>1. TableInv /\ MemoryInv /\ BytesInv /\ mem[HStart] = StartAt
  BY DEF PlaceInv, MemoryInv
<1>2. \A a : Now(a) = mem[a]
  BY DEF Now
<1>3. DOMAIN table = 1 .. Len(table)
  BY <1>1 DEF TableInv
<1>4. ASSUME NEW a \in Addresses
      PROVE  mem[a] = Asked(a, IF a \in Owned THEN Zero ELSE mem[a])
  <2>1. CASE \E i \in DOMAIN table : a \in Taken(table[i])
    <3>1. PICK i : i = CHOOSE j \in DOMAIN table : a \in Taken(table[j])
      OBVIOUS
    <3>2. i \in 1 .. Len(table) /\ a \in Taken(table[i])
      BY <2>1, <3>1, <1>3
    <3>3. PICK b, l : b = table[i].address /\ l = table[i].length
      OBVIOUS
    <3>4. PICK k : k = a - b
      OBVIOUS
    <3>5. k \in 0 .. l - 1 /\ b + k = a
      <4>1. b \in Nat /\ l \in Nat
        BY <1>1, <3>2, <3>3, EntryFacts
      <4>2. a \in b .. b + l - 1
        BY <3>2, <3>3 DEF Taken
      <4> QED BY <3>4, <4>1, <4>2
    <3>6. Handled(i, k)
      BY DEF Handled
    <3>7. mem[a] = Want(i, k)
      BY <1>1, <1>2, <3>2, <3>3, <3>5, <3>6 DEF BytesInv
    <3> QED BY <2>1, <3>1, <3>3, <3>4, <3>7 DEF Asked, Want
  <2>2. CASE ~ \E i \in DOMAIN table : a \in Taken(table[i])
    <3>1. a \in Owned => mem[a] = Zero
      BY <1>1, <1>2, <1>3, <2>2 DEF MemoryInv
    <3> QED BY <2>2, <3>1 DEF Asked
  <2> QED BY <2>1, <2>2
<1> QED BY <1>1, <1>4

\* Every byte of every entry is in place already, or still in the stream, where no
\* copy touches it before it is moved: upload_place's three passes over the table.
THEOREM PlaceInvariant == PlaceSpec => []PlaceInv
<1>1. PlaceInv /\ [Place \/ Running]_placeVars => PlaceInv'
  BY PlaceStepKeeps
<1> QED BY PlaceStarts, <1>1, PTL DEF PlaceSpec

\* When the upload runs, every entry's bytes are at their addresses, for every proper
\* table, every page size and every place of the loader's own variables in zero page.
THEOREM UploadIsPlaced == PlaceSpec => []EverythingInPlace
<1>1. PlaceInv => EverythingInPlace
  BY AllInPlace
<1> QED BY PlaceInvariant, <1>1, PTL

\* The loader's zero-page variables are its own until upload_unstash.
THEOREM LoaderKeepsItsVariables == PlaceSpec => []LoaderKeepsItsZeroPage
<1>1. PlaceInv => LoaderKeepsItsZeroPage
  BY DEF PlaceInv, MemoryInv, LoaderKeepsItsZeroPage
<1> QED BY PlaceInvariant, <1>1, PTL

=============================================================================
