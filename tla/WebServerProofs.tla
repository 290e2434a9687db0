-------------------------- MODULE WebServerProofs --------------------------
(***************************************************************************)
(* The server modes of WebServer.tla with any pages, any number of places  *)
(* for them, any sizes of buffers and of the display, and any picture: a   *)
(* message is drawn as it was meant and is as long as it may be, and what  *)
(* the server believes a page to show is what the page will show.          *)
(*                                                                         *)
(* First the encoder and the page's decoder, by the turns of their loops;  *)
(* then the connections, whose invariant is WebIInv.                       *)
(***************************************************************************)
EXTENDS WebServer, WellFoundedInduction, SequenceTheorems, TLAPS

LEMMA LeastNatural ==
  ASSUME NEW T, T \subseteq Nat, T # {}
  PROVE  \E n \in T : \A m \in T : n <= m
<1> DEFINE R == {x \in Nat \X Nat : x[1] < x[2]}
<1>1. IsWellFoundedOn(R, Nat)
  BY NatLessThanWellFounded DEF OpToRel
<1>2. PICK n \in T : \A m \in T : <<m, n>> \notin R
  <2> HIDE DEF R
  <2> QED BY <1>1, WFMin
<1>3. \A m \in T : ~ (m < n)
  BY <1>2
<1> QED BY <1>2, <1>3

\* Induction over the turns of a loop, for a set of turns.
LEMMA EachTurn ==
  ASSUME NEW n \in Nat, NEW T, 0 \in T, \A k \in 1 .. n : k - 1 \in T => k \in T
  PROVE  \A k \in 0 .. n : k \in T
<1> DEFINE Left == (0 .. n) \ T
<1>1. ASSUME Left # {} PROVE FALSE
  <2>1. PICK k \in Left : \A j \in Left : k <= j
    <3>1. Left \subseteq Nat
      OBVIOUS
    <3> HIDE DEF Left
    <3> QED BY <1>1, <3>1, LeastNatural
  <2>2. k \in 1 .. n /\ k - 1 \notin Left
    BY <2>1
  <2> QED BY <2>1, <2>2
<1> QED BY <1>1

StepsOn(S, n) == [1 .. n -> [S -> S]]
IsTaken(f, S, start, step, n) ==
  f \in [0 .. n -> S] /\ f[0] = start /\ \A k \in 1 .. n : f[k] = step[k][f[k - 1]]

\* A loop whose turns stay in a set has a value after each turn.
LEMMA StepsAreTaken ==
  ASSUME NEW S, NEW n \in Nat, NEW start \in S, NEW step \in StepsOn(S, n)
  PROVE  \E f : IsTaken(f, S, start, step, n)
<1> DEFINE Can == {m \in 0 .. n : \E f : IsTaken(f, S, start, step, m)}
<1>1. 0 \in Can
  <2> DEFINE f == [k \in 0 .. 0 |-> start]
  <2>1. IsTaken(f, S, start, step, 0)
    BY DEF IsTaken
  <2> QED BY <2>1
<1>2. ASSUME NEW m \in 1 .. n, m - 1 \in Can PROVE m \in Can
  <2>1. PICK f : IsTaken(f, S, start, step, m - 1)
    BY <1>2
  <2> DEFINE g == [k \in 0 .. m |-> IF k = m THEN step[m][f[m - 1]] ELSE f[k]]
  <2>2. g \in [0 .. m -> S]
    BY <2>1 DEF IsTaken, StepsOn
  <2>3. g[0] = start
    BY <2>1 DEF IsTaken
  <2>4. ASSUME NEW k \in 1 .. m PROVE g[k] = step[k][g[k - 1]]
    BY <2>1 DEF IsTaken
  <2>5. IsTaken(g, S, start, step, m)
    <3> HIDE DEF g
    <3> QED BY <2>2, <2>3, <2>4 DEF IsTaken
  <2> QED BY <2>5
<1> HIDE DEF Can
<1>3. \A m \in 0 .. n : m \in Can
  BY <1>1, <1>2, EachTurn
<1> QED BY <1>3 DEF Can

----
\* Colours and runs

RunType == {r \in [kind : {"literal", "first", "second", "colour"}, n : Nat, px : Seq(Pixel)] :
              r.kind = "colour" => Len(r.px) = 1}
DecodeState == [px : Seq(Pixel), colours : Pixel \X Pixel]

LEMMA DecodeRunTyped ==
  ASSUME NEW d \in DecodeState, NEW r \in RunType
  PROVE  DecodeRun(d, r) \in DecodeState
<1> DEFINE v == CASE r.kind = "colour" -> r.px[1] [] r.kind = "second" -> d.colours[2] [] OTHER -> d.colours[1]
<1>1. v \in Pixel
  BY DEF DecodeState, RunType
<1>2. [i \in 1 .. r.n |-> v] \in Seq(Pixel)
  <2>1. r.n \in Nat
    BY DEF RunType
  <2> QED BY <1>1, <2>1
<1>3. CASE r.kind = "literal"
  <2>1. d.px \o r.px \in Seq(Pixel) /\ d.colours \in Pixel \X Pixel
    BY DEF DecodeState, RunType
  <2>2. DecodeRun(d, r) = [px |-> d.px \o r.px, colours |-> d.colours]
    BY <1>3 DEF DecodeRun, DecodeState
  <2> QED BY <2>1, <2>2 DEF DecodeState
<1>4. CASE r.kind # "literal"
  BY <1>1, <1>2, <1>4 DEF DecodeRun, DecodeState
<1> QED BY <1>3, <1>4

IsDecoding(f, colours, runs) ==
  /\ f[0] = [px |-> <<>>, colours |-> colours]
  /\ \A k \in 1 .. Len(runs) : f[k] = DecodeRun(f[k - 1], runs[k])
  /\ \A k \in 0 .. Len(runs) : f[k] \in DecodeState

LEMMA DecodeTurns ==
  ASSUME NEW colours \in Pixel \X Pixel, NEW runs \in Seq(RunType)
  PROVE  IsDecoding(RunTurns(colours, runs), colours, runs)
<1> DEFINE d == [px |-> <<>>, colours |-> colours]
           T == RunTurns(colours, runs)
           n == Len(runs)
           step == [k \in 1 .. n |-> [v \in DecodeState |-> DecodeRun(v, runs[k])]]
<1>1. n \in Nat /\ step \in StepsOn(DecodeState, n) /\ d \in DecodeState
  <2>1. \A k \in 1 .. n : runs[k] \in RunType
    OBVIOUS
  <2>2. step \in StepsOn(DecodeState, n)
    BY <2>1, DecodeRunTyped DEF StepsOn
  <2> QED BY <2>2 DEF DecodeState
<1>2. PICK f : IsTaken(f, DecodeState, d, step, n)
  <2> HIDE DEF step, n, d
  <2> QED BY <1>1, StepsAreTaken
<1>3. f \in [0 .. n -> DecodeState] /\ f[0] = d /\ \A k \in 1 .. n : f[k] = step[k][f[k - 1]]
  <2> HIDE DEF step, d, n
  <2> QED BY <1>2 DEF IsTaken
<1>4. ASSUME NEW k \in 1 .. n PROVE f[k] = DecodeRun(f[k - 1], runs[k])
  <2>1. step[k] = [v \in DecodeState |-> DecodeRun(v, runs[k])]
    OBVIOUS
  <2> HIDE DEF step, d
  <2>2. k - 1 \in 0 .. n
    BY <1>1
  <2>3. f[k - 1] \in DecodeState /\ f[k] = step[k][f[k - 1]]
    BY <1>3, <2>2
  <2> QED BY <2>1, <2>3
<1> HIDE DEF d, step
<1>5. f = [k \in 0 .. n |-> IF k = 0 THEN d ELSE DecodeRun(f[k - 1], runs[k])]
  BY <1>1, <1>3, <1>4
<1>6. T = [k \in 0 .. n |-> IF k = 0 THEN d ELSE DecodeRun(T[k - 1], runs[k])]
  BY <1>1, <1>5 DEF RunTurns, Turns, d
<1> HIDE DEF T
<1>7. T[0] = d /\ \A k \in 1 .. n : T[k] = DecodeRun(T[k - 1], runs[k])
  BY <1>1, <1>6
<1>8. \A k \in 0 .. n : T[k] \in DecodeState
  <2> DEFINE Typed == {j \in 0 .. n : T[j] \in DecodeState}
  <2>1. 0 \in Typed
    BY <1>1, <1>7
  <2>2. \A k \in 1 .. n : k - 1 \in Typed => k \in Typed
    BY <1>1, <1>7, DecodeRunTyped
  <2> HIDE DEF Typed
  <2>3. \A k \in 0 .. n : k \in Typed
    BY <1>1, <2>1, <2>2, EachTurn
  <2> QED BY <2>3 DEF Typed
<1> QED BY <1>1, <1>7, <1>8 DEF T, d, IsDecoding

\* Two loops that take the same turns.
Agree(f, g, n) == f[0] = g[0] /\ \A k \in 1 .. n : f[k - 1] = g[k - 1] => f[k] = g[k]
LEMMA SameTurns ==
  ASSUME NEW n \in Nat, NEW f, NEW g, Agree(f, g, n)
  PROVE  \A k \in 0 .. n : f[k] = g[k]
<1> DEFINE T == {k \in 0 .. n : f[k] = g[k]}
<1>1. 0 \in T /\ \A k \in 1 .. n : k - 1 \in T => k \in T
  BY DEF Agree
<1> HIDE DEF T
<1>2. \A k \in 0 .. n : k \in T
  BY <1>1, EachTurn
<1> QED BY <1>2 DEF T

Decoded(colours, runs) == RunTurns(colours, runs)[Len(runs)]

LEMMA DecodeNothing ==
  ASSUME NEW colours \in Pixel \X Pixel
  PROVE  Decoded(colours, <<>>) = [px |-> <<>>, colours |-> colours]
<1>1. <<>> \in Seq(RunType) /\ Len(<<>>) = 0
  OBVIOUS
<1>2. IsDecoding(RunTurns(colours, <<>>), colours, <<>>)
  BY <1>1, DecodeTurns
<1> QED BY <1>1, <1>2 DEF Decoded, IsDecoding

LEMMA DecodeOneMore ==
  ASSUME NEW colours \in Pixel \X Pixel, NEW runs \in Seq(RunType), NEW r \in RunType
  PROVE  /\ Decoded(colours, Append(runs, r)) = DecodeRun(Decoded(colours, runs), r)
         /\ Decoded(colours, runs) \in DecodeState
<1> DEFINE more == Append(runs, r)
           n == Len(runs)
           f == RunTurns(colours, runs)
           g == RunTurns(colours, more)
<1>1. more \in Seq(RunType) /\ n \in Nat /\ Len(more) = n + 1 /\ more[n + 1] = r
  OBVIOUS
<1>2. \A k \in 1 .. n : more[k] = runs[k]
  OBVIOUS
<1> HIDE DEF more
<1>3. IsDecoding(f, colours, runs) /\ IsDecoding(g, colours, more)
  BY <1>1, DecodeTurns
<1> HIDE DEF f, g
<1>4. f[0] = g[0] /\ \A k \in 1 .. n : f[k] = DecodeRun(f[k - 1], runs[k])
  BY <1>3 DEF IsDecoding
<1>5. \A k \in 1 .. n + 1 : g[k] = DecodeRun(g[k - 1], more[k])
  BY <1>1, <1>3 DEF IsDecoding
<1>6. f[n] \in DecodeState
  BY <1>1, <1>3 DEF IsDecoding
<1>7. f[n] = g[n]
  <2>1. Agree(f, g, n)
    BY <1>1, <1>2, <1>4, <1>5 DEF Agree
  <2> QED BY <1>1, <2>1, SameTurns
<1>8. g[n + 1] = DecodeRun(g[n], r) /\ f[n] = g[n] /\ f[n] \in DecodeState
  <2>1. g[n + 1] = DecodeRun(g[(n + 1) - 1], more[n + 1]) /\ (n + 1) - 1 = n
    BY <1>1, <1>5
  <2> QED BY <1>1, <1>6, <1>7, <2>1
<1> QED BY <1>1, <1>8 DEF Decoded, f, g, more

\* RunLength: the pixels of a run are the same.
LEMMA RunLengthIs ==
  ASSUME NEW px \in Seq(Pixel), NEW i \in 1 .. Len(px)
  PROVE  /\ RunLength(px, i) \in 1 .. Len(px) - i + 1
         /\ \A j \in i .. i + RunLength(px, i) - 1 : px[j] = px[i]
<1> DEFINE Ends == {n \in 1 .. Len(px) - i + 1 : i + n > Len(px) \/ px[i + n] # px[i]}
<1>1. Ends \subseteq Nat /\ Len(px) - i + 1 \in Ends
  OBVIOUS
<1>2. RunLength(px, i) \in Ends /\ \A n \in Ends : RunLength(px, i) <= n
  <2>1. \E n \in Ends : \A m \in Ends : n <= m
    <3> HIDE DEF Ends
    <3>1. Ends # {}
      BY <1>1
    <3> QED BY <1>1, <3>1, LeastNatural
  <2> QED BY <2>1 DEF RunLength, Min
<1>3. ASSUME NEW j \in i .. i + RunLength(px, i) - 1 PROVE px[j] = px[i]
  <2>1. RunLength(px, i) \in 1 .. Len(px) - i + 1
    BY <1>2
  <2>2. j \in Nat /\ j - i < RunLength(px, i) /\ j <= Len(px)
    BY <2>1
  <2>3. CASE j = i
    BY <2>3
  <2>4. CASE j # i
    <3>1. j - i \in 1 .. Len(px) - i + 1 /\ j - i \notin Ends
      BY <1>2, <2>1, <2>2, <2>4
    <3>2. i + (j - i) = j
      BY <2>2
    <3> QED BY <2>2, <3>1, <3>2
  <2> QED BY <2>3, <2>4
<1> QED BY <1>2, <1>3

\* What has been put: the runs are the pixels before the next one, but for those that wait.
\* A pixel takes three bytes at most, what those that wait will take included.
PutState ==
  {w \in [runs : Seq(RunType), size : Nat, colours : Pixel \X Pixel, literal : Nat, next : Nat \ {0}] : w.literal < w.next}
IsSmall(w) == w.size + 3 * w.literal <= 3 * (w.next - 1)
RunSize(run) == (IF run.n < 64 THEN 1 ELSE 3) + 2 * Len(run.px)
IsPut(w, px, colours) ==
  /\ w \in PutState /\ w.next <= Len(px) + 1 /\ IsSmall(w)
  /\ Decoded(colours, w.runs) = [px |-> SubSeq(px, 1, w.next - 1 - w.literal), colours |-> w.colours]

LEMMA PutRunPuts ==
  ASSUME NEW w \in PutState, NEW run \in RunType
  PROVE  LET u == PutRun(w, run)
         IN /\ u \in PutState /\ u.runs = Append(w.runs, run)
            /\ u.literal = w.literal /\ u.next = w.next /\ u.colours = w.colours
            /\ u.size = w.size + RunSize(run)
<1> DEFINE head == IF run.n < 64 THEN 1 ELSE 3
           runs == Append(w.runs, run)
           size == w.size + head + 2 * Len(run.px)
           u == [w EXCEPT !.runs = runs, !.size = size]
<1>1. head \in Nat /\ Len(run.px) \in Nat
  <2>1. head = 1 \/ head = 3
    OBVIOUS
  <2>2. Len(run.px) \in Nat
    BY DEF RunType
  <2> QED BY <2>1, <2>2
<1>2. w \in [runs : Seq(RunType), size : Nat, colours : Pixel \X Pixel, literal : Nat, next : Nat \ {0}] /\ w.literal < w.next
  BY DEF PutState
<1>3. size \in Nat /\ runs \in Seq(RunType)
  <2> HIDE DEF head
  <2> QED BY <1>1, <1>2
<1>4. PutRun(w, run) = u
  BY <1>2 DEF PutRun
<1>5. size = w.size + RunSize(run)
  <2>1. RunSize(run) = head + 2 * Len(run.px)
    BY DEF RunSize
  <2> HIDE DEF head
  <2> QED BY <1>1, <1>2, <2>1
<1> HIDE DEF size, runs
<1>6. /\ u \in PutState /\ u.runs = runs /\ u.literal = w.literal /\ u.next = w.next /\ u.colours = w.colours
      /\ u.size = size
  BY <1>2, <1>3 DEF PutState
<1> QED BY <1>4, <1>5, <1>6 DEF runs

LEMMA FrontAndNext ==
  ASSUME NEW px \in Seq(Pixel), NEW a \in 0 .. Len(px), NEW b \in a .. Len(px)
  PROVE  SubSeq(px, 1, a) \o SubSeq(px, a + 1, b) = SubSeq(px, 1, b)
<1>1. 1 \in 1 .. Len(px) + 1 /\ a \in 1 - 1 .. Len(px)
  OBVIOUS
<1> QED BY <1>1, ConcatAdjacentSubSeq

LEMMA PutLiteralPuts ==
  ASSUME NEW px \in Seq(Pixel), NEW colours \in Pixel \X Pixel, NEW w, IsPut(w, px, colours)
  PROVE  LET u == PutLiteral(w, px, w.next)
         IN IsPut(u, px, colours) /\ u.literal = 0 /\ u.next = w.next /\ u.colours = w.colours
<1>1. CASE w.literal = 0
  BY <1>1 DEF PutLiteral
<1>2. CASE w.literal # 0
  <2> DEFINE i == w.next
             n == w.literal
             waits == SubSeq(px, i - n, i - 1)
             run == [kind |-> "literal", n |-> n, px |-> waits]
             v == [w EXCEPT !.literal = 0]
  <2>1. i \in Nat /\ n \in Nat /\ n < i /\ i <= Len(px) + 1
    BY DEF IsPut, PutState
  <2>2. waits \in Seq(Pixel) /\ waits = SubSeq(px, (i - 1 - n) + 1, i - 1) /\ Len(waits) = n
    <3>1. i - n \in Int /\ i - 1 \in Int /\ (i - 1 - n) + 1 = i - n /\ i - n .. i - 1 \subseteq 1 .. Len(px)
      BY <2>1
    <3>2. \A j \in i - n .. i - 1 : px[j] \in Pixel
      BY <3>1
    <3>3. waits \in Seq(Pixel) /\ Len(waits) = (i - 1) - (i - n) + 1
      <4> DEFINE a == i - n
                 b == i - 1
      <4>1. a \in Int /\ b \in Int /\ a <= b /\ \A j \in a .. b : px[j] \in Pixel
        BY <1>2, <2>1, <3>2
      <4> HIDE DEF a, b
      <4>2. SubSeq(px, a, b) \in Seq(Pixel) /\ Len(SubSeq(px, a, b)) = b - a + 1
        BY <4>1, SubSeqProperties
      <4> QED BY <4>2 DEF a, b
    <3>4. (i - 1) - (i - n) + 1 = n
      BY <2>1
    <3> QED BY <3>1, <3>3, <3>4
  <2>3. run \in RunType /\ v \in PutState
    <3>1. run \in RunType
      BY <2>1, <2>2 DEF RunType
    <3>2. w \in [runs : Seq(RunType), size : Nat, colours : Pixel \X Pixel, literal : Nat, next : Nat \ {0}]
      BY DEF IsPut, PutState
    <3>3. v \in PutState
      BY <3>2 DEF PutState
    <3> QED BY <3>1, <3>3
  <2>4. PutLiteral(w, px, i) = PutRun(v, run)
    BY <1>2 DEF PutLiteral
  <2>5. SubSeq(px, 1, i - 1 - n) \o waits = SubSeq(px, 1, i - 1)
    <3>1. i - 1 - n \in 0 .. Len(px) /\ i - 1 \in i - 1 - n .. Len(px)
      BY <2>1
    <3>2. SubSeq(px, 1, i - 1 - n) \o SubSeq(px, (i - 1 - n) + 1, i - 1) = SubSeq(px, 1, i - 1)
      BY <3>1, FrontAndNext
    <3> QED BY <2>2, <3>2
  <2> DEFINE u == PutRun(v, run)
  <2>6. /\ u \in PutState /\ u.runs = Append(w.runs, run) /\ u.literal = 0 /\ u.next = i /\ u.colours = w.colours
        /\ u.size = w.size + RunSize(run)
    <3>1. v.runs = w.runs /\ v.literal = 0 /\ v.next = i /\ v.colours = w.colours /\ v.size = w.size
      BY DEF IsPut, PutState
    <3> HIDE DEF v, run
    <3>2. /\ u \in PutState /\ u.runs = Append(v.runs, run) /\ u.literal = v.literal /\ u.next = v.next /\ u.colours = v.colours
          /\ u.size = v.size + RunSize(run)
      BY <2>3, PutRunPuts
    <3> HIDE DEF u
    <3> QED BY <3>1, <3>2
  <2>7. Decoded(colours, u.runs) = [px |-> SubSeq(px, 1, i - 1), colours |-> w.colours]
    <3>1. w.runs \in Seq(RunType)
      BY DEF IsPut, PutState
    <3>2. Decoded(colours, Append(w.runs, run)) = DecodeRun(Decoded(colours, w.runs), run)
      <4> HIDE DEF run
      <4> QED BY <2>3, <3>1, DecodeOneMore
    <3>3. Decoded(colours, w.runs) = [px |-> SubSeq(px, 1, i - 1 - n), colours |-> w.colours]
      BY DEF IsPut
    <3>4. run.kind = "literal" /\ run.px = waits
      OBVIOUS
    <3> DEFINE before == SubSeq(px, 1, i - 1 - n)
               d == [px |-> before, colours |-> w.colours]
    <3>6. DecodeRun(d, run) = [px |-> before \o waits, colours |-> w.colours]
      <4> HIDE DEF run, waits, before
      <4> QED BY <3>4 DEF DecodeRun
    <3>7. before \o waits = SubSeq(px, 1, i - 1)
      BY <2>5
    <3> HIDE DEF u, run, waits, before
    <3> QED BY <2>6, <3>2, <3>3, <3>6, <3>7 DEF before
  <2>10. RunSize(run) <= 3 * n
    <3>1. run.n = n /\ Len(run.px) = n /\ n \in Nat \ {0}
      BY <1>2, <2>1, <2>2
    <3> HIDE DEF run, n
    <3> QED BY <3>1 DEF RunSize
  <2> HIDE DEF u, v, run, waits
  <2>8. i - 1 - 0 = i - 1
    BY <2>1
  <2>11. IsSmall(u)
    <3>1. w.size \in Nat /\ w.size + 3 * n <= 3 * (i - 1) /\ u.size \in Nat
      BY <2>6 DEF IsPut, IsSmall, PutState
    <3>2. u.size <= 3 * (i - 1)
      <4>1. RunSize(run) = u.size - w.size \/ RunSize(run) \in Int
        BY <2>3 DEF RunSize, RunType
      <4> HIDE DEF n, i
      <4> QED BY <2>1, <2>6, <2>10, <3>1, <4>1
    <3> QED BY <2>6, <3>1, <3>2 DEF IsSmall
  <2>9. IsPut(u, px, colours)
    BY <2>1, <2>6, <2>7, <2>8, <2>11 DEF IsPut
  <2> QED BY <2>4, <2>6, <2>9 DEF u
<1> QED BY <1>1, <1>2

\* A run of one colour, decoded.
LEMMA DecodeColour ==
  ASSUME NEW d \in DecodeState, NEW v \in Pixel, NEW r \in RunType,
         \/ r.kind = "first" /\ v = d.colours[1]
         \/ r.kind = "second" /\ v = d.colours[2] /\ v # d.colours[1]
         \/ r.kind = "colour" /\ r.px = <<v>> /\ v # d.colours[1]
  PROVE  DecodeRun(d, r) = [px |-> d.px \o [i \in 1 .. r.n |-> v], colours |-> Remember(d.colours, v)]
<1>1. CASE r.kind = "first"
  BY <1>1 DEF DecodeRun, Remember
<1>2. CASE r.kind = "second"
  BY <1>2 DEF DecodeRun, Remember
<1>3. CASE r.kind = "colour"
  <2>1. r.px[1] = v /\ v # d.colours[1]
    BY <1>3
  <2> QED BY <1>3, <2>1 DEF DecodeRun, Remember
<1> QED BY <1>1, <1>2, <1>3

LEMMA SmallRun ==
  ASSUME NEW run, NEW n \in Nat \ {0}, run.n = n, Len(run.px) = 1 \/ Len(run.px) = 0
  PROVE  RunSize(run) \in Nat /\ RunSize(run) <= 3 * n
<1> DEFINE m == Len(run.px)
<1>1. RunSize(run) = (IF n < 64 THEN 1 ELSE 3) + 2 * m
  BY DEF RunSize
<1>2. m = 1 \/ m = 0
  OBVIOUS
<1> HIDE DEF m
<1>3. CASE n < 64
  <2>1. RunSize(run) = 1 + 2 * m
    BY <1>1, <1>3
  <2> QED BY <1>2, <2>1
<1>4. CASE ~(n < 64)
  <2>1. RunSize(run) = 3 + 2 * m
    BY <1>1, <1>4
  <2> QED BY <1>2, <1>4, <2>1
<1> QED BY <1>3, <1>4

LEMMA SmallSum ==
  ASSUME NEW s \in Nat, NEW r \in Nat, NEW i \in Nat, NEW n \in Nat, s <= 3 * (i - 1), r <= 3 * n
  PROVE  s + r <= 3 * ((i + n) - 1)
OBVIOUS

LEMMA PutColourPuts ==
  ASSUME NEW px \in Seq(Pixel), NEW colours \in Pixel \X Pixel, NEW w, IsPut(w, px, colours),
         w.literal = 0, w.next \in 1 .. Len(px)
  PROVE  LET u == PutColour(w, px, w.next)
         IN IsPut(u, px, colours) /\ u.literal = 0 /\ u.next > w.next
<1> DEFINE i == w.next
           v == px[i]
           n == RunLength(px, i)
           kind == IF v = w.colours[1] THEN "first" ELSE IF v = w.colours[2] THEN "second" ELSE "colour"
           run == [kind |-> kind, n |-> n, px |-> IF kind = "colour" THEN <<v>> ELSE <<>>]
           put == PutRun(w, run)
           next == i + n
           u == [put EXCEPT !.colours = Remember(put.colours, v), !.next = next]
<1>1. v \in Pixel /\ n \in 1 .. Len(px) - i + 1 /\ \A j \in i .. i + n - 1 : px[j] = v
  BY RunLengthIs
<1>2. i \in Nat \ {0} /\ n \in Nat \ {0} /\ next \in Nat \ {0} /\ next > i /\ next <= Len(px) + 1
  BY <1>1
<1>3. w \in PutState /\ w.runs \in Seq(RunType) /\ w.colours \in Pixel \X Pixel
  BY DEF IsPut, PutState
<1>4. run \in RunType
  <2>1. <<v>> \in Seq(Pixel) /\ <<>> \in Seq(Pixel) /\ Len(<<v>>) = 1
    BY <1>1
  <2>2. kind \in {"first", "second", "colour"}
    OBVIOUS
  <2>3. n \in Nat
    BY <1>2
  <2> HIDE DEF v, n, kind
  <2> QED BY <2>1, <2>2, <2>3 DEF RunType
<1>5. PutColour(w, px, i) = u
  BY DEF PutColour
<1>6. /\ put \in PutState /\ put.runs = Append(w.runs, run)
      /\ put.literal = 0 /\ put.next = i /\ put.colours = w.colours /\ put.size = w.size + RunSize(run)
  <2> HIDE DEF run
  <2> QED BY <1>3, <1>4, PutRunPuts
<1> DEFINE after == Remember(w.colours, v)
<1>7. after \in Pixel \X Pixel
  <2> HIDE DEF v
  <2> QED BY <1>1, <1>3 DEF Remember
<1>8. /\ u \in PutState /\ u.runs = Append(w.runs, run)
      /\ u.literal = 0 /\ u.next = next /\ u.colours = after /\ u.size = w.size + RunSize(run)
  <2>1. put \in [runs : Seq(RunType), size : Nat, colours : Pixel \X Pixel, literal : Nat, next : Nat \ {0}]
    BY <1>6 DEF PutState
  <2>2. Remember(put.colours, v) = after
    BY <1>6
  <2> HIDE DEF run, put, v, n, next, after
  <2>3. u = [put EXCEPT !.colours = after, !.next = next]
    BY <2>2
  <2>4. u \in [runs : Seq(RunType), size : Nat, colours : Pixel \X Pixel, literal : Nat, next : Nat \ {0}]
    <3> HIDE DEF u
    <3> QED BY <1>2, <1>7, <2>1, <2>3
  <2>5. u.runs = put.runs /\ u.literal = put.literal /\ u.next = next /\ u.colours = after /\ u.size = put.size
    <3> HIDE DEF u
    <3> QED BY <2>1, <2>3
  <2> HIDE DEF u
  <2>6. u.literal < u.next
    BY <1>2, <1>6, <2>5
  <2> QED BY <1>6, <2>4, <2>5, <2>6 DEF PutState
<1> DEFINE before == SubSeq(px, 1, i - 1)
           d == [px |-> before, colours |-> w.colours]
<1>9. Decoded(colours, w.runs) = d /\ d \in DecodeState
  <2>1. i - 1 - 0 = i - 1
    BY <1>2
  <2>2. Decoded(colours, w.runs) = d
    BY <2>1 DEF IsPut
  <2>3. Decoded(colours, w.runs) \in DecodeState
    BY <1>3, <1>4, DecodeOneMore
  <2> QED BY <2>2, <2>3
<1>10. Decoded(colours, Append(w.runs, run)) = DecodeRun(d, run)
  <2> HIDE DEF run, d
  <2> QED BY <1>3, <1>4, <1>9, DecodeOneMore
<1> DEFINE same == [j \in 1 .. n |-> v]
<1>11. DecodeRun(d, run) = [px |-> before \o same, colours |-> after]
  <2>1. d.colours = w.colours /\ d.px = before /\ run.n = n
    OBVIOUS
  <2>2. \/ run.kind = "first" /\ v = w.colours[1]
        \/ run.kind = "second" /\ v = w.colours[2] /\ v # w.colours[1]
        \/ run.kind = "colour" /\ run.px = <<v>> /\ v # w.colours[1]
    OBVIOUS
  <2>3. \/ run.kind = "first" /\ v = d.colours[1]
        \/ run.kind = "second" /\ v = d.colours[2] /\ v # d.colours[1]
        \/ run.kind = "colour" /\ run.px = <<v>> /\ v # d.colours[1]
    BY <2>1, <2>2
  <2> HIDE DEF run, d, v, n, before
  <2>4. DecodeRun(d, run) = [px |-> d.px \o [j \in 1 .. run.n |-> v], colours |-> Remember(d.colours, v)]
    BY <1>1, <1>4, <1>9, <2>3, DecodeColour
  <2> QED BY <2>1, <2>4
<1>12. before \o same = SubSeq(px, 1, next - 1)
  <2>1. i - 1 \in 0 .. Len(px) /\ next - 1 \in i - 1 .. Len(px) /\ (i - 1) + 1 = i
    BY <1>2
  <2>2. before \o SubSeq(px, i, next - 1) = SubSeq(px, 1, next - 1)
    BY <2>1, FrontAndNext
  <2>3. SubSeq(px, i, next - 1) = same
    <3> DEFINE row == SubSeq(px, i, next - 1)
    <3>1. i \in Int /\ next - 1 \in Int /\ i <= next - 1 /\ (next - 1) - i + 1 = n
      BY <1>2
    <3>2. \A j \in i .. next - 1 : px[j] = v
      BY <1>1
    <3>3. \A j \in i .. next - 1 : px[j] \in Pixel
      BY <1>1, <3>2
    <3>4. row \in Seq(Pixel) /\ Len(row) = n /\ \A j \in 1 .. n : row[j] = px[i + j - 1]
      <4> HIDE DEF i, next, v, n
      <4> QED BY <3>1, <3>3, SubSeqProperties
    <3>5. \A j \in 1 .. n : row[j] = v
      <4> TAKE j \in 1 .. n
      <4>1. i + j - 1 \in i .. next - 1
        BY <1>2
      <4> QED BY <3>2, <3>4, <4>1
    <3>6. same \in Seq(Pixel) /\ Len(same) = n /\ \A j \in 1 .. n : same[j] = v
      <4> HIDE DEF v, n
      <4> QED BY <1>1, <1>2
    <3> HIDE DEF row, same, n, v
    <3>7. row = same
      BY <3>4, <3>5, <3>6, SeqEqual
    <3> QED BY <3>7 DEF row
  <2> QED BY <2>2, <2>3
<1>13. Decoded(colours, u.runs) = [px |-> SubSeq(px, 1, next - 1), colours |-> u.colours]
  <2> HIDE DEF u, run, before, same, d, after
  <2> QED BY <1>8, <1>10, <1>11, <1>12
<1>14. next - 1 - 0 = next - 1
  BY <1>2
<1>15. RunSize(run) \in Nat /\ RunSize(run) <= 3 * n
  <2>1. run.n = n /\ (run.px = <<v>> \/ run.px = <<>>)
    OBVIOUS
  <2>2. Len(<<v>>) = 1 /\ Len(<<>>) = 0
    OBVIOUS
  <2> HIDE DEF run, n, v
  <2>3. Len(run.px) = 1 \/ Len(run.px) = 0
    BY <2>1, <2>2
  <2> QED BY <1>2, <2>1, <2>3, SmallRun
<1>16. IsSmall(u)
  <2>1. w.size \in Nat /\ w.size <= 3 * (i - 1)
    BY DEF IsPut, IsSmall, PutState
  <2> HIDE DEF u, after, run, n
  <2>2. u.size <= 3 * (next - 1)
    <3>1. n \in Nat /\ i \in Nat /\ RunSize(run) \in Nat /\ w.size \in Nat
      BY <1>2, <1>15, <2>1
    <3> HIDE DEF i
    <3>2. w.size + RunSize(run) <= 3 * ((i + n) - 1)
      BY <1>15, <2>1, <3>1, SmallSum
    <3> QED BY <1>8, <3>2
  <2> HIDE DEF next
  <2>3. u.size \in Nat
    BY <1>8, <1>15, <2>1
  <2> QED BY <1>2, <1>8, <2>2, <2>3 DEF IsSmall
<1>17. IsPut(u, px, colours)
  <2> HIDE DEF u, next, after, run
  <2> QED BY <1>2, <1>8, <1>13, <1>14, <1>16 DEF IsPut
<1> HIDE DEF u, next
<1> QED BY <1>2, <1>5, <1>8, <1>17

\* The state after pixel i: the pixels up to it are put, or wait.
AfterPixel(w, px, colours, i) ==
  /\ IsPut(w, px, colours) /\ w.next >= i + 1
  /\ w.literal # 0 => w.next = i + 1

LEMMA PutPixelPuts ==
  ASSUME NEW px \in Seq(Pixel), NEW colours \in Pixel \X Pixel, NEW i \in 1 .. Len(px),
         NEW w, AfterPixel(w, px, colours, i - 1)
  PROVE  AfterPixel(PutPixel(w, px, i), px, colours, i)
<1>1. IsPut(w, px, colours) /\ w \in PutState /\ w.next \in Nat /\ w.next >= i /\ (w.literal # 0 => w.next = i)
  BY DEF AfterPixel, IsPut, PutState
<1>2. CASE i < w.next
  <2>1. PutPixel(w, px, i) = w /\ w.literal = 0
    BY <1>1, <1>2 DEF PutPixel
  <2> QED BY <1>1, <1>2, <2>1 DEF AfterPixel
<1>3. CASE ~(i < w.next)
  <2>1. w.next = i
    BY <1>1, <1>3
  <2>2. CASE Lone(px, w.colours, i) /\ (w.literal > 0 \/ (i < Len(px) /\ Lone(px, w.colours, i + 1)))
    <3> DEFINE u == [w EXCEPT !.literal = w.literal + 1, !.next = i + 1]
    <3>1. PutPixel(w, px, i) = u
      BY <1>3, <2>2 DEF PutPixel
    <3>2. w \in [runs : Seq(RunType), size : Nat, colours : Pixel \X Pixel, literal : Nat, next : Nat \ {0}] /\ w.literal < w.next
      BY <1>1 DEF PutState
    <3>3. u \in [runs : Seq(RunType), size : Nat, colours : Pixel \X Pixel, literal : Nat, next : Nat \ {0}]
      <4>1. w.literal + 1 \in Nat /\ i + 1 \in Nat \ {0}
        BY <3>2
      <4> QED BY <3>2, <4>1
    <3>4. u.runs = w.runs /\ u.colours = w.colours /\ u.literal = w.literal + 1 /\ u.next = i + 1 /\ u.size = w.size
      BY <3>2
    <3> HIDE DEF u
    <3>5. u \in PutState
      BY <2>1, <3>2, <3>3, <3>4 DEF PutState
    <3>6. u.next - 1 - u.literal = w.next - 1 - w.literal
      BY <2>1, <3>2, <3>4
    <3>7. u.next <= Len(px) + 1
      BY <3>4
    <3>9. IsSmall(u)
      <4>1. w.size + 3 * w.literal <= 3 * (i - 1)
        BY <1>1, <2>1 DEF IsPut, IsSmall
      <4>2. w.size \in Nat /\ w.literal \in Nat
        BY <3>2
      <4> QED BY <3>4, <4>1, <4>2 DEF IsSmall
    <3>8. IsPut(u, px, colours)
      BY <1>1, <3>4, <3>5, <3>6, <3>7, <3>9 DEF IsPut
    <3> QED BY <3>1, <3>4, <3>8 DEF AfterPixel
  <2>3. CASE ~(Lone(px, w.colours, i) /\ (w.literal > 0 \/ (i < Len(px) /\ Lone(px, w.colours, i + 1))))
    <3> DEFINE v == PutLiteral(w, px, i)
               u == PutColour(v, px, i)
    <3>1. PutPixel(w, px, i) = u
      BY <1>3, <2>3 DEF PutPixel
    <3> HIDE DEF v
    <3>2. IsPut(v, px, colours) /\ v.literal = 0 /\ v.next = i
      BY <1>1, <2>1, PutLiteralPuts DEF v
    <3>3. IsPut(u, px, colours) /\ u.literal = 0 /\ u.next > i
      BY <3>2, PutColourPuts
    <3>4. u.next \in Nat
      BY <3>3 DEF IsPut, PutState
    <3> HIDE DEF u
    <3>5. AfterPixel(u, px, colours, i)
      BY <3>3, <3>4 DEF AfterPixel
    <3> QED BY <3>1, <3>5
  <2> QED BY <2>2, <2>3
<1> QED BY <1>2, <1>3

NothingPut(colours) == [runs |-> <<>>, size |-> 0, colours |-> colours, literal |-> 0, next |-> 1]

LEMMA PutTurnsPut ==
  ASSUME NEW px \in Seq(Pixel), NEW colours \in Pixel \X Pixel
  PROVE  AfterPixel(PutTurns(px, colours)[Len(px)], px, colours, Len(px))
<1> DEFINE d == NothingPut(colours)
           T == PutTurns(px, colours)
           n == Len(px)
           Kept(v, k) == IF PutPixel(v, px, k) \in PutState THEN PutPixel(v, px, k) ELSE v
           step == [k \in 1 .. n |-> [v \in PutState |-> Kept(v, k)]]
<1>1. n \in Nat /\ step \in StepsOn(PutState, n) /\ d \in PutState
  BY DEF StepsOn, PutState, NothingPut
<1>2. AfterPixel(d, px, colours, 0)
  <2>1. Decoded(colours, <<>>) = [px |-> <<>>, colours |-> colours]
    BY DecodeNothing
  <2>2. SubSeq(px, 1, 0) = <<>> /\ 1 - 1 - 0 = 0
    BY SubSeqEmpty
  <2>3. d.next = 1 /\ d.literal = 0 /\ d.runs = <<>> /\ d.colours = colours
    BY DEF NothingPut
  <2>4. IsPut(d, px, colours)
    <3>1. d.next - 1 - d.literal = 0 /\ d.next <= Len(px) + 1
      BY <2>3
    <3>2. IsSmall(d)
      BY DEF NothingPut, IsSmall
    <3> HIDE DEF d
    <3> QED BY <1>1, <2>1, <2>2, <2>3, <3>1, <3>2 DEF IsPut
  <2> QED BY <2>3, <2>4 DEF AfterPixel
<1>3. PICK f : IsTaken(f, PutState, d, step, n)
  <2> HIDE DEF step, n, d
  <2> QED BY <1>1, StepsAreTaken
<1>4. f \in [0 .. n -> PutState] /\ f[0] = d /\ \A k \in 1 .. n : f[k] = step[k][f[k - 1]]
  <2> HIDE DEF step, d, n
  <2> QED BY <1>3 DEF IsTaken
<1>5. \A k \in 1 .. n : f[k] = Kept(f[k - 1], k)
  <2> HIDE DEF Kept
  <2> QED BY <1>1, <1>4
<1> HIDE DEF d, step
<1>6. \A k \in 0 .. n : AfterPixel(f[k], px, colours, k)
  <2> DEFINE Good == {j \in 0 .. n : AfterPixel(f[j], px, colours, j)}
  <2>1. 0 \in Good
    BY <1>1, <1>2, <1>4
  <2>2. ASSUME NEW k \in 1 .. n, k - 1 \in Good PROVE k \in Good
    <3>1. AfterPixel(PutPixel(f[k - 1], px, k), px, colours, k)
      BY <2>2, PutPixelPuts
    <3>2. PutPixel(f[k - 1], px, k) \in PutState
      BY <3>1 DEF AfterPixel, IsPut
    <3> QED BY <1>5, <3>1, <3>2
  <2> HIDE DEF Good
  <2>3. \A k \in 0 .. n : k \in Good
    BY <1>1, <2>1, <2>2, EachTurn
  <2> QED BY <2>3 DEF Good
<1>7. \A k \in 1 .. n : f[k] = PutPixel(f[k - 1], px, k)
  <2> TAKE k \in 1 .. n
  <2>1. AfterPixel(f[k - 1], px, colours, k - 1)
    BY <1>1, <1>6
  <2>2. AfterPixel(PutPixel(f[k - 1], px, k), px, colours, k)
    BY <2>1, PutPixelPuts
  <2> QED BY <1>5, <2>2 DEF AfterPixel, IsPut
<1>8. f = [k \in 0 .. n |-> IF k = 0 THEN d ELSE PutPixel(f[k - 1], px, k)]
  BY <1>1, <1>4, <1>7
<1>9. T = [k \in 0 .. n |-> IF k = 0 THEN d ELSE PutPixel(T[k - 1], px, k)]
  BY <1>1, <1>8 DEF PutTurns, Turns, d, NothingPut
<1> HIDE DEF T
<1>10. T[0] = f[0] /\ \A k \in 1 .. n : T[k] = PutPixel(T[k - 1], px, k)
  BY <1>1, <1>4, <1>9
<1>11. T[n] = f[n]
  <2>1. Agree(T, f, n)
    BY <1>7, <1>10 DEF Agree
  <2> HIDE DEF n
  <2> QED BY <1>1, <2>1, SameTurns
<1> QED BY <1>1, <1>6, <1>11 DEF T

\* put_pixels and its decoder, for every colour and every number of pixels: the page decodes
\* the pixels that were put, which take at most three bytes each.
THEOREM PutPixelsPuts ==
  ASSUME NEW px \in Seq(Pixel), NEW colours \in Pixel \X Pixel
  PROVE  LET put == PutPixels(px, colours)
         IN /\ put.runs \in Seq(RunType) /\ put.size \in Nat /\ put.colours \in Pixel \X Pixel
            /\ Decoded(colours, put.runs) = [px |-> px, colours |-> put.colours]
            /\ put.size <= 3 * Len(px)
<1> DEFINE w == PutTurns(px, colours)[Len(px)]
           u == PutLiteral(w, px, Len(px) + 1)
<1>1. AfterPixel(w, px, colours, Len(px))
  BY PutTurnsPut
<1> HIDE DEF w
<1>2. IsPut(w, px, colours) /\ w.next = Len(px) + 1
  BY <1>1 DEF AfterPixel, IsPut, PutState
<1>3. IsPut(u, px, colours) /\ u.literal = 0 /\ u.next = Len(px) + 1
  BY <1>2, PutLiteralPuts
<1> HIDE DEF u
<1>4. u.runs \in Seq(RunType) /\ u.size \in Nat /\ u.colours \in Pixel \X Pixel
  BY <1>3 DEF IsPut, PutState
<1>5. u.next - 1 - u.literal = Len(px)
  BY <1>3
<1>6. Decoded(colours, u.runs) = [px |-> SubSeq(px, 1, Len(px)), colours |-> u.colours]
  BY <1>3, <1>5 DEF IsPut
<1>7. SubSeq(px, 1, Len(px)) = px
  BY SubSeqFull
<1>8. u.size <= 3 * Len(px)
  BY <1>3, <1>4 DEF IsPut, IsSmall
<1> QED BY <1>4, <1>6, <1>7, <1>8 DEF PutPixels, u, w

----
\* Rectangles

\* Row r and column c of rows that are w wide, in one number and back.
LEMMA RowAndColumn ==
  ASSUME NEW w \in Nat \ {0}, NEW r \in Nat, NEW c \in 0 .. w - 1
  PROVE  r * w + c \in Nat /\ (r * w + c) \div w = r /\ (r * w + c) % w = c
<1> DEFINE m == r * w + c
           q == m \div w
<1>1. r * w \in Nat
  OBVIOUS
<1>2. m \in Nat
  <2>1. \A a \in Nat : a + c \in Nat
    OBVIOUS
  <2> QED BY <1>1, <2>1
<1> HIDE DEF m
<1>3. q \in Int /\ (m % w) \in 0 .. w - 1 /\ m = w * q + (m % w)
  BY <1>2
<1>4. w * (q - r) = c - (m % w)
  <2>1. m = w * r + c
    BY <1>1 DEF m
  <2>2. w * (q - r) = w * q - w * r
    BY <1>3
  <2>3. w * q \in Int /\ w * r \in Int /\ (m % w) \in Int
    BY <1>3
  <2> DEFINE a == w * q
             b == w * r
             k == w * (q - r)
             z == m % w
  <2>4. m = b + c /\ m = a + z /\ k = a - b /\ a \in Int /\ b \in Int /\ z \in Int
    BY <1>3, <2>1, <2>2, <2>3
  <2> HIDE DEF a, b, k, z
  <2>5. k = c - z
    BY <2>4
  <2> QED BY <2>5 DEF k, z
<1>5. q - r = 0
  <2> DEFINE k == q - r
  <2>1. k \in Int /\ w * k < w /\ 0 - w < w * k
    BY <1>3, <1>4
  <2>2. ASSUME k >= 1 PROVE FALSE
    <3>1. w * k >= w
      BY <2>1, <2>2
    <3> QED BY <2>1, <3>1
  <2>3. ASSUME k <= 0 - 1 PROVE FALSE
    <3>1. w * k <= 0 - w
      BY <2>1, <2>3
    <3> QED BY <2>1, <3>1
  <2> QED BY <2>1, <2>2, <2>3
<1>6. q = r /\ (m % w) = c
  BY <1>3, <1>4, <1>5
<1> QED BY <1>2, <1>6 DEF m

\* A row and a column are in the rows before h.
LEMMA RowsInAll ==
  ASSUME NEW w \in Nat \ {0}, NEW h \in Nat, NEW r \in 0 .. h - 1, NEW c \in 0 .. w - 1
  PROVE  r * w + c + 1 \in 1 .. w * h
<1>1. r * w \in Nat /\ (r + 1) * w = r * w + w /\ (r + 1) * w \in Nat
  OBVIOUS
<1>2. (h - (r + 1)) * w \in Nat /\ w * h = (r + 1) * w + (h - (r + 1)) * w
  OBVIOUS
<1> QED BY <1>1, <1>2

PictureType == [DisplayLines -> [DisplayColumns -> Pixel]]
ShadowType == [pixels : PictureType, known : SUBSET DisplayLines, nextLine : DisplayLines]
RectType == [line : Nat, x : Nat, width : Nat \ {0}, height : Nat, runs : Seq(RunType)]
DrawState == [colours : Pixel \X Pixel, picture : PictureType]

LEMMA DecodeRectTyped ==
  ASSUME NEW d \in DrawState, NEW rect \in RectType
  PROVE  DecodeRect(d, rect) \in DrawState
<1> DEFINE r == Decoded(d.colours, rect.runs)
           At(l, x) == (l - rect.line) * rect.width + (x - rect.x) + 1
           In(l, x) == l \in rect.line .. rect.line + rect.height - 1 /\ x \in rect.x .. rect.x + rect.width - 1
           After(l, x) == IF In(l, x) /\ At(l, x) <= Len(r.px) THEN r.px[At(l, x)] ELSE d.picture[l][x]
           picture == [l \in DisplayLines |-> [x \in DisplayColumns |-> After(l, x)]]
<1>1. r \in DecodeState
  <2>1. d.colours \in Pixel \X Pixel /\ rect.runs \in Seq(RunType)
    BY DEF DrawState, RectType
  <2>2. IsDecoding(RunTurns(d.colours, rect.runs), d.colours, rect.runs)
    BY <2>1, DecodeTurns
  <2>3. Len(rect.runs) \in 0 .. Len(rect.runs)
    BY <2>1
  <2> QED BY <2>2, <2>3 DEF IsDecoding, Decoded
<1>2. ASSUME NEW l \in DisplayLines, NEW x \in DisplayColumns PROVE After(l, x) \in Pixel
  <2>1. CASE In(l, x) /\ At(l, x) <= Len(r.px)
    <3>1. rect.line \in Nat /\ rect.x \in Nat /\ rect.width \in Nat \ {0} /\ rect.height \in Nat
      BY DEF RectType
    <3>2. l - rect.line \in 0 .. rect.height - 1 /\ x - rect.x \in 0 .. rect.width - 1
        <4>1. l \in Int /\ x \in Int
        BY DisplayAssumption DEF DisplayLines, DisplayColumns
      <4>2. In(l, x)
        BY <2>1
      <4> HIDE DEF At, r
      <4> QED BY <3>1, <4>1, <4>2
    <3>3. At(l, x) \in Nat \ {0}
      BY <3>1, <3>2, RowsInAll
    <3>4. r.px \in Seq(Pixel)
      BY <1>1 DEF DecodeState
    <3> HIDE DEF At, r
    <3> QED BY <2>1, <3>3, <3>4
  <2>2. CASE ~(In(l, x) /\ At(l, x) <= Len(r.px))
    <3>1. After(l, x) = d.picture[l][x]
      BY <2>2
    <3> QED BY <3>1 DEF DrawState, PictureType
  <2> QED BY <2>1, <2>2
<1>3. picture \in PictureType
  <2> HIDE DEF After
  <2> QED BY <1>2 DEF PictureType
<1>4. DecodeRect(d, rect) = [colours |-> r.colours, picture |-> picture]
  BY DEF DecodeRect, Decoded
<1> HIDE DEF r, picture
<1> QED BY <1>1, <1>3, <1>4 DEF DrawState, DecodeState

Fresh(picture) == [colours |-> <<Black, White>>, picture |-> picture]
IsDrawing(f, picture, rects) ==
  /\ f[0] = Fresh(picture)
  /\ \A k \in 1 .. Len(rects) : f[k] = DecodeRect(f[k - 1], rects[k])
  /\ \A k \in 0 .. Len(rects) : f[k] \in DrawState

LEMMA FreshTyped == Black \in Pixel /\ <<Black, White>> \in Pixel \X Pixel
<1>1. Black \in Pixel /\ White \in Pixel
  BY DEF Black, White, Pixel
<1> QED BY <1>1

LEMMA DrawTurns ==
  ASSUME NEW picture \in PictureType, NEW rects \in Seq(RectType)
  PROVE  IsDrawing(RectTurns(picture, rects), picture, rects)
<1> DEFINE d == Fresh(picture)
           T == RectTurns(picture, rects)
           n == Len(rects)
           step == [k \in 1 .. n |-> [v \in DrawState |-> DecodeRect(v, rects[k])]]
<1>1. n \in Nat /\ step \in StepsOn(DrawState, n) /\ d \in DrawState
  <2>1. \A k \in 1 .. n : rects[k] \in RectType
    OBVIOUS
  <2>2. step \in StepsOn(DrawState, n)
    BY <2>1, DecodeRectTyped DEF StepsOn
  <2>3. d \in DrawState
    BY FreshTyped DEF DrawState, Fresh
  <2>4. n \in Nat
    OBVIOUS
  <2> HIDE DEF step, d, n
  <2> QED BY <2>2, <2>3, <2>4
<1>2. PICK f : IsTaken(f, DrawState, d, step, n)
  <2> HIDE DEF step, n, d
  <2> QED BY <1>1, StepsAreTaken
<1>3. f \in [0 .. n -> DrawState] /\ f[0] = d /\ \A k \in 1 .. n : f[k] = step[k][f[k - 1]]
  <2> HIDE DEF step, d, n
  <2> QED BY <1>2 DEF IsTaken
<1>4. ASSUME NEW k \in 1 .. n PROVE f[k] = DecodeRect(f[k - 1], rects[k])
  BY <1>1, <1>3
<1> HIDE DEF d, step
<1>5. f = [k \in 0 .. n |-> IF k = 0 THEN d ELSE DecodeRect(f[k - 1], rects[k])]
  BY <1>1, <1>3, <1>4
<1>6. T = [k \in 0 .. n |-> IF k = 0 THEN d ELSE DecodeRect(T[k - 1], rects[k])]
  BY <1>1, <1>5 DEF RectTurns, Turns, d, Fresh
<1> HIDE DEF T
<1>7. T[0] = d /\ \A k \in 1 .. n : T[k] = DecodeRect(T[k - 1], rects[k])
  BY <1>1, <1>6
<1>8. \A k \in 0 .. n : T[k] \in DrawState
  <2> DEFINE Typed == {j \in 0 .. n : T[j] \in DrawState}
  <2>1. 0 \in Typed
    BY <1>1, <1>7
  <2>2. ASSUME NEW k \in 1 .. n, k - 1 \in Typed PROVE k \in Typed
    <3>1. rects[k] \in RectType
      OBVIOUS
    <3> QED BY <1>7, <2>2, <3>1, DecodeRectTyped
  <2> HIDE DEF Typed
  <2>3. \A k \in 0 .. n : k \in Typed
    BY <1>1, <2>1, <2>2, EachTurn
  <2> QED BY <2>3 DEF Typed
<1> QED BY <1>1, <1>7, <1>8 DEF T, d, IsDrawing

Drawn(picture, rects) == RectTurns(picture, rects)[Len(rects)]

LEMMA DrawNothing ==
  ASSUME NEW picture \in PictureType
  PROVE  Drawn(picture, <<>>) = Fresh(picture)
<1>1. <<>> \in Seq(RectType) /\ Len(<<>>) = 0
  OBVIOUS
<1>2. IsDrawing(RectTurns(picture, <<>>), picture, <<>>)
  BY <1>1, DrawTurns
<1> QED BY <1>1, <1>2 DEF Drawn, IsDrawing

LEMMA DrawOneMore ==
  ASSUME NEW picture \in PictureType, NEW rects \in Seq(RectType), NEW r \in RectType
  PROVE  Drawn(picture, Append(rects, r)) = DecodeRect(Drawn(picture, rects), r)
<1> DEFINE more == Append(rects, r)
           n == Len(rects)
           f == RectTurns(picture, rects)
           g == RectTurns(picture, more)
<1>1. more \in Seq(RectType) /\ n \in Nat /\ Len(more) = n + 1 /\ more[n + 1] = r
  OBVIOUS
<1>2. \A k \in 1 .. n : more[k] = rects[k]
  OBVIOUS
<1> HIDE DEF more
<1>3. IsDrawing(f, picture, rects) /\ IsDrawing(g, picture, more)
  BY <1>1, DrawTurns
<1> HIDE DEF f, g
<1>4. f[0] = g[0] /\ \A k \in 1 .. n : f[k] = DecodeRect(f[k - 1], rects[k])
  BY <1>3 DEF IsDrawing
<1>5. \A k \in 1 .. n + 1 : g[k] = DecodeRect(g[k - 1], more[k])
  BY <1>1, <1>3 DEF IsDrawing
<1>6. f[n] = g[n]
  <2>1. Agree(f, g, n)
    BY <1>1, <1>2, <1>4, <1>5 DEF Agree
  <2> QED BY <1>1, <2>1, SameTurns
<1>7. g[n + 1] = DecodeRect(g[n], r)
  <2>1. g[n + 1] = DecodeRect(g[(n + 1) - 1], more[n + 1]) /\ (n + 1) - 1 = n
    BY <1>1, <1>5
  <2> QED BY <1>1, <2>1
<1> QED BY <1>1, <1>6, <1>7 DEF Drawn, f, g, more

LEMMA DrawnTyped ==
  ASSUME NEW picture \in PictureType, NEW rects \in Seq(RectType)
  PROVE  Drawn(picture, rects) \in DrawState
<1>1. IsDrawing(RectTurns(picture, rects), picture, rects)
  BY DrawTurns
<1>2. Len(rects) \in 0 .. Len(rects)
  OBVIOUS
<1> QED BY <1>1, <1>2 DEF Drawn, IsDrawing

----
\* Bands

IsBand(band) ==
  /\ band \in Seq(DisplayLines) /\ band # <<>>
  /\ \A i \in 1 .. Len(band) : band[i] = band[1] + (i - 1)
Rows(band) == {band[i] : i \in DOMAIN band}

LEMMA RowsOfBand ==
  ASSUME NEW band, IsBand(band)
  PROVE  /\ band[1] \in DisplayLines /\ Len(band) \in Nat \ {0}
         /\ Rows(band) = band[1] .. band[1] + Len(band) - 1
         /\ Rows(band) \subseteq DisplayLines
<1>1. Len(band) \in Nat \ {0} /\ DOMAIN band = 1 .. Len(band) /\ band[1] \in DisplayLines
  BY DEF IsBand
<1>2. band[1] \in Nat
  BY <1>1, DisplayAssumption DEF DisplayLines
<1>3. Rows(band) \subseteq band[1] .. band[1] + Len(band) - 1
  BY <1>1, <1>2 DEF Rows, IsBand
<1>4. ASSUME NEW l \in band[1] .. band[1] + Len(band) - 1 PROVE l \in Rows(band)
  <2>1. l - band[1] + 1 \in 1 .. Len(band) /\ band[1] + ((l - band[1] + 1) - 1) = l
    BY <1>1, <1>2
  <2>2. band[l - band[1] + 1] = band[1] + ((l - band[1] + 1) - 1)
    BY <2>1 DEF IsBand
  <2> QED BY <1>1, <2>1, <2>2 DEF Rows
<1>5. Rows(band) \subseteq DisplayLines
  BY <1>1 DEF Rows, IsBand
<1> QED BY <1>1, <1>3, <1>4, <1>5

\* What a rectangle of lines and columns of the memory is for a decoder.
LEMMA RectIsDrawn ==
  ASSUME NEW memory \in PictureType, NEW band, IsBand(band), NEW d \in DrawState,
         NEW x0 \in DisplayColumns, NEW x1 \in DisplayColumns, x0 <= x1
  PROVE  LET put == PutPixels(RectPixels(memory, band, x0, x1), d.colours)
             rect == [line |-> band[1], x |-> x0, width |-> x1 - x0 + 1, height |-> Len(band), runs |-> put.runs]
         IN /\ rect \in RectType /\ put.size \in Nat /\ put.colours \in Pixel \X Pixel
            /\ put.size <= 3 * ((x1 - x0 + 1) * Len(band))
            /\ DecodeRect(d, rect) =
                 [colours |-> put.colours,
                  picture |-> [l \in DisplayLines |-> [x \in DisplayColumns |->
                                 IF l \in Rows(band) /\ x \in x0 .. x1 THEN memory[l][x] ELSE d.picture[l][x]]]]
<1> DEFINE px == RectPixels(memory, band, x0, x1)
           put == PutPixels(px, d.colours)
           width == x1 - x0 + 1
           line == band[1]
           height == Len(band)
           rect == [line |-> line, x |-> x0, width |-> width, height |-> height, runs |-> put.runs]
<1>1. /\ line \in DisplayLines /\ height \in Nat \ {0} /\ Rows(band) = line .. line + height - 1
      /\ Rows(band) \subseteq DisplayLines
  BY RowsOfBand
<1>2. x0 \in Nat /\ x1 \in Nat /\ width \in Nat \ {0} /\ line \in Nat /\ x0 .. x1 \subseteq DisplayColumns
  BY <1>1, DisplayAssumption DEF DisplayLines, DisplayColumns
<1> DEFINE Of(i) == memory[line + ((i - 1) \div width)][x0 + ((i - 1) % width)]
<1>3. width * height \in Nat
  <2> HIDE DEF width, height
  <2> QED BY <1>1, <1>2
<1>4. ASSUME NEW i \in 1 .. width * height PROVE Of(i) \in Pixel
  <2> DEFINE r == (i - 1) \div width
             c == (i - 1) % width
  <2>1. i - 1 \in Nat /\ i - 1 < width * height
    BY <1>3
  <2>2. r \in Int /\ c \in 0 .. width - 1 /\ i - 1 = width * r + c
    <3> HIDE DEF width
    <3> QED BY <1>2, <2>1
  <2>3. r \in 0 .. height - 1
    <3> HIDE DEF r, c, width, height
    <3>1. ASSUME r >= height PROVE FALSE
      <4>1. width * r >= width * height
        BY <1>1, <1>2, <2>2, <3>1
      <4> QED BY <1>2, <1>3, <2>1, <2>2, <4>1
    <3>2. ASSUME r <= 0 - 1 PROVE FALSE
      <4>1. width * r <= 0 - width
        BY <1>2, <2>2, <3>2
      <4> QED BY <1>2, <2>1, <2>2, <4>1
    <3> QED BY <1>1, <2>2, <3>1, <3>2
  <2>4. line + r \in DisplayLines /\ x0 + c \in DisplayColumns
    <3>1. line + r \in line .. line + height - 1
      <4> HIDE DEF r
      <4> QED BY <1>1, <1>2, <2>3
    <3>2. x0 + c \in x0 .. x1
      <4> HIDE DEF c
      <4> QED BY <1>2, <2>2
    <3> QED BY <1>1, <1>2, <3>1, <3>2
  <2> QED BY <2>4 DEF PictureType
<1>5. px = [i \in 1 .. width * height |-> Of(i)]
  BY DEF RectPixels
<1>6. px \in Seq(Pixel) /\ Len(px) = width * height
  <2> HIDE DEF Of, width, height, px
  <2> QED BY <1>3, <1>4, <1>5
<1>7. d.colours \in Pixel \X Pixel /\ d.picture \in PictureType
  BY DEF DrawState
<1> HIDE DEF px
<1>8. /\ put.runs \in Seq(RunType) /\ put.size \in Nat /\ put.colours \in Pixel \X Pixel
      /\ put.size <= 3 * (width * height)
      /\ Decoded(d.colours, put.runs) = [px |-> px, colours |-> put.colours]
  <2>1. put.size <= 3 * Len(px)
    BY <1>6, <1>7, PutPixelsPuts
  <2>2. put.size <= 3 * (width * height)
    <3> HIDE DEF put, width, height
    <3> QED BY <1>6, <2>1
  <2> QED BY <1>6, <1>7, <2>2, PutPixelsPuts
<1> HIDE DEF put
<1>9. rect \in RectType
  <2> HIDE DEF width, height, line
  <2> QED BY <1>1, <1>2, <1>8 DEF RectType
<1> DEFINE At(l, x) == (l - line) * width + (x - x0) + 1
           In(l, x) == l \in line .. line + height - 1 /\ x \in x0 .. x0 + width - 1
           Decodes(l, x) == IF In(l, x) /\ At(l, x) <= Len(px) THEN px[At(l, x)] ELSE d.picture[l][x]
           Draws(l, x) == IF l \in Rows(band) /\ x \in x0 .. x1 THEN memory[l][x] ELSE d.picture[l][x]
<1>10. DecodeRect(d, rect) =
         [colours |-> put.colours, picture |-> [l \in DisplayLines |-> [x \in DisplayColumns |-> Decodes(l, x)]]]
  <2>1. /\ rect.line = line /\ rect.x = x0 /\ rect.width = width /\ rect.height = height /\ rect.runs = put.runs
    OBVIOUS
  <2> HIDE DEF rect, width, height, line
  <2>2. RunTurns(d.colours, put.runs)[Len(put.runs)] = [px |-> px, colours |-> put.colours]
    BY <1>8 DEF Decoded
  <2> QED BY <2>1, <2>2 DEF DecodeRect
<1>11. ASSUME NEW l \in DisplayLines, NEW x \in DisplayColumns PROVE Decodes(l, x) = Draws(l, x)
  <2>1. x0 + width - 1 = x1 /\ l \in Int /\ x \in Int
    BY <1>2, DisplayAssumption DEF DisplayLines, DisplayColumns
  <2>2. CASE In(l, x)
    <3> DEFINE r == l - line
               c == x - x0
               i == r * width + c + 1
    <3>1. r \in 0 .. height - 1 /\ c \in 0 .. width - 1 /\ line + r = l /\ x0 + c = x
      <4> HIDE DEF width, height, line
      <4> QED BY <1>1, <1>2, <2>1, <2>2
    <3>2. i \in 1 .. width * height /\ i - 1 = r * width + c
      <4> HIDE DEF r, c, width, height
      <4>1. r * width + c + 1 \in 1 .. width * height
        BY <1>1, <1>2, <3>1, RowsInAll
      <4>2. r * width + c \in Nat
        BY <1>2, <3>1, RowAndColumn
      <4> QED BY <4>1, <4>2
    <3>3. (r * width + c) \div width = r /\ ((r * width + c) % width) = c
      <4> HIDE DEF r, c, width, height
      <4>1. r \in Nat
        BY <1>1, <3>1
      <4> QED BY <1>2, <3>1, <4>1, RowAndColumn
    <3>4. px[i] = memory[l][x]
      <4>1. px[i] = Of(i)
        <5> HIDE DEF Of, i, width, height
        <5> QED BY <1>5, <3>2
      <4>2. Of(i) = memory[line + ((r * width + c) \div width)][x0 + ((r * width + c) % width)]
        <5> HIDE DEF r, c, i, width, height, line
        <5> QED BY <3>2
      <4> HIDE DEF Of, r, c, i, width, line
      <4> QED BY <3>1, <3>3, <4>1, <4>2
    <3>5. At(l, x) = i /\ i <= Len(px)
      <4>1. At(l, x) = i
        OBVIOUS
      <4> HIDE DEF i, At, width, height
      <4> QED BY <1>3, <1>6, <3>2, <4>1
    <3>6. l \in Rows(band) /\ x \in x0 .. x1
      BY <1>1, <2>1, <2>2
    <3> HIDE DEF At, In, i
    <3> QED BY <2>2, <3>4, <3>5, <3>6
  <2>3. CASE ~In(l, x)
    <3>1. ~(l \in Rows(band) /\ x \in x0 .. x1)
      BY <1>1, <2>1, <2>3
    <3> HIDE DEF At, In
    <3> QED BY <2>3, <3>1
  <2> QED BY <2>2, <2>3
<1>12. DecodeRect(d, rect) =
         [colours |-> put.colours, picture |-> [l \in DisplayLines |-> [x \in DisplayColumns |-> Draws(l, x)]]]
  <2> HIDE DEF Decodes, Draws, rect
  <2> QED BY <1>10, <1>11
<1> QED BY <1>8, <1>9, <1>12 DEF put, px

LEMMA ColumnsSpan ==
  ASSUME NEW C, C \subseteq DisplayColumns, C # {}
  PROVE  Min(C) \in C /\ Max(C) \in C /\ \A x \in C : Min(C) <= x /\ x <= Max(C)
<1>1. C \subseteq Nat /\ \A x \in C : x < ILI9341_WIDTH
  BY DisplayAssumption DEF DisplayColumns
<1>2. \E n \in C : \A m \in C : n <= m
  BY <1>1, LeastNatural
<1>3. \E n \in C : \A m \in C : n >= m
  <2> DEFINE D == {ILI9341_WIDTH - x : x \in C}
  <2>1. D \subseteq Nat /\ D # {}
    <3>1. \A x \in C : ILI9341_WIDTH - x \in Nat
      BY <1>1, DisplayAssumption
    <3> QED BY <3>1
  <2>2. PICK k \in D : \A m \in D : k <= m
    <3> HIDE DEF D
    <3> QED BY <2>1, LeastNatural
  <2>3. PICK n \in C : k = ILI9341_WIDTH - n
    OBVIOUS
  <2>4. ASSUME NEW m \in C PROVE n >= m
    <3>1. ILI9341_WIDTH - m \in D
      OBVIOUS
    <3>2. k <= ILI9341_WIDTH - m /\ n \in Nat /\ m \in Nat
      BY <1>1, <2>2, <3>1
    <3> QED BY <2>3, <3>2, DisplayAssumption
  <2> QED BY <2>4
<1> DEFINE a == Min(C)
           b == Max(C)
<1>4. a \in C /\ \A m \in C : a <= m
  BY <1>2 DEF Min
<1>5. b \in C /\ \A m \in C : b >= m
  BY <1>3 DEF Max
<1> HIDE DEF a, b
<1>6. \A x \in C : a <= x /\ x <= b
  BY <1>1, <1>4, <1>5
<1> QED BY <1>4, <1>5, <1>6 DEF a, b

----
\* The encoder

Agrees(picture, s) == \A l \in s.known : picture[l] = s.pixels[l]
MessageType == [size : Nat \ {0}, colours : Pixel \X Pixel, rects : Seq(RectType)]
EncodeState ==
  [shadow : ShadowType, band : Seq(DisplayLines), columns : SUBSET DisplayColumns, full : BOOLEAN, wrote : Nat, msg : MessageType]

\* A page that has what s says has, after the message, what the shadow says.
Carries(shadow, msg, s) ==
  \A picture \in PictureType :
    Agrees(picture, s) => /\ Drawn(picture, msg.rects).colours = msg.colours
                          /\ Agrees(Drawn(picture, msg.rects).picture, shadow)
IsGathered(e) ==
  e.band # <<>> => IsBand(e.band) /\ e.columns # {} /\ (Rows(e.band) \subseteq e.shadow.known \/ e.columns = DisplayColumns)
Encodes(e, s) == e \in EncodeState /\ IsGathered(e) /\ Carries(e.shadow, e.msg, s)

LEMMA ShadowRectIs ==
  ASSUME NEW s \in ShadowType, NEW memory \in PictureType, NEW band, IsBand(band),
         NEW x0 \in DisplayColumns, NEW x1 \in DisplayColumns
  PROVE  LET t == ShadowRect(s, memory, band, x0, x1)
         IN /\ t \in ShadowType /\ t.known = s.known \cup Rows(band) /\ t.nextLine = s.nextLine
            /\ t.pixels = [l \in DisplayLines |-> [x \in DisplayColumns |->
                              IF l \in Rows(band) /\ x \in x0 .. x1 THEN memory[l][x] ELSE s.pixels[l][x]]]
<1> DEFINE At(l, x) == IF l \in Rows(band) /\ x \in x0 .. x1 THEN memory[l][x] ELSE s.pixels[l][x]
           pixels == [l \in DisplayLines |-> [x \in DisplayColumns |-> At(l, x)]]
           known == s.known \cup Rows(band)
           t == [s EXCEPT !.pixels = pixels, !.known = known]
<1>1. s \in [pixels : PictureType, known : SUBSET DisplayLines, nextLine : DisplayLines]
  BY DEF ShadowType
<1>2. \A l \in DisplayLines, x \in DisplayColumns : At(l, x) \in Pixel
  BY <1>1 DEF PictureType
<1>3. pixels \in PictureType
  <2> HIDE DEF At
  <2> QED BY <1>2 DEF PictureType
<1>4. known \in SUBSET DisplayLines
  BY <1>1, RowsOfBand
<1>5. ShadowRect(s, memory, band, x0, x1) = t
  BY DEF ShadowRect, Rows
<1> HIDE DEF pixels, known
<1>6. t \in ShadowType /\ t.pixels = pixels /\ t.known = known /\ t.nextLine = s.nextLine
  BY <1>1, <1>3, <1>4 DEF ShadowType
<1> HIDE DEF t
<1> QED BY <1>5, <1>6 DEF pixels, known

LEMMA PutBandCarries ==
  ASSUME NEW s \in ShadowType, NEW memory \in PictureType, NEW budget, NEW e, Encodes(e, s)
  PROVE  LET u == PutBand(e, memory, budget)
         IN u \in EncodeState /\ e.shadow.known \subseteq u.shadow.known /\ Carries(u.shadow, u.msg, s)
<1>1. e \in [shadow : ShadowType, band : Seq(DisplayLines), columns : SUBSET DisplayColumns, full : BOOLEAN, wrote : Nat, msg : MessageType]
  BY DEF Encodes, EncodeState
<1>2. CASE e.band = <<>>
  BY <1>2 DEF PutBand, Encodes
<1>3. CASE e.band # <<>>
  <2> DEFINE x0 == Min(e.columns)
             x1 == Max(e.columns)
             put == PutPixels(RectPixels(memory, e.band, x0, x1), e.msg.colours)
             size == e.msg.size + 5 + put.size
             rect == [line |-> e.band[1], x |-> x0, width |-> x1 - x0 + 1, height |-> Len(e.band), runs |-> put.runs]
             shadow == ShadowRect(e.shadow, memory, e.band, x0, x1)
             msg == [size |-> size, colours |-> put.colours, rects |-> Append(e.msg.rects, rect)]
             over == [e EXCEPT !.full = TRUE, !.wrote = size, !.shadow.nextLine = e.band[1]]
             within == [e EXCEPT !.wrote = size, !.shadow = shadow, !.msg = msg]
  <2>1. PutBand(e, memory, budget) = IF size > budget /\ e.msg.size > 1 THEN over ELSE within
    BY <1>3, <1>1 DEF PutBand
  <2>2. IsBand(e.band) /\ e.columns \subseteq DisplayColumns /\ e.columns # {}
    BY <1>1, <1>3 DEF Encodes, IsGathered
  <2>3. x0 \in e.columns /\ x1 \in e.columns /\ \A x \in e.columns : x0 <= x /\ x <= x1
    BY <2>2, ColumnsSpan
  <2> HIDE DEF x0, x1
  <2>4. x0 \in DisplayColumns /\ x1 \in DisplayColumns /\ x0 <= x1
    BY <2>2, <2>3
  <2>5. ASSUME NEW d \in DrawState, d.colours = e.msg.colours
        PROVE  /\ rect \in RectType /\ put.size \in Nat /\ put.colours \in Pixel \X Pixel
               /\ DecodeRect(d, rect) =
                    [colours |-> put.colours,
                     picture |-> [l \in DisplayLines |-> [x \in DisplayColumns |->
                                    IF l \in Rows(e.band) /\ x \in x0 .. x1 THEN memory[l][x] ELSE d.picture[l][x]]]]
    <3> DEFINE band == e.band
    <3>1. IsBand(band)
      BY <2>2
    <3> HIDE DEF band
    <3>2. LET p == PutPixels(RectPixels(memory, band, x0, x1), d.colours)
              r == [line |-> band[1], x |-> x0, width |-> x1 - x0 + 1, height |-> Len(band), runs |-> p.runs]
          IN /\ r \in RectType /\ p.size \in Nat /\ p.colours \in Pixel \X Pixel
             /\ DecodeRect(d, r) =
                  [colours |-> p.colours,
                   picture |-> [l \in DisplayLines |-> [x \in DisplayColumns |->
                                  IF l \in Rows(band) /\ x \in x0 .. x1 THEN memory[l][x] ELSE d.picture[l][x]]]]
      BY <2>4, <3>1, RectIsDrawn
    <3> QED BY <2>5, <3>2 DEF band
  <2>6. e.msg \in MessageType /\ e.shadow \in ShadowType
    BY <1>1
  <2>7. rect \in RectType /\ put.size \in Nat /\ put.colours \in Pixel \X Pixel
    <3> DEFINE d == [colours |-> e.msg.colours, picture |-> memory]
    <3>1. d \in DrawState /\ d.colours = e.msg.colours
      BY <2>6 DEF DrawState, MessageType
    <3> HIDE DEF d, rect, put
    <3> QED BY <2>5, <3>1
  <2> HIDE DEF put
  <2>19. size \in Nat
    <3>1. e.msg.size \in Nat
      BY <2>6 DEF MessageType
    <3> QED BY <2>7, <3>1
  <2>8. msg \in MessageType
    <3>1. e.msg.size \in Nat \ {0} /\ e.msg.rects \in Seq(RectType)
      BY <2>6 DEF MessageType
    <3>2. size \in Nat \ {0}
      BY <2>7, <3>1
    <3> HIDE DEF rect, size
    <3>3. Append(e.msg.rects, rect) \in Seq(RectType)
      BY <2>7, <3>1
    <3> QED BY <2>7, <3>2, <3>3 DEF MessageType
  <2>9. /\ shadow \in ShadowType /\ shadow.known = e.shadow.known \cup Rows(e.band)
        /\ shadow.pixels = [l \in DisplayLines |-> [x \in DisplayColumns |->
                              IF l \in Rows(e.band) /\ x \in x0 .. x1 THEN memory[l][x] ELSE e.shadow.pixels[l][x]]]
    <3> DEFINE band == e.band
               was == e.shadow
    <3>1. IsBand(band) /\ was \in ShadowType
      BY <2>2, <2>6
    <3> HIDE DEF band, was
    <3>2. LET t == ShadowRect(was, memory, band, x0, x1)
          IN /\ t \in ShadowType /\ t.known = was.known \cup Rows(band)
             /\ t.pixels = [l \in DisplayLines |-> [x \in DisplayColumns |->
                               IF l \in Rows(band) /\ x \in x0 .. x1 THEN memory[l][x] ELSE was.pixels[l][x]]]
      BY <2>4, <3>1, ShadowRectIs
    <3> QED BY <3>2 DEF band, was
  <2>10. over \in EncodeState /\ over.shadow.known = e.shadow.known /\ over.msg = e.msg /\ over.shadow.pixels = e.shadow.pixels
    <3>1. e.band[1] \in DisplayLines
      <4> DEFINE band == e.band
      <4>1. IsBand(band)
        BY <2>2
      <4> HIDE DEF band
      <4>2. band[1] \in DisplayLines
        BY <4>1, RowsOfBand
      <4> QED BY <4>2 DEF band
    <3> DEFINE later == [e.shadow EXCEPT !.nextLine = e.band[1]]
    <3>2. later \in ShadowType /\ later.known = e.shadow.known /\ later.pixels = e.shadow.pixels
      BY <2>6, <3>1 DEF ShadowType
    <3> HIDE DEF size
    <3>3. over = [e EXCEPT !.full = TRUE, !.wrote = size, !.shadow = later]
      BY <1>1
    <3> HIDE DEF later, over
    <3> QED BY <1>1, <2>19, <3>2, <3>3 DEF EncodeState
  <2>11. within \in EncodeState /\ within.shadow = shadow /\ within.msg = msg
    <3> HIDE DEF shadow, msg, size
    <3> QED BY <1>1, <2>8, <2>9, <2>19 DEF EncodeState
  <2>12. Carries(over.shadow, over.msg, s)
    <3> HIDE DEF over
    <3> QED BY <2>10 DEF Encodes, Carries, Agrees
  <2>13. ASSUME NEW picture \in PictureType, Agrees(picture, s)
         PROVE  Drawn(picture, msg.rects).colours = msg.colours /\ Agrees(Drawn(picture, msg.rects).picture, shadow)
    <3> DEFINE d == Drawn(picture, e.msg.rects)
               after == [l \in DisplayLines |-> [x \in DisplayColumns |->
                           IF l \in Rows(e.band) /\ x \in x0 .. x1 THEN memory[l][x] ELSE d.picture[l][x]]]
    <3>1. e.msg.rects \in Seq(RectType)
      BY <2>6 DEF MessageType
    <3>2. d \in DrawState /\ d.colours = e.msg.colours /\ Agrees(d.picture, e.shadow)
      BY <2>13, <3>1, DrawnTyped DEF Encodes, Carries
    <3>3. Drawn(picture, Append(e.msg.rects, rect)) = DecodeRect(d, rect)
      <4> HIDE DEF rect
      <4> QED BY <2>7, <3>1, DrawOneMore
    <3> HIDE DEF d, rect
    <3>4. DecodeRect(d, rect) = [colours |-> put.colours, picture |-> after]
      BY <2>5, <3>2
    <3>5. ASSUME NEW l \in shadow.known PROVE after[l] = shadow.pixels[l]
      <4>1. l \in DisplayLines
        BY <2>9 DEF ShadowType
      <4>2. after[l] = [x \in DisplayColumns |-> IF l \in Rows(e.band) /\ x \in x0 .. x1 THEN memory[l][x] ELSE d.picture[l][x]]
        BY <4>1
      <4>3. shadow.pixels[l] = [x \in DisplayColumns |-> IF l \in Rows(e.band) /\ x \in x0 .. x1 THEN memory[l][x] ELSE e.shadow.pixels[l][x]]
        BY <2>9, <4>1
      <4>4. CASE l \in e.shadow.known
        <5>1. d.picture[l] = e.shadow.pixels[l]
          BY <3>2, <4>4 DEF Agrees
        <5> QED BY <4>2, <4>3, <5>1
      <4>5. CASE l \notin e.shadow.known
        <5>1. l \in Rows(e.band) /\ e.columns = DisplayColumns
          BY <1>3, <2>9, <4>5 DEF Encodes, IsGathered
        <5>2. \A x \in DisplayColumns : x \in x0 .. x1
          <6>1. \A x \in DisplayColumns : x \in Int
            BY DisplayAssumption DEF DisplayColumns
          <6> QED BY <2>3, <2>4, <5>1, <6>1
        <5> QED BY <4>2, <4>3, <5>1, <5>2
      <4> QED BY <4>4, <4>5
    <3> HIDE DEF after, shadow
    <3>6. Agrees(after, shadow)
      BY <3>5 DEF Agrees
    <3>7. msg.rects = Append(e.msg.rects, rect) /\ msg.colours = put.colours
      OBVIOUS
    <3> HIDE DEF msg
    <3> QED BY <3>3, <3>4, <3>6, <3>7
  <2>14. Carries(shadow, msg, s)
    <3> HIDE DEF shadow, msg
    <3> QED BY <2>13 DEF Carries
  <2> HIDE DEF over, within, msg, shadow
  <2>15. e.shadow.known \subseteq shadow.known
    BY <2>9
  <2>16. Carries(within.shadow, within.msg, s)
    BY <2>11, <2>14
  <2> HIDE DEF size
  <2>17. CASE size > budget /\ e.msg.size > 1
    BY <2>1, <2>10, <2>12, <2>17
  <2>18. CASE ~(size > budget /\ e.msg.size > 1)
    BY <2>1, <2>11, <2>15, <2>16, <2>18
  <2> QED BY <2>17, <2>18
<1> QED BY <1>2, <1>3

LEMMA ChangedColumns ==
  ASSUME NEW s, NEW memory, NEW l
  PROVE  Changed(s, memory, l) \in SUBSET DisplayColumns /\ (l \in s.known \/ Changed(s, memory, l) = DisplayColumns)
BY DEF Changed

LEMMA EncodeLineEncodes ==
  ASSUME NEW s \in ShadowType, NEW memory \in PictureType, NEW budget, NEW e, Encodes(e, s), NEW l \in DisplayLines
  PROVE  Encodes(EncodeLine(e, memory, budget, l), s)
<1> DEFINE columns == Changed(e.shadow, memory, l)
           joins == columns # {} /\ e.band # <<>> /\ l = e.band[Len(e.band)] + 1 /\ Len(e.band) < WEB_DISPLAY_BAND
           put == PutBand(e, memory, budget)
           joined == [e EXCEPT !.band = Append(e.band, l), !.columns = e.columns \cup columns]
           band == IF columns = {} THEN <<>> ELSE <<l>>
           next == [put EXCEPT !.band = band, !.columns = columns]
<1>1. e \in [shadow : ShadowType, band : Seq(DisplayLines), columns : SUBSET DisplayColumns, full : BOOLEAN, wrote : Nat, msg : MessageType]
  BY DEF Encodes, EncodeState
<1>2. columns \in SUBSET DisplayColumns /\ (l \in e.shadow.known \/ columns = DisplayColumns)
  BY ChangedColumns
<1>3. EncodeLine(e, memory, budget, l) = IF e.full THEN e ELSE IF joins THEN joined ELSE next
  BY DEF EncodeLine
<1> HIDE DEF columns
<1>4. CASE joins
  <2> DEFINE more == Append(e.band, l)
             n == Len(e.band)
  <2>1. IsBand(e.band) /\ (Rows(e.band) \subseteq e.shadow.known \/ e.columns = DisplayColumns)
    BY <1>4 DEF Encodes, IsGathered
  <2>2. /\ more \in Seq(DisplayLines) /\ Len(more) = n + 1 /\ more[n + 1] = l /\ n \in Nat \ {0}
        /\ \A i \in 1 .. n : more[i] = e.band[i]
    BY <2>1 DEF IsBand
  <2>3. e.band[n] = e.band[1] + (n - 1) /\ e.band[1] \in Int
    <3>1. e.band[1] \in DisplayLines
      BY <2>1, <2>2 DEF IsBand
    <3> QED BY <2>1, <2>2, <3>1, DisplayAssumption DEF IsBand, DisplayLines
  <2> HIDE DEF more
  <2>4. \A i \in 1 .. Len(more) : more[i] = more[1] + (i - 1)
    <3> TAKE i \in 1 .. Len(more)
    <3>1. more[1] = e.band[1]
      BY <2>2
    <3>2. CASE i = n + 1
      <4>1. l = e.band[n] + 1
        BY <1>4
      <4>2. more[n + 1] = l /\ n \in Nat \ {0}
        BY <2>2
      <4> HIDE DEF n
      <4> QED BY <2>3, <3>1, <3>2, <4>1, <4>2
    <3>3. CASE i # n + 1
      <4>1. i \in 1 .. n
        BY <2>2, <3>3
      <4> QED BY <2>1, <2>2, <3>1, <4>1 DEF IsBand
    <3> QED BY <3>2, <3>3
  <2>5. IsBand(more)
    BY <2>2, <2>4 DEF IsBand
  <2>6. Rows(more) = Rows(e.band) \cup {l}
    <3>1. DOMAIN more = 1 .. n + 1 /\ DOMAIN e.band = 1 .. n
      BY <1>1, <2>2
    <3>2. \A r \in Rows(more) : r \in Rows(e.band) \cup {l}
      BY <2>2, <3>1 DEF Rows
    <3>3. \A r \in Rows(e.band) : r \in Rows(more)
      BY <2>2, <3>1 DEF Rows
    <3>4. l \in Rows(more)
      BY <2>2, <3>1 DEF Rows
    <3> QED BY <3>2, <3>3, <3>4
  <2>7. joined \in EncodeState
    BY <1>1, <1>2, <2>2 DEF EncodeState, more
  <2>8. joined.band = more /\ joined.columns = e.columns \cup columns /\ joined.shadow = e.shadow /\ joined.msg = e.msg
    BY <1>1 DEF more
  <2> HIDE DEF joined
  <2>9. Rows(more) \subseteq e.shadow.known \/ joined.columns = DisplayColumns
    BY <1>1, <1>2, <2>1, <2>6, <2>8
  <2>10. joined.columns # {}
    BY <1>4, <2>8
  <2>11. IsGathered(joined)
    BY <2>5, <2>8, <2>9, <2>10 DEF IsGathered
  <2> HIDE DEF joins
  <2> QED BY <1>3, <1>4, <2>7, <2>8, <2>11 DEF Encodes
<1>5. CASE ~joins
  <2>1. put \in EncodeState /\ e.shadow.known \subseteq put.shadow.known /\ Carries(put.shadow, put.msg, s)
    BY PutBandCarries
  <2> HIDE DEF put
  <2>2. put \in [shadow : ShadowType, band : Seq(DisplayLines), columns : SUBSET DisplayColumns, full : BOOLEAN, wrote : Nat, msg : MessageType]
    BY <2>1 DEF EncodeState
  <2>3. band \in Seq(DisplayLines)
    OBVIOUS
  <2>4. columns # {} => IsBand(band) /\ Rows(band) = {l}
    <3> HAVE columns # {}
    <3>1. band = <<l>> /\ Len(<<l>>) = 1 /\ DOMAIN <<l>> = {1} /\ <<l>>[1] = l /\ <<l>> # <<>>
      OBVIOUS
    <3>2. l \in Int
      BY DisplayAssumption DEF DisplayLines
    <3>3. \A i \in 1 .. 1 : l = l + (i - 1)
      BY <3>2
    <3> QED BY <2>3, <3>1, <3>3 DEF IsBand, Rows
  <2>5. columns = {} => band = <<>>
    OBVIOUS
  <2> HIDE DEF band
  <2>6. next \in EncodeState /\ next.band = band /\ next.columns = columns /\ next.shadow = put.shadow /\ next.msg = put.msg
    BY <1>2, <2>2, <2>3 DEF EncodeState
  <2> HIDE DEF next
  <2>7. IsGathered(next)
    BY <1>2, <2>1, <2>4, <2>5, <2>6 DEF IsGathered
  <2> HIDE DEF joins
  <2> QED BY <1>3, <1>5, <2>1, <2>6, <2>7 DEF Encodes
<1> QED BY <1>4, <1>5


\* The most a rectangle takes: its header, and every pixel alone between two others.
RectBytes == 5 + 3 * (WEB_DISPLAY_BAND * ILI9341_WIDTH)

LEMMA AreaFits ==
  ASSUME NEW w \in Nat, NEW h \in Nat, NEW a \in Nat, NEW b \in Nat, w <= a, h <= b
  PROVE  w * h <= b * a /\ w * h \in Nat /\ b * a \in Nat
<1>1. w * h \in Nat /\ a * h \in Nat /\ a * b \in Nat /\ b * a = a * b
  OBVIOUS
<1>2. (a - w) * h \in Nat /\ a * h = w * h + (a - w) * h
  OBVIOUS
<1>3. a * (b - h) \in Nat /\ a * b = a * h + a * (b - h)
  OBVIOUS
<1> QED BY <1>1, <1>2, <1>3

\* What is in the message is within the budget, or is the first rectangle; what has been
\* written is no more than a rectangle further.
Fits(e, budget) ==
  /\ Len(e.band) <= WEB_DISPLAY_BAND
  /\ e.msg.rects = <<>> <=> e.msg.size = 1
  /\ e.msg.size <= budget \/ (Len(e.msg.rects) <= 1 /\ e.msg.size <= 1 + RectBytes)
  /\ e.wrote <= budget + RectBytes \/ e.wrote <= 1 + 2 * RectBytes

LEMMA PutBandFits ==
  ASSUME NEW s \in ShadowType, NEW memory \in PictureType, NEW budget \in Int, NEW e, Encodes(e, s), Fits(e, budget)
  PROVE  Fits(PutBand(e, memory, budget), budget)
<1>1. e \in [shadow : ShadowType, band : Seq(DisplayLines), columns : SUBSET DisplayColumns, full : BOOLEAN, wrote : Nat, msg : MessageType]
  BY DEF Encodes, EncodeState
<1>2. CASE e.band = <<>>
  BY <1>2 DEF PutBand
<1>3. CASE e.band # <<>>
  <2> DEFINE band == e.band
             x0 == Min(e.columns)
             x1 == Max(e.columns)
             put == PutPixels(RectPixels(memory, band, x0, x1), e.msg.colours)
             size == e.msg.size + 5 + put.size
             rect == [line |-> band[1], x |-> x0, width |-> x1 - x0 + 1, height |-> Len(band), runs |-> put.runs]
             shadow == ShadowRect(e.shadow, memory, band, x0, x1)
             msg == [size |-> size, colours |-> put.colours, rects |-> Append(e.msg.rects, rect)]
             over == [e EXCEPT !.full = TRUE, !.wrote = size, !.shadow.nextLine = band[1]]
             within == [e EXCEPT !.wrote = size, !.shadow = shadow, !.msg = msg]
  <2>1. PutBand(e, memory, budget) = IF size > budget /\ e.msg.size > 1 THEN over ELSE within
    BY <1>3, <1>1 DEF PutBand
  <2>2. IsBand(band) /\ e.columns \subseteq DisplayColumns /\ e.columns # {}
    BY <1>1, <1>3 DEF Encodes, IsGathered
  <2>3. x0 \in e.columns /\ x1 \in e.columns /\ \A x \in e.columns : x0 <= x /\ x <= x1
    BY <2>2, ColumnsSpan
  <2> HIDE DEF x0, x1
  <2>4. x0 \in DisplayColumns /\ x1 \in DisplayColumns /\ x0 <= x1
    BY <2>2, <2>3
  <2>5. e.msg \in MessageType /\ e.msg.size \in Nat \ {0} /\ e.msg.rects \in Seq(RectType) /\ e.msg.colours \in Pixel \X Pixel
    BY <1>1 DEF MessageType
  <2>6. put.size \in Nat /\ put.size <= 3 * ((x1 - x0 + 1) * Len(band))
    <3> DEFINE d == [colours |-> e.msg.colours, picture |-> memory]
    <3>1. d \in DrawState /\ d.colours = e.msg.colours
      BY <2>5 DEF DrawState
    <3> HIDE DEF d, band
    <3> QED BY <2>2, <2>4, <3>1, RectIsDrawn
  <2>7. put.size + 5 <= RectBytes /\ RectBytes \in Nat
    <3> DEFINE w == x1 - x0 + 1
               h == Len(band)
               area == w * h
               all == WEB_DISPLAY_BAND * ILI9341_WIDTH
    <3>1. w \in Nat /\ w <= ILI9341_WIDTH /\ ILI9341_WIDTH \in Nat /\ WEB_DISPLAY_BAND \in Nat
      BY <2>4, DisplayAssumption DEF DisplayColumns
    <3>2. h \in Nat /\ h <= WEB_DISPLAY_BAND
      BY <1>1 DEF Fits
    <3>3. area <= all /\ area \in Nat /\ all \in Nat
      <4> HIDE DEF w, h
      <4> QED BY <3>1, <3>2, AreaFits
    <3>4. put.size <= 3 * area
      BY <2>6
    <3>5. RectBytes = 5 + 3 * all
      BY DEF RectBytes
    <3> HIDE DEF area, all, put
    <3> QED BY <2>6, <3>3, <3>4, <3>5
  <2> HIDE DEF put
  <2>8. size \in Nat /\ size > 1 /\ size <= e.msg.size + RectBytes
    <3> DEFINE a == e.msg.size
               b == put.size
    <3>1. a \in Nat \ {0} /\ b \in Nat /\ b + 5 <= RectBytes /\ RectBytes \in Nat
      BY <2>5, <2>6, <2>7
    <3> HIDE DEF a, b
    <3>2. a + 5 + b \in Nat /\ a + 5 + b > 1 /\ a + 5 + b <= a + RectBytes
      BY <3>1
    <3> QED BY <3>2 DEF a, b
  <2> HIDE DEF size, rect, shadow
  <2>9. size <= budget + RectBytes \/ size <= 1 + 2 * RectBytes
    BY <2>5, <2>7, <2>8 DEF Fits
  <2>10. CASE size > budget /\ e.msg.size > 1
    <3>1. over.band = e.band /\ over.msg = e.msg /\ over.wrote = size
      BY <1>1
    <3> HIDE DEF over
    <3>2. Fits(over, budget)
      BY <2>9, <3>1 DEF Fits
    <3> QED BY <2>1, <2>10, <3>2
  <2>11. CASE ~(size > budget /\ e.msg.size > 1)
    <3>1. within.band = e.band /\ within.msg = msg /\ within.wrote = size
      <4> HIDE DEF msg
      <4> QED BY <1>1
    <3>2. msg.size = size /\ msg.rects = Append(e.msg.rects, rect)
      OBVIOUS
    <3>3. msg.rects # <<>> /\ Len(msg.rects) = Len(e.msg.rects) + 1
      <4> HIDE DEF msg
      <4> QED BY <2>5, <3>2
    <3> HIDE DEF within, msg
    <3>4. size <= budget \/ (Len(msg.rects) <= 1 /\ size <= 1 + RectBytes)
      <4>1. CASE e.msg.size > 1
        BY <2>8, <2>11, <4>1
      <4>2. CASE ~(e.msg.size > 1)
        <5>1. e.msg.size = 1 /\ e.msg.rects = <<>>
          BY <2>5, <4>2 DEF Fits
        <5>2. Len(msg.rects) = 1
          BY <3>3, <5>1
        <5> QED BY <2>8, <5>1, <5>2
      <4> QED BY <4>1, <4>2
    <3>5. msg.size # 1
      BY <2>8, <3>2
    <3>6. Fits(within, budget)
      BY <2>9, <3>1, <3>2, <3>3, <3>4, <3>5 DEF Fits
    <3> QED BY <2>1, <2>11, <3>6
  <2> QED BY <2>10, <2>11
<1> QED BY <1>2, <1>3

LEMMA EncodeLineFits ==
  ASSUME NEW s \in ShadowType, NEW memory \in PictureType, NEW budget \in Int, NEW e, Encodes(e, s), Fits(e, budget),
         NEW l \in DisplayLines
  PROVE  Fits(EncodeLine(e, memory, budget, l), budget)
<1> DEFINE columns == Changed(e.shadow, memory, l)
           joins == columns # {} /\ e.band # <<>> /\ l = e.band[Len(e.band)] + 1 /\ Len(e.band) < WEB_DISPLAY_BAND
           put == PutBand(e, memory, budget)
           joined == [e EXCEPT !.band = Append(e.band, l), !.columns = e.columns \cup columns]
           band == IF columns = {} THEN <<>> ELSE <<l>>
           next == [put EXCEPT !.band = band, !.columns = columns]
<1>1. e \in [shadow : ShadowType, band : Seq(DisplayLines), columns : SUBSET DisplayColumns, full : BOOLEAN, wrote : Nat, msg : MessageType]
  BY DEF Encodes, EncodeState
<1>2. EncodeLine(e, memory, budget, l) = IF e.full THEN e ELSE IF joins THEN joined ELSE next
  BY DEF EncodeLine
<1> HIDE DEF columns
<1>3. CASE joins
  <2>1. joined.band = Append(e.band, l) /\ joined.msg = e.msg /\ joined.wrote = e.wrote
    BY <1>1
  <2> HIDE DEF joined
  <2>2. Len(Append(e.band, l)) = Len(e.band) + 1 /\ Len(e.band) \in Nat
    BY <1>1
  <2>3. Len(joined.band) <= WEB_DISPLAY_BAND
    BY <1>3, <2>1, <2>2, DisplayAssumption
  <2>4. Fits(joined, budget)
    BY <2>1, <2>3 DEF Fits
  <2> HIDE DEF joins
  <2> QED BY <1>2, <1>3, <2>4
<1>4. CASE ~joins
  <2>1. put \in EncodeState /\ Fits(put, budget)
    BY PutBandCarries, PutBandFits
  <2> HIDE DEF put
  <2>2. Len(band) <= WEB_DISPLAY_BAND
    <3>1. Len(<<>>) = 0 /\ Len(<<l>>) = 1
      OBVIOUS
    <3>2. Len(band) = 0 \/ Len(band) = 1
      BY <3>1
    <3>3. WEB_DISPLAY_BAND \in Nat \ {0}
      BY DisplayAssumption
    <3> DEFINE n == Len(band)
    <3>4. n = 0 \/ n = 1
      BY <3>2
    <3> HIDE DEF n
    <3>5. n <= WEB_DISPLAY_BAND
      BY <3>3, <3>4
    <3> QED BY <3>5 DEF n
  <2> HIDE DEF band
  <2>3. next.band = band /\ next.msg = put.msg /\ next.wrote = put.wrote
    BY <2>1 DEF EncodeState
  <2> HIDE DEF next
  <2>4. Fits(next, budget)
    BY <2>1, <2>2, <2>3 DEF Fits
  <2> HIDE DEF joins
  <2> QED BY <1>2, <1>4, <2>4
<1> QED BY <1>3, <1>4


\* What the page misses of some lines is gathered, unless the message is full.
Has(shadow, memory, l) == l \in shadow.known /\ shadow.pixels[l] = memory[l]
IsFull(e, budget) == e.msg.rects # <<>> /\ e.wrote > budget
Covers(e, memory, budget, lines) ==
  /\ e.full => IsFull(e, budget)
  /\ ~e.full => \A l \in lines : Has(e.shadow, memory, l) \/ l \in Rows(e.band)
  /\ \A l \in Rows(e.band) \cap e.shadow.known : \A x \in DisplayColumns \ e.columns : e.shadow.pixels[l][x] = memory[l][x]

\* A shadow that has what it had, or the memory's.
IsLater(now, was, memory) ==
  \A l \in DisplayLines, x \in DisplayColumns : now.pixels[l][x] = was.pixels[l][x] \/ now.pixels[l][x] = memory[l][x]

LEMMA SameRows ==
  ASSUME NEW p \in PictureType, NEW q \in PictureType, NEW l \in DisplayLines, \A x \in DisplayColumns : p[l][x] = q[l][x]
  PROVE  p[l] = q[l]
<1>1. p[l] \in [DisplayColumns -> Pixel] /\ q[l] \in [DisplayColumns -> Pixel]
  BY DEF PictureType
<1> QED BY <1>1

LEMMA PutBandCovers ==
  ASSUME NEW s \in ShadowType, NEW memory \in PictureType, NEW budget \in Int, NEW e, Encodes(e, s), Fits(e, budget),
         NEW lines \in SUBSET DisplayLines, Covers(e, memory, budget, lines), ~e.full
  PROVE  LET u == PutBand(e, memory, budget)
         IN /\ u.full => IsFull(u, budget)
            /\ ~u.full => \A l \in lines : Has(u.shadow, memory, l)
            /\ IsLater(u.shadow, e.shadow, memory)
<1>1. e \in [shadow : ShadowType, band : Seq(DisplayLines), columns : SUBSET DisplayColumns, full : BOOLEAN, wrote : Nat, msg : MessageType]
  BY DEF Encodes, EncodeState
<1>2. CASE e.band = <<>>
  <2>1. Rows(e.band) = {}
    BY <1>2 DEF Rows
  <2>2. PutBand(e, memory, budget) = e
    BY <1>2 DEF PutBand
  <2> QED BY <2>1, <2>2 DEF Covers, IsLater
<1>3. CASE e.band # <<>>
  <2> DEFINE band == e.band
             was == e.shadow
             x0 == Min(e.columns)
             x1 == Max(e.columns)
             put == PutPixels(RectPixels(memory, band, x0, x1), e.msg.colours)
             size == e.msg.size + 5 + put.size
             rect == [line |-> band[1], x |-> x0, width |-> x1 - x0 + 1, height |-> Len(band), runs |-> put.runs]
             shadow == ShadowRect(was, memory, band, x0, x1)
             msg == [size |-> size, colours |-> put.colours, rects |-> Append(e.msg.rects, rect)]
             over == [e EXCEPT !.full = TRUE, !.wrote = size, !.shadow.nextLine = band[1]]
             within == [e EXCEPT !.wrote = size, !.shadow = shadow, !.msg = msg]
  <2>1. PutBand(e, memory, budget) = IF size > budget /\ e.msg.size > 1 THEN over ELSE within
    BY <1>3, <1>1 DEF PutBand
  <2>2. IsBand(band) /\ e.columns \subseteq DisplayColumns /\ e.columns # {} /\ (Rows(band) \subseteq was.known \/ e.columns = DisplayColumns)
    BY <1>1, <1>3 DEF Encodes, IsGathered
  <2>3. x0 \in e.columns /\ x1 \in e.columns /\ \A x \in e.columns : x0 <= x /\ x <= x1
    BY <2>2, ColumnsSpan
  <2> HIDE DEF x0, x1
  <2>4. x0 \in DisplayColumns /\ x1 \in DisplayColumns /\ was \in ShadowType
    BY <1>1, <2>2, <2>3
  <2>5. /\ shadow \in ShadowType /\ shadow.known = was.known \cup Rows(band)
        /\ shadow.pixels = [l \in DisplayLines |-> [x \in DisplayColumns |->
                              IF l \in Rows(band) /\ x \in x0 .. x1 THEN memory[l][x] ELSE was.pixels[l][x]]]
    <3> HIDE DEF band, was
    <3> QED BY <2>2, <2>4, ShadowRectIs
  <2> HIDE DEF size, msg, shadow
  <2>6. CASE size > budget /\ e.msg.size > 1
    <3>1. over.full /\ over.wrote = size /\ over.msg = e.msg
      BY <1>1
    <3>2. over.shadow.pixels = was.pixels
      BY <1>1 DEF ShadowType
    <3> HIDE DEF over, was
    <3>3. e.msg.rects # <<>>
      BY <2>6 DEF Fits
    <3> QED BY <2>1, <2>6, <3>1, <3>2, <3>3 DEF IsFull, IsLater, was
  <2>7. CASE ~(size > budget /\ e.msg.size > 1)
    <3>1. ~within.full /\ within.shadow = shadow
      BY <1>1
    <3> HIDE DEF within
    <3>2. \A l \in DisplayLines, x \in DisplayColumns :
            shadow.pixels[l][x] = IF l \in Rows(band) /\ x \in x0 .. x1 THEN memory[l][x] ELSE was.pixels[l][x]
      <4> HIDE DEF band, was
      <4> QED BY <2>5
    <3>3. IsLater(shadow, was, memory)
      BY <3>2 DEF IsLater
    <3>4. ASSUME NEW l \in lines PROVE Has(shadow, memory, l)
      <4>1. CASE l \in Rows(band)
        <5>1. ASSUME NEW x \in DisplayColumns PROVE shadow.pixels[l][x] = memory[l][x]
          <6>1. CASE x \in x0 .. x1
            BY <3>2, <4>1, <6>1
          <6>2. CASE x \notin x0 .. x1
            <7>1. x \notin e.columns
              <8>1. x \in Int /\ x0 \in Int /\ x1 \in Int
                BY <2>4, DisplayAssumption DEF DisplayColumns
              <8> QED BY <2>3, <6>2, <8>1
            <7>2. l \in was.known
              BY <2>2, <4>1, <7>1
            <7>3. was.pixels[l][x] = memory[l][x]
              BY <4>1, <7>1, <7>2 DEF Covers
            <7> QED BY <3>2, <6>2, <7>3
          <6> QED BY <6>1, <6>2
        <5>2. shadow.pixels \in PictureType
          BY <2>5 DEF ShadowType
        <5>3. shadow.pixels[l] = memory[l]
          BY <5>1, <5>2, SameRows
        <5> QED BY <2>5, <4>1, <5>3 DEF Has
      <4>2. CASE l \notin Rows(band)
        <5>1. l \in was.known /\ was.pixels[l] = memory[l]
          BY <4>2 DEF Covers, Has
        <5>2. \A x \in DisplayColumns : shadow.pixels[l][x] = memory[l][x]
          BY <3>2, <4>2, <5>1
        <5>3. shadow.pixels \in PictureType
          BY <2>5 DEF ShadowType
        <5>4. shadow.pixels[l] = memory[l]
          BY <5>2, <5>3, SameRows
        <5> QED BY <2>5, <5>1, <5>4 DEF Has
      <4> QED BY <4>1, <4>2
    <3> QED BY <2>1, <2>7, <3>1, <3>3, <3>4
  <2> QED BY <2>6, <2>7
<1> QED BY <1>2, <1>3

\* Where a line is not changed, the page has it.
LEMMA ChangedOrHad ==
  ASSUME NEW s \in ShadowType, NEW memory \in PictureType, NEW l \in DisplayLines
  PROVE  /\ Changed(s, memory, l) = {} => l \in s.known
         /\ l \in s.known => \A x \in DisplayColumns \ Changed(s, memory, l) : s.pixels[l][x] = memory[l][x]
<1>1. DisplayColumns # {}
  <2>1. 0 \in DisplayColumns
    BY DisplayAssumption DEF DisplayColumns
  <2> QED BY <2>1
<1>2. ASSUME l \in s.known, NEW x \in DisplayColumns, s.pixels[l][x] # memory[l][x] PROVE x \in Changed(s, memory, l)
  <2>1. x <= x
    BY DisplayAssumption DEF DisplayColumns
  <2> QED BY <1>2, <2>1 DEF Changed
<1> QED BY <1>1, <1>2 DEF Changed

LEMMA EncodeLineCovers ==
  ASSUME NEW s \in ShadowType, NEW memory \in PictureType, NEW budget \in Int, NEW e, Encodes(e, s), Fits(e, budget),
         NEW l \in DisplayLines, NEW lines \in SUBSET DisplayLines, Covers(e, memory, budget, lines)
  PROVE  Covers(EncodeLine(e, memory, budget, l), memory, budget, lines \cup {l})
<1> DEFINE columns == Changed(e.shadow, memory, l)
           joins == columns # {} /\ e.band # <<>> /\ l = e.band[Len(e.band)] + 1 /\ Len(e.band) < WEB_DISPLAY_BAND
           put == PutBand(e, memory, budget)
           joined == [e EXCEPT !.band = Append(e.band, l), !.columns = e.columns \cup columns]
           band == IF columns = {} THEN <<>> ELSE <<l>>
           next == [put EXCEPT !.band = band, !.columns = columns]
<1>1. e \in [shadow : ShadowType, band : Seq(DisplayLines), columns : SUBSET DisplayColumns, full : BOOLEAN, wrote : Nat, msg : MessageType]
  BY DEF Encodes, EncodeState
<1>2. EncodeLine(e, memory, budget, l) = IF e.full THEN e ELSE IF joins THEN joined ELSE next
  BY DEF EncodeLine
<1>3. /\ columns \in SUBSET DisplayColumns /\ (l \in e.shadow.known \/ columns = DisplayColumns)
      /\ columns = {} => l \in e.shadow.known
      /\ l \in e.shadow.known => \A x \in DisplayColumns \ columns : e.shadow.pixels[l][x] = memory[l][x]
  BY <1>1, ChangedColumns, ChangedOrHad
<1> HIDE DEF columns
<1>4. CASE e.full
  <2>1. EncodeLine(e, memory, budget, l) = e
    BY <1>2, <1>4
  <2> QED BY <1>4, <2>1 DEF Covers
<1>5. CASE ~e.full /\ joins
  <2> DEFINE more == Append(e.band, l)
  <2>1. joined.band = more /\ joined.columns = e.columns \cup columns /\ joined.shadow = e.shadow /\ joined.full = e.full
    BY <1>1
  <2>2. \A r \in Rows(more) : r \in Rows(e.band) \cup {l}
    BY <1>1 DEF Rows
  <2>3. Rows(e.band) \subseteq Rows(more) /\ l \in Rows(more)
    <3>1. Len(e.band) \in Nat /\ DOMAIN more = 1 .. Len(e.band) + 1 /\ more[Len(e.band) + 1] = l
      BY <1>1
    <3>2. \A i \in DOMAIN e.band : i \in DOMAIN more /\ more[i] = e.band[i]
      BY <1>1
    <3> QED BY <3>1, <3>2 DEF Rows
  <2> HIDE DEF more, joined, joins
  <2>4. \A r \in Rows(joined.band) \cap joined.shadow.known : \A x \in DisplayColumns \ joined.columns : joined.shadow.pixels[r][x] = memory[r][x]
    BY <1>3, <2>1, <2>2 DEF Covers
  <2>5. \A r \in lines \cup {l} : Has(joined.shadow, memory, r) \/ r \in Rows(joined.band)
    BY <1>5, <2>1, <2>3 DEF Covers
  <2>6. Covers(joined, memory, budget, lines \cup {l})
    BY <1>5, <2>1, <2>4, <2>5 DEF Covers
  <2> QED BY <1>2, <1>5, <2>6
<1>6. CASE ~e.full /\ ~joins
  <2>1. /\ put \in EncodeState /\ e.shadow.known \subseteq put.shadow.known
        /\ put.full => IsFull(put, budget)
        /\ ~put.full => \A r \in lines : Has(put.shadow, memory, r)
        /\ IsLater(put.shadow, e.shadow, memory)
    BY <1>6, PutBandCarries, PutBandCovers
  <2>2. put \in [shadow : ShadowType, band : Seq(DisplayLines), columns : SUBSET DisplayColumns, full : BOOLEAN, wrote : Nat, msg : MessageType]
    BY <2>1 DEF EncodeState
  <2> HIDE DEF put, joins
  <2>3. Rows(band) = IF columns = {} THEN {} ELSE {l}
    <3>1. Rows(<<>>) = {} /\ Rows(<<l>>) = {l}
      BY DEF Rows
    <3> QED BY <3>1
  <2> HIDE DEF band
  <2>4. /\ next.band = band /\ next.columns = columns /\ next.shadow = put.shadow /\ next.full = put.full
        /\ next.msg = put.msg /\ next.wrote = put.wrote
    BY <2>2
  <2> HIDE DEF next
  <2>5. ASSUME l \in e.shadow.known, NEW x \in DisplayColumns \ columns PROVE put.shadow.pixels[l][x] = memory[l][x]
    BY <1>3, <2>1, <2>5 DEF IsLater
  <2>6. \A r \in Rows(next.band) \cap next.shadow.known : \A x \in DisplayColumns \ next.columns : next.shadow.pixels[r][x] = memory[r][x]
    BY <1>3, <2>3, <2>4, <2>5
  <2>7. Has(put.shadow, memory, l) \/ l \in Rows(band)
    <3>1. CASE columns = {}
      <4>1. \A x \in DisplayColumns : put.shadow.pixels[l][x] = memory[l][x]
        BY <1>3, <2>5, <3>1
      <4>2. put.shadow.pixels \in PictureType
        BY <2>2 DEF ShadowType
      <4>3. put.shadow.pixels[l] = memory[l]
        BY <4>1, <4>2, SameRows
      <4> QED BY <1>3, <2>1, <3>1, <4>3 DEF Has
    <3>2. CASE columns # {}
      BY <2>3, <3>2
    <3> QED BY <3>1, <3>2
  <2>8. Covers(next, memory, budget, lines \cup {l})
    BY <2>1, <2>4, <2>6, <2>7 DEF Covers, IsFull
  <2> QED BY <1>2, <1>6, <2>8
<1> QED BY <1>4, <1>5, <1>6

\* A turn for each line, whichever is the first.
LEMMA TurnOfLine ==
  ASSUME NEW first \in DisplayLines, NEW l \in DisplayLines
  PROVE  \E i \in 1 .. ILI9341_LINES : l = (first + i - 1) % ILI9341_LINES
<1> DEFINE n == ILI9341_LINES
<1>1. n \in Nat \ {0} /\ first \in 0 .. n - 1 /\ l \in 0 .. n - 1
  BY DisplayAssumption DEF DisplayLines
<1> HIDE DEF n
<1>2. (0 * n + l) % n = l /\ (1 * n + l) % n = l
  BY <1>1, RowAndColumn
<1>3. CASE l >= first
  <2>1. l - first + 1 \in 1 .. n /\ first + (l - first + 1) - 1 = 0 * n + l
    BY <1>1, <1>3
  <2> QED BY <1>2, <2>1 DEF n
<1>4. CASE ~(l >= first)
  <2>1. l - first + 1 + n \in 1 .. n /\ first + (l - first + 1 + n) - 1 = 1 * n + l
    BY <1>1, <1>4
  <2> QED BY <1>2, <2>1 DEF n
<1> QED BY <1>3, <1>4

LEMMA LineTurnsEncode ==
  ASSUME NEW s \in ShadowType, NEW memory \in PictureType, NEW budget \in Int, NEW first \in DisplayLines
  PROVE  LET e == LineTurns(s, memory, budget, first)[ILI9341_LINES]
         IN Encodes(e, s) /\ Fits(e, budget) /\ Covers(e, memory, budget, DisplayLines)
<1> DEFINE d == NewMessage(s)
           T == LineTurns(s, memory, budget, first)
           n == ILI9341_LINES
           S == {e \in EncodeState : Encodes(e, s) /\ Fits(e, budget)}
           Line(i) == (first + i - 1) % ILI9341_LINES
           Op(e, k) == EncodeLine(e, memory, budget, Line(k))
           step == [k \in 1 .. n |-> [e \in S |-> Op(e, k)]]
<1>1. n \in Nat
  BY DisplayAssumption
<1>2. ASSUME NEW k \in 1 .. n PROVE Line(k) \in DisplayLines
  BY DisplayAssumption DEF DisplayLines
<1> HIDE DEF Line
<1>3. ASSUME NEW e \in S, NEW k \in 1 .. n PROVE Op(e, k) \in S
  <2>1. Encodes(Op(e, k), s) /\ Fits(Op(e, k), budget)
    BY <1>2, EncodeLineEncodes, EncodeLineFits
  <2> QED BY <2>1 DEF Encodes
<1>4. d \in S
  <2>1. [size |-> 1, colours |-> <<Black, White>>, rects |-> <<>>] \in MessageType
    BY FreshTyped DEF MessageType
  <2>2. /\ d \in EncodeState /\ d.band = <<>> /\ d.shadow = s /\ d.msg.rects = <<>> /\ d.msg.colours = <<Black, White>>
        /\ d.msg.size = 1 /\ d.wrote = 1
    BY <2>1 DEF NewMessage, EncodeState
  <2> HIDE DEF d
  <2>3. Carries(s, d.msg, s)
    BY <2>2, DrawNothing DEF Carries, Fresh
  <2>4. RectBytes \in Nat
    <3>1. WEB_DISPLAY_BAND * ILI9341_WIDTH \in Nat
      BY DisplayAssumption
    <3> QED BY <3>1 DEF RectBytes
  <2>5. Fits(d, budget)
    <3>1. Len(<<>>) = 0
      OBVIOUS
    <3> QED BY <2>2, <2>4, <3>1, DisplayAssumption DEF Fits
  <2> QED BY <2>2, <2>3, <2>5 DEF Encodes, IsGathered
<1> HIDE DEF d, S, Op
<1>5. step \in StepsOn(S, n)
  BY <1>3 DEF StepsOn
<1>6. PICK f : IsTaken(f, S, d, step, n)
  <2> HIDE DEF step, n
  <2> QED BY <1>1, <1>4, <1>5, StepsAreTaken
<1>7. f \in [0 .. n -> S] /\ f[0] = d /\ \A k \in 1 .. n : f[k] = step[k][f[k - 1]]
  <2> HIDE DEF step, n
  <2> QED BY <1>6 DEF IsTaken
<1>8. \A k \in 1 .. n : f[k] = Op(f[k - 1], k)
  <2> TAKE k \in 1 .. n
  <2>1. f[k - 1] \in S /\ f[k] = step[k][f[k - 1]]
    BY <1>1, <1>7
  <2>2. step[k] = [e \in S |-> Op(e, k)]
    OBVIOUS
  <2> HIDE DEF step
  <2> QED BY <2>1, <2>2
<1> HIDE DEF step
<1>9. f = [k \in 0 .. n |-> IF k = 0 THEN d ELSE Op(f[k - 1], k)]
  BY <1>1, <1>7, <1>8
<1>10. T = [k \in 0 .. n |-> IF k = 0 THEN d ELSE Op(T[k - 1], k)]
  BY <1>1, <1>9 DEF LineTurns, Turns, d, Op, Line
<1> HIDE DEF T
<1>11. T[0] = d /\ \A k \in 1 .. n : T[k] = Op(T[k - 1], k)
  BY <1>1, <1>10
<1>12. T[n] = f[n] /\ f[n] \in S
  <2>1. Agree(T, f, n)
    BY <1>7, <1>8, <1>11 DEF Agree
  <2> HIDE DEF n
  <2> QED BY <1>1, <1>7, <2>1, SameTurns
<1> DEFINE Visited(k) == {Line(i) : i \in 1 .. k}
<1>13. \A k \in 0 .. n : Covers(f[k], memory, budget, Visited(k))
  <2> DEFINE Good == {k \in 0 .. n : Covers(f[k], memory, budget, Visited(k))}
  <2>1. 0 \in Good
    <3>1. f[0] = NewMessage(s) /\ 0 \in 0 .. n
      BY <1>1, <1>7 DEF d
    <3>2. ~f[0].full /\ f[0].band = <<>>
      BY <3>1 DEF NewMessage
    <3>3. Rows(<<>>) = {} /\ Visited(0) = {}
      BY DEF Rows
    <3> HIDE DEF Visited
    <3>4. Covers(f[0], memory, budget, Visited(0))
      BY <3>2, <3>3 DEF Covers
    <3> QED BY <3>1, <3>4
  <2>2. ASSUME NEW k \in 1 .. n, k - 1 \in Good PROVE k \in Good
    <3>1. Covers(f[k - 1], memory, budget, Visited(k - 1)) /\ k - 1 \in 0 .. n /\ f[k - 1] \in S
      BY <1>1, <1>7, <2>2
    <3>2. Encodes(f[k - 1], s) /\ Fits(f[k - 1], budget)
      BY <3>1 DEF S
    <3>3. Visited(k - 1) \in SUBSET DisplayLines /\ Line(k) \in DisplayLines
      BY <1>1, <1>2
    <3>4. Visited(k) = Visited(k - 1) \cup {Line(k)}
      <4>1. 1 .. k = (1 .. k - 1) \cup {k}
        OBVIOUS
      <4> QED BY <4>1
    <3> HIDE DEF Visited
    <3>5. Covers(Op(f[k - 1], k), memory, budget, Visited(k - 1) \cup {Line(k)})
      BY <3>1, <3>2, <3>3, EncodeLineCovers DEF Op
    <3>6. k \in 0 .. n
      OBVIOUS
    <3> QED BY <1>8, <3>4, <3>5, <3>6
  <2> HIDE DEF Good
  <2>3. \A k \in 0 .. n : k \in Good
    BY <1>1, <2>1, <2>2, EachTurn
  <2> QED BY <2>3 DEF Good
<1>14. Visited(n) = DisplayLines
  <2>1. \A l \in DisplayLines : l \in Visited(n)
    BY TurnOfLine DEF Line
  <2> QED BY <1>2, <2>1
<1>15. Covers(f[n], memory, budget, DisplayLines)
  <2>1. n \in 0 .. n
    BY <1>1
  <2> HIDE DEF Visited, n
  <2> QED BY <1>13, <1>14, <2>1
<1> QED BY <1>12, <1>15 DEF T, S

\* web_display_encode and applyDisplay: whatever the page has and the memory is, and however
\* much the message may have, the page has, after it, what the shadow says.
THEOREM EncodeIsDrawn ==
  ASSUME NEW s \in ShadowType, NEW memory \in PictureType, NEW budget \in Int
  PROVE  LET e == WebDisplayEncode(s, memory, budget)
         IN /\ e.shadow \in ShadowType /\ e.size \in Nat \ {0} /\ e.rects \in Seq(RectType) /\ e.wrote \in Nat
            /\ \A picture \in PictureType : Agrees(picture, s) => Agrees(ApplyDisplay(picture, e.rects), e.shadow)
<1> DEFINE first == s.nextLine
           e == LineTurns(s, memory, budget, first)[ILI9341_LINES]
           u == LastBand(e, memory, budget)
<1>1. first \in DisplayLines
  BY DEF ShadowType
<1>2. Encodes(e, s)
  <2> HIDE DEF first
  <2> QED BY <1>1, LineTurnsEncode
<1> HIDE DEF e
<1>3. u \in EncodeState /\ Carries(u.shadow, u.msg, s)
  BY <1>2, PutBandCarries DEF LastBand, Encodes
<1> HIDE DEF u
<1>4. u.shadow \in ShadowType /\ u.msg \in MessageType /\ u.wrote \in Nat
  BY <1>3 DEF EncodeState
<1>5. WebDisplayEncode(s, memory, budget) = [shadow |-> u.shadow, size |-> u.msg.size, rects |-> u.msg.rects, wrote |-> u.wrote]
  BY DEF WebDisplayEncode, EncodeFrom, Message, u, e
<1>6. u.msg.size \in Nat \ {0} /\ u.msg.rects \in Seq(RectType)
  BY <1>4 DEF MessageType
<1>7. \A picture \in PictureType : Agrees(picture, s) => Agrees(ApplyDisplay(picture, u.msg.rects), u.shadow)
  BY <1>3 DEF Carries, ApplyDisplay, Drawn
<1> QED BY <1>4, <1>5, <1>6, <1>7

\* The length is at most the budget, unless the first rectangle alone is more, and what was
\* written, with the rectangle that is taken back, is no more than a rectangle further: every
\* pixel may take three bytes.
THEOREM EncodeFits ==
  ASSUME NEW s \in ShadowType, NEW memory \in PictureType, NEW budget \in Int
  PROVE  LET e == WebDisplayEncode(s, memory, budget)
         IN /\ e.size <= budget \/ (Len(e.rects) <= 1 /\ e.size <= 1 + RectBytes)
            /\ e.wrote <= budget + RectBytes \/ e.wrote <= 1 + 2 * RectBytes
<1> DEFINE first == s.nextLine
           e == LineTurns(s, memory, budget, first)[ILI9341_LINES]
           u == LastBand(e, memory, budget)
<1>1. first \in DisplayLines
  BY DEF ShadowType
<1>2. Encodes(e, s) /\ Fits(e, budget)
  <2> HIDE DEF first
  <2> QED BY <1>1, LineTurnsEncode
<1> HIDE DEF e
<1>3. Fits(u, budget)
  BY <1>2, PutBandFits DEF LastBand
<1> HIDE DEF u
<1>4. WebDisplayEncode(s, memory, budget) = [shadow |-> u.shadow, size |-> u.msg.size, rects |-> u.msg.rects, wrote |-> u.wrote]
  BY DEF WebDisplayEncode, EncodeFrom, Message, u, e
<1> QED BY <1>3, <1>4 DEF Fits

\* After the message the page has all of the memory, unless the budget is exceeded: a message
\* without a rectangle says that there was nothing to say.
THEOREM EncodeIsAll ==
  ASSUME NEW s \in ShadowType, NEW memory \in PictureType, NEW budget \in Int
  PROVE  LET e == WebDisplayEncode(s, memory, budget)
         IN \/ \A l \in DisplayLines : l \in e.shadow.known /\ e.shadow.pixels[l] = memory[l]
            \/ e.rects # <<>> /\ e.wrote > budget
<1> DEFINE first == s.nextLine
           e == LineTurns(s, memory, budget, first)[ILI9341_LINES]
           u == LastBand(e, memory, budget)
<1>1. first \in DisplayLines
  BY DEF ShadowType
<1>2. Encodes(e, s) /\ Fits(e, budget) /\ Covers(e, memory, budget, DisplayLines)
  <2> HIDE DEF first
  <2> QED BY <1>1, LineTurnsEncode
<1> HIDE DEF e
<1>3. IsFull(u, budget) \/ \A l \in DisplayLines : Has(u.shadow, memory, l)
  <2>1. CASE e.full
    BY <1>2, <2>1 DEF LastBand, Covers
  <2>2. CASE ~e.full
    <3>1. u = PutBand(e, memory, budget)
      BY <2>2 DEF LastBand
    <3> HIDE DEF u
    <3>2. u.full \in BOOLEAN
      <4>1. u \in EncodeState
        BY <1>2, <3>1, PutBandCarries
      <4> QED BY <4>1 DEF EncodeState
    <3>3. /\ u.full => IsFull(u, budget)
          /\ ~u.full => \A l \in DisplayLines : Has(u.shadow, memory, l)
      BY <1>2, <2>2, <3>1, PutBandCovers
    <3> QED BY <3>2, <3>3
  <2> QED BY <2>1, <2>2
<1> HIDE DEF u
<1>4. WebDisplayEncode(s, memory, budget) = [shadow |-> u.shadow, size |-> u.msg.size, rects |-> u.msg.rects, wrote |-> u.wrote]
  BY DEF WebDisplayEncode, EncodeFrom, Message, u, e
<1> QED BY <1>3, <1>4 DEF IsFull, Has

LEMMA ApplyDisplayTyped ==
  ASSUME NEW picture \in PictureType, NEW rects \in Seq(RectType)
  PROVE  ApplyDisplay(picture, rects) \in PictureType
<1>1. Drawn(picture, rects) \in DrawState
  BY DrawnTyped
<1> QED BY <1>1 DEF Drawn, ApplyDisplay, DrawState

----
\* What a page makes of the parts that it is sent

PartNames == {"status", "body", "file", "part", "switching", "hello", "busy", "pong", "rate", "snapshot", "audio"}
PartType ==
  {<<name>> : name \in PartNames} \cup {<<"header", size>> : size \in Nat} \cup {<<"display", rects>> : rects \in Seq(RectType)}
ItemType == [name : STRING, last : BOOLEAN]
PageType ==
  [at : {"away", "connects", "here", "gone"}, toServer : Seq(ItemType), toPage : Seq(PartType), closed : BOOLEAN,
   script : Nat, part : Nat, picture : PictureType, need : Nat, torn : BOOLEAN]

LEMMA PartIs ==
  ASSUME NEW x \in PartType
  PROVE  (x[1] = "header" => x[2] \in Nat) /\ (x[1] = "display" => x[2] \in Seq(RectType))
<1>1. CASE x \in {<<name>> : name \in PartNames}
  <2>1. PICK name \in PartNames : x = <<name>>
    BY <1>1
  <2>2. x[1] = name
    BY <2>1
  <2>3. name # "header" /\ name # "display"
    BY DEF PartNames
  <2> QED BY <2>2, <2>3
<1>2. CASE x \in {<<"header", size>> : size \in Nat}
  BY <1>2
<1>3. CASE x \in {<<"display", rects>> : rects \in Seq(RectType)}
  BY <1>3
<1> QED BY <1>1, <1>2, <1>3 DEF PartType

\* The part of a page's state that says what it makes of what comes.
SameView(p, q) == p.need = q.need /\ p.torn = q.torn /\ p.picture = q.picture
SameRest(p, q) ==
  /\ p.at = q.at /\ p.toServer = q.toServer /\ p.toPage = q.toPage
  /\ p.closed = q.closed /\ p.script = q.script /\ p.part = q.part

Viewed(p, need, torn, picture) == [p EXCEPT !.need = need, !.torn = torn, !.picture = picture]

LEMMA ViewIs ==
  ASSUME NEW p \in PageType, NEW need \in Nat, NEW torn \in BOOLEAN, NEW picture \in PictureType
  PROVE  LET u == Viewed(p, need, torn, picture)
         IN u \in PageType /\ SameRest(u, p) /\ u.need = need /\ u.torn = torn /\ u.picture = picture
<1>1. p \in [at : {"away", "connects", "here", "gone"}, toServer : Seq(ItemType), toPage : Seq(PartType), closed : BOOLEAN,
             script : Nat, part : Nat, picture : PictureType, need : Nat, torn : BOOLEAN]
  BY DEF PageType
<1> DEFINE u == [p EXCEPT !.need = need, !.torn = torn, !.picture = picture]
<1>2. u \in [at : {"away", "connects", "here", "gone"}, toServer : Seq(ItemType), toPage : Seq(PartType), closed : BOOLEAN,
             script : Nat, part : Nat, picture : PictureType, need : Nat, torn : BOOLEAN]
  BY <1>1
<1>3. u.need = need /\ u.torn = torn /\ u.picture = picture
  BY <1>1
<1>4. SameRest(u, p)
  BY <1>1 DEF SameRest
<1> HIDE DEF u
<1>5. u \in PageType
  BY <1>2 DEF PageType
<1> QED BY <1>3, <1>4, <1>5 DEF u, Viewed

LEMMA TakesIs ==
  ASSUME NEW p \in PageType, NEW x \in PartType
  PROVE  /\ PageTakes(p, x) \in PageType /\ SameRest(PageTakes(p, x), p)
         /\ \A q \in PageType : SameView(p, q) => SameView(PageTakes(p, x), PageTakes(q, x))
<1>1. p \in [at : {"away", "connects", "here", "gone"}, toServer : Seq(ItemType), toPage : Seq(PartType), closed : BOOLEAN,
             script : Nat, part : Nat, picture : PictureType, need : Nat, torn : BOOLEAN]
  BY DEF PageType
<1>2. p.picture \in PictureType /\ p.need \in Nat /\ p.torn \in BOOLEAN
  BY <1>1
<1>3. (x[1] = "header" => x[2] \in Nat) /\ (x[1] = "display" => x[2] \in Seq(RectType))
  BY PartIs
<1>4. CASE p.need = 0 /\ x[1] = "header"
  <2>1. PageTakes(p, x) = [p EXCEPT !.need = x[2]]
    BY <1>4 DEF PageTakes
  <2>2. \A q \in PageType : SameView(p, q) => PageTakes(q, x) = [q EXCEPT !.need = x[2]]
    BY <1>4 DEF PageTakes, SameView
  <2> QED BY <1>1, <1>3, <1>4, <2>1, <2>2 DEF PageType, SameView, SameRest
<1>5. CASE p.need = 0 /\ x[1] # "header"
  <2> DEFINE t == x[1] \in {"part", "display", "snapshot", "audio"}
  <2>1. PageTakes(p, x) = [p EXCEPT !.torn = p.torn \/ t]
    BY <1>5 DEF PageTakes
  <2>2. \A q \in PageType : SameView(p, q) => PageTakes(q, x) = [q EXCEPT !.torn = q.torn \/ t]
    BY <1>5 DEF PageTakes, SameView
  <2> HIDE DEF t
  <2>3. (p.torn \/ t) \in BOOLEAN
    OBVIOUS
  <2>4. PageTakes(p, x) \in PageType
    BY <1>1, <2>1, <2>3 DEF PageType
  <2>5. SameRest(PageTakes(p, x), p)
    BY <1>1, <2>1 DEF SameRest
  <2>6. ASSUME NEW q \in PageType, SameView(p, q) PROVE SameView(PageTakes(p, x), PageTakes(q, x))
    <3>1. q \in [at : {"away", "connects", "here", "gone"}, toServer : Seq(ItemType), toPage : Seq(PartType), closed : BOOLEAN,
                 script : Nat, part : Nat, picture : PictureType, need : Nat, torn : BOOLEAN]
      BY DEF PageType
    <3>2. PageTakes(q, x) = [q EXCEPT !.torn = q.torn \/ t]
      BY <2>2, <2>6
    <3> QED BY <1>1, <2>1, <2>6, <3>1, <3>2 DEF SameView
  <2> QED BY <2>4, <2>5, <2>6
<1>6. CASE p.need = 1
  <2> DEFINE t == x[1] \in {"part", "header"}
             Draw(picture) == IF x[1] = "display" THEN ApplyDisplay(picture, x[2]) ELSE picture
  <2>1. PageTakes(p, x) = [p EXCEPT !.need = 0, !.torn = p.torn \/ t, !.picture = Draw(p.picture)]
    BY <1>6 DEF PageTakes
  <2>2. \A q \in PageType :
          SameView(p, q) => PageTakes(q, x) = [q EXCEPT !.need = 0, !.torn = q.torn \/ t, !.picture = Draw(q.picture)]
    BY <1>6 DEF PageTakes, SameView
  <2>3. \A picture \in PictureType : Draw(picture) \in PictureType
    BY <1>3, ApplyDisplayTyped
  <2> HIDE DEF t, Draw
  <2> DEFINE torn == p.torn \/ t
             picture == Draw(p.picture)
  <2>4. torn \in BOOLEAN /\ picture \in PictureType /\ 0 \in Nat
    BY <1>2, <2>3
  <2>5. PageTakes(p, x) = Viewed(p, 0, torn, picture)
    BY <2>1 DEF Viewed
  <2>6. ASSUME NEW q \in PageType, SameView(p, q)
        PROVE  PageTakes(q, x) = Viewed(q, 0, torn, picture)
    BY <2>2, <2>6 DEF SameView, Viewed
  <2> HIDE DEF torn, picture
  <2>7. PageTakes(p, x) \in PageType /\ SameRest(PageTakes(p, x), p)
    BY <2>4, <2>5, ViewIs
  <2>8. ASSUME NEW q \in PageType, SameView(p, q) PROVE SameView(PageTakes(p, x), PageTakes(q, x))
    <3>1. PageTakes(p, x).need = 0 /\ PageTakes(p, x).torn = torn /\ PageTakes(p, x).picture = picture
      BY <2>4, <2>5, ViewIs
    <3>2. PageTakes(q, x).need = 0 /\ PageTakes(q, x).torn = torn /\ PageTakes(q, x).picture = picture
      BY <2>4, <2>6, <2>8, ViewIs
    <3> QED BY <3>1, <3>2 DEF SameView
  <2> QED BY <2>7, <2>8
<1>7. CASE p.need # 0 /\ p.need # 1
  <2> DEFINE t == x[1] # "part"
  <2>1. PageTakes(p, x) = [p EXCEPT !.need = p.need - 1, !.torn = p.torn \/ t]
    BY <1>7 DEF PageTakes
  <2>2. \A q \in PageType : SameView(p, q) => PageTakes(q, x) = [q EXCEPT !.need = q.need - 1, !.torn = q.torn \/ t]
    BY <1>7 DEF PageTakes, SameView
  <2>3. p.need - 1 \in Nat
    BY <1>2, <1>7
  <2> HIDE DEF t
  <2> DEFINE torn == p.torn \/ t
             need == p.need - 1
  <2>4. torn \in BOOLEAN /\ need \in Nat
    BY <1>2, <2>3
  <2>5. PageTakes(p, x) = Viewed(p, need, torn, p.picture)
    BY <1>1, <2>1 DEF Viewed
  <2>6. ASSUME NEW q \in PageType, SameView(p, q)
        PROVE  PageTakes(q, x) = Viewed(q, need, torn, p.picture)
    <3>1. PageTakes(q, x) = [q EXCEPT !.need = need, !.torn = torn]
      BY <2>2, <2>6 DEF SameView
    <3>2. q \in [at : {"away", "connects", "here", "gone"}, toServer : Seq(ItemType), toPage : Seq(PartType), closed : BOOLEAN,
                 script : Nat, part : Nat, picture : PictureType, need : Nat, torn : BOOLEAN] /\ q.picture = p.picture
      BY <2>6 DEF SameView, PageType
    <3> HIDE DEF torn, need
    <3> QED BY <3>1, <3>2 DEF Viewed
  <2> HIDE DEF torn, need
  <2>7. PageTakes(p, x) \in PageType /\ SameRest(PageTakes(p, x), p)
    BY <1>2, <2>4, <2>5, ViewIs
  <2>8. ASSUME NEW q \in PageType, SameView(p, q) PROVE SameView(PageTakes(p, x), PageTakes(q, x))
    <3>1. PageTakes(p, x).need = need /\ PageTakes(p, x).torn = torn /\ PageTakes(p, x).picture = p.picture
      BY <1>2, <2>4, <2>5, ViewIs
    <3>2. PageTakes(q, x).need = need /\ PageTakes(q, x).torn = torn /\ PageTakes(q, x).picture = p.picture
      BY <1>2, <2>4, <2>6, <2>8, ViewIs
    <3> QED BY <3>1, <3>2 DEF SameView
  <2> QED BY <2>7, <2>8
<1> QED BY <1>4, <1>5, <1>6, <1>7

IsTaking(f, page, parts) ==
  /\ f[0] = page
  /\ \A k \in 1 .. Len(parts) : f[k] = PageTakes(f[k - 1], parts[k])
  /\ \A k \in 0 .. Len(parts) : f[k] \in PageType

LEMMA PartsTaken ==
  ASSUME NEW page \in PageType, NEW parts \in Seq(PartType)
  PROVE  IsTaking(PartTurns(page, parts), page, parts)
<1> DEFINE T == PartTurns(page, parts)
           n == Len(parts)
           step == [k \in 1 .. n |-> [v \in PageType |-> PageTakes(v, parts[k])]]
<1>1. n \in Nat /\ \A k \in 1 .. n : parts[k] \in PartType
  OBVIOUS
<1>2. step \in StepsOn(PageType, n)
  BY <1>1, TakesIs DEF StepsOn
<1>3. PICK f : IsTaken(f, PageType, page, step, n)
  <2> HIDE DEF step, n
  <2> QED BY <1>1, <1>2, StepsAreTaken
<1>4. f \in [0 .. n -> PageType] /\ f[0] = page /\ \A k \in 1 .. n : f[k] = step[k][f[k - 1]]
  <2> HIDE DEF step, n
  <2> QED BY <1>3 DEF IsTaken
<1>5. ASSUME NEW k \in 1 .. n PROVE f[k] = PageTakes(f[k - 1], parts[k])
  BY <1>1, <1>4
<1> HIDE DEF step
<1>6. f = [k \in 0 .. n |-> IF k = 0 THEN page ELSE PageTakes(f[k - 1], parts[k])]
  BY <1>1, <1>4, <1>5
<1>7. T = [k \in 0 .. n |-> IF k = 0 THEN page ELSE PageTakes(T[k - 1], parts[k])]
  BY <1>1, <1>6 DEF PartTurns, Turns
<1> HIDE DEF T
<1>8. T[0] = page /\ \A k \in 1 .. n : T[k] = PageTakes(T[k - 1], parts[k])
  BY <1>1, <1>7
<1>9. \A k \in 0 .. n : T[k] \in PageType
  <2> DEFINE Typed == {j \in 0 .. n : T[j] \in PageType}
  <2>1. 0 \in Typed
    BY <1>1, <1>8
  <2>2. ASSUME NEW k \in 1 .. n, k - 1 \in Typed PROVE k \in Typed
    BY <1>1, <1>8, <2>2, TakesIs
  <2> HIDE DEF Typed
  <2>3. \A k \in 0 .. n : k \in Typed
    BY <1>1, <2>1, <2>2, EachTurn
  <2> QED BY <2>3 DEF Typed
<1> QED BY <1>1, <1>8, <1>9 DEF T, IsTaking

LEMMA AfterNothing ==
  ASSUME NEW page \in PageType
  PROVE  AfterParts(page, <<>>) = page
<1>1. <<>> \in Seq(PartType) /\ Len(<<>>) = 0
  OBVIOUS
<1>2. IsTaking(PartTurns(page, <<>>), page, <<>>)
  BY <1>1, PartsTaken
<1> QED BY <1>1, <1>2 DEF AfterParts, IsTaking

LEMMA AfterOneMore ==
  ASSUME NEW page \in PageType, NEW parts \in Seq(PartType), NEW x \in PartType
  PROVE  AfterParts(page, Append(parts, x)) = PageTakes(AfterParts(page, parts), x)
<1> DEFINE more == Append(parts, x)
           n == Len(parts)
           f == PartTurns(page, parts)
           g == PartTurns(page, more)
<1>1. more \in Seq(PartType) /\ n \in Nat /\ Len(more) = n + 1 /\ more[n + 1] = x
  OBVIOUS
<1>2. \A k \in 1 .. n : more[k] = parts[k]
  OBVIOUS
<1> HIDE DEF more
<1>3. IsTaking(f, page, parts) /\ IsTaking(g, page, more)
  BY <1>1, PartsTaken
<1> HIDE DEF f, g
<1>4. f[0] = g[0] /\ \A k \in 1 .. n : f[k] = PageTakes(f[k - 1], parts[k])
  BY <1>3 DEF IsTaking
<1>5. \A k \in 1 .. n + 1 : g[k] = PageTakes(g[k - 1], more[k])
  BY <1>1, <1>3 DEF IsTaking
<1>6. f[n] = g[n]
  <2>1. Agree(f, g, n)
    BY <1>1, <1>2, <1>4, <1>5 DEF Agree
  <2> QED BY <1>1, <2>1, SameTurns
<1>7. g[n + 1] = PageTakes(g[n], x)
  <2>1. g[n + 1] = PageTakes(g[(n + 1) - 1], more[n + 1]) /\ (n + 1) - 1 = n
    BY <1>1, <1>5
  <2> QED BY <1>1, <2>1
<1> QED BY <1>1, <1>6, <1>7 DEF AfterParts, f, g, more

LEMMA AfterIs ==
  ASSUME NEW page \in PageType, NEW parts \in Seq(PartType)
  PROVE  /\ AfterParts(page, parts) \in PageType /\ SameRest(AfterParts(page, parts), page)
         /\ \A q \in PageType : SameView(page, q) => SameView(AfterParts(page, parts), AfterParts(q, parts))
<1> DEFINE n == Len(parts)
           f == PartTurns(page, parts)
<1>1. n \in Nat /\ \A k \in 1 .. n : parts[k] \in PartType
  OBVIOUS
<1>2. IsTaking(f, page, parts)
  BY PartsTaken
<1> HIDE DEF f
<1>3. f[0] = page /\ \A k \in 1 .. n : f[k] = PageTakes(f[k - 1], parts[k])
  BY <1>2 DEF IsTaking
<1>4. \A k \in 0 .. n : f[k] \in PageType
  BY <1>2 DEF IsTaking
<1>5. \A k \in 0 .. n : SameRest(f[k], page)
  <2> DEFINE Rest == {j \in 0 .. n : SameRest(f[j], page)}
  <2>1. 0 \in Rest
    BY <1>1, <1>3 DEF SameRest
  <2>2. ASSUME NEW k \in 1 .. n, k - 1 \in Rest PROVE k \in Rest
    <3>1. f[k] = PageTakes(f[k - 1], parts[k]) /\ f[k - 1] \in PageType /\ parts[k] \in PartType
      BY <1>1, <1>3, <1>4
    <3>2. SameRest(f[k], f[k - 1])
      BY <3>1, TakesIs
    <3> QED BY <2>2, <3>2 DEF SameRest
  <2> HIDE DEF Rest
  <2>3. \A k \in 0 .. n : k \in Rest
    BY <1>1, <2>1, <2>2, EachTurn
  <2> QED BY <2>3 DEF Rest
<1>6. ASSUME NEW q \in PageType, SameView(page, q) PROVE SameView(f[n], AfterParts(q, parts))
  <2> DEFINE g == PartTurns(q, parts)
  <2>1. IsTaking(g, q, parts)
    BY PartsTaken
  <2> HIDE DEF g
  <2>2. g[0] = q /\ \A k \in 1 .. n : g[k] = PageTakes(g[k - 1], parts[k])
    BY <2>1 DEF IsTaking
  <2>3. \A k \in 0 .. n : g[k] \in PageType
    BY <2>1 DEF IsTaking
  <2> DEFINE View == {j \in 0 .. n : SameView(f[j], g[j])}
  <2>4. 0 \in View
    BY <1>1, <1>3, <1>6, <2>2
  <2>5. ASSUME NEW k \in 1 .. n, k - 1 \in View PROVE k \in View
    <3>1. /\ f[k] = PageTakes(f[k - 1], parts[k]) /\ f[k - 1] \in PageType /\ parts[k] \in PartType
          /\ g[k] = PageTakes(g[k - 1], parts[k]) /\ g[k - 1] \in PageType
      BY <1>1, <1>3, <1>4, <2>2, <2>3
    <3>2. SameView(f[k - 1], g[k - 1])
      BY <2>5
    <3> DEFINE u == f[k - 1]
               v == g[k - 1]
               x == parts[k]
    <3>3. u \in PageType /\ v \in PageType /\ x \in PartType /\ SameView(u, v) /\ f[k] = PageTakes(u, x) /\ g[k] = PageTakes(v, x)
      BY <3>1, <3>2
    <3> HIDE DEF u, v, x
    <3>4. SameView(f[k], g[k])
      <4>1. SameView(PageTakes(u, x), PageTakes(v, x))
        BY <3>3, TakesIs
      <4> QED BY <3>3, <4>1
    <3>5. k \in 0 .. n
      BY <1>1
    <3> QED BY <3>4, <3>5
  <2> HIDE DEF View
  <2>6. \A k \in 0 .. n : k \in View
    BY <1>1, <2>4, <2>5, EachTurn
  <2>7. n \in View
    BY <1>1, <2>6
  <2> QED BY <2>7 DEF View, AfterParts, g
<1> QED BY <1>1, <1>4, <1>5, <1>6 DEF AfterParts, f

LEMMA AfterJoined ==
  ASSUME NEW page \in PageType, NEW s \in Seq(PartType), NEW t \in Seq(PartType)
  PROVE  AfterParts(page, s \o t) = AfterParts(AfterParts(page, s), t)
<1> DEFINE m == Len(s)
           n == Len(t)
           st == s \o t
           after == AfterParts(page, s)
           f == PartTurns(page, st)
           g == PartTurns(page, s)
           h == PartTurns(after, t)
<1>1. m \in Nat /\ n \in Nat /\ st \in Seq(PartType) /\ Len(st) = m + n
  BY ConcatProperties
<1>2. (\A k \in 1 .. m : st[k] = s[k]) /\ (\A k \in 1 .. n : st[m + k] = t[k])
  <2>1. \A i \in 1 .. m + n : st[i] = IF i <= m THEN s[i] ELSE t[i - m]
    BY ConcatProperties
  <2> HIDE DEF st
  <2>2. \A k \in 1 .. m : st[k] = s[k]
    BY <1>1, <2>1
  <2>3. ASSUME NEW k \in 1 .. n PROVE st[m + k] = t[k]
    <3>1. m + k \in 1 .. m + n /\ ~(m + k <= m) /\ (m + k) - m = k
      BY <1>1
    <3> HIDE DEF m
    <3> QED BY <2>1, <3>1
  <2> QED BY <2>2, <2>3
<1>3. after \in PageType
  BY AfterIs
<1>4. IsTaking(f, page, st) /\ IsTaking(g, page, s) /\ IsTaking(h, after, t)
  <2> HIDE DEF st, after
  <2> QED BY <1>1, <1>3, PartsTaken
<1>5. g[m] = after
  BY DEF AfterParts
<1> HIDE DEF st, f, g, h, after
<1>6. f[0] = page /\ \A k \in 1 .. m + n : f[k] = PageTakes(f[k - 1], st[k])
  BY <1>1, <1>4 DEF IsTaking
<1>7. g[0] = page /\ \A k \in 1 .. m : g[k] = PageTakes(g[k - 1], s[k])
  BY <1>4 DEF IsTaking
<1>8. h[0] = after /\ \A k \in 1 .. n : h[k] = PageTakes(h[k - 1], t[k])
  BY <1>4 DEF IsTaking
<1> HIDE DEF m, n
<1>9. f[m] = after
  <2>1. Agree(f, g, m)
    BY <1>1, <1>2, <1>6, <1>7 DEF Agree
  <2> QED BY <1>1, <1>5, <2>1, SameTurns
<1>10. f[m + n] = h[n]
  <2> DEFINE u == [k \in 0 .. n |-> f[m + k]]
  <2>1. u[0] = after /\ u[n] = f[m + n]
    BY <1>1, <1>9
  <2>2. ASSUME NEW k \in 1 .. n PROVE u[k] = PageTakes(u[k - 1], t[k])
    <3>1. m + k \in 1 .. m + n /\ (m + k) - 1 = m + (k - 1) /\ k - 1 \in 0 .. n /\ k \in 0 .. n
      BY <1>1
    <3>2. f[m + k] = PageTakes(f[m + (k - 1)], st[m + k])
      BY <1>6, <3>1
    <3> QED BY <1>2, <3>1, <3>2
  <2> HIDE DEF u
  <2>3. Agree(u, h, n)
    BY <1>8, <2>1, <2>2 DEF Agree
  <2> QED BY <1>1, <2>1, <2>3, SameTurns
<1> QED BY <1>1, <1>10 DEF AfterParts, f, h, after, st, m, n

\* A whole frame, its header and the parts of its payload.
Frame(size, frame) == <<<<"header", size>>>> \o Payload(size, frame)

LEMMA PayloadIs ==
  ASSUME NEW size \in Nat \ {0}, NEW frame \in PartType
  PROVE  /\ Payload(size, frame) \in Seq(PartType) /\ Len(Payload(size, frame)) = size
         /\ Payload(size, frame)[size] = frame
         /\ \A k \in 1 .. size - 1 : Payload(size, frame)[k] = <<"part">>
<1>1. <<"part">> \in PartType
  BY DEF PartType, PartNames
<1> QED BY <1>1 DEF Payload

LEMMA FrameIs ==
  ASSUME NEW size \in Nat \ {0}, NEW frame \in PartType
  PROVE  <<<<"header", size>>>> \in Seq(PartType) /\ <<"header", size>> \in PartType /\ Frame(size, frame) \in Seq(PartType)
<1>1. <<"header", size>> \in PartType
  BY DEF PartType
<1>2. <<<<"header", size>>>> \in Seq(PartType)
  BY <1>1
<1> QED BY <1>1, <1>2, PayloadIs, ConcatProperties DEF Frame

IsQuiet(p) == p.need = 0 /\ p.torn = FALSE

LEMMA FrameTaken ==
  ASSUME NEW p \in PageType, IsQuiet(p), NEW size \in Nat \ {0}, NEW frame \in PartType,
         frame[1] # "part", frame[1] # "header"
  PROVE  LET q == AfterParts(p, Frame(size, frame))
         IN /\ q \in PageType /\ IsQuiet(q)
            /\ q.picture = IF frame[1] = "display" THEN ApplyDisplay(p.picture, frame[2]) ELSE p.picture
<1> DEFINE header == <<"header", size>>
           first == PageTakes(p, header)
           parts == Payload(size, frame)
           f == PartTurns(first, parts)
           after == IF frame[1] = "display" THEN ApplyDisplay(p.picture, frame[2]) ELSE p.picture
<1>1. header \in PartType /\ <<header>> \in Seq(PartType) /\ parts \in Seq(PartType) /\ Len(parts) = size
  BY FrameIs, PayloadIs
<1>2. first \in PageType /\ first.need = size /\ first.torn = FALSE /\ first.picture = p.picture
  <2>1. first = [p EXCEPT !.need = size]
    BY DEF PageTakes, IsQuiet
  <2>2. first \in PageType
    <3> HIDE DEF header
    <3> QED BY <1>1, TakesIs
  <2>3. p \in [at : {"away", "connects", "here", "gone"}, toServer : Seq(ItemType), toPage : Seq(PartType), closed : BOOLEAN,
               script : Nat, part : Nat, picture : PictureType, need : Nat, torn : BOOLEAN]
    BY DEF PageType
  <2> HIDE DEF first
  <2> QED BY <2>1, <2>2, <2>3 DEF IsQuiet
<1>3. AfterParts(p, <<header>>) = first
  <2>1. <<header>> = Append(<<>>, header) /\ <<>> \in Seq(PartType)
    OBVIOUS
  <2> HIDE DEF header
  <2> QED BY <1>1, <2>1, AfterOneMore, AfterNothing
<1>4. AfterParts(p, Frame(size, frame)) = AfterParts(first, parts)
  <2> HIDE DEF first, parts
  <2>1. AfterParts(p, <<header>> \o parts) = AfterParts(AfterParts(p, <<header>>), parts)
    <3> HIDE DEF header
    <3> QED BY <1>1, AfterJoined
  <2> QED BY <1>3, <2>1 DEF Frame, parts
<1>5. IsTaking(f, first, parts)
  <2> HIDE DEF first, parts
  <2> QED BY <1>1, <1>2, PartsTaken
<1>6. parts[size] = frame /\ \A k \in 1 .. size - 1 : parts[k] = <<"part">>
  BY PayloadIs
<1>7. AfterParts(first, parts) = f[size]
  BY <1>1 DEF AfterParts
<1> HIDE DEF f, first, parts, header
<1>8. f[0] = first /\ \A k \in 1 .. size : f[k] = PageTakes(f[k - 1], parts[k])
  BY <1>1, <1>5 DEF IsTaking
<1>9. \A k \in 0 .. size : f[k] \in PageType
  BY <1>1, <1>5 DEF IsTaking
<1> DEFINE Before == {k \in 0 .. size - 1 : f[k].need = size - k /\ f[k].torn = FALSE /\ f[k].picture = p.picture}
<1>10. 0 \in Before
  BY <1>2, <1>8
<1>11. ASSUME NEW k \in 1 .. size - 1, k - 1 \in Before PROVE k \in Before
  <2> DEFINE q == f[k - 1]
  <2>1. q \in PageType /\ q.need = size - (k - 1) /\ q.torn = FALSE /\ q.picture = p.picture /\ f[k] = PageTakes(q, <<"part">>)
    BY <1>6, <1>8, <1>9, <1>11
  <2> HIDE DEF q
  <2>2. q.need # 0 /\ q.need # 1 /\ q.need - 1 = size - k
    BY <2>1
  <2>3. PageTakes(q, <<"part">>) = [q EXCEPT !.need = q.need - 1, !.torn = q.torn \/ FALSE]
    BY <2>2 DEF PageTakes
  <2>4. q \in [at : {"away", "connects", "here", "gone"}, toServer : Seq(ItemType), toPage : Seq(PartType), closed : BOOLEAN,
               script : Nat, part : Nat, picture : PictureType, need : Nat, torn : BOOLEAN]
    BY <2>1 DEF PageType
  <2>5. f[k].need = size - k /\ f[k].torn = FALSE /\ f[k].picture = p.picture
    BY <2>1, <2>2, <2>3, <2>4
  <2> QED BY <2>5
<1>12. size - 1 \in Before
  <2> HIDE DEF Before
  <2>1. size - 1 \in Nat
    OBVIOUS
  <2>2. \A k \in 0 .. size - 1 : k \in Before
    BY <1>10, <1>11, <2>1, EachTurn
  <2> QED BY <2>1, <2>2
<1>13. f[size] \in PageType /\ IsQuiet(f[size]) /\ f[size].picture = after
  <2> DEFINE q == f[size - 1]
  <2>1. q \in PageType /\ q.need = 1 /\ q.torn = FALSE /\ q.picture = p.picture /\ f[size] = PageTakes(q, frame)
    BY <1>6, <1>8, <1>9, <1>12
  <2> HIDE DEF q
  <2>2. PageTakes(q, frame) = [q EXCEPT !.need = 0, !.torn = q.torn \/ FALSE,
                                        !.picture = IF frame[1] = "display" THEN ApplyDisplay(q.picture, frame[2]) ELSE q.picture]
    <3> DEFINE cut == frame[1] \in {"part", "header"}
               picture == IF frame[1] = "display" THEN ApplyDisplay(q.picture, frame[2]) ELSE q.picture
    <3>1. cut = FALSE
      OBVIOUS
    <3>2. PageTakes(q, frame) = [q EXCEPT !.need = 0, !.torn = q.torn \/ cut, !.picture = picture]
      BY <2>1 DEF PageTakes
    <3> HIDE DEF cut, picture
    <3>3. PageTakes(q, frame) = [q EXCEPT !.need = 0, !.torn = q.torn \/ FALSE, !.picture = picture]
      BY <3>1, <3>2
    <3> QED BY <3>3 DEF picture
  <2>3. q \in [at : {"away", "connects", "here", "gone"}, toServer : Seq(ItemType), toPage : Seq(PartType), closed : BOOLEAN,
               script : Nat, part : Nat, picture : PictureType, need : Nat, torn : BOOLEAN]
    BY <2>1 DEF PageType
  <2> QED BY <1>9, <2>1, <2>2, <2>3 DEF IsQuiet
<1> QED BY <1>4, <1>7, <1>13


----
\* The server and its pages

EventType == STRING \X Nat
ClientType ==
  [state : {"free", "http", "open"}, page : Nat, in : Seq(ItemType), asked : Seq(STRING), out : Seq(PartType),
   rateSent : BOOLEAN, display : Seq(ShadowType)]
ServerType ==
  [machine : {"michael", "wendy2c"}, memory : PictureType, clients : [Places -> ClientType], events : Seq(EventType),
   audio : Nat, event : EventType \cup {<<>>}, broken : BOOLEAN]
WorldType(n) == [server : ServerType, pages : [1 .. n -> PageType]]

SetClient(w, c, x) == [w EXCEPT !.server.clients[c] = x]
SetPage(w, p, y) == [w EXCEPT !.pages[p] = y]

\* All that a handler of client c leaves alone.
SameMachine(v, w) == w.server.machine = v.server.machine /\ w.server.memory = v.server.memory /\ w.server.audio = v.server.audio
Touches(v, w, c, n) ==
  /\ w \in WorldType(n) /\ SameMachine(v, w)
  /\ \A d \in Places : d # c => Client(w, d) = Client(v, d)
  /\ \A p \in 1 .. n : p # Client(v, c).page => w.pages[p] = v.pages[p]
  /\ \A p \in 1 .. n : w.pages[p].at = v.pages[p].at
  /\ Client(w, c).page \in {Client(v, c).page, 0}

LEMMA SetClientIs ==
  ASSUME NEW n \in Nat, NEW w \in WorldType(n), NEW c \in Places, NEW x \in ClientType
  PROVE  LET u == SetClient(w, c, x)
         IN u \in WorldType(n) /\ SameMachine(w, u) /\ u.pages = w.pages
            /\ Client(u, c) = x /\ \A d \in Places : d # c => Client(u, d) = Client(w, d)
<1> DEFINE u == SetClient(w, c, x)
           cs == [w.server.clients EXCEPT ![c] = x]
           sv == [w.server EXCEPT !.clients = cs]
<1>1. w \in [server : ServerType, pages : [1 .. n -> PageType]]
  BY DEF WorldType
<1>2. w.server \in [machine : {"michael", "wendy2c"}, memory : PictureType, clients : [Places -> ClientType], events : Seq(EventType),
                    audio : Nat, event : EventType \cup {<<>>}, broken : BOOLEAN]
  BY <1>1 DEF ServerType
<1>3. cs \in [Places -> ClientType] /\ cs[c] = x /\ \A d \in Places : d # c => cs[d] = w.server.clients[d]
  BY <1>2
<1>4. u = [w EXCEPT !.server = sv]
  BY <1>1, <1>2 DEF SetClient
<1> HIDE DEF cs
<1>5. sv \in ServerType /\ sv.clients = cs /\ sv.machine = w.server.machine /\ sv.memory = w.server.memory /\ sv.audio = w.server.audio
  BY <1>2, <1>3 DEF ServerType
<1> HIDE DEF sv, u
<1>6. u \in WorldType(n) /\ u.server = sv /\ u.pages = w.pages
  BY <1>1, <1>4, <1>5 DEF WorldType
<1> QED BY <1>3, <1>5, <1>6 DEF u, Client, SameMachine

LEMMA SetPageIs ==
  ASSUME NEW n \in Nat, NEW w \in WorldType(n), NEW p \in 1 .. n, NEW y \in PageType
  PROVE  LET u == SetPage(w, p, y)
         IN u \in WorldType(n) /\ u.server = w.server /\ u.pages[p] = y /\ \A q \in 1 .. n : q # p => u.pages[q] = w.pages[q]
<1> DEFINE u == SetPage(w, p, y)
           ps == [w.pages EXCEPT ![p] = y]
<1>1. w \in [server : ServerType, pages : [1 .. n -> PageType]]
  BY DEF WorldType
<1>2. ps \in [1 .. n -> PageType] /\ ps[p] = y /\ \A q \in 1 .. n : q # p => ps[q] = w.pages[q]
  BY <1>1
<1>3. u = [w EXCEPT !.pages = ps]
  BY <1>1 DEF SetPage
<1> HIDE DEF ps, u
<1>4. u \in WorldType(n) /\ u.server = w.server /\ u.pages = ps
  BY <1>1, <1>2, <1>3 DEF WorldType
<1> QED BY <1>2, <1>4 DEF u

LEMMA WorldIs ==
  ASSUME NEW n \in Nat, NEW w \in WorldType(n)
  PROVE  /\ w.server \in ServerType /\ w.server.memory \in PictureType /\ w.server.audio \in Nat /\ w.pages \in [1 .. n -> PageType]
         /\ \A c \in Places : Client(w, c) \in ClientType
         /\ \A c \in Places : Client(w, c).page \in 1 .. n => Page(w, c) \in PageType
BY DEF WorldType, ServerType, Client, Page

LEMMA TouchesAlso ==
  ASSUME NEW n \in Nat, NEW u, NEW v, NEW w, NEW c \in Places, Touches(u, v, c, n), Touches(v, w, c, n)
  PROVE  Touches(u, w, c, n)
<1>1. w \in WorldType(n) /\ SameMachine(u, w)
  BY DEF Touches, SameMachine
<1>2. \A d \in Places : d # c => Client(w, d) = Client(u, d)
  BY DEF Touches
<1>3. \A p \in 1 .. n : p # Client(u, c).page => w.pages[p] = u.pages[p]
  <2> TAKE p \in 1 .. n
  <2> HAVE p # Client(u, c).page
  <2>1. p # Client(v, c).page
    BY DEF Touches
  <2> QED BY <2>1 DEF Touches
<1>4. \A p \in 1 .. n : w.pages[p].at = u.pages[p].at
  BY DEF Touches
<1>5. Client(w, c).page \in {Client(u, c).page, 0}
  BY DEF Touches
<1> QED BY <1>1, <1>2, <1>3, <1>4, <1>5 DEF Touches

LEMMA TouchesNothing ==
  ASSUME NEW n \in Nat, NEW w \in WorldType(n), NEW c \in Places
  PROVE  Touches(w, w, c, n)
BY DEF Touches, SameMachine

\* A client gets other values, and keeps its page or has none.
LEMMA SetClientTouches ==
  ASSUME NEW n \in Nat, NEW w \in WorldType(n), NEW c \in Places, NEW x \in ClientType, x.page \in {Client(w, c).page, 0}
  PROVE  Touches(w, SetClient(w, c, x), c, n)
<1> DEFINE u == SetClient(w, c, x)
<1>1. u \in WorldType(n) /\ SameMachine(w, u) /\ u.pages = w.pages
      /\ Client(u, c) = x /\ \A d \in Places : d # c => Client(u, d) = Client(w, d)
  BY SetClientIs
<1> HIDE DEF u
<1>2. Touches(w, u, c, n)
  BY <1>1 DEF Touches
<1> QED BY <1>2 DEF u

LEMMA SetPageTouches ==
  ASSUME NEW n \in Nat, NEW w \in WorldType(n), NEW c \in Places, Client(w, c).page \in 1 .. n, NEW y \in PageType, y.at = Page(w, c).at
  PROVE  Touches(w, SetPage(w, Client(w, c).page, y), c, n)
<1> DEFINE p == Client(w, c).page
           u == SetPage(w, p, y)
<1>1. u \in WorldType(n) /\ u.server = w.server /\ u.pages[p] = y /\ \A q \in 1 .. n : q # p => u.pages[q] = w.pages[q]
  <2> HIDE DEF p
  <2> QED BY SetPageIs DEF p
<1>2. w.pages[p].at = y.at
  BY DEF Page
<1> HIDE DEF u
<1>3. Touches(w, u, c, n)
  BY <1>1, <1>2 DEF Touches, SameMachine, Client
<1> QED BY <1>3 DEF u


\* A client, with other values in one of its fields.
WithOut(x, out) == [x EXCEPT !.out = out]
WithIn(x, in) == [x EXCEPT !.in = in]
WithDisplay(x, display) == [x EXCEPT !.display = display]
SameButOut(x, y) ==
  /\ y \in ClientType /\ y.state = x.state /\ y.page = x.page /\ y.in = x.in
  /\ y.asked = x.asked /\ y.rateSent = x.rateSent /\ y.display = x.display

LEMMA PartsJoined ==
  ASSUME NEW a \in Seq(PartType), NEW b \in Seq(PartType)
  PROVE  a \o b \in Seq(PartType) /\ Len(a \o b) = Len(a) + Len(b)
BY ConcatProperties

LEMMA JoinedAsWell ==
  ASSUME NEW a \in Seq(PartType), NEW b \in Seq(PartType), NEW d \in Seq(PartType)
  PROVE  (a \o b) \o d = a \o (b \o d)
BY ConcatAssociative

LEMMA WithOutIs ==
  ASSUME NEW x \in ClientType, NEW out \in Seq(PartType)
  PROVE  SameButOut(x, WithOut(x, out)) /\ WithOut(x, out).out = out
<1> DEFINE y == [x EXCEPT !.out = out]
<1>1. x \in [state : {"free", "http", "open"}, page : Nat, in : Seq(ItemType), asked : Seq(STRING), out : Seq(PartType),
             rateSent : BOOLEAN, display : Seq(ShadowType)]
  BY DEF ClientType
<1>2. y \in [state : {"free", "http", "open"}, page : Nat, in : Seq(ItemType), asked : Seq(STRING), out : Seq(PartType),
             rateSent : BOOLEAN, display : Seq(ShadowType)]
  BY <1>1
<1>3. y.state = x.state /\ y.page = x.page /\ y.in = x.in /\ y.asked = x.asked /\ y.rateSent = x.rateSent /\ y.display = x.display /\ y.out = out
  BY <1>1
<1> HIDE DEF y
<1> QED BY <1>2, <1>3 DEF SameButOut, ClientType, WithOut, y

LEMMA ClientFields ==
  ASSUME NEW n \in Nat, NEW w \in WorldType(n), NEW c \in Places
  PROVE  /\ \A out : [w EXCEPT !.server.clients[c].out = out] = SetClient(w, c, WithOut(Client(w, c), out))
         /\ \A in : [w EXCEPT !.server.clients[c].in = in] = SetClient(w, c, WithIn(Client(w, c), in))
         /\ \A display : [w EXCEPT !.server.clients[c].display = display] = SetClient(w, c, WithDisplay(Client(w, c), display))
<1>1. w \in [server : ServerType, pages : [1 .. n -> PageType]]
  BY DEF WorldType
<1>2. w.server \in [machine : {"michael", "wendy2c"}, memory : PictureType, clients : [Places -> ClientType], events : Seq(EventType),
                    audio : Nat, event : EventType \cup {<<>>}, broken : BOOLEAN]
  BY <1>1 DEF ServerType
<1>3. c \in DOMAIN w.server.clients
  BY <1>2
<1> QED BY <1>1, <1>2, <1>3 DEF SetClient, WithOut, WithIn, WithDisplay, Client

LEMMA NewPageTyped == NewPage \in PageType /\ ShadowForget \in ShadowType /\ FreeClient \in ClientType
<1>1. ShadowForget.pixels \in PictureType /\ ShadowForget \in ShadowType
  BY DisplayAssumption DEF ShadowForget, PictureType, ShadowType, Pixel, Black, DisplayLines
<1>2. <<>> \in Seq(ItemType) /\ <<>> \in Seq(PartType)
  OBVIOUS
<1>3. NewPage \in PageType
  BY <1>1, <1>2 DEF NewPage, PageType
<1>4. FreeClient \in ClientType
  BY <1>2 DEF FreeClient, ClientType
<1> QED BY <1>1, <1>3, <1>4

LEMMA ShutTyped ==
  ASSUME NEW page \in PageType
  PROVE  Shut(page) \in PageType /\ Shut(page).at = page.at
<1>1. page \in [at : {"away", "connects", "here", "gone"}, toServer : Seq(ItemType), toPage : Seq(PartType), closed : BOOLEAN,
                script : Nat, part : Nat, picture : PictureType, need : Nat, torn : BOOLEAN]
  BY DEF PageType
<1>2. NewPage \in [at : {"away", "connects", "here", "gone"}, toServer : Seq(ItemType), toPage : Seq(PartType), closed : BOOLEAN,
                   script : Nat, part : Nat, picture : PictureType, need : Nat, torn : BOOLEAN]
  BY NewPageTyped DEF PageType
<1> DEFINE new == [NewPage EXCEPT !.at = "gone"]
           closed == [page EXCEPT !.closed = TRUE]
<1>3. new \in PageType /\ new.at = "gone"
  BY <1>2 DEF PageType
<1>4. closed \in PageType /\ closed.at = page.at
  BY <1>1 DEF PageType
<1> HIDE DEF new, closed
<1>5. Shut(page) = IF page.at = "gone" THEN new ELSE closed
  BY DEF Shut, new, closed
<1> QED BY <1>3, <1>4, <1>5

IsShut(v, w, c, n) ==
  /\ Touches(v, w, c, n)
  /\ Client(w, c).state = "free" /\ Client(w, c).page = 0 /\ Client(w, c).display = <<>> /\ Client(w, c).asked = <<>>

LEMMA CloseClientIs ==
  ASSUME NEW n \in Nat, NEW w \in WorldType(n), NEW c \in Places, Client(w, c).page \in 0 .. n
  PROVE  IsShut(w, CloseClient(w, c), c, n) /\ Client(CloseClient(w, c), c).out = <<>>
<1> DEFINE p == Client(w, c).page
           shut == IF p = 0 THEN w ELSE SetPage(w, p, Shut(Page(w, c)))
           u == SetClient(shut, c, FreeClient)
<1>1. Touches(w, shut, c, n)
  <2>1. CASE p = 0
    BY <2>1, TouchesNothing
  <2>2. CASE p # 0
    <3> DEFINE y == Shut(Page(w, c))
    <3>1. p \in 1 .. n /\ y \in PageType /\ y.at = Page(w, c).at
      BY <2>2, WorldIs, ShutTyped
    <3> HIDE DEF y
    <3>2. Touches(w, SetPage(w, p, y), c, n)
      BY <3>1, SetPageTouches
    <3> QED BY <2>2, <3>2 DEF y
  <2> QED BY <2>1, <2>2
<1>2. CloseClient(w, c) = u
  <2>1. w \in [server : ServerType, pages : [1 .. n -> PageType]]
    BY DEF WorldType
  <2>2. p # 0 => [w EXCEPT !.pages[p] = Shut(@)] = SetPage(w, p, Shut(Page(w, c)))
    BY <2>1 DEF SetPage, Page
  <2> QED BY <2>2 DEF CloseClient, SetClient
<1> HIDE DEF shut
<1>3. shut \in WorldType(n)
  BY <1>1 DEF Touches
<1>4. Client(u, c) = FreeClient
  BY <1>3, NewPageTyped, SetClientIs
<1>5. FreeClient.page = 0 /\ FreeClient.state = "free" /\ FreeClient.display = <<>> /\ FreeClient.asked = <<>> /\ FreeClient.out = <<>>
  BY DEF FreeClient
<1>6. Touches(shut, u, c, n)
  BY <1>3, <1>5, NewPageTyped, SetClientTouches
<1> HIDE DEF u
<1>7. Touches(w, u, c, n)
  BY <1>1, <1>6, TouchesAlso
<1> QED BY <1>2, <1>4, <1>5, <1>7 DEF IsShut

LEMMA QueueBytesIs ==
  ASSUME NEW n \in Nat, NEW w \in WorldType(n), NEW c \in Places, Client(w, c).page \in 0 .. n, NEW parts \in Seq(PartType)
  PROVE  LET u == QueueBytes(w, c, parts)
             out == Client(w, c).out
         IN IF Len(out) + Len(parts) > CLIENT_OUTBUF_SIZE THEN IsShut(w, u, c, n) /\ Client(u, c).out = <<>>
            ELSE u = SetClient(w, c, WithOut(Client(w, c), out \o parts))
<1>1. w \in [server : ServerType, pages : [1 .. n -> PageType]]
  BY DEF WorldType
<1>2. w.server \in [machine : {"michael", "wendy2c"}, memory : PictureType, clients : [Places -> ClientType], events : Seq(EventType),
                    audio : Nat, event : EventType \cup {<<>>}, broken : BOOLEAN]
  BY <1>1 DEF ServerType
<1>3. c \in DOMAIN w.server.clients
  BY <1>2
<1>4. [w EXCEPT !.server.clients[c].out = @ \o parts] = [w EXCEPT !.server.clients[c].out = Client(w, c).out \o parts]
  BY <1>1, <1>2, <1>3 DEF Client
<1>5. [w EXCEPT !.server.clients[c].out = @ \o parts] = SetClient(w, c, WithOut(Client(w, c), Client(w, c).out \o parts))
  <2> DEFINE out == Client(w, c).out \o parts
  <2>1. [w EXCEPT !.server.clients[c].out = out] = SetClient(w, c, WithOut(Client(w, c), out))
    <3> HIDE DEF out
    <3> QED BY ClientFields
  <2> QED BY <1>4, <2>1
<1> QED BY <1>5, CloseClientIs DEF QueueBytes


\* Client c has out to send, and is otherwise as it was.
Queued(v, w, c, n, out) ==
  Touches(v, w, c, n) /\ w.pages = v.pages /\ SameButOut(Client(v, c), Client(w, c)) /\ Client(w, c).out = out

LEMMA OutSet ==
  ASSUME NEW n \in Nat, NEW w \in WorldType(n), NEW c \in Places, NEW out \in Seq(PartType)
  PROVE  Queued(w, SetClient(w, c, WithOut(Client(w, c), out)), c, n, out)
<1> DEFINE x == WithOut(Client(w, c), out)
           u == SetClient(w, c, x)
<1>1. SameButOut(Client(w, c), x) /\ x.out = out
  BY WorldIs, WithOutIs
<1> HIDE DEF x
<1>2. x \in ClientType /\ x.page = Client(w, c).page
  BY <1>1 DEF SameButOut
<1>3. Touches(w, u, c, n)
  BY <1>2, SetClientTouches
<1>4. Client(u, c) = x /\ u.pages = w.pages
  BY <1>2, SetClientIs
<1> HIDE DEF u
<1>5. Queued(w, u, c, n, out)
  BY <1>1, <1>3, <1>4 DEF Queued
<1> QED BY <1>5 DEF u, x

LEMMA BytesQueued ==
  ASSUME NEW n \in Nat, NEW w \in WorldType(n), NEW c \in Places, Client(w, c).page \in 0 .. n, NEW parts \in Seq(PartType)
  PROVE  LET u == QueueBytes(w, c, parts)
             out == Client(w, c).out
         IN IF Len(out) + Len(parts) > CLIENT_OUTBUF_SIZE THEN IsShut(w, u, c, n) /\ Client(u, c).out = <<>>
            ELSE Queued(w, u, c, n, out \o parts)
<1> DEFINE out == Client(w, c).out \o parts
<1>1. Client(w, c).out \in Seq(PartType)
  BY WorldIs DEF ClientType
<1>2. out \in Seq(PartType)
  BY <1>1, ConcatProperties
<1> HIDE DEF out
<1>3. Queued(w, SetClient(w, c, WithOut(Client(w, c), out)), c, n, out)
  BY <1>2, OutSet
<1> QED BY <1>3, QueueBytesIs DEF out

LEMMA ShutAgain ==
  ASSUME NEW n \in Nat, NEW u, NEW v, NEW w, NEW c \in Places, IsShut(u, v, c, n), IsShut(v, w, c, n)
  PROVE  IsShut(u, w, c, n)
BY TouchesAlso DEF IsShut

\* ws_send_binary: the whole frame is behind what waits, or the client is closed.
LEMMA WsSendIs ==
  ASSUME NEW n \in Nat, NEW w \in WorldType(n), NEW c \in Places, Client(w, c).page \in 0 .. n, Client(w, c).state = "open",
         NEW size \in Nat \ {0}, NEW frame \in PartType
  PROVE  LET u == WsSend(w, c, size, frame)
         IN IsShut(w, u, c, n) \/ Queued(w, u, c, n, Client(w, c).out \o Frame(size, frame))
<1> DEFINE header == <<<<"header", size>>>>
           parts == Payload(size, frame)
           out == Client(w, c).out
           headed == QueueBytes(w, c, header)
           u == QueueBytes(headed, c, parts)
<1>1. header \in Seq(PartType) /\ parts \in Seq(PartType)
  BY FrameIs, PayloadIs
<1>2. WsSend(w, c, size, frame) = u
  BY DEF WsSend
<1>3. out \in Seq(PartType)
  BY WorldIs DEF ClientType
<1>4. out \o Frame(size, frame) = (out \o header) \o parts
  <2> HIDE DEF out
  <2>1. Frame(size, frame) = header \o parts
    BY DEF Frame
  <2> HIDE DEF header, parts
  <2>2. (out \o header) \o parts = out \o (header \o parts)
    BY <1>1, <1>3, JoinedAsWell
  <2> QED BY <2>1, <2>2
<1> HIDE DEF header, parts, u
<1>5. IsShut(w, headed, c, n) \/ Queued(w, headed, c, n, out \o header)
  BY <1>1, BytesQueued
<1> HIDE DEF headed
<1>6. headed \in WorldType(n) /\ Client(headed, c).page \in 0 .. n
  BY <1>5 DEF IsShut, Queued, Touches
<1>7. IsShut(headed, u, c, n) \/ Queued(headed, u, c, n, Client(headed, c).out \o parts)
  BY <1>1, <1>6, BytesQueued DEF u
<1>8. CASE IsShut(w, headed, c, n)
  <2>1. CASE IsShut(headed, u, c, n)
    BY <1>2, <1>8, <2>1, ShutAgain
  <2>2. CASE Queued(headed, u, c, n, Client(headed, c).out \o parts)
    <3>1. Touches(w, u, c, n)
      BY <1>8, <2>2, TouchesAlso DEF IsShut, Queued
    <3>2. IsShut(w, u, c, n)
      BY <1>8, <2>2, <3>1 DEF IsShut, Queued, SameButOut
    <3> QED BY <1>2, <3>2
  <2> QED BY <1>7, <2>1, <2>2
<1>9. CASE Queued(w, headed, c, n, out \o header)
  <2>1. CASE IsShut(headed, u, c, n)
    <3>1. Touches(w, u, c, n)
      BY <1>9, <2>1, TouchesAlso DEF IsShut, Queued
    <3> QED BY <1>2, <2>1, <3>1 DEF IsShut
  <2>2. CASE Queued(headed, u, c, n, Client(headed, c).out \o parts)
    <3>1. Touches(w, u, c, n)
      BY <1>9, <2>2, TouchesAlso DEF Queued
    <3>2. Client(headed, c).out = out \o header
      BY <1>9 DEF Queued
    <3>3. u.pages = w.pages /\ SameButOut(Client(w, c), Client(u, c)) /\ Client(u, c).out = (out \o header) \o parts
      <4> HIDE DEF out
      <4> QED BY <1>9, <2>2, <3>2 DEF Queued, SameButOut
    <3>4. Queued(w, u, c, n, (out \o header) \o parts)
      BY <3>1, <3>3 DEF Queued
    <3> QED BY <1>2, <1>4, <3>4
  <2> QED BY <1>7, <2>1, <2>2
<1> QED BY <1>5, <1>8, <1>9

\* The page of client c, and what is on its way to it, moved by flush_outbuf.
Flushed(v, w, c, n) ==
  /\ Touches(v, w, c, n) /\ SameButOut(Client(v, c), Client(w, c)) /\ Page(w, c) \in PageType
  /\ SameView(Page(v, c), Page(w, c)) /\ Page(w, c).closed = Page(v, c).closed /\ Len(Page(w, c).toPage) <= SOCKET_ROOM
  /\ Page(w, c).toPage \o Client(w, c).out = Page(v, c).toPage \o Client(v, c).out

LEMMA MovedOn ==
  ASSUME NEW s \in Seq(PartType), NEW t \in Seq(PartType), NEW m \in 0 .. Len(t)
  PROVE  /\ SubSeq(t, 1, m) \in Seq(PartType) /\ SubSeq(t, m + 1, Len(t)) \in Seq(PartType)
         /\ s \o SubSeq(t, 1, m) \in Seq(PartType) /\ Len(s \o SubSeq(t, 1, m)) = Len(s) + m
         /\ (s \o SubSeq(t, 1, m)) \o SubSeq(t, m + 1, Len(t)) = s \o t
<1> DEFINE a == SubSeq(t, 1, m)
           b == SubSeq(t, m + 1, Len(t))
<1>1. a \in Seq(PartType) /\ b \in Seq(PartType) /\ Len(a) = m /\ Len(b) = Len(t) - m
  BY SubSeqProperties
<1>2. a \o b = t
  <2>1. \A i \in 1 .. m : a[i] = t[i]
    BY SubSeqProperties
  <2>2. \A i \in 1 .. Len(t) - m : b[i] = t[m + i]
    BY SubSeqProperties
  <2> HIDE DEF a, b
  <2>3. a \o b \in Seq(PartType) /\ Len(a \o b) = Len(t)
    <3>1. Len(t) \in Nat /\ m \in Nat /\ m + (Len(t) - m) = Len(t)
      OBVIOUS
    <3> QED BY <1>1, <3>1, PartsJoined
  <2>4. \A i \in 1 .. Len(t) : (a \o b)[i] = t[i]
    <3> TAKE i \in 1 .. Len(t)
    <3>1. CASE i <= m
      BY <1>1, <2>1, <3>1, ConcatProperties
    <3>2. CASE ~(i <= m)
      <4>1. i - m \in 1 .. Len(t) - m /\ m + (i - m) = i
        BY <3>2
      <4>2. (a \o b)[i] = b[i - m]
        BY <1>1, <3>2, ConcatProperties
      <4> QED BY <2>2, <4>1, <4>2
    <3> QED BY <3>1, <3>2
  <2> QED BY <2>3, <2>4, SeqEqual
<1> HIDE DEF a, b
<1>3. s \o a \in Seq(PartType) /\ Len(s \o a) = Len(s) + m
  BY <1>1, PartsJoined
<1>4. (s \o a) \o b = s \o t
  <2>1. (s \o a) \o b = s \o (a \o b)
    BY <1>1, JoinedAsWell
  <2> QED BY <1>2, <2>1
<1> QED BY <1>1, <1>3, <1>4 DEF a, b


WithToPage(y, parts) == [y EXCEPT !.toPage = parts]
WithToServer(y, items) == [y EXCEPT !.toServer = items]

LEMMA WithToPageIs ==
  ASSUME NEW y \in PageType, NEW parts \in Seq(PartType)
  PROVE  LET u == WithToPage(y, parts)
         IN u \in PageType /\ u.at = y.at /\ SameView(y, u) /\ u.closed = y.closed /\ u.toPage = parts
<1> DEFINE u == [y EXCEPT !.toPage = parts]
<1>1. y \in [at : {"away", "connects", "here", "gone"}, toServer : Seq(ItemType), toPage : Seq(PartType), closed : BOOLEAN,
             script : Nat, part : Nat, picture : PictureType, need : Nat, torn : BOOLEAN]
  BY DEF PageType
<1>2. u \in PageType
  BY <1>1 DEF PageType
<1>3. u.at = y.at /\ u.need = y.need /\ u.torn = y.torn /\ u.picture = y.picture /\ u.closed = y.closed /\ u.toPage = parts
  BY <1>1
<1> HIDE DEF u
<1> QED BY <1>2, <1>3 DEF WithToPage, SameView, u

LEMMA WithToServerIs ==
  ASSUME NEW y \in PageType, NEW items \in Seq(ItemType)
  PROVE  LET u == WithToServer(y, items)
         IN u \in PageType /\ u.at = y.at /\ SameView(y, u) /\ u.closed = y.closed /\ u.toPage = y.toPage
<1> DEFINE u == [y EXCEPT !.toServer = items]
<1>1. y \in [at : {"away", "connects", "here", "gone"}, toServer : Seq(ItemType), toPage : Seq(PartType), closed : BOOLEAN,
             script : Nat, part : Nat, picture : PictureType, need : Nat, torn : BOOLEAN]
  BY DEF PageType
<1>2. u \in PageType
  BY <1>1 DEF PageType
<1>3. u.at = y.at /\ u.need = y.need /\ u.torn = y.torn /\ u.picture = y.picture /\ u.closed = y.closed /\ u.toPage = y.toPage
  BY <1>1
<1> HIDE DEF u
<1> QED BY <1>2, <1>3 DEF WithToServer, SameView, u

LEMMA FlushIs ==
  ASSUME NEW n \in Nat, NEW w \in WorldType(n), NEW c \in Places,
         Free(w, c) => Client(w, c).page = 0,
         ~Free(w, c) => Client(w, c).page \in 1 .. n /\ Len(Page(w, c).toPage) <= SOCKET_ROOM
  PROVE  LET u == FlushOutbuf(w, c)
         IN IF Client(w, c).out = <<>> THEN u = w
            ELSE (IsShut(w, u, c, n) /\ Client(u, c).out = <<>>) \/ (~Free(w, c) /\ Flushed(w, u, c, n))
<1> DEFINE out == Client(w, c).out
           p == Client(w, c).page
           page == Page(w, c)
           m == Least(SOCKET_ROOM - Len(page.toPage), Len(out))
           front == SubSeq(out, 1, m)
           rest == SubSeq(out, m + 1, Len(out))
           sent == page.toPage \o front
           v == SetClient(w, c, WithOut(Client(w, c), rest))
           y == WithToPage(page, sent)
           u == SetPage(v, p, y)
<1>1. out \in Seq(PartType)
  BY WorldIs DEF ClientType
<1>2. p \in 0 .. n
  BY DEF Free
<1>3. CASE out = <<>>
  BY <1>3 DEF FlushOutbuf
<1>4. CASE out # <<>> /\ (Free(w, c) \/ page.at = "gone")
  <2>1. FlushOutbuf(w, c) = CloseClient(w, c)
    BY <1>4 DEF FlushOutbuf
  <2> QED BY <1>2, <1>4, <2>1, CloseClientIs
<1>5. CASE out # <<>> /\ ~(Free(w, c) \/ page.at = "gone")
  <2>1. p \in 1 .. n /\ page \in PageType /\ Len(page.toPage) <= SOCKET_ROOM
    BY <1>5, WorldIs
  <2>2. page.toPage \in Seq(PartType)
    BY <2>1 DEF PageType
  <2>3. m \in 0 .. Len(out) /\ Len(page.toPage) + m <= SOCKET_ROOM
    <3> DEFINE room == SOCKET_ROOM - Len(page.toPage)
               len == Len(out)
    <3>1. room \in Nat /\ len \in Nat /\ Len(page.toPage) \in Nat /\ SOCKET_ROOM \in Nat
      <4>1. SOCKET_ROOM \in Nat
        BY WebAssumption
      <4>2. Len(page.toPage) \in Nat /\ len \in Nat
        <5> HIDE DEF page, out
        <5> QED BY <1>1, <2>2
      <4> HIDE DEF page, len
      <4> QED BY <2>1, <4>1, <4>2
    <3>2. Least(room, len) \in 0 .. len /\ Least(room, len) <= room
      <4> HIDE DEF room, len
      <4> QED BY <3>1 DEF Least
    <3> QED BY <3>1, <3>2
  <2> HIDE DEF m
  <2>4. /\ front \in Seq(PartType) /\ rest \in Seq(PartType) /\ sent \in Seq(PartType)
        /\ Len(sent) = Len(page.toPage) + m /\ sent \o rest = page.toPage \o out
    <3> DEFINE s == page.toPage
    <3>1. s \in Seq(PartType)
      BY <2>2
    <3> HIDE DEF s, out
    <3>2. /\ SubSeq(out, 1, m) \in Seq(PartType) /\ SubSeq(out, m + 1, Len(out)) \in Seq(PartType)
          /\ s \o SubSeq(out, 1, m) \in Seq(PartType) /\ Len(s \o SubSeq(out, 1, m)) = Len(s) + m
          /\ (s \o SubSeq(out, 1, m)) \o SubSeq(out, m + 1, Len(out)) = s \o out
      BY <1>1, <2>3, <3>1, MovedOn
    <3> QED BY <3>2 DEF s
  <2>5. FlushOutbuf(w, c) = u
    <3>1. w \in [server : ServerType, pages : [1 .. n -> PageType]]
      BY DEF WorldType
    <3>2. w.server \in [machine : {"michael", "wendy2c"}, memory : PictureType, clients : [Places -> ClientType], events : Seq(EventType),
                        audio : Nat, event : EventType \cup {<<>>}, broken : BOOLEAN]
      BY <3>1 DEF ServerType
    <3>3. FlushOutbuf(w, c) = [w EXCEPT !.server.clients[c].out = rest, !.pages[p].toPage = @ \o front]
      BY <1>5 DEF FlushOutbuf, m
    <3> HIDE DEF front, rest
    <3>4. [w EXCEPT !.server.clients[c].out = rest] = v
      <4> HIDE DEF out
      <4> QED BY ClientFields
    <3>5. [w EXCEPT !.server.clients[c].out = rest, !.pages[p].toPage = @ \o front] = [v EXCEPT !.pages[p] = y]
      <4>1. v.pages = w.pages
        BY <3>1, <3>4
      <4>2. p \in DOMAIN w.pages
        BY <2>1, <3>1
      <4>3. [[w EXCEPT !.server.clients[c].out = rest] EXCEPT !.pages[p].toPage = @ \o front] = [v EXCEPT !.pages[p] = y]
        <5> HIDE DEF v
        <5> QED BY <3>4, <4>1, <4>2, <3>1 DEF WithToPage, Page
      <4> QED BY <3>1, <4>3
    <3> QED BY <3>3, <3>5 DEF SetPage
  <2> HIDE DEF front, rest, sent
  <2>6. Queued(w, v, c, n, rest)
    BY <2>4, OutSet
  <2>7. y \in PageType /\ y.at = page.at /\ SameView(page, y) /\ y.closed = page.closed /\ y.toPage = sent
    <3> HIDE DEF page
    <3> QED BY <2>1, <2>4, WithToPageIs
  <2> HIDE DEF v, y
  <2>8. v \in WorldType(n) /\ Client(v, c).page = p /\ Page(v, c) = page
    BY <2>6 DEF Queued, Touches, SameButOut, Page
  <2> HIDE DEF page
  <2>9. Touches(v, u, c, n)
    <3>1. Touches(v, SetPage(v, Client(v, c).page, y), c, n)
      BY <2>1, <2>7, <2>8, SetPageTouches
    <3> QED BY <2>8, <3>1
  <2>10. u.server = v.server /\ u.pages[p] = y
    <3> HIDE DEF p
    <3> QED BY <2>1, <2>7, <2>8, SetPageIs
  <2> HIDE DEF u
  <2>11. Client(u, c) = Client(v, c) /\ Page(u, c) = y
    BY <2>8, <2>10 DEF Client, Page
  <2>12. Touches(w, u, c, n)
    BY <2>6, <2>9, TouchesAlso DEF Queued
  <2>13. SameButOut(Client(w, c), Client(u, c)) /\ Client(u, c).out = rest
    BY <2>6, <2>11 DEF Queued
  <2>14. Len(sent) <= SOCKET_ROOM
    BY <2>3, <2>4
  <2>15. Flushed(w, u, c, n)
    BY <2>4, <2>7, <2>11, <2>12, <2>13, <2>14 DEF Flushed, page, out
  <2> QED BY <1>5, <2>5, <2>15
<1> QED BY <1>3, <1>4, <1>5


----
\* The inductive invariant

\* The page of client c, once it has what is on its way to it.
Seen(w, c) == AfterParts(Page(w, c), Page(w, c).toPage \o Client(w, c).out)
InStep(w, c) == IsQuiet(Seen(w, c)) /\ (Client(w, c).display # <<>> => Agrees(Seen(w, c).picture, Client(w, c).display[1]))

\* A slot is free, and then nothing is left of the client that had it; or it has a page that
\* is there, or has gone, and hears of it only what it asked for; or it is open, and then
\* the page is in step.
EmptyIfFree(w, c) == Free(w, c) => Client(w, c).page = 0 /\ Client(w, c).display = <<>> /\ Client(w, c).asked = <<>>
HasItsPage(w, c, n) ==
  ~Free(w, c) => /\ Client(w, c).page \in 1 .. n /\ Page(w, c).at \in {"here", "gone"} /\ ~Page(w, c).closed
                 /\ Len(Page(w, c).toPage) <= SOCKET_ROOM
WasAsked(w, c) == Client(w, c).asked # <<>> => Client(w, c).asked[1] # "websocket"
NothingSaid(w, c) ==
  Client(w, c).state = "http" /\ Client(w, c).asked = <<>> =>
    Client(w, c).out = <<>> /\ Page(w, c).toPage = <<>> /\ IsQuiet(Page(w, c))
ShownIfOpen(w, c) == Client(w, c).display # <<>> => Client(w, c).state = "open" /\ w.server.machine = "michael"
Fine(w, c, n) ==
  /\ EmptyIfFree(w, c) /\ HasItsPage(w, c, n) /\ WasAsked(w, c) /\ NothingSaid(w, c) /\ ShownIfOpen(w, c)
  /\ Client(w, c).state = "open" => InStep(w, c)

\* No two clients have one page, and a page that the server has not met has had nothing of it.
Apart(w) == \A c \in Places, d \in Places : c # d /\ ~Free(w, c) /\ ~Free(w, d) => Client(w, c).page # Client(w, d).page
Unmet(w, n) ==
  \A p \in 1 .. n : w.pages[p].at \in {"away", "connects"} => w.pages[p].toPage = <<>> /\ IsQuiet(w.pages[p]) /\ ~w.pages[p].closed
WebWorld(n) == {w \in WorldType(n) : (\A c \in Places : Fine(w, c, n)) /\ Apart(w) /\ Unmet(w, n)}

LEMMA ShutIsFine ==
  ASSUME NEW n \in Nat, NEW v, NEW w, NEW c \in Places, IsShut(v, w, c, n)
  PROVE  Fine(w, c, n)
BY DEF IsShut, Fine, EmptyIfFree, HasItsPage, WasAsked, NothingSaid, ShownIfOpen, Free

\* What a handler of one client does cannot put another's page out of step.
LEMMA OneClient ==
  ASSUME NEW n \in Nat, NEW v \in WebWorld(n), NEW w, NEW c \in Places, Touches(v, w, c, n), Fine(w, c, n)
  PROVE  w \in WebWorld(n)
<1>1. v \in WorldType(n) /\ (\A d \in Places : Fine(v, d, n)) /\ Apart(v) /\ Unmet(v, n)
  BY DEF WebWorld
<1>2. w \in WorldType(n) /\ w.server.machine = v.server.machine
  BY DEF Touches, SameMachine
<1>3. Client(v, c).page = 0 \/ (~Free(v, c) /\ Client(v, c).page \in 1 .. n /\ Page(v, c).at \in {"here", "gone"})
  BY <1>1 DEF Fine, EmptyIfFree, HasItsPage
<1>4. ASSUME NEW d \in Places, d # c PROVE Fine(w, d, n) /\ (Free(w, d) <=> Free(v, d)) /\ Client(w, d) = Client(v, d)
  <2>1. Client(w, d) = Client(v, d)
    BY <1>4 DEF Touches
  <2>2. Fine(v, d, n)
    BY <1>1
  <2>3. CASE Free(v, d)
    BY <2>1, <2>2, <2>3 DEF Fine, EmptyIfFree, HasItsPage, WasAsked, NothingSaid, ShownIfOpen, Free
  <2>4. CASE ~Free(v, d)
    <3>1. Client(v, d).page \in 1 .. n /\ Client(v, d).page # Client(v, c).page
      BY <1>1, <1>3, <1>4, <2>2, <2>4 DEF Apart, Fine, HasItsPage
    <3>2. Page(w, d) = Page(v, d)
      BY <2>1, <3>1 DEF Touches, Page
    <3> QED BY <1>2, <2>1, <2>2, <3>2 DEF Fine, EmptyIfFree, HasItsPage, WasAsked, NothingSaid, ShownIfOpen, Free, InStep, Seen
  <2> QED BY <2>1, <2>3, <2>4 DEF Free
<1>5. Apart(w)
  <2>1. ASSUME NEW d \in Places, d # c, ~Free(w, d), ~Free(w, c) PROVE Client(w, d).page # Client(w, c).page
    <3>1. Client(w, c).page \in 1 .. n /\ Client(w, c).page = Client(v, c).page
      BY <2>1 DEF Fine, HasItsPage, Touches
    <3>2. ~Free(v, c) /\ ~Free(v, d) /\ Client(w, d) = Client(v, d)
      BY <1>3, <1>4, <2>1, <3>1
    <3> QED BY <1>1, <2>1, <3>1, <3>2 DEF Apart
  <2>2. ASSUME NEW d \in Places, NEW e \in Places, d # e, d # c, e # c, ~Free(w, d), ~Free(w, e)
        PROVE  Client(w, d).page # Client(w, e).page
    <3>1. ~Free(v, d) /\ ~Free(v, e) /\ Client(w, d) = Client(v, d) /\ Client(w, e) = Client(v, e)
      BY <1>4, <2>2
    <3> QED BY <1>1, <2>2, <3>1 DEF Apart
  <2> QED BY <2>1, <2>2 DEF Apart
<1>6. Unmet(w, n)
  <2> SUFFICES ASSUME NEW p \in 1 .. n, w.pages[p].at \in {"away", "connects"}
               PROVE  w.pages[p].toPage = <<>> /\ IsQuiet(w.pages[p]) /\ ~w.pages[p].closed
    BY DEF Unmet
  <2>1. v.pages[p].at \in {"away", "connects"}
    BY DEF Touches
  <2>2. p # Client(v, c).page
    BY <1>3, <2>1 DEF Page
  <2>3. w.pages[p] = v.pages[p]
    BY <2>2 DEF Touches
  <2> QED BY <1>1, <2>1, <2>3 DEF Unmet
<1>7. \A d \in Places : Fine(w, d, n)
  BY <1>4
<1> QED BY <1>2, <1>5, <1>6, <1>7 DEF WebWorld

LEMMA StreamTyped ==
  ASSUME NEW n \in Nat, NEW w \in WorldType(n), NEW c \in Places, Client(w, c).page \in 1 .. n
  PROVE  /\ Page(w, c) \in PageType /\ Page(w, c).toPage \in Seq(PartType) /\ Client(w, c).out \in Seq(PartType)
         /\ Page(w, c).toPage \o Client(w, c).out \in Seq(PartType) /\ Seen(w, c) \in PageType
<1>1. Page(w, c) \in PageType /\ Client(w, c) \in ClientType
  BY WorldIs
<1>2. Page(w, c).toPage \in Seq(PartType) /\ Client(w, c).out \in Seq(PartType)
  BY <1>1 DEF PageType, ClientType
<1>3. Page(w, c).toPage \o Client(w, c).out \in Seq(PartType)
  BY <1>2, PartsJoined
<1> QED BY <1>1, <1>2, <1>3, AfterIs DEF Seen

\* A whole frame behind the rest: the page draws it, if it is of the display, and is ready
\* for the next.
LEMMA FrameSent ==
  ASSUME NEW n \in Nat, NEW v \in WorldType(n), NEW w, NEW c \in Places, Client(v, c).page \in 1 .. n, IsQuiet(Seen(v, c)),
         NEW size \in Nat \ {0}, NEW frame \in PartType, frame[1] # "part", frame[1] # "header",
         Queued(v, w, c, n, Client(v, c).out \o Frame(size, frame))
  PROVE  IsQuiet(Seen(w, c)) /\ Seen(w, c).picture = IF frame[1] = "display" THEN ApplyDisplay(Seen(v, c).picture, frame[2]) ELSE Seen(v, c).picture
<1> DEFINE page == Page(v, c)
           sent == page.toPage
           out == Client(v, c).out
           whole == Frame(size, frame)
           before == Seen(v, c)
<1>1. page \in PageType /\ sent \in Seq(PartType) /\ out \in Seq(PartType) /\ sent \o out \in Seq(PartType) /\ before \in PageType
  BY StreamTyped
<1>2. whole \in Seq(PartType)
  BY FrameIs
<1>3. Page(w, c) = page /\ Client(w, c).out = out \o whole
  BY DEF Queued, SameButOut, Page
<1>4. before = AfterParts(page, sent \o out)
  BY DEF Seen
<1>5. Seen(w, c) = AfterParts(page, sent \o (out \o whole))
  BY <1>3 DEF Seen
<1> HIDE DEF page, out, whole, before
<1>6. Seen(w, c) = AfterParts(page, (sent \o out) \o whole)
  <2> HIDE DEF sent
  <2>1. (sent \o out) \o whole = sent \o (out \o whole)
    BY <1>1, <1>2, JoinedAsWell
  <2> QED BY <1>5, <2>1
<1> HIDE DEF sent
<1>7. AfterParts(page, (sent \o out) \o whole) = AfterParts(AfterParts(page, sent \o out), whole)
  <2> DEFINE s == sent \o out
  <2>1. s \in Seq(PartType)
    BY <1>1
  <2> HIDE DEF s
  <2>2. AfterParts(page, s \o whole) = AfterParts(AfterParts(page, s), whole)
    BY <1>1, <1>2, <2>1, AfterJoined
  <2> QED BY <2>2 DEF s
<1>8. Seen(w, c) = AfterParts(before, Frame(size, frame))
  BY <1>4, <1>6, <1>7 DEF whole
<1>9. IsQuiet(before)
  BY DEF before
<1>10. LET q == AfterParts(before, Frame(size, frame))
       IN IsQuiet(q) /\ q.picture = IF frame[1] = "display" THEN ApplyDisplay(before.picture, frame[2]) ELSE before.picture
  BY <1>1, <1>9, FrameTaken
<1> QED BY <1>8, <1>10 DEF before


\* Where the pages were in step, a handler leaves them so.
Keeps(v, w, n) == w \in WebWorld(n) /\ SameMachine(v, w)

LEMMA OneClientKeeps ==
  ASSUME NEW n \in Nat, NEW v \in WebWorld(n), NEW w, NEW c \in Places, Touches(v, w, c, n), Fine(w, c, n)
  PROVE  Keeps(v, w, n)
BY OneClient DEF Keeps, Touches

LEMMA KeepsAlso ==
  ASSUME NEW n \in Nat, NEW u, NEW v, NEW w, Keeps(u, v, n), Keeps(v, w, n)
  PROVE  Keeps(u, w, n)
BY DEF Keeps, SameMachine

LEMMA ClientOf ==
  ASSUME NEW n \in Nat, NEW w \in WebWorld(n), NEW c \in Places
  PROVE  /\ w \in WorldType(n) /\ Fine(w, c, n) /\ Client(w, c) \in ClientType /\ Client(w, c).page \in 0 .. n
         /\ (Free(w, c) => Client(w, c).page = 0)
         /\ (~Free(w, c) => Client(w, c).page \in 1 .. n /\ Len(Page(w, c).toPage) <= SOCKET_ROOM)
<1>1. w \in WorldType(n) /\ Fine(w, c, n)
  BY DEF WebWorld
<1>2. Client(w, c) \in ClientType
  BY <1>1, WorldIs
<1> QED BY <1>1, <1>2 DEF Fine, EmptyIfFree, HasItsPage

LEMMA CloseClientKeeps ==
  ASSUME NEW n \in Nat, NEW w \in WebWorld(n), NEW c \in Places
  PROVE  Keeps(w, CloseClient(w, c), n)
<1>1. IsShut(w, CloseClient(w, c), c, n)
  BY ClientOf, CloseClientIs
<1> QED BY <1>1, ShutIsFine, OneClientKeeps DEF IsShut

LEMMA FlushKeeps ==
  ASSUME NEW n \in Nat, NEW w \in WebWorld(n), NEW c \in Places
  PROVE  Keeps(w, FlushOutbuf(w, c), n)
<1> DEFINE u == FlushOutbuf(w, c)
<1>1. /\ w \in WorldType(n) /\ Fine(w, c, n) /\ Client(w, c) \in ClientType /\ Client(w, c).page \in 0 .. n
      /\ (Free(w, c) => Client(w, c).page = 0)
      /\ (~Free(w, c) => Client(w, c).page \in 1 .. n /\ Len(Page(w, c).toPage) <= SOCKET_ROOM)
  BY ClientOf
<1>2. IF Client(w, c).out = <<>> THEN u = w
      ELSE (IsShut(w, u, c, n) /\ Client(u, c).out = <<>>) \/ (~Free(w, c) /\ Flushed(w, u, c, n))
  BY <1>1, FlushIs
<1> HIDE DEF u
<1>3. CASE u = w
  BY <1>3 DEF Keeps, SameMachine, u
<1>4. CASE IsShut(w, u, c, n)
  BY <1>4, ShutIsFine, OneClientKeeps DEF IsShut, u
<1>5. CASE Client(w, c).out # <<>> /\ ~Free(w, c) /\ Flushed(w, u, c, n)
  <2>1. Client(w, c).page \in 1 .. n /\ Client(u, c).page = Client(w, c).page /\ Client(u, c).state = Client(w, c).state
        /\ Client(u, c).asked = Client(w, c).asked /\ Client(u, c).display = Client(w, c).display
    BY <1>1, <1>5 DEF Flushed, SameButOut
  <2>2. Page(u, c).at = Page(w, c).at
    BY <1>5, <2>1 DEF Flushed, Touches, Page
  <2>3. Client(w, c).state = "open" => InStep(u, c)
    <3> HAVE Client(w, c).state = "open"
    <3>1. InStep(w, c)
      BY <1>1 DEF Fine
    <3> DEFINE p == Page(w, c)
               q == Page(u, c)
               stream == p.toPage \o Client(w, c).out
    <3>2. p \in PageType /\ stream \in Seq(PartType) /\ q \in PageType /\ SameView(p, q)
      BY <1>1, <1>5, <2>1, StreamTyped DEF Flushed
    <3>3. Seen(w, c) = AfterParts(p, stream) /\ Seen(u, c) = AfterParts(q, stream)
      BY <1>5 DEF Flushed, Seen
    <3> HIDE DEF p, q, stream
    <3>4. SameView(Seen(w, c), Seen(u, c))
      <4>1. SameView(AfterParts(p, stream), AfterParts(q, stream))
        BY <3>2, AfterIs
      <4> QED BY <3>3, <4>1
    <3> QED BY <2>1, <3>1, <3>4 DEF InStep, SameView, IsQuiet
  <2>4. w.server.machine = u.server.machine
    BY <1>5 DEF Flushed, Touches, SameMachine
  <2>5. Fine(u, c, n)
    <3>1. EmptyIfFree(u, c)
      BY <1>5, <2>1 DEF EmptyIfFree, Free
    <3>2. HasItsPage(u, c, n)
      BY <1>1, <1>5, <2>1, <2>2 DEF Fine, HasItsPage, Flushed, Free
    <3>3. WasAsked(u, c) /\ ShownIfOpen(u, c)
      BY <1>1, <2>1, <2>4 DEF Fine, WasAsked, ShownIfOpen
    <3>4. NothingSaid(u, c)
      BY <1>1, <1>5, <2>1 DEF Fine, NothingSaid
    <3> QED BY <1>1, <2>1, <2>3, <3>1, <3>2, <3>3, <3>4 DEF Fine
  <2> QED BY <1>5, <2>5, OneClientKeeps DEF Flushed, u
<1> QED BY <1>2, <1>3, <1>4, <1>5

\* A client whose page is open has sent a whole frame more.
LEMMA FrameIsFine ==
  ASSUME NEW n \in Nat, NEW v \in WebWorld(n), NEW w, NEW c \in Places, Client(v, c).state = "open", NEW out,
         Queued(v, w, c, n, out), InStep(w, c)
  PROVE  Fine(w, c, n)
<1>1. Fine(v, c, n) /\ ~Free(v, c)
  BY ClientOf DEF Free
<1>2. SameButOut(Client(v, c), Client(w, c)) /\ w.pages = v.pages /\ v.server.machine = w.server.machine
  BY DEF Queued, Touches, SameMachine
<1>3. Client(w, c).state = "open" /\ ~Free(w, c) /\ Page(w, c) = Page(v, c)
  BY <1>2 DEF SameButOut, Page, Free
<1> QED BY <1>1, <1>2, <1>3 DEF Fine, EmptyIfFree, HasItsPage, WasAsked, ShownIfOpen, NothingSaid, SameButOut, Free

LEMMA WsSendKeeps ==
  ASSUME NEW n \in Nat, NEW w \in WebWorld(n), NEW c \in Places, NEW size \in Nat \ {0}, NEW frame \in PartType,
         frame[1] \notin {"part", "header", "display"}
  PROVE  Keeps(w, WsSend(w, c, size, frame), n)
<1> DEFINE u == WsSend(w, c, size, frame)
<1>1. CASE Client(w, c).state # "open"
  BY <1>1 DEF WsSend, Keeps, SameMachine
<1>2. CASE Client(w, c).state = "open"
  <2>1. ~Free(w, c)
    BY <1>2 DEF Free
  <2>2. w \in WorldType(n) /\ Client(w, c).page \in 0 .. n /\ Client(w, c).page \in 1 .. n /\ InStep(w, c)
    BY <1>2, <2>1, ClientOf DEF Fine
  <2>3. IsShut(w, u, c, n) \/ Queued(w, u, c, n, Client(w, c).out \o Frame(size, frame))
    BY <1>2, <2>2, WsSendIs
  <2> HIDE DEF u
  <2>4. CASE IsShut(w, u, c, n)
    BY <2>4, ShutIsFine, OneClientKeeps DEF IsShut, u
  <2>5. CASE Queued(w, u, c, n, Client(w, c).out \o Frame(size, frame))
    <3>1. IsQuiet(Seen(w, c))
      BY <2>2 DEF InStep
    <3>2. IsQuiet(Seen(u, c)) /\ Seen(u, c).picture = Seen(w, c).picture
      BY <2>2, <2>5, <3>1, FrameSent
    <3>3. InStep(u, c)
      BY <2>2, <2>5, <3>2 DEF InStep, Queued, SameButOut
    <3>4. Fine(u, c, n)
      BY <1>2, <2>5, <3>3, FrameIsFine
    <3> QED BY <2>5, <3>4, OneClientKeeps DEF Queued, u
  <2> QED BY <2>3, <2>4, <2>5
<1> QED BY <1>1, <1>2


\* What Fine does not tell apart: the same client, but for its input and whether it has the rate.
SameClient(x, y) ==
  y \in ClientType /\ y.state = x.state /\ y.page = x.page /\ y.asked = x.asked /\ y.out = x.out /\ y.display = x.display

LEMMA SameIsFine ==
  ASSUME NEW n \in Nat, NEW v, NEW w, NEW c \in Places, Fine(v, c, n), w.pages = v.pages, SameMachine(v, w), SameClient(Client(v, c), Client(w, c))
  PROVE  Fine(w, c, n)
<1>1. Page(w, c) = Page(v, c) /\ w.server.machine = v.server.machine /\ (Free(w, c) <=> Free(v, c))
  BY DEF SameClient, Page, SameMachine, Free
<1>2. Seen(w, c) = Seen(v, c)
  BY <1>1 DEF Seen, SameClient
<1> QED BY <1>1, <1>2 DEF Fine, EmptyIfFree, HasItsPage, WasAsked, NothingSaid, ShownIfOpen, SameClient, InStep

WithRate(x) == [x EXCEPT !.rateSent = TRUE]

LEMMA WithRateIs ==
  ASSUME NEW x \in ClientType
  PROVE  SameClient(x, WithRate(x))
<1> DEFINE y == [x EXCEPT !.rateSent = TRUE]
<1>1. x \in [state : {"free", "http", "open"}, page : Nat, in : Seq(ItemType), asked : Seq(STRING), out : Seq(PartType),
             rateSent : BOOLEAN, display : Seq(ShadowType)]
  BY DEF ClientType
<1>2. y \in ClientType
  BY <1>1 DEF ClientType
<1>3. y.state = x.state /\ y.page = x.page /\ y.asked = x.asked /\ y.out = x.out /\ y.display = x.display
  BY <1>1
<1> HIDE DEF y
<1> QED BY <1>2, <1>3 DEF SameClient, WithRate, y

LEMMA WithInIs ==
  ASSUME NEW x \in ClientType, NEW in \in Seq(ItemType)
  PROVE  SameClient(x, WithIn(x, in)) /\ WithIn(x, in).in = in
<1> DEFINE y == [x EXCEPT !.in = in]
<1>1. x \in [state : {"free", "http", "open"}, page : Nat, in : Seq(ItemType), asked : Seq(STRING), out : Seq(PartType),
             rateSent : BOOLEAN, display : Seq(ShadowType)]
  BY DEF ClientType
<1>2. y \in ClientType
  BY <1>1 DEF ClientType
<1>3. y.state = x.state /\ y.page = x.page /\ y.asked = x.asked /\ y.out = x.out /\ y.display = x.display /\ y.in = in
  BY <1>1
<1> HIDE DEF y
<1> QED BY <1>2, <1>3 DEF SameClient, WithIn, y

LEMMA WithDisplayIs ==
  ASSUME NEW x \in ClientType, NEW shadow \in ShadowType
  PROVE  LET y == WithDisplay(x, <<shadow>>)
         IN y \in ClientType /\ y.state = x.state /\ y.page = x.page /\ y.asked = x.asked /\ y.out = x.out /\ y.display = <<shadow>>
<1> DEFINE display == <<shadow>>
           y == [x EXCEPT !.display = display]
<1>0. display \in Seq(ShadowType)
  OBVIOUS
<1> HIDE DEF display
<1>1. x \in [state : {"free", "http", "open"}, page : Nat, in : Seq(ItemType), asked : Seq(STRING), out : Seq(PartType),
             rateSent : BOOLEAN, display : Seq(ShadowType)]
  BY DEF ClientType
<1>2. y \in ClientType
  BY <1>0, <1>1 DEF ClientType
<1>3. y.state = x.state /\ y.page = x.page /\ y.asked = x.asked /\ y.out = x.out /\ y.display = display
  BY <1>1
<1> HIDE DEF y
<1> QED BY <1>2, <1>3 DEF WithDisplay, y, display

LEMMA SendRateKeeps ==
  ASSUME NEW n \in Nat, NEW w \in WebWorld(n), NEW c \in Places
  PROVE  Keeps(w, SendRate(w, c), n)
<1> DEFINE y == WsSend(w, c, 1, <<"rate">>)
           x == WithRate(Client(y, c))
           u == SetClient(y, c, x)
<1>1. <<"rate">> \in PartType /\ <<"rate">>[1] \notin {"part", "header", "display"}
  BY DEF PartType, PartNames
<1>2. Keeps(w, y, n)
  BY <1>1, WsSendKeeps
<1>3. y \in WebWorld(n)
  BY <1>2 DEF Keeps
<1>4. y \in WorldType(n) /\ Client(y, c) \in ClientType /\ Fine(y, c, n)
  BY <1>3, ClientOf
<1>5. SendRate(w, c) = w \/ SendRate(w, c) = u
  <2>1. y \in [server : ServerType, pages : [1 .. n -> PageType]]
    BY <1>4 DEF WorldType
  <2>2. y.server \in [machine : {"michael", "wendy2c"}, memory : PictureType, clients : [Places -> ClientType], events : Seq(EventType),
                      audio : Nat, event : EventType \cup {<<>>}, broken : BOOLEAN]
    BY <2>1 DEF ServerType
  <2> HIDE DEF y
  <2>3. [y EXCEPT !.server.clients[c].rateSent = TRUE] = u
    BY <2>1, <2>2 DEF SetClient, WithRate, Client
  <2> QED BY <2>3 DEF SendRate, y
<1> HIDE DEF y
<1>6. SameClient(Client(y, c), x)
  BY <1>4, WithRateIs
<1> HIDE DEF x
<1>7. Touches(y, u, c, n) /\ u.pages = y.pages /\ Client(u, c) = x
  BY <1>4, <1>6, SetClientTouches, SetClientIs DEF SameClient
<1> HIDE DEF u
<1>8. Fine(u, c, n)
  BY <1>4, <1>6, <1>7, SameIsFine DEF Touches
<1>9. Keeps(y, u, n)
  BY <1>3, <1>7, <1>8, OneClientKeeps
<1>10. Keeps(w, u, n)
  BY <1>2, <1>9, KeepsAlso
<1> QED BY <1>5, <1>10 DEF Keeps, SameMachine

\* A client whose page is open, and stays in step.
LEMMA OpenIsFine ==
  ASSUME NEW n \in Nat, NEW v \in WebWorld(n), NEW w, NEW c \in Places, Client(v, c).state = "open",
         w.pages = v.pages, Client(w, c).state = "open", Client(w, c).page = Client(v, c).page, Client(w, c).asked = Client(v, c).asked,
         w.server.machine = "michael", InStep(w, c)
  PROVE  Fine(w, c, n)
<1>1. Fine(v, c, n) /\ ~Free(v, c)
  BY ClientOf DEF Free
<1>2. ~Free(w, c) /\ Page(w, c) = Page(v, c)
  BY DEF Page, Free
<1> QED BY <1>1, <1>2 DEF Fine, EmptyIfFree, HasItsPage, WasAsked, ShownIfOpen, NothingSaid, Free

\* The shadow of client c, which is otherwise as it was.
LEMMA KnownIs ==
  ASSUME NEW n \in Nat, NEW w \in WorldType(n), NEW c \in Places, NEW shadow \in ShadowType
  PROVE  LET u == Known(w, c, shadow)
         IN /\ Touches(w, u, c, n) /\ u.pages = w.pages /\ Client(u, c).state = Client(w, c).state /\ Client(u, c).page = Client(w, c).page
            /\ Client(u, c).asked = Client(w, c).asked /\ Client(u, c).display = <<shadow>> /\ Seen(u, c) = Seen(w, c)
            /\ Client(u, c).out = Client(w, c).out
<1> DEFINE y == WithDisplay(Client(w, c), <<shadow>>)
           u == SetClient(w, c, y)
           display == <<shadow>>
<1>1. /\ y \in ClientType /\ y.state = Client(w, c).state /\ y.page = Client(w, c).page /\ y.asked = Client(w, c).asked
      /\ y.out = Client(w, c).out /\ y.display = <<shadow>>
  BY WorldIs, WithDisplayIs
<1>2. Known(w, c, shadow) = u
  <2>1. [w EXCEPT !.server.clients[c].display = display] = SetClient(w, c, WithDisplay(Client(w, c), display))
    <3> HIDE DEF display
    <3> QED BY ClientFields
  <2> QED BY <2>1 DEF Known
<1> HIDE DEF y
<1>3. Touches(w, u, c, n) /\ u.pages = w.pages /\ Client(u, c) = y
  BY <1>1, SetClientTouches, SetClientIs
<1> HIDE DEF u
<1>4. Seen(u, c) = Seen(w, c)
  BY <1>1, <1>3 DEF Seen, Page
<1> QED BY <1>1, <1>2, <1>3, <1>4


LEMMA MachineFields ==
  ASSUME NEW n \in Nat, NEW w \in WorldType(n)
  PROVE  /\ w \in [server : ServerType, pages : [1 .. n -> PageType]]
         /\ w.server \in [machine : {"michael", "wendy2c"}, memory : PictureType, clients : [Places -> ClientType], events : Seq(EventType),
                          audio : Nat, event : EventType \cup {<<>>}, broken : BOOLEAN]
BY DEF WorldType, ServerType

\* What is no client's, and no page's, puts nothing out of step.
LEMMA SameClients ==
  ASSUME NEW n \in Nat, NEW v \in WebWorld(n), NEW w \in WorldType(n),
         w.pages = v.pages, w.server.clients = v.server.clients, w.server.machine = v.server.machine
  PROVE  w \in WebWorld(n)
<1>1. \A c \in Places : Client(w, c) = Client(v, c) /\ Page(w, c) = Page(v, c) /\ (Free(w, c) <=> Free(v, c))
  BY DEF Client, Page, Free
<1>2. ASSUME NEW c \in Places PROVE Fine(w, c, n)
  <2>1. Fine(v, c, n)
    BY ClientOf
  <2>2. Client(w, c) = Client(v, c) /\ Page(w, c) = Page(v, c) /\ (Free(w, c) <=> Free(v, c)) /\ Seen(w, c) = Seen(v, c)
    BY <1>1 DEF Seen
  <2> QED BY <2>1, <2>2 DEF Fine, EmptyIfFree, HasItsPage, WasAsked, NothingSaid, ShownIfOpen, InStep
<1>3. Apart(v) /\ Unmet(v, n)
  BY DEF WebWorld
<1>4. Apart(w)
  BY <1>1, <1>3 DEF Apart
<1>5. Unmet(w, n)
  BY <1>3 DEF Unmet
<1> QED BY <1>2, <1>4, <1>5 DEF WebWorld

\* What is beyond display_msg, or moved from nowhere, is nobody's connection.
LEMMA SetBroken ==
  ASSUME NEW n \in Nat, NEW w \in WebWorld(n), NEW b \in BOOLEAN
  PROVE  LET u == [w EXCEPT !.server.broken = b]
         IN Keeps(w, u, n) /\ u.server.clients = w.server.clients /\ u.pages = w.pages
<1> DEFINE u == [w EXCEPT !.server.broken = b]
<1>1. w \in [server : ServerType, pages : [1 .. n -> PageType]]
  BY MachineFields DEF WebWorld
<1>2. w.server \in [machine : {"michael", "wendy2c"}, memory : PictureType, clients : [Places -> ClientType], events : Seq(EventType),
                    audio : Nat, event : EventType \cup {<<>>}, broken : BOOLEAN]
  BY MachineFields DEF WebWorld
<1>3. /\ u.pages = w.pages /\ u.server.clients = w.server.clients /\ u.server.machine = w.server.machine
      /\ u.server.memory = w.server.memory /\ u.server.audio = w.server.audio
  BY <1>1, <1>2
<1>4. u.server \in ServerType
  BY <1>1, <1>2 DEF ServerType
<1>5. u \in WorldType(n)
  BY <1>1, <1>4 DEF WorldType
<1> HIDE DEF u
<1> QED BY <1>3, <1>5, SameClients DEF Keeps, SameMachine, u

LEMMA MessageWrittenKeeps ==
  ASSUME NEW n \in Nat, NEW w \in WebWorld(n), NEW e
  PROVE  LET u == MessageWritten(w, e)
         IN Keeps(w, u, n) /\ u.server.clients = w.server.clients /\ u.pages = w.pages
<1> DEFINE b == w.server.broken \/ e.wrote > DISPLAY_BUDGET + WEB_DISPLAY_RECT_MAX
<1>1. MessageWritten(w, e) = [w EXCEPT !.server.broken = b]
  BY DEF MessageWritten
<1>2. b \in BOOLEAN
  OBVIOUS
<1> HIDE DEF b
<1> QED BY <1>1, <1>2, SetBroken

\* A shadow that the page agrees with, once it has what is on its way.
LEMMA KnownKeeps ==
  ASSUME NEW n \in Nat, NEW w \in WebWorld(n), NEW c \in Places, Client(w, c).state = "open", w.server.machine = "michael",
         NEW sh \in ShadowType, Agrees(Seen(w, c).picture, sh)
  PROVE  Keeps(w, Known(w, c, sh), n)
<1>1. w \in WorldType(n) /\ InStep(w, c)
  BY ClientOf DEF Fine, Free
<1> DEFINE u == Known(w, c, sh)
<1>2. /\ Touches(w, u, c, n) /\ u.pages = w.pages /\ Client(u, c).state = Client(w, c).state /\ Client(u, c).page = Client(w, c).page
      /\ Client(u, c).asked = Client(w, c).asked /\ Client(u, c).display = <<sh>> /\ Seen(u, c) = Seen(w, c)
  BY <1>1, KnownIs
<1> HIDE DEF u
<1>3. InStep(u, c)
  <2>1. Client(u, c).display[1] = sh
    BY <1>2
  <2> QED BY <1>1, <1>2, <2>1 DEF InStep
<1>4. u.server.machine = "michael"
  BY <1>2 DEF Touches, SameMachine
<1>5. Fine(u, c, n)
  BY <1>2, <1>3, <1>4, OpenIsFine
<1> QED BY <1>2, <1>5, OneClientKeeps DEF u

\* A message that is on its way, with what the page has after it.
LEMMA SendRectsKeeps ==
  ASSUME NEW n \in Nat, NEW w \in WebWorld(n), NEW c \in Places, Client(w, c).state = "open", w.server.machine = "michael",
         NEW e, e.shadow \in ShadowType, e.size \in Nat \ {0}, e.rects \in Seq(RectType),
         Agrees(ApplyDisplay(Seen(w, c).picture, e.rects), e.shadow)
  PROVE  Keeps(w, SendRects(w, c, e), n)
<1>1. w \in WorldType(n) /\ Client(w, c) \in ClientType /\ Client(w, c).page \in 1 .. n /\ InStep(w, c)
  BY ClientOf DEF Fine, Free
<1>2. Seen(w, c) \in PageType /\ Seen(w, c).picture \in PictureType
  BY <1>1, StreamTyped DEF PageType
<1>3. CASE e.rects = <<>>
  <2>1. ApplyDisplay(Seen(w, c).picture, <<>>) = Seen(w, c).picture
    <3> DEFINE picture == Seen(w, c).picture
               fresh == Fresh(picture)
    <3>1. picture \in PictureType
      BY <1>2
    <3> HIDE DEF picture
    <3>2. Drawn(picture, <<>>) = fresh
      BY <3>1, DrawNothing
    <3>3. fresh.picture = picture
      BY DEF Fresh
    <3> HIDE DEF fresh
    <3>4. ApplyDisplay(picture, <<>>) = Drawn(picture, <<>>).picture
      BY DEF ApplyDisplay, Drawn
    <3>5. ApplyDisplay(picture, <<>>) = picture
      BY <3>2, <3>3, <3>4
    <3> QED BY <3>5 DEF picture
  <2>2. Agrees(Seen(w, c).picture, e.shadow)
    BY <1>3, <2>1
  <2>3. Keeps(w, Known(w, c, e.shadow), n)
    BY <2>2, KnownKeeps
  <2> QED BY <1>3, <2>3 DEF SendRects
<1>4. CASE e.rects # <<>>
  <2> DEFINE x == Known(w, c, e.shadow)
             frame == <<"display", e.rects>>
             size == e.size
             u == WsSend(x, c, size, frame)
  <2>1. SendRects(w, c, e) = u
    BY <1>4 DEF SendRects
  <2>2. /\ Touches(w, x, c, n) /\ x.pages = w.pages /\ Client(x, c).state = Client(w, c).state /\ Client(x, c).page = Client(w, c).page
        /\ Client(x, c).asked = Client(w, c).asked /\ Client(x, c).display = <<e.shadow>> /\ Seen(x, c) = Seen(w, c)
    BY <1>1, KnownIs
  <2> HIDE DEF x
  <2>3. x \in WorldType(n) /\ Client(x, c).page \in 0 .. n /\ Client(x, c).page \in 1 .. n /\ Client(x, c).state = "open"
    BY <1>1, <2>2 DEF Touches
  <2>4. frame \in PartType /\ frame[1] = "display" /\ frame[2] = e.rects /\ size \in Nat \ {0}
    BY DEF PartType
  <2> HIDE DEF frame, size
  <2>5. IsShut(x, u, c, n) \/ Queued(x, u, c, n, Client(x, c).out \o Frame(size, frame))
    BY <2>3, <2>4, WsSendIs
  <2> HIDE DEF u
  <2>6. Touches(w, u, c, n)
    BY <2>2, <2>5, TouchesAlso DEF IsShut, Queued
  <2>7. CASE IsShut(x, u, c, n)
    BY <2>1, <2>6, <2>7, ShutIsFine, OneClientKeeps
  <2>8. CASE Queued(x, u, c, n, Client(x, c).out \o Frame(size, frame))
    <3>1. IsQuiet(Seen(x, c))
      BY <1>1, <2>2 DEF InStep
    <3>2. frame[1] # "part" /\ frame[1] # "header"
      BY <2>4
    <3>3. IsQuiet(Seen(u, c)) /\ Seen(u, c).picture = IF frame[1] = "display" THEN ApplyDisplay(Seen(x, c).picture, frame[2]) ELSE Seen(x, c).picture
      BY <2>3, <2>4, <2>8, <3>1, <3>2, FrameSent
    <3>4. Seen(u, c).picture = ApplyDisplay(Seen(w, c).picture, e.rects)
      BY <2>2, <2>4, <3>3
    <3>5. /\ u.pages = w.pages /\ Client(u, c).state = "open" /\ Client(u, c).page = Client(w, c).page
          /\ Client(u, c).asked = Client(w, c).asked /\ Client(u, c).display = <<e.shadow>>
      BY <2>2, <2>3, <2>8 DEF Queued, SameButOut
    <3>6. InStep(u, c)
      <4>1. Client(u, c).display[1] = e.shadow
        BY <3>5
      <4> QED BY <3>3, <3>4, <4>1 DEF InStep
    <3>7. u.server.machine = "michael"
      BY <2>6 DEF Touches, SameMachine
    <3>8. Fine(u, c, n)
      BY <3>5, <3>6, <3>7, OpenIsFine
    <3> QED BY <2>1, <2>6, <3>8, OneClientKeeps
  <2> QED BY <2>5, <2>7, <2>8
<1> QED BY <1>3, <1>4

LEMMA SendDisplayKeeps ==
  ASSUME NEW n \in Nat, NEW w \in WebWorld(n), NEW c \in Places, Client(w, c).state = "open", NEW reserve \in Int
  PROVE  Keeps(w, SendDisplay(w, c, reserve), n)
<1> DEFINE display == Client(w, c).display
           shadow == IF display = <<>> THEN ShadowForget ELSE display[1]
           room == CLIENT_OUTBUF_SIZE - Len(Client(w, c).out) - reserve - WEB_DISPLAY_RECT_MAX - 2
           budget == Least(room, DISPLAY_BUDGET)
           memory == w.server.memory
           e == WebDisplayEncode(shadow, memory, budget)
<1>1. ~Free(w, c)
  BY DEF Free
<1>2. w \in WorldType(n) /\ Client(w, c) \in ClientType /\ Client(w, c).page \in 1 .. n /\ InStep(w, c)
  BY <1>1, ClientOf DEF Fine
<1>3. shadow \in ShadowType /\ Agrees(Seen(w, c).picture, shadow)
  <2>1. display \in Seq(ShadowType)
    BY <1>2 DEF ClientType
  <2>2. CASE display = <<>>
    <3>1. ShadowForget.known = {}
      BY DEF ShadowForget
    <3> QED BY <2>2, <3>1, NewPageTyped DEF Agrees
  <2>3. CASE display # <<>>
    <3>1. display[1] \in ShadowType
      BY <2>1, <2>3
    <3> QED BY <1>2, <2>3, <3>1 DEF InStep
  <2> QED BY <2>2, <2>3
<1>5. budget \in Int
  <2>1. Len(Client(w, c).out) \in Nat
    BY <1>2 DEF ClientType
  <2>2. WEB_DISPLAY_BAND * ILI9341_WIDTH \in Nat
    BY DisplayAssumption
  <2>3. WEB_DISPLAY_RECT_MAX \in Nat
    <3>1. WEB_DISPLAY_RECT_MAX = 8 + 2 * (WEB_DISPLAY_BAND * ILI9341_WIDTH)
      BY DisplayAssumption DEF WEB_DISPLAY_RECT_MAX
    <3> QED BY <2>2, <3>1
  <2>4. room \in Int /\ DISPLAY_BUDGET \in Int
    BY <2>1, <2>3, WebAssumption
  <2> HIDE DEF room
  <2> QED BY <2>4 DEF Least
<1> HIDE DEF shadow, budget, memory
<1>4. SendDisplay(w, c, reserve) =
        IF w.server.machine # "michael" THEN w
        ELSE IF budget < DISPLAY_LEAST THEN Known(w, c, shadow)
        ELSE SendRects(MessageWritten(w, e), c, e)
  BY DEF SendDisplay, shadow, budget, memory
<1>6. /\ e.shadow \in ShadowType /\ e.size \in Nat \ {0} /\ e.rects \in Seq(RectType)
      /\ \A picture \in PictureType : Agrees(picture, shadow) => Agrees(ApplyDisplay(picture, e.rects), e.shadow)
  <2>1. memory \in PictureType
    BY <1>2, WorldIs DEF memory
  <2> QED BY <1>3, <1>5, <2>1, EncodeIsDrawn
<1> HIDE DEF e
<1>8. Agrees(ApplyDisplay(Seen(w, c).picture, e.rects), e.shadow)
  <2>1. Seen(w, c).picture \in PictureType
    BY <1>2, StreamTyped DEF PageType
  <2> QED BY <1>3, <1>6, <2>1
<1>9. ASSUME w.server.machine = "michael" PROVE Keeps(w, SendRects(MessageWritten(w, e), c, e), n)
  <2> DEFINE v == MessageWritten(w, e)
  <2>1. Keeps(w, v, n) /\ v.server.clients = w.server.clients /\ v.pages = w.pages
    BY MessageWrittenKeeps
  <2> HIDE DEF v
  <2>2. v \in WebWorld(n) /\ v.server.machine = "michael"
    BY <1>9, <2>1 DEF Keeps, SameMachine
  <2>3. Client(v, c) = Client(w, c) /\ Seen(v, c) = Seen(w, c)
    BY <2>1 DEF Client, Seen, Page
  <2>4. Keeps(v, SendRects(v, c, e), n)
    BY <1>6, <1>8, <2>2, <2>3, SendRectsKeeps
  <2> QED BY <2>1, <2>4, KeepsAlso DEF v
<1>10. Keeps(w, w, n)
  BY DEF Keeps, SameMachine
<1>11. ASSUME w.server.machine = "michael" PROVE Keeps(w, Known(w, c, shadow), n)
  BY <1>3, <1>11, KnownKeeps
<1> QED BY <1>4, <1>9, <1>10, <1>11

LEMMA SendBoardKeeps ==
  ASSUME NEW n \in Nat, NEW w \in WebWorld(n), NEW c \in Places
  PROVE  Keeps(w, SendBoard(w, c), n)
<1> DEFINE rated == SendRate(w, c)
           drawn == SendDisplay(rated, c, SNAPSHOT + 1)
           sent == WsSend(drawn, c, SNAPSHOT, <<"snapshot">>)
           u == FlushOutbuf(sent, c)
<1>1. CASE Client(w, c).state # "open"
  BY <1>1 DEF SendBoard, Keeps, SameMachine
<1>2. CASE Client(w, c).state = "open"
  <2>1. Keeps(w, rated, n)
    BY SendRateKeeps
  <2>2. w.server.machine = "michael" => rated = w
    BY DEF SendRate
  <2>3. SendBoard(w, c) = u
    BY <1>2 DEF SendBoard
  <2> HIDE DEF rated
  <2>4. rated \in WebWorld(n)
    BY <2>1 DEF Keeps
  <2>5. Keeps(rated, drawn, n)
    <3>1. CASE rated.server.machine = "michael"
      <4>1. rated = w
        BY <2>1, <2>2, <3>1 DEF Keeps, SameMachine
      <4>2. SNAPSHOT + 1 \in Int
        BY WebAssumption
      <4> QED BY <1>2, <2>4, <4>1, <4>2, SendDisplayKeeps
    <3>2. CASE rated.server.machine # "michael"
      BY <2>4, <3>2 DEF SendDisplay, Keeps, SameMachine
    <3> QED BY <3>1, <3>2
  <2> HIDE DEF drawn
  <2>6. drawn \in WebWorld(n)
    BY <2>5 DEF Keeps
  <2>7. SNAPSHOT \in Nat \ {0} /\ <<"snapshot">> \in PartType /\ <<"snapshot">>[1] \notin {"part", "header", "display"}
    BY WebAssumption DEF PartType, PartNames
  <2>8. Keeps(drawn, sent, n)
    BY <2>6, <2>7, WsSendKeeps
  <2> HIDE DEF sent
  <2>9. Keeps(sent, u, n)
    <3>1. sent \in WebWorld(n)
      BY <2>8 DEF Keeps
    <3> QED BY <3>1, FlushKeeps
  <2> HIDE DEF u
  <2>10. Keeps(w, u, n)
    BY <2>1, <2>5, <2>8, <2>9, KeepsAlso
  <2> QED BY <2>3, <2>10
<1> QED BY <1>1, <1>2


LEMMA SetAudio ==
  ASSUME NEW n \in Nat, NEW w \in WebWorld(n), NEW a \in Nat
  PROVE  [w EXCEPT !.server.audio = a] \in WebWorld(n)
<1> DEFINE u == [w EXCEPT !.server.audio = a]
<1>1. w \in WorldType(n)
  BY ClientOf DEF WebWorld
<1>2. w \in [server : ServerType, pages : [1 .. n -> PageType]]
  BY <1>1, MachineFields
<1>3. w.server \in [machine : {"michael", "wendy2c"}, memory : PictureType, clients : [Places -> ClientType], events : Seq(EventType),
                    audio : Nat, event : EventType \cup {<<>>}, broken : BOOLEAN]
  BY <1>1, MachineFields
<1>4. u.pages = w.pages /\ u.server.clients = w.server.clients /\ u.server.machine = w.server.machine
  BY <1>2, <1>3
<1>5. u.server \in ServerType
  BY <1>2, <1>3 DEF ServerType
<1>6. u \in WorldType(n)
  BY <1>2, <1>5 DEF WorldType
<1> HIDE DEF u
<1> QED BY <1>4, <1>6, SameClients DEF u

LEMMA SendSamplesKeeps ==
  ASSUME NEW n \in Nat, NEW w \in WebWorld(n), NEW c \in Places, NEW size \in Nat \ {0}
  PROVE  Keeps(w, SendSamples(w, c, size), n)
<1> DEFINE sent == WsSend(w, c, size, <<"audio">>)
<1>1. <<"audio">> \in PartType /\ <<"audio">>[1] \notin {"part", "header", "display"}
  BY DEF PartType, PartNames
<1>2. Keeps(w, sent, n)
  BY <1>1, WsSendKeeps
<1> HIDE DEF sent
<1>3. Keeps(sent, FlushOutbuf(sent, c), n)
  BY <1>2, FlushKeeps DEF Keeps
<1>4. Keeps(w, FlushOutbuf(sent, c), n) /\ Keeps(w, w, n)
  BY <1>2, <1>3, KeepsAlso DEF Keeps, SameMachine
<1> QED BY <1>4 DEF SendSamples, sent

LEMMA FlushPlaceKeeps ==
  ASSUME NEW n \in Nat, NEW w \in WebWorld(n), NEW c \in Places
  PROVE  Keeps(w, FlushPlace(w, c), n)
BY FlushKeeps DEF FlushPlace, Keeps, SameMachine

\* web_server_broadcast_*
LEMMA BroadcastKeeps ==
  ASSUME NEW n \in Nat, NEW w \in WebWorld(n)
  PROVE  Keeps(w, WebServerBroadcast(w), n)
<1> DEFINE m == WEB_MAX_CLIENTS
           start == w
           S == {v \in WebWorld(n) : Keeps(w, v, n)}
           Op(v, k) == SendBoard(v, k)
           step == [k \in 1 .. m |-> [v \in S |-> Op(v, k)]]
           T == BoardTurns(w)
<1>1. m \in Nat
  BY WebAssumption
<1>2. start \in S
  BY DEF Keeps, SameMachine
<1>3. ASSUME NEW v \in S, NEW k \in 1 .. m PROVE Op(v, k) \in S
  <2>1. v \in WebWorld(n) /\ Keeps(w, v, n) /\ k \in Places
    BY DEF Keeps, Places
  <2>2. Keeps(v, Op(v, k), n)
    BY <2>1, SendBoardKeeps
  <2> HIDE DEF Op
  <2>3. Keeps(w, Op(v, k), n)
    BY <2>1, <2>2, KeepsAlso
  <2> QED BY <2>3 DEF Keeps
<1> HIDE DEF m, start, S, Op
<1>4. step \in StepsOn(S, m)
  BY <1>3 DEF StepsOn
<1>5. PICK f : IsTaken(f, S, start, step, m)
  <2> HIDE DEF step
  <2> QED BY <1>1, <1>2, <1>4, StepsAreTaken
<1>6. f \in [0 .. m -> S] /\ f[0] = start /\ \A k \in 1 .. m : f[k] = step[k][f[k - 1]]
  <2> HIDE DEF step
  <2> QED BY <1>5 DEF IsTaken
<1>7. \A k \in 1 .. m : f[k] = Op(f[k - 1], k)
  <2> TAKE k \in 1 .. m
  <2>1. f[k - 1] \in S /\ f[k] = step[k][f[k - 1]]
    BY <1>1, <1>6
  <2>2. step[k] = [v \in S |-> Op(v, k)]
    OBVIOUS
  <2> HIDE DEF step
  <2> QED BY <2>1, <2>2
<1> HIDE DEF step
<1>8. f = [k \in 0 .. m |-> IF k = 0 THEN start ELSE Op(f[k - 1], k)]
  BY <1>1, <1>6, <1>7
<1>9. T = [k \in 0 .. m |-> IF k = 0 THEN start ELSE Op(T[k - 1], k)]
  BY <1>1, <1>8 DEF BoardTurns, Turns, Op, start, m
<1> HIDE DEF T
<1>10. T[0] = start /\ \A k \in 1 .. m : T[k] = Op(T[k - 1], k)
  BY <1>1, <1>9
<1>11. T[m] \in S
  <2> DEFINE Stay == {k \in 0 .. m : T[k] \in S}
  <2>1. 0 \in Stay /\ \A k \in 1 .. m : k - 1 \in Stay => k \in Stay
    BY <1>1, <1>2, <1>3, <1>10
  <2> HIDE DEF Stay
  <2>2. m \in Stay
    BY <1>1, <2>1, EachTurn
  <2> QED BY <2>2 DEF Stay
<1> QED BY <1>11 DEF S, T, m, WebServerBroadcast

LEMMA FlushTurnsKeep ==
  ASSUME NEW n \in Nat, NEW w \in WebWorld(n)
  PROVE  Keeps(w, FlushTurns(w)[WEB_MAX_CLIENTS], n)
<1> DEFINE m == WEB_MAX_CLIENTS
           start == w
           S == {v \in WebWorld(n) : Keeps(w, v, n)}
           Op(v, k) == FlushPlace(v, k)
           step == [k \in 1 .. m |-> [v \in S |-> Op(v, k)]]
           T == FlushTurns(w)
<1>1. m \in Nat
  BY WebAssumption
<1>2. start \in S
  BY DEF Keeps, SameMachine
<1>3. ASSUME NEW v \in S, NEW k \in 1 .. m PROVE Op(v, k) \in S
  <2>1. v \in WebWorld(n) /\ Keeps(w, v, n) /\ k \in Places
    BY DEF Keeps, Places
  <2>2. Keeps(v, Op(v, k), n)
    BY <2>1, FlushPlaceKeeps
  <2> HIDE DEF Op
  <2>3. Keeps(w, Op(v, k), n)
    BY <2>1, <2>2, KeepsAlso
  <2> QED BY <2>3 DEF Keeps
<1> HIDE DEF m, start, S, Op
<1>4. step \in StepsOn(S, m)
  BY <1>3 DEF StepsOn
<1>5. PICK f : IsTaken(f, S, start, step, m)
  <2> HIDE DEF step
  <2> QED BY <1>1, <1>2, <1>4, StepsAreTaken
<1>6. f \in [0 .. m -> S] /\ f[0] = start /\ \A k \in 1 .. m : f[k] = step[k][f[k - 1]]
  <2> HIDE DEF step
  <2> QED BY <1>5 DEF IsTaken
<1>7. \A k \in 1 .. m : f[k] = Op(f[k - 1], k)
  <2> TAKE k \in 1 .. m
  <2>1. f[k - 1] \in S /\ f[k] = step[k][f[k - 1]]
    BY <1>1, <1>6
  <2>2. step[k] = [v \in S |-> Op(v, k)]
    OBVIOUS
  <2> HIDE DEF step
  <2> QED BY <2>1, <2>2
<1> HIDE DEF step
<1>8. f = [k \in 0 .. m |-> IF k = 0 THEN start ELSE Op(f[k - 1], k)]
  BY <1>1, <1>6, <1>7
<1>9. T = [k \in 0 .. m |-> IF k = 0 THEN start ELSE Op(T[k - 1], k)]
  BY <1>1, <1>8 DEF FlushTurns, Turns, Op, start, m
<1> HIDE DEF T
<1>10. T[0] = start /\ \A k \in 1 .. m : T[k] = Op(T[k - 1], k)
  BY <1>1, <1>9
<1>11. T[m] \in S
  <2> DEFINE Stay == {k \in 0 .. m : T[k] \in S}
  <2>1. 0 \in Stay /\ \A k \in 1 .. m : k - 1 \in Stay => k \in Stay
    BY <1>1, <1>2, <1>3, <1>10
  <2> HIDE DEF Stay
  <2>2. m \in Stay
    BY <1>1, <2>1, EachTurn
  <2> QED BY <2>2 DEF Stay
<1> QED BY <1>11 DEF S, T, m

LEMMA FrameToClientsKeeps ==
  ASSUME NEW n \in Nat, NEW w \in WebWorld(n), NEW size \in Nat \ {0}
  PROVE  Keeps(w, FrameToClients(w, size)[WEB_MAX_CLIENTS], n)
<1> DEFINE m == WEB_MAX_CLIENTS
           start == w
           S == {v \in WebWorld(n) : Keeps(w, v, n)}
           Op(v, k) == SendSamples(v, k, size)
           step == [k \in 1 .. m |-> [v \in S |-> Op(v, k)]]
           T == FrameToClients(w, size)
<1>1. m \in Nat
  BY WebAssumption
<1>2. start \in S
  BY DEF Keeps, SameMachine
<1>3. ASSUME NEW v \in S, NEW k \in 1 .. m PROVE Op(v, k) \in S
  <2>1. v \in WebWorld(n) /\ Keeps(w, v, n) /\ k \in Places
    BY DEF Keeps, Places
  <2>2. Keeps(v, Op(v, k), n)
    BY <2>1, SendSamplesKeeps
  <2> HIDE DEF Op
  <2>3. Keeps(w, Op(v, k), n)
    BY <2>1, <2>2, KeepsAlso
  <2> QED BY <2>3 DEF Keeps
<1> HIDE DEF m, start, S, Op
<1>4. step \in StepsOn(S, m)
  BY <1>3 DEF StepsOn
<1>5. PICK f : IsTaken(f, S, start, step, m)
  <2> HIDE DEF step
  <2> QED BY <1>1, <1>2, <1>4, StepsAreTaken
<1>6. f \in [0 .. m -> S] /\ f[0] = start /\ \A k \in 1 .. m : f[k] = step[k][f[k - 1]]
  <2> HIDE DEF step
  <2> QED BY <1>5 DEF IsTaken
<1>7. \A k \in 1 .. m : f[k] = Op(f[k - 1], k)
  <2> TAKE k \in 1 .. m
  <2>1. f[k - 1] \in S /\ f[k] = step[k][f[k - 1]]
    BY <1>1, <1>6
  <2>2. step[k] = [v \in S |-> Op(v, k)]
    OBVIOUS
  <2> HIDE DEF step
  <2> QED BY <2>1, <2>2
<1> HIDE DEF step
<1>8. f = [k \in 0 .. m |-> IF k = 0 THEN start ELSE Op(f[k - 1], k)]
  BY <1>1, <1>6, <1>7
<1>9. T = [k \in 0 .. m |-> IF k = 0 THEN start ELSE Op(T[k - 1], k)]
  BY <1>1, <1>8 DEF FrameToClients, Turns, Op, start, m
<1> HIDE DEF T
<1>10. T[0] = start /\ \A k \in 1 .. m : T[k] = Op(T[k - 1], k)
  BY <1>1, <1>9
<1>11. T[m] \in S
  <2> DEFINE Stay == {k \in 0 .. m : T[k] \in S}
  <2>1. 0 \in Stay /\ \A k \in 1 .. m : k - 1 \in Stay => k \in Stay
    BY <1>1, <1>2, <1>3, <1>10
  <2> HIDE DEF Stay
  <2>2. m \in Stay
    BY <1>1, <2>1, EachTurn
  <2> QED BY <2>2 DEF Stay
<1> QED BY <1>11 DEF S, T, m

LEMMA SendAudioStays ==
  ASSUME NEW n \in Nat, NEW w \in WebWorld(n)
  PROVE  SendAudio(w) \in WebWorld(n)
<1> DEFINE size == Least(w.server.audio, AUDIO_FRAME)
           sent == FrameToClients(w, size)[WEB_MAX_CLIENTS]
           a == sent.server.audio - size
<1>1. w \in WorldType(n)
  BY DEF WebWorld
<1>2. w.server.audio \in Nat
  BY <1>1, WorldIs
<1>3. CASE w.server.audio = 0
  BY <1>3 DEF SendAudio
<1>4. CASE w.server.audio # 0
  <2>1. size \in Nat \ {0} /\ size <= w.server.audio
    BY <1>2, <1>4, WebAssumption DEF Least
  <2> HIDE DEF size
  <2>2. Keeps(w, sent, n)
    BY <2>1, FrameToClientsKeeps
  <2> HIDE DEF sent
  <2>3. a \in Nat /\ sent \in WebWorld(n)
    BY <1>2, <2>1, <2>2 DEF Keeps, SameMachine
  <2>4. [sent EXCEPT !.server.audio = a] \in WebWorld(n)
    <3> HIDE DEF a
    <3> QED BY <2>3, SetAudio
  <2>5. SendAudio(w) = [sent EXCEPT !.server.audio = @ - size]
    BY <1>4 DEF SendAudio, sent, size
  <2>6. [sent EXCEPT !.server.audio = @ - size] = [sent EXCEPT !.server.audio = a]
    <3>1. sent \in [server : ServerType, pages : [1 .. n -> PageType]]
      BY <2>3, MachineFields DEF WebWorld
    <3>2. sent.server \in [machine : {"michael", "wendy2c"}, memory : PictureType, clients : [Places -> ClientType], events : Seq(EventType),
                          audio : Nat, event : EventType \cup {<<>>}, broken : BOOLEAN]
      BY <2>3, MachineFields DEF WebWorld
    <3> QED BY <3>1, <3>2
  <2> QED BY <2>4, <2>5, <2>6
<1> QED BY <1>3, <1>4

\* web_server_flush_audio
LEMMA FlushAudioStays ==
  ASSUME NEW n \in Nat, NEW w \in WebWorld(n)
  PROVE  WebServerFlushAudio(w) \in WebWorld(n)
<1> DEFINE m == w.server.audio
           start == w
           S == WebWorld(n)
           Op(v, k) == SendAudio(v)
           step == [k \in 1 .. m |-> [v \in S |-> Op(v, k)]]
           T == AudioTurns(w)
<1>1. m \in Nat
  BY WorldIs DEF WebWorld
<1>2. start \in S
  OBVIOUS
<1>3. ASSUME NEW v \in S, NEW k \in 1 .. m PROVE Op(v, k) \in S
  BY SendAudioStays
<1> HIDE DEF m, start, S, Op
<1>4. step \in StepsOn(S, m)
  BY <1>3 DEF StepsOn
<1>5. PICK f : IsTaken(f, S, start, step, m)
  <2> HIDE DEF step
  <2> QED BY <1>1, <1>2, <1>4, StepsAreTaken
<1>6. f \in [0 .. m -> S] /\ f[0] = start /\ \A k \in 1 .. m : f[k] = step[k][f[k - 1]]
  <2> HIDE DEF step
  <2> QED BY <1>5 DEF IsTaken
<1>7. \A k \in 1 .. m : f[k] = Op(f[k - 1], k)
  <2> TAKE k \in 1 .. m
  <2>1. f[k - 1] \in S /\ f[k] = step[k][f[k - 1]]
    BY <1>1, <1>6
  <2>2. step[k] = [v \in S |-> Op(v, k)]
    OBVIOUS
  <2> HIDE DEF step
  <2> QED BY <2>1, <2>2
<1> HIDE DEF step
<1>8. f = [k \in 0 .. m |-> IF k = 0 THEN start ELSE Op(f[k - 1], k)]
  BY <1>1, <1>6, <1>7
<1>9. T = [k \in 0 .. m |-> IF k = 0 THEN start ELSE Op(T[k - 1], k)]
  BY <1>1, <1>8 DEF AudioTurns, Turns, Op, start, m
<1> HIDE DEF T
<1>10. T[0] = start /\ \A k \in 1 .. m : T[k] = Op(T[k - 1], k)
  BY <1>1, <1>9
<1>11. T[m] \in S
  <2> DEFINE Stay == {k \in 0 .. m : T[k] \in S}
  <2>1. 0 \in Stay /\ \A k \in 1 .. m : k - 1 \in Stay => k \in Stay
    BY <1>1, <1>2, <1>3, <1>10
  <2> HIDE DEF Stay
  <2>2. m \in Stay
    BY <1>1, <2>1, EachTurn
  <2> QED BY <2>2 DEF Stay
<1>12. [w EXCEPT !.server.audio = 0] \in WebWorld(n)
  BY SetAudio
<1> QED BY <1>11, <1>12 DEF S, T, m, WebServerFlushAudio


----
\* What the server reads

LEMMA QueueEventKeeps ==
  ASSUME NEW n \in Nat, NEW w \in WebWorld(n), NEW event \in EventType
  PROVE  Keeps(w, QueueEvent(w, event), n) /\ QueueEvent(w, event).server.clients = w.server.clients
<1> DEFINE events == w.server.events
           kept == IF Len(events) = EVENT_QUEUE_SIZE - 1 THEN Tail(events) ELSE events
           more == Append(kept, event)
           u == [w EXCEPT !.server.events = more]
<1>1. w \in [server : ServerType, pages : [1 .. n -> PageType]]
  BY MachineFields DEF WebWorld
<1>2. w.server \in [machine : {"michael", "wendy2c"}, memory : PictureType, clients : [Places -> ClientType], events : Seq(EventType),
                    audio : Nat, event : EventType \cup {<<>>}, broken : BOOLEAN]
  BY MachineFields DEF WebWorld
<1>3. more \in Seq(EventType)
  <2>1. events \in Seq(EventType)
    BY <1>2
  <2> HIDE DEF events
  <2>2. kept \in Seq(EventType)
    <3>1. EVENT_QUEUE_SIZE - 1 # 0
      BY WebAssumption
    <3>2. Len(events) = EVENT_QUEUE_SIZE - 1 => events # <<>>
      BY <3>1
    <3> QED BY <2>1, <3>2
  <2> HIDE DEF kept
  <2> QED BY <2>2
<1>4. QueueEvent(w, event) = u
  BY <1>1, <1>2 DEF QueueEvent
<1> HIDE DEF more
<1>5. /\ u.pages = w.pages /\ u.server.clients = w.server.clients /\ u.server.machine = w.server.machine
      /\ u.server.memory = w.server.memory /\ u.server.audio = w.server.audio
  BY <1>1, <1>2
<1>6. u.server \in ServerType
  BY <1>1, <1>2, <1>3 DEF ServerType
<1>7. u \in WorldType(n)
  BY <1>1, <1>6 DEF WorldType
<1> HIDE DEF u
<1> QED BY <1>4, <1>5, <1>7, SameClients DEF Keeps, SameMachine

\* Client c has other input, and is otherwise as it was.
LEMMA InputKeeps ==
  ASSUME NEW n \in Nat, NEW w \in WebWorld(n), NEW c \in Places, NEW in \in Seq(ItemType)
  PROVE  LET u == [w EXCEPT !.server.clients[c].in = in]
         IN /\ Keeps(w, u, n) /\ u.pages = w.pages /\ Client(u, c).in = in /\ SameClient(Client(w, c), Client(u, c))
<1> DEFINE x == WithIn(Client(w, c), in)
           u == SetClient(w, c, x)
<1>1. w \in WorldType(n) /\ Client(w, c) \in ClientType /\ Fine(w, c, n)
  BY ClientOf
<1>2. [w EXCEPT !.server.clients[c].in = in] = u
  BY <1>1, ClientFields
<1>3. SameClient(Client(w, c), x) /\ x.in = in
  BY <1>1, WithInIs
<1> HIDE DEF x
<1>4. Touches(w, u, c, n) /\ u.pages = w.pages /\ Client(u, c) = x
  BY <1>1, <1>3, SetClientTouches, SetClientIs DEF SameClient
<1> HIDE DEF u
<1>5. Fine(u, c, n)
  BY <1>1, <1>3, <1>4, SameIsFine DEF Touches
<1>6. Keeps(w, u, n)
  BY <1>4, <1>5, OneClientKeeps
<1> QED BY <1>2, <1>3, <1>4, <1>6

LEMMA PongKeeps ==
  ASSUME NEW n \in Nat, NEW w \in WebWorld(n), NEW c \in Places, Client(w, c).state = "open"
  PROVE  LET u == QueueBytes(w, c, <<<<"pong">>>>)
         IN Keeps(w, u, n) /\ Client(u, c).state \in {"open", "free"}
<1> DEFINE pong == <<"pong">>
           parts == <<pong>>
           out == Client(w, c).out
           u == QueueBytes(w, c, parts)
<1>1. pong \in PartType /\ pong[1] = "pong"
  BY DEF PartType, PartNames
<1> HIDE DEF pong
<1>2. parts \in Seq(PartType) /\ parts = Append(<<>>, pong)
  BY <1>1
<1>3. ~Free(w, c)
  BY DEF Free
<1>4. w \in WorldType(n) /\ Client(w, c).page \in 0 .. n /\ Client(w, c).page \in 1 .. n /\ InStep(w, c)
  BY <1>3, ClientOf DEF Fine
<1> HIDE DEF parts
<1>5. IsShut(w, u, c, n) \/ Queued(w, u, c, n, out \o parts)
  BY <1>2, <1>4, BytesQueued
<1> HIDE DEF u
<1>6. CASE IsShut(w, u, c, n)
  BY <1>6, ShutIsFine, OneClientKeeps DEF IsShut, u, parts, pong
<1>7. CASE Queued(w, u, c, n, out \o parts)
  <2> DEFINE page == Page(w, c)
             sent == page.toPage
             before == Seen(w, c)
  <2>1. page \in PageType /\ sent \in Seq(PartType) /\ out \in Seq(PartType) /\ sent \o out \in Seq(PartType) /\ before \in PageType
    BY <1>4, StreamTyped
  <2>2. Page(u, c) = page /\ Client(u, c).out = out \o parts
    BY <1>7 DEF Queued, SameButOut, Page
  <2>3. before = AfterParts(page, sent \o out)
    BY DEF Seen
  <2>4. Seen(u, c) = AfterParts(page, sent \o (out \o parts))
    BY <2>2 DEF Seen
  <2> HIDE DEF page, out, before
  <2>5. sent \o (out \o parts) = (sent \o out) \o parts
    <3> HIDE DEF sent
    <3> QED BY <1>2, <2>1, JoinedAsWell
  <2> DEFINE stream == sent \o out
  <2>6. stream \in Seq(PartType)
    BY <2>1
  <2> HIDE DEF sent, stream
  <2>7. stream \o parts = Append(stream, pong)
    BY <1>1, <2>6 DEF parts
  <2>8. Seen(u, c) = PageTakes(before, pong)
    <3>1. AfterParts(page, Append(stream, pong)) = PageTakes(AfterParts(page, stream), pong)
      BY <1>1, <2>1, <2>6, AfterOneMore
    <3> QED BY <2>3, <2>4, <2>5, <2>7, <3>1 DEF stream
  <2>9. IsQuiet(before)
    BY <1>4 DEF InStep, before
  <2>10. IsQuiet(Seen(u, c)) /\ Seen(u, c).picture = before.picture
    <3> DEFINE cut == pong[1] \in {"part", "display", "snapshot", "audio"}
    <3>1. cut = FALSE /\ pong[1] # "header"
      BY <1>1
    <3>2. PageTakes(before, pong) = [before EXCEPT !.torn = @ \/ cut]
      BY <2>9, <3>1 DEF PageTakes, IsQuiet
    <3> HIDE DEF cut
    <3>3. before \in [at : {"away", "connects", "here", "gone"}, toServer : Seq(ItemType), toPage : Seq(PartType), closed : BOOLEAN,
                      script : Nat, part : Nat, picture : PictureType, need : Nat, torn : BOOLEAN]
      BY <2>1 DEF PageType
    <3> QED BY <2>8, <2>9, <3>1, <3>2, <3>3 DEF IsQuiet
  <2>11. InStep(u, c)
    BY <1>4, <1>7, <2>10 DEF InStep, before, Queued, SameButOut
  <2>12. Fine(u, c, n)
    BY <1>4, <1>7, <2>11, FrameIsFine
  <2>13. Keeps(w, u, n) /\ Client(u, c).state = "open"
    BY <1>7, <2>12, OneClientKeeps DEF Queued, SameButOut
  <2> QED BY <2>13 DEF u, parts, pong
<1> QED BY <1>5, <1>6, <1>7


LEMMA WsFrameKeeps ==
  ASSUME NEW n \in Nat, NEW w \in WebWorld(n), NEW c \in Places, Client(w, c).state = "open", Client(w, c).in # <<>>
  PROVE  Keeps(w, WsFrame(w, c), n) /\ Client(WsFrame(w, c), c).state \in {"open", "free"}
<1> DEFINE name == Head(Client(w, c).in).name
           event == <<name, Client(w, c).page>>
<1>1. w \in WorldType(n) /\ Client(w, c) \in ClientType /\ Client(w, c).page \in 0 .. n
  BY ClientOf
<1>2. name \in STRING /\ event \in EventType
  <2> DEFINE in == Client(w, c).in
  <2>1. in \in Seq(ItemType) /\ in # <<>>
    BY <1>1 DEF ClientType
  <2> HIDE DEF in
  <2>2. Head(in) \in ItemType
    BY <2>1
  <2>3. name \in STRING
    BY <2>2 DEF ItemType, in
  <2> QED BY <1>1, <2>3 DEF EventType
<1>3. WsFrame(w, c) \in {QueueEvent(w, event), QueueBytes(w, c, <<<<"pong">>>>), w, CloseClient(w, c)}
  BY DEF WsFrame
<1> HIDE DEF event
<1>4. Keeps(w, QueueEvent(w, event), n) /\ Client(QueueEvent(w, event), c).state = "open"
  BY <1>2, QueueEventKeeps DEF Client
<1>5. Keeps(w, QueueBytes(w, c, <<<<"pong">>>>), n) /\ Client(QueueBytes(w, c, <<<<"pong">>>>), c).state \in {"open", "free"}
  BY PongKeeps
<1>6. Keeps(w, CloseClient(w, c), n) /\ Client(CloseClient(w, c), c).state = "free"
  BY <1>1, CloseClientKeeps, CloseClientIs DEF IsShut
<1>7. Keeps(w, w, n)
  BY DEF Keeps, SameMachine
<1> QED BY <1>3, <1>4, <1>5, <1>6, <1>7

LEMMA FrameLengthIs ==
  ASSUME NEW in \in Seq(ItemType), HasFrame(in)
  PROVE  SubSeq(in, FrameLength(in) + 1, Len(in)) \in Seq(ItemType)
<1> DEFINE S == {i \in DOMAIN in : in[i].last}
           k == FrameLength(in)
<1>1. S \subseteq Nat /\ S # {}
  BY DEF HasFrame
<1>2. \E i \in S : \A j \in S : i <= j
  <2> HIDE DEF S
  <2> QED BY <1>1, LeastNatural
<1>3. k \in S
  <2>1. k = CHOOSE i \in S : \A j \in S : i <= j
    BY DEF FrameLength, Min
  <2> HIDE DEF S, k
  <2> QED BY <1>2, <2>1
<1>4. k \in 1 .. Len(in)
  BY <1>3
<1> HIDE DEF k
<1>5. SubSeq(in, k + 1, Len(in)) \in Seq(ItemType)
  BY <1>4, SubSeqProperties
<1> QED BY <1>5 DEF k

LEMMA NextFrameKeeps ==
  ASSUME NEW n \in Nat, NEW w \in WebWorld(n), NEW c \in Places, Client(w, c).state \in {"open", "free"}
  PROVE  Keeps(w, NextFrame(w, c), n) /\ Client(NextFrame(w, c), c).state \in {"open", "free"}
<1> DEFINE in == Client(w, c).in
           after == WsFrame(w, c)
           rest == SubSeq(in, FrameLength(in) + 1, Len(in))
           u == [after EXCEPT !.server.clients[c].in = rest]
           v == [after EXCEPT !.server.broken = TRUE]
<1>1. CASE Free(w, c) \/ w.server.broken \/ ~HasFrame(in)
  BY <1>1 DEF NextFrame, Keeps, SameMachine
<1>2. CASE ~(Free(w, c) \/ w.server.broken \/ ~HasFrame(in))
  <2>1. Client(w, c).state = "open"
    BY <1>2 DEF Free
  <2>2. in \in Seq(ItemType)
    BY ClientOf DEF ClientType
  <2>3. in # <<>> /\ rest \in Seq(ItemType)
    <3> HIDE DEF in
    <3>1. HasFrame(in)
      BY <1>2
    <3> QED BY <2>2, <3>1, FrameLengthIs DEF HasFrame
  <2>4. Keeps(w, after, n) /\ Client(after, c).state \in {"open", "free"}
    BY <2>1, <2>3, WsFrameKeeps
  <2>5. NextFrame(w, c) = IF Client(after, c).state = "open" THEN u ELSE IF Head(in).name = "ping" THEN v ELSE after
    BY <1>2 DEF NextFrame
  <2> HIDE DEF after, rest
  <2>6. after \in WebWorld(n)
    BY <2>4 DEF Keeps
  <2>7. Keeps(after, u, n) /\ Client(u, c).state = Client(after, c).state
    BY <2>3, <2>6, InputKeeps DEF SameClient
  <2>8. Keeps(after, v, n) /\ Client(v, c).state = Client(after, c).state
    BY <2>6, SetBroken DEF Client
  <2> HIDE DEF u, v, in
  <2>9. Keeps(w, u, n) /\ Keeps(w, v, n)
    BY <2>4, <2>7, <2>8, KeepsAlso
  <2> QED BY <2>4, <2>5, <2>7, <2>8, <2>9
<1> QED BY <1>1, <1>2

LEMMA WsFramesKeep ==
  ASSUME NEW n \in Nat, NEW w \in WebWorld(n), NEW c \in Places, Client(w, c).state = "open"
  PROVE  Keeps(w, WsFrames(w, c), n)
<1> DEFINE m == Len(Client(w, c).in)
           start == w
           S == {v \in WebWorld(n) : Keeps(w, v, n) /\ Client(v, c).state \in {"open", "free"}}
           Op(v, k) == NextFrame(v, c)
           step == [k \in 1 .. m |-> [v \in S |-> Op(v, k)]]
           T == FrameTurns(w, c)
<1>1. m \in Nat
  <2> DEFINE in == Client(w, c).in
  <2>1. in \in Seq(ItemType)
    BY ClientOf DEF ClientType
  <2> HIDE DEF in
  <2>2. Len(in) \in Nat
    BY <2>1
  <2> QED BY <2>2 DEF in
<1>2. start \in S
  BY DEF Keeps, SameMachine
<1>3. ASSUME NEW v \in S, NEW k \in 1 .. m PROVE Op(v, k) \in S
  <2>1. v \in WebWorld(n) /\ Keeps(w, v, n) /\ Client(v, c).state \in {"open", "free"}
    OBVIOUS
  <2>2. Keeps(v, Op(v, k), n) /\ Client(Op(v, k), c).state \in {"open", "free"}
    BY <2>1, NextFrameKeeps
  <2> HIDE DEF Op
  <2>3. Keeps(w, Op(v, k), n)
    BY <2>1, <2>2, KeepsAlso
  <2> QED BY <2>2, <2>3 DEF Keeps
<1> HIDE DEF m, start, S, Op
<1>4. step \in StepsOn(S, m)
  BY <1>3 DEF StepsOn
<1>5. PICK f : IsTaken(f, S, start, step, m)
  <2> HIDE DEF step
  <2> QED BY <1>1, <1>2, <1>4, StepsAreTaken
<1>6. f \in [0 .. m -> S] /\ f[0] = start /\ \A k \in 1 .. m : f[k] = step[k][f[k - 1]]
  <2> HIDE DEF step
  <2> QED BY <1>5 DEF IsTaken
<1>7. \A k \in 1 .. m : f[k] = Op(f[k - 1], k)
  <2> TAKE k \in 1 .. m
  <2>1. f[k - 1] \in S /\ f[k] = step[k][f[k - 1]]
    BY <1>1, <1>6
  <2>2. step[k] = [v \in S |-> Op(v, k)]
    OBVIOUS
  <2> HIDE DEF step
  <2> QED BY <2>1, <2>2
<1> HIDE DEF step
<1>8. f = [k \in 0 .. m |-> IF k = 0 THEN start ELSE Op(f[k - 1], k)]
  BY <1>1, <1>6, <1>7
<1>9. T = [k \in 0 .. m |-> IF k = 0 THEN start ELSE Op(T[k - 1], k)]
  BY <1>1, <1>8 DEF FrameTurns, Turns, Op, start, m
<1> HIDE DEF T
<1>10. T[0] = start /\ \A k \in 1 .. m : T[k] = Op(T[k - 1], k)
  BY <1>1, <1>9
<1>11. T[m] \in S
  <2> DEFINE Stay == {k \in 0 .. m : T[k] \in S}
  <2>1. 0 \in Stay /\ \A k \in 1 .. m : k - 1 \in Stay => k \in Stay
    BY <1>1, <1>2, <1>3, <1>10
  <2> HIDE DEF Stay
  <2>2. m \in Stay
    BY <1>1, <2>1, EachTurn
  <2> QED BY <2>2 DEF Stay
<1> QED BY <1>11 DEF S, T, m, WsFrames


\* A client that is answered, or was closed on the way: what holds between the calls.
Loose(w, c, n) ==
  /\ w \in WorldType(n) /\ HasItsPage(w, c, n) /\ Client(w, c).state # "open" /\ Client(w, c).display = <<>>
  /\ Free(w, c) => Client(w, c).page = 0

LEMMA LooseClient ==
  ASSUME NEW n \in Nat, NEW v, NEW w, NEW c \in Places, Loose(v, c, n), Touches(v, w, c, n), w.pages = v.pages,
         Client(w, c).state = Client(v, c).state, Client(w, c).page = Client(v, c).page, Client(w, c).display = Client(v, c).display
  PROVE  Loose(w, c, n)
BY DEF Loose, HasItsPage, Free, Page, Touches

LEMMA LooseBytes ==
  ASSUME NEW n \in Nat, NEW w, NEW c \in Places, Loose(w, c, n), NEW parts \in Seq(PartType)
  PROVE  Touches(w, QueueBytes(w, c, parts), c, n) /\ Loose(QueueBytes(w, c, parts), c, n)
<1> DEFINE u == QueueBytes(w, c, parts)
           out == Client(w, c).out \o parts
<1>1. w \in WorldType(n) /\ Client(w, c).page \in 0 .. n
  BY DEF Loose, HasItsPage
<1>2. IsShut(w, u, c, n) \/ Queued(w, u, c, n, out)
  BY <1>1, BytesQueued
<1> HIDE DEF u, out
<1>3. CASE IsShut(w, u, c, n)
  BY <1>3 DEF IsShut, Loose, HasItsPage, Free, Touches, u
<1>4. CASE Queued(w, u, c, n, out)
  BY <1>4, LooseClient DEF Queued, SameButOut, u
<1> QED BY <1>2, <1>3, <1>4

LEMMA SendSimpleLoose ==
  ASSUME NEW n \in Nat, NEW w, NEW c \in Places, Loose(w, c, n)
  PROVE  Touches(w, SendSimple(w, c), c, n) /\ Loose(SendSimple(w, c), c, n)
<1> DEFINE status == <<<<"status">>>>
           body == <<<<"body">>>>
           u == QueueBytes(w, c, status)
           v == QueueBytes(u, c, body)
<1>1. status \in Seq(PartType) /\ body \in Seq(PartType)
  <2>1. <<"status">> \in PartType /\ <<"body">> \in PartType
    BY DEF PartType, PartNames
  <2> QED BY <2>1
<1>2. SendSimple(w, c) = v
  BY DEF SendSimple
<1> HIDE DEF status, body
<1>3. Touches(w, u, c, n) /\ Loose(u, c, n)
  BY <1>1, LooseBytes
<1> HIDE DEF u
<1>4. Touches(u, v, c, n) /\ Loose(v, c, n)
  BY <1>1, <1>3, LooseBytes
<1> HIDE DEF v
<1> QED BY <1>2, <1>3, <1>4, TouchesAlso

LEMMA SendFileLoose ==
  ASSUME NEW n \in Nat, NEW w, NEW c \in Places, Loose(w, c, n)
  PROVE  Touches(w, SendFile(w, c), c, n) /\ Loose(SendFile(w, c), c, n)
<1> DEFINE status == <<<<"status">>>>
           parts == Payload(FILE_SIZE, <<"file">>)
           u == QueueBytes(w, c, status)
           out == Client(u, c).out \o parts
           v == SetClient(u, c, WithOut(Client(u, c), out))
<1>1. status \in Seq(PartType) /\ parts \in Seq(PartType)
  <2>1. <<"status">> \in PartType /\ <<"file">> \in PartType /\ <<"part">> \in PartType /\ FILE_SIZE \in Nat
    BY WebAssumption DEF PartType, PartNames
  <2>2. status \in Seq(PartType)
    BY <2>1
  <2>3. parts \in Seq(PartType)
    BY <2>1 DEF Payload
  <2> QED BY <2>2, <2>3
<1> HIDE DEF status, parts
<1>2. Touches(w, u, c, n) /\ Loose(u, c, n)
  BY <1>1, LooseBytes
<1>3. SendFile(w, c) \in {SendSimple(u, c), [u EXCEPT !.server.clients[c].out = @ \o parts]}
  BY DEF SendFile, parts, status
<1> HIDE DEF u
<1>4. u \in WorldType(n) /\ out \in Seq(PartType)
  <2>1. u \in WorldType(n)
    BY <1>2 DEF Loose
  <2>2. Client(u, c).out \in Seq(PartType)
    BY <2>1, WorldIs DEF ClientType
  <2> QED BY <1>1, <2>1, <2>2, PartsJoined
<1>5. [u EXCEPT !.server.clients[c].out = @ \o parts] = v
  <2>1. u \in [server : ServerType, pages : [1 .. n -> PageType]]
    BY <1>4, MachineFields
  <2>2. u.server \in [machine : {"michael", "wendy2c"}, memory : PictureType, clients : [Places -> ClientType], events : Seq(EventType),
                      audio : Nat, event : EventType \cup {<<>>}, broken : BOOLEAN]
    BY <1>4, MachineFields
  <2> QED BY <2>1, <2>2 DEF SetClient, WithOut, Client
<1> HIDE DEF out
<1>6. Queued(u, v, c, n, out)
  BY <1>4, OutSet
<1> HIDE DEF v
<1>7. Touches(u, v, c, n) /\ Loose(v, c, n)
  BY <1>2, <1>6, LooseClient DEF Queued, SameButOut
<1>8. Touches(u, SendSimple(u, c), c, n) /\ Loose(SendSimple(u, c), c, n)
  BY <1>2, SendSimpleLoose
<1> QED BY <1>2, <1>3, <1>5, <1>7, <1>8, TouchesAlso

\* What is left of inbuf when the end of a request has been found.
LEMMA EndTakenIs ==
  ASSUME NEW in \in Seq(ItemType)
  PROVE  EndTaken(in) \in Seq(ItemType)
<1> DEFINE k == FrameLength(in)
           taken == [in EXCEPT ![k].last = FALSE]
<1>1. ASSUME NEW x \in ItemType
      PROVE  [x EXCEPT !.last = FALSE] \in ItemType
  BY <1>1 DEF ItemType
<1> HIDE DEF k
<1>2. DOMAIN in = 1 .. Len(in) /\ Len(in) \in Nat /\ \A i \in DOMAIN in : in[i] \in ItemType
  OBVIOUS
<1>3. taken = [i \in 1 .. Len(in) |-> IF i = k THEN [in[i] EXCEPT !.last = FALSE] ELSE in[i]]
  BY <1>2
<1> HIDE DEF taken
<1>4. \A i \in 1 .. Len(in) : (IF i = k THEN [in[i] EXCEPT !.last = FALSE] ELSE in[i]) \in ItemType
  BY <1>1, <1>2
<1>5. taken \in [1 .. Len(in) -> ItemType]
  BY <1>3, <1>4
<1>6. taken \in Seq(ItemType)
  BY <1>2, <1>5, IsASeq
<1> QED BY <1>6 DEF EndTaken, taken, k

WithAsked(x, asked, in) == [x EXCEPT !.asked = asked, !.in = in]

\* A plain request has been asked for, and its answer queued.
LEMMA AskedLoose ==
  ASSUME NEW n \in Nat, NEW w, NEW c \in Places, Loose(w, c, n), NEW asked \in Seq(STRING),
         NEW read \in Seq(ItemType)
  PROVE  LET u == AskedFor(w, c, asked, read)
         IN Touches(w, u, c, n) /\ Loose(u, c, n) /\ Client(u, c).asked = asked
<1> DEFINE in == EndTaken(read)
           x == WithAsked(Client(w, c), asked, in)
           u == SetClient(w, c, x)
<1>1. w \in WorldType(n) /\ Client(w, c) \in ClientType
  BY WorldIs DEF Loose
<1>6. in \in Seq(ItemType)
  BY EndTakenIs
<1>7. AskedFor(w, c, asked, read) = [w EXCEPT !.server.clients[c].asked = asked, !.server.clients[c].in = in]
  BY DEF AskedFor
<1> HIDE DEF in
<1>2. x \in ClientType /\ x.state = Client(w, c).state /\ x.page = Client(w, c).page /\ x.display = Client(w, c).display /\ x.asked = asked
  <2> DEFINE y == Client(w, c)
             z == [y EXCEPT !.asked = asked, !.in = in]
  <2>1. y \in [state : {"free", "http", "open"}, page : Nat, in : Seq(ItemType), asked : Seq(STRING), out : Seq(PartType),
               rateSent : BOOLEAN, display : Seq(ShadowType)]
    BY <1>1 DEF ClientType
  <2> HIDE DEF y
  <2>2. z \in ClientType
    BY <1>6, <2>1 DEF ClientType
  <2>3. z.state = y.state /\ z.page = y.page /\ z.display = y.display /\ z.asked = asked
    BY <2>1
  <2> HIDE DEF z
  <2> QED BY <2>2, <2>3 DEF WithAsked, y, z
<1>3. [w EXCEPT !.server.clients[c].asked = asked, !.server.clients[c].in = in] = u
  <2>1. w \in [server : ServerType, pages : [1 .. n -> PageType]]
    BY <1>1, MachineFields
  <2>2. w.server \in [machine : {"michael", "wendy2c"}, memory : PictureType, clients : [Places -> ClientType], events : Seq(EventType),
                      audio : Nat, event : EventType \cup {<<>>}, broken : BOOLEAN]
    BY <1>1, MachineFields
  <2> QED BY <2>1, <2>2 DEF SetClient, WithAsked, Client
<1> HIDE DEF x
<1>4. Touches(w, u, c, n) /\ u.pages = w.pages /\ Client(u, c) = x
  BY <1>1, <1>2, SetClientTouches, SetClientIs
<1> HIDE DEF u
<1>5. Loose(u, c, n)
  BY <1>2, <1>4, LooseClient
<1> QED BY <1>2, <1>3, <1>4, <1>5, <1>7

\* What follows a plain answer leaves a client that was closed, or waits with the rest of it.
LEMMA LooseAnswered ==
  ASSUME NEW n \in Nat, NEW v \in WebWorld(n), NEW w, NEW c \in Places, Touches(v, w, c, n), Loose(w, c, n),
         Client(w, c).asked # <<>>, Client(w, c).asked[1] # "websocket"
  PROVE  Keeps(v, OnceAnswered(FlushOutbuf(w, c), c), n)
<1> DEFINE u == FlushOutbuf(w, c)
           z == OnceAnswered(u, c)
<1>1. w \in WorldType(n) /\ (Free(w, c) => Client(w, c).page = 0)
      /\ (~Free(w, c) => Client(w, c).page \in 1 .. n /\ Len(Page(w, c).toPage) <= SOCKET_ROOM)
  BY DEF Loose, HasItsPage
<1>2. IF Client(w, c).out = <<>> THEN u = w
      ELSE (IsShut(w, u, c, n) /\ Client(u, c).out = <<>>) \/ (~Free(w, c) /\ Flushed(w, u, c, n))
  BY <1>1, FlushIs
<1> HIDE DEF u
<1>3. u \in WorldType(n) /\ Touches(w, u, c, n) /\ Client(u, c).page \in 0 .. n /\ Client(u, c).state # "open"
  <2>1. Client(w, c).page \in 0 .. n /\ Client(w, c).state # "open"
    BY <1>1 DEF Loose
  <2>2. Touches(w, w, c, n)
    BY <1>1, TouchesNothing
  <2>3. Touches(w, u, c, n)
    BY <1>2, <2>2 DEF IsShut, Flushed
  <2>4. Client(u, c).state # "open"
    BY <1>2, <2>1 DEF IsShut, Flushed, SameButOut
  <2>5. u \in WorldType(n) /\ Client(u, c).page \in {Client(w, c).page, 0}
    BY <2>3 DEF Touches
  <2> QED BY <2>1, <2>3, <2>4, <2>5
<1>4. Touches(v, u, c, n)
  BY <1>3, TouchesAlso
<1>5. CASE Client(u, c).out = <<>>
  <2>1. z = CloseClient(u, c)
    BY <1>3, <1>5 DEF OnceAnswered
  <2>2. IsShut(u, z, c, n)
    BY <1>3, <2>1, CloseClientIs
  <2> HIDE DEF z
  <2>3. Touches(v, z, c, n)
    BY <1>4, <2>2, TouchesAlso DEF IsShut
  <2> QED BY <2>2, <2>3, ShutIsFine, OneClientKeeps DEF u, z
<1>6. CASE Client(u, c).out # <<>>
  <2>1. z = u
    BY <1>6 DEF OnceAnswered
  <2>2. ~Free(w, c) /\ Flushed(w, u, c, n)
    BY <1>2, <1>6
  <2>3. Client(w, c).page \in 1 .. n /\ Client(u, c).page = Client(w, c).page /\ Client(u, c).state = Client(w, c).state
        /\ Client(u, c).asked = Client(w, c).asked /\ Client(u, c).display = <<>>
    BY <1>1, <2>2 DEF Flushed, SameButOut, Loose
  <2>4. Page(u, c).at = Page(w, c).at
    BY <2>2, <2>3 DEF Flushed, Touches, Page
  <2>5. HasItsPage(u, c, n)
    BY <2>2, <2>3, <2>4 DEF Loose, HasItsPage, Flushed, Free
  <2>6. Fine(u, c, n)
    BY <1>3, <2>2, <2>3, <2>5 DEF Fine, EmptyIfFree, WasAsked, NothingSaid, ShownIfOpen, Free
  <2> QED BY <1>4, <2>1, <2>6, OneClientKeeps DEF u, z
<1> QED BY <1>5, <1>6


WithState(x, state) == [x EXCEPT !.state = state]

\* The upgrade: the first that a page is sent is the answer, and then the frame with the hello.
LEMMA HandshakeKeeps ==
  ASSUME NEW n \in Nat, NEW w \in WebWorld(n), NEW c \in Places, Client(w, c).state = "http", Client(w, c).asked = <<>>
  PROVE  Keeps(w, DoWsHandshake(w, c), n)
<1> DEFINE switching == <<"switching">>
           parts == <<switching>>
           answered == QueueBytes(w, c, parts)
           x == WithState(Client(answered, c), "open")
           u == SetClient(answered, c, x)
           hello == <<"hello">>
           z == WsSend(u, c, 1, hello)
           page == Page(w, c)
<1>1. ~Free(w, c)
  BY DEF Free
<1>2. w \in WorldType(n) /\ Fine(w, c, n) /\ Client(w, c) \in ClientType /\ Client(w, c).page \in 0 .. n /\ Client(w, c).page \in 1 .. n
  BY <1>1, ClientOf
<1>3. Client(w, c).out = <<>> /\ page.toPage = <<>> /\ IsQuiet(page) /\ Client(w, c).display = <<>> /\ page \in PageType
  BY <1>2, WorldIs DEF Fine, NothingSaid, ShownIfOpen
<1>4. DoWsHandshake(w, c) = WsSend([answered EXCEPT !.server.clients[c].state = "open"], c, 1, hello)
  BY DEF DoWsHandshake
<1>5. switching \in PartType /\ switching[1] \notin {"header", "part", "display", "snapshot", "audio"}
  BY DEF PartType, PartNames
<1>6. hello \in PartType /\ hello[1] # "part" /\ hello[1] # "header" /\ hello[1] # "display"
  BY DEF PartType, PartNames
<1> HIDE DEF switching, hello
<1>7. parts \in Seq(PartType) /\ parts = Append(<<>>, switching) /\ <<>> \o parts = parts /\ Len(parts) = 1
  BY <1>5
<1> HIDE DEF parts
<1>8. Queued(w, answered, c, n, parts)
  <2>1. Len(Client(w, c).out) = 0
    BY <1>3
  <2>2. ~(0 + 1 > CLIENT_OUTBUF_SIZE)
    BY WebAssumption
  <2>3. Queued(w, answered, c, n, Client(w, c).out \o parts)
    <3>1. ~(Len(Client(w, c).out) + Len(parts) > CLIENT_OUTBUF_SIZE)
      BY <1>7, <2>1, <2>2
    <3> QED BY <1>2, <1>7, <3>1, BytesQueued
  <2> QED BY <1>3, <1>7, <2>3
<1> HIDE DEF answered
<1>9. answered \in WorldType(n) /\ Client(answered, c) \in ClientType /\ SameButOut(Client(w, c), Client(answered, c)) /\ Client(answered, c).out = parts
  BY <1>8 DEF Queued, Touches, SameButOut
<1>10. /\ x \in ClientType /\ x.state = "open" /\ x.page = Client(w, c).page /\ x.asked = <<>> /\ x.display = <<>> /\ x.out = parts
  <2> DEFINE y == Client(answered, c)
             o == [y EXCEPT !.state = "open"]
  <2>1. y \in [state : {"free", "http", "open"}, page : Nat, in : Seq(ItemType), asked : Seq(STRING), out : Seq(PartType),
               rateSent : BOOLEAN, display : Seq(ShadowType)]
    BY <1>9 DEF ClientType
  <2>2. y.page = Client(w, c).page /\ y.asked = <<>> /\ y.display = <<>> /\ y.out = parts
    BY <1>3, <1>9 DEF SameButOut
  <2> HIDE DEF y
  <2>3. o \in ClientType
    BY <2>1 DEF ClientType
  <2>4. o.state = "open" /\ o.page = y.page /\ o.asked = y.asked /\ o.display = y.display /\ o.out = y.out
    BY <2>1
  <2> HIDE DEF o
  <2> QED BY <2>2, <2>3, <2>4 DEF WithState, y, o
<1>11. [answered EXCEPT !.server.clients[c].state = "open"] = u
  <2>1. answered \in [server : ServerType, pages : [1 .. n -> PageType]]
    BY <1>9, MachineFields
  <2>2. answered.server \in [machine : {"michael", "wendy2c"}, memory : PictureType, clients : [Places -> ClientType], events : Seq(EventType),
                             audio : Nat, event : EventType \cup {<<>>}, broken : BOOLEAN]
    BY <1>9, MachineFields
  <2> QED BY <2>1, <2>2 DEF SetClient, WithState, Client
<1> HIDE DEF x
<1>12. Touches(answered, u, c, n) /\ u.pages = answered.pages /\ Client(u, c) = x
  <2>1. x.page \in {Client(answered, c).page, 0}
    BY <1>9, <1>10 DEF SameButOut
  <2> QED BY <1>9, <1>10, <2>1, SetClientTouches, SetClientIs
<1> HIDE DEF u
<1>13. Touches(w, u, c, n) /\ u.pages = w.pages /\ Page(u, c) = page /\ u \in WorldType(n)
  <2>1. Touches(w, u, c, n)
    BY <1>8, <1>12, TouchesAlso DEF Queued
  <2>2. u.pages = w.pages
    BY <1>8, <1>12 DEF Queued
  <2> QED BY <1>10, <1>12, <2>1, <2>2 DEF Touches, Page
<1>14. IsQuiet(Seen(u, c))
  <2>1. Seen(u, c) = AfterParts(page, <<>> \o parts)
    BY <1>3, <1>10, <1>12, <1>13 DEF Seen
  <2>2. Seen(u, c) = AfterParts(page, parts)
    BY <1>7, <2>1
  <2> HIDE DEF page
  <2>3. AfterParts(page, Append(<<>>, switching)) = PageTakes(AfterParts(page, <<>>), switching)
    <3>1. <<>> \in Seq(PartType)
      OBVIOUS
    <3> QED BY <1>3, <1>5, <3>1, AfterOneMore
  <2>4. Seen(u, c) = PageTakes(page, switching)
    BY <1>3, <1>7, <2>2, <2>3, AfterNothing
  <2> DEFINE cut == switching[1] \in {"part", "display", "snapshot", "audio"}
  <2>5. cut = FALSE /\ switching[1] # "header"
    BY <1>5
  <2>6. PageTakes(page, switching) = [page EXCEPT !.torn = @ \/ cut]
    BY <1>3, <2>5 DEF PageTakes, IsQuiet
  <2> HIDE DEF cut
  <2>7. page \in [at : {"away", "connects", "here", "gone"}, toServer : Seq(ItemType), toPage : Seq(PartType), closed : BOOLEAN,
                  script : Nat, part : Nat, picture : PictureType, need : Nat, torn : BOOLEAN]
    BY <1>3 DEF PageType
  <2> QED BY <1>3, <2>4, <2>5, <2>6, <2>7 DEF IsQuiet
<1>15. Client(u, c).state = "open" /\ Client(u, c).page \in 0 .. n /\ Client(u, c).page \in 1 .. n
  BY <1>2, <1>10, <1>12
<1>16. IsShut(u, z, c, n) \/ Queued(u, z, c, n, Client(u, c).out \o Frame(1, hello))
  BY <1>6, <1>13, <1>15, WsSendIs
<1>17. DoWsHandshake(w, c) = z
  BY <1>4, <1>11
<1> HIDE DEF z, page
<1>18. Touches(w, z, c, n)
  BY <1>13, <1>16, TouchesAlso DEF IsShut, Queued
<1>19. CASE IsShut(u, z, c, n)
  BY <1>17, <1>18, <1>19, ShutIsFine, OneClientKeeps
<1>20. CASE Queued(u, z, c, n, Client(u, c).out \o Frame(1, hello))
  <2>1. IsQuiet(Seen(z, c))
    BY <1>6, <1>13, <1>14, <1>15, <1>20, FrameSent
  <2>2. z.pages = w.pages /\ Client(z, c).state = "open" /\ Client(z, c).page = Client(w, c).page /\ Client(z, c).asked = <<>> /\ Client(z, c).display = <<>>
    BY <1>10, <1>12, <1>13, <1>20 DEF Queued, SameButOut
  <2>3. Page(z, c) = Page(w, c) /\ ~Free(z, c)
    BY <2>2 DEF Page, Free
  <2>4. Fine(z, c, n)
    BY <1>1, <1>2, <2>1, <2>2, <2>3 DEF Fine, EmptyIfFree, HasItsPage, WasAsked, NothingSaid, ShownIfOpen, InStep
  <2> QED BY <1>17, <1>18, <2>4, OneClientKeeps
<1> QED BY <1>16, <1>19, <1>20

\* try_complete_request and what read_from_client does after it.
LEMMA RequestedKeeps ==
  ASSUME NEW n \in Nat, NEW w \in WebWorld(n), NEW c \in Places, Client(w, c).state = "http"
  PROVE  Keeps(w, Requested(w, c), n)
<1> DEFINE in == Client(w, c).in
           done == HasFrame(in)
           asked == IF Client(w, c).asked = <<>> THEN <<in[1].name>> ELSE Client(w, c).asked
           answered == Answered(w, c, asked)
           u == OnceAnswered(FlushOutbuf(answered, c), c)
           simple == SendSimple(w, c)
           v == CloseClient(simple, c)
<1>1. w \in WorldType(n) /\ Client(w, c) \in ClientType /\ Fine(w, c, n) /\ ~Free(w, c)
  BY ClientOf DEF Free
<1>2. Requested(w, c) = IF done THEN u ELSE IF Len(in) >= CLIENT_INBUF_SIZE - 1 THEN v ELSE w
  BY DEF Requested
<1>3. Loose(w, c, n)
  BY <1>1 DEF Loose, Fine, ShownIfOpen
<1>4. Keeps(w, v, n)
  <2>1. Touches(w, simple, c, n) /\ Loose(simple, c, n)
    BY <1>3, SendSimpleLoose
  <2> HIDE DEF simple
  <2>2. simple \in WorldType(n) /\ Client(simple, c).page \in 0 .. n
    BY <2>1 DEF Loose, HasItsPage
  <2>3. IsShut(simple, v, c, n)
    BY <2>2, CloseClientIs
  <2> HIDE DEF v
  <2>4. Touches(w, v, c, n)
    BY <2>1, <2>3, TouchesAlso DEF IsShut
  <2> QED BY <2>3, <2>4, ShutIsFine, OneClientKeeps
<1>5. Keeps(w, w, n)
  BY DEF Keeps, SameMachine
<1>6. CASE ~done
  BY <1>2, <1>4, <1>5, <1>6
<1>7. CASE done
  <2>1. asked \in Seq(STRING) /\ asked # <<>> /\ (asked[1] = "websocket" => Client(w, c).asked = <<>>)
    <3>1. CASE Client(w, c).asked = <<>>
      <4>1. in \in Seq(ItemType) /\ in # <<>>
        BY <1>1, <1>7 DEF ClientType, HasFrame
      <4> HIDE DEF in
      <4>2. in[1] \in ItemType
        BY <4>1
      <4>3. in[1].name \in STRING
        BY <4>2 DEF ItemType
      <4> QED BY <3>1, <4>3
    <3>2. CASE Client(w, c).asked # <<>>
      BY <1>1, <3>2 DEF ClientType, Fine, WasAsked
    <3> QED BY <3>1, <3>2
  <2>4. in \in Seq(ItemType)
    BY <1>1 DEF ClientType
  <2>5. answered \in {AskedFor(SendFile(w, c), c, asked, in), AskedFor(SendSimple(w, c), c, asked, in)} \/ asked[1] = "websocket"
    BY DEF Answered
  <2> HIDE DEF asked, in, done
  <2>2. CASE asked[1] = "websocket"
    <3> DEFINE shaken == DoWsHandshake(w, c)
               empty == <<>>
               read == [shaken EXCEPT !.server.clients[c].in = empty]
               flushed == FlushOutbuf(read, c)
    <3>1. answered = read
      BY <2>2 DEF Answered
    <3>2. Keeps(w, shaken, n)
      BY <2>1, <2>2, HandshakeKeeps
    <3> HIDE DEF shaken
    <3>3. empty \in Seq(ItemType)
      OBVIOUS
    <3> HIDE DEF empty
    <3>4. Keeps(shaken, read, n)
      BY <3>2, <3>3, InputKeeps DEF Keeps
    <3> HIDE DEF read, answered
    <3>5. Keeps(read, flushed, n)
      BY <3>4, FlushKeeps DEF Keeps
    <3>6. u \in {CloseClient(flushed, c), flushed}
      BY <3>1 DEF OnceAnswered
    <3> HIDE DEF flushed
    <3>7. Keeps(flushed, CloseClient(flushed, c), n) /\ Keeps(flushed, flushed, n)
      BY <3>5, CloseClientKeeps DEF Keeps, SameMachine
    <3> HIDE DEF u
    <3>8. Keeps(flushed, u, n)
      BY <3>6, <3>7
    <3>9. Keeps(w, u, n)
      BY <3>2, <3>4, <3>5, <3>8, KeepsAlso
    <3> QED BY <1>2, <1>7, <3>9
  <2>3. CASE asked[1] # "websocket"
    <3>1. ASSUME NEW x, Touches(w, x, c, n), Loose(x, c, n)
          PROVE  LET y == AskedFor(x, c, asked, in) IN Touches(w, y, c, n) /\ Loose(y, c, n) /\ Client(y, c).asked = asked
      <4> DEFINE y == AskedFor(x, c, asked, in)
      <4>1. Touches(x, y, c, n) /\ Loose(y, c, n) /\ Client(y, c).asked = asked
        <5>1. Loose(x, c, n) /\ asked \in Seq(STRING) /\ in \in Seq(ItemType) /\ n \in Nat /\ c \in Places
          BY <2>1, <2>4, <3>1
        <5>2. \A r \in Seq(ItemType) : LET z == AskedFor(x, c, asked, r) IN Touches(x, z, c, n) /\ Loose(z, c, n) /\ Client(z, c).asked = asked
          BY <5>1, AskedLoose
        <5> QED BY <5>1, <5>2
      <4> HIDE DEF y
      <4>2. Touches(w, y, c, n)
        BY <3>1, <4>1, TouchesAlso
      <4> QED BY <4>1, <4>2 DEF y
    <3>2. answered \in {AskedFor(SendFile(w, c), c, asked, in), AskedFor(SendSimple(w, c), c, asked, in)}
      BY <2>3, <2>5
    <3> HIDE DEF answered
    <3>3. Touches(w, answered, c, n) /\ Loose(answered, c, n) /\ Client(answered, c).asked = asked
      BY <1>3, <3>1, <3>2, SendFileLoose, SendSimpleLoose
    <3>4. Keeps(w, u, n)
      BY <2>1, <2>3, <3>3, LooseAnswered
    <3> QED BY <1>2, <1>7, <3>4
  <2> QED BY <2>2, <2>3
<1> QED BY <1>6, <1>7


\* A page changed, but for what it is sent and makes of it: its client is as fine as before.
LEMMA PageIsFine ==
  ASSUME NEW n \in Nat, NEW v \in WorldType(n), NEW w \in WorldType(n), NEW c \in Places, Fine(v, c, n), ~Free(v, c),
         SameClient(Client(v, c), Client(w, c)), w.server.machine = v.server.machine,
         Page(w, c) \in PageType, SameView(Page(v, c), Page(w, c)), Page(w, c).at \in {"here", "gone"},
         Page(w, c).toPage = Page(v, c).toPage, Page(w, c).closed = Page(v, c).closed
  PROVE  Fine(w, c, n)
<1> DEFINE p == Page(v, c)
           q == Page(w, c)
           stream == p.toPage \o Client(v, c).out
<1>1. Client(v, c).page \in 1 .. n
  BY DEF Fine, HasItsPage
<1>2. p \in PageType /\ q \in PageType /\ stream \in Seq(PartType)
  BY <1>1, StreamTyped
<1>3. Seen(v, c) = AfterParts(p, stream) /\ Seen(w, c) = AfterParts(q, stream)
  BY DEF Seen, SameClient
<1>4. ~Free(w, c)
  BY DEF SameClient, Free
<1>5. SameView(Seen(v, c), Seen(w, c))
  <2> HIDE DEF p, q, stream
  <2>1. SameView(p, q)
    BY DEF p, q
  <2>2. SameView(AfterParts(p, stream), AfterParts(q, stream))
    BY <1>2, <2>1, AfterIs
  <2> QED BY <1>3, <2>2
<1>6. Client(v, c).state = "open" => InStep(w, c)
  BY <1>5 DEF Fine, InStep, SameView, IsQuiet, SameClient
<1>7. NothingSaid(w, c)
  BY DEF Fine, NothingSaid, SameClient, SameView, IsQuiet
<1>8. EmptyIfFree(w, c) /\ HasItsPage(w, c, n) /\ WasAsked(w, c) /\ ShownIfOpen(w, c)
  BY <1>4 DEF Fine, EmptyIfFree, HasItsPage, WasAsked, ShownIfOpen, SameClient
<1> QED BY <1>6, <1>7, <1>8 DEF Fine, SameClient

LEMMA ReadKeeps ==
  ASSUME NEW n \in Nat, NEW w \in WebWorld(n), NEW c \in Places
  PROVE  Keeps(w, ReadFromClient(w, c), n)
<1> DEFINE room == CLIENT_INBUF_SIZE - Len(Client(w, c).in)
           stream == Page(w, c).toServer
           m == Least(room, Len(stream))
           front == SubSeq(stream, 1, m)
           rest == SubSeq(stream, m + 1, Len(stream))
           p == Client(w, c).page
           read == [w EXCEPT !.server.clients[c].in = @ \o front, !.pages[p].toServer = rest]
<1>1. Keeps(w, w, n) /\ Keeps(w, CloseClient(w, c), n)
  BY CloseClientKeeps DEF Keeps, SameMachine
<1>2. CASE Free(w, c) \/ w.server.broken
  BY <1>1, <1>2 DEF ReadFromClient
<1>3. CASE ~(Free(w, c) \/ w.server.broken) /\ (stream = <<>> \/ m <= 0)
  BY <1>1, <1>3 DEF ReadFromClient
<1>4. CASE ~(Free(w, c) \/ w.server.broken) /\ stream # <<>> /\ ~(m <= 0)
  <2>1. ReadFromClient(w, c) = IF Client(w, c).state = "open" THEN WsFrames(read, c) ELSE Requested(read, c)
    BY <1>4 DEF ReadFromClient
  <2>2. w \in WorldType(n) /\ Client(w, c) \in ClientType /\ Fine(w, c, n) /\ p \in 1 .. n /\ Page(w, c) \in PageType
    BY <1>4, ClientOf, WorldIs
  <2>3. Client(w, c).in \in Seq(ItemType) /\ stream \in Seq(ItemType)
    BY <2>2 DEF ClientType, PageType
  <2>4. front \in Seq(ItemType) /\ rest \in Seq(ItemType)
    <3>1. CLIENT_INBUF_SIZE \in Nat
      BY WebAssumption
    <3> DEFINE in == Client(w, c).in
               len == Len(stream)
    <3>2. Len(in) \in Nat /\ len \in Nat
      <4> HIDE DEF in, stream
      <4> QED BY <2>3 DEF in
    <3>3. room \in Int
      <4> HIDE DEF in
      <4>1. CLIENT_INBUF_SIZE - Len(in) \in Int
        BY <3>1, <3>2
      <4> QED BY <4>1 DEF in
    <3> HIDE DEF room, stream, in
    <3>4. m \in 1 .. len
      <4> HIDE DEF len
      <4>1. ~(Least(room, len) <= 0)
        BY <1>4 DEF len
      <4>2. Least(room, len) \in 1 .. len
        BY <3>2, <3>3, <4>1 DEF Least
      <4> QED BY <4>2 DEF len
    <3> HIDE DEF m
    <3> QED BY <2>3, <3>4, SubSeqProperties
  <2> DEFINE in == Client(w, c).in \o front
             x == WithIn(Client(w, c), in)
             v == SetClient(w, c, x)
             y == WithToServer(Page(w, c), rest)
             u == SetPage(v, p, y)
  <2>5. in \in Seq(ItemType)
    BY <2>3, <2>4, ConcatProperties
  <2>6. read = u
    <3>1. w \in [server : ServerType, pages : [1 .. n -> PageType]]
      BY <2>2, MachineFields
    <3>2. w.server \in [machine : {"michael", "wendy2c"}, memory : PictureType, clients : [Places -> ClientType], events : Seq(EventType),
                        audio : Nat, event : EventType \cup {<<>>}, broken : BOOLEAN]
      BY <2>2, MachineFields
    <3>3. [w EXCEPT !.server.clients[c].in = @ \o front] = v
      <4> HIDE DEF front
      <4> QED BY <3>1, <3>2 DEF SetClient, WithIn, Client
    <3>4. v.pages = w.pages
      BY <3>1 DEF SetClient
    <3> HIDE DEF front, rest, v
    <3>5. [[w EXCEPT !.server.clients[c].in = @ \o front] EXCEPT !.pages[p].toServer = rest] = u
      BY <2>2, <3>1, <3>3, <3>4 DEF SetPage, WithToServer, Page
    <3> QED BY <3>1, <3>5
  <2> HIDE DEF front, rest, in, read
  <2>7. SameClient(Client(w, c), x)
    BY <2>2, <2>5, WithInIs
  <2> HIDE DEF x
  <2>8. Touches(w, v, c, n) /\ v.pages = w.pages /\ Client(v, c) = x /\ v \in WorldType(n)
    BY <2>2, <2>7, SetClientTouches, SetClientIs DEF SameClient
  <2> HIDE DEF v
  <2>9. Client(v, c).page = p /\ Page(v, c) = Page(w, c)
    BY <2>7, <2>8 DEF SameClient, Page
  <2>10. y \in PageType /\ y.at = Page(w, c).at /\ SameView(Page(w, c), y) /\ y.closed = Page(w, c).closed /\ y.toPage = Page(w, c).toPage
    BY <2>2, <2>4, WithToServerIs
  <2> HIDE DEF y
  <2>11. Touches(v, u, c, n) /\ u.server = v.server /\ u.pages[p] = y
    <3>1. Touches(v, SetPage(v, Client(v, c).page, y), c, n)
      BY <2>2, <2>8, <2>9, <2>10, SetPageTouches
    <3>2. Client(v, c).page = p
      BY <2>9
    <3> HIDE DEF p
    <3>3. u.server = v.server /\ u.pages[p] = y
      BY <2>2, <2>8, <2>10, SetPageIs
    <3> QED BY <3>1, <3>2, <3>3
  <2> HIDE DEF u
  <2>12. Touches(w, u, c, n)
    BY <2>8, <2>11, TouchesAlso
  <2>13. Client(u, c) = x /\ Page(u, c) = y
    BY <2>8, <2>9, <2>11 DEF Client, Page
  <2>14. Fine(u, c, n)
    <3>1. u \in WorldType(n) /\ u.server.machine = w.server.machine
      BY <2>12 DEF Touches, SameMachine
    <3>2. ~Free(w, c) /\ y.at \in {"here", "gone"}
      BY <1>4, <2>2, <2>10 DEF Fine, HasItsPage
    <3> QED BY <2>2, <2>7, <2>10, <2>13, <3>1, <3>2, PageIsFine
  <2>15. Keeps(w, u, n)
    BY <2>12, <2>14, OneClientKeeps
  <2>16. Client(u, c).state = Client(w, c).state /\ u \in WebWorld(n)
    BY <2>7, <2>13, <2>15 DEF SameClient, Keeps
  <2>17. CASE Client(w, c).state = "open"
    <3>1. Keeps(u, WsFrames(u, c), n)
      BY <2>16, <2>17, WsFramesKeep
    <3> QED BY <2>1, <2>6, <2>15, <2>17, <3>1, KeepsAlso
  <2>18. CASE Client(w, c).state # "open"
    <3>1. Client(u, c).state = "http"
      <4>1. Client(w, c).state \in {"free", "http", "open"} /\ Client(w, c).state # "free"
        BY <1>4, <2>2 DEF ClientType, Free
      <4> QED BY <2>16, <2>18, <4>1
    <3>2. Keeps(u, Requested(u, c), n)
      BY <2>16, <3>1, RequestedKeeps
    <3> QED BY <2>1, <2>6, <2>15, <2>18, <3>2, KeepsAlso
  <2> QED BY <2>17, <2>18
<1> QED BY <1>2, <1>3, <1>4

LEMMA ReadTurnsKeep ==
  ASSUME NEW n \in Nat, NEW w \in WebWorld(n)
  PROVE  Keeps(w, ReadTurns(w)[WEB_MAX_CLIENTS], n)
<1> DEFINE m == WEB_MAX_CLIENTS
           start == w
           S == {v \in WebWorld(n) : Keeps(w, v, n)}
           Op(v, k) == ReadFromClient(v, k)
           step == [k \in 1 .. m |-> [v \in S |-> Op(v, k)]]
           T == ReadTurns(w)
<1>1. m \in Nat
  BY WebAssumption
<1>2. start \in S
  BY DEF Keeps, SameMachine
<1>3. ASSUME NEW v \in S, NEW k \in 1 .. m PROVE Op(v, k) \in S
  <2>1. v \in WebWorld(n) /\ Keeps(w, v, n) /\ k \in Places
    BY DEF Keeps, Places
  <2>2. Keeps(v, Op(v, k), n)
    BY <2>1, ReadKeeps
  <2> HIDE DEF Op
  <2>3. Keeps(w, Op(v, k), n)
    BY <2>1, <2>2, KeepsAlso
  <2> QED BY <2>3 DEF Keeps
<1> HIDE DEF m, start, S, Op
<1>4. step \in StepsOn(S, m)
  BY <1>3 DEF StepsOn
<1>5. PICK f : IsTaken(f, S, start, step, m)
  <2> HIDE DEF step
  <2> QED BY <1>1, <1>2, <1>4, StepsAreTaken
<1>6. f \in [0 .. m -> S] /\ f[0] = start /\ \A k \in 1 .. m : f[k] = step[k][f[k - 1]]
  <2> HIDE DEF step
  <2> QED BY <1>5 DEF IsTaken
<1>7. \A k \in 1 .. m : f[k] = Op(f[k - 1], k)
  <2> TAKE k \in 1 .. m
  <2>1. f[k - 1] \in S /\ f[k] = step[k][f[k - 1]]
    BY <1>1, <1>6
  <2>2. step[k] = [v \in S |-> Op(v, k)]
    OBVIOUS
  <2> HIDE DEF step
  <2> QED BY <2>1, <2>2
<1> HIDE DEF step
<1>8. f = [k \in 0 .. m |-> IF k = 0 THEN start ELSE Op(f[k - 1], k)]
  BY <1>1, <1>6, <1>7
<1>9. T = [k \in 0 .. m |-> IF k = 0 THEN start ELSE Op(T[k - 1], k)]
  BY <1>1, <1>8 DEF ReadTurns, Turns, Op, start, m
<1> HIDE DEF T
<1>10. T[0] = start /\ \A k \in 1 .. m : T[k] = Op(T[k - 1], k)
  BY <1>1, <1>9
<1>11. T[m] \in S
  <2> DEFINE Stay == {k \in 0 .. m : T[k] \in S}
  <2>1. 0 \in Stay /\ \A k \in 1 .. m : k - 1 \in Stay => k \in Stay
    BY <1>1, <1>2, <1>3, <1>10
  <2> HIDE DEF Stay
  <2>2. m \in Stay
    BY <1>1, <2>1, EachTurn
  <2> QED BY <2>2 DEF Stay
<1> QED BY <1>11 DEF S, T, m


\* A page changed, and no client: its client, if it has one, is fine, and so are all.
LEMMA PageChanges ==
  ASSUME NEW n \in Nat, NEW v \in WebWorld(n), NEW w \in WorldType(n), NEW p \in 1 .. n,
         w.server.clients = v.server.clients, w.server.machine = v.server.machine,
         \A q \in 1 .. n : q # p => w.pages[q] = v.pages[q],
         \A c \in Places : ~Free(v, c) /\ Client(v, c).page = p => Fine(w, c, n),
         w.pages[p].at \in {"away", "connects"} => w.pages[p].toPage = <<>> /\ IsQuiet(w.pages[p]) /\ ~w.pages[p].closed
  PROVE  w \in WebWorld(n)
<1>1. \A c \in Places : Client(w, c) = Client(v, c) /\ (Free(w, c) <=> Free(v, c))
  BY DEF Client, Free
<1>2. ASSUME NEW c \in Places PROVE Fine(w, c, n)
  <2>1. Fine(v, c, n) /\ (~Free(v, c) => Client(v, c).page \in 1 .. n)
    BY ClientOf
  <2>2. CASE Free(v, c)
    BY <1>1, <2>1, <2>2 DEF Fine, EmptyIfFree, HasItsPage, WasAsked, NothingSaid, ShownIfOpen, Free
  <2>3. CASE ~Free(v, c) /\ Client(v, c).page = p
    BY <2>3
  <2>4. CASE ~Free(v, c) /\ Client(v, c).page # p
    <3>1. Page(w, c) = Page(v, c) /\ Client(w, c) = Client(v, c) /\ (Free(w, c) <=> Free(v, c))
      BY <1>1, <2>1, <2>4 DEF Page
    <3>2. Seen(w, c) = Seen(v, c)
      BY <3>1 DEF Seen
    <3> QED BY <2>1, <3>1, <3>2 DEF Fine, EmptyIfFree, HasItsPage, WasAsked, NothingSaid, ShownIfOpen, InStep
  <2> QED BY <2>2, <2>3, <2>4
<1>3. Apart(v) /\ Unmet(v, n)
  BY DEF WebWorld
<1>4. Apart(w)
  BY <1>1, <1>3 DEF Apart
<1>5. Unmet(w, n)
  BY <1>3 DEF Unmet
<1> QED BY <1>2, <1>4, <1>5 DEF WebWorld

\* A page that no server has met is nobody's.
LEMMA UnmetIsNobodys ==
  ASSUME NEW n \in Nat, NEW w \in WebWorld(n), NEW p \in 1 .. n, w.pages[p].at \notin {"here", "gone"}, NEW c \in Places, ~Free(w, c)
  PROVE  Client(w, c).page # p
BY ClientOf DEF Fine, HasItsPage, Page

LEMMA AcceptKeeps ==
  ASSUME NEW n \in Nat, NEW w \in WebWorld(n), NEW p \in 1 .. n
  PROVE  Accept(w, p) \in WebWorld(n)
<1> DEFINE free == {c \in Places : Free(w, c)}
           busy == <<<<"busy">>>>
           old == w.pages[p]
           shut == [old EXCEPT !.at = "here", !.closed = TRUE, !.toPage = busy]
           here == [old EXCEPT !.at = "here"]
           c == Min(free)
           x == [Client(w, c) EXCEPT !.state = "http", !.page = p, !.in = <<>>, !.out = <<>>]
           v == SetPage(w, p, here)
           u == SetClient(v, c, x)
<1>1. w \in [server : ServerType, pages : [1 .. n -> PageType]] /\ w \in WorldType(n)
  BY MachineFields DEF WebWorld
<1>2. old \in [at : {"away", "connects", "here", "gone"}, toServer : Seq(ItemType), toPage : Seq(PartType), closed : BOOLEAN,
               script : Nat, part : Nat, picture : PictureType, need : Nat, torn : BOOLEAN]
  BY <1>1 DEF PageType
<1>3. busy \in Seq(PartType)
  <2>1. <<"busy">> \in PartType
    BY DEF PartType, PartNames
  <2> QED BY <2>1
<1> HIDE DEF busy
<1>4. shut \in PageType /\ shut.at = "here"
  BY <1>2, <1>3 DEF PageType
<1>5. here \in PageType /\ here.at = "here" /\ here.toPage = old.toPage /\ here.closed = old.closed /\ SameView(old, here)
  <2>1. here \in PageType
    BY <1>2 DEF PageType
  <2>2. here.at = "here" /\ here.toPage = old.toPage /\ here.closed = old.closed /\ here.need = old.need /\ here.torn = old.torn /\ here.picture = old.picture
    BY <1>2
  <2> HIDE DEF here
  <2> QED BY <2>1, <2>2 DEF SameView
<1>6. CASE old.at # "connects"
  BY <1>6 DEF Accept
<1>7. CASE old.at = "connects"
  <2>1. old.toPage = <<>> /\ IsQuiet(old) /\ ~old.closed
    BY <1>7 DEF WebWorld, Unmet
  <2>2. \A d \in Places : ~Free(w, d) => Client(w, d).page # p
    BY <1>7, UnmetIsNobodys
  <2>3. CASE free = {}
    <3> DEFINE z == SetPage(w, p, shut)
    <3>1. Accept(w, p) = z
      <4>1. Accept(w, p) = [w EXCEPT !.pages[p].at = "here", !.pages[p].closed = TRUE, !.pages[p].toPage = busy]
        BY <1>7, <2>3 DEF Accept, busy
      <4> DEFINE a == [w EXCEPT !.pages[p].at = "here"]
                 b == [a EXCEPT !.pages[p].closed = TRUE]
                 y == [old EXCEPT !.at = "here"]
                 z2 == [y EXCEPT !.closed = TRUE]
      <4>2. Accept(w, p) = [b EXCEPT !.pages[p].toPage = busy]
        BY <4>1
      <4>3. a = [w EXCEPT !.pages = [w.pages EXCEPT ![p] = y]]
        BY <1>1
      <4>4. y \in PageType
        BY <1>2 DEF PageType
      <4> HIDE DEF a, y
      <4>5. a \in [server : ServerType, pages : [1 .. n -> PageType]] /\ a.pages[p] = y /\ a.server = w.server
            /\ a.pages = [w.pages EXCEPT ![p] = y]
        BY <1>1, <4>3, <4>4
      <4>6. b = [a EXCEPT !.pages = [w.pages EXCEPT ![p] = z2]]
        BY <1>1, <4>4, <4>5
      <4>7. y \in [at : {"away", "connects", "here", "gone"}, toServer : Seq(ItemType), toPage : Seq(PartType), closed : BOOLEAN,
                    script : Nat, part : Nat, picture : PictureType, need : Nat, torn : BOOLEAN]
        BY <4>4 DEF PageType
      <4>8. z2 \in PageType
        BY <4>7 DEF PageType
      <4>9. [z2 EXCEPT !.toPage = busy] = shut
        BY <1>2 DEF y
      <4> HIDE DEF z2, b
      <4>10. b \in [server : ServerType, pages : [1 .. n -> PageType]] /\ b.server = w.server /\ b.pages = [w.pages EXCEPT ![p] = z2]
        BY <1>1, <4>5, <4>6, <4>8
      <4> HIDE DEF shut, z
      <4>11. [b EXCEPT !.pages[p].toPage = busy] = [b EXCEPT !.pages = [w.pages EXCEPT ![p] = shut]]
        BY <1>1, <4>8, <4>9, <4>10
      <4>12. [b EXCEPT !.pages = [w.pages EXCEPT ![p] = shut]] = [w EXCEPT !.pages[p] = shut]
        BY <1>1, <4>10
      <4> QED BY <4>2, <4>11, <4>12 DEF z, SetPage
    <3> HIDE DEF shut
    <3>2. z \in WorldType(n) /\ z.server = w.server /\ z.pages[p] = shut /\ \A q \in 1 .. n : q # p => z.pages[q] = w.pages[q]
      BY <1>1, <1>4, SetPageIs
    <3> HIDE DEF z
    <3>3. z \in WebWorld(n)
      <4>1. z.server.clients = w.server.clients /\ z.server.machine = w.server.machine
        BY <3>2
      <4>2. \A d \in Places : ~Free(w, d) /\ Client(w, d).page = p => Fine(z, d, n)
        BY <2>2
      <4>3. z.pages[p].at \notin {"away", "connects"}
        BY <1>4, <3>2
      <4> QED BY <3>2, <4>1, <4>2, <4>3, PageChanges
    <3> QED BY <3>1, <3>3
  <2>4. CASE free # {}
    <3>1. c \in Places /\ Free(w, c)
      <4>1. free \subseteq Nat
        BY WebAssumption DEF Places
      <4>2. \E i \in free : \A j \in free : i <= j
        <5> HIDE DEF free
        <5> QED BY <2>4, <4>1, LeastNatural
      <4>3. c = CHOOSE i \in free : \A j \in free : i <= j
        BY DEF Min
      <4>4. c \in free
        <5> HIDE DEF free, c
        <5> QED BY <4>2, <4>3
      <4> QED BY <4>4
    <3>2. Accept(w, p) = [w EXCEPT !.pages[p].at = "here",
                                   !.server.clients[c] = [@ EXCEPT !.state = "http", !.page = p, !.in = <<>>, !.out = <<>>]]
      BY <1>7, <2>4 DEF Accept
    <3> HIDE DEF free, c
    <3>3. w.server \in [machine : {"michael", "wendy2c"}, memory : PictureType, clients : [Places -> ClientType], events : Seq(EventType),
                        audio : Nat, event : EventType \cup {<<>>}, broken : BOOLEAN]
      BY <1>1, MachineFields
    <3>4. Accept(w, p) = u
      <4>1. [w EXCEPT !.pages[p].at = "here"] = v
        BY <1>1 DEF SetPage
      <4>2. v.server = w.server
        BY <1>1 DEF SetPage
      <4> HIDE DEF v
      <4>3. [v EXCEPT !.server.clients[c] = [@ EXCEPT !.state = "http", !.page = p, !.in = <<>>, !.out = <<>>]] = u
        BY <3>1, <3>3, <4>2 DEF SetClient, Client
      <4> QED BY <3>2, <4>1, <4>3, <1>1
    <3>5. x \in ClientType /\ x.state = "http" /\ x.page = p /\ x.out = <<>> /\ x.asked = <<>> /\ x.display = <<>>
      <4> DEFINE y == Client(w, c)
                 nothing == <<>>
                 o == [y EXCEPT !.state = "http", !.page = p, !.in = nothing, !.out = nothing]
      <4>1. y \in [state : {"free", "http", "open"}, page : Nat, in : Seq(ItemType), asked : Seq(STRING), out : Seq(PartType),
                   rateSent : BOOLEAN, display : Seq(ShadowType)] /\ y.asked = <<>> /\ y.display = <<>>
        BY <3>1, ClientOf DEF ClientType, Fine, EmptyIfFree
      <4> HIDE DEF y
      <4>2. nothing \in Seq(ItemType) /\ nothing \in Seq(PartType) /\ p \in Nat
        OBVIOUS
      <4> HIDE DEF nothing
      <4>3. o \in ClientType
        BY <4>1, <4>2 DEF ClientType
      <4>4. o.state = "http" /\ o.page = p /\ o.out = nothing /\ o.asked = <<>> /\ o.display = <<>>
        BY <4>1
      <4> HIDE DEF o
      <4> QED BY <4>3, <4>4 DEF o, y, nothing
    <3> HIDE DEF x, here
    <3>6. v \in WorldType(n) /\ v.server = w.server /\ v.pages[p] = here /\ \A q \in 1 .. n : q # p => v.pages[q] = w.pages[q]
      BY <1>1, <1>5, SetPageIs
    <3> HIDE DEF v
    <3>7. u \in WorldType(n) /\ SameMachine(v, u) /\ u.pages = v.pages
          /\ Client(u, c) = x /\ \A d \in Places : d # c => Client(u, d) = Client(v, d)
      BY <3>1, <3>5, <3>6, SetClientIs
    <3> HIDE DEF u
    <3>8. Page(u, c) = here
      BY <3>5, <3>6, <3>7 DEF Page
    <3>9. Fine(u, c, n)
      <4>1. Len(here.toPage) <= SOCKET_ROOM
        <5>1. SOCKET_ROOM \in Nat /\ here.toPage = <<>>
          BY <1>5, <2>1, WebAssumption
        <5> QED BY <5>1
      <4>2. IsQuiet(here) /\ ~here.closed
        BY <1>5, <2>1 DEF IsQuiet, SameView
      <4> QED BY <1>5, <2>1, <3>5, <3>7, <3>8, <4>1, <4>2 DEF Fine, EmptyIfFree, HasItsPage, WasAsked, NothingSaid, ShownIfOpen, Free
    <3>10. ASSUME NEW d \in Places, d # c
           PROVE  Fine(u, d, n) /\ Client(u, d) = Client(w, d) /\ (Free(u, d) <=> Free(w, d)) /\ (~Free(w, d) => Client(w, d).page # p)
      <4>1. Client(u, d) = Client(w, d) /\ (Free(u, d) <=> Free(w, d))
        BY <3>6, <3>7, <3>10 DEF Client, Free
      <4>2. Fine(w, d, n) /\ (~Free(w, d) => Client(w, d).page \in 1 .. n)
        BY ClientOf
      <4>3. CASE Free(w, d)
        BY <4>1, <4>2, <4>3 DEF Fine, EmptyIfFree, HasItsPage, WasAsked, NothingSaid, ShownIfOpen, Free
      <4>4. CASE ~Free(w, d)
        <5>1. Client(w, d).page # p
          BY <2>2, <4>4
        <5>2. Page(u, d) = Page(w, d)
          BY <3>6, <3>7, <4>1, <4>2, <4>4, <5>1 DEF Page
        <5>3. Seen(u, d) = Seen(w, d) /\ u.server.machine = w.server.machine
          BY <3>6, <3>7, <4>1, <5>2 DEF Seen, SameMachine
        <5> QED BY <4>1, <4>2, <5>1, <5>2, <5>3 DEF Fine, EmptyIfFree, HasItsPage, WasAsked, NothingSaid, ShownIfOpen, InStep
      <4> QED BY <4>1, <4>3, <4>4
    <3>11. Apart(w) /\ Unmet(w, n)
      BY DEF WebWorld
    <3>12. Apart(u)
      <4>1. ASSUME NEW d \in Places, d # c, ~Free(u, d) PROVE Client(u, d).page # Client(u, c).page
        BY <3>5, <3>7, <3>10, <4>1
      <4>2. ASSUME NEW d \in Places, NEW e \in Places, d # e, d # c, e # c, ~Free(u, d), ~Free(u, e)
            PROVE  Client(u, d).page # Client(u, e).page
        BY <3>10, <3>11, <4>2 DEF Apart
      <4> QED BY <4>1, <4>2 DEF Apart
    <3>13. Unmet(u, n)
      BY <1>5, <3>6, <3>7, <3>11 DEF Unmet
    <3> QED BY <3>4, <3>7, <3>9, <3>10, <3>12, <3>13 DEF WebWorld
  <2> QED BY <2>3, <2>4
<1> QED BY <1>6, <1>7

LEMMA AcceptTurnsStay ==
  ASSUME NEW n \in Nat, NEW w \in WebWorld(n)
  PROVE  AcceptTurns(w)[Len(w.pages)] \in WebWorld(n)
<1> DEFINE m == Len(w.pages)
           start == w
           S == WebWorld(n)
           Op(v, k) == Accept(v, k)
           step == [k \in 1 .. m |-> [v \in S |-> Op(v, k)]]
           T == AcceptTurns(w)
<1>0. Len(w.pages) = n
  <2> DEFINE ps == w.pages
  <2>1. ps \in [1 .. n -> PageType]
    BY WorldIs DEF WebWorld
  <2> HIDE DEF ps
  <2>2. ps \in Seq(PageType)
    BY <2>1
  <2>3. DOMAIN ps = 1 .. Len(ps) /\ DOMAIN ps = 1 .. n /\ Len(ps) \in Nat
    BY <2>1, <2>2
  <2> DEFINE k == Len(ps)
  <2>4. k \in Nat /\ 1 .. k = 1 .. n
    BY <2>3
  <2> HIDE DEF k
  <2>5. ~(k > n)
    <3> SUFFICES ASSUME k > n PROVE FALSE
      OBVIOUS
    <3>1. k \in 1 .. k /\ k \notin 1 .. n
      BY <2>4
    <3> QED BY <2>4, <3>1
  <2>6. ~(n > k)
    <3> SUFFICES ASSUME n > k PROVE FALSE
      OBVIOUS
    <3>1. n \in 1 .. n /\ n \notin 1 .. k
      BY <2>4
    <3> QED BY <2>4, <3>1
  <2> QED BY <2>4, <2>5, <2>6 DEF ps, k
<1>1. m \in Nat
  BY <1>0
<1>2. start \in S
  OBVIOUS
<1>3. ASSUME NEW v \in S, NEW k \in 1 .. m PROVE Op(v, k) \in S
  <2>1. k \in 1 .. n
    BY <1>0 DEF m
  <2> QED BY <2>1, AcceptKeeps
<1> HIDE DEF m, start, S, Op
<1>4. step \in StepsOn(S, m)
  BY <1>3 DEF StepsOn
<1>5. PICK f : IsTaken(f, S, start, step, m)
  <2> HIDE DEF step
  <2> QED BY <1>1, <1>2, <1>4, StepsAreTaken
<1>6. f \in [0 .. m -> S] /\ f[0] = start /\ \A k \in 1 .. m : f[k] = step[k][f[k - 1]]
  <2> HIDE DEF step
  <2> QED BY <1>5 DEF IsTaken
<1>7. \A k \in 1 .. m : f[k] = Op(f[k - 1], k)
  <2> TAKE k \in 1 .. m
  <2>1. f[k - 1] \in S /\ f[k] = step[k][f[k - 1]]
    BY <1>1, <1>6
  <2>2. step[k] = [v \in S |-> Op(v, k)]
    OBVIOUS
  <2> HIDE DEF step
  <2> QED BY <2>1, <2>2
<1> HIDE DEF step
<1>8. f = [k \in 0 .. m |-> IF k = 0 THEN start ELSE Op(f[k - 1], k)]
  BY <1>1, <1>6, <1>7
<1>9. T = [k \in 0 .. m |-> IF k = 0 THEN start ELSE Op(T[k - 1], k)]
  BY <1>1, <1>8 DEF AcceptTurns, Turns, Op, start, m
<1> HIDE DEF T
<1>10. T[0] = start /\ \A k \in 1 .. m : T[k] = Op(T[k - 1], k)
  BY <1>1, <1>9
<1>11. T[m] \in S
  <2> DEFINE Stay == {k \in 0 .. m : T[k] \in S}
  <2>1. 0 \in Stay /\ \A k \in 1 .. m : k - 1 \in Stay => k \in Stay
    BY <1>1, <1>2, <1>3, <1>10
  <2> HIDE DEF Stay
  <2>2. m \in Stay
    BY <1>1, <2>1, EachTurn
  <2> QED BY <2>2 DEF Stay
<1> QED BY <1>11 DEF S, T, m

LEMMA ReturnEventStays ==
  ASSUME NEW n \in Nat, NEW w \in WebWorld(n)
  PROVE  ReturnEvent(w) \in WebWorld(n)
<1> DEFINE events == w.server.events
           nothing == <<>>
           first == Head(events)
           rest == Tail(events)
           none == [w EXCEPT !.server.event = nothing]
           one == [w EXCEPT !.server.event = first, !.server.events = rest]
<1>1. w \in [server : ServerType, pages : [1 .. n -> PageType]]
  BY MachineFields DEF WebWorld
<1>2. w.server \in [machine : {"michael", "wendy2c"}, memory : PictureType, clients : [Places -> ClientType], events : Seq(EventType),
                    audio : Nat, event : EventType \cup {<<>>}, broken : BOOLEAN]
  BY MachineFields DEF WebWorld
<1>3. ReturnEvent(w) \in {w, none} \/ (ReturnEvent(w) = one /\ events # <<>>)
  <2>1. [w EXCEPT !.server.event = Head(w.server.events), !.server.events = Tail(@)] = one
    BY <1>1, <1>2
  <2> QED BY <2>1 DEF ReturnEvent
<1>4. none \in WebWorld(n)
  <2>1. nothing \in EventType \cup {<<>>}
    OBVIOUS
  <2> HIDE DEF nothing
  <2>2. none.pages = w.pages /\ none.server.clients = w.server.clients /\ none.server.machine = w.server.machine
    BY <1>1, <1>2
  <2>3. none.server \in ServerType
    BY <1>1, <1>2, <2>1 DEF ServerType
  <2>4. none \in WorldType(n)
    BY <1>1, <2>3 DEF WorldType
  <2> HIDE DEF none
  <2> QED BY <2>2, <2>4, SameClients
<1>5. ASSUME events # <<>> PROVE one \in WebWorld(n)
  <2>1. first \in EventType /\ rest \in Seq(EventType)
    <3>1. events \in Seq(EventType)
      BY <1>2
    <3> HIDE DEF events
    <3> QED BY <1>5, <3>1
  <2> HIDE DEF first, rest
  <2>2. one.pages = w.pages /\ one.server.clients = w.server.clients /\ one.server.machine = w.server.machine
    BY <1>1, <1>2
  <2>3. one.server \in ServerType
    BY <1>1, <1>2, <2>1 DEF ServerType
  <2>4. one \in WorldType(n)
    BY <1>1, <2>3 DEF WorldType
  <2> HIDE DEF one
  <2> QED BY <2>2, <2>4, SameClients
<1> QED BY <1>3, <1>4, <1>5

LEMMA PollStays ==
  ASSUME NEW n \in Nat, NEW w \in WebWorld(n)
  PROVE  WebServerPoll(w) \in WebWorld(n)
<1> DEFINE met == AcceptTurns(w)[Len(w.pages)]
           read == ReadTurns(met)[WEB_MAX_CLIENTS]
           sent == FlushClients(read)
<1>1. met \in WebWorld(n)
  BY AcceptTurnsStay
<1> HIDE DEF met
<1>2. read \in WebWorld(n)
  BY <1>1, ReadTurnsKeep DEF Keeps
<1> HIDE DEF read
<1>3. sent \in WebWorld(n)
  BY <1>2, FlushTurnsKeep DEF FlushClients, Keeps
<1> HIDE DEF sent
<1>4. ReturnEvent(sent) \in WebWorld(n)
  BY <1>3, ReturnEventStays
<1> QED BY <1>4 DEF WebServerPoll, met, read, sent


----
\* The process

HostType(n) ==
  [pages : [1 .. n -> PageType], at : {"batch", "poll", "show"}, skipped : Nat, setup : {s \in SetupType : Len(s.scripts) = n}]
Good(h, server, n) == n \in Nat /\ h \in HostType(n) /\ [server |-> server, pages |-> h.pages] \in WebWorld(n)
WebIInv == machine = "web" => Good(host, chips, Len(host.setup.scripts))

LEMMA SetupIs ==
  ASSUME NEW s \in SetupType, NEW l \in DisplayLines
  PROVE  /\ Len(s.scripts) \in Nat /\ s.skips \in Nat /\ s.columns \subseteq DisplayColumns
         /\ [s EXCEPT !.draws[l] = Less(@)] \in SetupType /\ [s EXCEPT !.draws[l] = Less(@)].scripts = s.scripts
         /\ [s EXCEPT !.sounds = Less(@)] \in SetupType /\ [s EXCEPT !.sounds = Less(@)].scripts = s.scripts
         /\ [s EXCEPT !.shows = Less(@)] \in SetupType /\ [s EXCEPT !.shows = Less(@)].scripts = s.scripts
<1>1. s \in [machine : {"michael", "wendy2c"}, scripts : Seq(Seq([name : STRING, parts : Nat \ {0}])), columns : SUBSET DisplayColumns,
             draws : [DisplayLines -> Int], sounds : Int, shows : Int, skips : Nat]
  BY DEF SetupType
<1>2. Len(s.scripts) \in Nat /\ s.skips \in Nat /\ s.columns \subseteq DisplayColumns
  BY <1>1
<1>3. \A k \in Int : Less(k) \in Int
  BY DEF Less
<1>4. [s EXCEPT !.sounds = Less(@)] \in SetupType /\ [s EXCEPT !.sounds = Less(@)].scripts = s.scripts
  BY <1>1, <1>3 DEF SetupType
<1>5. [s EXCEPT !.shows = Less(@)] \in SetupType /\ [s EXCEPT !.shows = Less(@)].scripts = s.scripts
  BY <1>1, <1>3 DEF SetupType
<1>6. [s EXCEPT !.draws[l] = Less(@)] \in SetupType /\ [s EXCEPT !.draws[l] = Less(@)].scripts = s.scripts
  <2> DEFINE draws == [s.draws EXCEPT ![l] = Less(@)]
             t == [s EXCEPT !.draws = draws]
  <2>1. draws \in [DisplayLines -> Int]
    BY <1>1, <1>3
  <2>2. [s EXCEPT !.draws[l] = Less(@)] = t
    BY <1>1
  <2> HIDE DEF draws
  <2>3. t \in SetupType /\ t.scripts = s.scripts
    BY <1>1, <2>1 DEF SetupType
  <2> HIDE DEF t
  <2> QED BY <2>2, <2>3
<1> QED BY <1>2, <1>4, <1>5, <1>6

\* The server and its pages after a step, where the loop and the setup go on.
LEMMA GoodStep ==
  ASSUME NEW n \in Nat, NEW h \in HostType(n), NEW w \in WebWorld(n), NEW at \in {"batch", "poll", "show"}, NEW skipped \in Nat,
         NEW setup \in SetupType, Len(setup.scripts) = n,
         NEW next, next = [h EXCEPT !.pages = w.pages, !.at = at, !.skipped = skipped, !.setup = setup]
  PROVE  Good(next, w.server, n)
<1>1. w \in [server : ServerType, pages : [1 .. n -> PageType]]
  BY MachineFields DEF WebWorld
<1>2. h \in [pages : [1 .. n -> PageType], at : {"batch", "poll", "show"}, skipped : Nat, setup : {s \in SetupType : Len(s.scripts) = n}]
  BY DEF HostType
<1>3. next \in HostType(n)
  BY <1>1, <1>2 DEF HostType
<1>4. next.pages = w.pages
  BY <1>2
<1>5. [server |-> w.server, pages |-> next.pages] = w
  BY <1>1, <1>4
<1> QED BY <1>3, <1>5 DEF Good

\* A page's step.
LEMMA PageStep ==
  ASSUME NEW n \in Nat, NEW h \in HostType(n), NEW server, NEW p \in 1 .. n, NEW y \in PageType, NEW w,
         w = [server |-> server, pages |-> h.pages], w \in WebWorld(n),
         \A c \in Places : ~Free(w, c) /\ Client(w, c).page = p => Fine(SetPage(w, p, y), c, n),
         y.at \in {"away", "connects"} => y.toPage = <<>> /\ IsQuiet(y) /\ ~y.closed,
         NEW next, next = [h EXCEPT !.pages[p] = y]
  PROVE  Good(next, server, n)
<1> DEFINE u == SetPage(w, p, y)
<1>1. w \in WorldType(n) /\ w \in [server : ServerType, pages : [1 .. n -> PageType]]
  BY MachineFields DEF WebWorld
<1>2. h \in [pages : [1 .. n -> PageType], at : {"batch", "poll", "show"}, skipped : Nat, setup : {s \in SetupType : Len(s.scripts) = n}]
  BY DEF HostType
<1>3. u = [server |-> server, pages |-> next.pages]
  <2> DEFINE pages == [h.pages EXCEPT ![p] = y]
  <2>1. next.pages = pages
    BY <1>2
  <2>2. w.pages = h.pages /\ w.server = server
    OBVIOUS
  <2>3. u = [w EXCEPT !.pages = pages]
    BY <1>1, <2>2 DEF SetPage
  <2> HIDE DEF pages, u
  <2>4. u = [server |-> w.server, pages |-> pages]
    BY <1>1, <2>3
  <2> QED BY <2>1, <2>2, <2>4
<1>4. next \in HostType(n)
  <2> DEFINE pages == [h.pages EXCEPT ![p] = y]
  <2>1. pages \in [1 .. n -> PageType]
    BY <1>2
  <2>2. next = [h EXCEPT !.pages = pages]
    BY <1>2
  <2> HIDE DEF pages
  <2> QED BY <1>2, <2>1, <2>2 DEF HostType
<1>5. u \in WorldType(n) /\ u.server = w.server /\ u.pages[p] = y /\ \A q \in 1 .. n : q # p => u.pages[q] = w.pages[q]
  BY <1>1, SetPageIs
<1>6. \A c \in Places : ~Free(w, c) /\ Client(w, c).page = p => Fine(u, c, n)
  OBVIOUS
<1> HIDE DEF u
<1>7. u \in WebWorld(n)
  BY <1>5, <1>6, PageChanges
<1> QED BY <1>3, <1>4, <1>7 DEF Good


LEMMA GoodIs ==
  ASSUME NEW n, Good(host, chips, n)
  PROVE  /\ n \in Nat /\ host \in HostType(n) /\ WebHere \in WebWorld(n) /\ WebHere.server = chips /\ WebHere.pages = host.pages
         /\ host \in [pages : [1 .. n -> PageType], at : {"batch", "poll", "show"}, skipped : Nat,
                      setup : {s \in SetupType : Len(s.scripts) = n}]
         /\ host.skipped \in Nat /\ host.setup \in SetupType /\ Len(host.setup.scripts) = n
         /\ chips \in [machine : {"michael", "wendy2c"}, memory : PictureType, clients : [Places -> ClientType], events : Seq(EventType),
                       audio : Nat, event : EventType \cup {<<>>}, broken : BOOLEAN]
<1>1. n \in Nat /\ host \in HostType(n) /\ WebHere \in WebWorld(n) /\ WebHere.server = chips /\ WebHere.pages = host.pages
  BY DEF Good, WebHere
<1>2. host \in [pages : [1 .. n -> PageType], at : {"batch", "poll", "show"}, skipped : Nat, setup : {s \in SetupType : Len(s.scripts) = n}]
  BY <1>1 DEF HostType
<1>3. WebHere \in WorldType(n)
  BY <1>1 DEF WebWorld
<1> QED BY <1>1, <1>2, <1>3, MachineFields

\* A host whose loop goes on, with what it does not touch.
LEMMA HostStays ==
  ASSUME NEW n \in Nat, NEW h \in HostType(n), NEW pages, NEW at, NEW skipped, NEW setup
  PROVE  LET next == [h EXCEPT !.pages = pages, !.at = at, !.skipped = skipped, !.setup = setup]
         IN /\ (skipped = h.skipped /\ setup = h.setup => [h EXCEPT !.pages = pages, !.at = at] = next)
            /\ (pages = h.pages /\ skipped = h.skipped => [h EXCEPT !.at = at, !.setup = setup] = next)
            /\ (pages = h.pages /\ skipped = h.skipped /\ setup = h.setup => [h EXCEPT !.at = at] = next)
            /\ (pages = h.pages /\ setup = h.setup => [h EXCEPT !.at = at, !.skipped = skipped] = next)
<1>1. h \in [pages : [1 .. n -> PageType], at : {"batch", "poll", "show"}, skipped : Nat, setup : {s \in SetupType : Len(s.scripts) = n}]
  BY DEF HostType
<1> QED BY <1>1

LEMMA PollsKeepIt ==
  ASSUME NEW n, Good(host, chips, n), WebPolls
  PROVE  Good(host', chips', n)
<1> DEFINE w == WebServerPoll(WebHere)
<1>1. /\ n \in Nat /\ host \in HostType(n) /\ WebHere \in WebWorld(n)
      /\ host.skipped \in Nat /\ host.setup \in SetupType /\ Len(host.setup.scripts) = n
  BY GoodIs
<1>2. chips' = w.server /\ host' = [host EXCEPT !.pages = w.pages, !.at = "show"]
  BY DEF WebPolls, WebNow
<1>3. w \in WebWorld(n)
  BY <1>1, PollStays
<1> HIDE DEF w
<1>4. host' = [host EXCEPT !.pages = w.pages, !.at = "show", !.skipped = host.skipped, !.setup = host.setup]
  BY <1>1, <1>2, HostStays
<1>5. Good(host', w.server, n)
  BY <1>1, <1>3, <1>4, GoodStep
<1> QED BY <1>2, <1>5

LEMMA ShowsKeepsIt ==
  ASSUME NEW n, Good(host, chips, n), WebShows
  PROVE  Good(host', chips', n)
<1> DEFINE u == WebServerBroadcast(WebHere)
           w == WebServerFlushAudio(u)
           setup == [host.setup EXCEPT !.shows = Less(@)]
           zero == 0
<1>1. /\ n \in Nat /\ host \in HostType(n) /\ WebHere \in WebWorld(n)
      /\ host.skipped \in Nat /\ host.setup \in SetupType /\ Len(host.setup.scripts) = n
      /\ host \in [pages : [1 .. n -> PageType], at : {"batch", "poll", "show"}, skipped : Nat,
                   setup : {s \in SetupType : Len(s.scripts) = n}]
  BY GoodIs
<1>2. chips' = w.server /\ host' = [host EXCEPT !.pages = w.pages, !.at = "batch", !.skipped = 0, !.setup.shows = Less(@)]
  BY DEF WebShows
<1>3. u \in WebWorld(n)
  BY <1>1, BroadcastKeeps DEF Keeps
<1> HIDE DEF u
<1>4. w \in WebWorld(n)
  BY <1>1, <1>3, FlushAudioStays
<1> HIDE DEF w
<1>5. host' = [host EXCEPT !.pages = w.pages, !.at = "batch", !.skipped = zero, !.setup = setup]
  BY <1>1, <1>2
<1>6. setup \in SetupType /\ setup.scripts = host.setup.scripts
  <2>1. 0 \in DisplayLines
    BY DisplayAssumption DEF DisplayLines
  <2> QED BY <1>1, <2>1, SetupIs
<1>7. zero \in Nat
  OBVIOUS
<1> HIDE DEF setup, zero
<1>8. Len(setup.scripts) = n
  BY <1>1, <1>6
<1>9. Good(host', w.server, n)
  BY <1>1, <1>4, <1>5, <1>6, <1>7, <1>8, GoodStep
<1> QED BY <1>2, <1>9

LEMMA RestsKeepIt ==
  ASSUME NEW n, Good(host, chips, n), WebRests \/ WebTooSoon
  PROVE  Good(host', chips', n)
<1> DEFINE w == WebHere
           skipped == Least(host.skipped + 1, host.setup.skips)
<1>1. /\ n \in Nat /\ host \in HostType(n) /\ w \in WebWorld(n) /\ w.server = chips /\ w.pages = host.pages
      /\ host.skipped \in Nat /\ host.setup \in SetupType /\ Len(host.setup.scripts) = n
      /\ host \in [pages : [1 .. n -> PageType], at : {"batch", "poll", "show"}, skipped : Nat,
                   setup : {s \in SetupType : Len(s.scripts) = n}]
  BY GoodIs
<1>2. chips' = chips
  BY DEF WebRests, WebTooSoon
<1> HIDE DEF w
<1>3. CASE WebRests
  <2>1. host' = [host EXCEPT !.at = "poll"]
    BY <1>3 DEF WebRests
  <2>2. host' = [host EXCEPT !.pages = w.pages, !.at = "poll", !.skipped = host.skipped, !.setup = host.setup]
    BY <1>1, <2>1, HostStays
  <2>3. Good(host', w.server, n)
    BY <1>1, <2>2, GoodStep
  <2> QED BY <1>1, <1>2, <2>3
<1>4. CASE WebTooSoon
  <2>1. host' = [host EXCEPT !.at = "batch", !.skipped = skipped]
    <3>1. host' = [host EXCEPT !.at = "batch", !.skipped = Least(@ + 1, host.setup.skips)]
      BY <1>4 DEF WebTooSoon
    <3> QED BY <1>1, <3>1
  <2>2. skipped \in Nat
    <3>1. 0 \in DisplayLines
      BY DisplayAssumption DEF DisplayLines
    <3>2. host.setup.skips \in Nat
      BY <1>1, <3>1, SetupIs
    <3> QED BY <1>1, <3>2 DEF Least
  <2> HIDE DEF skipped
  <2>3. host' = [host EXCEPT !.pages = w.pages, !.at = "batch", !.skipped = skipped, !.setup = host.setup]
    BY <1>1, <2>1, HostStays
  <2>4. Good(host', w.server, n)
    BY <1>1, <2>2, <2>3, GoodStep
  <2> QED BY <1>1, <1>2, <2>4
<1> QED BY <1>3, <1>4


LEMMA DrawsKeepIt ==
  ASSUME NEW n, Good(host, chips, n), WebDraws
  PROVE  Good(host', chips', n)
<1> DEFINE w == WebHere
<1>1. /\ n \in Nat /\ host \in HostType(n) /\ w \in WebWorld(n) /\ w.server = chips /\ w.pages = host.pages
      /\ host.skipped \in Nat /\ host.setup \in SetupType /\ Len(host.setup.scripts) = n
      /\ host \in [pages : [1 .. n -> PageType], at : {"batch", "poll", "show"}, skipped : Nat,
                   setup : {s \in SetupType : Len(s.scripts) = n}]
      /\ chips \in [machine : {"michael", "wendy2c"}, memory : PictureType, clients : [Places -> ClientType], events : Seq(EventType),
                    audio : Nat, event : EventType \cup {<<>>}, broken : BOOLEAN]
  BY GoodIs
<1>2. PICK l \in DisplayLines, x \in host.setup.columns, v \in WebColours :
         /\ chips' = [chips EXCEPT !.memory[l][x] = v]
         /\ host' = [host EXCEPT !.at = "poll", !.setup.draws[l] = Less(@)]
  BY DEF WebDraws
<1>3. x \in DisplayColumns /\ v \in Pixel
  BY <1>1, <1>2, SetupIs, WebAssumption
<1> HIDE DEF w
<1> DEFINE memory == [chips.memory EXCEPT ![l] = [chips.memory[l] EXCEPT ![x] = v]]
           setup == [host.setup EXCEPT !.draws[l] = Less(@)]
           server == [chips EXCEPT !.memory = memory]
           u == [server |-> server, pages |-> host.pages]
<1>4. memory \in PictureType
  <2>1. chips.memory \in [DisplayLines -> [DisplayColumns -> Pixel]]
    BY <1>1 DEF PictureType
  <2>2. chips.memory[l] \in [DisplayColumns -> Pixel]
    BY <1>2, <2>1
  <2> DEFINE row == [chips.memory[l] EXCEPT ![x] = v]
  <2>3. row \in [DisplayColumns -> Pixel]
    BY <1>3, <2>2
  <2> HIDE DEF row
  <2>4. [chips.memory EXCEPT ![l] = row] \in [DisplayLines -> [DisplayColumns -> Pixel]]
    BY <2>1, <2>3
  <2> QED BY <2>4 DEF PictureType, row
<1>5. chips' = server
  <2>1. chips.memory \in [DisplayLines -> [DisplayColumns -> Pixel]]
    BY <1>1 DEF PictureType
  <2> QED BY <1>1, <1>2, <2>1
<1>6. setup \in SetupType /\ setup.scripts = host.setup.scripts
  BY <1>1, <1>2, SetupIs
<1>7. host' = [host EXCEPT !.at = "poll", !.setup = setup]
  BY <1>1, <1>2
<1> HIDE DEF memory, setup
<1>8. server \in ServerType /\ server.clients = chips.clients /\ server.machine = chips.machine
  BY <1>1, <1>4 DEF ServerType
<1>9. u \in WorldType(n) /\ u.pages = w.pages /\ u.server = server
  BY <1>1, <1>8 DEF WorldType
<1> HIDE DEF server, u
<1>10. u \in WebWorld(n)
  <2>1. u.server.clients = w.server.clients /\ u.server.machine = w.server.machine
    BY <1>1, <1>8, <1>9
  <2> QED BY <1>1, <1>9, <2>1, SameClients
<1>11. host' = [host EXCEPT !.pages = u.pages, !.at = "poll", !.skipped = host.skipped, !.setup = setup]
  BY <1>1, <1>7, <1>9, HostStays
<1>12. Len(setup.scripts) = n
  BY <1>1, <1>6
<1>13. Good(host', u.server, n)
  BY <1>1, <1>6, <1>10, <1>11, <1>12, GoodStep
<1> QED BY <1>5, <1>9, <1>13

LEMMA SoundsKeepIt ==
  ASSUME NEW n, Good(host, chips, n), WebSounds
  PROVE  Good(host', chips', n)
<1> DEFINE w == WebHere
           a == Least(chips.audio + 1, AUDIO_RING_CAPACITY - 1)
           setup == [host.setup EXCEPT !.sounds = Less(@)]
           u == [w EXCEPT !.server.audio = a]
<1>1. /\ n \in Nat /\ host \in HostType(n) /\ w \in WebWorld(n) /\ w.server = chips /\ w.pages = host.pages
      /\ host.skipped \in Nat /\ host.setup \in SetupType /\ Len(host.setup.scripts) = n
      /\ host \in [pages : [1 .. n -> PageType], at : {"batch", "poll", "show"}, skipped : Nat,
                   setup : {s \in SetupType : Len(s.scripts) = n}]
      /\ chips \in [machine : {"michael", "wendy2c"}, memory : PictureType, clients : [Places -> ClientType], events : Seq(EventType),
                    audio : Nat, event : EventType \cup {<<>>}, broken : BOOLEAN]
  BY GoodIs
<1>2. w \in [server : ServerType, pages : [1 .. n -> PageType]]
  BY <1>1, MachineFields DEF WebWorld
<1> HIDE DEF w
<1>3. chips' = [chips EXCEPT !.audio = a] /\ host' = [host EXCEPT !.at = "poll", !.setup = setup]
  <2>1. chips' = [chips EXCEPT !.audio = Least(@ + 1, AUDIO_RING_CAPACITY - 1)] /\ host' = [host EXCEPT !.at = "poll", !.setup.sounds = Less(@)]
    BY DEF WebSounds
  <2> QED BY <1>1, <2>1
<1>4. a \in Nat
  <2>1. AUDIO_RING_CAPACITY \in Nat \ {0}
    BY WebAssumption
  <2> QED BY <1>1, <2>1 DEF Least
<1> HIDE DEF a
<1>5. setup \in SetupType /\ setup.scripts = host.setup.scripts
  <2>1. 0 \in DisplayLines
    BY DisplayAssumption DEF DisplayLines
  <2> QED BY <1>1, <2>1, SetupIs
<1> HIDE DEF setup
<1>6. u \in WebWorld(n)
  BY <1>1, <1>4, SetAudio
<1>7. u.server = [chips EXCEPT !.audio = a] /\ u.pages = host.pages
  BY <1>1, <1>2
<1> HIDE DEF u
<1>8. host' = [host EXCEPT !.pages = u.pages, !.at = "poll", !.skipped = host.skipped, !.setup = setup]
  BY <1>1, <1>3, <1>7, HostStays
<1>9. Len(setup.scripts) = n
  BY <1>1, <1>5
<1>10. Good(host', u.server, n)
  BY <1>1, <1>5, <1>6, <1>8, <1>9, GoodStep
<1> QED BY <1>3, <1>7, <1>10


LEMMA ReadPageIs ==
  ASSUME NEW page \in PageType
  PROVE  LET y == [AfterParts(page, page.toPage) EXCEPT !.toPage = <<>>]
         IN /\ y \in PageType /\ y.toPage = <<>> /\ y.at = page.at /\ y.closed = page.closed
            /\ SameView(y, AfterParts(page, page.toPage))
<1> DEFINE read == AfterParts(page, page.toPage)
           nothing == <<>>
           y == [read EXCEPT !.toPage = nothing]
<1>1. page.toPage \in Seq(PartType)
  BY DEF PageType
<1>2. read \in PageType /\ SameRest(read, page)
  BY <1>1, AfterIs
<1> HIDE DEF read
<1>3. read \in [at : {"away", "connects", "here", "gone"}, toServer : Seq(ItemType), toPage : Seq(PartType), closed : BOOLEAN,
                script : Nat, part : Nat, picture : PictureType, need : Nat, torn : BOOLEAN]
  BY <1>2 DEF PageType
<1>4. nothing \in Seq(PartType)
  OBVIOUS
<1> HIDE DEF nothing
<1>5. y \in PageType
  BY <1>3, <1>4 DEF PageType
<1>6. y.toPage = nothing /\ y.at = page.at /\ y.closed = page.closed /\ SameView(y, read)
  BY <1>2, <1>3 DEF SameRest, SameView
<1> QED BY <1>5, <1>6 DEF read, nothing

LEMMA ReadsKeepIt ==
  ASSUME NEW n, Good(host, chips, n), NEW p \in 1 .. n, PageReads(p)
  PROVE  Good(host', chips', n)
<1> DEFINE w == WebHere
           page == host.pages[p]
           read == AfterParts(page, page.toPage)
           y == [read EXCEPT !.toPage = <<>>]
<1>1. /\ n \in Nat /\ host \in HostType(n) /\ w \in WebWorld(n) /\ w.server = chips /\ w.pages = host.pages
      /\ host \in [pages : [1 .. n -> PageType], at : {"batch", "poll", "show"}, skipped : Nat,
                   setup : {s \in SetupType : Len(s.scripts) = n}]
  BY GoodIs
<1>2. page \in PageType
  BY <1>1
<1>3. host' = [host EXCEPT !.pages[p] = y] /\ chips' = chips /\ page.at = "here" /\ page.toPage # <<>>
  <2>1. host' = [host EXCEPT !.pages[p] = [AfterParts(@, @.toPage) EXCEPT !.toPage = <<>>]]
    BY DEF PageReads
  <2>2. host' = [host EXCEPT !.pages[p] = y]
    BY <1>1, <2>1
  <2> QED BY <2>2 DEF PageReads, PageHere
<1>4. y \in PageType /\ y.toPage = <<>> /\ y.at = page.at /\ y.closed = page.closed /\ SameView(y, read)
  BY <1>2, ReadPageIs
<1>5. read \in PageType /\ page.toPage \in Seq(PartType)
  <2>1. page.toPage \in Seq(PartType)
    BY <1>2 DEF PageType
  <2> QED BY <1>2, <2>1, AfterIs
<1>6. w = [server |-> chips, pages |-> host.pages]
  BY DEF WebHere
<1>7. w \in WorldType(n) /\ \A c \in Places : Fine(w, c, n)
  BY <1>1 DEF WebWorld
<1> HIDE DEF w, y
<1> DEFINE u == SetPage(w, p, y)
<1>8. u \in WorldType(n) /\ u.server = w.server /\ u.pages[p] = y
  <2>1. y \in PageType
    BY <1>4
  <2> HIDE DEF page, read
  <2> QED BY <1>1, <1>7, <2>1, SetPageIs
<1> HIDE DEF u
<1>9. ASSUME NEW c \in Places, ~Free(w, c) /\ Client(w, c).page = p PROVE Fine(u, c, n)
  <2>1. Client(u, c) = Client(w, c) /\ Page(u, c) = y /\ Page(w, c) = page /\ (Free(u, c) <=> Free(w, c))
    BY <1>1, <1>8, <1>9 DEF Client, Page, Free
  <2>2. Fine(w, c, n)
    BY <1>7
  <2> DEFINE out == Client(w, c).out
  <2>3. out \in Seq(PartType)
    <3>1. chips.clients[c] \in ClientType
      <4>1. chips.clients \in [Places -> ClientType]
        BY GoodIs
      <4> QED BY <4>1
    <3>2. Client(w, c) \in ClientType
      BY <1>1, <3>1 DEF Client
    <3> QED BY <3>2 DEF ClientType
  <2>4. Seen(w, c) = AfterParts(read, out)
    <3>1. Seen(w, c) = AfterParts(page, page.toPage \o out)
      BY <2>1 DEF Seen
    <3> HIDE DEF out, page
    <3>2. AfterParts(page, page.toPage \o out) = AfterParts(AfterParts(page, page.toPage), out)
      BY <1>2, <1>5, <2>3, AfterJoined
    <3> QED BY <3>1, <3>2
  <2>5. Seen(u, c) = AfterParts(y, out)
    <3>1. Seen(u, c) = AfterParts(y, y.toPage \o out)
      BY <2>1 DEF Seen
    <3> HIDE DEF out
    <3>2. <<>> \o out = out
      BY <2>3
    <3> QED BY <1>4, <3>1, <3>2
  <2> HIDE DEF out, page, read
  <2>6. SameView(Seen(u, c), Seen(w, c))
    <3>1. SameView(AfterParts(y, out), AfterParts(read, out))
      BY <1>4, <1>5, <2>3, AfterIs
    <3> QED BY <2>4, <2>5, <3>1
  <2>7. InStep(w, c) => InStep(u, c)
    BY <2>1, <2>6 DEF InStep, IsQuiet, SameView
  <2>8. HasItsPage(u, c, n)
    <3>1. SOCKET_ROOM \in Nat
      BY WebAssumption
    <3>2. Len(y.toPage) <= SOCKET_ROOM
      BY <1>4, <3>1
    <3> QED BY <1>4, <2>1, <2>2, <3>2 DEF Fine, HasItsPage
  <2>9. NothingSaid(u, c)
    BY <1>3, <2>1, <2>2 DEF Fine, NothingSaid
  <2> QED BY <1>8, <2>1, <2>2, <2>7, <2>8, <2>9 DEF Fine, EmptyIfFree, WasAsked, ShownIfOpen
<1> HIDE DEF page, read
<1>10. \A c \in Places : ~Free(w, c) /\ Client(w, c).page = p => Fine(SetPage(w, p, y), c, n)
  BY <1>9 DEF u
<1>11. ~(y.at \in {"away", "connects"})
  BY <1>3, <1>4
<1>12. Good(host', chips, n)
  BY <1>1, <1>3, <1>4, <1>6, <1>10, <1>11, PageStep
<1> QED BY <1>3, <1>12

\* What a page does that the server cannot see yet.
LEMMA UnseenKeepsIt ==
  ASSUME NEW n, Good(host, chips, n), NEW p \in 1 .. n, NEW y \in PageType,
         host' = [host EXCEPT !.pages[p] = y], chips' = chips, y.at \in {"here", "gone"},
         SameView(host.pages[p], y), y.toPage = host.pages[p].toPage, y.closed = host.pages[p].closed
  PROVE  Good(host', chips', n)
<1> DEFINE w == WebHere
<1>1. /\ n \in Nat /\ host \in HostType(n) /\ w \in WebWorld(n) /\ w.server = chips /\ w.pages = host.pages
  BY GoodIs
<1>2. w = [server |-> chips, pages |-> host.pages]
  BY DEF WebHere
<1>3. w \in WorldType(n) /\ \A c \in Places : Fine(w, c, n)
  BY <1>1 DEF WebWorld
<1> HIDE DEF w
<1> DEFINE u == SetPage(w, p, y)
<1>4. u \in WorldType(n) /\ u.server = w.server /\ u.pages[p] = y
  BY <1>1, <1>3, SetPageIs
<1> HIDE DEF u
<1>5. ASSUME NEW c \in Places, ~Free(w, c) /\ Client(w, c).page = p PROVE Fine(u, c, n)
  <2>1. Client(u, c) = Client(w, c) /\ Page(u, c) = y /\ Page(w, c) = host.pages[p] /\ u.server.machine = w.server.machine
    BY <1>1, <1>4, <1>5 DEF Client, Page
  <2>2. Fine(w, c, n) /\ ~Free(w, c)
    BY <1>3, <1>5
  <2>3. SameClient(Client(w, c), Client(u, c))
    <3>1. chips.clients \in [Places -> ClientType]
      BY GoodIs
    <3>2. Client(w, c) \in ClientType
      BY <1>1, <3>1 DEF Client
    <3> QED BY <2>1, <3>2 DEF SameClient
  <2> QED BY <1>1, <1>3, <1>4, <2>1, <2>2, <2>3, PageIsFine
<1>6. \A c \in Places : ~Free(w, c) /\ Client(w, c).page = p => Fine(SetPage(w, p, y), c, n)
  BY <1>5 DEF u
<1>7. ~(y.at \in {"away", "connects"})
  OBVIOUS
<1>8. Good(host', chips, n)
  BY <1>1, <1>2, <1>6, <1>7, PageStep
<1> QED BY <1>8


LEMMA SendsKeepIt ==
  ASSUME NEW n, Good(host, chips, n), NEW p \in 1 .. n, PageSends(p)
  PROVE  Good(host', chips', n)
<1> DEFINE page == host.pages[p]
           item == host.setup.scripts[p][page.script + 1]
           last == page.part + 1 = item.parts
           sent == [name |-> item.name, last |-> last]
           script == IF last THEN page.script + 1 ELSE page.script
           part == IF last THEN 0 ELSE page.part + 1
           items == Append(page.toServer, sent)
           y == [page EXCEPT !.toServer = items, !.script = script, !.part = part]
<1>1. /\ n \in Nat /\ host.setup \in SetupType /\ Len(host.setup.scripts) = n
      /\ host \in [pages : [1 .. n -> PageType], at : {"batch", "poll", "show"}, skipped : Nat,
                   setup : {s \in SetupType : Len(s.scripts) = n}]
  BY GoodIs
<1>2. page \in PageType
  BY <1>1
<1>3. page \in [at : {"away", "connects", "here", "gone"}, toServer : Seq(ItemType), toPage : Seq(PartType), closed : BOOLEAN,
                script : Nat, part : Nat, picture : PictureType, need : Nat, torn : BOOLEAN]
  BY <1>2 DEF PageType
<1>4. chips' = chips /\ page.at = "here" /\ page.script < Len(host.setup.scripts[p])
  BY DEF PageSends, PageHere
<1>5. host' = [host EXCEPT !.pages[p] = y]
  <2> DEFINE z == [page EXCEPT !.toServer = Append(@, [name |-> item.name, last |-> last]),
                               !.script = IF last THEN @ + 1 ELSE @,
                               !.part = IF last THEN 0 ELSE @ + 1]
  <2>1. host' = [host EXCEPT !.pages[p] = z]
    BY DEF PageSends
  <2>2. z = y
    <3> HIDE DEF last, item, page
    <3> QED BY <1>3
  <2> QED BY <2>1, <2>2
<1>6. item \in [name : STRING, parts : Nat \ {0}]
  <2> DEFINE Things == [name : STRING, parts : Nat \ {0}]
             scripts == host.setup.scripts
             mine == scripts[p]
             k == page.script
  <2>1. scripts \in Seq(Seq(Things))
    BY <1>1 DEF SetupType
  <2> HIDE DEF Things, item, last, y
  <2>2. mine \in Seq(Things)
    BY <1>1, <2>1
  <2>3. k \in Nat /\ k < Len(mine)
    BY <1>3, <1>4
  <2> HIDE DEF mine, k, scripts, page
  <2>4. mine[k + 1] \in Things
    BY <2>2, <2>3
  <2> QED BY <2>4 DEF mine, k, scripts, page, Things, item
<1> HIDE DEF page, item
<1>7. sent \in ItemType /\ script \in Nat /\ part \in Nat
  <2>1. last \in BOOLEAN
    OBVIOUS
  <2>2. script \in Nat /\ part \in Nat
    BY <1>3
  <2> HIDE DEF last
  <2>3. sent \in ItemType
    BY <1>6, <2>1 DEF ItemType
  <2> QED BY <2>2, <2>3
<1> HIDE DEF last, sent, script, part
<1>8. items \in Seq(ItemType)
  BY <1>3, <1>7
<1> HIDE DEF items
<1>9. y \in PageType
  BY <1>3, <1>7, <1>8 DEF PageType
<1>10. y.at = page.at /\ SameView(page, y) /\ y.toPage = page.toPage /\ y.closed = page.closed
  BY <1>3 DEF SameView
<1> HIDE DEF y
<1>11. SameView(host.pages[p], y) /\ y.toPage = host.pages[p].toPage /\ y.closed = host.pages[p].closed /\ y.at \in {"here", "gone"}
  BY <1>4, <1>10 DEF page
<1> QED BY <1>4, <1>5, <1>9, <1>11, UnseenKeepsIt

\* A page that no client has does as it likes.
LEMMA NobodysPageKeepsIt ==
  ASSUME NEW n, Good(host, chips, n), NEW p \in 1 .. n, NEW y \in PageType,
         host' = [host EXCEPT !.pages[p] = y], chips' = chips,
         \A c \in Places : ~Free(WebHere, c) => Client(WebHere, c).page # p,
         y.at \in {"away", "connects"} => y.toPage = <<>> /\ IsQuiet(y) /\ ~y.closed
  PROVE  Good(host', chips', n)
<1> DEFINE w == WebHere
<1>1. n \in Nat /\ host \in HostType(n) /\ w \in WebWorld(n)
  BY GoodIs
<1>2. w = [server |-> chips, pages |-> host.pages]
  BY DEF WebHere
<1>3. \A c \in Places : ~Free(w, c) /\ Client(w, c).page = p => Fine(SetPage(w, p, y), c, n)
  OBVIOUS
<1> HIDE DEF w
<1>4. Good(host', chips, n)
  BY <1>1, <1>2, <1>3, PageStep
<1> QED BY <1>4

LEMMA ConnectsKeepIt ==
  ASSUME NEW n, Good(host, chips, n), NEW p \in 1 .. n, PageConnects(p)
  PROVE  Good(host', chips', n)
<1> DEFINE page == host.pages[p]
           y == [page EXCEPT !.at = "connects"]
           w == WebHere
<1>1. /\ n \in Nat /\ w \in WebWorld(n) /\ w.pages = host.pages
      /\ host \in [pages : [1 .. n -> PageType], at : {"batch", "poll", "show"}, skipped : Nat,
                   setup : {s \in SetupType : Len(s.scripts) = n}]
  BY GoodIs
<1>2. page \in PageType
  BY <1>1
<1>3. page \in [at : {"away", "connects", "here", "gone"}, toServer : Seq(ItemType), toPage : Seq(PartType), closed : BOOLEAN,
                script : Nat, part : Nat, picture : PictureType, need : Nat, torn : BOOLEAN]
  BY <1>2 DEF PageType
<1>4. chips' = chips /\ page.at = "away"
  BY DEF PageConnects
<1>5. host' = [host EXCEPT !.pages[p] = y]
  <2>1. host' = [host EXCEPT !.pages[p].at = "connects"]
    BY DEF PageConnects
  <2> QED BY <1>1, <2>1
<1> HIDE DEF w
<1>6. page.toPage = <<>> /\ IsQuiet(page) /\ ~page.closed
  <2>1. Unmet(w, n) /\ w.pages[p] = page
    BY <1>1 DEF WebWorld
  <2> HIDE DEF page
  <2> QED BY <1>4, <2>1 DEF Unmet
<1>7. \A c \in Places : ~Free(w, c) => Client(w, c).page # p
  <2>1. w.pages[p].at \notin {"here", "gone"}
    BY <1>1, <1>4
  <2> HIDE DEF page
  <2> QED BY <1>1, <2>1, UnmetIsNobodys
<1> HIDE DEF page
<1>8. y \in PageType /\ y.toPage = <<>> /\ IsQuiet(y) /\ ~y.closed
  BY <1>3, <1>6 DEF PageType, IsQuiet
<1> HIDE DEF y
<1>9. \A c \in Places : ~Free(WebHere, c) => Client(WebHere, c).page # p
  BY <1>7 DEF w
<1> QED BY <1>4, <1>5, <1>8, <1>9, NobodysPageKeepsIt

LEMMA LeavesKeepIt ==
  ASSUME NEW n, Good(host, chips, n), NEW p \in 1 .. n, PageLeaves(p)
  PROVE  Good(host', chips', n)
<1> DEFINE page == host.pages[p]
           left == [page EXCEPT !.at = "gone"]
           new == [NewPage EXCEPT !.at = "gone"]
           w == WebHere
<1>1. /\ n \in Nat /\ w \in WebWorld(n) /\ w.pages = host.pages
      /\ host \in [pages : [1 .. n -> PageType], at : {"batch", "poll", "show"}, skipped : Nat,
                   setup : {s \in SetupType : Len(s.scripts) = n}]
  BY GoodIs
<1>2. page \in PageType
  BY <1>1
<1>3. page \in [at : {"away", "connects", "here", "gone"}, toServer : Seq(ItemType), toPage : Seq(PartType), closed : BOOLEAN,
                script : Nat, part : Nat, picture : PictureType, need : Nat, torn : BOOLEAN]
  BY <1>2 DEF PageType
<1>4. NewPage \in [at : {"away", "connects", "here", "gone"}, toServer : Seq(ItemType), toPage : Seq(PartType), closed : BOOLEAN,
                   script : Nat, part : Nat, picture : PictureType, need : Nat, torn : BOOLEAN]
  BY NewPageTyped DEF PageType
<1>5. chips' = chips /\ page.at = "here"
  BY DEF PageLeaves, PageHere
<1>6. host' = [host EXCEPT !.pages[p] = IF page.closed THEN new ELSE left]
  <2>1. host' = [host EXCEPT !.pages[p] = [(IF @.closed THEN NewPage ELSE @) EXCEPT !.at = "gone"]]
    BY DEF PageLeaves
  <2> QED BY <1>1, <2>1
<1>7. CASE page.closed
  <2>1. host' = [host EXCEPT !.pages[p] = new]
    BY <1>6, <1>7
  <2> HIDE DEF w
  <2>2. ASSUME NEW c \in Places, ~Free(w, c) PROVE Client(w, c).page # p
    <3>1. Fine(w, c, n)
      BY <1>1 DEF WebWorld
    <3>2. ~Page(w, c).closed
      BY <2>2, <3>1 DEF Fine, HasItsPage
    <3> QED BY <1>1, <1>7, <3>2 DEF Page
  <2>3. \A c \in Places : ~Free(WebHere, c) => Client(WebHere, c).page # p
    BY <2>2 DEF w
  <2> HIDE DEF page, left
  <2>4. new \in PageType /\ new.at = "gone"
    BY <1>4 DEF PageType
  <2> HIDE DEF new
  <2> QED BY <1>5, <2>1, <2>3, <2>4, NobodysPageKeepsIt
<1>8. CASE ~page.closed
  <2>1. host' = [host EXCEPT !.pages[p] = left]
    BY <1>6, <1>8
  <2> HIDE DEF page, w, new
  <2>2. left \in PageType /\ left.at = "gone" /\ SameView(page, left) /\ left.toPage = page.toPage /\ left.closed = page.closed
    BY <1>3 DEF PageType, SameView
  <2> HIDE DEF left
  <2>3. left.at \in {"here", "gone"} /\ SameView(host.pages[p], left) /\ left.toPage = host.pages[p].toPage
        /\ left.closed = host.pages[p].closed
    BY <2>2 DEF page
  <2> QED BY <1>5, <2>1, <2>2, <2>3, UnseenKeepsIt
<1> QED BY <1>7, <1>8


LEMMA StartsGood ==
  ASSUME NEW setup \in WebSetups,
         NEW server, server = [machine |-> setup.machine, memory |-> ShadowForget.pixels, clients |-> [c \in Places |-> FreeClient],
                               events |-> <<>>, audio |-> 0, event |-> <<>>, broken |-> FALSE],
         NEW h, h = [pages |-> [p \in DOMAIN setup.scripts |-> NewPage], at |-> "batch", skipped |-> 0, setup |-> setup]
  PROVE  Good(h, server, Len(setup.scripts))
<1> DEFINE n == Len(setup.scripts)
           pages == [p \in DOMAIN setup.scripts |-> NewPage]
           clients == [c \in Places |-> FreeClient]
           memory == ShadowForget.pixels
           w == [server |-> server, pages |-> pages]
           nothing == <<>>
<1>1. setup \in SetupType
  BY WebAssumption
<1>2. setup.machine \in {"michael", "wendy2c"} /\ n \in Nat /\ DOMAIN setup.scripts = 1 .. n
  <2>1. setup.machine \in {"michael", "wendy2c"} /\ setup.scripts \in Seq(Seq([name : STRING, parts : Nat \ {0}]))
    BY <1>1 DEF SetupType
  <2> QED BY <2>1
<1>3. clients \in [Places -> ClientType] /\ memory \in PictureType
  <2>1. FreeClient \in ClientType
    BY NewPageTyped
  <2>2. clients \in [Places -> ClientType]
    <3> HIDE DEF memory
    <3> QED BY <2>1
  <2>3. ShadowForget \in [pixels : PictureType, known : SUBSET DisplayLines, nextLine : DisplayLines]
    BY NewPageTyped DEF ShadowType
  <2> QED BY <2>2, <2>3
<1>4. pages \in [1 .. n -> PageType] /\ \A p \in 1 .. n : pages[p] = NewPage
  BY <1>2, NewPageTyped
<1>5. h.pages = pages /\ h = [pages |-> pages, at |-> "batch", skipped |-> 0, setup |-> setup]
  OBVIOUS
<1>6. nothing \in Seq(EventType)
  OBVIOUS
<1>7. server = [machine |-> setup.machine, memory |-> memory, clients |-> clients,
                events |-> nothing, audio |-> 0, event |-> nothing, broken |-> FALSE]
  OBVIOUS
<1>8. server.clients = clients
  BY <1>7
<1>9. nothing \in EventType \cup {<<>>}
  OBVIOUS
<1>10. \A c \in Places : clients[c] = FreeClient
  OBVIOUS
<1> HIDE DEF pages, clients, memory, nothing, n
<1>11. server \in ServerType
  BY <1>2, <1>3, <1>6, <1>7, <1>9 DEF ServerType
<1>12. h \in HostType(n)
  <2>1. setup \in {s \in SetupType : Len(s.scripts) = n}
    BY <1>1 DEF n
  <2> QED BY <1>4, <1>5, <2>1 DEF HostType
<1>13. w \in WorldType(n) /\ w.pages = pages /\ w.server = server
  BY <1>4, <1>11 DEF WorldType
<1> HIDE DEF w
<1>14. ASSUME NEW c \in Places PROVE Client(w, c) = FreeClient /\ Free(w, c)
  <2>1. Client(w, c) = FreeClient
    BY <1>8, <1>10, <1>13 DEF Client
  <2> QED BY <2>1 DEF Free, FreeClient
<1>15. FreeClient.page = 0 /\ FreeClient.display = <<>> /\ FreeClient.asked = <<>> /\ FreeClient.state = "free"
  BY DEF FreeClient
<1>16. ASSUME NEW c \in Places PROVE Fine(w, c, n)
  BY <1>14, <1>15 DEF Fine, EmptyIfFree, HasItsPage, WasAsked, NothingSaid, ShownIfOpen, Free
<1>17. Apart(w)
  BY <1>14 DEF Apart
<1>18. Unmet(w, n)
  <2>1. NewPage.toPage = <<>> /\ IsQuiet(NewPage) /\ ~NewPage.closed
    BY DEF NewPage, IsQuiet
  <2> QED BY <1>4, <1>13, <2>1 DEF Unmet
<1>19. w \in WebWorld(n)
  BY <1>13, <1>16, <1>17, <1>18 DEF WebWorld
<1> QED BY <1>2, <1>5, <1>12, <1>19 DEF Good, w, n

LEMMA GoodHolds ==
  ASSUME NEW n, Good(host', chips', n)
  PROVE  Good(host', chips', Len(host'.setup.scripts))
<1>1. host' \in [pages : [1 .. n -> PageType], at : {"batch", "poll", "show"}, skipped : Nat, setup : {s \in SetupType : Len(s.scripts) = n}]
  BY DEF Good, HostType
<1>2. Len(host'.setup.scripts) = n
  BY <1>1
<1> QED BY <1>2

LEMMA InitIsGood == WebInit => WebIInv
BY DEF WebInit, WebIInv

LEMMA NextIsGood == WebIInv /\ [WebNext]_machineVars => WebIInv'
<1> SUFFICES ASSUME WebIInv, [WebNext]_machineVars, machine' = "web"
             PROVE  Good(host', chips', Len(host'.setup.scripts))
  BY DEF WebIInv
<1> DEFINE n == Len(host.setup.scripts)
<1>1. CASE WebStarts
  <2>1. PICK setup \in WebSetups :
          /\ chips' = [machine |-> setup.machine, memory |-> ShadowForget.pixels, clients |-> [c \in Places |-> FreeClient],
                       events |-> <<>>, audio |-> 0, event |-> <<>>, broken |-> FALSE]
          /\ host' = [pages |-> [p \in DOMAIN setup.scripts |-> NewPage], at |-> "batch", skipped |-> 0, setup |-> setup]
    BY <1>1 DEF WebStarts, Starts
  <2>2. Good(host', chips', Len(setup.scripts))
    BY <2>1, StartsGood
  <2> QED BY <2>2, GoodHolds
<1>2. ASSUME Good(host, chips, n), WebEmulates PROVE Good(host', chips', n)
  <2>1. CASE WebDraws
    BY <1>2, <2>1, DrawsKeepIt
  <2>2. CASE WebSounds
    BY <1>2, <2>2, SoundsKeepIt
  <2>3. CASE WebRests
    BY <1>2, <2>3, RestsKeepIt
  <2>4. CASE WebPolls
    BY <1>2, <2>4, PollsKeepIt
  <2>5. CASE WebShows
    BY <1>2, <2>5, ShowsKeepsIt
  <2>6. CASE WebTooSoon
    BY <1>2, <2>6, RestsKeepIt
  <2>7. CASE WebBreaks
    BY <2>7 DEF WebBreaks, Exits
  <2> QED BY <1>2, <2>1, <2>2, <2>3, <2>4, <2>5, <2>6, <2>7 DEF WebEmulates
<1>3. ASSUME Good(host, chips, n), WebPeople PROVE Good(host', chips', n)
  <2>1. Pages = 1 .. n
    <3>1. host.setup \in SetupType /\ Len(host.setup.scripts) = n /\ n \in Nat
      BY <1>3, GoodIs
    <3>2. host.setup.scripts \in Seq(Seq([name : STRING, parts : Nat \ {0}]))
      BY <3>1 DEF SetupType
    <3> DEFINE scripts == host.setup.scripts
    <3>3. DOMAIN scripts = 1 .. Len(scripts)
      <4> HIDE DEF scripts
      <4> QED BY <3>2 DEF scripts
    <3> QED BY <3>3 DEF Pages
  <2> HIDE DEF n
  <2>2. ASSUME NEW p \in 1 .. n, PageReads(p) PROVE Good(host', chips', n)
    BY <1>3, <2>2, ReadsKeepIt
  <2>3. ASSUME NEW p \in 1 .. n, PageConnects(p) PROVE Good(host', chips', n)
    BY <1>3, <2>3, ConnectsKeepIt
  <2>4. ASSUME NEW p \in 1 .. n, PageSends(p) PROVE Good(host', chips', n)
    BY <1>3, <2>4, SendsKeepIt
  <2>5. ASSUME NEW p \in 1 .. n, PageLeaves(p) PROVE Good(host', chips', n)
    BY <1>3, <2>5, LeavesKeepIt
  <2> QED BY <1>3, <2>1, <2>2, <2>3, <2>4, <2>5 DEF WebPeople, WebReads
<1>4. ASSUME machine = "web", WebEmulates \/ WebPeople PROVE Good(host', chips', Len(host'.setup.scripts))
  <2>1. Good(host, chips, n)
    BY <1>4 DEF WebIInv
  <2>2. Good(host', chips', n)
    BY <1>2, <1>3, <1>4, <2>1
  <2> HIDE DEF n
  <2> QED BY <2>2, GoodHolds
<1>5. WebEmulates \/ WebPeople => machine = "web"
  BY DEF WebEmulates, WebPeople, WebReads, WebDraws, WebSounds, WebRests, WebPolls, WebShows, WebTooSoon, WebBreaks, WebAt, Runs, Exits
<1>6. CASE UNCHANGED machineVars
  <2>1. machine' = machine /\ chips' = chips /\ host' = host
    BY <1>6 DEF machineVars
  <2> QED BY <2>1 DEF WebIInv
<1> QED BY <1>1, <1>4, <1>5, <1>6 DEF WebNext

LEMMA GoodShows == WebIInv => PageShowsTheShadow
<1> SUFFICES ASSUME WebIInv, machine = "web", NEW c \in Places, chips.clients[c].state = "open", chips.clients[c].display # <<>>
             PROVE  LET page == AfterParts(Page(WebHere, c), OnTheWay(c))
                        shadow == chips.clients[c].display[1]
                    IN ~page.torn /\ page.need = 0 /\ \A l \in shadow.known : page.picture[l] = shadow.pixels[l]
  BY DEF PageShowsTheShadow
<1> DEFINE n == Len(host.setup.scripts)
<1>1. Good(host, chips, n)
  BY DEF WebIInv
<1>2. WebHere \in WebWorld(n) /\ WebHere.server = chips
  BY <1>1, GoodIs
<1> HIDE DEF n
<1>3. Fine(WebHere, c, n)
  BY <1>2 DEF WebWorld
<1>4. Client(WebHere, c) = chips.clients[c]
  BY <1>2 DEF Client
<1>5. InStep(WebHere, c)
  BY <1>3, <1>4 DEF Fine
<1>6. Seen(WebHere, c) = AfterParts(Page(WebHere, c), OnTheWay(c))
  BY <1>4 DEF Seen, OnTheWay
<1> QED BY <1>4, <1>5, <1>6 DEF InStep, IsQuiet, Agrees

\* The inductive invariant holds of every process of the server modes: each slot is free and
\* empty, or has a page of its own; and an open one's page is in step with it.
THEOREM WebWorldHolds == WebSpec => []WebIInv
<1> QED BY InitIsGood, NextIsGood, PTL DEF WebSpec

\* What a page will have drawn once it has read what was sent to it is what the server
\* believes that it shows, and it never loses a frame's beginning, for any number of pages
\* that come and go, any sizes of the buffers and of the display, and any program.
THEOREM PageShowsTheShadowHolds == WebSpec => []PageShowsTheShadow
<1> QED BY WebWorldHolds, GoodShows, PTL

=============================================================================
