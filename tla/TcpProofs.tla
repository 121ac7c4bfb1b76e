----------------------------- MODULE TcpProofs ------------------------------
(***************************************************************************)
(* The connection of Tcp: its lists and counts agree, and the two sides    *)
(* together implement a stream.  Sequence numbers are taken to positions   *)
(* in the stream, a list of segments to the stretch of it that they tile.  *)
(***************************************************************************)
EXTENDS Tcp, TLAPS, SequenceTheorems, WellFoundedInduction

-----------------------------------------------------------------------------
(***************************************************************************)
(* Sequence numbers.  Those of the stream are less than half of the range  *)
(* from each other, so that they compare as their positions do.            *)
(***************************************************************************)
SeqNos == {x \in 0 .. SeqWord - 1 : Position(x) <= Total}

\* The range is more than twice the stream.
LEMMA HalfTheRange ==
    /\ SeqWord \in Nat /\ Total \in Nat /\ SeqWord \div 2 \in Nat
    /\ 2 * (SeqWord \div 2) <= SeqWord /\ SeqWord < 2 * (SeqWord \div 2) + 2
    /\ Total < SeqWord \div 2 /\ Iss \in 0 .. SeqWord - 1 /\ SeqWord \div 2 < SeqWord
    /\ MSS \in Nat \ {0}
BY TcpConstants

\* One wrap, and two.
LEMMA WrapIs ==
    ASSUME NEW a \in Nat, a < 3 * SeqWord
    PROVE  a % SeqWord = IF a < SeqWord THEN a ELSE IF a < 2 * SeqWord THEN a - SeqWord ELSE a - 2 * SeqWord
BY TcpConstants

LEMMA PositionIs ==
    ASSUME NEW x \in 0 .. SeqWord - 1
    PROVE  Position(x) \in 0 .. SeqWord - 1 /\ Position(x) = (IF x >= Iss THEN x - Iss ELSE x - Iss + SeqWord)
<1>1. x - Iss + SeqWord \in Nat /\ x - Iss + SeqWord < 3 * SeqWord BY HalfTheRange
<1>2. QED BY <1>1, WrapIs, HalfTheRange DEF Position

LEMMA AddPosition ==
    ASSUME NEW x \in 0 .. SeqWord - 1, NEW n \in Nat, Position(x) + n < SeqWord
    PROVE  SeqAdd(x, n) \in 0 .. SeqWord - 1 /\ Position(SeqAdd(x, n)) = Position(x) + n
<1>0. n < SeqWord /\ x + n \in Nat /\ x + n < 3 * SeqWord BY PositionIs, HalfTheRange
<1>1. SeqAdd(x, n) = IF x + n < SeqWord THEN x + n ELSE x + n - SeqWord
  BY <1>0, WrapIs, HalfTheRange DEF SeqAdd
<1>2. SeqAdd(x, n) \in 0 .. SeqWord - 1 BY <1>0, <1>1, HalfTheRange
<1>3. QED BY <1>0, <1>1, <1>2, PositionIs, HalfTheRange

\* What a comparison of sequence numbers says.
LEMMA ComparePositions ==
    ASSUME NEW x \in SeqNos, NEW y \in SeqNos
    PROVE  /\ SeqLT(x, y) <=> Position(x) < Position(y)
           /\ SeqLEQ(x, y) <=> Position(x) <= Position(y)
           /\ x = y <=> Position(x) = Position(y)
<1>0. x \in 0 .. SeqWord - 1 /\ y \in 0 .. SeqWord - 1 /\ Position(x) <= Total /\ Position(y) <= Total
  BY DEF SeqNos
<1>1. x - y + SeqWord \in Nat /\ x - y + SeqWord < 3 * SeqWord BY <1>0, HalfTheRange
<1>2. (x - y + SeqWord) % SeqWord = IF x >= y THEN x - y ELSE x - y + SeqWord
  BY <1>0, <1>1, WrapIs, HalfTheRange
<1>3. x = y <=> Position(x) = Position(y) BY <1>0, PositionIs, HalfTheRange
<1>4. SeqLT(x, y) <=> Position(x) < Position(y)
  <2> DEFINE d == (x - y + SeqWord) % SeqWord
             h == SeqWord \div 2
  <2>1. SeqLT(x, y) <=> d >= h BY DEF SeqLT
  <2>2. d = IF x >= y THEN x - y ELSE x - y + SeqWord BY <1>2
  <2>3. /\ Position(x) = (IF x >= Iss THEN x - Iss ELSE x - Iss + SeqWord)
        /\ Position(y) = (IF y >= Iss THEN y - Iss ELSE y - Iss + SeqWord)
    BY <1>0, PositionIs
  <2>4. /\ h \in Nat /\ SeqWord \in Nat /\ Total \in Nat /\ Iss \in 0 .. SeqWord - 1
        /\ 2 * h <= SeqWord /\ Total < h
    BY HalfTheRange
  <2> HIDE DEF d, h
  <2>5. CASE x >= y
    <3>1. d = x - y BY <2>2, <2>5
    <3>2. d >= h <=> Position(x) < Position(y) BY <1>0, <2>3, <2>4, <2>5, <3>1
    <3>3. QED BY <2>1, <3>2
  <2>6. CASE ~(x >= y)
    <3>1. d = x - y + SeqWord BY <2>2, <2>6
    <3>2. d >= h <=> Position(x) < Position(y) BY <1>0, <2>3, <2>4, <2>6, <3>1
    <3>3. QED BY <2>1, <3>2
  <2>7. QED BY <2>5, <2>6
<1>5. QED BY <1>0, <1>3, <1>4, PositionIs DEF SeqLEQ

-----------------------------------------------------------------------------
(***************************************************************************)
(* The loops that take the first of a list.                                *)
(***************************************************************************)
LEMMA LeastIn ==
    ASSUME NEW S \in SUBSET Nat, S # {}
    PROVE  \E x \in S : \A y \in S : x <= y
<1> DEFINE R == OpToRel(<, Nat)
<1>1. IsWellFoundedOn(R, Nat) BY NatLessThanWellFounded
<1>2. PICK x \in S : \A y \in S : ~(<<y, x>> \in R) BY <1>1, WFMin
<1>3. \A y \in S : ~(y < x) BY <1>2 DEF OpToRel
<1>4. QED BY <1>3

LEMMA LeadingIs ==
    ASSUME NEW len \in Nat, NEW G
    PROVE  /\ Leading(len, G) \in 0 .. len
           /\ \A i \in 1 .. Leading(len, G) : i \in G
           /\ Leading(len, G) < len => Leading(len, G) + 1 \notin G
<1> DEFINE S == {i \in 1 .. len : i \notin G}
           Good(n) == 1 .. n \subseteq G /\ (n < len => n + 1 \notin G)
<1>1. CASE S = {}
  <2>1. len \in 0 .. len /\ Good(len) BY <1>1
  <2>2. QED BY <2>1 DEF Leading
<1>2. CASE S # {}
  <2>0. S \in SUBSET Nat OBVIOUS
  <2>1. PICK x \in S : \A y \in S : x <= y BY <1>2, <2>0, LeastIn
  <2>2. x - 1 \in 0 .. len /\ Good(x - 1) BY <2>1
  <2>3. QED BY <2>2 DEF Leading
<1>3. QED BY <1>1, <1>2

LEMMA Induction ==
    ASSUME NEW N \in Nat, NEW S, 0 \in S, \A n \in 0 .. N - 1 : n \in S => n + 1 \in S
    PROVE  0 .. N \subseteq S
<1> DEFINE T == {n \in 0 .. N : n \notin S}
<1>1. SUFFICES ASSUME T # {} PROVE FALSE OBVIOUS
<1>2. T \in SUBSET Nat OBVIOUS
<1>3. PICK x \in T : \A y \in T : x <= y BY <1>1, <1>2, LeastIn
<1>4. x # 0 /\ x - 1 \in 0 .. N - 1 /\ x - 1 \notin T BY <1>3
<1>5. x - 1 \in S BY <1>4
<1>6. (x - 1) + 1 \in S BY <1>4, <1>5
<1>7. QED BY <1>3, <1>6

LEMMA Increasing ==
    ASSUME NEW N \in Nat, NEW e \in [0 .. N -> Nat], \A i \in 1 .. N : e[i - 1] < e[i]
    PROVE  \A i, j \in 0 .. N : i < j => e[i] < e[j] /\ j - i <= e[j] - e[i]
<1>1. SUFFICES ASSUME NEW i \in 0 .. N
               PROVE  \A j \in 0 .. N : i < j => e[i] < e[j] /\ j - i <= e[j] - e[i]
  OBVIOUS
<1> DEFINE S == {j \in 0 .. N : i < j => e[i] < e[j] /\ j - i <= e[j] - e[i]}
<1>2. 0 \in S OBVIOUS
<1>3. ASSUME NEW j \in 0 .. N - 1, j \in S PROVE j + 1 \in S
  <2>1. (j + 1) - 1 = j /\ j + 1 \in 1 .. N /\ j \in 0 .. N /\ j + 1 \in 0 .. N OBVIOUS
  <2>2. e[(j + 1) - 1] < e[j + 1] BY <2>1
  <2>3. e[j] < e[j + 1] /\ e[j] \in Nat /\ e[j + 1] \in Nat /\ e[i] \in Nat BY <2>1, <2>2
  <2>4. CASE i < j
    <3>1. e[i] < e[j] /\ j - i <= e[j] - e[i] BY <1>3, <2>4
    <3>2. e[i] < e[j + 1] /\ (j + 1) - i <= e[j + 1] - e[i] BY <2>1, <2>3, <3>1
    <3>3. QED BY <2>1, <3>2
  <2>5. CASE i = j BY <2>1, <2>3, <2>5
  <2>6. CASE i > j BY <2>1, <2>6
  <2>7. QED BY <2>4, <2>5, <2>6
<1> HIDE DEF S
<1>4. 0 .. N \subseteq S BY <1>2, <1>3, Induction
<1>5. QED BY <1>4 DEF S

-----------------------------------------------------------------------------
(***************************************************************************)
(* Segments: each holds a stretch of the stream, and a list holds one from *)
(* a to b without a gap.                                                   *)
(***************************************************************************)
Stretch(a, b) == [i \in 1 .. b - a |-> a + i]

Starts(g) == Position(g.seq)
EndOf(g)   == Position(g.seq) + Len(g.data)

Segments ==
    {g \in [seq : 0 .. SeqWord - 1, data : Seq(1 .. Total), bufs : Nat] :
        /\ Len(g.data) \in 1 .. MSS
        /\ EndOf(g) <= Total
        /\ g.data = Stretch(Starts(g), EndOf(g))}

Tiles(list, a, b) ==
    /\ list \in Seq(Segments)
    /\ list = <<>> => a = b
    /\ list # <<>> => Starts(list[1]) = a /\ EndOf(list[Len(list)]) = b
    /\ \A i \in 1 .. Len(list) - 1 : Starts(list[i + 1]) = EndOf(list[i])

\* What is known of a segment.
LEMMA SegmentIs ==
    ASSUME NEW g \in Segments
    PROVE  /\ g.seq \in SeqNos /\ g.data \in Seq(1 .. Total) /\ g.bufs \in Nat
           /\ Len(g.data) \in 1 .. MSS /\ Len(g.data) \in Nat
           /\ Starts(g) \in 0 .. Total /\ EndOf(g) \in 0 .. Total /\ Starts(g) < EndOf(g)
           /\ Starts(g) = Position(g.seq) /\ EndOf(g) = Starts(g) + Len(g.data)
           /\ SegEnd(g) \in SeqNos /\ Position(SegEnd(g)) = EndOf(g)
           /\ g.data = Stretch(Starts(g), EndOf(g))
<1>1. /\ g.seq \in 0 .. SeqWord - 1 /\ g.data \in Seq(1 .. Total) /\ g.bufs \in Nat
      /\ Len(g.data) \in 1 .. MSS /\ EndOf(g) <= Total /\ g.data = Stretch(Starts(g), EndOf(g))
  BY DEF Segments
<1>2. Len(g.data) \in Nat /\ Len(g.data) > 0 BY <1>1, HalfTheRange
<1>3. Position(g.seq) \in Nat BY <1>1, PositionIs
<1>4. Position(g.seq) + Len(g.data) < SeqWord BY <1>1, <1>2, <1>3, HalfTheRange DEF EndOf
<1>5. SegEnd(g) \in 0 .. SeqWord - 1 /\ Position(SegEnd(g)) = Position(g.seq) + Len(g.data)
  BY <1>1, <1>2, <1>4, AddPosition DEF SegEnd
<1>6. QED BY <1>1, <1>2, <1>3, <1>5, HalfTheRange DEF Starts, EndOf, SeqNos

\* Where a list begins and ends, it does so in the stream, and its segments are in
\* order.
LEMMA TilesAre ==
    ASSUME NEW list, NEW a \in 0 .. Total, NEW b, Tiles(list, a, b)
    PROVE  /\ list \in Seq(Segments) /\ Len(list) \in Nat
           /\ b \in 0 .. Total /\ a <= b /\ (a = b <=> list = <<>>)
           /\ \A i \in 1 .. Len(list) : list[i] \in Segments
           /\ \A i, j \in 1 .. Len(list) : i < j => EndOf(list[i]) <= Starts(list[j])
           /\ \A i \in 1 .. Len(list) : a <= Starts(list[i]) /\ EndOf(list[i]) <= b
<1> DEFINE N == Len(list)
           e == [i \in 0 .. N |-> IF i = 0 THEN a ELSE EndOf(list[i])]
<1>1. list \in Seq(Segments) /\ N \in Nat BY DEF Tiles
<1>2. \A i \in 1 .. N : list[i] \in Segments BY <1>1
<1>3. e \in [0 .. N -> Nat] BY <1>2, SegmentIs
<1>4. ASSUME NEW i \in 1 .. N PROVE Starts(list[i]) = e[i - 1] /\ e[i - 1] < e[i]
  <2>1. Starts(list[i]) < EndOf(list[i]) BY <1>2, SegmentIs
  <2>2. Starts(list[i]) = e[i - 1]
    <3>1. CASE i = 1 BY <1>1, <3>1 DEF Tiles
    <3>2. CASE i # 1
      <4>1. i - 1 \in 1 .. N - 1 BY <1>1, <3>2
      <4>2. Starts(list[(i - 1) + 1]) = EndOf(list[i - 1]) BY <4>1 DEF Tiles
      <4>3. (i - 1) + 1 = i BY <4>1
      <4>4. QED BY <1>1, <4>1, <4>2, <4>3
    <3>3. QED BY <3>1, <3>2
  <2>3. QED BY <2>1, <2>2
<1>5. e[N] = b
  <2>1. CASE N = 0 BY <1>1, <2>1 DEF Tiles
  <2>2. CASE N # 0 BY <1>1, <2>2 DEF Tiles
  <2>3. QED BY <2>1, <2>2
<1>6. e[0] = a BY <1>1
<1>7. \A i \in 1 .. N : e[i] = EndOf(list[i]) BY <1>1
<1> HIDE DEF e
<1>8. \A i, j \in 0 .. N : i < j => e[i] < e[j] BY <1>1, <1>3, <1>4, Increasing
<1>9. ASSUME NEW i \in 1 .. N, NEW j \in 1 .. N, i < j PROVE EndOf(list[i]) <= Starts(list[j])
  <2>1. i = j - 1 \/ i < j - 1 BY <1>1, <1>9
  <2>2. j - 1 \in 0 .. N BY <1>1
  <2>3. i \in 0 .. N /\ e[i] \in Nat /\ e[j - 1] \in Nat BY <1>1, <1>3, <2>2
  <2>4. i < j - 1 => e[i] < e[j - 1] BY <1>8, <2>2, <2>3
  <2>5. e[i] <= e[j - 1] BY <2>1, <2>3, <2>4
  <2>6. QED BY <1>4, <1>7, <2>5
<1>10. ASSUME NEW i \in 1 .. N PROVE a <= Starts(list[i]) /\ EndOf(list[i]) <= b
  <2>1. e[i] <= e[N] BY <1>1, <1>3, <1>8
  <2>2. i - 1 \in 0 .. N BY <1>1
  <2>3. e[0] <= e[i - 1] BY <1>1, <1>3, <1>8, <2>2
  <2>4. QED BY <1>4, <1>5, <1>6, <1>7, <2>1, <2>3
<1>11. b \in 0 .. Total /\ a <= b /\ (a = b <=> list = <<>>)
  <2>1. CASE N = 0 BY <1>1, <1>5, <1>6, <2>1
  <2>2. CASE N # 0
    <3>1. N \in 1 .. N /\ list[N] \in Segments BY <1>1, <1>2, <2>2
    <3>2. e[0] < e[N] BY <1>1, <1>8, <2>2
    <3>3. b \in 0 .. Total BY <1>5, <1>7, <3>1, SegmentIs
    <3>4. QED BY <1>5, <1>6, <2>2, <3>2, <3>3
  <2>3. QED BY <2>1, <2>2
<1>12. QED BY <1>1, <1>2, <1>9, <1>10, <1>11

\* Two lists make one, and one can be cut in two.
LEMMA TilesJoin ==
    ASSUME NEW x, NEW y, NEW a \in 0 .. Total, NEW b, NEW c, Tiles(x, a, b), Tiles(y, b, c)
    PROVE  Tiles(x \o y, a, c)
<1>1. x \in Seq(Segments) /\ y \in Seq(Segments) /\ Len(x) \in Nat /\ Len(y) \in Nat BY DEF Tiles
<1>2. x \o y \in Seq(Segments) /\ Len(x \o y) = Len(x) + Len(y) BY <1>1
<1>3. \A i \in 1 .. Len(x) + Len(y) : (x \o y)[i] = IF i <= Len(x) THEN x[i] ELSE y[i - Len(x)]
  BY <1>1
<1>4. ASSUME x \o y = <<>> PROVE a = c
  <2>1. x = <<>> /\ y = <<>> BY <1>1, <1>2, <1>4
  <2>2. QED BY <2>1 DEF Tiles
<1>5. ASSUME x \o y # <<>>
      PROVE  Starts((x \o y)[1]) = a /\ EndOf((x \o y)[Len(x \o y)]) = c
  <2>1. CASE x = <<>>
    <3>1. x \o y = y BY <1>1, <2>1
    <3>2. QED BY <1>5, <2>1, <3>1 DEF Tiles
  <2>2. CASE x # <<>> /\ y = <<>>
    <3>1. x \o y = x BY <1>1, <2>2
    <3>2. QED BY <1>5, <2>2, <3>1 DEF Tiles
  <2>3. CASE x # <<>> /\ y # <<>>
    <3>1. Len(x) >= 1 /\ Len(y) >= 1 BY <1>1, <2>3
    <3>2. (x \o y)[1] = x[1] /\ (x \o y)[Len(x \o y)] = y[Len(y)] BY <1>1, <1>2, <1>3, <3>1
    <3>3. QED BY <2>3, <3>2 DEF Tiles
  <2>4. QED BY <2>1, <2>2, <2>3
<1>6. ASSUME NEW i \in 1 .. Len(x \o y) - 1
      PROVE  Starts((x \o y)[i + 1]) = EndOf((x \o y)[i])
  <2>1. CASE i + 1 <= Len(x)
    <3>1. (x \o y)[i + 1] = x[i + 1] /\ (x \o y)[i] = x[i] BY <1>1, <1>2, <1>3, <2>1
    <3>2. i \in 1 .. Len(x) - 1 BY <1>1, <2>1
    <3>3. QED BY <3>1, <3>2 DEF Tiles
  <2>2. CASE i = Len(x)
    <3>1. (x \o y)[i + 1] = y[1] /\ (x \o y)[i] = x[Len(x)] BY <1>1, <1>2, <1>3, <2>2
    <3>2. x # <<>> /\ y # <<>> BY <1>1, <1>2, <2>2
    <3>3. QED BY <3>1, <3>2 DEF Tiles
  <2>3. CASE i > Len(x)
    <3>1. (i + 1) - Len(x) = (i - Len(x)) + 1 /\ i - Len(x) \in 1 .. Len(y) - 1 BY <1>1, <1>2, <2>3
    <3>2. (x \o y)[i + 1] = y[(i - Len(x)) + 1] /\ (x \o y)[i] = y[i - Len(x)]
      BY <1>1, <1>2, <1>3, <2>3, <3>1
    <3>3. QED BY <3>1, <3>2 DEF Tiles
  <2>4. QED BY <1>1, <1>2, <2>1, <2>2, <2>3
<1>7. QED BY <1>2, <1>4, <1>5, <1>6 DEF Tiles

LEMMA TilesPart ==
    ASSUME NEW x \in Seq(Segments), NEW y \in Seq(Segments), NEW a \in 0 .. Total, NEW c,
           Tiles(x \o y, a, c)
    PROVE  \E b \in a .. c : Tiles(x, a, b) /\ Tiles(y, b, c)
<1> DEFINE b == IF x = <<>> THEN a ELSE EndOf(x[Len(x)])
           z == x \o y
<1>1. Len(x) \in Nat /\ Len(y) \in Nat /\ Len(z) = Len(x) + Len(y) OBVIOUS
<1>2. \A i \in 1 .. Len(x) : z[i] = x[i] OBVIOUS
<1>3. \A i \in 1 .. Len(y) : z[Len(x) + i] = y[i] OBVIOUS
<1> HIDE DEF z
<1>0. Tiles(z, a, c) BY DEF z
<1>4. \A i \in 1 .. Len(z) - 1 : Starts(z[i + 1]) = EndOf(z[i]) BY <1>0 DEF Tiles
<1>5. \A i \in 1 .. Len(x) - 1 : Starts(x[i + 1]) = EndOf(x[i])
  <2>1. SUFFICES ASSUME NEW i \in 1 .. Len(x) - 1 PROVE Starts(x[i + 1]) = EndOf(x[i]) OBVIOUS
  <2>2. i \in 1 .. Len(z) - 1 /\ i \in 1 .. Len(x) /\ i + 1 \in 1 .. Len(x) BY <1>1
  <2>3. QED BY <1>2, <1>4, <2>2
<1>6. \A i \in 1 .. Len(y) - 1 : Starts(y[i + 1]) = EndOf(y[i])
  <2>1. SUFFICES ASSUME NEW i \in 1 .. Len(y) - 1 PROVE Starts(y[i + 1]) = EndOf(y[i]) OBVIOUS
  <2>2. Len(x) + i \in 1 .. Len(z) - 1 /\ i \in 1 .. Len(y) /\ i + 1 \in 1 .. Len(y) BY <1>1
  <2>3. (Len(x) + i) + 1 = Len(x) + (i + 1) BY <1>1
  <2>4. QED BY <1>3, <1>4, <2>2, <2>3
<1>7. Tiles(x, a, b)
  <2>1. CASE x = <<>> BY <1>5, <2>1 DEF Tiles
  <2>2. CASE x # <<>>
    <3>1. 1 \in 1 .. Len(x) /\ z[1] = x[1] /\ z # <<>> BY <1>1, <1>2, <2>2
    <3>2. Starts(x[1]) = a BY <1>0, <3>1 DEF Tiles
    <3>3. QED BY <1>5, <2>2, <3>2 DEF Tiles
  <2>3. QED BY <2>1, <2>2
<1>8. Tiles(y, b, c)
  <2>1. CASE y = <<>>
    <3>1. z = x BY <2>1 DEF z
    <3>2. b = c BY <1>0, <3>1 DEF Tiles
    <3>3. QED BY <1>6, <2>1, <3>2 DEF Tiles
  <2>2. CASE y # <<>>
    <3>1. Len(y) \in 1 .. Len(y) /\ 1 \in 1 .. Len(y) /\ z # <<>> BY <1>1, <2>2
    <3>2. z[Len(z)] = y[Len(y)] /\ z[Len(x) + 1] = y[1] BY <1>1, <1>3, <3>1
    <3>3. EndOf(y[Len(y)]) = c BY <1>0, <3>1, <3>2 DEF Tiles
    <3>4. Starts(y[1]) = b
      <4>1. CASE x = <<>> BY <1>0, <3>1, <3>2, <4>1 DEF Tiles
      <4>2. CASE x # <<>>
        <5>1. Len(x) \in 1 .. Len(z) - 1 /\ z[Len(x)] = x[Len(x)] BY <1>1, <1>2, <3>1, <4>2
        <5>2. QED BY <1>4, <3>2, <4>2, <5>1
      <4>3. QED BY <4>1, <4>2
    <3>5. QED BY <1>6, <2>2, <3>3, <3>4 DEF Tiles
  <2>3. QED BY <2>1, <2>2
<1>9. b \in a .. c
  <2>1. b \in 0 .. Total /\ a <= b BY <1>7, TilesAre
  <2>2. b <= c /\ c \in 0 .. Total BY <1>8, <2>1, TilesAre
  <2>3. QED BY <2>1, <2>2
<1> HIDE DEF b
<1>10. QED BY <1>7, <1>8, <1>9

\* What is left when the first n are taken.
LEMMA TilesRest ==
    ASSUME NEW list, NEW a \in 0 .. Total, NEW b, Tiles(list, a, b), NEW n \in 0 .. Len(list)
    PROVE  /\ list = SubSeq(list, 1, n) \o SubSeq(list, n + 1, Len(list))
           /\ SubSeq(list, 1, n) \in Seq(Segments) /\ SubSeq(list, n + 1, Len(list)) \in Seq(Segments)
           /\ Len(SubSeq(list, 1, n)) = n
           /\ \A i \in 1 .. n : SubSeq(list, 1, n)[i] = list[i]
           /\ n < Len(list) => SubSeq(list, n + 1, Len(list)) # <<>>
                               /\ SubSeq(list, n + 1, Len(list))[1] = list[n + 1]
           /\ n = Len(list) => SubSeq(list, n + 1, Len(list)) = <<>>
           /\ Tiles(SubSeq(list, n + 1, Len(list)), IF n = 0 THEN a ELSE EndOf(list[n]), b)
<1> DEFINE x == SubSeq(list, 1, n)
           y == SubSeq(list, n + 1, Len(list))
<1>1. list \in Seq(Segments) /\ Len(list) \in Nat /\ n \in Nat BY DEF Tiles
<1>2. /\ x \in Seq(Segments) /\ Len(x) = n /\ \A i \in 1 .. n : x[i] = list[i]
  BY <1>1
<1>3. /\ y \in Seq(Segments) /\ Len(y) = Len(list) - n
      /\ \A i \in 1 .. Len(list) - n : y[i] = list[n + i]
  BY <1>1
<1> HIDE DEF x, y
<1>4. list = x \o y
  <2>0. Len(list) \in Nat /\ n \in Nat /\ n <= Len(list) BY <1>1
  <2>4. Len(x) = n /\ Len(y) = Len(list) - n BY <1>2, <1>3
  <2>5. x \in Seq(Segments) /\ y \in Seq(Segments) BY <1>2, <1>3
  <2>6. x \o y \in Seq(Segments) /\ Len(x \o y) = Len(x) + Len(y) BY <2>5
  <2>1. x \o y \in Seq(Segments) /\ Len(x \o y) = Len(list) BY <2>0, <2>4, <2>6
  <2>2. ASSUME NEW i \in 1 .. Len(list) PROVE (x \o y)[i] = list[i]
    <3>1. CASE i <= n BY <1>1, <1>2, <1>3, <3>1
    <3>2. CASE ~(i <= n)
      <4>1. i - n \in 1 .. Len(list) - n /\ n + (i - n) = i BY <1>1, <3>2
      <4>2. y[i - n] = list[i] BY <1>3, <4>1
      <4>3. (x \o y)[i] = y[i - n] BY <1>1, <1>2, <1>3, <3>2
      <4>4. QED BY <4>2, <4>3
    <3>3. QED BY <3>1, <3>2
  <2>3. QED BY <1>1, <2>1, <2>2, SeqEqual
<1>5. PICK m \in a .. b : Tiles(x, a, m) /\ Tiles(y, m, b) BY <1>2, <1>3, <1>4, TilesPart
<1>6. m = IF n = 0 THEN a ELSE EndOf(list[n])
  <2>1. CASE n = 0 BY <1>2, <1>5, <2>1 DEF Tiles
  <2>2. CASE n # 0
    <3>1. x # <<>> /\ x[n] = list[n] BY <1>1, <1>2, <2>2
    <3>2. EndOf(x[Len(x)]) = m BY <1>5, <3>1 DEF Tiles
    <3>3. QED BY <1>2, <2>2, <3>1, <3>2
  <2>3. QED BY <2>1, <2>2
<1>7. n < Len(list) => y # <<>> /\ y[1] = list[n + 1] BY <1>1, <1>3
<1>8. n = Len(list) => y = <<>> BY <1>1, <1>3
<1>9. QED BY <1>2, <1>3, <1>4, <1>5, <1>6, <1>7, <1>8 DEF x, y

-----------------------------------------------------------------------------
(***************************************************************************)
(* The buffers of a list.                                                  *)
(***************************************************************************)
SumOf(f, list) ==
    /\ f \in [0 .. Len(list) -> Nat]
    /\ f[0] = 0
    /\ \A n \in 1 .. Len(list) : f[n] = f[n - 1] + list[n].bufs

LEMMA SumExists ==
    ASSUME NEW list \in Seq(Segments)
    PROVE  \E f : SumOf(f, list)
<1> DEFINE N == Len(list)
           Upto(m, f) == /\ f \in [0 .. m -> Nat]
                         /\ f[0] = 0
                         /\ \A n \in 1 .. m : f[n] = f[n - 1] + list[n].bufs
           S == {m \in 0 .. N : \E f : Upto(m, f)}
<1>0. N \in Nat /\ \A n \in 1 .. N : list[n].bufs \in Nat BY SegmentIs
<1>1. 0 \in S
  <2>1. Upto(0, [n \in 0 .. 0 |-> 0]) OBVIOUS
  <2> HIDE DEF Upto
  <2>2. QED BY <1>0, <2>1
<1>2. ASSUME NEW m \in 0 .. N - 1, m \in S PROVE m + 1 \in S
  <2>1. PICK f : Upto(m, f) BY <1>2
  <2> DEFINE h == [n \in 0 .. m + 1 |-> IF n <= m THEN f[n] ELSE f[m] + list[m + 1].bufs]
  <2>2. f[m] \in Nat /\ list[m + 1].bufs \in Nat BY <1>0, <2>1
  <2>3. h \in [0 .. m + 1 -> Nat] BY <2>1, <2>2
  <2>4. h[0] = 0 BY <2>1
  <2>5. ASSUME NEW n \in 1 .. m + 1 PROVE h[n] = h[n - 1] + list[n].bufs
    <3>1. CASE n <= m BY <2>1, <3>1
    <3>2. CASE n = m + 1 BY <2>1, <3>2
    <3>3. QED BY <3>1, <3>2
  <2> HIDE DEF h
  <2>6. Upto(m + 1, h) BY <2>3, <2>4, <2>5
  <2> HIDE DEF Upto
  <2>7. QED BY <1>0, <2>6
<1> HIDE DEF S
<1>3. 0 .. N \subseteq S BY <1>0, <1>1, <1>2, Induction
<1>4. N \in S BY <1>0, <1>3
<1>5. QED BY <1>4 DEF S, SumOf

\* The definition by recursion is that sum.
LEMMA BufsAre ==
    ASSUME NEW list \in Seq(Segments), NEW f, SumOf(f, list)
    PROVE  Bufs(list) = f[Len(list)] /\ Bufs(list) \in Nat
<1> DEFINE N == Len(list)
           Body(u) == [n \in 0 .. N |-> IF n = 0 THEN 0 ELSE u[n - 1] + list[n].bufs]
           u == CHOOSE u : u = Body(u)
<1>1. N \in Nat BY DEF SumOf
<1>2. f = Body(f) BY DEF SumOf
<1>3. Bufs(list) = u[N] BY DEF Bufs
<1> HIDE DEF Body
<1>4. u = Body(u) BY <1>2
<1> DEFINE S == {n \in 0 .. N : u[n] = f[n]}
<1>5. \A n \in 0 .. N : u[n] = IF n = 0 THEN 0 ELSE u[n - 1] + list[n].bufs
  <2> HIDE DEF u
  <2>1. QED BY <1>4 DEF Body
<1> HIDE DEF u
<1>6. 0 \in S BY <1>1, <1>5 DEF SumOf
<1>7. ASSUME NEW n \in 0 .. N - 1, n \in S PROVE n + 1 \in S
  <2>1. n + 1 \in 1 .. N /\ (n + 1) - 1 = n /\ n + 1 # 0 /\ n + 1 \in 0 .. N OBVIOUS
  <2>2. u[n + 1] = u[n] + list[n + 1].bufs BY <1>5, <2>1
  <2>3. f[n + 1] = f[n] + list[n + 1].bufs BY <2>1 DEF SumOf
  <2>4. QED BY <1>7, <2>1, <2>2, <2>3
<1> HIDE DEF S
<1>8. 0 .. N \subseteq S BY <1>1, <1>6, <1>7, Induction
<1>9. N \in S BY <1>1, <1>8
<1>10. QED BY <1>1, <1>3, <1>9 DEF S, SumOf

LEMMA BufsJoin ==
    ASSUME NEW x \in Seq(Segments), NEW y \in Seq(Segments)
    PROVE  Bufs(x \o y) = Bufs(x) + Bufs(y) /\ Bufs(x) \in Nat /\ Bufs(y) \in Nat
<1> DEFINE z == x \o y
<1>1. z \in Seq(Segments) /\ Len(z) = Len(x) + Len(y) /\ Len(x) \in Nat /\ Len(y) \in Nat OBVIOUS
<1>2. \A n \in 1 .. Len(x) : z[n] = x[n] OBVIOUS
<1>3. \A n \in 1 .. Len(y) : z[Len(x) + n] = y[n] OBVIOUS
<1> HIDE DEF z
<1>0. Len(z) = Len(x) + Len(y) /\ Len(x) \in Nat /\ Len(y) \in Nat BY <1>1
<1>4. PICK f : SumOf(f, x) BY SumExists
<1>5. PICK h : SumOf(h, y) BY SumExists
<1>11. /\ f \in [0 .. Len(x) -> Nat] /\ f[0] = 0
       /\ \A n \in 1 .. Len(x) : f[n] = f[n - 1] + x[n].bufs
  BY <1>4 DEF SumOf
<1>12. /\ h \in [0 .. Len(y) -> Nat] /\ h[0] = 0
       /\ \A n \in 1 .. Len(y) : h[n] = h[n - 1] + y[n].bufs
  BY <1>5 DEF SumOf
<1>13. \A n \in 1 .. Len(y) : y[n].bufs \in Nat BY SegmentIs
<1> DEFINE k == [n \in 0 .. Len(z) |-> IF n <= Len(x) THEN f[n] ELSE f[Len(x)] + h[n - Len(x)]]
<1>6. SumOf(k, z)
  <2>1. f[Len(x)] \in Nat
    <3>1. Len(x) \in 0 .. Len(x) BY <1>0
    <3>2. QED BY <3>1, <1>11
  <2>2. k \in [0 .. Len(z) -> Nat]
    <3>1. SUFFICES ASSUME NEW n \in 0 .. Len(z)
                   PROVE (IF n <= Len(x) THEN f[n] ELSE f[Len(x)] + h[n - Len(x)]) \in Nat
      OBVIOUS
    <3>2. CASE n <= Len(x) BY <1>0, <1>11, <3>2
    <3>3. CASE ~(n <= Len(x))
      <4>1. n - Len(x) \in 0 .. Len(y) BY <1>0, <3>3
      <4>2. h[n - Len(x)] \in Nat BY <1>12, <4>1
      <4>3. QED BY <2>1, <3>3, <4>2
    <3>4. QED BY <3>2, <3>3
  <2>3. k[0] = 0 BY <1>0, <1>11
  <2>4. ASSUME NEW n \in 1 .. Len(z) PROVE k[n] = k[n - 1] + z[n].bufs
    <3>1. CASE n <= Len(x) BY <1>0, <1>2, <1>11, <3>1
    <3>2. CASE n = Len(x) + 1
      <4>1. 1 \in 1 .. Len(y) /\ h[1] = h[0] + y[1].bufs /\ h[0] = 0 /\ h[1] \in Nat
        BY <1>0, <1>12, <1>13, <3>2
      <4>2. z[n] = y[1] BY <1>3, <3>2, <4>1
      <4>3. k[n] = f[Len(x)] + h[1] /\ k[n - 1] = f[Len(x)] BY <1>0, <3>2
      <4>4. h[1] = y[1].bufs
        <5>1. y[1].bufs \in Nat BY <4>1, SegmentIs
        <5>2. QED BY <4>1, <5>1
      <4> HIDE DEF k
      <4>5. QED BY <4>2, <4>3, <4>4
    <3>3. CASE n > Len(x) + 1
      <4>1. n - Len(x) \in 1 .. Len(y) /\ Len(x) + (n - Len(x)) = n /\ (n - Len(x)) - 1 = (n - 1) - Len(x)
        BY <1>0, <3>3
      <4>2. z[n] = y[n - Len(x)] BY <1>3, <4>1
      <4>3. h[n - Len(x)] = h[(n - 1) - Len(x)] + y[n - Len(x)].bufs BY <1>12, <4>1
      <4>4. k[n] = f[Len(x)] + h[n - Len(x)] /\ k[n - 1] = f[Len(x)] + h[(n - 1) - Len(x)]
        BY <1>0, <3>3
      <4>5. h[(n - 1) - Len(x)] \in Nat /\ z[n].bufs \in Nat
        <5>1. (n - 1) - Len(x) \in 0 .. Len(y) BY <1>0, <3>3
        <5>2. QED BY <1>12, <1>13, <4>1, <4>2, <5>1
      <4> HIDE DEF k
      <4>6. QED BY <2>1, <4>2, <4>3, <4>4, <4>5
    <3>4. n <= Len(x) \/ n = Len(x) + 1 \/ n > Len(x) + 1 BY <1>0
    <3>5. QED BY <3>1, <3>2, <3>3, <3>4
  <2> HIDE DEF k
  <2>5. QED BY <2>2, <2>3, <2>4 DEF SumOf
<1>7. k[Len(z)] = f[Len(x)] + h[Len(y)]
  <2>1. CASE Len(y) = 0 BY <1>0, <1>11, <1>12, <2>1
  <2>2. CASE Len(y) # 0
    <3>1. ~(Len(z) <= Len(x)) /\ Len(z) - Len(x) = Len(y) /\ Len(z) \in 0 .. Len(z) BY <1>0, <2>2
    <3>2. QED BY <3>1
  <2>3. QED BY <2>1, <2>2
<1> HIDE DEF k
<1>8. Bufs(z) = k[Len(z)] BY <1>1, <1>6, BufsAre
<1>9. Bufs(x) = f[Len(x)] /\ Bufs(y) = h[Len(y)] /\ Bufs(x) \in Nat /\ Bufs(y) \in Nat
  BY <1>4, <1>5, BufsAre
<1>10. QED BY <1>7, <1>8, <1>9 DEF z

LEMMA BufsOfNone == Bufs(<<>>) = 0
<1>1. SumOf([n \in 0 .. 0 |-> 0], <<>>) BY DEF SumOf
<1>2. <<>> \in Seq(Segments) OBVIOUS
<1>3. QED BY <1>1, <1>2, BufsAre

LEMMA BufsOfOne ==
    ASSUME NEW g \in Segments
    PROVE  Bufs(<<g>>) = g.bufs
<1>1. g.bufs \in Nat BY SegmentIs
<1>2. SumOf([n \in 0 .. 1 |-> IF n = 0 THEN 0 ELSE g.bufs], <<g>>) BY <1>1 DEF SumOf
<1>3. <<g>> \in Seq(Segments) /\ Len(<<g>>) = 1 OBVIOUS
<1>4. Bufs(<<g>>) = [n \in 0 .. 1 |-> IF n = 0 THEN 0 ELSE g.bufs][1] BY <1>2, <1>3, BufsAre
<1>5. QED BY <1>4

\* New segments have a buffer each.
LEMMA BufsOfNew ==
    ASSUME NEW list \in Seq(Segments), \A i \in 1 .. Len(list) : list[i].bufs = 1
    PROVE  Bufs(list) = Len(list)
<1>1. SumOf([n \in 0 .. Len(list) |-> n], list) BY DEF SumOf
<1>2. QED BY <1>1, BufsAre

-----------------------------------------------------------------------------
(***************************************************************************)
(* tcp_enqueue: the data are cut into segments, and these are linked.      *)
(***************************************************************************)
LEMMA Multiples ==
    ASSUME NEW m \in Nat \ {0}, NEW len \in Nat \ {0}
    PROVE  LET n == (len + m - 1) \div m
           IN  /\ n \in Nat \ {0} /\ n * m \in Nat /\ n * m >= len
               /\ \A i \in 1 .. n : i * m \in Nat /\ (i - 1) * m \in Nat /\ (i - 1) * m < len
                                    /\ i * m = (i - 1) * m + m
               /\ \A i \in 1 .. n - 1 : i * m < len
<1> DEFINE n == (len + m - 1) \div m
           r == (len + m - 1) % m
<1>1. n \in Nat /\ r \in 0 .. m - 1 /\ len + m - 1 = m * n + r
  <2>1. len + m - 1 \in Nat OBVIOUS
  <2>2. QED BY <2>1
<1>2. m * n = n * m BY <1>1
<1> HIDE DEF n, r
<1>3. n * m \in Nat BY <1>1
<1>4. n * m >= len /\ n * m < len + m BY <1>1, <1>2, <1>3
<1>5. n # 0
  <2>1. SUFFICES ASSUME n = 0 PROVE FALSE OBVIOUS
  <2>2. n * m = 0 BY <2>1
  <2>3. QED BY <1>4, <2>2
<1>6. ASSUME NEW i \in 1 .. n
      PROVE  i * m \in Nat /\ (i - 1) * m \in Nat /\ (i - 1) * m < len /\ i * m = (i - 1) * m + m
  <2>1. i * m \in Nat /\ (i - 1) * m \in Nat /\ i * m = (i - 1) * m + m BY <1>1
  <2>2. (n - i) * m \in Nat BY <1>1
  <2>3. n * m = i * m + (n - i) * m BY <1>1
  <2>4. QED BY <1>4, <2>1, <2>2, <2>3
<1>7. ASSUME NEW i \in 1 .. n - 1 PROVE i * m < len
  <2>1. i + 1 \in 1 .. n /\ (i + 1) - 1 = i BY <1>1
  <2>2. QED BY <1>6, <2>1
<1>8. QED BY <1>1, <1>3, <1>4, <1>5, <1>6, <1>7 DEF n

LEMMA CutOut ==
    ASSUME NEW S, NEW s \in Seq(S), NEW a \in Nat, NEW b \in Nat, a <= b, b <= Len(s)
    PROVE  /\ SubSeq(s, a + 1, b) \in Seq(S) /\ Len(SubSeq(s, a + 1, b)) = b - a
           /\ SubSeq(s, a + 1, b) = [i \in 1 .. b - a |-> s[a + i]]
<1> DEFINE c == [i \in 1 .. b - a |-> s[a + i]]
<1>1. Len(s) \in Nat /\ \A i \in 1 .. Len(s) : s[i] \in S OBVIOUS
<1>2. SubSeq(s, a + 1, b) = c OBVIOUS
<1>3. \A i \in 1 .. b - a : a + i \in 1 .. Len(s) BY <1>1
<1>4. c \in [1 .. b - a -> S] BY <1>1, <1>3
<1> HIDE DEF c
<1>5. b - a \in Nat OBVIOUS
<1>6. c \in Seq(S) /\ Len(c) = b - a BY <1>4, <1>5
<1>7. QED BY <1>2, <1>6 DEF c

LEMMA SegmentsMade ==
    ASSUME NEW seq \in SeqNos, NEW len \in Nat \ {0}, Position(seq) + len <= Total,
           NEW queue, queue = Segmented(seq, [i \in 1 .. len |-> Position(seq) + i])
    PROVE  /\ Tiles(queue, Position(seq), Position(seq) + len)
           /\ queue \in Seq(Segments) /\ queue # <<>>
           /\ \A i \in 1 .. Len(queue) : queue[i].bufs = 1
<1> DEFINE k == Position(seq)
           data == [i \in 1 .. len |-> k + i]
           n == (len + MSS - 1) \div MSS
           from(i) == (i - 1) * MSS
           upto(i) == IF i * MSS < len THEN i * MSS ELSE len
           seg(i) == [seq |-> SeqAdd(seq, from(i)), data |-> SubSeq(data, from(i) + 1, upto(i)), bufs |-> 1]
<1>0. MSS \in Nat \ {0} /\ Total \in Nat /\ Total < SeqWord /\ SeqWord \in Nat BY HalfTheRange
<1>1. k \in Nat /\ seq \in 0 .. SeqWord - 1 BY PositionIs DEF SeqNos
<1>2. /\ n \in Nat \ {0} /\ n * MSS \in Nat /\ n * MSS >= len
      /\ \A i \in 1 .. n : i * MSS \in Nat /\ (i - 1) * MSS \in Nat /\ (i - 1) * MSS < len
                           /\ i * MSS = (i - 1) * MSS + MSS
      /\ \A i \in 1 .. n - 1 : i * MSS < len
  BY <1>0, Multiples
<1>3. data \in Seq(1 .. Total) /\ Len(data) = len BY <1>0, <1>1
<1>4. queue = [i \in 1 .. n |-> seg(i)] BY <1>3 DEF Segmented
<1> HIDE DEF k, data, n
<1>5. ASSUME NEW i \in 1 .. n
      PROVE  /\ from(i) \in Nat /\ upto(i) \in Nat /\ from(i) < upto(i) /\ upto(i) <= len
             /\ upto(i) - from(i) <= MSS
             /\ upto(i) # len => upto(i) = i * MSS
             /\ i < n => upto(i) = from(i + 1)
             /\ i = n => upto(i) = len
  <2>1. i * MSS \in Nat /\ from(i) \in Nat /\ from(i) < len /\ i * MSS = from(i) + MSS BY <1>2
  <2>2. i < n => i * MSS < len BY <1>2
  <2>3. i = n => ~(i * MSS < len) BY <1>2
  <2>4. from(i + 1) = i * MSS BY <1>2
  <2> HIDE DEF from
  <2>5. QED BY <1>0, <2>1, <2>2, <2>3, <2>4
<1> HIDE DEF from, upto
<1>6. ASSUME NEW i \in 1 .. n
      PROVE  seg(i) \in Segments /\ Starts(seg(i)) = k + from(i) /\ EndOf(seg(i)) = k + upto(i)
  <2>1. /\ from(i) \in Nat /\ upto(i) \in Nat /\ from(i) < upto(i) /\ upto(i) <= len
        /\ upto(i) - from(i) <= MSS
    BY <1>5
  <2>2. /\ SeqAdd(seq, from(i)) \in 0 .. SeqWord - 1
        /\ Position(SeqAdd(seq, from(i))) = k + from(i)
    <3>1. k + from(i) < SeqWord BY <1>0, <1>1, <2>1 DEF k
    <3>2. QED BY <1>1, <2>1, <3>1, AddPosition DEF k
  <2> DEFINE d == SubSeq(data, from(i) + 1, upto(i))
  <2>3. /\ d \in Seq(1 .. Total) /\ Len(d) = upto(i) - from(i)
        /\ d = [j \in 1 .. upto(i) - from(i) |-> data[from(i) + j]]
    <3>1. from(i) <= upto(i) /\ upto(i) <= Len(data) BY <1>3, <2>1
    <3>2. data \in Seq(1 .. Total) /\ from(i) \in Nat /\ upto(i) \in Nat BY <1>3, <2>1
    <3> DEFINE a == from(i)
               b == upto(i)
    <3> HIDE DEF a, b
    <3>3. /\ SubSeq(data, a + 1, b) \in Seq(1 .. Total) /\ Len(SubSeq(data, a + 1, b)) = b - a
          /\ SubSeq(data, a + 1, b) = [j \in 1 .. b - a |-> data[a + j]]
      <4> DEFINE T == 1 .. Total
      <4>1. a \in Nat /\ b \in Nat /\ a <= b /\ b <= Len(data) BY <3>1, <3>2 DEF a, b
      <4>2. data \in Seq(T) BY <3>2
      <4> HIDE DEF T
      <4>3. SubSeq(data, a + 1, b) \in Seq(T) BY <4>1, <4>2, CutOut
      <4>4. Len(SubSeq(data, a + 1, b)) = b - a BY <4>1, <4>2, CutOut
      <4>5. SubSeq(data, a + 1, b) = [j \in 1 .. b - a |-> data[a + j]] BY <4>1, <4>2, CutOut
      <4>6. QED BY <4>3, <4>4, <4>5 DEF T
    <3>4. QED BY <3>3 DEF a, b
  <2>4. d = Stretch(k + from(i), k + upto(i))
    <3>1. d = [j \in 1 .. upto(i) - from(i) |-> data[from(i) + j]] BY <2>3
    <3>2. \A j \in 1 .. upto(i) - from(i) : data[from(i) + j] = (k + from(i)) + j
      BY <1>1, <2>1 DEF data
    <3>3. (k + upto(i)) - (k + from(i)) = upto(i) - from(i) BY <1>1, <2>1
    <3>4. QED BY <3>1, <3>2, <3>3 DEF Stretch
  <2> HIDE DEF d
  <2>5. seg(i) = [seq |-> SeqAdd(seq, from(i)), data |-> d, bufs |-> 1] BY DEF d
  <2>10. seg(i).seq = SeqAdd(seq, from(i)) /\ seg(i).data = d BY <2>5
  <2>6. Starts(seg(i)) = k + from(i) BY <2>2, <2>10 DEF Starts
  <2>11. (k + from(i)) + (upto(i) - from(i)) = k + upto(i) BY <1>1, <2>1
  <2>7. EndOf(seg(i)) = k + upto(i) BY <2>2, <2>3, <2>10, <2>11 DEF EndOf
  <2>8. k + upto(i) <= Total /\ Len(d) \in 1 .. MSS
    <3>1. k + len <= Total BY DEF k
    <3>2. k + upto(i) <= Total BY <1>0, <1>1, <2>1, <3>1
    <3>3. Len(d) \in 1 .. MSS BY <1>0, <2>1, <2>3
    <3>4. QED BY <3>2, <3>3
  <2>9. QED BY <2>2, <2>3, <2>4, <2>5, <2>6, <2>7, <2>8 DEF Segments
<1>18. \A i \in 1 .. n : seg(i).bufs = 1 OBVIOUS
<1> HIDE DEF seg
<1>7. n \in Nat /\ n # 0 BY <1>2
<1>16. queue \in [1 .. n -> Segments] /\ \A i \in 1 .. n : queue[i] = seg(i) BY <1>4, <1>6
<1>17. queue \in Seq(Segments) /\ Len(queue) = n BY <1>7, <1>16
<1>8. queue \in Seq(Segments) /\ Len(queue) = n /\ \A i \in 1 .. n : queue[i] = seg(i)
  BY <1>16, <1>17
<1>9. \A i \in 1 .. n : queue[i].bufs = 1 BY <1>8, <1>18
<1>10. Starts(queue[1]) = k
  <2>1. 1 \in 1 .. n BY <1>7
  <2>2. from(1) = 0 BY <1>0 DEF from
  <2>3. QED BY <1>1, <1>6, <1>8, <2>1, <2>2 DEF k
<1>11. EndOf(queue[n]) = k + len
  <2>1. n \in 1 .. n BY <1>7
  <2>2. QED BY <1>5, <1>6, <1>8, <2>1
<1>12. ASSUME NEW i \in 1 .. n - 1 PROVE Starts(queue[i + 1]) = EndOf(queue[i])
  <2>1. i \in 1 .. n /\ i + 1 \in 1 .. n /\ i < n BY <1>7
  <2>2. upto(i) = from(i + 1) BY <1>5, <2>1
  <2>3. QED BY <1>6, <1>8, <2>1, <2>2
<1>13. queue # <<>> BY <1>7, <1>8
<1>14. Tiles(queue, k, k + len) BY <1>8, <1>10, <1>11, <1>12, <1>13 DEF Tiles
<1>15. QED BY <1>8, <1>9, <1>13, <1>14 DEF k

\* Two sequences, place by place.
LEMMA ConcatIs ==
    ASSUME NEW S, NEW x \in Seq(S), NEW y \in Seq(S)
    PROVE  x \o y = [i \in 1 .. Len(x) + Len(y) |-> IF i <= Len(x) THEN x[i] ELSE y[i - Len(x)]]
<1> DEFINE z == x \o y
           n == Len(x) + Len(y)
           c == [i \in 1 .. n |-> IF i <= Len(x) THEN x[i] ELSE y[i - Len(x)]]
<1>1. /\ z \in Seq(S) /\ Len(z) = n
      /\ \A i \in 1 .. n : z[i] = IF i <= Len(x) THEN x[i] ELSE y[i - Len(x)]
  BY ConcatProperties
<1>2. \A i \in 1 .. n : z[i] = c[i] BY <1>1
<1>3. c = [i \in 1 .. n |-> c[i]] OBVIOUS
<1> HIDE DEF c, n, z
<1>4. z = [i \in 1 .. n |-> z[i]] BY <1>1
<1>5. z = c BY <1>2, <1>3, <1>4
<1>6. QED BY <1>5 DEF c, n, z

\* A segment chained to the one before it.
LEMMA ChainedIs ==
    ASSUME NEW g \in Segments, NEW h \in Segments, Starts(h) = EndOf(g),
           Len(g.data) + Len(h.data) <= MSS, h.bufs = 1,
           NEW c, c = [g EXCEPT !.data = @ \o h.data, !.bufs = @ + 1]
    PROVE  c \in Segments /\ Starts(c) = Starts(g) /\ EndOf(c) = EndOf(h) /\ c.bufs = g.bufs + h.bufs
<1>1. /\ g.seq \in SeqNos /\ g.data \in Seq(1 .. Total) /\ g.bufs \in Nat
      /\ Len(g.data) \in Nat /\ Len(g.data) >= 1 /\ Starts(g) = Position(g.seq)
      /\ Starts(g) \in Nat /\ EndOf(g) = Starts(g) + Len(g.data)
      /\ g.data = Stretch(Starts(g), EndOf(g))
  <2>1. /\ g.seq \in SeqNos /\ g.data \in Seq(1 .. Total) /\ g.bufs \in Nat
        /\ Len(g.data) \in 1 .. MSS /\ Len(g.data) \in Nat /\ Starts(g) = Position(g.seq)
        /\ Starts(g) \in 0 .. Total /\ EndOf(g) = Starts(g) + Len(g.data)
        /\ g.data = Stretch(Starts(g), EndOf(g))
    BY SegmentIs
  <2>2. Len(g.data) >= 1 /\ Starts(g) \in Nat BY <2>1
  <2>3. QED BY <2>1, <2>2
<1>2. /\ h.data \in Seq(1 .. Total) /\ Len(h.data) \in Nat
      /\ EndOf(h) = Starts(h) + Len(h.data) /\ EndOf(h) \in 0 .. Total
      /\ h.data = Stretch(Starts(h), EndOf(h))
  BY SegmentIs
<1>3. c = [seq |-> g.seq, data |-> g.data \o h.data, bufs |-> g.bufs + 1] BY DEF Segments
<1>4. g.data \o h.data \in Seq(1 .. Total) /\ Len(g.data \o h.data) = Len(g.data) + Len(h.data)
  BY <1>1, <1>2
<1>12. c.seq = g.seq /\ c.data = g.data \o h.data /\ c.bufs = g.bufs + 1 BY <1>3
<1>5. Starts(c) = Starts(g) BY <1>12 DEF Starts
<1>13. Position(g.seq) + (Len(g.data) + Len(h.data)) = EndOf(h) BY <1>1, <1>2
<1>6. EndOf(c) = EndOf(h) BY <1>4, <1>12, <1>13 DEF EndOf
<1>7. g.data \o h.data = Stretch(Starts(g), EndOf(h))
  <2> DEFINE x == g.data
             y == h.data
             T == 1 .. Total
  <2>5. x \in Seq(T) /\ y \in Seq(T) BY <1>1, <1>2
  <2>1. x \o y = [i \in 1 .. Len(x) + Len(y) |-> IF i <= Len(x) THEN x[i] ELSE y[i - Len(x)]]
    <3> HIDE DEF x, y, T
    <3>1. QED BY <2>5, ConcatIs
  <2>2. EndOf(h) - Starts(g) = Len(x) + Len(y) BY <1>1, <1>2
  <2>3. ASSUME NEW i \in 1 .. Len(x) + Len(y)
        PROVE  (IF i <= Len(x) THEN x[i] ELSE y[i - Len(x)]) = Starts(g) + i
    <3>1. CASE i <= Len(x)
      <4>1. i \in 1 .. EndOf(g) - Starts(g) BY <1>1, <3>1
      <4>2. QED BY <1>1, <3>1, <4>1 DEF Stretch
    <3>2. CASE ~(i <= Len(x))
      <4>1. i - Len(x) \in 1 .. EndOf(h) - Starts(h) BY <1>1, <1>2, <3>2
      <4>2. y[i - Len(x)] = Starts(h) + (i - Len(x)) BY <1>2, <4>1 DEF Stretch
      <4>3. Starts(h) + (i - Len(x)) = Starts(g) + i BY <1>1, <1>2
      <4>4. QED BY <3>2, <4>2, <4>3
    <3>3. QED BY <3>1, <3>2
  <2> HIDE DEF x, y
  <2>4. QED BY <2>1, <2>2, <2>3 DEF Stretch, x, y
<1>8. c.seq \in 0 .. SeqWord - 1 /\ Len(c.data) \in 1 .. MSS /\ EndOf(c) <= Total
  <2>1. c.seq \in 0 .. SeqWord - 1 BY <1>1, <1>12 DEF SeqNos
  <2>2. Len(c.data) = Len(g.data) + Len(h.data) BY <1>4, <1>12
  <2>3. Len(c.data) \in 1 .. MSS BY <1>1, <1>2, <2>2, HalfTheRange
  <2>4. EndOf(c) <= Total BY <1>2, <1>6, HalfTheRange
  <2>5. QED BY <2>1, <2>3, <2>4
<1>9. c \in [seq : 0 .. SeqWord - 1, data : Seq(1 .. Total), bufs : Nat]
  <2>1. g.seq \in 0 .. SeqWord - 1 /\ g.bufs + 1 \in Nat BY <1>1 DEF SeqNos
  <2>2. QED BY <1>3, <1>4, <2>1
<1>10. c.data = Stretch(Starts(c), EndOf(c)) BY <1>3, <1>5, <1>6, <1>7
<1>11. QED BY <1>3, <1>5, <1>6, <1>8, <1>9, <1>10 DEF Segments

LEMMA OneLong ==
    ASSUME NEW S, NEW s \in Seq(S), Len(s) = 1
    PROVE  s = <<s[1]>>
<1>1. s[1] \in S OBVIOUS
<1>2. <<s[1]>> \in Seq(S) /\ Len(<<s[1]>>) = 1 BY <1>1
<1>3. \A i \in 1 .. 1 : <<s[1]>>[i] = s[i] OBVIOUS
<1> DEFINE t == <<s[1]>>
<1> HIDE DEF t
<1>4. \A i \in 1 .. Len(s) : t[i] = s[i] BY <1>3 DEF t
<1>5. t \in Seq(S) /\ Len(t) = Len(s) BY <1>2 DEF t
<1>6. t = s BY <1>4, <1>5, SeqEqual
<1>7. QED BY <1>6 DEF t

LEMMA TailIs ==
    ASSUME NEW S, NEW s \in Seq(S), s # <<>>
    PROVE  Tail(s) = SubSeq(s, 2, Len(s))
<1>1. Len(s) \in Nat /\ Len(s) >= 1 OBVIOUS
<1>2. Tail(s) \in Seq(S) /\ Len(Tail(s)) = Len(s) - 1 /\ \A i \in 1 .. Len(s) - 1 : Tail(s)[i] = s[i + 1]
  OBVIOUS
<1> DEFINE t == SubSeq(s, 2, Len(s))
           u == Tail(s)
<1>0. PICK k \in Nat : k = 1 OBVIOUS
<1>3. /\ SubSeq(s, k + 1, Len(s)) \in Seq(S) /\ Len(SubSeq(s, k + 1, Len(s))) = Len(s) - k
      /\ SubSeq(s, k + 1, Len(s)) = [i \in 1 .. Len(s) - k |-> s[k + i]]
  <2>1. Len(s) \in Nat /\ k <= Len(s) /\ Len(s) <= Len(s) BY <1>0, <1>1
  <2>2. QED BY <2>1, CutOut
<1>11. k + 1 = 2 BY <1>0
<1>4. t = [i \in 1 .. Len(s) - 1 |-> s[1 + i]] BY <1>0, <1>3, <1>11
<1>6. t \in Seq(S) /\ Len(t) = Len(s) - 1 /\ \A i \in 1 .. Len(s) - 1 : t[i] = s[i + 1]
  <2>1. t \in Seq(S) /\ Len(t) = Len(s) - 1 BY <1>0, <1>3, <1>11
  <2> HIDE DEF t
  <2>2. \A i \in 1 .. Len(s) - 1 : t[i] = s[i + 1] BY <1>1, <1>4
  <2>3. QED BY <2>1, <2>2
<1> HIDE DEF t, u
<1>7. u \in Seq(S) /\ Len(u) = Len(s) - 1 /\ \A i \in 1 .. Len(s) - 1 : u[i] = s[i + 1]
  BY <1>2 DEF u
<1>8. \A i \in 1 .. Len(u) : u[i] = t[i] BY <1>6, <1>7
<1>9. u = t BY <1>6, <1>7, <1>8, SeqEqual
<1>10. QED BY <1>9 DEF t, u

LEMMA TilesOne ==
    ASSUME NEW g \in Segments
    PROVE  Tiles(<<g>>, Starts(g), EndOf(g)) /\ <<g>> \in Seq(Segments)
<1>1. <<g>> \in Seq(Segments) /\ Len(<<g>>) = 1 /\ <<g>>[1] = g /\ <<g>> # <<>> OBVIOUS
<1>2. QED BY <1>1 DEF Tiles

\* The last segment of a list apart, and the first.
LEMMA TilesLast ==
    ASSUME NEW list, NEW a \in 0 .. Total, NEW b, Tiles(list, a, b),
           NEW k \in Nat, k < Len(list)
    PROVE  /\ list = SubSeq(list, 1, k) \o SubSeq(list, k + 1, Len(list))
           /\ SubSeq(list, 1, k) \in Seq(Segments) /\ SubSeq(list, k + 1, Len(list)) \in Seq(Segments)
           /\ Len(SubSeq(list, 1, k)) = k
           /\ \A i \in 1 .. k : SubSeq(list, 1, k)[i] = list[i]
           /\ SubSeq(list, k + 1, Len(list)) # <<>> /\ SubSeq(list, k + 1, Len(list))[1] = list[k + 1]
<1>1. Len(list) \in Nat BY DEF Tiles
<1>2. k \in 0 .. Len(list) BY <1>1
<1>3. /\ list = SubSeq(list, 1, k) \o SubSeq(list, k + 1, Len(list))
      /\ SubSeq(list, 1, k) \in Seq(Segments) /\ SubSeq(list, k + 1, Len(list)) \in Seq(Segments)
  BY <1>2, TilesRest
<1>4. Len(SubSeq(list, 1, k)) = k /\ \A i \in 1 .. k : SubSeq(list, 1, k)[i] = list[i]
  BY <1>2, TilesRest
<1>5. SubSeq(list, k + 1, Len(list)) # <<>> /\ SubSeq(list, k + 1, Len(list))[1] = list[k + 1]
  BY <1>2, TilesRest
<1>6. QED BY <1>3, <1>4, <1>5

LEMMA TilesFirst ==
    ASSUME NEW list, NEW a \in 0 .. Total, NEW b, Tiles(list, a, b),
           NEW k \in 1 .. Len(list)
    PROVE  /\ list = SubSeq(list, 1, k) \o SubSeq(list, k + 1, Len(list))
           /\ SubSeq(list, 1, k) \in Seq(Segments) /\ SubSeq(list, k + 1, Len(list)) \in Seq(Segments)
           /\ Len(SubSeq(list, 1, k)) = k
           /\ \A i \in 1 .. k : SubSeq(list, 1, k)[i] = list[i]
           /\ Tiles(SubSeq(list, k + 1, Len(list)), EndOf(list[k]), b)
<1>1. k \in 0 .. Len(list) /\ k # 0 OBVIOUS
<1>2. QED BY <1>1, TilesRest

LEMMA LinkedIs ==
    ASSUME NEW list, NEW queue, NEW a \in 0 .. Total, NEW b, NEW c,
           Tiles(list, a, b), Tiles(queue, b, c), queue # <<>>,
           \A i \in 1 .. Len(queue) : queue[i].bufs = 1
    PROVE  /\ Tiles(Linked(list, queue), a, c)
           /\ Linked(list, queue) \in Seq(Segments) /\ Linked(list, queue) # <<>>
           /\ Bufs(Linked(list, queue)) = Bufs(list) + Bufs(queue)
           /\ list # <<>> => EndOf(list[1]) <= EndOf(Linked(list, queue)[1])
<1>1. /\ list \in Seq(Segments) /\ Len(list) \in Nat /\ b \in 0 .. Total
      /\ \A i \in 1 .. Len(list) : list[i] \in Segments
  BY TilesAre
<1>2. /\ queue \in Seq(Segments) /\ Len(queue) \in Nat /\ c \in 0 .. Total /\ Len(queue) >= 1
      /\ \A i \in 1 .. Len(queue) : queue[i] \in Segments
  <2>1. /\ queue \in Seq(Segments) /\ Len(queue) \in Nat /\ c \in 0 .. Total
        /\ \A i \in 1 .. Len(queue) : queue[i] \in Segments
    BY <1>1, TilesAre
  <2>2. QED BY <2>1
<1>3. ASSUME Linked(list, queue) = list \o queue
      PROVE  /\ Tiles(Linked(list, queue), a, c)
             /\ Linked(list, queue) \in Seq(Segments) /\ Linked(list, queue) # <<>>
             /\ Bufs(Linked(list, queue)) = Bufs(list) + Bufs(queue)
             /\ list # <<>> => EndOf(list[1]) <= EndOf(Linked(list, queue)[1])
  <2>1. Tiles(list \o queue, a, c) BY TilesJoin
  <2>2. list \o queue \in Seq(Segments) /\ list \o queue # <<>> BY <1>1, <1>2
  <2>3. Bufs(list \o queue) = Bufs(list) + Bufs(queue) BY <1>1, <1>2, BufsJoin
  <2>4. ASSUME list # <<>> PROVE EndOf(list[1]) <= EndOf((list \o queue)[1])
    <3>1. 1 \in 1 .. Len(list) BY <1>1, <2>4
    <3>2. (list \o queue)[1] = list[1] BY <1>1, <1>2, <3>1
    <3>3. EndOf(list[1]) \in 0 .. Total BY <1>1, <3>1, SegmentIs
    <3>4. QED BY <3>2, <3>3
  <2>5. QED BY <1>3, <2>1, <2>2, <2>3, <2>4
<1>4. CASE list # <<>> /\ Len(Last(list).data) + Len(queue[1].data) <= MSS
  <2> DEFINE n == Len(list)
             f == SubSeq(list, 1, n - 1)
             g == list[n]
             h == queue[1]
             m == [g EXCEPT !.data = @ \o h.data, !.bufs = @ + 1]
             t == SubSeq(queue, 2, Len(queue))
             d == EndOf(g)
  <2>1. n \in 1 .. n /\ n - 1 \in 0 .. n /\ (n - 1) + 1 = n BY <1>1, <1>4
  <2>2. /\ list = f \o SubSeq(list, n, n) /\ f \in Seq(Segments) /\ Len(f) = n - 1
        /\ \A i \in 1 .. n - 1 : f[i] = list[i]
        /\ SubSeq(list, n, n) # <<>> /\ SubSeq(list, n, n)[1] = g
        /\ SubSeq(list, n, n) \in Seq(Segments)
    <3> DEFINE k == n - 1
    <3> HIDE DEF k
    <3>1. k \in Nat /\ k < Len(list) /\ k + 1 = n BY <2>1, <1>1 DEF k
    <3>2. /\ list = SubSeq(list, 1, k) \o SubSeq(list, k + 1, Len(list))
          /\ SubSeq(list, 1, k) \in Seq(Segments) /\ SubSeq(list, k + 1, Len(list)) \in Seq(Segments)
          /\ Len(SubSeq(list, 1, k)) = k
          /\ \A i \in 1 .. k : SubSeq(list, 1, k)[i] = list[i]
          /\ SubSeq(list, k + 1, Len(list)) # <<>> /\ SubSeq(list, k + 1, Len(list))[1] = list[k + 1]
      BY <3>1, TilesLast
    <3>3. QED BY <3>1, <3>2 DEF k
  <2>3. SubSeq(list, n, n) = <<g>>
    <3>1. Len(SubSeq(list, n, n)) = 1 BY <1>1, <2>1
    <3>2. SubSeq(list, n, n) \in Seq(Segments) /\ SubSeq(list, n, n)[1] = g BY <2>2
    <3>3. SubSeq(list, n, n) = <<SubSeq(list, n, n)[1]>> BY <3>1, <3>2, OneLong
    <3>4. QED BY <3>2, <3>3
  <2>20. list = f \o <<g>> BY <2>2, <2>3
  <2>4. /\ queue = SubSeq(queue, 1, 1) \o t /\ t \in Seq(Segments)
        /\ SubSeq(queue, 1, 1) \in Seq(Segments) /\ Len(SubSeq(queue, 1, 1)) = 1
        /\ SubSeq(queue, 1, 1)[1] = h
        /\ Tiles(t, EndOf(h), c)
    <3>1. 1 \in 1 .. Len(queue) /\ 1 + 1 = 2 /\ 1 \in 1 .. 1 BY <1>2
    <3>2. /\ queue = SubSeq(queue, 1, 1) \o SubSeq(queue, 1 + 1, Len(queue))
          /\ SubSeq(queue, 1, 1) \in Seq(Segments) /\ SubSeq(queue, 1 + 1, Len(queue)) \in Seq(Segments)
          /\ Len(SubSeq(queue, 1, 1)) = 1
          /\ \A i \in 1 .. 1 : SubSeq(queue, 1, 1)[i] = queue[i]
          /\ Tiles(SubSeq(queue, 1 + 1, Len(queue)), EndOf(queue[1]), c)
      BY <1>1, <3>1, TilesFirst
    <3>3. QED BY <3>1, <3>2
  <2>5. SubSeq(queue, 1, 1) = <<h>> BY <2>4, OneLong
  <2>6. g \in Segments /\ h \in Segments /\ h.bufs = 1 BY <1>1, <1>2, <2>1
  <2>7. Starts(h) = EndOf(g)
    <3>1. EndOf(g) = b BY <1>4 DEF Tiles
    <3>2. Starts(h) = b BY DEF Tiles
    <3>3. QED BY <3>1, <3>2
  <2>8. m \in Segments /\ Starts(m) = Starts(g) /\ EndOf(m) = EndOf(h) /\ m.bufs = g.bufs + h.bufs
    BY <1>4, <2>6, <2>7, ChainedIs DEF Last
  <2>21. queue \in Seq(Segments) /\ queue # <<>> BY <1>2
  <2>22. Tail(queue) = t BY <2>21, TailIs
  <2>9. Linked(list, queue) = (f \o <<m>>) \o t
    BY <1>4, <2>22 DEF Linked, Front, Last
  <2> HIDE DEF f, g, h, m, t
  <2>10. PICK e \in a .. b : Tiles(f, a, e) /\ Tiles(<<g>>, e, b)
    <3>1. <<g>> \in Seq(Segments) BY <2>6
    <3>2. QED BY <2>2, <2>3, <3>1, TilesPart
  <2>11. e = Starts(g)
    <3>1. <<g>>[1] = g /\ <<g>> # <<>> OBVIOUS
    <3>2. QED BY <2>10, <3>1 DEF Tiles
  <2>12. Tiles(<<m>>, e, EndOf(h)) BY <2>8, <2>11, TilesOne
  <2>13. Tiles(f \o <<m>>, a, EndOf(h)) BY <2>10, <2>12, TilesJoin
  <2>14. Tiles((f \o <<m>>) \o t, a, c) BY <2>4, <2>13, TilesJoin
  <2>15. f \o <<m>> \in Seq(Segments) /\ (f \o <<m>>) \o t \in Seq(Segments) /\ <<m>> \in Seq(Segments)
         /\ <<g>> \in Seq(Segments) /\ <<h>> \in Seq(Segments)
    BY <2>2, <2>4, <2>6, <2>8
  <2>16. Len((f \o <<m>>) \o t) >= 1 /\ (f \o <<m>>) \o t # <<>> BY <2>2, <2>4, <2>15
  <2>17. Bufs((f \o <<m>>) \o t) = Bufs(list) + Bufs(queue)
    <3>1. Bufs((f \o <<m>>) \o t) = Bufs(f \o <<m>>) + Bufs(t) /\ Bufs(t) \in Nat BY <2>4, <2>15, BufsJoin
    <3>2. Bufs(f \o <<m>>) = Bufs(f) + m.bufs /\ Bufs(f) \in Nat BY <2>2, <2>8, <2>15, BufsJoin, BufsOfOne
    <3>3. Bufs(list) = Bufs(f) + g.bufs
      <4>1. Bufs(<<g>>) = g.bufs BY <2>6, BufsOfOne
      <4>2. Bufs(f \o <<g>>) = Bufs(f) + Bufs(<<g>>) BY <2>2, <2>15, BufsJoin
      <4>3. QED BY <2>20, <4>1, <4>2
    <3>4. Bufs(queue) = h.bufs + Bufs(t)
      <4>1. queue = <<h>> \o t BY <2>4, <2>5
      <4>2. Bufs(<<h>>) = h.bufs BY <2>6, BufsOfOne
      <4>3. Bufs(<<h>> \o t) = Bufs(<<h>>) + Bufs(t) BY <2>4, <2>15, BufsJoin
      <4>4. QED BY <4>1, <4>2, <4>3
    <3>5. g.bufs \in Nat /\ h.bufs \in Nat BY <2>6, SegmentIs
    <3>6. QED BY <2>8, <3>1, <3>2, <3>3, <3>4, <3>5
  <2>18. EndOf(list[1]) <= EndOf(((f \o <<m>>) \o t)[1])
    <3>1. ((f \o <<m>>) \o t)[1] = (f \o <<m>>)[1] BY <2>2, <2>4, <2>15
    <3>2. EndOf(list[1]) \in 0 .. Total
      <4>1. 1 \in 1 .. n BY <2>1
      <4>2. QED BY <1>1, <4>1, SegmentIs
    <3>3. CASE n = 1
      <4>1. (f \o <<m>>)[1] = m BY <2>2, <3>3
      <4>2. list[1] = g BY <3>3 DEF g
      <4>3. EndOf(g) <= EndOf(h) BY <2>6, <2>7, SegmentIs
      <4>4. QED BY <2>8, <3>1, <4>1, <4>2, <4>3
    <3>4. CASE n # 1
      <4>1. 1 \in 1 .. n - 1 BY <1>1, <2>1, <3>4
      <4>2. (f \o <<m>>)[1] = f[1] /\ f[1] = list[1] BY <2>2, <4>1
      <4>3. QED BY <3>1, <3>2, <4>2
    <3>5. QED BY <3>3, <3>4
  <2>19. QED BY <2>9, <2>14, <2>15, <2>16, <2>17, <2>18
<1>5. CASE ~(list # <<>> /\ Len(Last(list).data) + Len(queue[1].data) <= MSS)
  <2>1. Linked(list, queue) = list \o queue BY <1>5 DEF Linked
  <2>2. QED BY <1>3, <2>1
<1>6. QED BY <1>4, <1>5

-----------------------------------------------------------------------------
(***************************************************************************)
(* The writer's side: its lists hold the bytes from the last that is       *)
(* acknowledged to the last that was written.                              *)
(***************************************************************************)
Snd ==
    [unsent : Seq(Segments), unacked : Seq(Segments), state : {"ESTABLISHED", "CLOSED"},
     max : SeqNos, lastack : SeqNos, lbb : SeqNos, wnd : Nat, wl1 : Edges \cup {"same"},
     wl2 : SeqNos, buf : 0 .. SndBuf, queuelen : Nat, dupacks : 0 .. 3, infr : BOOLEAN,
     nrtx : 0 .. NrtxWord - 1]

All(s) == s.unacked \o s.unsent

\* The bytes from k to l are in the list, the k-th and later ones alone.
Holds(all, k, l) ==
    \E a \in 0 .. Total :
        /\ Tiles(all, a, l)
        /\ a <= k
        /\ all # <<>> => k < EndOf(all[1])
        /\ all = <<>> => k = l

SndInv(s) ==
    /\ s \in Snd
    /\ Position(s.lastack) <= Position(s.max)
    /\ Position(s.max) <= Position(s.lbb)
    /\ s.buf + Position(s.lbb) - Position(s.lastack) = SndBuf - 1
    /\ IF s.state = "ESTABLISHED"
       THEN Holds(All(s), Position(s.lastack), Position(s.lbb)) /\ s.queuelen = Bufs(All(s))
       ELSE s.unacked = <<>> /\ s.unsent = <<>>

LEMMA StreamNumbers ==
    ASSUME NEW x \in SeqNos
    PROVE  x \in 0 .. SeqWord - 1 /\ Position(x) \in 0 .. Total /\ Position(x) \in Nat
BY PositionIs, HalfTheRange DEF SeqNos

\* The fields that tcp_enqueue writes.
Renewed(s, x, y, l, b, q) ==
    [s EXCEPT !.unsent = y, !.unacked = x, !.lbb = l, !.buf = b, !.queuelen = q]

RenewedAs(s, o, x, y, l, b, q) ==
    /\ o \in Snd /\ o.unsent = y /\ o.unacked = x /\ o.lbb = l
    /\ o.buf = b /\ o.queuelen = q
    /\ o.state = s.state /\ o.lastack = s.lastack /\ o.max = s.max
    /\ o.wnd = s.wnd /\ o.wl1 = s.wl1 /\ o.wl2 = s.wl2

LEMMA SndRenewed ==
    ASSUME NEW s \in Snd, NEW x \in Seq(Segments), NEW y \in Seq(Segments), NEW l \in SeqNos,
           NEW b \in 0 .. SndBuf, NEW q \in Nat
    PROVE  RenewedAs(s, Renewed(s, x, y, l, b, q), x, y, l, b, q)
<1> DEFINE o == Renewed(s, x, y, l, b, q)
<1>1. o \in Snd BY DEF Snd, Renewed
<1>2. /\ o.unsent = y /\ o.unacked = x /\ o.lbb = l /\ o.buf = b /\ o.queuelen = q
      /\ o.state = s.state /\ o.lastack = s.lastack /\ o.max = s.max
      /\ o.wnd = s.wnd /\ o.wl1 = s.wl1 /\ o.wl2 = s.wl2
  BY DEF Snd, Renewed
<1> HIDE DEF o
<1>3. RenewedAs(s, o, x, y, l, b, q) BY <1>1, <1>2 DEF RenewedAs
<1>4. QED BY <1>3 DEF o

\* Both lists of a socket in one.
LEMMA Joined ==
    ASSUME NEW x \in Seq(Segments), NEW y \in Seq(Segments)
    PROVE  /\ x \o y \in Seq(Segments) /\ Len(x \o y) = Len(x) + Len(y)
           /\ Len(x) \in Nat /\ Len(y) \in Nat
           /\ \A i \in 1 .. Len(x) : (x \o y)[i] = x[i]
           /\ \A i \in 1 .. Len(x) : i \in 1 .. Len(x \o y)
           /\ \A i \in 1 .. Len(y) : Len(x) + i \in 1 .. Len(x \o y) /\ (x \o y)[Len(x) + i] = y[i]
<1>1. x \o y \in Seq(Segments) /\ Len(x \o y) = Len(x) + Len(y) /\ Len(x) \in Nat /\ Len(y) \in Nat
  OBVIOUS
<1>2. \A i \in 1 .. Len(x) : (x \o y)[i] = x[i] OBVIOUS
<1>3. \A i \in 1 .. Len(y) : (x \o y)[Len(x) + i] = y[i] OBVIOUS
<1> DEFINE m == Len(x)
           n == Len(y)
           p == Len(x \o y)
<1>4. m \in Nat /\ n \in Nat /\ p = m + n BY <1>1
<1> HIDE DEF m, n, p
<1>5. \A i \in 1 .. m : i \in 1 .. p BY <1>4
<1>6. \A i \in 1 .. n : m + i \in 1 .. p BY <1>4
<1>7. QED BY <1>1, <1>2, <1>3, <1>5, <1>6 DEF m, n, p

LEMMA Regrouped ==
    ASSUME NEW x \in Seq(Segments), NEW y \in Seq(Segments), NEW z \in Seq(Segments)
    PROVE  (x \o y) \o z = x \o (y \o z)
BY ConcatAssociative

\* Nothing in the list is acknowledged.
LEMMA HoldsAhead ==
    ASSUME NEW all \in Seq(Segments), NEW k \in 0 .. Total, NEW l \in 0 .. Total, Holds(all, k, l)
    PROVE  /\ \A i \in 1 .. Len(all) : k < EndOf(all[i]) /\ EndOf(all[i]) <= l
           /\ k <= l
<1>1. PICK a \in 0 .. Total : /\ Tiles(all, a, l) /\ a <= k
                              /\ all # <<>> => k < EndOf(all[1])
                              /\ all = <<>> => k = l
  BY DEF Holds
<1>2. Len(all) \in Nat /\ \A i \in 1 .. Len(all) : all[i] \in Segments /\ EndOf(all[i]) <= l
  BY <1>1, TilesAre
<1>3. \A i, j \in 1 .. Len(all) : i < j => EndOf(all[i]) <= Starts(all[j]) BY <1>1, TilesAre
<1>4. ASSUME NEW i \in 1 .. Len(all) PROVE k < EndOf(all[i]) /\ EndOf(all[i]) <= l
  <2>1. 1 \in 1 .. Len(all) /\ all # <<>> BY <1>2
  <2>2. k < EndOf(all[1]) BY <1>1, <2>1
  <2>3. /\ EndOf(all[i]) \in 0 .. Total /\ EndOf(all[1]) \in 0 .. Total /\ Starts(all[i]) \in 0 .. Total
        /\ Starts(all[i]) < EndOf(all[i])
    BY <1>2, <2>1, SegmentIs
  <2>4. i = 1 \/ 1 < i OBVIOUS
  <2>5. 1 < i => EndOf(all[1]) <= Starts(all[i]) BY <1>3, <2>1
  <2>6. EndOf(all[i]) <= l BY <1>2
  <2>7. QED BY <2>2, <2>3, <2>4, <2>5, <2>6, HalfTheRange
<1>5. k <= l
  <2>1. CASE all = <<>> BY <1>1, <2>1
  <2>2. CASE all # <<>>
    <3>1. 1 \in 1 .. Len(all) BY <1>2, <2>2
    <3>2. EndOf(all[1]) \in 0 .. Total BY <1>2, <3>1, SegmentIs
    <3>3. QED BY <1>4, <3>1, <3>2
  <2>3. QED BY <2>1, <2>2
<1>6. QED BY <1>4, <1>5

\* How far a segment reaches beyond the last acknowledgement.
LEMMA Reaches ==
    ASSUME NEW x \in 0 .. SeqWord - 1, NEW y \in 0 .. SeqWord - 1, NEW n \in Nat,
           Position(x) + n <= Total, Position(y) < Position(x) + n
    PROVE  SeqAdd(x - y + SeqWord, n) = Position(x) + n - Position(y)
<1>1. n <= Total BY PositionIs, HalfTheRange
<1>2. x - y + SeqWord + n \in Nat /\ x - y + SeqWord + n < 3 * SeqWord BY <1>1, HalfTheRange
<1> DEFINE v == x - y + SeqWord + n
<1>3. v % SeqWord = IF v < SeqWord THEN v ELSE IF v < 2 * SeqWord THEN v - SeqWord ELSE v - 2 * SeqWord
  BY <1>2, WrapIs
<1>4. SeqAdd(x - y + SeqWord, n) = v % SeqWord BY DEF SeqAdd
<1>5. QED BY <1>1, <1>3, <1>4, PositionIs, HalfTheRange

LEMMA FitsIs ==
    ASSUME NEW s \in Snd, NEW cwnd \in Nat, NEW g \in Segments, Fits(s, cwnd, g),
           Position(s.lastack) < EndOf(g)
    PROVE  EndOf(g) <= Position(s.lastack) + s.wnd
<1>1. s.lastack \in SeqNos /\ s.wnd \in Nat BY DEF Snd
<1>2. /\ g.seq \in SeqNos /\ Len(g.data) \in Nat /\ EndOf(g) <= Total
      /\ EndOf(g) = Position(g.seq) + Len(g.data)
  BY SegmentIs, HalfTheRange
<1>3. SeqAdd(g.seq - s.lastack + SeqWord, Len(g.data)) = EndOf(g) - Position(s.lastack)
  BY <1>1, <1>2, StreamNumbers, Reaches
<1>4. EndOf(g) - Position(s.lastack) <= s.wnd BY <1>1, <1>2, <1>3, StreamNumbers DEF Fits
<1>5. Position(s.lastack) \in Nat /\ EndOf(g) \in Nat BY <1>1, SegmentIs, StreamNumbers
<1>6. QED BY <1>1, <1>4, <1>5

LEMMA OutputIs ==
    ASSUME NEW s, SndInv(s), NEW cwnd \in Nat
    PROVE  LET o == TcpOutput(s, cwnd)
           IN  /\ o \in Snd
               /\ o = [s EXCEPT !.unsent = o.unsent, !.unacked = o.unacked, !.max = o.max]
               /\ All(o) = All(s)
               /\ Position(s.max) <= Position(o.max) /\ Position(o.max) <= Position(s.lbb)
               /\ \A g \in ToSet(Sendable(s, cwnd)) :
                     /\ g \in Segments /\ EndOf(g) <= Position(o.max)
                     /\ EndOf(g) <= Position(s.lastack) + s.wnd
                     /\ s.state = "ESTABLISHED"
<1> DEFINE len == Len(s.unsent)
           n == Leading(len, {i \in 1 .. len : Fits(s, cwnd, s.unsent[i])})
           sent == SubSeq(s.unsent, 1, n)
           rest == SubSeq(s.unsent, n + 1, len)
           o == TcpOutput(s, cwnd)
           last == SegEnd(s.unsent[n])
<1>1. /\ s \in Snd /\ s.unsent \in Seq(Segments) /\ s.unacked \in Seq(Segments)
      /\ s.max \in SeqNos /\ s.lastack \in SeqNos /\ s.lbb \in SeqNos
      /\ Position(s.max) <= Position(s.lbb)
  BY DEF SndInv, Snd
<1>2. len \in Nat /\ Len(s.unacked) \in Nat BY <1>1
<1>3. n \in 0 .. len /\ \A i \in 1 .. n : Fits(s, cwnd, s.unsent[i])
  <2>1. n \in 0 .. len /\ \A i \in 1 .. n : i \in {j \in 1 .. len : Fits(s, cwnd, s.unsent[j])}
    BY <1>2, LeadingIs
  <2>2. QED BY <2>1
<1>4. Sendable(s, cwnd) = sent BY DEF Sendable
<1> HIDE DEF n
<1>5. sent \in Seq(Segments) /\ Len(sent) = n /\ \A i \in 1 .. n : sent[i] = s.unsent[i]
  BY <1>1, <1>2, <1>3
<1>6. rest \in Seq(Segments) BY <1>1, <1>2, <1>3
<1>7. CASE n = 0
  <2>1. sent = <<>> BY <1>5, <1>7
  <2>2. o = s BY <1>4, <2>1 DEF TcpOutput
  <2>3. s = [s EXCEPT !.unsent = s.unsent, !.unacked = s.unacked, !.max = s.max] BY <1>1 DEF Snd
  <2>4. ToSet(Sendable(s, cwnd)) = {}
    <3>1. Sendable(s, cwnd) = <<>> BY <1>4, <2>1
    <3>2. ToSet(<<>>) = {} BY DEF ToSet
    <3>3. QED BY <3>1, <3>2
  <2>5. Position(s.max) \in Nat BY <1>1, StreamNumbers
  <2> HIDE DEF o
  <2>6. QED BY <1>1, <2>2, <2>3, <2>4, <2>5 DEF o
<1>8. CASE n # 0
  <2>1. s.state = "ESTABLISHED" /\ Holds(All(s), Position(s.lastack), Position(s.lbb))
    <3>1. SUFFICES ASSUME s.state # "ESTABLISHED" PROVE FALSE BY DEF SndInv
    <3>2. s.unsent = <<>> BY <3>1 DEF SndInv
    <3>3. QED BY <1>3, <1>8, <3>2
  <2>2. \A i \in 1 .. len : s.unsent[i] \in Segments /\ Position(s.lastack) < EndOf(s.unsent[i])
                            /\ EndOf(s.unsent[i]) <= Position(s.lbb)
    <3>1. SUFFICES ASSUME NEW i \in 1 .. len
                   PROVE  s.unsent[i] \in Segments /\ Position(s.lastack) < EndOf(s.unsent[i])
                          /\ EndOf(s.unsent[i]) <= Position(s.lbb)
      OBVIOUS
    <3>2. All(s) \in Seq(Segments) /\ Len(All(s)) = Len(s.unacked) + len
          /\ All(s)[Len(s.unacked) + i] = s.unsent[i]
          /\ Len(s.unacked) + i \in 1 .. Len(All(s))
      BY <1>1, Joined DEF All
    <3>5. Position(s.lastack) \in 0 .. Total /\ Position(s.lbb) \in 0 .. Total BY <1>1, StreamNumbers
    <3>6. s.unsent[i] \in Segments BY <1>1
    <3>7. \A j \in 1 .. Len(All(s)) : Position(s.lastack) < EndOf(All(s)[j])
                                      /\ EndOf(All(s)[j]) <= Position(s.lbb)
      BY <2>1, <3>2, <3>5, HoldsAhead
    <3>8. QED BY <3>2, <3>6, <3>7
  <2>3. PICK a \in 0 .. Total : Tiles(All(s), a, Position(s.lbb)) BY <2>1 DEF Holds
  <2>4. PICK b \in a .. Position(s.lbb) : Tiles(s.unsent, b, Position(s.lbb))
    BY <1>1, <2>3, TilesPart DEF All
  <2>5. b \in 0 .. Total BY <1>1, StreamNumbers, HalfTheRange
  <2>6. \A i, j \in 1 .. len : i < j => EndOf(s.unsent[i]) <= Starts(s.unsent[j])
    BY <2>4, <2>5, TilesAre
  <2>7. n \in 1 .. len BY <1>3, <1>8, <1>2
  <2>8. \A i \in 1 .. n : EndOf(s.unsent[i]) <= EndOf(s.unsent[n])
    <3>1. SUFFICES ASSUME NEW i \in 1 .. n PROVE EndOf(s.unsent[i]) <= EndOf(s.unsent[n]) OBVIOUS
    <3>2. i \in 1 .. len /\ (i < n \/ i = n) BY <1>2, <2>7
    <3>3. Starts(s.unsent[n]) < EndOf(s.unsent[n]) /\ Starts(s.unsent[n]) \in Nat
          /\ EndOf(s.unsent[n]) \in Nat /\ EndOf(s.unsent[i]) \in Nat
      BY <2>2, <2>7, <3>2, SegmentIs
    <3>4. QED BY <2>6, <2>7, <3>2, <3>3
  <2>9. last \in SeqNos /\ Position(last) = EndOf(s.unsent[n]) BY <2>2, <2>7, SegmentIs
  <2> DEFINE max == IF SeqLT(s.max, last) THEN last ELSE s.max
  <2>10. max \in SeqNos /\ Position(s.max) <= Position(max) /\ Position(last) <= Position(max)
         /\ Position(max) <= Position(s.lbb)
    <3>1. SeqLT(s.max, last) <=> Position(s.max) < Position(last) BY <1>1, <2>9, ComparePositions
    <3>2. Position(s.max) \in Nat /\ Position(last) \in Nat BY <1>1, <2>9, StreamNumbers
    <3>3. Position(last) <= Position(s.lbb) BY <2>2, <2>7, <2>9
    <3>4. QED BY <1>1, <2>9, <3>1, <3>2, <3>3
  <2>11. sent # <<>> /\ sent[Len(sent)] = s.unsent[n] BY <1>5, <2>7
  <2>12. o = [s EXCEPT !.unsent = rest, !.unacked = @ \o sent, !.max = max]
    BY <1>4, <1>5, <2>11 DEF TcpOutput
  <2>13. s.unacked \o sent \in Seq(Segments) BY <1>1, <1>5
  <2> HIDE DEF sent, rest, max, o, last
  <2>14. o.unsent = rest /\ o.unacked = s.unacked \o sent /\ o.max = max /\ o \in Snd
    BY <1>1, <1>6, <2>10, <2>12, <2>13 DEF Snd
  <2>15. o = [s EXCEPT !.unsent = o.unsent, !.unacked = o.unacked, !.max = o.max]
    BY <2>12, <2>14
  <2>16. All(o) = All(s)
    <3>1. s.unsent = sent \o rest BY <1>3, <2>4, <2>5, TilesRest DEF sent, rest
    <3>2. (s.unacked \o sent) \o rest = s.unacked \o (sent \o rest) BY <1>1, <1>5, <1>6, Regrouped
    <3>3. QED BY <2>14, <3>1, <3>2 DEF All
  <2>17. ASSUME NEW g \in ToSet(Sendable(s, cwnd))
         PROVE  g \in Segments /\ EndOf(g) <= Position(max) /\ EndOf(g) <= Position(s.lastack) + s.wnd
    <3>1. PICK i \in 1 .. n : g = s.unsent[i] BY <1>4, <1>5 DEF ToSet
    <3>2. i \in 1 .. len BY <1>2, <2>7
    <3>3. g \in Segments /\ Position(s.lastack) < EndOf(g) /\ EndOf(g) <= Position(last)
      BY <2>2, <2>8, <2>9, <3>1, <3>2
    <3>4. EndOf(g) <= Position(s.lastack) + s.wnd BY <1>1, <1>3, <3>1, <3>3, FitsIs
    <3>5. EndOf(g) \in Nat /\ Position(last) \in Nat /\ Position(max) \in Nat
      BY <2>9, <2>10, <3>3, SegmentIs, StreamNumbers
    <3>6. QED BY <2>10, <3>3, <3>4, <3>5
  <2>18. QED BY <2>1, <2>10, <2>14, <2>15, <2>16, <2>17 DEF o
<1>9. QED BY <1>7, <1>8

\* What keeps the bytes of a socket and all that is counted of them.
LEMMA SameStretch ==
    ASSUME NEW s, SndInv(s), NEW r \in Snd, All(r) = All(s), r.state = s.state,
           r.lastack = s.lastack, r.lbb = s.lbb, r.buf = s.buf, r.queuelen = s.queuelen,
           Position(s.lastack) <= Position(r.max), Position(r.max) <= Position(s.lbb)
    PROVE  SndInv(r)
<1>1. /\ r.unacked \in Seq(Segments) /\ r.unsent \in Seq(Segments)
      /\ s.buf + Position(s.lbb) - Position(s.lastack) = SndBuf - 1
  BY DEF Snd, SndInv
<1>2. CASE s.state = "ESTABLISHED" BY <1>1, <1>2 DEF SndInv
<1>3. CASE s.state # "ESTABLISHED"
  <2>1. All(s) = <<>> BY <1>3 DEF SndInv, All
  <2>2. r.unacked \o r.unsent = <<>> BY <2>1 DEF All
  <2>3. r.unacked = <<>> /\ r.unsent = <<>> BY <1>1, <2>2
  <2>4. QED BY <1>1, <1>3, <2>3 DEF SndInv
<1>4. QED BY <1>2, <1>3

LEMMA OutputKeeps ==
    ASSUME NEW s, SndInv(s), NEW cwnd \in Nat
    PROVE  SndInv(TcpOutput(s, cwnd))
<1> DEFINE o == TcpOutput(s, cwnd)
<1>1. /\ o \in Snd /\ All(o) = All(s)
      /\ o = [s EXCEPT !.unsent = o.unsent, !.unacked = o.unacked, !.max = o.max]
      /\ Position(s.max) <= Position(o.max) /\ Position(o.max) <= Position(s.lbb)
  BY OutputIs
<1>2. s \in Snd /\ Position(s.lastack) <= Position(s.max) BY DEF SndInv
<1> HIDE DEF o
<1>3. /\ o.state = s.state /\ o.lastack = s.lastack /\ o.lbb = s.lbb /\ o.buf = s.buf
      /\ o.queuelen = s.queuelen
  BY <1>1, <1>2 DEF Snd
<1>4. Position(s.lastack) <= Position(o.max)
  <2>1. s.lastack \in SeqNos /\ s.max \in SeqNos /\ o.max \in SeqNos BY <1>1, <1>2 DEF Snd
  <2>2. QED BY <1>1, <1>2, <2>1, StreamNumbers
<1>5. SndInv(o) BY <1>1, <1>3, <1>4, SameStretch
<1>6. QED BY <1>5 DEF o

LEMMA RexmitKeeps ==
    ASSUME NEW s, SndInv(s)
    PROVE  LET r == TcpRexmit(s)
           IN  /\ SndInv(r)
               /\ r = [s EXCEPT !.unsent = r.unsent, !.unacked = r.unacked, !.nrtx = r.nrtx]
<1> DEFINE r == TcpRexmit(s)
<1>1. s \in Snd /\ s.unacked \in Seq(Segments) /\ s.unsent \in Seq(Segments) /\ s.nrtx \in 0 .. NrtxWord - 1
  BY DEF SndInv, Snd
<1>2. (s.nrtx + 1) % NrtxWord \in 0 .. NrtxWord - 1
  <2>1. NrtxWord \in Nat \ {0} BY TcpConstants
  <2>2. s.nrtx + 1 \in Nat BY <1>1, <2>1
  <2>3. QED BY <2>1, <2>2
<1>3. s.unacked \o s.unsent \in Seq(Segments) /\ <<>> \in Seq(Segments) BY <1>1
<1> DEFINE n == (s.nrtx + 1) % NrtxWord
           u == s.unacked \o s.unsent
<1>4. r = [s EXCEPT !.unsent = u, !.unacked = <<>>, !.nrtx = n] BY DEF TcpRexmit
<1>5. n \in 0 .. NrtxWord - 1 /\ u \in Seq(Segments) BY <1>2, <1>3
<1>6. <<>> \o u = u BY <1>5
<1>7. All(s) = u BY DEF All
<1> HIDE DEF r, n, u
<1>8. /\ r \in Snd /\ r.unsent = u /\ r.unacked = <<>> /\ r.nrtx = n
      /\ r.state = s.state /\ r.lastack = s.lastack /\ r.lbb = s.lbb /\ r.buf = s.buf
      /\ r.queuelen = s.queuelen /\ r.max = s.max
  BY <1>1, <1>3, <1>4, <1>5 DEF Snd
<1>9. All(r) = All(s) BY <1>6, <1>7, <1>8 DEF All
<1>10. Position(s.lastack) <= Position(r.max) /\ Position(r.max) <= Position(s.lbb) BY <1>8 DEF SndInv
<1>11. SndInv(r) BY <1>8, <1>9, <1>10, SameStretch
<1>12. r = [s EXCEPT !.unsent = r.unsent, !.unacked = r.unacked, !.nrtx = r.nrtx] BY <1>4, <1>8
<1>13. QED BY <1>11, <1>12 DEF r

-----------------------------------------------------------------------------
(***************************************************************************)
(* An acknowledgement arrives.                                             *)
(***************************************************************************)
Acks == [ack : SeqNos, wnd : Nat]

\* The acknowledgement has news of the window.
News(s, m) ==
    \/ s.wl1 = "older"
    \/ s.wl1 = "same" /\ SeqLT(s.wl2, m.ack)
    \/ s.wl2 = m.ack /\ m.wnd > s.wnd

\* What an update of the window changes, and what it keeps.
Updated(s, m, w) ==
    IF News(s, m) THEN w.wnd = m.wnd /\ w.wl1 = "same" /\ w.wl2 = m.ack
                  ELSE w.wnd = s.wnd /\ w.wl1 = s.wl1 /\ w.wl2 = s.wl2

LEMMA WindowKeeps ==
    ASSUME NEW s, SndInv(s), NEW m \in Acks
    PROVE  LET w == WindowUpdate(s, m)
           IN  /\ SndInv(w) /\ Updated(s, m, w)
               /\ w.state = s.state /\ w.lastack = s.lastack /\ w.max = s.max /\ w.lbb = s.lbb
<1> DEFINE w == WindowUpdate(s, m)
<1>1. s \in Snd BY DEF SndInv
<1>2. w = IF News(s, m) THEN [s EXCEPT !.wnd = m.wnd, !.wl1 = "same", !.wl2 = m.ack] ELSE s
  BY DEF WindowUpdate, News
<1>3. m.ack \in SeqNos /\ m.wnd \in Nat BY DEF Acks
<1> HIDE DEF w
<1>4. /\ w \in Snd
      /\ w.state = s.state /\ w.lastack = s.lastack /\ w.max = s.max /\ w.lbb = s.lbb
      /\ w.buf = s.buf /\ w.queuelen = s.queuelen
      /\ w.unacked = s.unacked /\ w.unsent = s.unsent
  BY <1>1, <1>2, <1>3 DEF Snd
<1>5. Updated(s, m, w) BY <1>1, <1>2 DEF Updated, Snd
<1>6. All(w) = All(s) BY <1>4 DEF All
<1>7. Position(s.lastack) <= Position(w.max) /\ Position(w.max) <= Position(s.lbb) BY <1>4 DEF SndInv
<1>8. SndInv(w) BY <1>4, <1>6, <1>7, SameStretch
<1>9. QED BY <1>4, <1>5, <1>8 DEF w

LEMMA DuplicateKeeps ==
    ASSUME NEW s, SndInv(s), NEW edge
    PROVE  LET d == Duplicate(s, edge)
           IN  /\ SndInv(d)
               /\ d.state = s.state /\ d.lastack = s.lastack /\ d.max = s.max /\ d.lbb = s.lbb
               /\ d.wnd = s.wnd /\ d.wl1 = s.wl1 /\ d.wl2 = s.wl2
<1> DEFINE n == IF s.dupacks < 3 THEN s.dupacks + 1 ELSE 3
           d == [s EXCEPT !.dupacks = n]
           r == TcpRexmit(d)
           f == [r EXCEPT !.infr = TRUE]
           x == Duplicate(s, edge)
<1>1. s \in Snd /\ s.dupacks \in 0 .. 3 BY DEF SndInv, Snd
<1>2. n \in 0 .. 3 BY <1>1
<1>3. x = s \/ x = d \/ x = f BY DEF Duplicate
<1> HIDE DEF n
<1>4. /\ d \in Snd
      /\ d.state = s.state /\ d.lastack = s.lastack /\ d.max = s.max /\ d.lbb = s.lbb
      /\ d.wnd = s.wnd /\ d.wl1 = s.wl1 /\ d.wl2 = s.wl2
      /\ d.buf = s.buf /\ d.queuelen = s.queuelen /\ d.unacked = s.unacked /\ d.unsent = s.unsent
  BY <1>1, <1>2 DEF Snd
<1> HIDE DEF d
<1>5. SndInv(d)
  <2>1. All(d) = All(s) BY <1>4 DEF All
  <2>2. Position(s.lastack) <= Position(d.max) /\ Position(d.max) <= Position(s.lbb) BY <1>4 DEF SndInv
  <2>3. QED BY <1>4, <2>1, <2>2, SameStretch
<1>6. SndInv(r) /\ r = [d EXCEPT !.unsent = r.unsent, !.unacked = r.unacked, !.nrtx = r.nrtx]
  BY <1>5, RexmitKeeps
<1> HIDE DEF r
<1>7. /\ r \in Snd /\ r.state = d.state /\ r.lastack = d.lastack /\ r.max = d.max /\ r.lbb = d.lbb
      /\ r.wnd = d.wnd /\ r.wl1 = d.wl1 /\ r.wl2 = d.wl2
  <2>1. r \in Snd /\ d \in Snd BY <1>4, <1>6 DEF SndInv
  <2>2. QED BY <1>6, <2>1 DEF Snd
<1>8. /\ f \in Snd
      /\ f.state = r.state /\ f.lastack = r.lastack /\ f.max = r.max /\ f.lbb = r.lbb
      /\ f.wnd = r.wnd /\ f.wl1 = r.wl1 /\ f.wl2 = r.wl2
      /\ f.buf = r.buf /\ f.queuelen = r.queuelen /\ f.unacked = r.unacked /\ f.unsent = r.unsent
  BY <1>7 DEF Snd
<1> HIDE DEF f
<1>9. SndInv(f)
  <2>1. All(f) = All(r) BY <1>8 DEF All
  <2>2. Position(r.lastack) <= Position(f.max) /\ Position(f.max) <= Position(r.lbb)
    BY <1>6, <1>8 DEF SndInv
  <2>3. QED BY <1>6, <1>8, <2>1, <2>2, SameStretch
<1> HIDE DEF x
<1>10. SndInv(x) BY <1>3, <1>5, <1>9
<1>11. /\ x.state = s.state /\ x.lastack = s.lastack /\ x.max = s.max /\ x.lbb = s.lbb
       /\ x.wnd = s.wnd /\ x.wl1 = s.wl1 /\ x.wl2 = s.wl2
  BY <1>3, <1>4, <1>7, <1>8
<1>12. QED BY <1>10, <1>11 DEF x

\* The segments that are acknowledged are dropped from a list.
AckDrops(list, rest, a, b, ack) ==
    /\ rest \in Seq(Segments)
    /\ Bufs(list) \in Nat /\ Bufs(rest) \in Nat /\ Bufs(rest) <= Bufs(list)
    /\ rest # <<>> => Position(ack) < EndOf(rest[1])
    /\ \E z \in 0 .. Total : Tiles(rest, z, b) /\ (z = a \/ z <= Position(ack))
    /\ (\A i \in 1 .. Len(list) : Position(ack) < EndOf(list[i])) => rest = list

LEMMA DropAcked ==
    ASSUME NEW list, NEW a \in 0 .. Total, NEW b, Tiles(list, a, b), NEW ack \in SeqNos
    PROVE  AckDrops(list, Unacknowledged(list, ack), a, b, ack)
<1> DEFINE len == Len(list)
           G == {i \in 1 .. len : SeqLEQ(SegEnd(list[i]), ack)}
           n == Leading(len, G)
           rest == SubSeq(list, n + 1, len)
           gone == SubSeq(list, 1, n)
           k == Position(ack)
<1>1. len \in Nat /\ list \in Seq(Segments) /\ \A i \in 1 .. len : list[i] \in Segments BY TilesAre
<1>2. Unacknowledged(list, ack) = rest BY DEF Unacknowledged
<1>3. n \in 0 .. len /\ (\A i \in 1 .. n : i \in G) /\ (n < len => n + 1 \notin G) BY <1>1, LeadingIs
<1>4. \A i \in 1 .. len : i \in G <=> EndOf(list[i]) <= k
  <2>1. SUFFICES ASSUME NEW i \in 1 .. len PROVE SeqLEQ(SegEnd(list[i]), ack) <=> EndOf(list[i]) <= k
    OBVIOUS
  <2>2. SegEnd(list[i]) \in SeqNos /\ Position(SegEnd(list[i])) = EndOf(list[i]) BY <1>1, SegmentIs
  <2>3. QED BY <2>2, ComparePositions
<1>5. k \in Nat BY StreamNumbers
<1> HIDE DEF n, G
<1>6. /\ list = gone \o rest /\ gone \in Seq(Segments) /\ rest \in Seq(Segments)
      /\ n < len => rest # <<>> /\ rest[1] = list[n + 1]
      /\ n = len => rest = <<>>
      /\ Tiles(rest, IF n = 0 THEN a ELSE EndOf(list[n]), b)
  BY <1>3, TilesRest
<1> HIDE DEF rest, gone, k, len
<1>7. Bufs(list) = Bufs(gone) + Bufs(rest) /\ Bufs(gone) \in Nat /\ Bufs(rest) \in Nat
  BY <1>6, BufsJoin
<1>8. ASSUME rest # <<>> PROVE k < EndOf(rest[1])
  <2>1. n < len
    <3>1. n # len BY <1>6, <1>8
    <3>2. QED BY <1>1, <1>3, <3>1
  <2>2. n + 1 \in 1 .. len /\ n + 1 \notin G BY <1>1, <1>3, <2>1
  <2>3. ~(EndOf(list[n + 1]) <= k) BY <1>4, <2>2
  <2>4. EndOf(list[n + 1]) \in Nat BY <1>1, <2>2, SegmentIs
  <2>5. k < EndOf(list[n + 1]) BY <1>5, <2>3, <2>4
  <2>6. QED BY <1>6, <2>1, <2>5
<1>9. \E z \in 0 .. Total : Tiles(rest, z, b) /\ (z = a \/ z <= k)
  <2>1. CASE n = 0 BY <1>6, <2>1
  <2>2. CASE n # 0
    <3>1. n \in 1 .. n /\ n \in 1 .. len BY <1>1, <1>3, <2>2
    <3>2. EndOf(list[n]) <= k BY <1>3, <1>4, <3>1
    <3>3. EndOf(list[n]) \in 0 .. Total BY <1>1, <3>1, SegmentIs
    <3>4. QED BY <1>6, <2>2, <3>2, <3>3
  <2>3. QED BY <2>1, <2>2
<1>10. ASSUME \A i \in 1 .. len : k < EndOf(list[i]) PROVE rest = list
  <2>1. n = 0
    <3>1. SUFFICES ASSUME n # 0 PROVE FALSE OBVIOUS
    <3>2. 1 \in 1 .. n /\ 1 \in 1 .. len BY <1>1, <1>3, <3>1
    <3>3. EndOf(list[1]) <= k BY <1>3, <1>4, <3>2
    <3>4. k < EndOf(list[1]) /\ EndOf(list[1]) \in Nat BY <1>1, <1>10, <3>2, SegmentIs
    <3>5. QED BY <1>5, <3>3, <3>4
  <2>2. gone = <<>> BY <2>1 DEF gone
  <2>3. QED BY <1>6, <2>2
<1>11. Bufs(rest) <= Bufs(list) /\ Bufs(list) \in Nat BY <1>7
<1>12. AckDrops(list, rest, a, b, ack)
  BY <1>6, <1>7, <1>8, <1>9, <1>10, <1>11 DEF k, len, AckDrops
<1>13. QED BY <1>2, <1>12

\* What has been acknowledged before, or not been sent, drops nothing.
LEMMA UnsentKept ==
    ASSUME NEW s, SndInv(s), s.state = "ESTABLISHED", NEW ack \in SeqNos,
           Position(ack) <= Position(s.lastack) \/ Position(ack) > Position(s.max)
    PROVE  UnsentAcked(s, ack) = s
<1> DEFINE rest == IF SeqLEQ(ack, s.max) THEN Unacknowledged(s.unsent, ack) ELSE s.unsent
<1>1. /\ s \in Snd /\ s.unsent \in Seq(Segments) /\ s.unacked \in Seq(Segments)
      /\ s.max \in SeqNos /\ s.lastack \in SeqNos /\ s.lbb \in SeqNos /\ s.queuelen \in Nat
      /\ Holds(All(s), Position(s.lastack), Position(s.lbb))
  BY DEF SndInv, Snd
<1>2. /\ Position(ack) \in Nat /\ Position(s.max) \in Nat /\ Position(s.lastack) \in 0 .. Total
      /\ Position(s.lbb) \in 0 .. Total
  BY <1>1, StreamNumbers
<1>3. rest = s.unsent
  <2>1. CASE Position(ack) > Position(s.max)
    <3>1. ~ SeqLEQ(ack, s.max) BY <1>1, <1>2, <2>1, ComparePositions
    <3>2. QED BY <3>1
  <2>2. CASE Position(ack) <= Position(s.lastack)
    <3>1. PICK a \in 0 .. Total : Tiles(All(s), a, Position(s.lbb)) BY <1>1 DEF Holds
    <3>2. PICK b \in a .. Position(s.lbb) : Tiles(s.unsent, b, Position(s.lbb))
      BY <1>1, <3>1, TilesPart DEF All
    <3>3. b \in 0 .. Total BY <1>2, HalfTheRange
    <3>4. ASSUME NEW i \in 1 .. Len(s.unsent) PROVE Position(ack) < EndOf(s.unsent[i])
      <4>1. All(s) \in Seq(Segments) /\ All(s)[Len(s.unacked) + i] = s.unsent[i]
            /\ Len(s.unacked) + i \in 1 .. Len(All(s))
        BY <1>1, Joined DEF All
      <4>2. \A j \in 1 .. Len(All(s)) : Position(s.lastack) < EndOf(All(s)[j])
        BY <1>1, <1>2, <4>1, HoldsAhead
      <4>3. Position(s.lastack) < EndOf(s.unsent[i]) BY <4>1, <4>2
      <4>4. s.unsent[i] \in Segments BY <1>1
      <4>5. EndOf(s.unsent[i]) \in Nat BY <4>4, SegmentIs
      <4>6. QED BY <1>2, <2>2, <4>3, <4>5
    <3>5. Unacknowledged(s.unsent, ack) = s.unsent
      <4>1. AckDrops(s.unsent, Unacknowledged(s.unsent, ack), b, Position(s.lbb), ack)
        BY <3>2, <3>3, DropAcked
      <4>2. QED BY <3>4, <4>1 DEF AckDrops
    <3>6. QED BY <3>5
  <2>3. QED BY <2>1, <2>2
<1>4. Bufs(s.unsent) \in Nat
  <2>1. <<>> \in Seq(Segments) OBVIOUS
  <2>2. QED BY <1>1, <2>1, BufsJoin
<1>5. UnsentAcked(s, ack) = [s EXCEPT !.unsent = rest, !.queuelen = @ - (Bufs(s.unsent) - Bufs(rest))]
  BY DEF UnsentAcked
<1> HIDE DEF rest
<1>6. s.queuelen - (Bufs(s.unsent) - Bufs(rest)) = s.queuelen BY <1>1, <1>3, <1>4
<1>7. UnsentAcked(s, ack) = [s EXCEPT !.unsent = s.unsent, !.queuelen = s.queuelen] BY <1>3, <1>5, <1>6
<1>8. QED BY <1>1, <1>7 DEF Snd

\* What is left of the two lists is what is not acknowledged.
LEMMA RestHolds ==
    ASSUME NEW x \in Seq(Segments), NEW y \in Seq(Segments), NEW k \in 0 .. Total, NEW l \in 0 .. Total,
           Holds(x \o y, k, l), NEW ack \in SeqNos, k < Position(ack), Position(ack) <= l
    PROVE  LET rx == Unacknowledged(x, ack)
               ry == Unacknowledged(y, ack)
           IN  /\ rx \in Seq(Segments) /\ ry \in Seq(Segments)
               /\ Holds(rx \o ry, Position(ack), l)
               /\ Bufs(x \o y) - (Bufs(x) - Bufs(rx)) - (Bufs(y) - Bufs(ry)) = Bufs(rx \o ry)
               /\ Bufs(x) - Bufs(rx) \in Nat /\ Bufs(x) - Bufs(rx) <= Bufs(x \o y)
<1> DEFINE rx == Unacknowledged(x, ack)
           ry == Unacknowledged(y, ack)
           c  == Position(ack)
<1>1. PICK a \in 0 .. Total : Tiles(x \o y, a, l) /\ a <= k BY DEF Holds
<1>2. PICK m \in a .. l : Tiles(x, a, m) /\ Tiles(y, m, l) BY <1>1, TilesPart
<1>3. m \in 0 .. Total /\ c \in 0 .. Total BY StreamNumbers, HalfTheRange
<1>4. /\ rx \in Seq(Segments) /\ Bufs(x) \in Nat /\ Bufs(rx) \in Nat /\ Bufs(rx) <= Bufs(x)
      /\ rx # <<>> => c < EndOf(rx[1])
      /\ \E z \in 0 .. Total : Tiles(rx, z, m) /\ (z = a \/ z <= c)
  <2>1. AckDrops(x, rx, a, m, ack) BY <1>2, DropAcked
  <2>2. QED BY <2>1 DEF AckDrops
<1>5. /\ ry \in Seq(Segments) /\ Bufs(y) \in Nat /\ Bufs(ry) \in Nat /\ Bufs(ry) <= Bufs(y)
      /\ ry # <<>> => c < EndOf(ry[1])
      /\ \E z \in 0 .. Total : Tiles(ry, z, l) /\ (z = m \/ z <= c)
      /\ (\A i \in 1 .. Len(y) : c < EndOf(y[i])) => ry = y
  <2>1. AckDrops(y, ry, m, l, ack) BY <1>2, <1>3, DropAcked
  <2>2. QED BY <2>1 DEF AckDrops
<1> HIDE DEF rx, ry, c
<1>6. PICK z \in 0 .. Total : Tiles(rx, z, m) /\ (z = a \/ z <= c) BY <1>4
<1>7. z <= c BY <1>1, <1>3, <1>6 DEF c
<1>8. Bufs(x \o y) = Bufs(x) + Bufs(y) /\ Bufs(rx \o ry) = Bufs(rx) + Bufs(ry) BY <1>4, <1>5, BufsJoin
<1>9. Holds(rx \o ry, c, l)
  <2>1. CASE rx = <<>>
    <3>1. z = m BY <2>1, <1>6 DEF Tiles
    <3>2. PICK w \in 0 .. Total : Tiles(ry, w, l) /\ (w = m \/ w <= c) BY <1>5
    <3>3. w <= c BY <1>7, <3>1, <3>2
    <3>4. rx \o ry = ry BY <1>5, <2>1
    <3>5. ry = <<>> => c = l
      <4>1. ry = <<>> => w = l BY <3>2 DEF Tiles
      <4>2. QED BY <1>3, <3>3, <4>1 DEF c
    <3>6. QED BY <1>5, <3>2, <3>3, <3>4, <3>5 DEF Holds
  <2>2. CASE rx # <<>>
    <3>1. Len(rx) \in Nat /\ 1 \in 1 .. Len(rx) BY <1>4, <2>2
    <3>2. rx[1] \in Segments /\ EndOf(rx[1]) <= m BY <1>6, <3>1, TilesAre
    <3>3. c < EndOf(rx[1]) /\ EndOf(rx[1]) \in Nat
      <4>1. c < EndOf(rx[1]) BY <1>4, <2>2
      <4>2. EndOf(rx[1]) \in Nat BY <3>2, SegmentIs
      <4>3. QED BY <4>1, <4>2
    <3>4. c < m BY <1>3, <3>2, <3>3
    <3>5. ASSUME NEW i \in 1 .. Len(y) PROVE c < EndOf(y[i])
      <4>1. y[i] \in Segments /\ m <= Starts(y[i]) BY <1>2, <1>3, TilesAre
      <4>2. Starts(y[i]) < EndOf(y[i]) /\ Starts(y[i]) \in Nat /\ EndOf(y[i]) \in Nat BY <4>1, SegmentIs
      <4>3. QED BY <1>3, <3>4, <4>1, <4>2
    <3>6. ry = y BY <1>5, <3>5
    <3>7. Tiles(rx \o ry, z, l) BY <1>2, <1>6, <3>6, TilesJoin
    <3>8. rx \o ry # <<>> /\ (rx \o ry)[1] = rx[1] BY <1>4, <1>5, <3>1
    <3>9. QED BY <1>7, <3>3, <3>7, <3>8 DEF Holds
  <2>3. QED BY <2>1, <2>2
<1>10. /\ Bufs(x) \in Nat /\ Bufs(rx) \in Nat /\ Bufs(rx) <= Bufs(x)
       /\ Bufs(y) \in Nat /\ Bufs(ry) \in Nat
  BY <1>4, <1>5
<1>11. Bufs(x \o y) - (Bufs(x) - Bufs(rx)) - (Bufs(y) - Bufs(ry)) = Bufs(rx \o ry)
  BY <1>8, <1>10
<1>12. Bufs(x) - Bufs(rx) \in Nat /\ Bufs(x) - Bufs(rx) <= Bufs(x \o y) BY <1>8, <1>10
<1>13. QED BY <1>4, <1>5, <1>9, <1>11, <1>12 DEF rx, ry, c

\* New data is acknowledged: the lists are freed of it.
LEMMA ProgressIs ==
    ASSUME NEW s, SndInv(s), s.state = "ESTABLISHED", NEW ack \in SeqNos,
           Position(s.lastack) < Position(ack), Position(ack) <= Position(s.max)
    PROVE  LET u == UnsentAcked(Progress(s, ack), ack)
           IN  /\ SndInv(u) /\ u.lastack = ack
               /\ u.state = s.state /\ u.max = s.max /\ u.lbb = s.lbb
               /\ u.wnd = s.wnd /\ u.wl1 = s.wl1 /\ u.wl2 = s.wl2
<1> DEFINE x  == s.unacked
           y  == s.unsent
           rx == Unacknowledged(x, ack)
           ry == Unacknowledged(y, ack)
           A  == Position(s.lastack)
           M  == Position(s.max)
           L  == Position(s.lbb)
           K  == Position(ack)
           dx == Bufs(x) - Bufs(rx)
           dy == Bufs(y) - Bufs(ry)
           b  == s.buf + K - A
           p  == Progress(s, ack)
           u  == UnsentAcked(p, ack)
<1>1. /\ s \in Snd /\ x \in Seq(Segments) /\ y \in Seq(Segments)
      /\ s.max \in SeqNos /\ s.lastack \in SeqNos /\ s.lbb \in SeqNos /\ s.queuelen \in Nat
      /\ s.buf \in 0 .. SndBuf
      /\ Holds(x \o y, A, L) /\ s.queuelen = Bufs(x \o y)
      /\ A <= M /\ M <= L /\ s.buf + L - A = SndBuf - 1
  BY DEF SndInv, Snd, All
<1>2. A \in 0 .. Total /\ M \in 0 .. Total /\ L \in 0 .. Total /\ K \in 0 .. Total
  BY <1>1, StreamNumbers
<1>3. A < K /\ K <= M /\ K <= L BY <1>1, <1>2
<1>4. SeqLEQ(ack, s.max) BY <1>1, ComparePositions
<1>5. p = [s EXCEPT !.infr = FALSE, !.nrtx = 0, !.dupacks = 0, !.lastack = ack,
                    !.buf = b, !.unacked = rx, !.queuelen = s.queuelen - dx]
  BY DEF Progress
<1>6. u = [p EXCEPT !.unsent = IF SeqLEQ(ack, p.max) THEN Unacknowledged(p.unsent, ack) ELSE p.unsent,
                    !.queuelen = p.queuelen - (Bufs(p.unsent)
                                     - Bufs(IF SeqLEQ(ack, p.max) THEN Unacknowledged(p.unsent, ack) ELSE p.unsent))]
  BY DEF UnsentAcked
<1>7. /\ rx \in Seq(Segments) /\ ry \in Seq(Segments)
      /\ Holds(rx \o ry, K, L)
      /\ Bufs(x \o y) - dx - dy = Bufs(rx \o ry)
      /\ dx \in Nat /\ dx <= Bufs(x \o y)
  BY <1>1, <1>2, <1>3, RestHolds
<1>8. Bufs(rx \o ry) \in Nat
  <2>1. rx \o ry \in Seq(Segments) /\ <<>> \in Seq(Segments) BY <1>7
  <2>2. QED BY <2>1, BufsJoin
<1>9. SndBuf \in Nat /\ 0 \in 0 .. NrtxWord - 1 BY TcpConstants
<1>10. b \in 0 .. SndBuf /\ b + L - K = SndBuf - 1
  <2>1. /\ s.buf \in Nat /\ A \in Nat /\ K \in Nat /\ L \in Nat /\ SndBuf \in Nat
        /\ s.buf + L - A = SndBuf - 1
    BY <1>1, <1>2, <1>9
  <2>2. A < K /\ K <= L BY <1>3
  <2> HIDE DEF A, K, L
  <2>3. QED BY <2>1, <2>2
<1>11. s.queuelen - dx \in Nat BY <1>1, <1>7
<1> HIDE DEF x, y, rx, ry, dx, dy, b, p, u
<1>12. /\ p \in Snd /\ p.max = s.max /\ p.unsent = y /\ p.queuelen = s.queuelen - dx
       /\ p.unacked = rx /\ p.lastack = ack /\ p.buf = b
       /\ p.state = s.state /\ p.lbb = s.lbb
       /\ p.wnd = s.wnd /\ p.wl1 = s.wl1 /\ p.wl2 = s.wl2
  <2>1. y = s.unsent BY DEF y
  <2> DEFINE q == s.queuelen - dx
  <2>2. p = [s EXCEPT !.infr = FALSE, !.nrtx = 0, !.dupacks = 0, !.lastack = ack,
                      !.buf = b, !.unacked = rx, !.queuelen = q]
    BY <1>5
  <2>3. q \in Nat /\ 0 \in 0 .. 3 BY <1>11
  <2> HIDE DEF q
  <2>4. p \in Snd BY <1>1, <1>7, <1>9, <1>10, <2>2, <2>3 DEF Snd
  <2>5. /\ p.max = s.max /\ p.unsent = s.unsent /\ p.queuelen = q
        /\ p.unacked = rx /\ p.lastack = ack /\ p.buf = b
        /\ p.state = s.state /\ p.lbb = s.lbb
        /\ p.wnd = s.wnd /\ p.wl1 = s.wl1 /\ p.wl2 = s.wl2
    BY <1>1, <2>2 DEF Snd
  <2>6. QED BY <2>1, <2>4, <2>5 DEF q
<1>13. Unacknowledged(p.unsent, ack) = ry BY <1>12 DEF ry
<1>14. u = [p EXCEPT !.unsent = ry, !.queuelen = p.queuelen - dy]
  BY <1>4, <1>6, <1>12, <1>13 DEF dy
<1>15. p.queuelen - dy = Bufs(rx \o ry) BY <1>1, <1>7, <1>12
<1>16. /\ u \in Snd /\ u.unsent = ry /\ u.unacked = rx /\ u.queuelen = Bufs(rx \o ry)
       /\ u.max = s.max /\ u.lastack = ack /\ u.buf = b /\ u.state = s.state /\ u.lbb = s.lbb
       /\ u.wnd = s.wnd /\ u.wl1 = s.wl1 /\ u.wl2 = s.wl2
  BY <1>7, <1>8, <1>12, <1>14, <1>15 DEF Snd
<1>17. All(u) = rx \o ry BY <1>16 DEF All
<1>18. SndInv(u) BY <1>1, <1>3, <1>7, <1>10, <1>16, <1>17 DEF SndInv
<1>19. QED BY <1>16, <1>18 DEF u, p

LEMMA AcknowledgedIs ==
    ASSUME SndInv(snd), snd.state = "ESTABLISHED", NEW m \in Acks
    PROVE  LET a == Acknowledged(m)
           IN  /\ SndInv(a) /\ Updated(snd, m, a)
               /\ a.state = snd.state /\ a.max = snd.max /\ a.lbb = snd.lbb
               /\ a.lastack = IF Position(snd.lastack) < Position(m.ack) /\ Position(m.ack) <= Position(snd.max)
                              THEN m.ack ELSE snd.lastack
<1> DEFINE w == WindowUpdate(snd, m)
           d == Duplicate(w, w.wl1 = snd.wl1 /\ w.wnd = snd.wnd)
           p == Progress(w, m.ack)
           a == Acknowledged(m)
           x == IF m.ack = snd.lastack THEN d
                ELSE IF SeqLT(snd.lastack, m.ack) /\ SeqLEQ(m.ack, snd.max) THEN p
                ELSE w
<1>1. a = UnsentAcked(x, m.ack) BY DEF Acknowledged
<1>2. /\ snd.lastack \in SeqNos /\ snd.max \in SeqNos /\ m.ack \in SeqNos
      /\ Position(snd.lastack) <= Position(snd.max)
  BY DEF SndInv, Snd, Acks
<1>3. Position(snd.lastack) \in Nat /\ Position(snd.max) \in Nat /\ Position(m.ack) \in Nat
  BY <1>2, StreamNumbers
<1>4. /\ m.ack = snd.lastack <=> Position(m.ack) = Position(snd.lastack)
      /\ SeqLT(snd.lastack, m.ack) <=> Position(snd.lastack) < Position(m.ack)
      /\ SeqLEQ(m.ack, snd.max) <=> Position(m.ack) <= Position(snd.max)
  BY <1>2, ComparePositions
<1>5. /\ SndInv(w) /\ Updated(snd, m, w)
      /\ w.state = snd.state /\ w.lastack = snd.lastack /\ w.max = snd.max /\ w.lbb = snd.lbb
  BY WindowKeeps
<1> HIDE DEF w
<1>6. /\ SndInv(d)
      /\ d.state = w.state /\ d.lastack = w.lastack /\ d.max = w.max /\ d.lbb = w.lbb
      /\ d.wnd = w.wnd /\ d.wl1 = w.wl1 /\ d.wl2 = w.wl2
  BY <1>5, DuplicateKeeps
<1> HIDE DEF d
<1>7. CASE m.ack = snd.lastack
  <2>1. a = UnsentAcked(d, m.ack) BY <1>1, <1>7
  <2>2. UnsentAcked(d, m.ack) = d BY <1>2, <1>3, <1>5, <1>6, <1>7, UnsentKept
  <2>3. ~(Position(snd.lastack) < Position(m.ack)) BY <1>3, <1>4, <1>7
  <2>4. Updated(snd, m, d) BY <1>5, <1>6 DEF Updated
  <2> HIDE DEF a
  <2>5. QED BY <1>5, <1>6, <2>1, <2>2, <2>3, <2>4 DEF a
<1>8. CASE m.ack # snd.lastack /\ SeqLT(snd.lastack, m.ack) /\ SeqLEQ(m.ack, snd.max)
  <2>1. a = UnsentAcked(p, m.ack) BY <1>1, <1>8
  <2>2. Position(snd.lastack) < Position(m.ack) /\ Position(m.ack) <= Position(snd.max) BY <1>4, <1>8
  <2> HIDE DEF a
  <2>3. /\ SndInv(a) /\ a.lastack = m.ack
        /\ a.state = w.state /\ a.max = w.max /\ a.lbb = w.lbb
        /\ a.wnd = w.wnd /\ a.wl1 = w.wl1 /\ a.wl2 = w.wl2
    BY <1>2, <1>5, <2>1, <2>2, ProgressIs
  <2>4. Updated(snd, m, a) BY <1>5, <2>3 DEF Updated
  <2>5. QED BY <1>5, <2>2, <2>3, <2>4 DEF a
<1>9. CASE m.ack # snd.lastack /\ ~(SeqLT(snd.lastack, m.ack) /\ SeqLEQ(m.ack, snd.max))
  <2>1. a = UnsentAcked(w, m.ack) BY <1>1, <1>9
  <2>2. UnsentAcked(w, m.ack) = w
    <3>1. Position(m.ack) <= Position(w.lastack) \/ Position(m.ack) > Position(w.max)
      BY <1>3, <1>4, <1>5, <1>9
    <3>2. QED BY <1>2, <1>5, <3>1, UnsentKept
  <2>3. ~(Position(snd.lastack) < Position(m.ack) /\ Position(m.ack) <= Position(snd.max))
    BY <1>4, <1>9
  <2> HIDE DEF a
  <2>4. QED BY <1>5, <2>1, <2>2, <2>3 DEF a
<1>10. QED BY <1>7, <1>8, <1>9

-----------------------------------------------------------------------------
(***************************************************************************)
(* tcp_write: the segments are linked where they belong.                   *)
(***************************************************************************)
LEMMA EnqueuedIs ==
    ASSUME NEW s, SndInv(s), s.state = "ESTABLISHED", NEW len \in Lengths,
           Position(s.lbb) + len <= Total, len <= s.buf,
           NEW queue \in Seq(Segments), Tiles(queue, Position(s.lbb), Position(s.lbb) + len),
           queue # <<>>, \A i \in 1 .. Len(queue) : queue[i].bufs = 1,
           NEW o, o = Enqueued(s, queue, len)
    PROVE  /\ SndInv(o) /\ Position(o.lbb) = Position(s.lbb) + len
           /\ o.state = s.state /\ o.lastack = s.lastack /\ o.max = s.max
           /\ o.wnd = s.wnd /\ o.wl1 = s.wl1 /\ o.wl2 = s.wl2
<1> DEFINE x == s.unacked
           y == s.unsent
           q == Linked(y, queue)
           A == Position(s.lastack)
           L == Position(s.lbb)
           M == Position(s.max)
           T == Position(SeqAdd(s.lbb, len))
<1>1. /\ s \in Snd /\ x \in Seq(Segments) /\ y \in Seq(Segments)
      /\ s.max \in SeqNos /\ s.lastack \in SeqNos /\ s.lbb \in SeqNos /\ s.queuelen \in Nat
      /\ s.buf \in 0 .. SndBuf
      /\ Holds(x \o y, A, L) /\ s.queuelen = Bufs(x \o y)
      /\ A <= M /\ M <= L /\ s.buf + L - A = SndBuf - 1
  BY DEF SndInv, Snd, All
<1>11. o = [s EXCEPT !.unsent = q, !.unacked = x, !.lbb = SeqAdd(s.lbb, len),
                     !.buf = s.buf - len, !.queuelen = s.queuelen + Len(queue)]
  BY <1>1 DEF Enqueued, Snd
<1> HIDE DEF x, y
<1>20. /\ Len(x) \in Nat /\ (x # <<>> => Len(x) >= 1) /\ x \o <<>> = x
       /\ Len(y) \in Nat /\ (y # <<>> => Len(y) >= 1)
  BY <1>1
<1>2. len \in Nat \ {0} /\ SndBuf \in Nat BY TcpConstants
<1>3. A \in 0 .. Total /\ M \in 0 .. Total /\ L \in 0 .. Total BY <1>1, StreamNumbers
<1>4. SeqAdd(s.lbb, len) \in SeqNos /\ T = L + len
  <2>1. s.lbb \in 0 .. SeqWord - 1 BY <1>1, StreamNumbers
  <2>2. L + len < SeqWord BY <1>2, <1>3, HalfTheRange
  <2>3. SeqAdd(s.lbb, len) \in 0 .. SeqWord - 1 /\ T = L + len BY <1>2, <2>1, <2>2, AddPosition
  <2>4. QED BY <2>3 DEF SeqNos
<1>5. /\ Tiles(queue, L, L + len) /\ queue \in Seq(Segments) /\ queue # <<>>
      /\ \A i \in 1 .. Len(queue) : queue[i].bufs = 1
  OBVIOUS
<1>6. Bufs(queue) = Len(queue) /\ Len(queue) \in Nat BY <1>5, BufsOfNew
<1>7. PICK a \in 0 .. Total : /\ Tiles(x \o y, a, L) /\ a <= A
                              /\ x \o y # <<>> => A < EndOf((x \o y)[1])
                              /\ x \o y = <<>> => A = L
  BY <1>1 DEF Holds
<1>8. PICK b \in a .. L : Tiles(x, a, b) /\ Tiles(y, b, L) BY <1>1, <1>7, TilesPart
<1>9. b \in 0 .. Total BY <1>3, HalfTheRange
<1>10. queue[1] \in Segments /\ L < EndOf(queue[1])
  <2>1. 1 \in 1 .. Len(queue) BY <1>5
  <2>2. queue[1] \in Segments /\ Starts(queue[1]) = L BY <1>5, <2>1 DEF Tiles
  <2>3. QED BY <2>2, SegmentIs
<1>12. /\ x \in Seq(Segments) /\ q \in Seq(Segments) /\ x \o q \in Seq(Segments)
       /\ Tiles(x \o q, a, L + len) /\ Bufs(x \o q) = Bufs(x \o y) + Len(queue)
       /\ x \o q # <<>> /\ A < EndOf((x \o q)[1])
  <2>1. /\ Tiles(q, b, L + len) /\ q \in Seq(Segments) /\ q # <<>>
        /\ Bufs(q) = Bufs(y) + Bufs(queue)
        /\ y # <<>> => EndOf(y[1]) <= EndOf(q[1])
    BY <1>5, <1>8, <1>9, LinkedIs
  <2> HIDE DEF q
  <2>2. Tiles(x \o q, a, L + len) BY <1>8, <2>1, TilesJoin
  <2>3. Bufs(x \o q) = Bufs(x) + Bufs(q) /\ Bufs(x \o y) = Bufs(x) + Bufs(y)
        /\ Bufs(x) \in Nat /\ Bufs(y) \in Nat
    BY <1>1, <2>1, BufsJoin
  <2>4. x \o q \in Seq(Segments) /\ x \o q # <<>> BY <1>1, <2>1
  <2>5. A < EndOf((x \o q)[1])
    <3>1. CASE x # <<>>
      <4>1. 1 \in 1 .. Len(x) BY <1>20, <3>1
      <4>2. (x \o q)[1] = x[1] /\ (x \o y)[1] = x[1] BY <1>1, <2>1, <4>1, Joined
      <4>3. x \o y # <<>> BY <1>1, <3>1
      <4>4. QED BY <1>7, <4>2, <4>3
    <3>2. CASE x = <<>>
      <4>1. x \o q = q /\ x \o y = y BY <1>1, <2>1, <3>2
      <4>2. 1 \in 1 .. Len(q) /\ q[1] \in Segments BY <2>1
      <4>3. EndOf(q[1]) \in Nat BY <4>2, SegmentIs
      <4>4. CASE y = <<>>
        <5>1. b = L BY <1>8, <4>4 DEF Tiles
        <5>2. Starts(q[1]) = L BY <2>1, <5>1 DEF Tiles
        <5>3. L < EndOf(q[1]) BY <4>2, <5>2, SegmentIs
        <5>4. A = L BY <1>7, <4>1, <4>4
        <5>5. QED BY <4>1, <5>3, <5>4
      <4>5. CASE y # <<>>
        <5>1. 1 \in 1 .. Len(y) BY <1>1, <4>5
        <5>5. y[1] \in Segments BY <1>1, <5>1
        <5>2. EndOf(y[1]) \in Nat BY <5>5, SegmentIs
        <5>3. A < EndOf(y[1]) BY <1>7, <4>1, <4>5
        <5>4. QED BY <1>3, <2>1, <4>1, <4>3, <4>5, <5>2, <5>3
      <4>6. QED BY <4>4, <4>5
    <3>3. QED BY <3>1, <3>2
  <2>6. Bufs(x \o q) = Bufs(x \o y) + Len(queue) BY <1>6, <2>1, <2>3
  <2>7. QED BY <1>1, <2>1, <2>2, <2>4, <2>5, <2>6
<1> HIDE DEF q
<1>13. s.buf - len \in 0 .. SndBuf /\ (s.buf - len) + T - A = SndBuf - 1
  <2>1. s.buf \in 0 .. SndBuf /\ s.buf + L - A = SndBuf - 1 /\ T = L + len BY <1>1, <1>4
  <2>2. A \in Nat /\ L \in Nat /\ len \in Nat /\ SndBuf \in Nat /\ len <= s.buf BY <1>2, <1>3
  <2> DEFINE f == s.buf
  <2>3. /\ f \in 0 .. SndBuf /\ f + L - A = SndBuf - 1 /\ T = L + len
        /\ A \in Nat /\ L \in Nat /\ len \in Nat /\ SndBuf \in Nat /\ len <= f
    BY <2>1, <2>2
  <2> HIDE DEF f, A, L, T
  <2>4. f - len \in 0 .. SndBuf BY <2>3
  <2>5. (f - len) + T - A = SndBuf - 1 BY <2>3
  <2>6. QED BY <2>4, <2>5 DEF f
<1>14. s.queuelen + Len(queue) \in Nat BY <1>1, <1>6
<1> DEFINE B == s.buf - len
           Q == s.queuelen + Len(queue)
<1>17. Q = Bufs(x \o q) BY <1>1, <1>12
<1> HIDE DEF B, Q
<1>15. /\ o \in Snd /\ o.unsent = q /\ o.unacked = x /\ o.lbb = SeqAdd(s.lbb, len)
       /\ o.buf = B /\ o.queuelen = Q
       /\ o.state = s.state /\ o.lastack = s.lastack /\ o.max = s.max
       /\ o.wnd = s.wnd /\ o.wl1 = s.wl1 /\ o.wl2 = s.wl2
  <2>1. o = Renewed(s, x, q, SeqAdd(s.lbb, len), B, Q) BY <1>11 DEF B, Q, Renewed
  <2>2. B \in 0 .. SndBuf /\ Q \in Nat BY <1>13, <1>14 DEF B, Q
  <2>3. s \in Snd /\ x \in Seq(Segments) /\ q \in Seq(Segments) /\ SeqAdd(s.lbb, len) \in SeqNos
    BY <1>1, <1>4, <1>12
  <2>4. RenewedAs(s, o, x, q, SeqAdd(s.lbb, len), B, Q) BY <2>1, <2>2, <2>3, SndRenewed
  <2>5. QED BY <2>4 DEF RenewedAs
<1>16. SndInv(o)
  <2>1. All(o) = x \o q BY <1>15 DEF All
  <2>2. Position(o.lbb) = L + len /\ Position(o.lastack) = A /\ Position(o.max) = M BY <1>4, <1>15
  <2>3. Holds(All(o), A, L + len) BY <1>7, <1>12, <2>1 DEF Holds
  <2>4. M <= L + len BY <1>1, <1>2, <1>3
  <2>5. o.buf + Position(o.lbb) - Position(o.lastack) = SndBuf - 1 BY <1>13, <1>15 DEF B
  <2>6. QED BY <1>1, <1>15, <1>17, <2>1, <2>2, <2>3, <2>4, <2>5 DEF SndInv
<1>18. QED BY <1>4, <1>15, <1>16

-----------------------------------------------------------------------------
(***************************************************************************)
(* The state of the connection.                                            *)
(***************************************************************************)
Rcv ==
    [nxt : SeqNos, wnd : Nat, tcpwnd : Windows, queue : Seq(Seq(1 .. Total)),
     ackdelay : BOOLEAN, reading : BOOLEAN]

Sent ==
    {m \in [seq : SeqNos, data : Seq(1 .. Total)] :
        /\ Len(m.data) \in 1 .. MSS
        /\ EndOf(m) <= Total
        /\ m.data = Stretch(Starts(m), EndOf(m))}

TcpInv ==
    /\ SndInv(snd)
    /\ rcv \in Rcv /\ rcv.wnd <= rcv.tcpwnd
    /\ \A m \in net : m \in Acks \/ m \in Sent

LEMMA MessageKinds ==
    /\ \A m \in Sent : "ack" \notin DOMAIN m /\ "seq" \in DOMAIN m
    /\ \A m \in Acks : "seq" \notin DOMAIN m /\ "ack" \in DOMAIN m
    /\ Acks \cap Sent = {}
<1>1. \A m \in Sent : DOMAIN m = {"seq", "data"} BY DEF Sent
<1>2. \A m \in Acks : DOMAIN m = {"ack", "wnd"} BY DEF Acks
<1>3. QED BY <1>1, <1>2

LEMMA MessageIs ==
    ASSUME NEW m \in Sent
    PROVE  /\ m.seq \in SeqNos /\ m.data \in Seq(1 .. Total) /\ Len(m.data) \in Nat /\ Len(m.data) >= 1
           /\ EndOf(m) \in 0 .. Total /\ EndOf(m) = Position(m.seq) + Len(m.data)
           /\ m.data = Stretch(Position(m.seq), EndOf(m))
<1>1. /\ m.seq \in SeqNos /\ m.data \in Seq(1 .. Total) /\ Len(m.data) \in 1 .. MSS
      /\ EndOf(m) <= Total /\ m.data = Stretch(Starts(m), EndOf(m))
  BY DEF Sent
<1>2. Len(m.data) \in Nat /\ Len(m.data) >= 1 BY <1>1, HalfTheRange
<1>3. Position(m.seq) \in Nat BY <1>1, StreamNumbers
<1>4. EndOf(m) \in 0 .. Total BY <1>1, <1>2, <1>3, HalfTheRange DEF EndOf
<1>5. QED BY <1>1, <1>2, <1>4 DEF Starts, EndOf

\* tcp_output, whose segments go to the network.
LEMMA SendFromIs ==
    ASSUME NEW s, SndInv(s), NEW arrived, SendFrom(s, arrived)
    PROVE  /\ SndInv(snd')
           /\ snd'.state = s.state /\ snd'.lastack = s.lastack /\ snd'.lbb = s.lbb
           /\ snd'.wnd = s.wnd /\ snd'.wl1 = s.wl1 /\ snd'.wl2 = s.wl2 /\ snd'.buf = s.buf
           /\ Position(s.max) <= Position(snd'.max)
           /\ \A m \in net' : \/ m \in net
                              \/ /\ m \in Sent /\ EndOf(m) <= Position(snd'.max)
                                 /\ EndOf(m) <= Position(s.lastack) + s.wnd
                                 /\ s.state = "ESTABLISHED"
<1> DEFINE sent(cwnd) == {[seq |-> g.seq, data |-> g.data] : g \in ToSet(Sendable(s, cwnd))}
<1>1. PICK cwnd \in Cwnds : snd' = TcpOutput(s, cwnd) /\ Network(arrived, sent(cwnd)) BY DEF SendFrom
<1>2. cwnd \in Nat BY TcpConstants
<1>3. \A m \in net' : m \in net \/ m \in sent(cwnd) BY <1>1 DEF Network
<1> DEFINE o == TcpOutput(s, cwnd)
<1>4. /\ o \in Snd
      /\ o = [s EXCEPT !.unsent = o.unsent, !.unacked = o.unacked, !.max = o.max]
      /\ Position(s.max) <= Position(o.max)
      /\ \A g \in ToSet(Sendable(s, cwnd)) :
            /\ g \in Segments /\ EndOf(g) <= Position(o.max)
            /\ EndOf(g) <= Position(s.lastack) + s.wnd
            /\ s.state = "ESTABLISHED"
  BY <1>2, OutputIs
<1>5. SndInv(o) BY <1>2, OutputKeeps
<1>6. s \in Snd BY DEF SndInv
<1> HIDE DEF o
<1>7. /\ o.state = s.state /\ o.lastack = s.lastack /\ o.lbb = s.lbb
      /\ o.wnd = s.wnd /\ o.wl1 = s.wl1 /\ o.wl2 = s.wl2 /\ o.buf = s.buf
  BY <1>4, <1>6 DEF Snd
<1>8. snd' = o BY <1>1 DEF o
<1>9. ASSUME NEW m \in sent(cwnd)
      PROVE  /\ m \in Sent /\ EndOf(m) <= Position(o.max)
             /\ EndOf(m) <= Position(s.lastack) + s.wnd /\ s.state = "ESTABLISHED"
  <2>1. PICK g \in ToSet(Sendable(s, cwnd)) : m = [seq |-> g.seq, data |-> g.data] OBVIOUS
  <2>2. /\ g \in Segments /\ EndOf(g) <= Position(o.max)
        /\ EndOf(g) <= Position(s.lastack) + s.wnd /\ s.state = "ESTABLISHED"
    BY <1>4, <2>1
  <2>3. m.seq = g.seq /\ m.data = g.data BY <2>1
  <2>4. EndOf(m) = EndOf(g) /\ Starts(m) = Starts(g) BY <2>3 DEF EndOf, Starts
  <2>5. /\ g.seq \in SeqNos /\ g.data \in Seq(1 .. Total) /\ Len(g.data) \in 1 .. MSS /\ EndOf(g) \in 0 .. Total
        /\ g.data = Stretch(Starts(g), EndOf(g))
    BY <2>2, SegmentIs
  <2>6. m \in Sent BY <2>1, <2>3, <2>4, <2>5, HalfTheRange DEF Sent
  <2>7. QED BY <2>2, <2>4, <2>6
<1> HIDE DEF sent
<1>10. QED BY <1>3, <1>4, <1>5, <1>7, <1>8, <1>9

-----------------------------------------------------------------------------
(***************************************************************************)
(* The reader's side.                                                      *)
(***************************************************************************)
LEMMA RcvIs ==
    ASSUME NEW r \in Rcv
    PROVE  /\ r.nxt \in SeqNos /\ r.wnd \in Nat /\ r.tcpwnd \in Windows /\ r.tcpwnd \in Nat
           /\ r.queue \in Seq(Seq(1 .. Total)) /\ Position(r.nxt) \in 0 .. Total
<1>1. r.nxt \in SeqNos /\ r.wnd \in Nat /\ r.tcpwnd \in Windows /\ r.queue \in Seq(Seq(1 .. Total))
  BY DEF Rcv
<1>2. Windows \subseteq Nat BY TcpConstants
<1>3. QED BY <1>1, <1>2, StreamNumbers

\* An acknowledgement that is sent says what the reader has.
LEMMA AckIs ==
    ASSUME NEW r \in Rcv, NEW arrived, AckNow(r, arrived) \/ Ack(r, arrived)
    PROVE  /\ rcv' \in Rcv
           /\ rcv'.nxt = r.nxt /\ rcv'.wnd = r.wnd /\ rcv'.tcpwnd = r.tcpwnd /\ rcv'.queue = r.queue
           /\ \A m \in net' : m \in net \/ m = AckOf(rcv')
           /\ AckOf(rcv') \in Acks
<1>1. \/ rcv' = [r EXCEPT !.ackdelay = FALSE] /\ Network(arrived, {AckOf(r)})
      \/ rcv' = [r EXCEPT !.ackdelay = TRUE] /\ Network(arrived, {})
  BY DEF Ack, AckNow
<1>2. /\ rcv' \in Rcv
      /\ rcv'.nxt = r.nxt /\ rcv'.wnd = r.wnd /\ rcv'.tcpwnd = r.tcpwnd /\ rcv'.queue = r.queue
  BY <1>1 DEF Rcv
<1>3. AckOf(rcv') = AckOf(r) BY <1>2 DEF AckOf
<1>4. \A m \in net' : m \in net \/ m = AckOf(r) BY <1>1 DEF Network
<1>5. AckOf(r) \in Acks BY RcvIs DEF AckOf, Acks
<1>6. QED BY <1>2, <1>3, <1>4, <1>5

\* What is left of a segment is what has not been received.
LEMMA TrimmedIs ==
    ASSUME rcv \in Rcv, NEW m \in Sent, Trimmed(m).data # <<>>, Trimmed(m).seq = rcv.nxt
    PROVE  /\ Position(rcv.nxt) < EndOf(m)
           /\ Trimmed(m).data = Stretch(Position(rcv.nxt), EndOf(m))
           /\ Trimmed(m).data \in Seq(1 .. Total)
           /\ Len(Trimmed(m).data) = EndOf(m) - Position(rcv.nxt)
<1> DEFINE R == Position(rcv.nxt)
           p == Position(m.seq)
           n == Len(m.data)
           e == EndOf(m)
           d == SubSeq(m.data, R - p + 1, n)
           T == 1 .. Total
<1>1. /\ m.seq \in SeqNos /\ m.data \in Seq(T) /\ n \in Nat /\ n >= 1 /\ e \in 0 .. Total /\ e = p + n
      /\ m.data = Stretch(p, e)
  BY MessageIs
<1>2. rcv.nxt \in SeqNos /\ R \in 0 .. Total BY RcvIs
<1>3. p \in 0 .. Total BY <1>1, StreamNumbers
<1>4. SeqLT(m.seq, rcv.nxt) <=> p < R BY <1>1, <1>2, ComparePositions
<1>5. CASE p < R
  <2>1. Trimmed(m).data = d BY <1>4, <1>5 DEF Trimmed
  <2>2. R < e
    <3>1. SUFFICES ASSUME R >= e PROVE FALSE BY <1>1, <1>2
    <3>2. R - p >= n /\ R - p + 1 \in Nat /\ R - p + 1 > n BY <1>1, <1>2, <1>3, <3>1
    <3> DEFINE f == R - p + 1
    <3> HIDE DEF f
    <3>3. SubSeq(m.data, f, n) = <<>>
      <4>1. f \in Nat /\ f > n BY <3>2 DEF f
      <4>2. QED BY <1>1, <4>1
    <3>4. QED BY <2>1, <3>3 DEF f
  <2> DEFINE a == R - p
  <2>3. a \in Nat /\ a <= n /\ n - a = e - R BY <1>1, <1>2, <1>3, <1>5, <2>2
  <2> HIDE DEF a, T
  <2>4. d = SubSeq(m.data, a + 1, n) BY DEF a
  <2> HIDE DEF d
  <2>5. /\ d \in Seq(T) /\ Len(d) = n - a /\ d = [i \in 1 .. n - a |-> m.data[a + i]]
    <3> DEFINE x == m.data
    <3>1. x \in Seq(T) /\ n = Len(x) BY <1>1
    <3> HIDE DEF x
    <3>2. n \in Nat /\ n <= n BY <1>1
    <3>3. /\ SubSeq(x, a + 1, n) \in Seq(T) /\ Len(SubSeq(x, a + 1, n)) = n - a
          /\ SubSeq(x, a + 1, n) = [i \in 1 .. n - a |-> x[a + i]]
      BY <2>3, <3>1, <3>2, CutOut
    <3>4. QED BY <2>4, <3>3 DEF x
  <2>6. \A i \in 1 .. n - a : m.data[a + i] = R + i
    <3>1. \A i \in 1 .. n - a : a + i \in 1 .. e - p /\ p + (a + i) = R + i
      <4>1. /\ n \in Nat /\ e \in Nat /\ p \in Nat /\ R \in Nat /\ a \in Nat
            /\ e = p + n /\ n - a = e - R
        BY <1>1, <1>2, <1>3, <2>3
      <4>2. p + a = R BY <4>1
      <4> HIDE DEF n, e, p, R
      <4>3. QED BY <4>1, <4>2
    <3>2. \A j \in 1 .. e - p : m.data[j] = p + j BY <1>1 DEF Stretch
    <3>3. QED BY <3>1, <3>2
  <2>7. d = Stretch(R, e) BY <2>3, <2>5, <2>6 DEF Stretch
  <2>8. QED BY <2>1, <2>2, <2>3, <2>5, <2>7 DEF T
<1>6. CASE ~(p < R)
  <2>1. Trimmed(m) = m BY <1>4, <1>6 DEF Trimmed
  <2>2. R = p BY <2>1
  <2>3. R < e /\ n = e - R BY <1>1, <1>3, <2>2
  <2>4. QED BY <1>1, <2>1, <2>2, <2>3
<1>7. QED BY <1>5, <1>6

\* The next data in sequence.
LEMMA AcceptedIs ==
    ASSUME rcv \in Rcv, rcv.wnd <= rcv.tcpwnd,
           NEW m \in Sent, Trimmed(m).data # <<>>, Trimmed(m).seq = rcv.nxt
    PROVE  LET r == Accepted(Trimmed(m))
               R == Position(rcv.nxt)
           IN  /\ r \in Rcv /\ r.tcpwnd = rcv.tcpwnd /\ r.wnd <= r.tcpwnd
               /\ R < EndOf(m) /\ Position(r.nxt) = EndOf(m)
               /\ r.wnd = IF rcv.wnd < EndOf(m) - R THEN 0 ELSE rcv.wnd - (EndOf(m) - R)
               /\ r.queue = IF Len(rcv.queue) = QueueSize THEN rcv.queue
                            ELSE Append(rcv.queue, Stretch(R, EndOf(m)))
<1> DEFINE R == Position(rcv.nxt)
           e == EndOf(m)
           d == Trimmed(m).data
           n == Len(d)
           S == Seq(1 .. Total)
           nxt == SeqAdd(rcv.nxt, n)
           wnd == IF rcv.wnd < n THEN 0 ELSE rcv.wnd - n
           queue == IF Len(rcv.queue) = QueueSize THEN rcv.queue ELSE Append(rcv.queue, d)
           r == Accepted(Trimmed(m))
<1>1. R < e /\ d = Stretch(R, e) /\ d \in S /\ n = e - R BY TrimmedIs
<1>2. /\ rcv.nxt \in SeqNos /\ rcv.wnd \in Nat /\ rcv.tcpwnd \in Nat /\ rcv.queue \in Seq(S)
      /\ R \in 0 .. Total
  BY RcvIs
<1>3. e \in 0 .. Total BY MessageIs
<1>4. nxt \in SeqNos /\ Position(nxt) = e
  <2> HIDE DEF n
  <2>4. n \in Nat /\ R + n = e /\ R + n < SeqWord
    <3>1. n = e - R /\ R < e /\ R \in 0 .. Total BY <1>1, <1>2
    <3> HIDE DEF e, R
    <3>2. QED BY <1>3, <3>1, HalfTheRange
  <2>1. rcv.nxt \in 0 .. SeqWord - 1 /\ n \in Nat /\ R + n = e /\ R + n < SeqWord
    BY <1>2, <2>4, StreamNumbers
  <2>2. nxt \in 0 .. SeqWord - 1 /\ Position(nxt) = e BY <2>1, AddPosition
  <2>3. QED BY <1>3, <2>2 DEF SeqNos
<1>5. wnd \in Nat /\ wnd <= rcv.tcpwnd BY <1>1, <1>2, <1>3
<1>6. queue \in Seq(S)
  <2> HIDE DEF d, S
  <2>1. QED BY <1>1, <1>2
<1>7. r = [rcv EXCEPT !.nxt = nxt, !.wnd = wnd, !.queue = queue] BY DEF Accepted
<1> HIDE DEF nxt, wnd, queue, r, n, d, S
<1>8. r \in Rcv /\ r.nxt = nxt /\ r.wnd = wnd /\ r.queue = queue /\ r.tcpwnd = rcv.tcpwnd
  BY <1>4, <1>5, <1>6, <1>7 DEF Rcv, S
<1>9. queue = IF Len(rcv.queue) = QueueSize THEN rcv.queue ELSE Append(rcv.queue, Stretch(R, e))
  BY <1>1 DEF queue
<1>10. wnd = IF rcv.wnd < e - R THEN 0 ELSE rcv.wnd - (e - R) BY <1>1 DEF wnd
<1>11. QED BY <1>1, <1>4, <1>5, <1>8, <1>9, <1>10 DEF r

LEMMA SegmentArrivesIs ==
    ASSUME TcpInv, NEW m \in net, SegmentArrives(m)
    PROVE  LET R == Position(rcv.nxt)
           IN  /\ m \in Sent /\ rcv' \in Rcv /\ rcv'.tcpwnd = rcv.tcpwnd /\ rcv'.wnd <= rcv'.tcpwnd
               /\ \/ rcv'.nxt = rcv.nxt /\ rcv'.wnd = rcv.wnd /\ rcv'.queue = rcv.queue
                  \/ /\ R < EndOf(m) /\ Position(rcv'.nxt) = EndOf(m)
                     /\ rcv'.wnd = IF rcv.wnd < EndOf(m) - R THEN 0 ELSE rcv.wnd - (EndOf(m) - R)
                     /\ rcv'.queue = IF Len(rcv.queue) = QueueSize THEN rcv.queue
                                     ELSE Append(rcv.queue, Stretch(R, EndOf(m)))
               /\ \A x \in net' : x \in net \/ (x = AckOf(rcv') /\ x \in Acks)
               /\ UNCHANGED <<snd, writing, received>>
<1> DEFINE t == Trimmed(m)
           r == Accepted(t)
<1>1. m \in Sent /\ rcv \in Rcv /\ rcv.wnd <= rcv.tcpwnd
  BY MessageKinds DEF SegmentArrives, TcpInv
<1>2. UNCHANGED <<snd, writing, received>> BY DEF SegmentArrives
<1>3. CASE t.data # <<>> /\ InWindow(t.seq) /\ t.seq = rcv.nxt
  <2>1. Ack(r, {m}) BY <1>3 DEF SegmentArrives
  <2>2. /\ r \in Rcv /\ r.tcpwnd = rcv.tcpwnd /\ r.wnd <= r.tcpwnd
        /\ Position(rcv.nxt) < EndOf(m) /\ Position(r.nxt) = EndOf(m)
        /\ r.wnd = IF rcv.wnd < EndOf(m) - Position(rcv.nxt) THEN 0
                   ELSE rcv.wnd - (EndOf(m) - Position(rcv.nxt))
        /\ r.queue = IF Len(rcv.queue) = QueueSize THEN rcv.queue
                     ELSE Append(rcv.queue, Stretch(Position(rcv.nxt), EndOf(m)))
    BY <1>1, <1>3, AcceptedIs
  <2> HIDE DEF r
  <2>3. /\ rcv' \in Rcv
        /\ rcv'.nxt = r.nxt /\ rcv'.wnd = r.wnd /\ rcv'.tcpwnd = r.tcpwnd /\ rcv'.queue = r.queue
        /\ \A x \in net' : x \in net \/ x = AckOf(rcv')
        /\ AckOf(rcv') \in Acks
    BY <2>1, <2>2, AckIs
  <2>4. QED BY <1>1, <1>2, <2>2, <2>3
<1>4. CASE ~(t.data # <<>> /\ InWindow(t.seq) /\ t.seq = rcv.nxt)
  <2>1. AckNow(rcv, {m}) \/ (UNCHANGED rcv /\ Network({m}, {})) BY <1>4 DEF SegmentArrives
  <2>2. CASE AckNow(rcv, {m})
    <3>1. /\ rcv' \in Rcv
          /\ rcv'.nxt = rcv.nxt /\ rcv'.wnd = rcv.wnd /\ rcv'.tcpwnd = rcv.tcpwnd /\ rcv'.queue = rcv.queue
          /\ \A x \in net' : x \in net \/ x = AckOf(rcv')
          /\ AckOf(rcv') \in Acks
      BY <1>1, <2>2, AckIs
    <3>2. QED BY <1>1, <1>2, <3>1
  <2>3. CASE UNCHANGED rcv /\ Network({m}, {})
    <3>1. \A x \in net' : x \in net BY <2>3 DEF Network
    <3>2. QED BY <1>1, <1>2, <2>3, <3>1
  <2>4. QED BY <2>1, <2>2, <2>3
<1>5. QED BY <1>3, <1>4

-----------------------------------------------------------------------------
(***************************************************************************)
(* The invariant is kept.                                                  *)
(***************************************************************************)
LEMMA FirstNumber == Iss \in SeqNos /\ Position(Iss) = 0
<1>1. Iss \in 0 .. SeqWord - 1 BY HalfTheRange
<1>2. Position(Iss) = 0 BY <1>1, PositionIs, HalfTheRange
<1>3. QED BY <1>1, <1>2, HalfTheRange DEF SeqNos

LEMMA TcpInitInv == TcpInit => TcpInv
<1> SUFFICES ASSUME TcpInit PROVE TcpInv OBVIOUS
<1>1. PICK w \in Windows, edge \in Edges :
          /\ snd = [unsent |-> <<>>, unacked |-> <<>>, state |-> "ESTABLISHED",
                    max |-> Iss, lastack |-> Iss, lbb |-> Iss,
                    wnd |-> w, wl1 |-> edge, wl2 |-> Iss,
                    buf |-> SndBuf - 1, queuelen |-> 0,
                    dupacks |-> 0, infr |-> FALSE, nrtx |-> 0]
          /\ rcv = [nxt |-> Iss, wnd |-> w, tcpwnd |-> w, queue |-> <<>>,
                    ackdelay |-> FALSE, reading |-> FALSE]
  BY DEF TcpInit
<1>2. w \in Nat /\ SndBuf \in Nat \ {0} /\ NrtxWord \in Nat \ {0} BY TcpConstants
<1>3. SndBuf - 1 \in 0 .. SndBuf /\ 0 \in 0 .. NrtxWord - 1 /\ <<>> \in Seq(Segments) BY <1>2
<1> DEFINE b == SndBuf - 1
<1>4. b \in 0 .. SndBuf /\ b + 0 - 0 = SndBuf - 1 BY <1>2
<1> HIDE DEF b
<1>5. /\ snd \in Snd /\ snd.unsent = <<>> /\ snd.unacked = <<>> /\ snd.max = Iss /\ snd.lastack = Iss
      /\ snd.lbb = Iss /\ snd.buf = b /\ snd.queuelen = 0 /\ snd.state = "ESTABLISHED"
  BY <1>1, <1>2, <1>3, <1>4, FirstNumber DEF Snd, b
<1>6. All(snd) = <<>> /\ Bufs(<<>>) = 0 BY <1>5, BufsOfNone DEF All
<1>7. Holds(All(snd), 0, 0)
  <2>1. Tiles(<<>>, 0, 0) /\ 0 \in 0 .. Total BY HalfTheRange DEF Tiles
  <2>2. QED BY <1>6, <2>1 DEF Holds
<1>8. SndInv(snd) BY <1>4, <1>5, <1>6, <1>7, FirstNumber DEF SndInv
<1>9. rcv \in Rcv /\ rcv.wnd <= rcv.tcpwnd
  <2>1. <<>> \in Seq(Seq(1 .. Total)) OBVIOUS
  <2>2. QED BY <1>1, <1>2, <2>1, FirstNumber DEF Rcv
<1>10. net = {} BY DEF TcpInit
<1>11. QED BY <1>8, <1>9, <1>10 DEF TcpInv

\* tcp_enqueue.
LEMMA TcpEnqueueIs ==
    ASSUME TcpInv, NEW len \in Lengths, TcpEnqueue(len)
    PROVE  /\ SndInv(snd') /\ Position(snd.lbb) < Position(snd'.lbb)
           /\ snd.state = "ESTABLISHED" /\ snd'.state = snd.state
           /\ snd'.lastack = snd.lastack /\ snd'.max = snd.max
           /\ snd'.wnd = snd.wnd /\ snd'.wl1 = snd.wl1 /\ snd'.wl2 = snd.wl2
           /\ UNCHANGED <<rcv, net, received>>
<1> DEFINE q == Segmented(snd.lbb, [i \in 1 .. len |-> Position(snd.lbb) + i])
<1>1. /\ snd.state = "ESTABLISHED" /\ Position(snd.lbb) + len <= Total /\ len <= snd.buf
      /\ snd' = Enqueued(snd, q, len)
      /\ UNCHANGED <<rcv, net, received>>
  BY DEF TcpEnqueue
<1>2. SndInv(snd) BY DEF TcpInv
<1>3. len \in Nat \ {0} BY TcpConstants
<1>4. snd.lbb \in SeqNos BY <1>2 DEF SndInv, Snd
<1>5. /\ q \in Seq(Segments) /\ Tiles(q, Position(snd.lbb), Position(snd.lbb) + len)
      /\ q # <<>> /\ \A i \in 1 .. Len(q) : q[i].bufs = 1
  BY <1>1, <1>3, <1>4, SegmentsMade
<1> HIDE DEF q
<1>6. /\ SndInv(snd') /\ Position(snd'.lbb) = Position(snd.lbb) + len
      /\ snd'.state = snd.state /\ snd'.lastack = snd.lastack /\ snd'.max = snd.max
      /\ snd'.wnd = snd.wnd /\ snd'.wl1 = snd.wl1 /\ snd'.wl2 = snd.wl2
  BY <1>1, <1>2, <1>5, EnqueuedIs
<1>7. Position(snd.lbb) \in Nat BY <1>4, StreamNumbers
<1>8. Position(snd.lbb) < Position(snd'.lbb) BY <1>3, <1>6, <1>7
<1>9. QED BY <1>1, <1>6, <1>8

LEMMA TcpInvStep == TcpInv /\ [TcpNext]_tcpVars => TcpInv'
<1> SUFFICES ASSUME TcpInv, [TcpNext]_tcpVars PROVE TcpInv' OBVIOUS
<1>0. /\ SndInv(snd) /\ rcv \in Rcv /\ rcv.wnd <= rcv.tcpwnd
      /\ \A m \in net : m \in Acks \/ m \in Sent
  BY DEF TcpInv
<1>1. ASSUME NEW len \in Lengths, TcpEnqueue(len) PROVE TcpInv'
  <2>1. SndInv(snd') /\ UNCHANGED <<rcv, net>> BY <1>1, TcpEnqueueIs
  <2>2. QED BY <1>0, <2>1 DEF TcpInv
<1>2. ASSUME NEW s, SndInv(s), NEW arrived, SendFrom(s, arrived), rcv' = rcv PROVE TcpInv'
  <2>1. SndInv(snd') /\ \A m \in net' : m \in net \/ m \in Sent BY <1>2, SendFromIs
  <2>2. \A m \in net' : m \in Acks \/ m \in Sent BY <1>0, <2>1
  <2>3. QED BY <1>0, <1>2, <2>1, <2>2 DEF TcpInv
<1>3. CASE TcpWritten
  <2>1. SendFrom(snd, {}) /\ rcv' = rcv BY <1>3 DEF TcpWritten
  <2>2. QED BY <1>0, <1>2, <2>1
<1>4. ASSUME NEW m \in net, AckArrives(m) PROVE TcpInv'
  <2>1. snd.state = "ESTABLISHED" /\ SendFrom(Acknowledged(m), {m}) /\ rcv' = rcv
    BY <1>4 DEF AckArrives
  <2>2. m \in Acks BY <1>0, <1>4, MessageKinds DEF AckArrives
  <2>3. SndInv(Acknowledged(m)) BY <1>0, <2>1, <2>2, AcknowledgedIs
  <2>4. QED BY <1>2, <2>1, <2>3
<1>5. ASSUME NEW m \in net, SegmentArrives(m) PROVE TcpInv'
  <2>1. /\ rcv' \in Rcv /\ rcv'.wnd <= rcv'.tcpwnd /\ UNCHANGED <<snd, writing, received>>
        /\ \A x \in net' : x \in net \/ x \in Acks
    BY <1>5, SegmentArrivesIs
  <2>2. \A x \in net' : x \in Acks \/ x \in Sent BY <1>0, <2>1
  <2>3. QED BY <1>0, <2>1, <2>2 DEF TcpInv
<1>6. CASE SlowTimerGivesUp
  <2>1. /\ net' = {} /\ UNCHANGED <<rcv, writing, received>>
        /\ snd' = [snd EXCEPT !.state = "CLOSED", !.unsent = <<>>, !.unacked = <<>>, !.queuelen = 0]
    BY <1>6 DEF SlowTimerGivesUp
  <2>2. SndInv(snd')
    <3>1. <<>> \in Seq(Segments) /\ snd \in Snd BY <1>0 DEF SndInv
    <3>2. /\ snd' \in Snd /\ snd'.state = "CLOSED" /\ snd'.unsent = <<>> /\ snd'.unacked = <<>>
          /\ snd'.max = snd.max /\ snd'.lastack = snd.lastack /\ snd'.lbb = snd.lbb /\ snd'.buf = snd.buf
      BY <2>1, <3>1 DEF Snd
    <3>3. QED BY <1>0, <3>2 DEF SndInv
  <2>3. QED BY <1>0, <2>1, <2>2 DEF TcpInv
<1>7. CASE SlowTimerRexmits
  <2>1. SendFrom(TcpRexmit(snd), {}) /\ rcv' = rcv
    BY <1>7 DEF SlowTimerRexmits
  <2>2. SndInv(TcpRexmit(snd)) BY <1>0, RexmitKeeps
  <2>3. QED BY <1>2, <2>1, <2>2
<1>8. CASE FastTimer
  <2>1. AckNow(rcv, {}) /\ UNCHANGED <<snd, writing, received>> BY <1>8 DEF FastTimer
  <2>2. /\ rcv' \in Rcv /\ rcv'.wnd = rcv.wnd /\ rcv'.tcpwnd = rcv.tcpwnd
        /\ \A m \in net' : m \in net \/ m \in Acks
    BY <1>0, <2>1, AckIs
  <2>3. \A x \in net' : x \in Acks \/ x \in Sent BY <1>0, <2>2
  <2>4. QED BY <1>0, <2>1, <2>2, <2>3 DEF TcpInv
<1>9. CASE TcpRead
  <2> DEFINE wnd == rcv.wnd + Len(Head(rcv.queue))
             w   == IF wnd > rcv.tcpwnd THEN rcv.tcpwnd ELSE wnd
  <2>1. /\ rcv.queue # <<>> /\ UNCHANGED <<snd, net, writing>>
        /\ rcv' = [rcv EXCEPT !.queue = Tail(@), !.wnd = w, !.reading = TRUE]
    BY <1>9 DEF TcpRead
  <2>2. rcv.queue \in Seq(Seq(1 .. Total)) /\ rcv.wnd \in Nat /\ rcv.tcpwnd \in Nat BY <1>0, RcvIs
  <2>3. Head(rcv.queue) \in Seq(1 .. Total) /\ Tail(rcv.queue) \in Seq(Seq(1 .. Total))
    <3> DEFINE S == Seq(1 .. Total)
    <3>1. rcv.queue \in Seq(S) BY <2>2
    <3> HIDE DEF S
    <3>2. Head(rcv.queue) \in S /\ Tail(rcv.queue) \in Seq(S) BY <2>1, <3>1
    <3>3. QED BY <3>2 DEF S
  <2>4. Len(Head(rcv.queue)) \in Nat BY <2>3
  <2>5. w \in Nat /\ w <= rcv.tcpwnd
    <3>1. wnd \in Nat BY <2>2, <2>4
    <3> HIDE DEF wnd
    <3>2. CASE wnd > rcv.tcpwnd BY <2>2, <3>2
    <3>3. CASE ~(wnd > rcv.tcpwnd) BY <2>2, <3>1, <3>3
    <3>4. QED BY <3>2, <3>3
  <2> HIDE DEF w
  <2>6. rcv' \in Rcv /\ rcv'.wnd = w /\ rcv'.tcpwnd = rcv.tcpwnd BY <1>0, <2>1, <2>3, <2>5 DEF Rcv
  <2>7. QED BY <1>0, <2>1, <2>5, <2>6 DEF TcpInv
<1>10. CASE TcpReadAcks
  <2>1. rcv' = [rcv EXCEPT !.reading = FALSE, !.ackdelay = TRUE] /\ UNCHANGED <<snd, net, writing>>
    BY <1>10 DEF TcpReadAcks
  <2>2. rcv' \in Rcv /\ rcv'.wnd = rcv.wnd /\ rcv'.tcpwnd = rcv.tcpwnd BY <1>0, <2>1 DEF Rcv
  <2>3. QED BY <1>0, <2>1, <2>2 DEF TcpInv
<1>11. CASE UNCHANGED tcpVars
  <2>1. snd' = snd /\ rcv' = rcv /\ net' = net BY <1>11 DEF tcpVars
  <2>2. QED BY <1>0, <2>1 DEF TcpInv
<1>12. QED BY <1>1, <1>3, <1>4, <1>5, <1>6, <1>7, <1>8, <1>9, <1>10, <1>11 DEF TcpNext

LEMMA TcpInvariant == TcpInit /\ [][TcpNext]_tcpVars => []TcpInv
BY TcpInitInv, TcpInvStep, PTL

LEMMA TcpInvTypes == TcpInv => TcpTypeOK
<1> SUFFICES ASSUME TcpInv PROVE TcpTypeOK OBVIOUS
<1>1. /\ snd \in Snd /\ snd.unsent \in Seq(Segments) /\ snd.unacked \in Seq(Segments)
      /\ snd.buf \in 0 .. SndBuf /\ snd.nrtx \in 0 .. NrtxWord - 1
      /\ snd.state \in {"ESTABLISHED", "CLOSED"} /\ rcv \in Rcv /\ rcv.wnd <= rcv.tcpwnd
  BY DEF TcpInv, SndInv, Snd
<1>2. /\ rcv.nxt \in SeqNos /\ rcv.wnd \in Nat /\ rcv.tcpwnd \in Nat /\ rcv.queue \in Seq(Seq(1 .. Total))
  BY <1>1, RcvIs
<1>3. ASSUME NEW g \in ToSet(snd.unsent \o snd.unacked)
      PROVE  g.seq \in 0 .. SeqWord - 1 /\ g.data \in Seq(1 .. Total) /\ Len(g.data) \in 1 .. MSS
  <2> DEFINE z == snd.unsent \o snd.unacked
  <2>1. z \in Seq(Segments) BY <1>1
  <2>2. g \in ToSet(z) BY <1>3
  <2> HIDE DEF z
  <2>3. PICK i \in DOMAIN z : g = z[i] BY <2>2 DEF ToSet
  <2>4. g \in Segments BY <2>1, <2>3
  <2>5. QED BY <2>4, SegmentIs, StreamNumbers
<1>4. ASSUME NEW d \in ToSet(rcv.queue) PROVE d \in Seq(1 .. Total)
  <2> DEFINE S == Seq(1 .. Total)
  <2>1. rcv.queue \in Seq(S) BY <1>2
  <2>2. PICK i \in 1 .. Len(rcv.queue) : d = rcv.queue[i] BY <1>4 DEF ToSet
  <2> HIDE DEF S
  <2>3. d \in S BY <2>1, <2>2
  <2>4. QED BY <2>3 DEF S
<1>5. rcv.nxt \in 0 .. SeqWord - 1 /\ rcv.wnd \in 0 .. rcv.tcpwnd BY <1>1, <1>2, StreamNumbers
<1>6. QED BY <1>1, <1>3, <1>4, <1>5 DEF TcpTypeOK

LEMMA TcpInvLists == TcpInv => SendListsAgree
<1> SUFFICES ASSUME TcpInv, snd.state = "ESTABLISHED" PROVE SendListsAgree BY DEF SendListsAgree
<1> DEFINE all == snd.unacked \o snd.unsent
           A   == Position(snd.lastack)
           L   == Position(snd.lbb)
<1>1. /\ snd \in Snd /\ snd.unsent \in Seq(Segments) /\ snd.unacked \in Seq(Segments)
      /\ snd.lastack \in SeqNos /\ snd.lbb \in SeqNos
      /\ snd.buf + L - A = SndBuf - 1
      /\ Holds(all, A, L) /\ snd.queuelen = Bufs(all)
  BY DEF TcpInv, SndInv, Snd, All
<1>2. all \in Seq(Segments) BY <1>1
<1>3. A \in 0 .. Total /\ L \in 0 .. Total /\ SndBuf \in Nat /\ snd.buf \in Nat
  BY <1>1, StreamNumbers, TcpConstants DEF Snd
<1> HIDE DEF all, A, L
<1>4. PICK a \in 0 .. Total : /\ Tiles(all, a, L) /\ a <= A
                              /\ all # <<>> => A < EndOf(all[1])
                              /\ all = <<>> => A = L
  BY <1>1 DEF Holds
<1>5. Len(all) \in Nat /\ \A i \in 1 .. Len(all) : all[i] \in Segments BY <1>2
<1>6. ASSUME NEW i \in 1 .. Len(all) - 1 PROVE all[i + 1].seq = SegEnd(all[i])
  <2>1. i \in 1 .. Len(all) /\ i + 1 \in 1 .. Len(all) BY <1>5
  <2>2. Starts(all[i + 1]) = EndOf(all[i]) BY <1>4 DEF Tiles
  <2>3. /\ all[i + 1].seq \in SeqNos /\ SegEnd(all[i]) \in SeqNos
        /\ Position(all[i + 1].seq) = Position(SegEnd(all[i]))
    BY <1>5, <2>1, <2>2, SegmentIs
  <2>4. QED BY <2>3, ComparePositions
<1>7. ASSUME all # <<>>
      PROVE  /\ SegEnd(Last(all)) = snd.lbb
             /\ SeqLEQ(all[1].seq, snd.lastack) /\ SeqLT(snd.lastack, SegEnd(all[1]))
  <2>1. 1 \in 1 .. Len(all) /\ Len(all) \in 1 .. Len(all) BY <1>2, <1>7
  <2>2. all[1] \in Segments /\ all[Len(all)] \in Segments BY <1>5, <2>1
  <2>3. EndOf(all[Len(all)]) = L /\ Starts(all[1]) = a BY <1>4, <1>7 DEF Tiles
  <2>4. SegEnd(all[Len(all)]) \in SeqNos /\ Position(SegEnd(all[Len(all)])) = L BY <2>2, <2>3, SegmentIs
  <2>5. SegEnd(all[Len(all)]) = snd.lbb BY <1>1, <2>4, ComparePositions DEF L
  <2>6. all[1].seq \in SeqNos /\ Position(all[1].seq) = a BY <2>2, <2>3, SegmentIs
  <2>7. SegEnd(all[1]) \in SeqNos /\ Position(SegEnd(all[1])) = EndOf(all[1]) BY <2>2, SegmentIs
  <2>8. SeqLEQ(all[1].seq, snd.lastack) BY <1>1, <1>4, <2>6, ComparePositions DEF A
  <2>9. SeqLT(snd.lastack, SegEnd(all[1])) BY <1>1, <1>4, <1>7, <2>7, ComparePositions DEF A
  <2>10. QED BY <2>5, <2>8, <2>9 DEF Last
<1>8. all = <<>> => snd.lastack = snd.lbb BY <1>1, <1>4, ComparePositions DEF A, L
<1>9. snd.buf + L - A = SndBuf - 1 BY <1>1
<1>10. QED BY <1>1, <1>6, <1>7, <1>8, <1>9 DEF SendListsAgree, all, A, L

\* Whatever arrives, tcp_write, tcp_receive, tcp_read and the timers keep the
\* types: no segment is empty or longer than MSS, snd_buf stays within the
\* buffer, and the window is never opened beyond what was announced.
THEOREM TcpTypeCorrect == TcpSpec => []TcpTypeOK
BY TcpInvariant, TcpInvTypes, PTL DEF TcpSpec

\* After any cutting, chaining, sending again and acknowledging in part
\* (tcp-out.c, tcp-in.c:124-249), between the two halves of tcp_write or outside
\* of it, the lists of the sender are one stretch of the stream, from the last
\* acknowledgement to the last byte written, and snd_queuelen and snd_buf count
\* it.  One call of tcp_write at a time, as Tcp states it.
THEOREM TcpSendLists == TcpSpec => []SendListsAgree
BY TcpInvariant, TcpInvLists, PTL DEF TcpSpec

-----------------------------------------------------------------------------
(***************************************************************************)
(* What the two sides know of each other.                                  *)
(***************************************************************************)
\* The writer takes the window from every acknowledgement that is news to it.
WindowFollowed == Edges \subseteq {"older", "same"}

\* The queue holds the bytes from c to r.
Marks(queue, c, r, e) ==
    /\ e \in [0 .. Len(queue) -> 0 .. Total]
    /\ e[0] = c /\ e[Len(queue)] = r
    /\ \A i \in 1 .. Len(queue) : e[i - 1] < e[i] /\ queue[i] = Stretch(e[i - 1], e[i])

QueueHolds == \E e \in [0 .. Len(rcv.queue) -> 0 .. Total] :
              Marks(rcv.queue, Len(received), Position(rcv.nxt), e)

\* As far as the reader has opened its window.
Opened == Position(rcv.nxt) + rcv.wnd

\* The writer knows no more than that.
WindowInv ==
    /\ Position(snd.lastack) <= Position(rcv.nxt) /\ Position(rcv.nxt) <= Position(snd.max)
    /\ snd.wl1 \in {"older", "same"} /\ snd.wl2 = snd.lastack
    /\ snd.wl1 = "older" => Position(snd.lastack) = 0
    /\ Position(snd.lastack) + snd.wnd <= Opened
    /\ \A m \in net \cap Acks : Position(m.ack) <= Position(rcv.nxt) /\ Position(m.ack) + m.wnd <= Opened
    /\ \A m \in net \cap Sent : /\ EndOf(m) <= Position(snd.max) /\ EndOf(m) <= Opened
                                /\ snd.state = "ESTABLISHED"

ReaderInv ==
    /\ received = Stretch(0, Len(received)) /\ Len(received) \in 0 .. Total
    /\ QueueHolds
    /\ rcv.wnd + (Position(rcv.nxt) - Len(received)) = rcv.tcpwnd

LEMMA StretchIs ==
    ASSUME NEW a \in Nat, NEW b \in Nat, a <= b
    PROVE  /\ Stretch(a, b) \in Seq(Nat) /\ Len(Stretch(a, b)) = b - a
           /\ \A i \in 1 .. b - a : Stretch(a, b)[i] = a + i
           /\ b <= Total => Stretch(a, b) \in Seq(1 .. Total)
<1>0. b - a \in Nat OBVIOUS
<1>1. \A i \in 1 .. b - a : a + i \in Nat /\ a + i \in 1 .. b OBVIOUS
<1>2. Stretch(a, b) \in [1 .. b - a -> Nat] BY <1>1 DEF Stretch
<1>3. Stretch(a, b) \in Seq(Nat) /\ Len(Stretch(a, b)) = b - a BY <1>0, <1>2
<1>4. \A i \in 1 .. b - a : Stretch(a, b)[i] = a + i BY DEF Stretch
<1>5. ASSUME b <= Total PROVE Stretch(a, b) \in Seq(1 .. Total)
  <2> DEFINE T == 1 .. Total
  <2>1. \A i \in 1 .. b - a : a + i \in T BY <1>1, <1>5, HalfTheRange
  <2> HIDE DEF T
  <2>2. Stretch(a, b) \in [1 .. b - a -> T] BY <2>1 DEF Stretch
  <2>3. Stretch(a, b) \in Seq(T) BY <1>0, <2>2
  <2>4. QED BY <2>3 DEF T
<1>6. QED BY <1>3, <1>4, <1>5

LEMMA StretchNone == ASSUME NEW a \in Nat PROVE Stretch(a, a) = <<>>
<1>1. a <= a /\ a - a = 0 OBVIOUS
<1>2. Stretch(a, a) \in Seq(Nat) /\ Len(Stretch(a, a)) = a - a BY <1>1, StretchIs
<1>3. Len(Stretch(a, a)) = 0 BY <1>1, <1>2
<1>4. QED BY <1>2, <1>3

\* Two that have the same bytes are the same.
LEMMA StretchBy ==
    ASSUME NEW a \in Nat, NEW b \in Nat, a <= b, NEW s \in Seq(Nat), Len(s) = b - a,
           \A i \in 1 .. b - a : s[i] = a + i
    PROVE  s = Stretch(a, b)
<1> DEFINE t == Stretch(a, b)
<1>1. t \in Seq(Nat) /\ Len(t) = b - a /\ \A i \in 1 .. b - a : t[i] = a + i BY StretchIs
<1> HIDE DEF t
<1>2. \A i \in 1 .. Len(s) : s[i] = t[i] BY <1>1
<1>3. s = t BY <1>1, <1>2, SeqEqual
<1>4. QED BY <1>3 DEF t

LEMMA StretchJoin ==
    ASSUME NEW a \in Nat, NEW b \in Nat, NEW c \in Nat, a <= b, b <= c
    PROVE  Stretch(a, b) \o Stretch(b, c) = Stretch(a, c)
<1> DEFINE x == Stretch(a, b)
           y == Stretch(b, c)
           m == b - a
           n == c - b
<1>1. x \in Seq(Nat) /\ Len(x) = m /\ \A i \in 1 .. m : x[i] = a + i BY StretchIs
<1>2. y \in Seq(Nat) /\ Len(y) = n /\ \A i \in 1 .. n : y[i] = b + i BY StretchIs
<1>3. m \in Nat /\ n \in Nat /\ m + n = c - a /\ a + m = b OBVIOUS
<1> HIDE DEF x, y, m, n
<1>4. x \o y \in Seq(Nat) /\ Len(x \o y) = m + n
  <2>1. x \in Seq(Nat) /\ y \in Seq(Nat) BY <1>1, <1>2
  <2>2. x \o y \in Seq(Nat) /\ Len(x \o y) = Len(x) + Len(y) BY <2>1
  <2>3. Len(x) = m /\ Len(y) = n BY <1>1, <1>2
  <2>4. QED BY <2>2, <2>3
<1>5. ASSUME NEW i \in 1 .. m + n PROVE (x \o y)[i] = a + i
  <2>1. CASE i <= m
    <3>1. i \in 1 .. m BY <1>3, <2>1
    <3>2. (x \o y)[i] = x[i] BY <1>1, <1>2, <3>1
    <3>3. QED BY <1>1, <3>1, <3>2
  <2>2. CASE ~(i <= m)
    <3>1. i - m \in 1 .. n /\ b + (i - m) = a + i BY <1>3, <2>2
    <3>2. (x \o y)[i] = y[i - m] BY <1>1, <1>2, <1>3, <2>2
    <3>3. QED BY <1>2, <3>1, <3>2
  <2>3. QED BY <2>1, <2>2
<1>6. Len(x \o y) = c - a /\ \A i \in 1 .. c - a : (x \o y)[i] = a + i BY <1>3, <1>4, <1>5
<1>7. a <= c OBVIOUS
<1>8. x \o y = Stretch(a, c) BY <1>4, <1>6, <1>7, StretchBy
<1>9. QED BY <1>8 DEF x, y

LEMMA StretchPart ==
    ASSUME NEW a \in Nat, NEW b \in Nat, NEW c \in Nat, a <= b, b <= c
    PROVE  /\ SubSeq(Stretch(a, c), 1, b - a) = Stretch(a, b)
           /\ SubSeq(Stretch(a, c), b - a + 1, c - a) = Stretch(b, c)
<1> DEFINE s == Stretch(a, c)
           m == b - a
           l == c - a
<1>0. a <= c OBVIOUS
<1>1. s \in Seq(Nat) /\ Len(s) = l /\ \A i \in 1 .. l : s[i] = a + i BY <1>0, StretchIs
<1>2. m \in Nat /\ l \in Nat /\ m <= l /\ l - m = c - b /\ m - 0 = b - a /\ a + m = b /\ 0 \in Nat /\ 0 <= m
  OBVIOUS
<1> HIDE DEF s, m, l
<1>3. PICK z \in Nat : z = 0 OBVIOUS
<1>4. /\ SubSeq(s, z + 1, m) \in Seq(Nat) /\ Len(SubSeq(s, z + 1, m)) = m - z
      /\ SubSeq(s, z + 1, m) = [i \in 1 .. m - z |-> s[z + i]]
  <2>1. z <= m /\ m <= Len(s) BY <1>1, <1>2, <1>3
  <2>2. QED BY <1>1, <1>2, <2>1, CutOut
<1>5. /\ SubSeq(s, m + 1, l) \in Seq(Nat) /\ Len(SubSeq(s, m + 1, l)) = l - m
      /\ SubSeq(s, m + 1, l) = [i \in 1 .. l - m |-> s[m + i]]
  <2>1. m <= l /\ l <= Len(s) BY <1>1, <1>2
  <2>2. QED BY <1>1, <1>2, <2>1, CutOut
<1>6. SubSeq(s, z + 1, m) = Stretch(a, b)
  <2> DEFINE t == SubSeq(s, z + 1, m)
  <2>1. Len(t) = b - a BY <1>2, <1>3, <1>4
  <2>2. \A i \in 1 .. b - a : t[i] = a + i
    <3>1. \A i \in 1 .. b - a : i \in 1 .. m - z /\ z + i = i /\ i \in 1 .. l BY <1>2, <1>3
    <3>2. \A i \in 1 .. b - a : t[i] = s[z + i] BY <1>4, <3>1
    <3> HIDE DEF t
    <3>3. QED BY <1>1, <3>1, <3>2
  <2> HIDE DEF t
  <2>3. t \in Seq(Nat) BY <1>4 DEF t
  <2>4. t = Stretch(a, b) BY <2>1, <2>2, <2>3, StretchBy
  <2>5. QED BY <2>4 DEF t
<1>7. SubSeq(s, m + 1, l) = Stretch(b, c)
  <2> DEFINE t == SubSeq(s, m + 1, l)
  <2>1. Len(t) = c - b BY <1>2, <1>5
  <2>2. \A i \in 1 .. c - b : t[i] = b + i
    <3>1. \A i \in 1 .. c - b : i \in 1 .. l - m /\ m + i \in 1 .. l /\ a + (m + i) = b + i BY <1>2
    <3>2. \A i \in 1 .. c - b : t[i] = s[m + i] BY <1>5, <3>1
    <3> HIDE DEF t
    <3>3. \A i \in 1 .. c - b : s[m + i] = a + (m + i) BY <1>1, <3>1
    <3>4. QED BY <3>1, <3>2, <3>3
  <2> HIDE DEF t
  <2>3. t \in Seq(Nat) BY <1>5 DEF t
  <2>4. t = Stretch(b, c) BY <2>1, <2>2, <2>3, StretchBy
  <2>5. QED BY <2>4 DEF t
<1>8. SubSeq(s, 1, m) = Stretch(a, b)
  <2>1. z + 1 = 1 BY <1>3
  <2>2. QED BY <1>6, <2>1
<1>9. QED BY <1>7, <1>8 DEF s, m, l

LEMMA MarksAre ==
    ASSUME NEW queue \in Seq(Seq(1 .. Total)), NEW c, NEW r, NEW e, Marks(queue, c, r, e)
    PROVE  /\ c \in 0 .. Total /\ r \in 0 .. Total /\ c <= r /\ Len(queue) <= r - c
           /\ queue # <<>> => c < r
           /\ \A i, j \in 0 .. Len(queue) : i < j => e[i] < e[j]
<1>1. Len(queue) \in Nat /\ e \in [0 .. Len(queue) -> 0 .. Total] /\ e[0] = c /\ e[Len(queue)] = r
  BY DEF Marks
<1>2. e \in [0 .. Len(queue) -> Nat] BY <1>1, HalfTheRange
<1>3. \A i \in 1 .. Len(queue) : e[i - 1] < e[i] BY DEF Marks
<1>4. \A i, j \in 0 .. Len(queue) : i < j => e[i] < e[j] /\ j - i <= e[j] - e[i]
  BY <1>1, <1>2, <1>3, Increasing
<1>5. c \in 0 .. Total /\ r \in 0 .. Total BY <1>1
<1>6. c <= r /\ Len(queue) <= r - c /\ (Len(queue) # 0 => c < r)
  <2> DEFINE n == Len(queue)
  <2>1. n \in Nat /\ 0 \in 0 .. n /\ n \in 0 .. n BY <1>1
  <2> HIDE DEF n
  <2>2. 0 < n => e[0] < e[n] /\ n - 0 <= e[n] - e[0] BY <1>4, <2>1 DEF n
  <2>3. e[0] = c /\ e[n] = r BY <1>1 DEF n
  <2>4. c <= r /\ n <= r - c /\ (n # 0 => c < r) BY <1>5, <2>1, <2>2, <2>3, HalfTheRange
  <2>5. QED BY <2>4 DEF n
<1>7. queue # <<>> => c < r BY <1>1, <1>6
<1>8. QED BY <1>4, <1>5, <1>6, <1>7

\* Data joins the queue.
LEMMA MarksAppend ==
    ASSUME NEW queue \in Seq(Seq(1 .. Total)), NEW c, NEW r, NEW e, Marks(queue, c, r, e),
           NEW x \in 0 .. Total, r < x
    PROVE  \E f : Marks(Append(queue, Stretch(r, x)), c, x, f)
<1> DEFINE n == Len(queue)
           q == Append(queue, Stretch(r, x))
           f == [i \in 0 .. n + 1 |-> IF i <= n THEN e[i] ELSE x]
           S == Seq(1 .. Total)
<1>1. /\ n \in Nat /\ e \in [0 .. n -> 0 .. Total] /\ e[0] = c /\ e[n] = r
      /\ \A i \in 1 .. n : e[i - 1] < e[i] /\ queue[i] = Stretch(e[i - 1], e[i])
  BY DEF Marks
<1>2. r \in 0 .. Total BY MarksAre
<1>3. Stretch(r, x) \in S BY <1>2, StretchIs, HalfTheRange
<1>4. /\ Len(q) = n + 1 /\ \A i \in 1 .. n : q[i] = queue[i]
      /\ q[n + 1] = Stretch(r, x)
  <2> DEFINE d == Stretch(r, x)
  <2>1. queue \in Seq(S) /\ d \in S BY <1>3
  <2> HIDE DEF S, d
  <2>2. Len(Append(queue, d)) = n + 1 /\ (\A i \in 1 .. n : Append(queue, d)[i] = queue[i])
        /\ Append(queue, d)[n + 1] = d
    BY <2>1
  <2>3. QED BY <2>2 DEF d
<1>5. f \in [0 .. n + 1 -> 0 .. Total] BY <1>1
<1>6. f[0] = c /\ f[n + 1] = x BY <1>1
<1>7. ASSUME NEW i \in 1 .. n + 1 PROVE f[i - 1] < f[i] /\ q[i] = Stretch(f[i - 1], f[i])
  <2>1. CASE i <= n
    <3>1. i \in 1 .. n /\ i - 1 \in 0 .. n /\ i \in 0 .. n BY <1>1, <2>1
    <3>2. f[i - 1] = e[i - 1] /\ f[i] = e[i] BY <3>1
    <3> HIDE DEF f, q
    <3>3. QED BY <1>1, <1>4, <3>1, <3>2
  <2>2. CASE i = n + 1
    <3>1. f[i - 1] = r /\ f[i] = x BY <1>1, <2>2
    <3> HIDE DEF f, q
    <3>2. QED BY <1>4, <2>2, <3>1
  <2>3. i <= n \/ i = n + 1 BY <1>1
  <2> HIDE DEF n, q, f
  <2>4. QED BY <2>1, <2>2, <2>3
<1> HIDE DEF f, q
<1>8. Marks(q, c, x, f) BY <1>4, <1>5, <1>6, <1>7 DEF Marks
<1>9. QED BY <1>8 DEF q

\* The first of the queue is taken.
LEMMA MarksTail ==
    ASSUME NEW queue \in Seq(Seq(1 .. Total)), queue # <<>>, NEW c, NEW r, NEW e, Marks(queue, c, r, e)
    PROVE  /\ e[1] \in 0 .. Total /\ c < e[1] /\ e[1] <= r /\ Head(queue) = Stretch(c, e[1])
           /\ \E f : Marks(Tail(queue), e[1], r, f)
<1> DEFINE n == Len(queue)
           q == Tail(queue)
           f == [i \in 0 .. n - 1 |-> e[i + 1]]
           S == Seq(1 .. Total)
<1>1. /\ n \in Nat /\ e \in [0 .. n -> 0 .. Total] /\ e[0] = c /\ e[n] = r
      /\ \A i \in 1 .. n : e[i - 1] < e[i] /\ queue[i] = Stretch(e[i - 1], e[i])
  BY DEF Marks
<1>2. n >= 1 /\ Head(queue) = queue[1]
  <2>1. queue \in Seq(S) OBVIOUS
  <2> HIDE DEF S
  <2>2. QED BY <2>1
<1>3. Len(q) = n - 1 /\ \A i \in 1 .. n - 1 : q[i] = queue[i + 1]
  <2>1. queue \in Seq(S) OBVIOUS
  <2> HIDE DEF S
  <2>2. QED BY <2>1
<1> HIDE DEF n, q
<1>4. 1 \in 1 .. n /\ 1 \in 0 .. n /\ 1 - 1 = 0 BY <1>1, <1>2
<1>5. e[1] \in 0 .. Total /\ c < e[1] /\ queue[1] = Stretch(c, e[1]) BY <1>1, <1>4
<1>6. e[1] <= r
  <2>1. CASE n = 1 BY <1>1, <1>5, <2>1
  <2>2. CASE n # 1
    <3>1. 1 < n /\ n \in 0 .. n BY <1>1, <1>2, <2>2
    <3>2. e[1] < e[n] BY <1>4, <3>1, MarksAre DEF n
    <3>3. QED BY <1>1, <1>5, <3>1, <3>2
  <2>3. QED BY <2>1, <2>2
<1>7. \A i \in 0 .. n - 1 : i + 1 \in 0 .. n BY <1>1
<1>8. f \in [0 .. n - 1 -> 0 .. Total] BY <1>1, <1>7
<1>9. f[0] = e[1] /\ f[n - 1] = r
  <2>1. 0 \in 0 .. n - 1 /\ n - 1 \in 0 .. n - 1 /\ (n - 1) + 1 = n /\ 0 + 1 = 1 BY <1>1, <1>2
  <2>2. f[0] = e[0 + 1] /\ f[n - 1] = e[(n - 1) + 1] BY <2>1
  <2>3. QED BY <1>1, <2>1, <2>2
<1>10. ASSUME NEW i \in 1 .. n - 1 PROVE f[i - 1] < f[i] /\ q[i] = Stretch(f[i - 1], f[i])
  <2>1. i + 1 \in 1 .. n /\ (i + 1) - 1 = i /\ i - 1 \in 0 .. n - 1 /\ i \in 0 .. n - 1 /\ (i - 1) + 1 = i
    BY <1>1
  <2>2. f[i - 1] = e[i] /\ f[i] = e[i + 1] BY <2>1
  <2> HIDE DEF f
  <2>3. e[(i + 1) - 1] < e[i + 1] /\ queue[i + 1] = Stretch(e[(i + 1) - 1], e[i + 1]) BY <1>1, <2>1
  <2>4. q[i] = queue[i + 1] BY <1>3
  <2>5. QED BY <2>1, <2>2, <2>3, <2>4
<1> HIDE DEF f
<1>11. Marks(q, e[1], r, f) BY <1>3, <1>8, <1>9, <1>10 DEF Marks
<1>12. QED BY <1>2, <1>5, <1>6, <1>11 DEF q

-----------------------------------------------------------------------------
(***************************************************************************)
(* What the writer knows stays behind what the reader has opened.          *)
(***************************************************************************)
LEMMA TcpInvNumbers ==
    ASSUME TcpInv
    PROVE  /\ snd \in Snd /\ rcv \in Rcv
           /\ Position(snd.lastack) \in 0 .. Total /\ Position(snd.max) \in 0 .. Total
           /\ Position(snd.lbb) \in 0 .. Total /\ Position(rcv.nxt) \in 0 .. Total
           /\ snd.wnd \in Nat /\ rcv.wnd \in Nat /\ rcv.tcpwnd \in Nat
           /\ rcv.nxt \in SeqNos /\ snd.lastack \in SeqNos /\ snd.wl2 \in SeqNos
           /\ Position(snd.lastack) <= Position(snd.max) /\ Position(snd.max) <= Position(snd.lbb)
           /\ rcv.queue \in Seq(Seq(1 .. Total))
           /\ Opened \in Nat
<1>1. /\ snd \in Snd /\ rcv \in Rcv
      /\ snd.lastack \in SeqNos /\ snd.max \in SeqNos /\ snd.lbb \in SeqNos /\ snd.wnd \in Nat
      /\ snd.wl2 \in SeqNos
      /\ Position(snd.lastack) <= Position(snd.max) /\ Position(snd.max) <= Position(snd.lbb)
  BY DEF TcpInv, SndInv, Snd
<1>2. /\ Position(snd.lastack) \in 0 .. Total /\ Position(snd.max) \in 0 .. Total
      /\ Position(snd.lbb) \in 0 .. Total
  BY <1>1, StreamNumbers
<1>3. /\ rcv.nxt \in SeqNos /\ rcv.wnd \in Nat /\ rcv.tcpwnd \in Nat
      /\ rcv.queue \in Seq(Seq(1 .. Total)) /\ Position(rcv.nxt) \in 0 .. Total
  BY <1>1, RcvIs
<1>4. Opened \in Nat BY <1>3 DEF Opened
<1>5. QED BY <1>1, <1>2, <1>3, <1>4

LEMMA WindowInit == WindowFollowed /\ TcpInit => WindowInv /\ ReaderInv
<1> SUFFICES ASSUME WindowFollowed, TcpInit PROVE WindowInv /\ ReaderInv OBVIOUS
<1>1. PICK w \in Windows, edge \in Edges :
          /\ snd = [unsent |-> <<>>, unacked |-> <<>>, state |-> "ESTABLISHED",
                    max |-> Iss, lastack |-> Iss, lbb |-> Iss,
                    wnd |-> w, wl1 |-> edge, wl2 |-> Iss,
                    buf |-> SndBuf - 1, queuelen |-> 0,
                    dupacks |-> 0, infr |-> FALSE, nrtx |-> 0]
          /\ rcv = [nxt |-> Iss, wnd |-> w, tcpwnd |-> w, queue |-> <<>>,
                    ackdelay |-> FALSE, reading |-> FALSE]
          /\ net = {} /\ received = <<>>
  BY DEF TcpInit
<1>2. w \in Nat /\ edge \in {"older", "same"} BY TcpConstants DEF WindowFollowed
<1>3. /\ snd.lastack = Iss /\ snd.max = Iss /\ snd.wnd = w /\ snd.wl1 = edge /\ snd.wl2 = Iss
      /\ rcv.nxt = Iss /\ rcv.wnd = w /\ rcv.tcpwnd = w /\ rcv.queue = <<>>
  BY <1>1
<1>4. WindowInv BY <1>1, <1>2, <1>3, FirstNumber DEF WindowInv, Opened
<1>5. ReaderInv
  <2>1. received = Stretch(0, 0) /\ Len(received) = 0
    <3>1. Stretch(0, 0) \in Seq(Nat) /\ Len(Stretch(0, 0)) = 0 BY StretchIs
    <3>2. QED BY <1>1, <3>1
  <2>2. Marks(<<>>, 0, 0, [i \in 0 .. 0 |-> 0]) BY HalfTheRange DEF Marks
  <2>3. [i \in 0 .. 0 |-> 0] \in [0 .. Len(rcv.queue) -> 0 .. Total] BY <1>3, HalfTheRange
  <2>4. QueueHolds BY <1>3, <2>1, <2>2, <2>3, FirstNumber DEF QueueHolds
  <2>5. QED BY <1>2, <1>3, <2>1, <2>4, FirstNumber, HalfTheRange DEF ReaderInv
<1>6. QED BY <1>4, <1>5

\* The writer's side sends.
LEMMA WindowSend ==
    ASSUME TcpInv, WindowInv, NEW s, SndInv(s), NEW arrived, SendFrom(s, arrived), rcv' = rcv,
           s.state = snd.state, s.max = snd.max, Position(s.lastack) <= Position(rcv.nxt),
           s.wl1 \in {"older", "same"}, s.wl2 = s.lastack, s.wl1 = "older" => Position(s.lastack) = 0,
           Position(s.lastack) + s.wnd <= Opened
    PROVE  WindowInv'
<1>1. /\ SndInv(snd')
      /\ snd'.state = s.state /\ snd'.lastack = s.lastack
      /\ snd'.wnd = s.wnd /\ snd'.wl1 = s.wl1 /\ snd'.wl2 = s.wl2
      /\ Position(s.max) <= Position(snd'.max)
      /\ \A m \in net' : \/ m \in net
                         \/ /\ m \in Sent /\ EndOf(m) <= Position(snd'.max)
                            /\ EndOf(m) <= Position(s.lastack) + s.wnd
                            /\ s.state = "ESTABLISHED"
  BY SendFromIs
<1>2. Opened' = Opened /\ Opened \in Nat BY TcpInvNumbers DEF Opened
<1>3. /\ Position(snd.max) \in Nat /\ Position(rcv.nxt) \in Nat /\ Position(snd'.max) \in Nat
      /\ Position(s.lastack) \in Nat /\ s.wnd \in Nat
  <2>1. snd'.max \in SeqNos /\ s.lastack \in SeqNos /\ s.wnd \in Nat BY <1>1 DEF SndInv, Snd
  <2>2. Position(snd'.max) \in Nat /\ Position(s.lastack) \in Nat BY <2>1, StreamNumbers
  <2>3. Position(snd.max) \in Nat /\ Position(rcv.nxt) \in Nat BY TcpInvNumbers
  <2>4. QED BY <2>1, <2>2, <2>3
<1>4. Position(rcv'.nxt) <= Position(snd'.max) BY <1>1, <1>3 DEF WindowInv
<1>5. ASSUME NEW m \in net', m \in Acks
      PROVE  Position(m.ack) <= Position(rcv.nxt) /\ Position(m.ack) + m.wnd <= Opened
  <2>1. m \in net BY <1>1, <1>5, MessageKinds
  <2>2. QED BY <1>5, <2>1 DEF WindowInv
<1>6. ASSUME NEW m \in net', m \in Sent
      PROVE  EndOf(m) <= Position(snd'.max) /\ EndOf(m) <= Opened /\ snd'.state = "ESTABLISHED"
  <2>1. EndOf(m) \in Nat BY <1>6, MessageIs
  <2>2. CASE m \in net
    <3>1. EndOf(m) <= Position(snd.max) /\ EndOf(m) <= Opened /\ snd.state = "ESTABLISHED"
      BY <1>6, <2>2 DEF WindowInv
    <3>2. QED BY <1>1, <1>3, <2>1, <3>1
  <2>3. CASE m \notin net
    <3>1. /\ EndOf(m) <= Position(snd'.max) /\ EndOf(m) <= Position(s.lastack) + s.wnd
          /\ s.state = "ESTABLISHED"
      BY <1>1, <2>3
    <3>2. QED BY <1>1, <1>2, <1>3, <2>1, <3>1
  <2>4. QED BY <2>2, <2>3
<1>7. QED BY <1>1, <1>2, <1>4, <1>5, <1>6 DEF WindowInv

\* The reader's side takes what was sent, and opens its window, never back.
LEMMA WindowReceive ==
    ASSUME TcpInv, TcpInv', WindowInv, snd' = snd,
           Position(rcv.nxt) <= Position(rcv'.nxt), Position(rcv'.nxt) <= Position(snd.max),
           Opened <= Opened', \A m \in net' : m \in net \/ m = AckOf(rcv')
    PROVE  WindowInv'
<1>1. Opened \in Nat /\ Opened' \in Nat /\ Position(rcv'.nxt) \in Nat /\ rcv'.wnd \in Nat
      /\ Position(rcv.nxt) \in Nat /\ Position(snd.lastack) \in Nat /\ snd.wnd \in Nat
      /\ Position(snd.max) \in Nat
  <2>1. rcv' \in Rcv BY DEF TcpInv
  <2>2. rcv'.wnd \in Nat /\ rcv'.nxt \in SeqNos BY <2>1 DEF Rcv
  <2>3. Position(rcv'.nxt) \in Nat BY <2>2, StreamNumbers
  <2>4. Opened' \in Nat BY <2>2, <2>3 DEF Opened
  <2>5. QED BY <2>2, <2>3, <2>4, TcpInvNumbers
<1>2. ASSUME NEW m \in net', m \in Acks
      PROVE  Position(m.ack) <= Position(rcv'.nxt) /\ Position(m.ack) + m.wnd <= Opened'
  <2>1. CASE m \in net
    <3>1. Position(m.ack) <= Position(rcv.nxt) /\ Position(m.ack) + m.wnd <= Opened
      BY <1>2, <2>1 DEF WindowInv
    <3>2. m.ack \in SeqNos /\ m.wnd \in Nat BY <1>2 DEF Acks
    <3>3. Position(m.ack) \in Nat BY <3>2, StreamNumbers
    <3>4. QED BY <1>1, <3>1, <3>2, <3>3
  <2>2. CASE m = AckOf(rcv')
    <3>1. m.ack = rcv'.nxt /\ m.wnd = rcv'.wnd BY <2>2 DEF AckOf
    <3>2. QED BY <1>1, <3>1 DEF Opened
  <2>3. QED BY <2>1, <2>2
<1>3. ASSUME NEW m \in net', m \in Sent
      PROVE  EndOf(m) <= Position(snd'.max) /\ EndOf(m) <= Opened' /\ snd'.state = "ESTABLISHED"
  <2>1. m \in net
    <3>1. SUFFICES ASSUME m = AckOf(rcv') PROVE FALSE OBVIOUS
    <3>2. DOMAIN m = {"ack", "wnd"} BY <3>1 DEF AckOf
    <3>3. QED BY <1>3, <3>2, MessageKinds
  <2>2. EndOf(m) <= Position(snd.max) /\ EndOf(m) <= Opened /\ snd.state = "ESTABLISHED"
    BY <1>3, <2>1 DEF WindowInv
  <2>3. EndOf(m) \in Nat BY <1>3, MessageIs
  <2>4. QED BY <1>1, <2>2, <2>3
<1>4. Position(snd.lastack) <= Position(rcv'.nxt) /\ Position(snd.lastack) + snd.wnd <= Opened'
  BY <1>1 DEF WindowInv
<1>5. QED BY <1>2, <1>3, <1>4 DEF WindowInv

\* What an acknowledgement of the reader makes of the writer's socket.
LEMMA WindowAcknowledged ==
    ASSUME TcpInv, WindowInv, snd.state = "ESTABLISHED", NEW m \in net, m \in Acks
    PROVE  LET s == Acknowledged(m)
           IN  /\ SndInv(s) /\ s.state = snd.state /\ s.max = snd.max /\ s.lbb = snd.lbb
               /\ Position(s.lastack) <= Position(rcv.nxt)
               /\ s.wl1 \in {"older", "same"} /\ s.wl2 = s.lastack
               /\ s.wl1 = "older" => Position(s.lastack) = 0
               /\ Position(s.lastack) + s.wnd <= Opened
<1> DEFINE s == Acknowledged(m)
           A == Position(snd.lastack)
           K == Position(m.ack)
           M == Position(snd.max)
<1>1. SndInv(snd) BY DEF TcpInv
<1>2. /\ SndInv(s) /\ Updated(snd, m, s)
      /\ s.state = snd.state /\ s.max = snd.max /\ s.lbb = snd.lbb
      /\ s.lastack = IF A < K /\ K <= M THEN m.ack ELSE snd.lastack
  BY <1>1, AcknowledgedIs
<1>3. m.ack \in SeqNos /\ m.wnd \in Nat /\ snd.lastack \in SeqNos /\ snd.wnd \in Nat
  BY TcpInvNumbers DEF Acks
<1>4. K \in Nat /\ A \in Nat /\ M \in Nat /\ Position(rcv.nxt) \in Nat /\ Opened \in Nat
  BY <1>3, StreamNumbers, TcpInvNumbers
<1>5. K <= Position(rcv.nxt) /\ K + m.wnd <= Opened BY DEF WindowInv
<1>6. /\ A <= Position(rcv.nxt) /\ Position(rcv.nxt) <= M
      /\ snd.wl1 \in {"older", "same"} /\ snd.wl2 = snd.lastack
      /\ snd.wl1 = "older" => A = 0
      /\ A + snd.wnd <= Opened
  BY DEF WindowInv
<1>7. K <= M BY <1>4, <1>5, <1>6
<1>8. SeqLT(snd.wl2, m.ack) <=> A < K BY <1>3, <1>6, ComparePositions
<1>9. snd.lastack = m.ack <=> A = K BY <1>3, ComparePositions
<1> HIDE DEF s, A, K, M
<1>10. CASE A < K
  <2>1. s.lastack = m.ack BY <1>2, <1>7, <1>10
  <2>2. News(snd, m) BY <1>6, <1>8, <1>10 DEF News
  <2>3. s.wnd = m.wnd /\ s.wl1 = "same" /\ s.wl2 = m.ack BY <1>2, <2>2 DEF Updated
  <2>4. Position(s.lastack) = K BY <2>1 DEF K
  <2>5. QED BY <1>2, <1>5, <2>1, <2>3, <2>4 DEF s
<1>11. CASE ~(A < K)
  <2>1. s.lastack = snd.lastack /\ Position(s.lastack) = A
    <3>1. s.lastack = snd.lastack BY <1>2, <1>11
    <3>2. QED BY <3>1 DEF A
  <2>2. CASE News(snd, m)
    <3>1. s.wnd = m.wnd /\ s.wl1 = "same" /\ s.wl2 = m.ack BY <1>2, <2>2 DEF Updated
    <3>2. snd.lastack = m.ack /\ A = K
      <4>1. snd.wl1 = "older" \/ snd.lastack = m.ack BY <1>6, <1>8, <1>11, <2>2 DEF News
      <4>2. snd.wl1 = "older" => A = K BY <1>4, <1>6, <1>11
      <4>3. QED BY <1>9, <4>1, <4>2
    <3>3. QED BY <1>2, <1>5, <1>6, <2>1, <3>1, <3>2 DEF s
  <2>3. CASE ~ News(snd, m)
    <3>1. s.wnd = snd.wnd /\ s.wl1 = snd.wl1 /\ s.wl2 = snd.wl2 BY <1>2, <2>3 DEF Updated
    <3>2. QED BY <1>2, <1>6, <2>1, <3>1 DEF s
  <2>4. QED BY <2>2, <2>3
<1>12. QED BY <1>10, <1>11

\* A segment arrives, and what of it is new finds room.
LEMMA ReaderReceives ==
    ASSUME TcpInv, WindowInv, ReaderInv, NEW m \in net, SegmentArrives(m)
    PROVE  /\ ReaderInv'
           /\ Position(rcv.nxt) <= Position(rcv'.nxt) /\ Position(rcv'.nxt) <= Position(snd.max)
           /\ Opened <= Opened'
           /\ snd' = snd /\ received' = received
           /\ snd.state = "ESTABLISHED"
<1> DEFINE R == Position(rcv.nxt)
           C == Len(received)
           e == EndOf(m)
<1>1. /\ m \in Sent /\ rcv' \in Rcv /\ rcv'.tcpwnd = rcv.tcpwnd
      /\ \/ rcv'.nxt = rcv.nxt /\ rcv'.wnd = rcv.wnd /\ rcv'.queue = rcv.queue
         \/ /\ R < e /\ Position(rcv'.nxt) = e
            /\ rcv'.wnd = IF rcv.wnd < e - R THEN 0 ELSE rcv.wnd - (e - R)
            /\ rcv'.queue = IF Len(rcv.queue) = QueueSize THEN rcv.queue
                            ELSE Append(rcv.queue, Stretch(R, e))
      /\ UNCHANGED <<snd, writing, received>>
  BY SegmentArrivesIs
<1>2. e <= Position(snd.max) /\ e <= Opened /\ snd.state = "ESTABLISHED" BY <1>1 DEF WindowInv
<1>3. e \in 0 .. Total BY <1>1, MessageIs
<1>4. /\ R \in 0 .. Total /\ rcv.wnd \in Nat /\ rcv.tcpwnd \in Nat /\ Position(snd.max) \in Nat
      /\ rcv.queue \in Seq(Seq(1 .. Total)) /\ R <= Position(snd.max)
  BY TcpInvNumbers DEF WindowInv
<1>5. /\ received = Stretch(0, C) /\ C \in 0 .. Total /\ rcv.wnd + (R - C) = rcv.tcpwnd /\ QueueHolds
  BY DEF ReaderInv
<1>6. Opened = R + rcv.wnd /\ Opened' = Position(rcv'.nxt) + rcv'.wnd BY DEF Opened
<1>7. PICK f : Marks(rcv.queue, C, R, f) BY <1>5 DEF QueueHolds
<1> HIDE DEF R, C, e
<1>8. CASE rcv'.nxt = rcv.nxt /\ rcv'.wnd = rcv.wnd /\ rcv'.queue = rcv.queue
  <2>1. received' = received /\ QueueHolds' BY <1>1, <1>5, <1>8 DEF QueueHolds
  <2>2. ReaderInv' BY <1>1, <1>5, <1>8, <2>1 DEF ReaderInv, R, C
  <2>3. Position(rcv'.nxt) = R BY <1>8 DEF R
  <2>4. QED BY <1>1, <1>2, <1>4, <1>6, <1>8, <2>2, <2>3 DEF R
<1>9. CASE /\ R < e /\ Position(rcv'.nxt) = e
           /\ rcv'.wnd = IF rcv.wnd < e - R THEN 0 ELSE rcv.wnd - (e - R)
           /\ rcv'.queue = IF Len(rcv.queue) = QueueSize THEN rcv.queue
                           ELSE Append(rcv.queue, Stretch(R, e))
  <2>1. rcv'.wnd = rcv.wnd - (e - R) /\ Opened' = Opened BY <1>2, <1>3, <1>4, <1>6, <1>9
  <2>2. Len(rcv.queue) <= R - C /\ Len(rcv.queue) \in Nat /\ C <= R BY <1>4, <1>7, MarksAre
  <2>3. rcv.tcpwnd <= QueueSize /\ QueueSize \in Nat
    <3>1. rcv.tcpwnd \in Windows BY RcvIs DEF TcpInv
    <3>2. QED BY <3>1, TcpConstants
  <2>4. Len(rcv.queue) < QueueSize
    <3>1. rcv.wnd >= 1 BY <1>2, <1>3, <1>4, <1>6, <1>9
    <3>2. R - C < rcv.tcpwnd BY <1>4, <1>5, <3>1
    <3>3. QED BY <1>4, <1>5, <2>2, <2>3, <3>2
  <2>5. rcv'.queue = Append(rcv.queue, Stretch(R, e)) BY <1>9, <2>2, <2>3, <2>4
  <2>6. PICK h : Marks(rcv'.queue, C, e, h) BY <1>3, <1>4, <1>7, <1>9, <2>5, MarksAppend
  <2>7. h \in [0 .. Len(rcv'.queue) -> 0 .. Total] BY <2>6 DEF Marks
  <2>8. received' = received /\ Len(received') = C BY <1>1 DEF C
  <2>9. QueueHolds' BY <1>9, <2>6, <2>7, <2>8 DEF QueueHolds
  <2>10. rcv'.wnd + (e - C) = rcv'.tcpwnd BY <1>1, <1>3, <1>4, <1>5, <2>1
  <2>11. ReaderInv' BY <1>5, <1>9, <2>8, <2>9, <2>10 DEF ReaderInv
  <2>12. Opened \in Nat BY TcpInvNumbers
  <2>13. R <= Position(rcv'.nxt) /\ Position(rcv'.nxt) <= Position(snd.max) BY <1>2, <1>3, <1>4, <1>9
  <2>14. QED BY <1>1, <1>2, <2>1, <2>11, <2>12, <2>13 DEF R
<1>10. QED BY <1>1, <1>8, <1>9

\* tcp_read.
LEMMA ReaderReads ==
    ASSUME TcpInv, ReaderInv, TcpRead
    PROVE  /\ ReaderInv' /\ Opened <= Opened' /\ rcv'.nxt = rcv.nxt
           /\ UNCHANGED <<snd, net, writing>>
           /\ Len(received) < Len(received') /\ Len(received') <= Position(rcv.nxt)
           /\ received' = received \o Stretch(Len(received), Len(received'))
<1> DEFINE R == Position(rcv.nxt)
           C == Len(received)
           n == Len(Head(rcv.queue))
           wnd == rcv.wnd + n
           w == IF wnd > rcv.tcpwnd THEN rcv.tcpwnd ELSE wnd
<1>1. /\ rcv.queue # <<>> /\ received' = received \o Head(rcv.queue) /\ UNCHANGED <<snd, net, writing>>
      /\ rcv' = [rcv EXCEPT !.queue = Tail(@), !.wnd = w, !.reading = TRUE]
  BY DEF TcpRead
<1>2. /\ R \in 0 .. Total /\ rcv.wnd \in Nat /\ rcv.tcpwnd \in Nat /\ rcv \in Rcv
      /\ rcv.queue \in Seq(Seq(1 .. Total))
  BY TcpInvNumbers
<1>3. received = Stretch(0, C) /\ C \in 0 .. Total /\ rcv.wnd + (R - C) = rcv.tcpwnd /\ QueueHolds
  BY DEF ReaderInv
<1>4. PICK e : Marks(rcv.queue, C, R, e) BY <1>3 DEF QueueHolds
<1> DEFINE D == e[1]
<1>5. D \in 0 .. Total /\ C < D /\ D <= R /\ Head(rcv.queue) = Stretch(C, D) BY <1>1, <1>2, <1>4, MarksTail
<1>6. PICK f : Marks(Tail(rcv.queue), D, R, f) BY <1>1, <1>2, <1>4, MarksTail
<1> HIDE DEF R, C, D
<1>7. n = D - C
  <2>1. C \in Nat /\ D \in Nat /\ C <= D BY <1>3, <1>5, HalfTheRange
  <2>2. Len(Stretch(C, D)) = D - C BY <2>1, StretchIs
  <2>3. QED BY <1>5, <2>2
<1> HIDE DEF n
<1>8. w = rcv.wnd + (D - C) BY <1>2, <1>3, <1>5, <1>7
<1> HIDE DEF w
<1>9. /\ rcv'.queue = Tail(rcv.queue) /\ rcv'.wnd = w /\ rcv'.nxt = rcv.nxt /\ rcv'.tcpwnd = rcv.tcpwnd
  BY <1>1, <1>2 DEF Rcv
<1>10. received' = Stretch(0, D) /\ Len(received') = D
  <2>1. 0 \in Nat /\ C \in Nat /\ D \in Nat /\ 0 <= C /\ C <= D /\ 0 <= D BY <1>3, <1>5, HalfTheRange
  <2>2. Stretch(0, C) \o Stretch(C, D) = Stretch(0, D) BY <2>1, StretchJoin
  <2>3. received' = Stretch(0, D) BY <1>1, <1>3, <1>5, <2>2
  <2>4. Len(Stretch(0, D)) = D - 0 BY <2>1, StretchIs
  <2>5. QED BY <2>1, <2>3, <2>4
<1>11. QueueHolds'
  <2>1. f \in [0 .. Len(rcv'.queue) -> 0 .. Total] BY <1>6, <1>9 DEF Marks
  <2>2. Marks(rcv'.queue, Len(received'), Position(rcv'.nxt), f) BY <1>6, <1>9, <1>10 DEF R
  <2>3. QED BY <2>1, <2>2 DEF QueueHolds
<1>12. rcv'.wnd + (R - D) = rcv'.tcpwnd BY <1>2, <1>3, <1>5, <1>8, <1>9
<1>13. ReaderInv' BY <1>5, <1>9, <1>10, <1>11, <1>12 DEF ReaderInv, R
<1>14. Opened <= Opened'
  <2>1. Opened = R + rcv.wnd /\ Opened' = R + w BY <1>9 DEF Opened, R
  <2>2. QED BY <1>2, <1>3, <1>5, <1>8, <2>1
<1>15. received' = received \o Stretch(C, D) BY <1>1, <1>5
<1>16. QED BY <1>1, <1>5, <1>9, <1>10, <1>13, <1>14, <1>15 DEF R, C

LEMMA ReaderKept ==
    ASSUME ReaderInv, received' = received, rcv'.nxt = rcv.nxt, rcv'.wnd = rcv.wnd,
           rcv'.tcpwnd = rcv.tcpwnd, rcv'.queue = rcv.queue
    PROVE  ReaderInv' /\ Opened' = Opened
<1>1. QueueHolds' BY DEF ReaderInv, QueueHolds
<1>2. QED BY <1>1 DEF ReaderInv, Opened

StreamInv == TcpInv /\ WindowInv /\ ReaderInv

LEMMA StreamInvStep == StreamInv /\ TcpInv' /\ [TcpNext]_tcpVars => StreamInv'
<1> SUFFICES ASSUME TcpInv, WindowInv, ReaderInv, TcpInv', [TcpNext]_tcpVars
             PROVE  WindowInv' /\ ReaderInv'
  BY DEF StreamInv
<1>0. /\ SndInv(snd) /\ rcv \in Rcv
      /\ \A m \in net : m \in Acks \/ m \in Sent
  BY DEF TcpInv
<1>20. /\ Position(snd.lastack) <= Position(rcv.nxt) /\ Position(rcv.nxt) <= Position(snd.max)
       /\ snd.wl1 \in {"older", "same"} /\ snd.wl2 = snd.lastack
       /\ snd.wl1 = "older" => Position(snd.lastack) = 0
       /\ Position(snd.lastack) + snd.wnd <= Opened
  BY DEF WindowInv
<1>1. ASSUME NEW len \in Lengths, TcpEnqueue(len) PROVE WindowInv' /\ ReaderInv'
  <2>1. /\ snd'.state = snd.state /\ snd'.lastack = snd.lastack /\ snd'.max = snd.max
        /\ snd'.wnd = snd.wnd /\ snd'.wl1 = snd.wl1 /\ snd'.wl2 = snd.wl2
        /\ UNCHANGED <<rcv, net, received>>
    BY <1>1, TcpEnqueueIs
  <2>2. QED BY <2>1, ReaderKept DEF WindowInv, Opened
<1>2. CASE TcpWritten
  <2>1. SendFrom(snd, {}) /\ rcv' = rcv /\ received' = received BY <1>2 DEF TcpWritten
  <2>2. WindowInv' BY <1>0, <1>20, <2>1, WindowSend
  <2>3. QED BY <2>1, <2>2, ReaderKept
<1>3. ASSUME NEW m \in net, AckArrives(m) PROVE WindowInv' /\ ReaderInv'
  <2>1. /\ snd.state = "ESTABLISHED" /\ SendFrom(Acknowledged(m), {m}) /\ rcv' = rcv /\ received' = received
    BY <1>3 DEF AckArrives
  <2>2. m \in Acks BY <1>0, <1>3, MessageKinds DEF AckArrives
  <2> DEFINE s == Acknowledged(m)
  <2>3. /\ SndInv(s) /\ s.state = snd.state /\ s.max = snd.max
        /\ Position(s.lastack) <= Position(rcv.nxt)
        /\ s.wl1 \in {"older", "same"} /\ s.wl2 = s.lastack
        /\ s.wl1 = "older" => Position(s.lastack) = 0
        /\ Position(s.lastack) + s.wnd <= Opened
    BY <2>1, <2>2, WindowAcknowledged
  <2>4. SendFrom(s, {m}) BY <2>1
  <2> HIDE DEF s
  <2>5. WindowInv' BY <2>1, <2>3, <2>4, WindowSend
  <2>6. QED BY <2>1, <2>5, ReaderKept
<1>4. ASSUME NEW m \in net, SegmentArrives(m) PROVE WindowInv' /\ ReaderInv'
  <2>1. /\ ReaderInv'
        /\ Position(rcv.nxt) <= Position(rcv'.nxt) /\ Position(rcv'.nxt) <= Position(snd.max)
        /\ Opened <= Opened' /\ snd' = snd
    BY <1>4, ReaderReceives
  <2>2. \A x \in net' : x \in net \/ x = AckOf(rcv') BY <1>4, SegmentArrivesIs
  <2>3. WindowInv' BY <2>1, <2>2, WindowReceive
  <2>4. QED BY <2>1, <2>3
<1>5. CASE SlowTimerGivesUp
  <2>1. /\ net' = {} /\ rcv' = rcv /\ received' = received
        /\ snd' = [snd EXCEPT !.state = "CLOSED", !.unsent = <<>>, !.unacked = <<>>, !.queuelen = 0]
    BY <1>5 DEF SlowTimerGivesUp
  <2>2. /\ snd'.lastack = snd.lastack /\ snd'.max = snd.max
        /\ snd'.wnd = snd.wnd /\ snd'.wl1 = snd.wl1 /\ snd'.wl2 = snd.wl2
    BY <1>0, <2>1 DEF SndInv, Snd
  <2>3. WindowInv' BY <2>1, <2>2 DEF WindowInv, Opened
  <2>4. QED BY <2>1, <2>3, ReaderKept
<1>6. CASE SlowTimerRexmits
  <2>1. SendFrom(TcpRexmit(snd), {}) /\ rcv' = rcv /\ received' = received BY <1>6 DEF SlowTimerRexmits
  <2> DEFINE s == TcpRexmit(snd)
  <2>2. /\ SndInv(s) /\ s = [snd EXCEPT !.unsent = s.unsent, !.unacked = s.unacked, !.nrtx = s.nrtx]
    BY <1>0, RexmitKeeps
  <2>3. SendFrom(s, {}) BY <2>1
  <2> HIDE DEF s
  <2>4. /\ s.state = snd.state /\ s.max = snd.max /\ s.lastack = snd.lastack
        /\ s.wnd = snd.wnd /\ s.wl1 = snd.wl1 /\ s.wl2 = snd.wl2
    <3>1. snd \in Snd BY <1>0 DEF SndInv
    <3>2. QED BY <2>2, <3>1 DEF Snd
  <2>5. WindowInv' BY <1>20, <2>1, <2>2, <2>3, <2>4, WindowSend
  <2>6. QED BY <2>1, <2>5, ReaderKept
<1>7. CASE FastTimer
  <2>1. AckNow(rcv, {}) /\ snd' = snd /\ received' = received BY <1>7 DEF FastTimer
  <2>2. /\ rcv'.nxt = rcv.nxt /\ rcv'.wnd = rcv.wnd /\ rcv'.tcpwnd = rcv.tcpwnd /\ rcv'.queue = rcv.queue
        /\ \A m \in net' : m \in net \/ m = AckOf(rcv')
    BY <1>0, <2>1, AckIs
  <2>3. ReaderInv' /\ Opened' = Opened BY <2>1, <2>2, ReaderKept
  <2>4. Position(rcv.nxt) <= Position(rcv'.nxt) /\ Opened <= Opened' BY <2>2, <2>3, TcpInvNumbers
  <2>5. Position(rcv'.nxt) <= Position(snd.max) BY <1>20, <2>2
  <2>6. WindowInv' BY <2>1, <2>2, <2>4, <2>5, WindowReceive
  <2>7. QED BY <2>3, <2>6
<1>8. CASE TcpRead
  <2>1. ReaderInv' /\ Opened <= Opened' /\ rcv'.nxt = rcv.nxt /\ UNCHANGED <<snd, net, writing>>
    BY <1>8, ReaderReads
  <2>2. Position(rcv.nxt) <= Position(rcv'.nxt) BY <2>1, TcpInvNumbers
  <2>3. Position(rcv'.nxt) <= Position(snd.max) BY <1>20, <2>1
  <2>4. WindowInv' BY <2>1, <2>2, <2>3, WindowReceive
  <2>5. QED BY <2>1, <2>4
<1>9. CASE TcpReadAcks
  <2>1. rcv' = [rcv EXCEPT !.reading = FALSE, !.ackdelay = TRUE] /\ UNCHANGED <<snd, net, received>>
    BY <1>9 DEF TcpReadAcks
  <2>2. rcv'.nxt = rcv.nxt /\ rcv'.wnd = rcv.wnd /\ rcv'.tcpwnd = rcv.tcpwnd /\ rcv'.queue = rcv.queue
    BY <1>0, <2>1 DEF Rcv
  <2>3. ReaderInv' /\ Opened' = Opened BY <2>1, <2>2, ReaderKept
  <2>4. QED BY <2>1, <2>2, <2>3 DEF WindowInv
<1>10. CASE UNCHANGED tcpVars
  <2>1. UNCHANGED <<snd, rcv, net, received>> BY <1>10 DEF tcpVars
  <2>2. QED BY <2>1, ReaderKept DEF WindowInv, Opened
<1>11. QED BY <1>1, <1>2, <1>3, <1>4, <1>5, <1>6, <1>7, <1>8, <1>9, <1>10 DEF TcpNext

LEMMA StreamInvariant == WindowFollowed /\ TcpInit /\ [][TcpNext]_tcpVars => []StreamInv
<1>1. WindowFollowed /\ TcpInit => StreamInv BY TcpInitInv, WindowInit DEF StreamInv
<1>2. QED BY <1>1, StreamInvStep, TcpInvariant, PTL

-----------------------------------------------------------------------------
(***************************************************************************)
(* The refinement.                                                         *)
(***************************************************************************)
\* The N stretches of a list meet at e.
Meets(list, N, e) ==
    /\ N \in Nat /\ Len(list) = N /\ (N = 0 => list = <<>>)
    /\ e \in [0 .. N -> Nat]
    /\ \A i \in 1 .. N : e[i - 1] < e[i] /\ list[i] = Stretch(e[i - 1], e[i])

LEMMA FlattenIs ==
    ASSUME NEW list, NEW N, NEW e, Meets(list, N, e)
    PROVE  FlattenSeq(list) = Stretch(e[0], e[N]) /\ e[0] <= e[N]
<1> DEFINE Body(u) == [i \in 1 .. N |-> IF i = 1 THEN list[i] ELSE u[i - 1] \o list[i]]
           f == [i \in 1 .. N |-> Stretch(e[0], e[i])]
           u == CHOOSE u : u = Body(u)
<1>0. /\ N \in Nat /\ Len(list) = N /\ (N = 0 => list = <<>>)
      /\ e \in [0 .. N -> Nat]
      /\ \A i \in 1 .. N : e[i - 1] < e[i] /\ list[i] = Stretch(e[i - 1], e[i])
  BY DEF Meets
<1>9. \A i, j \in 0 .. N : i < j => e[i] < e[j] /\ j - i <= e[j] - e[i] BY <1>0, Increasing
<1> USE <1>0
<1>1. CASE N = 0
  <2>1. FlattenSeq(list) = <<>> BY <1>1 DEF FlattenSeq
  <2>2. e[0] \in Nat BY <1>1
  <2>3. Stretch(e[0], e[0]) = <<>> BY <2>2, StretchNone
  <2>4. QED BY <1>1, <2>1, <2>2, <2>3
<1>2. CASE N # 0
  <2>1. FlattenSeq(list) = u[N] BY <1>2 DEF FlattenSeq
  <2>2. \A i, j \in 0 .. N : i < j => e[i] < e[j] BY <1>9
  <2>3. \A i \in 0 .. N : e[i] \in Nat /\ e[0] <= e[i]
    <3>1. SUFFICES ASSUME NEW i \in 0 .. N PROVE e[i] \in Nat /\ e[0] <= e[i] OBVIOUS
    <3>2. i = 0 \/ 0 < i OBVIOUS
    <3>3. 0 \in 0 .. N /\ e[0] \in Nat /\ e[i] \in Nat OBVIOUS
    <3>4. QED BY <2>2, <3>2, <3>3
  <2>4. ASSUME NEW i \in 1 .. N
        PROVE  f[i] = IF i = 1 THEN list[i] ELSE f[i - 1] \o list[i]
    <3>1. CASE i = 1
      <4>1. list[i] = Stretch(e[0], e[i]) BY <3>1
      <4>2. QED BY <3>1, <4>1
    <3>2. CASE i # 1
      <4>1. i - 1 \in 1 .. N /\ i - 1 \in 0 .. N /\ i \in 0 .. N /\ 0 \in 0 .. N BY <3>2
      <4>2. e[0] \in Nat /\ e[i - 1] \in Nat /\ e[i] \in Nat /\ e[0] <= e[i - 1] /\ e[i - 1] <= e[i]
        BY <2>3, <4>1
      <4>3. Stretch(e[0], e[i - 1]) \o Stretch(e[i - 1], e[i]) = Stretch(e[0], e[i])
        <5> DEFINE p == e[0]
                   q == e[i - 1]
                   r == e[i]
        <5>1. p \in Nat /\ q \in Nat /\ r \in Nat /\ p <= q /\ q <= r BY <4>2
        <5> HIDE DEF p, q, r
        <5>2. Stretch(p, q) \o Stretch(q, r) = Stretch(p, r) BY <5>1, StretchJoin
        <5>3. QED BY <5>2 DEF p, q, r
      <4>4. f[i] = Stretch(e[0], e[i]) /\ f[i - 1] = Stretch(e[0], e[i - 1]) BY <4>1
      <4>5. list[i] = Stretch(e[i - 1], e[i]) OBVIOUS
      <4> HIDE DEF f
      <4>6. QED BY <3>2, <4>3, <4>4, <4>5
    <3>3. QED BY <3>1, <3>2
  <2>5. f = Body(f)
    <3> DEFINE g == f
    <3> HIDE DEF g
    <3>1. \A i \in 1 .. N : g[i] = IF i = 1 THEN list[i] ELSE g[i - 1] \o list[i] BY <2>4 DEF g
    <3>2. g = [i \in 1 .. N |-> g[i]] BY DEF g
    <3>3. g = Body(g) BY <3>1, <3>2
    <3>4. QED BY <3>3 DEF g
  <2> HIDE DEF Body, f
  <2>6. u = Body(u) BY <2>5
  <2> HIDE DEF u
  <2>7. \A i \in 1 .. N : u[i] = IF i = 1 THEN list[i] ELSE u[i - 1] \o list[i] BY <2>6 DEF Body
  <2> DEFINE S == {n \in 0 .. N : n = 0 \/ u[n] = f[n]}
  <2>8. 0 \in S OBVIOUS
  <2>9. ASSUME NEW n \in 0 .. N - 1, n \in S PROVE n + 1 \in S
    <3>1. n + 1 \in 1 .. N /\ (n + 1) - 1 = n /\ n + 1 \in 0 .. N OBVIOUS
    <3>2. CASE n = 0
      <4>1. 1 \in 1 .. N /\ n + 1 = 1 BY <3>1, <3>2
      <4>2. u[1] = list[1] /\ f[1] = list[1] BY <2>4, <2>7, <4>1
      <4>3. QED BY <3>1, <4>1, <4>2
    <3>3. CASE n # 0
      <4>1. u[n] = f[n] /\ n + 1 # 1 BY <2>9, <3>3
      <4>2. u[n + 1] = u[n] \o list[n + 1] /\ f[n + 1] = f[n] \o list[n + 1] BY <2>4, <2>7, <3>1, <4>1
      <4>3. QED BY <3>1, <4>1, <4>2
    <3>4. QED BY <3>2, <3>3
  <2> HIDE DEF S
  <2>10. 0 .. N \subseteq S BY <2>8, <2>9, Induction
  <2>11. N \in S /\ N \in 1 .. N BY <1>2, <2>10
  <2>12. u[N] = f[N] BY <1>2, <2>11 DEF S
  <2>13. f[N] = Stretch(e[0], e[N]) BY <2>11 DEF f
  <2>14. QED BY <2>1, <2>3, <2>11, <2>12, <2>13
<1>3. QED BY <1>1, <1>2

\* The bytes of a list of segments.
LEMMA BytesAre ==
    ASSUME NEW all, NEW a \in 0 .. Total, NEW b, Tiles(all, a, b)
    PROVE  FlattenSeq([i \in 1 .. Len(all) |-> all[i].data]) = Stretch(a, b)
<1> DEFINE N == Len(all)
           list == [i \in 1 .. N |-> all[i].data]
           e == [i \in 0 .. N |-> IF i = 0 THEN a ELSE EndOf(all[i])]
<1>1. N \in Nat /\ \A i \in 1 .. N : all[i] \in Segments BY TilesAre
<1>2. e \in [0 .. N -> Nat] BY <1>1, SegmentIs
<1>3. \A i \in 1 .. N : all[i].data \in Seq(1 .. Total) BY <1>1, SegmentIs
<1>4. Len(list) = N /\ (N = 0 => list = <<>>)
  <2> DEFINE T == Seq(1 .. Total)
  <2>1. \A i \in 1 .. N : all[i].data \in T BY <1>3
  <2> HIDE DEF T, N
  <2>2. list \in [1 .. N -> T] BY <2>1
  <2>3. QED BY <1>1, <2>2
<1>5. ASSUME NEW i \in 1 .. N PROVE e[i - 1] < e[i] /\ list[i] = Stretch(e[i - 1], e[i])
  <2>1. Starts(all[i]) < EndOf(all[i]) /\ all[i].data = Stretch(Starts(all[i]), EndOf(all[i]))
    BY <1>1, SegmentIs
  <2>2. Starts(all[i]) = e[i - 1]
    <3>1. CASE i = 1 BY <1>1, <3>1 DEF Tiles
    <3>2. CASE i # 1
      <4>1. i - 1 \in 1 .. N - 1 BY <1>1, <3>2
      <4>2. Starts(all[(i - 1) + 1]) = EndOf(all[i - 1]) BY <4>1 DEF Tiles
      <4>3. (i - 1) + 1 = i BY <4>1
      <4>4. QED BY <1>1, <4>1, <4>2, <4>3
    <3>3. QED BY <3>1, <3>2
  <2>3. e[i] = EndOf(all[i]) BY <1>1
  <2>4. list[i] = all[i].data OBVIOUS
  <2> HIDE DEF e, list
  <2>5. QED BY <2>1, <2>2, <2>3, <2>4
<1>6. e[0] = a /\ e[N] = b
  <2>1. CASE N = 0
    <3>1. all = <<>> /\ a = b BY <1>1, <2>1 DEF Tiles
    <3>2. QED BY <2>1, <3>1
  <2>2. CASE N # 0
    <3>1. all # <<>> /\ N \in 0 .. N /\ 0 \in 0 .. N BY <1>1, <2>2
    <3>2. EndOf(all[N]) = b BY <3>1 DEF Tiles
    <3>3. QED BY <2>2, <3>1, <3>2
  <2>3. QED BY <2>1, <2>2
<1> HIDE DEF e, list, N
<1>7. FlattenSeq(list) = Stretch(e[0], e[N])
  <2>1. N \in Nat BY <1>1
  <2>2. \A i \in 1 .. N : e[i - 1] < e[i] /\ list[i] = Stretch(e[i - 1], e[i]) BY <1>5
  <2>3. Meets(list, N, e) BY <2>1, <1>2, <1>4, <2>2 DEF Meets
  <2>4. QED BY <2>3, FlattenIs
<1>8. QED BY <1>6, <1>7 DEF list, N

\* As far as the stream goes: what was lost with the connection is not of it.
Upto == IF snd.state = "ESTABLISHED" THEN Position(snd.lbb) ELSE Position(rcv.nxt)

LEMMA UnreadIs ==
    ASSUME StreamInv
    PROVE  /\ Unread = Stretch(Len(received), Upto)
           /\ Len(received) \in 0 .. Total /\ Position(rcv.nxt) \in 0 .. Total /\ Upto \in 0 .. Total
           /\ Len(received) <= Position(rcv.nxt) /\ Position(rcv.nxt) <= Upto
<1> DEFINE R == Position(rcv.nxt)
           C == Len(received)
           A == Position(snd.lastack)
           L == Position(snd.lbb)
           M == Position(snd.max)
           all == snd.unacked \o snd.unsent
<1>1. /\ A \in 0 .. Total /\ M \in 0 .. Total /\ L \in 0 .. Total /\ R \in 0 .. Total
      /\ A <= R /\ R <= M /\ M <= L /\ rcv.queue \in Seq(Seq(1 .. Total))
  BY TcpInvNumbers DEF StreamInv, WindowInv
<1>2. C \in 0 .. Total /\ QueueHolds BY DEF StreamInv, ReaderInv
<1>3. PICK f : Marks(rcv.queue, C, R, f) BY <1>2 DEF QueueHolds
<1>4. C <= R BY <1>1, <1>3, MarksAre
<1>5. FlattenSeq(rcv.queue) = Stretch(C, R)
  <2> DEFINE N == Len(rcv.queue)
  <2>1. /\ N \in Nat /\ f \in [0 .. N -> Nat] /\ f[0] = C /\ f[N] = R
        /\ \A i \in 1 .. N : f[i - 1] < f[i] /\ rcv.queue[i] = Stretch(f[i - 1], f[i])
    <3>1. /\ f \in [0 .. N -> 0 .. Total] /\ f[0] = C /\ f[N] = R
          /\ \A i \in 1 .. N : f[i - 1] < f[i] /\ rcv.queue[i] = Stretch(f[i - 1], f[i])
      BY <1>3 DEF Marks
    <3>2. N \in Nat BY <1>1
    <3>3. QED BY <3>1, <3>2, HalfTheRange
  <2>2. N = 0 => rcv.queue = <<>> BY <1>1
  <2>3. Meets(rcv.queue, N, f) BY <2>1, <2>2 DEF Meets
  <2>4. FlattenSeq(rcv.queue) = Stretch(f[0], f[N]) BY <2>3, FlattenIs
  <2>5. QED BY <2>1, <2>4
<1>6. SndInv(snd) /\ snd.unacked \in Seq(Segments) /\ snd.unsent \in Seq(Segments)
  BY DEF StreamInv, TcpInv, SndInv, Snd
<1>7. Unreceived = Stretch(R, Upto) /\ R <= Upto
  <2>1. CASE snd.state = "ESTABLISHED"
    <3>1. Holds(all, A, L) BY <1>6, <2>1 DEF SndInv, All
    <3>2. all \in Seq(Segments) BY <1>6
    <3> HIDE DEF all
    <3>3. PICK a \in 0 .. Total : /\ Tiles(all, a, L) /\ a <= A
                                  /\ all = <<>> => A = L
      BY <3>1 DEF Holds
    <3>4. Held = Stretch(a, L)
      <4>1. Held = FlattenSeq([i \in 1 .. Len(all) |-> all[i].data]) BY DEF Held, all
      <4>2. QED BY <3>3, <4>1, BytesAre
    <3>5. a \in Nat /\ R \in Nat /\ L \in Nat /\ a <= R /\ R <= L /\ a <= L
      BY <1>1, <3>3, HalfTheRange
    <3>6. Stretch(a, L) \in Seq(Nat) /\ Len(Held) = L - a BY <3>4, <3>5, StretchIs
    <3>7. CASE Held = <<>>
      <4>1. a = L /\ R = L BY <3>4, <3>5, <3>6, <3>7
      <4>2. Unreceived = <<>> BY <3>7 DEF Unreceived
      <4>3. QED BY <2>1, <3>4, <3>5, <3>7, <4>1, <4>2 DEF Upto
    <3>8. CASE Held # <<>>
      <4>1. all # <<>>
        <5>1. a # L
          <6>1. SUFFICES ASSUME a = L PROVE FALSE OBVIOUS
          <6>2. Held \in Seq(Nat) /\ Len(Held) = 0 BY <3>4, <3>5, <3>6, <6>1
          <6>3. QED BY <3>8, <6>2
        <5>2. QED BY <3>3, <5>1 DEF Tiles
      <4>2. Position(all[1].seq) = a BY <3>3, <4>1 DEF Tiles, Starts
      <4>3. Unreceived = SubSeq(Held, R - a + 1, Len(Held)) BY <3>8, <4>2 DEF Unreceived, all
      <4>4. SubSeq(Stretch(a, L), R - a + 1, L - a) = Stretch(R, L) BY <3>5, StretchPart
      <4>5. QED BY <2>1, <3>4, <3>5, <3>6, <4>3, <4>4 DEF Upto
    <3>9. QED BY <3>7, <3>8
  <2>2. CASE snd.state # "ESTABLISHED"
    <3>1. snd.unacked = <<>> /\ snd.unsent = <<>> BY <1>6, <2>2 DEF SndInv
    <3>2. Tiles(all, 0, 0) /\ 0 \in 0 .. Total BY <3>1, HalfTheRange DEF Tiles
    <3>3. Held = Stretch(0, 0)
      <4> HIDE DEF all
      <4>1. Held = FlattenSeq([i \in 1 .. Len(all) |-> all[i].data]) BY DEF Held, all
      <4>2. QED BY <3>2, <4>1, BytesAre
    <3>4. Stretch(0, 0) = <<>> BY StretchNone
    <3>5. Unreceived = <<>> BY <3>3, <3>4 DEF Unreceived
    <3>6. R \in Nat BY <1>1
    <3>7. Stretch(R, R) = <<>> BY <3>6, StretchNone
    <3>8. QED BY <2>2, <3>5, <3>6, <3>7 DEF Upto
  <2>3. QED BY <2>1, <2>2
<1>8. Upto \in 0 .. Total BY <1>1 DEF Upto
<1>9. Stretch(C, R) \o Stretch(R, Upto) = Stretch(C, Upto)
  <2>1. C \in Nat /\ R \in Nat /\ Upto \in Nat /\ R <= Upto BY <1>1, <1>2, <1>7, <1>8, HalfTheRange
  <2>2. QED BY <1>4, <2>1, StretchJoin
<1>10. Unread = Stretch(C, Upto) BY <1>5, <1>7, <1>9 DEF Unread
<1>11. QED BY <1>1, <1>2, <1>4, <1>7, <1>8, <1>10

\* The stream holds what has not been read, up to Upto.  An action that moves
\* neither end of it, and does not close the connection, is a stutter.
LEMMA StreamRests ==
    ASSUME StreamInv, StreamInv', received' = received, Upto' = Upto, snd'.state = snd.state
    PROVE  UNCHANGED AStream!vars
<1>1. Unread = Stretch(Len(received), Upto) BY UnreadIs
<1>2. (Unread = Stretch(Len(received), Upto))' BY UnreadIs, PTL
<1>3. Stretch(Len(received), Upto)' = Stretch(Len(received), Upto) BY DEF Stretch
<1>4. Unread' = Unread BY <1>1, <1>2, <1>3
<1>5. QED BY <1>4 DEF AStream!vars

\* tcp_write: the stream grows at its end.
LEMMA StreamWrites ==
    ASSUME StreamInv, StreamInv', received' = received, Upto < Upto',
           snd.state = "ESTABLISHED", snd'.state = snd.state
    PROVE  AStream!Write
<1> DEFINE C == Len(received)
           U == Upto
           V == Upto'
<1>1. Unread = Stretch(C, U) /\ C \in 0 .. Total /\ U \in 0 .. Total /\ C <= U
  BY UnreadIs, HalfTheRange
<1>2. Unread' = Stretch(C, V) /\ V \in 0 .. Total
  <2>1. (Unread = Stretch(Len(received), Upto) /\ Upto \in 0 .. Total)' BY UnreadIs, PTL
  <2>2. Stretch(Len(received), Upto)' = Stretch(C, V) BY DEF Stretch
  <2>3. (0 .. Total)' = 0 .. Total OBVIOUS
  <2>4. QED BY <2>1, <2>2, <2>3
<1>3. U < V OBVIOUS
<1> HIDE DEF C, U, V
<1>4. C \in Nat /\ U \in Nat /\ V \in Nat /\ C <= V /\ V <= Total /\ U <= V /\ C <= U /\ U - C < V - C
  BY <1>1, <1>2, <1>3, HalfTheRange
<1>5. Len(Unread) = U - C BY <1>1, <1>4, StretchIs
<1>6. Unread' \in Seq(1 .. Total) /\ Len(Unread') = V - C BY <1>2, <1>4, StretchIs
<1>7. SubSeq(Unread', 1, U - C) = Unread BY <1>1, <1>2, <1>4, StretchPart
<1>8. Len(Unread') > Len(Unread) BY <1>4, <1>5, <1>6
<1>9. SubSeq(Unread', 1, Len(Unread)) = Unread BY <1>5, <1>7
<1>10. QED BY <1>6, <1>8, <1>9 DEF AStream!Write

\* tcp_read: the first bytes of it are read.
LEMMA StreamReads ==
    ASSUME StreamInv, StreamInv', Len(received) < Len(received'), Len(received') <= Upto,
           received' = received \o Stretch(Len(received), Len(received')),
           Upto' = Upto, snd'.state = snd.state
    PROVE  AStream!Read
<1> DEFINE C == Len(received)
           D == Len(received')
           U == Upto
           n == D - C
<1>1. Unread = Stretch(C, U) /\ C \in 0 .. Total /\ U \in 0 .. Total /\ C <= U
  BY UnreadIs, HalfTheRange
<1>2. Unread' = Stretch(D, U) /\ D \in 0 .. Total
  <2>1. (Unread = Stretch(Len(received), Upto) /\ Len(received) \in 0 .. Total)' BY UnreadIs, PTL
  <2>2. Stretch(Len(received), Upto)' = Stretch(D, U) BY DEF Stretch
  <2>3. (0 .. Total)' = 0 .. Total OBVIOUS
  <2>4. QED BY <2>1, <2>2, <2>3
<1>3. C < D /\ D <= U /\ received' = received \o Stretch(C, D) OBVIOUS
<1> HIDE DEF C, D, U
<1>4. /\ C \in Nat /\ D \in Nat /\ U \in Nat /\ C <= D /\ D <= U /\ C <= U
      /\ n \in 1 .. U - C
  BY <1>1, <1>2, <1>3, HalfTheRange
<1>5. Len(Unread) = U - C BY <1>1, <1>4, StretchIs
<1>6. SubSeq(Unread, 1, n) = Stretch(C, D) /\ SubSeq(Unread, n + 1, U - C) = Stretch(D, U)
  BY <1>1, <1>4, StretchPart
<1> HIDE DEF n
<1>7. n \in 1 .. Len(Unread) BY <1>4, <1>5
<1>8. received' = received \o SubSeq(Unread, 1, n) BY <1>3, <1>6
<1>9. Unread' = SubSeq(Unread, n + 1, Len(Unread)) BY <1>2, <1>5, <1>6
<1>10. QED BY <1>7, <1>8, <1>9 DEF AStream!Read

\* tcp_slowtmr gives up: what has arrived stays.
LEMMA StreamGivesUp ==
    ASSUME StreamInv, StreamInv', received' = received, Upto' = Position(rcv.nxt),
           snd.state = "ESTABLISHED", snd'.state = "CLOSED"
    PROVE  AStream!GiveUp
<1> DEFINE C == Len(received)
           R == Position(rcv.nxt)
           U == Upto
           n == R - C
<1>1. /\ Unread = Stretch(C, U) /\ C \in 0 .. Total /\ U \in 0 .. Total
      /\ R \in 0 .. Total /\ C <= R /\ R <= U
  BY UnreadIs
<1>2. Unread' = Stretch(C, R)
  <2>1. (Unread = Stretch(Len(received), Upto))' BY UnreadIs, PTL
  <2>2. Stretch(Len(received), Upto)' = Stretch(C, R) BY DEF Stretch
  <2>3. QED BY <2>1, <2>2
<1> HIDE DEF C, R, U
<1>4. C \in Nat /\ R \in Nat /\ U \in Nat /\ C <= R /\ R <= U /\ C <= U /\ n \in 0 .. U - C
  BY <1>1, HalfTheRange
<1>5. Len(Unread) = U - C BY <1>1, <1>4, StretchIs
<1>6. SubSeq(Unread, 1, n) = Stretch(C, R) BY <1>1, <1>4, StretchPart
<1> HIDE DEF n
<1>7. n \in 0 .. Len(Unread) BY <1>4, <1>5
<1>8. Unread' = SubSeq(Unread, 1, n) BY <1>2, <1>6
<1>9. QED BY <1>7, <1>8 DEF AStream!GiveUp

LEMMA StreamStep == StreamInv /\ StreamInv' /\ [TcpNext]_tcpVars => [AStream!Next]_(AStream!vars)
<1> SUFFICES ASSUME StreamInv, StreamInv', [TcpNext]_tcpVars PROVE [AStream!Next]_(AStream!vars)
  OBVIOUS
<1>0. TcpInv /\ WindowInv /\ ReaderInv /\ SndInv(snd) /\ \A m \in net : m \in Acks \/ m \in Sent
  BY DEF StreamInv, TcpInv
<1>1. ASSUME NEW len \in Lengths, TcpEnqueue(len) PROVE AStream!Write
  <2>1. /\ Position(snd.lbb) < Position(snd'.lbb)
        /\ snd.state = "ESTABLISHED" /\ snd'.state = snd.state /\ received' = received
    BY <1>0, <1>1, TcpEnqueueIs
  <2>2. QED BY <2>1, StreamWrites DEF Upto
<1>2. ASSUME NEW s, NEW arrived, SndInv(s), s.state = snd.state, s.lbb = snd.lbb,
             SendFrom(s, arrived), rcv' = rcv, received' = received
      PROVE  UNCHANGED AStream!vars
  <2>1. snd'.state = snd.state /\ snd'.lbb = snd.lbb BY <1>2, SendFromIs
  <2>2. QED BY <1>2, <2>1, StreamRests DEF Upto
<1>3. ASSUME TcpWritten PROVE UNCHANGED AStream!vars
  <2>1. SendFrom(snd, {}) /\ rcv' = rcv /\ received' = received BY <1>3 DEF TcpWritten
  <2>2. QED BY <1>0, <1>2, <2>1
<1>4. ASSUME NEW m \in net, AckArrives(m) PROVE UNCHANGED AStream!vars
  <2>1. /\ m \in Acks /\ snd.state = "ESTABLISHED"
        /\ SendFrom(Acknowledged(m), {m}) /\ rcv' = rcv /\ received' = received
    BY <1>0, <1>4, MessageKinds DEF AckArrives
  <2>2. SndInv(Acknowledged(m)) /\ Acknowledged(m).state = snd.state /\ Acknowledged(m).lbb = snd.lbb
    BY <1>0, <2>1, WindowAcknowledged
  <2>3. QED BY <1>2, <2>1, <2>2
<1>5. ASSUME NEW m \in net, SegmentArrives(m) PROVE UNCHANGED AStream!vars
  <2>1. snd' = snd /\ received' = received /\ snd.state = "ESTABLISHED" BY <1>0, <1>5, ReaderReceives
  <2>2. QED BY <2>1, StreamRests DEF Upto
<1>6. ASSUME SlowTimerGivesUp PROVE AStream!GiveUp
  <2>1. /\ snd.state = "ESTABLISHED" /\ rcv' = rcv /\ received' = received
        /\ snd' = [snd EXCEPT !.state = "CLOSED", !.unsent = <<>>, !.unacked = <<>>, !.queuelen = 0]
    BY <1>6 DEF SlowTimerGivesUp
  <2>2. snd \in Snd BY <1>0 DEF SndInv
  <2>3. snd'.state = "CLOSED" BY <2>1, <2>2 DEF Snd
  <2>4. Upto' = Position(rcv.nxt) BY <2>1, <2>3 DEF Upto
  <2>5. QED BY <2>1, <2>3, <2>4, StreamGivesUp
<1>7. ASSUME SlowTimerRexmits PROVE UNCHANGED AStream!vars
  <2>1. SendFrom(TcpRexmit(snd), {}) /\ rcv' = rcv /\ received' = received BY <1>7 DEF SlowTimerRexmits
  <2> DEFINE s == TcpRexmit(snd)
  <2>2. /\ SndInv(s) /\ s = [snd EXCEPT !.unsent = s.unsent, !.unacked = s.unacked, !.nrtx = s.nrtx]
    BY <1>0, RexmitKeeps
  <2>3. SendFrom(s, {}) BY <2>1
  <2> HIDE DEF s
  <2>4. snd \in Snd BY <1>0 DEF SndInv
  <2>5. s.state = snd.state /\ s.lbb = snd.lbb BY <2>2, <2>4 DEF Snd
  <2>6. QED BY <1>2, <2>1, <2>2, <2>3, <2>5
<1>8. ASSUME FastTimer \/ TcpReadAcks PROVE UNCHANGED AStream!vars
  <2>1. snd' = snd /\ received' = received BY <1>8 DEF FastTimer, TcpReadAcks
  <2>2. rcv \in Rcv BY <1>0 DEF TcpInv
  <2>3. \/ rcv' = [rcv EXCEPT !.ackdelay = FALSE]
        \/ rcv' = [rcv EXCEPT !.reading = FALSE, !.ackdelay = TRUE]
    BY <1>8 DEF FastTimer, AckNow, TcpReadAcks
  <2>4. rcv'.nxt = rcv.nxt BY <2>2, <2>3 DEF Rcv
  <2>5. QED BY <2>1, <2>4, StreamRests DEF Upto
<1>9. ASSUME TcpRead PROVE AStream!Read
  <2>1. /\ rcv'.nxt = rcv.nxt /\ snd' = snd
        /\ Len(received) < Len(received') /\ Len(received') <= Position(rcv.nxt)
        /\ received' = received \o Stretch(Len(received), Len(received'))
    BY <1>0, <1>9, ReaderReads
  <2>2. Upto' = Upto /\ snd'.state = snd.state BY <2>1 DEF Upto
  <2>3. Len(received') <= Upto
    <3>1. Position(rcv.nxt) <= Upto /\ Position(rcv.nxt) \in 0 .. Total /\ Upto \in 0 .. Total BY UnreadIs
    <3>2. (Len(received) \in 0 .. Total)' BY UnreadIs, PTL
    <3>3. Len(received') \in Nat BY <3>2
    <3>4. QED BY <2>1, <3>1, <3>3, HalfTheRange
  <2>4. QED BY <2>1, <2>2, <2>3, StreamReads
<1>10. ASSUME UNCHANGED tcpVars PROVE UNCHANGED AStream!vars
  <2>1. UNCHANGED <<snd, rcv, received>> BY <1>10 DEF tcpVars
  <2>2. QED BY <2>1, StreamRests DEF Upto
<1>11. QED
  BY <1>1, <1>2, <1>3, <1>4, <1>5, <1>6, <1>7, <1>8, <1>9, <1>10 DEF TcpNext, AStream!Next

LEMMA StreamStarts == WindowFollowed /\ TcpInit => AStream!Init
<1> SUFFICES ASSUME WindowFollowed, TcpInit PROVE AStream!Init OBVIOUS
<1>1. StreamInv BY TcpInitInv, WindowInit DEF StreamInv
<1>2. received = <<>> /\ snd.state = "ESTABLISHED" /\ Position(snd.lbb) = 0
  BY FirstNumber DEF TcpInit
<1>3. Upto = 0 /\ Len(received) = 0 BY <1>2 DEF Upto
<1>4. Unread = Stretch(0, 0) BY <1>1, <1>3, UnreadIs
<1>5. Unread = <<>> BY <1>4, StretchNone
<1>6. QED BY <1>2, <1>5 DEF AStream!Init

LEMMA StreamCarried == WindowFollowed /\ TcpInit /\ [][TcpNext]_tcpVars => ImplementsStream
BY StreamStarts, StreamStep, StreamInvariant, PTL DEF ImplementsStream, AStream!Spec

\* A connection of tcp-in.c and tcp-out.c carries a stream, with one call of
\* tcp_write at a time: whatever the network loses, doubles or reorders, and
\* whatever is cut, chained, sent again and acknowledged in part, tcp_read returns
\* the bytes that tcp_write took, in their order and each once, until the sender
\* gives up; what has been acknowledged by then is still read.
THEOREM TcpImplementsStream == WindowFollowed /\ TcpSpec => ImplementsStream
BY StreamCarried, PTL DEF TcpSpec
=============================================================================
