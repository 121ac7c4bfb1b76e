----------------------------- MODULE PoolProofs -----------------------------
(***************************************************************************)
(* The memory pool, for any chunks of memory, any sizes and any number of  *)
(* callers.  The headers are a function hs from addresses to sizes, which  *)
(* is cut in two and merged; the free list is in the order of addresses,   *)
(* so that the neighbours of a hole on the list are its neighbours in      *)
(* memory.                                                                 *)
(***************************************************************************)
EXTENDS MemPool, TLAPS, FiniteSetTheorems, SequenceTheorems, WellFoundedInduction

\* The bytes of a header and what it heads, and those of several.
Bytes(hs, h)   == h .. h + hs[h] - 1
BytesOf(hs, H) == UNION {Bytes(hs, h) : h \in H}

\* Headers do not overlap, and each has room for a hole.
HeadersFit(hs) ==
    /\ DOMAIN hs \subseteq Nat /\ hs \in [DOMAIN hs -> Nat]
    /\ \A h \in DOMAIN hs : hs[h] >= Hdr + Ptr
    /\ \A g, h \in DOMAIN hs : g < h => g + hs[g] <= h

-----------------------------------------------------------------------------
(***************************************************************************)
(* Headers.                                                                *)
(***************************************************************************)
\* A function with another value at one place, or with fewer places.
LEMMA GivenIs ==
    ASSUME NEW f, NEW h, NEW v
    PROVE  /\ DOMAIN Given(f, h, v) = DOMAIN f \cup {h}
           /\ Given(f, h, v)[h] = v
           /\ \A a \in DOMAIN f \ {h} : Given(f, h, v)[a] = f[a]
           /\ Given(f, h, v) = [a \in DOMAIN f \cup {h} |-> Given(f, h, v)[a]]
BY DEF Given

LEMMA WithoutIs ==
    ASSUME NEW f, NEW S
    PROVE  /\ DOMAIN Without(f, S) = DOMAIN f \ S
           /\ \A a \in DOMAIN f \ S : Without(f, S)[a] = f[a]
           /\ Without(f, S) = [a \in DOMAIN f \ S |-> Without(f, S)[a]]
BY DEF Without

\* A quotient and its remainder.
LEMMA Quotient ==
    ASSUME NEW b \in Nat, NEW p \in Nat \ {0}
    PROVE  b \div p \in Nat /\ (b \div p) * p \in Nat /\ b < (b \div p) * p + p
<1>1. b \div p \in Nat /\ b % p \in 0 .. p - 1 /\ b = p * (b \div p) + (b % p) OBVIOUS
<1>2. p * (b \div p) = (b \div p) * p BY <1>1
<1> DEFINE d == b \div p
           r == b % p
           x == d * p
<1>3. x \in Nat BY <1>1
<1>4. b = x + r /\ r \in 0 .. p - 1 BY <1>1, <1>2
<1> HIDE DEF x, r
<1>5. b < x + p BY <1>3, <1>4
<1>6. QED BY <1>1, <1>3, <1>5 DEF x

\* A request takes its size and a header, and at least a link and a header.
LEMMA RequiredIsEnough ==
    ASSUME NEW n \in Nat
    PROVE  /\ Required(n) \in Nat
           /\ Required(n) >= n + Hdr /\ Required(n) >= Hdr + Ptr
<1>1. Ptr \in Nat \ {0} /\ Hdr \in Nat \ {0} BY PoolConstants
<1>2. ASSUME NEW a \in Nat PROVE Aligned(a) \in Nat /\ Aligned(a) >= a
  <2> DEFINE b == a + Ptr - 1
             x == (b \div Ptr) * Ptr
  <2>1. b \in Nat BY <1>1
  <2>2. x \in Nat /\ b < x + Ptr BY <1>1, <2>1, Quotient
  <2>3. Aligned(a) = x BY DEF Aligned
  <2> HIDE DEF x
  <2>4. QED BY <1>1, <2>2, <2>3
<1> DEFINE s == (IF n < Ptr THEN Ptr ELSE n) + Hdr
<1>3. s \in Nat /\ s >= n + Hdr /\ s >= Hdr + Ptr BY <1>1
<1>4. Required(n) = Aligned(s) BY DEF Required
<1> HIDE DEF s
<1>5. Required(n) \in Nat /\ Required(n) >= s BY <1>2, <1>3, <1>4
<1>6. QED BY <1>1, <1>3, <1>5

\* A header is cut in two: its bytes are those of the two.
CutInto(hs, h, size, cs) ==
    /\ HeadersFit(cs)
    /\ h + size \notin DOMAIN hs /\ h + size \in Nat
    /\ DOMAIN cs = DOMAIN hs \cup {h + size}
    /\ cs[h] = size /\ cs[h + size] = hs[h] - size
    /\ \A g \in DOMAIN hs \ {h} : cs[g] = hs[g]
    /\ Bytes(hs, h) = Bytes(cs, h) \cup Bytes(cs, h + size)
    /\ Bytes(cs, h) \cap Bytes(cs, h + size) = {}

MayCut(hs, h, size) ==
    /\ HeadersFit(hs) /\ h \in DOMAIN hs
    /\ size \in Nat /\ size >= Hdr + Ptr /\ hs[h] - size >= Hdr + Ptr

LEMMA CutFits ==
    ASSUME NEW hs, NEW h, NEW size, MayCut(hs, h, size),
           NEW cs, cs = Given(Given(hs, h, size), h + size, hs[h] - size)
    PROVE  CutInto(hs, h, size, cs)
<1> USE DEF MayCut
<1> DEFINE new == h + size
<1>1. Ptr \in Nat \ {0} /\ Hdr \in Nat \ {0} BY PoolConstants
<1>2. h \in Nat /\ hs[h] \in Nat BY DEF HeadersFit
<1>3. new \in Nat /\ new # h /\ h < new BY <1>1, <1>2
<1>4. new \notin DOMAIN hs
  <2> SUFFICES ASSUME new \in DOMAIN hs PROVE FALSE OBVIOUS
  <2>1. h + hs[h] <= new BY <1>3 DEF HeadersFit
  <2>2. QED BY <2>1, <1>1, <1>2
<1> DEFINE q == Given(hs, h, size)
           rest == hs[h] - size
<1>5. /\ DOMAIN q = DOMAIN hs \cup {h} /\ q[h] = size
      /\ \A g \in DOMAIN hs \ {h} : q[g] = hs[g]
  <2>1. q = [a \in DOMAIN hs \cup {h} |-> IF a = h THEN size ELSE hs[a]] BY DEF Given
  <2> HIDE DEF q
  <2>2. QED BY <2>1
<1> HIDE DEF q, new, rest
<1>6. /\ DOMAIN cs = DOMAIN hs \cup {new} /\ cs[h] = size /\ cs[new] = rest
      /\ \A g \in DOMAIN hs \ {h} : cs[g] = hs[g]
      /\ cs = [a \in DOMAIN cs |-> cs[a]]
  <2>1. cs = Given(q, new, rest) BY DEF q, new, rest
  <2>2. DOMAIN q = DOMAIN hs BY <1>5
  <2> DEFINE c == Given(q, new, rest)
  <2>3. /\ DOMAIN c = DOMAIN q \cup {new} /\ c[new] = rest
        /\ \A a \in DOMAIN q \ {new} : c[a] = q[a]
        /\ c = [a \in DOMAIN q \cup {new} |-> c[a]]
    <3>1. c = [a \in DOMAIN q \cup {new} |-> IF a = new THEN rest ELSE q[a]] BY DEF Given
    <3> HIDE DEF c
    <3>2. QED BY <3>1
  <2>4. c = cs BY <2>1
  <2> HIDE DEF c
  <2>5. /\ DOMAIN cs = DOMAIN q \cup {new} /\ cs[new] = rest
        /\ \A a \in DOMAIN q \ {new} : cs[a] = q[a]
        /\ cs = [a \in DOMAIN cs |-> cs[a]]
    BY <2>3, <2>4
  <2>6. h \in DOMAIN q \ {new} BY <2>2, <1>3
  <2>7. cs[h] = size BY <2>5, <2>6, <1>5
  <2>8. ASSUME NEW g \in DOMAIN hs \ {h} PROVE cs[g] = hs[g]
    <3>1. g \in DOMAIN q \ {new} BY <2>2, <1>4
    <3>2. QED BY <3>1, <2>5, <1>5
  <2>9. QED BY <2>2, <2>5, <2>7, <2>8
<1> USE DEF new, rest
<1> DEFINE F == \A g \in DOMAIN cs : cs[g] \in Nat /\ cs[g] >= Hdr + Ptr /\ g \in Nat
<1>7. F
  <2> SUFFICES ASSUME NEW g \in DOMAIN cs
               PROVE  cs[g] \in Nat /\ cs[g] >= Hdr + Ptr /\ g \in Nat
    OBVIOUS
  <2>1. CASE g = h BY <2>1, <1>2, <1>6
  <2>2. CASE g = new BY <2>2, <1>1, <1>2, <1>3, <1>6
  <2>3. CASE g \in DOMAIN hs \ {h} BY <2>3, <1>6 DEF HeadersFit
  <2>4. QED BY <2>1, <2>2, <2>3, <1>6
<1>8. \A f, g \in DOMAIN cs : f < g => f + cs[f] <= g
  <2> SUFFICES ASSUME NEW f \in DOMAIN cs, NEW g \in DOMAIN cs, f < g PROVE f + cs[f] <= g
    OBVIOUS
  <2>1. f \in Nat /\ g \in Nat /\ cs[f] \in Nat BY <1>7
  <2>2. CASE f \in DOMAIN hs \ {h} /\ g \in DOMAIN hs BY <2>2, <1>6 DEF HeadersFit
  <2>3. CASE f = h /\ g \in DOMAIN hs
    <3>1. h + hs[h] <= g BY <2>3 DEF HeadersFit
    <3>2. QED BY <3>1, <2>1, <2>3, <1>1, <1>2, <1>6
  <2>4. CASE f \in DOMAIN hs \ {h} /\ g = new
    <3>1. f # h /\ (f < h => f + hs[f] <= h) /\ (h < f => h + hs[h] <= f)
      BY <2>4 DEF HeadersFit
    <3>2. f < h
      <4>1. ~(h < f) BY <3>1, <2>1, <2>4, <1>1, <1>2
      <4>2. QED BY <4>1, <3>1, <2>1, <1>2
    <3>3. QED BY <3>1, <3>2, <2>1, <2>4, <1>2, <1>6
  <2>5. CASE f = h /\ g = new
    <3>1. f + cs[f] = g BY <2>5, <1>6
    <3>2. QED BY <3>1, <2>1
  <2>6. CASE f = new
    <3>1. g # new /\ g # h BY <2>1, <2>6, <1>2
    <3>2. g \in DOMAIN hs /\ h < g BY <3>1, <2>1, <2>6, <1>2, <1>6
    <3>3. h + hs[h] <= g BY <3>2 DEF HeadersFit
    <3>4. QED BY <3>3, <2>1, <2>6, <1>2, <1>6
  <2>7. QED BY <2>2, <2>3, <2>4, <2>5, <2>6, <1>6
<1>9. HeadersFit(cs)
  <2>1. cs \in [DOMAIN cs -> Nat]
    <3>1. cs = [a \in DOMAIN cs |-> cs[a]] BY <1>6
    <3>2. QED BY <3>1, <1>7
  <2>2. QED BY <2>1, <1>7, <1>8 DEF HeadersFit
<1>10. /\ Bytes(hs, h) = Bytes(cs, h) \cup Bytes(cs, new)
       /\ Bytes(cs, h) \cap Bytes(cs, new) = {}
  BY <1>1, <1>2, <1>6 DEF Bytes
<1>11. QED BY <1>3, <1>4, <1>6, <1>9, <1>10 DEF CutInto

\* Two headers that touch are merged: the bytes of the one are those of both.
MergeKeeps(hs, ms, g, h) ==
    /\ HeadersFit(ms)
    /\ DOMAIN ms = DOMAIN hs \ {h} /\ g # h
    /\ ms[g] = hs[g] + hs[h]
    /\ \A a \in DOMAIN hs \ {g, h} : ms[a] = hs[a]
    /\ Bytes(ms, g) = Bytes(hs, g) \cup Bytes(hs, h)

LEMMA MergeFits ==
    ASSUME NEW hs, HeadersFit(hs), NEW g \in DOMAIN hs, NEW h \in DOMAIN hs, g + hs[g] = h,
           NEW ms, ms = Without(Given(hs, g, hs[g] + hs[h]), {h})
    PROVE  MergeKeeps(hs, ms, g, h)
<1>1. Ptr \in Nat \ {0} /\ Hdr \in Nat \ {0} BY PoolConstants
<1>2. g \in Nat /\ h \in Nat /\ hs[g] \in Nat /\ hs[h] \in Nat /\ hs[g] >= Hdr + Ptr
  BY DEF HeadersFit
<1>3. g # h /\ g < h BY <1>1, <1>2
<1> DEFINE sum == hs[g] + hs[h]
           q == Given(hs, g, sum)
<1>4. /\ DOMAIN q = DOMAIN hs \cup {g} /\ q[g] = sum
      /\ \A a \in DOMAIN hs \ {g} : q[a] = hs[a]
  <2>1. q = [a \in DOMAIN hs \cup {g} |-> IF a = g THEN sum ELSE hs[a]] BY DEF Given
  <2> HIDE DEF q, sum
  <2>2. QED BY <2>1
<1> HIDE DEF q, sum
<1>5. /\ DOMAIN ms = DOMAIN hs \ {h} /\ ms[g] = sum
      /\ \A a \in DOMAIN hs \ {g, h} : ms[a] = hs[a]
      /\ ms = [a \in DOMAIN ms |-> ms[a]]
  <2>1. ms = Without(q, {h}) BY DEF q, sum
  <2>2. DOMAIN q = DOMAIN hs BY <1>4
  <2> DEFINE w == Without(q, {h})
  <2>3. /\ DOMAIN w = DOMAIN q \ {h} /\ \A a \in DOMAIN q \ {h} : w[a] = q[a]
        /\ w = [a \in DOMAIN q \ {h} |-> w[a]]
    BY WithoutIs
  <2>4. w = ms BY <2>1
  <2> HIDE DEF w
  <2>5. /\ DOMAIN ms = DOMAIN q \ {h} /\ \A a \in DOMAIN q \ {h} : ms[a] = q[a]
        /\ ms = [a \in DOMAIN ms |-> ms[a]]
    BY <2>3, <2>4
  <2>6. QED BY <2>2, <2>5, <1>3, <1>4
<1> USE DEF sum
<1>6. ASSUME NEW a \in DOMAIN ms
      PROVE  a \in Nat /\ ms[a] \in Nat /\ ms[a] >= Hdr + Ptr
  <2>1. CASE a = g BY <2>1, <1>1, <1>2, <1>5
  <2>2. CASE a # g BY <2>2, <1>5 DEF HeadersFit
  <2>3. QED BY <2>1, <2>2
<1>7. ASSUME NEW a \in DOMAIN ms, NEW b \in DOMAIN ms, a < b PROVE a + ms[a] <= b
  <2>1. a \in Nat /\ b \in Nat BY <1>6
  <2>2. CASE a = g
    <3>1. b # h /\ b \in DOMAIN hs BY <1>5
    <3>2. a + hs[g] <= b BY <2>2, <3>1, <1>7 DEF HeadersFit
    <3>3. h < b BY <3>1, <3>2, <2>1, <2>2, <1>2
    <3>4. h + hs[h] <= b BY <3>1, <3>3 DEF HeadersFit
    <3>5. QED BY <3>4, <2>1, <2>2, <1>2, <1>5
  <2>3. CASE a # g BY <2>3, <1>5, <1>7 DEF HeadersFit
  <2>4. QED BY <2>2, <2>3
<1>8. HeadersFit(ms)
  <2>1. ms \in [DOMAIN ms -> Nat]
    <3>1. ms = [a \in DOMAIN ms |-> ms[a]] BY <1>5
    <3>2. QED BY <3>1, <1>6
  <2>2. QED BY <2>1, <1>6, <1>7 DEF HeadersFit
<1>9. Bytes(ms, g) = Bytes(hs, g) \cup Bytes(hs, h) BY <1>1, <1>2, <1>5 DEF Bytes
<1>10. QED BY <1>3, <1>5, <1>8, <1>9 DEF MergeKeeps

-----------------------------------------------------------------------------
(***************************************************************************)
(* The free list: which addresses are on it, in their order.               *)
(***************************************************************************)
\* The addresses in H are listed, the lowest first.
Lists(s, H) ==
    /\ s \in Seq(Nat)
    /\ {s[i] : i \in DOMAIN s} = H
    /\ \A i, j \in DOMAIN s : i < j => s[i] < s[j]

\* Every nonempty set of numbers has a least one.
LEMMA LeastOf ==
    ASSUME NEW S, S \subseteq Nat, S # {}
    PROVE  Min(S) \in S /\ \A y \in S : Min(S) <= y
<1> DEFINE R == OpToRel(<, Nat)
<1>1. IsWellFoundedOn(R, Nat) BY NatLessThanWellFounded
<1>2. PICK x \in S : \A y \in S : ~(<<y, x>> \in R) BY <1>1, WFMin
<1>3. \A y \in S : ~(y < x) BY <1>2 DEF OpToRel
<1>4. \A y \in S : x <= y BY <1>3
<1>5. QED BY <1>4 DEF Min

\* The elements after one is taken out, and after one is put in.
LEMMA RemovedElements ==
    ASSUME NEW s \in Seq(Nat), NEW i \in 1 .. Len(s)
    PROVE  /\ RemoveAt(s, i) \in Seq(Nat) /\ Len(RemoveAt(s, i)) = Len(s) - 1
           /\ \A j \in 1 .. Len(s) - 1 :
                 /\ j < i => RemoveAt(s, i)[j] = s[j]
                 /\ ~(j < i) => RemoveAt(s, i)[j] = s[j + 1]
<1> DEFINE n == Len(s)
           a == SubSeq(s, 1, i - 1)
           b == SubSeq(s, i + 1, n)
           r == a \o b
<1>1. n \in Nat /\ DOMAIN s = 1 .. n /\ i \in 1 .. n /\ \A j \in 1 .. n : s[j] \in Nat
  BY LenProperties, ElementOfSeq
<1>2. n = Len(s) OBVIOUS
<1> HIDE DEF n
<1>3. a \in Seq(Nat) /\ Len(a) = i - 1 /\ \A j \in 1 .. i - 1 : a[j] = s[j]
  <2>1. \A j \in 1 .. i - 1 : s[j] \in Nat BY <1>1
  <2>2. /\ a \in Seq(Nat) /\ Len(a) = IF 1 <= i - 1 THEN i - 1 - 1 + 1 ELSE 0
        /\ \A j \in 1 .. i - 1 - 1 + 1 : a[j] = s[1 + j - 1]
    BY <1>1, <1>2, <2>1, SubSeqProperties
  <2> HIDE DEF a
  <2>3. QED BY <1>1, <2>2
<1>4. b \in Seq(Nat) /\ Len(b) = n - i /\ \A j \in 1 .. n - i : b[j] = s[i + j]
  <2>1. \A j \in i + 1 .. n : s[j] \in Nat BY <1>1
  <2>2. /\ b \in Seq(Nat) /\ Len(b) = IF i + 1 <= n THEN n - (i + 1) + 1 ELSE 0
        /\ \A j \in 1 .. n - (i + 1) + 1 : b[j] = s[(i + 1) + j - 1]
    BY <1>1, <1>2, <2>1, SubSeqProperties
  <2> HIDE DEF b
  <2>3. n - (i + 1) + 1 = n - i /\ Len(b) = n - i BY <1>1, <2>2
  <2>4. \A j \in 1 .. n - i : b[j] = s[(i + 1) + j - 1] /\ (i + 1) + j - 1 = i + j
    BY <1>1, <2>2, <2>3
  <2>5. QED BY <2>2, <2>3, <2>4
<1>5. RemoveAt(s, i) = r BY <1>2 DEF RemoveAt
<1> HIDE DEF a, b
<1>6. /\ r \in Seq(Nat) /\ Len(r) = Len(a) + Len(b)
      /\ \A j \in 1 .. Len(a) + Len(b) : r[j] = IF j <= Len(a) THEN a[j] ELSE b[j - Len(a)]
  BY <1>3, <1>4, ConcatProperties
<1> HIDE DEF r
<1>7. Len(r) = n - 1 BY <1>1, <1>3, <1>4, <1>6
<1>8. ASSUME NEW j \in 1 .. n - 1, j < i PROVE r[j] = s[j]
  BY <1>1, <1>3, <1>4, <1>6, <1>8
<1>9. ASSUME NEW j \in 1 .. n - 1, ~(j < i) PROVE r[j] = s[j + 1]
  <2>1. j - (i - 1) \in 1 .. n - i /\ i + (j - (i - 1)) = j + 1 BY <1>1, <1>9
  <2>2. b[j - (i - 1)] = s[j + 1] BY <1>4, <2>1
  <2>3. r[j] = b[j - (i - 1)] BY <1>1, <1>3, <1>4, <1>6, <1>9
  <2>4. QED BY <2>2, <2>3
<1>10. QED BY <1>5, <1>6, <1>7, <1>8, <1>9, <1>2

SeqInserted(s, r, i, x) ==
    /\ r \in Seq(Nat) /\ Len(r) = Len(s) + 1 /\ r[i] = x
    /\ \A j \in 1 .. Len(s) + 1 : (j < i => r[j] = s[j]) /\ (j > i => r[j] = s[j - 1])

LEMMA InsertedElements ==
    ASSUME NEW s \in Seq(Nat), NEW i \in 1 .. Len(s), NEW x \in Nat
    PROVE  SeqInserted(s, InsertAt(s, i, x), i, x)
<1> DEFINE n == Len(s)
           a == SubSeq(s, 1, i - 1)
           b == SubSeq(s, i, n)
           m == a \o <<x>>
           r == m \o b
<1>1. n \in Nat /\ DOMAIN s = 1 .. n /\ i \in 1 .. n /\ \A j \in 1 .. n : s[j] \in Nat
  BY LenProperties, ElementOfSeq
<1>2. n = Len(s) OBVIOUS
<1> HIDE DEF n
<1>3. a \in Seq(Nat) /\ Len(a) = i - 1 /\ \A j \in 1 .. i - 1 : a[j] = s[j]
  <2>1. \A j \in 1 .. i - 1 : s[j] \in Nat BY <1>1
  <2>2. /\ a \in Seq(Nat) /\ Len(a) = IF 1 <= i - 1 THEN i - 1 - 1 + 1 ELSE 0
        /\ \A j \in 1 .. i - 1 - 1 + 1 : a[j] = s[1 + j - 1]
    BY <1>1, <1>2, <2>1, SubSeqProperties
  <2> HIDE DEF a
  <2>3. QED BY <1>1, <2>2
<1>4. b \in Seq(Nat) /\ Len(b) = n - i + 1 /\ \A j \in 1 .. n - i + 1 : b[j] = s[i + j - 1]
  <2>1. \A j \in i .. n : s[j] \in Nat BY <1>1
  <2>2. /\ b \in Seq(Nat) /\ Len(b) = IF i <= n THEN n - i + 1 ELSE 0
        /\ \A j \in 1 .. n - i + 1 : b[j] = s[i + j - 1]
    BY <1>1, <1>2, <2>1, SubSeqProperties
  <2> HIDE DEF b
  <2>3. QED BY <1>1, <2>2
<1>5. InsertAt(s, i, x) = r BY <1>2 DEF InsertAt
<1> HIDE DEF a, b
<1>6. m \in Seq(Nat) /\ Len(m) = i /\ m[i] = x /\ \A j \in 1 .. i - 1 : m[j] = s[j]
  <2>1. m = Append(a, x) BY <1>3, AppendIsConcat
  <2>2. /\ Append(a, x) \in Seq(Nat) /\ Len(Append(a, x)) = Len(a) + 1
        /\ \A j \in 1 .. Len(a) : Append(a, x)[j] = a[j]
        /\ Append(a, x)[Len(a) + 1] = x
    BY <1>3, AppendProperties
  <2> HIDE DEF m
  <2>3. QED BY <1>1, <1>3, <2>1, <2>2
<1> HIDE DEF m
<1>7. /\ r \in Seq(Nat) /\ Len(r) = Len(m) + Len(b)
      /\ \A j \in 1 .. Len(m) + Len(b) : r[j] = IF j <= Len(m) THEN m[j] ELSE b[j - Len(m)]
  BY <1>4, <1>6, ConcatProperties
<1> HIDE DEF r
<1>8. Len(r) = n + 1 BY <1>1, <1>4, <1>6, <1>7
<1>9. r[i] = x BY <1>1, <1>4, <1>6, <1>7
<1>10. ASSUME NEW j \in 1 .. n + 1, j < i PROVE r[j] = s[j]
  BY <1>1, <1>4, <1>6, <1>7, <1>10
<1>11. ASSUME NEW j \in 1 .. n + 1, j > i PROVE r[j] = s[j - 1]
  <2>1. j - i \in 1 .. n - i + 1 /\ i + (j - i) - 1 = j - 1 BY <1>1, <1>11
  <2>2. b[j - i] = s[j - 1] BY <1>4, <2>1
  <2>3. Len(m) = i /\ ~(j <= i) /\ j \in 1 .. Len(m) + Len(b) BY <1>1, <1>4, <1>6, <1>11
  <2>4. r[j] = b[j - Len(m)] BY <2>3, <1>7
  <2>5. QED BY <2>2, <2>3, <2>4
<1>12. SeqInserted(s, r, i, x) BY <1>2, <1>7, <1>8, <1>9, <1>10, <1>11 DEF SeqInserted
<1>13. QED BY <1>5, <1>12

\* The list after each of the edits that the allocator makes.
LEMMA ReplacedIsListed ==
    ASSUME NEW s, NEW H, Lists(s, H), NEW i \in DOMAIN s, NEW x \in Nat,
           \A j \in DOMAIN s : (j < i => s[j] < x) /\ (j > i => x < s[j])
    PROVE  Lists([s EXCEPT ![i] = x], (H \ {s[i]}) \cup {x})
<1> DEFINE r == [s EXCEPT ![i] = x]
           n == Len(s)
<1>1. s \in Seq(Nat) /\ n \in Nat /\ DOMAIN s = 1 .. n BY LenProperties DEF Lists
<1>2. \A j, k \in 1 .. n : j < k => s[j] < s[k] BY <1>1 DEF Lists
<1>3. \A j \in 1 .. n : s[j] \in Nat BY <1>1, ElementOfSeq
<1>4. r \in Seq(Nat) /\ DOMAIN r = 1 .. n BY <1>1, ExceptSeq
<1>5. \A j \in 1 .. n : r[j] = IF j = i THEN x ELSE s[j] BY <1>1
<1> HIDE DEF r, n
<1>6. ASSUME NEW j \in 1 .. n, NEW k \in 1 .. n, j < k PROVE r[j] < r[k]
  <2>1. CASE j = i BY <2>1, <1>1, <1>5, <1>6
  <2>2. CASE k = i BY <2>2, <1>1, <1>5, <1>6
  <2>3. CASE j # i /\ k # i BY <2>3, <1>2, <1>5, <1>6
  <2>4. QED BY <2>1, <2>2, <2>3
<1>7. H = {s[j] : j \in 1 .. n} BY <1>1 DEF Lists
<1>8. ASSUME NEW y PROVE y \in {r[j] : j \in 1 .. n} <=> y \in (H \ {s[i]}) \cup {x}
  <2>1. ASSUME NEW j \in 1 .. n, j # i PROVE s[j] # s[i]
    BY <2>1, <1>1, <1>2, <1>3
  <2>2. ASSUME NEW j \in 1 .. n, y = r[j] PROVE y \in (H \ {s[i]}) \cup {x}
    <3>1. CASE j = i BY <3>1, <2>2, <1>5
    <3>2. CASE j # i BY <3>2, <2>1, <2>2, <1>5, <1>7
    <3>3. QED BY <3>1, <3>2
  <2>3. ASSUME y \in (H \ {s[i]}) \cup {x} PROVE \E j \in 1 .. n : y = r[j]
    <3>1. CASE y = x BY <3>1, <1>1, <1>5
    <3>2. CASE y \in H \ {s[i]}
      <4>1. PICK j \in 1 .. n : y = s[j] BY <3>2, <1>7
      <4>2. j # i BY <4>1, <3>2
      <4>3. QED BY <4>1, <4>2, <1>5
    <3>3. QED BY <3>1, <3>2, <2>3
  <2>4. QED BY <2>2, <2>3
<1>9. {r[j] : j \in 1 .. n} = (H \ {s[i]}) \cup {x} BY <1>8
<1>10. Lists(r, (H \ {s[i]}) \cup {x}) BY <1>4, <1>6, <1>9 DEF Lists
<1>11. QED BY <1>10 DEF r

LEMMA RemovedIsListed ==
    ASSUME NEW s, NEW H, Lists(s, H), NEW i \in DOMAIN s
    PROVE  Lists(RemoveAt(s, i), H \ {s[i]})
<1> DEFINE r == RemoveAt(s, i)
           n == Len(s)
<1>1. s \in Seq(Nat) /\ n \in Nat /\ DOMAIN s = 1 .. n BY LenProperties DEF Lists
<1>2. \A j, k \in 1 .. n : j < k => s[j] < s[k] BY <1>1 DEF Lists
<1>3. \A j \in 1 .. n : s[j] \in Nat BY <1>1, ElementOfSeq
<1>4. /\ r \in Seq(Nat) /\ Len(r) = n - 1
      /\ \A j \in 1 .. n - 1 : (j < i => r[j] = s[j]) /\ (~(j < i) => r[j] = s[j + 1])
  BY <1>1, RemovedElements
<1> HIDE DEF r
<1>5. DOMAIN r = 1 .. n - 1 BY <1>4, LenProperties
<1> HIDE DEF n
<1>6. H = {s[j] : j \in 1 .. n} BY <1>1 DEF Lists, n
<1>7. \A j, k \in 1 .. n - 1 : j < k => r[j] < r[k]
  <2> SUFFICES ASSUME NEW j \in 1 .. n - 1, NEW k \in 1 .. n - 1, j < k PROVE r[j] < r[k]
    OBVIOUS
  <2>1. CASE k < i
    <3>1. j \in 1 .. n /\ k \in 1 .. n /\ j < i BY <2>1, <1>1
    <3>2. r[j] = s[j] /\ r[k] = s[k] BY <2>1, <3>1, <1>4
    <3>3. QED BY <3>1, <3>2, <1>2
  <2>2. CASE j < i /\ ~(k < i)
    <3>1. j \in 1 .. n /\ k + 1 \in 1 .. n /\ j < k + 1 BY <1>1
    <3>2. r[j] = s[j] /\ r[k] = s[k + 1] BY <2>2, <1>4
    <3>3. QED BY <3>1, <3>2, <1>2
  <2>3. CASE ~(j < i)
    <3>1. j + 1 \in 1 .. n /\ k + 1 \in 1 .. n /\ j + 1 < k + 1 /\ ~(k < i) BY <2>3, <1>1
    <3>2. r[j] = s[j + 1] /\ r[k] = s[k + 1] BY <2>3, <3>1, <1>4
    <3>3. QED BY <3>1, <3>2, <1>2
  <2>4. QED BY <2>1, <2>2, <2>3
<1>8. ASSUME NEW y PROVE y \in {r[j] : j \in 1 .. n - 1} <=> y \in H \ {s[i]}
  <2>1. ASSUME NEW j \in 1 .. n, j # i PROVE s[j] # s[i]
    BY <2>1, <1>1, <1>2, <1>3
  <2>2. ASSUME NEW j \in 1 .. n - 1, y = r[j] PROVE y \in H \ {s[i]}
    <3>1. CASE j < i
      <4>1. j \in 1 .. n /\ j # i /\ y = s[j] BY <3>1, <2>2, <1>1, <1>4
      <4>2. QED BY <4>1, <2>1, <1>6
    <3>2. CASE ~(j < i)
      <4>1. j + 1 \in 1 .. n /\ j + 1 # i /\ y = s[j + 1] BY <3>2, <2>2, <1>1, <1>4
      <4>2. QED BY <4>1, <2>1, <1>6
    <3>3. QED BY <3>1, <3>2
  <2>3. ASSUME y \in H \ {s[i]} PROVE \E j \in 1 .. n - 1 : y = r[j]
    <3>1. PICK j \in 1 .. n : y = s[j] BY <2>3, <1>6
    <3>2. j # i BY <3>1, <2>3
    <3>3. CASE j < i BY <3>1, <3>3, <1>1, <1>4
    <3>4. CASE j > i
      <4>1. j - 1 \in 1 .. n - 1 /\ ~(j - 1 < i) /\ (j - 1) + 1 = j BY <3>4, <1>1
      <4>2. y = r[j - 1] BY <4>1, <3>1, <1>4
      <4>3. QED BY <4>1, <4>2
    <3>5. QED BY <3>2, <3>3, <3>4, <1>1
  <2>4. QED BY <2>2, <2>3
<1>9. {r[j] : j \in 1 .. n - 1} = H \ {s[i]} BY <1>8
<1>10. Lists(r, H \ {s[i]}) BY <1>4, <1>5, <1>7, <1>9 DEF Lists
<1>11. QED BY <1>10 DEF r

LEMMA InsertedIsListed ==
    ASSUME NEW s, NEW H, Lists(s, H), NEW i \in DOMAIN s, NEW x \in Nat,
           \A j \in DOMAIN s : (j < i => s[j] < x) /\ (j >= i => x < s[j])
    PROVE  Lists(InsertAt(s, i, x), H \cup {x})
<1> DEFINE r == InsertAt(s, i, x)
           n == Len(s)
<1>1. s \in Seq(Nat) /\ n \in Nat /\ DOMAIN s = 1 .. n BY LenProperties DEF Lists
<1>2. \A j, k \in 1 .. n : j < k => s[j] < s[k] BY <1>1 DEF Lists
<1>3. /\ r \in Seq(Nat) /\ Len(r) = n + 1 /\ r[i] = x
      /\ \A j \in 1 .. n + 1 : (j < i => r[j] = s[j]) /\ (j > i => r[j] = s[j - 1])
  <2>1. i \in 1 .. Len(s) /\ s \in Seq(Nat) BY <1>1
  <2>2. SeqInserted(s, r, i, x) BY <2>1, InsertedElements
  <2> HIDE DEF r
  <2>3. QED BY <2>2 DEF SeqInserted
<1> HIDE DEF r
<1>4. DOMAIN r = 1 .. n + 1 BY <1>3, LenProperties
<1>5. H = {s[j] : j \in 1 .. n} BY <1>1 DEF Lists
<1> HIDE DEF n
<1>6. \A j, k \in 1 .. n + 1 : j < k => r[j] < r[k]
  <2> SUFFICES ASSUME NEW j \in 1 .. n + 1, NEW k \in 1 .. n + 1, j < k PROVE r[j] < r[k]
    OBVIOUS
  <2>1. CASE j = i
    <3>1. k - 1 \in 1 .. n /\ k - 1 >= i BY <2>1, <1>1
    <3>2. r[j] = x /\ r[k] = s[k - 1] BY <2>1, <1>1, <1>3
    <3>3. QED BY <3>1, <3>2, <1>1
  <2>2. CASE k = i
    <3>1. j \in 1 .. n /\ r[j] = s[j] /\ r[k] = x BY <2>2, <1>1, <1>3
    <3>2. QED BY <3>1, <2>2, <1>1
  <2>3. CASE k < i
    <3>1. j \in 1 .. n /\ k \in 1 .. n /\ j < i BY <2>3, <1>1
    <3>2. r[j] = s[j] /\ r[k] = s[k] BY <2>3, <3>1, <1>3
    <3>3. QED BY <3>1, <3>2, <1>2
  <2>4. CASE j < i /\ k > i
    <3>1. j \in 1 .. n /\ k - 1 \in 1 .. n /\ j < k - 1 BY <2>4, <1>1
    <3>2. r[j] = s[j] /\ r[k] = s[k - 1] BY <2>4, <1>3
    <3>3. QED BY <3>1, <3>2, <1>2
  <2>5. CASE j > i
    <3>1. j - 1 \in 1 .. n /\ k - 1 \in 1 .. n /\ j - 1 < k - 1 BY <2>5, <1>1
    <3>2. r[j] = s[j - 1] /\ r[k] = s[k - 1] BY <2>5, <1>1, <1>3
    <3>3. QED BY <3>1, <3>2, <1>2
  <2>6. QED BY <2>1, <2>2, <2>3, <2>4, <2>5, <1>1
<1>7. ASSUME NEW y PROVE y \in {r[j] : j \in 1 .. n + 1} <=> y \in H \cup {x}
  <2>1. ASSUME NEW j \in 1 .. n + 1, y = r[j] PROVE y \in H \cup {x}
    <3>1. CASE j = i BY <3>1, <2>1, <1>3
    <3>2. CASE j < i
      <4>1. j \in 1 .. n /\ y = s[j] BY <3>2, <2>1, <1>1, <1>3
      <4>2. QED BY <4>1, <1>5
    <3>3. CASE j > i
      <4>1. j - 1 \in 1 .. n /\ y = s[j - 1] BY <3>3, <2>1, <1>1, <1>3
      <4>2. QED BY <4>1, <1>5
    <3>4. QED BY <3>1, <3>2, <3>3, <1>1
  <2>2. ASSUME y \in H \cup {x} PROVE \E j \in 1 .. n + 1 : y = r[j]
    <3>1. CASE y = x BY <3>1, <1>1, <1>3
    <3>2. CASE y \in H
      <4>1. PICK j \in 1 .. n : y = s[j] BY <3>2, <1>5
      <4>2. CASE j < i
        <5>1. j \in 1 .. n + 1 /\ r[j] = y BY <4>1, <4>2, <1>1, <1>3
        <5>2. QED BY <5>1
      <4>3. CASE ~(j < i)
        <5>1. j + 1 \in 1 .. n + 1 /\ j + 1 > i /\ (j + 1) - 1 = j BY <4>3, <1>1
        <5>2. r[j + 1] = y BY <5>1, <4>1, <1>3
        <5>3. QED BY <5>1, <5>2
      <4>4. QED BY <4>2, <4>3
    <3>3. QED BY <3>1, <3>2, <2>2
  <2>3. QED BY <2>1, <2>2
<1>8. {r[j] : j \in 1 .. n + 1} = H \cup {x} BY <1>7
<1>9. Lists(r, H \cup {x}) BY <1>3, <1>4, <1>6, <1>8 DEF Lists
<1>10. QED BY <1>9 DEF r

LEMMA AppendedIsListed ==
    ASSUME NEW s, NEW H, Lists(s, H), NEW x \in Nat, \A j \in DOMAIN s : s[j] < x
    PROVE  Lists(Append(s, x), H \cup {x})
<1> DEFINE r == Append(s, x)
           n == Len(s)
<1>1. s \in Seq(Nat) /\ n \in Nat /\ DOMAIN s = 1 .. n BY LenProperties DEF Lists
<1>2. \A j, k \in 1 .. n : j < k => s[j] < s[k] BY <1>1 DEF Lists
<1>3. /\ r \in Seq(Nat) /\ Len(r) = n + 1 /\ r[n + 1] = x
      /\ \A j \in 1 .. n : r[j] = s[j]
  BY <1>1, AppendProperties
<1> HIDE DEF r
<1>4. DOMAIN r = 1 .. n + 1 BY <1>3, LenProperties
<1>5. H = {s[j] : j \in 1 .. n} BY <1>1 DEF Lists
<1>6. \A j \in 1 .. n + 1 : j \in 1 .. n \/ j = n + 1 BY <1>1
<1>7. \A j, k \in 1 .. n + 1 : j < k => r[j] < r[k]
  <2> SUFFICES ASSUME NEW j \in 1 .. n + 1, NEW k \in 1 .. n + 1, j < k PROVE r[j] < r[k]
    OBVIOUS
  <2> HIDE DEF n
  <2>1. j \in 1 .. n /\ r[j] = s[j] /\ s[j] < x
    <3>1. j \in 1 .. n BY <1>1
    <3>2. s[j] < x BY <3>1, <1>1
    <3>3. r[j] = s[j] BY <3>1, <1>3
    <3>4. QED BY <3>1, <3>2, <3>3
  <2>2. CASE k = n + 1 BY <2>1, <2>2, <1>3
  <2>3. CASE k \in 1 .. n BY <2>1, <2>3, <1>2, <1>3
  <2>4. QED BY <2>2, <2>3, <1>6
<1>8. ASSUME NEW y PROVE y \in {r[j] : j \in 1 .. n + 1} <=> y \in H \cup {x}
  <2> HIDE DEF n
  <2>1. ASSUME NEW j \in 1 .. n + 1, y = r[j] PROVE y \in H \cup {x}
    BY <2>1, <1>3, <1>5, <1>6
  <2>2. ASSUME y \in H \cup {x} PROVE \E j \in 1 .. n + 1 : y = r[j]
    <3>1. CASE y = x BY <3>1, <1>1, <1>3
    <3>2. CASE y \in H
      <4>1. PICK j \in 1 .. n : y = s[j] BY <3>2, <1>5
      <4>2. j \in 1 .. n + 1 /\ y = r[j] BY <4>1, <1>1, <1>3
      <4>3. QED BY <4>2
    <3>3. QED BY <3>1, <3>2, <2>2
  <2>3. QED BY <2>1, <2>2
<1>9. {r[j] : j \in 1 .. n + 1} = H \cup {x} BY <1>8
<1>10. Lists(r, H \cup {x}) BY <1>3, <1>4, <1>7, <1>9 DEF Lists
<1>11. QED BY <1>10 DEF r

\* mem_init puts the lowest address in front.
LEMMA PrependedIsListed ==
    ASSUME NEW s, NEW H, Lists(s, H), NEW x \in Nat, \A h \in H : x < h
    PROVE  Lists(<<x>> \o s, H \cup {x})
<1> DEFINE r == <<x>> \o s
           n == Len(s)
<1>1. s \in Seq(Nat) /\ n \in Nat /\ DOMAIN s = 1 .. n BY LenProperties DEF Lists
<1>2. \A j, k \in 1 .. n : j < k => s[j] < s[k] BY <1>1 DEF Lists
<1>3. H = {s[j] : j \in 1 .. n} BY <1>1 DEF Lists
<1>4. /\ r \in Seq(Nat) /\ Len(r) = n + 1 /\ r[1] = x
      /\ \A j \in 2 .. n + 1 : r[j] = s[j - 1]
  <2> DEFINE u == <<x>>
  <2>1. u \in Seq(Nat) /\ Len(u) = 1 /\ u[1] = x OBVIOUS
  <2>2. r = u \o s OBVIOUS
  <2> HIDE DEF u, r
  <2>3. /\ r \in Seq(Nat) /\ Len(r) = Len(u) + Len(s)
        /\ \A i \in 1 .. Len(u) + Len(s) : r[i] = IF i <= Len(u) THEN u[i] ELSE s[i - Len(u)]
    BY <1>1, <2>1, <2>2, ConcatProperties
  <2> HIDE DEF n
  <2>4. Len(s) = n BY DEF n
  <2>5. Len(r) = n + 1 BY <2>1, <2>3, <2>4, <1>1
  <2>6. r[1] = x BY <2>1, <2>3, <2>4, <1>1
  <2>7. ASSUME NEW j \in 2 .. n + 1 PROVE r[j] = s[j - 1]
    BY <2>1, <2>3, <2>4, <1>1
  <2>8. QED BY <2>3, <2>5, <2>6, <2>7
<1> HIDE DEF r
<1>5. DOMAIN r = 1 .. n + 1 BY <1>4, LenProperties
<1> HIDE DEF n
<1>6. \A j \in 1 .. n : s[j] \in H BY <1>3
<1>7. \A j \in 1 .. n + 1 : j = 1 \/ j \in 2 .. n + 1 BY <1>1
<1>8. \A j, k \in 1 .. n + 1 : j < k => r[j] < r[k]
  <2> SUFFICES ASSUME NEW j \in 1 .. n + 1, NEW k \in 1 .. n + 1, j < k PROVE r[j] < r[k]
    OBVIOUS
  <2>1. k - 1 \in 1 .. n /\ r[k] = s[k - 1] BY <1>1, <1>4
  <2>2. CASE j = 1 BY <2>1, <2>2, <1>4, <1>6
  <2>3. CASE j \in 2 .. n + 1
    <3>1. j - 1 \in 1 .. n /\ j - 1 < k - 1 /\ r[j] = s[j - 1] BY <2>3, <1>1, <1>4
    <3>2. QED BY <3>1, <2>1, <1>2
  <2>4. QED BY <2>2, <2>3, <1>7
<1>9. ASSUME NEW y PROVE y \in {r[j] : j \in 1 .. n + 1} <=> y \in H \cup {x}
  <2>1. ASSUME NEW j \in 1 .. n + 1, y = r[j] PROVE y \in H \cup {x}
    <3>1. CASE j = 1 BY <3>1, <2>1, <1>4
    <3>2. CASE j \in 2 .. n + 1
      <4>1. j - 1 \in 1 .. n /\ y = s[j - 1] BY <3>2, <2>1, <1>1, <1>4
      <4>2. QED BY <4>1, <1>6
    <3>3. QED BY <3>1, <3>2, <1>7
  <2>2. ASSUME y \in H \cup {x} PROVE \E j \in 1 .. n + 1 : y = r[j]
    <3>1. CASE y = x BY <3>1, <1>1, <1>4
    <3>2. CASE y \in H
      <4>1. PICK j \in 1 .. n : y = s[j] BY <3>2, <1>3
      <4>2. j + 1 \in 2 .. n + 1 /\ j + 1 \in 1 .. n + 1 /\ (j + 1) - 1 = j BY <1>1
      <4>3. y = r[j + 1] BY <4>1, <4>2, <1>4
      <4>4. QED BY <4>2, <4>3
    <3>3. QED BY <3>1, <3>2, <2>2
  <2>3. QED BY <2>1, <2>2
<1>10. {r[j] : j \in 1 .. n + 1} = H \cup {x} BY <1>9
<1>11. Lists(r, H \cup {x}) BY <1>4, <1>5, <1>8, <1>10 DEF Lists
<1>12. QED BY <1>11 DEF r

-----------------------------------------------------------------------------
(***************************************************************************)
(* A hole is made.                                                         *)
(***************************************************************************)
\* No hole ends where another one starts.
Apart(hs, H) == \A g, h \in H : g + hs[g] # h

\* The holes G of hs have become the holes H of ms, and nothing else has changed.
SameMemory(hs, G, ms, H) ==
    /\ HeadersFit(ms)
    /\ H \subseteq DOMAIN ms /\ DOMAIN ms \subseteq DOMAIN hs
    /\ DOMAIN ms \ H = DOMAIN hs \ G
    /\ \A a \in DOMAIN hs \ G : ms[a] = hs[a]
    /\ BytesOf(ms, H) = BytesOf(hs, G)

LEMMA SameMemoryTwice ==
    ASSUME NEW hs, NEW G, NEW ms, NEW H, NEW ns, NEW I,
           SameMemory(hs, G, ms, H), SameMemory(ms, H, ns, I)
    PROVE  SameMemory(hs, G, ns, I)
BY DEF SameMemory

\* Two of the holes G touch, and become one.
Touching(hs, G, g, h) ==
    HeadersFit(hs) /\ G \subseteq DOMAIN hs /\ g \in G /\ h \in G /\ g + hs[g] = h

Merged(hs, g, h) == Without(Given(hs, g, hs[g] + hs[h]), {h})

MergedInto(hs, G, g, h, ms) ==
    /\ SameMemory(hs, G, ms, G \ {h})
    /\ g # h /\ ms[g] = hs[g] + hs[h] /\ DOMAIN ms = DOMAIN hs \ {h}
    /\ \A a \in G \ {g, h} : ms[a] = hs[a]

LEMMA HolesMerge ==
    ASSUME NEW hs, NEW G, NEW g, NEW h, Touching(hs, G, g, h)
    PROVE  MergedInto(hs, G, g, h, Merged(hs, g, h))
<1> USE DEF Touching
<1> DEFINE ms == Merged(hs, g, h)
<1>1. ms = Without(Given(hs, g, hs[g] + hs[h]), {h}) BY DEF Merged
<1> HIDE DEF ms
<1>2. /\ HeadersFit(ms)
      /\ DOMAIN ms = DOMAIN hs \ {h} /\ g # h
      /\ ms[g] = hs[g] + hs[h]
      /\ \A a \in DOMAIN hs \ {g, h} : ms[a] = hs[a]
      /\ Bytes(ms, g) = Bytes(hs, g) \cup Bytes(hs, h)
  <2>1. MergeKeeps(hs, ms, g, h) BY <1>1, MergeFits
  <2>2. QED BY <2>1 DEF MergeKeeps
<1>3. ASSUME NEW x PROVE x \in BytesOf(ms, G \ {h}) <=> x \in BytesOf(hs, G)
  <2>1. \A a \in G \ {g, h} : Bytes(ms, a) = Bytes(hs, a) BY <1>2 DEF Bytes
  <2>2. ASSUME NEW a \in G \ {h}, x \in Bytes(ms, a) PROVE \E b \in G : x \in Bytes(hs, b)
    <3>1. CASE a = g BY <3>1, <2>2, <1>2
    <3>2. CASE a # g BY <3>2, <2>1, <2>2
    <3>3. QED BY <3>1, <3>2
  <2>3. ASSUME NEW a \in G, x \in Bytes(hs, a) PROVE \E b \in G \ {h} : x \in Bytes(ms, b)
    <3>1. CASE a \in {g, h} BY <3>1, <2>3, <1>2
    <3>2. CASE a \notin {g, h} BY <3>2, <2>1, <2>3
    <3>3. QED BY <3>1, <3>2
  <2>4. QED BY <2>2, <2>3 DEF BytesOf
<1>4. BytesOf(ms, G \ {h}) = BytesOf(hs, G) BY <1>3
<1>5. DOMAIN ms \ (G \ {h}) = DOMAIN hs \ G BY <1>2
<1>6. \A a \in DOMAIN hs \ G : ms[a] = hs[a] BY <1>2
<1>7. SameMemory(hs, G, ms, G \ {h}) BY <1>2, <1>4, <1>5, <1>6 DEF SameMemory
<1>8. QED BY <1>2, <1>7 DEF ms, MergedInto

\* Where the walk of make_hole_locked ends: below new all holes end below it,
\* above it they start above it.
LEMMA NeighbourIs ==
    ASSUME NEW hs, HeadersFit(hs), NEW H, H \subseteq DOMAIN hs, NEW new \in DOMAIN hs \ H,
           Lists(free_list, H), Apart(hs, H), \A h \in H : hsize[h] = hs[h]
    PROVE  LET i == Neighbour(new)
           IN  /\ i \in 1 .. Len(free_list) + 1
               /\ \A j \in DOMAIN free_list :
                     /\ free_list[j] \in H
                     /\ j < i => free_list[j] < new /\ free_list[j] + hs[free_list[j]] # new
                     /\ j > i => free_list[j] > new
               /\ i <= Len(free_list) =>
                     \/ free_list[i] > new
                     \/ free_list[i] < new /\ free_list[i] + hs[free_list[i]] = new
<1> DEFINE n == Len(free_list)
           L == free_list
           S == {i \in DOMAIN free_list :
                    \/ free_list[i] > new
                    \/ free_list[i] + hsize[free_list[i]] = new}
           i == Min(S \cup {n + 1})
<1>1. /\ L \in Seq(Nat) /\ n \in Nat /\ DOMAIN L = 1 .. n
      /\ \A j \in 1 .. n : L[j] \in H
      /\ \A j, k \in 1 .. n : j < k => L[j] < L[k]
  BY LenProperties DEF Lists
<1>2. Neighbour(new) = i BY DEF Neighbour
<1>3. i \in S \cup {n + 1} /\ \A k \in S \cup {n + 1} : i <= k
  <2> DEFINE T == S \cup {n + 1}
  <2>1. T \subseteq Nat /\ T # {} BY <1>1
  <2> HIDE DEF T
  <2>2. Min(T) \in T /\ \A y \in T : Min(T) <= y BY <2>1, LeastOf
  <2>3. QED BY <2>2 DEF T
<1>4. \A j \in 1 .. n : j \in S <=> L[j] > new \/ L[j] + hs[L[j]] = new
  BY <1>1
<1> HIDE DEF n, L, S, i
<1>5. i \in 1 .. n + 1
  <2>1. i \in 1 .. n \/ i = n + 1 BY <1>1, <1>3 DEF S, L
  <2>2. QED BY <2>1, <1>1
<1>6. new \in Nat /\ new \notin H BY DEF HeadersFit
<1>7. \A j \in 1 .. n : L[j] \in Nat /\ hs[L[j]] \in Nat /\ hs[L[j]] > 0
  <2> SUFFICES ASSUME NEW j \in 1 .. n PROVE L[j] \in Nat /\ hs[L[j]] \in Nat /\ hs[L[j]] > 0
    OBVIOUS
  <2>1. L[j] \in DOMAIN hs BY <1>1
  <2>2. QED BY <2>1, PoolConstants DEF HeadersFit
<1>8. ASSUME NEW j \in 1 .. n, j < i
      PROVE  L[j] < new /\ L[j] + hs[L[j]] # new
  <2>1. j \notin S BY <1>3, <1>5, <1>8
  <2>2. ~(L[j] > new) /\ L[j] + hs[L[j]] # new BY <2>1, <1>4
  <2>3. L[j] # new BY <1>1, <1>6
  <2>4. QED BY <2>2, <2>3, <1>6, <1>7
<1>9. ASSUME i <= n
      PROVE  /\ L[i] > new \/ L[i] + hs[L[i]] = new
             /\ \A j \in 1 .. n : j > i => L[j] > new
  <2>1. i \in 1 .. n BY <1>5, <1>9, <1>1
  <2>2. i \in S BY <2>1, <1>3, <1>1
  <2>3. L[i] > new \/ L[i] + hs[L[i]] = new BY <2>1, <2>2, <1>4
  <2>4. ASSUME NEW j \in 1 .. n, j > i PROVE L[j] > new
    <3>1. L[i] < L[j] BY <2>1, <2>4, <1>1
    <3>2. L[i] \in DOMAIN hs /\ L[j] \in DOMAIN hs BY <2>1, <1>1
    <3>3. L[i] + hs[L[i]] <= L[j] BY <3>1, <3>2 DEF HeadersFit
    <3>4. L[j] # new BY <1>1, <1>6
    <3>5. L[i] \in Nat /\ L[j] \in Nat /\ hs[L[i]] \in Nat BY <2>1, <1>7
    <3>6. CASE L[i] > new BY <3>6, <3>1, <3>5, <1>6
    <3>7. CASE L[i] + hs[L[i]] = new BY <3>7, <3>3, <3>4, <3>5, <1>6
    <3>8. QED BY <2>3, <3>6, <3>7
  <2>5. QED BY <2>3, <2>4
<1>10. ASSUME i <= n, ~(L[i] > new) PROVE L[i] < new /\ L[i] + hs[L[i]] = new
  <2>1. i \in 1 .. n BY <1>5, <1>10, <1>1
  <2>2. L[i] + hs[L[i]] = new BY <1>9, <1>10
  <2>3. QED BY <2>1, <2>2, <1>6, <1>7
<1>11. \A j \in 1 .. n : j > i => L[j] > new
  <2> SUFFICES ASSUME NEW j \in 1 .. n, j > i PROVE L[j] > new OBVIOUS
  <2>1. i <= n BY <1>1, <1>5
  <2>2. QED BY <2>1, <1>9
<1>12. i <= n => L[i] > new \/ (L[i] < new /\ L[i] + hs[L[i]] = new) BY <1>10
<1>13. \A j \in 1 .. n :
          /\ L[j] \in H
          /\ j < i => L[j] < new /\ L[j] + hs[L[j]] # new
          /\ j > i => L[j] > new
  BY <1>1, <1>8, <1>11
<1>14. QED BY <1>1, <1>2, <1>5, <1>12, <1>13 DEF L, n

\* The magics m are those of holes at the addresses in H, of blocks elsewhere.
Marked(m, H) ==
    /\ m \in [DOMAIN m -> {"hole", "block"}]
    /\ \A a \in DOMAIN m : m[a] = "hole" <=> a \in H

LEMMA MarkedMore ==
    ASSUME NEW m, NEW H, Marked(m, H), NEW new
    PROVE  /\ Marked(Given(m, new, "hole"), H \cup {new})
           /\ DOMAIN Given(m, new, "hole") = DOMAIN m \cup {new}
<1> DEFINE g == Given(m, new, "hole")
<1>1. g = [a \in DOMAIN m \cup {new} |-> IF a = new THEN "hole" ELSE m[a]] BY DEF Given
<1> HIDE DEF g
<1>2. /\ m \in [DOMAIN m -> {"hole", "block"}]
      /\ \A a \in DOMAIN m : m[a] = "hole" <=> a \in H
  BY DEF Marked
<1>3. DOMAIN g = DOMAIN m \cup {new} BY <1>1
<1>4. \A a \in DOMAIN g : g[a] \in {"hole", "block"} BY <1>1, <1>2
<1>5. \A a \in DOMAIN g : g[a] = "hole" <=> a \in H \cup {new} BY <1>1, <1>2
<1>6. g \in [DOMAIN g -> {"hole", "block"}] BY <1>1, <1>3, <1>4
<1>7. QED BY <1>3, <1>5, <1>6 DEF Marked, g

LEMMA MarkedLess ==
    ASSUME NEW m, NEW H, Marked(m, H), NEW S
    PROVE  Marked(Without(m, S), H \ S) /\ DOMAIN Without(m, S) = DOMAIN m \ S
<1> DEFINE g == Without(m, S)
<1>1. g = [a \in DOMAIN m \ S |-> m[a]] BY DEF Without
<1> HIDE DEF g
<1>2. /\ m \in [DOMAIN m -> {"hole", "block"}]
      /\ \A a \in DOMAIN m : m[a] = "hole" <=> a \in H
  BY DEF Marked
<1>3. DOMAIN g = DOMAIN m \ S BY <1>1
<1>4. \A a \in DOMAIN g : g[a] \in {"hole", "block"} BY <1>1, <1>2
<1>5. \A a \in DOMAIN g : g[a] = "hole" <=> a \in H \ S BY <1>1, <1>2
<1>6. g \in [DOMAIN g -> {"hole", "block"}] BY <1>1, <1>3, <1>4
<1>7. QED BY <1>3, <1>5, <1>6 DEF Marked, g

\* Before make_hole_locked: memory with the headers hs, of which H are holes and new
\* is to become one.
HoleDue(hs, H, new) ==
    /\ HeadersFit(hs)
    /\ H \subseteq DOMAIN hs /\ new \in DOMAIN hs \ H
    /\ Lists(free_list, H) /\ Apart(hs, H)
    /\ \A h \in H : hsize[h] = hs[h]
    /\ Marked(magic, H) /\ DOMAIN magic \cup {new} = DOMAIN hs

\* After it: the same memory with the holes I, which are listed, marked and apart.
HoleMade(hs, H, new, I) ==
    /\ SameMemory(hs, H \cup {new}, hsize', I)
    /\ Lists(free_list', I) /\ Apart(hsize', I)
    /\ Marked(magic', I) /\ DOMAIN magic' = DOMAIN hsize'

\* The hole is the last one.
LEMMA HoleAtTheEnd ==
    ASSUME NEW hs, NEW H, NEW new, HoleDue(hs, H, new), Neighbour(new) > Len(free_list),
           free_list' = Append(free_list, new), hsize' = hs, magic' = Given(magic, new, "hole")
    PROVE  HoleMade(hs, H, new, H \cup {new})
<1> DEFINE i == Neighbour(new)
           n == Len(free_list)
           L == free_list
<1>1. /\ HeadersFit(hs) /\ H \subseteq DOMAIN hs /\ new \in DOMAIN hs \ H
      /\ Lists(L, H) /\ Apart(hs, H) /\ Marked(magic, H) /\ DOMAIN magic \cup {new} = DOMAIN hs
  BY DEF HoleDue
<1>2. /\ i \in 1 .. n + 1
      /\ \A j \in DOMAIN L : j < i => L[j] < new /\ L[j] + hs[L[j]] # new
  BY NeighbourIs DEF HoleDue
<1>3. n \in Nat /\ DOMAIN L = 1 .. n /\ H = {L[j] : j \in 1 .. n}
  BY <1>1, LenProperties DEF Lists
<1> HIDE DEF i, n
<1>4. \A j \in DOMAIN L : L[j] < new /\ L[j] + hs[L[j]] # new
  <2>1. i > n BY DEF i, n
  <2>2. QED BY <2>1, <1>2, <1>3
<1>5. new \in Nat /\ hs[new] \in Nat /\ hs[new] > 0
  BY <1>1, PoolConstants DEF HeadersFit
<1>6. \A h \in H : h \in Nat /\ h < new /\ h + hs[h] # new
  BY <1>1, <1>3, <1>4 DEF HeadersFit
<1>7. Apart(hs, H \cup {new}) BY <1>1, <1>5, <1>6 DEF Apart
<1>8. Lists(Append(L, new), H \cup {new}) BY <1>1, <1>4, <1>5, AppendedIsListed
<1>9. /\ Marked(Given(magic, new, "hole"), H \cup {new})
      /\ DOMAIN Given(magic, new, "hole") = DOMAIN hs
  BY <1>1, MarkedMore
<1>10. SameMemory(hs, H \cup {new}, hs, H \cup {new}) BY <1>1 DEF SameMemory
<1>11. QED BY <1>7, <1>8, <1>9, <1>10 DEF HoleMade

\* The hole is in front of another one, or grows up to it.
LEMMA HoleInFront ==
    ASSUME NEW hs, NEW H, NEW new, HoleDue(hs, H, new),
           Neighbour(new) <= Len(free_list), free_list[Neighbour(new)] > new,
           Inserted(hs, new, Neighbour(new))
    PROVE  \E I : HoleMade(hs, H, new, I)
<1> DEFINE i == Neighbour(new)
           n == Len(free_list)
           L == free_list
           h == L[i]
<1>1. /\ HeadersFit(hs) /\ H \subseteq DOMAIN hs /\ new \in DOMAIN hs \ H
      /\ Lists(L, H) /\ Apart(hs, H) /\ Marked(magic, H) /\ DOMAIN magic \cup {new} = DOMAIN hs
  BY DEF HoleDue
<1>2. /\ i \in 1 .. n + 1
      /\ \A j \in DOMAIN L :
            /\ L[j] \in H
            /\ j < i => L[j] < new /\ L[j] + hs[L[j]] # new
            /\ j > i => L[j] > new
  BY NeighbourIs DEF HoleDue
<1>3. n \in Nat /\ DOMAIN L = 1 .. n /\ H = {L[j] : j \in 1 .. n}
      /\ \A j, k \in 1 .. n : j < k => L[j] < L[k]
  BY <1>1, LenProperties DEF Lists
<1>4. i \in 1 .. n /\ h > new /\ h \in H BY <1>2, <1>3
<1>5. i \in DOMAIN L BY <1>3, <1>4
<1>6. /\ new + hs[new] = h => /\ free_list' = [L EXCEPT ![i] = new]
                              /\ hsize' = Without(Given(hs, new, hs[new] + hs[h]), {h})
                              /\ magic' = Without(Given(magic, new, "hole"), {h})
      /\ new + hs[new] # h => /\ free_list' = InsertAt(L, i, new)
                              /\ hsize' = hs
                              /\ magic' = Given(magic, new, "hole")
  BY DEF Inserted
<1> HIDE DEF i, n, L, h
<1>7. new \in Nat /\ hs[new] \in Nat /\ hs[new] > 0
  BY <1>1, PoolConstants DEF HeadersFit
<1>8. \A a \in DOMAIN hs : a \in Nat /\ hs[a] \in Nat /\ hs[a] > 0
  BY <1>1, PoolConstants DEF HeadersFit
\* Below new the holes end below it, above it the first one is h.
<1>9. ASSUME NEW a \in H
      PROVE  a # new /\ a + hs[a] # new /\ (a < new \/ a = h \/ (h < a /\ new + hs[new] # a))
  <2>1. PICK j \in 1 .. n : a = L[j] BY <1>3
  <2>2. a # new /\ a \in DOMAIN hs BY <1>1
  <2>3. CASE j < i BY <2>1, <2>2, <2>3, <1>2, <1>3
  <2>4. CASE j = i
    <3>1. a = h BY <2>1, <2>4 DEF h
    <3>2. a > new BY <3>1, <1>4
    <3>3. QED BY <3>1, <3>2, <2>2, <1>7, <1>8
  <2>5. CASE j > i
    <3>1. h < a BY <2>1, <2>5, <1>3, <1>4 DEF h
    <3>2. new + hs[new] <= h BY <1>1, <1>4 DEF HeadersFit
    <3>3. h \in Nat BY <1>1, <1>4, <1>8
    <3>4. QED BY <3>1, <3>2, <3>3, <2>2, <1>4, <1>7, <1>8
  <2>6. QED BY <2>3, <2>4, <2>5, <1>4
<1>10. CASE new + hs[new] # h
  <2>1. Apart(hs, H \cup {new})
    <3>1. ASSUME NEW a \in H, new + hs[new] = a PROVE FALSE
      <4>1. a \in Nat /\ ~(a < new) BY <3>1, <1>7
      <4>2. a # h /\ new + hs[new] = a BY <3>1, <1>10
      <4>3. QED BY <4>1, <4>2, <1>9
    <3>2. QED BY <3>1, <1>1, <1>7, <1>9 DEF Apart
  <2>2. \A j \in DOMAIN L : (j < i => L[j] < new) /\ (j >= i => new < L[j])
    <3>1. \A j \in 1 .. n : j >= i => j = i \/ j > i BY <1>3, <1>4
    <3>2. QED BY <3>1, <1>2, <1>3, <1>4 DEF h
  <2>3. Lists(InsertAt(L, i, new), H \cup {new}) BY <1>1, <1>5, <1>7, <2>2, InsertedIsListed
  <2>4. /\ Marked(Given(magic, new, "hole"), H \cup {new})
        /\ DOMAIN Given(magic, new, "hole") = DOMAIN hs
    BY <1>1, MarkedMore
  <2>5. SameMemory(hs, H \cup {new}, hs, H \cup {new}) BY <1>1 DEF SameMemory
  <2>6. free_list' = InsertAt(L, i, new) /\ hsize' = hs /\ magic' = Given(magic, new, "hole")
    BY <1>6, <1>10
  <2>7. HoleMade(hs, H, new, H \cup {new}) BY <2>1, <2>3, <2>4, <2>5, <2>6 DEF HoleMade
  <2>8. QED BY <2>7
<1>11. CASE new + hs[new] = h
  <2> DEFINE ms == Merged(hs, new, h)
             G == H \cup {new}
             I == G \ {h}
  <2>1. Touching(hs, G, new, h) BY <1>1, <1>4, <1>11 DEF Touching
  <2> HIDE DEF ms, G, I
  <2>2. /\ SameMemory(hs, G, ms, I)
        /\ new # h /\ ms[new] = hs[new] + hs[h] /\ DOMAIN ms = DOMAIN hs \ {h}
        /\ \A a \in G \ {new, h} : ms[a] = hs[a]
    <3>1. MergedInto(hs, G, new, h, Merged(hs, new, h)) BY <2>1, HolesMerge
    <3>2. QED BY <3>1 DEF ms, I, MergedInto
  <2> USE DEF G, I
  <2>3. Apart(ms, I)
    <3> SUFFICES ASSUME NEW a \in I, NEW b \in I, a + ms[a] = b PROVE FALSE BY DEF Apart
    <3>1. h \in Nat /\ hs[h] \in Nat /\ h \in DOMAIN hs BY <1>1, <1>4, <1>8
    <3>2. CASE a = new
      <4>1. h + hs[h] = b BY <3>1, <3>2, <2>2, <1>7, <1>11
      <4>2. b # new BY <4>1, <3>1, <1>4, <1>7
      <4>3. QED BY <4>1, <4>2, <1>1, <1>4 DEF Apart
    <3>3. CASE a # new
      <4>1. a \in H /\ a + hs[a] = b BY <3>3, <2>2
      <4>2. b # new BY <4>1, <1>9
      <4>3. QED BY <4>1, <4>2, <1>1 DEF Apart
    <3>4. QED BY <3>2, <3>3
  <2>4. \A j \in DOMAIN L : (j < i => L[j] < new) /\ (j > i => new < L[j]) BY <1>2, <1>7, <1>8, <1>1
  <2>5. Lists([L EXCEPT ![i] = new], (H \ {h}) \cup {new})
    BY <1>1, <1>5, <1>7, <2>4, ReplacedIsListed DEF h
  <2>6. (H \ {h}) \cup {new} = I BY <2>2
  <2>7. /\ Marked(Given(magic, new, "hole"), G)
        /\ DOMAIN Given(magic, new, "hole") = DOMAIN hs
    BY <1>1, MarkedMore
  <2> DEFINE gm == Given(magic, new, "hole")
  <2> HIDE DEF gm, G
  <2>8. Marked(Without(gm, {h}), G \ {h}) /\ DOMAIN Without(gm, {h}) = DOMAIN gm \ {h}
    BY <2>7, MarkedLess DEF gm
  <2>9. DOMAIN ms = DOMAIN hs \ {h} BY <2>2
  <2>10. DOMAIN gm = DOMAIN hs BY <2>7 DEF gm
  <2>11. free_list' = [L EXCEPT ![i] = new] /\ hsize' = ms /\ magic' = Without(gm, {h})
    BY <1>6, <1>11 DEF ms, gm, Merged
  <2> HIDE DEF I
  <2>12. Lists(free_list', I) BY <2>5, <2>6, <2>11
  <2>13. Marked(magic', I) /\ DOMAIN magic' = DOMAIN hsize' BY <2>8, <2>9, <2>10, <2>11 DEF I
  <2>14. SameMemory(hs, H \cup {new}, hsize', I) /\ Apart(hsize', I) BY <2>2, <2>3, <2>11 DEF G
  <2>15. HoleMade(hs, H, new, I) BY <2>12, <2>13, <2>14 DEF HoleMade
  <2>16. QED BY <2>15
<1>12. QED BY <1>10, <1>11

\* The hole before it grows by it, and by the next one if that starts where they end.
LEMMA HoleBehind ==
    ASSUME NEW hs, NEW H, NEW new, HoleDue(hs, H, new),
           Neighbour(new) <= Len(free_list), ~(free_list[Neighbour(new)] > new),
           Appended(hs, new, Neighbour(new))
    PROVE  \E I : HoleMade(hs, H, new, I)
<1> DEFINE i == Neighbour(new)
           n == Len(free_list)
           L == free_list
           h == L[i]
           x == L[i + 1]
           G == H \cup {new}
           ms == Merged(hs, h, new)
<1>1. /\ HeadersFit(hs) /\ H \subseteq DOMAIN hs /\ new \in DOMAIN hs /\ new \notin H
      /\ Lists(L, H) /\ Apart(hs, H) /\ Marked(magic, H) /\ DOMAIN magic \cup {new} = DOMAIN hs
  BY DEF HoleDue
<1>2. /\ i \in 1 .. n + 1
      /\ \A j \in DOMAIN L :
            /\ L[j] \in H
            /\ j < i => L[j] < new /\ L[j] + hs[L[j]] # new
            /\ j > i => L[j] > new
      /\ i <= n => L[i] > new \/ (L[i] < new /\ L[i] + hs[L[i]] = new)
  BY NeighbourIs DEF HoleDue
<1>3. n \in Nat /\ DOMAIN L = 1 .. n /\ H = {L[j] : j \in 1 .. n}
      /\ \A j, k \in 1 .. n : j < k => L[j] < L[k]
  BY <1>1, LenProperties DEF Lists
<1>4. i \in 1 .. n /\ h < new /\ h + hs[h] = new /\ h \in H BY <1>2, <1>3
<1>5. /\ i < n /\ h + (hs[h] + hs[new]) = x =>
            /\ free_list' = RemoveAt(L, i + 1)
            /\ hsize' = Without(Given(hs, h, hs[h] + hs[new] + hs[x]), {new, x})
            /\ magic' = Without(magic, {new, x})
      /\ ~(i < n /\ h + (hs[h] + hs[new]) = x) =>
            /\ hsize' = ms
            /\ magic' = Without(magic, {new})
            /\ free_list' = L
  BY DEF Appended, Merged
<1> HIDE DEF i, n, L, h, x
<1>6. \A a \in DOMAIN hs : a \in Nat /\ hs[a] \in Nat /\ hs[a] > 0
  BY <1>1, PoolConstants DEF HeadersFit
<1>7. new \in Nat /\ hs[new] \in Nat /\ h \in Nat /\ hs[h] \in Nat /\ h # new
  BY <1>1, <1>4, <1>6
<1>8. Touching(hs, G, h, new) BY <1>1, <1>4 DEF Touching
<1> HIDE DEF ms, G
<1>9. /\ SameMemory(hs, G, ms, G \ {new})
      /\ ms[h] = hs[h] + hs[new] /\ DOMAIN ms = DOMAIN hs \ {new}
      /\ \A a \in G \ {h, new} : ms[a] = hs[a]
  <2>1. MergedInto(hs, G, h, new, ms) BY <1>8, HolesMerge DEF ms
  <2>2. QED BY <2>1 DEF MergedInto
<1>10. G \ {new} = H BY <1>1 DEF G
<1>11. \A a \in H \ {h} : ms[a] = hs[a] BY <1>9, <1>10
\* Only the hole that has grown can touch another one.
<1>12. ASSUME NEW a \in H, NEW b \in H, a + ms[a] = b
       PROVE  a = h /\ new + hs[new] = b /\ i < n /\ b = x
  <2>1. a = h
    <3>1. ASSUME a # h PROVE FALSE
      <4>1. a + hs[a] = b BY <3>1, <1>11, <1>12
      <4>2. QED BY <4>1, <1>1 DEF Apart
    <3>2. QED BY <3>1
  <2>2. h + (hs[h] + hs[new]) = b BY <2>1, <1>9, <1>12
  <2>3. new + hs[new] = b /\ b > new BY <2>2, <1>1, <1>4, <1>6, <1>7
  <2>4. PICK j \in 1 .. n : b = L[j] BY <1>3
  <2>5. j > i
    <3>1. ~(j < i)
      <4>1. ASSUME j < i PROVE FALSE
        <5>1. L[j] < new BY <4>1, <1>2, <1>3
        <5>2. b < new /\ b > new BY <5>1, <2>3, <2>4
        <5>3. b \in Nat BY <1>1, <1>6
        <5>4. QED BY <5>2, <5>3, <1>7
      <4>2. QED BY <4>1
    <3>2. j # i
      <4>1. ASSUME j = i PROVE FALSE
        <5>1. b = h BY <4>1, <2>4 DEF h
        <5>2. QED BY <5>1, <2>3, <1>4, <1>7
      <4>2. QED BY <4>1
    <3>3. QED BY <3>1, <3>2, <1>4
  <2>6. i < n /\ i + 1 \in 1 .. n BY <2>5, <1>3, <1>4
  <2>7. x \in H /\ x > new
    <3>1. i + 1 \in DOMAIN L /\ i + 1 > i BY <2>6, <1>3, <1>4
    <3>2. QED BY <3>1, <1>2 DEF x
  <2>8. new + hs[new] <= x BY <2>7, <1>1 DEF HeadersFit
  <2>9. j = i + 1
    <3>1. ASSUME j > i + 1 PROVE FALSE
      <4>1. x < b BY <3>1, <2>4, <2>6, <1>3 DEF x
      <4>2. x \in Nat /\ b \in Nat BY <2>7, <1>1, <1>6
      <4>3. QED BY <4>1, <4>2, <2>3, <2>8, <1>7
    <3>2. QED BY <3>1, <2>5, <2>6, <1>4
  <2>10. QED BY <2>1, <2>3, <2>4, <2>6, <2>9 DEF x
<1>13. CASE ~(i < n /\ h + (hs[h] + hs[new]) = x)
  <2>1. hsize' = ms /\ magic' = Without(magic, {new}) /\ free_list' = L BY <1>5, <1>13
  <2>2. Apart(ms, H)
    <3> SUFFICES ASSUME NEW a \in H, NEW b \in H, a + ms[a] = b PROVE FALSE BY DEF Apart
    <3>1. a = h /\ i < n /\ b = x BY <1>12
    <3>2. QED BY <3>1, <1>9, <1>13
  <2>3. Marked(Without(magic, {new}), H \ {new}) /\ DOMAIN Without(magic, {new}) = DOMAIN magic \ {new}
    BY <1>1, MarkedLess
  <2>4. H \ {new} = H BY <1>1
  <2>5. DOMAIN magic' = DOMAIN hsize' BY <2>1, <2>3, <1>1, <1>9
  <2>6. Marked(magic', H) BY <2>1, <2>3, <2>4
  <2>7. SameMemory(hs, H \cup {new}, hsize', H) BY <2>1, <1>9, <1>10 DEF G
  <2>8. HoleMade(hs, H, new, H) BY <2>1, <2>2, <2>5, <2>6, <2>7, <1>1 DEF HoleMade, L
  <2>9. QED BY <2>8
<1>14. CASE i < n /\ h + (hs[h] + hs[new]) = x
  <2> DEFINE ns == Merged(ms, h, x)
             I == H \ {x}
  <2>1. i + 1 \in 1 .. n /\ i + 1 \in DOMAIN L /\ x = L[i + 1] BY <1>3, <1>4, <1>14 DEF x
  <2>2. x \in H /\ x > new BY <2>1, <1>2, <1>4
  <2>3. x \in DOMAIN hs /\ x \in Nat /\ hs[x] \in Nat /\ x # h /\ x # new
    BY <2>2, <1>1, <1>4, <1>6, <1>7
  <2>4. h + ms[h] = x BY <1>9, <1>14
  <2>5. Touching(ms, H, h, x)
    <3>1. HeadersFit(ms) /\ H \subseteq DOMAIN ms BY <1>9, <1>10 DEF SameMemory
    <3>2. QED BY <3>1, <2>2, <2>4, <1>4 DEF Touching
  <2> HIDE DEF ns, I
  <2>6. /\ SameMemory(ms, H, ns, I)
        /\ ns[h] = ms[h] + ms[x] /\ DOMAIN ns = DOMAIN ms \ {x}
        /\ \A a \in H \ {h, x} : ns[a] = ms[a]
    <3>1. MergedInto(ms, H, h, x, ns) BY <2>5, HolesMerge DEF ns
    <3>2. QED BY <3>1 DEF MergedInto, I
  <2>7. SameMemory(hs, H \cup {new}, ns, I)
    BY <1>9, <1>10, <2>6, SameMemoryTwice DEF G
  <2>8. hsize' = ns
    <3> DEFINE sum == hs[h] + hs[new] + hs[x]
               w == Given(hs, h, sum)
               v == Given(ms, h, ms[h] + ms[x])
    <3>1. hsize' = Without(w, {new, x}) BY <1>5, <1>14
    <3>2. ns = Without(v, {x}) BY DEF ns, Merged
    <3>3. ms[h] + ms[x] = sum BY <2>2, <2>3, <1>7, <1>9, <1>11
    <3>4. w = [a \in DOMAIN hs \cup {h} |-> IF a = h THEN sum ELSE hs[a]] BY DEF Given
    <3> HIDE DEF sum
    <3>5. v = [a \in DOMAIN ms \cup {h} |-> IF a = h THEN sum ELSE ms[a]] BY <3>3 DEF Given
    <3> HIDE DEF w, v
    <3>6. Without(w, {new, x}) = [a \in DOMAIN w \ {new, x} |-> w[a]] BY DEF Without
    <3>7. Without(v, {x}) = [a \in DOMAIN v \ {x} |-> v[a]] BY DEF Without
    <3>8. DOMAIN w \ {new, x} = DOMAIN v \ {x}
      <4>1. DOMAIN w = DOMAIN hs BY <3>4, <1>1, <1>4
      <4>2. DOMAIN v = DOMAIN hs \ {new} BY <3>5, <1>1, <1>4, <1>7, <1>9
      <4>3. QED BY <4>1, <4>2
    <3>9. \A a \in DOMAIN w \ {new, x} : w[a] = v[a]
      <4> SUFFICES ASSUME NEW a \in DOMAIN w \ {new, x} PROVE w[a] = v[a] OBVIOUS
      <4>1. a \in DOMAIN hs \ {new, x} BY <3>4, <1>1, <1>4
      <4>2. a \in DOMAIN ms BY <4>1, <1>9
      <4>3. a # h => ms[a] = hs[a]
        <5>1. CASE a \in H BY <5>1, <1>11
        <5>2. CASE a \notin H
          <6>1. a \in DOMAIN hs \ G BY <5>2, <4>1 DEF G
          <6>2. QED BY <6>1, <1>9 DEF SameMemory
        <5>3. QED BY <5>1, <5>2
      <4>4. QED BY <4>1, <4>2, <4>3, <3>4, <3>5
    <3>10. QED BY <3>1, <3>2, <3>6, <3>7, <3>8, <3>9
  <2>9. Apart(ns, I)
    <3> SUFFICES ASSUME NEW a \in I, NEW b \in I, a + ns[a] = b PROVE FALSE BY DEF Apart
    <3>1. a \in H /\ b \in H /\ a # x /\ b # x BY DEF I
    <3>2. CASE a = h
      <4>1. ns[h] = hs[h] + hs[new] + hs[x] BY <2>2, <2>3, <2>6, <1>7, <1>9, <1>11
      <4>2. x + hs[x] = b BY <4>1, <3>2, <2>3, <1>7, <1>14
      <4>3. QED BY <4>2, <3>1, <2>2, <1>1 DEF Apart
    <3>3. CASE a # h
      <4>1. a + ms[a] = b BY <3>1, <3>3, <2>6
      <4>2. QED BY <4>1, <3>1, <3>3, <1>12
    <3>4. QED BY <3>2, <3>3
  <2>10. Lists(RemoveAt(L, i + 1), H \ {L[i + 1]}) BY <1>1, <2>1, RemovedIsListed
  <2>11. Marked(Without(magic, {new, x}), H \ {new, x})
         /\ DOMAIN Without(magic, {new, x}) = DOMAIN magic \ {new, x}
    BY <1>1, MarkedLess
  <2>12. H \ {new, x} = I BY <1>1 DEF I
  <2>13. free_list' = RemoveAt(L, i + 1) /\ magic' = Without(magic, {new, x}) BY <1>5, <1>14
  <2>14. DOMAIN magic' = DOMAIN hsize'
    <3>1. DOMAIN ns = DOMAIN hs \ {new, x} BY <2>6, <1>9
    <3>2. QED BY <3>1, <2>8, <2>11, <2>13, <1>1
  <2>15. Marked(magic', I) BY <2>11, <2>12, <2>13
  <2>16. Lists(free_list', I) BY <2>1, <2>10, <2>13 DEF I
  <2>17. HoleMade(hs, H, new, I) BY <2>7, <2>8, <2>9, <2>14, <2>15, <2>16 DEF HoleMade
  <2>18. QED BY <2>17
<1>15. QED BY <1>13, <1>14

\* make_hole_locked makes a hole.
LEMMA MakeHoleMakes ==
    ASSUME NEW hs, NEW H, NEW new, HoleDue(hs, H, new), MakeHole(hs, new)
    PROVE  (\E I : HoleMade(hs, H, new, I)) /\ free_size' = free_size + hs[new]
<1>1. free_size' = free_size + hs[new] BY DEF MakeHole, Counted
<1>2. CASE Neighbour(new) > Len(free_list)
  <2>1. /\ free_list' = Append(free_list, new) /\ hsize' = hs
        /\ magic' = Given(magic, new, "hole")
    BY <1>2 DEF MakeHole
  <2>2. HoleMade(hs, H, new, H \cup {new}) BY <1>2, <2>1, HoleAtTheEnd
  <2>3. QED BY <1>1, <2>2
<1>3. CASE ~(Neighbour(new) > Len(free_list))
  <2>1. Neighbour(new) <= Len(free_list)
    <3>1. Neighbour(new) \in 1 .. Len(free_list) + 1 /\ Len(free_list) \in Nat
      BY NeighbourIs, LenProperties DEF HoleDue, Lists
    <3>2. QED BY <3>1, <1>3
  <2>2. CASE free_list[Neighbour(new)] > new
    <3>1. Inserted(hs, new, Neighbour(new)) BY <1>3, <2>2 DEF MakeHole
    <3>2. QED BY <1>1, <2>1, <2>2, <3>1, HoleInFront
  <2>3. CASE ~(free_list[Neighbour(new)] > new)
    <3>1. Appended(hs, new, Neighbour(new)) BY <1>3, <2>3 DEF MakeHole
    <3>2. QED BY <1>1, <2>1, <2>3, <3>1, HoleBehind
  <2>4. QED BY <2>2, <2>3
<1>4. QED BY <1>2, <1>3

-----------------------------------------------------------------------------
(***************************************************************************)
(* The invariant: the headers cover the memory, the free list and the      *)
(* count of free memory agree with them, and the calls that have let go of *)
(* the lock keep what they know.                                           *)
(***************************************************************************)
Holes == {h \in Headers : magic[h] = "hole"}

HeadersHold ==
    /\ HeadersFit(hsize)
    /\ BytesOf(hsize, Headers) = Memory
    /\ chunks \in 0 .. Len(Chunks)
    /\ chunks > 0 => \A h \in Headers : h >= Chunks[chunks].start
    /\ Marked(magic, Holes) /\ DOMAIN magic = Headers

HolesHold ==
    /\ Lists(free_list, Holes) /\ Apart(hsize, Holes)
    /\ IsFiniteSet(BytesOf(hsize, Holes))
    /\ free_size = Cardinality(BytesOf(hsize, Holes))

Doings ==
    {Idle} \cup [call : {"realloc"}, old : Nat, new : Nat]
           \cup [call : {"realloc_failed"}, old : Nat]
           \cup [call : {"truncate"}, old : Nat, keep : Requests]

Safe(t) ==
    doing[t] # Idle =>
        /\ doing[t].old \in Blocks /\ owner[doing[t].old] = t
        /\ doing[t].call = "realloc" =>
              /\ doing[t].new \in Blocks /\ owner[doing[t].new] = t
              /\ doing[t].new # doing[t].old
              /\ hsize[doing[t].old] < hsize[doing[t].new]
        /\ doing[t].call = "truncate" =>
              Splits(hsize[doing[t].old], Required(doing[t].keep))

Answers == {"none", "block", "no_memory", "cut"}

CallsHold ==
    /\ owner \in [Blocks -> Users]
    /\ doing \in [Users -> Doings]
    /\ \A t \in Users : Safe(t)
    /\ answer.is \in Answers

PoolIInv == HeadersHold /\ HolesHold /\ CallsHold

\* A header is a hole or a block.
LEMMA BlocksAreRest ==
    ASSUME HeadersHold
    PROVE  /\ Blocks = Headers \ Holes /\ Holes = Headers \ Blocks
           /\ Blocks \cap Holes = {} /\ Blocks \subseteq Headers /\ Holes \subseteq Headers
BY DEF HeadersHold, Marked, Blocks, Holes

LEMMA BlocksAreRestNext ==
    ASSUME HeadersHold'
    PROVE  Blocks' = Headers' \ Holes' /\ Holes' = Headers' \ Blocks'
BY DEF HeadersHold, Marked, Blocks, Holes

\* The bytes of the holes and of the rest make up all of them.
LEMMA SameBytes ==
    ASSUME NEW hs, NEW G, G \subseteq DOMAIN hs, NEW ms, NEW I, SameMemory(hs, G, ms, I)
    PROVE  BytesOf(ms, DOMAIN ms) = BytesOf(hs, DOMAIN hs)
<1>1. /\ I \subseteq DOMAIN ms /\ DOMAIN ms \ I = DOMAIN hs \ G
      /\ \A a \in DOMAIN hs \ G : ms[a] = hs[a]
      /\ BytesOf(ms, I) = BytesOf(hs, G)
  BY DEF SameMemory
<1>2. BytesOf(ms, DOMAIN ms) = BytesOf(ms, I) \cup BytesOf(ms, DOMAIN ms \ I)
  BY <1>1 DEF BytesOf
<1>3. BytesOf(hs, DOMAIN hs) = BytesOf(hs, G) \cup BytesOf(hs, DOMAIN hs \ G)
  BY DEF BytesOf
<1>4. BytesOf(ms, DOMAIN ms \ I) = BytesOf(hs, DOMAIN hs \ G)
  <2>1. \A a \in DOMAIN hs \ G : Bytes(ms, a) = Bytes(hs, a) BY <1>1 DEF Bytes
  <2>2. QED BY <1>1, <2>1 DEF BytesOf
<1>5. QED BY <1>1, <1>2, <1>3, <1>4

\* The bytes of different headers are different.
LEMMA BytesDiffer ==
    ASSUME NEW hs, HeadersFit(hs), NEW g \in DOMAIN hs, NEW h \in DOMAIN hs, g # h
    PROVE  Bytes(hs, g) \cap Bytes(hs, h) = {}
<1>1. g \in Nat /\ h \in Nat /\ hs[g] \in Nat /\ hs[h] \in Nat BY DEF HeadersFit
<1>2. (g < h => g + hs[g] <= h) /\ (h < g => h + hs[h] <= g) BY DEF HeadersFit
<1>3. g < h \/ h < g BY <1>1
<1>4. ASSUME NEW x \in Bytes(hs, g) \cap Bytes(hs, h) PROVE FALSE
  <2>1. /\ x \in Int /\ g <= x /\ x <= g + hs[g] - 1 /\ h <= x /\ x <= h + hs[h] - 1
    BY <1>1 DEF Bytes
  <2>2. QED BY <2>1, <1>1, <1>2, <1>3
<1>5. QED BY <1>4

\* Some more bytes, or some less, and their number.
LEMMA MoreBytes ==
    ASSUME NEW hs, HeadersFit(hs), NEW h \in DOMAIN hs
    PROVE  /\ IsFiniteSet(Bytes(hs, h)) /\ Cardinality(Bytes(hs, h)) = hs[h]
           /\ hs[h] \in Nat /\ h \in Nat
<1>1. h \in Nat /\ hs[h] \in Nat /\ hs[h] > 0 BY PoolConstants DEF HeadersFit
<1>2. h \in Int /\ h + hs[h] - 1 \in Int /\ ~(h > h + hs[h] - 1) BY <1>1
<1>3. /\ IsFiniteSet(h .. h + hs[h] - 1)
      /\ Cardinality(h .. h + hs[h] - 1) = (h + hs[h] - 1) - h + 1
  BY <1>2, FS_Interval
<1>4. (h + hs[h] - 1) - h + 1 = hs[h] BY <1>1
<1>5. QED BY <1>1, <1>3, <1>4 DEF Bytes

LEMMA CountMore ==
    ASSUME NEW S, NEW T, IsFiniteSet(S), IsFiniteSet(T), S \cap T = {}
    PROVE  /\ IsFiniteSet(S \cup T)
           /\ Cardinality(S \cup T) = Cardinality(S) + Cardinality(T)
           /\ Cardinality(S) \in Nat /\ Cardinality(T) \in Nat
<1>1. /\ IsFiniteSet(S \cup T)
      /\ Cardinality(S \cup T) =
            Cardinality(S) + Cardinality(T) - Cardinality(S \cap T)
  BY FS_Union
<1>2. Cardinality(S \cap T) = 0 BY FS_EmptySet
<1>3. Cardinality(S) \in Nat /\ Cardinality(T) \in Nat BY FS_CardinalityType
<1>4. QED BY <1>1, <1>2, <1>3

\* make_hole_locked keeps the invariant of the memory, and touches no block.
LEMMA MakeHoleKeeps ==
    ASSUME HeadersHold, HolesHold, NEW hs, NEW new, HoleDue(hs, Holes, new),
           BytesOf(hs, DOMAIN hs) = Memory, BytesOf(hs, Holes) = BytesOf(hsize, Holes),
           \A h \in DOMAIN hs : chunks > 0 => h >= Chunks[chunks].start,
           MakeHole(hs, new), chunks' = chunks
    PROVE  /\ HeadersHold' /\ HolesHold'
           /\ Blocks' = DOMAIN hs \ (Holes \cup {new})
           /\ \A b \in Blocks' : hsize'[b] = hs[b]
<1> DEFINE H == Holes
           G == H \cup {new}
<1>1. (\E I : HoleMade(hs, Holes, new, I)) /\ free_size' = free_size + hs[new]
  BY MakeHoleMakes
<1>2. PICK I : HoleMade(hs, Holes, new, I) BY <1>1
<1>3. /\ HeadersFit(hs) /\ H \subseteq DOMAIN hs /\ new \in DOMAIN hs \ H BY DEF HoleDue
<1>4. /\ SameMemory(hs, G, hsize', I)
      /\ Lists(free_list', I) /\ Apart(hsize', I)
      /\ Marked(magic', I) /\ DOMAIN magic' = DOMAIN hsize'
  BY <1>2 DEF HoleMade
<1>5. /\ HeadersFit(hsize') /\ I \subseteq DOMAIN hsize' /\ DOMAIN hsize' \subseteq DOMAIN hs
      /\ DOMAIN hsize' \ I = DOMAIN hs \ G
      /\ \A a \in DOMAIN hs \ G : hsize'[a] = hs[a]
      /\ BytesOf(hsize', I) = BytesOf(hs, G)
  BY <1>4 DEF SameMemory
<1>6. Headers' = DOMAIN hsize' BY DEF Headers
<1>7. Holes' = I
  <2>1. Holes' = {h \in DOMAIN hsize' : magic'[h] = "hole"} BY DEF Holes, Headers
  <2>2. \A a \in DOMAIN hsize' : magic'[a] = "hole" <=> a \in I BY <1>4 DEF Marked
  <2>3. QED BY <2>1, <2>2, <1>5
<1>8. BytesOf(hsize', DOMAIN hsize') = BytesOf(hs, DOMAIN hs)
  BY <1>3, <1>4, SameBytes
<1>9. Memory' = Memory BY DEF Memory
<1>10. HeadersHold'
  <2>1. chunks' \in 0 .. Len(Chunks) BY DEF HeadersHold
  <2>2. chunks' > 0 => \A h \in Headers' : h >= Chunks[chunks'].start BY <1>5, <1>6
  <2>3. BytesOf(hsize, Headers)' = BytesOf(hsize', DOMAIN hsize') BY DEF BytesOf, Bytes, Headers
  <2>4. HeadersFit(hsize)' BY <1>5 DEF HeadersFit
  <2>5. Marked(magic, Holes)' BY <1>4, <1>7 DEF Marked
  <2>6. QED BY <2>1, <2>2, <2>3, <2>4, <2>5, <1>4, <1>6, <1>8, <1>9 DEF HeadersHold
<1>11. HolesHold'
  <2>1. BytesOf(hsize', I) = BytesOf(hsize, H) \cup Bytes(hs, new)
    <3>1. BytesOf(hs, G) = BytesOf(hs, H) \cup Bytes(hs, new) BY DEF BytesOf
    <3>2. QED BY <3>1, <1>5
  <2>2. BytesOf(hsize, H) \cap Bytes(hs, new) = {}
    <3>1. \A h \in H : Bytes(hs, h) \cap Bytes(hs, new) = {} BY <1>3, BytesDiffer
    <3>2. BytesOf(hs, H) \cap Bytes(hs, new) = {} BY <3>1 DEF BytesOf
    <3>3. QED BY <3>2
  <2>3. IsFiniteSet(Bytes(hs, new)) /\ Cardinality(Bytes(hs, new)) = hs[new] /\ hs[new] \in Nat
    BY <1>3, MoreBytes
  <2>4. IsFiniteSet(BytesOf(hsize, H)) /\ free_size = Cardinality(BytesOf(hsize, H))
    BY DEF HolesHold
  <2> DEFINE S == BytesOf(hsize, H)
             T == Bytes(hs, new)
  <2>5. /\ IsFiniteSet(S \cup T)
        /\ Cardinality(S \cup T) = Cardinality(S) + Cardinality(T)
    <3>1. IsFiniteSet(S) /\ IsFiniteSet(T) /\ S \cap T = {} BY <2>2, <2>3, <2>4
    <3> HIDE DEF S, T
    <3>2. QED BY <3>1, CountMore
  <2>6. IsFiniteSet(BytesOf(hsize', I)) /\ free_size' = Cardinality(BytesOf(hsize', I))
    BY <2>1, <2>3, <2>4, <2>5, <1>1
  <2>7. BytesOf(hsize, Holes)' = BytesOf(hsize', I) BY <1>7 DEF BytesOf, Bytes
  <2>8. Lists(free_list, Holes)' BY <1>4, <1>7 DEF Lists
  <2>9. Apart(hsize, Holes)' BY <1>4, <1>7 DEF Apart
  <2>10. IsFiniteSet(BytesOf(hsize, Holes)') /\ free_size' = Cardinality(BytesOf(hsize, Holes)')
    BY <2>6, <2>7
  <2>11. QED BY <2>8, <2>9, <2>10 DEF HolesHold, IsFiniteSet
<1>12. Blocks' = DOMAIN hs \ G BY <1>5, <1>6, <1>7, <1>10, BlocksAreRestNext
<1>13. QED BY <1>5, <1>10, <1>11, <1>12

\* The chunks that mem_init is given.
LEMMA ChunkIs ==
    /\ Len(Chunks) \in Nat
    /\ \A i \in 1 .. Len(Chunks) :
          /\ Chunks[i].start \in Nat /\ Chunks[i].stop \in Nat
          /\ Chunks[i].stop - Chunks[i].start >= Hdr + Ptr
          /\ i > 1 => Chunks[i].stop < Chunks[i - 1].start
<1>1. Chunks \in Seq([start : Nat, stop : Nat]) BY PoolConstants
<1>2. Len(Chunks) \in Nat /\ DOMAIN Chunks = 1 .. Len(Chunks) BY <1>1, LenProperties
<1>3. \A i \in 1 .. Len(Chunks) : Chunks[i] \in [start : Nat, stop : Nat] BY <1>1, ElementOfSeq
<1>4. \A i \in 1 .. Len(Chunks) : Chunks[i].start \in Nat /\ Chunks[i].stop \in Nat BY <1>3
<1>5. QED BY <1>2, <1>4, PoolConstants

\* A hole found by mem_alloc_dirty is on the list, and large enough.
LEMMA FoundHole ==
    ASSUME HeadersHold, HolesHold, NEW r \in Nat, Fitting(r) # {}
    PROVE  LET i == Min(Fitting(r))
           IN  i \in DOMAIN free_list /\ free_list[i] \in Holes /\ hsize[free_list[i]] >= r
<1> DEFINE F == Fitting(r)
<1>1. free_list \in Seq(Nat) /\ \A i \in DOMAIN free_list : free_list[i] \in Holes
  BY DEF HolesHold, Lists
<1>2. DOMAIN free_list \subseteq Nat BY <1>1, LenProperties
<1>3. F \subseteq Nat /\ F # {} BY <1>2 DEF Fitting
<1> HIDE DEF F
<1>4. Min(F) \in F BY <1>3, LeastOf
<1> USE DEF F
<1>5. QED BY <1>1, <1>4 DEF Fitting

\* The holes I of a memory of headers hs are what the free list and the magics say.
LEMMA MemoryHolds ==
    ASSUME HeadersFit(hsize'), BytesOf(hsize', DOMAIN hsize') = Memory',
           chunks' \in 0 .. Len(Chunks),
           \A h \in DOMAIN hsize' : chunks' > 0 => h >= Chunks[chunks'].start,
           NEW I, I \subseteq DOMAIN hsize', Marked(magic', I), DOMAIN magic' = DOMAIN hsize',
           Lists(free_list', I), Apart(hsize', I),
           IsFiniteSet(BytesOf(hsize', I)), free_size' = Cardinality(BytesOf(hsize', I))
    PROVE  /\ HeadersHold' /\ HolesHold' /\ Holes' = I
           /\ Blocks' = DOMAIN hsize' \ I
<1>1. Headers' = DOMAIN hsize' BY DEF Headers
<1>2. Holes' = I
  <2>1. Holes' = {h \in DOMAIN hsize' : magic'[h] = "hole"} BY DEF Holes, Headers
  <2>2. \A a \in DOMAIN hsize' : magic'[a] = "hole" <=> a \in I BY DEF Marked
  <2>3. QED BY <2>1, <2>2
<1>3. HeadersHold'
  <2>1. BytesOf(hsize, Headers)' = BytesOf(hsize', DOMAIN hsize') BY DEF BytesOf, Bytes, Headers
  <2>2. HeadersFit(hsize)' BY DEF HeadersFit
  <2>3. Marked(magic, Holes)' BY <1>2 DEF Marked
  <2>4. chunks' > 0 => \A h \in Headers' : h >= Chunks[chunks'].start BY <1>1
  <2>5. QED BY <2>1, <2>2, <2>3, <2>4, <1>1 DEF HeadersHold
<1>4. HolesHold'
  <2>1. BytesOf(hsize, Holes)' = BytesOf(hsize', I) BY <1>2 DEF BytesOf, Bytes
  <2>2. Lists(free_list, Holes)' BY <1>2 DEF Lists
  <2>3. Apart(hsize, Holes)' BY <1>2 DEF Apart
  <2>4. IsFiniteSet(BytesOf(hsize, Holes)') /\ free_size' = Cardinality(BytesOf(hsize, Holes)')
    BY <2>1
  <2>5. QED BY <2>2, <2>3, <2>4 DEF HolesHold, IsFiniteSet
<1>5. Blocks' = DOMAIN hsize' \ I BY <1>1, <1>2, <1>3, BlocksAreRestNext
<1>6. QED BY <1>2, <1>3, <1>4, <1>5

LEMMA MarkedBlock ==
    ASSUME NEW m, NEW H, Marked(m, H), NEW h \in DOMAIN m
    PROVE  /\ Marked(Given(m, h, "block"), H \ {h})
           /\ DOMAIN Given(m, h, "block") = DOMAIN m
<1> DEFINE g == Given(m, h, "block")
<1>1. g = [a \in DOMAIN m \cup {h} |-> IF a = h THEN "block" ELSE m[a]] BY DEF Given
<1> HIDE DEF g
<1>2. /\ m \in [DOMAIN m -> {"hole", "block"}]
      /\ \A a \in DOMAIN m : m[a] = "hole" <=> a \in H
  BY DEF Marked
<1>3. DOMAIN g = DOMAIN m BY <1>1
<1>4. \A a \in DOMAIN g : g[a] \in {"hole", "block"} BY <1>1, <1>2
<1>5. \A a \in DOMAIN g : g[a] = "hole" <=> a \in H \ {h} BY <1>1, <1>2
<1>6. g \in [DOMAIN g -> {"hole", "block"}] BY <1>1, <1>3, <1>4
<1>7. QED BY <1>3, <1>5, <1>6 DEF Marked, g

\* A block taken from the front of a hole, or all of it.
Taken(h, r) ==
    /\ h \in Holes
    /\ Blocks' = Blocks \cup {h}
    /\ hsize'[h] >= r
    /\ Bytes(hsize', h) \subseteq Bytes(hsize, h)
    /\ \A b \in Blocks : hsize'[b] = hsize[b]

LEMMA TakeWhole ==
    ASSUME HeadersHold, HolesHold, NEW r \in Nat, NEW i \in DOMAIN free_list,
           NEW h, h = free_list[i], h \in Holes, hsize[h] >= r,
           magic' = Given(magic, h, "block"), free_list' = RemoveAt(free_list, i),
           free_size' = free_size - hsize[h], hsize' = hsize, chunks' = chunks
    PROVE  HeadersHold' /\ HolesHold' /\ Taken(h, r)
<1> DEFINE H == Holes
           I == H \ {h}
<1>1. /\ HeadersFit(hsize) /\ BytesOf(hsize, Headers) = Memory /\ chunks \in 0 .. Len(Chunks)
      /\ chunks > 0 => \A g \in Headers : g >= Chunks[chunks].start
      /\ Marked(magic, H) /\ DOMAIN magic = Headers
  BY DEF HeadersHold
<1>2. /\ Lists(free_list, H) /\ Apart(hsize, H)
      /\ IsFiniteSet(BytesOf(hsize, H)) /\ free_size = Cardinality(BytesOf(hsize, H))
  BY DEF HolesHold
<1>3. /\ Blocks = Headers \ Holes /\ Holes \subseteq Headers /\ h \in Headers BY BlocksAreRest
<1>4. Lists(free_list', I) BY <1>2, RemovedIsListed
<1>5. Apart(hsize', I) BY <1>2 DEF Apart
<1>6. Marked(magic', I) /\ DOMAIN magic' = Headers BY <1>1, <1>3, MarkedBlock
<1> DEFINE S == BytesOf(hsize, I)
           T == Bytes(hsize, h)
<1>7. BytesOf(hsize, H) = S \cup T BY DEF BytesOf
<1>8. S \cap T = {}
  <2>1. \A g \in I : Bytes(hsize, g) \cap T = {} BY <1>1, <1>3, BytesDiffer DEF Headers
  <2>2. QED BY <2>1 DEF BytesOf
<1>9. IsFiniteSet(T) /\ Cardinality(T) = hsize[h] /\ hsize[h] \in Nat
  BY <1>1, <1>3, MoreBytes DEF Headers
<1>10. IsFiniteSet(S) BY <1>2, <1>7, FS_Subset
<1>11. free_size' = Cardinality(S)
  <2> HIDE DEF S, T
  <2>1. Cardinality(S \cup T) = Cardinality(S) + Cardinality(T) /\ Cardinality(S) \in Nat
    BY <1>8, <1>9, <1>10, CountMore
  <2>2. QED BY <2>1, <1>2, <1>7, <1>9
<1>12. Memory' = Memory BY DEF Memory
<1> HIDE DEF I
<1>13. /\ HeadersHold' /\ HolesHold' /\ Holes' = I /\ Blocks' = DOMAIN hsize' \ I
  <2>1. HeadersFit(hsize') /\ BytesOf(hsize', DOMAIN hsize') = Memory' /\ chunks' \in 0 .. Len(Chunks)
    BY <1>1, <1>12 DEF Headers
  <2>2. \A g \in DOMAIN hsize' : chunks' > 0 => g >= Chunks[chunks'].start
    BY <1>1 DEF Headers
  <2>3. I \subseteq DOMAIN hsize' /\ DOMAIN magic' = DOMAIN hsize' BY <1>3, <1>6 DEF Headers, I
  <2>4. IsFiniteSet(BytesOf(hsize', I)) /\ free_size' = Cardinality(BytesOf(hsize', I))
    BY <1>10, <1>11
  <2>5. QED BY <2>1, <2>2, <2>3, <2>4, <1>4, <1>5, <1>6, MemoryHolds
<1>14. Blocks' = Blocks \cup {h} BY <1>3, <1>13 DEF I, Headers
<1>15. QED BY <1>13, <1>14 DEF Taken

LEMMA TakeFront ==
    ASSUME HeadersHold, HolesHold, NEW r \in Nat, r >= Hdr + Ptr, NEW i \in DOMAIN free_list,
           NEW h, h = free_list[i], h \in Holes, Splits(hsize[h], r),
           NEW new, new = h + r,
           hsize' = Given(Given(hsize, h, r), new, hsize[h] - r),
           magic' = Given(Given(magic, h, "block"), new, "hole"),
           free_list' = [free_list EXCEPT ![i] = new],
           free_size' = free_size - r, chunks' = chunks
    PROVE  HeadersHold' /\ HolesHold' /\ Taken(h, r)
<1> DEFINE H == Holes
           J == H \ {h}
           I == J \cup {new}
<1>1. /\ HeadersFit(hsize) /\ BytesOf(hsize, Headers) = Memory /\ chunks \in 0 .. Len(Chunks)
      /\ chunks > 0 => \A g \in Headers : g >= Chunks[chunks].start
      /\ Marked(magic, H) /\ DOMAIN magic = Headers
  BY DEF HeadersHold
<1>2. /\ Lists(free_list, H) /\ Apart(hsize, H)
      /\ IsFiniteSet(BytesOf(hsize, H)) /\ free_size = Cardinality(BytesOf(hsize, H))
  BY DEF HolesHold
<1>3. /\ Blocks = Headers \ Holes /\ Holes \subseteq Headers /\ h \in Headers BY BlocksAreRest
<1>4. Ptr \in Nat \ {0} /\ Hdr \in Nat \ {0} BY PoolConstants
<1>5. h \in Nat /\ hsize[h] \in Nat /\ hsize[h] - r >= Hdr + Ptr /\ r > 0
  <2>1. h \in Nat /\ hsize[h] \in Nat BY <1>1, <1>3 DEF HeadersFit, Headers
  <2>2. hsize[h] >= r + Hdr + 2 * Ptr BY DEF Splits
  <2>3. QED BY <2>1, <2>2, <1>4
<1>6. /\ HeadersFit(hsize')
      /\ new \notin DOMAIN hsize /\ new \in Nat
      /\ DOMAIN hsize' = DOMAIN hsize \cup {new}
      /\ hsize'[h] = r /\ hsize'[new] = hsize[h] - r
      /\ \A g \in DOMAIN hsize \ {h} : hsize'[g] = hsize[g]
      /\ Bytes(hsize, h) = Bytes(hsize', h) \cup Bytes(hsize', new)
      /\ Bytes(hsize', h) \cap Bytes(hsize', new) = {}
  <2>1. MayCut(hsize, h, r) BY <1>1, <1>3, <1>5 DEF MayCut, Headers
  <2>2. CutInto(hsize, h, r, hsize') BY <2>1, CutFits
  <2>3. QED BY <2>2 DEF CutInto
<1>7. \A g \in J : Bytes(hsize', g) = Bytes(hsize, g)
  <2>1. \A g \in J : hsize'[g] = hsize[g] BY <1>3, <1>6 DEF Headers
  <2>2. QED BY <2>1 DEF Bytes
<1>8. \A g \in Headers \ {h} : Bytes(hsize', g) = Bytes(hsize, g) BY <1>6 DEF Bytes, Headers
<1>9. BytesOf(hsize', DOMAIN hsize') = BytesOf(hsize, Headers)
  <2>1. BytesOf(hsize', DOMAIN hsize') =
            BytesOf(hsize', Headers \ {h}) \cup (Bytes(hsize', h) \cup Bytes(hsize', new))
    BY <1>3, <1>6 DEF BytesOf, Headers
  <2>2. BytesOf(hsize, Headers) = BytesOf(hsize, Headers \ {h}) \cup Bytes(hsize, h)
    BY <1>3 DEF BytesOf
  <2>3. BytesOf(hsize', Headers \ {h}) = BytesOf(hsize, Headers \ {h}) BY <1>8 DEF BytesOf
  <2>4. Bytes(hsize, h) = Bytes(hsize', h) \cup Bytes(hsize', new) BY <1>6
  <2>5. QED BY <2>1, <2>2, <2>3, <2>4
\* The other holes are below h or above its end.
<1>10. ASSUME NEW g \in J
       PROVE  /\ g \in Nat /\ hsize'[g] = hsize[g] /\ hsize[g] \in Nat
              /\ (g < h => g + hsize[g] < h) /\ (g > h => h + hsize[h] < g) /\ g # h
  <2>1. g \in DOMAIN hsize /\ g # h /\ g \in H BY <1>3 DEF Headers
  <2>2. g \in Nat /\ hsize[g] \in Nat BY <2>1, <1>1 DEF HeadersFit
  <2>3. (g < h => g + hsize[g] <= h) /\ (h < g => h + hsize[h] <= g)
    BY <2>1, <1>1, <1>3 DEF HeadersFit, Headers
  <2>4. g + hsize[g] # h /\ h + hsize[h] # g BY <2>1, <1>2 DEF Apart
  <2>5. QED BY <2>1, <2>2, <2>3, <2>4, <1>5, <1>6
<1>11. Apart(hsize', I)
  <2> SUFFICES ASSUME NEW a \in I, NEW b \in I, a + hsize'[a] = b PROVE FALSE BY DEF Apart
  <2>1. new + hsize'[new] = h + hsize[h] /\ h < new /\ new < h + hsize[h] BY <1>4, <1>5, <1>6
  <2>2. CASE a = new /\ b = new BY <2>1, <2>2, <1>5, <1>6
  <2>3. CASE a = new /\ b \in J BY <2>1, <2>3, <1>5, <1>10
  <2>4. CASE a \in J /\ b = new
    <3>1. /\ a \in Nat /\ hsize'[a] = hsize[a] /\ hsize[a] \in Nat /\ a # h
          /\ (a < h => a + hsize[a] < h) /\ (a > h => h + hsize[h] < a)
      BY <2>4, <1>10
    <3>2. QED BY <3>1, <2>1, <2>4, <1>5, <1>6
  <2>5. CASE a \in J /\ b \in J
    <3>1. a + hsize[a] = b /\ a \in H /\ b \in H BY <2>5, <1>10
    <3>2. QED BY <3>1, <1>2 DEF Apart
  <2>6. QED BY <2>2, <2>3, <2>4, <2>5
<1>12. Lists(free_list', I)
  <2>1. /\ DOMAIN free_list \subseteq Nat /\ \A j \in DOMAIN free_list : free_list[j] \in H
        /\ \A j, k \in DOMAIN free_list : j < k => free_list[j] < free_list[k]
    BY <1>2, LenProperties DEF Lists
  <2>2. ASSUME NEW j \in DOMAIN free_list
        PROVE  (j < i => free_list[j] < new) /\ (j > i => new < free_list[j])
    <3>1. ASSUME j < i PROVE free_list[j] < new
      <4>1. free_list[j] < h /\ free_list[j] \in H BY <3>1, <2>1
      <4>2. free_list[j] \in J BY <4>1, <1>5
      <4>3. free_list[j] \in Nat BY <4>2, <1>10
      <4>4. QED BY <4>1, <4>3, <1>5
    <3>2. ASSUME j > i PROVE new < free_list[j]
      <4>1. h < free_list[j] /\ free_list[j] \in H BY <3>2, <2>1
      <4>2. free_list[j] \in J BY <4>1, <1>5
      <4>3. free_list[j] \in Nat /\ h + hsize[h] < free_list[j] BY <4>1, <4>2, <1>10
      <4>4. QED BY <4>3, <1>4, <1>5
    <3>3. QED BY <3>1, <3>2
  <2>3. Lists([free_list EXCEPT ![i] = new], (H \ {free_list[i]}) \cup {new})
    BY <2>2, <1>2, <1>6, ReplacedIsListed
  <2>4. QED BY <2>3
<1>13. Marked(magic', I) /\ DOMAIN magic' = DOMAIN hsize'
  <2> DEFINE m == Given(magic, h, "block")
  <2>1. Marked(m, H \ {h}) /\ DOMAIN m = Headers BY <1>1, <1>3, MarkedBlock
  <2> HIDE DEF m
  <2>2. Marked(Given(m, new, "hole"), (H \ {h}) \cup {new})
        /\ DOMAIN Given(m, new, "hole") = DOMAIN m \cup {new}
    BY <2>1, MarkedMore
  <2>3. magic' = Given(m, new, "hole") BY DEF m
  <2>4. QED BY <2>1, <2>2, <2>3, <1>6 DEF Headers
<1> DEFINE S == BytesOf(hsize', I)
           T == Bytes(hsize', h)
<1>14. BytesOf(hsize, H) = S \cup T
  <2>1. S = BytesOf(hsize', J) \cup Bytes(hsize', new) BY DEF BytesOf
  <2>2. BytesOf(hsize, H) = BytesOf(hsize, J) \cup Bytes(hsize, h) BY DEF BytesOf
  <2>3. BytesOf(hsize', J) = BytesOf(hsize, J) BY <1>7 DEF BytesOf
  <2>4. QED BY <2>1, <2>2, <2>3, <1>6
<1>15. h \in DOMAIN hsize' /\ h # new /\ I \subseteq DOMAIN hsize' BY <1>3, <1>6 DEF Headers
<1>16. S \cap T = {}
  <2>1. \A g \in I : g \in DOMAIN hsize' /\ g # h BY <1>15
  <2>2. \A g \in I : Bytes(hsize', g) \cap T = {} BY <2>1, <1>6, <1>15, BytesDiffer
  <2>3. QED BY <2>2 DEF BytesOf
<1>17. IsFiniteSet(T) /\ Cardinality(T) = r BY <1>6, <1>15, MoreBytes
<1>18. IsFiniteSet(S) BY <1>2, <1>14, FS_Subset
<1>19. free_size' = Cardinality(S)
  <2> HIDE DEF S, T
  <2>1. Cardinality(S \cup T) = Cardinality(S) + Cardinality(T) /\ Cardinality(S) \in Nat
    BY <1>16, <1>17, <1>18, CountMore
  <2>2. QED BY <2>1, <1>2, <1>14, <1>17
<1>20. Memory' = Memory BY DEF Memory
<1> HIDE DEF I, J
<1>21. /\ HeadersHold' /\ HolesHold' /\ Holes' = I /\ Blocks' = DOMAIN hsize' \ I
  <2>1. BytesOf(hsize', DOMAIN hsize') = Memory' /\ chunks' \in 0 .. Len(Chunks)
    BY <1>1, <1>9, <1>20
  <2>2. \A g \in DOMAIN hsize' : chunks' > 0 => g >= Chunks[chunks'].start
    <3> SUFFICES ASSUME NEW g \in DOMAIN hsize', chunks > 0 PROVE g >= Chunks[chunks].start
      OBVIOUS
    <3>1. CASE g \in DOMAIN hsize BY <3>1, <1>1 DEF Headers
    <3>2. CASE g = new
      <4>1. chunks \in 1 .. Len(Chunks) BY <1>1, ChunkIs
      <4>2. Chunks[chunks].start \in Nat BY <4>1, ChunkIs
      <4>3. h >= Chunks[chunks].start BY <1>1, <1>3
      <4>4. QED BY <3>2, <4>2, <4>3, <1>5
    <3>3. QED BY <3>1, <3>2, <1>6
  <2>3. QED BY <2>1, <2>2, <1>6, <1>11, <1>12, <1>13, <1>15, <1>18, <1>19, MemoryHolds
<1>22. Blocks' = Blocks \cup {h} BY <1>3, <1>6, <1>21 DEF I, J, Headers
<1>23. \A b \in Blocks : hsize'[b] = hsize[b] BY <1>3, <1>6 DEF Headers
<1>24. hsize'[h] >= r /\ Bytes(hsize', h) \subseteq Bytes(hsize, h) BY <1>5, <1>6
<1>25. QED BY <1>21, <1>22, <1>23, <1>24 DEF Taken

-----------------------------------------------------------------------------
(***************************************************************************)
(* What the operations do to the memory.                                   *)
(***************************************************************************)
\* A header below all the others.
AddedTo(hs, a, size, as) ==
    /\ HeadersFit(as)
    /\ a \notin DOMAIN hs /\ DOMAIN as = DOMAIN hs \cup {a}
    /\ as[a] = size /\ \A h \in DOMAIN hs : as[h] = hs[h]

LEMMA AddFits ==
    ASSUME NEW hs, HeadersFit(hs), NEW a \in Nat, NEW size \in Nat, size >= Hdr + Ptr,
           \A h \in DOMAIN hs : a + size < h
    PROVE  AddedTo(hs, a, size, Given(hs, a, size))
<1> DEFINE as == Given(hs, a, size)
<1>1. as = [h \in DOMAIN hs \cup {a} |-> IF h = a THEN size ELSE hs[h]] BY DEF Given
<1> HIDE DEF as
<1>2. \A h \in DOMAIN hs : h \in Nat /\ hs[h] \in Nat /\ hs[h] >= Hdr + Ptr /\ a < h
  BY DEF HeadersFit
<1>3. a \notin DOMAIN hs
  <2>1. ASSUME a \in DOMAIN hs PROVE FALSE
    <3>1. a < a BY <2>1, <1>2
    <3>2. QED BY <3>1
  <2>2. QED BY <2>1
<1>4. DOMAIN as = DOMAIN hs \cup {a} /\ as[a] = size /\ \A h \in DOMAIN hs : as[h] = hs[h]
  BY <1>1, <1>3
<1>5. \A h \in DOMAIN as : h \in Nat /\ as[h] \in Nat /\ as[h] >= Hdr + Ptr BY <1>2, <1>4
<1>6. as \in [DOMAIN as -> Nat]
  <2>1. as = [h \in DOMAIN as |-> as[h]] BY <1>1
  <2>2. QED BY <2>1, <1>5
<1>7. ASSUME NEW g \in DOMAIN as, NEW h \in DOMAIN as, g < h PROVE g + as[g] <= h
  <2>1. CASE g = a /\ h \in DOMAIN hs BY <2>1, <1>2, <1>4
  <2>2. CASE g \in DOMAIN hs /\ h \in DOMAIN hs BY <2>2, <1>4, <1>7 DEF HeadersFit
  <2>3. CASE h = a
    <3>1. ~(g < a)
      <4>1. CASE g = a BY <4>1
      <4>2. CASE g \in DOMAIN hs BY <4>2, <1>2
      <4>3. QED BY <4>1, <4>2, <1>4
    <3>2. QED BY <3>1, <2>3, <1>7
  <2>4. QED BY <2>1, <2>2, <2>3, <1>4
<1>8. HeadersFit(as) BY <1>5, <1>6, <1>7 DEF HeadersFit
<1>9. QED BY <1>3, <1>4, <1>8 DEF AddedTo, as

\* mem_init adds a hole below the others.
LEMMA MemInitKeeps ==
    ASSUME PoolIInv, MemInit
    PROVE  /\ HeadersHold' /\ HolesHold' /\ Blocks' = Blocks
           /\ \A b \in Blocks : hsize'[b] = hsize[b]
<1> DEFINE c == Chunks[chunks + 1]
           a == c.start
           size == c.stop - c.start
           H == Holes
           I == H \cup {a}
<1>1. /\ HeadersFit(hsize) /\ BytesOf(hsize, Headers) = Memory /\ chunks \in 0 .. Len(Chunks)
      /\ chunks > 0 => \A g \in Headers : g >= Chunks[chunks].start
      /\ Marked(magic, H) /\ DOMAIN magic = Headers
  BY DEF PoolIInv, HeadersHold
<1>2. /\ Lists(free_list, H) /\ Apart(hsize, H)
      /\ IsFiniteSet(BytesOf(hsize, H)) /\ free_size = Cardinality(BytesOf(hsize, H))
  BY DEF PoolIInv, HolesHold
<1>3. /\ Blocks = Headers \ Holes /\ Holes \subseteq Headers BY BlocksAreRest DEF PoolIInv
<1>4. /\ chunks + 1 \in 1 .. Len(Chunks) /\ Len(Chunks) \in Nat
      /\ hsize' = Given(hsize, a, size)
      /\ magic' = Given(magic, a, "hole")
      /\ free_list' = <<a>> \o free_list
      /\ free_size' = free_size + size
      /\ chunks' = chunks + 1
  BY <1>1, ChunkIs DEF MemInit
<1>5. a \in Nat /\ c.stop \in Nat /\ size \in Nat /\ size >= Hdr + Ptr /\ a + size = c.stop /\ size > 0
  <2>1. c.start \in Nat /\ c.stop \in Nat /\ c.stop - c.start >= Hdr + Ptr BY <1>4, ChunkIs
  <2> HIDE DEF c
  <2>2. QED BY <2>1, PoolConstants
<1>6. ASSUME NEW h \in Headers PROVE a + size < h
  <2>1. h \in Nat /\ hsize[h] \in Nat /\ hsize[h] > 0
    BY <1>1, PoolConstants DEF HeadersFit, Headers
  <2>2. chunks > 0
    <3>1. h \in Bytes(hsize, h) BY <2>1 DEF Bytes
    <3>2. h \in Memory BY <3>1, <1>1 DEF BytesOf
    <3>3. PICK i \in 1 .. chunks : h \in Chunks[i].start .. Chunks[i].stop - 1 BY <3>2 DEF Memory
    <3>4. QED BY <3>3, <1>1
  <2>3. h >= Chunks[chunks].start BY <2>2, <1>1
  <2>4. c.stop < Chunks[chunks].start
    <3>1. (chunks + 1) - 1 = chunks /\ chunks + 1 > 1 BY <2>2, <1>1
    <3>2. chunks + 1 > 1 => Chunks[chunks + 1].stop < Chunks[(chunks + 1) - 1].start
      BY <1>4, ChunkIs
    <3>3. QED BY <3>1, <3>2
  <2>5. Chunks[chunks].start \in Nat
    <3>1. chunks \in 1 .. Len(Chunks) BY <2>2, <1>1
    <3>2. QED BY <3>1, ChunkIs
  <2>6. QED BY <2>1, <2>3, <2>4, <2>5, <1>5
<1> HIDE DEF c, a, size
<1>7. /\ HeadersFit(hsize')
      /\ a \notin Headers /\ DOMAIN hsize' = Headers \cup {a}
      /\ hsize'[a] = size /\ \A h \in Headers : hsize'[h] = hsize[h]
  <2>1. AddedTo(hsize, a, size, hsize') BY <1>1, <1>4, <1>5, <1>6, AddFits DEF Headers
  <2>2. QED BY <2>1 DEF AddedTo, Headers
<1>8. \A g \in Headers : Bytes(hsize', g) = Bytes(hsize, g) BY <1>7 DEF Bytes
<1>9. Bytes(hsize', a) = a .. c.stop - 1 BY <1>5, <1>7 DEF Bytes
<1>10. BytesOf(hsize', DOMAIN hsize') = Memory'
  <2>1. BytesOf(hsize', DOMAIN hsize') = BytesOf(hsize, Headers) \cup Bytes(hsize', a)
    BY <1>7, <1>8 DEF BytesOf
  <2>2. Memory' = Memory \cup (a .. c.stop - 1)
    <3> DEFINE R(i) == Chunks[i].start .. Chunks[i].stop - 1
    <3>1. Memory = UNION {R(i) : i \in 1 .. chunks} BY DEF Memory
    <3>2. Memory' = UNION {R(i) : i \in 1 .. chunks + 1} BY <1>4 DEF Memory
    <3>3. R(chunks + 1) = a .. c.stop - 1 BY DEF a, c
    <3> HIDE DEF R
    <3>4. 1 .. chunks + 1 = (1 .. chunks) \cup {chunks + 1} BY <1>1
    <3>5. QED BY <3>1, <3>2, <3>3, <3>4
  <2>3. QED BY <2>1, <2>2, <1>1, <1>9
<1>11. Apart(hsize', I)
  <2> SUFFICES ASSUME NEW x \in I, NEW y \in I, x + hsize'[x] = y PROVE FALSE BY DEF Apart
  <2>1. \A h \in H : h \in Nat /\ hsize'[h] = hsize[h] /\ hsize[h] \in Nat /\ a + size < h
    BY <1>1, <1>3, <1>6, <1>7 DEF HeadersFit, Headers
  <2>2. CASE x = a /\ y = a BY <2>2, <1>5, <1>7
  <2>3. CASE x = a /\ y \in H BY <2>1, <2>3, <1>5, <1>7
  <2>4. CASE x \in H /\ y = a BY <2>1, <2>4, <1>5
  <2>5. CASE x \in H /\ y \in H BY <2>1, <2>5, <1>2 DEF Apart
  <2>6. QED BY <2>2, <2>3, <2>4, <2>5
<1>12. Lists(free_list', I)
  <2>1. \A h \in H : a < h BY <1>3, <1>5, <1>6, <1>1 DEF HeadersFit, Headers
  <2>2. QED BY <2>1, <1>2, <1>4, <1>5, PrependedIsListed
<1>13. Marked(magic', I) /\ DOMAIN magic' = DOMAIN hsize' BY <1>1, <1>4, <1>7, MarkedMore
<1> DEFINE S == BytesOf(hsize, H)
           T == Bytes(hsize', a)
<1>14. BytesOf(hsize', I) = S \cup T
  <2>1. \A g \in H : Bytes(hsize', g) = Bytes(hsize, g) BY <1>3, <1>8
  <2>2. QED BY <2>1 DEF BytesOf
<1>15. S \cap T = {}
  <2>1. \A g \in H : Bytes(hsize', g) \cap T = {} BY <1>3, <1>7, BytesDiffer
  <2>2. \A g \in H : Bytes(hsize, g) \cap T = {} BY <2>1, <1>3, <1>8
  <2>3. QED BY <2>2 DEF BytesOf
<1>16. IsFiniteSet(T) /\ Cardinality(T) = size BY <1>7, MoreBytes
<1>17. IsFiniteSet(S \cup T) /\ free_size' = Cardinality(S \cup T)
  <2> HIDE DEF S, T
  <2>1. IsFiniteSet(S) /\ free_size = Cardinality(S) BY <1>2 DEF S
  <2>2. /\ IsFiniteSet(S \cup T)
        /\ Cardinality(S \cup T) = Cardinality(S) + Cardinality(T)
    BY <2>1, <1>15, <1>16, CountMore
  <2>3. QED BY <2>1, <2>2, <1>4, <1>16
<1> HIDE DEF I
<1>18. /\ HeadersHold' /\ HolesHold' /\ Holes' = I /\ Blocks' = DOMAIN hsize' \ I
  <2>1. chunks' \in 0 .. Len(Chunks) BY <1>1, <1>4
  <2>2. ASSUME NEW g \in DOMAIN hsize' PROVE g >= Chunks[chunks'].start
    <3>1. Chunks[chunks'].start = a BY <1>4 DEF a, c
    <3>2. CASE g = a BY <3>1, <3>2, <1>5
    <3>3. CASE g \in Headers
      <4>1. a + size < g /\ g \in Nat BY <3>3, <1>1, <1>6 DEF HeadersFit, Headers
      <4>2. QED BY <4>1, <3>1, <1>5
    <3>4. QED BY <3>2, <3>3, <1>7
  <2>3. I \subseteq DOMAIN hsize' BY <1>3, <1>7 DEF I
  <2>4. IsFiniteSet(BytesOf(hsize', I)) /\ free_size' = Cardinality(BytesOf(hsize', I))
    BY <1>14, <1>17
  <2>5. QED BY <2>1, <2>2, <2>3, <2>4, <1>7, <1>10, <1>11, <1>12, <1>13, MemoryHolds
<1>19. Blocks' = Blocks BY <1>3, <1>7, <1>18 DEF I
<1>20. QED BY <1>3, <1>7, <1>18, <1>19

\* mem_alloc_dirty takes a block of the size that is needed.
LEMMA TakeKeeps ==
    ASSUME PoolIInv, NEW t \in Users, NEW n, NEW r \in Nat, r = Required(n),
           r >= Hdr + Ptr, Fitting(r) # {}, Take(t, n), chunks' = chunks
    PROVE  LET h == free_list[Min(Fitting(r))]
           IN  HeadersHold' /\ HolesHold' /\ Taken(h, r) /\ owner' = Given(owner, h, t)
<1> DEFINE i == Min(Fitting(r))
           h == free_list[i]
           new == h + r
<1>1. i \in DOMAIN free_list /\ h \in Holes /\ hsize[h] >= r BY FoundHole DEF PoolIInv
<1>2. /\ Splits(hsize[h], r) =>
            /\ hsize' = Given(Given(hsize, h, r), new, hsize[h] - r)
            /\ magic' = Given(Given(magic, h, "block"), new, "hole")
            /\ free_list' = [free_list EXCEPT ![i] = new]
            /\ free_size' = free_size - r
      /\ ~Splits(hsize[h], r) =>
            /\ magic' = Given(magic, h, "block")
            /\ free_list' = RemoveAt(free_list, i)
            /\ free_size' = free_size - hsize[h]
            /\ hsize' = hsize
      /\ owner' = Given(owner, h, t)
  BY DEF Take
<1> HIDE DEF i
<1>3. CASE Splits(hsize[h], r)
  <2>1. HeadersHold' /\ HolesHold' /\ Taken(h, r)
    BY <1>1, <1>2, <1>3, TakeFront DEF PoolIInv
  <2>2. QED BY <2>1, <1>2 DEF i
<1>4. CASE ~Splits(hsize[h], r)
  <2>1. HeadersHold' /\ HolesHold' /\ Taken(h, r)
    BY <1>1, <1>2, <1>4, TakeWhole DEF PoolIInv
  <2>2. QED BY <2>1, <1>2 DEF i
<1>5. QED BY <1>3, <1>4

LEMMA TakeAnswers ==
    ASSUME NEW t, NEW n, Take(t, n)
    PROVE  answer' = Granted(n, free_list[Min(Fitting(Required(n)))])
BY DEF Take

\* mem_free gives a block back.
LEMMA FreeKeeps ==
    ASSUME PoolIInv, NEW b \in Blocks, MakeHole(hsize, b), chunks' = chunks
    PROVE  /\ HeadersHold' /\ HolesHold'
           /\ Blocks' = Blocks \ {b}
           /\ \A a \in Blocks' : hsize'[a] = hsize[a]
<1>1. /\ Blocks = Headers \ Holes /\ Holes \subseteq Headers
      /\ HeadersHold /\ HolesHold
  BY BlocksAreRest DEF PoolIInv
<1>2. HoleDue(hsize, Holes, b)
  <2>1. b \in Headers \ Holes /\ DOMAIN magic \cup {b} = Headers BY <1>1 DEF HeadersHold
  <2>2. QED BY <2>1, <1>1 DEF HoleDue, HeadersHold, HolesHold, Headers
<1>3. /\ HeadersHold' /\ HolesHold'
      /\ Blocks' = DOMAIN hsize \ (Holes \cup {b})
      /\ \A a \in Blocks' : hsize'[a] = hsize[a]
  <2>1. \A h \in DOMAIN hsize : chunks > 0 => h >= Chunks[chunks].start
    BY <1>1 DEF HeadersHold, Headers
  <2>2. BytesOf(hsize, DOMAIN hsize) = Memory BY <1>1 DEF HeadersHold, Headers
  <2>3. QED BY <2>1, <2>2, <1>1, <1>2, MakeHoleKeeps
<1>4. QED BY <1>1, <1>3 DEF Headers

\* mem_truncate gives the end of a block back.
LEMMA TruncateKeeps ==
    ASSUME PoolIInv, NEW b \in Blocks, NEW size \in Nat, size >= Hdr + Ptr,
           Splits(hsize[b], size), MakeHole(Cut(b, size), b + size), chunks' = chunks
    PROVE  /\ HeadersHold' /\ HolesHold'
           /\ Blocks' = Blocks /\ hsize'[b] = size /\ size < hsize[b]
           /\ \A a \in Blocks \ {b} : hsize'[a] = hsize[a]
<1> DEFINE cs == Cut(b, size)
           new == b + size
<1>1. /\ Blocks = Headers \ Holes /\ Holes \subseteq Headers
      /\ HeadersHold /\ HolesHold
  BY BlocksAreRest DEF PoolIInv
<1>2. HeadersFit(hsize) /\ b \in DOMAIN hsize BY <1>1 DEF HeadersHold, Headers
<1>3. /\ hsize[b] - size >= Hdr + Ptr /\ size < hsize[b]
      /\ b \in Nat /\ b <= b + size
  <2>1. b \in Nat /\ hsize[b] \in Nat /\ Ptr \in Nat \ {0} /\ Hdr \in Nat \ {0}
    BY <1>2, PoolConstants DEF HeadersFit
  <2>2. hsize[b] >= size + Hdr + 2 * Ptr BY DEF Splits
  <2>3. QED BY <2>1, <2>2
<1>4. CutInto(hsize, b, size, cs)
  <2>1. cs = Given(Given(hsize, b, size), b + size, hsize[b] - size) BY DEF Cut
  <2>2. MayCut(hsize, b, size) BY <1>2, <1>3 DEF MayCut
  <2> HIDE DEF cs
  <2>3. QED BY <2>1, <2>2, CutFits
<1>5. /\ MakeHole(cs, new) OBVIOUS
<1> HIDE DEF cs, new
<1>6. /\ HeadersFit(cs)
      /\ new \notin DOMAIN hsize
      /\ DOMAIN cs = DOMAIN hsize \cup {new}
      /\ cs[b] = size
      /\ \A g \in DOMAIN hsize \ {b} : cs[g] = hsize[g]
      /\ Bytes(hsize, b) = Bytes(cs, b) \cup Bytes(cs, new)
  BY <1>4 DEF CutInto, new
<1>7. \A g \in Headers \ {b} : Bytes(cs, g) = Bytes(hsize, g) BY <1>6 DEF Bytes, Headers
<1>8. BytesOf(cs, DOMAIN cs) = Memory
  <2>1. BytesOf(cs, DOMAIN cs) = BytesOf(cs, Headers \ {b}) \cup Bytes(cs, b) \cup Bytes(cs, new)
    BY <1>2, <1>6 DEF BytesOf, Headers
  <2>2. BytesOf(hsize, Headers) = BytesOf(hsize, Headers \ {b}) \cup Bytes(hsize, b)
    BY <1>2 DEF BytesOf, Headers
  <2>3. BytesOf(cs, Headers \ {b}) = BytesOf(hsize, Headers \ {b}) BY <1>7 DEF BytesOf
  <2>4. Bytes(hsize, b) = Bytes(cs, b) \cup Bytes(cs, new) BY <1>6
  <2>5. BytesOf(hsize, Headers) = Memory BY <1>1 DEF HeadersHold
  <2>6. QED BY <2>1, <2>2, <2>3, <2>4, <2>5
<1>9. BytesOf(cs, Holes) = BytesOf(hsize, Holes)
  <2>1. \A g \in Holes : Bytes(cs, g) = Bytes(hsize, g) BY <1>1, <1>7
  <2>2. QED BY <2>1 DEF BytesOf
<1>10. \A h \in DOMAIN cs : chunks > 0 => h >= Chunks[chunks].start
  <2> SUFFICES ASSUME NEW h \in DOMAIN cs, chunks > 0 PROVE h >= Chunks[chunks].start OBVIOUS
  <2>1. \A g \in Headers : g >= Chunks[chunks].start BY <1>1 DEF HeadersHold
  <2>2. Chunks[chunks].start \in Nat
    <3>1. chunks \in 1 .. Len(Chunks) BY <1>1, ChunkIs DEF HeadersHold
    <3>2. QED BY <3>1, ChunkIs
  <2>3. CASE h = new BY <2>1, <2>2, <2>3, <1>2, <1>3 DEF Headers, new
  <2>4. CASE h \in DOMAIN hsize BY <2>1, <2>4 DEF Headers
  <2>5. QED BY <2>3, <2>4, <1>6
<1>11. \A h \in Holes : cs[h] = hsize[h] /\ h \in DOMAIN cs BY <1>1, <1>6 DEF Headers
<1>12. HoleDue(cs, Holes, new)
  <2>1. DOMAIN magic \cup {new} = DOMAIN cs /\ Marked(magic, Holes)
    BY <1>1, <1>6 DEF HeadersHold, Headers
  <2>2. Apart(cs, Holes)
    <3>1. Apart(hsize, Holes) BY <1>1 DEF HolesHold
    <3>2. QED BY <3>1, <1>11 DEF Apart
  <2>3. Lists(free_list, Holes) BY <1>1 DEF HolesHold
  <2>4. Holes \subseteq DOMAIN cs /\ new \in DOMAIN cs \ Holes BY <1>1, <1>6, <1>11 DEF Headers
  <2>5. QED BY <2>1, <2>2, <2>3, <2>4, <1>6, <1>11 DEF HoleDue
<1>13. /\ HeadersHold' /\ HolesHold'
       /\ Blocks' = DOMAIN cs \ (Holes \cup {new})
       /\ \A a \in Blocks' : hsize'[a] = cs[a]
  BY <1>1, <1>5, <1>8, <1>9, <1>10, <1>12, MakeHoleKeeps
<1>14. Blocks' = Blocks BY <1>1, <1>6, <1>13 DEF Headers
<1>15. QED BY <1>1, <1>3, <1>6, <1>13, <1>14 DEF Headers

-----------------------------------------------------------------------------
(***************************************************************************)
(* The calls: each keeps the invariant.                                    *)
(***************************************************************************)
LEMMA PoolInitIInv == PoolInit => PoolIInv
<1> SUFFICES ASSUME PoolInit PROVE PoolIInv OBVIOUS
<1>1. /\ chunks = 0 /\ free_list = <<>> /\ free_size = 0
      /\ hsize = <<>> /\ magic = <<>> /\ owner = <<>>
      /\ doing = [t \in Users |-> Idle] /\ answer.is = "none"
  BY DEF PoolInit, NoAnswer
<1>2. DOMAIN hsize = {} /\ DOMAIN magic = {} /\ DOMAIN owner = {} BY <1>1
<1>3. Headers = {} /\ Blocks = {} /\ Holes = {} BY <1>2 DEF Headers, Blocks, Holes
<1>4. hsize \in [{} -> Nat] /\ magic \in [{} -> {"hole", "block"}] /\ owner \in [{} -> Users]
  BY <1>1
<1>5. HeadersHold
  <2>1. HeadersFit(hsize) BY <1>2, <1>4 DEF HeadersFit
  <2>2. BytesOf(hsize, Headers) = {} /\ Memory = {} BY <1>1, <1>3 DEF BytesOf, Memory
  <2>3. Marked(magic, Holes) BY <1>2, <1>4 DEF Marked
  <2>4. chunks \in 0 .. Len(Chunks) BY <1>1, ChunkIs
  <2>5. QED BY <2>1, <2>2, <2>3, <2>4, <1>1, <1>2, <1>3 DEF HeadersHold
<1>6. HolesHold
  <2>1. BytesOf(hsize, Holes) = {} BY <1>3 DEF BytesOf
  <2>2. IsFiniteSet({}) /\ Cardinality({}) = 0 BY FS_EmptySet
  <2>3. Lists(free_list, Holes) BY <1>1, <1>3 DEF Lists
  <2>4. Apart(hsize, Holes) BY <1>3 DEF Apart
  <2>5. QED BY <2>1, <2>2, <2>3, <2>4, <1>1 DEF HolesHold
<1>7. CallsHold
  <2>1. doing \in [Users -> Doings] BY <1>1 DEF Doings
  <2>2. \A t \in Users : Safe(t) BY <1>1 DEF Safe
  <2>3. QED BY <2>1, <2>2, <1>1, <1>3, <1>4 DEF CallsHold, Answers
<1>8. QED BY <1>5, <1>6, <1>7 DEF PoolIInv

\* A task whose blocks stay as they are stays safe.
LEMMA StaysSafe ==
    ASSUME NEW u \in Users, Safe(u), doing'[u] = doing[u],
           \A b \in Blocks : owner[b] = u => b \in Blocks' /\ owner'[b] = u /\ hsize'[b] = hsize[b]
    PROVE  Safe(u)'
<1> SUFFICES ASSUME doing[u] # Idle
             PROVE  /\ doing[u].old \in Blocks' /\ owner'[doing[u].old] = u
                    /\ doing[u].call = "realloc" =>
                          /\ doing[u].new \in Blocks' /\ owner'[doing[u].new] = u
                          /\ doing[u].new # doing[u].old
                          /\ hsize'[doing[u].old] < hsize'[doing[u].new]
                    /\ doing[u].call = "truncate" =>
                          Splits(hsize'[doing[u].old], Required(doing[u].keep))
  BY DEF Safe, Splits, Required, Aligned
<1>1. /\ doing[u].old \in Blocks /\ owner[doing[u].old] = u
      /\ doing[u].call = "realloc" =>
            /\ doing[u].new \in Blocks /\ owner[doing[u].new] = u
            /\ doing[u].new # doing[u].old
            /\ hsize[doing[u].old] < hsize[doing[u].new]
      /\ doing[u].call = "truncate" =>
            Splits(hsize[doing[u].old], Required(doing[u].keep))
  BY DEF Safe
<1>2. doing[u].old \in Blocks' /\ owner'[doing[u].old] = u /\ hsize'[doing[u].old] = hsize[doing[u].old]
  BY <1>1
<1>3. ASSUME doing[u].call = "realloc"
      PROVE  /\ doing[u].new \in Blocks' /\ owner'[doing[u].new] = u
             /\ doing[u].new # doing[u].old
             /\ hsize'[doing[u].old] < hsize'[doing[u].new]
  <2>1. hsize'[doing[u].new] = hsize[doing[u].new] BY <1>1, <1>3
  <2>2. QED BY <2>1, <1>1, <1>2, <1>3
<1>4. ASSUME doing[u].call = "truncate"
      PROVE  Splits(hsize'[doing[u].old], Required(doing[u].keep))
  BY <1>1, <1>2, <1>4
<1>5. QED BY <1>2, <1>3, <1>4

LEMMA MemInitCall ==
    ASSUME PoolIInv, MemInit
    PROVE  PoolIInv'
<1>1. /\ HeadersHold' /\ HolesHold' /\ Blocks' = Blocks
      /\ \A b \in Blocks : hsize'[b] = hsize[b]
  BY MemInitKeeps
<1>2. owner' = owner /\ doing' = doing /\ answer'.is = "none" BY DEF MemInit, NoAnswer
<1>3. /\ owner \in [Blocks -> Users] /\ doing \in [Users -> Doings] /\ \A t \in Users : Safe(t)
  BY DEF PoolIInv, CallsHold
<1>4. ASSUME NEW u \in Users PROVE Safe(u)' BY <1>1, <1>2, <1>3, StaysSafe
<1>5. CallsHold'
  <2>1. (owner \in [Blocks -> Users])' BY <1>1, <1>2, <1>3
  <2>2. (doing \in [Users -> Doings])' BY <1>2, <1>3
  <2>3. QED BY <2>1, <2>2, <1>2, <1>4 DEF CallsHold, Answers
<1>6. QED BY <1>1, <1>5 DEF PoolIInv

\* Who owns what after block h was given to t, and after it was taken away.
OwnedMore(f, g, B, h, t) ==
    g \in [B \cup {h} -> Users] /\ g[h] = t /\ \A b \in B \ {h} : g[b] = f[b]
OwnedLess(f, g, B, h) ==
    g \in [B \ {h} -> Users] /\ \A b \in B \ {h} : g[b] = f[b]

LEMMA OwnersMore ==
    ASSUME NEW f, NEW B, f \in [B -> Users], NEW h, NEW t \in Users, NEW g, g = Given(f, h, t)
    PROVE  OwnedMore(f, g, B, h, t)
<1>1. g = [a \in DOMAIN f \cup {h} |-> IF a = h THEN t ELSE f[a]] BY DEF Given
<1>2. DOMAIN f = B OBVIOUS
<1>3. QED BY <1>1, <1>2 DEF OwnedMore

LEMMA OwnersLess ==
    ASSUME NEW f, NEW B, f \in [B -> Users], NEW h, NEW g, g = Without(f, {h})
    PROVE  OwnedLess(f, g, B, h)
BY DEF Without, OwnedLess

\* A call that takes a block for t, and is busy with d afterwards.
LEMMA TakeCall ==
    ASSUME PoolIInv, NEW t \in Users, NEW h, NEW r \in Nat, Taken(h, r),
           HeadersHold', HolesHold', owner' = Given(owner, h, t), answer'.is \in Answers,
           doing[t] = Idle, NEW d \in Doings, doing' = [doing EXCEPT ![t] = d], Safe(t)'
    PROVE  PoolIInv'
<1>1. /\ owner \in [Blocks -> Users] /\ doing \in [Users -> Doings] /\ \A u \in Users : Safe(u)
  BY DEF PoolIInv, CallsHold
<1>2. h \notin Blocks /\ Blocks' = Blocks \cup {h} /\ \A b \in Blocks : hsize'[b] = hsize[b]
  BY BlocksAreRest DEF Taken, PoolIInv
<1>3. /\ owner' \in [Blocks' -> Users] /\ owner'[h] = t /\ \A b \in Blocks : owner'[b] = owner[b]
  <2>1. OwnedMore(owner, owner', Blocks, h, t) BY <1>1, OwnersMore
  <2>2. QED BY <2>1, <1>2 DEF OwnedMore
<1>4. ASSUME NEW u \in Users PROVE Safe(u)'
  <2>1. CASE u = t BY <2>1
  <2>2. CASE u # t
    <3>1. doing'[u] = doing[u] BY <2>2, <1>1
    <3>2. QED BY <3>1, <1>1, <1>2, <1>3, StaysSafe
  <2>3. QED BY <2>1, <2>2
<1>5. (doing \in [Users -> Doings])' BY <1>1
<1>6. CallsHold' BY <1>3, <1>4, <1>5 DEF CallsHold
<1>7. QED BY <1>6 DEF PoolIInv

\* A call that gives b, one of t's blocks, back.
LEMMA ReleaseCall ==
    ASSUME PoolIInv, NEW t \in Users, NEW b \in Blocks, owner[b] = t,
           HeadersHold', HolesHold', Blocks' = Blocks \ {b},
           \A a \in Blocks' : hsize'[a] = hsize[a],
           owner' = Without(owner, {b}), answer' = NoAnswer,
           doing' = [doing EXCEPT ![t] = Idle]
    PROVE  PoolIInv'
<1>1. /\ owner \in [Blocks -> Users] /\ doing \in [Users -> Doings] /\ \A u \in Users : Safe(u)
  BY DEF PoolIInv, CallsHold
<1>2. /\ owner' \in [Blocks' -> Users] /\ \A a \in Blocks' : owner'[a] = owner[a]
  <2>1. OwnedLess(owner, owner', Blocks, b) BY <1>1, OwnersLess
  <2>2. QED BY <2>1 DEF OwnedLess
<1>3. ASSUME NEW u \in Users PROVE Safe(u)'
  <2>1. CASE u = t
    <3>1. doing'[u] = Idle BY <2>1, <1>1
    <3>2. QED BY <3>1 DEF Safe
  <2>2. CASE u # t
    <3>1. doing'[u] = doing[u] BY <2>2, <1>1
    <3>2. \A a \in Blocks :
             owner[a] = u => a \in Blocks' /\ owner'[a] = u /\ hsize'[a] = hsize[a]
      BY <2>2, <1>2
    <3>3. QED BY <3>1, <3>2, <1>1, StaysSafe
  <2>3. QED BY <2>1, <2>2
<1>4. (doing \in [Users -> Doings])'
  <2>1. Idle \in Doings BY DEF Doings
  <2>2. QED BY <2>1, <1>1
<1>5. answer'.is \in Answers BY DEF NoAnswer, Answers
<1>6. CallsHold' BY <1>2, <1>3, <1>4, <1>5 DEF CallsHold
<1>7. QED BY <1>6 DEF PoolIInv

\* A call that leaves the memory alone.
LEMMA KeepingCall ==
    ASSUME PoolIInv, NEW t \in Users, NEW d \in Doings, doing' = [doing EXCEPT ![t] = d],
           UNCHANGED <<chunks, free_list, free_size, hsize, magic, owner>>,
           answer'.is \in Answers, Safe(t)'
    PROVE  PoolIInv'
<1>1. /\ owner \in [Blocks -> Users] /\ doing \in [Users -> Doings] /\ \A u \in Users : Safe(u)
  BY DEF PoolIInv, CallsHold
<1>2. Headers' = Headers /\ Blocks' = Blocks /\ Holes' = Holes /\ Memory' = Memory
  BY DEF Headers, Blocks, Holes, Memory
<1>3. HeadersHold'
  <2>1. HeadersHold BY DEF PoolIInv
  <2>2. QED BY <2>1, <1>2 DEF HeadersHold
<1>4. HolesHold'
  <2>1. HolesHold BY DEF PoolIInv
  <2>2. QED BY <2>1, <1>2 DEF HolesHold
<1>5. ASSUME NEW u \in Users PROVE Safe(u)'
  <2>1. CASE u = t BY <2>1
  <2>2. CASE u # t
    <3>1. doing'[u] = doing[u] BY <2>2, <1>1
    <3>2. QED BY <3>1, <1>1, <1>2, StaysSafe
  <2>3. QED BY <2>1, <2>2
<1>6. (doing \in [Users -> Doings])' BY <1>1
<1>7. (owner \in [Blocks -> Users])' BY <1>1, <1>2
<1>8. CallsHold' BY <1>5, <1>6, <1>7 DEF CallsHold
<1>9. QED BY <1>3, <1>4, <1>8 DEF PoolIInv

LEMMA MemAllocCall ==
    ASSUME PoolIInv, NEW t \in Users, NEW n \in Requests, MemAlloc(t, n)
    PROVE  PoolIInv'
<1> DEFINE r == Required(n)
           h == free_list[Min(Fitting(r))]
<1>1. n \in Nat /\ doing[t] = Idle /\ doing' = doing /\ chunks' = chunks
  BY PoolConstants DEF MemAlloc
<1>2. r \in Nat /\ r >= Hdr + Ptr BY <1>1, RequiredIsEnough
<1>3. doing \in [Users -> Doings] BY DEF PoolIInv, CallsHold
<1>4. Idle \in Doings /\ doing' = [doing EXCEPT ![t] = Idle] BY <1>1, <1>3 DEF Doings
<1>5. Safe(t)' BY <1>1 DEF Safe
<1>6. CASE Fitting(r) # {}
  <2>1. Take(t, n) /\ r = Required(n) BY <1>6 DEF MemAlloc
  <2>2. answer'.is \in Answers BY <2>1, TakeAnswers DEF Answers, Granted
  <2> HIDE DEF r
  <2>3. HeadersHold' /\ HolesHold' /\ Taken(h, r) /\ owner' = Given(owner, h, t)
    BY <2>1, <1>1, <1>2, <1>6, TakeKeeps
  <2> HIDE DEF h
  <2>4. QED BY <2>2, <2>3, <1>1, <1>2, <1>4, <1>5, TakeCall
<1>7. CASE ~(Fitting(r) # {})
  <2>1. Refused(n) BY <1>7 DEF MemAlloc
  <2>2. answer'.is \in Answers BY <2>1 DEF Refused, Refusal, Answers
  <2>3. QED BY <2>1, <2>2, <1>1, <1>4, <1>5, KeepingCall DEF Refused
<1>8. QED BY <1>6, <1>7

LEMMA MemFreeCall ==
    ASSUME PoolIInv, NEW t \in Users, NEW b \in Blocks, MemFree(t, b)
    PROVE  PoolIInv'
<1>1. /\ owner[b] = t /\ doing[t] = Idle /\ MakeHole(hsize, b)
      /\ owner' = Without(owner, {b}) /\ answer' = NoAnswer /\ chunks' = chunks /\ doing' = doing
  BY DEF MemFree, Owns
<1>2. doing \in [Users -> Doings] BY DEF PoolIInv, CallsHold
<1>3. doing' = [doing EXCEPT ![t] = Idle] BY <1>1, <1>2
<1>4. /\ HeadersHold' /\ HolesHold' /\ Blocks' = Blocks \ {b}
      /\ \A a \in Blocks' : hsize'[a] = hsize[a]
  BY <1>1, FreeKeeps
<1>5. QED BY <1>1, <1>3, <1>4, ReleaseCall

LEMMA MemReallocCall ==
    ASSUME PoolIInv, NEW t \in Users, NEW b \in Blocks, NEW n \in Requests, MemRealloc(t, b, n)
    PROVE  PoolIInv'
<1> DEFINE r == Required(n)
           h == free_list[Min(Fitting(r))]
<1>1. /\ n \in Nat /\ owner[b] = t /\ doing[t] = Idle /\ hsize[b] - Hdr < n /\ chunks' = chunks
  BY PoolConstants DEF MemRealloc, Owns
<1>2. r \in Nat /\ r >= Hdr + Ptr /\ r >= n + Hdr BY <1>1, RequiredIsEnough
<1>3. doing \in [Users -> Doings] /\ owner \in [Blocks -> Users] BY DEF PoolIInv, CallsHold
<1>4. b \in Headers /\ b \in Nat /\ hsize[b] \in Nat /\ Hdr \in Nat
  BY BlocksAreRest, PoolConstants DEF PoolIInv, HeadersHold, HeadersFit, Headers
<1>5. CASE Fitting(r) # {}
  <2> DEFINE d == [call |-> "realloc", old |-> b, new |-> h]
  <2>1. Take(t, n) /\ r = Required(n) /\ doing' = [doing EXCEPT ![t] = d] BY <1>5 DEF MemRealloc
  <2>2. answer'.is \in Answers BY <2>1, TakeAnswers DEF Answers, Granted
  <2> HIDE DEF r
  <2>3. HeadersHold' /\ HolesHold' /\ Taken(h, r) /\ owner' = Given(owner, h, t)
    BY <2>1, <1>1, <1>2, <1>5, TakeKeeps
  <2> HIDE DEF h
  <2>4. /\ h \in Holes /\ h \notin Blocks /\ Blocks' = Blocks \cup {h} /\ hsize'[h] >= r
        /\ hsize'[b] = hsize[b]
    BY <2>3, BlocksAreRest DEF Taken, PoolIInv
  <2>5. owner'[h] = t /\ owner'[b] = t
    <3>1. b # h BY <2>4
    <3>2. OwnedMore(owner, owner', Blocks, h, t) BY <2>3, <1>3, OwnersMore
    <3>3. QED BY <3>1, <3>2, <1>1 DEF OwnedMore
  <2>6. h \in Nat /\ hsize'[h] \in Nat
    <3>1. h \in Headers BY <2>4 DEF Holes
    <3>2. h \in Nat BY <3>1 DEF PoolIInv, HeadersHold, HeadersFit, Headers
    <3>3. h \in DOMAIN hsize' BY <2>4 DEF Blocks, Headers
    <3>4. hsize' \in [DOMAIN hsize' -> Nat] BY <2>3 DEF HeadersHold, HeadersFit
    <3>5. QED BY <3>2, <3>3, <3>4
  <2>7. d \in Doings BY <2>6, <1>4 DEF Doings
  <2>8. doing'[t] = d BY <2>1, <1>3
  <2>9. hsize'[b] < hsize'[h] BY <2>4, <2>6, <1>1, <1>2, <1>4
  <2>10. Safe(t)' BY <2>4, <2>5, <2>8, <2>9 DEF Safe
  <2> HIDE DEF d
  <2>11. QED BY <2>1, <2>2, <2>3, <2>7, <2>10, <1>1, <1>2, TakeCall
<1>6. CASE ~(Fitting(r) # {})
  <2> DEFINE d == [call |-> "realloc_failed", old |-> b]
  <2>1. Refused(n) /\ doing' = [doing EXCEPT ![t] = d] BY <1>6 DEF MemRealloc
  <2>2. d \in Doings BY <1>4 DEF Doings
  <2>3. doing'[t] = d BY <2>1, <1>3
  <2>4. Blocks' = Blocks /\ owner' = owner BY <2>1 DEF Refused, Blocks, Headers
  <2>5. Safe(t)' BY <2>3, <2>4, <1>1 DEF Safe
  <2>6. answer'.is \in Answers BY <2>1 DEF Refused, Refusal, Answers
  <2> HIDE DEF d
  <2>7. QED BY <2>1, <2>2, <2>5, <2>6, <1>1, KeepingCall DEF Refused
<1>7. QED BY <1>5, <1>6

\* What a task works on between two steps of a call is its own.
LEMMA BusyIsSafe ==
    ASSUME PoolIInv, NEW t \in Users, doing[t].call # "none"
    PROVE  /\ doing[t] # Idle /\ doing[t].old \in Blocks /\ owner[doing[t].old] = t
           /\ doing[t].call = "truncate" =>
                 /\ doing[t].keep \in Requests
                 /\ Splits(hsize[doing[t].old], Required(doing[t].keep))
<1>1. doing[t] \in Doings /\ Safe(t) BY DEF PoolIInv, CallsHold
<1>2. doing[t] # Idle BY DEF Idle
<1>3. /\ doing[t].old \in Blocks /\ owner[doing[t].old] = t
      /\ doing[t].call = "truncate" => Splits(hsize[doing[t].old], Required(doing[t].keep))
  BY <1>1, <1>2 DEF Safe
<1>4. ASSUME doing[t].call = "truncate" PROVE doing[t].keep \in Requests
  BY <1>1, <1>4 DEF Doings, Idle
<1>5. QED BY <1>2, <1>3, <1>4

LEMMA MemReallocDoneCall ==
    ASSUME PoolIInv, NEW t \in Users, MemReallocDone(t)
    PROVE  PoolIInv'
<1> DEFINE b == doing[t].old
<1>1. /\ doing[t].call \in {"realloc", "realloc_failed"} /\ MakeHole(hsize, b)
      /\ owner' = Without(owner, {b}) /\ answer' = NoAnswer /\ chunks' = chunks
      /\ doing' = [doing EXCEPT ![t] = Idle]
  BY DEF MemReallocDone
<1>2. b \in Blocks /\ owner[b] = t BY <1>1, BusyIsSafe
<1> HIDE DEF b
<1>3. /\ HeadersHold' /\ HolesHold' /\ Blocks' = Blocks \ {b}
      /\ \A a \in Blocks' : hsize'[a] = hsize[a]
  BY <1>1, <1>2, FreeKeeps
<1>4. QED BY <1>1, <1>2, <1>3, ReleaseCall

LEMMA MemTruncateCall ==
    ASSUME PoolIInv, NEW t \in Users, NEW b \in Blocks, NEW n \in Requests, MemTruncate(t, b, n)
    PROVE  PoolIInv'
<1> DEFINE d == [call |-> "truncate", old |-> b, keep |-> n]
<1>1. /\ owner[b] = t /\ Splits(hsize[b], Required(n))
      /\ doing' = [doing EXCEPT ![t] = d] /\ answer'.is \in Answers
      /\ UNCHANGED <<chunks, free_list, free_size, hsize, magic, owner>>
  BY DEF MemTruncate, Owns, NoAnswer, Answers
<1>2. b \in Nat
  BY BlocksAreRest DEF PoolIInv, HeadersHold, HeadersFit, Headers
<1>3. d \in Doings BY <1>2 DEF Doings
<1>4. doing'[t] = d BY <1>1 DEF PoolIInv, CallsHold
<1>5. Blocks' = Blocks BY <1>1 DEF Blocks, Headers
<1>6. Safe(t)'
  <2>1. doing'[t].old = b /\ doing'[t].call = "truncate" /\ doing'[t].keep = n BY <1>4
  <2>2. doing'[t].old \in Blocks' /\ owner'[doing'[t].old] = t BY <2>1, <1>1, <1>5
  <2>3. Splits(hsize'[doing'[t].old], Required(doing'[t].keep)) BY <2>1, <1>1
  <2>4. QED BY <2>1, <2>2, <2>3 DEF Safe, Splits, Required, Aligned
<1> HIDE DEF d
<1>7. QED BY <1>1, <1>3, <1>6, KeepingCall

LEMMA MemTruncateDoneCall ==
    ASSUME PoolIInv, NEW t \in Users, MemTruncateDone(t)
    PROVE  /\ PoolIInv'
           /\ LET b == doing[t].old
                  size == Required(doing[t].keep)
              IN  /\ doing[t].keep \in Requests /\ b \in Blocks
                  /\ Blocks' = Blocks /\ hsize'[b] = size /\ size < hsize[b]
                  /\ \A a \in Blocks \ {b} : hsize'[a] = hsize[a]
<1> DEFINE b == doing[t].old
           n == doing[t].keep
           size == Required(n)
<1>1. /\ doing[t].call = "truncate" /\ MakeHole(Cut(b, size), b + size)
      /\ doing' = [doing EXCEPT ![t] = Idle] /\ answer'.is \in Answers
      /\ chunks' = chunks /\ owner' = owner
  BY DEF MemTruncateDone, Kept, Answers
<1>2. b \in Blocks /\ owner[b] = t /\ n \in Requests /\ Splits(hsize[b], size)
  BY <1>1, BusyIsSafe
<1>3. size \in Nat /\ size >= Hdr + Ptr
  <2>1. n \in Nat BY <1>2, PoolConstants
  <2> HIDE DEF n
  <2>2. QED BY <2>1, RequiredIsEnough
<1>4. /\ owner \in [Blocks -> Users] /\ doing \in [Users -> Doings] /\ \A u \in Users : Safe(u)
  BY DEF PoolIInv, CallsHold
<1> HIDE DEF b, n, size
<1>5. /\ HeadersHold' /\ HolesHold'
      /\ Blocks' = Blocks /\ hsize'[b] = size /\ size < hsize[b]
      /\ \A a \in Blocks \ {b} : hsize'[a] = hsize[a]
  BY <1>1, <1>2, <1>3, TruncateKeeps
<1>6. ASSUME NEW u \in Users PROVE Safe(u)'
  <2>1. CASE u = t
    <3>1. doing'[u] = Idle BY <2>1, <1>1, <1>4
    <3>2. QED BY <3>1 DEF Safe
  <2>2. CASE u # t
    <3>1. doing'[u] = doing[u] BY <2>2, <1>1, <1>4
    <3>2. \A a \in Blocks :
             owner[a] = u => a \in Blocks' /\ owner'[a] = u /\ hsize'[a] = hsize[a]
      BY <2>2, <1>1, <1>2, <1>5
    <3>3. QED BY <3>1, <3>2, <1>4, StaysSafe
  <2>3. QED BY <2>1, <2>2
<1>7. (doing \in [Users -> Doings])'
  <2>1. Idle \in Doings BY DEF Doings
  <2>2. QED BY <2>1, <1>1, <1>4
<1>8. (owner \in [Blocks -> Users])' BY <1>1, <1>4, <1>5
<1>9. CallsHold' BY <1>1, <1>6, <1>7, <1>8 DEF CallsHold
<1>10. QED BY <1>2, <1>5, <1>9 DEF PoolIInv, b, n, size

LEMMA PoolNextIInv == PoolIInv /\ [PoolNext]_poolVars => PoolIInv'
<1> SUFFICES ASSUME PoolIInv, [PoolNext]_poolVars PROVE PoolIInv' OBVIOUS
<1>1. CASE MemInit BY <1>1, MemInitCall
<1>2. ASSUME NEW t \in Users, MemReallocDone(t) PROVE PoolIInv' BY <1>2, MemReallocDoneCall
<1>3. ASSUME NEW t \in Users, MemTruncateDone(t) PROVE PoolIInv' BY <1>3, MemTruncateDoneCall
<1>4. ASSUME NEW t \in Users, NEW n \in Requests, MemAlloc(t, n) PROVE PoolIInv'
  BY <1>4, MemAllocCall
<1>5. ASSUME NEW t \in Users, NEW b \in Blocks, MemFree(t, b) PROVE PoolIInv'
  BY <1>5, MemFreeCall
<1>6. ASSUME NEW t \in Users, NEW b \in Blocks, NEW n \in Requests, MemRealloc(t, b, n)
      PROVE  PoolIInv'
  BY <1>6, MemReallocCall
<1>7. ASSUME NEW t \in Users, NEW b \in Blocks, NEW n \in Requests, MemTruncate(t, b, n)
      PROVE  PoolIInv'
  BY <1>7, MemTruncateCall
<1>8. CASE UNCHANGED poolVars
  <2>1. UNCHANGED <<chunks, free_list, free_size, hsize, magic, owner>> /\ answer' = answer
        /\ doing' = doing
    BY <1>8 DEF poolVars
  <2>2. Headers' = Headers /\ Blocks' = Blocks /\ Holes' = Holes /\ Memory' = Memory
    BY <2>1 DEF Headers, Blocks, Holes, Memory
  <2>3. HeadersHold'
    <3>1. HeadersHold BY DEF PoolIInv
    <3>2. QED BY <3>1, <2>1, <2>2 DEF HeadersHold
  <2>4. HolesHold'
    <3>1. HolesHold BY DEF PoolIInv
    <3>2. QED BY <3>1, <2>1, <2>2 DEF HolesHold
  <2>5. CallsHold'
    <3>1. CallsHold BY DEF PoolIInv
    <3>2. QED BY <3>1, <2>1, <2>2 DEF CallsHold, Safe
  <2>6. QED BY <2>3, <2>4, <2>5 DEF PoolIInv
<1>9. QED BY <1>1, <1>2, <1>3, <1>4, <1>5, <1>6, <1>7, <1>8 DEF PoolNext

\* The invariant implies the type, and what a run checks.
LEMMA IInvIsTyped == PoolIInv => PoolTypeOK
<1> SUFFICES ASSUME PoolIInv PROVE PoolTypeOK OBVIOUS
<1>1. HeadersHold /\ HolesHold /\ CallsHold BY DEF PoolIInv
<1>2. free_list \in Seq(Headers)
  <2>1. free_list \in Seq(Nat) /\ \A i \in DOMAIN free_list : free_list[i] \in Headers
    BY <1>1, BlocksAreRest DEF HolesHold, Lists
  <2>2. QED BY <2>1
<1>3. free_size \in Nat BY <1>1, FS_CardinalityType DEF HolesHold
<1>4. hsize \in [Headers -> Nat] BY <1>1 DEF HeadersHold, HeadersFit, Headers
<1>5. magic \in [Headers -> {"hole", "block"}] BY <1>1 DEF HeadersHold, Marked
<1>6. \A t \in Users : doing[t] # Idle => doing[t].old \in Blocks /\ owner[doing[t].old] = t
  BY <1>1 DEF CallsHold, Safe
<1>7. QED
  BY <1>1, <1>2, <1>3, <1>4, <1>5, <1>6 DEF PoolTypeOK, HeadersHold, CallsHold, Answers

LEMMA IInvIsSound == PoolIInv => PoolIsSound /\ UnlockedWorkIsSafe
<1> SUFFICES ASSUME PoolIInv PROVE PoolIsSound /\ UnlockedWorkIsSafe OBVIOUS
<1>1. HeadersHold /\ HolesHold /\ CallsHold BY DEF PoolIInv
<1>2. /\ HeadersFit(hsize) /\ BytesOf(hsize, Headers) = Memory
      /\ Lists(free_list, Holes) /\ Apart(hsize, Holes)
      /\ free_size = Cardinality(BytesOf(hsize, Holes))
  BY <1>1 DEF HeadersHold, HolesHold
<1>3. \A H : BytesOf(hsize, H) = UNION {Extent(h) : h \in H} BY DEF BytesOf, Bytes, Extent
<1>4. UNION {Extent(h) : h \in Headers} = Memory BY <1>2, <1>3
<1>5. \A g, h \in Headers : g # h => Extent(g) \cap Extent(h) = {}
  BY <1>2, BytesDiffer DEF Extent, Bytes, Headers
<1>6. {free_list[i] : i \in DOMAIN free_list} = {h \in Headers : magic[h] = "hole"}
  BY <1>2 DEF Lists, Holes
<1>7. \A i \in 1 .. Len(free_list) - 1 :
         free_list[i] + hsize[free_list[i]] < free_list[i + 1]
  <2> SUFFICES ASSUME NEW i \in 1 .. Len(free_list) - 1
               PROVE  free_list[i] + hsize[free_list[i]] < free_list[i + 1]
    OBVIOUS
  <2> DEFINE g == free_list[i]
             h == free_list[i + 1]
  <2>1. i \in DOMAIN free_list /\ i + 1 \in DOMAIN free_list /\ i < i + 1
    BY <1>2, LenProperties DEF Lists
  <2>2. g \in Holes /\ h \in Holes /\ g < h BY <1>2, <2>1 DEF Lists
  <2> HIDE DEF g, h
  <2>3. g \in DOMAIN hsize /\ h \in DOMAIN hsize BY <2>2 DEF Holes, Headers
  <2>4. g \in Nat /\ h \in Nat /\ hsize[g] \in Nat /\ g + hsize[g] <= h
    BY <1>2, <2>2, <2>3 DEF HeadersFit
  <2>5. g + hsize[g] # h BY <1>2, <2>2 DEF Apart
  <2>6. g + hsize[g] < h BY <2>4, <2>5
  <2>7. QED BY <2>6 DEF g, h
<1>8. \A h \in Headers : hsize[h] >= Hdr + Ptr BY <1>2 DEF HeadersFit, Headers
<1>9. free_size = Cardinality(UNION {Extent(h) : h \in Headers \ Blocks})
  BY <1>1, <1>2, <1>3, BlocksAreRest
<1>10. PoolIsSound BY <1>4, <1>5, <1>6, <1>7, <1>8, <1>9 DEF PoolIsSound
<1>11. UnlockedWorkIsSafe
  <2> SUFFICES ASSUME NEW t \in Users
               PROVE  /\ doing[t].call = "realloc" =>
                            /\ doing[t].new \in Blocks /\ owner[doing[t].new] = t
                            /\ doing[t].new # doing[t].old
                            /\ hsize[doing[t].old] < hsize[doing[t].new]
                      /\ doing[t].call = "truncate" =>
                            Splits(hsize[doing[t].old], Required(doing[t].keep))
    BY DEF UnlockedWorkIsSafe
  <2>1. Safe(t) BY <1>1 DEF CallsHold
  <2>2. doing[t].call \in {"realloc", "truncate"} => doing[t] # Idle BY DEF Idle
  <2>3. QED BY <2>1, <2>2 DEF Safe
<1>12. QED BY <1>10, <1>11

\* Blocks and holes tile the memory of the pool, the free list holds every hole once,
\* in address order, no two of them touch, and free_size counts them
\* (mem.c:105, 176-180), after any calls of any tasks.
THEOREM PoolStaysSound == PoolSpec => [](PoolTypeOK /\ PoolIsSound)
<1>1. PoolIInv => PoolTypeOK /\ PoolIsSound BY IInvIsTyped, IInvIsSound
<1>2. QED BY <1>1, PoolInitIInv, PoolNextIInv, PTL DEF PoolSpec

\* What mem_realloc and mem_truncate found out under the lock still holds when they
\* use it without (mem.c:270-286, 312-317).
THEOREM UnlockedWorkStaysSafe == PoolSpec => []UnlockedWorkIsSafe
<1>1. PoolIInv => UnlockedWorkIsSafe BY IInvIsSound
<1>2. QED BY <1>1, PoolInitIInv, PoolNextIInv, PTL DEF PoolSpec
-----------------------------------------------------------------------------
(***************************************************************************)
(* The pool implements the allocator.                                      *)
(***************************************************************************)
\* The blocks handed out, as the allocator knows them.
UsedBy(hs, B) == {[at |-> b, len |-> hs[b]] : b \in B}

\* What is free is the holes.
LEMMA FreeIsHoles ==
    ASSUME PoolIInv
    PROVE  APool!Free = BytesOf(hsize, Holes)
<1>1. /\ HeadersFit(hsize) /\ BytesOf(hsize, Headers) = Memory
      /\ Blocks \cup Holes = Headers /\ Blocks \cap Holes = {}
  BY BlocksAreRest DEF PoolIInv, HeadersHold
<1>2. APool!Occupied = BytesOf(hsize, Blocks)
  <2>1. \A b \in Blocks : APool!Extent([at |-> b, len |-> hsize[b]]) = Bytes(hsize, b)
    BY DEF APool!Extent, Bytes
  <2>2. APool!Occupied = UNION {APool!Extent([at |-> b, len |-> hsize[b]]) : b \in Blocks}
    BY DEF APool!Occupied
  <2>3. QED BY <2>1, <2>2 DEF BytesOf
<1>3. BytesOf(hsize, Blocks) \cap BytesOf(hsize, Holes) = {}
  <2> SUFFICES ASSUME NEW g \in Blocks, NEW h \in Holes
               PROVE  Bytes(hsize, g) \cap Bytes(hsize, h) = {}
    BY DEF BytesOf
  <2>1. g \in DOMAIN hsize /\ h \in DOMAIN hsize /\ g # h BY <1>1 DEF Headers
  <2>2. QED BY <2>1, <1>1, BytesDiffer
<1>4. Memory = BytesOf(hsize, Blocks) \cup BytesOf(hsize, Holes) BY <1>1 DEF BytesOf
<1>5. QED BY <1>2, <1>3, <1>4 DEF APool!Free

\* No two holes touch: a stretch of free memory lies within one hole.
LEMMA StretchInOneHole ==
    ASSUME NEW hs, HeadersFit(hs), NEW H, H \subseteq DOMAIN hs, Apart(hs, H),
           NEW h \in H, NEW a \in Bytes(hs, h), NEW n \in Nat,
           a .. a + n - 1 \subseteq BytesOf(hs, H)
    PROVE  n <= hs[h]
<1>1. h \in Nat /\ hs[h] \in Nat /\ a \in Int /\ h <= a /\ a < h + hs[h]
  BY DEF HeadersFit, Bytes
<1>2. ASSUME n > hs[h] PROVE FALSE
  <2> DEFINE x == h + hs[h]
  <2>1. x \in a .. a + n - 1 BY <1>1, <1>2
  <2>2. PICK g \in H : x \in Bytes(hs, g) BY <2>1 DEF BytesOf
  <2>3. g \in Nat /\ hs[g] \in Nat /\ g <= x /\ x < g + hs[g]
    BY <2>2, <1>1 DEF HeadersFit, Bytes
  <2>4. (g < h => g + hs[g] <= h) /\ (h < g => h + hs[h] <= g) BY DEF HeadersFit
  <2>5. h + hs[h] # g BY DEF Apart
  <2>6. QED BY <2>3, <2>4, <2>5, <1>1
<1>3. QED BY <1>1, <1>2

\* If no hole fits, there is no room.
LEMMA NoHoleNoRoom ==
    ASSUME PoolIInv, NEW r \in Nat, Fitting(r) = {}
    PROVE  ~ APool!RoomFor(r)
<1>1. /\ HeadersFit(hsize) /\ Holes \subseteq DOMAIN hsize /\ Apart(hsize, Holes)
      /\ Lists(free_list, Holes)
  BY BlocksAreRest DEF PoolIInv, HeadersHold, HolesHold, Headers
<1>2. ASSUME NEW h \in Holes PROVE ~ (r <= hsize[h])
  <2>1. PICK i \in DOMAIN free_list : free_list[i] = h BY <1>1 DEF Lists
  <2>2. ~ (hsize[free_list[i]] >= r) BY DEF Fitting
  <2>3. hsize[h] \in Nat BY <1>1 DEF HeadersFit
  <2>4. QED BY <2>1, <2>2, <2>3
<1>3. ASSUME NEW a \in BytesOf(hsize, Holes), a .. a + r - 1 \subseteq BytesOf(hsize, Holes)
      PROVE  FALSE
  <2>1. PICK h \in Holes : a \in Bytes(hsize, h) BY DEF BytesOf
  <2>2. r <= hsize[h] BY <2>1, <1>1, <1>3, StretchInOneHole
  <2>3. QED BY <2>2, <1>2
<1>4. QED BY <1>3, FreeIsHoles DEF APool!RoomFor

\* The blocks before and after a step that leaves the others alone.
LEMMA UsedStays ==
    ASSUME NEW hs, NEW ms, NEW B, \A b \in B : ms[b] = hs[b]
    PROVE  UsedBy(ms, B) = UsedBy(hs, B)
BY DEF UsedBy

LEMMA UsedIs ==
    /\ UsedBy(hsize, Blocks) = {[at |-> b, len |-> hsize[b]] : b \in Blocks}
    /\ UsedBy(hsize, Blocks)' = {[at |-> b, len |-> hsize[b]] : b \in Blocks}'
BY DEF UsedBy

\* A block that is taken is allocated.
LEMMA TakenIsAllocated ==
    ASSUME PoolIInv, NEW n \in Requests, NEW h, Taken(h, Required(n)),
           chunks' = chunks, answer' = Granted(n, h)
    PROVE  APool!Allocate(n)
<1> DEFINE b == [at |-> h, len |-> hsize'[h]]
<1>1. /\ h \in Holes /\ h \notin Blocks /\ Blocks' = Blocks \cup {h}
      /\ hsize'[h] >= Required(n) /\ Bytes(hsize', h) \subseteq Bytes(hsize, h)
      /\ \A a \in Blocks : hsize'[a] = hsize[a]
  BY BlocksAreRest DEF Taken, PoolIInv
<1>2. UsedBy(hsize', Blocks') = UsedBy(hsize, Blocks) \cup {b} BY <1>1 DEF UsedBy
<1>3. b \notin UsedBy(hsize, Blocks) BY <1>1 DEF UsedBy
<1>4. APool!Extent(b) \subseteq APool!Free
  <2>1. APool!Extent(b) = Bytes(hsize', h) BY DEF APool!Extent, Bytes
  <2>2. Bytes(hsize, h) \subseteq BytesOf(hsize, Holes) BY <1>1 DEF BytesOf
  <2>3. QED BY <2>1, <2>2, <1>1, FreeIsHoles
<1>5. b.len >= Required(n) BY <1>1
<1>6. Memory' = Memory BY DEF Memory
<1>7. answer' = APool!Granted(n, b.at) BY DEF Granted, APool!Granted
<1> HIDE DEF b
<1>8. QED BY <1>2, <1>3, <1>4, <1>5, <1>6, <1>7 DEF APool!Allocate, UsedBy

\* A block that is given back is released.
LEMMA GoneIsReleased ==
    ASSUME NEW b \in Blocks, Blocks' = Blocks \ {b}, \A a \in Blocks' : hsize'[a] = hsize[a],
           chunks' = chunks, answer' = NoAnswer
    PROVE  \E u \in {[at |-> c, len |-> hsize[c]] : c \in Blocks} : APool!Release(u)
<1> DEFINE u == [at |-> b, len |-> hsize[b]]
<1>1. UsedBy(hsize', Blocks') = UsedBy(hsize, Blocks) \ {u} BY DEF UsedBy
<1>2. Memory' = Memory BY DEF Memory
<1>3. u \in {[at |-> c, len |-> hsize[c]] : c \in Blocks} OBVIOUS
<1> HIDE DEF u
<1>4. answer' = APool!NoAnswer BY DEF NoAnswer, APool!NoAnswer
<1>5. QED BY <1>1, <1>2, <1>3, <1>4 DEF APool!Release, UsedBy

\* A block that is cut is shortened.
LEMMA CutIsShortened ==
    ASSUME NEW b \in Blocks, NEW n \in Requests, Blocks' = Blocks,
           hsize'[b] = Required(n), Required(n) \in Nat, hsize[b] \in Nat,
           Required(n) < hsize[b],
           \A a \in Blocks \ {b} : hsize'[a] = hsize[a],
           chunks' = chunks, answer' = Kept(n, b)
    PROVE  \E u \in {[at |-> c, len |-> hsize[c]] : c \in Blocks} :
              \E m \in Requests : APool!Shorten(u, m)
<1> DEFINE u == [at |-> b, len |-> hsize[b]]
           v == [at |-> b, len |-> hsize'[b]]
<1>1. UsedBy(hsize', Blocks') = (UsedBy(hsize, Blocks) \ {u}) \cup {v}
  <2>1. v \in UsedBy(hsize', Blocks') BY DEF UsedBy
  <2>2. v # u BY <2>1
  <2>3. \A a \in Blocks \ {b} : [at |-> a, len |-> hsize'[a]] = [at |-> a, len |-> hsize[a]]
    OBVIOUS
  <2>4. \A a \in Blocks \ {b} : [at |-> a, len |-> hsize[a]] # u OBVIOUS
  <2>5. UsedBy(hsize', Blocks') \subseteq (UsedBy(hsize, Blocks) \ {u}) \cup {v}
    BY <2>3, <2>4 DEF UsedBy
  <2>6. (UsedBy(hsize, Blocks) \ {u}) \subseteq UsedBy(hsize', Blocks')
    BY <2>3 DEF UsedBy
  <2>7. QED BY <2>1, <2>5, <2>6
<1>2. v \notin UsedBy(hsize, Blocks)
  <2>1. hsize'[b] # hsize[b] OBVIOUS
  <2>2. QED BY <2>1 DEF UsedBy
<1>3. v \in UsedBy(hsize', Blocks') \ UsedBy(hsize, Blocks) BY <1>1, <1>2
<1>4. v.at = u.at /\ v.len \in Required(n) .. u.len - 1 OBVIOUS
<1>5. Memory' = Memory BY DEF Memory
<1>6. u \in UsedBy(hsize, Blocks) BY DEF UsedBy
<1>7. answer' = APool!Kept(n, u.at) BY DEF Kept, APool!Kept
<1> HIDE DEF u, v
<1>8. APool!Shorten(u, n) BY <1>1, <1>3, <1>4, <1>5, <1>7 DEF APool!Shorten, UsedBy
<1>9. QED BY <1>6, <1>8 DEF UsedBy

\* Every call of the pool is a call of the allocator, or idle.
LEMMA PoolStepIsAllocators ==
    PoolIInv /\ PoolIInv' /\ [PoolNext]_poolVars => [APool!Next]_(APool!vars)
<1> SUFFICES ASSUME PoolIInv, PoolIInv', [PoolNext]_poolVars
             PROVE  [APool!Next]_(APool!vars)
  OBVIOUS
<1>1. CASE MemInit
  <2>1. Memory \subseteq Memory'
    <3>1. chunks \in Nat /\ chunks' = chunks + 1
      BY <1>1, PoolConstants, LenProperties DEF PoolIInv, HeadersHold, MemInit
    <3>2. 1 .. chunks \subseteq 1 .. chunks' BY <3>1
    <3>3. QED BY <3>2 DEF Memory
  <2>2. Blocks' = Blocks /\ \A b \in Blocks : hsize'[b] = hsize[b] BY <1>1, MemInitKeeps
  <2>3. UsedBy(hsize', Blocks') = UsedBy(hsize, Blocks) BY <2>2, UsedStays
  <2>4. answer' = APool!NoAnswer BY <1>1 DEF MemInit, NoAnswer, APool!NoAnswer
  <2>5. APool!Grow BY <2>1, <2>3, <2>4 DEF APool!Grow, UsedBy
  <2>6. QED BY <2>5 DEF APool!Next
<1>2. ASSUME NEW t \in Users, MemReallocDone(t) PROVE APool!Next
  <2> DEFINE b == doing[t].old
  <2>1. /\ doing[t].call \in {"realloc", "realloc_failed"} /\ MakeHole(hsize, b)
        /\ answer' = NoAnswer /\ chunks' = chunks
    BY <1>2 DEF MemReallocDone
  <2>2. b \in Blocks BY <2>1, BusyIsSafe
  <2> HIDE DEF b
  <2>3. Blocks' = Blocks \ {b} /\ \A a \in Blocks' : hsize'[a] = hsize[a]
    BY <2>1, <2>2, FreeKeeps
  <2>4. QED BY <2>1, <2>2, <2>3, GoneIsReleased DEF APool!Next
<1>3. ASSUME NEW t \in Users, MemTruncateDone(t) PROVE APool!Next
  <2> DEFINE b == doing[t].old
             n == doing[t].keep
  <2>1. /\ n \in Requests /\ b \in Blocks
        /\ Blocks' = Blocks /\ hsize'[b] = Required(n) /\ Required(n) < hsize[b]
        /\ \A a \in Blocks \ {b} : hsize'[a] = hsize[a]
    BY <1>3, MemTruncateDoneCall
  <2>2. answer' = Kept(n, b) /\ chunks' = chunks BY <1>3 DEF MemTruncateDone
  <2> HIDE DEF b, n
  <2>3. n \in Nat BY <2>1, PoolConstants
  <2>4. Required(n) \in Nat BY <2>3, RequiredIsEnough
  <2>5. hsize[b] \in Nat
    BY <2>1, BlocksAreRest DEF PoolIInv, HeadersHold, HeadersFit, Headers
  <2>6. QED BY <2>1, <2>2, <2>4, <2>5, CutIsShortened DEF APool!Next
<1>4. ASSUME NEW t \in Users, NEW n \in Requests, chunks' = chunks,
             \/ Fitting(Required(n)) # {} /\ Take(t, n)
             \/ Fitting(Required(n)) = {} /\ Refused(n)
      PROVE  APool!Next
  <2> DEFINE r == Required(n)
             h == free_list[Min(Fitting(r))]
  <2>1. n \in Nat BY PoolConstants
  <2>2. r \in Nat /\ r >= Hdr + Ptr BY <2>1, RequiredIsEnough
  <2>3. CASE Fitting(r) # {} /\ Take(t, n)
    <3>1. answer' = Granted(n, h) BY <2>3, TakeAnswers
    <3>2. Taken(h, Required(n))
      <4>1. r = Required(n) OBVIOUS
      <4> HIDE DEF r
      <4>2. Taken(h, r) BY <4>1, <2>2, <2>3, <1>4, TakeKeeps
      <4>3. QED BY <4>2 DEF r
    <3> HIDE DEF h
    <3>3. APool!Allocate(n) BY <3>1, <3>2, <1>4, TakenIsAllocated
    <3>4. QED BY <3>3 DEF APool!Next
  <2>4. CASE Fitting(r) = {} /\ Refused(n)
    <3>1. ~ APool!RoomFor(Required(n))
      <4> HIDE DEF r
      <4>1. ~ APool!RoomFor(r) BY <2>2, <2>4, NoHoleNoRoom
      <4>2. QED BY <4>1 DEF r
    <3>2. /\ answer' = APool!Refusal(n) /\ hsize' = hsize /\ Blocks' = Blocks
          /\ Memory' = Memory
      BY <2>4, <1>4 DEF Refused, Refusal, APool!Refusal, Blocks, Headers, Memory
    <3>3. APool!Refuse(n) BY <3>1, <3>2 DEF APool!Refuse
    <3>4. QED BY <3>3 DEF APool!Next
  <2>5. QED BY <2>3, <2>4, <1>4
<1>5. ASSUME NEW t \in Users, NEW n \in Requests, MemAlloc(t, n) PROVE APool!Next
  <2>1. /\ chunks' = chunks
        /\ \/ Fitting(Required(n)) # {} /\ Take(t, n)
           \/ Fitting(Required(n)) = {} /\ Refused(n)
    BY <1>5 DEF MemAlloc
  <2>2. QED BY <2>1, <1>4
<1>6. ASSUME NEW t \in Users, NEW b \in Blocks, MemFree(t, b) PROVE APool!Next
  <2>1. MakeHole(hsize, b) /\ answer' = NoAnswer /\ chunks' = chunks BY <1>6 DEF MemFree
  <2>2. Blocks' = Blocks \ {b} /\ \A a \in Blocks' : hsize'[a] = hsize[a]
    BY <2>1, FreeKeeps
  <2>3. QED BY <2>1, <2>2, GoneIsReleased DEF APool!Next
<1>7. ASSUME NEW t \in Users, NEW b \in Blocks, NEW n \in Requests, MemRealloc(t, b, n)
      PROVE  APool!Next
  <2>1. /\ chunks' = chunks
        /\ \/ Fitting(Required(n)) # {} /\ Take(t, n)
           \/ Fitting(Required(n)) = {} /\ Refused(n)
    BY <1>7 DEF MemRealloc
  <2>2. QED BY <2>1, <1>4
<1>8. ASSUME NEW t \in Users, NEW b \in Blocks, NEW n \in Requests, MemTruncate(t, b, n)
      PROVE  APool!Next
  <2>1. /\ answer' = APool!NoAnswer /\ hsize' = hsize /\ Blocks' = Blocks
        /\ Memory' = Memory
    BY <1>8 DEF MemTruncate, NoAnswer, APool!NoAnswer, Blocks, Headers, Memory
  <2>2. APool!CallIdle BY <2>1 DEF APool!CallIdle
  <2>3. QED BY <2>2 DEF APool!Next
<1>9. CASE UNCHANGED poolVars
  <2>1. answer' = answer /\ hsize' = hsize /\ Blocks' = Blocks /\ Memory' = Memory
    BY <1>9 DEF poolVars, Blocks, Headers, Memory
  <2>2. QED BY <2>1 DEF APool!vars
<1>10. QED BY <1>1, <1>2, <1>3, <1>5, <1>6, <1>7, <1>8, <1>9 DEF PoolNext

LEMMA PoolInitIsAllocators == PoolInit => APool!Init
<1> SUFFICES ASSUME PoolInit PROVE APool!Init OBVIOUS
<1>1. Memory = {} BY DEF PoolInit, Memory
<1>2. Blocks = {} BY DEF PoolInit, Blocks, Headers
<1>3. answer = APool!NoAnswer BY DEF PoolInit, NoAnswer, APool!NoAnswer
<1>4. QED BY <1>1, <1>2, <1>3 DEF APool!Init

\* The pool keeps the allocator's promise: a block is free memory until it is handed
\* out, is as long as what was asked for with its header, and stays its owner's;
\* mem_alloc_dirty returns no memory (mem.c:127-132) only when there is no free
\* stretch as long as the request that it refuses, header included; and a block that
\* mem_truncate cuts keeps what its owner asked to keep.
THEOREM PoolImplementsAllocator == PoolSpec => ImplementsAllocator
<1>1. PoolSpec => []PoolIInv BY PoolInitIInv, PoolNextIInv, PTL DEF PoolSpec
<1>2. QED
  BY <1>1, PoolInitIsAllocators, PoolStepIsAllocators, PTL
  DEF PoolSpec, ImplementsAllocator, APool!Spec
=============================================================================
