---------------------------- MODULE DriverProofs ----------------------------
(***************************************************************************)
(* The drivers, each for any size and any number of tasks: the rings of    *)
(* characters of the pipe and of the UART, and the timer.                  *)
(***************************************************************************)
EXTENDS Timer, Pipe, UartOut, UartIn, TLAPS, SequenceTheorems

(***************************************************************************)
(* The pipe and the UART.                                                  *)
(***************************************************************************)
\* The three rings of characters are of one kind: n places, of which those from
\* first up to last, around the end of the array, are in use.
Span(first, last, n) == (last - first + n) % n
RingSeq(data, first, last, n) ==
    [i \in 1 .. Span(first, last, n) |-> data[(first + i - 1) % n]]
Behind(i, n) == IF i + 1 >= n THEN 0 ELSE i + 1

\* A ring of n places that hold members of S, and two that differ in one place.
RingOf(data, first, last, n, S) ==
    /\ n \in Nat \ {0} /\ first \in 0 .. n - 1 /\ last \in 0 .. n - 1
    /\ data \in [0 .. n - 1 -> S]
SameBut(data, d, at, n) == \A x \in 0 .. n - 1 : x # at => d[x] = data[x]

\* A remainder of what is less than twice the divisor.
LEMMA SmallRemainder ==
    ASSUME NEW n \in Nat \ {0}, NEW x \in 0 .. 2 * n - 1
    PROVE  x % n = IF x < n THEN x ELSE x - n
OBVIOUS

\* How many places are in use.
LEMMA SpanOf ==
    ASSUME NEW n \in Nat \ {0}, NEW first \in 0 .. n - 1, NEW last \in 0 .. n - 1
    PROVE  /\ Span(first, last, n) = IF last >= first THEN last - first ELSE last - first + n
           /\ Span(first, last, n) \in 0 .. n - 1
<1>1. last - first + n \in 0 .. 2 * n - 1
  OBVIOUS
<1> DEFINE x == last - first + n
<1>2. x % n = IF x < n THEN x ELSE x - n
  <2> HIDE DEF x
  <2> QED BY <1>1, SmallRemainder DEF x
<1> QED BY <1>1, <1>2 DEF Span

\* Where the i-th character is.
LEMMA PlaceOf ==
    ASSUME NEW n \in Nat \ {0}, NEW first \in 0 .. n - 1, NEW i \in 1 .. n
    PROVE  /\ (first + i - 1) % n = IF first + i - 1 < n THEN first + i - 1 ELSE first + i - 1 - n
           /\ (first + i - 1) % n \in 0 .. n - 1
<1>1. first + i - 1 \in 0 .. 2 * n - 1
  OBVIOUS
<1> DEFINE x == first + i - 1
<1>2. x % n = IF x < n THEN x ELSE x - n
  <2> HIDE DEF x
  <2> QED BY <1>1, SmallRemainder DEF x
<1> QED BY <1>1, <1>2

\* The contents are a sequence of what the places hold.
LEMMA RingSeqType ==
    ASSUME NEW n, NEW first, NEW last, NEW S, NEW data, RingOf(data, first, last, n, S)
    PROVE  /\ RingSeq(data, first, last, n) \in Seq(S)
           /\ Len(RingSeq(data, first, last, n)) = Span(first, last, n)
           /\ Len(RingSeq(data, first, last, n)) \in 0 .. n - 1
           /\ RingSeq(data, first, last, n) = <<>> <=> first = last
<1>0. /\ n \in Nat \ {0} /\ first \in 0 .. n - 1 /\ last \in 0 .. n - 1
      /\ data \in [0 .. n - 1 -> S]
  BY DEF RingOf
<1> DEFINE m == Span(first, last, n)
<1>1. m \in 0 .. n - 1 /\ m \in Nat /\ (m = 0 <=> first = last)
  <2>1. m \in 0 .. n - 1 /\ m = IF last >= first THEN last - first ELSE last - first + n
    BY <1>0, SpanOf
  <2> HIDE DEF m
  <2> QED BY <1>0, <2>1
<1>2. \A i \in 1 .. m : (first + i - 1) % n \in 0 .. n - 1
  BY <1>0, <1>1, PlaceOf
<1> HIDE DEF m
<1>3. RingSeq(data, first, last, n) = [i \in 1 .. m |-> data[(first + i - 1) % n]]
  BY DEF RingSeq, m
<1>4. \A i \in 1 .. m : data[(first + i - 1) % n] \in S
  BY <1>0, <1>2
<1>5. /\ RingSeq(data, first, last, n) \in Seq(S)
      /\ Len(RingSeq(data, first, last, n)) = m
      /\ m = 0 <=> RingSeq(data, first, last, n) = <<>>
  BY <1>1, <1>3, <1>4
<1> QED BY <1>1, <1>5 DEF m

\* A character is stored at last, and last moves on.
LEMMA RingSeqPut ==
    ASSUME NEW n, NEW first, NEW last, NEW S, NEW data, NEW d,
           RingOf(data, first, last, n, S), RingOf(d, first, last, n, S),
           SameBut(data, d, last, n),
           Behind(last, n) # first
    PROVE  /\ Behind(last, n) \in 0 .. n - 1
           /\ RingSeq(d, first, Behind(last, n), n) = Append(RingSeq(data, first, last, n), d[last])
           /\ Span(first, last, n) < n - 1
<1> USE DEF RingOf, SameBut
<1> DEFINE m == Span(first, last, n)
           l == Behind(last, n)
           c == d[last]
<1>1. l \in 0 .. n - 1
  BY DEF Behind
<1>2. m \in 0 .. n - 1 /\ m = IF last >= first THEN last - first ELSE last - first + n
  BY SpanOf
<1>3. Span(first, l, n) = m + 1 /\ m < n - 1
  <2>1. Span(first, l, n) = IF l >= first THEN l - first ELSE l - first + n
    BY <1>1, SpanOf
  <2> QED BY <1>2, <2>1 DEF Behind
<1>4. (first + (m + 1) - 1) % n = last
  BY <1>2, <1>3, PlaceOf
<1>5. \A i \in 1 .. m : (first + i - 1) % n \in 0 .. n - 1 /\ (first + i - 1) % n # last
  <2> SUFFICES ASSUME NEW i \in 1 .. m
               PROVE  (first + i - 1) % n \in 0 .. n - 1 /\ (first + i - 1) % n # last
    OBVIOUS
  <2> HIDE DEF m
  <2>1. i \in 1 .. n
    BY <1>2
  <2>2. /\ (first + i - 1) % n = IF first + i - 1 < n THEN first + i - 1 ELSE first + i - 1 - n
        /\ (first + i - 1) % n \in 0 .. n - 1
    BY <2>1, PlaceOf
  <2> QED BY <1>2, <1>3, <2>1, <2>2
<1> HIDE DEF m, l, c
<1>7. RingSeq(d, first, l, n) = [i \in 1 .. m + 1 |-> d[(first + i - 1) % n]]
  BY <1>3 DEF RingSeq
<1>8. RingSeq(data, first, last, n) = [i \in 1 .. m |-> data[(first + i - 1) % n]]
  BY DEF RingSeq, m
<1>9. \A i \in 1 .. m + 1 : i \in 1 .. m \/ i = m + 1
  BY <1>2
<1>10. \A i \in 1 .. m + 1 : d[(first + i - 1) % n] = IF i \in 1 .. m THEN data[(first + i - 1) % n] ELSE c
  BY <1>4, <1>5, <1>9 DEF c
<1>11. Append(RingSeq(data, first, last, n), c)
          = [i \in 1 .. m + 1 |-> IF i \in 1 .. m THEN data[(first + i - 1) % n] ELSE c]
  <2>1. Len(RingSeq(data, first, last, n)) = m
    BY <1>2, <1>8
  <2> QED BY <1>2, <1>8, <1>9, <2>1
<1>12. RingSeq(d, first, l, n) = Append(RingSeq(data, first, last, n), c)
  BY <1>7, <1>10, <1>11
<1> QED BY <1>1, <1>3, <1>12 DEF l, m, c

\* The character at first is taken, and first moves on.
LEMMA RingSeqTake ==
    ASSUME NEW n, NEW first, NEW last, NEW S, NEW data, NEW d,
           RingOf(data, first, last, n, S), RingOf(d, first, last, n, S),
           SameBut(data, d, first, n),
           first # last
    PROVE  /\ Behind(first, n) \in 0 .. n - 1
           /\ RingSeq(data, first, last, n) # <<>>
           /\ Head(RingSeq(data, first, last, n)) = data[first]
           /\ RingSeq(d, Behind(first, n), last, n) = Tail(RingSeq(data, first, last, n))
<1> USE DEF RingOf, SameBut
<1> DEFINE m == Span(first, last, n)
           f == Behind(first, n)
<1>1. f \in 0 .. n - 1
  BY DEF Behind
<1>2. m \in 1 .. n - 1 /\ m = IF last >= first THEN last - first ELSE last - first + n
  <2>1. m \in 0 .. n - 1 /\ m = IF last >= first THEN last - first ELSE last - first + n
    BY SpanOf
  <2> HIDE DEF m
  <2> QED BY <2>1
<1>3. Span(f, last, n) = m - 1
  <2>1. Span(f, last, n) = IF last >= f THEN last - f ELSE last - f + n
    BY <1>1, SpanOf
  <2> QED BY <1>2, <2>1 DEF Behind
<1>4. (first + 1 - 1) % n = first
  BY PlaceOf
<1>5. \A i \in 1 .. m - 1 : /\ (f + i - 1) % n = (first + (i + 1) - 1) % n
                            /\ (f + i - 1) % n \in 0 .. n - 1
                            /\ (f + i - 1) % n # first
  <2> SUFFICES ASSUME NEW i \in 1 .. m - 1
               PROVE  /\ (f + i - 1) % n = (first + (i + 1) - 1) % n
                      /\ (f + i - 1) % n \in 0 .. n - 1
                      /\ (f + i - 1) % n # first
    OBVIOUS
  <2>1. i \in 1 .. n /\ i + 1 \in 1 .. n
    BY <1>2
  <2>2. /\ (f + i - 1) % n = IF f + i - 1 < n THEN f + i - 1 ELSE f + i - 1 - n
        /\ (f + i - 1) % n \in 0 .. n - 1
    BY <1>1, <2>1, PlaceOf
  <2> DEFINE j == i + 1
  <2>3. (first + j - 1) % n = IF first + j - 1 < n THEN first + j - 1 ELSE first + j - 1 - n
    <3> HIDE DEF j
    <3> QED BY <2>1, PlaceOf DEF j
  <2> QED BY <1>1, <1>2, <2>1, <2>2, <2>3 DEF Behind
<1> HIDE DEF m, f
<1>7. RingSeq(d, f, last, n) = [i \in 1 .. m - 1 |-> d[(f + i - 1) % n]]
  BY <1>3 DEF RingSeq
<1> DEFINE s == RingSeq(data, first, last, n)
<1>8. s = [i \in 1 .. m |-> data[(first + i - 1) % n]]
  BY DEF RingSeq, m
<1>9. Len(s) = m /\ s # <<>> /\ s[1] = data[first]
  <2>1. m \in Nat /\ m > 0 /\ 1 \in 1 .. m
    BY <1>2
  <2>2. Len(s) = m
    BY <1>8, <2>1
  <2>3. s[1] = data[(first + 1 - 1) % n]
    BY <1>8, <2>1
  <2> QED BY <1>4, <2>1, <2>2, <2>3
<1>10. \A i \in 1 .. m - 1 : i + 1 \in 1 .. m /\ s[i + 1] = data[(first + (i + 1) - 1) % n]
  BY <1>2, <1>8
<1>11. Tail(s) = [i \in 1 .. m - 1 |-> s[i + 1]] /\ Head(s) = s[1]
  BY <1>2, <1>8, <1>9
<1>12. \A i \in 1 .. m - 1 : d[(f + i - 1) % n] = s[i + 1]
  BY <1>5, <1>10
<1> HIDE DEF s
<1> QED BY <1>1, <1>7, <1>9, <1>11, <1>12 DEF f, s

-----------------------------------------------------------------------------
(***************************************************************************)
(* The pipe.                                                               *)
(***************************************************************************)
PipeChars == MasterChars \cup SlaveChars

PipeRing == [data : [0 .. FifoChars - 1 -> PipeChars \cup {Nothing}],
             first : 0 .. FifoChars - 1, last : 0 .. FifoChars - 1]

CallType == [op : {"none", "putchar", "getchar", "flush"},
             char : PipeChars \cup {Nothing}, asleep : BOOLEAN]

\* The inductive invariant of the pipe: what sleeps does so in a call, and a ring
\* holds characters of its end.
PipeIInv ==
    /\ fifo \in [Ends -> PipeRing]
    /\ closed \in [Ends -> BOOLEAN]
    /\ call \in [Callers -> CallType]
    /\ \A e \in Ends : Contents(fifo[e]) \in Seq(Chars(e))
    /\ \A t \in Callers : call[t].asleep => call[t].op # "none"
    /\ NobodySleepsInVain

\* The ends of the pipe.
LEMMA EndsOf == ASSUME NEW t \in Callers
                PROVE  End(t) \in Ends /\ Peer(t) \in Ends /\ End(t) # Peer(t)
BY DEF End, Peer, Ends

LEMMA CharsOfEnds == ASSUME NEW e \in Ends PROVE Chars(e) \in SUBSET PipeChars
BY DEF Chars, PipeChars, Ends

\* A ring of the pipe is a ring of characters.
LEMMA PipeRingIsRing ==
    ASSUME NEW r
    PROVE  /\ Contents(r) = RingSeq(r.data, r.first, r.last, FifoChars)
           /\ IsFull(r) <=> Behind(r.last, FifoChars) = r.first
           /\ IsEmpty(r) <=> r.first = r.last
BY DEF Contents, Reached, RingSeq, Span, IsFull, IsEmpty, After, Behind

\* A character is put into a ring that is not full.
LEMMA PipePut ==
    ASSUME NEW r \in PipeRing, ~ IsFull(r),
           NEW C \in SUBSET PipeChars, NEW c \in C, Contents(r) \in Seq(C),
           NEW r1, r1 = [data |-> [r.data EXCEPT ![r.last] = c],
                         first |-> r.first, last |-> After(r.last)]
    PROVE  /\ r1 \in PipeRing
           /\ Contents(r1) = Append(Contents(r), c) /\ Contents(r1) \in Seq(C)
           /\ Len(Contents(r)) < FifoChars - 1
<1> DEFINE n == FifoChars
           S == PipeChars \cup {Nothing}
           f == r.first
           l == r.last
           d == r.data
           d1 == r1.data
           s == Contents(r)
<1>1. n \in Nat \ {0}
  BY PipeConstants
<1>2. /\ d \in [0 .. n - 1 -> S] /\ f \in 0 .. n - 1 /\ l \in 0 .. n - 1
      /\ Behind(l, n) # f /\ After(l) = Behind(l, n)
  BY PipeRingIsRing DEF PipeRing, After, Behind
<1>3. /\ d1 \in [0 .. n - 1 -> S] /\ d1[l] = c
      /\ \A x \in 0 .. n - 1 : x # l => d1[x] = d[x]
      /\ r1.first = f /\ r1.last = Behind(l, n)
  BY <1>2
<1>4. s = RingSeq(d, f, l, n) /\ Contents(r1) = RingSeq(d1, f, Behind(l, n), n)
  BY <1>3, PipeRingIsRing
<1>5. r1 = [data |-> d1, first |-> f, last |-> Behind(l, n)]
  BY <1>2
<1> HIDE DEF n, S, f, l, d, d1, s
<1>0. RingOf(d, f, l, n, S) /\ RingOf(d1, f, l, n, S)
  BY <1>1, <1>2, <1>3 DEF RingOf
<1>6. /\ Behind(l, n) \in 0 .. n - 1
      /\ RingSeq(d1, f, Behind(l, n), n) = Append(s, c)
      /\ Span(f, l, n) < n - 1
  <2>1. SameBut(d, d1, l, n)
    BY <1>3 DEF SameBut
  <2>2. Behind(l, n) # f
    BY <1>2
  <2>3. /\ Behind(l, n) \in 0 .. n - 1
        /\ RingSeq(d1, f, Behind(l, n), n) = Append(RingSeq(d, f, l, n), d1[l])
        /\ Span(f, l, n) < n - 1
    BY <1>0, <2>1, <2>2, RingSeqPut
  <2> QED BY <1>3, <1>4, <2>3
<1>7. Len(s) = Span(f, l, n)
  BY <1>0, <1>4, RingSeqType
<1>8. r1 \in PipeRing
  BY <1>2, <1>3, <1>5, <1>6 DEF PipeRing, n, S
<1>9. s \in Seq(C)
  BY DEF s
<1>10. Append(s, c) \in Seq(C)
  BY <1>9
<1> QED BY <1>4, <1>6, <1>7, <1>8, <1>10 DEF s, n

\* A character is taken from a ring that is not empty.
LEMMA PipeGet ==
    ASSUME NEW r \in PipeRing, ~ IsEmpty(r),
           NEW C \in SUBSET PipeChars, Contents(r) \in Seq(C),
           NEW r1, r1 = [data |-> [r.data EXCEPT ![r.first] = Nothing],
                         first |-> After(r.first), last |-> r.last]
    PROVE  /\ r1 \in PipeRing
           /\ Contents(r) # <<>> /\ Head(Contents(r)) = r.data[r.first]
           /\ Contents(r1) = Tail(Contents(r)) /\ Contents(r1) \in Seq(C)
<1> DEFINE n == FifoChars
           S == PipeChars \cup {Nothing}
           f == r.first
           l == r.last
           d == r.data
           d1 == r1.data
           s == Contents(r)
<1>1. n \in Nat \ {0}
  BY PipeConstants
<1>2. /\ d \in [0 .. n - 1 -> S] /\ f \in 0 .. n - 1 /\ l \in 0 .. n - 1
      /\ f # l /\ After(f) = Behind(f, n)
  BY PipeRingIsRing DEF PipeRing, After, Behind
<1>3. /\ d1 \in [0 .. n - 1 -> S]
      /\ \A x \in 0 .. n - 1 : x # f => d1[x] = d[x]
      /\ r1.first = Behind(f, n) /\ r1.last = l
  BY <1>2
<1>4. s = RingSeq(d, f, l, n) /\ Contents(r1) = RingSeq(d1, Behind(f, n), l, n)
  BY <1>3, PipeRingIsRing
<1>5. r1 = [data |-> d1, first |-> Behind(f, n), last |-> l]
  BY <1>2
<1>6. s \in Seq(C)
  OBVIOUS
<1> HIDE DEF n, S, f, l, d, d1, s
<1>0. RingOf(d, f, l, n, S) /\ RingOf(d1, f, l, n, S)
  BY <1>1, <1>2, <1>3 DEF RingOf
<1>7. /\ Behind(f, n) \in 0 .. n - 1
      /\ s # <<>> /\ Head(s) = d[f]
      /\ RingSeq(d1, Behind(f, n), l, n) = Tail(s)
  <2>1. SameBut(d, d1, f, n)
    BY <1>3 DEF SameBut
  <2>2. f # l
    BY <1>2
  <2>3. /\ Behind(f, n) \in 0 .. n - 1
        /\ RingSeq(d, f, l, n) # <<>> /\ Head(RingSeq(d, f, l, n)) = d[f]
        /\ RingSeq(d1, Behind(f, n), l, n) = Tail(RingSeq(d, f, l, n))
    BY <1>0, <2>1, <2>2, RingSeqTake
  <2> QED BY <1>4, <2>3
<1>8. r1 \in PipeRing
  BY <1>2, <1>3, <1>5, <1>7 DEF PipeRing, n, S
<1>9. Tail(s) \in Seq(C)
  BY <1>6, <1>7
<1> QED BY <1>4, <1>7, <1>8, <1>9 DEF s, d, f

\* A ring is emptied.
LEMMA PipeClean ==
    ASSUME NEW r \in PipeRing,
           NEW r1, r1 = [data |-> [i \in DOMAIN r.data |-> Nothing],
                         first |-> r.last, last |-> r.last]
    PROVE  r1 \in PipeRing /\ Contents(r1) = <<>> /\ IsEmpty(r1)
<1>1. FifoChars \in Nat \ {0}
  BY PipeConstants
<1>2. r1 \in PipeRing
  BY DEF PipeRing
<1>3. /\ r1.data \in [0 .. FifoChars - 1 -> PipeChars \cup {Nothing}]
      /\ r1.first \in 0 .. FifoChars - 1 /\ r1.last \in 0 .. FifoChars - 1
      /\ r1.first = r1.last
  BY <1>2 DEF PipeRing
<1>4. Contents(r1) = <<>>
  <2>1. RingOf(r1.data, r1.first, r1.last, FifoChars, PipeChars \cup {Nothing})
    BY <1>1, <1>3 DEF RingOf
  <2> QED BY <1>3, <2>1, RingSeqType, PipeRingIsRing
<1> QED BY <1>2, <1>3, <1>4, PipeRingIsRing

-----------------------------------------------------------------------------
\* A call of one task that leaves the rings alone: r is its record afterwards.
LEMMA PipeCallIInv ==
    ASSUME PipeIInv, NEW t \in Callers, NEW r \in CallType, UNCHANGED <<fifo, closed>>,
           call' = [call EXCEPT ![t] = r],
           r.asleep => \/ /\ r.op = "putchar" /\ IsFull(fifo[End(t)]) /\ ~ closed[Peer(t)]
                       \/ /\ r.op = "getchar" /\ IsEmpty(fifo[Peer(t)]) /\ ~ closed[Peer(t)]
                       \/ /\ r.op = "flush" /\ ~ IsEmpty(fifo[End(t)]) /\ ~ closed[Peer(t)]
    PROVE  PipeIInv'
<1>1. call' \in [Callers -> CallType] /\ \A x \in Callers : call'[x] = IF x = t THEN r ELSE call[x]
  BY DEF PipeIInv
<1>2. \A x \in Callers : call'[x].asleep => call'[x].op # "none"
  BY <1>1 DEF PipeIInv
<1>3. NobodySleepsInVain'
  BY <1>1 DEF PipeIInv, NobodySleepsInVain
<1>4. /\ (fifo \in [Ends -> PipeRing])' /\ (closed \in [Ends -> BOOLEAN])'
      /\ \A e \in Ends : Contents(fifo[e])' \in Seq(Chars(e))
  BY DEF PipeIInv, Contents, Reached
<1> QED BY <1>1, <1>2, <1>3, <1>4 DEF PipeIInv, Chars

\* A call that changes the pipe wakes everybody: nobody sleeps, in vain or not.
LEMMA AllWokenIInv ==
    ASSUME PipeIInv, NEW c1, c1 = AllWoken \/ \E t \in Callers : c1 = [AllWoken EXCEPT ![t] = NoCall]
    PROVE  /\ c1 \in [Callers -> CallType]
           /\ \A x \in Callers : ~ c1[x].asleep
<1>1. NoCall \in CallType /\ ~ NoCall.asleep
  BY DEF NoCall, CallType
<1>2. ASSUME NEW x \in Callers
      PROVE  AllWoken[x] \in CallType /\ ~ AllWoken[x].asleep
  <2> DEFINE o == call[x]
  <2>1. o \in CallType
    BY DEF PipeIInv
  <2>2. AllWoken[x] = [o EXCEPT !.asleep = FALSE]
    BY DEF AllWoken
  <2> HIDE DEF o
  <2> QED BY <2>1, <2>2 DEF CallType
<1>3. AllWoken = [x \in Callers |-> AllWoken[x]]
  BY DEF AllWoken
<1>4. CASE c1 = AllWoken
  BY <1>2, <1>3, <1>4
<1>5. ASSUME NEW t \in Callers, c1 = [AllWoken EXCEPT ![t] = NoCall]
      PROVE  /\ c1 \in [Callers -> CallType]
             /\ \A x \in Callers : ~ c1[x].asleep
  <2>1. AllWoken \in [Callers -> CallType]
    BY <1>2, <1>3
  <2>2. \A x \in Callers : c1[x] = IF x = t THEN NoCall ELSE AllWoken[x]
    BY <1>5, <2>1
  <2> QED BY <1>1, <1>2, <1>5, <2>1, <2>2
<1> QED BY <1>4, <1>5

\* The steps that wake everybody, from what they do to the rings.
LEMMA PipeChangedIInv ==
    ASSUME PipeIInv, fifo' \in [Ends -> PipeRing], closed' \in [Ends -> BOOLEAN],
           \A e \in Ends : Contents(fifo'[e]) \in Seq(Chars(e)),
           \/ call' = AllWoken
           \/ \E t \in Callers : call' = [AllWoken EXCEPT ![t] = NoCall]
    PROVE  PipeIInv'
<1>1. /\ call' \in [Callers -> CallType]
      /\ \A x \in Callers : ~ call'[x].asleep
  BY AllWokenIInv
<1>2. NobodySleepsInVain'
  BY <1>1 DEF NobodySleepsInVain
<1>3. \A e \in Ends : Contents(fifo[e])' \in Seq(Chars(e))
  BY DEF Contents, Reached
<1> QED BY <1>1, <1>2, <1>3 DEF PipeIInv, Chars

\* What Put does: the ring of the end grows by the character.
LEMMA PutRings ==
    ASSUME PipeIInv, NEW t \in Callers, NEW c \in Chars(End(t)), Put(t, c)
    PROVE  /\ fifo' \in [Ends -> PipeRing]
           /\ Contents(fifo'[End(t)]) = Append(Contents(fifo[End(t)]), c)
           /\ Contents(fifo'[End(t)]) \in Seq(Chars(End(t)))
           /\ Len(Contents(fifo[End(t)])) < FifoChars - 1
           /\ fifo'[Peer(t)] = fifo[Peer(t)]
<1> DEFINE e == End(t)
           C == Chars(e)
           r == fifo[e]
           r1 == fifo'[e]
<1>1. e \in Ends /\ Peer(t) \in Ends /\ Peer(t) # e
  BY EndsOf
<1>2. r \in PipeRing /\ ~ IsFull(r) /\ Contents(r) \in Seq(C) /\ c \in C /\ C \in SUBSET PipeChars
  BY <1>1, CharsOfEnds DEF PipeIInv, Put
<1>3. fifo' = [fifo EXCEPT ![e].data[r.last] = c, ![e].last = After(@)]
  BY DEF Put
<1>4. /\ r1.data = [r.data EXCEPT ![r.last] = c] /\ r1.first = r.first
      /\ r1.last = After(r.last) /\ r1 = [data |-> r1.data, first |-> r1.first, last |-> r1.last]
      /\ fifo'[Peer(t)] = fifo[Peer(t)]
      /\ fifo' = [x \in Ends |-> IF x = e THEN r1 ELSE fifo[x]]
  BY <1>1, <1>2, <1>3 DEF PipeIInv, PipeRing
<1>5. r1 = [data |-> [r.data EXCEPT ![r.last] = c], first |-> r.first, last |-> After(r.last)]
  BY <1>4
<1> HIDE DEF r, C, r1
<1>6. /\ r1 \in PipeRing
      /\ Contents(r1) = Append(Contents(r), c) /\ Contents(r1) \in Seq(C)
      /\ Len(Contents(r)) < FifoChars - 1
  BY <1>2, <1>5, PipePut
<1>7. fifo' \in [Ends -> PipeRing]
  BY <1>4, <1>6 DEF PipeIInv
<1> QED BY <1>2, <1>4, <1>6, <1>7 DEF r, C, r1

\* What Get does: the ring of the other end loses its oldest character.
LEMMA GetRings ==
    ASSUME PipeIInv, NEW t \in Callers, Get(t)
    PROVE  /\ fifo' \in [Ends -> PipeRing]
           /\ Contents(fifo[Peer(t)]) # <<>>
           /\ Contents(fifo'[Peer(t)]) = Tail(Contents(fifo[Peer(t)]))
           /\ Contents(fifo'[Peer(t)]) \in Seq(Chars(Peer(t)))
           /\ read'[Peer(t)] = <<Head(Contents(fifo[Peer(t)]))>> /\ read'[End(t)] = <<>>
           /\ fifo'[End(t)] = fifo[End(t)]
<1> DEFINE e == Peer(t)
           C == Chars(e)
           r == fifo[e]
           r1 == fifo'[e]
<1>1. e \in Ends /\ End(t) \in Ends /\ End(t) # e
  BY EndsOf
<1>2. r \in PipeRing /\ ~ IsEmpty(r) /\ Contents(r) \in Seq(C) /\ C \in SUBSET PipeChars
  BY <1>1, CharsOfEnds DEF PipeIInv, Get
<1>3. /\ fifo' = [fifo EXCEPT ![e].data[r.first] = Nothing, ![e].first = After(@)]
      /\ read' = [[x \in Ends |-> <<>>] EXCEPT ![e] = <<r.data[r.first]>>]
  BY DEF Get
<1>4. /\ r1.data = [r.data EXCEPT ![r.first] = Nothing] /\ r1.last = r.last
      /\ r1.first = After(r.first) /\ r1 = [data |-> r1.data, first |-> r1.first, last |-> r1.last]
      /\ fifo'[End(t)] = fifo[End(t)]
      /\ fifo' = [x \in Ends |-> IF x = e THEN r1 ELSE fifo[x]]
  BY <1>1, <1>2, <1>3 DEF PipeIInv, PipeRing
<1>5. r1 = [data |-> [r.data EXCEPT ![r.first] = Nothing], first |-> After(r.first), last |-> r.last]
  BY <1>4
<1>6. read'[e] = <<r.data[r.first]>> /\ read'[End(t)] = <<>>
  BY <1>1, <1>3
<1> HIDE DEF r, C, r1
<1>7. /\ r1 \in PipeRing
      /\ Contents(r) # <<>> /\ Head(Contents(r)) = r.data[r.first]
      /\ Contents(r1) = Tail(Contents(r)) /\ Contents(r1) \in Seq(C)
  BY <1>2, <1>5, PipeGet
<1>8. fifo' \in [Ends -> PipeRing]
  BY <1>4, <1>7 DEF PipeIInv
<1> QED BY <1>4, <1>6, <1>7, <1>8 DEF r, C, r1

\* What Close does: the ring that the end reads is emptied.
LEMMA CloseRings ==
    ASSUME PipeIInv, NEW t \in Callers, Close(t)
    PROVE  /\ fifo' \in [Ends -> PipeRing] /\ closed' \in [Ends -> BOOLEAN]
           /\ Contents(fifo'[Peer(t)]) = <<>>
           /\ read'[Peer(t)] = Contents(fifo[Peer(t)]) /\ read'[End(t)] = <<>>
           /\ fifo'[End(t)] = fifo[End(t)]
<1> DEFINE e == Peer(t)
           r == fifo[e]
           r1 == fifo'[e]
<1>1. e \in Ends /\ End(t) \in Ends /\ End(t) # e
  BY EndsOf
<1>2. r \in PipeRing
  BY <1>1 DEF PipeIInv
<1>3. /\ fifo' = [fifo EXCEPT ![e].first = r.last, ![e].data = [i \in DOMAIN @ |-> Nothing]]
      /\ read' = [[x \in Ends |-> <<>>] EXCEPT ![e] = Contents(r)]
      /\ closed' = [closed EXCEPT ![End(t)] = TRUE]
  BY DEF Close
<1>4. /\ r1.data = [i \in DOMAIN r.data |-> Nothing] /\ r1.last = r.last
      /\ r1.first = r.last /\ r1 = [data |-> r1.data, first |-> r1.first, last |-> r1.last]
      /\ fifo'[End(t)] = fifo[End(t)]
      /\ fifo' = [x \in Ends |-> IF x = e THEN r1 ELSE fifo[x]]
  BY <1>1, <1>2, <1>3 DEF PipeIInv, PipeRing
<1>5. r1 = [data |-> [i \in DOMAIN r.data |-> Nothing], first |-> r.last, last |-> r.last]
  BY <1>4
<1>6. read'[e] = Contents(r) /\ read'[End(t)] = <<>> /\ closed' \in [Ends -> BOOLEAN]
  BY <1>1, <1>3 DEF PipeIInv
<1> HIDE DEF r, r1
<1>7. r1 \in PipeRing /\ Contents(r1) = <<>>
  BY <1>2, <1>5, PipeClean
<1>8. fifo' \in [Ends -> PipeRing]
  BY <1>4, <1>7 DEF PipeIInv
<1> QED BY <1>4, <1>6, <1>7, <1>8 DEF r, r1

\* The calls that leave the rings alone.
LEMMA PipeCallsIInv ==
    ASSUME PipeIInv, NEW t \in Callers,
           \/ \E c \in Chars(End(t)) : PutClosed(t, c) \/ PutWait(t, c)
           \/ GetClosed(t) \/ GetWait(t) \/ Flush(t)
    PROVE  PipeIInv'
<1>1. NoCall \in CallType /\ NoCall.op = "none" /\ ~ NoCall.asleep
  BY DEF NoCall, CallType
<1>2. ASSUME Return(t), UNCHANGED <<fifo, closed>>
      PROVE  PipeIInv'
  BY <1>1, <1>2, PipeCallIInv DEF Return
<1>3. ASSUME NEW c \in PipeChars \cup {Nothing}, NEW op \in {"putchar", "getchar", "flush"},
             Sleep(t, op, c), UNCHANGED <<fifo, closed>>,
             \/ op = "putchar" /\ IsFull(fifo[End(t)]) /\ ~ closed[Peer(t)]
             \/ op = "getchar" /\ IsEmpty(fifo[Peer(t)]) /\ ~ closed[Peer(t)]
             \/ op = "flush" /\ ~ IsEmpty(fifo[End(t)]) /\ ~ closed[Peer(t)]
      PROVE  PipeIInv'
  <2> DEFINE z == [op |-> op, char |-> c, asleep |-> TRUE]
  <2>1. z \in CallType /\ z.op = op
    BY DEF CallType
  <2>2. call' = [call EXCEPT ![t] = z]
    BY <1>3 DEF Sleep
  <2> HIDE DEF z
  <2> QED BY <1>3, <2>1, <2>2, PipeCallIInv
<1>4. ASSUME NEW c \in Chars(End(t)), PutClosed(t, c) \/ PutWait(t, c)
      PROVE  PipeIInv'
  <2>1. c \in PipeChars
    BY <1>4, EndsOf, CharsOfEnds
  <2>2. CASE PutClosed(t, c)
    BY <1>2, <2>2 DEF PutClosed
  <2>3. CASE PutWait(t, c)
    BY <1>3, <2>1, <2>3 DEF PutWait
  <2> QED BY <1>4, <2>2, <2>3
<1>5. CASE GetClosed(t)
  BY <1>2, <1>5 DEF GetClosed
<1>6. CASE GetWait(t)
  BY <1>3, <1>6 DEF GetWait
<1>7. CASE Flush(t)
  BY <1>2, <1>3, <1>7 DEF Flush
<1> QED BY <1>4, <1>5, <1>6, <1>7

\* There are two ends, of each task its own and the other.
LEMMA EachEnd == ASSUME NEW t \in Callers, NEW e \in Ends
                 PROVE  e = End(t) \/ e = Peer(t)
BY DEF End, Peer, Ends

\* The inductive invariant of the pipe holds at first.
LEMMA PipeInitIInv == PipeInit => PipeIInv
<1> SUFFICES ASSUME PipeInit PROVE PipeIInv
  OBVIOUS
<1> DEFINE d == [i \in 0 .. FifoChars - 1 |-> Nothing]
           r == [data |-> d, first |-> 0, last |-> 0]
<1>1. FifoChars \in Nat \ {0} /\ 0 \in 0 .. FifoChars - 1
  BY PipeConstants
<1>2. d \in [0 .. FifoChars - 1 -> PipeChars \cup {Nothing}]
  OBVIOUS
<1>3. fifo = [e \in Ends |-> r]
  BY DEF PipeInit
<1> HIDE DEF d
<1>4. r \in PipeRing
  BY <1>1, <1>2 DEF PipeRing
<1>5. Contents(r) = <<>>
  <2>1. RingOf(d, 0, 0, FifoChars, PipeChars \cup {Nothing})
    BY <1>1, <1>2 DEF RingOf
  <2>2. RingSeq(d, 0, 0, FifoChars) = <<>>
    BY <2>1, RingSeqType
  <2> QED BY <2>2, PipeRingIsRing
<1> HIDE DEF r
<1>6. NoCall \in CallType /\ NoCall.op = "none" /\ ~ NoCall.asleep
  BY DEF NoCall, CallType
<1>7. \A t \in Callers : call[t] = NoCall
  BY DEF PipeInit
<1>8. call \in [Callers -> CallType] /\ closed \in [Ends -> BOOLEAN]
  BY <1>6 DEF PipeInit
<1>9. NobodySleepsInVain
  BY <1>6, <1>7 DEF NobodySleepsInVain
<1>10. \A e \in Ends : fifo[e] = r /\ Contents(fifo[e]) \in Seq(Chars(e))
  BY <1>3, <1>5
<1>11. fifo \in [Ends -> PipeRing]
  BY <1>3, <1>4
<1> QED BY <1>6, <1>7, <1>8, <1>9, <1>10, <1>11 DEF PipeIInv

\* Each step keeps it.
LEMMA PipeStepIInv == PipeIInv /\ [PipeNext]_pipeVars => PipeIInv'
<1> SUFFICES ASSUME PipeIInv, [PipeNext]_pipeVars PROVE PipeIInv'
  OBVIOUS
<1>1. CASE UNCHANGED pipeVars
  BY <1>1
  DEF PipeIInv, pipeVars, NobodySleepsInVain, IsFull, IsEmpty, Contents, Reached, Chars
<1>2. ASSUME NEW t \in Callers, NEW c \in Chars(End(t)), Put(t, c)
      PROVE  PipeIInv'
  <2>1. /\ fifo' \in [Ends -> PipeRing] /\ fifo'[Peer(t)] = fifo[Peer(t)]
        /\ Contents(fifo'[End(t)]) \in Seq(Chars(End(t)))
    BY <1>2, PutRings
  <2>2. \A e \in Ends : Contents(fifo'[e]) \in Seq(Chars(e))
    BY <2>1, EachEnd DEF PipeIInv
  <2>3. closed' \in [Ends -> BOOLEAN] /\ call' = [AllWoken EXCEPT ![t] = NoCall]
    BY <1>2 DEF Put, SignalReturn, PipeIInv
  <2> QED BY <2>1, <2>2, <2>3, PipeChangedIInv
<1>3. ASSUME NEW t \in Callers, Get(t)
      PROVE  PipeIInv'
  <2>1. /\ fifo' \in [Ends -> PipeRing] /\ fifo'[End(t)] = fifo[End(t)]
        /\ Contents(fifo'[Peer(t)]) \in Seq(Chars(Peer(t)))
    BY <1>3, GetRings
  <2>2. \A e \in Ends : Contents(fifo'[e]) \in Seq(Chars(e))
    BY <2>1, EachEnd DEF PipeIInv
  <2>3. closed' \in [Ends -> BOOLEAN] /\ call' = [AllWoken EXCEPT ![t] = NoCall]
    BY <1>3 DEF Get, SignalReturn, PipeIInv
  <2> QED BY <2>1, <2>2, <2>3, PipeChangedIInv
<1>4. ASSUME NEW t \in Callers, Close(t)
      PROVE  PipeIInv'
  <2>1. /\ fifo' \in [Ends -> PipeRing] /\ fifo'[End(t)] = fifo[End(t)]
        /\ Contents(fifo'[Peer(t)]) = <<>> /\ closed' \in [Ends -> BOOLEAN]
    BY <1>4, CloseRings
  <2>2. \A e \in Ends : Contents(fifo'[e]) \in Seq(Chars(e))
    <3>1. Contents(fifo'[End(t)]) \in Seq(Chars(End(t)))
      BY <2>1, EndsOf DEF PipeIInv
    <3>2. \A C : <<>> \in Seq(C)
      OBVIOUS
    <3> QED BY <2>1, <3>1, <3>2, EachEnd
  <2>3. call' = AllWoken
    BY <1>4 DEF Close
  <2> QED BY <2>1, <2>2, <2>3, PipeChangedIInv
<1> QED BY <1>1, <1>2, <1>3, <1>4, PipeCallsIInv DEF PipeNext

\* pipe.c: a task that sleeps in a call of a pipe waits for something that has
\* not happened.  One lock and one signal serve the waiters of both directions;
\* a full ring for putchar, an empty one for getchar, one not yet empty for
\* flush, are tested again after each waking.
THEOREM NobodySleepsInVainOnThePipe == PipeSpec => [](PipeTypeOK /\ NobodySleepsInVain)
<1>1. PipeInit => PipeIInv
  BY PipeInitIInv
<1>2. PipeIInv /\ [PipeNext]_pipeVars => PipeIInv'
  BY PipeStepIInv
<1>3. PipeIInv => PipeTypeOK /\ NobodySleepsInVain
  BY DEF PipeIInv, PipeTypeOK, PipeRing, CallType
<1> QED BY <1>1, <1>2, <1>3, PTL DEF PipeSpec

\* What a step of the pipe does to the ring of an end, as a FIFO.
FifoStep(C, s, s1, g1) ==
    \/ \E c \in C : Len(s) < FifoChars - 1 /\ s1 = Append(s, c) /\ g1 = <<>>
    \/ s # <<>> /\ s1 = Tail(s) /\ g1 = <<Head(s)>>
    \/ s1 = <<>> /\ g1 = s
    \/ g1 = <<>> /\ s1 = s

\* Each step is a step of a FIFO for the ring of either end.
LEMMA PipeStepFifo ==
    ASSUME PipeIInv, PipeNext, NEW e \in Ends
    PROVE  FifoStep(Chars(e), Contents(fifo[e]), Contents(fifo'[e]), read'[e])
<1> PICK t \in Callers :
        \/ \E c \in Chars(End(t)) : PutClosed(t, c) \/ PutWait(t, c) \/ Put(t, c)
        \/ GetClosed(t) \/ GetWait(t) \/ Get(t)
        \/ Flush(t)
        \/ Close(t)
  BY DEF PipeNext
<1>1. e = End(t) \/ e = Peer(t)
  BY EachEnd
<1>2. ASSUME read' = [x \in Ends |-> <<>>], fifo'[e] = fifo[e]
      PROVE  FifoStep(Chars(e), Contents(fifo[e]), Contents(fifo'[e]), read'[e])
  BY <1>2 DEF FifoStep
<1>3. ASSUME NEW c \in Chars(End(t)), Put(t, c)
      PROVE  FifoStep(Chars(e), Contents(fifo[e]), Contents(fifo'[e]), read'[e])
  <2>1. read' = [x \in Ends |-> <<>>] /\ read'[e] = <<>>
    BY <1>3 DEF Put, ReadNothing
  <2>2. CASE e = End(t)
    BY <1>3, <2>1, <2>2, PutRings DEF FifoStep
  <2>3. CASE e = Peer(t)
    BY <1>2, <1>3, <2>1, <2>3, PutRings
  <2> QED BY <1>1, <2>2, <2>3
<1>4. CASE Get(t)
  <2>1. CASE e = Peer(t)
    BY <1>4, <2>1, GetRings DEF FifoStep
  <2>2. CASE e = End(t)
    BY <1>4, <2>2, GetRings DEF FifoStep
  <2> QED BY <1>1, <2>1, <2>2
<1>5. CASE Close(t)
  <2>1. CASE e = Peer(t)
    BY <1>5, <2>1, CloseRings DEF FifoStep
  <2>2. CASE e = End(t)
    BY <1>5, <2>2, CloseRings DEF FifoStep
  <2> QED BY <1>1, <2>1, <2>2
<1>6. CASE \/ \E c \in Chars(End(t)) : PutClosed(t, c) \/ PutWait(t, c)
           \/ GetClosed(t) \/ GetWait(t) \/ Flush(t)
  <2>1. read' = [x \in Ends |-> <<>>] /\ UNCHANGED fifo
    BY <1>6 DEF PutClosed, PutWait, GetClosed, GetWait, Flush, ReadNothing
  <2> QED BY <1>2, <2>1
<1> QED BY <1>3, <1>4, <1>5, <1>6

\* pipe.c: each direction is a FIFO of fifo_chars - 1 characters.  What is read
\* at one end was written at the other, in that order and once; only the close
\* of the reader throws characters away.
THEOREM PipeImplementsStreams == PipeSpec => ImplementsStreams
<1>1. PipeInit => AOut!Init /\ AIn!Init
  <2> SUFFICES ASSUME PipeInit PROVE AOut!Init /\ AIn!Init
    OBVIOUS
  <2>1. PipeIInv
    BY PipeInitIInv
  <2>2. \A e \in Ends : IsEmpty(fifo[e]) /\ read[e] = <<>>
    BY DEF PipeInit, IsEmpty
  <2>3. ASSUME NEW e \in Ends
        PROVE  Contents(fifo[e]) = <<>>
    <3>1. /\ fifo[e].data \in [0 .. FifoChars - 1 -> PipeChars \cup {Nothing}]
          /\ fifo[e].first \in 0 .. FifoChars - 1 /\ fifo[e].last \in 0 .. FifoChars - 1
          /\ fifo[e].first = fifo[e].last
      BY <2>1, <2>2 DEF PipeIInv, PipeRing, IsEmpty
    <3>2. RingOf(fifo[e].data, fifo[e].first, fifo[e].last, FifoChars, PipeChars \cup {Nothing})
      BY <3>1, PipeConstants DEF RingOf
    <3> QED BY <3>1, <3>2, RingSeqType, PipeRingIsRing
  <2> QED BY <2>2, <2>3 DEF Ends, AOut!Init, AIn!Init
<1>2. PipeIInv /\ [PipeNext]_pipeVars => [AOut!Next]_AOut!vars /\ [AIn!Next]_AIn!vars
  <2> SUFFICES ASSUME PipeIInv, [PipeNext]_pipeVars
               PROVE  [AOut!Next]_AOut!vars /\ [AIn!Next]_AIn!vars
    OBVIOUS
  <2>1. CASE UNCHANGED pipeVars
    BY <2>1 DEF pipeVars, AOut!vars, AIn!vars, Contents, Reached
  <2>2. CASE PipeNext
    <3>1. \A e \in Ends : FifoStep(Chars(e), Contents(fifo[e]), Contents(fifo[e])', read'[e])
      BY <2>2, PipeStepFifo DEF Contents, Reached
    <3>2. FifoStep(MasterChars, Contents(fifo["master"]), Contents(fifo["master"])', read'["master"])
      BY <3>1 DEF Ends, Chars
    <3>3. FifoStep(SlaveChars, Contents(fifo["slave"]), Contents(fifo["slave"])', read'["slave"])
      BY <3>1 DEF Ends, Chars
    <3>4. AOut!Next
      BY <3>2 DEF FifoStep, AOut!Next, AOut!Put, AOut!Get, AOut!Clean, AOut!CallIdle
    <3>5. AIn!Next
      BY <3>3 DEF FifoStep, AIn!Next, AIn!Put, AIn!Get, AIn!Clean, AIn!CallIdle
    <3> QED BY <3>4, <3>5
  <2> QED BY <2>1, <2>2
<1>3. PipeInit => PipeIInv
  BY PipeInitIInv
<1>4. PipeIInv /\ [PipeNext]_pipeVars => PipeIInv'
  BY PipeStepIInv
<1> QED BY <1>1, <1>2, <1>3, <1>4, PTL DEF PipeSpec, ImplementsStreams, AOut!Spec, AIn!Spec

-----------------------------------------------------------------------------
(***************************************************************************)
(* The receiving half of the UART.                                         *)
(***************************************************************************)
InRing == [data : [0 .. InBufSize - 1 -> InBytes \cup {NoByte}],
           first : 0 .. InBufSize - 1, last : 0 .. InBufSize - 1]

RxType == [enabled : BOOLEAN, buf : InBytes \cup {NoByte}, fresh : BOOLEAN,
           flag : BOOLEAN, ie : BOOLEAN]

ReaderPlaces   == {"absent", "asleep", "woken", "testing"}
ReceiverPlaces == {"absent", "waiting", "asleep", "woken", "receiving"}
Holding        == {"waiting", "receiving", "testing"}

\* Where the tasks are, and who has the lock.
TasksInPlace ==
    /\ pc \in [Readers \cup {Receiver} -> ReaderPlaces \cup ReceiverPlaces]
    /\ pc[Receiver] \in ReceiverPlaces
    /\ \A t \in Readers : pc[t] \in ReaderPlaces
    /\ inHolder \in Readers \cup {Receiver, NoReader}
    /\ \A t \in Readers \cup {Receiver} : inHolder = t <=> pc[t] \in Holding

\* The receiver is on its way to RXBUF.
OnItsWay == pc[Receiver] \in {"woken", "receiving"}

\* A byte that is flagged, or that the receiver is on its way to, has not been
\* read yet.
BytesAreFresh ==
    /\ rx.flag => rx.fresh
    /\ OnItsWay => rx.fresh
    /\ rx.fresh => rx.buf \in InBytes

\* A reader sleeps on an empty ring, or on the byte that the receiver, which was
\* on its way when the reader fell asleep, has stored since.
AsleepOnOneByte ==
    \A t \in Readers : pc[t] = "asleep" =>
        Len(Stored) <= 1 /\ (OnItsWay => Stored = <<>>)

\* The inductive invariant of the receiving half.
InIInv ==
    /\ in \in InRing
    /\ rx \in RxType
    /\ Stored \in Seq(InBytes)
    /\ TasksInPlace
    /\ BytesAreFresh
    /\ AsleepOnOneByte

\* The ring of the receiver, of any pointers and data.
LEMMA StoredIsRing ==
    /\ Stored = RingSeq(in.data, in.first, in.last, InBufSize)
    /\ \A i : Further(i) = Behind(i, InBufSize)
BY DEF Stored, RingSeq, Span, Further, Behind

\* The ring of the receiver after a step.
LEMMA StoredIsRingNext ==
    Stored' = RingSeq(in'.data, in'.first, in'.last, InBufSize)
BY DEF Stored, RingSeq, Span

\* The places of the ring, as the lemmas on rings have them.
LEMMA InRingOf ==
    ASSUME NEW r \in InRing
    PROVE  RingOf(r.data, r.first, r.last, InBufSize, InBytes \cup {NoByte})
BY InConstants DEF InRing, RingOf

\* What the receiver does to the ring: the byte is stored at its end, or there
\* is no place for it.
LEMMA StoresByte ==
    ASSUME in \in InRing, NEW c \in InBytes, StoredUnlessFull(c), Stored \in Seq(InBytes)
    PROVE  /\ in' \in InRing
           /\ \/ Stored' = Append(Stored, c)
              \/ Stored' = Stored /\ Len(Stored) = InBufSize - 1
           /\ Len(Stored) < InBufSize /\ Stored' \in Seq(InBytes)
<1> DEFINE n == InBufSize
           S == InBytes \cup {NoByte}
           f == in.first
           l == in.last
           d == in.data
           d1 == in'.data
<1>1. n \in Nat \ {0} /\ n > 1
  BY InConstants
<1>2. /\ d \in [0 .. n - 1 -> S] /\ f \in 0 .. n - 1 /\ l \in 0 .. n - 1
      /\ Further(l) = Behind(l, n)
  BY StoredIsRing DEF InRing
<1>3. Stored = RingSeq(d, f, l, n) /\ Stored' = RingSeq(d1, in'.first, in'.last, n)
  BY StoredIsRing, StoredIsRingNext
<1>4. RingOf(d, f, l, n, S)
  BY InRingOf
<1>5. Len(Stored) = Span(f, l, n) /\ Len(Stored) \in 0 .. n - 1
  <2> HIDE DEF n, S, f, l, d
  <2> QED BY <1>3, <1>4, RingSeqType
<1>6. CASE Behind(l, n) = f
  <2>1. in' = in
    BY <1>2, <1>6 DEF StoredUnlessFull
  <2>2. Stored' = Stored
    BY <2>1 DEF Stored
  <2>3. Span(f, l, n) = n - 1
    <3> HIDE DEF n, f, l
    <3>1. Span(f, l, n) = IF l >= f THEN l - f ELSE l - f + n
      BY <1>1, <1>2, SpanOf
    <3> QED BY <1>1, <1>2, <1>6, <3>1 DEF Behind
  <2> QED BY <1>1, <1>5, <2>1, <2>2, <2>3
<1>7. CASE Behind(l, n) # f
  <2>1. in' = [in EXCEPT !.data[l] = c, !.last = Further(@)]
    BY <1>2, <1>7 DEF StoredUnlessFull
  <2>2. /\ d1 = [d EXCEPT ![l] = c] /\ in'.first = f /\ in'.last = Behind(l, n)
        /\ in' = [data |-> d1, first |-> f, last |-> Behind(l, n)]
    BY <1>2, <2>1 DEF InRing
  <2>3. d1 \in [0 .. n - 1 -> S] /\ d1[l] = c /\ \A x \in 0 .. n - 1 : x # l => d1[x] = d[x]
    BY <1>2, <2>2
  <2> HIDE DEF n, S, f, l, d, d1
  <2>4. RingOf(d1, f, l, n, S) /\ SameBut(d, d1, l, n)
    BY <1>1, <1>2, <2>3 DEF RingOf, SameBut
  <2>5. /\ Behind(l, n) \in 0 .. n - 1
        /\ RingSeq(d1, f, Behind(l, n), n) = Append(RingSeq(d, f, l, n), d1[l])
        /\ Span(f, l, n) < n - 1
    BY <1>4, <1>7, <2>4, RingSeqPut
  <2>6. Stored' = Append(Stored, c)
    BY <1>3, <2>2, <2>3, <2>5
  <2>7. in' \in InRing
    BY <1>2, <2>2, <2>3, <2>5 DEF InRing, n, S
  <2> QED BY <1>1, <1>5, <2>6, <2>7 DEF n
<1> QED BY <1>6, <1>7

\* What uart_getchar does to the ring.
LEMMA TakesByte ==
    ASSUME in \in InRing, Stored \in Seq(InBytes), ~ InEmpty,
           in' = [in EXCEPT !.data[in.first] = NoByte, !.first = Further(@)]
    PROVE  /\ in' \in InRing
           /\ Stored # <<>> /\ Head(Stored) = in.data[in.first]
           /\ Stored' = Tail(Stored) /\ Stored' \in Seq(InBytes)
<1> DEFINE n == InBufSize
           S == InBytes \cup {NoByte}
           f == in.first
           l == in.last
           d == in.data
           d1 == in'.data
<1>1. n \in Nat \ {0}
  BY InConstants
<1>2. /\ d \in [0 .. n - 1 -> S] /\ f \in 0 .. n - 1 /\ l \in 0 .. n - 1
      /\ Further(f) = Behind(f, n) /\ f # l
  BY StoredIsRing DEF InRing, InEmpty
<1>3. Stored = RingSeq(d, f, l, n) /\ Stored' = RingSeq(d1, in'.first, in'.last, n)
  BY StoredIsRing, StoredIsRingNext
<1>4. RingOf(d, f, l, n, S)
  BY InRingOf
<1>5. /\ d1 = [d EXCEPT ![f] = NoByte] /\ in'.last = l /\ in'.first = Behind(f, n)
      /\ in' = [data |-> d1, first |-> Behind(f, n), last |-> l]
  BY <1>2 DEF InRing
<1>6. d1 \in [0 .. n - 1 -> S] /\ \A x \in 0 .. n - 1 : x # f => d1[x] = d[x]
  BY <1>2, <1>5
<1> HIDE DEF n, S, f, l, d, d1
<1>7. RingOf(d1, f, l, n, S) /\ SameBut(d, d1, f, n)
  BY <1>1, <1>2, <1>6 DEF RingOf, SameBut
<1>8. f # l
  BY <1>2
<1>9. /\ Behind(f, n) \in 0 .. n - 1
      /\ RingSeq(d, f, l, n) # <<>> /\ Head(RingSeq(d, f, l, n)) = d[f]
      /\ RingSeq(d1, Behind(f, n), l, n) = Tail(RingSeq(d, f, l, n))
  BY <1>4, <1>7, <1>8, RingSeqTake
<1>10. Stored # <<>> /\ Head(Stored) = d[f] /\ Stored' = Tail(Stored)
  BY <1>3, <1>5, <1>9
<1>11. in' \in InRing
  BY <1>2, <1>5, <1>6, <1>9 DEF InRing, n, S
<1>12. Tail(Stored) \in Seq(InBytes)
  BY <1>10
<1> QED BY <1>10, <1>11, <1>12 DEF d, f

\* The lengths of sequences.
LEMMA SeqLengths ==
    ASSUME NEW S, NEW s \in Seq(S)
    PROVE  /\ Len(s) \in Nat /\ (s = <<>> <=> Len(s) = 0)
           /\ s # <<>> => Len(s) > 0 /\ Len(Tail(s)) = Len(s) - 1
           /\ \A c \in S : Len(Append(s, c)) = Len(s) + 1
OBVIOUS

\* The receiver's invariant holds at first.
LEMMA InInitIInv == InInit => InIInv
<1> SUFFICES ASSUME InInit PROVE InIInv
  OBVIOUS
<1> DEFINE n == InBufSize
           d == [i \in 0 .. n - 1 |-> NoByte]
<1>1. n \in Nat \ {0} /\ 0 \in 0 .. n - 1
  BY InConstants
<1>2. d \in [0 .. n - 1 -> InBytes \cup {NoByte}] /\ in = [data |-> d, first |-> 0, last |-> 0]
  BY DEF InInit
<1> HIDE DEF d
<1>3. in \in InRing
  BY <1>1, <1>2 DEF InRing
<1>4. Stored = <<>>
  <2>1. RingOf(d, 0, 0, n, InBytes \cup {NoByte})
    BY <1>1, <1>2 DEF RingOf
  <2>2. RingSeq(d, 0, 0, n) = <<>>
    BY <2>1, RingSeqType
  <2> QED BY <1>2, <2>2, StoredIsRing
<1>5. TasksInPlace
  BY InConstants DEF InInit, TasksInPlace, ReaderPlaces, ReceiverPlaces, Holding
<1>6. rx \in RxType /\ BytesAreFresh
  BY DEF InInit, RxType, BytesAreFresh, OnItsWay
<1>7. AsleepOnOneByte
  BY <1>4 DEF AsleepOnOneByte
<1> QED BY <1>3, <1>4, <1>5, <1>6, <1>7 DEF InIInv

\* A task goes from one place to another, taking or leaving the lock or not.
LEMMA PlaceChanges ==
    ASSUME TasksInPlace, NEW t \in Readers \cup {Receiver},
           NEW p \in ReaderPlaces \cup ReceiverPlaces,
           t = Receiver => p \in ReceiverPlaces, t # Receiver => p \in ReaderPlaces,
           pc' = [pc EXCEPT ![t] = p],
           \/ p \in Holding /\ inHolder = NoReader /\ inHolder' = t
           \/ p \in Holding /\ inHolder = t /\ inHolder' = t
           \/ p \notin Holding /\ inHolder = t /\ inHolder' = NoReader
    PROVE  /\ TasksInPlace'
           /\ \A x \in Readers \cup {Receiver} : pc'[x] = IF x = t THEN p ELSE pc[x]
<1>1. /\ pc' \in [Readers \cup {Receiver} -> ReaderPlaces \cup ReceiverPlaces]
      /\ \A x \in Readers \cup {Receiver} : pc'[x] = IF x = t THEN p ELSE pc[x]
  BY DEF TasksInPlace
<1>2. Receiver \notin Readers /\ NoReader \notin Readers \cup {Receiver}
  BY InConstants
<1>3. inHolder' \in Readers \cup {Receiver, NoReader}
  OBVIOUS
<1>4. \A x \in Readers \cup {Receiver} : inHolder' = x <=> pc'[x] \in Holding
  BY <1>1, <1>2 DEF TasksInPlace
<1> QED BY <1>1, <1>2, <1>3, <1>4 DEF TasksInPlace

\* All waiters are woken.
LEMMA AllWaitersWoken ==
    ASSUME TasksInPlace, pc' = WokenAll, UNCHANGED inHolder
    PROVE  /\ TasksInPlace'
           /\ \A x \in Readers \cup {Receiver} : pc'[x] # "asleep"
           /\ pc'[Receiver] = "woken" => pc[Receiver] \in {"asleep", "woken"}
<1>1. \A x \in Readers \cup {Receiver} : pc'[x] = IF pc[x] = "asleep" THEN "woken" ELSE pc[x]
  BY DEF WokenAll, TasksInPlace
<1>2. pc' \in [Readers \cup {Receiver} -> ReaderPlaces \cup ReceiverPlaces]
  BY DEF WokenAll, TasksInPlace, ReaderPlaces, ReceiverPlaces
<1> QED BY <1>1, <1>2 DEF TasksInPlace, ReaderPlaces, ReceiverPlaces, Holding

\* Each step of the receiving half keeps its invariant.
LEMMA InStepIInv == InIInv /\ [InNext]_inVars => InIInv'
<1> SUFFICES ASSUME InIInv, [InNext]_inVars PROVE InIInv'
  OBVIOUS
<1>0. Receiver \notin Readers /\ NoReader \notin Readers \cup {Receiver}
  BY InConstants
<1> USE DEF InIInv
<1>1. ASSUME UNCHANGED in PROVE UNCHANGED Stored
  BY <1>1 DEF Stored
<1>2. CASE UNCHANGED inVars
  BY <1>1, <1>2 DEF inVars, TasksInPlace, BytesAreFresh, AsleepOnOneByte, OnItsWay
<1>3. ASSUME NEW c \in InBytes, ByteReceived(c) PROVE InIInv'
  <2>1. /\ rx' \in RxType /\ rx'.fresh /\ rx'.buf = c
        /\ UNCHANGED <<in, inHolder, pc>>
    BY <1>3 DEF ByteReceived, RxType
  <2> QED BY <1>1, <2>1 DEF TasksInPlace, BytesAreFresh, AsleepOnOneByte, OnItsWay
<1>4. CASE ReceiveInterrupt
  <2>1. /\ rx' \in RxType /\ rx.flag /\ ~ rx'.flag /\ rx'.fresh = rx.fresh /\ rx'.buf = rx.buf
        /\ pc' = WokenAll /\ UNCHANGED <<in, inHolder>>
    BY <1>4 DEF ReceiveInterrupt, RxType
  <2>2. /\ TasksInPlace' /\ \A x \in Readers : pc'[x] # "asleep"
    BY <2>1, AllWaitersWoken
  <2>3. BytesAreFresh'
    BY <2>1 DEF BytesAreFresh
  <2>4. AsleepOnOneByte'
    BY <2>2 DEF AsleepOnOneByte
  <2> QED BY <1>1, <2>1, <2>2, <2>3, <2>4
<1>5. CASE ReceiverStarts
  <2>1. /\ rx' \in RxType /\ UNCHANGED in
        /\ rx'.flag = rx.flag /\ rx'.fresh = rx.fresh /\ rx'.buf = rx.buf
    BY <1>5 DEF ReceiverStarts, RxType
  <2>2. TasksInPlace' /\ \A x \in Readers \cup {Receiver} : pc'[x] = IF x = Receiver THEN "waiting" ELSE pc[x]
    BY <1>5, PlaceChanges DEF ReceiverStarts, Lock, ReaderPlaces, ReceiverPlaces, Holding
  <2> QED BY <1>0, <1>1, <2>1, <2>2 DEF BytesAreFresh, AsleepOnOneByte, OnItsWay
<1>6. CASE ReceiverWaits
  <2>1. /\ rx' \in RxType /\ UNCHANGED in
        /\ rx'.flag = rx.flag /\ rx'.fresh = rx.fresh /\ rx'.buf = rx.buf
    BY <1>6 DEF ReceiverWaits, FallAsleep, RxType
  <2>2. inHolder = Receiver
    BY <1>6 DEF ReceiverWaits, TasksInPlace, Holding
  <2>3. TasksInPlace' /\ \A x \in Readers \cup {Receiver} : pc'[x] = IF x = Receiver THEN "asleep" ELSE pc[x]
    BY <1>6, <2>2, PlaceChanges DEF ReceiverWaits, FallAsleep, ReaderPlaces, ReceiverPlaces, Holding
  <2> QED BY <1>0, <1>1, <2>1, <2>3 DEF BytesAreFresh, AsleepOnOneByte, OnItsWay
<1>7. CASE ReceiverRelocks
  <2>1. UNCHANGED <<in, rx>>
    BY <1>7 DEF ReceiverRelocks
  <2>2. pc[Receiver] = "woken"
    BY <1>7 DEF ReceiverRelocks
  <2>3. TasksInPlace' /\ \A x \in Readers \cup {Receiver} : pc'[x] = IF x = Receiver THEN "receiving" ELSE pc[x]
    BY <1>7, PlaceChanges DEF ReceiverRelocks, Lock, ReaderPlaces, ReceiverPlaces, Holding
  <2> QED BY <1>0, <1>1, <2>1, <2>2, <2>3 DEF BytesAreFresh, AsleepOnOneByte, OnItsWay
<1>8. CASE ReceiverStores
  <2>1. /\ rx' \in RxType /\ ~ rx'.fresh /\ ~ rx'.flag
        /\ UNCHANGED inHolder /\ pc[Receiver] = "receiving"
    BY <1>8 DEF ReceiverStores, RxType
  <2>2. rx.buf \in InBytes
    BY <2>1 DEF BytesAreFresh, OnItsWay
  <2>3. /\ in' \in InRing
        /\ \/ Stored' = Append(Stored, rx.buf)
           \/ Stored' = Stored
        /\ Stored' \in Seq(InBytes)
    BY <1>8, <2>2, StoresByte DEF ReceiverStores
  <2>4. inHolder = Receiver
    BY <2>1 DEF TasksInPlace, Holding
  <2>5. TasksInPlace' /\ \A x \in Readers \cup {Receiver} : pc'[x] = IF x = Receiver THEN "waiting" ELSE pc[x]
    BY <1>8, <2>4, PlaceChanges DEF ReceiverStores, ReaderPlaces, ReceiverPlaces, Holding
  <2>6. BytesAreFresh'
    BY <2>1, <2>5 DEF BytesAreFresh, OnItsWay
  <2>7. AsleepOnOneByte'
    <3> SUFFICES ASSUME NEW t \in Readers, pc'[t] = "asleep"
                 PROVE  Len(Stored') <= 1
      BY <2>5 DEF AsleepOnOneByte, OnItsWay
    <3>1. pc[t] = "asleep"
      BY <1>0, <2>5
    <3>2. Stored = <<>> /\ Stored \in Seq(InBytes)
      BY <2>1, <3>1 DEF AsleepOnOneByte, OnItsWay
    <3>3. Len(Stored) = 0
      BY <3>2, SeqLengths
    <3>4. Len(Append(Stored, rx.buf)) = 1
      BY <2>2, <3>2, <3>3, SeqLengths
    <3>5. CASE Stored' = Stored
      BY <3>3, <3>5
    <3>6. CASE Stored' = Append(Stored, rx.buf)
      BY <3>4, <3>6
    <3> QED BY <2>3, <3>5, <3>6
  <2> QED BY <2>1, <2>3, <2>5, <2>6, <2>7
<1>9. ASSUME NEW t \in Readers, Getchar(t) PROVE InIInv'
  <2>1. UNCHANGED <<in, rx>>
    BY <1>9 DEF Getchar
  <2>2. TasksInPlace' /\ \A x \in Readers \cup {Receiver} : pc'[x] = IF x = t THEN "testing" ELSE pc[x]
    BY <1>0, <1>9, PlaceChanges DEF Getchar, Lock, ReaderPlaces, ReceiverPlaces, Holding
  <2> QED BY <1>0, <1>1, <2>1, <2>2 DEF BytesAreFresh, AsleepOnOneByte, OnItsWay
<1>10. ASSUME NEW t \in Readers, GetcharWaits(t) PROVE InIInv'
  <2>1. /\ rx' \in RxType /\ UNCHANGED in /\ pc[t] = "testing"
        /\ rx'.flag = rx.flag /\ rx'.fresh = rx.fresh /\ rx'.buf = rx.buf
    BY <1>10 DEF GetcharWaits, FallAsleep, RxType
  <2>2. inHolder = t
    BY <2>1 DEF TasksInPlace, Holding
  <2>3. TasksInPlace' /\ \A x \in Readers \cup {Receiver} : pc'[x] = IF x = t THEN "asleep" ELSE pc[x]
    BY <1>0, <1>10, <2>2, PlaceChanges DEF GetcharWaits, FallAsleep, ReaderPlaces, ReceiverPlaces, Holding
  <2>4. Stored = <<>>
    <3> DEFINE S == InBytes \cup {NoByte}
    <3>1. RingOf(in.data, in.first, in.last, InBufSize, S) /\ in.first = in.last
      BY <1>10, InRingOf DEF GetcharWaits, InEmpty
    <3> HIDE DEF S
    <3>2. RingSeq(in.data, in.first, in.last, InBufSize) = <<>>
      BY <3>1, RingSeqType
    <3> QED BY <3>2, StoredIsRing
  <2>5. Len(Stored) = 0
    BY <2>4
  <2>6. AsleepOnOneByte'
    <3>1. Stored' = <<>> /\ Len(Stored') = 0
      BY <1>1, <2>1, <2>4, <2>5
    <3> QED BY <3>1 DEF AsleepOnOneByte
  <2> QED BY <1>0, <1>1, <2>1, <2>3, <2>6 DEF BytesAreFresh, OnItsWay
<1>11. ASSUME NEW t \in Readers, GetcharReturns(t) PROVE InIInv'
  <2>1. UNCHANGED rx /\ pc[t] = "testing"
    BY <1>11 DEF GetcharReturns
  <2>2. inHolder = t
    BY <2>1 DEF TasksInPlace, Holding
  <2>3. TasksInPlace' /\ \A x \in Readers \cup {Receiver} : pc'[x] = IF x = t THEN "absent" ELSE pc[x]
    BY <1>0, <1>11, <2>2, PlaceChanges DEF GetcharReturns, ReaderPlaces, ReceiverPlaces, Holding
  <2>4. /\ in' \in InRing
        /\ Stored # <<>> /\ Stored' = Tail(Stored) /\ Stored' \in Seq(InBytes)
    BY <1>11, TakesByte DEF GetcharReturns
  <2>5. AsleepOnOneByte'
    <3> SUFFICES ASSUME NEW x \in Readers, pc'[x] = "asleep"
                 PROVE  Len(Stored') <= 1 /\ (OnItsWay' => Stored' = <<>>)
      BY DEF AsleepOnOneByte
    <3>1. pc[x] = "asleep" /\ OnItsWay' = OnItsWay
      BY <1>0, <2>3 DEF OnItsWay
    <3>2. Len(Stored) <= 1 /\ ~ OnItsWay
      BY <2>4, <3>1 DEF AsleepOnOneByte
    <3>3. Len(Stored) \in Nat /\ Len(Stored) > 0 /\ Len(Tail(Stored)) = Len(Stored) - 1
      BY <2>4, SeqLengths
    <3>4. Len(Stored') = 0
      BY <2>4, <3>2, <3>3
    <3> QED BY <3>1, <3>2, <3>4
  <2> QED BY <1>0, <2>1, <2>3, <2>4, <2>5 DEF BytesAreFresh, OnItsWay
<1> QED BY <1>2, <1>3, <1>4, <1>5, <1>6, <1>7, <1>8, <1>9, <1>10, <1>11 DEF InNext

\* uart.c: uart_receiver stores a byte without signalling the readers, which
\* sleep on the same lock until the next receive interrupt.  A reader sleeps
\* over at most one byte in the ring: the one whose interrupt came before the
\* reader fell asleep, and which the receiver had still to fetch.
THEOREM ReadersMissAtMostOneByte == InSpec => [](InTypeOK /\ ReaderMissesOneByte)
<1>1. InInit => InIInv
  BY InInitIInv
<1>2. InIInv /\ [InNext]_inVars => InIInv'
  BY InStepIInv
<1>3. InIInv => InTypeOK
  <2> SUFFICES ASSUME InIInv PROVE InTypeOK
    OBVIOUS
  <2>1. \A t \in DOMAIN pc : inHolder = t <=> pc[t] \in {"waiting", "receiving", "testing"}
    BY DEF InIInv, TasksInPlace, Holding
  <2> QED BY <2>1 DEF InIInv, InTypeOK, InRing, RxType
<1>4. InIInv => ReaderMissesOneByte
  BY DEF InIInv, AsleepOnOneByte, ReaderMissesOneByte
<1> QED BY <1>1, <1>2, <1>3, <1>4, PTL DEF InSpec

\* A sequence whose last member is taken away or replaced, or that one of its
\* parts gives the first of.
LEMMA SeqEnds ==
    ASSUME NEW S, NEW s \in Seq(S), NEW b \in S
    PROVE  /\ s \o <<b>> = Append(s, b) /\ s \o <<>> = s
           /\ Len(s \o <<b>>) = Len(s) + 1 /\ s \o <<b>> # <<>>
           /\ SubSeq(s \o <<b>>, 1, Len(s \o <<b>>) - 1) = s
           /\ s # <<>> => /\ Head(s \o <<b>>) = Head(s)
                          /\ Tail(s \o <<b>>) = Tail(s) \o <<b>>
OBVIOUS

\* What the abstract FIFO holds: the ring, and the byte in RXBUF.
Received == Stored \o (IF rx.fresh THEN <<rx.buf>> ELSE <<>>)

\* Each step of the receiving half is one of the FIFO in front of which a byte
\* may be lost.
LEMMA InStepLossy == InIInv /\ [InNext]_inVars => [ALossy!Next]_ALossy!vars
<1> SUFFICES ASSUME InIInv, [InNext]_inVars PROVE [ALossy!Next]_ALossy!vars
  OBVIOUS
<1> DEFINE b == IF rx.fresh THEN <<rx.buf>> ELSE <<>>
           b1 == IF rx'.fresh THEN <<rx'.buf>> ELSE <<>>
<1>0. /\ Stored \in Seq(InBytes) /\ (rx.fresh => rx.buf \in InBytes)
      /\ (rx.fresh => Received = Stored \o <<rx.buf>>)
      /\ (~ rx.fresh => Received = Stored) /\ Received = Stored \o b /\ Received' = Stored' \o b1
  BY SeqEnds DEF InIInv, BytesAreFresh, Received
<1>1. ASSUME UNCHANGED <<in, came, gave>>, UNCHANGED rx
      PROVE  UNCHANGED ALossy!vars
  BY <1>1 DEF ALossy!vars, Stored
<1>2. CASE UNCHANGED inVars
  BY <1>1, <1>2 DEF inVars
<1>3. ASSUME Silent, Received' = Received
      PROVE  ALossy!Next
  BY <1>3 DEF ALossy!Next, ALossy!CallIdle, Silent, Received
<1>4. ASSUME Silent, UNCHANGED in, rx'.fresh = rx.fresh, rx'.buf = rx.buf
      PROVE  ALossy!Next
  <2>1. Received' = Received
    BY <1>4 DEF Received, Stored
  <2> QED BY <1>3, <1>4, <2>1
<1>5. ASSUME NEW c \in InBytes, ByteReceived(c) PROVE ALossy!Next
  <2>1. /\ rx'.fresh /\ rx'.buf = c /\ UNCHANGED in
        /\ came' = <<c>> /\ gave' = <<>>
    BY <1>5 DEF ByteReceived, InIInv, RxType
  <2>2. Stored' = Stored
    BY <2>1 DEF Stored
  <2>3. Received' = Stored \o <<c>>
    BY <2>1, <2>2 DEF Received
  <2>4. Received' = Append(Stored, c)
    BY <1>0, <2>3, SeqEnds
  <2>5. CASE rx.fresh
    <3>1. Received # <<>> /\ SubSeq(Received, 1, Len(Received) - 1) = Stored
      BY <1>0, <2>5, SeqEnds
    <3>2. Received' = Append(SubSeq(Received, 1, Len(Received) - 1), c)
      BY <2>4, <3>1
    <3>3. ALossy!Come(c)
      BY <2>1, <3>1, <3>2 DEF ALossy!Come, ALossy!Front, Received
    <3> QED BY <3>3 DEF ALossy!Next
  <2>6. CASE ~ rx.fresh
    <3>1. Received = Stored /\ Len(Stored) < InBufSize
      <4>1. Len(Stored) \in 0 .. InBufSize - 1
        BY StoredIsRing, InRingOf, RingSeqType DEF InIInv
      <4> QED BY <1>0, <2>6, <4>1, InConstants
    <3>2. Received' = Append(Received, c) /\ Len(Received) < InBufSize
      BY <2>4, <3>1
    <3>3. ALossy!Come(c)
      BY <2>1, <3>2 DEF ALossy!Come, Received
    <3> QED BY <3>3 DEF ALossy!Next
  <2> QED BY <2>5, <2>6
<1>6. CASE ReceiverStores
  <2>1. /\ rx.fresh /\ ~ rx'.fresh /\ rx.buf \in InBytes /\ Silent
    BY <1>6 DEF ReceiverStores, InIInv, BytesAreFresh, OnItsWay, RxType
  <2>2. /\ \/ Stored' = Append(Stored, rx.buf)
           \/ Stored' = Stored /\ Len(Stored) = InBufSize - 1
        /\ Stored' \in Seq(InBytes)
    BY <1>6, <2>1, StoresByte DEF ReceiverStores, InIInv
  <2>3. Received' = Stored'
    BY <2>1, <2>2, SeqEnds DEF Received
  <2>4. /\ Received = Append(Stored, rx.buf) /\ Len(Received) = Len(Stored) + 1
        /\ SubSeq(Received, 1, Len(Received) - 1) = Stored
    BY <1>0, <2>1, SeqEnds
  <2>5. CASE Stored' = Append(Stored, rx.buf)
    BY <1>3, <2>1, <2>3, <2>4, <2>5
  <2>6. CASE Stored' = Stored /\ Len(Stored) = InBufSize - 1
    <3>1. Len(Received) = InBufSize /\ Received' = SubSeq(Received, 1, Len(Received) - 1)
      BY <2>3, <2>4, <2>6, InConstants
    <3>2. ALossy!Lose
      BY <2>1, <3>1 DEF ALossy!Lose, ALossy!Front, Silent, Received
    <3> QED BY <3>2 DEF ALossy!Next
  <2> QED BY <2>2, <2>5, <2>6
<1>7. ASSUME NEW t \in Readers, GetcharReturns(t) PROVE ALossy!Next
  <2>1. /\ Stored # <<>> /\ Head(Stored) = in.data[in.first]
        /\ Stored' = Tail(Stored) /\ UNCHANGED rx
        /\ gave' = <<in.data[in.first]>> /\ came' = <<>>
    BY <1>7, TakesByte DEF GetcharReturns, InIInv
  <2>2. Received # <<>> /\ Head(Received) = Head(Stored) /\ Received' = Tail(Received)
    <3>1. CASE rx.fresh
      <4>1. Received' = Tail(Stored) \o <<rx.buf>>
        BY <2>1, <3>1 DEF Received
      <4>2. /\ Received # <<>> /\ Head(Received) = Head(Stored)
            /\ Tail(Received) = Tail(Stored) \o <<rx.buf>>
        <5> DEFINE s == Stored
                   x == rx.buf
        <5>1. s \in Seq(InBytes) /\ x \in InBytes /\ s # <<>> /\ Received = s \o <<x>>
          BY <1>0, <2>1, <3>1
        <5> HIDE DEF s, x
        <5>2. /\ s \o <<x>> # <<>> /\ Head(s \o <<x>>) = Head(s)
              /\ Tail(s \o <<x>>) = Tail(s) \o <<x>>
          BY <5>1, SeqEnds
        <5> QED BY <5>1, <5>2 DEF s, x
      <4> QED BY <4>1, <4>2
    <3>2. CASE ~ rx.fresh
      <4>1. Tail(Stored) \in Seq(InBytes)
        BY <1>0, <2>1
      <4>2. Received' = Tail(Stored) \o <<>>
        BY <2>1, <3>2 DEF Received
      <4>3. Tail(Stored) \o <<>> = Tail(Stored)
        BY <4>1
      <4> QED BY <1>0, <2>1, <3>2, <4>2, <4>3
    <3> QED BY <3>1, <3>2
  <2>3. ALossy!Get
    BY <2>1, <2>2 DEF ALossy!Get, Received
  <2> QED BY <2>3 DEF ALossy!Next
<1>8. ASSUME \/ ReceiveInterrupt \/ ReceiverStarts \/ ReceiverWaits \/ ReceiverRelocks
             \/ \E t \in Readers : Getchar(t) \/ GetcharWaits(t)
      PROVE  ALossy!Next
  <2>1. Silent /\ UNCHANGED in /\ rx'.fresh = rx.fresh /\ rx'.buf = rx.buf
    BY <1>8 DEF ReceiveInterrupt, ReceiverStarts, ReceiverWaits, ReceiverRelocks, Getchar,
       GetcharWaits, FallAsleep, Lock, InIInv, RxType
  <2> QED BY <1>4, <2>1
<1> QED BY <1>2, <1>5, <1>6, <1>7, <1>8 DEF InNext

\* uart.c: what uart_getchar returns was received, in that order and no byte
\* twice; a byte is lost only in RXBUF, to the next one, or where the ring is
\* full.
THEOREM ReceiverImplementsLossyFifo == InSpec => ImplementsReception
<1>1. InInit => ALossy!Init
  <2> SUFFICES ASSUME InInit PROVE ALossy!Init
    OBVIOUS
  <2>1. in.first = in.last /\ ~ rx.fresh /\ came = <<>> /\ gave = <<>> /\ InIInv
    BY InInitIInv DEF InInit
  <2>2. Stored = <<>>
    BY <2>1, StoredIsRing, InRingOf, RingSeqType DEF InIInv
  <2> QED BY <2>1, <2>2 DEF ALossy!Init
<1>2. InInit => InIInv
  BY InInitIInv
<1>3. InIInv /\ [InNext]_inVars => InIInv'
  BY InStepIInv
<1>4. InIInv /\ [InNext]_inVars => [ALossy!Next]_ALossy!vars
  BY InStepLossy
<1> QED BY <1>1, <1>2, <1>3, <1>4, PTL DEF InSpec, ImplementsReception, ALossy!Spec

-----------------------------------------------------------------------------
(***************************************************************************)
(* The transmitting half of the UART.                                      *)
(***************************************************************************)
SentBytes == OutBytes \cup {CR}

OutRing == [data : [0 .. OutBufSize - 1 -> SentBytes],
            first : 0 .. OutBufSize - 1, last : 0 .. OutBufSize - 1]

PortType == [enabled : BOOLEAN, empty : BOOLEAN, ie : BOOLEAN, flag : BOOLEAN,
             buf : {<<>>} \cup {<<c>> : c \in SentBytes}]

WriterPlaces == {"absent", "putting", "flushing", "starting", "leaving", "asleep", "woken"}
AtTheLock     == {"putting", "flushing", "starting", "leaving"}
WriterType   == [pc : WriterPlaces, c : SentBytes, newlast : 0 .. OutBufSize - 1]

\* TXBUF is free when the flag is up or TXEPT is set; a transmitter that is not
\* empty has its interrupt enabled; an enabled interrupt is flagged, or will be
\* when the byte in TXBUF moves on.
PortSound(p) ==
    /\ p \in PortType
    /\ p.flag => p.buf = <<>>
    /\ p.empty => p.buf = <<>>
    /\ ~ p.empty => p.ie
    /\ p.ie => p.flag \/ p.buf # <<>>

\* Where the tasks are, who has the lock, and that the newlast of a call to
\* putchar, computed before it waits, still is the place after the last.
WritersInPlace(w, h, last) ==
    /\ w \in [Writers -> WriterType]
    /\ h \in Writers \cup {NoSender}
    /\ \A t \in Writers : h = t <=> w[t].pc \in AtTheLock
    /\ \A t \in Writers : /\ w[t].pc = "putting" => t \in Senders
                          /\ w[t].pc = "flushing" => t \notin Senders
    /\ \A t \in Senders : w[t].pc \in {"putting", "asleep", "woken"} => w[t].newlast = Step(last)

\* TransmitterRuns, of the ring, the port and the tasks as in o, p and w.
Runs(o, p, w, due, susp, c) ==
    (o.first # o.last \/ \E t \in Writers : w[t].pc = "asleep") /\ c = "on" =>
        \/ p.ie /\ (p.flag \/ p.buf # <<>>)
        \/ due
        \/ susp > 0

\* What has been stored and not sent.
ToSend(o, p) == p.buf \o RingSeq(o.data, o.first, o.last, OutBufSize)

\* The inductive invariant of the transmitting half.
OutIInv ==
    /\ out \in OutRing
    /\ PortSound(port)
    /\ WritersInPlace(writer, outHolder, out.last)
    /\ cts \in {"on", "off", "ready"} /\ suspended \in 0 .. MaxSuspended
    /\ outPending \in BOOLEAN
    /\ outPending => outHolder # NoSender
    /\ Runs(out, port, writer, outPending, suspended, cts)

\* One task sends.
OneSender == \A s, t \in Senders : s = t

\* The ring of the transmitter is a ring.
LEMMA OutRingOf ==
    ASSUME NEW o \in OutRing
    PROVE  /\ RingOf(o.data, o.first, o.last, OutBufSize, SentBytes)
           /\ OutBufSize \in Nat \ {0}
           /\ \A i : Step(i) = Behind(i, OutBufSize)
BY OutConstants DEF OutRing, RingOf, Step, Behind

\* The bytes in the ring are a sequence, short of one place.
LEMMA OutSeqType ==
    ASSUME NEW o \in OutRing, NEW s, s = RingSeq(o.data, o.first, o.last, OutBufSize)
    PROVE  /\ s \in Seq(SentBytes) /\ Len(s) \in 0 .. OutBufSize - 1
           /\ s = <<>> <=> o.first = o.last
BY OutRingOf, RingSeqType

\* A byte that leaves the ring for TXBUF.
LEMMA HeadAndTail ==
    ASSUME NEW S, NEW s \in Seq(S), s # <<>>, NEW h, h = Head(s)
    PROVE  h \in S /\ <<h>> \o Tail(s) = s /\ <<>> \o s = s
OBVIOUS

\* The ring that the oldest byte has left.
LEMMA RingWithout ==
    ASSUME NEW o \in OutRing, NEW o1, o1 = [o EXCEPT !.first = Step(@), !.data[o.first] = CR]
    PROVE  /\ o1.data = [o.data EXCEPT ![o.first] = CR]
           /\ o1.first = Step(o.first) /\ o1.last = o.last
           /\ o1 = [data |-> o1.data, first |-> Step(o.first), last |-> o.last]
<1>1. o = [data |-> o.data, first |-> o.first, last |-> o.last]
  BY DEF OutRing
<1>2. /\ o1.data = [o.data EXCEPT ![o.first] = CR]
      /\ o1.first = Step(o.first) /\ o1.last = o.last
  BY <1>1
<1> QED BY <1>1, <1>2

\* uart_transmit_start: it sends the oldest byte if it can, and the interrupt
\* stays expected where there is something to expect.
LEMMA TransmitDoes ==
    ASSUME NEW o \in OutRing, NEW p, PortSound(p), NEW r, r = Transmit(o, p)
    PROVE  /\ r.out \in OutRing /\ PortSound(r.port)
           /\ r.expected \in BOOLEAN /\ (r.expected => r.port.ie)
           /\ r.out.last = o.last
           /\ ~ r.expected => r.out = o /\ (o.first = o.last \/ cts = "off")
           /\ o.first # o.last /\ cts # "off" => r.expected
           /\ ToSend(r.out, r.port) = ToSend(o, p)
<1> DEFINE n == OutBufSize
           d == o.data
           f == o.first
           l == o.last
           s == RingSeq(d, f, l, n)
<1>1. /\ d \in [0 .. n - 1 -> SentBytes] /\ f \in 0 .. n - 1 /\ l \in 0 .. n - 1
      /\ o = [data |-> d, first |-> f, last |-> l]
  BY DEF OutRing
<1>2. p \in PortType
  BY DEF PortSound
<1>3. CASE ~ p.empty
  <2>1. r = [out |-> o, port |-> p, expected |-> TRUE]
    BY <1>3 DEF Transmit
  <2> QED BY <1>3, <2>1 DEF PortSound
<1>4. CASE p.empty /\ (f = l \/ cts = "off")
  <2> DEFINE p1 == [p EXCEPT !.ie = FALSE]
  <2>1. r = [out |-> o, port |-> p1, expected |-> FALSE]
    BY <1>4 DEF Transmit
  <2>2. /\ p1 \in PortType /\ ~ p1.ie /\ p1.flag = p.flag /\ p1.empty = p.empty /\ p1.buf = p.buf
    BY <1>2 DEF PortType
  <2> HIDE DEF p1
  <2>3. PortSound(p1) /\ ToSend(o, p1) = ToSend(o, p)
    BY <1>4, <2>2 DEF PortSound, ToSend
  <2> QED BY <1>4, <2>1, <2>3
<1>5. CASE p.empty /\ f # l /\ cts # "off"
  <2> DEFINE o1 == [o EXCEPT !.first = Step(@), !.data[f] = CR]
             p1 == [p EXCEPT !.empty = FALSE, !.ie = TRUE, !.flag = FALSE, !.buf = <<d[f]>>]
             d1 == o1.data
  <2>1. r = [out |-> o1, port |-> p1, expected |-> TRUE]
    BY <1>5 DEF Transmit
  <2>2. d[f] \in SentBytes
    BY <1>1
  <2>3. p1 \in PortType /\ ~ p1.empty /\ p1.ie /\ ~ p1.flag /\ p1.buf = <<d[f]>>
    BY <1>2, <2>2 DEF PortType
  <2>4. /\ d1 = [d EXCEPT ![f] = CR] /\ o1.first = Behind(f, n) /\ o1.last = l
        /\ o1 = [data |-> d1, first |-> Behind(f, n), last |-> l]
    <3>1. Step(f) = Behind(f, n)
      BY OutRingOf
    <3>2. /\ d1 = [d EXCEPT ![f] = CR] /\ o1.first = Step(f) /\ o1.last = l
          /\ o1 = [data |-> d1, first |-> Step(f), last |-> l]
      BY RingWithout
    <3> HIDE DEF o1, d1, f, l, n, d
    <3> QED BY <3>1, <3>2
  <2>5. d1 \in [0 .. n - 1 -> SentBytes] /\ \A x \in 0 .. n - 1 : x # f => d1[x] = d[x]
    BY <1>1, <2>4 DEF SentBytes
  <2>6. RingOf(d, f, l, n, SentBytes) /\ n \in Nat \ {0}
    BY OutRingOf
  <2>7. s \in Seq(SentBytes)
    BY OutSeqType
  <2>8. p.buf = <<>>
    BY <1>5 DEF PortSound
  <2> HIDE DEF n, d, f, l, s, o1, p1, d1
  <2>9. RingOf(d1, f, l, n, SentBytes) /\ SameBut(d, d1, f, n) /\ f # l
    BY <1>1, <1>5, <2>5, <2>6 DEF RingOf, SameBut
  <2>10. /\ Behind(f, n) \in 0 .. n - 1
         /\ RingSeq(d, f, l, n) # <<>> /\ Head(RingSeq(d, f, l, n)) = d[f]
         /\ RingSeq(d1, Behind(f, n), l, n) = Tail(RingSeq(d, f, l, n))
    BY <2>6, <2>9, RingSeqTake
  <2>11. o1 \in OutRing
    BY <1>1, <2>4, <2>5, <2>10 DEF OutRing, n
  <2>12. PortSound(p1)
    <3>1. p1.buf # <<>>
      BY <2>3
    <3> QED BY <2>3, <3>1 DEF PortSound
  <2>13. ToSend(o1, p1) = ToSend(o, p)
    <3>1. s # <<>> /\ Head(s) = d[f] /\ RingSeq(d1, Behind(f, n), l, n) = Tail(s)
      BY <2>10 DEF s
    <3>2. ToSend(o1, p1) = <<d[f]>> \o Tail(s)
      BY <2>3, <2>4, <3>1 DEF ToSend, n, d1
    <3>3. ToSend(o, p) = <<>> \o s
      BY <2>8 DEF ToSend, s, d, f, l, n
    <3> QED BY <2>7, <3>1, <3>2, <3>3, HeadAndTail
  <2> QED BY <1>5, <2>1, <2>3, <2>4, <2>11, <2>12, <2>13 DEF l, f
<1> QED BY <1>2, <1>3, <1>4, <1>5 DEF PortType

\* mutex_activate: the waiters are woken, and nothing else changes.
LEMMA RousedInPlace ==
    ASSUME NEW w, NEW h, NEW last, WritersInPlace(w, h, last)
    PROVE  /\ WritersInPlace(Roused(w), h, last)
           /\ \A t \in Writers : /\ Roused(w)[t].pc # "asleep"
                                 /\ w[t].pc # "asleep" => Roused(w)[t] = w[t]
<1>1. ASSUME NEW t \in Writers
      PROVE  /\ Roused(w)[t] \in WriterType
             /\ w[t].pc # "asleep" => Roused(w)[t] = w[t]
             /\ w[t].pc = "asleep" => Roused(w)[t].pc = "woken" /\ Roused(w)[t].newlast = w[t].newlast
  <2> DEFINE o == w[t]
             x == [o EXCEPT !.pc = "woken"]
  <2>1. Roused(w)[t] = IF o.pc = "asleep" THEN x ELSE o
    BY DEF Roused
  <2>2. o \in WriterType
    BY DEF WritersInPlace
  <2> HIDE DEF o
  <2>3. x \in WriterType /\ x.pc = "woken" /\ x.newlast = o.newlast
    BY <2>2 DEF WriterType, WriterPlaces
  <2> HIDE DEF x
  <2> QED BY <2>1, <2>2, <2>3 DEF o
<1>2. Roused(w) \in [Writers -> WriterType]
  <2>1. Roused(w) = [t \in Writers |-> Roused(w)[t]]
    BY DEF Roused
  <2> QED BY <1>1, <2>1
<1>3. \A t \in Writers : Roused(w)[t].pc # "asleep"
  BY <1>1
<1>4. \A t \in Writers : h = t <=> Roused(w)[t].pc \in AtTheLock
  BY <1>1 DEF WritersInPlace, AtTheLock
<1>5. \A t \in Writers : /\ Roused(w)[t].pc = "putting" => t \in Senders
                         /\ Roused(w)[t].pc = "flushing" => t \notin Senders
  BY <1>1 DEF WritersInPlace
<1>6. \A t \in Senders : Roused(w)[t].pc \in {"putting", "asleep", "woken"} => Roused(w)[t].newlast = Step(last)
  BY <1>1 DEF WritersInPlace, Writers
<1> QED BY <1>1, <1>2, <1>3, <1>4, <1>5, <1>6 DEF WritersInPlace

\* What the record of a task may be, and how the lock moves with it.
MayBe(t, x, last) ==
    /\ x \in WriterType
    /\ x.pc = "putting" => t \in Senders
    /\ x.pc = "flushing" => t \notin Senders
    /\ t \in Senders /\ x.pc \in {"putting", "asleep", "woken"} => x.newlast = Step(last)

Becomes(w, w1, t, x) == w1 = [w EXCEPT ![t] = x]

LockMoves(t, x, h, h1) ==
    \/ h = NoSender /\ h1 = t /\ x.pc \in AtTheLock
    \/ h = t /\ h1 = t /\ x.pc \in AtTheLock
    \/ h = t /\ h1 = NoSender /\ x.pc \notin AtTheLock

\* A task goes from one place to another, taking or leaving the lock or not; the
\* pointer last moves only for the one task that sends.
LEMMA WriterMoves ==
    ASSUME NEW w, NEW h, NEW last, WritersInPlace(w, h, last),
           NEW t \in Writers, NEW x, NEW w1, Becomes(w, w1, t, x),
           NEW h1, LockMoves(t, x, h, h1),
           NEW last1, MayBe(t, x, last1), last1 = last \/ (OneSender /\ t \in Senders)
    PROVE  /\ WritersInPlace(w1, h1, last1)
           /\ \A y \in Writers : w1[y] = IF y = t THEN x ELSE w[y]
<1> USE DEF MayBe, LockMoves, Becomes
<1>1. w1 \in [Writers -> WriterType] /\ \A y \in Writers : w1[y] = IF y = t THEN x ELSE w[y]
  BY DEF WritersInPlace
<1>2. NoSender \notin Writers
  BY OutConstants DEF Writers
<1>3. \A y \in Writers : h1 = y <=> w1[y].pc \in AtTheLock
  BY <1>1, <1>2 DEF WritersInPlace
<1>4. \A y \in Senders : w1[y].pc \in {"putting", "asleep", "woken"} => w1[y].newlast = Step(last1)
  BY <1>1 DEF WritersInPlace, OneSender, Writers
<1>5. h1 \in Writers \cup {NoSender}
  OBVIOUS
<1>6. \A y \in Writers : /\ w1[y].pc = "putting" => y \in Senders
                         /\ w1[y].pc = "flushing" => y \notin Senders
  BY <1>1 DEF WritersInPlace
<1> QED BY <1>1, <1>3, <1>4, <1>5, <1>6 DEF WritersInPlace

\* A task changes its place and keeps the rest of its call.
LEMMA WriterGoes ==
    ASSUME NEW w \in [Writers -> WriterType], NEW t \in Writers, NEW p \in WriterPlaces,
           NEW x, x = [w[t] EXCEPT !.pc = p]
    PROVE  /\ x \in WriterType /\ x.pc = p /\ x.c = w[t].c /\ x.newlast = w[t].newlast
           /\ [w EXCEPT ![t].pc = p] = [w EXCEPT ![t] = x]
<1> DEFINE o == w[t]
<1>1. o \in WriterType /\ x = [o EXCEPT !.pc = p]
  OBVIOUS
<1>2. [w EXCEPT ![t].pc = p] = [w EXCEPT ![t] = x]
  OBVIOUS
<1> HIDE DEF o
<1>3. x \in WriterType /\ x.pc = p /\ x.c = o.c /\ x.newlast = o.newlast
  BY <1>1 DEF WriterType
<1> QED BY <1>2, <1>3 DEF o

\* After uart_transmit_start that expects an interrupt, or that was called while
\* CTS was on and woke everybody, the transmitter runs.
LEMMA RunsAfter ==
    ASSUME NEW o \in OutRing, NEW p, PortSound(p), NEW r, r = Transmit(o, p),
           NEW w, NEW pend, NEW susp, NEW c,
           c = "on" => cts # "off",
           r.expected \/ \A t \in Writers : w[t].pc # "asleep"
    PROVE  Runs(r.out, r.port, w, pend, susp, c)
<1>1. /\ PortSound(r.port) /\ (r.expected => r.port.ie)
      /\ ~ r.expected => r.out = o /\ (o.first = o.last \/ cts = "off")
  BY TransmitDoes
<1> QED BY <1>1 DEF Runs, PortSound

\* The fast handler, run to its end or switched away from.
LEMMA HandlerDoes ==
    ASSUME out \in OutRing, NEW p, PortSound(p), NEW w, NEW h, WritersInPlace(w, h, out.last),
           suspended \in 0 .. MaxSuspended, Handler(p, w), cts' = cts
    PROVE  /\ out' \in OutRing /\ PortSound(port')
           /\ WritersInPlace(writer', h, out'.last)
           /\ suspended' \in 0 .. MaxSuspended
           /\ ToSend(out', port') = ToSend(out, p)
           /\ Runs(out', port', writer', FALSE, suspended', cts')
<1>1. WritersInPlace(Roused(w), h, out.last) /\ \A t \in Writers : Roused(w)[t].pc # "asleep"
  BY RousedInPlace
<1>2. CASE HandlerRuns(p, w)
  <2> DEFINE r == Transmit(out, p)
  <2>1. /\ out' = r.out /\ port' = r.port
        /\ writer' = IF OutEmpty \/ ~ r.expected THEN Roused(w) ELSE w
        /\ suspended' = suspended
    BY <1>2 DEF HandlerRuns
  <2>2. /\ r.out \in OutRing /\ PortSound(r.port) /\ r.out.last = out.last
        /\ ToSend(r.out, r.port) = ToSend(out, p)
    BY TransmitDoes
  <2>3. r.expected \/ \A t \in Writers : writer'[t].pc # "asleep"
    BY <1>1, <2>1
  <2>4. Runs(r.out, r.port, writer', FALSE, suspended', cts')
    BY <2>3, RunsAfter
  <2> HIDE DEF r
  <2> QED BY <1>1, <2>1, <2>2, <2>4
<1>3. CASE HandlerSwitches(p, w)
  <2>1. /\ suspended' = suspended + 1 /\ suspended < MaxSuspended
        /\ writer' = Roused(w) /\ port' = p /\ out' = out
    BY <1>3 DEF HandlerSwitches
  <2>2. suspended' \in 0 .. MaxSuspended /\ suspended' > 0
    BY <2>1, OutConstants
  <2> QED BY <1>1, <2>1, <2>2 DEF Runs
<1> QED BY <1>2, <1>3 DEF Handler

\* What a step does to the bytes to send, as a FIFO.
LineStep(s, s1, g1) ==
    \/ \E c \in SentBytes : Len(s) < OutBufSize /\ s1 = Append(s, c) /\ g1 = <<>>
    \/ s # <<>> /\ s1 = Tail(s) /\ g1 = <<Head(s)>>
    \/ g1 = <<>> /\ s1 = s

\* A step keeps the invariant and is one of a FIFO of bytes to send.
OutStepIsSound == OutIInv' /\ LineStep(ToSend(out, port), ToSend(out', port'), line')

\* The port and the line.
LEMMA HardwareIsSound ==
    ASSUME OutIInv, Hardware
    PROVE  OutStepIsSound
<1> USE DEF OutIInv
<1>1. CASE ByteShifted
  <2> PICK b \in SentBytes : port.buf = <<b>>
    BY <1>1 DEF ByteShifted, PortSound, PortType
  <2> DEFINE s == RingSeq(out.data, out.first, out.last, OutBufSize)
  <2>1. /\ port' \in PortType /\ port'.buf = <<>> /\ port'.flag
        /\ port'.ie = port.ie /\ port'.empty = port.empty
        /\ line' = <<b>> /\ UNCHANGED <<out, cts, outHolder, outPending, suspended, writer>>
    BY <1>1 DEF ByteShifted, PortSound, PortType
  <2>2. PortSound(port')
    BY <2>1 DEF PortSound
  <2>3. Runs(out', port', writer', outPending', suspended', cts')
    BY <2>1 DEF Runs
  <2>4. s \in Seq(SentBytes)
    BY OutSeqType
  <2>5. ToSend(out, port) = <<b>> \o s /\ ToSend(out', port') = <<>> \o s
    BY <2>1 DEF ToSend
  <2> HIDE DEF s
  <2>6. <<b>> \o s # <<>> /\ Head(<<b>> \o s) = b /\ Tail(<<b>> \o s) = s /\ <<>> \o s = s
    BY <2>4
  <2> QED BY <2>1, <2>2, <2>3, <2>5, <2>6 DEF OutStepIsSound, LineStep
<1>2. CASE TransmitterEmpty
  <2>1. /\ port' \in PortType /\ port'.buf = <<>> /\ port'.flag = port.flag /\ port.buf = <<>>
        /\ port'.ie = port.ie /\ port'.empty
        /\ line' = <<>> /\ UNCHANGED <<out, cts, outHolder, outPending, suspended, writer>>
    BY <1>2 DEF TransmitterEmpty, PortSound, PortType
  <2>2. PortSound(port')
    BY <2>1 DEF PortSound
  <2>3. Runs(out', port', writer', outPending', suspended', cts')
    BY <2>1 DEF Runs
  <2> QED BY <2>1, <2>2, <2>3 DEF OutStepIsSound, LineStep, ToSend
<1>3. CASE TransmitInterrupt
  <2> DEFINE p == [port EXCEPT !.ie = FALSE, !.flag = FALSE, !.empty = TRUE]
  <2>1. /\ p \in PortType /\ p.empty /\ ~ p.ie /\ ~ p.flag /\ p.buf = <<>> /\ port.buf = <<>>
    BY <1>3 DEF TransmitInterrupt, PortSound, PortType
  <2>2. IF outHolder = NoSender
        THEN Handler(p, writer) /\ UNCHANGED outPending
        ELSE outPending' = TRUE /\ port' = p /\ UNCHANGED <<out, suspended, writer>>
    BY <1>3 DEF TransmitInterrupt
  <2>3. line' = <<>> /\ UNCHANGED <<cts, outHolder>>
    BY <1>3 DEF TransmitInterrupt
  <2> HIDE DEF p
  <2>4. PortSound(p) /\ ToSend(out, p) = ToSend(out, port)
    BY <2>1 DEF PortSound, ToSend
  <2>5. CASE outHolder = NoSender
    <3>1. Handler(p, writer) /\ outPending' = FALSE
      BY <2>2, <2>5
    <3>2. /\ out' \in OutRing /\ PortSound(port')
          /\ WritersInPlace(writer', outHolder, out'.last)
          /\ suspended' \in 0 .. MaxSuspended
          /\ ToSend(out', port') = ToSend(out, p)
          /\ Runs(out', port', writer', FALSE, suspended', cts')
      BY <2>3, <2>4, <3>1, HandlerDoes
    <3> QED BY <2>3, <2>4, <3>1, <3>2 DEF OutStepIsSound, LineStep
  <2>6. CASE outHolder # NoSender
    <3>1. outPending' = TRUE /\ port' = p /\ UNCHANGED <<out, suspended, writer>>
      BY <2>2, <2>6
    <3>2. Runs(out', port', writer', outPending', suspended', cts')
      BY <3>1 DEF Runs
    <3> QED BY <2>3, <2>4, <2>6, <3>1, <3>2 DEF OutStepIsSound, LineStep
  <2> QED BY <2>5, <2>6
<1> QED BY <1>1, <1>2, <1>3 DEF Hardware

\* The handler that was switched away from, CTS, and the first steps of the
\* receiver's task.
LEMMA OthersAreSound ==
    ASSUME OutIInv, HandlerResumes \/ CtsOff \/ CtsOn \/ EnableTransmitter
    PROVE  OutStepIsSound
<1> USE DEF OutIInv
<1>1. CASE HandlerResumes
  <2> DEFINE r == Transmit(out, port)
             w == writer'
  <2>1. /\ out' = r.out /\ port' = r.port
        /\ w = IF r.expected THEN writer ELSE Roused(writer)
        /\ suspended' = suspended - 1 /\ suspended > 0
        /\ line' = <<>> /\ UNCHANGED <<cts, outHolder, outPending>>
    BY <1>1 DEF HandlerResumes
  <2>2. /\ r.out \in OutRing /\ PortSound(r.port) /\ r.out.last = out.last
        /\ ToSend(r.out, r.port) = ToSend(out, port)
    BY TransmitDoes
  <2>3. /\ WritersInPlace(w, outHolder, out.last)
        /\ r.expected \/ \A t \in Writers : w[t].pc # "asleep"
    BY <2>1, RousedInPlace
  <2>4. Runs(r.out, r.port, w, outPending', suspended', cts')
    BY <2>1, <2>3, RunsAfter
  <2>5. suspended' \in 0 .. MaxSuspended
    BY <2>1, OutConstants
  <2> HIDE DEF r
  <2> QED BY <2>1, <2>2, <2>3, <2>4, <2>5 DEF OutStepIsSound, LineStep
<1>2. CASE CtsOff \/ CtsOn
  <2>1. /\ line' = <<>> /\ cts' \in {"off", "ready"}
        /\ UNCHANGED <<out, port, outHolder, outPending, suspended, writer>>
    BY <1>2 DEF CtsOff, CtsOn
  <2>2. Runs(out', port', writer', outPending', suspended', cts')
    BY <2>1 DEF Runs
  <2> QED BY <2>1, <2>2 DEF OutStepIsSound, LineStep
<1>3. CASE EnableTransmitter
  <2>1. /\ port' \in PortType /\ port'.buf = port.buf /\ port'.flag = port.flag
        /\ port'.ie = port.ie /\ port'.empty = port.empty
        /\ line' = <<>> /\ UNCHANGED <<out, cts, outHolder, outPending, suspended, writer>>
    BY <1>3 DEF EnableTransmitter, PortSound, PortType
  <2>2. PortSound(port')
    BY <2>1 DEF PortSound
  <2>3. Runs(out', port', writer', outPending', suspended', cts')
    BY <2>1 DEF Runs
  <2> QED BY <2>1, <2>2, <2>3 DEF OutStepIsSound, LineStep, ToSend
<1> QED BY <1>1, <1>2, <1>3

\* A step of a task that leaves the ring and the port alone.
LEMMA MoveIsSound ==
    ASSUME OutIInv, NEW t \in Writers, NEW x, writer' = [writer EXCEPT ![t] = x],
           line' = <<>>, UNCHANGED <<out, port, suspended, cts>>,
           MayBe(t, x, out.last), LockMoves(t, x, outHolder, outHolder'),
           \/ UNCHANGED outPending /\ outHolder' # NoSender
           \/ outPending = FALSE /\ outPending' = FALSE,
           x.pc = "asleep" => out.first # out.last
    PROVE  OutStepIsSound
<1> USE DEF OutIInv
<1> DEFINE w1 == writer'
           h1 == outHolder'
           l  == out.last
<1>1. /\ WritersInPlace(w1, h1, l)
      /\ \A y \in Writers : w1[y] = IF y = t THEN x ELSE writer[y]
  <2>1. WritersInPlace(writer, outHolder, l)
    OBVIOUS
  <2>2. Becomes(writer, w1, t, x)
    BY DEF Becomes
  <2>3. LockMoves(t, x, outHolder, h1) /\ MayBe(t, x, l)
    OBVIOUS
  <2> HIDE DEF w1, h1, l
  <2> QED BY <2>1, <2>2, <2>3, WriterMoves
<1>2. outPending' \in BOOLEAN /\ (outPending' => outHolder' # NoSender)
  OBVIOUS
<1>3. outPending' = outPending
  OBVIOUS
<1>4. Runs(out', port', writer', outPending', suspended', cts')
  BY <1>1, <1>3 DEF Runs
<1> QED BY <1>1, <1>2, <1>4 DEF OutStepIsSound, LineStep

\* The place after one of the ring is one of the ring.
LEMMA StepInRing == \A i \in 0 .. OutBufSize - 1 : Step(i) \in 0 .. OutBufSize - 1
BY OutConstants DEF Step

\* The call of a task starts, and its wait ends.
LEMMA EnterIsSound ==
    ASSUME OutIInv,
           \/ \E t \in Senders : \E c \in OutBytes : Putchar(t, c)
           \/ \E t \in Flushers : Fflush(t)
           \/ CtsReady(Poller)
           \/ \E t \in Writers : Rewait(t)
    PROVE  OutStepIsSound
<1> USE DEF OutIInv
<1>0. out.last \in 0 .. OutBufSize - 1 /\ Step(out.last) \in 0 .. OutBufSize - 1 /\ 0 \in 0 .. OutBufSize - 1
  BY StepInRing, OutConstants DEF OutRing
<1>1. ASSUME NEW t \in Writers, NEW p \in {"putting", "flushing", "starting", "leaving"},
             NEW c \in SentBytes, Enter(t, p, c),
             p = "putting" => t \in Senders, p = "flushing" => t \notin Senders
      PROVE  OutStepIsSound
  <2> DEFINE x == [pc |-> p, c |-> c, newlast |-> IF p = "putting" THEN Step(out.last) ELSE 0]
  <2>1. /\ writer' = [writer EXCEPT ![t] = x] /\ line' = <<>>
        /\ outHolder = NoSender /\ outHolder' = t
        /\ UNCHANGED <<out, port, cts, outPending, suspended>>
    BY <1>1 DEF Enter
  <2>2. /\ x \in WriterType /\ x.pc = p /\ (p = "putting" => x.newlast = Step(out.last))
    BY <1>0 DEF WriterType, WriterPlaces
  <2> HIDE DEF x
  <2>3. MayBe(t, x, out.last)
    BY <1>1, <2>2 DEF MayBe
  <2>4. LockMoves(t, x, outHolder, outHolder')
    BY <2>1, <2>2 DEF LockMoves, AtTheLock
  <2>5. outHolder' # NoSender
    BY <2>1, OutConstants DEF Writers
  <2> QED BY <2>1, <2>2, <2>3, <2>4, <2>5, MoveIsSound
<1>2. ASSUME NEW t \in Senders, NEW c \in OutBytes, Putchar(t, c)
      PROVE  OutStepIsSound
  <2>1. t \in Writers /\ c \in SentBytes /\ (Enter(t, "putting", c) \/ Enter(t, "leaving", c))
    BY <1>2 DEF Putchar, Writers, SentBytes
  <2> QED BY <1>1, <2>1
<1>3. ASSUME NEW t \in Flushers, Fflush(t)
      PROVE  OutStepIsSound
  <2>1. /\ t \in Writers /\ t \notin Senders /\ CR \in SentBytes
        /\ Enter(t, "flushing", CR) \/ Enter(t, "leaving", CR)
    BY <1>3, OutConstants DEF Fflush, Writers, SentBytes
  <2> QED BY <1>1, <2>1
<1>4. CASE CtsReady(Poller)
  <2>1. Poller \in Writers /\ CR \in SentBytes /\ Enter(Poller, "starting", CR)
    BY <1>4 DEF CtsReady, Writers, SentBytes
  <2> QED BY <1>1, <2>1
<1>5. ASSUME NEW t \in Writers, Rewait(t)
      PROVE  OutStepIsSound
  <2> DEFINE p == IF t \in Senders THEN "putting" ELSE "flushing"
             x == [writer[t] EXCEPT !.pc = p]
  <2>1. /\ writer' = [writer EXCEPT ![t].pc = p] /\ line' = <<>> /\ writer[t].pc = "woken"
        /\ outHolder = NoSender /\ outHolder' = t
        /\ UNCHANGED <<out, port, cts, outPending, suspended>>
    BY <1>5 DEF Rewait
  <2>2. writer \in [Writers -> WriterType] /\ p \in WriterPlaces
    BY DEF WritersInPlace, WriterPlaces
  <2>3. p \in AtTheLock /\ (p = "putting" => t \in Senders) /\ (p = "flushing" => t \notin Senders)
    BY DEF AtTheLock
  <2> HIDE DEF p
  <2>4. /\ x \in WriterType /\ x.pc = p /\ x.c = writer[t].c /\ x.newlast = writer[t].newlast
        /\ [writer EXCEPT ![t].pc = p] = [writer EXCEPT ![t] = x]
    BY <2>2, WriterGoes
  <2> HIDE DEF x
  <2>5. MayBe(t, x, out.last)
    BY <2>1, <2>3, <2>4 DEF MayBe, WritersInPlace
  <2>6. LockMoves(t, x, outHolder, outHolder')
    BY <2>1, <2>3, <2>4 DEF LockMoves
  <2>7. outHolder' # NoSender
    BY <2>1, OutConstants DEF Writers
  <2>8. x.pc # "asleep"
    BY <2>3, <2>4 DEF AtTheLock
  <2> QED BY <2>1, <2>4, <2>5, <2>6, <2>7, <2>8, MoveIsSound
<1> QED BY <1>2, <1>3, <1>4, <1>5

\* mutex_wait: with something in the ring, the interrupt that wakes the task
\* comes; a pending one is served first.
LEMMA WaitIsSound ==
    ASSUME OutIInv, NEW t \in Writers, outHolder = t, out.first # out.last, Wait(t),
           writer[t].pc \in {"putting", "flushing"}
    PROVE  OutStepIsSound
<1> USE DEF OutIInv
<1> DEFINE p == "asleep"
           x == [writer[t] EXCEPT !.pc = p]
<1>1. writer \in [Writers -> WriterType] /\ p \in WriterPlaces /\ outHolder # NoSender
  BY OutConstants DEF WritersInPlace, WriterPlaces, Writers
<1> HIDE DEF p
<1>2. /\ x \in WriterType /\ x.pc = p /\ x.c = writer[t].c /\ x.newlast = writer[t].newlast
      /\ [writer EXCEPT ![t].pc = p] = [writer EXCEPT ![t] = x]
  BY <1>1, WriterGoes
<1> USE DEF p
<1> HIDE DEF x
<1>3. MayBe(t, x, out.last) /\ LockMoves(t, x, outHolder, NoSender)
  BY <1>2 DEF MayBe, WritersInPlace, LockMoves, AtTheLock
<1>4. outPending' = FALSE /\ line' = <<>> /\ UNCHANGED <<cts, suspended>>
  BY DEF Wait
<1>5. CASE outPending
  <2> DEFINE r == Transmit(out, port)
             w1 == writer'
             h1 == outHolder'
             l  == out.last
  <2>1. /\ out' = r.out /\ port' = r.port
        /\ IF r.expected
           THEN writer' = [writer EXCEPT ![t].pc = "asleep"] /\ outHolder' = NoSender
           ELSE writer' = Roused(writer) /\ UNCHANGED outHolder
    BY <1>5 DEF Wait
  <2>2. /\ r.out \in OutRing /\ PortSound(r.port) /\ r.out.last = out.last
        /\ ToSend(r.out, r.port) = ToSend(out, port)
    BY TransmitDoes
  <2> HIDE DEF r
  <2>3. WritersInPlace(w1, h1, l) /\ (r.expected \/ \A y \in Writers : w1[y].pc # "asleep")
    <3>1. CASE r.expected
      <4>1. Becomes(writer, w1, t, x) /\ h1 = NoSender
        BY <1>2, <2>1, <3>1 DEF Becomes
      <4>2. WritersInPlace(writer, outHolder, l) /\ MayBe(t, x, l)
        BY <1>3
      <4> HIDE DEF w1, h1, l
      <4> QED BY <1>3, <3>1, <4>1, <4>2, WriterMoves
    <3>2. CASE ~ r.expected
      <4>1. w1 = Roused(writer) /\ h1 = outHolder
        BY <2>1, <3>2
      <4>2. WritersInPlace(writer, outHolder, l)
        OBVIOUS
      <4> HIDE DEF w1, h1, l
      <4> QED BY <4>1, <4>2, RousedInPlace
    <3> QED BY <3>1, <3>2
  <2>4. Runs(r.out, r.port, w1, outPending', suspended', cts')
    <3>1. r = Transmit(out, port)
      BY DEF r
    <3> HIDE DEF w1
    <3> QED BY <1>4, <2>3, <3>1, RunsAfter
  <2> QED BY <1>4, <2>1, <2>2, <2>3, <2>4 DEF OutStepIsSound, LineStep
<1>6. CASE ~ outPending
  <2>1. /\ out' = out /\ port' = port /\ outHolder' = NoSender
        /\ writer' = [writer EXCEPT ![t] = x]
    BY <1>2, <1>6 DEF Wait
  <2>2. outPending = FALSE
    BY <1>6
  <2> QED BY <1>2, <1>3, <1>4, <2>1, <2>2, MoveIsSound
<1> QED BY <1>5, <1>6

\* The ring with one byte more, before uart_transmit_start.
LEMMA RingWith ==
    ASSUME NEW o \in OutRing, NEW c \in SentBytes, NEW p, PortSound(p), o.first # Step(o.last),
           NEW o1, o1 = [data  |-> [o.data EXCEPT ![o.last] = c],
                         first |-> o.first, last |-> Step(o.last)]
    PROVE  /\ o1 \in OutRing /\ o1.last = Step(o.last) /\ o1.first # o1.last
           /\ ToSend(o1, p) = Append(ToSend(o, p), c)
           /\ Len(ToSend(o, p)) < OutBufSize
<1> DEFINE n == OutBufSize
           d == o.data
           f == o.first
           l == o.last
           d1 == o1.data
           s == RingSeq(d, f, l, n)
<1>1. /\ d \in [0 .. n - 1 -> SentBytes] /\ f \in 0 .. n - 1 /\ l \in 0 .. n - 1
      /\ Step(l) = Behind(l, n) /\ Behind(l, n) # f
  BY OutRingOf DEF OutRing
<1>2. /\ d1 = [d EXCEPT ![l] = c] /\ o1.first = f /\ o1.last = Behind(l, n)
      /\ o1 = [data |-> d1, first |-> f, last |-> Behind(l, n)]
  BY <1>1
<1>3. d1 \in [0 .. n - 1 -> SentBytes] /\ d1[l] = c /\ \A x \in 0 .. n - 1 : x # l => d1[x] = d[x]
  BY <1>1, <1>2
<1>4. RingOf(d, f, l, n, SentBytes) /\ n \in Nat \ {0}
  BY OutRingOf
<1>5. s \in Seq(SentBytes)
  BY OutSeqType
<1> HIDE DEF n, d, f, l, d1, s
<1>6. RingOf(d1, f, l, n, SentBytes) /\ SameBut(d, d1, l, n)
  BY <1>1, <1>3, <1>4 DEF RingOf, SameBut
<1>7. /\ Behind(l, n) \in 0 .. n - 1
      /\ RingSeq(d1, f, Behind(l, n), n) = Append(RingSeq(d, f, l, n), d1[l])
      /\ Span(f, l, n) < n - 1
  BY <1>1, <1>4, <1>6, RingSeqPut
<1>8. o1 \in OutRing
  BY <1>1, <1>2, <1>3, <1>7 DEF OutRing, n
<1>9. Len(s) = Span(f, l, n)
  BY <1>4, RingSeqType DEF s
<1>10. ToSend(o, p) = p.buf \o s /\ ToSend(o1, p) = p.buf \o Append(s, c)
  BY <1>2, <1>3, <1>7 DEF ToSend, s, d, f, l, n, d1
<1>11. p.buf \in Seq(SentBytes) /\ Len(p.buf) <= 1
  <2>1. p.buf = <<>> \/ \E b \in SentBytes : p.buf = <<b>>
    BY DEF PortSound, PortType
  <2>2. CASE p.buf = <<>>
    BY <2>2
  <2>3. ASSUME NEW b \in SentBytes, p.buf = <<b>>
        PROVE  p.buf \in Seq(SentBytes) /\ Len(p.buf) <= 1
    BY <2>3
  <2> QED BY <2>1, <2>2, <2>3
<1>12. /\ p.buf \o Append(s, c) = Append(p.buf \o s, c)
       /\ Len(p.buf \o s) = Len(p.buf) + Len(s)
       /\ Len(s) \in Nat /\ Len(p.buf) \in Nat
  <2> DEFINE b == p.buf
  <2>1. b \in Seq(SentBytes)
    BY <1>11
  <2> HIDE DEF b
  <2>2. b \o Append(s, c) = Append(b \o s, c) /\ Len(b \o s) = Len(b) + Len(s)
    BY <1>5, <2>1
  <2> QED BY <1>5, <2>1, <2>2 DEF b
<1>13. Len(p.buf \o s) < n
  BY <1>4, <1>7, <1>9, <1>11, <1>12
<1> QED BY <1>1, <1>2, <1>8, <1>10, <1>12, <1>13 DEF n, f, l

\* uart_putchar stores the byte and starts the transmitter: with one sender the
\* place that it computed before it waited is still the next one.
LEMMA PutcharIsSound ==
    ASSUME OutIInv, OneSender, NEW t \in Writers, PutcharStores(t)
    PROVE  OutStepIsSound
<1> USE DEF OutIInv
<1> DEFINE c  == writer[t].c
           o1 == [data  |-> [out.data EXCEPT ![out.last] = c],
                  first |-> out.first, last |-> Step(out.last)]
           r  == Transmit(o1, port)
           x  == IF c = LF
                 THEN [pc |-> "putting", c |-> CR, newlast |-> Step(Step(out.last))]
                 ELSE [Absent EXCEPT !.pc = "leaving"]
           l1 == o1.last
           w1 == writer'
<1>1. /\ writer[t].pc = "putting" /\ t \in Senders /\ writer[t].newlast = Step(out.last)
      /\ c \in SentBytes /\ outHolder = t
  BY DEF PutcharStores, WritersInPlace, WriterType, AtTheLock
<1>2. /\ out.first # Step(out.last)
      /\ out' = r.out /\ port' = r.port
      /\ writer' = [writer EXCEPT ![t] = x]
      /\ line' = <<>> /\ UNCHANGED <<cts, outHolder, outPending, suspended>>
  BY <1>1 DEF PutcharStores
<1>3. /\ Step(out.last) \in 0 .. OutBufSize - 1 /\ Step(Step(out.last)) \in 0 .. OutBufSize - 1
      /\ 0 \in 0 .. OutBufSize - 1
  BY StepInRing, OutConstants DEF OutRing
<1>4. /\ x \in WriterType /\ x.pc \in {"putting", "leaving"}
      /\ x.pc = "putting" => x.newlast = Step(Step(out.last))
  BY <1>3 DEF WriterType, WriterPlaces, Absent, SentBytes
<1> HIDE DEF c, x
<1>5. /\ o1 \in OutRing /\ l1 = Step(out.last) /\ o1.first # l1
      /\ ToSend(o1, port) = Append(ToSend(out, port), c)
      /\ Len(ToSend(out, port)) < OutBufSize
  <2>1. o1 = [data  |-> [out.data EXCEPT ![out.last] = c],
              first |-> out.first, last |-> Step(out.last)]
    OBVIOUS
  <2> HIDE DEF o1
  <2> QED BY <1>1, <1>2, <2>1, RingWith
<1> HIDE DEF o1
<1>6. /\ r.out \in OutRing /\ PortSound(r.port) /\ r.out.last = l1
      /\ o1.first # o1.last /\ cts # "off" => r.expected
      /\ ToSend(r.out, r.port) = ToSend(o1, port)
  BY <1>5, TransmitDoes
<1>7. WritersInPlace(w1, outHolder, l1)
  <2>1. MayBe(t, x, l1)
    BY <1>1, <1>4, <1>5 DEF MayBe
  <2>2. LockMoves(t, x, outHolder, outHolder)
    BY <1>1, <1>4 DEF LockMoves, AtTheLock
  <2>3. Becomes(writer, w1, t, x)
    BY <1>2 DEF Becomes
  <2> HIDE DEF w1, l1
  <2> QED BY <1>1, <2>1, <2>2, <2>3, WriterMoves
<1>8. Runs(r.out, r.port, w1, outPending', suspended', cts')
  <2>1. CASE cts = "on"
    <3>1. r.expected /\ cts' = "on"
      BY <1>2, <1>5, <1>6, <2>1
    <3>2. r = Transmit(o1, port)
      OBVIOUS
    <3> HIDE DEF r, w1
    <3> QED BY <1>5, <2>1, <3>1, <3>2, RunsAfter
  <2>2. CASE cts # "on"
    BY <1>2, <2>2 DEF Runs
  <2> QED BY <2>1, <2>2
<1> HIDE DEF r
<1>9. OutIInv'
  BY <1>2, <1>6, <1>7, <1>8
<1>10. ToSend(out', port') = Append(ToSend(out, port), c)
  BY <1>2, <1>5, <1>6
<1> QED BY <1>1, <1>2, <1>5, <1>9, <1>10 DEF OutStepIsSound, LineStep

\* uart_transmit_start in uart_cts_ready.
LEMMA CtsStartsIsSound ==
    ASSUME OutIInv, NEW t \in Writers, CtsStarts(t)
    PROVE  OutStepIsSound
<1> USE DEF OutIInv
<1> DEFINE r == Transmit(out, port)
           w == IF OutEmpty THEN Roused(writer) ELSE writer
           p == "leaving"
           x == [w[t] EXCEPT !.pc = p]
           l == out.last
           w1 == writer'
<1>1. /\ writer[t].pc = "starting" /\ outHolder = t
  BY DEF CtsStarts, WritersInPlace, AtTheLock
<1>2. /\ out' = r.out /\ port' = r.port
      /\ writer' = [w EXCEPT ![t].pc = p]
      /\ cts' = IF cts = "ready" THEN "on" ELSE cts
      /\ line' = <<>> /\ UNCHANGED <<outHolder, outPending, suspended>>
  BY DEF CtsStarts
<1>3. /\ WritersInPlace(w, outHolder, l)
      /\ OutEmpty => \A y \in Writers : w[y].pc # "asleep"
  BY RousedInPlace
<1>4. /\ r.out \in OutRing /\ PortSound(r.port) /\ r.out.last = l
      /\ ~ r.expected => out.first = out.last \/ cts = "off"
      /\ ToSend(r.out, r.port) = ToSend(out, port)
  BY TransmitDoes
<1>5. w \in [Writers -> WriterType] /\ p \in WriterPlaces
  BY <1>3 DEF WritersInPlace, WriterPlaces
<1> HIDE DEF p, w
<1>6. /\ x \in WriterType /\ x.pc = p /\ x.c = w[t].c /\ x.newlast = w[t].newlast
      /\ [w EXCEPT ![t].pc = p] = [w EXCEPT ![t] = x]
  BY <1>5, WriterGoes
<1> HIDE DEF x
<1>7. WritersInPlace(w1, outHolder, l) /\ \A y \in Writers : w1[y] = IF y = t THEN x ELSE w[y]
  <2>1. MayBe(t, x, l) /\ LockMoves(t, x, outHolder, outHolder)
    BY <1>1, <1>6 DEF MayBe, LockMoves, AtTheLock, p
  <2>2. Becomes(w, w1, t, x)
    BY <1>2, <1>6 DEF Becomes
  <2> HIDE DEF w1, l
  <2> QED BY <1>3, <2>1, <2>2, WriterMoves
<1>8. Runs(r.out, r.port, w1, outPending', suspended', cts')
  <2>1. CASE cts # "off"
    <3>1. r.expected \/ \A y \in Writers : w1[y].pc # "asleep"
      BY <1>3, <1>4, <1>6, <1>7, <2>1 DEF OutEmpty, p
    <3>2. r = Transmit(out, port)
      OBVIOUS
    <3> HIDE DEF r, w1
    <3> QED BY <2>1, <3>1, <3>2, RunsAfter
  <2>2. CASE cts = "off"
    BY <1>2, <2>2 DEF Runs
  <2> QED BY <2>1, <2>2
<1> HIDE DEF r
<1>9. OutIInv'
  BY <1>2, <1>4, <1>7, <1>8
<1> QED BY <1>2, <1>4, <1>9 DEF OutStepIsSound, LineStep

\* mutex_unlock, which serves the interrupt that is pending.
LEMMA LeaveIsSound ==
    ASSUME OutIInv, NEW t \in Writers, Leave(t)
    PROVE  OutStepIsSound
<1> USE DEF OutIInv
<1> DEFINE w == [writer EXCEPT ![t] = Absent]
           l == out.last
<1>1. writer[t].pc = "leaving" /\ outHolder = t
  BY DEF Leave, WritersInPlace, AtTheLock
<1>2. Absent \in WriterType /\ Absent.pc = "absent"
  BY OutConstants DEF Absent, WriterType, WriterPlaces, SentBytes
<1>3. /\ Served(w) /\ outHolder' = NoSender /\ outPending' = FALSE /\ line' = <<>> /\ UNCHANGED cts
  BY DEF Leave
<1>4. WritersInPlace(w, NoSender, l) /\ \A y \in Writers : w[y] = IF y = t THEN Absent ELSE writer[y]
  <2>1. MayBe(t, Absent, l) /\ LockMoves(t, Absent, outHolder, NoSender)
    BY <1>1, <1>2 DEF MayBe, LockMoves, AtTheLock
  <2>2. Becomes(writer, w, t, Absent) /\ WritersInPlace(writer, outHolder, l)
    BY DEF Becomes
  <2> HIDE DEF w, l
  <2> QED BY <2>1, <2>2, WriterMoves
<1> HIDE DEF w
<1>5. CASE outPending
  <2>1. Handler(port, w)
    BY <1>3, <1>5 DEF Served
  <2>2. /\ out' \in OutRing /\ PortSound(port')
        /\ WritersInPlace(writer', NoSender, out'.last)
        /\ suspended' \in 0 .. MaxSuspended
        /\ ToSend(out', port') = ToSend(out, port)
        /\ Runs(out', port', writer', FALSE, suspended', cts')
    BY <1>3, <1>4, <2>1, HandlerDoes
  <2> QED BY <1>3, <2>2 DEF OutStepIsSound, LineStep
<1>6. CASE ~ outPending
  <2>1. writer' = w /\ UNCHANGED <<out, port, suspended>>
    BY <1>3, <1>6 DEF Served
  <2>2. \A y \in Writers : w[y].pc = "asleep" => writer[y].pc = "asleep"
    BY <1>2, <1>4
  <2>3. Runs(out', port', writer', outPending', suspended', cts')
    BY <1>3, <1>6, <2>1, <2>2 DEF Runs
  <2> QED BY <1>3, <1>4, <2>1, <2>3 DEF OutStepIsSound, LineStep
<1> QED BY <1>5, <1>6

\* The end of uart_fflush.
LEMMA FflushEndIsSound ==
    ASSUME OutIInv, NEW t \in Writers, FflushEnds(t)
    PROVE  OutStepIsSound
<1> USE DEF OutIInv
<1> DEFINE p == "leaving"
           x == [writer[t] EXCEPT !.pc = p]
<1>1. writer[t].pc = "flushing" /\ outHolder = t /\ outHolder # NoSender
  BY OutConstants DEF FflushEnds, WritersInPlace, AtTheLock, Writers
<1>2. /\ writer' = [writer EXCEPT ![t].pc = p] /\ line' = <<>>
      /\ UNCHANGED <<out, port, cts, outHolder, outPending, suspended>>
  BY DEF FflushEnds
<1>3. writer \in [Writers -> WriterType] /\ p \in WriterPlaces
  BY DEF WritersInPlace, WriterPlaces
<1> HIDE DEF p
<1>4. /\ x \in WriterType /\ x.pc = p /\ x.c = writer[t].c /\ x.newlast = writer[t].newlast
      /\ [writer EXCEPT ![t].pc = p] = [writer EXCEPT ![t] = x]
  BY <1>3, WriterGoes
<1> HIDE DEF x
<1>5. MayBe(t, x, out.last) /\ LockMoves(t, x, outHolder, outHolder') /\ x.pc # "asleep"
  BY <1>1, <1>2, <1>4 DEF MayBe, LockMoves, AtTheLock, p
<1> QED BY <1>1, <1>2, <1>4, <1>5, MoveIsSound

\* Each step of the transmitting half, with one sender.
LEMMA OutStep == ASSUME OneSender, OutIInv, OutNext PROVE OutStepIsSound
<1>1. ASSUME NEW t \in Writers, Working(t)
      PROVE  OutStepIsSound
  <2>1. CASE PutcharWaits(t)
    <3>1. /\ writer[t].pc = "putting" /\ out.first = writer[t].newlast /\ Wait(t)
          /\ t \in Senders /\ outHolder = t /\ writer[t].newlast = Step(out.last)
      BY <2>1 DEF PutcharWaits, OutIInv, WritersInPlace, AtTheLock
    <3>2. out.first # out.last
      BY <3>1, OutConstants DEF OutIInv, OutRing, Step
    <3> QED BY <3>1, <3>2, WaitIsSound
  <2>2. CASE FflushWaits(t)
    <3>1. /\ writer[t].pc = "flushing" /\ outHolder = t /\ out.first # out.last /\ Wait(t)
      BY <2>2 DEF FflushWaits, OutEmpty, OutIInv, WritersInPlace, AtTheLock
    <3> QED BY <3>1, WaitIsSound
  <2>3. CASE PutcharStores(t)
    BY <2>3, PutcharIsSound
  <2>4. CASE FflushEnds(t)
    BY <2>4, FflushEndIsSound
  <2>5. CASE CtsStarts(t)
    BY <2>5, CtsStartsIsSound
  <2>6. CASE Leave(t)
    BY <2>6, LeaveIsSound
  <2> QED BY <1>1, <2>1, <2>2, <2>3, <2>4, <2>5, <2>6 DEF Working
<1>2. CASE Hardware
  BY <1>2, HardwareIsSound
<1>3. CASE HandlerResumes \/ CtsOff \/ CtsOn \/ EnableTransmitter
  BY <1>3, OthersAreSound
<1>4. ASSUME \/ \E t \in Senders : \E c \in OutBytes : Putchar(t, c)
             \/ \E t \in Flushers : Fflush(t)
             \/ CtsReady(Poller)
             \/ \E t \in Writers : Rewait(t)
      PROVE  OutStepIsSound
  BY <1>4, EnterIsSound
<1> QED BY <1>1, <1>2, <1>3, <1>4 DEF OutNext

\* The transmitter's invariant holds at first, where nothing is to be sent.
LEMMA OutInitIInv == OutInit => OutIInv /\ ToSend(out, port) = <<>> /\ line = <<>>
<1> SUFFICES ASSUME OutInit PROVE OutIInv /\ ToSend(out, port) = <<>> /\ line = <<>>
  OBVIOUS
<1> DEFINE n == OutBufSize
           d == [i \in 0 .. n - 1 |-> CR]
<1>1. n \in Nat \ {0} /\ 0 \in 0 .. n - 1 /\ NoSender \notin Writers
  BY OutConstants DEF Writers
<1>2. d \in [0 .. n - 1 -> SentBytes] /\ out = [data |-> d, first |-> 0, last |-> 0]
  BY DEF OutInit, SentBytes
<1> HIDE DEF d
<1>3. out \in OutRing
  BY <1>1, <1>2 DEF OutRing
<1>4. /\ port \in PortType /\ port.buf = <<>> /\ ~ port.ie /\ port.empty
  BY DEF OutInit, PortType
<1>5. PortSound(port)
  BY <1>4 DEF PortSound
<1>6. Absent \in WriterType /\ Absent.pc = "absent"
  BY <1>1 DEF Absent, WriterType, WriterPlaces, SentBytes
<1>7. writer = [t \in Writers |-> Absent] /\ outHolder = NoSender
  BY DEF OutInit
<1>8. WritersInPlace(writer, outHolder, out.last)
  BY <1>1, <1>6, <1>7 DEF WritersInPlace, AtTheLock, Writers
<1>9. Runs(out, port, writer, outPending, suspended, cts)
  BY <1>2, <1>6, <1>7 DEF Runs
<1>10. cts = "on" /\ suspended \in 0 .. MaxSuspended /\ outPending = FALSE /\ line = <<>>
  BY OutConstants DEF OutInit
<1>11. ToSend(out, port) = <<>>
  <2> DEFINE s == RingSeq(out.data, out.first, out.last, OutBufSize)
  <2>1. s = <<>>
    BY <1>2, <1>3, OutSeqType
  <2> HIDE DEF s
  <2>2. ToSend(out, port) = <<>> \o s
    BY <1>4 DEF ToSend, s
  <2> QED BY <2>1, <2>2
<1> QED BY <1>3, <1>5, <1>8, <1>9, <1>10, <1>11 DEF OutIInv

\* The bytes to send, as the refinement has them.
LEMMA ToSendIs == /\ port.buf \o Buffered = ToSend(out, port)
                  /\ port'.buf \o Buffered' = ToSend(out', port')
                  /\ (port.buf \o Buffered)' = ToSend(out', port')
BY DEF Buffered, ToSend, RingSeq, Span

\* The invariant is inductive.
LEMMA OutInductive == ASSUME OneSender PROVE OutSpec => []OutIInv
<1>1. OutInit => OutIInv
  BY OutInitIInv
<1>2. OutIInv /\ [OutNext]_outVars => OutIInv'
  <2> SUFFICES ASSUME OutIInv, [OutNext]_outVars PROVE OutIInv'
    OBVIOUS
  <2>1. CASE OutNext
    BY <2>1, OutStep DEF OutStepIsSound
  <2>2. CASE UNCHANGED outVars
    BY <2>2 DEF outVars, OutIInv
  <2> QED BY <2>1, <2>2
<1> QED BY <1>1, <1>2, PTL DEF OutSpec

\* uart.c: the transmitter never stalls.  While bytes are in the ring, or a task
\* sleeps until there are none, an interrupt is enabled and coming, or pending
\* on the lock, or its handler was switched away from, whatever the calls, the
\* interrupts and CTS do in between to TXEPT and UTXIE.
THEOREM TransmitterNeverStalls ==
    ASSUME OneSender PROVE OutSpec => [](OutTypeOK /\ TransmitterRuns)
<1>1. OutIInv => OutTypeOK
  <2> SUFFICES ASSUME OutIInv PROVE OutTypeOK
    OBVIOUS
  <2>1. \A t \in Writers : outHolder = t <=>
          writer[t].pc \in {"putting", "flushing", "starting", "leaving"}
    BY DEF OutIInv, WritersInPlace, AtTheLock
  <2>2. out \in OutRing /\ port \in PortType
    BY DEF OutIInv, PortSound
  <2> QED BY <2>1, <2>2 DEF OutIInv, OutTypeOK, OutRing, PortType, SentBytes
<1>2. OutIInv => TransmitterRuns
  BY DEF OutIInv, Runs, TransmitterRuns, OutEmpty
<1>3. OutSpec => []OutIInv
  BY OutInductive
<1> QED BY <1>1, <1>2, <1>3, PTL

\* uart.c: what one task sends comes out on the line, every byte once and in
\* order: none is overwritten in the ring, nor in TXBUF by the next one.
THEOREM TransmitterImplementsFifo ==
    ASSUME OneSender PROVE OutSpec => ImplementsLine
<1>1. OutInit => ALine!Init
  BY OutInitIInv, ToSendIs DEF ALine!Init
<1>2. OutIInv /\ [OutNext]_outVars => [ALine!Next]_ALine!vars
  <2> SUFFICES ASSUME OutIInv, [OutNext]_outVars PROVE [ALine!Next]_ALine!vars
    OBVIOUS
  <2>1. CASE UNCHANGED outVars
    BY <2>1 DEF outVars, ALine!vars, Buffered
  <2>2. CASE OutNext
    <3> DEFINE s == port.buf \o Buffered
               s1 == port'.buf \o Buffered'
    <3>1. LineStep(s, s1, line')
      BY <2>2, OutStep, ToSendIs DEF OutStepIsSound
    <3>2. ALine!Next
      BY <3>1 DEF LineStep, SentBytes, ALine!Next, ALine!Put, ALine!Get, ALine!CallIdle
    <3> QED BY <3>2
  <2> QED BY <2>1, <2>2
<1>3. OutSpec => []OutIInv
  BY OutInductive
<1> QED BY <1>1, <1>2, <1>3, PTL DEF OutSpec, ImplementsLine, ALine!Spec

-----------------------------------------------------------------------------
(***************************************************************************)
(* The timer.                                                              *)
(***************************************************************************)
\* Where a task in timer_delay is between its call and its return.
InDelay(r) == r.pc \in {"testing", "asleep", "woken"}

SleeperType ==
    [pc : {"away", "testing", "asleep", "woken", "reading"},
     t0 : 0 .. Day - 1, msec : Nat, since : Nat, late : Nat]

\* What the clock ms says of a task in timer_delay: the time counted for it is
\* the difference to t0, over one midnight at most; it is past its end by no more
\* than the ticks it is late, and not at all while it is asleep.
OnTime(r, ms, n) ==
    InDelay(r) =>
        /\ r.msec \in Delays
        /\ r.late <= MaxLate
        /\ ms - r.t0 = r.since \/ ms - r.t0 = r.since - Day
        /\ r.since <= r.msec + r.late * n
        /\ r.pc = "asleep" => r.since < r.msec

\* The inductive invariant of timer_delay.
TimerIInv ==
    /\ TimerTypeOK
    /\ sleeper \in [Clients -> SleeperType]
    /\ \A s \in Watchers : ~ InDelay(sleeper[s])
    /\ \A s \in Sleepers : sleeper[s].pc # "reading"
    /\ \A s \in Clients : OnTime(sleeper[s], milliseconds, msec_per_tick)
    /\ pending => holder # NoTask /\ NobodyTooLate

\* Late ticks take no more time than all that a task may be late.
LEMMA LateTicks ==
    ASSUME NEW a \in Nat, NEW b \in Nat, NEW n \in Nat, a <= b
    PROVE  /\ a * n <= b * n /\ (a + 1) * n = a * n + n /\ a * n \in Nat
           /\ a < b => a * n + n <= b * n
OBVIOUS

\* A task in timer_delay is called back before a day has passed.
LEMMA SinceFits ==
    ASSUME NEW n \in Ticks, NEW ms \in 0 .. Day - 1, NEW r \in SleeperType,
           OnTime(r, ms, n), InDelay(r)
    PROVE  /\ r.since + n <= Day
           /\ r.since < Day
           /\ r.late < MaxLate => r.since + n < Day
<1>1. n \in 1 .. 100 /\ Day \in Nat /\ MaxLate \in Nat
  BY TimerConstants
<1>2. r.late \in Nat /\ r.late <= MaxLate /\ r.since \in Nat /\ r.msec \in Nat /\ r.msec \in Delays
  BY DEF OnTime, SleeperType
<1>3. r.msec + (MaxLate + 1) * n <= Day
  BY <1>2, DelaysFit
<1>4. /\ r.late * n <= MaxLate * n /\ (MaxLate + 1) * n = MaxLate * n + n
      /\ r.late * n \in Nat /\ MaxLate * n \in Nat
  BY <1>1, <1>2, LateTicks
<1>5. r.since <= r.msec + r.late * n
  BY DEF OnTime
<1>6. r.late < MaxLate => r.late * n + n <= MaxLate * n
  BY <1>1, <1>2, LateTicks
<1> DEFINE a == r.late * n
           b == MaxLate * n
<1>7. /\ a \in Nat /\ b \in Nat /\ r.msec + (b + n) <= Day /\ r.since <= r.msec + a /\ a <= b
      /\ r.late < MaxLate => a + n <= b
  BY <1>3, <1>4, <1>5, <1>6
<1> HIDE DEF InDelay, a, b
<1> QED BY <1>1, <1>2, <1>7

\* The clock after a tick: the old one and the tick, less a day at midnight.
LEMMA TickedClock ==
    ASSUME TimerTypeOK, TimerUpdate
    PROVE  /\ milliseconds' \in 0 .. Day - 1
           /\ \/ milliseconds' = milliseconds + msec_per_tick
              \/ milliseconds' = milliseconds + msec_per_tick - Day
           /\ msec_per_tick' = msec_per_tick
BY TimerConstants DEF TimerTypeOK, TimerUpdate, RolledOver

\* A tick keeps the types of the clock and of the user timer.
LEMMA TickedTypes ==
    ASSUME TimerTypeOK, TimerUpdate
    PROVE  /\ msec_per_tick' \in Ticks
           /\ milliseconds' \in 0 .. Day - 1 /\ days' \in 0 .. 1
           /\ next_decisec' \in 0 .. Word - 1
           /\ beat' \in BOOLEAN
           /\ cur_time' \in - MaxBacklog .. Period /\ user' \in {"away", "waiting"}
<1>1. /\ Word \in Nat \ {0} /\ Day \in Nat /\ next_decisec \in Int /\ msec_per_tick \in Int
      /\ msec_per_tick \in 1 .. 100 /\ Period \in Nat /\ MaxBacklog \in Nat /\ days \in 0 .. 1
  BY TimerConstants DEF TimerTypeOK
<1>2. \A x \in Int : x % Word \in 0 .. Word - 1
  BY <1>1
<1>3. next_decisec' \in 0 .. Word - 1
  <2> DEFINE at == RolledOver(milliseconds + msec_per_tick, next_decisec)
  <2>1. at.next \in 0 .. Word - 1
    <3>1. next_decisec - Day \in Int /\ next_decisec \in 0 .. Word - 1
      BY <1>1 DEF TimerTypeOK
    <3>2. (next_decisec - Day) % Word \in 0 .. Word - 1
      BY <1>2, <3>1
    <3> QED BY <3>1, <3>2 DEF RolledOver
  <2>2. next_decisec' = (at.next + 100) % Word \/ next_decisec' = at.next
    BY DEF TimerUpdate
  <2>3. at.next + 100 \in Int
    BY <1>1, <2>1
  <2> HIDE DEF at
  <2> QED BY <1>2, <2>1, <2>2, <2>3
<1>4. days' \in 0 .. 1
  <2>1. (days + 1) % 2 \in 0 .. 1
    BY <1>1
  <2> QED BY <1>1, <2>1 DEF TimerUpdate
<1>5. beat' \in BOOLEAN
  BY DEF TimerUpdate
<1>6. cur_time' \in - MaxBacklog .. Period /\ user' \in {"away", "waiting"}
  BY <1>1 DEF TimerUpdate, TimerTypeOK, Floor
<1> QED BY <1>3, <1>4, <1>5, <1>6, TickedClock DEF TimerTypeOK

\* What a tick does to one task: it counts, and wakes it if it is asleep.
LEMMA TickedSleeper ==
    ASSUME NEW n \in Ticks, NEW ms \in 0 .. Day - 1, NEW ms1 \in 0 .. Day - 1,
           ms1 = ms + n \/ ms1 = ms + n - Day,
           NEW s \in Clients, sleeper[s] \in SleeperType,
           OnTime(sleeper[s], ms, n),
           InDelay(sleeper[s]) => sleeper[s].late < MaxLate
    PROVE  /\ WokenBy(s, n) \in SleeperType
           /\ OnTime(WokenBy(s, n), ms1, n)
           /\ WokenBy(s, n).pc # "asleep"
           /\ sleeper[s].pc # "asleep" => WokenBy(s, n).pc = sleeper[s].pc
           /\ sleeper[s].pc = "asleep" => WokenBy(s, n).pc = "woken"
<1> DEFINE r == sleeper[s]
           w == WokenBy(s, n)
<1>1. n \in 1 .. 100 /\ n \in Nat /\ Day \in Nat /\ MaxLate \in Nat \ {0}
  BY TimerConstants
<1>2. CASE ~ InDelay(r)
  <2>1. r.pc \in {"away", "reading"} /\ w = r
    BY <1>2 DEF SleeperType, InDelay, WokenBy
  <2> QED BY <1>2, <2>1 DEF OnTime, InDelay
<1>3. CASE InDelay(r)
  <2>1. /\ r.since + n < Day
        /\ r.since \in Nat /\ r.late \in Nat /\ r.msec \in Nat /\ r.t0 \in 0 .. Day - 1
        /\ r.late < MaxLate /\ r.msec \in Delays
        /\ r.since <= r.msec + r.late * n
        /\ ms - r.t0 = r.since \/ ms - r.t0 = r.since - Day
        /\ r.pc = "asleep" => r.since < r.msec
    BY <1>3, SinceFits DEF SleeperType, OnTime
  <2>2. CountedOn(r.since, n) = r.since + n
    BY <1>1, <2>1 DEF CountedOn
  <2>3. (r.late + 1) * n = r.late * n + n /\ r.late * n \in Nat
    BY <1>1, <2>1, LateTicks
  <2>4. ms1 - r.t0 = r.since + n \/ ms1 - r.t0 = r.since + n - Day
    BY <1>1, <2>1
  <2>5. CASE r.pc = "asleep"
    <3>1. w = [r EXCEPT !.pc = "woken", !.since = r.since + n, !.late = 1]
      BY <2>2, <2>5 DEF WokenBy
    <3>2. /\ w \in SleeperType /\ w.pc = "woken" /\ w.since = r.since + n /\ w.late = 1
          /\ w.t0 = r.t0 /\ w.msec = r.msec
      <4>1. r.since + n \in Nat
        BY <1>1, <2>1
      <4>2. r \in SleeperType
        OBVIOUS
      <4> HIDE DEF r, w
      <4> QED BY <3>1, <4>1, <4>2 DEF SleeperType
    <3>3. w.since <= w.msec + w.late * n
      BY <1>1, <2>1, <2>5, <3>2
    <3> QED BY <1>1, <2>1, <2>4, <2>5, <3>2, <3>3 DEF OnTime
  <2>6. CASE r.pc # "asleep"
    <3>1. w = [r EXCEPT !.since = r.since + n, !.late = r.late + 1]
      BY <1>3, <2>2, <2>6 DEF WokenBy, InDelay
    <3>2. /\ w \in SleeperType /\ w.pc = r.pc /\ w.since = r.since + n /\ w.late = r.late + 1
          /\ w.t0 = r.t0 /\ w.msec = r.msec
      <4>1. r.pc \in {"testing", "asleep", "woken"} /\ r.since + n \in Nat /\ r.late + 1 \in Nat
        BY <1>1, <1>3, <2>1 DEF InDelay
      <4>2. r \in SleeperType
        OBVIOUS
      <4> HIDE DEF r, w
      <4> QED BY <3>1, <4>1, <4>2 DEF SleeperType
    <3>3. w.since <= w.msec + w.late * n
      BY <1>1, <2>1, <2>3, <3>2
    <3> QED BY <1>1, <2>1, <2>4, <2>6, <3>2, <3>3 DEF OnTime
  <2> QED BY <2>5, <2>6
<1> QED BY <1>2, <1>3

\* The test of the loop in timer_delay is exact.
LEMMA PassedIsExact ==
    ASSUME TimerIInv, NEW s \in Clients, InDelay(sleeper[s])
    PROVE  Passed(s) <=> sleeper[s].since >= sleeper[s].msec
<1>1. /\ sleeper[s] \in SleeperType /\ milliseconds \in 0 .. Day - 1 /\ msec_per_tick \in Ticks
      /\ OnTime(sleeper[s], milliseconds, msec_per_tick) /\ Day \in Nat
  BY TimerConstants DEF TimerIInv, TimerTypeOK
<1>2. sleeper[s].since < Day
  BY <1>1, SinceFits
<1>3. /\ sleeper[s].since \in Nat /\ sleeper[s].t0 \in 0 .. Day - 1
      /\ \/ milliseconds - sleeper[s].t0 = sleeper[s].since
         \/ milliseconds - sleeper[s].t0 = sleeper[s].since - Day
  BY <1>1 DEF SleeperType, OnTime
<1> QED BY <1>1, <1>2, <1>3 DEF Passed, IntervalGreaterOrEqual

-----------------------------------------------------------------------------
\* What holds of the tasks apart from the lock.
SleepersOK(sl, ms, n) ==
    /\ sl \in [Clients -> SleeperType]
    /\ \A s \in Watchers : ~ InDelay(sl[s])
    /\ \A s \in Sleepers : sl[s].pc # "reading"
    /\ \A s \in Clients : OnTime(sl[s], ms, n)

\* Whoever has the lock is at work.
AtLock(sl, h) == \A s \in Clients : h = s <=> sl[s].pc \in {"testing", "reading"}

\* The invariant in these terms.
LEMMA IInvParts ==
    TimerIInv <=> /\ TimerTypeOK
                  /\ SleepersOK(sleeper, milliseconds, msec_per_tick)
                  /\ pending => holder # NoTask /\ NobodyTooLate
BY DEF TimerIInv, SleepersOK

\* A tick, wherever it is served: the tasks are as they should be for the new
\* clock, and nobody is taken away from the lock.
LEMMA TickedSleepers ==
    ASSUME TimerIInv, NobodyTooLate, TimerUpdate,
           NEW sl, sl = [x \in Clients |-> WokenBy(x, msec_per_tick)]
    PROVE  /\ SleepersOK(sl, milliseconds', msec_per_tick')
           /\ \A s \in Clients : sl[s].pc = sleeper[s].pc \/ (sl[s].pc = "woken" /\ sleeper[s].pc = "asleep")
<1>1. /\ msec_per_tick \in Ticks /\ milliseconds \in 0 .. Day - 1
      /\ sleeper \in [Clients -> SleeperType] /\ TimerTypeOK
      /\ \A s \in Clients : OnTime(sleeper[s], milliseconds, msec_per_tick)
  BY DEF TimerIInv, TimerTypeOK
<1>2. /\ milliseconds' \in 0 .. Day - 1 /\ msec_per_tick' = msec_per_tick
      /\ \/ milliseconds' = milliseconds + msec_per_tick
         \/ milliseconds' = milliseconds + msec_per_tick - Day
  BY <1>1, TickedClock
<1>3. ASSUME NEW s \in Clients
      PROVE  /\ sl[s] \in SleeperType
             /\ OnTime(sl[s], milliseconds', msec_per_tick)
             /\ sl[s].pc # "asleep"
             /\ sleeper[s].pc # "asleep" => sl[s].pc = sleeper[s].pc
             /\ sleeper[s].pc = "asleep" => sl[s].pc = "woken"
  <2>1. InDelay(sleeper[s]) => sleeper[s].late < MaxLate
    BY DEF TimerIInv, NobodyTooLate, Clients
  <2>2. sl[s] = WokenBy(s, msec_per_tick) /\ sleeper[s] \in SleeperType
    BY <1>1
  <2> QED BY <1>1, <1>2, <2>1, <2>2, TickedSleeper
<1>4. \A s \in Watchers : ~ InDelay(sl[s])
  BY <1>3 DEF TimerIInv, InDelay, Clients
<1>5. \A s \in Sleepers : sl[s].pc # "reading"
  BY <1>3 DEF TimerIInv, Clients
<1>6. sl \in [Clients -> SleeperType]
  BY <1>3
<1>7. \A s \in Clients : OnTime(sl[s], milliseconds', msec_per_tick')
  BY <1>2, <1>3
<1>8. \A s \in Clients : sl[s].pc = sleeper[s].pc \/ (sl[s].pc = "woken" /\ sleeper[s].pc = "asleep")
  BY <1>3
<1> QED BY <1>4, <1>5, <1>6, <1>7, <1>8 DEF SleepersOK

\* A task that is away is as it should be at any time.
LEMMA AwayIsOK == /\ TimerTypeOK => Away \in SleeperType
                  /\ ~ InDelay(Away) /\ Away.pc = "away" /\ Away.late = 0
BY TimerConstants DEF Away, SleeperType, InDelay, TimerTypeOK

\* One task is replaced.
LEMMA ReplacedSleeper ==
    ASSUME NEW sl, NEW ms, NEW n, SleepersOK(sl, ms, n), NEW s \in Clients,
           NEW r \in SleeperType, OnTime(r, ms, n),
           s \in Watchers => ~ InDelay(r), s \in Sleepers => r.pc # "reading"
    PROVE  SleepersOK([sl EXCEPT ![s] = r], ms, n)
<1>1. [sl EXCEPT ![s] = r] \in [Clients -> SleeperType]
  BY DEF SleepersOK
<1>2. \A x \in Clients : [sl EXCEPT ![s] = r][x] = IF x = s THEN r ELSE sl[x]
  BY DEF SleepersOK
<1> QED BY <1>1, <1>2 DEF SleepersOK, Clients

-----------------------------------------------------------------------------
\* The clock starts at 0 with nobody in timer_delay.
LEMMA TimerInitIInv == TimerInit => TimerIInv
<1> SUFFICES ASSUME TimerInit PROVE TimerIInv
  OBVIOUS
<1>1. TimerTypeOK
  <2>1. Day \in Nat \ {0} /\ Word \in Nat \ {0} /\ Period \in Nat /\ MaxBacklog \in Nat
    BY TimerConstants
  <2>2. 0 \in 0 .. Day - 1 /\ 0 \in 0 .. Word - 1 /\ Period \in - MaxBacklog .. Period
    BY <2>1
  <2>3. \A s \in Clients : holder # s /\ sleeper[s].pc = "away"
    BY TimerConstants DEF TimerInit, Away, Clients
  <2>4. \A s \in Clients : holder = s <=> sleeper[s].pc \in {"testing", "reading"}
    BY <2>3
  <2>5. /\ msec_per_tick \in Ticks
        /\ milliseconds \in 0 .. Day - 1 /\ days \in 0 .. 1
        /\ next_decisec \in 0 .. Word - 1
    BY <2>2 DEF TimerInit
  <2>6. /\ beat \in BOOLEAN /\ pending \in BOOLEAN
        /\ holder \in Clients \cup {NoTask}
        /\ cur_time \in - MaxBacklog .. Period /\ user \in {"away", "waiting"}
    BY <2>2 DEF TimerInit
  <2> QED BY <2>4, <2>5, <2>6 DEF TimerTypeOK
<1>2. SleepersOK(sleeper, milliseconds, msec_per_tick)
  BY <1>1, AwayIsOK DEF TimerInit, SleepersOK, OnTime, Clients
<1> QED BY <1>1, <1>2, IInvParts DEF TimerInit

\* A tick on a free lock.
LEMMA TickIInv == ASSUME TimerIInv, Tick PROVE TimerIInv'
<1>1. SleepersOK(sleeper', milliseconds', msec_per_tick')
  BY TickedSleepers DEF Tick
<1>2. TimerTypeOK'
  <2>1. AtLock(sleeper', holder')
    BY TickedSleepers DEF Tick, AtLock, TimerIInv, TimerTypeOK
  <2> QED BY <2>1, TickedTypes DEF TimerIInv, TimerTypeOK, Tick, AtLock
<1>3. ~ pending'
  BY DEF Tick, TimerIInv
<1> QED BY <1>1, <1>2, <1>3 DEF TimerIInv, SleepersOK, NobodyTooLate

\* The clock, and the tasks but s, when s gives up the lock.
LEMMA GivesUpIInv ==
    ASSUME TimerIInv, NEW s \in Clients, holder = s, GivesUp(s, Away)
    PROVE  TimerIInv'
<1>1. Away \in SleeperType /\ ~ InDelay(Away) /\ Away.pc = "away" /\ Away.pc # "reading"
  BY AwayIsOK DEF TimerIInv
<1>2. ASSUME NEW ms, NEW n PROVE OnTime(Away, ms, n)
  BY <1>1 DEF OnTime
<1>3. CASE pending
  <2> DEFINE sl == [x \in Clients |-> WokenBy(x, msec_per_tick)]
  <2>1. NobodyTooLate /\ TimerUpdate /\ sleeper' = [sl EXCEPT ![s] = Away]
    BY <1>3 DEF TimerIInv, GivesUp
  <2>2. /\ SleepersOK(sl, milliseconds', msec_per_tick')
        /\ \A x \in Clients : sl[x].pc = sleeper[x].pc \/ (sl[x].pc = "woken" /\ sleeper[x].pc = "asleep")
    BY <2>1, TickedSleepers
  <2> HIDE DEF sl
  <2>3. SleepersOK(sleeper', milliseconds', msec_per_tick')
    BY <1>1, <1>2, <2>1, <2>2, ReplacedSleeper
  <2>4. AtLock(sleeper', holder')
    <3>1. \A x \in Clients : sleeper'[x] = IF x = s THEN Away ELSE sl[x]
      BY <2>1, <2>2 DEF SleepersOK
    <3>2. \A x \in Clients : x # s => sleeper[x].pc \notin {"testing", "reading"}
      BY DEF TimerIInv, TimerTypeOK
    <3>3. holder' = NoTask /\ \A x \in Clients : x # NoTask
      BY TimerConstants DEF GivesUp, Clients
    <3> QED BY <1>1, <2>2, <3>1, <3>2, <3>3 DEF AtLock
  <2>5. TimerTypeOK'
    BY <2>1, <2>4, TickedTypes DEF TimerIInv, TimerTypeOK, GivesUp, AtLock
  <2> QED BY <2>3, <2>5 DEF TimerIInv, SleepersOK, GivesUp
<1>4. CASE ~ pending
  <2>1. /\ sleeper' = [sleeper EXCEPT ![s] = Away] /\ holder' = NoTask
        /\ pending' = FALSE /\ beat' = FALSE
        /\ UNCHANGED <<msec_per_tick, milliseconds, days, next_decisec, cur_time, user>>
    BY <1>4 DEF GivesUp
  <2>2. SleepersOK(sleeper', milliseconds', msec_per_tick')
    BY <1>1, <1>2, <2>1, ReplacedSleeper, IInvParts
  <2>3. AtLock(sleeper', holder')
    <3>1. \A x \in Clients : sleeper'[x] = IF x = s THEN Away ELSE sleeper[x]
      BY <2>1 DEF TimerIInv
    <3>2. \A x \in Clients : x # s => sleeper[x].pc \notin {"testing", "reading"}
      BY DEF TimerIInv, TimerTypeOK
    <3>3. holder' = NoTask /\ \A x \in Clients : x # NoTask
      BY TimerConstants DEF GivesUp, Clients
    <3> QED BY <1>1, <3>1, <3>2, <3>3 DEF AtLock
  <2>4. TimerTypeOK'
    BY <2>1, <2>3 DEF TimerIInv, TimerTypeOK, AtLock
  <2> QED BY <2>1, <2>2, <2>4 DEF TimerIInv, SleepersOK
<1> QED BY <1>3, <1>4

\* The tick that finds the lock taken.
LEMMA TickWhileLockedIInv == ASSUME TimerIInv, TickWhileLocked PROVE TimerIInv'
<1>1. TimerTypeOK'
  BY DEF TickWhileLocked, TimerIInv, TimerTypeOK
<1> QED BY <1>1 DEF TickWhileLocked, TimerIInv, NobodyTooLate

\* A step of s that leaves the clock alone: its record becomes r.
LEMMA QuietIInv ==
    ASSUME TimerIInv, NEW s \in Clients, NEW r \in SleeperType,
           OnTime(r, milliseconds, msec_per_tick),
           s \in Watchers => ~ InDelay(r), s \in Sleepers => r.pc # "reading",
           sleeper' = [sleeper EXCEPT ![s] = r],
           \/ holder = NoTask /\ holder' = s /\ r.pc \in {"testing", "reading"}
           \/ holder = s /\ holder' = NoTask /\ r.pc \notin {"testing", "reading"},
           ~ pending, beat' = FALSE, Quiet, UNCHANGED user
    PROVE  TimerIInv'
<1>1. SleepersOK(sleeper', milliseconds', msec_per_tick')
  BY ReplacedSleeper, IInvParts DEF Quiet
<1>2. \A x \in Clients : sleeper'[x] = IF x = s THEN r ELSE sleeper[x]
  BY DEF TimerIInv
<1>3. \A x \in Clients : x # NoTask
  BY TimerConstants DEF Clients
<1>4. AtLock(sleeper', holder')
  BY <1>2, <1>3 DEF TimerIInv, TimerTypeOK, AtLock
<1>5. TimerTypeOK'
  BY <1>4 DEF TimerIInv, TimerTypeOK, AtLock, Quiet
<1> QED BY <1>1, <1>5 DEF TimerIInv, SleepersOK, Quiet

\* timer_delay starts to count at the clock as it is.
LEMMA TimerDelayIInv ==
    ASSUME TimerIInv, NEW s \in Sleepers, NEW msec \in Delays, TimerDelay(s, msec)
    PROVE  TimerIInv'
<1> DEFINE r == [pc |-> "testing", t0 |-> milliseconds, msec |-> msec, since |-> 0, late |-> 0]
<1>1. msec \in Nat /\ milliseconds \in 0 .. Day - 1 /\ msec_per_tick \in Nat /\ MaxLate \in Nat
  BY TimerConstants DEF TimerIInv, TimerTypeOK
<1>2. r \in SleeperType
  BY <1>1 DEF SleeperType
<1>3. OnTime(r, milliseconds, msec_per_tick)
  BY <1>1 DEF OnTime
<1>4. s \in Clients /\ s \notin Watchers
  BY TimerConstants DEF Clients
<1>5. ~ pending
  BY DEF TimerDelay, TimerIInv
<1>6. r.pc = "testing"
  OBVIOUS
<1>7. /\ holder = NoTask /\ holder' = s /\ sleeper' = [sleeper EXCEPT ![s] = r]
      /\ beat' = FALSE /\ Quiet /\ UNCHANGED user
  BY DEF TimerDelay
<1> HIDE DEF r
<1> QED BY <1>2, <1>3, <1>4, <1>5, <1>6, <1>7, QuietIInv

\* The loop of timer_delay waits, with a tick or without.
LEMMA DelayWaitIInv ==
    ASSUME TimerIInv, NEW s \in Sleepers, DelayWait(s)
    PROVE  TimerIInv'
<1>1. s \in Clients /\ s \notin Watchers /\ InDelay(sleeper[s]) /\ sleeper[s].pc = "testing" /\ holder = s
  BY TimerConstants DEF Clients, DelayWait, InDelay, TimerIInv, TimerTypeOK
<1>2. CASE pending
  <2>1. /\ NobodyTooLate /\ TimerUpdate /\ holder' = holder /\ pending' = FALSE
        /\ sleeper' = [x \in Clients |-> WokenBy(x, msec_per_tick)]
    BY <1>2 DEF TimerIInv, DelayWait
  <2>2. /\ SleepersOK(sleeper', milliseconds', msec_per_tick')
        /\ \A x \in Clients : sleeper'[x].pc = sleeper[x].pc \/ (sleeper'[x].pc = "woken" /\ sleeper[x].pc = "asleep")
    BY <2>1, TickedSleepers
  <2>3. AtLock(sleeper', holder')
    BY <2>1, <2>2 DEF TimerIInv, TimerTypeOK, AtLock
  <2>4. TimerTypeOK'
    BY <2>1, <2>3, TickedTypes DEF TimerIInv, TimerTypeOK, AtLock
  <2> QED BY <2>1, <2>2, <2>4 DEF TimerIInv, SleepersOK
<1>3. CASE ~ pending
  <2> DEFINE r == [sleeper[s] EXCEPT !.pc = "asleep", !.late = 0]
  <2>1. /\ sleeper' = [sleeper EXCEPT ![s] = r] /\ holder' = NoTask /\ beat' = FALSE
        /\ Quiet /\ UNCHANGED user
    BY <1>3 DEF DelayWait, TimerIInv
  <2>2. sleeper[s] \in SleeperType /\ OnTime(sleeper[s], milliseconds, msec_per_tick)
    BY <1>1 DEF TimerIInv
  <2>3. sleeper[s].since < sleeper[s].msec
    <3>1. ~ Passed(s)
      BY DEF DelayWait
    <3> QED BY <1>1, <2>2, <3>1, PassedIsExact DEF SleeperType
  <2>4. /\ r \in SleeperType /\ r.pc = "asleep" /\ r.late = 0 /\ r.since = sleeper[s].since
        /\ r.msec = sleeper[s].msec /\ r.t0 = sleeper[s].t0
    <3> DEFINE o == sleeper[s]
    <3> HIDE DEF o
    <3>1. o \in SleeperType
      BY <2>2 DEF o
    <3>2. r = [o EXCEPT !.pc = "asleep", !.late = 0]
      BY DEF o
    <3> HIDE DEF r
    <3> QED BY <3>1, <3>2 DEF SleeperType, o
  <2>5. OnTime(r, milliseconds, msec_per_tick)
    <3>1. 0 * msec_per_tick = 0 /\ MaxLate \in Nat
      BY TimerConstants DEF TimerIInv, TimerTypeOK
    <3>2. sleeper[s].since \in Nat /\ sleeper[s].msec \in Nat
      BY <2>2 DEF SleeperType
    <3> HIDE DEF r
    <3> QED BY <1>1, <2>2, <2>3, <2>4, <3>1, <3>2 DEF OnTime
  <2> HIDE DEF r
  <2> QED BY <1>1, <1>3, <2>1, <2>4, <2>5, QuietIInv
<1> QED BY <1>2, <1>3

\* mutex_wait takes the lock again for a task that was woken.
LEMMA DelayRelockIInv ==
    ASSUME TimerIInv, NEW s \in Sleepers, DelayRelock(s)
    PROVE  TimerIInv'
<1> DEFINE r == [sleeper[s] EXCEPT !.pc = "testing"]
<1>1. s \in Clients /\ s \notin Watchers /\ sleeper[s].pc = "woken" /\ InDelay(sleeper[s])
  BY TimerConstants DEF Clients, DelayRelock, InDelay
<1>2. sleeper[s] \in SleeperType /\ OnTime(sleeper[s], milliseconds, msec_per_tick)
  BY <1>1 DEF TimerIInv
<1>3. /\ r \in SleeperType /\ r.pc = "testing" /\ r.since = sleeper[s].since
      /\ r.msec = sleeper[s].msec /\ r.t0 = sleeper[s].t0 /\ r.late = sleeper[s].late
  <2> DEFINE o == sleeper[s]
  <2>1. o \in SleeperType /\ r = [o EXCEPT !.pc = "testing"]
    BY <1>2
  <2> HIDE DEF o, r
  <2>2. /\ r \in SleeperType /\ r.pc = "testing" /\ r.since = o.since
        /\ r.msec = o.msec /\ r.t0 = o.t0 /\ r.late = o.late
    BY <2>1 DEF SleeperType
  <2> QED BY <2>2 DEF o
<1>4. OnTime(r, milliseconds, msec_per_tick)
  <2> HIDE DEF r
  <2> QED BY <1>1, <1>2, <1>3 DEF OnTime
<1>5. /\ holder = NoTask /\ holder' = s /\ sleeper' = [sleeper EXCEPT ![s] = r]
      /\ beat' = FALSE /\ Quiet /\ UNCHANGED user /\ ~ pending
  BY DEF DelayRelock, TimerIInv
<1> HIDE DEF r
<1> QED BY <1>1, <1>3, <1>4, <1>5, QuietIInv

\* A task reads the clock.
LEMMA ReadClockIInv ==
    ASSUME TimerIInv, NEW s \in Watchers, ReadClock(s)
    PROVE  TimerIInv'
<1> DEFINE r == [sleeper[s] EXCEPT !.pc = "reading"]
<1>1. s \in Clients /\ s \notin Sleepers
  BY TimerConstants DEF Clients
<1>2. sleeper[s] \in SleeperType
  BY <1>1 DEF TimerIInv
<1>3. r \in SleeperType /\ r.pc = "reading"
  <2> DEFINE o == sleeper[s]
  <2>1. o \in SleeperType /\ r = [o EXCEPT !.pc = "reading"]
    BY <1>2
  <2> HIDE DEF o, r
  <2> QED BY <2>1 DEF SleeperType
<1>4. /\ holder = NoTask /\ holder' = s /\ sleeper' = [sleeper EXCEPT ![s] = r]
      /\ beat' = FALSE /\ Quiet /\ UNCHANGED user /\ ~ pending
  BY DEF ReadClock, TimerIInv
<1> HIDE DEF r
<1>5. ~ InDelay(r) /\ OnTime(r, milliseconds, msec_per_tick)
  BY <1>3 DEF InDelay, OnTime
<1> QED BY <1>1, <1>3, <1>4, <1>5, QuietIInv

\* Each step of the timer preserves the invariant.
LEMMA TimerNextIInv == TimerIInv /\ [TimerNext]_timerVars => TimerIInv'
<1> SUFFICES ASSUME TimerIInv, [TimerNext]_timerVars PROVE TimerIInv'
  OBVIOUS
<1>1. CASE Tick
  BY <1>1, TickIInv
<1>2. CASE TickWhileLocked
  BY <1>2, TickWhileLockedIInv
<1>3. ASSUME NEW s \in Sleepers, NEW msec \in Delays, TimerDelay(s, msec) PROVE TimerIInv'
  BY <1>3, TimerDelayIInv
<1>4. ASSUME NEW s \in Sleepers, DelayReturn(s) PROVE TimerIInv'
  <2>1. s \in Clients /\ holder = s /\ GivesUp(s, Away)
    BY <1>4 DEF Clients, DelayReturn, TimerIInv, TimerTypeOK
  <2> QED BY <2>1, GivesUpIInv
<1>5. ASSUME NEW s \in Sleepers, DelayWait(s) PROVE TimerIInv'
  BY <1>5, DelayWaitIInv
<1>6. ASSUME NEW s \in Sleepers, DelayRelock(s) PROVE TimerIInv'
  BY <1>6, DelayRelockIInv
<1>7. ASSUME NEW s \in Watchers, ReadClock(s) PROVE TimerIInv'
  BY <1>7, ReadClockIInv
<1>8. ASSUME NEW s \in Watchers, ReadDone(s) PROVE TimerIInv'
  <2>1. s \in Clients /\ holder = s /\ GivesUp(s, Away)
    BY <1>8 DEF Clients, ReadDone, TimerIInv, TimerTypeOK
  <2> QED BY <2>1, GivesUpIInv
<1>9. CASE UserTimerWait
  BY <1>9 DEF UserTimerWait, Quiet, TimerIInv, TimerTypeOK, NobodyTooLate
<1>10. CASE UNCHANGED timerVars
  BY <1>10 DEF timerVars, TimerIInv, TimerTypeOK, NobodyTooLate
<1> QED BY <1>1, <1>2, <1>3, <1>4, <1>5, <1>6, <1>7, <1>8, <1>9, <1>10 DEF TimerNext

\* No tick leaves a task asleep in timer_delay that is due, and the clock, the
\* next decisecond and the lock are what the code takes them for (timer.c:166-224, 312-323).
THEOREM NobodyOversleepsOnTheClock == TimerSpec => [](TimerTypeOK /\ NobodyOversleeps)
<1>1. TimerInit => TimerIInv
  BY TimerInitIInv
<1>2. TimerIInv /\ [TimerNext]_timerVars => TimerIInv'
  BY TimerNextIInv
<1>3. TimerIInv => TimerTypeOK /\ NobodyOversleeps
  BY DEF TimerIInv, OnTime, InDelay, NobodyOversleeps, Clients
<1> QED BY <1>1, <1>2, <1>3, PTL DEF TimerSpec

\* timer_delay never returns before its time, over midnight too: when the test
\* of its loop is passed, msec milliseconds have been counted.
THEOREM DelaysAreLongEnough == TimerSpec => DelayIsLongEnough
<1>1. TimerInit => TimerIInv
  BY TimerInitIInv
<1>2. TimerIInv /\ [TimerNext]_timerVars => TimerIInv'
  BY TimerNextIInv
<1>3. ASSUME TimerIInv, [TimerNext]_timerVars, NEW s \in Sleepers,
             sleeper[s].pc = "testing", sleeper'[s].pc = "away"
      PROVE  sleeper[s].since >= sleeper[s].msec
  <2>1. s \in Clients /\ InDelay(sleeper[s]) /\ s \notin Watchers
    BY <1>3, TimerConstants DEF Clients, InDelay
  <2>2. Passed(s) => sleeper[s].since >= sleeper[s].msec
    BY <1>3, <2>1, PassedIsExact
  <2>3. sleeper \in [Clients -> SleeperType]
    BY <1>3 DEF TimerIInv
  <2>4. \A sl : sl = [x \in Clients |-> WokenBy(x, msec_per_tick)] => sl[s].pc = "testing"
    <3> DEFINE o == sleeper[s]
               n == CountedOn(o.since, msec_per_tick)
               w == [o EXCEPT !.since = n, !.late = o.late + 1]
    <3>1. WokenBy(s, msec_per_tick) = w
      BY <1>3 DEF WokenBy
    <3>2. o \in SleeperType /\ o.pc = "testing"
      BY <1>3, <2>1, <2>3
    <3>3. w.pc = "testing"
      <4> HIDE DEF o, n
      <4> QED BY <3>2 DEF SleeperType
    <3> HIDE DEF w
    <3> QED BY <2>1, <3>1, <3>3
  <2>5. ~ UNCHANGED sleeper
    BY <1>3
  <2>6. ASSUME NEW x \in Clients, NEW r, x # s, GivesUp(x, r) PROVE sleeper'[s].pc = "testing"
    BY <1>3, <2>1, <2>3, <2>4, <2>6 DEF GivesUp
  <2>7. CASE Tick
    BY <1>3, <2>4, <2>7 DEF Tick
  <2>8. ASSUME NEW x \in Sleepers, DelayReturn(x), x # s PROVE FALSE
    BY <1>3, <2>6, <2>8 DEF DelayReturn, Clients
  <2>9. ASSUME NEW x \in Watchers, ReadDone(x) PROVE FALSE
    BY <1>3, <2>1, <2>6, <2>9 DEF ReadDone, Clients
  <2>10. ASSUME NEW x \in Sleepers, NEW msec \in Delays, TimerDelay(x, msec) PROVE FALSE
    BY <1>3, <2>1, <2>3, <2>10 DEF TimerDelay, Clients
  <2>11. ASSUME NEW x \in Sleepers, DelayWait(x) PROVE FALSE
    <3>1. sleeper'[s].pc = "away" /\ x \in Clients
      BY <1>3 DEF Clients
    <3>2. CASE pending
      <4>1. sleeper' = [y \in Clients |-> WokenBy(y, msec_per_tick)]
        BY <2>11, <3>2 DEF DelayWait
      <4> QED BY <2>4, <3>1, <4>1
    <3>3. CASE ~ pending
      <4>1. sleeper' = [sleeper EXCEPT ![x].pc = "asleep", ![x].late = 0]
        BY <2>11, <3>3 DEF DelayWait
      <4>2. CASE x = s
        <5>1. sleeper'[s].pc = "asleep"
          BY <2>1, <2>3, <4>1, <4>2 DEF SleeperType
        <5> QED BY <3>1, <5>1
      <4>3. CASE x # s
        <5>1. sleeper'[s] = sleeper[s]
          BY <2>1, <2>3, <4>1, <4>3
        <5> QED BY <1>3, <3>1, <5>1
      <4> QED BY <4>2, <4>3
    <3> QED BY <3>2, <3>3
  <2>12. ASSUME NEW x \in Sleepers, DelayRelock(x) PROVE FALSE
    BY <1>3, <2>1, <2>3, <2>12 DEF DelayRelock, Clients, SleeperType
  <2>13. ASSUME NEW x \in Watchers, ReadClock(x) PROVE FALSE
    BY <1>3, <2>1, <2>3, <2>13 DEF ReadClock, Clients, SleeperType
  <2>14. CASE TickWhileLocked \/ UserTimerWait \/ UNCHANGED timerVars
    BY <2>5, <2>14 DEF TickWhileLocked, UserTimerWait, timerVars
  <2>15. CASE DelayReturn(s)
    BY <2>2, <2>15 DEF DelayReturn
  <2> QED BY <1>3, <2>7, <2>8, <2>9, <2>10, <2>11, <2>12, <2>13, <2>14, <2>15 DEF TimerNext
<1>4. TimerIInv /\ [TimerNext]_timerVars
      => [\A s \in Sleepers :
            sleeper[s].pc = "testing" /\ sleeper'[s].pc = "away" =>
                sleeper[s].since >= sleeper[s].msec]_timerVars
  BY <1>3
<1> QED BY <1>1, <1>2, <1>4, PTL DEF TimerSpec, DelayIsLongEnough

-----------------------------------------------------------------------------
\* The next decisecond is the first one after the clock, but at the start.
NextDecisecond ==
    \/ next_decisec = 0 /\ milliseconds = 0
    \/ next_decisec = 100 * (milliseconds \div 100) + 100

\* Each number is in one decisecond.
LEMMA Deciseconds ==
    ASSUME NEW x \in Nat
    PROVE  /\ x \div 100 \in Nat
           /\ 100 * (x \div 100) <= x /\ x < 100 * (x \div 100) + 100
OBVIOUS

\* The decisecond after a tick of n: at is the next one before it is signalled.
LEMMA DecisecondStep ==
    ASSUME NEW ms \in Nat, NEW ms1 \in Nat, NEW n \in 1 .. 99, NEW day \in Nat,
           NEW k \in Nat, NEW m \in Nat, NEW h \in Nat, NEW at \in Nat,
           day = 100 * h, h > 1, ms < day,
           100 * k <= ms, ms < 100 * k + 100, 100 * m <= ms1, ms1 < 100 * m + 100,
           \/ ms + n >= day /\ ms1 = ms + n - day /\ at = 0
           \/ ms + n < day /\ ms1 = ms + n /\ at = 100 * k + 100
           \/ ms = 0 /\ ms1 = n /\ at = 0
    PROVE  /\ ms1 >= at => at = 100 * m
           /\ ms1 < at => at = 100 * m + 100
           /\ ms1 >= at <=> (m # k \/ (ms = 0 /\ at = 0))
OBVIOUS

\* A tick shorter than 100 ms keeps the next decisecond next, and signals the
\* one it reaches, at midnight too.
LEMMA TickedDecisecond ==
    ASSUME TimerTypeOK, NextDecisecond, TimerUpdate, msec_per_tick < 100
    PROVE  /\ NextDecisecond'
           /\ beat' <=> \/ milliseconds' \div 100 # milliseconds \div 100
                        \/ next_decisec = 0
<1> DEFINE k == milliseconds \div 100
           m == milliseconds' \div 100
           h == Day \div 100
           sum == milliseconds + msec_per_tick
           at == RolledOver(sum, next_decisec)
<1>1. /\ milliseconds \in Nat /\ msec_per_tick \in 1 .. 99 /\ Day \in Nat \ {0} /\ Word \in Nat
      /\ milliseconds < Day /\ Word > Day + 200 /\ Day = 100 * h /\ h \in Nat /\ h > 1
      /\ sum \in Nat
  BY TimerConstants DEF TimerTypeOK
<1>2. milliseconds' \in Nat /\ milliseconds' = IF sum >= Day THEN sum - Day ELSE sum
  BY <1>1 DEF TimerUpdate, RolledOver
<1>3. /\ k \in Nat /\ 100 * k <= milliseconds /\ milliseconds < 100 * k + 100
      /\ m \in Nat /\ 100 * m <= milliseconds' /\ milliseconds' < 100 * m + 100
  BY <1>1, <1>2, Deciseconds
<1>4. \A x \in 0 .. Word - 1 : x % Word = x
  BY <1>1
<1>5. at.ms = milliseconds' /\ at.next \in Nat /\ at.next <= Day
      /\ at.next = IF next_decisec = 0 THEN 0 ELSE IF sum >= Day THEN 0 ELSE 100 * k + 100
  <2>1. CASE sum >= Day
    <3>1. next_decisec = Day
      BY <1>1, <1>3, <2>1 DEF NextDecisecond
    <3>2. at.next = (Day - Day) % Word /\ at.ms = sum - Day
      BY <2>1, <3>1 DEF RolledOver
    <3>3. Day - Day = 0 /\ 0 % Word = 0
      BY <1>1, <1>4
    <3> QED BY <1>1, <1>2, <2>1, <3>1, <3>2, <3>3
  <2>2. CASE sum < Day
    <3>1. at.next = next_decisec /\ at.ms = sum
      BY <1>1, <2>2 DEF RolledOver
    <3> HIDE DEF at, sum, k, h
    <3> QED BY <1>1, <1>2, <1>3, <2>2, <3>1 DEF NextDecisecond, k
  <2> QED BY <1>1, <2>1, <2>2
<1>6. /\ beat' = (milliseconds' >= at.next)
      /\ next_decisec' = IF milliseconds' >= at.next THEN (at.next + 100) % Word ELSE at.next
  BY <1>5 DEF TimerUpdate
<1>7. (at.next + 100) % Word = at.next + 100
  BY <1>1, <1>4, <1>5
<1>8. next_decisec = 0 => milliseconds = 0 /\ k = 0
  BY <1>3, <1>1 DEF NextDecisecond
<1>9. \/ milliseconds + msec_per_tick >= Day /\ milliseconds' = milliseconds + msec_per_tick - Day /\ at.next = 0
      \/ milliseconds + msec_per_tick < Day /\ milliseconds' = milliseconds + msec_per_tick /\ at.next = 100 * k + 100
      \/ milliseconds = 0 /\ milliseconds' = msec_per_tick /\ at.next = 0
  <2> HIDE DEF at, k, m, h
  <2> QED BY <1>1, <1>2, <1>5, <1>8
<1> HIDE DEF at, k, m, h, sum
<1>10. /\ milliseconds' >= at.next => at.next = 100 * m
       /\ milliseconds' < at.next => at.next = 100 * m + 100
       /\ milliseconds' >= at.next <=> (m # k \/ (milliseconds = 0 /\ at.next = 0))
  BY <1>1, <1>2, <1>3, <1>5, <1>9, DecisecondStep
<1>11. next_decisec = 0 <=> milliseconds = 0 /\ at.next = 0
  <2>1. ASSUME next_decisec # 0, milliseconds = 0 PROVE at.next # 0
    <3>1. k = 0 /\ sum < Day
      BY <1>1, <1>3, <2>1 DEF sum
    <3> QED BY <1>1, <1>5, <2>1, <3>1
  <2>2. next_decisec = 0 => milliseconds = 0 /\ at.next = 0
    BY <1>5, <1>8
  <2> QED BY <2>1, <2>2
<1>12. next_decisec' = 100 * m + 100
  <2>1. CASE milliseconds' >= at.next
    BY <1>6, <1>7, <1>10, <2>1
  <2>2. CASE ~ (milliseconds' >= at.next)
    <3>1. milliseconds' < at.next
      BY <1>2, <1>5, <2>2
    <3> QED BY <1>6, <1>10, <2>2, <3>1
  <2> QED BY <2>1, <2>2
<1>13. beat' <=> (m # k \/ next_decisec = 0)
  BY <1>6, <1>10, <1>11
<1> QED BY <1>12, <1>13 DEF NextDecisecond, m, k

\* Every tenth of a second is signalled, once, on every tick that is shorter than
\* that (timer.c:206-224); with ticks of 100 ms it is not (README, finding 6).
THEOREM EveryDecisecondIsSignalled ==
    ASSUME \A n \in Ticks : n < 100
    PROVE  TimerSpec => EveryDecisecond
<1>1. TimerInit => TimerIInv /\ NextDecisecond
  BY TimerInitIInv DEF TimerInit, NextDecisecond
<1>2. TimerIInv /\ [TimerNext]_timerVars => TimerIInv'
  BY TimerNextIInv
<1>3. ASSUME TimerIInv, [TimerNext]_timerVars
      PROVE  \/ TimerUpdate
             \/ UNCHANGED <<milliseconds, next_decisec>>
  BY <1>3 DEF TimerNext, Tick, TickWhileLocked, TimerDelay, DelayReturn, DelayWait, DelayRelock,
              ReadClock, ReadDone, UserTimerWait, GivesUp, Quiet, timerVars
<1>4. ASSUME TimerIInv, NextDecisecond, TimerUpdate
      PROVE  /\ NextDecisecond'
             /\ beat' <=> \/ milliseconds' \div 100 # milliseconds \div 100
                          \/ next_decisec = 0
  <2>1. msec_per_tick < 100 /\ TimerTypeOK
    BY <1>4 DEF TimerIInv, TimerTypeOK
  <2> QED BY <1>4, <2>1, TickedDecisecond
<1>5. TimerIInv /\ NextDecisecond /\ [TimerNext]_timerVars => NextDecisecond'
  <2>1. NextDecisecond /\ UNCHANGED <<milliseconds, next_decisec>> => NextDecisecond'
    BY DEF NextDecisecond
  <2> QED BY <1>3, <1>4, <2>1
<1>6. TimerIInv /\ NextDecisecond /\ [TimerNext]_timerVars
      => [milliseconds' # milliseconds =>
             (beat' <=> \/ milliseconds' \div 100 # milliseconds \div 100
                        \/ next_decisec = 0)]_timerVars
  BY <1>3, <1>4
<1> QED BY <1>1, <1>2, <1>5, <1>6, PTL DEF TimerSpec, EveryDecisecond
=============================================================================
