--------------------------- MODULE QueueProofs ---------------------------
(***************************************************************************)
(* The queues of packets, for every size and every set of packets: lemmas  *)
(* about the operators of Ring, and the theorems of BufQueue, of BufPrio   *)
(* and of Udp.                                                             *)
(***************************************************************************)
EXTENDS BufQueue, BufPrio, Udp, TLAPS, FiniteSetTheorems, SequenceTheorems

\* Where the i-th oldest packet is: distinct places for distinct packets, and
\* the free place after the last of them is none of these.
LEMMA PlacesOfContents ==
    ASSUME NEW q0 \in RingType, NEW i \in 1 .. q0.count
    PROVE  /\ Wrapped(q0.tail - i + 1) \in Places
           /\ q0.count < Size => Wrapped(q0.tail - q0.count) # Wrapped(q0.tail - i + 1)
           /\ \A j \in 1 .. q0.count :
                 Wrapped(q0.tail - i + 1) = Wrapped(q0.tail - j + 1) => i = j
<1> DEFINE t == q0.tail
           c == q0.count
<1>1. Size \in Nat \ {0} /\ t \in 0 .. Size - 1 /\ c \in 0 .. Size /\ i \in 1 .. c
  BY RingConstants DEF RingType, Places
<1> HIDE DEF t, c
<1>2. Wrapped(t - i + 1) \in Places
  BY <1>1 DEF Places, Wrapped
<1>3. c < Size => Wrapped(t - c) # Wrapped(t - i + 1)
  BY <1>1 DEF Wrapped
<1>4. \A j \in 1 .. c : Wrapped(t - i + 1) = Wrapped(t - j + 1) => i = j
  BY <1>1 DEF Wrapped
<1> QED BY <1>2, <1>3, <1>4 DEF t, c

\* A put keeps the type, and appends to the contents.
LEMMA PutAppends ==
    ASSUME NEW q0 \in RingType, q0.count < Size, NEW p \in Packets
    PROVE  /\ RingPut(q0, p) \in RingType
           /\ RingContents(RingPut(q0, p)) = Append(RingContents(q0), p)
<1> DEFINE q1 == RingPut(q0, p)
           e  == Wrapped(q0.tail - q0.count)
<1>1. e \in Places
  BY RingConstants DEF RingType, Places, Wrapped
<1>2. /\ q1.tail = q0.tail /\ q1.count = q0.count + 1
      /\ q1.slot = [q0.slot EXCEPT ![e] = p]
  BY DEF RingType, RingPut
<1>3. q1 \in RingType
  <2>2. q1.slot \in [Places -> Packets \cup {Garbage}]
    BY <1>1, <1>2 DEF RingType
  <2>3. q1.tail \in Places /\ q1.count \in 0 .. Size
    BY <1>2, RingConstants DEF RingType
  <2> QED BY <2>2, <2>3 DEF RingType, RingPut
<1>4. \A i \in 1 .. q0.count : RingContents(q1)[i] = RingContents(q0)[i]
  <2> SUFFICES ASSUME NEW i \in 1 .. q0.count
               PROVE  RingContents(q1)[i] = RingContents(q0)[i]
    OBVIOUS
  <2>1. /\ Wrapped(q0.tail - i + 1) \in Places
        /\ Wrapped(q0.tail - i + 1) # e
    BY PlacesOfContents
  <2>2. q1.slot[Wrapped(q0.tail - i + 1)] = q0.slot[Wrapped(q0.tail - i + 1)]
    BY <1>2, <2>1 DEF RingType
  <2>3. i \in 1 .. q1.count
    BY <1>2 DEF RingType
  <2> QED BY <1>2, <2>2, <2>3 DEF RingContents
<1>5. RingContents(q1)[q0.count + 1] = p
  <2>1. q0.tail - (q0.count + 1) + 1 = q0.tail - q0.count /\ q0.count + 1 \in 1 .. q1.count
    BY <1>2 DEF RingType, Places
  <2>2. q1.slot[e] = p
    BY <1>1, <1>2 DEF RingType
  <2> QED BY <1>2, <2>1, <2>2 DEF RingContents
<1>6. RingContents(q1) = Append(RingContents(q0), p)
  <2>1. Len(RingContents(q0)) = q0.count /\ q0.count \in Nat
    BY RingConstants DEF RingContents, RingType
  <2>2. RingContents(q1) = [i \in 1 .. q0.count + 1 |-> RingContents(q1)[i]]
    BY <1>2 DEF RingContents
  <2>3. Append(RingContents(q0), p) =
            [i \in 1 .. q0.count + 1 |-> IF i \in 1 .. q0.count THEN RingContents(q0)[i] ELSE p]
    BY <2>1, \A i \in 1 .. q0.count + 1 : i \notin 1 .. q0.count => i = q0.count + 1
    DEF RingContents
  <2>4. \A i \in 1 .. q0.count + 1 :
            RingContents(q1)[i] = (IF i \in 1 .. q0.count THEN RingContents(q0)[i] ELSE p)
    BY <1>4, <1>5, <2>1
  <2> QED BY <2>2, <2>3, <2>4
<1> QED BY <1>3, <1>6

\* A get keeps the type, returns the head of the contents and leaves the tail.
LEMMA RestIsTail ==
    ASSUME NEW q0 \in RingType, q0.count > 0
    PROVE  /\ RingRest(q0) \in RingType
           /\ RingContents(q0) # <<>>
           /\ RingFirst(q0) = Head(RingContents(q0))
           /\ RingContents(RingRest(q0)) = Tail(RingContents(q0))
<1> DEFINE q1 == RingRest(q0)
<1>1. q1.tail = Wrapped(q0.tail - 1) /\ q1.count = q0.count - 1 /\ q1.slot = q0.slot
  BY DEF RingType, RingRest
<1>2. q1 \in RingType
  <2>2. q1.tail \in Places /\ q1.count \in 0 .. Size
    BY <1>1, RingConstants DEF RingType, Places, Wrapped
  <2> QED BY <1>1, <2>2 DEF RingType, RingRest
<1>3. RingContents(q0) # <<>> /\ RingFirst(q0) = Head(RingContents(q0))
  BY RingConstants DEF RingContents, RingFirst, RingType, Places, Wrapped
<1>4. Tail(RingContents(q0)) = [i \in 1 .. q0.count - 1 |-> RingContents(q0)[i + 1]]
  BY RingConstants DEF RingContents, RingType
<1>5. \A i \in 1 .. q0.count - 1 :
          /\ i + 1 \in 1 .. q0.count
          /\ Wrapped(q1.tail - i + 1) = Wrapped(q0.tail - (i + 1) + 1)
  BY <1>1, RingConstants DEF RingType, Places, Wrapped
<1>6. RingContents(q1) = [i \in 1 .. q0.count - 1 |-> q0.slot[Wrapped(q1.tail - i + 1)]]
  BY <1>1 DEF RingContents
<1>7. RingContents(q1) = Tail(RingContents(q0))
  BY <1>4, <1>5, <1>6 DEF RingContents
<1> QED BY <1>2, <1>3, <1>7

\* Cleaning keeps the type and leaves nothing.
LEMMA CleanEmpties ==
    ASSUME NEW q0 \in RingType
    PROVE  AfterClean(q0) \in RingType /\ RingContents(AfterClean(q0)) = <<>>
<1> DEFINE q1 == AfterClean(q0)
<1>1. q1.tail = Wrapped(q0.tail - q0.count) /\ q1.count = 0 /\ q1.slot = q0.slot
  BY DEF RingType, AfterClean
<1>3. q1.tail \in Places
  BY <1>1, RingConstants DEF RingType, Places, Wrapped
<1>4. RingContents(q1) = <<>>
  BY <1>1 DEF RingContents
<1> QED BY <1>1, <1>3, <1>4, RingConstants DEF RingType, AfterClean

\* The contents are a sequence as long as the count.
LEMMA ContentsType ==
    ASSUME NEW q0 \in RingType
    PROVE  /\ RingContents(q0) \in Seq(Packets \cup {Garbage})
           /\ Len(RingContents(q0)) = q0.count /\ q0.count \in Nat
<1>1. q0.count \in Nat /\ q0.slot \in [Places -> Packets \cup {Garbage}]
  BY RingConstants DEF RingType
<1>2. \A i \in 1 .. q0.count : q0.slot[Wrapped(q0.tail - i + 1)] \in Packets \cup {Garbage}
  BY <1>1, PlacesOfContents
<1> QED BY <1>1, <1>2 DEF RingContents

\* The places of a sequence after an append, and after a tail.
LEMMA SequencePlaces ==
    ASSUME NEW S, NEW s \in Seq(S), NEW e \in S
    PROVE  /\ \A i \in 1 .. Len(s) : Append(s, e)[i] = s[i]
           /\ Append(s, e)[Len(s) + 1] = e
           /\ Len(s) > 0 => /\ Head(s) = s[1]
                            /\ \A i \in 1 .. Len(s) - 1 : Tail(s)[i] = s[i + 1]
OBVIOUS

-----------------------------------------------------------------------------
\* The inductive invariant: the two properties hold each other up, as the type
\* of what a get returns is that of the packets the queue owns.
QueueIInv == QueueTypeOK /\ QueueOwnsItsPackets

\* The empty ring of the initial state owns nothing.
LEMMA InitIInv == QueueInit => QueueIInv
<1> SUFFICES ASSUME QueueInit PROVE QueueIInv
  OBVIOUS
<1>1. RingInit \in RingType
  BY RingConstants DEF RingInit, RingType, Places
<1>2. QueueTypeOK
  BY <1>1 DEF QueueInit, QueueTypeOK
<1>3. QueueOwnsItsPackets
  BY DEF QueueInit, QueueOwnsItsPackets, RingInit, RingContents
<1> QED BY <1>2, <1>3 DEF QueueIInv

\* A step that leaves the ring alone and moves a packet that is not queued to
\* a place that is not the queue.
LEMMA OutsideIInv ==
    ASSUME QueueIInv, NEW p \in Packets, NEW w \in {"free", "held"},
           place[p] # "queued", place' = [place EXCEPT ![p] = w],
           taken' = <<>>, q' = q
    PROVE  QueueIInv'
<1>1. QueueTypeOK'
  BY DEF QueueIInv, QueueTypeOK
<1>2. {x \in Packets : place'[x] = "queued"} = {x \in Packets : place[x] = "queued"}
  BY DEF QueueIInv, QueueTypeOK
<1>3. QueueOwnsItsPackets'
  BY <1>2 DEF QueueIInv, QueueOwnsItsPackets
<1> QED BY <1>1, <1>3 DEF QueueIInv

\* buf_queue_put: the ring owns one packet more, at a place of its own.
LEMMA PutIInv ==
    ASSUME QueueIInv, NEW p \in Packets, QueuePut(p)
    PROVE  QueueIInv'
<1> DEFINE c == RingContents(q)
<1>1. /\ q \in RingType /\ q.count < Size /\ q.count \in Nat
      /\ q' = RingPut(q, p) /\ place' = [place EXCEPT ![p] = "queued"] /\ taken' = <<>>
  BY RingConstants DEF QueueIInv, QueueTypeOK, QueuePut, RingIsFull, RingType
<1>2. q' \in RingType /\ RingContents(q)' = Append(c, p) /\ (q.count)' = q.count + 1
  BY <1>1, PutAppends DEF RingPut
<1>3. Len(c) = q.count
  BY <1>1 DEF RingContents
<1>4. /\ \A i \in 1 .. q.count : RingContents(q)'[i] = c[i]
      /\ RingContents(q)'[q.count + 1] = p
  <2>1. c \in Seq(Packets \cup {Garbage})
    BY <1>1, ContentsType
  <2> HIDE DEF c
  <2> QED BY <1>2, <1>3, <2>1, SequencePlaces
<1>5. \A i \in 1 .. q.count : c[i] # p
  BY DEF QueueIInv, QueueOwnsItsPackets, QueuePut
<1>6. QueueTypeOK'
  BY <1>1, <1>2 DEF QueueIInv, QueueTypeOK
<1>7. {x \in Packets : place'[x] = "queued"} = {x \in Packets : place[x] = "queued"} \cup {p}
  BY <1>1 DEF QueueIInv, QueueTypeOK
<1>8. \A i \in 1 .. q.count + 1 : i \in 1 .. q.count \/ i = q.count + 1
  BY <1>1
<1>9. {RingContents(q)'[i] : i \in 1 .. q.count + 1} = {c[i] : i \in 1 .. q.count} \cup {p}
  <2>1. q.count + 1 \in 1 .. q.count + 1 /\ \A i \in 1 .. q.count : i \in 1 .. q.count + 1
    BY <1>1
  <2> HIDE DEF c
  <2> QED BY <1>4, <1>8, <2>1
<1>10. \A i, j \in 1 .. q.count + 1 : RingContents(q)'[i] = RingContents(q)'[j] => i = j
  BY <1>4, <1>5, <1>8 DEF QueueIInv, QueueOwnsItsPackets
<1>11. QueueOwnsItsPackets'
  BY <1>2, <1>7, <1>9, <1>10 DEF QueueIInv, QueueOwnsItsPackets
<1> QED BY <1>6, <1>11 DEF QueueIInv

\* buf_queue_get: the ring owns all it owned but the packet it gave out.
LEMMA GetIInv ==
    ASSUME QueueIInv, QueueGet
    PROVE  QueueIInv'
<1> DEFINE c == RingContents(q)
<1>1. CASE RingIsEmpty(q) /\ taken' = <<>> /\ UNCHANGED <<q, place>>
  BY <1>1 DEF QueueIInv, QueueTypeOK, QueueOwnsItsPackets
<1>2. CASE /\ ~ RingIsEmpty(q) /\ q' = RingRest(q) /\ taken' = <<RingFirst(q)>>
           /\ place' = [place EXCEPT ![RingFirst(q)] = "held"]
  <2>1. q \in RingType /\ q.count > 0 /\ q.count \in Nat
    BY <1>2, RingConstants DEF QueueIInv, QueueTypeOK, RingIsEmpty, RingType
  <2>2. /\ q' \in RingType /\ RingContents(q)' = Tail(c) /\ (q.count)' = q.count - 1
        /\ RingFirst(q) = Head(c)
    BY <1>2, <2>1, RestIsTail DEF RingRest
  <2>3. Head(c) = c[1] /\ \A i \in 1 .. q.count - 1 : RingContents(q)'[i] = c[i + 1]
    <3>1. c \in Seq(Packets \cup {Garbage}) /\ Len(c) = q.count
      BY <2>1, ContentsType
    <3> HIDE DEF c
    <3> QED BY <2>1, <2>2, <3>1, SequencePlaces
  <2>4. c[1] \in Packets /\ place[c[1]] = "queued"
    BY <2>1 DEF QueueIInv, QueueOwnsItsPackets
  <2>5. QueueTypeOK'
    BY <1>2, <2>2, <2>3, <2>4 DEF QueueIInv, QueueTypeOK
  <2>6. {x \in Packets : place'[x] = "queued"} = {x \in Packets : place[x] = "queued"} \ {c[1]}
    BY <1>2, <2>2, <2>3, <2>4 DEF QueueIInv, QueueTypeOK
  <2>7. /\ {x \in Packets : place[x] = "queued"} = {c[i] : i \in 1 .. q.count}
        /\ \A i, j \in 1 .. q.count : c[i] = c[j] => i = j
    BY DEF QueueIInv, QueueOwnsItsPackets
  <2>8. {RingContents(q)'[i] : i \in 1 .. q.count - 1} = {c[i] : i \in 1 .. q.count} \ {c[1]}
    <3> HIDE DEF c
    <3>1. ASSUME NEW i \in 1 .. q.count - 1
          PROVE  RingContents(q)'[i] \in {c[j] : j \in 1 .. q.count} \ {c[1]}
      <4>1. i + 1 \in 1 .. q.count /\ 1 \in 1 .. q.count /\ i + 1 # 1
        BY <2>1
      <4> QED BY <2>3, <2>7, <4>1
    <3>2. ASSUME NEW j \in 1 .. q.count, c[j] # c[1]
          PROVE  c[j] \in {RingContents(q)'[i] : i \in 1 .. q.count - 1}
      <4>1. j - 1 \in 1 .. q.count - 1 /\ (j - 1) + 1 = j
        BY <2>1, <3>2
      <4>2. RingContents(q)'[j - 1] = c[j]
        BY <2>3, <4>1
      <4> QED BY <4>1, <4>2
    <3> QED BY <3>1, <3>2
  <2>9. \A i, j \in 1 .. q.count - 1 : RingContents(q)'[i] = RingContents(q)'[j] => i = j
    <3>1. ASSUME NEW i \in 1 .. q.count - 1, NEW j \in 1 .. q.count - 1,
                 RingContents(q)'[i] = RingContents(q)'[j]
          PROVE  i = j
      <4>1. i + 1 \in 1 .. q.count /\ j + 1 \in 1 .. q.count
        BY <2>1
      <4>2. c[i + 1] = c[j + 1]
        BY <2>3, <3>1
      <4>3. i + 1 = j + 1
        BY <2>7, <4>1, <4>2
      <4> QED BY <2>1, <4>3
    <3> QED BY <3>1
  <2>10. QueueOwnsItsPackets'
    BY <2>2, <2>6, <2>7, <2>8, <2>9 DEF QueueOwnsItsPackets
  <2> QED BY <2>5, <2>10 DEF QueueIInv
<1> QED BY <1>1, <1>2 DEF QueueGet

\* buf_queue_clean: everything the ring owned is free.
LEMMA CleanIInv ==
    ASSUME QueueIInv, QueueClean
    PROVE  QueueIInv'
<1>1. /\ q \in RingType /\ q' = AfterClean(q) /\ taken' = RingContents(q)
      /\ place' = [p \in Packets |->
                     IF \E i \in 1 .. q.count : RingContents(q)[i] = p THEN "free"
                     ELSE place[p]]
  BY DEF QueueIInv, QueueTypeOK, QueueClean
<1>2. q' \in RingType /\ RingContents(q)' = <<>> /\ (q.count)' = 0
  BY <1>1, CleanEmpties DEF AfterClean
<1>3. /\ {p \in Packets : place[p] = "queued"} =
              {RingContents(q)[i] : i \in 1 .. q.count}
      /\ q.count \in Nat
  BY <1>1, RingConstants DEF QueueIInv, QueueOwnsItsPackets, RingType
<1>4. taken' \in Seq(Packets)
  <2>1. \A i \in 1 .. q.count : RingContents(q)[i] \in Packets
    BY <1>3
  <2>2. RingContents(q) = [i \in 1 .. q.count |-> RingContents(q)[i]]
    BY DEF RingContents
  <2>3. ASSUME NEW r, r = [i \in 1 .. q.count |-> r[i]],
               \A i \in 1 .. q.count : r[i] \in Packets
        PROVE  r \in Seq(Packets)
    BY <1>3, <2>3
  <2> QED BY <1>1, <2>1, <2>2, <2>3
<1>5. QueueTypeOK'
  BY <1>1, <1>2, <1>4 DEF QueueIInv, QueueTypeOK
<1>6. {p \in Packets : place'[p] = "queued"} = {}
  BY <1>1, <1>3 DEF QueueIInv, QueueTypeOK
<1>7. QueueOwnsItsPackets'
  BY <1>2, <1>6 DEF QueueOwnsItsPackets
<1> QED BY <1>5, <1>7 DEF QueueIInv

\* Each call preserves the invariant.
LEMMA NextIInv == QueueIInv /\ [QueueNext]_queueVars => QueueIInv'
<1> SUFFICES ASSUME QueueIInv, [QueueNext]_queueVars PROVE QueueIInv'
  OBVIOUS
<1>1. ASSUME NEW p \in Packets, QueueAllocate(p) \/ QueueDiscard(p) \/ QueueFree(p) PROVE QueueIInv'
  <2>1. PICK w \in {"free", "held"} : /\ place[p] # "queued"
                                      /\ place' = [place EXCEPT ![p] = w]
                                      /\ taken' = <<>> /\ q' = q
    BY <1>1 DEF QueueAllocate, QueueDiscard, QueueFree
  <2> QED BY <2>1, OutsideIInv
<1>2. ASSUME NEW p \in Packets, QueuePut(p) PROVE QueueIInv'
  BY <1>2, PutIInv
<1>3. CASE QueueGet
  BY <1>3, GetIInv
<1>4. CASE QueueClean
  BY <1>4, CleanIInv
<1>5. CASE UNCHANGED queueVars
  BY <1>5 DEF queueVars, QueueIInv, QueueTypeOK, QueueOwnsItsPackets
<1> QED BY <1>1, <1>2, <1>3, <1>4, <1>5 DEF QueueNext

\* The pointers of the ring stay in its array, and the ring owns exactly the
\* packets that were put and not taken (the asserts of buf_queue_get and
\* buf_queue_put, buf-queue.c:10-16, 36).
THEOREM RingIsSound == QueueSpec => [](QueueTypeOK /\ QueueOwnsItsPackets)
<1>1. QueueInit => QueueIInv
  BY InitIInv
<1>2. QueueIInv /\ [QueueNext]_queueVars => QueueIInv'
  BY NextIInv
<1> QED BY <1>1, <1>2, PTL DEF QueueSpec, QueueIInv

-----------------------------------------------------------------------------
\* Each call is a step of the bounded FIFO, or leaves it alone.
LEMMA StepIsFifoStep == QueueIInv /\ [QueueNext]_queueVars => [AFifo!Next]_(AFifo!vars)
<1> SUFFICES ASSUME QueueIInv, [QueueNext]_queueVars PROVE AFifo!Next \/ UNCHANGED AFifo!vars
  OBVIOUS
<1>1. q \in RingType /\ q.count \in Nat /\ Len(RingContents(q)) = q.count
  BY RingConstants DEF QueueIInv, QueueTypeOK, RingType, RingContents
<1>2. ASSUME NEW p \in Packets, QueueAllocate(p) \/ QueueDiscard(p) \/ QueueFree(p) PROVE AFifo!Next
  <2>1. taken' = <<>> /\ q' = q
    BY <1>2 DEF QueueAllocate, QueueDiscard, QueueFree
  <2>2. AFifo!CallIdle
    BY <2>1 DEF AFifo!CallIdle
  <2> QED BY <2>2 DEF AFifo!Next
<1>3. ASSUME NEW p \in Packets, QueuePut(p) PROVE AFifo!Next
  <2>1. q.count < Size /\ q' = RingPut(q, p) /\ taken' = <<>>
    BY <1>1, <1>3, RingConstants DEF QueuePut, RingIsFull, RingType
  <2>2. RingContents(q)' = Append(RingContents(q), p)
    BY <1>1, <2>1, PutAppends
  <2>3. AFifo!Put(p)
    BY <1>1, <2>1, <2>2 DEF AFifo!Put
  <2> QED BY <2>3 DEF AFifo!Next
<1>4. CASE QueueGet
  <2>1. CASE RingIsEmpty(q) /\ taken' = <<>> /\ UNCHANGED <<q, place>>
    BY <2>1 DEF AFifo!CallIdle, AFifo!Next
  <2>2. CASE ~ RingIsEmpty(q) /\ q' = RingRest(q) /\ taken' = <<RingFirst(q)>>
    <3>1. q.count > 0
      BY <1>1, <2>2 DEF RingIsEmpty
    <3>2. AFifo!Get
      BY <1>1, <2>2, <3>1, RestIsTail DEF AFifo!Get
    <3> QED BY <3>2 DEF AFifo!Next
  <2> QED BY <1>4, <2>1, <2>2 DEF QueueGet
<1>5. CASE QueueClean
  <2>1. AFifo!Clean
    BY <1>1, <1>5, CleanEmpties DEF QueueClean, AFifo!Clean
  <2> QED BY <2>1 DEF AFifo!Next
<1>6. CASE UNCHANGED queueVars
  BY <1>6 DEF queueVars, AFifo!vars
<1> QED BY <1>2, <1>3, <1>4, <1>5, <1>6 DEF QueueNext

\* Wherever tail and count are in the array, each call of buf-queue.c does to
\* the packets in the ring what it does to a bounded FIFO.
THEOREM RingIsFifo == QueueSpec => ImplementsFifo
<1>1. QueueInit => AFifo!Init
  BY DEF QueueInit, AFifo!Init, RingInit, RingContents
<1>2. QueueIInv /\ [QueueNext]_queueVars => [AFifo!Next]_(AFifo!vars)
  BY StepIsFifoStep
<1>3. QueueIInv /\ [QueueNext]_queueVars => QueueIInv'
  BY NextIInv
<1>4. QueueInit => QueueIInv
  BY InitIInv
<1> QED BY <1>1, <1>2, <1>3, <1>4, PTL DEF QueueSpec, AFifo!Spec, ImplementsFifo

-----------------------------------------------------------------------------
(***************************************************************************)
(* Several queues that together hold each packet of a set once.            *)
(***************************************************************************)
\* The sequences C, one for each of I, of members of S, hold those of Q, each
\* once, and nothing else.
OnceIn(C, I, S, Q) ==
    /\ C \in [I -> Seq(S)]
    /\ \A i \in I : \A j \in 1 .. Len(C[i]) : C[i][j] \in Q
    /\ \A i, k \in I : \A j \in 1 .. Len(C[i]) : \A l \in 1 .. Len(C[k]) :
          C[i][j] = C[k][l] => i = k /\ j = l
    /\ \A p \in Q : \E i \in I : \E j \in 1 .. Len(C[i]) : C[i][j] = p

\* C1 is C with the sequence i changed.
OnlyOneMoves(C, C1, I, S, i) ==
    /\ C1 \in [I -> Seq(S)]
    /\ \A k \in I : k # i => C1[k] = C[k]

\* Where the members of a set of sequences are when one of them has grown.
AfterGain(C, C1, I, i, p) ==
    /\ \A k \in I : Len(C[k]) \in Nat /\ Len(C1[k]) \in Nat
    /\ \A k \in I : \A j : j \in 1 .. Len(C1[k]) <=>
                              j \in 1 .. Len(C[k]) \/ (k = i /\ j = Len(C[i]) + 1)
    /\ \A k \in I : \A j \in 1 .. Len(C[k]) : C1[k][j] = C[k][j]
    /\ C1[i][Len(C[i]) + 1] = p /\ Len(C[i]) + 1 \notin 1 .. Len(C[i])

LEMMA PlacesAfterGain ==
    ASSUME NEW I, NEW S, NEW C \in [I -> Seq(S)], NEW i \in I, NEW p \in S,
           NEW C1, OnlyOneMoves(C, C1, I, S, i), C1[i] = Append(C[i], p)
    PROVE  AfterGain(C, C1, I, i, p)
<1> DEFINE c == Len(C[i])
<1>1. /\ C[i] \in Seq(S) /\ c \in Nat /\ Len(C1[i]) = c + 1
      /\ \A k \in I : Len(C[k]) \in Nat /\ Len(C1[k]) \in Nat
  BY DEF OnlyOneMoves
<1>2. (\A j \in 1 .. c : C1[i][j] = C[i][j]) /\ C1[i][c + 1] = p
  BY <1>1, SequencePlaces
<1>3. \A k \in I : k # i => C1[k] = C[k]
  BY DEF OnlyOneMoves
<1> HIDE DEF c
<1>4. \A k \in I : \A j : j \in 1 .. Len(C1[k]) <=> j \in 1 .. Len(C[k]) \/ (k = i /\ j = c + 1)
  <2>1. \A j : j \in 1 .. c + 1 <=> j \in 1 .. c \/ j = c + 1
    BY <1>1
  <2> QED BY <1>1, <1>3, <2>1 DEF c
<1>5. c + 1 \notin 1 .. Len(C[i])
  BY <1>1 DEF c
<1>6. \A k \in I : \A j \in 1 .. Len(C[k]) : C1[k][j] = C[k][j]
  BY <1>2, <1>3 DEF c
<1> QED BY <1>1, <1>2, <1>4, <1>5, <1>6 DEF c, AfterGain

\* One of the queues gains a packet at its end.
LEMMA OnceAfterGain ==
    ASSUME NEW I, NEW S, NEW C, NEW Q, OnceIn(C, I, S, Q),
           NEW i \in I, NEW p \in S, p \notin Q,
           NEW C1, OnlyOneMoves(C, C1, I, S, i), C1[i] = Append(C[i], p)
    PROVE  OnceIn(C1, I, S, Q \cup {p})
<1> DEFINE c == Len(C[i])
<1>1. C \in [I -> Seq(S)]
  BY DEF OnceIn
<1>2. /\ \A k \in I : Len(C[k]) \in Nat /\ Len(C1[k]) \in Nat
      /\ \A k \in I : \A j : j \in 1 .. Len(C1[k]) <=> j \in 1 .. Len(C[k]) \/ (k = i /\ j = c + 1)
      /\ \A k \in I : \A j \in 1 .. Len(C[k]) : C1[k][j] = C[k][j]
      /\ C1[i][c + 1] = p /\ c + 1 \notin 1 .. c
  <2>1. AfterGain(C, C1, I, i, p)
    BY <1>1, PlacesAfterGain
  <2> QED BY <2>1 DEF AfterGain
<1> HIDE DEF c
<1>3. \A k \in I : \A j \in 1 .. Len(C[k]) : C[k][j] \in Q /\ C[k][j] # p
  BY DEF OnceIn
<1>4. ASSUME NEW k \in I, NEW j \in 1 .. Len(C1[k]) PROVE C1[k][j] \in Q \cup {p}
  <2>1. CASE j \in 1 .. Len(C[k])
    BY <1>2, <1>3, <2>1
  <2>2. CASE k = i /\ j = c + 1
    BY <1>2, <2>2
  <2> QED BY <1>2, <2>1, <2>2
<1>5. ASSUME NEW k \in I, NEW m \in I,
             NEW j \in 1 .. Len(C1[k]), NEW l \in 1 .. Len(C1[m]),
             C1[k][j] = C1[m][l]
      PROVE  k = m /\ j = l
  <2>1. CASE j \in 1 .. Len(C[k]) /\ l \in 1 .. Len(C[m])
    <3>1. C[k][j] = C[m][l]
      BY <1>2, <1>5, <2>1
    <3> QED BY <2>1, <3>1 DEF OnceIn
  <2>2. CASE j \in 1 .. Len(C[k]) /\ m = i /\ l = c + 1
    <3>1. C1[k][j] # p
      BY <1>2, <1>3, <2>2
    <3>2. C1[m][l] = p
      BY <1>2, <2>2
    <3> QED BY <1>5, <3>1, <3>2
  <2>3. CASE k = i /\ j = c + 1 /\ l \in 1 .. Len(C[m])
    <3>1. C1[m][l] # p
      BY <1>2, <1>3, <2>3
    <3>2. C1[k][j] = p
      BY <1>2, <2>3
    <3> QED BY <1>5, <3>1, <3>2
  <2>4. /\ j \in 1 .. Len(C[k]) \/ (k = i /\ j = c + 1)
        /\ l \in 1 .. Len(C[m]) \/ (m = i /\ l = c + 1)
    BY <1>2
  <2> QED BY <2>1, <2>2, <2>3, <2>4
<1>6. ASSUME NEW x \in Q \cup {p} PROVE \E k \in I : \E j \in 1 .. Len(C1[k]) : C1[k][j] = x
  <2>1. CASE x = p
    <3>1. c + 1 \in 1 .. Len(C1[i]) /\ C1[i][c + 1] = x
      BY <1>2, <2>1
    <3> QED BY <3>1
  <2>2. CASE x # p
    <3>1. PICK k \in I : \E j \in 1 .. Len(C[k]) : C[k][j] = x
      BY <2>2 DEF OnceIn
    <3>2. \E j \in 1 .. Len(C1[k]) : C1[k][j] = x
      BY <1>2, <3>1
    <3> QED BY <3>2
  <2> QED BY <2>1, <2>2
<1>7. C1 \in [I -> Seq(S)]
  BY DEF OnlyOneMoves
<1> QED BY <1>4, <1>5, <1>6, <1>7 DEF OnceIn

\* One of the queues loses its head.
LEMMA OnceAfterLoss ==
    ASSUME NEW I, NEW S, NEW C, NEW Q, OnceIn(C, I, S, Q),
           NEW i \in I, C[i] # <<>>,
           NEW C1, OnlyOneMoves(C, C1, I, S, i), C1[i] = Tail(C[i])
    PROVE  OnceIn(C1, I, S, Q \ {Head(C[i])}) /\ Head(C[i]) \in Q
<1> DEFINE c == Len(C[i])
           p == Head(C[i])
<1>1. /\ C[i] \in Seq(S) /\ c \in Nat /\ c > 0 /\ Len(C1[i]) = c - 1
      /\ p \in S /\ \A k \in I : Len(C[k]) \in Nat /\ Len(C1[k]) \in Nat
  BY DEF OnceIn, OnlyOneMoves
<1>2. /\ \A j \in 1 .. c - 1 : C1[i][j] = C[i][j + 1]
      /\ C[i][1] = p
  BY <1>1, SequencePlaces
<1>3. \A k \in I : k # i => C1[k] = C[k]
  BY DEF OnlyOneMoves
<1> HIDE DEF c, p
<1>4. 1 \in 1 .. Len(C[i])
  BY <1>1 DEF c
<1>5. p \in Q
  BY <1>2, <1>4 DEF OnceIn
<1> DEFINE old(k, j) == IF k = i THEN j + 1 ELSE j
<1> HIDE DEF old
<1>6. ASSUME NEW k \in I, NEW j \in 1 .. Len(C1[k])
      PROVE  old(k, j) \in 1 .. Len(C[k]) /\ C1[k][j] = C[k][old(k, j)] /\ ~ (k = i /\ old(k, j) = 1)
  <2>1. CASE k = i
    <3>1. Len(C1[k]) = c - 1 /\ Len(C[i]) = c
      BY <1>1, <2>1 DEF c
    <3>2. j \in 1 .. c - 1 /\ j + 1 \in 1 .. Len(C[i]) /\ j + 1 # 1
      BY <1>1, <3>1
    <3> QED BY <1>2, <2>1, <3>2 DEF old
  <2>2. CASE k # i
    BY <1>3, <2>2 DEF old
  <2> QED BY <2>1, <2>2
<1>7. ASSUME NEW k \in I, NEW j \in 1 .. Len(C[k]), C[k][j] # p
      PROVE  \E l \in 1 .. Len(C1[k]) : C1[k][l] = C[k][j]
  <2>1. CASE k = i
    <3>1. j \in 1 .. c /\ j # 1
      BY <1>2, <1>7, <2>1 DEF c
    <3>2. j - 1 \in 1 .. Len(C1[i]) /\ j - 1 \in 1 .. c - 1 /\ (j - 1) + 1 = j
      BY <1>1, <3>1
    <3> QED BY <1>2, <2>1, <3>2
  <2>2. CASE k # i
    BY <1>3, <2>2
  <2> QED BY <2>1, <2>2
<1>8. \A k, m \in I : \A j \in 1 .. Len(C[k]) : \A l \in 1 .. Len(C[m]) :
         C[k][j] = C[m][l] => k = m /\ j = l
  BY DEF OnceIn
<1>9. ASSUME NEW k \in I, NEW j \in 1 .. Len(C1[k]) PROVE C1[k][j] \in Q \ {p}
  <2>1. C1[k][j] \in Q
    <3>1. old(k, j) \in 1 .. Len(C[k]) /\ C1[k][j] = C[k][old(k, j)]
      BY <1>6
    <3>2. C[k][old(k, j)] \in Q
      BY <3>1 DEF OnceIn
    <3> QED BY <3>1, <3>2
  <2>2. C1[k][j] # p
    BY <1>2, <1>4, <1>6, <1>8
  <2> QED BY <2>1, <2>2
<1>10. ASSUME NEW k \in I, NEW m \in I,
              NEW j \in 1 .. Len(C1[k]), NEW l \in 1 .. Len(C1[m]),
              C1[k][j] = C1[m][l]
       PROVE  k = m /\ j = l
  <2>1. k = m /\ old(k, j) = old(m, l)
    <3>1. old(k, j) \in 1 .. Len(C[k]) /\ C1[k][j] = C[k][old(k, j)]
      BY <1>6
    <3>2. old(m, l) \in 1 .. Len(C[m]) /\ C1[m][l] = C[m][old(m, l)]
      BY <1>6
    <3>3. C[k][old(k, j)] = C[m][old(m, l)]
      BY <1>10, <3>1, <3>2
    <3> QED BY <1>8, <3>1, <3>2, <3>3
  <2> QED BY <2>1 DEF old
<1>11. ASSUME NEW x \in Q \ {p} PROVE \E k \in I : \E j \in 1 .. Len(C1[k]) : C1[k][j] = x
  <2>1. PICK k \in I : \E j \in 1 .. Len(C[k]) : C[k][j] = x
    BY DEF OnceIn
  <2>2. PICK j \in 1 .. Len(C[k]) : C[k][j] = x
    BY <2>1
  <2>3. \E l \in 1 .. Len(C1[k]) : C1[k][l] = C[k][j]
    BY <1>7, <2>2
  <2> QED BY <2>2, <2>3
<1>12. C1 \in [I -> Seq(S)]
  BY DEF OnlyOneMoves
<1> QED BY <1>5, <1>9, <1>10, <1>11, <1>12 DEF OnceIn, p

\* The members of R are those of the sequence c.
AreThoseOf(R, c) == \A x : x \in R <=> \E j \in 1 .. Len(c) : c[j] = x

\* One of the queues loses all it holds.
LEMMA OnceAfterClean ==
    ASSUME NEW I, NEW S, NEW C, NEW Q, OnceIn(C, I, S, Q), NEW i \in I,
           NEW C1, OnlyOneMoves(C, C1, I, S, i), C1[i] = <<>>,
           NEW R, AreThoseOf(R, C[i])
    PROVE  OnceIn(C1, I, S, Q \ R) /\ R \subseteq Q
<1>1. C \in [I -> Seq(S)] /\ C1 \in [I -> Seq(S)] /\ \A k \in I : k # i => C1[k] = C[k]
  BY DEF OnceIn, OnlyOneMoves
<1>2. 1 .. Len(C1[i]) = {}
  OBVIOUS
<1>3. \A k \in I : \A j \in 1 .. Len(C1[k]) : k # i /\ j \in 1 .. Len(C[k]) /\ C1[k][j] = C[k][j]
  BY <1>1, <1>2
<1>4. \A k, m \in I : \A j \in 1 .. Len(C[k]) : \A l \in 1 .. Len(C[m]) :
         C[k][j] = C[m][l] => k = m /\ j = l
  BY DEF OnceIn
<1>5. \A k \in I : \A j \in 1 .. Len(C[k]) : C[k][j] \in Q
  BY DEF OnceIn
<1>6. ASSUME NEW k \in I, NEW j \in 1 .. Len(C1[k]) PROVE C1[k][j] \in Q \ R
  BY <1>3, <1>4, <1>5 DEF AreThoseOf
<1>7. ASSUME NEW k \in I, NEW m \in I,
             NEW j \in 1 .. Len(C1[k]), NEW l \in 1 .. Len(C1[m]),
             C1[k][j] = C1[m][l]
      PROVE  k = m /\ j = l
  BY <1>3, <1>4, <1>7
<1>8. ASSUME NEW x \in Q \ R PROVE \E k \in I : \E j \in 1 .. Len(C1[k]) : C1[k][j] = x
  <2>1. PICK k \in I : \E j \in 1 .. Len(C[k]) : C[k][j] = x
    BY DEF OnceIn
  <2>2. k # i
    BY <2>1 DEF AreThoseOf
  <2> QED BY <1>1, <2>1, <2>2
<1>9. R \subseteq Q
  BY <1>5 DEF AreThoseOf
<1> QED BY <1>1, <1>6, <1>7, <1>8, <1>9 DEF OnceIn

-----------------------------------------------------------------------------
(***************************************************************************)
(* The queue with priorities.                                              *)
(***************************************************************************)
\* A set of naturals with a bound has a least member, and a greatest one.
LEMMA Least ==
    ASSUME NEW n \in Nat, NEW T, T \subseteq 0 .. n, T # {}
    PROVE  /\ Min(T) \in T /\ \A y \in T : Min(T) <= y
           /\ \A x \in T : (\A y \in T : x <= y) => x = Min(T)
<1>1. \E x \in T : \A y \in T : x <= y
  <2> DEFINE R == OpToRel(<, Nat)
  <2>1. IsWellFoundedOn(R, Nat)
    BY NatLessThanWellFounded
  <2>2. T \subseteq Nat /\ T # {}
    OBVIOUS
  <2> HIDE DEF R
  <2>3. PICK x \in T : \A y \in T : ~ (<<y, x>> \in R)
    BY <2>1, <2>2, WFMin
  <2>4. \A y \in T : ~ (y < x)
    BY <2>2, <2>3 DEF R, OpToRel
  <2> QED BY <2>2, <2>4
<1>2. Min(T) \in T /\ \A y \in T : Min(T) <= y
  BY <1>1 DEF Min
<1>3. \A x, y \in T : x <= y /\ y <= x => x = y
  OBVIOUS
<1> QED BY <1>2, <1>3

\* The same from above.
LEMMA Greatest ==
    ASSUME NEW n \in Nat, NEW T, T \subseteq 0 .. n, T # {}
    PROVE  /\ Max(T) \in T /\ \A y \in T : Max(T) >= y
           /\ \A x \in T : (\A y \in T : x >= y) => x = Max(T)
<1> DEFINE U == {n - x : x \in T}
<1>1. U \subseteq 0 .. n /\ U # {}
  <2>1. \A x \in T : n - x \in 0 .. n
    OBVIOUS
  <2> QED BY <2>1
<1>2. PICK u \in U : \A y \in U : u <= y
  <2> HIDE DEF U
  <2>1. Min(U) \in U /\ \A y \in U : Min(U) <= y
    BY <1>1, Least
  <2> QED BY <2>1
<1>3. n - u \in T /\ \A y \in T : n - u >= y
  <2>1. PICK x \in T : u = n - x
    BY <1>2
  <2>2. \A y \in T : n - y \in U
    OBVIOUS
  <2>3. \A y \in T : n - x <= n - y
    BY <1>2, <2>1, <2>2
  <2> QED BY <2>1, <2>3
<1>4. Max(T) \in T /\ \A y \in T : Max(T) >= y
  BY <1>3 DEF Max
<1>5. \A x, y \in T : x >= y /\ y >= x => x = y
  OBVIOUS
<1> QED BY <1>4, <1>5

\* The places of the sequences C that hold packets.
UsedOf(C) == UNION {{i} \X (1 .. Len(C[i])) : i \in Prios}

QueuedIn(w) == {p \in Packets : w[p] = "queued"}

\* The sequences hold the packets that are queued, each once; n of them.
TheyHold(C, w, n) ==
    /\ OnceIn(C, Prios, Packets \cup {Garbage}, QueuedIn(w))
    /\ w \in [Packets -> {"free", "held", "queued"}]
    /\ n \in 0 .. Size
    /\ IsFiniteSet(UsedOf(C)) /\ Cardinality(UsedOf(C)) = n
    /\ IsFiniteSet(QueuedIn(w)) /\ Cardinality(QueuedIn(w)) = n

\* Which the places in use are.
LEMMA UsedPlaces ==
    ASSUME NEW C
    PROVE  \A x : x \in UsedOf(C) <=> \E i \in Prios : \E j \in 1 .. Len(C[i]) : x = <<i, j>>
BY DEF UsedOf

RingMoves(C, C1, i) == OnlyOneMoves(C, C1, Prios, Packets \cup {Garbage}, i)

\* A sequence that gains a packet at its end holds all it held.
LEMMA HoldsOneMore ==
    ASSUME NEW C, NEW w, NEW n, TheyHold(C, w, n), n < Size,
           NEW i \in Prios, NEW p \in Packets, w[p] # "queued",
           NEW C1, RingMoves(C, C1, i), C1[i] = Append(C[i], p),
           NEW w1, w1 = [w EXCEPT ![p] = "queued"]
    PROVE  TheyHold(C1, w1, n + 1)
<1> DEFINE S == Packets \cup {Garbage}
           c == Len(C[i])
<1>1. C \in [Prios -> Seq(S)] /\ OnceIn(C, Prios, S, QueuedIn(w)) /\ p \in S
  BY DEF TheyHold, OnceIn
<1> HIDE DEF S
<1>2. OnlyOneMoves(C, C1, Prios, S, i)
  BY DEF S, RingMoves
<1>3. QueuedIn(w1) = QueuedIn(w) \cup {p} /\ p \notin QueuedIn(w)
  BY DEF TheyHold, QueuedIn
<1>4. OnceIn(C1, Prios, S, QueuedIn(w) \cup {p})
  BY <1>1, <1>2, <1>3, OnceAfterGain
<1>5. /\ \A k \in Prios : Len(C[k]) \in Nat /\ Len(C1[k]) \in Nat
      /\ \A k \in Prios : \A j : j \in 1 .. Len(C1[k]) <=>
                                    j \in 1 .. Len(C[k]) \/ (k = i /\ j = c + 1)
      /\ \A k \in Prios : \A j \in 1 .. Len(C[k]) : C1[k][j] = C[k][j]
      /\ C1[i][c + 1] = p /\ c + 1 \notin 1 .. c
  <2>1. AfterGain(C, C1, Prios, i, p)
    BY <1>1, <1>2, PlacesAfterGain
  <2> QED BY <2>1 DEF AfterGain
<1>6. UsedOf(C1) = UsedOf(C) \cup {<<i, c + 1>>} /\ <<i, c + 1>> \notin UsedOf(C)
  <2>1. \A x : x \in UsedOf(C1) <=> x \in UsedOf(C) \/ x = <<i, c + 1>>
    BY <1>5, UsedPlaces
  <2>2. <<i, c + 1>> \notin UsedOf(C)
    BY <1>5, UsedPlaces
  <2> QED BY <2>1, <2>2
<1> HIDE DEF c
<1>7. IsFiniteSet(UsedOf(C1)) /\ Cardinality(UsedOf(C1)) = n + 1
  <2>1. IsFiniteSet(UsedOf(C)) /\ Cardinality(UsedOf(C)) = n
    BY DEF TheyHold
  <2> QED BY <1>6, <2>1, FS_AddElement
<1>8. IsFiniteSet(QueuedIn(w1)) /\ Cardinality(QueuedIn(w1)) = n + 1
  <2>1. IsFiniteSet(QueuedIn(w)) /\ Cardinality(QueuedIn(w)) = n
    BY DEF TheyHold
  <2> QED BY <1>3, <2>1, FS_AddElement
<1>9. n + 1 \in 0 .. Size
  BY RingConstants DEF TheyHold
<1>10. w1 \in [Packets -> {"free", "held", "queued"}]
  BY DEF TheyHold
<1> QED BY <1>3, <1>4, <1>7, <1>8, <1>9, <1>10 DEF TheyHold, S

\* A sequence that loses its head holds the rest.
LEMMA HoldsOneLess ==
    ASSUME NEW C, NEW w, NEW n, TheyHold(C, w, n),
           NEW i \in Prios, C[i] # <<>>, NEW z \in {"free", "held"},
           NEW C1, RingMoves(C, C1, i), C1[i] = Tail(C[i]),
           NEW w1, w1 = [w EXCEPT ![Head(C[i])] = z]
    PROVE  /\ TheyHold(C1, w1, n - 1) /\ n # 0
           /\ Head(C[i]) \in Packets /\ w[Head(C[i])] = "queued"
<1> DEFINE S == Packets \cup {Garbage}
           c == Len(C[i])
           p == Head(C[i])
<1>1. C \in [Prios -> Seq(S)] /\ OnceIn(C, Prios, S, QueuedIn(w))
  BY DEF TheyHold, OnceIn
<1> HIDE DEF S
<1>2. OnlyOneMoves(C, C1, Prios, S, i)
  BY DEF S, RingMoves
<1>3. OnceIn(C1, Prios, S, QueuedIn(w) \ {p}) /\ p \in QueuedIn(w)
  BY <1>1, <1>2, OnceAfterLoss
<1>4. /\ c \in Nat /\ c > 0 /\ Len(C1[i]) = c - 1
      /\ \A k \in Prios : k # i => C1[k] = C[k]
  BY <1>1, <1>2 DEF OnlyOneMoves
<1> HIDE DEF p
<1>5. UsedOf(C1) = UsedOf(C) \ {<<i, c>>} /\ <<i, c>> \in UsedOf(C)
  <2>1. \A k \in Prios : \A j : j \in 1 .. Len(C1[k]) <=> j \in 1 .. Len(C[k]) /\ ~ (k = i /\ j = c)
    <3> HIDE DEF c
    <3>1. \A j : j \in 1 .. c - 1 <=> j \in 1 .. c /\ j # c
      BY <1>4
    <3> QED BY <1>4, <3>1 DEF c
  <2>2. \A x : x \in UsedOf(C1) <=> x \in UsedOf(C) /\ x # <<i, c>>
    BY <2>1, UsedPlaces
  <2>3. c \in 1 .. Len(C[i])
    BY <1>4
  <2>4. <<i, c>> \in UsedOf(C)
    BY <2>3, UsedPlaces
  <2> QED BY <2>2, <2>4
<1> HIDE DEF c
<1>6. IsFiniteSet(UsedOf(C)) /\ Cardinality(UsedOf(C)) = n
  BY DEF TheyHold
<1>7. IsFiniteSet(UsedOf(C1)) /\ Cardinality(UsedOf(C1)) = n - 1
  BY <1>5, <1>6, FS_RemoveElement
<1>8. QueuedIn(w1) = QueuedIn(w) \ {p}
  BY <1>3 DEF TheyHold, QueuedIn, p
<1>9. IsFiniteSet(QueuedIn(w1)) /\ Cardinality(QueuedIn(w1)) = n - 1
  <2>1. IsFiniteSet(QueuedIn(w)) /\ Cardinality(QueuedIn(w)) = n
    BY DEF TheyHold
  <2> QED BY <1>3, <1>8, <2>1, FS_RemoveElement
<1>10. n # 0
  BY <1>5, <1>6, FS_EmptySet
<1>11. n - 1 \in 0 .. Size
  BY <1>10, RingConstants DEF TheyHold
<1>12. w1 \in [Packets -> {"free", "held", "queued"}]
  BY DEF TheyHold
<1>13. p \in Packets /\ w[p] = "queued"
  BY <1>3 DEF QueuedIn
<1> QED BY <1>3, <1>7, <1>8, <1>9, <1>10, <1>11, <1>12, <1>13 DEF TheyHold, p, S

\* No sequence holds more than all of them together, and when there is nothing
\* in any of them they hold nothing.
LEMMA NoneHoldsMore ==
    ASSUME NEW C, NEW w, NEW n, TheyHold(C, w, n)
    PROVE  /\ \A i \in Prios : Len(C[i]) \in Nat /\ Len(C[i]) <= n
           /\ n = 0 <=> \A i \in Prios : C[i] = <<>>
<1>1. IsFiniteSet(UsedOf(C)) /\ Cardinality(UsedOf(C)) = n /\ n \in Nat
  BY RingConstants DEF TheyHold
<1>2. \A i \in Prios : C[i] \in Seq(Packets \cup {Garbage})
  BY DEF TheyHold, OnceIn
<1>3. ASSUME NEW i \in Prios PROVE Len(C[i]) \in Nat /\ Len(C[i]) <= n
  <2> DEFINE c == Len(C[i])
             T == {i} \X (1 .. c)
  <2>1. c \in Nat
    BY <1>2
  <2>2. T \in SUBSET UsedOf(C)
    BY DEF UsedOf
  <2>3. IsFiniteSet({i}) /\ Cardinality({i}) = 1
    BY FS_Singleton
  <2> HIDE DEF c
  <2>4. c \in Int /\ 1 \in Int
    BY <2>1
  <2>5. IsFiniteSet(1 .. c) /\ Cardinality(1 .. c) = IF 1 > c THEN 0 ELSE c - 1 + 1
    BY <2>4, FS_Interval
  <2>6. Cardinality(1 .. c) = c
    BY <2>1, <2>5
  <2>7. Cardinality({i} \X (1 .. c)) = Cardinality({i}) * Cardinality(1 .. c)
    BY <2>3, <2>5, FS_Product
  <2>8. Cardinality(T) = c
    BY <2>1, <2>3, <2>6, <2>7
  <2> HIDE DEF T
  <2>9. Cardinality(T) <= Cardinality(UsedOf(C))
    BY <1>1, <2>2, FS_Subset
  <2> QED BY <1>1, <2>1, <2>8, <2>9 DEF c
<1>4. ASSUME n = 0, NEW i \in Prios PROVE C[i] = <<>>
  <2>1. Len(C[i]) = 0
    BY <1>3, <1>4
  <2> QED BY <1>2, <2>1
<1>5. ASSUME \A i \in Prios : C[i] = <<>> PROVE n = 0
  <2>1. \A i \in Prios : 1 .. Len(C[i]) = {}
    BY <1>5
  <2>2. UsedOf(C) = {}
    BY <2>1, UsedPlaces
  <2> QED BY <1>1, <2>2, FS_EmptySet
<1> QED BY <1>3, <1>4, <1>5

\* The contents of the rings of Q.
ContentsOf(Q) == [i \in Prios |-> RingContents(Q[i])]

RingsHold(Q, w, n) == Q \in [Prios -> RingType] /\ TheyHold(ContentsOf(Q), w, n)

LEMMA ContentsAreSequences ==
    ASSUME NEW Q \in [Prios -> RingType]
    PROVE  /\ ContentsOf(Q) \in [Prios -> Seq(Packets \cup {Garbage})]
           /\ \A i \in Prios : /\ ContentsOf(Q)[i] = RingContents(Q[i])
                               /\ Len(ContentsOf(Q)[i]) = Q[i].count /\ Q[i].count \in Nat
                               /\ ContentsOf(Q)[i] = <<>> <=> Q[i].count = 0
<1>1. \A i \in Prios : Q[i] \in RingType
  OBVIOUS
<1>2. \A i \in Prios : /\ RingContents(Q[i]) \in Seq(Packets \cup {Garbage})
                       /\ Len(RingContents(Q[i])) = Q[i].count /\ Q[i].count \in Nat
  BY <1>1, ContentsType
<1>3. \A i \in Prios : ContentsOf(Q)[i] = RingContents(Q[i])
  BY DEF ContentsOf
<1>4. ContentsOf(Q) \in [Prios -> Seq(Packets \cup {Garbage})]
  BY <1>2 DEF ContentsOf
<1>5. ASSUME NEW s \in Seq(Packets \cup {Garbage}) PROVE s = <<>> <=> Len(s) = 0
  OBVIOUS
<1> QED BY <1>2, <1>3, <1>4, <1>5

\* The four updates that the calls are made of.
WithPut(Q, i, p)   == [Q EXCEPT ![i] = RingPut(@, p)]
WithGet(Q, i)      == [Q EXCEPT ![i] = RingRest(@)]
PutBehind(C, i, p) == [C EXCEPT ![i] = Append(@, p)]
Beheaded(C, i)     == [C EXCEPT ![i] = Tail(@)]
WithMark(w, p, z)  == [w EXCEPT ![p] = z]

\* buf_queue_put on the ring i.
LEMMA PutStep ==
    ASSUME NEW Q, NEW w, NEW n, RingsHold(Q, w, n), n < Size,
           NEW i \in Prios, NEW p \in Packets, w[p] # "queued"
    PROVE  /\ RingsHold(WithPut(Q, i, p), WithMark(w, p, "queued"), n + 1)
           /\ ContentsOf(WithPut(Q, i, p)) = PutBehind(ContentsOf(Q), i, p)
<1> DEFINE Q1 == WithPut(Q, i, p)
           C  == ContentsOf(Q)
           C1 == ContentsOf(Q1)
           w1 == WithMark(w, p, "queued")
<1>1. Q \in [Prios -> RingType] /\ TheyHold(C, w, n)
  BY DEF RingsHold
<1>2. Q[i] \in RingType /\ Q[i].count < Size
  <2>1. Len(C[i]) <= n /\ Len(C[i]) = Q[i].count /\ Q[i].count \in Nat
    BY <1>1, NoneHoldsMore, ContentsAreSequences
  <2>2. n \in Nat
    BY <1>1, RingConstants DEF TheyHold
  <2> QED BY <1>1, <2>1, <2>2, RingConstants
<1>3. RingPut(Q[i], p) \in RingType /\ RingContents(RingPut(Q[i], p)) = Append(RingContents(Q[i]), p)
  BY <1>2, PutAppends
<1>4. Q1 \in [Prios -> RingType] /\ Q1[i] = RingPut(Q[i], p) /\ \A k \in Prios : k # i => Q1[k] = Q[k]
  BY <1>1, <1>3 DEF WithPut
<1> HIDE DEF Q1
<1>5. C1 \in [Prios -> Seq(Packets \cup {Garbage})]
  BY <1>4, ContentsAreSequences
<1>6. C1[i] = Append(C[i], p) /\ \A k \in Prios : k # i => C1[k] = C[k]
  BY <1>3, <1>4 DEF ContentsOf
<1>7. C1 = PutBehind(C, i, p)
  BY <1>6 DEF ContentsOf, PutBehind
<1>8. RingMoves(C, C1, i)
  BY <1>5, <1>6 DEF RingMoves, OnlyOneMoves
<1>11. w1 = [w EXCEPT ![p] = "queued"]
  BY DEF WithMark
<1> HIDE DEF C, C1, w1
<1>9. TheyHold(C1, w1, n + 1)
  BY <1>1, <1>6, <1>8, <1>11, HoldsOneMore
<1>10. RingsHold(Q1, w1, n + 1)
  BY <1>4, <1>9 DEF RingsHold, C1
<1> QED BY <1>7, <1>10 DEF Q1, C, C1, w1

\* buf_queue_get on the ring i, which is not empty: the packet becomes z.
LEMMA GetStep ==
    ASSUME NEW Q, NEW w, NEW n, RingsHold(Q, w, n),
           NEW i \in Prios, Q[i].count # 0, NEW z \in {"free", "held"}
    PROVE  /\ RingsHold(WithGet(Q, i), WithMark(w, RingFirst(Q[i]), z), n - 1)
           /\ ContentsOf(WithGet(Q, i)) = Beheaded(ContentsOf(Q), i)
           /\ RingFirst(Q[i]) = Head(ContentsOf(Q)[i])
           /\ RingFirst(Q[i]) \in Packets /\ w[RingFirst(Q[i])] = "queued" /\ n # 0
<1> DEFINE Q1 == WithGet(Q, i)
           C  == ContentsOf(Q)
           C1 == ContentsOf(Q1)
           w1 == WithMark(w, RingFirst(Q[i]), z)
<1>1. Q \in [Prios -> RingType] /\ TheyHold(C, w, n)
  BY DEF RingsHold
<1>2. Q[i] \in RingType /\ Q[i].count > 0
  BY <1>1, ContentsType
<1>3. /\ RingRest(Q[i]) \in RingType /\ RingContents(Q[i]) # <<>>
      /\ RingFirst(Q[i]) = Head(RingContents(Q[i]))
      /\ RingContents(RingRest(Q[i])) = Tail(RingContents(Q[i]))
  BY <1>2, RestIsTail
<1>4. Q1 \in [Prios -> RingType] /\ Q1[i] = RingRest(Q[i]) /\ \A k \in Prios : k # i => Q1[k] = Q[k]
  BY <1>1, <1>3 DEF WithGet
<1> HIDE DEF Q1
<1>5. C1 \in [Prios -> Seq(Packets \cup {Garbage})]
  BY <1>4, ContentsAreSequences
<1>6. C1[i] = Tail(C[i]) /\ C[i] # <<>> /\ RingFirst(Q[i]) = Head(C[i])
  BY <1>3, <1>4 DEF ContentsOf
<1>7. \A k \in Prios : k # i => C1[k] = C[k]
  BY <1>4 DEF ContentsOf
<1>8. C1 = Beheaded(C, i)
  BY <1>6, <1>7 DEF ContentsOf, Beheaded
<1>9. RingMoves(C, C1, i)
  BY <1>5, <1>7 DEF RingMoves, OnlyOneMoves
<1>10. w1 = [w EXCEPT ![Head(C[i])] = z]
  BY <1>6 DEF WithMark
<1> HIDE DEF C, C1, w1
<1>11. TheyHold(C1, w1, n - 1) /\ n # 0 /\ Head(C[i]) \in Packets /\ w[Head(C[i])] = "queued"
  BY <1>1, <1>6, <1>9, <1>10, HoldsOneLess
<1>12. RingsHold(Q1, w1, n - 1)
  BY <1>4, <1>11 DEF RingsHold, C1
<1> QED BY <1>6, <1>8, <1>11, <1>12 DEF Q1, C, C1, w1

\* A get on one ring and a put on one: the number of packets stays.
LEMMA SwapStep ==
    ASSUME NEW Q, NEW w, NEW n, RingsHold(Q, w, n),
           NEW i \in Prios, Q[i].count # 0, NEW z \in {"free", "held"},
           NEW k \in Prios, NEW p \in Packets, w[p] # "queued"
    PROVE  /\ RingsHold(WithPut(WithGet(Q, i), k, p), [w EXCEPT ![p] = "queued", ![RingFirst(Q[i])] = z], n)
           /\ ContentsOf(WithPut(WithGet(Q, i), k, p)) = PutBehind(Beheaded(ContentsOf(Q), i), k, p)
           /\ RingFirst(Q[i]) = Head(ContentsOf(Q)[i])
           /\ RingFirst(Q[i]) \in Packets
<1> DEFINE r  == RingFirst(Q[i])
           Q1 == WithGet(Q, i)
           w1 == WithMark(w, r, z)
<1>1. /\ RingsHold(Q1, w1, n - 1)
      /\ ContentsOf(Q1) = Beheaded(ContentsOf(Q), i)
      /\ r = Head(ContentsOf(Q)[i])
      /\ r \in Packets /\ w[r] = "queued" /\ n # 0
  BY GetStep
<1>2. w \in [Packets -> {"free", "held", "queued"}] /\ n \in 0 .. Size
  BY DEF RingsHold, TheyHold
<1>3. n - 1 < Size /\ n - 1 + 1 = n
  BY <1>2, RingConstants
<1> HIDE DEF r
<1>4. p # r
  BY <1>1
<1>5. w1[p] # "queued"
  BY <1>1, <1>2, <1>4 DEF WithMark
<1>6. WithMark(w1, p, "queued") = [w EXCEPT ![p] = "queued", ![r] = z]
  BY <1>1, <1>2, <1>4 DEF WithMark
<1> HIDE DEF Q1, w1
<1>7. /\ RingsHold(WithPut(Q1, k, p), WithMark(w1, p, "queued"), n - 1 + 1)
      /\ ContentsOf(WithPut(Q1, k, p)) = PutBehind(ContentsOf(Q1), k, p)
  BY <1>1, <1>3, <1>5, PutStep
<1>8. RingsHold(WithPut(Q1, k, p), [w EXCEPT ![p] = "queued", ![r] = z], n)
  BY <1>3, <1>6, <1>7
<1> QED BY <1>1, <1>7, <1>8 DEF Q1, r

-----------------------------------------------------------------------------
\* The inductive invariant of the queue with priorities.
PrioIInv == PrioTypeOK /\ RingsHold(queue, where, count)

\* The empty rings of the initial state hold nothing.
LEMMA PrioInitIInv == PrioInit => PrioIInv
<1> SUFFICES ASSUME PrioInit PROVE PrioIInv
  OBVIOUS
<1>1. RingInit \in RingType /\ RingInit.count = 0
  BY RingConstants DEF RingInit, RingType, Places
<1>2. PrioTypeOK
  BY <1>1, RingConstants DEF PrioInit, PrioTypeOK
<1>3. queue \in [Prios -> RingType] /\ \A i \in Prios : queue[i].count = 0
  BY <1>1 DEF PrioInit
<1> DEFINE C == ContentsOf(queue)
<1>4. C \in [Prios -> Seq(Packets \cup {Garbage})] /\ \A i \in Prios : Len(C[i]) = 0
  BY <1>3, ContentsAreSequences
<1> HIDE DEF C
<1>5. \A i \in Prios : 1 .. Len(C[i]) = {}
  BY <1>4
<1>6. UsedOf(C) = {}
  BY <1>5, UsedPlaces
<1>7. QueuedIn(where) = {}
  BY DEF PrioInit, QueuedIn
<1>8. IsFiniteSet({}) /\ Cardinality({}) = 0
  BY FS_EmptySet
<1>9. OnceIn(C, Prios, Packets \cup {Garbage}, {})
  BY <1>4, <1>5 DEF OnceIn
<1>10. count = 0 /\ 0 \in 0 .. Size /\ where \in [Packets -> {"free", "held", "queued"}]
  BY RingConstants DEF PrioInit
<1>11. TheyHold(C, where, count)
  BY <1>4, <1>5, <1>6, <1>7, <1>8, <1>9, <1>10 DEF TheyHold
<1> QED BY <1>2, <1>3, <1>11 DEF PrioIInv, RingsHold, C

\* A packet that is not queued, before and after, is of no concern to the rings.
LEMMA OthersAreFree ==
    ASSUME NEW Q, NEW w, NEW n, RingsHold(Q, w, n),
           NEW p \in Packets, w[p] # "queued", NEW z \in {"free", "held"}
    PROVE  RingsHold(Q, [w EXCEPT ![p] = z], n)
<1>1. QueuedIn([w EXCEPT ![p] = z]) = QueuedIn(w) /\ [w EXCEPT ![p] = z] \in [Packets -> {"free", "held", "queued"}]
  BY DEF RingsHold, TheyHold, QueuedIn
<1> QED BY <1>1 DEF RingsHold, TheyHold

\* The lowest priority that has packets is the one evicted, if the new packet
\* is not below it.
LEMMA EvictableIsLeast ==
    ASSUME NEW prio \in Prios, Evictable(prio) # {}
    PROVE  /\ Min(Evictable(prio)) = Min(NotEmpty) /\ Min(NotEmpty) \in NotEmpty
           /\ Min(NotEmpty) <= prio /\ NotEmpty # {}
<1>1. NQ - 1 \in Nat /\ NotEmpty \subseteq 0 .. NQ - 1 /\ Evictable(prio) \subseteq 0 .. NQ - 1
  BY PrioConstants DEF NotEmpty, Evictable, Prios
<1>2. NotEmpty # {}
  BY DEF Evictable
<1>3. Min(NotEmpty) \in NotEmpty /\ \A y \in NotEmpty : Min(NotEmpty) <= y
  BY <1>1, <1>2, Least
<1> DEFINE m == Min(NotEmpty)
<1> HIDE DEF m
<1>4. m \in Evictable(prio)
  <2>1. PICK i \in NotEmpty : i <= prio
    BY DEF Evictable
  <2>2. m \in NotEmpty /\ m <= i
    BY <1>3, <2>1 DEF m
  <2>3. m <= prio
    BY <1>1, <2>1, <2>2 DEF Prios
  <2> QED BY <2>2, <2>3 DEF Evictable
<1>5. \A y \in Evictable(prio) : m <= y
  BY <1>3 DEF Evictable, m
<1>6. m = Min(Evictable(prio))
  BY <1>1, <1>4, <1>5, Least
<1>7. m <= prio
  BY <1>4 DEF Evictable
<1> QED BY <1>2, <1>3, <1>6, <1>7 DEF m

\* A packet that evicts none is below them all.
LEMMA RefusedIsBelow ==
    ASSUME NEW prio \in Prios, Evictable(prio) = {}, NotEmpty # {}
    PROVE  Min(NotEmpty) > prio
<1> DEFINE m == Min(NotEmpty)
<1>1. NQ - 1 \in Nat /\ NotEmpty \subseteq 0 .. NQ - 1
  BY PrioConstants DEF NotEmpty, Prios
<1>2. m \in NotEmpty
  BY <1>1, Least
<1> HIDE DEF m
<1>3. ~ (m <= prio)
  BY <1>2 DEF Evictable
<1>4. m \in Nat /\ prio \in Nat
  BY <1>1, <1>2 DEF Prios
<1>5. m > prio
  BY <1>3, <1>4
<1> QED BY <1>5 DEF m

\* The exchange gives out the packet that the get would.
LEMMA AboveIsGreatest ==
    ASSUME NEW prio \in Prios, {i \in NotEmpty : i >= prio} # {}
    PROVE  /\ Max({i \in NotEmpty : i >= prio}) = Max(NotEmpty)
           /\ Max(NotEmpty) \in NotEmpty /\ Max(NotEmpty) >= prio
<1> DEFINE above == {i \in NotEmpty : i >= prio}
           m == Max(NotEmpty)
<1>1. NQ - 1 \in Nat /\ NotEmpty \subseteq 0 .. NQ - 1 /\ above \subseteq 0 .. NQ - 1
  BY PrioConstants DEF NotEmpty, Prios
<1>2. NotEmpty # {}
  OBVIOUS
<1>3. Max(NotEmpty) \in NotEmpty /\ \A y \in NotEmpty : Max(NotEmpty) >= y
  BY <1>1, <1>2, Greatest
<1>4. PICK i \in NotEmpty : i >= prio
  OBVIOUS
<1> HIDE DEF m
<1>5. m \in NotEmpty /\ m >= i
  BY <1>3 DEF m
<1>6. m >= prio
  BY <1>1, <1>4, <1>5 DEF Prios
<1>7. m \in above /\ \A y \in above : m >= y
  BY <1>3, <1>5, <1>6 DEF m
<1> HIDE DEF above
<1>8. m = Max(above)
  BY <1>1, <1>7, Greatest
<1> QED BY <1>3, <1>6, <1>8 DEF m, above

\* The get takes from a ring that has packets.
LEMMA GreatestNotEmpty ==
    ASSUME NotEmpty # {}
    PROVE  Max(NotEmpty) \in NotEmpty
<1>1. NQ - 1 \in Nat /\ NotEmpty \subseteq 0 .. NQ - 1
  BY PrioConstants DEF NotEmpty, Prios
<1> QED BY <1>1, Greatest

\* When the count is 0 the rings are empty, and only then.
LEMMA EmptyMeansNone ==
    ASSUME PrioIInv
    PROVE  /\ count = 0 <=> NotEmpty = {}
           /\ NotEmpty = {i \in Prios : ContentsOf(queue)[i] # <<>>}
           /\ count \in 0 .. Size
<1>1. /\ queue \in [Prios -> RingType] /\ count \in 0 .. Size
      /\ TheyHold(ContentsOf(queue), where, count)
  BY DEF PrioIInv, PrioTypeOK, RingsHold
<1>2. \A i \in Prios : ContentsOf(queue)[i] = <<>> <=> queue[i].count = 0
  BY <1>1, ContentsAreSequences
<1>3. count = 0 <=> \A i \in Prios : ContentsOf(queue)[i] = <<>>
  BY <1>1, NoneHoldsMore
<1> QED BY <1>1, <1>2, <1>3 DEF NotEmpty

\* Between two states: the rings hold what they should again, and the results
\* are packets.
CallKeeps ==
    /\ RingsHold(queue', where', count')
    /\ got' \in SUBSET Packets /\ dropped' \in SUBSET Packets

LEMMA KeptIsIInv == CallKeeps => PrioIInv'
<1> SUFFICES ASSUME CallKeeps PROVE PrioIInv'
  OBVIOUS
<1>1. RingsHold(queue, where, count)'
  BY DEF CallKeeps
<1>2. PrioTypeOK'
  BY DEF CallKeeps, PrioTypeOK, RingsHold, TheyHold
<1> QED BY <1>1, <1>2 DEF PrioIInv

\* The abstract queue's names for what the rings show of themselves.
LEMMA AbstractViews ==
    ASSUME PrioIInv
    PROVE  /\ APrioFifo!Busy = NotEmpty /\ APrioFifo!Count = count
           /\ APrioFifo!Min(NotEmpty) = Min(NotEmpty) /\ APrioFifo!Max(NotEmpty) = Max(NotEmpty)
<1>1. APrioFifo!Busy = NotEmpty
  BY EmptyMeansNone DEF APrioFifo!Busy, ContentsOf
<1>2. APrioFifo!Count = count
  <2> DEFINE C == ContentsOf(queue)
  <2>1. TheyHold(C, where, count)
    BY DEF PrioIInv, RingsHold
  <2>2. \A i \in Prios : DOMAIN C[i] = 1 .. Len(C[i])
    BY <2>1 DEF TheyHold
  <2> DEFINE U == UNION {{i} \X DOMAIN [k \in Prios |-> RingContents(queue[k])][i] : i \in Prios}
  <2>3. APrioFifo!Count = Cardinality(U)
    BY DEF APrioFifo!Count, APrioFifo!Cardinality, Cardinality
  <2>4. U = UsedOf(C)
    BY <2>2 DEF UsedOf, ContentsOf
  <2> HIDE DEF C, U
  <2> QED BY <2>1, <2>3, <2>4 DEF TheyHold
<1>3. APrioFifo!Min(NotEmpty) = Min(NotEmpty) /\ APrioFifo!Max(NotEmpty) = Max(NotEmpty)
  BY DEF APrioFifo!Min, APrioFifo!Max, Min, Max
<1> QED BY <1>1, <1>2, <1>3

\* A put that finds room: the ring of its priority gains the packet.
LEMMA PutInRoomStep ==
    ASSUME PrioIInv, NEW p \in Packets, NEW prio \in Prios, PrioPutInRoom(p, prio)
    PROVE  CallKeeps /\ APrioFifo!Put(p, prio)
<1>1. RingsHold(queue, where, count) /\ count < Size /\ where[p] # "queued"
  BY DEF PrioIInv, PrioPutInRoom
<1>2. /\ RingsHold(WithPut(queue, prio, p), WithMark(where, p, "queued"), count + 1)
      /\ ContentsOf(WithPut(queue, prio, p)) = PutBehind(ContentsOf(queue), prio, p)
  BY <1>1, PutStep
<1>3. /\ queue' = WithPut(queue, prio, p) /\ where' = WithMark(where, p, "queued")
      /\ count' = count + 1 /\ got' = {} /\ dropped' = {}
  BY DEF PrioPutInRoom, WithPut, WithMark
<1>4. CallKeeps
  BY <1>2, <1>3 DEF CallKeeps
<1>5. ContentsOf(queue)' = [ContentsOf(queue) EXCEPT ![prio] = Append(@, p)]
  <2>1. ContentsOf(queue)' = ContentsOf(WithPut(queue, prio, p))
    BY <1>3
  <2> QED BY <1>2, <2>1 DEF PutBehind
<1>6. APrioFifo!Put(p, prio)
  BY <1>1, <1>3, <1>5, AbstractViews DEF APrioFifo!Put, ContentsOf
<1> QED BY <1>4, <1>6

\* What a call makes of the abstract queue's waiting packets.
LEMMA SwapView ==
    ASSUME PrioIInv, NEW i \in Prios, NEW k \in Prios, NEW p \in Packets,
           queue' = WithPut(WithGet(queue, i), k, p),
           ContentsOf(WithPut(WithGet(queue, i), k, p)) = PutBehind(Beheaded(ContentsOf(queue), i), k, p)
    PROVE  ContentsOf(queue)' = [[ContentsOf(queue) EXCEPT ![i] = Tail(@)] EXCEPT ![k] = Append(@, p)]
<1>1. ContentsOf(queue)' = ContentsOf(WithPut(WithGet(queue, i), k, p))
  OBVIOUS
<1> QED BY <1>1 DEF PutBehind, Beheaded

\* A put that evicts: the oldest packet of the lowest priority goes.
LEMMA PutEvictingStep ==
    ASSUME PrioIInv, NEW p \in Packets, NEW prio \in Prios, PrioPutEvicting(p, prio)
    PROVE  CallKeeps /\ APrioFifo!Put(p, prio)
<1> DEFINE low == Min(NotEmpty)
<1>1. RingsHold(queue, where, count) /\ where[p] # "queued" /\ Evictable(prio) # {}
  BY DEF PrioIInv, PrioPutEvicting
<1>2. low = Min(Evictable(prio)) /\ low \in NotEmpty /\ low <= prio
  BY <1>1, EvictableIsLeast
<1>3. /\ queue' = WithPut(WithGet(queue, low), prio, p)
      /\ where' = [where EXCEPT ![p] = "queued", ![RingFirst(queue[low])] = "free"]
      /\ dropped' = {RingFirst(queue[low])}
      /\ got' = {} /\ count' = count
  BY <1>2 DEF PrioPutEvicting, Evicted, WithPut, WithGet
<1> HIDE DEF low
<1>4. low \in Prios /\ queue[low].count # 0
  BY <1>2 DEF NotEmpty
<1>5. /\ RingsHold(WithPut(WithGet(queue, low), prio, p),
                   [where EXCEPT ![p] = "queued", ![RingFirst(queue[low])] = "free"], count)
      /\ ContentsOf(WithPut(WithGet(queue, low), prio, p)) = PutBehind(Beheaded(ContentsOf(queue), low), prio, p)
      /\ RingFirst(queue[low]) = Head(ContentsOf(queue)[low])
      /\ RingFirst(queue[low]) \in Packets
  BY <1>1, <1>4, SwapStep
<1>6. CallKeeps
  BY <1>3, <1>5 DEF CallKeeps
<1>7. ContentsOf(queue)' = [[ContentsOf(queue) EXCEPT ![low] = Tail(@)] EXCEPT ![prio] = Append(@, p)]
  BY <1>3, <1>4, <1>5, SwapView
<1>8. count = Size
  <2>1. count >= Size
    BY DEF PrioPutEvicting
  <2>2. count \in 0 .. Size
    BY EmptyMeansNone
  <2> QED BY <2>1, <2>2, RingConstants
<1>9. APrioFifo!Put(p, prio)
  <2>1. APrioFifo!Min(APrioFifo!Busy) = low /\ APrioFifo!Count = Size
    BY <1>8, AbstractViews DEF low
  <2>2. APrioFifo!Oldest(low) = RingFirst(queue[low])
    BY <1>5 DEF APrioFifo!Oldest, ContentsOf
  <2> QED BY <1>2, <1>3, <1>7, <2>1, <2>2 DEF APrioFifo!Put, ContentsOf
<1> QED BY <1>6, <1>9

\* A put that is refused: the packet itself goes.
LEMMA PutRefusedStep ==
    ASSUME PrioIInv, NEW p \in Packets, NEW prio \in Prios, PrioPutRefused(p, prio)
    PROVE  CallKeeps /\ APrioFifo!Put(p, prio)
<1>1. /\ RingsHold(queue, where, count) /\ where[p] # "queued" /\ Evictable(prio) = {}
      /\ where' = [where EXCEPT ![p] = "free"] /\ dropped' = {p} /\ got' = {}
      /\ queue' = queue /\ count' = count /\ count >= Size
  BY DEF PrioIInv, PrioPutRefused
<1>2. RingsHold(queue, [where EXCEPT ![p] = "free"], count)
  BY <1>1, OthersAreFree
<1>3. CallKeeps
  BY <1>1, <1>2 DEF CallKeeps
<1>4. count = Size /\ NotEmpty # {}
  <2>1. count \in 0 .. Size /\ (count = 0 <=> NotEmpty = {})
    BY EmptyMeansNone
  <2> QED BY <1>1, <2>1, RingConstants
<1>5. Min(NotEmpty) > prio
  BY <1>1, <1>4, RefusedIsBelow
<1>6. APrioFifo!Min(APrioFifo!Busy) = Min(NotEmpty) /\ APrioFifo!Count = Size
  BY <1>4, AbstractViews
<1>7. APrioFifo!Put(p, prio)
  BY <1>1, <1>5, <1>6 DEF APrioFifo!Put
<1> QED BY <1>3, <1>7

\* The get: the oldest packet of the highest priority, if there is one.
LEMMA GetCallStep ==
    ASSUME PrioIInv, PrioGet
    PROVE  CallKeeps /\ APrioFifo!Get
<1> DEFINE high == Max(NotEmpty)
<1>1. /\ RingsHold(queue, where, count) /\ count \in 0 .. Size /\ (count = 0 <=> NotEmpty = {})
      /\ APrioFifo!Busy = NotEmpty /\ APrioFifo!Max(NotEmpty) = high
  BY EmptyMeansNone, AbstractViews DEF PrioIInv
<1>2. CASE count <= 0
  <2>1. count = 0 /\ got' = {} /\ dropped' = {} /\ count' = count /\ queue' = queue /\ where' = where
    BY <1>1, <1>2, RingConstants DEF PrioGet
  <2>2. CallKeeps
    BY <1>1, <2>1 DEF CallKeeps
  <2>3. APrioFifo!Get
    BY <1>1, <2>1 DEF APrioFifo!Get
  <2> QED BY <2>2, <2>3
<1>3. CASE count > 0
  <2>1. NotEmpty # {}
    BY <1>1, <1>3
  <2>2. high \in NotEmpty
    BY <2>1, GreatestNotEmpty
  <2>3. /\ queue' = WithGet(queue, high) /\ where' = WithMark(where, RingFirst(queue[high]), "held")
        /\ count' = count - 1 /\ got' = {RingFirst(queue[high])} /\ dropped' = {}
    BY <1>1, <1>3 DEF PrioGet, WithGet, WithMark
  <2> HIDE DEF high
  <2>4. high \in Prios /\ queue[high].count # 0
    BY <2>2 DEF NotEmpty
  <2>5. /\ RingsHold(WithGet(queue, high), WithMark(where, RingFirst(queue[high]), "held"), count - 1)
        /\ ContentsOf(WithGet(queue, high)) = Beheaded(ContentsOf(queue), high)
        /\ RingFirst(queue[high]) = Head(ContentsOf(queue)[high])
        /\ RingFirst(queue[high]) \in Packets
    BY <1>1, <2>4, GetStep
  <2>6. CallKeeps
    BY <2>3, <2>5 DEF CallKeeps
  <2>7. ContentsOf(queue)' = [ContentsOf(queue) EXCEPT ![high] = Tail(@)]
    <3>1. ContentsOf(queue)' = ContentsOf(WithGet(queue, high))
      BY <2>3
    <3> QED BY <2>5, <3>1 DEF Beheaded
  <2>8. APrioFifo!Oldest(high) = RingFirst(queue[high])
    BY <2>5 DEF APrioFifo!Oldest, ContentsOf
  <2>9. APrioFifo!Get
    BY <1>1, <2>1, <2>3, <2>7, <2>8 DEF APrioFifo!Get, ContentsOf
  <2> QED BY <2>6, <2>9
<1> QED BY <1>1, <1>2, <1>3, RingConstants

\* The exchange: the packet goes in, what would be got next comes out.
LEMMA ExchangeStep ==
    ASSUME PrioIInv, NEW p \in Packets, NEW prio \in Prios, PrioExchange(p, prio)
    PROVE  CallKeeps /\ APrioFifo!Exchange(p, prio)
<1> DEFINE above == {i \in NotEmpty : i >= prio}
           high  == Max(NotEmpty)
<1>1. /\ RingsHold(queue, where, count) /\ count \in 0 .. Size /\ (count = 0 <=> NotEmpty = {})
      /\ APrioFifo!Busy = NotEmpty /\ APrioFifo!Max(NotEmpty) = high
      /\ where[p] # "queued" /\ dropped' = {}
  BY EmptyMeansNone, AbstractViews DEF PrioIInv, PrioExchange
<1>2. CASE above = {}
  <2>1. got' = {p} /\ count' = count /\ queue' = queue /\ where' = where
    BY <1>2 DEF PrioExchange
  <2>2. CallKeeps
    BY <1>1, <2>1 DEF CallKeeps
  <2>3. \A i \in NotEmpty : i < prio
    <3>1. ASSUME NEW i \in NotEmpty PROVE ~ (i >= prio) /\ i \in Int /\ prio \in Int
      BY <1>2, PrioConstants DEF NotEmpty, Prios
    <3> QED BY <3>1
  <2>4. APrioFifo!Exchange(p, prio)
    BY <1>1, <2>1, <2>3 DEF APrioFifo!Exchange
  <2> QED BY <2>2, <2>4
<1>3. CASE above # {}
  <2>1. high = Max(above) /\ high \in NotEmpty /\ high >= prio
    BY <1>3, AboveIsGreatest
  <2>2. count > 0
    BY <1>1, <2>1, RingConstants
  <2>3. /\ queue' = WithPut(WithGet(queue, high), prio, p)
        /\ where' = [where EXCEPT ![p] = "queued", ![RingFirst(queue[high])] = "held"]
        /\ got' = {RingFirst(queue[high])} /\ count' = count
    <3>1. ~ (count <= 0)
      BY <1>1, <2>2, RingConstants
    <3> QED BY <1>3, <2>1, <3>1 DEF PrioExchange, WithPut, WithGet
  <2> HIDE DEF high
  <2>4. high \in Prios /\ queue[high].count # 0
    BY <2>1 DEF NotEmpty
  <2>5. /\ RingsHold(WithPut(WithGet(queue, high), prio, p),
                     [where EXCEPT ![p] = "queued", ![RingFirst(queue[high])] = "held"], count)
        /\ ContentsOf(WithPut(WithGet(queue, high), prio, p)) = PutBehind(Beheaded(ContentsOf(queue), high), prio, p)
        /\ RingFirst(queue[high]) = Head(ContentsOf(queue)[high])
        /\ RingFirst(queue[high]) \in Packets
    BY <1>1, <2>4, SwapStep
  <2>6. CallKeeps
    BY <1>1, <2>3, <2>5 DEF CallKeeps
  <2>7. ContentsOf(queue)' = [[ContentsOf(queue) EXCEPT ![high] = Tail(@)] EXCEPT ![prio] = Append(@, p)]
    BY <2>3, <2>4, <2>5, SwapView
  <2>8. APrioFifo!Oldest(high) = RingFirst(queue[high])
    BY <2>5 DEF APrioFifo!Oldest, ContentsOf
  <2>9. APrioFifo!Exchange(p, prio)
    BY <1>1, <2>1, <2>3, <2>7, <2>8 DEF APrioFifo!Exchange, ContentsOf
  <2> QED BY <2>6, <2>9
<1> QED BY <1>2, <1>3

\* Each call preserves the invariant, and does what the abstract queue does.
LEMMA PrioNextStep ==
    ASSUME PrioIInv, [PrioNext]_prioVars
    PROVE  PrioIInv' /\ [APrioFifo!Next]_(APrioFifo!vars)
<1>1. ASSUME NEW p \in Packets, PrioAllocate(p) \/ PrioFree(p) PROVE CallKeeps /\ APrioFifo!CallIdle
  <2>1. PICK z \in {"free", "held"} : /\ where[p] # "queued" /\ where' = [where EXCEPT ![p] = z]
                                      /\ got' = {} /\ dropped' = {} /\ count' = count /\ queue' = queue
    BY <1>1 DEF PrioAllocate, PrioFree
  <2>2. RingsHold(queue, [where EXCEPT ![p] = z], count)
    BY <2>1, OthersAreFree DEF PrioIInv
  <2> QED BY <2>1, <2>2 DEF CallKeeps, APrioFifo!CallIdle
<1>2. ASSUME NEW p \in Packets, NEW prio \in Prios,
             PrioPutInRoom(p, prio) \/ PrioPutEvicting(p, prio) \/ PrioPutRefused(p, prio)
      PROVE  CallKeeps /\ APrioFifo!Put(p, prio)
  BY <1>2, PutInRoomStep, PutEvictingStep, PutRefusedStep
<1>3. ASSUME NEW p \in Packets, NEW prio \in Prios, PrioExchange(p, prio)
      PROVE  CallKeeps /\ APrioFifo!Exchange(p, prio)
  BY <1>3, ExchangeStep
<1>4. CASE PrioGet
  <2>1. CallKeeps /\ APrioFifo!Get
    BY <1>4, GetCallStep
  <2> QED BY <2>1, KeptIsIInv DEF APrioFifo!Next
<1>5. CASE UNCHANGED prioVars
  BY <1>5 DEF prioVars, APrioFifo!vars, PrioIInv, PrioTypeOK, CallKeeps
<1>6. CASE \E p \in Packets : PrioAllocate(p) \/ PrioFree(p)
  BY <1>1, <1>6, KeptIsIInv DEF APrioFifo!Next
<1>7. CASE \E p \in Packets, prio \in Prios :
             PrioPutInRoom(p, prio) \/ PrioPutEvicting(p, prio) \/ PrioPutRefused(p, prio) \/ PrioExchange(p, prio)
  <2>1. PICK p \in Packets, prio \in Prios :
             PrioPutInRoom(p, prio) \/ PrioPutEvicting(p, prio) \/ PrioPutRefused(p, prio) \/ PrioExchange(p, prio)
    BY <1>7
  <2>2. CallKeeps /\ (APrioFifo!Put(p, prio) \/ APrioFifo!Exchange(p, prio))
    BY <1>2, <1>3, <2>1
  <2> QED BY <2>2, KeptIsIInv DEF APrioFifo!Next
<1> QED BY <1>4, <1>5, <1>6, <1>7 DEF PrioNext

\* The count of all packets and the counts of the rings agree, which the get
\* asserts (buf-prio.c:25); no ring is ever overfull (buf-queue.c:36), and the
\* rings hold the queued packets.
THEOREM CountsOfTheQueueAgree == PrioSpec => [](PrioTypeOK /\ CountsAgree)
<1>1. PrioInit => PrioIInv
  BY PrioInitIInv
<1>2. PrioIInv /\ [PrioNext]_prioVars => PrioIInv'
  BY PrioNextStep
<1>3. PrioIInv => PrioTypeOK /\ CountsAgree
  <2> SUFFICES ASSUME PrioIInv PROVE CountsAgree
    BY DEF PrioIInv
  <2> DEFINE C == ContentsOf(queue)
  <2>1. queue \in [Prios -> RingType] /\ TheyHold(C, where, count)
    BY DEF PrioIInv, RingsHold
  <2>2. \A i \in Prios : C[i] = RingContents(queue[i]) /\ Len(C[i]) = queue[i].count
    BY <2>1, ContentsAreSequences
  <2> HIDE DEF C
  <2>3. InUse = UsedOf(C)
    BY <2>2 DEF InUse, UsedOf
  <2>4. \A p \in Packets : where[p] = "queued" =>
           \E i \in Prios : \E j \in 1 .. queue[i].count : RingContents(queue[i])[j] = p
    BY <2>1, <2>2 DEF TheyHold, OnceIn, QueuedIn
  <2>5. count = Cardinality(UsedOf(C)) /\ Cardinality({p \in Packets : where[p] = "queued"}) = count
    BY <2>1 DEF TheyHold, QueuedIn
  <2> QED BY <2>3, <2>4, <2>5 DEF CountsAgree
<1> QED BY <1>1, <1>2, <1>3, PTL DEF PrioSpec

\* What the rings hold together is the bounded queue with priorities: the
\* oldest packet of the highest priority leaves first, and a full queue gives
\* up the oldest of the lowest (buf_prio_queue_put, _get and _exchange).
THEOREM RingsImplementPrioFifo == PrioSpec => ImplementsPrioFifo
<1>1. PrioInit => PrioIInv
  BY PrioInitIInv
<1>2. PrioInit => APrioFifo!Init
  BY DEF PrioInit, APrioFifo!Init, RingInit, RingContents
<1>3. PrioIInv /\ [PrioNext]_prioVars => PrioIInv' /\ [APrioFifo!Next]_(APrioFifo!vars)
  BY PrioNextStep
<1> QED BY <1>1, <1>2, <1>3, PTL DEF PrioSpec, APrioFifo!Spec, ImplementsPrioFifo

-----------------------------------------------------------------------------
(***************************************************************************)
(* The queues of the UDP sockets.                                          *)
(***************************************************************************)
USockType ==
    [queue : [0 .. UdpSize - 1 -> Datagrams \cup {Unset}], head : 0 .. UdpSize - 1,
     count : 0 .. UdpSize, port : Peers \cup {Unset}, ip : Peers \cup {Unset},
     master : UdpTasks \cup {NoHolder}]

\* Two sockets differ in their queues only.
SamePeer(u, v) == u.port = v.port /\ u.ip = v.ip /\ u.master = v.master

\* The places of the queue, from the head on, are different ones, and the next
\* free one is none of them.
LEMMA UdpPlaces ==
    ASSUME NEW h \in 0 .. UdpSize - 1, NEW c \in 0 .. UdpSize
    PROVE  /\ \A i \in 1 .. c : (h + i - 1) % UdpSize \in 0 .. UdpSize - 1
           /\ \A i, j \in 1 .. c : (h + i - 1) % UdpSize = (h + j - 1) % UdpSize => i = j
           /\ c < UdpSize =>
                 LET tail == IF h + c >= UdpSize THEN h + c - UdpSize ELSE h + c
                 IN  /\ tail \in 0 .. UdpSize - 1 /\ (h + (c + 1) - 1) % UdpSize = tail
                     /\ \A i \in 1 .. c : (h + i - 1) % UdpSize # tail
           /\ h % UdpSize = h
           /\ Stepped(h) \in 0 .. UdpSize - 1
           /\ \A i \in 1 .. c - 1 : (Stepped(h) + i - 1) % UdpSize = (h + (i + 1) - 1) % UdpSize
BY UdpConstants DEF Stepped

\* The datagrams of a queue, as a sequence.
LEMMA QueuedSequence ==
    ASSUME NEW u \in USockType
    PROVE  /\ Queued(u) \in Seq(Datagrams \cup {Unset}) /\ Len(Queued(u)) = u.count
           /\ u.count \in Nat /\ (u.count = 0 <=> Queued(u) = <<>>)
           /\ \A i \in 1 .. u.count : Queued(u)[i] = Datagram(u, i)
<1>1. u.count \in Nat /\ u.count \in 0 .. UdpSize /\ u.head \in 0 .. UdpSize - 1
  BY UdpConstants DEF USockType
<1>2. \A i \in 1 .. u.count : Datagram(u, i) \in Datagrams \cup {Unset}
  BY <1>1, UdpPlaces DEF USockType, Datagram
<1>3. Queued(u) \in Seq(Datagrams \cup {Unset}) /\ Len(Queued(u)) = u.count
  BY <1>1, <1>2 DEF Queued
<1>4. \A i \in 1 .. u.count : Queued(u)[i] = Datagram(u, i)
  BY DEF Queued
<1>5. u.count = 0 <=> Queued(u) = <<>>
  BY <1>1, <1>3
<1> QED BY <1>1, <1>3, <1>4, <1>5

\* udp_queue_put appends.
LEMMA UdpPutAppends ==
    ASSUME NEW u \in USockType, u.count < UdpSize, NEW d \in Datagrams
    PROVE  /\ UdpPut(u, d) \in USockType /\ SamePeer(UdpPut(u, d), u)
           /\ Queued(UdpPut(u, d)) = Append(Queued(u), d)
<1> DEFINE h == u.head
           c == u.count
           tail == IF h + c >= UdpSize THEN h + c - UdpSize ELSE h + c
           v == UdpPut(u, d)
<1>1. h \in 0 .. UdpSize - 1 /\ c \in 0 .. UdpSize /\ c < UdpSize /\ c + 1 \in 0 .. UdpSize
  BY UdpConstants DEF USockType
<1>2. tail \in 0 .. UdpSize - 1
  BY <1>1, UdpConstants
<1>3. v = [u EXCEPT !.queue[tail] = d, !.count = @ + 1]
  BY DEF UdpPut
<1> HIDE DEF tail, v
<1>4. /\ v \in USockType /\ SamePeer(v, u) /\ v.head = h /\ v.count = c + 1
      /\ v.queue[tail] = d /\ \A x \in 0 .. UdpSize - 1 : x # tail => v.queue[x] = u.queue[x]
  BY <1>1, <1>2, <1>3 DEF USockType, SamePeer
<1>5. /\ (h + (c + 1) - 1) % UdpSize = tail
      /\ \A i \in 1 .. c : (h + i - 1) % UdpSize \in 0 .. UdpSize - 1 /\ (h + i - 1) % UdpSize # tail
  BY <1>1, UdpPlaces DEF tail
<1>6. Datagram(v, c + 1) = d /\ \A i \in 1 .. c : Datagram(v, i) = Datagram(u, i)
  BY <1>4, <1>5 DEF Datagram
<1>7. c \in Nat /\ Len(Queued(u)) = c /\ Queued(u) = [i \in 1 .. c |-> Datagram(u, i)]
  BY QueuedSequence DEF Queued
<1>8. Queued(v) = [i \in 1 .. c + 1 |-> Datagram(v, i)]
  BY <1>4 DEF Queued
<1> HIDE DEF h, c
<1>9. Append(Queued(u), d) = [i \in 1 .. c + 1 |-> IF i = c + 1 THEN d ELSE Datagram(u, i)]
  BY <1>7, QueuedSequence DEF c
<1>10. \A i \in 1 .. c + 1 : Datagram(v, i) = IF i = c + 1 THEN d ELSE Datagram(u, i)
  <2> SUFFICES ASSUME NEW i \in 1 .. c + 1
               PROVE  Datagram(v, i) = IF i = c + 1 THEN d ELSE Datagram(u, i)
    OBVIOUS
  <2>1. i = c + 1 \/ i \in 1 .. c
    BY <1>7
  <2> QED BY <1>6, <1>7, <2>1
<1> QED BY <1>4, <1>8, <1>9, <1>10 DEF v

\* udp_queue_get takes the head.
LEMMA UdpGetTakesHead ==
    ASSUME NEW u \in USockType, u.count > 0
    PROVE  /\ UdpGet(u) \in USockType /\ SamePeer(UdpGet(u), u)
           /\ Queued(UdpGet(u)) = Tail(Queued(u)) /\ Queued(u) # <<>>
           /\ Datagram(u, 1) = Head(Queued(u))
<1> DEFINE h == u.head
           c == u.count
           v == UdpGet(u)
<1>1. h \in 0 .. UdpSize - 1 /\ c \in 0 .. UdpSize /\ c > 0 /\ c - 1 \in 0 .. UdpSize
  BY UdpConstants DEF USockType
<1>2. v = [u EXCEPT !.queue[h] = Unset, !.head = Stepped(@), !.count = @ - 1]
  BY DEF UdpGet
<1>3. Stepped(h) \in 0 .. UdpSize - 1
  BY <1>1, UdpPlaces
<1> HIDE DEF v
<1>4. /\ v \in USockType /\ SamePeer(v, u) /\ v.head = Stepped(h) /\ v.count = c - 1
      /\ \A x \in 0 .. UdpSize - 1 : x # h => v.queue[x] = u.queue[x]
  BY <1>1, <1>2, <1>3 DEF USockType, SamePeer
<1>5. /\ \A i \in 1 .. c - 1 : (Stepped(h) + i - 1) % UdpSize = (h + (i + 1) - 1) % UdpSize
      /\ \A i \in 1 .. c : (h + i - 1) % UdpSize \in 0 .. UdpSize - 1
      /\ \A i, j \in 1 .. c : (h + i - 1) % UdpSize = (h + j - 1) % UdpSize => i = j
      /\ h % UdpSize = h
  <2> HIDE DEF h, c
  <2>1. \A i \in 1 .. c - 1 : (Stepped(h) + i - 1) % UdpSize = (h + (i + 1) - 1) % UdpSize
    BY <1>1, UdpPlaces
  <2>2. \A i \in 1 .. c : (h + i - 1) % UdpSize \in 0 .. UdpSize - 1
    BY <1>1, UdpPlaces
  <2>3. \A i, j \in 1 .. c : (h + i - 1) % UdpSize = (h + j - 1) % UdpSize => i = j
    BY <1>1, UdpPlaces
  <2>4. h % UdpSize = h
    BY <1>1, UdpPlaces
  <2> QED BY <2>1, <2>2, <2>3, <2>4
<1>6. \A i \in 1 .. c - 1 : (h + (i + 1) - 1) % UdpSize # h
  <2> SUFFICES ASSUME NEW i \in 1 .. c - 1 PROVE (h + (i + 1) - 1) % UdpSize # h
    OBVIOUS
  <2>1. i + 1 \in 1 .. c /\ 1 \in 1 .. c /\ i + 1 # 1 /\ h + 1 - 1 = h
    BY <1>1
  <2>2. (h + (i + 1) - 1) % UdpSize # (h + 1 - 1) % UdpSize
    BY <1>5, <2>1
  <2> QED BY <1>5, <2>1, <2>2
<1>7. \A i \in 1 .. c - 1 : Datagram(v, i) = Datagram(u, i + 1)
  <2> SUFFICES ASSUME NEW i \in 1 .. c - 1 PROVE Datagram(v, i) = Datagram(u, i + 1)
    OBVIOUS
  <2>1. i + 1 \in 1 .. c
    BY <1>1
  <2> QED BY <1>4, <1>5, <1>6, <2>1 DEF Datagram
<1>8. c \in Nat /\ Len(Queued(u)) = c /\ Queued(u) \in Seq(Datagrams \cup {Unset}) /\ Queued(u) # <<>>
      /\ \A i \in 1 .. c : Queued(u)[i] = Datagram(u, i)
  BY <1>1, QueuedSequence
<1>9. Queued(v) = [i \in 1 .. c - 1 |-> Datagram(v, i)]
  BY <1>4 DEF Queued
<1> HIDE DEF h, c
<1> DEFINE line == Queued(u)
<1> HIDE DEF line
<1>10. /\ Tail(line) = [i \in 1 .. c - 1 |-> line[i + 1]] /\ Head(line) = line[1]
  <2>1. line \in Seq(Datagrams \cup {Unset}) /\ Len(line) = c
    BY <1>8 DEF line
  <2>2. /\ Tail(line) \in Seq(Datagrams \cup {Unset}) /\ Len(Tail(line)) = Len(line) - 1
        /\ \A i \in 1 .. Len(Tail(line)) : Tail(line)[i] = line[i + 1]
    BY <1>8, HeadTailProperties DEF line
  <2>3. Head(line) = line[1]
    BY <2>1, <1>8 DEF line
  <2> DEFINE z == Tail(line)
  <2>4. z \in Seq(Datagrams \cup {Unset}) /\ Len(z) = c - 1 /\ \A i \in 1 .. c - 1 : z[i] = line[i + 1]
    BY <2>1, <2>2
  <2> HIDE DEF z
  <2>5. z = [i \in 1 .. c - 1 |-> line[i + 1]]
    BY <2>4
  <2> QED BY <2>3, <2>5 DEF z
<1>11. \A i \in 1 .. c - 1 : line[i + 1] = Datagram(v, i)
  <2> SUFFICES ASSUME NEW i \in 1 .. c - 1 PROVE line[i + 1] = Datagram(v, i)
    OBVIOUS
  <2>1. i + 1 \in 1 .. c
    BY <1>8
  <2> QED BY <1>7, <1>8, <2>1 DEF line
<1>12. line[1] = Datagram(u, 1)
  <2>1. 1 \in 1 .. c
    BY <1>1, <1>8
  <2> QED BY <1>8, <2>1 DEF line
<1> QED BY <1>4, <1>8, <1>9, <1>10, <1>11, <1>12 DEF line, v

\* udp_queue_free leaves nothing.
LEMMA UdpEmptiedIsEmpty ==
    ASSUME NEW u \in USockType
    PROVE  UdpEmptied(u) \in USockType /\ SamePeer(UdpEmptied(u), u) /\ Queued(UdpEmptied(u)) = <<>>
<1> DEFINE v == UdpEmptied(u)
<1>1. (u.head + u.count) % UdpSize \in 0 .. UdpSize - 1
  BY UdpConstants DEF USockType
<1>2. v \in USockType /\ SamePeer(v, u) /\ v.count = 0
  <2>1. [i \in 0 .. UdpSize - 1 |-> Unset] \in [0 .. UdpSize - 1 -> Datagrams \cup {Unset}]
    OBVIOUS
  <2>2. 0 \in 0 .. UdpSize
    BY UdpConstants
  <2> DEFINE e == [i \in 0 .. UdpSize - 1 |-> Unset]
  <2>3. v = [u EXCEPT !.queue = e, !.head = (@ + u.count) % UdpSize, !.count = 0]
    BY DEF UdpEmptied
  <2> HIDE DEF e, v
  <2> QED BY <1>1, <2>1, <2>2, <2>3 DEF USockType, SamePeer, e
<1> HIDE DEF v
<1>3. Queued(v) = <<>>
  BY <1>2, QueuedSequence
<1> QED BY <1>2, <1>3 DEF v

\* The contents of the queues of U, and the datagrams that are queued.
LinesOf(U) == [s \in Sockets |-> Queued(U[s])]
QueuedHere(w) == {d \in Datagrams : w[d] = "queued"}

\* The queues hold the datagrams that are queued, each once.
SocketsHold(U, w) ==
    /\ U \in [Sockets -> USockType]
    /\ w \in [Datagrams -> {"free", "ip", "queued", "task"}]
    /\ OnceIn(LinesOf(U), Sockets, Datagrams \cup {Unset}, QueuedHere(w))

SocketMoves(U, U1, s) ==
    /\ U1 \in [Sockets -> USockType]
    /\ \A x \in Sockets : x # s => U1[x] = U[x]

LEMMA LinesMove ==
    ASSUME NEW U \in [Sockets -> USockType], NEW s \in Sockets, NEW U1, SocketMoves(U, U1, s)
    PROVE  /\ OnlyOneMoves(LinesOf(U), LinesOf(U1), Sockets, Datagrams \cup {Unset}, s)
           /\ LinesOf(U)[s] = Queued(U[s]) /\ LinesOf(U1)[s] = Queued(U1[s])
<1>1. \A x \in Sockets : Queued(U1[x]) \in Seq(Datagrams \cup {Unset})
  BY QueuedSequence DEF SocketMoves
<1>2. \A x \in Sockets : x # s => Queued(U1[x]) = Queued(U[x])
  BY DEF SocketMoves
<1> QED BY <1>1, <1>2 DEF LinesOf, OnlyOneMoves

\* What udp_input, udp_recvfrom and udp_close do to the queue of one socket.
SocketPut(U, s, d) == [U EXCEPT ![s] = UdpPut(@, d)]
SocketGet(U, s)    == [U EXCEPT ![s] = UdpGet(@)]
SocketEmptied(U, s) == [U EXCEPT ![s] = UdpEmptied(@)]

\* udp_queue_put on the queue of s.
LEMMA SocketPutHolds ==
    ASSUME NEW U, NEW w, SocketsHold(U, w), NEW s \in Sockets, NEW d \in Datagrams,
           w[d] # "queued", U[s].count # UdpSize
    PROVE  /\ SocketsHold(SocketPut(U, s, d), [w EXCEPT ![d] = "queued"])
           /\ Queued(SocketPut(U, s, d)[s]) = Append(Queued(U[s]), d)
           /\ SocketMoves(U, SocketPut(U, s, d), s)
           /\ Len(Queued(U[s])) < UdpSize
<1> DEFINE U1 == SocketPut(U, s, d)
           w1 == [w EXCEPT ![d] = "queued"]
<1>1. /\ U \in [Sockets -> USockType] /\ w \in [Datagrams -> {"free", "ip", "queued", "task"}]
      /\ OnceIn(LinesOf(U), Sockets, Datagrams \cup {Unset}, QueuedHere(w))
  BY DEF SocketsHold
<1>2. U[s] \in USockType /\ U[s].count < UdpSize
  BY <1>1, UdpConstants DEF USockType
<1>3. UdpPut(U[s], d) \in USockType /\ Queued(UdpPut(U[s], d)) = Append(Queued(U[s]), d)
  BY <1>2, UdpPutAppends
<1>4. SocketMoves(U, U1, s) /\ U1[s] = UdpPut(U[s], d)
  BY <1>1, <1>3 DEF SocketMoves, SocketPut
<1> HIDE DEF U1
<1>5. /\ OnlyOneMoves(LinesOf(U), LinesOf(U1), Sockets, Datagrams \cup {Unset}, s)
      /\ LinesOf(U)[s] = Queued(U[s]) /\ LinesOf(U1)[s] = Queued(U1[s])
  BY <1>1, <1>4, LinesMove
<1>6. LinesOf(U1)[s] = Append(LinesOf(U)[s], d)
  BY <1>3, <1>4, <1>5
<1>7. QueuedHere(w1) = QueuedHere(w) \cup {d} /\ d \notin QueuedHere(w)
  BY <1>1 DEF QueuedHere
<1>8. OnceIn(LinesOf(U1), Sockets, Datagrams \cup {Unset}, QueuedHere(w) \cup {d})
  <2> DEFINE S == Datagrams \cup {Unset}
  <2>1. d \in S
    OBVIOUS
  <2> HIDE DEF S
  <2>2. /\ OnceIn(LinesOf(U), Sockets, S, QueuedHere(w))
        /\ OnlyOneMoves(LinesOf(U), LinesOf(U1), Sockets, S, s)
    BY <1>1, <1>5 DEF S
  <2>3. OnceIn(LinesOf(U1), Sockets, S, QueuedHere(w) \cup {d})
    BY <1>6, <1>7, <2>1, <2>2, OnceAfterGain
  <2> QED BY <2>3 DEF S
<1>9. U1 \in [Sockets -> USockType] /\ w1 \in [Datagrams -> {"free", "ip", "queued", "task"}]
  BY <1>1, <1>4 DEF SocketMoves
<1>10. SocketsHold(U1, w1)
  BY <1>7, <1>8, <1>9 DEF SocketsHold
<1>11. Len(Queued(U[s])) < UdpSize
  BY <1>2, QueuedSequence
<1> QED BY <1>3, <1>4, <1>10, <1>11 DEF U1, w1

\* udp_queue_get on the queue of s.
LEMMA SocketGetHolds ==
    ASSUME NEW U, NEW w, SocketsHold(U, w), NEW s \in Sockets, U[s].count > 0
    PROVE  /\ SocketsHold(SocketGet(U, s), [w EXCEPT ![Datagram(U[s], 1)] = "task"])
           /\ Queued(SocketGet(U, s)[s]) = Tail(Queued(U[s])) /\ Queued(U[s]) # <<>>
           /\ Datagram(U[s], 1) = Head(Queued(U[s]))
           /\ Datagram(U[s], 1) \in Datagrams /\ w[Datagram(U[s], 1)] = "queued"
           /\ SocketMoves(U, SocketGet(U, s), s)
<1> DEFINE U1 == SocketGet(U, s)
           d  == Datagram(U[s], 1)
           w1 == [w EXCEPT ![d] = "task"]
<1>1. /\ U \in [Sockets -> USockType] /\ w \in [Datagrams -> {"free", "ip", "queued", "task"}]
      /\ OnceIn(LinesOf(U), Sockets, Datagrams \cup {Unset}, QueuedHere(w))
  BY DEF SocketsHold
<1>2. U[s] \in USockType
  BY <1>1
<1>3. /\ UdpGet(U[s]) \in USockType /\ Queued(UdpGet(U[s])) = Tail(Queued(U[s]))
      /\ Queued(U[s]) # <<>> /\ d = Head(Queued(U[s]))
  BY <1>2, UdpGetTakesHead
<1>4. SocketMoves(U, U1, s) /\ U1[s] = UdpGet(U[s])
  BY <1>1, <1>3 DEF SocketMoves, SocketGet
<1> HIDE DEF U1, d
<1>5. /\ OnlyOneMoves(LinesOf(U), LinesOf(U1), Sockets, Datagrams \cup {Unset}, s)
      /\ LinesOf(U)[s] = Queued(U[s]) /\ LinesOf(U1)[s] = Queued(U1[s])
  BY <1>1, <1>4, LinesMove
<1>6. LinesOf(U1)[s] = Tail(LinesOf(U)[s]) /\ LinesOf(U)[s] # <<>> /\ Head(LinesOf(U)[s]) = d
  BY <1>3, <1>4, <1>5
<1>7. OnceIn(LinesOf(U1), Sockets, Datagrams \cup {Unset}, QueuedHere(w) \ {d}) /\ d \in QueuedHere(w)
  <2> DEFINE S == Datagrams \cup {Unset}
  <2> HIDE DEF S
  <2>1. /\ OnceIn(LinesOf(U), Sockets, S, QueuedHere(w))
        /\ OnlyOneMoves(LinesOf(U), LinesOf(U1), Sockets, S, s)
    BY <1>1, <1>5 DEF S
  <2>2. OnceIn(LinesOf(U1), Sockets, S, QueuedHere(w) \ {Head(LinesOf(U)[s])}) /\ Head(LinesOf(U)[s]) \in QueuedHere(w)
    BY <1>6, <2>1, OnceAfterLoss
  <2> QED BY <1>6, <2>2 DEF S
<1>8. d \in Datagrams /\ w[d] = "queued"
  BY <1>7 DEF QueuedHere
<1>9. QueuedHere(w1) = QueuedHere(w) \ {d} /\ w1 \in [Datagrams -> {"free", "ip", "queued", "task"}]
  BY <1>1, <1>8 DEF QueuedHere
<1>10. U1 \in [Sockets -> USockType]
  BY <1>4 DEF SocketMoves
<1>11. SocketsHold(U1, w1)
  BY <1>7, <1>9, <1>10 DEF SocketsHold
<1> QED BY <1>3, <1>4, <1>8, <1>11 DEF U1, w1, d

\* udp_queue_free on the queue of s.
LEMMA SocketEmptiedHolds ==
    ASSUME NEW U, NEW w, SocketsHold(U, w), NEW s \in Sockets,
           NEW w1, w1 = [d \in Datagrams |-> IF d \in ToSet(Queued(U[s])) THEN "free" ELSE w[d]]
    PROVE  /\ SocketsHold(SocketEmptied(U, s), w1)
           /\ Queued(SocketEmptied(U, s)[s]) = <<>>
           /\ SocketMoves(U, SocketEmptied(U, s), s)
           /\ ToSet(Queued(U[s])) \subseteq QueuedHere(w)
<1> DEFINE U1 == SocketEmptied(U, s)
           R  == ToSet(Queued(U[s]))
<1>1. /\ U \in [Sockets -> USockType] /\ w \in [Datagrams -> {"free", "ip", "queued", "task"}]
      /\ OnceIn(LinesOf(U), Sockets, Datagrams \cup {Unset}, QueuedHere(w))
  BY DEF SocketsHold
<1>2. U[s] \in USockType
  BY <1>1
<1>3. UdpEmptied(U[s]) \in USockType /\ Queued(UdpEmptied(U[s])) = <<>>
  BY <1>2, UdpEmptiedIsEmpty
<1>4. SocketMoves(U, U1, s) /\ U1[s] = UdpEmptied(U[s])
  BY <1>1, <1>3 DEF SocketMoves, SocketEmptied
<1> HIDE DEF U1
<1>5. /\ OnlyOneMoves(LinesOf(U), LinesOf(U1), Sockets, Datagrams \cup {Unset}, s)
      /\ LinesOf(U)[s] = Queued(U[s]) /\ LinesOf(U1)[s] = Queued(U1[s])
  BY <1>1, <1>4, LinesMove
<1>6. AreThoseOf(R, LinesOf(U)[s])
  <2>1. Queued(U[s]) \in Seq(Datagrams \cup {Unset})
    BY <1>2, QueuedSequence
  <2>2. DOMAIN Queued(U[s]) = 1 .. Len(Queued(U[s]))
    BY <2>1
  <2> QED BY <1>5, <2>2 DEF ToSet, AreThoseOf
<1> HIDE DEF R
<1>7. OnceIn(LinesOf(U1), Sockets, Datagrams \cup {Unset}, QueuedHere(w) \ R) /\ R \subseteq QueuedHere(w)
  <2> DEFINE S == Datagrams \cup {Unset}
  <2> HIDE DEF S
  <2>1. /\ OnceIn(LinesOf(U), Sockets, S, QueuedHere(w))
        /\ OnlyOneMoves(LinesOf(U), LinesOf(U1), Sockets, S, s)
    BY <1>1, <1>5 DEF S
  <2>2. LinesOf(U1)[s] = <<>>
    BY <1>3, <1>4, <1>5
  <2>3. OnceIn(LinesOf(U1), Sockets, S, QueuedHere(w) \ R) /\ R \subseteq QueuedHere(w)
    BY <1>6, <2>1, <2>2, OnceAfterClean
  <2> QED BY <2>3 DEF S
<1>8. w1 = [d \in Datagrams |-> IF d \in R THEN "free" ELSE w[d]]
  BY DEF R
<1>9. QueuedHere(w1) = QueuedHere(w) \ R /\ w1 \in [Datagrams -> {"free", "ip", "queued", "task"}]
  BY <1>1, <1>8 DEF QueuedHere
<1>10. U1 \in [Sockets -> USockType]
  BY <1>4 DEF SocketMoves
<1>11. SocketsHold(U1, w1)
  BY <1>7, <1>9, <1>10 DEF SocketsHold
<1> QED BY <1>3, <1>4, <1>7, <1>11 DEF U1, R

\* A change of a socket that leaves its queue alone.
LEMMA SocketKeptHolds ==
    ASSUME NEW U, NEW w, SocketsHold(U, w), NEW s \in Sockets,
           NEW U1, SocketMoves(U, U1, s),
           U1[s].queue = U[s].queue, U1[s].head = U[s].head, U1[s].count = U[s].count
    PROVE  SocketsHold(U1, w) /\ \A x \in Sockets : Queued(U1[x]) = Queued(U[x])
<1>1. \A x \in Sockets : Queued(U1[x]) = Queued(U[x])
  BY DEF SocketMoves, Queued, Datagram
<1>2. LinesOf(U1) = LinesOf(U)
  BY <1>1 DEF LinesOf
<1> QED BY <1>1, <1>2 DEF SocketsHold, SocketMoves

\* A datagram that changes hands outside of the queues.
LEMMA BufferMovesHolds ==
    ASSUME NEW U, NEW w, SocketsHold(U, w), NEW d \in Datagrams, w[d] # "queued",
           NEW z \in {"free", "ip", "task"}
    PROVE  SocketsHold(U, [w EXCEPT ![d] = z])
<1>1. /\ QueuedHere([w EXCEPT ![d] = z]) = QueuedHere(w)
      /\ [w EXCEPT ![d] = z] \in [Datagrams -> {"free", "ip", "queued", "task"}]
  BY DEF SocketsHold, QueuedHere
<1> QED BY <1>1 DEF SocketsHold

-----------------------------------------------------------------------------
\* The sockets of a list, each linked once.
LinkedOnce(L) ==
    /\ L \in Seq(Sockets)
    /\ \A i, j \in DOMAIN L : L[i] = L[j] => i = j

\* udp_list_remove takes one socket out.
LEMMA UnlinkedIsLinkedOnce ==
    ASSUME NEW L, LinkedOnce(L), NEW i \in DOMAIN L
    PROVE  LinkedOnce(RemoveAt(L, i)) /\ ToSet(RemoveAt(L, i)) = ToSet(L) \ {L[i]}
<1> DEFINE n == Len(L)
           a == SubSeq(L, 1, i - 1)
           b == SubSeq(L, i + 1, n)
           r == a \o b
<1>1. /\ L \in Seq(Sockets) /\ n \in Nat /\ DOMAIN L = 1 .. n /\ i \in 1 .. n
      /\ \A j \in 1 .. n : L[j] \in Sockets
  BY DEF LinkedOnce
<1>2. a \in Seq(Sockets) /\ Len(a) = i - 1 /\ \A j \in 1 .. i - 1 : a[j] = L[j]
  <2>1. \A j \in 1 .. i - 1 : L[j] \in Sockets
    BY <1>1
  <2>2. /\ a \in Seq(Sockets) /\ Len(a) = IF 1 <= i - 1 THEN i - 1 - 1 + 1 ELSE 0
        /\ \A j \in 1 .. i - 1 - 1 + 1 : a[j] = L[1 + j - 1]
    BY <1>1, <2>1, SubSeqProperties
  <2> HIDE DEF a
  <2> QED BY <1>1, <2>2
<1>3. b \in Seq(Sockets) /\ Len(b) = n - i /\ \A j \in 1 .. n - i : b[j] = L[i + j]
  <2>1. \A j \in i + 1 .. n : L[j] \in Sockets
    BY <1>1
  <2>2. /\ b \in Seq(Sockets) /\ Len(b) = IF i + 1 <= n THEN n - (i + 1) + 1 ELSE 0
        /\ \A j \in 1 .. n - (i + 1) + 1 : b[j] = L[(i + 1) + j - 1]
    BY <1>1, <2>1, SubSeqProperties
  <2> HIDE DEF b
  <2>3. n - (i + 1) + 1 = n - i /\ Len(b) = n - i
    BY <1>1, <2>2
  <2>4. \A j \in 1 .. n - i : b[j] = L[(i + 1) + j - 1] /\ (i + 1) + j - 1 = i + j
    BY <1>1, <2>2, <2>3
  <2> QED BY <2>2, <2>3, <2>4
<1>4. RemoveAt(L, i) = r
  BY DEF RemoveAt
<1> HIDE DEF a, b
<1>5. /\ r \in Seq(Sockets) /\ Len(r) = Len(a) + Len(b)
      /\ \A j \in 1 .. Len(a) + Len(b) : r[j] = IF j <= Len(a) THEN a[j] ELSE b[j - Len(a)]
  BY <1>2, <1>3, ConcatProperties
<1> HIDE DEF r, n
<1>6. DOMAIN r = 1 .. n - 1 /\ \A j \in 1 .. n - 1 : r[j] = IF j < i THEN L[j] ELSE L[j + 1]
  <2>1. Len(r) = n - 1 /\ DOMAIN r = 1 .. n - 1
    BY <1>1, <1>2, <1>3, <1>5
  <2>2. ASSUME NEW j \in 1 .. n - 1, j < i PROVE r[j] = L[j]
    BY <1>1, <1>2, <1>3, <1>5, <2>2
  <2>3. ASSUME NEW j \in 1 .. n - 1, ~ j < i PROVE r[j] = L[j + 1]
    <3>1. j - (i - 1) \in 1 .. n - i /\ i + (j - (i - 1)) = j + 1
      BY <1>1, <2>3
    <3>2. b[j - (i - 1)] = L[j + 1]
      BY <1>3, <3>1
    <3>3. r[j] = b[j - (i - 1)]
      BY <1>1, <1>2, <1>3, <1>5, <2>3
    <3> QED BY <3>2, <3>3
  <2> QED BY <2>1, <2>2, <2>3
<1>7. \A j, k \in 1 .. n : L[j] = L[k] => j = k
  BY <1>1 DEF LinkedOnce
<1>8. \A j, k \in 1 .. n - 1 : r[j] = r[k] => j = k
  BY <1>1, <1>6, <1>7
<1>9. ASSUME NEW x PROVE x \in ToSet(r) <=> x \in ToSet(L) /\ x # L[i]
  <2>1. ASSUME x \in ToSet(r) PROVE x \in ToSet(L) /\ x # L[i]
    <3>1. PICK j \in 1 .. n - 1 : r[j] = x
      BY <1>6, <2>1 DEF ToSet
    <3> QED BY <1>1, <1>6, <1>7, <3>1 DEF ToSet
  <2>2. ASSUME x \in ToSet(L), x # L[i] PROVE x \in ToSet(r)
    <3>1. PICK j \in 1 .. n : L[j] = x
      BY <1>1, <2>2 DEF ToSet
    <3>2. CASE j < i
      <4>1. j \in 1 .. n - 1 /\ r[j] = x
        BY <1>1, <1>6, <3>1, <3>2
      <4> QED BY <1>6, <4>1 DEF ToSet
    <3>3. CASE j > i
      <4>1. j - 1 \in 1 .. n - 1 /\ ~ j - 1 < i /\ (j - 1) + 1 = j
        BY <1>1, <3>3
      <4>2. r[j - 1] = x
        BY <1>6, <3>1, <4>1
      <4> QED BY <1>6, <4>1, <4>2 DEF ToSet
    <3> QED BY <1>1, <2>2, <3>1, <3>2, <3>3
  <2> QED BY <2>1, <2>2
<1> QED BY <1>4, <1>5, <1>6, <1>8, <1>9 DEF LinkedOnce

\* udp_socket puts one in front.
LEMMA LinkedInFront ==
    ASSUME NEW L, LinkedOnce(L), NEW s \in Sockets, s \notin ToSet(L)
    PROVE  LinkedOnce(<<s>> \o L) /\ ToSet(<<s>> \o L) = ToSet(L) \cup {s}
<1> DEFINE n == Len(L)
           r == <<s>> \o L
<1>1. L \in Seq(Sockets) /\ n \in Nat /\ DOMAIN L = 1 .. n /\ <<s>> \in Seq(Sockets) /\ Len(<<s>>) = 1
  BY DEF LinkedOnce
<1>2. /\ r \in Seq(Sockets) /\ Len(r) = Len(<<s>>) + Len(L)
      /\ \A j \in 1 .. Len(<<s>>) + Len(L) : r[j] = IF j <= Len(<<s>>) THEN <<s>>[j] ELSE L[j - Len(<<s>>)]
  BY <1>1, ConcatProperties
<1> HIDE DEF r, n
<1>3. DOMAIN r = 1 .. n + 1 /\ r[1] = s /\ \A j \in 1 .. n : r[j + 1] = L[j]
  BY <1>1, <1>2 DEF n
<1>4. \A j \in 1 .. n + 1 : j = 1 \/ (j - 1 \in 1 .. n /\ r[j] = L[j - 1])
  BY <1>1, <1>3
<1>5. \A j \in 1 .. n : L[j] # s /\ \A k \in 1 .. n : L[j] = L[k] => j = k
  BY <1>1 DEF LinkedOnce, ToSet
<1>6. \A j, k \in 1 .. n + 1 : r[j] = r[k] => j = k
  BY <1>1, <1>3, <1>4, <1>5
<1>7. ASSUME NEW x PROVE x \in ToSet(r) <=> x \in ToSet(L) \/ x = s
  <2>1. x \in ToSet(r) <=> \E j \in 1 .. n + 1 : r[j] = x
    BY <1>3 DEF ToSet
  <2>2. x \in ToSet(L) <=> \E j \in 1 .. n : L[j] = x
    BY <1>1 DEF ToSet
  <2>3. 1 \in 1 .. n + 1 /\ \A j \in 1 .. n : j + 1 \in 1 .. n + 1
    BY <1>1
  <2> QED BY <1>3, <1>4, <2>1, <2>2, <2>3
<1> QED BY <1>2, <1>3, <1>6, <1>7 DEF LinkedOnce, r

\* udp_input finds a socket that hears the peer, if there is one.
LEMMA FoundHears ==
    ASSUME LinkedOnce(ulist), NEW p, \E s \in ToSet(ulist) : Hears(s, p)
    PROVE  ulist[Found(p)] \in ToSet(ulist)
<1>1. DOMAIN ulist = 1 .. Len(ulist) /\ Len(ulist) \in Nat
  BY DEF LinkedOnce
<1> DEFINE H == {i \in DOMAIN ulist : Hears(ulist[i], p)}
<1>2. H \subseteq 0 .. Len(ulist) /\ H # {}
  BY <1>1 DEF ToSet
<1>3. \E i \in H : \A j \in H : i <= j
  <2> HIDE DEF H
  <2>1. Min(H) \in H /\ \A y \in H : Min(H) <= y
    BY <1>1, <1>2, Least
  <2> QED BY <2>1
<1>4. \E i \in DOMAIN ulist : Hears(ulist[i], p) /\ \A j \in 1 .. i - 1 : ~ Hears(ulist[j], p)
  <2>1. PICK i \in H : \A j \in H : i <= j
    BY <1>3
  <2>2. ASSUME NEW j \in 1 .. i - 1 PROVE ~ Hears(ulist[j], p)
    BY <1>1, <2>1, <2>2
  <2> QED BY <2>1, <2>2
<1>5. Found(p) \in DOMAIN ulist
  BY <1>4 DEF Found
<1> QED BY <1>5 DEF ToSet

-----------------------------------------------------------------------------
TaskAt == {Resting} \cup
          [at : {"opening", "connecting", "closing", "asleep", "woken"}, sock : Sockets]

\* The ip task has found a socket, which stays in the list while it holds
\* ip->lock; no other datagram is with it.
IpFinds(i, w, L) ==
    \E s \in Sockets, d \in Datagrams :
       /\ i = [at |-> "found", sock |-> s, datagram |-> d]
       /\ s \in ToSet(L)
       /\ w[d] = "ip"

IpHolds(i, m, w, L) ==
    \/ i = Resting /\ m = NoHolder
    \/ IpFinds(i, w, L) /\ m = "ip"

\* One task opens a socket that is not in the list, and a socket that holds
\* datagrams is in the list or about to be emptied.
TasksHold(T, U, L) ==
    /\ T \in [UdpTasks -> TaskAt]
    /\ \A s \in Sockets : \A t, v \in UdpTasks :
          T[t] = [at |-> "opening", sock |-> s] =>
             /\ s \notin ToSet(L)
             /\ T[v] = [at |-> "opening", sock |-> s] => v = t
    /\ \A s \in Sockets : U[s].count > 0 =>
          s \in ToSet(L) \/ \E t \in UdpTasks : T[t] = [at |-> "closing", sock |-> s]

UdpIInv ==
    /\ SocketsHold(usock, buffer)
    /\ LinkedOnce(ulist)
    /\ IpHolds(ipAt, ipLock, buffer, ulist)
    /\ TasksHold(utask, usock, ulist)

\* What each queue does in a step.
QueuesStep == \A s \in Sockets : AQueue(s)!Next

LEMMA IdleQueues ==
    ASSUME NothingHanded, \A s \in Sockets : Queued(usock'[s]) = Queued(usock[s])
    PROVE  QueuesStep
<1> SUFFICES ASSUME NEW s \in Sockets PROVE AQueue(s)!CallIdle
  BY DEF QueuesStep, AQueue!Next
<1>1. handed'[s] = <<>>
  BY DEF NothingHanded
<1> QED BY <1>1 DEF AQueue!CallIdle

\* One queue moves, the others rest.
LEMMA OneQueueMoves ==
    ASSUME NEW s \in Sockets, SocketMoves(usock, usock', s),
           NEW z, handed' = [x \in Sockets |-> IF x = s THEN z ELSE <<>>],
           AQueue(s)!Next
    PROVE  QueuesStep
<1> SUFFICES ASSUME NEW x \in Sockets, x # s PROVE AQueue(x)!CallIdle
  BY DEF QueuesStep, AQueue!Next
<1>1. handed'[x] = <<>> /\ usock'[x] = usock[x]
  BY DEF SocketMoves
<1> QED BY <1>1 DEF AQueue!CallIdle

\* A task takes a step, outside of opening and closing.
LEMMA TaskMoves ==
    ASSUME NEW T, NEW U, NEW L, TasksHold(T, U, L),
           NEW t \in UdpTasks, \A s : T[t] # [at |-> "closing", sock |-> s],
           NEW v \in TaskAt, \A s : v # [at |-> "opening", sock |-> s]
    PROVE  TasksHold([T EXCEPT ![t] = v], U, L)
<1> DEFINE T1 == [T EXCEPT ![t] = v]
<1>1. T1 \in [UdpTasks -> TaskAt] /\ T1[t] = v /\ \A x \in UdpTasks : x # t => T1[x] = T[x]
  BY DEF TasksHold
<1> HIDE DEF T1
<1>2. ASSUME NEW s \in Sockets, NEW x \in UdpTasks, NEW y \in UdpTasks,
             T1[x] = [at |-> "opening", sock |-> s]
      PROVE  s \notin ToSet(L) /\ (T1[y] = [at |-> "opening", sock |-> s] => y = x)
  <2>1. x # t /\ T[x] = [at |-> "opening", sock |-> s]
    BY <1>1, <1>2
  <2> QED BY <1>1, <2>1 DEF TasksHold
<1>3. ASSUME NEW s \in Sockets, U[s].count > 0
      PROVE  s \in ToSet(L) \/ \E x \in UdpTasks : T1[x] = [at |-> "closing", sock |-> s]
  BY <1>1, <1>3 DEF TasksHold
<1>4. TasksHold(T1, U, L)
  BY <1>1, <1>2, <1>3 DEF TasksHold
<1> QED BY <1>4 DEF T1

\* Only a listed socket's queue grows.
LEMMA CountsMove ==
    ASSUME NEW T, NEW U, NEW L, TasksHold(T, U, L), NEW U1, NEW s \in Sockets,
           \A x \in Sockets : x # s => U1[x] = U[x],
           (U1[s].count > 0 => U[s].count > 0) \/ s \in ToSet(L)
    PROVE  TasksHold(T, U1, L)
BY DEF TasksHold

\* The ip task keeps what it has found.
LEMMA IpKeeps ==
    ASSUME NEW i, NEW m, NEW w, NEW L, IpHolds(i, m, w, L),
           NEW w1, \A d \in Datagrams : w[d] = "ip" => w1[d] = "ip"
    PROVE  IpHolds(i, m, w1, L)
BY DEF IpHolds, IpFinds

\* It has found nothing when nobody holds ip->lock.
LEMMA IpAway ==
    ASSUME NEW i, NEW w, NEW L, IpHolds(i, NoHolder, w, L), NEW w1, NEW L1
    PROVE  i = Resting /\ IpHolds(i, NoHolder, w1, L1)
BY UdpConstants DEF IpHolds

-----------------------------------------------------------------------------
\* Each action keeps the invariant, and each queue takes a step of its FIFO or
\* rests.
LEMMA UdpFreeSteps ==
    ASSUME UdpIInv, NEW d \in Datagrams, UdpFree(d)
    PROVE  UdpIInv' /\ QueuesStep
<1>1. /\ SocketsHold(usock, buffer) /\ LinkedOnce(ulist)
      /\ IpHolds(ipAt, ipLock, buffer, ulist) /\ TasksHold(utask, usock, ulist)
  BY DEF UdpIInv
<1>2. /\ buffer[d] = "task" /\ buffer' = [buffer EXCEPT ![d] = "free"] /\ NothingHanded
      /\ usock' = usock /\ ulist' = ulist /\ ipLock' = ipLock /\ ipAt' = ipAt /\ utask' = utask
  BY DEF UdpFree
<1>3. SocketsHold(usock', buffer')
  <2>1. SocketsHold(usock, [buffer EXCEPT ![d] = "free"])
    BY <1>1, <1>2, BufferMovesHolds
  <2> QED BY <1>2, <2>1
<1>4. IpHolds(ipAt', ipLock', buffer', ulist')
  <2>1. \A x \in Datagrams : buffer[x] = "ip" => buffer'[x] = "ip"
    BY <1>1, <1>2 DEF SocketsHold
  <2>2. IpHolds(ipAt, ipLock, buffer', ulist)
    BY <1>1, <2>1, IpKeeps
  <2> QED BY <1>2, <2>2
<1>5. UdpIInv'
  BY <1>1, <1>2, <1>3, <1>4 DEF UdpIInv
<1>6. QueuesStep
  BY <1>2, IdleQueues
<1> QED BY <1>5, <1>6

LEMMA UdpInputSteps ==
    ASSUME UdpIInv, NEW d \in Datagrams, NEW p \in Peers, UdpInput(d, p)
    PROVE  UdpIInv' /\ QueuesStep
<1> DEFINE s == ulist[Found(p)]
<1>1. /\ SocketsHold(usock, buffer) /\ LinkedOnce(ulist)
      /\ IpHolds(ipAt, ipLock, buffer, ulist) /\ TasksHold(utask, usock, ulist)
  BY DEF UdpIInv
<1>2. /\ buffer[d] = "free" /\ buffer' = [buffer EXCEPT ![d] = "ip"] /\ NothingHanded
      /\ \E x \in ToSet(ulist) : Hears(x, p)
      /\ ipLock' = "ip" /\ ipAt' = [at |-> "found", sock |-> s, datagram |-> d]
      /\ usock' = usock /\ ulist' = ulist /\ utask' = utask
  BY DEF UdpInput
<1>3. s \in ToSet(ulist)
  BY <1>1, <1>2, FoundHears
<1> HIDE DEF s
<1>4. ToSet(ulist) \subseteq Sockets
  BY <1>1 DEF LinkedOnce, ToSet
<1>5. SocketsHold(usock', buffer')
  <2>1. SocketsHold(usock, [buffer EXCEPT ![d] = "ip"])
    BY <1>1, <1>2, BufferMovesHolds
  <2> QED BY <1>2, <2>1
<1>6. IpHolds(ipAt', ipLock', buffer', ulist')
  <2>1. buffer'[d] = "ip"
    BY <1>1, <1>2 DEF SocketsHold
  <2>2. IpFinds(ipAt', buffer', ulist')
    BY <1>2, <1>3, <1>4, <2>1 DEF IpFinds
  <2> QED BY <1>2, <2>2 DEF IpHolds
<1>7. UdpIInv'
  BY <1>1, <1>2, <1>5, <1>6 DEF UdpIInv
<1>8. QueuesStep
  BY <1>2, IdleQueues
<1> QED BY <1>7, <1>8

LEMMA UdpDeliverSteps ==
    ASSUME UdpIInv, UdpDeliver
    PROVE  UdpIInv' /\ QueuesStep
<1>1. /\ SocketsHold(usock, buffer) /\ LinkedOnce(ulist)
      /\ IpHolds(ipAt, ipLock, buffer, ulist) /\ TasksHold(utask, usock, ulist)
  BY DEF UdpIInv
<1>2. PICK s \in Sockets, d \in Datagrams :
         /\ ipAt = [at |-> "found", sock |-> s, datagram |-> d]
         /\ s \in ToSet(ulist) /\ buffer[d] = "ip"
  BY <1>1 DEF UdpDeliver, IpHolds, IpFinds
<1>3. s = ipAt.sock /\ d = ipAt.datagram
  BY <1>2
<1>4. /\ ipAt' = Resting /\ ipLock' = NoHolder /\ NothingHanded /\ ulist' = ulist
      /\ usock[s].count = UdpSize =>
            buffer' = [buffer EXCEPT ![d] = "free"] /\ usock' = usock /\ utask' = utask
      /\ usock[s].count # UdpSize =>
            /\ usock' = [usock EXCEPT ![s] = UdpPut(@, d)]
            /\ buffer' = [buffer EXCEPT ![d] = "queued"]
            /\ utask' = [t \in UdpTasks |->
                          IF utask[t] = [at |-> "asleep", sock |-> s]
                          THEN [at |-> "woken", sock |-> s] ELSE utask[t]]
  BY <1>3 DEF UdpDeliver, In
<1>5. IpHolds(ipAt', ipLock', buffer', ulist')
  BY <1>4 DEF IpHolds
<1>6. CASE usock[s].count = UdpSize
  <2>1. SocketsHold(usock, [buffer EXCEPT ![d] = "free"])
    BY <1>1, <1>2, BufferMovesHolds
  <2>2. UdpIInv'
    BY <1>1, <1>4, <1>5, <1>6, <2>1 DEF UdpIInv
  <2>3. QueuesStep
    BY <1>4, <1>6, IdleQueues
  <2> QED BY <2>2, <2>3
<1>7. CASE usock[s].count # UdpSize
  <2>1. /\ usock' = SocketPut(usock, s, d) /\ buffer' = [buffer EXCEPT ![d] = "queued"]
    BY <1>4, <1>7 DEF SocketPut
  <2>2. /\ SocketsHold(SocketPut(usock, s, d), [buffer EXCEPT ![d] = "queued"])
        /\ Queued(SocketPut(usock, s, d)[s]) = Append(Queued(usock[s]), d)
        /\ SocketMoves(usock, SocketPut(usock, s, d), s)
        /\ Len(Queued(usock[s])) < UdpSize
    <3>1. buffer[d] # "queued"
      BY <1>2
    <3> QED BY <1>1, <1>7, <3>1, SocketPutHolds
  <2>3. /\ SocketsHold(usock', buffer') /\ Queued(usock'[s]) = Append(Queued(usock[s]), d)
        /\ SocketMoves(usock, usock', s)
    BY <2>1, <2>2
  <2> DEFINE T1 == [t \in UdpTasks |->
                      IF utask[t] = [at |-> "asleep", sock |-> s]
                      THEN [at |-> "woken", sock |-> s] ELSE utask[t]]
  <2>4. TasksHold(utask', usock, ulist)
    <3>1. utask' = T1
      BY <1>4, <1>7
    <3>2. utask \in [UdpTasks -> TaskAt]
      BY <1>1 DEF TasksHold
    <3>3. [at |-> "woken", sock |-> s] \in TaskAt
      BY DEF TaskAt
    <3>4. T1 \in [UdpTasks -> TaskAt]
      BY <3>2, <3>3
    <3>5. /\ \A x \in Sockets : \A t \in UdpTasks :
                T1[t] = [at |-> "opening", sock |-> x] <=> utask[t] = [at |-> "opening", sock |-> x]
          /\ \A x \in Sockets : \A t \in UdpTasks :
                T1[t] = [at |-> "closing", sock |-> x] <=> utask[t] = [at |-> "closing", sock |-> x]
      OBVIOUS
    <3> HIDE DEF T1
    <3>6. TasksHold(T1, usock, ulist)
      BY <1>1, <3>4, <3>5 DEF TasksHold
    <3> QED BY <3>1, <3>6
  <2>5. TasksHold(utask', usock', ulist)
    BY <1>2, <2>3, <2>4, CountsMove DEF SocketMoves
  <2>6. UdpIInv'
    BY <1>1, <1>4, <1>5, <2>3, <2>5 DEF UdpIInv
  <2>7. AQueue(s)!Next
    <3>1. handed'[s] = <<>>
      BY <1>4 DEF NothingHanded
    <3>2. AQueue(s)!Put(d)
      BY <2>2, <2>3, <3>1 DEF AQueue!Put
    <3> QED BY <3>2 DEF AQueue!Next
  <2>8. QueuesStep
    <3>1. handed' = [x \in Sockets |-> IF x = s THEN <<>> ELSE <<>>]
      BY <1>4 DEF NothingHanded
    <3> QED BY <2>3, <2>7, <3>1, OneQueueMoves
  <2> QED BY <2>6, <2>8
<1> QED BY <1>6, <1>7

\* The invariant, and that of the actions of the tasks, which leave the ip task
\* alone.
LEMMA TaskKeepsInvariant ==
    ASSUME UdpIInv, SocketsHold(usock', buffer'), TasksHold(utask', usock', ulist'),
           LinkedOnce(ulist'), ipLock' = ipLock, ipAt' = ipAt,
           \/ ulist' = ulist /\ \A d \in Datagrams : buffer[d] = "ip" => buffer'[d] = "ip"
           \/ ipLock = NoHolder
    PROVE  UdpIInv'
<1>1. IpHolds(ipAt, ipLock, buffer, ulist)
  BY DEF UdpIInv
<1>2. CASE ulist' = ulist /\ \A d \in Datagrams : buffer[d] = "ip" => buffer'[d] = "ip"
  <2>1. IpHolds(ipAt, ipLock, buffer', ulist)
    BY <1>1, <1>2, IpKeeps
  <2> QED BY <1>2, <2>1 DEF UdpIInv
<1>3. CASE ipLock = NoHolder
  <2>1. IpHolds(ipAt, NoHolder, buffer', ulist')
    BY <1>1, <1>3, IpAway
  <2> QED BY <1>3, <2>1 DEF UdpIInv
<1> QED BY <1>2, <1>3

\* A task takes or leaves the lock of a socket, or sets its peer.
LEMMA SocketKept ==
    ASSUME UdpIInv, NEW s \in Sockets, NEW u, usock' = [usock EXCEPT ![s] = u],
           u \in USockType, u.queue = usock[s].queue, u.head = usock[s].head,
           u.count = usock[s].count, buffer' = buffer, NothingHanded
    PROVE  /\ SocketsHold(usock', buffer') /\ QueuesStep
           /\ \A x \in Sockets : x # s => usock'[x] = usock[x]
           /\ usock'[s].count = usock[s].count
<1>1. SocketsHold(usock, buffer) /\ usock \in [Sockets -> USockType]
  BY DEF UdpIInv, SocketsHold
<1>2. SocketMoves(usock, usock', s) /\ usock'[s] = u
  BY <1>1 DEF SocketMoves
<1>3. SocketsHold(usock', buffer) /\ \A x \in Sockets : Queued(usock'[x]) = Queued(usock[x])
  <2>1. /\ usock'[s].queue = usock[s].queue /\ usock'[s].head = usock[s].head
        /\ usock'[s].count = usock[s].count
    BY <1>2
  <2> DEFINE U1 == usock'
  <2>2. SocketMoves(usock, U1, s)
    BY <1>2
  <2>3. U1[s].queue = usock[s].queue /\ U1[s].head = usock[s].head /\ U1[s].count = usock[s].count
    BY <2>1
  <2> HIDE DEF U1
  <2>4. SocketsHold(U1, buffer) /\ \A x \in Sockets : Queued(U1[x]) = Queued(usock[x])
    BY <1>1, <2>2, <2>3, SocketKeptHolds
  <2> QED BY <2>4 DEF U1
<1>4. QueuesStep
  BY <1>3, IdleQueues
<1> QED BY <1>2, <1>3, <1>4 DEF SocketMoves

LEMMA UdpSocketSteps ==
    ASSUME UdpIInv, NEW t \in UdpTasks, NEW s \in Sockets, UdpSocket(t, s)
    PROVE  UdpIInv' /\ QueuesStep
<1> DEFINE u == [usock[s] EXCEPT !.master = t]
           v == [at |-> "opening", sock |-> s]
<1>1. /\ usock \in [Sockets -> USockType] /\ LinkedOnce(ulist) /\ TasksHold(utask, usock, ulist)
      /\ utask \in [UdpTasks -> TaskAt]
  BY DEF UdpIInv, SocketsHold, TasksHold
<1>2. /\ utask[t] = Resting /\ s \notin ToSet(ulist)
      /\ \A x \in UdpTasks : ~ ("sock" \in DOMAIN utask[x] /\ utask[x].sock = s)
      /\ utask' = [utask EXCEPT ![t] = v] /\ NothingHanded
      /\ ulist' = ulist /\ ipLock' = ipLock /\ ipAt' = ipAt /\ buffer' = buffer
  BY DEF UdpSocket, Listed
<1>3. usock' = [usock EXCEPT ![s] = u]
  BY DEF UdpSocket
<1>4. /\ u \in USockType /\ u.queue = usock[s].queue /\ u.head = usock[s].head
      /\ u.count = usock[s].count
  BY <1>1 DEF USockType
<1> HIDE DEF u
<1>5. /\ SocketsHold(usock', buffer') /\ QueuesStep
      /\ \A x \in Sockets : x # s => usock'[x] = usock[x]
      /\ usock'[s].count = usock[s].count
  BY <1>2, <1>3, <1>4, SocketKept
<1>6. \A x \in UdpTasks : \A a : utask[x] # [at |-> a, sock |-> s]
  BY <1>2
<1>7. TasksHold(utask', usock, ulist)
  <2>1. v \in TaskAt /\ \A x : v # [at |-> "closing", sock |-> x]
    BY DEF TaskAt
  <2>2. utask' \in [UdpTasks -> TaskAt] /\ utask'[t] = v /\ \A x \in UdpTasks : x # t => utask'[x] = utask[x]
    BY <1>1, <1>2, <2>1
  <2>3. ASSUME NEW y \in Sockets, NEW x \in UdpTasks, NEW z \in UdpTasks,
               utask'[x] = [at |-> "opening", sock |-> y]
        PROVE  y \notin ToSet(ulist) /\ (utask'[z] = [at |-> "opening", sock |-> y] => z = x)
    <3>1. CASE x = t
      <4>1. y = s
        BY <2>2, <2>3, <3>1
      <4>2. z # t => utask'[z] # [at |-> "opening", sock |-> y]
        BY <1>6, <2>2, <4>1
      <4> QED BY <1>2, <3>1, <4>1, <4>2
    <3>2. CASE x # t
      <4>1. utask[x] = [at |-> "opening", sock |-> y]
        BY <2>2, <2>3, <3>2
      <4>2. y # s
        BY <1>6, <4>1
      <4>3. utask'[t] # [at |-> "opening", sock |-> y]
        BY <2>2, <4>2
      <4> QED BY <1>1, <2>2, <4>1, <4>3 DEF TasksHold
    <3> QED BY <3>1, <3>2
  <2>4. ASSUME NEW y \in Sockets, usock[y].count > 0
        PROVE  y \in ToSet(ulist) \/ \E x \in UdpTasks : utask'[x] = [at |-> "closing", sock |-> y]
    <3>1. \A x \in UdpTasks : utask[x] = [at |-> "closing", sock |-> y] => x # t
      BY <1>2 DEF Resting
    <3> QED BY <1>1, <2>2, <2>4, <3>1 DEF TasksHold
  <2> QED BY <2>2, <2>3, <2>4 DEF TasksHold
<1>8. TasksHold(utask', usock', ulist')
  BY <1>2, <1>5, <1>7, CountsMove
<1>9. UdpIInv'
  BY <1>1, <1>2, <1>5, <1>8, TaskKeepsInvariant
<1> QED BY <1>5, <1>9

LEMMA UdpSocketListedSteps ==
    ASSUME UdpIInv, NEW t \in UdpTasks, NEW s \in Sockets, UdpSocketListed(t, s)
    PROVE  UdpIInv' /\ QueuesStep
<1> DEFINE u == [usock[s] EXCEPT !.master = NoHolder]
<1>1. /\ usock \in [Sockets -> USockType] /\ LinkedOnce(ulist) /\ TasksHold(utask, usock, ulist)
      /\ utask \in [UdpTasks -> TaskAt]
  BY DEF UdpIInv, SocketsHold, TasksHold
<1>2. /\ utask[t] = [at |-> "opening", sock |-> s] /\ ipLock = NoHolder
      /\ utask' = [utask EXCEPT ![t] = Resting] /\ NothingHanded
      /\ ulist' = <<s>> \o ulist /\ ipLock' = ipLock /\ ipAt' = ipAt /\ buffer' = buffer
  BY DEF UdpSocketListed, In
<1>3. usock' = [usock EXCEPT ![s] = u]
  BY DEF UdpSocketListed
<1>4. /\ u \in USockType /\ u.queue = usock[s].queue /\ u.head = usock[s].head
      /\ u.count = usock[s].count
  BY <1>1 DEF USockType
<1> HIDE DEF u
<1>5. /\ SocketsHold(usock', buffer') /\ QueuesStep
      /\ \A x \in Sockets : x # s => usock'[x] = usock[x]
      /\ usock'[s].count = usock[s].count
  BY <1>2, <1>3, <1>4, SocketKept
<1>6. s \notin ToSet(ulist) /\ \A x \in UdpTasks : utask[x] = [at |-> "opening", sock |-> s] => x = t
  BY <1>1, <1>2 DEF TasksHold
<1>7. LinkedOnce(ulist') /\ ToSet(ulist') = ToSet(ulist) \cup {s}
  BY <1>1, <1>2, <1>6, LinkedInFront
<1>8. TasksHold(utask', usock, ulist')
  <2>1. /\ utask' \in [UdpTasks -> TaskAt] /\ utask'[t] = Resting
        /\ \A x \in UdpTasks : x # t => utask'[x] = utask[x]
    BY <1>1, <1>2 DEF TaskAt
  <2>2. ASSUME NEW y \in Sockets, NEW x \in UdpTasks, NEW z \in UdpTasks,
               utask'[x] = [at |-> "opening", sock |-> y]
        PROVE  y \notin ToSet(ulist') /\ (utask'[z] = [at |-> "opening", sock |-> y] => z = x)
    <3>1. x # t /\ utask[x] = [at |-> "opening", sock |-> y]
      BY <2>1, <2>2 DEF Resting
    <3>2. y # s
      BY <1>6, <3>1
    <3>3. utask'[z] = [at |-> "opening", sock |-> y] => utask[z] = [at |-> "opening", sock |-> y]
      BY <2>1 DEF Resting
    <3> QED BY <1>1, <1>7, <3>1, <3>2, <3>3 DEF TasksHold
  <2>3. ASSUME NEW y \in Sockets, usock[y].count > 0
        PROVE  y \in ToSet(ulist') \/ \E x \in UdpTasks : utask'[x] = [at |-> "closing", sock |-> y]
    <3>1. \A x \in UdpTasks : utask[x] = [at |-> "closing", sock |-> y] => x # t
      BY <1>2
    <3> QED BY <1>1, <1>7, <2>1, <2>3, <3>1 DEF TasksHold
  <2> QED BY <2>1, <2>2, <2>3 DEF TasksHold
<1>9. TasksHold(utask', usock', ulist')
  BY <1>5, <1>8, CountsMove
<1>10. UdpIInv'
  BY <1>2, <1>5, <1>7, <1>9, TaskKeepsInvariant
<1> QED BY <1>5, <1>10

LEMMA UdpConnectSteps ==
    ASSUME UdpIInv, NEW t \in UdpTasks, NEW s \in Sockets,
           UdpConnected(t, s) \/ \E p \in Peers : UdpConnect(t, s, p)
    PROVE  UdpIInv' /\ QueuesStep
<1>1. /\ usock \in [Sockets -> USockType] /\ LinkedOnce(ulist) /\ TasksHold(utask, usock, ulist)
  BY DEF UdpIInv, SocketsHold
<1>2. /\ \A x : utask[t] # [at |-> "closing", sock |-> x]
      /\ NothingHanded /\ ulist' = ulist /\ ipLock' = ipLock /\ ipAt' = ipAt /\ buffer' = buffer
  <2>1. CASE UdpConnected(t, s)
    <3>1. utask[t] = [at |-> "connecting", sock |-> s]
      BY <2>1 DEF UdpConnected, In
    <3>2. \A x : utask[t] # [at |-> "closing", sock |-> x]
      BY <3>1
    <3> QED BY <2>1, <3>2 DEF UdpConnected
  <2>2. CASE \E p \in Peers : UdpConnect(t, s, p)
    <3>1. \A x : utask[t] # [at |-> "closing", sock |-> x]
      BY <2>2 DEF UdpConnect, Resting
    <3> QED BY <2>2, <3>1 DEF UdpConnect
  <2> QED BY <2>1, <2>2
<1>3. PICK v \in TaskAt : utask' = [utask EXCEPT ![t] = v] /\ \A x : v # [at |-> "opening", sock |-> x]
  <2> DEFINE c == [at |-> "connecting", sock |-> s]
  <2>1. /\ c \in TaskAt /\ \A x : c # [at |-> "opening", sock |-> x]
        /\ Resting \in TaskAt /\ \A x : Resting # [at |-> "opening", sock |-> x]
    BY DEF TaskAt, Resting
  <2>2. utask' = [utask EXCEPT ![t] = c] \/ utask' = [utask EXCEPT ![t] = Resting]
    BY DEF UdpConnected, UdpConnect
  <2> HIDE DEF c
  <2> QED BY <2>1, <2>2
<1>4. PICK u \in USockType :
         /\ usock' = [usock EXCEPT ![s] = u] /\ u.queue = usock[s].queue
         /\ u.head = usock[s].head /\ u.count = usock[s].count
  <2>1. usock[s] \in USockType
    BY <1>1
  <2>2. CASE UdpConnected(t, s)
    <3> DEFINE u == [usock[s] EXCEPT !.ip = usock[s].port, !.master = NoHolder]
    <3>1. usock' = [usock EXCEPT ![s] = u]
      BY <2>2 DEF UdpConnected
    <3>2. u \in USockType /\ u.queue = usock[s].queue /\ u.head = usock[s].head /\ u.count = usock[s].count
      BY <2>1 DEF USockType
    <3> HIDE DEF u
    <3> QED BY <3>1, <3>2
  <2>3. ASSUME NEW p \in Peers, UdpConnect(t, s, p)
        PROVE  \E u \in USockType :
                  /\ usock' = [usock EXCEPT ![s] = u] /\ u.queue = usock[s].queue
                  /\ u.head = usock[s].head /\ u.count = usock[s].count
    <3> DEFINE u == [usock[s] EXCEPT !.port = p, !.master = t]
    <3>1. usock' = [usock EXCEPT ![s] = u]
      BY <2>3 DEF UdpConnect
    <3>2. u \in USockType /\ u.queue = usock[s].queue /\ u.head = usock[s].head /\ u.count = usock[s].count
      BY <2>1 DEF USockType
    <3> HIDE DEF u
    <3> QED BY <3>1, <3>2
  <2> QED BY <2>2, <2>3
<1>5. /\ SocketsHold(usock', buffer') /\ QueuesStep
      /\ \A x \in Sockets : x # s => usock'[x] = usock[x]
      /\ usock'[s].count = usock[s].count
  BY <1>2, <1>4, SocketKept
<1>6. TasksHold(utask', usock, ulist)
  BY <1>1, <1>2, <1>3, TaskMoves
<1>7. TasksHold(utask', usock', ulist')
  BY <1>2, <1>5, <1>6, CountsMove
<1>8. UdpIInv'
  BY <1>1, <1>2, <1>5, <1>7, TaskKeepsInvariant
<1> QED BY <1>5, <1>8

LEMMA UdpCloseSteps ==
    ASSUME UdpIInv, NEW t \in UdpTasks, NEW s \in Sockets, UdpClose(t, s)
    PROVE  UdpIInv' /\ QueuesStep
<1> DEFINE v == [at |-> "closing", sock |-> s]
<1>1. /\ SocketsHold(usock, buffer) /\ LinkedOnce(ulist) /\ TasksHold(utask, usock, ulist)
      /\ utask \in [UdpTasks -> TaskAt]
  BY DEF UdpIInv, TasksHold
<1>2. /\ utask[t] = Resting /\ ipLock = NoHolder
      /\ utask' = [utask EXCEPT ![t] = v] /\ NothingHanded
      /\ usock' = usock /\ ipLock' = ipLock /\ ipAt' = ipAt /\ buffer' = buffer
  BY DEF UdpClose
<1>3. LinkedOnce(ulist') /\ ToSet(ulist') = ToSet(ulist) \ {s}
  <2>1. PICK i \in DOMAIN ulist : ulist[i] = s /\ ulist' = RemoveAt(ulist, i)
    BY DEF UdpClose
  <2>2. LinkedOnce(RemoveAt(ulist, i)) /\ ToSet(RemoveAt(ulist, i)) = ToSet(ulist) \ {ulist[i]}
    BY <1>1, UnlinkedIsLinkedOnce
  <2> QED BY <2>1, <2>2
<1>4. TasksHold(utask', usock, ulist')
  <2>1. /\ utask' \in [UdpTasks -> TaskAt] /\ utask'[t] = v
        /\ \A x \in UdpTasks : x # t => utask'[x] = utask[x]
    BY <1>1, <1>2 DEF TaskAt
  <2>2. ASSUME NEW y \in Sockets, NEW x \in UdpTasks, NEW z \in UdpTasks,
               utask'[x] = [at |-> "opening", sock |-> y]
        PROVE  y \notin ToSet(ulist') /\ (utask'[z] = [at |-> "opening", sock |-> y] => z = x)
    <3>1. \A w \in UdpTasks : utask'[w] = [at |-> "opening", sock |-> y] =>
             w # t /\ utask[w] = [at |-> "opening", sock |-> y]
      BY <2>1
    <3> QED BY <1>1, <1>3, <2>2, <3>1 DEF TasksHold
  <2>3. ASSUME NEW y \in Sockets, usock[y].count > 0
        PROVE  y \in ToSet(ulist') \/ \E x \in UdpTasks : utask'[x] = [at |-> "closing", sock |-> y]
    <3>1. CASE y = s
      BY <2>1, <3>1
    <3>2. CASE y # s
      <4>1. \A x \in UdpTasks : utask[x] = [at |-> "closing", sock |-> y] => x # t
        BY <1>2 DEF Resting
      <4> QED BY <1>1, <1>3, <2>1, <2>3, <3>2, <4>1 DEF TasksHold
    <3> QED BY <3>1, <3>2
  <2> QED BY <2>1, <2>2, <2>3 DEF TasksHold
<1>5. UdpIInv'
  BY <1>1, <1>2, <1>3, <1>4, TaskKeepsInvariant
<1>6. QueuesStep
  BY <1>2, IdleQueues
<1> QED BY <1>5, <1>6

LEMMA UdpClosedSteps ==
    ASSUME UdpIInv, NEW t \in UdpTasks, NEW s \in Sockets, UdpClosed(t, s)
    PROVE  UdpIInv' /\ QueuesStep
<1>1. /\ SocketsHold(usock, buffer) /\ LinkedOnce(ulist) /\ TasksHold(utask, usock, ulist)
      /\ utask \in [UdpTasks -> TaskAt] /\ usock \in [Sockets -> USockType]
  BY DEF UdpIInv, TasksHold, SocketsHold
<1>2. /\ utask[t] = [at |-> "closing", sock |-> s]
      /\ usock' = SocketEmptied(usock, s)
      /\ buffer' = [d \in Datagrams |-> IF d \in ToSet(Queued(usock[s])) THEN "free" ELSE buffer[d]]
      /\ handed' = [x \in Sockets |-> IF x = s THEN Queued(usock[s]) ELSE <<>>]
      /\ utask' = [utask EXCEPT ![t] = Resting]
      /\ ulist' = ulist /\ ipLock' = ipLock /\ ipAt' = ipAt
  BY DEF UdpClosed, In, SocketEmptied
<1>3. /\ SocketsHold(SocketEmptied(usock, s), buffer')
      /\ Queued(SocketEmptied(usock, s)[s]) = <<>>
      /\ SocketMoves(usock, SocketEmptied(usock, s), s)
      /\ ToSet(Queued(usock[s])) \subseteq QueuedHere(buffer)
  <2> DEFINE w1 == buffer'
  <2>1. w1 = [d \in Datagrams |-> IF d \in ToSet(Queued(usock[s])) THEN "free" ELSE buffer[d]]
    BY <1>2
  <2> HIDE DEF w1
  <2>2. /\ SocketsHold(SocketEmptied(usock, s), w1)
        /\ Queued(SocketEmptied(usock, s)[s]) = <<>>
        /\ SocketMoves(usock, SocketEmptied(usock, s), s)
        /\ ToSet(Queued(usock[s])) \subseteq QueuedHere(buffer)
    BY <1>1, <2>1, SocketEmptiedHolds
  <2> QED BY <2>2 DEF w1
<1>4. /\ SocketsHold(usock', buffer') /\ Queued(usock'[s]) = <<>> /\ SocketMoves(usock, usock', s)
  BY <1>2, <1>3
<1>5. \A d \in Datagrams : buffer[d] = "ip" => buffer'[d] = "ip"
  BY <1>2, <1>3 DEF QueuedHere
<1>6. usock'[s].count = 0
  <2>1. usock'[s] \in USockType
    BY <1>4 DEF SocketsHold
  <2> QED BY <1>4, <2>1, QueuedSequence
<1>7. TasksHold(utask', usock', ulist)
  <2>1. /\ utask' \in [UdpTasks -> TaskAt] /\ utask'[t] = Resting
        /\ \A x \in UdpTasks : x # t => utask'[x] = utask[x]
    BY <1>1, <1>2 DEF TaskAt
  <2>2. ASSUME NEW y \in Sockets, NEW x \in UdpTasks, NEW z \in UdpTasks,
               utask'[x] = [at |-> "opening", sock |-> y]
        PROVE  y \notin ToSet(ulist) /\ (utask'[z] = [at |-> "opening", sock |-> y] => z = x)
    <3>1. \A w \in UdpTasks : utask'[w] = [at |-> "opening", sock |-> y] =>
             w # t /\ utask[w] = [at |-> "opening", sock |-> y]
      BY <2>1 DEF Resting
    <3> QED BY <1>1, <2>2, <3>1 DEF TasksHold
  <2>3. ASSUME NEW y \in Sockets, usock'[y].count > 0
        PROVE  y \in ToSet(ulist) \/ \E x \in UdpTasks : utask'[x] = [at |-> "closing", sock |-> y]
    <3>1. y # s
      BY <1>6, <2>3
    <3>2. usock[y].count > 0
      BY <1>4, <2>3, <3>1 DEF SocketMoves
    <3>3. \A x \in UdpTasks : utask[x] = [at |-> "closing", sock |-> y] => x # t
      BY <1>2, <3>1
    <3> QED BY <1>1, <2>1, <3>2, <3>3 DEF TasksHold
  <2> QED BY <2>1, <2>2, <2>3 DEF TasksHold
<1>8. UdpIInv'
  BY <1>1, <1>2, <1>4, <1>5, <1>7, TaskKeepsInvariant
<1>9. AQueue(s)!Next
  <2>1. AQueue(s)!Clean
    BY <1>2, <1>4 DEF AQueue!Clean
  <2> QED BY <2>1 DEF AQueue!Next
<1>10. QueuesStep
  <2> DEFINE z == Queued(usock[s])
  <2>1. handed' = [x \in Sockets |-> IF x = s THEN z ELSE <<>>]
    BY <1>2
  <2> HIDE DEF z
  <2> QED BY <1>4, <1>9, <2>1, OneQueueMoves
<1> QED BY <1>8, <1>10

LEMMA UdpRecvfromSteps ==
    ASSUME UdpIInv, NEW t \in UdpTasks, NEW s \in Sockets, UdpRecvfrom(t, s)
    PROVE  UdpIInv' /\ QueuesStep
<1> DEFINE d == Datagram(usock[s], 1)
<1>1. /\ SocketsHold(usock, buffer) /\ LinkedOnce(ulist) /\ TasksHold(utask, usock, ulist)
      /\ usock \in [Sockets -> USockType]
  BY DEF UdpIInv, SocketsHold
<1>2. /\ utask[t] = Resting \/ utask[t] = [at |-> "woken", sock |-> s]
      /\ usock[s].count > 0
      /\ usock' = SocketGet(usock, s)
      /\ buffer' = [buffer EXCEPT ![d] = "task"]
      /\ handed' = [x \in Sockets |-> IF x = s THEN <<d>> ELSE <<>>]
      /\ utask' = [utask EXCEPT ![t] = Resting]
      /\ ulist' = ulist /\ ipLock' = ipLock /\ ipAt' = ipAt
  BY DEF UdpRecvfrom, In, SocketGet
<1>3. /\ SocketsHold(SocketGet(usock, s), [buffer EXCEPT ![Datagram(usock[s], 1)] = "task"])
      /\ Queued(SocketGet(usock, s)[s]) = Tail(Queued(usock[s])) /\ Queued(usock[s]) # <<>>
      /\ Datagram(usock[s], 1) = Head(Queued(usock[s]))
      /\ Datagram(usock[s], 1) \in Datagrams /\ buffer[Datagram(usock[s], 1)] = "queued"
      /\ SocketMoves(usock, SocketGet(usock, s), s)
  BY <1>1, <1>2, SocketGetHolds
<1>4. /\ SocketsHold(usock', buffer') /\ Queued(usock'[s]) = Tail(Queued(usock[s]))
      /\ Queued(usock[s]) # <<>> /\ d = Head(Queued(usock[s]))
      /\ d \in Datagrams /\ buffer[d] = "queued" /\ SocketMoves(usock, usock', s)
  BY <1>2, <1>3
<1> HIDE DEF d
<1>5. \A x \in Datagrams : buffer[x] = "ip" => buffer'[x] = "ip"
  BY <1>1, <1>2, <1>4 DEF SocketsHold
<1>6. TasksHold(utask', usock, ulist)
  <2>1. \A x : utask[t] # [at |-> "closing", sock |-> x]
    BY <1>2 DEF Resting
  <2>2. Resting \in TaskAt /\ \A x : Resting # [at |-> "opening", sock |-> x]
    BY DEF TaskAt, Resting
  <2>3. TasksHold([utask EXCEPT ![t] = Resting], usock, ulist)
    BY <1>1, <2>1, <2>2, TaskMoves
  <2> QED BY <1>2, <2>3
<1>7. TasksHold(utask', usock', ulist)
  BY <1>2, <1>4, <1>6, CountsMove DEF SocketMoves
<1>8. UdpIInv'
  BY <1>1, <1>2, <1>4, <1>5, <1>7, TaskKeepsInvariant
<1>9. AQueue(s)!Next
  <2>1. AQueue(s)!Get
    BY <1>2, <1>4 DEF AQueue!Get
  <2> QED BY <2>1 DEF AQueue!Next
<1>10. QueuesStep
  <2> DEFINE z == <<d>>
  <2>1. handed' = [x \in Sockets |-> IF x = s THEN z ELSE <<>>]
    BY <1>2
  <2> HIDE DEF z
  <2> QED BY <1>4, <1>9, <2>1, OneQueueMoves
<1> QED BY <1>8, <1>10

LEMMA UdpRecvWaitsSteps ==
    ASSUME UdpIInv, NEW t \in UdpTasks, NEW s \in Sockets, UdpRecvWaits(t, s)
    PROVE  UdpIInv' /\ QueuesStep
<1> DEFINE v == [at |-> "asleep", sock |-> s]
<1>1. /\ SocketsHold(usock, buffer) /\ LinkedOnce(ulist) /\ TasksHold(utask, usock, ulist)
  BY DEF UdpIInv
<1>2. /\ utask[t] = Resting \/ utask[t] = [at |-> "woken", sock |-> s]
      /\ utask' = [utask EXCEPT ![t] = v] /\ NothingHanded
      /\ usock' = usock /\ ulist' = ulist /\ ipLock' = ipLock /\ ipAt' = ipAt /\ buffer' = buffer
  BY DEF UdpRecvWaits, In
<1>3. TasksHold(utask', usock, ulist)
  <2>1. \A x : utask[t] # [at |-> "closing", sock |-> x]
    BY <1>2 DEF Resting
  <2>2. v \in TaskAt /\ \A x : v # [at |-> "opening", sock |-> x]
    BY DEF TaskAt
  <2> HIDE DEF v
  <2>3. TasksHold([utask EXCEPT ![t] = v], usock, ulist)
    BY <1>1, <2>1, <2>2, TaskMoves
  <2> QED BY <1>2, <2>3
<1>4. UdpIInv'
  BY <1>1, <1>2, <1>3, TaskKeepsInvariant
<1>5. QueuesStep
  BY <1>2, IdleQueues
<1> QED BY <1>4, <1>5

LEMMA UdpInitIInv ==
    ASSUME UdpInit
    PROVE  UdpIInv /\ \A s \in Sockets : AQueue(s)!Init
<1> DEFINE e == [i \in 0 .. UdpSize - 1 |-> Unset]
           u == [queue |-> e, head |-> 0, count |-> 0, port |-> Unset, ip |-> Unset,
                 master |-> NoHolder]
<1>1. usock = [s \in Sockets |-> u] /\ buffer = [d \in Datagrams |-> "free"]
  BY DEF UdpInit
<1>2. u \in USockType /\ u.count = 0
  <2>1. e \in [0 .. UdpSize - 1 -> Datagrams \cup {Unset}] /\ 0 \in 0 .. UdpSize - 1 /\ 0 \in 0 .. UdpSize
    BY UdpConstants
  <2> HIDE DEF e
  <2> QED BY <2>1 DEF USockType
<1> HIDE DEF u
<1>3. Queued(u) = <<>>
  BY <1>2, QueuedSequence
<1>4. QueuedHere(buffer) = {} /\ LinesOf(usock) = [s \in Sockets |-> <<>>]
  BY <1>1, <1>3 DEF QueuedHere, LinesOf
<1>5. SocketsHold(usock, buffer)
  <2> DEFINE S == Datagrams \cup {Unset}
  <2> HIDE DEF S
  <2>1. \A s \in Sockets : <<>> \in Seq(S) /\ Len(<<>>) = 0
    OBVIOUS
  <2>2. OnceIn(LinesOf(usock), Sockets, S, QueuedHere(buffer))
    BY <1>4, <2>1 DEF OnceIn
  <2> QED BY <1>1, <1>2, <2>2 DEF SocketsHold, S
<1>6. LinkedOnce(ulist)
  BY DEF UdpInit, LinkedOnce
<1>7. IpHolds(ipAt, ipLock, buffer, ulist)
  BY DEF UdpInit, IpHolds
<1>8. TasksHold(utask, usock, ulist)
  <2>1. utask = [t \in UdpTasks |-> Resting] /\ \A s \in Sockets : usock[s].count = 0
    BY <1>1, <1>2 DEF UdpInit
  <2> QED BY <2>1 DEF TasksHold, TaskAt, Resting
<1>9. ASSUME NEW s \in Sockets PROVE AQueue(s)!Init
  BY <1>1, <1>3 DEF UdpInit, AQueue!Init
<1> QED BY <1>5, <1>6, <1>7, <1>8, <1>9 DEF UdpIInv

LEMMA UdpNextSteps ==
    ASSUME UdpIInv, [UdpNext]_udpVars
    PROVE  /\ UdpIInv'
           /\ [\A s \in Sockets : AQueue(s)!Next \/ UNCHANGED AQueue(s)!vars]_udpVars
<1>1. CASE UNCHANGED udpVars
  BY <1>1 DEF UdpIInv, udpVars
<1>2. ASSUME UdpNext PROVE UdpIInv' /\ QueuesStep
  <2>1. CASE UdpDeliver
    BY <2>1, UdpDeliverSteps
  <2>2. ASSUME NEW d \in Datagrams, UdpFree(d) \/ \E p \in Peers : UdpInput(d, p)
        PROVE  UdpIInv' /\ QueuesStep
    BY <2>2, UdpFreeSteps, UdpInputSteps
  <2>3. ASSUME NEW t \in UdpTasks, NEW s \in Sockets,
               \/ UdpSocket(t, s) \/ UdpSocketListed(t, s)
               \/ \E p \in Peers : UdpConnect(t, s, p)
               \/ UdpConnected(t, s)
               \/ UdpClose(t, s) \/ UdpClosed(t, s)
               \/ UdpRecvfrom(t, s) \/ UdpRecvWaits(t, s)
        PROVE  UdpIInv' /\ QueuesStep
    <3>1. CASE UdpSocket(t, s) \/ UdpSocketListed(t, s)
      BY <3>1, UdpSocketSteps, UdpSocketListedSteps
    <3>2. CASE UdpConnected(t, s) \/ \E p \in Peers : UdpConnect(t, s, p)
      BY <3>2, UdpConnectSteps
    <3>3. CASE UdpClose(t, s) \/ UdpClosed(t, s)
      BY <3>3, UdpCloseSteps, UdpClosedSteps
    <3>4. CASE UdpRecvfrom(t, s) \/ UdpRecvWaits(t, s)
      BY <3>4, UdpRecvfromSteps, UdpRecvWaitsSteps
    <3> QED BY <2>3, <3>1, <3>2, <3>3, <3>4
  <2> QED BY <1>2, <2>1, <2>2, <2>3 DEF UdpNext
<1> QED BY <1>1, <1>2 DEF QueuesStep

\* Every datagram that is queued is in one queue, once, and would be freed if
\* its socket were closed, whatever is closed while the ip task delivers and
\* others read (udp_input, udp_recvfrom, udp_close).
THEOREM NoDatagramGetsLost == UdpSpec => [](UdpTypeOK /\ NoDatagramIsLost)
<1>1. UdpInit => UdpIInv
  BY UdpInitIInv
<1>2. UdpIInv /\ [UdpNext]_udpVars => UdpIInv'
  BY UdpNextSteps
<1>3. UdpIInv => UdpTypeOK /\ NoDatagramIsLost
  <2> SUFFICES ASSUME UdpIInv PROVE UdpTypeOK /\ NoDatagramIsLost
    OBVIOUS
  <2>1. /\ usock \in [Sockets -> USockType] /\ LinkedOnce(ulist) /\ TasksHold(utask, usock, ulist)
        /\ OnceIn(LinesOf(usock), Sockets, Datagrams \cup {Unset}, QueuedHere(buffer))
    BY DEF UdpIInv, SocketsHold
  <2>2. ASSUME NEW s \in Sockets
        PROVE  /\ LinesOf(usock)[s] = Queued(usock[s])
               /\ Queued(usock[s]) \in Seq(Datagrams \cup {Unset})
               /\ Len(Queued(usock[s])) = usock[s].count /\ usock[s].count \in 0 .. UdpSize
               /\ usock[s].head \in 0 .. UdpSize - 1
               /\ \A j \in 1 .. usock[s].count : Queued(usock[s])[j] = Datagram(usock[s], j)
    <3>1. usock[s] \in USockType
      BY <2>1
    <3> QED BY <3>1, QueuedSequence DEF LinesOf, USockType
  <2>3. /\ \A s \in Sockets : \A j \in 1 .. usock[s].count : Datagram(usock[s], j) \in QueuedHere(buffer)
        /\ \A s, x \in Sockets : \A j \in 1 .. usock[s].count : \A l \in 1 .. usock[x].count :
              Datagram(usock[s], j) = Datagram(usock[x], l) => s = x /\ j = l
        /\ \A d \in QueuedHere(buffer) : \E s \in Sockets : \E j \in 1 .. usock[s].count :
              Datagram(usock[s], j) = d
    <3>1. \A s \in Sockets :
             /\ Len(LinesOf(usock)[s]) = usock[s].count
             /\ \A j \in 1 .. usock[s].count : LinesOf(usock)[s][j] = Datagram(usock[s], j)
      BY <2>2
    <3> DEFINE S == Datagrams \cup {Unset}
               C == LinesOf(usock)
    <3>2. OnceIn(C, Sockets, S, QueuedHere(buffer))
      BY <2>1
    <3>3. \A s \in Sockets : Len(C[s]) = usock[s].count
      BY <3>1
    <3>4. \A s \in Sockets : \A j \in 1 .. usock[s].count : C[s][j] = Datagram(usock[s], j)
      BY <3>1
    <3> HIDE DEF S, C
    <3>5. /\ \A s \in Sockets : \A j \in 1 .. Len(C[s]) : C[s][j] \in QueuedHere(buffer)
          /\ \A s, x \in Sockets : \A j \in 1 .. Len(C[s]) : \A l \in 1 .. Len(C[x]) :
                C[s][j] = C[x][l] => s = x /\ j = l
          /\ \A d \in QueuedHere(buffer) : \E s \in Sockets : \E j \in 1 .. Len(C[s]) : C[s][j] = d
      BY <3>2 DEF OnceIn
    <3>6. ASSUME NEW s \in Sockets, NEW x \in Sockets, NEW j \in 1 .. usock[s].count,
                 NEW l \in 1 .. usock[x].count, Datagram(usock[s], j) = Datagram(usock[x], l)
          PROVE  s = x /\ j = l
      BY <3>3, <3>4, <3>5, <3>6
    <3>7. ASSUME NEW d \in QueuedHere(buffer)
          PROVE  \E s \in Sockets : \E j \in 1 .. usock[s].count : Datagram(usock[s], j) = d
      BY <3>3, <3>4, <3>5
    <3>8. ASSUME NEW s \in Sockets, NEW j \in 1 .. usock[s].count
          PROVE  Datagram(usock[s], j) \in QueuedHere(buffer)
      BY <3>3, <3>4, <3>5
    <3> QED BY <3>6, <3>7, <3>8
  <2>4. UdpTypeOK
    <3>1. ASSUME NEW s \in Sockets PROVE Queued(usock[s]) \in Seq(Datagrams)
      <4>1. usock[s].count \in Nat /\ \A j \in 1 .. usock[s].count : Datagram(usock[s], j) \in Datagrams
        BY <2>2, <2>3, UdpConstants DEF QueuedHere
      <4> QED BY <4>1 DEF Queued
    <3>2. \A i, j \in DOMAIN ulist : ulist[i] = ulist[j] => i = j
      BY <2>1 DEF LinkedOnce
    <3> QED BY <2>2, <3>1, <3>2 DEF UdpTypeOK
  <2>5. ASSUME NEW d \in Datagrams
        PROVE  Cardinality({x \in Sockets \X (1 .. UdpSize) :
                              x[2] <= usock[x[1]].count /\ Datagram(usock[x[1]], x[2]) = d})
                 = IF buffer[d] = "queued" THEN 1 ELSE 0
    <3> DEFINE P == {x \in Sockets \X (1 .. UdpSize) :
                        x[2] <= usock[x[1]].count /\ Datagram(usock[x[1]], x[2]) = d}
    <3>1. \A x \in P : x[1] \in Sockets /\ x[2] \in 1 .. usock[x[1]].count /\ x = <<x[1], x[2]>>
      BY <2>2, UdpConstants
    <3>2. CASE buffer[d] = "queued"
      <4>1. PICK s \in Sockets : \E j \in 1 .. usock[s].count : Datagram(usock[s], j) = d
        BY <2>3, <3>2 DEF QueuedHere
      <4>2. PICK j \in 1 .. usock[s].count : Datagram(usock[s], j) = d
        BY <4>1
      <4>3. j \in 1 .. UdpSize /\ j <= usock[s].count
        BY <2>2, <4>2, UdpConstants
      <4>4. <<s, j>> \in P
        BY <4>2, <4>3
      <4>5. \A x \in P : x[1] = s /\ x[2] = j
        BY <2>3, <3>1, <4>2
      <4>6. P = {<<s, j>>}
        <5>1. \A x \in P : x = <<s, j>>
          BY <3>1, <4>5
        <5> HIDE DEF P
        <5> QED BY <4>4, <5>1
      <4>7. Cardinality(P) = 1
        BY <4>6, FS_Singleton
      <4> QED BY <3>2, <4>7
    <3>3. CASE buffer[d] # "queued"
      <4>1. P = {}
        BY <2>3, <3>1, <3>3 DEF QueuedHere
      <4>2. Cardinality(P) = 0
        BY <4>1, FS_EmptySet
      <4> QED BY <3>3, <4>2
    <3> QED BY <3>2, <3>3
  <2>6. \A s \in Sockets :
           usock[s].count > 0 => Listed(s) \/ \E t \in UdpTasks : In(t, "closing", s)
    <3>1. ASSUME NEW s \in Sockets, usock[s].count > 0
          PROVE  s \in ToSet(ulist) \/ \E t \in UdpTasks : utask[t] = [at |-> "closing", sock |-> s]
      BY <2>1, <3>1 DEF TasksHold
    <3> QED BY <3>1 DEF Listed, In
  <2> QED BY <2>4, <2>5, <2>6 DEF NoDatagramIsLost
<1> QED BY <1>1, <1>2, <1>3, PTL DEF UdpSpec

\* The queue of each socket is a FIFO, through which no datagram passes another
\* (udp_queue_put, _get and _free under the lock of the socket).
THEOREM SocketsImplementFifos == UdpSpec => ImplementsSocketQueues
<1>1. UdpInit => UdpIInv /\ \A s \in Sockets : AQueue(s)!Init
  BY UdpInitIInv
<1>2. /\ UdpIInv /\ [UdpNext]_udpVars
         => UdpIInv' /\ [\A s \in Sockets : AQueue(s)!Next \/ UNCHANGED AQueue(s)!vars]_udpVars
  BY UdpNextSteps
<1> QED BY <1>1, <1>2, PTL DEF UdpSpec, ImplementsSocketQueues
=============================================================================
