------------------------------ MODULE BufQueue ------------------------------
(***************************************************************************)
(* The packet queue of buf/buf-queue.c in the hands of a driver: packets   *)
(* are allocated, put into the queue when there is room for them, taken    *)
(* out by another task, freed, or cleaned out of the queue all at once.    *)
(* The callers hold the driver's lock, so that each call is one action.    *)
(***************************************************************************)
EXTENDS Ring, FiniteSets

VARIABLES
    q,          \* the ring
    taken,      \* what the last call took out of it, the oldest first
    place       \* where each packet is: "free" memory, "held" by a task,
                \* or "queued"

queueVars == <<q, taken, place>>

QueueInit ==
    /\ q = RingInit
    /\ taken = <<>>
    /\ place = [p \in Packets |-> "free"]

\* buf_alloc of a packet by the task that is about to send it.
QueueAllocate(p) ==
    /\ place[p] = "free"
    /\ place' = [place EXCEPT ![p] = "held"]
    /\ taken' = <<>>
    /\ UNCHANGED q

\* The callers test buf_queue_is_full before, and the put asserts it.
QueuePut(p) ==
    /\ place[p] = "held"
    /\ ~ RingIsFull(q)
    /\ q' = RingPut(q, p)
    /\ place' = [place EXCEPT ![p] = "queued"]
    /\ taken' = <<>>

\* The queue is full: the driver discards the packet.
QueueDiscard(p) ==
    /\ place[p] = "held"
    /\ RingIsFull(q)
    /\ place' = [place EXCEPT ![p] = "free"]
    /\ taken' = <<>>
    /\ UNCHANGED q

\* buf_queue_get, which returns 0 when the queue is empty.
QueueGet ==
    \/ /\ RingIsEmpty(q)
       /\ taken' = <<>>
       /\ UNCHANGED <<q, place>>
    \/ /\ ~ RingIsEmpty(q)
       /\ q' = RingRest(q)
       /\ taken' = <<RingFirst(q)>>
       /\ place' = [place EXCEPT ![RingFirst(q)] = "held"]

\* The task that took the packet is done with it.
QueueFree(p) ==
    /\ place[p] = "held"
    /\ place' = [place EXCEPT ![p] = "free"]
    /\ taken' = <<>>
    /\ UNCHANGED q

\* buf_queue_clean: free the packet at tail and step, count times.
AfterClean(r) == [slot |-> r.slot, tail |-> Wrapped(r.tail - r.count), count |-> 0]

QueueClean ==
    /\ q' = AfterClean(q)
    /\ taken' = RingContents(q)
    /\ place' = [p \in Packets |->
                    IF \E i \in 1 .. q.count : RingContents(q)[i] = p THEN "free"
                    ELSE place[p]]

QueueNext ==
    \/ \E p \in Packets : QueueAllocate(p) \/ QueuePut(p) \/ QueueDiscard(p) \/ QueueFree(p)
    \/ QueueGet
    \/ QueueClean

QueueSpec == QueueInit /\ [][QueueNext]_queueVars

-----------------------------------------------------------------------------
\* Type correctness: the pointers stay in the array (the asserts of
\* buf_queue_get, buf-queue.c:10-11) and the count within the size.
QueueTypeOK ==
    /\ q \in RingType
    /\ taken \in Seq(Packets)
    /\ place \in [Packets -> {"free", "held", "queued"}]

\* The queue owns exactly the packets in it, each once: no packet is lost in
\* the ring, left behind by it, or given out twice (the assert of
\* buf_queue_get that the place at tail is not empty, buf-queue.c:16).
QueueOwnsItsPackets ==
    LET s == RingContents(q)
    IN  /\ {p \in Packets : place[p] = "queued"} = {s[i] : i \in 1 .. q.count}
        /\ \A i, j \in 1 .. q.count : s[i] = s[j] => i = j

\* The ring is a FIFO: whatever the places of tail and count in the array,
\* each call does to the contents what it does to a bounded FIFO.
AFifo == INSTANCE Fifo WITH fifo <- RingContents(q), got <- taken

ImplementsFifo == AFifo!Spec
=============================================================================
