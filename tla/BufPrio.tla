------------------------------- MODULE BufPrio -------------------------------
(***************************************************************************)
(* The queue with priorities of buf/buf-prio.c: one ring for each priority *)
(* and a count of all packets.  The size of the whole is the size of one   *)
(* ring.  As in s3c4530/hdlc.c, the callers hold the transmitter's lock:   *)
(* a call is one action.                                                   *)
(***************************************************************************)
EXTENDS Ring, FiniteSetsExt

CONSTANT NQ     \* BUF_PRIO_NQ

ASSUME PrioConstants == NQ \in Nat \ {0}

Prios == 0 .. NQ - 1

VARIABLES
    count,      \* q->count
    queue,      \* q->queue[]
    where,      \* of each packet: "free", "held" by a task, or "queued"
    got,        \* the packet that the last call returned, if any
    dropped     \* the packet that the last call freed, if any

prioVars == <<count, queue, where, got, dropped>>

PrioInit ==
    /\ count = 0
    /\ queue = [i \in Prios |-> RingInit]
    /\ where = [p \in Packets |-> "free"]
    /\ got = {}
    /\ dropped = {}

\* A task allocates a packet to send; the device sends the one it holds and
\* frees it.
PrioAllocate(p) ==
    /\ where[p] = "free"
    /\ where' = [where EXCEPT ![p] = "held"]
    /\ got' = {} /\ dropped' = {}
    /\ UNCHANGED <<count, queue>>

PrioFree(p) ==
    /\ where[p] = "held"
    /\ where' = [where EXCEPT ![p] = "free"]
    /\ got' = {} /\ dropped' = {}
    /\ UNCHANGED <<count, queue>>

\* The loops over the rings: the first that is not empty, from below or from
\* above.
NotEmpty == {i \in Prios : queue[i].count # 0}

\* buf_prio_queue_put when there is room.
PrioPutInRoom(p, prio) ==
    /\ where[p] = "held"
    /\ count < Size
    /\ queue' = [queue EXCEPT ![prio] = RingPut(@, p)]
    /\ count' = count + 1
    /\ where' = [where EXCEPT ![p] = "queued"]
    /\ got' = {} /\ dropped' = {}

\* ... and when there is none: one packet of a lower or the same priority is
\* thrown away, the count stays.
\*
\* Fault: packets of a higher priority are thrown away too.
EvictableAny(prio) == NotEmpty

Evictable(prio) == {i \in NotEmpty : i <= prio}

\* Fault: the packet thrown away is freed but not taken out of its ring.
EvictedInPlace(p, prio) ==
    LET low == Min(Evictable(prio))
    IN  /\ queue' = [queue EXCEPT ![prio] = RingPut(@, p)]
        /\ where' = [where EXCEPT ![p] = "queued", ![RingFirst(queue[low])] = "free"]
        /\ dropped' = {RingFirst(queue[low])}

Evicted(p, prio) ==
    LET low == Min(Evictable(prio))
    IN  /\ queue' = [[queue EXCEPT ![low] = RingRest(@)] EXCEPT ![prio] = RingPut(@, p)]
        /\ where' = [where EXCEPT ![p] = "queued", ![RingFirst(queue[low])] = "free"]
        /\ dropped' = {RingFirst(queue[low])}

PrioPutEvicting(p, prio) ==
    /\ where[p] = "held"
    /\ count >= Size
    /\ Evictable(prio) # {}
    /\ Evicted(p, prio)
    /\ got' = {}
    /\ UNCHANGED count

\* ... and when the queue holds higher priorities only: the caller frees p.
PrioPutRefused(p, prio) ==
    /\ where[p] = "held"
    /\ count >= Size
    /\ Evictable(prio) = {}
    /\ where' = [where EXCEPT ![p] = "free"]
    /\ dropped' = {p}
    /\ got' = {}
    /\ UNCHANGED <<count, queue>>

\* buf_prio_queue_get.  That the loop finds a ring when the count is not 0 is
\* its assert (buf-prio.c:28), part of CountsAgree below.
PrioGet ==
    /\ dropped' = {}
    /\ \/ /\ count <= 0
          /\ got' = {}
          /\ UNCHANGED <<count, queue, where>>
       \/ /\ count > 0
          /\ LET high == Max(NotEmpty)
             IN  /\ got' = {RingFirst(queue[high])}
                 /\ queue' = [queue EXCEPT ![high] = RingRest(@)]
                 /\ where' = [where EXCEPT ![RingFirst(queue[high])] = "held"]
          /\ count' = count - 1

\* buf_prio_queue_exchange of a packet that the caller holds.
PrioExchange(p, prio) ==
    /\ where[p] = "held"
    /\ dropped' = {}
    /\ LET above == {i \in NotEmpty : i >= prio}
       IN  \/ /\ count <= 0 \/ above = {}
              /\ got' = {p}
              /\ UNCHANGED <<count, queue, where>>
           \/ /\ count > 0 /\ above # {}
              /\ got' = {RingFirst(queue[Max(above)])}
              /\ queue' = [[queue EXCEPT ![Max(above)] = RingRest(@)] EXCEPT
                              ![prio] = RingPut(@, p)]
              /\ where' = [where EXCEPT ![p] = "queued",
                                        ![RingFirst(queue[Max(above)])] = "held"]
              /\ UNCHANGED count

PrioNext ==
    \/ \E p \in Packets : PrioAllocate(p) \/ PrioFree(p)
    \/ \E p \in Packets, prio \in Prios :
          PrioPutInRoom(p, prio) \/ PrioPutEvicting(p, prio) \/ PrioPutRefused(p, prio) \/ PrioExchange(p, prio)
    \/ PrioGet

PrioSpec == PrioInit /\ [][PrioNext]_prioVars

-----------------------------------------------------------------------------
PrioTypeOK ==
    /\ count \in 0 .. Size
    /\ queue \in [Prios -> RingType]
    /\ where \in [Packets -> {"free", "held", "queued"}]
    /\ got \in SUBSET Packets /\ dropped \in SUBSET Packets

\* The places of the rings that hold packets: of which ring, and how old.
InUse == UNION {{i} \X (1 .. queue[i].count) : i \in Prios}

\* The two kinds of counters agree, which the get asserts (buf-prio.c:28) and
\* the put relies on: no ring is ever fuller than the whole, so that the
\* assert of buf_queue_put (buf-queue.c:36) holds; and the rings hold the
\* queued packets, each of them once.
CountsAgree ==
    /\ count = Cardinality(InUse)
    /\ Cardinality({p \in Packets : where[p] = "queued"}) = count
    /\ \A p \in Packets : where[p] = "queued" =>
          \E i \in Prios : \E j \in 1 .. queue[i].count : RingContents(queue[i])[j] = p

\* What the rings hold is a queue with priorities: the right packet leaves
\* first, and a full queue throws the right packet away.
APrioFifo == INSTANCE PrioFifo WITH waiting <- [i \in Prios |-> RingContents(queue[i])]

ImplementsPrioFifo == APrioFifo!Spec
=============================================================================
