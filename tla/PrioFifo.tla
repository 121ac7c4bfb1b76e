------------------------------ MODULE PrioFifo ------------------------------
(***************************************************************************)
(* A bounded queue of packets with priorities: what buf_prio_queue_t       *)
(* promises.  What leaves first is of the highest priority, and among      *)
(* those the oldest; when the queue is full a new packet displaces the     *)
(* oldest one of the lowest priority, but never one of a higher priority   *)
(* than its own.                                                           *)
(***************************************************************************)
EXTENDS Integers, Sequences, FiniteSetsExt

CONSTANTS
    Packets,
    Prios,      \* the priorities, integers
    Size        \* how many packets it holds in all

VARIABLES
    waiting,    \* of each priority, the packets that wait, the oldest first
    got,        \* the packet the last call handed to its caller, if any
    dropped     \* the packet the last call threw away, if any

vars == <<waiting, got, dropped>>

Busy   == {i \in Prios : waiting[i] # <<>>}
Count  == Cardinality(UNION {{i} \X DOMAIN waiting[i] : i \in Prios})
Oldest(i) == Head(waiting[i])

Init ==
    /\ waiting = [i \in Prios |-> <<>>]
    /\ got = {}
    /\ dropped = {}

Put(p, prio) ==
    /\ got' = {}
    /\ \/ /\ Count < Size
          /\ waiting' = [waiting EXCEPT ![prio] = Append(@, p)]
          /\ dropped' = {}
       \/ /\ Count = Size
          /\ Min(Busy) <= prio
          /\ dropped' = {Oldest(Min(Busy))}
          /\ waiting' = [[waiting EXCEPT ![Min(Busy)] = Tail(@)] EXCEPT
                            ![prio] = Append(@, p)]
       \/ /\ Count = Size
          /\ Min(Busy) > prio
          /\ dropped' = {p}
          /\ UNCHANGED waiting

Get ==
    /\ dropped' = {}
    /\ \/ /\ Busy = {}
          /\ got' = {}
          /\ UNCHANGED waiting
       \/ /\ Busy # {}
          /\ got' = {Oldest(Max(Busy))}
          /\ waiting' = [waiting EXCEPT ![Max(Busy)] = Tail(@)]

\* p goes in and the packet that must leave before it comes out, which is p
\* itself when every packet has a lower priority.
Exchange(p, prio) ==
    /\ dropped' = {}
    /\ \/ /\ \A i \in Busy : i < prio
          /\ got' = {p}
          /\ UNCHANGED waiting
       \/ /\ \E i \in Busy : i >= prio
          /\ got' = {Oldest(Max(Busy))}
          /\ waiting' = [[waiting EXCEPT ![Max(Busy)] = Tail(@)] EXCEPT
                            ![prio] = Append(@, p)]

CallIdle ==
    /\ got' = {} /\ dropped' = {}
    /\ UNCHANGED waiting

Next ==
    \/ \E p \in Packets, prio \in Prios : Put(p, prio) \/ Exchange(p, prio)
    \/ Get
    \/ CallIdle

Spec == Init /\ [][Next]_vars
=============================================================================
