-------------------------------- MODULE Fifo --------------------------------
(***************************************************************************)
(* A bounded FIFO of packets: what buf_queue_t, mem_queue_t and the queues *)
(* of sockets promise to their users.                                      *)
(***************************************************************************)
EXTENDS Naturals, Sequences

CONSTANTS
    Packets,
    Size        \* how many packets it holds

VARIABLES
    fifo,       \* the packets in it, the oldest first
    got         \* the packets the last call took out, the oldest first

vars == <<fifo, got>>

Init == fifo = <<>> /\ got = <<>>

Put(p) ==
    /\ Len(fifo) < Size
    /\ fifo' = Append(fifo, p)
    /\ got' = <<>>

Get ==
    /\ fifo # <<>>
    /\ fifo' = Tail(fifo)
    /\ got' = <<Head(fifo)>>

\* Everything is taken out at once.
Clean ==
    /\ fifo' = <<>>
    /\ got' = fifo

\* A call that finds nothing to do.
CallIdle ==
    /\ got' = <<>>
    /\ UNCHANGED fifo

Next ==
    \/ \E p \in Packets : Put(p)
    \/ Get
    \/ Clean
    \/ CallIdle

Spec == Init /\ [][Next]_vars
=============================================================================
