------------------------------ MODULE LossyFifo ------------------------------
(***************************************************************************)
(* A FIFO in front of which a byte may be lost: the youngest one, when     *)
(* another comes too early or when there is no room.  What is read was     *)
(* received, in that order, and no byte is read twice.                     *)
(***************************************************************************)
EXTENDS Naturals, SequencesExt

CONSTANTS
    Packets,
    Size        \* how many it holds

VARIABLES
    fifo,       \* the packets in it, the oldest first
    got,        \* the packet that was read last
    came        \* the packet that came last

vars == <<fifo, got, came>>

Init == fifo = <<>> /\ got = <<>> /\ came = <<>>

Come(p) ==
    /\ \/ Len(fifo) < Size /\ fifo' = Append(fifo, p)
       \/ fifo # <<>> /\ fifo' = Append(Front(fifo), p)
    /\ came' = <<p>>
    /\ got' = <<>>

Get ==
    /\ fifo # <<>>
    /\ fifo' = Tail(fifo)
    /\ got' = <<Head(fifo)>>
    /\ came' = <<>>

Lose ==
    /\ Len(fifo) = Size
    /\ fifo' = Front(fifo)
    /\ got' = <<>> /\ came' = <<>>

CallIdle ==
    /\ got' = <<>> /\ came' = <<>>
    /\ UNCHANGED fifo

Next == \/ \E p \in Packets : Come(p)
        \/ Get \/ Lose \/ CallIdle

Spec == Init /\ [][Next]_vars
=============================================================================
