-------------------------------- MODULE Ring --------------------------------
(***************************************************************************)
(* The ring of buf/buf-queue.c, which mem/mem-queue.h repeats: a queue of  *)
(* packets in an array of size pointers.  The oldest packet is at tail,    *)
(* younger ones are at the places below it, modulo the size, and the count *)
(* is kept beside them: what tail and count do not reach is garbage.       *)
(*                                                                         *)
(* A ring is a record [slot, tail, count]; its operators are the C         *)
(* functions, from record to record.  Pointers into the array are indices. *)
(***************************************************************************)
EXTENDS Integers, Sequences

CONSTANTS
    Packets,    \* the buffers
    Size,       \* q->size
    Garbage     \* what an unwritten place holds

ASSUME RingConstants ==
    /\ Size \in Nat \ {0}
    /\ Garbage \notin Packets

Places == 0 .. Size - 1

RingType == [slot : [Places -> Packets \cup {Garbage}], tail : Places, count : 0 .. Size]

\* Fault: one place short of the end.
WrappedShort(i) == IF i < 0 THEN i + Size - 1 ELSE i

\* A pointer that a decrement or a subtraction has taken below the array
\* wraps to its end.
Wrapped(i) == IF i < 0 THEN i + Size ELSE i

RingInit == [slot |-> [i \in Places |-> Garbage], tail |-> 0, count |-> 0]

RingIsFull(q)  == q.count = Size
RingIsEmpty(q) == q.count = 0

\* The oldest packet, and the ring without it.
RingFirst(q) == q.slot[q.tail]

RingRest(q) == [slot |-> q.slot, tail |-> Wrapped(q.tail - 1), count |-> q.count - 1]

\* Fault: the place of the youngest packet, not the one below it.
RingPutOver(q, p) ==
    [slot  |-> [q.slot EXCEPT ![Wrapped(q.tail - q.count + 1)] = p],
     tail  |-> q.tail,
     count |-> q.count + 1]

RingPut(q, p) ==
    [slot  |-> [q.slot EXCEPT ![Wrapped(q.tail - q.count)] = p],
     tail  |-> q.tail,
     count |-> q.count + 1]

(***************************************************************************)
(* What the ring means: its packets, the oldest first.                     *)
(***************************************************************************)
RingContents(q) == [i \in 1 .. q.count |-> q.slot[Wrapped(q.tail - i + 1)]]
=============================================================================
