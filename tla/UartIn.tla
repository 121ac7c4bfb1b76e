------------------------------- MODULE UartIn -------------------------------
(***************************************************************************)
(* The receiving half of uart/uart.c on MSP430, port 0: the task           *)
(* uart_receiver, which each receive interrupt wakes to move a byte from   *)
(* RXBUF into a ring, and the tasks that read from it in uart_getchar.     *)
(* All of them wait on u->receiver, and only the interrupt signals it.     *)
(***************************************************************************)
EXTENDS Integers, Sequences

CONSTANTS
    Readers,
    Receiver,       \* the task uart_receiver
    InBytes,
    InBufSize,      \* UART_INBUFSZ
    NoByte,         \* what a place holds that the ring does not reach
    NoReader

ASSUME InConstants ==
    /\ InBufSize \in Nat /\ InBufSize > 1
    /\ Receiver \notin Readers /\ NoReader \notin Readers \cup {Receiver}
    /\ NoByte \notin InBytes

VARIABLES
    in,         \* the ring of in_buf, in_first and in_last
    rx,         \* the port: enabled, RXBUF (buf), not read yet (fresh),
                \* URXIFG (flag), URXIE (ie)
    came,       \* the byte that came in the last step
    gave,       \* the byte that uart_getchar returned in the last step
    inHolder,   \* the master of u->receiver
    pc          \* of each task: where it is

inVars == <<in, rx, came, gave, inHolder, pc>>

InInit ==
    /\ in = [data |-> [i \in 0 .. InBufSize - 1 |-> NoByte], first |-> 0, last |-> 0]
    /\ rx = [enabled |-> FALSE, buf |-> NoByte, fresh |-> FALSE, flag |-> FALSE, ie |-> FALSE]
    /\ came = <<>> /\ gave = <<>>
    /\ inHolder = NoReader
    /\ pc = [t \in Readers \cup {Receiver} |-> "absent"]

Further(i) == IF i + 1 >= InBufSize THEN 0 ELSE i + 1

InEmpty == in.first = in.last

Stored == [i \in 1 .. (in.last - in.first + InBufSize) % InBufSize |->
              in.data[(in.first + i - 1) % InBufSize]]

Silent == came' = <<>> /\ gave' = <<>>

-----------------------------------------------------------------------------
\* A byte arrives in RXBUF, over one that was not read in time.
ByteReceived(c) ==
    /\ rx.enabled
    /\ rx' = [rx EXCEPT !.buf = c, !.fresh = TRUE, !.flag = TRUE]
    /\ came' = <<c>> /\ gave' = <<>>
    /\ UNCHANGED <<in, inHolder, pc>>

\* Fault: one waiter is woken, and the others stay where they are.
WokenFirst == IF pc[Receiver] = "asleep" THEN [pc EXCEPT ![Receiver] = "woken"] ELSE pc

\* mutex_activate.
WokenAll == [t \in DOMAIN pc |-> IF pc[t] = "asleep" THEN "woken" ELSE pc[t]]

\* The interrupt, which has no fast handler: it masks itself, and wakes all
\* waiters even if the lock is busy.
ReceiveInterrupt ==
    /\ rx.ie /\ rx.flag
    /\ rx' = [rx EXCEPT !.ie = FALSE, !.flag = FALSE]
    /\ pc' = WokenAll
    /\ Silent
    /\ UNCHANGED <<in, inHolder>>

\* mutex_wait: the interrupt is allowed again, the lock released.
FallAsleep(t) ==
    /\ pc' = [pc EXCEPT ![t] = "asleep"]
    /\ rx' = [rx EXCEPT !.ie = TRUE]
    /\ inHolder' = NoReader
    /\ Silent
    /\ UNCHANGED in

Lock(t) ==
    /\ inHolder = NoReader
    /\ inHolder' = t
    /\ Silent

-----------------------------------------------------------------------------
\* uart_receiver: first ...
ReceiverStarts ==
    /\ pc[Receiver] = "absent"
    /\ Lock(Receiver)
    /\ rx' = [rx EXCEPT !.enabled = TRUE, !.ie = TRUE]
    /\ pc' = [pc EXCEPT ![Receiver] = "waiting"]
    /\ UNCHANGED in

ReceiverWaits ==
    /\ pc[Receiver] = "waiting"
    /\ FallAsleep(Receiver)

ReceiverRelocks ==
    /\ pc[Receiver] = "woken"
    /\ Lock(Receiver)
    /\ pc' = [pc EXCEPT ![Receiver] = "receiving"]
    /\ UNCHANGED <<in, rx>>

\* Fault: a byte that the ring has no room for is stored all the same.
OverflowStored(c) ==
    in' = [in EXCEPT !.data[in.last] = c, !.last = Further(@)]

\* "Ignore input on buffer overflow."
StoredUnlessFull(c) ==
    in' = IF Further(in.last) = in.first THEN in
          ELSE [in EXCEPT !.data[in.last] = c, !.last = Further(@)]

\* ... then a byte for each time it is woken.  On port 0 the test that there is
\* one is always true (uart/msp430.h:69).
ReceiverStores ==
    /\ pc[Receiver] = "receiving"
    /\ StoredUnlessFull(rx.buf)
    /\ rx' = [rx EXCEPT !.fresh = FALSE, !.flag = FALSE]
    /\ pc' = [pc EXCEPT ![Receiver] = "waiting"]
    /\ Silent
    /\ UNCHANGED inHolder

\* uart_getchar.
Getchar(t) ==
    /\ pc[t] \in {"absent", "woken"}
    /\ Lock(t)
    /\ pc' = [pc EXCEPT ![t] = "testing"]
    /\ UNCHANGED <<in, rx>>

GetcharWaits(t) ==
    /\ pc[t] = "testing"
    /\ InEmpty
    /\ FallAsleep(t)

GetcharReturns(t) ==
    /\ pc[t] = "testing"
    /\ ~ InEmpty
    /\ gave' = <<in.data[in.first]>> /\ came' = <<>>
    /\ in' = [in EXCEPT !.data[in.first] = NoByte, !.first = Further(@)]
    /\ pc' = [pc EXCEPT ![t] = "absent"]
    /\ inHolder' = NoReader
    /\ UNCHANGED rx

InNext ==
    \/ \E c \in InBytes : ByteReceived(c)
    \/ ReceiveInterrupt
    \/ ReceiverStarts \/ ReceiverWaits \/ ReceiverRelocks \/ ReceiverStores
    \/ \E t \in Readers : Getchar(t) \/ GetcharWaits(t) \/ GetcharReturns(t)

InSpec == InInit /\ [][InNext]_inVars

-----------------------------------------------------------------------------
InTypeOK ==
    /\ in.first \in 0 .. InBufSize - 1 /\ in.last \in 0 .. InBufSize - 1
    /\ Stored \in Seq(InBytes)
    /\ rx.buf \in InBytes \cup {NoByte}
    /\ \A t \in DOMAIN pc :
          inHolder = t <=> pc[t] \in {"waiting", "receiving", "testing"}

\* uart_receiver stores a byte without a signal.  A reader that found the ring
\* empty just before the interrupt sleeps with that byte in the ring, but never
\* with two: the interrupt of the next byte wakes it.
ReaderMissesOneByte ==
    \A t \in Readers : pc[t] = "asleep" => Len(Stored) <= 1

\* What is read was received, in that order, no byte twice, and a byte is lost
\* only in RXBUF or when the ring is full.
ALossy == INSTANCE LossyFifo WITH
              Packets <- InBytes, Size <- InBufSize,
              fifo <- Stored \o (IF rx.fresh THEN <<rx.buf>> ELSE <<>>), got <- gave

ImplementsReception == ALossy!Spec
=============================================================================
