------------------------------- MODULE UartOut -------------------------------
(***************************************************************************)
(* The transmitting half of uart/uart.c on MSP430: the ring that           *)
(* uart_putchar fills and uart_transmit_start empties, the latter both     *)
(* from the calls and as the fast handler of the transmit interrupt.  The  *)
(* handler's mutex_signal may switch to a task that it woke: the rest of   *)
(* the handler then runs later, when that task waits again.                *)
(***************************************************************************)
EXTENDS Integers, Sequences

CONSTANTS
    Senders, Flushers,  \* tasks that call uart_putchar, and uart_fflush
    Poller,             \* the task that calls uart_cts_ready
    OutBytes,           \* what is sent
    LF, CR,    \* '\n', and the '\r' that onlcr sends after it
    OutBufSize,         \* UART_OUTBUFSZ
    MaxSuspended,       \* how many handlers may be waiting to go on
    NoSender

ASSUME OutConstants ==
    /\ OutBufSize \in Nat /\ OutBufSize > 1
    /\ MaxSuspended \in Nat
    /\ LF \in OutBytes /\ CR # LF
    /\ Senders \cap Flushers = {}    \* a task here does the one or the other
    /\ NoSender \notin Senders \cup Flushers \cup {Poller}

Writers == Senders \cup Flushers \cup {Poller}

VARIABLES
    out,        \* the ring [data, first, last] of out_buf, out_first, out_last
    port,       \* enabled, TXEPT (empty), UTXIE (ie), UTXIFG (flag), TXBUF
    line,       \* what the last step moved from TXBUF to the line
    cts,        \* "on", "off", or "ready": on again, uart_cts_ready to be called
    outHolder,  \* the master of u->transmitter
    outPending, \* its interrupt is pending
    suspended,  \* handlers that were switched away from in their mutex_signal
    writer      \* of each task: where it is in its call, c and newlast

outVars == <<out, port, line, cts, outHolder, outPending, suspended, writer>>

Absent == [pc |-> "absent", c |-> CR, newlast |-> 0]

OutInit ==
    /\ out = [data |-> [i \in 0 .. OutBufSize - 1 |-> CR], first |-> 0, last |-> 0]
    /\ port = [enabled |-> FALSE, empty |-> TRUE, ie |-> FALSE, flag |-> TRUE, buf |-> <<>>]
    /\ line = <<>>
    /\ cts = "on"
    /\ outHolder = NoSender /\ outPending = FALSE
    /\ suspended = 0
    /\ writer = [t \in Writers |-> Absent]

Step(i) == IF i + 1 >= OutBufSize THEN 0 ELSE i + 1

OutEmpty == out.first = out.last

\* The bytes between the pointers, the oldest first.
Buffered ==
    [i \in 1 .. (out.last - out.first + OutBufSize) % OutBufSize |->
        out.data[(out.first + i - 1) % OutBufSize]]

\* mutex_activate, of the tasks as they are in w.
Roused(w) == [t \in Writers |-> IF w[t].pc = "asleep" THEN [w[t] EXCEPT !.pc = "woken"] ELSE w[t]]

-----------------------------------------------------------------------------
\* Fault: the interrupt is not enabled after a byte is sent.
TransmitSilently(o, p) ==
    IF ~ p.empty
    THEN [out |-> o, port |-> p, expected |-> TRUE]
    ELSE IF o.first = o.last \/ cts = "off"
    THEN [out |-> o, port |-> [p EXCEPT !.ie = FALSE], expected |-> FALSE]
    ELSE [out |-> [o EXCEPT !.first = Step(@), !.data[o.first] = CR],
          port |-> [p EXCEPT !.empty = FALSE, !.flag = FALSE, !.buf = <<o.data[o.first]>>],
          expected |-> TRUE]

\* Fault: it is not tested whether the transmitter is empty.
TransmitOver(o, p) ==
    IF o.first = o.last \/ cts = "off"
    THEN [out |-> o, port |-> [p EXCEPT !.ie = FALSE], expected |-> FALSE]
    ELSE [out |-> [o EXCEPT !.first = Step(@), !.data[o.first] = CR],
          port |-> [p EXCEPT !.empty = FALSE, !.ie = TRUE, !.flag = FALSE,
                             !.buf = <<o.data[o.first]>>],
          expected |-> TRUE]

\* uart_transmit_start after its mutex_signal: the ring, the port, and whether
\* an interrupt is expected, which is what it returns.  Where the ring does not
\* reach, the model holds a '\r'.
Transmit(o, p) ==
    IF ~ p.empty
    THEN [out |-> o, port |-> p, expected |-> TRUE]
    ELSE IF o.first = o.last \/ cts = "off"
    THEN [out |-> o, port |-> [p EXCEPT !.ie = FALSE], expected |-> FALSE]
    ELSE [out |-> [o EXCEPT !.first = Step(@), !.data[o.first] = CR],
          port |-> [p EXCEPT !.empty = FALSE, !.ie = TRUE, !.flag = FALSE,
                             !.buf = <<o.data[o.first]>>],
          expected |-> TRUE]

\* The fast handler on a free lock, of the port as in p and the tasks as in w:
\* it runs to its end ...
HandlerRuns(p, w) ==
    LET r == Transmit(out, p)
    IN  /\ out' = r.out /\ port' = r.port
        /\ writer' = IF OutEmpty \/ ~ r.expected THEN Roused(w) ELSE w
        /\ UNCHANGED suspended

\* ... or its mutex_signal switches to a task that it woke.
HandlerSwitches(p, w) ==
    /\ OutEmpty
    /\ \E t \in Writers : w[t].pc = "asleep"
    /\ suspended < MaxSuspended
    /\ suspended' = suspended + 1
    /\ writer' = Roused(w)
    /\ port' = p
    /\ UNCHANGED out

Handler(p, w) == HandlerRuns(p, w) \/ HandlerSwitches(p, w)

\* The handler that was switched away from goes on.  It does so when the lock
\* is free: the woken task, of a higher priority, waits again or has returned.
HandlerResumes ==
    /\ suspended > 0
    /\ outHolder = NoSender
    /\ LET r == Transmit(out, port)
       IN  /\ out' = r.out /\ port' = r.port
           /\ writer' = IF r.expected THEN writer ELSE Roused(writer)
    /\ suspended' = suspended - 1
    /\ line' = <<>>
    /\ UNCHANGED <<cts, outHolder, outPending>>

\* The byte in TXBUF moves to the line, and the next one may be written.
ByteShifted ==
    /\ port.buf # <<>>
    /\ line' = port.buf
    /\ port' = [port EXCEPT !.buf = <<>>, !.flag = TRUE]
    /\ UNCHANGED <<out, cts, outHolder, outPending, suspended, writer>>

\* The byte has left the line: the transmitter is empty.
TransmitterEmpty ==
    /\ port.buf = <<>> /\ ~ port.empty
    /\ port' = [port EXCEPT !.empty = TRUE]
    /\ line' = <<>>
    /\ UNCHANGED <<out, cts, outHolder, outPending, suspended, writer>>

\* The transmit interrupt.  Its entry masks it and sets TXEPT.
TransmitInterrupt ==
    /\ port.ie /\ port.flag
    /\ LET p == [port EXCEPT !.ie = FALSE, !.flag = FALSE, !.empty = TRUE]
       IN  IF outHolder = NoSender
           THEN Handler(p, writer) /\ UNCHANGED outPending
           ELSE outPending' = TRUE /\ port' = p /\ UNCHANGED <<out, suspended, writer>>
    /\ line' = <<>>
    /\ UNCHANGED <<cts, outHolder>>

\* The other end stops the transmission and lets it go on.
CtsOff ==
    /\ cts # "off"
    /\ cts' = "off"
    /\ line' = <<>>
    /\ UNCHANGED <<out, port, outHolder, outPending, suspended, writer>>

CtsOn ==
    /\ cts = "off"
    /\ cts' = "ready"
    /\ line' = <<>>
    /\ UNCHANGED <<out, port, outHolder, outPending, suspended, writer>>

-----------------------------------------------------------------------------
\* The receive task's first steps enable the transmitter.
EnableTransmitter ==
    /\ ~ port.enabled
    /\ outHolder = NoSender
    /\ port' = [port EXCEPT !.enabled = TRUE]
    /\ line' = <<>>
    /\ UNCHANGED <<out, cts, outHolder, outPending, suspended, writer>>

\* A call takes the lock.
Enter(t, pc, c) ==
    /\ writer[t].pc = "absent"
    /\ outHolder = NoSender
    /\ outHolder' = t
    /\ writer' = [writer EXCEPT ![t] = [pc |-> pc, c |-> c,
                     newlast |-> IF pc = "putting" THEN Step(out.last) ELSE 0]]
    /\ line' = <<>>
    /\ UNCHANGED <<out, port, cts, outPending, suspended>>

Putchar(t, c) == Enter(t, IF port.enabled THEN "putting" ELSE "leaving", c)
Fflush(t)     == Enter(t, IF port.enabled THEN "flushing" ELSE "leaving", CR)
CtsReady(t)   == cts = "ready" /\ Enter(t, "starting", CR)

\* mutex_wait in the loop of t: a pending interrupt is served first, and if that
\* wakes the waiters, the wait returns at once.
Wait(t) ==
    /\ LET r == IF outPending THEN Transmit(out, port)
                ELSE [out |-> out, port |-> port, expected |-> TRUE]
       IN  /\ out' = r.out /\ port' = r.port
           /\ IF r.expected
              THEN writer' = [writer EXCEPT ![t].pc = "asleep"] /\ outHolder' = NoSender
              ELSE writer' = Roused(writer) /\ UNCHANGED outHolder
    /\ outPending' = FALSE
    /\ line' = <<>>
    /\ UNCHANGED <<cts, suspended>>

\* ... which takes the lock again.
Rewait(t) ==
    /\ writer[t].pc = "woken"
    /\ outHolder = NoSender
    /\ outHolder' = t
    /\ writer' = [writer EXCEPT ![t].pc = IF t \in Senders THEN "putting" ELSE "flushing"]
    /\ line' = <<>>
    /\ UNCHANGED <<out, port, cts, outPending, suspended>>

PutcharWaits(t) ==
    /\ writer[t].pc = "putting"
    /\ out.first = writer[t].newlast
    /\ Wait(t)

\* The byte is stored and the transmitter started; '\n' is followed by '\r'.
PutcharStores(t) ==
    /\ writer[t].pc = "putting"
    /\ out.first # writer[t].newlast
    /\ LET r == Transmit([data  |-> [out.data EXCEPT ![out.last] = writer[t].c],
                          first |-> out.first,
                          last  |-> writer[t].newlast], port)
       IN  out' = r.out /\ port' = r.port
    /\ writer' = [writer EXCEPT ![t] =
                     IF writer[t].c = LF
                     THEN [pc |-> "putting", c |-> CR, newlast |-> Step(writer[t].newlast)]
                     ELSE [Absent EXCEPT !.pc = "leaving"]]
    /\ line' = <<>>
    /\ UNCHANGED <<cts, outHolder, outPending, suspended>>

FflushWaits(t) ==
    /\ writer[t].pc = "flushing"
    /\ ~ OutEmpty
    /\ Wait(t)

FflushEnds(t) ==
    /\ writer[t].pc = "flushing"
    /\ OutEmpty
    /\ writer' = [writer EXCEPT ![t].pc = "leaving"]
    /\ line' = <<>>
    /\ UNCHANGED <<out, port, cts, outHolder, outPending, suspended>>

\* uart_transmit_start in uart_cts_ready.
CtsStarts(t) ==
    /\ writer[t].pc = "starting"
    /\ LET r == Transmit(out, port)
       IN  out' = r.out /\ port' = r.port
    /\ writer' = [IF OutEmpty THEN Roused(writer) ELSE writer EXCEPT ![t].pc = "leaving"]
    /\ cts' = IF cts = "ready" THEN "on" ELSE cts
    /\ line' = <<>>
    /\ UNCHANGED <<outHolder, outPending, suspended>>

\* Fault: the pending interrupt is forgotten.
ServedNever(w) == writer' = w /\ UNCHANGED <<out, port, suspended>>

\* The interrupt that is pending when the lock is given up.
Served(w) ==
    IF outPending THEN Handler(port, w)
    ELSE writer' = w /\ UNCHANGED <<out, port, suspended>>

\* mutex_unlock.
Leave(t) ==
    /\ writer[t].pc = "leaving"
    /\ Served([writer EXCEPT ![t] = Absent])
    /\ outHolder' = NoSender
    /\ outPending' = FALSE
    /\ line' = <<>>
    /\ UNCHANGED cts

Hardware == ByteShifted \/ TransmitterEmpty \/ TransmitInterrupt

Working(t) ==
    \/ PutcharWaits(t) \/ PutcharStores(t)
    \/ FflushWaits(t) \/ FflushEnds(t)
    \/ CtsStarts(t) \/ Leave(t)

OutNext ==
    \/ Hardware \/ HandlerResumes
    \/ CtsOff \/ CtsOn
    \/ EnableTransmitter
    \/ \E t \in Senders : \E c \in OutBytes : Putchar(t, c)
    \/ \E t \in Flushers : Fflush(t)
    \/ CtsReady(Poller)
    \/ \E t \in Writers : Working(t) \/ Rewait(t)

OutSpec == OutInit /\ [][OutNext]_outVars

-----------------------------------------------------------------------------
OutTypeOK ==
    /\ out.first \in 0 .. OutBufSize - 1 /\ out.last \in 0 .. OutBufSize - 1
    /\ \A i \in 0 .. OutBufSize - 1 : out.data[i] \in OutBytes \cup {CR}
    /\ port.buf \in {<<>>} \cup {<<c>> : c \in OutBytes \cup {CR}}
    /\ cts \in {"on", "off", "ready"} /\ suspended \in 0 .. MaxSuspended
    /\ outPending => outHolder # NoSender
    /\ \A t \in Writers : outHolder = t <=>
          writer[t].pc \in {"putting", "flushing", "starting", "leaving"}

\* The transmitter never stalls: while there are bytes in the ring or somebody
\* sleeps until there are none, an interrupt is coming, pending, or being
\* handled, whatever the calls, the interrupts and CTS did to TXEPT and UTXIE.
TransmitterRuns ==
    (~ OutEmpty \/ \E t \in Writers : writer[t].pc = "asleep") /\ cts = "on" =>
        \/ port.ie /\ (port.flag \/ port.buf # <<>>)
        \/ outPending
        \/ suspended > 0

\* What one task sends comes out on the line, every byte once and in order:
\* none is overwritten in the ring, nor in TXBUF by the next one, and '\r'
\* follows '\n'.
ALine == INSTANCE Fifo WITH
             Packets <- OutBytes \cup {CR}, Size <- OutBufSize,
             fifo <- port.buf \o Buffered, got <- line

ImplementsLine == ALine!Spec

\* uart_putchar returns, if CTS stays on.  (uart_fflush may wait for ever for
\* a ring that others keep filling.)
PutcharReturns ==
    <>[](cts = "on") =>
        \A t \in Senders : (writer[t].pc # "absent") ~> (writer[t].pc = "absent")
=============================================================================
