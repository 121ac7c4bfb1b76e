----------------------------- MODULE MCServices -----------------------------
(***************************************************************************)
(* Instances of the libraries and drivers for TLC.  They share no state:   *)
(* the initial state names the one that is used, and the others stay as    *)
(* they are.                                                               *)
(***************************************************************************)
EXTENDS BufQueue, BufPrio, MemPool, Timer, Pipe, UartOut, UartIn, Tcp, Udp

VARIABLE used   \* the library that this behaviour is about

vars == <<used, queueVars, prioVars, poolVars, timerVars, pipeVars, outVars, inVars, tcpVars,
          udpVars>>

\* Two chunks with a gap between them, sizes as on MSP430 without MEM_DEBUG.
ChunksDef == <<[start |-> 36, stop |-> 46], [start |-> 0, stop |-> 30]>>

Init ==
    /\ used \in {"buf-queue", "buf-prio", "mem", "timer", "pipe", "uart out", "uart in",
                "tcp", "udp"}
    /\ QueueInit /\ PrioInit /\ PoolInit /\ TimerInit /\ PipeInit /\ OutInit /\ InInit
    /\ TcpInit /\ UdpInit
    \* One of TcpInit's states is enough where another library is used.
    /\ used # "tcp" => /\ \A w \in Windows : w <= rcv.tcpwnd
                       /\ snd.wl1 = CHOOSE e \in Edges : TRUE

Next ==
    /\ UNCHANGED used
    /\ IF used = "buf-queue" THEN QueueNext ELSE UNCHANGED queueVars
    /\ IF used = "buf-prio" THEN PrioNext ELSE UNCHANGED prioVars
    /\ IF used = "mem" THEN PoolNext ELSE UNCHANGED poolVars
    /\ IF used = "timer" THEN TimerNext ELSE UNCHANGED timerVars
    /\ IF used = "pipe" THEN PipeNext ELSE UNCHANGED pipeVars
    /\ IF used = "uart out" THEN OutNext ELSE UNCHANGED outVars
    /\ IF used = "uart in" THEN InNext ELSE UNCHANGED inVars
    /\ IF used = "tcp" THEN TcpNext ELSE UNCHANGED tcpVars
    /\ IF used = "udp" THEN UdpNext ELSE UNCHANGED udpVars

\* The timer ticks, the transmitter sends and interrupts; a task that has the
\* lock of either, or a handler that was switched away from, goes on; and a
\* woken task gets the lock if it is free again and again.  TCP's retransmission
\* timer runs out, and its tasks go on once they have a lock, or data; nothing is
\* assumed of the network.
Fairness ==
    /\ WF_timerVars(used = "timer" /\ (Tick \/ TickWhileLocked))
    /\ WF_timerVars(used = "timer" /\ (\/ \E s \in Watchers : ReadDone(s)
                                       \/ \E s \in Sleepers : DelayReturn(s) \/ DelayWait(s)))
    /\ \A s \in Sleepers : SF_timerVars(used = "timer" /\ DelayRelock(s))
    /\ WF_outVars(used = "uart out" /\ ByteShifted)
    /\ WF_outVars(used = "uart out" /\ TransmitInterrupt)
    /\ WF_outVars(used = "uart out" /\ \E t \in Writers : Working(t))
    /\ SF_outVars(used = "uart out" /\ HandlerResumes)
    /\ SF_outVars(used = "uart out" /\ CtsReady(Poller))
    /\ \A t \in Senders : SF_outVars(used = "uart out" /\ Rewait(t))
    /\ WF_tcpVars(used = "tcp" /\ (SlowTimerGivesUp \/ SlowTimerRexmits))
    /\ WF_tcpVars(used = "tcp" /\ (TcpRead \/ TcpReadAcks))
    /\ WF_tcpVars(used = "tcp" /\ TcpWritten)

Spec == Init /\ [][Next]_vars /\ Fairness

\* Type correctness of every library.
TypeOK ==
    /\ QueueTypeOK /\ PrioTypeOK /\ PoolTypeOK /\ TimerTypeOK /\ PipeTypeOK
    /\ OutTypeOK /\ InTypeOK /\ TcpTypeOK /\ UdpTypeOK
=============================================================================
