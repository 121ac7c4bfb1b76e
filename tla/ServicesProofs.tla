--------------------------- MODULE ServicesProofs ---------------------------
(***************************************************************************)
(* The libraries side by side, as MCServices has them: what is proved of   *)
(* each by itself holds of all of them together.                           *)
(***************************************************************************)
EXTENDS MCServices, QueueProofs, DriverProofs, PoolProofs, TcpProofs

\* The libraries share no variable, and each is moved by its own actions alone.
LEMMA StepsAreSeparate ==
    [Next]_vars => /\ [QueueNext]_queueVars /\ [PrioNext]_prioVars /\ [PoolNext]_poolVars
                   /\ [TimerNext]_timerVars /\ [PipeNext]_pipeVars /\ [OutNext]_outVars
                   /\ [InNext]_inVars /\ [TcpNext]_tcpVars /\ [UdpNext]_udpVars
<1>1. CASE Next BY <1>1 DEF Next
<1>2. CASE UNCHANGED vars BY <1>2 DEF vars
<1>3. QED BY <1>1, <1>2

LEMMA StartsAreSeparate ==
    Init => /\ QueueInit /\ PrioInit /\ PoolInit /\ TimerInit /\ PipeInit /\ OutInit /\ InInit
            /\ TcpInit /\ UdpInit
BY DEF Init

\* Each library behaves as by itself, so that every theorem of a library holds
\* here as well.
LEMMA LibrariesBehave ==
    Spec => /\ QueueSpec /\ PrioSpec /\ PoolSpec /\ TimerSpec /\ PipeSpec /\ OutSpec /\ InSpec
            /\ TcpInit /\ [][TcpNext]_tcpVars /\ UdpSpec
BY StartsAreSeparate, StepsAreSeparate, PTL
DEF Spec, QueueSpec, PrioSpec, PoolSpec, TimerSpec, PipeSpec, OutSpec, InSpec, UdpSpec

\* The queues, the pool, the timer, the pipe, the UART, TCP and UDP keep the types
\* of their data, the pointers into rings and lists among them, in any call and
\* interrupt, if one task at a time is in uart_putchar.
THEOREM ServicesTypeCorrect ==
    ASSUME OneSender
    PROVE  Spec => []TypeOK
<1>1. Spec => []TcpInv BY TcpInvariant, LibrariesBehave, PTL
<1>2. TcpInv => TcpTypeOK BY TcpInvTypes
<1>3. OutSpec => [](OutTypeOK /\ TransmitterRuns) BY TransmitterNeverStalls
<1>4. /\ QueueTypeOK /\ PrioTypeOK /\ PoolTypeOK /\ TimerTypeOK /\ PipeTypeOK
      /\ OutTypeOK /\ InTypeOK /\ TcpTypeOK /\ UdpTypeOK
      => TypeOK
  BY DEF TypeOK
<1>5. QED
  BY <1>1, <1>2, <1>3, <1>4, LibrariesBehave, RingIsSound, CountsOfTheQueueAgree, PoolStaysSound,
     NobodyOversleepsOnTheClock, NobodySleepsInVainOnThePipe, ReadersMissAtMostOneByte,
     NoDatagramGetsLost, PTL
=============================================================================
