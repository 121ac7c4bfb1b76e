-------------------------------- MODULE Pipe --------------------------------
(***************************************************************************)
(* The pipe of stream/pipe.c: two rings of characters, one in each         *)
(* direction between a master and a slave stream, under one lock on which  *)
(* every waiting task of either end sleeps.  A call runs with the lock     *)
(* from its start, or from its waking, to its return or its next wait:     *)
(* that is one action.                                                     *)
(*                                                                         *)
(* The two ends are mirror images in the code; here the ring of an end is  *)
(* the one it writes: out_fifo is the master's, in_fifo the slave's.       *)
(***************************************************************************)
EXTENDS Integers, Sequences

CONSTANTS
    Masters, Slaves,    \* the tasks at either end
    MasterChars, SlaveChars,    \* the characters that either end writes
    FifoChars,          \* u->fifo_chars
    Nothing             \* what a place holds that the ring does not reach

ASSUME PipeConstants ==
    /\ FifoChars \in Nat /\ FifoChars > 1   \* the assert of pipe_init
    /\ Masters \cap Slaves = {}
    /\ Nothing \notin MasterChars \cup SlaveChars

Ends  == {"master", "slave"}
Callers == Masters \cup Slaves
End(t)  == IF t \in Masters THEN "master" ELSE "slave"
Peer(t) == IF t \in Masters THEN "slave" ELSE "master"
Chars(e) == IF e = "master" THEN MasterChars ELSE SlaveChars

VARIABLES
    fifo,       \* of each end: its ring [data, first, last]
    closed,     \* of each end: it has been closed
    call,       \* of each task that waits, or is woken: [op, char, asleep]
    read        \* of each ring: what the last call took out of it

pipeVars == <<fifo, closed, call, read>>

NoCall == [op |-> "none", char |-> Nothing, asleep |-> FALSE]

\* Fault: the pointer wraps one place late, onto the place past the ring.
AfterLate(i) == IF i >= FifoChars THEN 0 ELSE i + 1

After(i) == IF i + 1 >= FifoChars THEN 0 ELSE i + 1

\* Fault: the last place is used too, so that a full ring looks empty.
FullToTheBrim(r) == FALSE

IsFull(r)  == After(r.last) = r.first
IsEmpty(r) == r.first = r.last

\* The characters in a ring, the oldest first.
Reached(r)  == (r.last - r.first + FifoChars) % FifoChars
Contents(r) == [i \in 1 .. Reached(r) |-> r.data[(r.first + i - 1) % FifoChars]]

PipeInit ==
    /\ fifo = [e \in Ends |->
                 [data |-> [i \in 0 .. FifoChars - 1 |-> Nothing], first |-> 0, last |-> 0]]
    /\ closed = [e \in Ends |-> FALSE]
    /\ call = [t \in Callers |-> NoCall]
    /\ read = [e \in Ends |-> <<>>]

\* Fault: the signal wakes one waiter only.
WokenOne ==
    IF \E t \in Callers : call[t].asleep
    THEN [call EXCEPT ![CHOOSE t \in Callers : call[t].asleep].asleep = FALSE]
    ELSE call

\* mutex_signal of the pipe's lock wakes every task that waits on it.
AllWoken == [t \in Callers |-> [call[t] EXCEPT !.asleep = FALSE]]

\* A task runs in a call: from its start, or from its waking.  No call asks
\* whether its own end has been closed.
InCall(t, op, c) == call[t] \in {NoCall, [op |-> op, char |-> c, asleep |-> FALSE]}

Return(t) == call' = [call EXCEPT ![t] = NoCall]
Sleep(t, op, c) == call' = [call EXCEPT ![t] = [op |-> op, char |-> c, asleep |-> TRUE]]
ReadNothing == read' = [e \in Ends |-> <<>>]

\* The call changed the pipe: all waiters wake up, and it returns.
SignalReturn(t) == call' = [AllWoken EXCEPT ![t] = NoCall]

\* master_putchar, slave_putchar.
PutClosed(t, c) ==
    /\ InCall(t, "putchar", c)
    /\ closed[Peer(t)]
    /\ Return(t) /\ ReadNothing
    /\ UNCHANGED <<fifo, closed>>

PutWait(t, c) ==
    /\ InCall(t, "putchar", c)
    /\ ~ closed[Peer(t)]
    /\ IsFull(fifo[End(t)])
    /\ Sleep(t, "putchar", c) /\ ReadNothing
    /\ UNCHANGED <<fifo, closed>>

Put(t, c) ==
    /\ InCall(t, "putchar", c)
    /\ ~ closed[Peer(t)]
    /\ ~ IsFull(fifo[End(t)])
    /\ fifo' = [fifo EXCEPT ![End(t)].data[fifo[End(t)].last] = c,
                            ![End(t)].last = After(@)]
    /\ SignalReturn(t) /\ ReadNothing
    /\ UNCHANGED closed

\* master_getchar, slave_getchar: what was written before the close is read.
GetClosed(t) ==
    /\ InCall(t, "getchar", Nothing)
    /\ IsEmpty(fifo[Peer(t)])
    /\ closed[Peer(t)]
    /\ Return(t) /\ ReadNothing
    /\ UNCHANGED <<fifo, closed>>

GetWait(t) ==
    /\ InCall(t, "getchar", Nothing)
    /\ IsEmpty(fifo[Peer(t)])
    /\ ~ closed[Peer(t)]
    /\ Sleep(t, "getchar", Nothing) /\ ReadNothing
    /\ UNCHANGED <<fifo, closed>>

Get(t) ==
    /\ InCall(t, "getchar", Nothing)
    /\ ~ IsEmpty(fifo[Peer(t)])
    /\ LET r == fifo[Peer(t)]
       IN  /\ read' = [[e \in Ends |-> <<>>] EXCEPT ![Peer(t)] = <<r.data[r.first]>>]
           /\ fifo' = [fifo EXCEPT ![Peer(t)].data[r.first] = Nothing,
                                   ![Peer(t)].first = After(@)]
    /\ SignalReturn(t)
    /\ UNCHANGED closed

\* master_flush, slave_flush.
Flush(t) ==
    /\ InCall(t, "flush", Nothing)
    /\ IF ~ IsEmpty(fifo[End(t)]) /\ ~ closed[Peer(t)]
       THEN Sleep(t, "flush", Nothing)
       ELSE Return(t)
    /\ ReadNothing
    /\ UNCHANGED <<fifo, closed>>

\* master_close, slave_close, also in the middle of calls of other tasks: what is
\* in the ring that the end reads is thrown away.
Close(t) ==
    /\ call[t] = NoCall
    /\ closed' = [closed EXCEPT ![End(t)] = TRUE]
    /\ LET r == fifo[Peer(t)]
       IN  /\ fifo' = [fifo EXCEPT ![Peer(t)].first = r.last,
                                   ![Peer(t)].data = [i \in DOMAIN @ |-> Nothing]]
           /\ read' = [[e \in Ends |-> <<>>] EXCEPT ![Peer(t)] = Contents(r)]
    /\ call' = AllWoken

PipeNext ==
    \E t \in Callers :
        \/ \E c \in Chars(End(t)) : PutClosed(t, c) \/ PutWait(t, c) \/ Put(t, c)
        \/ GetClosed(t) \/ GetWait(t) \/ Get(t)
        \/ Flush(t)
        \/ Close(t)

PipeSpec == PipeInit /\ [][PipeNext]_pipeVars

-----------------------------------------------------------------------------
PipeTypeOK ==
    /\ \A e \in Ends : /\ fifo[e].first \in 0 .. FifoChars - 1
                       /\ fifo[e].last \in 0 .. FifoChars - 1
                       /\ Contents(fifo[e]) \in Seq(Chars(e))
    /\ closed \in [Ends -> BOOLEAN]
    /\ \A t \in Callers : call[t].op \in {"none", "putchar", "getchar", "flush"}

\* No task sleeps over a wakeup: what it waits for has not happened, whatever
\* the other tasks of both ends, which sleep on the same lock, did meanwhile.
NobodySleepsInVain ==
    \A t \in Callers : call[t].asleep =>
        CASE call[t].op = "putchar" -> IsFull(fifo[End(t)]) /\ ~ closed[Peer(t)]
          [] call[t].op = "getchar" -> IsEmpty(fifo[Peer(t)]) /\ ~ closed[Peer(t)]
          [] call[t].op = "flush"   -> ~ IsEmpty(fifo[End(t)]) /\ ~ closed[Peer(t)]

\* Each direction is a FIFO of fifo_chars - 1 characters, which a close of its
\* reader's end empties: nothing else is lost, and nothing doubled, swapped, or
\* read by the wrong end.
AOut == INSTANCE Fifo WITH
            Packets <- MasterChars, Size <- FifoChars - 1,
            fifo <- Contents(fifo["master"]), got <- read["master"]

AIn == INSTANCE Fifo WITH
            Packets <- SlaveChars, Size <- FifoChars - 1,
            fifo <- Contents(fifo["slave"]), got <- read["slave"]

ImplementsStreams == AOut!Spec /\ AIn!Spec
=============================================================================
