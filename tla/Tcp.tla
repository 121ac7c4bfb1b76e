-------------------------------- MODULE Tcp ---------------------------------
(***************************************************************************)
(* An established connection of net/tcp-in.c, tcp-out.c, tcp.c and         *)
(* tcp-user.c: the side that connected writes, the other side reads, and   *)
(* the network between them loses, doubles and reorders what they send.    *)
(*                                                                         *)
(* The reader's side sends nothing but acknowledgements, so its sequence   *)
(* number stands still, the writer's side never owes one, and snd_nxt,     *)
(* which only those carry, is left out.  The congestion window is any of   *)
(* Cwnds: it is never below a segment.  The retransmission timer may run   *)
(* out at any slow tick.                                                   *)
(*                                                                         *)
(* The ip task handles a message, or a tick, with ip->lock and s->lock.    *)
(* tcp_write queues with s->lock alone, and then sends with ip->lock       *)
(* alone: each excludes the ip task, but not the other.  Rule of use: one  *)
(* call of tcp_write at a time.  A second one may queue while the first    *)
(* sends, and no list survives that: see README.                           *)
(***************************************************************************)
EXTENDS Integers, Sequences, FiniteSets, SequencesExt

CONSTANTS
    Total,          \* Bound: how many bytes are written
    Lengths,        \* how many a call of tcp_write writes
    MSS, SndBuf, SndQueueLen, MaxRtx, QueueSize,
    Windows,        \* what TCP_WND may be at the reader's side
    Cwnds,          \* what the congestion window may be
    Edges,          \* how snd_wl1 may compare with the reader's sequence number
    SeqWord,        \* the range of a sequence number, 2^32 in the code
    Iss,            \* the first sequence number
    NrtxWord,       \* the range of nrtx, 256 in the code
    NetSize         \* Bound: messages in the network

ASSUME TcpConstants ==
    /\ {MSS, SndBuf, SndQueueLen, MaxRtx, QueueSize, SeqWord, NrtxWord} \subseteq Nat \ {0}
    /\ Total \in Nat /\ Lengths \subseteq Nat \ {0}
    /\ Windows \subseteq Nat /\ Cwnds \subseteq Nat
    /\ \A w \in Windows : 2 * (w + MSS) < SeqWord /\ w + MSS <= 2 ^ 16
    /\ Total < SeqWord \div 2 /\ Iss \in 0 .. SeqWord - 1
    /\ \A c \in Cwnds : c >= MSS
    /\ MaxRtx < NrtxWord
    \* The code does not ensure this: see README.
    /\ \A w \in Windows : w <= QueueSize

VARIABLES
    snd,        \* the writer's socket
    rcv,        \* the reader's socket
    net,        \* the messages under way: segments [seq, data], and [ack, wnd]
    writing,    \* whether a tcp_write has yet to send what it has queued
    received    \* what tcp_read has returned

tcpVars == <<snd, rcv, net, writing, received>>

-----------------------------------------------------------------------------
\* Sequence numbers are compared by the sign of their difference.
SeqAdd(a, n) == (a + n) % SeqWord
SeqLT(a, b)  == (a - b + SeqWord) % SeqWord >= SeqWord \div 2
SeqLEQ(a, b) == a = b \/ SeqLT(a, b)

SegEnd(g) == SeqAdd(g.seq, Len(g.data))

\* Byte k of the stream is the number k.
Position(seq) == (seq - Iss + SeqWord) % SeqWord

TcpInit ==
    /\ \E w \in Windows, edge \in Edges :
          /\ snd = [unsent |-> <<>>, unacked |-> <<>>, state |-> "ESTABLISHED",
                    max |-> Iss, lastack |-> Iss, lbb |-> Iss,
                    wnd |-> w, wl1 |-> edge, wl2 |-> Iss,
                    buf |-> SndBuf - 1, queuelen |-> 0,
                    dupacks |-> 0, infr |-> FALSE, nrtx |-> 0]
          /\ rcv = [nxt |-> Iss, wnd |-> w, tcpwnd |-> w, queue |-> <<>>,
                    ackdelay |-> FALSE, reading |-> FALSE]
    /\ net = {}
    /\ writing = FALSE
    /\ received = <<>>

-----------------------------------------------------------------------------
\* A loop that takes the first of len segments as long as the first is of G: how
\* many it takes.
Leading(len, G) ==
    CHOOSE n \in 0 .. len : 1 .. n \subseteq G /\ (n < len => n + 1 \notin G)

\* tcp_output: the segments that fit the window go out, and then wait to be
\* acknowledged.
Fits(s, cwnd, g) ==
    SeqAdd(g.seq - s.lastack + SeqWord, Len(g.data)) <= (IF s.wnd < cwnd THEN s.wnd ELSE cwnd)

Sendable(s, cwnd) ==
    LET len == Len(s.unsent)
    IN  SubSeq(s.unsent, 1, Leading(len, {i \in 1 .. len : Fits(s, cwnd, s.unsent[i])}))

TcpOutput(s, cwnd) ==
    LET sent == Sendable(s, cwnd)
        last == SegEnd(sent[Len(sent)])
    IN  IF sent = <<>> THEN s
        ELSE [s EXCEPT !.unsent = SubSeq(@, Len(sent) + 1, Len(@)),
                       !.unacked = @ \o sent,
                       !.max = IF SeqLT(@, last) THEN last ELSE @]

\* What arrives may arrive again, and any of what is sent may be lost.
Network(arrived, sent) ==
    \E gone \in SUBSET arrived, kept \in SUBSET sent :
        /\ net' = (net \ gone) \cup kept
        /\ Cardinality(net') <= NetSize

SendFrom(s, arrived) ==
    \E cwnd \in Cwnds :
        /\ snd' = TcpOutput(s, cwnd)
        /\ Network(arrived, {[seq |-> g.seq, data |-> g.data] : g \in ToSet(Sendable(s, cwnd))})

\* Fault: what was sent goes behind what was not.
RexmitBehind(s) ==
    [s EXCEPT !.unsent = s.unsent \o s.unacked, !.unacked = <<>>, !.nrtx = (@ + 1) % NrtxWord]

\* Fault: the retransmissions are not counted.
RexmitUncounted(s) ==
    [s EXCEPT !.unsent = s.unacked \o s.unsent, !.unacked = <<>>]

\* tcp_rexmit: everything that is not acknowledged is to be sent again.
TcpRexmit(s) ==
    [s EXCEPT !.unsent = s.unacked \o s.unsent, !.unacked = <<>>, !.nrtx = (@ + 1) % NrtxWord]

-----------------------------------------------------------------------------
\* tcp_write: the data is cut into segments of MSS bytes.
Segmented(seq, data) ==
    [i \in 1 .. (Len(data) + MSS - 1) \div MSS |->
        LET from == (i - 1) * MSS
            upto == IF i * MSS < Len(data) THEN i * MSS ELSE Len(data)
        IN  [seq |-> SeqAdd(seq, from), data |-> SubSeq(data, from + 1, upto), bufs |-> 1]]

\* The first of them is chained to the last segment of the list, if there is
\* room in it; the others follow.
Linked(list, queue) ==
    IF list # <<>> /\ Len(Last(list).data) + Len(queue[1].data) <= MSS
    THEN Front(list)
         \o <<[Last(list) EXCEPT !.data = @ \o queue[1].data, !.bufs = @ + 1]>>
         \o Tail(queue)
    ELSE list \o queue

Enqueued(s, queue, len) ==
    [s EXCEPT !.unsent = Linked(@, queue),
              !.lbb = SeqAdd(@, len),
              !.buf = @ - len,
              !.queuelen = @ + Len(queue)]

\* A call that finds no room tries again every 100 ms.
TcpEnqueue(len) ==
    /\ ~ writing
    /\ snd.state = "ESTABLISHED"
    /\ Position(snd.lbb) + len <= Total
    /\ len <= snd.buf
    /\ snd.queuelen < SndQueueLen
    /\ snd' = Enqueued(snd, Segmented(snd.lbb, [i \in 1 .. len |-> Position(snd.lbb) + i]), len)
    /\ writing' = TRUE
    /\ UNCHANGED <<rcv, net, received>>

TcpWritten ==
    /\ writing
    /\ SendFrom(snd, {})
    /\ writing' = FALSE
    /\ UNCHANGED <<rcv, received>>

-----------------------------------------------------------------------------
\* tcp_receive at the writer's side, an acknowledgement arrives: the window.
WindowUpdate(s, m) ==
    IF \/ s.wl1 = "older"
       \/ s.wl1 = "same" /\ SeqLT(s.wl2, m.ack)
       \/ s.wl2 = m.ack /\ m.wnd > s.wnd
    THEN [s EXCEPT !.wnd = m.wnd, !.wl1 = "same", !.wl2 = m.ack]
    ELSE s

\* It acknowledges nothing new: the third of them has everything sent again.
\* Bound: dupacks counts to 3, which is all that is asked of it.
Duplicate(s, edge) ==
    LET n == IF s.dupacks < 3 THEN s.dupacks + 1 ELSE 3
        d == [s EXCEPT !.dupacks = n]
    IN  IF ~ edge THEN s
        ELSE IF n = 3 /\ s.unacked # <<>> /\ ~ s.infr
        THEN [TcpRexmit(d) EXCEPT !.infr = TRUE]
        ELSE d

Unacknowledged(list, ack) ==
    LET len == Len(list)
    IN  SubSeq(list, Leading(len, {i \in 1 .. len : SeqLEQ(SegEnd(list[i]), ack)}) + 1, len)

\* The buffers that the segments of a list are made of.
Bufs(list) ==
    LET upto[n \in 0 .. Len(list)] == IF n = 0 THEN 0 ELSE upto[n - 1] + list[n].bufs
    IN  upto[Len(list)]

\* It acknowledges new data, of which the sent segments are freed.
Progress(s, ack) ==
    LET rest == Unacknowledged(s.unacked, ack)
    IN  [s EXCEPT !.infr = FALSE, !.nrtx = 0, !.dupacks = 0, !.lastack = ack,
                  !.buf = @ + Position(ack) - Position(s.lastack),
                  !.unacked = rest,
                  !.queuelen = @ - (Bufs(s.unacked) - Bufs(rest))]

\* Segments to be sent again may be acknowledged before.
UnsentAcked(s, ack) ==
    LET rest == IF SeqLEQ(ack, s.max) THEN Unacknowledged(s.unsent, ack) ELSE s.unsent
    IN  [s EXCEPT !.unsent = rest, !.queuelen = @ - (Bufs(s.unsent) - Bufs(rest))]

Acknowledged(m) ==
    LET w == WindowUpdate(snd, m)
        a == IF m.ack = snd.lastack THEN Duplicate(w, w.wl1 = snd.wl1 /\ w.wnd = snd.wnd)
             ELSE IF SeqLT(snd.lastack, m.ack) /\ SeqLEQ(m.ack, snd.max) THEN Progress(w, m.ack)
             ELSE w
    IN  UnsentAcked(a, m.ack)

AckArrives(m) ==
    /\ "ack" \in DOMAIN m
    /\ snd.state = "ESTABLISHED"
    /\ SendFrom(Acknowledged(m), {m})
    /\ UNCHANGED <<rcv, writing, received>>

\* tcp_slowtmr, every 500 ms.
SlowTimerGivesUp ==
    /\ snd.state = "ESTABLISHED"
    /\ snd.nrtx = MaxRtx
    /\ snd' = [snd EXCEPT !.state = "CLOSED", !.unsent = <<>>, !.unacked = <<>>, !.queuelen = 0]
    /\ net' = {}      \* what is under way is not followed
    /\ UNCHANGED <<rcv, writing, received>>

SlowTimerRexmits ==
    /\ snd.state = "ESTABLISHED"
    /\ snd.nrtx # MaxRtx
    /\ snd.unacked # <<>>
    /\ SendFrom(TcpRexmit(snd), {})
    /\ UNCHANGED <<rcv, writing, received>>

-----------------------------------------------------------------------------
\* The reader's side: the acknowledgement that it would send now.
AckOf(r) == [ack |-> r.nxt, wnd |-> r.wnd]

AckNow(r, arrived) ==
    /\ rcv' = [r EXCEPT !.ackdelay = FALSE]
    /\ Network(arrived, {AckOf(r)})

\* tcp_ack: every second one is sent at once.
Ack(r, arrived) ==
    IF r.ackdelay THEN AckNow(r, arrived)
    ELSE rcv' = [r EXCEPT !.ackdelay = TRUE] /\ Network(arrived, {})

\* Fault: the data is not moved with the sequence number.
TrimmedNothing(m) ==
    IF SeqLT(m.seq, rcv.nxt) /\ SeqLT(rcv.nxt, SegEnd(m)) THEN [m EXCEPT !.seq = rcv.nxt]
    ELSE IF SeqLT(m.seq, rcv.nxt) THEN [m EXCEPT !.data = <<>>]
    ELSE m

\* What is left of a segment when what has been received is cut off.
Trimmed(m) ==
    IF SeqLT(m.seq, rcv.nxt)
    THEN [seq |-> rcv.nxt,
          data |-> SubSeq(m.data, Position(rcv.nxt) - Position(m.seq) + 1, Len(m.data))]
    ELSE m

InWindow(seq) == ~ SeqLT(seq, rcv.nxt) /\ SeqLT(seq, SeqAdd(rcv.nxt, rcv.wnd))

\* The next data in sequence goes to the application, if its queue has room.
Accepted(m) ==
    [rcv EXCEPT !.nxt = SeqAdd(@, Len(m.data)),
                !.wnd = IF @ < Len(m.data) THEN 0 ELSE @ - Len(m.data),
                !.queue = IF Len(@) = QueueSize THEN @ ELSE Append(@, m.data)]

SegmentArrives(m) ==
    /\ "seq" \in DOMAIN m
    /\ LET t == Trimmed(m)
       IN  IF t.data = <<>> THEN AckNow(rcv, {m})
           ELSE IF InWindow(t.seq) /\ t.seq = rcv.nxt THEN Ack(Accepted(t), {m})
           ELSE IF InWindow(t.seq) THEN AckNow(rcv, {m})
           ELSE UNCHANGED rcv /\ Network({m}, {})
    /\ UNCHANGED <<snd, writing, received>>

\* tcp_fasttmr, every 200 ms.
FastTimer ==
    /\ rcv.ackdelay
    /\ AckNow(rcv, {})
    /\ UNCHANGED <<snd, writing, received>>

\* tcp_read takes the first buffer, opens the window by its length, and then,
\* with ip->lock, sees to it that the window is advertised.
TcpRead ==
    /\ ~ rcv.reading
    /\ rcv.queue # <<>>
    /\ received' = received \o Head(rcv.queue)
    /\ LET wnd == rcv.wnd + Len(Head(rcv.queue))
       IN  rcv' = [rcv EXCEPT !.queue = Tail(@),
                              !.wnd = IF wnd > rcv.tcpwnd THEN rcv.tcpwnd ELSE wnd,
                              !.reading = TRUE]
    /\ UNCHANGED <<snd, net, writing>>

TcpReadAcks ==
    /\ rcv.reading
    /\ rcv' = [rcv EXCEPT !.reading = FALSE, !.ackdelay = TRUE]
    /\ UNCHANGED <<snd, net, writing, received>>

-----------------------------------------------------------------------------
TcpNext ==
    \/ \E len \in Lengths : TcpEnqueue(len)
    \/ TcpWritten
    \/ \E m \in net : AckArrives(m) \/ SegmentArrives(m)
    \/ SlowTimerGivesUp
    \/ SlowTimerRexmits
    \/ FastTimer
    \/ TcpRead
    \/ TcpReadAcks

\* The retransmission timer runs out, and the tasks that have queued, or have
\* data to read, go on.  Of the network nothing is assumed.
TcpFairness ==
    /\ WF_tcpVars(TcpWritten)
    /\ WF_tcpVars(SlowTimerGivesUp \/ SlowTimerRexmits)
    /\ WF_tcpVars(TcpRead \/ TcpReadAcks)

TcpSpec == TcpInit /\ [][TcpNext]_tcpVars /\ TcpFairness

-----------------------------------------------------------------------------
TcpTypeOK ==
    /\ \A g \in ToSet(snd.unsent \o snd.unacked) :
          g.seq \in 0 .. SeqWord - 1 /\ g.data \in Seq(1 .. Total) /\ Len(g.data) \in 1 .. MSS
    /\ snd.buf \in 0 .. SndBuf
    /\ snd.nrtx \in 0 .. NrtxWord - 1
    /\ rcv.nxt \in 0 .. SeqWord - 1
    /\ rcv.wnd \in 0 .. rcv.tcpwnd
    /\ \A d \in ToSet(rcv.queue) : d \in Seq(1 .. Total)
    /\ snd.state \in {"ESTABLISHED", "CLOSED"}

\* The sender's lists hold the bytes from the last acknowledgement on, without
\* a gap and in order, whatever was sent again, chained or acknowledged in part
\* between the two halves of a tcp_write: their buffers are counted in
\* snd_queuelen, and their bytes taken from snd_buf.
Held == FlattenSeq([i \in 1 .. Len(snd.unacked \o snd.unsent) |-> (snd.unacked \o snd.unsent)[i].data])

SendListsAgree ==
    LET all == snd.unacked \o snd.unsent
    IN  snd.state = "ESTABLISHED" =>
          /\ \A i \in 1 .. Len(all) - 1 : all[i + 1].seq = SegEnd(all[i])
          /\ all # <<>> => /\ SegEnd(Last(all)) = snd.lbb
                           /\ SeqLEQ(all[1].seq, snd.lastack)
                           /\ SeqLT(snd.lastack, SegEnd(all[1]))
          /\ all = <<>> => snd.lastack = snd.lbb
          /\ snd.queuelen = Bufs(all)
          /\ snd.buf + Position(snd.lbb) - Position(snd.lastack) = SndBuf - 1

\* What the two sides hold together is a stream: a byte that the sender has
\* forgotten is in the reader's queue, and none is read twice or out of order.
Unreceived ==
    IF Held = <<>> THEN <<>>
    ELSE LET first == (snd.unacked \o snd.unsent)[1].seq
         IN  SubSeq(Held, Position(rcv.nxt) - Position(first) + 1, Len(Held))

Unread == FlattenSeq(rcv.queue) \o Unreceived

AStream == INSTANCE Stream WITH
    Bytes  <- 1 .. Total,
    stream <- Unread,
    got    <- received,
    open   <- snd.state = "ESTABLISHED"

ImplementsStream == AStream!Spec

\* Every byte that tcp_write has accepted is read, or the connection is given
\* up after MaxRtx retransmissions, if the window holds them all.
DataArrives ==
    (rcv.tcpwnd >= Total /\ Unread # <<>>) ~> (Unread = <<>> \/ snd.state = "CLOSED")
=============================================================================
