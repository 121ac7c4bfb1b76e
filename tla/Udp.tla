-------------------------------- MODULE Udp ---------------------------------
(***************************************************************************)
(* The sockets of net/udp.c between the ip task, which queues datagrams in *)
(* them, and the tasks that open, connect, read and close them.            *)
(*                                                                         *)
(* The ip task holds ip->lock while it looks for a socket, and takes       *)
(* s->lock to queue the datagram in it.  udp_socket takes the locks in the *)
(* opposite order, udp_close one after the other.                          *)
(* Between two datagrams the ip task may keep ip->lock; here it gives it   *)
(* up, which lets the others do more.                                      *)
(*                                                                         *)
(* All sockets are on one local port: datagrams for other ports find none. *)
(* Two peers differ in their address and in their port.                    *)
(***************************************************************************)
EXTENDS Integers, Sequences, FiniteSets, SequencesExt

CONSTANTS
    Sockets,
    Peers,
    Datagrams,      \* the buffers that hold them
    UdpTasks,
    UdpSize,        \* UDP_SOCKET_QUEUE_SIZE
    Unset,            \* 0, as an address or port
    NoHolder

ASSUME UdpConstants ==
    /\ UdpSize \in Nat \ {0}
    /\ Unset \notin Peers
    /\ NoHolder \notin UdpTasks /\ "ip" \notin UdpTasks /\ NoHolder # "ip"

VARIABLES
    usock,      \* of each socket: queue, head, count, port and ip of its peer,
                \* the master of its lock
    ulist,      \* ip->udp_sockets
    ipLock,     \* the master of ip->lock
    ipAt,       \* where the ip task is
    utask,       \* of each task: the call it is in, and of which socket
    buffer,     \* where each datagram is: "free", with the "ip" task, "queued",
                \* or with a "task"
    handed      \* of each socket: what the last step took out of its queue

udpVars == <<usock, ulist, ipLock, ipAt, utask, buffer, handed>>

Resting == [at |-> "idle"]

UdpInit ==
    /\ usock = [s \in Sockets |->
                  [queue |-> [i \in 0 .. UdpSize - 1 |-> Unset], head |-> 0, count |-> 0,
                   port |-> Unset, ip |-> Unset, master |-> NoHolder]]
    /\ ulist = <<>>
    /\ ipLock = NoHolder
    /\ ipAt = Resting
    /\ utask = [t \in UdpTasks |-> Resting]
    /\ buffer = [d \in Datagrams |-> "free"]
    /\ handed = [s \in Sockets |-> <<>>]

Listed(s) == s \in ToSet(ulist)

Free(s) == usock[s].master = NoHolder

\* The task is in the middle of this call, of this socket.
In(t, at, s) == utask[t] = [at |-> at, sock |-> s]

NothingHanded == handed' = [s \in Sockets |-> <<>>]

-----------------------------------------------------------------------------
\* The queue: a head that steps up, and a count.
Datagram(u, i) == u.queue[(u.head + i - 1) % UdpSize]
Queued(u) == [i \in 1 .. u.count |-> Datagram(u, i)]

\* Fault: the last place of the array is left out.
SteppedEarly(h) == IF h + 1 >= UdpSize - 1 THEN 0 ELSE h + 1

Stepped(h) == IF h + 1 >= UdpSize THEN 0 ELSE h + 1

UdpPut(u, d) ==
    LET tail == IF u.head + u.count >= UdpSize THEN u.head + u.count - UdpSize
                ELSE u.head + u.count
    IN  [u EXCEPT !.queue[tail] = d, !.count = @ + 1]

\* Bound: what a place outside of the queue held is forgotten; nothing reads it.
UdpGet(u) ==
    [u EXCEPT !.queue[u.head] = Unset, !.head = Stepped(@), !.count = @ - 1]

UdpEmptied(u) ==
    [u EXCEPT !.queue = [i \in 0 .. UdpSize - 1 |-> Unset],
              !.head = (@ + u.count) % UdpSize, !.count = 0]

-----------------------------------------------------------------------------
\* udp_input: the first socket that hears the peer.
Hears(s, p) == usock[s].port \in {Unset, p} /\ usock[s].ip \in {Unset, p}

Found(p) == CHOOSE i \in DOMAIN ulist :
               Hears(ulist[i], p) /\ \A j \in 1 .. i - 1 : ~ Hears(ulist[j], p)

\* Fault: ip->lock is given up when the socket is found.
UdpInputUnlocked(d, p) ==
    /\ ipLock = NoHolder /\ ipAt = Resting
    /\ buffer[d] = "free"
    /\ \E s \in ToSet(ulist) : Hears(s, p)
    /\ ipAt' = [at |-> "found", sock |-> ulist[Found(p)], datagram |-> d]
    /\ buffer' = [buffer EXCEPT ![d] = "ip"]
    /\ NothingHanded
    /\ UNCHANGED <<usock, ulist, ipLock, utask>>

\* A datagram that no socket hears is answered, and its buffer free again.
UdpInput(d, p) ==
    /\ ipLock = NoHolder /\ ipAt = Resting
    /\ buffer[d] = "free"
    /\ \E s \in ToSet(ulist) : Hears(s, p)
    /\ ipLock' = "ip"
    /\ ipAt' = [at |-> "found", sock |-> ulist[Found(p)], datagram |-> d]
    /\ buffer' = [buffer EXCEPT ![d] = "ip"]
    /\ NothingHanded
    /\ UNCHANGED <<usock, ulist, utask>>

\* With s->lock: a full queue drops it, and otherwise every waiting task is
\* woken.
UdpDeliver ==
    /\ ipAt # Resting
    /\ Free(ipAt.sock)
    /\ LET s == ipAt.sock
           d == ipAt.datagram
       IN  IF usock[s].count = UdpSize
           THEN /\ buffer' = [buffer EXCEPT ![d] = "free"]
                /\ UNCHANGED <<usock, utask>>
           ELSE /\ usock' = [usock EXCEPT ![s] = UdpPut(@, d)]
                /\ buffer' = [buffer EXCEPT ![d] = "queued"]
                /\ utask' = [t \in UdpTasks |->
                              IF In(t, "asleep", s) THEN [at |-> "woken", sock |-> s] ELSE utask[t]]
    /\ ipAt' = Resting
    /\ ipLock' = NoHolder
    /\ NothingHanded
    /\ UNCHANGED ulist

-----------------------------------------------------------------------------
\* udp_socket, of one that is closed.  Its peer and its queue stay as they are.
UdpSocket(t, s) ==
    /\ utask[t] = Resting
    /\ ~ Listed(s) /\ ~ \E u \in UdpTasks : "sock" \in DOMAIN utask[u] /\ utask[u].sock = s
    /\ Free(s)
    /\ usock' = [usock EXCEPT ![s].master = t]
    /\ utask' = [utask EXCEPT ![t] = [at |-> "opening", sock |-> s]]
    /\ NothingHanded
    /\ UNCHANGED <<ulist, ipLock, ipAt, buffer>>

UdpSocketListed(t, s) ==
    /\ In(t, "opening", s)
    /\ ipLock = NoHolder
    /\ ulist' = <<s>> \o ulist
    /\ usock' = [usock EXCEPT ![s].master = NoHolder]
    /\ utask' = [utask EXCEPT ![t] = Resting]
    /\ NothingHanded
    /\ UNCHANGED <<ipLock, ipAt, buffer>>

\* udp_connect: the ip task may look at the socket between the assignments.
UdpConnect(t, s, p) ==
    /\ utask[t] = Resting
    /\ Listed(s) /\ Free(s)
    /\ usock' = [usock EXCEPT ![s].port = p, ![s].master = t]
    /\ utask' = [utask EXCEPT ![t] = [at |-> "connecting", sock |-> s]]
    /\ NothingHanded
    /\ UNCHANGED <<ulist, ipLock, ipAt, buffer>>

UdpConnected(t, s) ==
    /\ In(t, "connecting", s)
    /\ usock' = [usock EXCEPT ![s].ip = usock[s].port, ![s].master = NoHolder]
    /\ utask' = [utask EXCEPT ![t] = Resting]
    /\ NothingHanded
    /\ UNCHANGED <<ulist, ipLock, ipAt, buffer>>

\* udp_close: off the list, where udp_list_remove finds it first ...
UdpClose(t, s) ==
    /\ utask[t] = Resting
    /\ ipLock = NoHolder
    /\ \E i \in DOMAIN ulist :
          /\ ulist[i] = s /\ \A j \in 1 .. i - 1 : ulist[j] # s
          /\ ulist' = RemoveAt(ulist, i)
    /\ utask' = [utask EXCEPT ![t] = [at |-> "closing", sock |-> s]]
    /\ NothingHanded
    /\ UNCHANGED <<usock, ipLock, ipAt, buffer>>

\* ... and then what is in the queue is freed.
UdpClosed(t, s) ==
    /\ In(t, "closing", s)
    /\ Free(s)
    /\ usock' = [usock EXCEPT ![s] = UdpEmptied(@)]
    /\ buffer' = [d \in Datagrams |->
                    IF d \in ToSet(Queued(usock[s])) THEN "free" ELSE buffer[d]]
    /\ handed' = [x \in Sockets |-> IF x = s THEN Queued(usock[s]) ELSE <<>>]
    /\ utask' = [utask EXCEPT ![t] = Resting]
    /\ UNCHANGED <<ulist, ipLock, ipAt>>

\* udp_recvfrom, and udp_peekfrom of a queue that is not empty.
UdpRecvfrom(t, s) ==
    /\ (utask[t] = Resting /\ Listed(s)) \/ In(t, "woken", s)
    /\ Free(s)
    /\ usock[s].count > 0
    /\ usock' = [usock EXCEPT ![s] = UdpGet(@)]
    /\ buffer' = [buffer EXCEPT ![Datagram(usock[s], 1)] = "task"]
    /\ handed' = [x \in Sockets |-> IF x = s THEN <<Datagram(usock[s], 1)>> ELSE <<>>]
    /\ utask' = [utask EXCEPT ![t] = Resting]
    /\ UNCHANGED <<ulist, ipLock, ipAt>>

UdpRecvWaits(t, s) ==
    /\ (utask[t] = Resting /\ Listed(s)) \/ In(t, "woken", s)
    /\ Free(s)
    /\ usock[s].count = 0
    /\ utask' = [utask EXCEPT ![t] = [at |-> "asleep", sock |-> s]]
    /\ NothingHanded
    /\ UNCHANGED <<usock, ulist, ipLock, ipAt, buffer>>

\* The task frees what it has received.
UdpFree(d) ==
    /\ buffer[d] = "task"
    /\ buffer' = [buffer EXCEPT ![d] = "free"]
    /\ NothingHanded
    /\ UNCHANGED <<usock, ulist, ipLock, ipAt, utask>>

UdpNext ==
    \/ \E d \in Datagrams : UdpFree(d) \/ \E p \in Peers : UdpInput(d, p)
    \/ UdpDeliver
    \/ \E t \in UdpTasks, s \in Sockets :
          \/ UdpSocket(t, s) \/ UdpSocketListed(t, s)
          \/ \E p \in Peers : UdpConnect(t, s, p)
          \/ UdpConnected(t, s)
          \/ UdpClose(t, s) \/ UdpClosed(t, s)
          \/ UdpRecvfrom(t, s) \/ UdpRecvWaits(t, s)

UdpSpec == UdpInit /\ [][UdpNext]_udpVars

-----------------------------------------------------------------------------
UdpTypeOK ==
    /\ \A s \in Sockets : /\ usock[s].head \in 0 .. UdpSize - 1
                          /\ usock[s].count \in 0 .. UdpSize
                          /\ Queued(usock[s]) \in Seq(Datagrams)
    /\ \A i, j \in DOMAIN ulist : ulist[i] = ulist[j] => i = j

\* No buffer is lost or given out twice, whatever is closed while the ip task
\* delivers and others read: what is queued is in one queue, once, and a socket
\* that is off the list, and not being closed, has nothing in its queue, which
\* nobody would free.
NoDatagramIsLost ==
    /\ \A d \in Datagrams :
          Cardinality({x \in Sockets \X (1 .. UdpSize) :
                          x[2] <= usock[x[1]].count /\ Datagram(usock[x[1]], x[2]) = d})
            = IF buffer[d] = "queued" THEN 1 ELSE 0
    /\ \A s \in Sockets :
          usock[s].count > 0 => Listed(s) \/ \E t \in UdpTasks : In(t, "closing", s)

\* The queue of each socket is a FIFO.
AQueue(s) == INSTANCE Fifo WITH
                 Packets <- Datagrams, Size <- UdpSize,
                 fifo <- Queued(usock[s]), got <- handed[s]

ImplementsSocketQueues ==
    /\ \A s \in Sockets : AQueue(s)!Init
    /\ [][\A s \in Sockets : AQueue(s)!Next \/ UNCHANGED AQueue(s)!vars]_udpVars
=============================================================================
