SPECIFICATION Spec
CONSTANTS
    Packets = {p1, p2, p3}
    Size = 2
    Garbage = Garbage
    NQ = 2
    Users = {t1, t2}
    Chunks <- ChunksDef
    Ptr = 2
    Hdr = 4
    Requests = {1, 12}
    Sleepers = {s1}
    Watchers = {s2}
    Delays = {50, 130}
    Ticks = {60}
    Day = 400
    Word = 1000
    Period = 60
    MaxLate = 2
    MaxBacklog = 0
    NoTask = NoTask
    Masters = {m1}
    Slaves = {w1, w2}
    MasterChars = {a, e}
    SlaveChars = {f}
    FifoChars = 3
    Nothing = Nothing
    Senders = {x1}
    Flushers = {x2}
    Poller = x3
    OutBytes = {b, LF}
    LF = LF
    CR = CR
    OutBufSize = 3
    MaxSuspended = 1
    NoSender = NoSender
    Readers = {y1, y2}
    Receiver = y3
    InBytes = {c, d}
    InBufSize = 4
    NoByte = NoByte
    NoReader = NoReader
    Total = 2
    Lengths = {1, 2}
    MSS = 2
    SndBuf = 3
    SndQueueLen = 2
    MaxRtx = 1
    QueueSize = 4
    Windows = {2}
    Cwnds = {2}
    SeqWord = 16
    Iss = 15
    NrtxWord = 3
    NetSize = 2
    Edges = {"older"}
    Sockets = {k1}
    Peers = {g1, g2}
    Datagrams = {d1, d2, d3}
    UdpTasks = {u1, u2}
    UdpSize = 2
    Unset = Unset
    NoHolder = NoHolder
INVARIANTS
    TypeOK
    QueueOwnsItsPackets
    CountsAgree
    PoolIsSound
    UnlockedWorkIsSafe
    NobodyOversleeps
    NobodySleepsInVain
    TransmitterRuns
    ReaderMissesOneByte
    NoDatagramIsLost
PROPERTIES
    ImplementsFifo
    ImplementsPrioFifo
    ImplementsAllocator
    EveryDecisecond
    DelayIsLongEnough
    ImplementsStreams
    ImplementsLine
    ImplementsReception
    DelayReturns
    PutcharReturns
    DataArrives
    ImplementsSocketQueues
CHECK_DEADLOCK FALSE
