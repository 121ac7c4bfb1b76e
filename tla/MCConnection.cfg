SPECIFICATION TcpSpec
CONSTANTS
    Total = 4
    Lengths = {1, 3}
    MSS = 2
    SndBuf = 5
    SndQueueLen = 3
    MaxRtx = 1
    QueueSize = 4
    Windows = {3}
    Cwnds = {2, 3}
    SeqWord = 16
    Iss = 15
    NrtxWord = 3
    NetSize = 2
    Edges = {"older"}
INVARIANT
    SendListsAgree
PROPERTY
    ImplementsStream
CHECK_DEADLOCK FALSE
