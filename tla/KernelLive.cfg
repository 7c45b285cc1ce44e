CONSTANTS
    idle = idle
    a = a
    b = b
    c = c
    Proc <- Procs2
    NULL = NULL
    MAX_NUM_PRI = 2
    MSG_QUEUE_SIZE = 3
    Msg = {m1, m2}
    NoMsg = NoMsg
    BootTable <- Boot2
    Idle = idle
    Nicers = {}
    Receivers = {a, b}
    Sock = {s1}
    IsrSock = {s1}
    NoSock = NoSock
    TIME_QUANTUM = 2
    Burst = 3
SPECIFICATION FairSpec
PROPERTIES
    TopPriorityRuns
    WokenReceives
    Schedules
    Delivers
