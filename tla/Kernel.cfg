CONSTANTS
    idle = idle
    a = a
    b = b
    c = c
    Proc <- Procs
    NULL = NULL
    MAX_NUM_PRI = 3
    MSG_QUEUE_SIZE = 3
    Msg = {m}
    NoMsg = NoMsg
    BootTable <- Boot
    Idle = idle
    Nicers = {a}
    Receivers = {b, c}
    Sock = {s1, s2}
    IsrSock = {s1}
    NoSock = NoSock
    TIME_QUANTUM = 1
    Burst = 2
SPECIFICATION Spec
INVARIANTS
    TypeOK
    RingsMatch
    RunningIsTail
    HighestRuns
    NoLostWakeup
    NoLostProcess
    BindingsAgree
    RecvDelivers
