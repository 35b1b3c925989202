SPECIFICATION Spec
CONSTANTS
    Rqst = {q1}
    Reactor = {t1}
    NoConn = NoConn
    RequestSize = 2
    PageSize = {2}
    BufSize = 1
    MaxPage = 0
    MaxSlot = 1
    MaxFds = 2
CHECK_DEADLOCK FALSE
INVARIANT OkIsComplete
