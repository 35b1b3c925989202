SPECIFICATION FairSpec
CONSTANTS
    Rqst = {q1, q2}
    Reactor = {t1}
    NoConn = NoConn
    RequestSize = 2
    PageSize = {0, 2, 4}
    BufSize = 3
    MaxPage = 2
    MaxSlot = 1
    MaxFds = 2
CHECK_DEADLOCK FALSE
INVARIANTS NeverAborts OkIsCompleteWhenLimited
PROPERTIES KeepsPromise QueuedIsTaken StopEnds
