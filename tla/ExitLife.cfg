SPECIFICATION ExitFairSpec
CONSTANTS
    r1 = r1
    r2 = r2
    r3 = r3
    h1 = h1
    Res = {r1, r2, r3}
    Host = {h1}
    NoHost = NoHost
    Port = {80, 8080}
    DefaultPort = 80
    UrlOf <- OnePort
    ReadBack <- PortLost
    Resolver = {d1}
    Writer = {w1}
    Null = Null
    Absent = Absent
    Idle = Idle
    Expiry = {FALSE}
    DNS_rqst_queue_size = 1
    DNS_rslt_queue_size = 2
    WAITER_rqst_queue_size = 1
    WAITER_rslt_queue_size = 2
    DOWN_rqst_queue_size = 1
    DOWN_rslt_queue_size = 2
    STORE_rslt_queue_size = 1
    DNS_retry_max = 0
    DOWN_err_retry_max = 1
    RES_add_res_each_loop = 2
    LoadReturnsZero = {TRUE}
    DumpOpens = {TRUE, FALSE}
    MaxStarts = 2
INVARIANTS EachResAccounted DumpedComesBack RecordedOnce ExitLosesOnlyQueued
PROPERTIES ExitCompletes
CHECK_DEADLOCK FALSE
