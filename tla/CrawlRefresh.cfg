SPECIFICATION Spec
CONSTANTS
    r1 = r1
    r2 = r2
    r3 = r3
    r4 = r4
    h1 = h1
    Res = {r1, r2, r3}
    Host = {h1}
    NoHost = NoHost
    Port = {80}
    DefaultPort = 80
    UrlOf <- OneHost
    Resolver = {d1}
    Writer = {w1}
    Null = Null
    Absent = Absent
    Idle = Idle
    Expiry = {TRUE, FALSE}
    DNS_rqst_queue_size = 1
    DNS_rslt_queue_size = 3
    WAITER_rqst_queue_size = 1
    WAITER_rslt_queue_size = 3
    DOWN_rqst_queue_size = 1
    DOWN_rslt_queue_size = 3
    STORE_rslt_queue_size = 1
    DNS_retry_max = 0
    DOWN_err_retry_max = 1
    RES_add_res_each_loop = 2
INVARIANTS OneFetchPerSite
