SPECIFICATION FairSpec
CONSTANTS
    Worker = {w1, w2}
    Servers = 2
    switch_client_num_ = 2
    Interval = 0
    MayFail = TRUE
    MayHang = TRUE
    None = None
    MaxUrls = 4
    MaxRaced = 2
    MaxDowns = 1
CHECK_DEADLOCK FALSE
INVARIANTS NeverTwice TurnsInOrder
PROPERTIES SubmitReturns
