SPECIFICATION Spec
CONSTANTS
    Worker = {w1}
    Servers = 2
    switch_client_num_ = 2
    Interval = 1
    MayFail = TRUE
    MayHang = FALSE
    None = None
    MaxUrls = 2
    MaxRaced = 2
    MaxDowns = 1
CHECK_DEADLOCK FALSE
INVARIANT AcceptedIsSent
