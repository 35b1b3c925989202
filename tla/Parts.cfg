SPECIFICATION Spec
CONSTANTS
    Pusher = {p1, p2}
    Node = {1, 2, 3, 4}
    Ring = ring
    NoNode = none
    fetch_interval_ = 3
    Ms = 2
    IntWidth = 32
    MaxIps = 2
    MaxClock = 31
    Never = never
    LineBuf = 3
    MaxFile = 5
    RecordBuf = 6
    RecordSize = {1, 2, 4}
    MaxRecs = 3
    Servers = 2
    switch_num = 1
    BufLines = 3
    MaxBatch = 4
    MaxFaults = 2
    Cache = {s1, s2, s3}
    MaxReplicas = 2
    HashSize = 3
    item_asize = 2
    mblk_asize = 2
    byte_asize = 8
    Word = 2
    Header = 2
    Term = {1, 2, 3}
    ValueLen = {0, 1, 3}
    SCALE_NODES = 3
    BLOCK_NODES = 7
    KSIZE_MAX = 2
    MaxKeys = 5
    Name = {1, 2, 3}
    HashOf <- Hashes
    INITIAL_NUM = 1
    BKT_CAPACITY = 3
    MaxItems = 5
    MaxFields = 3
    MaxQueries = 2
    MAX_HEADERS = 2
    MAX_ELEMENT_SIZE = 3
    MAX_HTTP_HEADER_SIZE = 6
    MAX_HTTP_PAGE_SIZE = 6
    RecvBuf = 6
    PieceSize = {1, 3}
    MaxPages = 2
    MaxChains = 3
    MaxExtracts = 2
    MaxResults = 2
INVARIANTS LongListsStayWhole LinesWhole RecordsOnce BatchDelivers
INVARIANTS ItemsApart GetsInOrder TrieFinds
INVARIANTS SortedOnce MessageIsThePage FirstChainWritten OrderNamesResults
PROPERTIES WaitsItsShare AddressRests DataFollowsMembers LoadAnswersAlike
CHECK_DEADLOCK FALSE
