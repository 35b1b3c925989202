SPECIFICATION Spec
CONSTANTS
    MaxNum = 3
    MaxSize = 3
    RecordLen = {1, 2}
    ShortWrites = FALSE
    Wrap = 16
    None = None
    MaxRecords = 6
    MaxHours = 2
    MaxStarts = 3
CHECK_DEADLOCK FALSE
INVARIANTS FilesParseUntilReused SavedStay NoEarlyReuse
