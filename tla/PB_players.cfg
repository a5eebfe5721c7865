SPECIFICATION PlaybackFairSpec
CONSTANTS
    Reader = {c1, c2}
    NumFiles = 2
    FileLen = 2
    Buffer = 1
    Starts <- MCStarts
    MaxEvents = 3
INVARIANTS
    NoOrphanCursor
PROPERTIES
    ReadsAreComplete
    ConnectionsEnd
CHECK_DEADLOCK FALSE
