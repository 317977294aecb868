SPECIFICATION FairSpec
CONSTANTS
    NoFile = NoFile
    SectorPayload = 8
    MaxEntryLen = 8
    ArenaLen = 10
    RingCapacity = 2
    SegmentMax = 100
    MaxSegments = 2
    Throttle = TRUE
    FailIO = FALSE
    MaxPush = 3
    MaxBoots = 1
    Deltas <- KeyAndCheckpoint
INVARIANTS
    RecoveredStays
PROPERTIES
    EventuallyDurableOrHeld
CHECK_DEADLOCK FALSE
