SPECIFICATION Spec
CONSTANTS
    NoFile = NoFile
    SectorPayload = 4
    MaxEntryLen = 8
    ArenaLen = 10
    RingCapacity = 2
    SegmentMax = 1
    MaxSegments = 2
    Throttle = TRUE
    FailIO = TRUE
    MaxPush = 3
    MaxBoots = 1
    Deltas <- SmallAndCheckpoint
PROPERTIES
    RemovedOnlyUnderSnapshot
CHECK_DEADLOCK FALSE
