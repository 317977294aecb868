SPECIFICATION Spec
CONSTANTS
    NoFile = NoFile
    SectorPayload = 6
    MaxEntryLen = 8
    ArenaLen = 10
    RingCapacity = 2
    SegmentMax = 100
    MaxSegments = 2
    Throttle = FALSE
    FailIO = FALSE
    MaxPush = 3
    MaxBoots = 1
    Deltas <- Entries3
INVARIANTS
    DurableButLast
CHECK_DEADLOCK FALSE
