SPECIFICATION Spec
CONSTANTS
    NoFile = NoFile
    SectorPayload = 6
    MaxEntryLen = 8
    ArenaLen = 10
    RingCapacity = 2
    SegmentMax = 100
    MaxSegments = 2
    Throttle = FALSE
    FailIO = FALSE
    MaxPush = 4
    MaxBoots = 0
    Deltas <- Entries4
INVARIANTS
    TypeOK
    ReplayIsPrefix
    DurableButLast
    CommittedButLast
CHECK_DEADLOCK FALSE
