SPECIFICATION FairSpec
CONSTANTS
    p1 = p1
    p2 = p2
    c1 = c1
    c2 = c2
    m1 = m1
    m2 = m2
    None = None
    Producers <- TwoProducers
    Consumers <- OneConsumer
    Mortal <- OneMortal
    Msg <- TwoMsgs
    Capacity = 2
    MaxPos = 3
INVARIANTS
    TypeOK
    DeliveredAsSent
    NoSlotRace
    Bounded
PROPERTIES
    RefusedOnlyWhenFull
    ImplementsQueue
    EveryPushConsumed
CHECK_DEADLOCK FALSE
