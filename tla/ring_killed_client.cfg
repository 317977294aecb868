SPECIFICATION FairSpec
CONSTANTS
    p1 = p1
    p2 = p2
    c1 = c1
    c2 = c2
    m1 = m1
    m2 = m2
    None = None
    Producers <- TwoProducers
    Consumers <- OneConsumer
    Mortal <- OneMortal
    Msg <- OneMsg
    Capacity = 2
    MaxPos = 3
PROPERTIES
    AcknowledgedPushConsumed
CHECK_DEADLOCK FALSE
