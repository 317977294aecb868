SPECIFICATION Spec
CONSTANTS
    p1 = p1
    p2 = p2
    c1 = c1
    c2 = c2
    m1 = m1
    m2 = m2
    None = None
    Producers <- OneProducer
    Consumers <- TwoConsumers
    Mortal <- OneMortal
    Msg <- TwoMsgs
    Capacity = 2
    MaxPos = 4
INVARIANTS
    DurableBehindHead
PROPERTIES
    MonotoneCounters
    NullOnlyWhenUnpublished
CHECK_DEADLOCK FALSE
