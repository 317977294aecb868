SPECIFICATION Spec
CONSTANTS
    RingOffset = 1024
    RingHeader = 192
    SlotBytes = 72
    MinCapacity = 2
    HeaderBytes = 48
    SpokenVersion = 4
    c1 = c1
    c2 = c2
    k1 = k1
    k2 = k2
    bad = bad
    long = long
    t1 = t1
    p1 = p1
    s3 = s3
    s9 = s9
    big = big
    nil = nil
    Clients <- TwoClients
    Segments <- OneSegment
    Keys <- TwoKeys
    InvalidKeys <- OneInvalid
    OverlongKeys <- OneOverlong
    Tables <- OneTable
    Pks <- OnePk
    Entries <- OddEntries
    Strings <- ThreeStrings
    ByteLength <- Lengths
    Numbers <- Bits
    Workloads <- OnlyOdd
    KeyLen = 3
    LookupCap = 1
    RangeCap = 2
    NameOf <- WideName
    NameField = 2
    MaxCatalogCols = 2
    ArtCap = 5
    Word = 1000000
    BadValue = BadValue
    Empty = nil
    Garbage = Garbage
    None = None
PROPERTY
    CommentsHold
CHECK_DEADLOCK FALSE
