SPECIFICATION FairSpec
CONSTANTS
    Peers = {p1}
    Slots = {s1, s2}
    NoMsg = NoMsg
    Maps = {map1, map2}
    NoMap = NoMap
    BufferLimit = 2
    CacheLimit = 1
    MaxSeq = 3
    MaxElsewhere = 0
    MaxCrashes = 1
    MaxAckFails = 0
INVARIANT TypeOK
INVARIANT AckedWasProcessed
INVARIANT AtMostOnce
INVARIANT ProcessedIsPrefix
INVARIANT GapClosedIsFlushed
PROPERTY ImplementsFifo
PROPERTY PersistedIsHanded
