SPECIFICATION Spec
CONSTANTS
    Peers = {p1, p2}
    Slots = {s1, s2}
    NoMsg = NoMsg
    Maps = {map1, map2}
    NoMap = NoMap
    BufferLimit = 1
    CacheLimit = 1
    MaxSeq = 2
    MaxElsewhere = 1
    MaxCrashes = 0
    MaxAckFails = 1
SYMMETRY Symmetry
PROPERTY ImplementsFifo
