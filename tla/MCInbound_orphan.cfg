SPECIFICATION Spec
CONSTANTS
    Peers = {p1}
    Slots = {s1, s2}
    NoMsg = NoMsg
    Maps = {map1, map2}
    NoMap = NoMap
    BufferLimit = 4
    CacheLimit = 2
    MaxSeq = 6
    MaxElsewhere = 0
    MaxCrashes = 0
    MaxAckFails = 0
SYMMETRY Symmetry
PROPERTY BufferedUntilProcessed
