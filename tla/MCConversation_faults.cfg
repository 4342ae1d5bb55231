SPECIFICATION FairSpec
CONSTANTS
    alice = alice
    bob = bob
    Nodes = {alice, bob}
    Links <- BothWays
    BufferLimit = 1
    MaxData = 3
    MaxResends = 1
    MaxFaults = 1
CHECK_DEADLOCK FALSE
INVARIANT TypeOK
 
INVARIANT OnlyGapless
INVARIANT AckTellsProcessed
 
