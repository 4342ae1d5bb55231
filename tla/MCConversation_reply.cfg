SPECIFICATION FairSpec
CONSTANTS
    alice = alice
    bob = bob
    Nodes = {alice, bob}
    Links <- BothWays
    BufferLimit = 2
    MaxData = 2
    MaxResends = 0
    MaxFaults = 0
CHECK_DEADLOCK FALSE
PROPERTY SentIsProcessed
