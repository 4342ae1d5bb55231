SPECIFICATION NodeSpec
CONSTANTS
    Sends = {s1}
    NoKey = NoKey
    Own = Own
    MaxAttempts = 3
    MaxKeys = 2
    MaxHellos = 2
    MaxConnects = 2
    MaxCrashes = 1
    Bits = 3
    SelfId <- MCSelfId
    RoutePeers <- MCRoutePeers
    Stale = 1
    Partners = {a, b}
    Cleaners = {cleanup}
    MaxSessions = 3
    MaxLostWrites = 1
    Senders = {sender}
    Cost <- MCCost
    Burst <- MCBurst
    MaxElapsed = 6
    MaxRestarts = 1
    Requests = {r1, r2}
    MaxRetries = 2
    Frames = 4
    MaxBuffer = 5
    Threshold = 3
    Remotes = {p, q}
    Fickle = {p}
    NoRemote = nobody
    Checks = {check1, check2}
    StalledLimit = 2
    Transmissions = {transmit}
    MaxDeaths = 1
    Listeners = {on, once}
    Once = {once}
    Emits = 3
    MaxHistorySize = 2
    MaxBatchSize = 2
    MaxPushed = 4
    MaxGiven = 3
    HistoryLimit = 2
    RecentLimit = 1
    MaxDeltas = 4
    MaxClock = 3
    RouteNodes = {1, 2, 3, 4}
    Topologies <- MCTopologies
    MaxHeard = 2
    MaxLost = 1
    MaxQueries = 1
    CachePeers = {a, b}
    Processes = {one, other}
    MaxGenerated = 4
INVARIANT TypeOK
INVARIANT RefreshIsUnderWay
INVARIANT WokenUsesNewKey
INVARIANT FramesInOrder
 
INVARIANT OnceIsGone
INVARIANT BucketsMatchTable
INVARIANT LoadsWhatIsLive
INVARIANT ToldOnceAndInFull
INVARIANT HeardOnceOnForest
INVARIANT WithinBudget
INVARIANT CachedHasNotLeft
INVARIANT OneIdentity
INVARIANT ServedUntilTheEnd
PROPERTY SendEnds
PROPERTY DeadIsHungUp
PROPERTY EventsGoOut
CHECK_DEADLOCK FALSE
