SPECIFICATION Spec
CONSTANTS
    orig = orig
    r1 = r1
    r2 = r2
    r3 = r3
    rcpt = rcpt
    o1 = o1
    o2 = o2
    p1 = p1
    pr = pr
    Nodes = {orig, r1, r2, r3, rcpt}
    Origin = orig
    Recipient = rcpt
    Passes = {o1, o2}
    Host <- HostOf
    Known <- Everybody
    Links <- OneWay
    MaxRetryAttempts = 3
    Threshold = 1
    MaxFallbackRelays = 1
    MaxStores = 1
    MaxFails = 1
INVARIANT TypeOK
INVARIANT ReplicasBounded
CHECK_DEADLOCK FALSE
SYMMETRY Interchangeable
