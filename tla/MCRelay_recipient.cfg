SPECIFICATION Spec
CONSTANTS
    orig = orig
    r1 = r1
    r2 = r2
    r3 = r3
    rcpt = rcpt
    o1 = o1
    o2 = o2
    p1 = p1
    pr = pr
    Nodes = {orig, r1, rcpt}
    Origin = orig
    Recipient = rcpt
    Passes = {o1, o2, p1, pr}
    Host <- HostOf
    Known <- Everybody
    Links <- AllLinks
    MaxRetryAttempts = 2
    Threshold = 1
    MaxFallbackRelays = 1
    MaxStores = 1
    MaxFails = 2
INVARIANT RecipientNeverRelays
CHECK_DEADLOCK FALSE
