SPECIFICATION FairSpec
CONSTANTS
    Msgs = {m, r}
    Relayed = {r}
    Passes = {a}
    Calls = {c}
    NoWork = NoWork
    MaxRetryAttempts = 2
    MaxQueued = 1
    MaxCalls = 1
    MaxCrashes = 1
PROPERTY QueueDrains
