SPECIFICATION Spec
CONSTANTS
    Msgs = {r, m}
    Relayed = {r}
    Passes = {a, b}
    Calls = {c}
    NoWork = NoWork
    MaxRetryAttempts = 1
    MaxQueued = 2
    MaxCalls = 1
    MaxCrashes = 0
SYMMETRY Symmetry
INVARIANT TypeOK
INVARIANT FailedAfterMaxAttempts
INVARIANT OwedIsPending
INVARIANT HistoryTellsOutcome
