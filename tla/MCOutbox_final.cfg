SPECIFICATION Spec
CONSTANTS
    Msgs = {m}
    Relayed = {}
    Passes = {a, b}
    Calls = {c}
    NoWork = NoWork
    MaxRetryAttempts = 2
    MaxQueued = 1
    MaxCalls = 1
    MaxCrashes = 0
PROPERTY DeliveredIsFinal
