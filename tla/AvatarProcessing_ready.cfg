CONSTANTS
    Clients = {c1}
    Jobs = {j1}
    MaxAttempts = 2
    MaxStalled = 1
    Concurrency = 1
    MaxFaults = 0
    MaxCrashes = 0
SPECIFICATION Spec
INVARIANT OnlyFaultsFail
CHECK_DEADLOCK FALSE
