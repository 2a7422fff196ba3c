CONSTANTS
    Clients = {c1}
    Jobs = {j1, j2}
    MaxAttempts = 2
    MaxStalled = 1
    Concurrency = 1
    MaxFaults = 1
    MaxCrashes = 1
SPECIFICATION FairSpec
PROPERTY JobsSettle
CHECK_DEADLOCK FALSE
