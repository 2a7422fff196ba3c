CONSTANTS
    Clients = {c1, c2}
    Jobs = {j1, j2, j3}
    MaxAttempts = 2
    MaxStalled = 1
    Concurrency = 2
    MaxFaults = 0
    MaxCrashes = 1
SPECIFICATION Spec
INVARIANTS TypeOK JobsAccounted RecordsOwn
SYMMETRY Interchangeable
CHECK_DEADLOCK FALSE
