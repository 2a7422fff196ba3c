CONSTANTS
    MaxEdits = 2
    Runs = {s1, s2}
    Keep = 1
    MaxSaved = 3
    MaxSaveFails = 1
    Sockets = {1, 2, 3}
    Namespace <- TwoAndOne
    Members = {ann}
    Categories = {tops}
    Topics = {x}
    MaxEvents = 4
    Months = {6, 12}
    MaxReverts = 4
    Avatars = {a1, a2}
    Calls = {c1, c2}
    MaxRequests = 2
    MaxChanges = 1
    Checks = {c1, c2}
    Limit = 2
    MaxChecks = 9
    MaxCacheErrors = 1
    Callers = {c1, c2, c3}
    MaxErrors = 1
    MaxItems = 4
    BatchSize = 3
    MaxAttempts = 2
    MaxRejects = 2
    Files = {f1, f2}
    MaxTempCalls = 4
    MaxDiskErrors = 1
    NumParts = 3
    Concurrency = 2
    MaxResends = 1
    MaxLost = 1
    Uploads = {u1, u2}
    Sizes = {0, 2}
    BatchFiles = {f1, f2}
    MaxUploadErrors = 1
    Numbers = {0, 1, 2}
    MaxLength = 3
    Amounts = {0, 1, 2, 3}
    Keys = {"k", "l"}
    Inner = {"k"}
    Leaves = {"a", "null", "undefined"}
    Connections = {p1, p2, p3}
    MaxQueries = 3
    MaxReadFailures = 1
SPECIFICATION Spec
INVARIANTS
    TypeOK
    RequestsHold
    BooksAgree
    UtilitiesHold
PROPERTIES
    EditsAreSaved
    ImplementsRecovery
CHECK_DEADLOCK FALSE
