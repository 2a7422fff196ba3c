CONSTANTS
    olga = olga
    eddie = eddie
    Requests = {r1, r2}
    Users = {olga, eddie}
    RoleOf <- Roles
    MaxRevision = 4
    MaxCalls = 3
    Born = {"shared"}
    Designs = {d1, d2, d3}
    Owners = {u1}
    Callers = {c1, c2}
    Limits <- FreeTier
    Formats = {"image", "model"}
    MaxExported = 2
    MaxFailures = 1
    Pieces = {p1, p2}
    RenderJobs = {j1}
    MaxAttempts = 2
    MaxGlitches = 2
    MaxLayerEdits = 1
SPECIFICATION Spec
INVARIANTS
    TypeOK
    ServedOnlyIfOpen
    CacheFreshAlone
    QuotaOvershoot
    ForksCounted
    SceneIsWhatWasQueued
    SceneReleased
SYMMETRY Interchangeable
CHECK_DEADLOCK FALSE
