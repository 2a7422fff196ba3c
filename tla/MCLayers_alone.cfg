CONSTANTS
    Layers = {l1, l2, l3}
    Clients = {c1}
    MaxLayers = 3
    Indexes = {0, 1, 2, 3}
    Habits = {TRUE, FALSE}
    MaxFaults = 1
SPECIFICATION Spec
INVARIANTS TypeOK TidyStaysCompact
PROPERTIES DeleteHeals TopIsFirst
SYMMETRY Interchangeable
CHECK_DEADLOCK FALSE
