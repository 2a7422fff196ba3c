CONSTANTS
    Layers = {l1, l2, l3}
    Clients = {c1, c2}
    MaxLayers = 2
    Indexes = {0, 1, 2}
    Habits = {TRUE}
    MaxFaults = 0
SPECIFICATION Spec
INVARIANT NoDrift
SYMMETRY Interchangeable
CHECK_DEADLOCK FALSE
