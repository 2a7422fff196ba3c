CONSTANTS
    ann = ann
    bob = bob
    a1 = a1
    a2 = a2
    b1 = b1
    shirt = shirt
    Users = {ann, bob}
    Sockets = {a1, a2, b1}
    UserOf <- TwoUsers
    Designs = {shirt}
    Layers = {l1}
    DesignOf <- AllOfShirt
    Tasks = {h1, h2}
    LogCap = 1
    MaxUpdates = 2
    MaxExpiries = 1
    MaxFaults = 1
    Habits = {TRUE, FALSE}
SPECIFICATION Spec
INVARIANTS TypeOK NoOrphanLocks LogKeepsNewest
SYMMETRY Interchangeable
CHECK_DEADLOCK FALSE
