\* Three triggers: one in use, one being added, one older.
CONSTANTS
    m1 = m1
    m2 = m2
    x1 = x1
    x2 = x2
    NoMeas = NoMeas
    Idle = Idle
    Act <- AllRequests
    Mod <- OneModule
    Meas <- TwoMeasures
    MaxId = 3
SYMMETRY Symmetry
SPECIFICATION Spec
INVARIANTS
    TypeOK
    NewestFirst
    NoOrphan
PROPERTY NeverReused
