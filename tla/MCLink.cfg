\* Two faults: a loss, and one more while it is dealt with; a descriptor for
\* each, and one for the connection.
CONSTANTS
    Fd = {1, 2, 3}
    MaxTrouble = 2
SPECIFICATION LiveSpec
INVARIANTS
    TypeOK
    HelloGuards
PROPERTIES
    LossIsNoticed
    Reconnects
    StopEnds
