\* Two messages of any kind, and three faults.
CONSTANTS
    Message <- Messages
    Header = 2
    BufSize = 3
    Given <- Callbacks
    MaxSent = 2
    MaxTrouble = 3
SPECIFICATION LiveSpec
INVARIANTS
    TypeOK
    WholeMessages
    NoneSkipped
    OnlyLengthOverruns
PROPERTIES
    OrdersSpec
    EveryRequestEnds
CHECK_DEADLOCK FALSE
