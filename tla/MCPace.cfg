\* Two seconds, and a clock that is set once.
CONSTANTS
    t1 = t1
    t2 = t2
    Task <- TwoTasks
    Elapse <- ShortAndLong
    Second = 2
    Milli = 3
    NoTask = NoTask
    MaxClock = 12
    MaxSets = 1
SPECIFICATION Spec
INVARIANTS
    TypeOK
    WithinAMilli
    DueIsServed
