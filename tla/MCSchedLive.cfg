\* Two addresses; no symmetry, which liveness checking does not allow.
CONSTANTS
    t1 = t1
    t2 = t2
    t3 = t3
    wrapper = wrapper
    network = network
    Task <- TwoTasks
    Api <- OneApi
    Net <- OneNet
    ReschSet <- InUse
    NoTask = NoTask
    Free = Free
SPECIFICATION LiveSpec
PROPERTIES
    StopJoins
    EachIsServed
