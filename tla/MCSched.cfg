\* Three addresses: a task in hand, one filed and one waiting, or two
\* producers and the scheduler each with one.
CONSTANTS
    t1 = t1
    t2 = t2
    t3 = t3
    wrapper = wrapper
    network = network
    Task <- ThreeTasks
    Api <- OneApi
    Net <- OneNet
    ReschSet <- AllKinds
    NoTask = NoTask
    Free = Free
SYMMETRY TaskSymmetry
SPECIFICATION Spec
INVARIANTS
    TypeOK
    TaskOwnership
    NoLeakWhileRunning
    EndedIsEmpty
PROPERTY AgendaSpec
