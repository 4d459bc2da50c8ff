\* Two modules and two measurements: a removal can hit the wrong trigger.
\* No symmetry, which liveness checking does not allow.
CONSTANTS
    m1 = m1
    m2 = m2
    x1 = x1
    x2 = x2
    NoMeas = NoMeas
    Idle = Idle
    Act <- UeRequests
    Mod <- TwoModules
    Meas <- TwoMeasures
    MaxId = 2
SPECIFICATION LiveSpec
PROPERTIES
    RemoveRemoves
    Answered
