\* Liveness needs no symmetry and no storage fault: a fault can end the loop
\* for good (MatterRequestsSurvival.cfg).
CONSTANTS
    Callers = {manual, probe}
    Scheduled = {probe}
    Ids = {i1, i2}
    NoId = NoId
    MaxFaults = 0
SPECIFICATION FairSpec
CHECK_DEADLOCK FALSE
PROPERTIES
    LifecycleSpec
    EntriesDrain
    KeepsTrying
