\* One scheduled and one manual caller, three ids, one storage fault: both may
\* be in flight together and one of them may send again after the first verdict.
CONSTANTS
    Callers = {manual, probe}
    Scheduled = {probe}
    Ids = {i1, i2, i3}
    NoId = NoId
    MaxFaults = 1
SPECIFICATION Spec
CHECK_DEADLOCK FALSE
SYMMETRY IdSymmetry
INVARIANTS
    TypeOK
    WaiterIsResolvable
    NoneOutlivesDisconnect
    LeakOnlyWhileDown
