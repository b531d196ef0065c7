\* One node, a probing task and a name push next to the session: every pair of
\* writers of a record can overlap, with a restart at any point.
CONSTANTS
    Nodes = {n1}
    Probers = {p1}
    Pushers = {h1}
    PingEnabled = TRUE
    NoNode = NoNode
    MaxVerdict = 2
SPECIFICATION Spec
INVARIANTS
    TypeOK
    CacheHasRow
    AvailabilityIsReported
    RemovedStaysRemoved
    ProbeResultIsKept
