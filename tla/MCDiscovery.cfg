\* One TREL service with and without a network in its record, two callback tasks
\* that can overlap in every way, a correlation and restarts at any point.
CONSTANTS
    Services = {s1}
    TrelServices = {s1}
    Tasks = {t1, t2}
    Networks = {n1}
    NoNetwork = NoNetwork
    NoService = NoService
SPECIFICATION Spec
SYMMETRY Symmetry
VIEW View
INVARIANTS
    TypeOK
    MirrorsBrowser
    LogEndsInCurrentState
    PeerFollowsService
    RowsFollowCaches
