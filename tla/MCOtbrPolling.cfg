\* Two routers, of which any may be configured at a start, two networks, one storage
\* failure at any statement; device inventories come back empty.
CONSTANTS
    Otbrs = {o1, o2}
    Networks = {n1, n2}
    NoNetwork = NoNetwork
    Devices = {}
    NoOtbr = NoOtbr
    CollectsDevices = TRUE
    MaxFaults = 1
SPECIFICATION Spec
INVARIANTS
    TypeOK
    NetworksMatchRouters
    AnsweredIsReachable
VIEW View
SYMMETRY Symmetry
