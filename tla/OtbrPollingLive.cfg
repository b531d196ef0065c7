\* One router, one network, one device, one storage failure: whole cycles with all
\* their awaits, for the refinement and the liveness.
CONSTANTS
    Otbrs = {o1}
    Networks = {n1}
    NoNetwork = NoNetwork
    Devices = {d1}
    NoOtbr = NoOtbr
    CollectsDevices = TRUE
    MaxFaults = 1
SPECIFICATION FairSpec
INVARIANTS
    DevicesAreLastInventory
PROPERTIES
    PresenceSpec
    KeepsPolling
