\* One callback task, restarts, and a network that the record may name and the
\* border routers may report: every verdict can be stale when the world comes to
\* rest.
CONSTANTS
    Services = {s1}
    TrelServices = {s1}
    Tasks = {t1}
    Networks = {n1}
    NoNetwork = NoNetwork
    NoService = NoService
SPECIFICATION LiveSpec
PROPERTY VerdictsSettle
