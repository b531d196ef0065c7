\* A name push between two reports of the node, and no probe at all.
CONSTANTS
    Nodes = {n1}
    Probers = {}
    Pushers = {h1}
    PingEnabled = FALSE
    NoNode = NoNode
    MaxVerdict = 1
SPECIFICATION Spec
PROPERTY NameIsKept
