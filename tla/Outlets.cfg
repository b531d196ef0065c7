SPECIFICATION Spec
CONSTANTS
    Objects = {"x", "y"}
    MaxChanges = 2
    MaxQueue = 2
    Summary = "summary"
INVARIANTS
    StatesAreDiscoverable
    EndedIsOffline
    ShownIsCurrent
PROPERTIES
    EventuallyPublished
    EventuallyShown
