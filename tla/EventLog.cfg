SPECIFICATION Spec
CONSTANTS
    Subjects = {"node", "router"}
    Window = 2
    Limits = {0, 1, 2}
    MAX_LIMIT = 2
    MaxTime = 3
INVARIANT ServedAreRecent
CHECK_DEADLOCK FALSE
