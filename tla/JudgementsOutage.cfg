SPECIFICATION Spec
CONSTANTS
    Modes = {"conservative", "standard"}
    Preferred <- MCNone
    Fallback <- MCFallback
    WindowCovering <- MCNone
    KeySets <- MCKeySets
    PingEnabled = FALSE
    Critical = 1
    MaxEvents <- MCMaxEvents
    Flapping <- Generous
    Worlds <- MCWorlds
    LivedWorlds <- MCLivedWorlds
    Records <- MCRecords
    Answers <- MCAnswers
INVARIANT LongOutageIsCritical
CHECK_DEADLOCK FALSE
