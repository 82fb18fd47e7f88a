CONSTANTS
    Sites = {s1, s2}
    MaxSites = 2
    Plugins = {1, 2}
    Enabled <- EnabledBackwards
    MaxRounds = 2
    None = None
SPECIFICATION FairSpec
CHECK_DEADLOCK FALSE
INVARIANTS
    TypeOK
    BuiltHasEnabled
    FailuresExplained
    RegistryLive
PROPERTIES
    ConstructionEnds
    ShutdownEnds
