SPECIFICATION FairSpec
CONSTANTS
    None = None
    s1 = s1
    s2 = s2
    v1 = v1
    v2 = v2
    m1 = m1
    m2 = m2
    Clients <- OneServer
    Mode <- AutoFirst
    Watching <- OneServer
    Embedding <- OneServer
    Vaults <- OneVault
    VaultOf <- SameVault
    Models <- BothModels
    Label = m1
    Conns = {1, 2}
    Apis = {1, 2}
    OurApi = 1
    Retries = 1
    MaxTimeouts = 1
    MaxFaults = 1
    MaxStops = 1
    MaxForeign = 1
CHECK_DEADLOCK FALSE
INVARIANTS
    OneRuntimePerVault
    AttachedIsWatched
PROPERTIES
    NoCompetingAnswer
    EveryCallEnds
    EventuallyServed
