SPECIFICATION FairSpec
CONSTANTS
    None = None
    s1 = s1
    s2 = s2
    v1 = v1
    v2 = v2
    m1 = m1
    m2 = m2
    Clients <- OneServer
    Mode <- AllDaemon
    Watching <- OneServer
    Embedding <- OneServer
    Vaults <- OneVault
    VaultOf <- SameVault
    Models <- BothModels
    Label = m1
    Conns = {1, 2}
    Apis = {1}
    OurApi = 1
    Retries = 1
    MaxTimeouts = 0
    MaxFaults = 0
    MaxStops = 1
    MaxForeign = 0
CHECK_DEADLOCK FALSE
PROPERTIES
    RetryableIsServed
