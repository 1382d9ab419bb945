SPECIFICATION FairSpec
CONSTANTS
    None = None
    a = a
    b = b
    x = x
    n = n
    sib = sib
    own = own
    ext = ext
    way = way
    gone = gone
    m1 = m1
    m2 = m2
    Clients <- TwoPackaged
    Pids = {1, 2, 3, 4, 5, 6, 7, 8}
    Binaries <- AllBinaries
    Models <- AllModels
    Override <- MCOverride
    Sibling <- MCSibling
    Model <- MCModel
    Release <- MCRelease
    Ops <- EnsureOnly
    Managed = own
    OnPath = None
    Packaged <- OnlySibling
    Compatible <- AllVersions
    Legacy <- NoVersions
    FirstInstalled <- AheadByOne
    FirstManifests <- OneOrNone
    MaxUpgrades = 1
    MaxStops = 1
    MaxSlips = 2
CHECK_DEADLOCK FALSE
PROPERTIES
    EveryBootstrapEnds
    EventuallyActivated
