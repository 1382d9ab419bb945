SPECIFICATION Spec
CONSTANTS
    None = None
    a = a
    b = b
    x = x
    n = n
    sib = sib
    own = own
    ext = ext
    way = way
    gone = gone
    m1 = m1
    m2 = m2
    Clients <- TwoPackaged
    Pids = {1, 2, 3}
    Binaries <- AllBinaries
    Models <- AllModels
    Override <- MCOverride
    Sibling <- MCSibling
    Model <- MCModel
    Release <- MCRelease
    Ops <- EnsureOnly
    Managed = own
    OnPath = None
    Packaged <- OnlySibling
    Compatible <- AllVersions
    Legacy <- NoVersions
    FirstInstalled <- AheadByOne
    FirstManifests <- NoManifest
    MaxUpgrades = 0
    MaxStops = 0
    MaxSlips = 1
CHECK_DEADLOCK FALSE
PROPERTIES
    HealthyIsNeverDuplicated
