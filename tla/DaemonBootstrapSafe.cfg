SPECIFICATION Spec
CONSTANTS
    None = None
    a = a
    b = b
    x = x
    n = n
    sib = sib
    own = own
    ext = ext
    way = way
    gone = gone
    m1 = m1
    m2 = m2
    Clients <- Three
    Pids = {1, 2, 3}
    Binaries <- AllBinaries
    Models <- AllModels
    Override <- MCOverride
    Sibling <- MCSibling
    Model <- MCModel
    Release <- MCRelease
    Ops <- AllOps
    Managed = own
    OnPath = way
    Packaged <- SiblingOrPath
    Compatible <- OlderAPI
    Legacy <- OldVersions
    FirstInstalled <- ForeignAPI
    FirstManifests <- OldManifests
    MaxUpgrades = 2
    MaxStops = 1
    MaxSlips = 1
CHECK_DEADLOCK FALSE
INVARIANTS
    TypeOK
    ManifestIsTrue
PROPERTIES
    KnownDaemonIsNotDuplicated
    NeverDowngraded
    ReplacementKeepsTheModel
    ExternalIsNotStopped
