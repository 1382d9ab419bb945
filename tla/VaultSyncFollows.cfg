SPECIFICATION FairSpec
CONSTANTS
    p1 = p1
    p2 = p2
    c1 = c1
    k1 = k1
    k2 = k2
    Garbled = Garbled
    None = None
    Paths <- TwoPaths
    Contents <- OneContent
    Calls <- TwoCalls
    Vaults <- AnyVault
    Settings <- TwoOwners
    MaxChanges = 2
    MaxLost = 1
CHECK_DEADLOCK FALSE
INVARIANTS
    TypeOK
    SettledIsInSync
PROPERTIES
    EventuallyInSync
