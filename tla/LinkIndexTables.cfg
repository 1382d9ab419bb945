SPECIFICATION Spec
CONSTANTS
    ax = ax
    bx = bx
    y = y
    hx = hx
    X = X
    Y = Y
    t1 = t1
    t2 = t2
    None = None
    Paths <- FourPaths
    Stems <- TwoStems
    StemOf <- FolderStems
    Tags <- TwoTags
    Metas <- SomeMetas
    Hidden <- OneHidden
    MaxClobbers = 1
INVARIANTS
    TablesExact
    TagNeverMissed
CHECK_DEADLOCK FALSE
