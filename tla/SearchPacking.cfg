SPECIFICATION Spec
CONSTANTS
    a = a
    b = b
    c = c
    d = d
    v = v
    w = w
    title = title
    part = part
    chapter = chapter
    tick = tick
    tilde = tilde
    work = work
    void = void
    Space = Space
    Newline = Newline
    Stop = Stop
    Fences = {tick, tilde}
    Level <- MCLevel
    NoFence = NoFence
    Missing = Missing
    MinTarget = 3
    DefaultTarget = 4
    DefaultOverlap = 1
    HardMaxFactor = 2
    Notes = {a, b, c, d}
    Gone = Gone
    Words = {v, w, title, part, chapter}
    Scope <- MCScope
    All = All
    Query = Query
    Job = Job
    other = other
    Callers = {Query, Job, other}
    Workers = {1}
    Nobody = Nobody
    NoIndex = NoIndex
    QueueCapacity = 1
    MaxRetries = 1
    Shapes = {"plain", "reversed", "mixed"}
    Setups <- PackSetups
    NoVectors = NoVectors
    Nothing = Nothing
    Unit = 5
    Weight = 6
    Share = 1
    MaxBodyWords = 4
    OverfetchFactor = 1
    OverfetchExtra = 1
    MaxResultsCap = 3
    DefaultPrefetch = 1
    ScopedFactor = 2
    MaxScopedPrefetch = 4
    CandidateDepth = 3
    MaxAsked = 1
INVARIANT PassagesAreEmbedded
CHECK_DEADLOCK FALSE
