SPECIFICATION Spec
CONSTANTS
    me = me
    you = you
    a = a
    b = b
    nfc = nfc
    nfd = nfd
    txt = txt
    dir = dir
    secret = secret
    dot = dot
    out = out
    A = A
    B = B
    t = t
    u = u
    ref = ref
    key = key
    tags = tags
    value = value
    None = None
    Absent = Absent
    Nothing = Nothing
    Up = Up
    Here = Here
    Root = Root
    All = All
    Names <- MCNames
    Key <- MCKey
    Days <- MCDays
    Calendar <- MCCalendar
    Md <- MCMd
    Dated <- PeriodNames
    Hidden = {dot}
    Stem <- MCStem
    SubTags <- MCSubTags
    Scopes <- MCScopes
    Plugin <- MCPlugin
    CoreDaily <- MCCoreDaily
    MaxReferenceDepth = 2
    Callers <- Clients
    Setups <- MCSetups
    Excluded <- MCExcluded
    MaxFilesCap = 3
    MaxBytesCap = 4
    MaxDetails = 3
    MaxEdits = 1
INVARIANTS
    PatchLandsInPlace
    FieldEditsKeepTheRest
    NewNotesAreNew
    AnswersAreTrue
    ReadManyAccounts
    ReadersAgree
    PeriodicIsListed
PROPERTY ReadProfileNeverWrites
CHECK_DEADLOCK FALSE
