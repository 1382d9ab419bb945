SPECIFICATION FairSpec
CONSTANTS
    Absent = Absent
    m1 = m1
    m2 = m2
    Notes <- TwoNotes
    Titles <- MCTitles
    Bodies <- MCBodies
    Contents <- OneContent
    Pieces <- MCPieces
    Spaces <- TwoSpaces
    Legacies <- HalfCaches
    BatchSize = 1
    MaxEdits = 1
    MaxFaults = 1
    MaxRestarts = 1
CHECK_DEADLOCK FALSE
INVARIANTS
    NotesAreWhole
    NothingHalfPublished
PROPERTIES
    NoLateWrite
    EventuallyCurrent
    EventuallySaved
