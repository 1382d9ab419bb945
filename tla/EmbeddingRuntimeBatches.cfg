SPECIFICATION Spec
CONSTANTS
    Absent = Absent
    m1 = m1
    m2 = m2
    Notes <- TwoNotes
    Titles <- MCTitles
    Bodies <- MCBodies
    Contents <- RealContent
    Pieces <- MCPieces
    Spaces <- OneSpace
    Legacies <- NoLegacy
    BatchSize = 2
    MaxEdits = 2
    MaxFaults = 1
    MaxRestarts = 0
CHECK_DEADLOCK FALSE
INVARIANTS
    WorkIsNeverLost
    QuietNotesAreCurrent
PROPERTIES
    NewestIntentWins
    LastKnownGood
    IsAnIntentQueue
