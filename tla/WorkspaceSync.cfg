SPECIFICATION Spec
CONSTANTS
    MaxRevision = 4
    Bases = {0, 1}
    JournalWindow = 2
    HistoryWindow = 1
    LaneFrames = 2
    MaxBuffered = 2
    MaxAsks = 1
    MaxFailures = 1
    Nothing = Nothing
INVARIANT NoHole
INVARIANT SettledIsCurrent
PROPERTY NeverBack
CHECK_DEADLOCK FALSE
