SPECIFICATION Spec
CONSTANTS
    MaxRevision = 7
    Bases = {0, 1}
    JournalWindow = 2
    HistoryWindow = 1
    LaneFrames = 2
    MaxBuffered = 2
    MaxAsks = 0
    MaxFailures = 1
    Nothing = Nothing
INVARIANT StatusTells
CHECK_DEADLOCK FALSE
