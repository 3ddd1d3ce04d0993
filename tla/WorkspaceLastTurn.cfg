SPECIFICATION Spec
CONSTANTS
    MaxRevision = 4
    Bases = {0, 1}
    JournalWindow = 2
    HistoryWindow = 1
    LaneFrames = 2
    MaxBuffered = 2
    MaxAsks = 0
    MaxFailures = 0
    Nothing = Nothing
INVARIANT RefreshServes
CHECK_DEADLOCK FALSE
