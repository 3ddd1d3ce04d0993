SPECIFICATION Spec
CONSTANTS
    StateLanes = {s1}
    Keys = {k1}
    TerminalLanes = {t1, t2}
    s1 = s1
    k1 = k1
    t1 = t1
    t2 = t2
    ControlSizes = {1}
    StateSizes = {1}
    ResyncBytes = 1
    SkipBytes = 1
    MaxChunk = 1
    MaxPosition = 2
    MaxQueuedFrames = 1
    MaxQueuedBytes = 3
    MaxStateQueuedFrames = 2
    MaxStateQueuedBytes = 2
    MaxTerminalQueuedFrames = 2
    MaxTerminalQueuedBytes = 3
    MaxTerminalUnconfirmedBytes = 2
    MaxConsecutiveControl = 1
    NoFrame = NoFrame
SYMMETRY LaneSymmetry
INVARIANT ByteAccounting
INVARIANT InFlightHeadsItsQueue
PROPERTY ImplementsScheduler
CHECK_DEADLOCK FALSE
