SPECIFICATION FairSpec
CONSTANTS
    StateLanes = {s1, s2}
    Keys = {k1}
    TerminalLanes = {t1}
    s1 = s1
    s2 = s2
    k1 = k1
    t1 = t1
    ControlSizes = {1}
    StateSizes = {1}
    ResyncBytes = 1
    SkipBytes = 1
    MaxChunk = 2
    MaxPosition = 3
    MaxQueuedFrames = 1
    MaxQueuedBytes = 3
    MaxStateQueuedFrames = 2
    MaxStateQueuedBytes = 2
    MaxTerminalQueuedFrames = 2
    MaxTerminalQueuedBytes = 2
    MaxTerminalUnconfirmedBytes = 2
    MaxConsecutiveControl = 1
    NoFrame = NoFrame
INVARIANT QueuesBounded
INVARIANT NeverStalled
INVARIANT ClientContiguous
INVARIANT SilenceIsAnnounced
PROPERTY FailureSettles
CHECK_DEADLOCK FALSE
