SPECIFICATION FairSpec
CONSTANTS
    StateLanes = {}
    TerminalLanes = {t1, t2, t3}
    t1 = t1
    t2 = t2
    t3 = t3
    MaxConsecutiveControl = 2
    MaxControlFrames = 1
    MaxStateFrames = 2
    MaxTerminalFrames = 1
PROPERTY TerminalServed
CHECK_DEADLOCK FALSE
