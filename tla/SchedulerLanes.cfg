SPECIFICATION FairSpec
CONSTANTS
    StateLanes = {s1, s2}
    TerminalLanes = {t1, t2}
    s1 = s1
    s2 = s2
    t1 = t1
    t2 = t2
    MaxConsecutiveControl = 2
    MaxControlFrames = 1
    MaxStateFrames = 2
    MaxTerminalFrames = 2
PROPERTIES
    ClassesServed
    ReleaseFinishes
CHECK_DEADLOCK FALSE
