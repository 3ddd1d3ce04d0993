SPECIFICATION PathSpec
CONSTANTS
    Large = {}
    f1 = f1
    f2 = f2
    Features = {f1, f2}
    Correlations = {f1, f2}
    Pings = {}
    Correlation <- Fresh
    Deadlined = {}
    Bytes <- OneByte
    Heartbeat = FALSE
    MaxInFlight = 1
    MaxPending = 2
    MaxPendingBytes = 2
    MaxOutstanding = 2
    MaxWaiting = 2
    Budget = 2
PROPERTY
    AbandonedWorkStops
CHECK_DEADLOCK FALSE
