SPECIFICATION PathSpec
CONSTANTS
    Large = {f1, f2}
    f1 = f1
    f2 = f2
    f3 = f3
    Features = {f1, f2, f3}
    Correlations = {f1, f2, f3}
    Pings = {}
    Correlation <- Fresh
    Deadlined = {}
    Bytes <- Weighted
    Heartbeat = FALSE
    MaxInFlight = 1
    MaxPending = 2
    MaxPendingBytes = 3
    MaxOutstanding = 2
    MaxWaiting = 2
    Budget = 3
INVARIANTS
    UnsentNeverArrives
    AdmissionExact
PROPERTY
    AbortedWorkStops
CHECK_DEADLOCK FALSE
