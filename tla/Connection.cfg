SPECIFICATION Spec
CONSTANTS
    f1 = f1
    f2 = f2
    f3 = f3
    x = x
    y = y
    Correlations = {x, y}
    Features = {f1, f2, f3}
    Pings = {p}
    p = p
    Correlation <- SharedCorrelation
    Deadlined = {f1}
    Bytes <- LargeLast
    Heartbeat = TRUE
    MaxInFlight = 1
    MaxPending = 2
    MaxPendingBytes = 2
INVARIANTS
    TeardownStopsWork
    SlotsCounted
    WorkConserving
    AnsweredOnce
PROPERTIES
    TeardownEnds
    SettledWithoutSlot
CHECK_DEADLOCK FALSE
