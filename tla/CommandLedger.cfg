SPECIFICATION Spec
CONSTANTS
    c1 = c1
    c2 = c2
    k1 = k1
    k2 = k2
    k3 = k3
    a = a
    b = b
    r1 = r1
    r2 = r2
    r3 = r3
    r4 = r4
    r5 = r5
    r6 = r6
    None = None
    Commands = {k1, k2, k3}
    Contents = {a, b}
    Connections = {c1, c2}
    Requests = {r1, r2, r3, r4, r5, r6}
    Connection <- TwoConnections
    Command <- RepeatedCommand
    Content <- OneConflict
    Oversized = {}
    Deadlined = {r1}
    MaxDispatchers = 1
    MaxOutcomes = 2
    MaxPending = 2
INVARIANTS
    PendingIsExecuting
    ExecutingRetained
    NoOverlap
    AnswersAreOwn
CHECK_DEADLOCK FALSE
