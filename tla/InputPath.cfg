SPECIFICATION Spec
CONSTANTS
    a = a
    b = b
    k1 = k1
    k2 = k2
    k3 = k3
    None = None
    Sessions = {a, b}
    Sockets = {k1, k2, k3}
    Owner <- WhoOpens
    MaxId = 3
    Quotas <- OnePageOrTwo
    Inflight = 2
    MaxPending = 2
    NodeCap = 3
    Window = 2
    MaxFaults = 1
SYMMETRY Reconnects
INVARIANTS
    TypeOK
    BudgetIsExact
    UnackedMeansNotYet
    HealthyPathIsExact
    CopiesNeedDoubt
PROPERTIES
    KeystrokesAreNotLost
CHECK_DEADLOCK FALSE
