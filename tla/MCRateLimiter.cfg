CONSTANTS
    Procs = {p1, p2, p3}
    Keys = {k1, k2, k3}
    Requests = 2
    Window = 2
    CleanupFactor = 1
    MaxTime = 4
    p1 = p1
    p2 = p2
    p3 = p3
    k1 = k1
    k2 = k2
    k3 = k3
SYMMETRY Symmetry
SPECIFICATION Spec
INVARIANTS
    Budget
PROPERTIES
    RunningWindowKept
    TableCleaned
