CONSTANTS
    p1 = p1
    p2 = p2
    b1 = b1
    b2 = b2
    NoPlan = NoPlan
    NullPtr = NullPtr
    NoGraph = NoGraph
    DefaultStream = "s1"
    Plan <- OnePlan
    Node <- All2D
    GraphEnabled <- OnePlan
    InPlace = {p1}
    Buf = {b1, b2}
    Data = {1}
    Stream = {"s1"}
    Faults <- NoFaults
    MaxExecs <- Twice
SPECIFICATION Spec
INVARIANTS ResultExact
CHECK_DEADLOCK FALSE
