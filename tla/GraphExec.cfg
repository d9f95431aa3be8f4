CONSTANTS
    p1 = p1
    p2 = p2
    b1 = b1
    b2 = b2
    NoPlan = NoPlan
    NullPtr = NullPtr
    NoGraph = NoGraph
    DefaultStream = "s1"
    Plan <- TwoPlans
    Node <- GraphAndLeaf
    GraphEnabled <- TwoPlans
    InPlace = {p2}
    Buf = {b1, b2}
    Data = {"d"}
    Stream = {"s1", "s2"}
    Faults <- CaptureFaults
    MaxExecs <- TwoAndOne
SPECIFICATION FairSpec
INVARIANTS ResultExact GraphComplete CaptureEnds
PROPERTIES ResultsArrive
CHECK_DEADLOCK FALSE
