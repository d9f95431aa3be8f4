SPECIFICATION FairSpec
CONSTANTS
    p1 = p1
    p2 = p2
    t1 = t1
    t2 = t2
    t3 = t3
    Process <- TwoProcesses
    Thread <- ThreeThreads
    ProcOf <- TwoInOne
    Key = {k1}
    NoKey = NoKey
    NoThread = NoThread
    MaxCalls = 1
    MaxClears = 1
INVARIANTS
    RequestExclusive
    NoDuplicateBuild
    SharedKernel
    CompileReadsWholeModule
PROPERTIES
    CallReturns
    ImplementsMemo
CHECK_DEADLOCK FALSE
