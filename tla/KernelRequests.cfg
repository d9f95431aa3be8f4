SPECIFICATION Spec
CONSTANTS
    Configs <- MCConfigs
    MaxKernels = 1
    MaxDepth = 3
INVARIANTS
    KernelFits
    ScopeHonoured
