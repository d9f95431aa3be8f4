SPECIFICATION Spec
CONSTANTS
    Configs <- SplitPackConfigs
    Calls = 1
INVARIANTS
    ResultExact
CHECK_DEADLOCK FALSE
