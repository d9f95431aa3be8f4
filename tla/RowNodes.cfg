SPECIFICATION Spec
CONSTANTS
    Configs <- SoundConfigs
    Calls = 2
INVARIANTS
    AccessInBounds
    ResultExact
    CallerMemoryKept
    ReadyIsComplete
CHECK_DEADLOCK FALSE
