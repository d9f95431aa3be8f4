SPECIFICATION Spec
CONSTANTS
    Configs <- SoundConfigs
    RcMax = 4
    StridedMax = 20
INVARIANTS
    AccessInBounds
    ResultExact
    CallerInputKept
CHECK_DEADLOCK FALSE
