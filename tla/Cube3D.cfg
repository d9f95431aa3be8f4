SPECIFICATION Spec
CONSTANTS
    Configs <- SoundConfigs
    StridedMax = 20
INVARIANTS
    NaturalOrder
    InputKept
CHECK_DEADLOCK FALSE
