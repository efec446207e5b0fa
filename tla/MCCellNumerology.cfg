CONSTANTS
    Configs <- MCConfigs
    Buffers = 2
    RingCap = 1
    NvCap = 1
    None = None
SPECIFICATION Spec
INVARIANT SlotsInCellNumerology
CHECK_DEADLOCK FALSE
