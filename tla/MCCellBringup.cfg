CONSTANTS
    Configs <- MCConfigs
    Buffers = 2
    RingCap = 2
    NvCap = 1
    None = None
SPECIFICATION Spec
INVARIANT BufferAccounting
INVARIANT CellAsConfigured
INVARIANT NoUseAfterClose
PROPERTY CellRequestAnswered
CHECK_DEADLOCK FALSE
