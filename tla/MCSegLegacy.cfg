CONSTANTS
    SeqSpace = 2
    MaxSegments = 2
    MaxSequences = 2
    MaxMessages = 1
    MaxDups = 0
    MaxNet = 2
    LegacyHeader = TRUE
    None = None
SPECIFICATION Spec
INVARIANT ReassembledWhole
CHECK_DEADLOCK FALSE
