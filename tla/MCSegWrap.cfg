CONSTANTS
    SeqSpace = 2
    MaxSegments = 2
    MaxSequences = 2
    MaxMessages = 3
    MaxDups = 0
    MaxNet = 4
    LegacyHeader = FALSE
    None = None
SPECIFICATION Spec
INVARIANT ReassembledWhole
CHECK_DEADLOCK FALSE
