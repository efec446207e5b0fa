CONSTANTS
    SeqSpace = 3
    MaxSegments = 2
    MaxSequences = 2
    MaxMessages = 4
    MaxDups = 1
    MaxNet = 4
    LegacyHeader = TRUE
    None = None
SPECIFICATION Spec
INVARIANT WholeUnlessLeftover
INVARIANT DispatchedOnce
INVARIANT EntryAccounting
INVARIANT DispatchedUnlessLost
CHECK_DEADLOCK FALSE
