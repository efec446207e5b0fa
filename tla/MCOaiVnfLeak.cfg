CONSTANTS
    Slot = {s1, s2}
    QueueCap = 1
    SocketCap = 1
    MaxConn = 1
    MaxDgram = 2
    None = None
SPECIFICATION Spec
INVARIANT NoLeakedSlot
CHECK_DEADLOCK FALSE
