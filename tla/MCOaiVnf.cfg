CONSTANTS
    Slot = {s1, s2, s3}
    QueueCap = 2
    SocketCap = 1
    MaxConn = 2
    MaxDgram = 3
    None = None
SPECIFICATION Spec
INVARIANT VnfTypeOK
INVARIANT RunningHasDataPlane
INVARIANT SlotAccounting
INVARIANT SingleSender
PROPERTY DispatchInOrder
PROPERTY StopReturns
PROPERTY HandshakeCompletes
CHECK_DEADLOCK FALSE
