CONSTANTS
    PoolSize = 2
    QueueCap = 1
    Segments = 2
    AirCap = 1
    MaxConn = 2
    MaxRunts = 1
    Blocking = FALSE
SPECIFICATION Spec
INVARIANT AerialOaiTypeOK
INVARIANT SingleTransmitter
INVARIANT UplinkWhole
INVARIANT SlotsHeld
PROPERTY EveryRequestAnswered
PROPERTY StopReturns
CHECK_DEADLOCK FALSE
