CONSTANTS
    BlockCount = 3
    Depth = 4
    MaxPerSlot = 1
    L1Buf = {a1, a2}
    L2Buf = {c1, c2}
    RingToL1 = 1
    RingToL2 = 1
    Hold = 1
    Backlog = 1
    Lag = 1
    None = None
SYMMETRY BufferSymmetry
SPECIFICATION Spec
INVARIANT PoolTypeOK
INVARIANT NoAlias
INVARIANT NoLostBlock
INVARIANT NoOverrun
PROPERTY DeferredFree
INVARIANT BridgeTypeOK
INVARIANT NoRecycleUnderReader
INVARIANT OneMessagePerBlock
INVARIANT L2BufferAccounting
INVARIANT L1BufferAccounting
INVARIANT AgeBound
CHECK_DEADLOCK FALSE
