CONSTANTS
    Producer = {p1, p2}
    Consumer = {c1, c2}
    Capacity = 2
    MaxItems = 3
    None = None
SPECIFICATION Spec
INVARIANT NoLostWakeup
PROPERTY ImplementsFifo
PROPERTY EveryItemTaken
PROPERTY DestroyFreesThreads
CHECK_DEADLOCK FALSE
