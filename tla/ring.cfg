SPECIFICATION FairQueueSpec
CONSTANTS
    Msg = {m1, m2}
    NULL = NULL
    Garbage = Garbage
    SIZE = 4
INVARIANTS
    QueueTypeOK
    RingInv
    NeverRefused
    NoSlotShared
PROPERTIES
    IsFifo
    IsFairFifo
    WaitEnds
