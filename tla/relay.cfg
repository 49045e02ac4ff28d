SPECIFICATION FairNsSpec
CONSTANTS
    a1 = a1
    a2 = a2
    b1 = b1
    Message <- MCMessage
    NONE = NONE
    MQ_MAXMSG = 1
    Counts = {1}
    MaxCommands = 3
INVARIANTS
    NsTypeOK
    NoExcessDrops
PROPERTIES
    RelaysBothWays
    StopEnds
    BothPortsServed
CHECK_DEADLOCK FALSE
