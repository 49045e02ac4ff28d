SPECIFICATION ConnSpec
CONSTANTS
    MAX_SEQ_NUM = 63
    WINDOW_SIZE = 1
    MESSAGE_BUF = 4
    ACK_BUF = 16
    TL_MSG_BUF = 8
    RESPONSE_BUF = 4
    FABRIC_BUF = 10
    CREDIT_DEFAULT = 2
    CREDIT_INIT = 1
    Addr = {8}
    OutOfBounds = {}
    HeapAddr = {}
    Val = {}
    StartSeq <- MCFromZero
    MaxTx = 25
    MaxRequests <- MCNone
    MaxLoss = 0
    MaxExpiry = 0
    MaxLead = 1
    Commands = {"c"}
    Uninitialised = {"past"}
    Prompt = TRUE
    MaxSessions = 1
    MaxResend = 2
INVARIANTS
    Recoverable
CHECK_DEADLOCK FALSE
