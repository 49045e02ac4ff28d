SPECIFICATION ConnSpec
CONSTANTS
    MAX_SEQ_NUM = 63
    WINDOW_SIZE = 1
    MESSAGE_BUF = 4
    ACK_BUF = 16
    TL_MSG_BUF = 8
    RESPONSE_BUF = 4
    FABRIC_BUF = 10
    CREDIT_DEFAULT = 2
    CREDIT_INIT = 1
    Addr = {8}
    OutOfBounds = {}
    HeapAddr = {}
    Val = {}
    StartSeq <- MCFromZero
    MaxTx = 25
    MaxRequests <- MCTwoByMaster
    MaxLoss = 1
    MaxExpiry = 0
    MaxLead = 1
    Commands = {"c", "d"}
    Uninitialised = {"past", "future"}
    Prompt = TRUE
    MaxSessions = 2
    MaxResend = 0
INVARIANTS
    MasterInOrder
    SessionInv
    DeliveryInv
    CreditInv
    ConnTypeOK
    SessionDelivery
    SessionCredit
    DataRecoverable
    SessionRequests
CHECK_DEADLOCK FALSE
