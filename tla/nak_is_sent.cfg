SPECIFICATION Spec
CONSTANTS
    MAX_SEQ_NUM = 31
    WINDOW_SIZE = 2
    MESSAGE_BUF = 4
    ACK_BUF = 8
    TL_MSG_BUF = 8
    RESPONSE_BUF = 4
    FABRIC_BUF = 6
    CREDIT_DEFAULT = 3
    Addr = {8}
    OutOfBounds = {}
    HeapAddr = {}
    Val = {}
    StartSeq <- MCStartSeq
    MaxTx = 15
    MaxRequests <- MCTwoByMaster
    MaxLoss = 1
    MaxExpiry = 0
    MaxLead = 2
PROPERTIES
    NakIsSent
