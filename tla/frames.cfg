SPECIFICATION FrameSpec
CONSTANTS
    RequestSizes = {0, 3, 4}
    AnswerSizes = {0, 3, 5}
    Data = {0, 100}
    Message <- MCMessage
    Fabric = {"ether", "mq"}
    MaxFrames = 2
INVARIANT FramesUnderstood
CHECK_DEADLOCK FALSE
