SPECIFICATION FairSpec
CONSTANTS
    Frames = 2
    Period = 1
    FirstTimestamp = 1
    TimestampModulus = 8
    MaxLoss = 0
    BufferLength = 4
    IsEnter = FALSE
    FrameDelay = 2
CHECK_DEADLOCK FALSE
PROPERTIES
    StreamEndEndsProgram
