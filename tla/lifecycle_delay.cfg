SPECIFICATION Spec
CONSTANTS
    Frames = 5
    Period = 3
    FirstTimestamp = 1
    TimestampModulus = 8
    MaxLoss = 1
    BufferLength = 2
    IsEnter = FALSE
    FrameDelay = 2
CHECK_DEADLOCK FALSE
INVARIANTS
    DelayHonoured
    LifecycleInv
