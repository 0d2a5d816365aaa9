SPECIFICATION FairSpec
CONSTANTS
    Frames = 4
    Period = 1
    FirstTimestamp = 7
    TimestampModulus = 8
    MaxLoss = 1
    BufferLength = 2
    IsEnter = TRUE
    FrameDelay <- UntilEnter
CHECK_DEADLOCK FALSE
INVARIANTS
    PromisesSetOnce
    PeriodMeasured
PROPERTIES
    ImgIncSettledBeforeRead
    StreamEndEndsProgram
    SigintEndsUnlessBlocked
