SPECIFICATION FairSpec
CONSTANTS
    Layout <- PlainEnd
    Table <- ThreePrecincts
    FirstChunk <- ThreePrecinctChunks
    Frames = 4
    FirstSequence = 1
    ex_sequence_max = 9
    PIDModulus = 16
    BufferLength = 3
    Capacity = 4
    MaxLoss = 3
    MaxRepeat = 1
    ParserThrows = TRUE
CHECK_DEADLOCK FALSE
INVARIANTS
    TypeOK
    GarbageOnlyAfterGap
    IntactFramesAreParsed
    FrameCountNotAhead
PROPERTIES
    BodyNeverAborts
    Terminates
