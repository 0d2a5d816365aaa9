SPECIFICATION FairSpec
CONSTANTS
    Layout <- SingleResync
    Table <- ThreePrecincts
    FirstChunk <- ThreePrecinctChunks
    Frames = 3
    FirstSequence = 1
    ex_sequence_max = 100
    PIDModulus = 16
    BufferLength = 3
    Capacity = 4
    MaxLoss = 0
    MaxRepeat = 0
    ParserThrows = FALSE
CHECK_DEADLOCK FALSE
PROPERTIES
    BodyNeverAborts
