SPECIFICATION Spec
CONSTANTS
    Files <- MCFiles
    Rates <- MCRates
    Loops = {0, 1, 2}
    Numbers = {0, 1, 2, 7}
    MaxLines = 3
    SeqModulus = 16
    RawSeq = 64
    TsMod = 16
    Word = 256
    Clock = 3
    Recordings <- MCRecordings
CHECK_DEADLOCK FALSE
INVARIANTS
    CommandDone
    LossExact
    CountersAgree
    FramesFound
PROPERTIES
    NumbersFollow
    SenderEnds
