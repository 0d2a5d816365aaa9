SPECIFICATION Spec
CONSTANTS
    NL = 2
    CsizMax = 4
    SubbandMax = 12
    DfsMax = 2
    Word = 65536
    FollowLimit = 5
    Bytes = {0, 128, 226, 255}
    MaxBytes = 4
    Streams <- MCStreams
    Bodies <- MCBodies
    ObjectSize <- Sizes
    ObjectAlign <- Alignments
CHECK_DEADLOCK FALSE
INVARIANTS
    HeaderAligned
    StylesByComponent
    ShiftCountsSplits
    TableComplete
    
    CutsDoNotMatter
    IntactFrameDecoded
