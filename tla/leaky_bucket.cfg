SPECIFICATION FairSpec
CONSTANTS
    BufferLength = 4
    Held = 2
    MaxPackets = 7
    NonBlocking = TRUE
CHECK_DEADLOCK FALSE
INVARIANTS
    DirtySlotPoppableOnlyWhenFull
    HeldIntact
    RingInv
PROPERTIES
    RefinesUntilRace
    NoLostWakeup
    ShutdownUnlessRaced
