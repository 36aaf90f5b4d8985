SPECIFICATION FairSpec
CONSTANTS
    MaxBody = 4
    MaxWrite = 3
    Window = 3
INVARIANTS
    TypeOK
    WireExact
    BuffersAlive
    NoEmptyFrame
    NoLostResume
PROPERTIES
    ImplementsSink
    EofOnlyWhenDrained
    WriteReturns
CHECK_DEADLOCK FALSE
