SPECIFICATION FairSpec
CONSTANTS
    MaxBody = 5
    MaxBuffer = 3
    Window = 4
INVARIANTS
    TypeOK
    InOrder
    NoSilentLoss
    WakeupExact
    FlowControl
    SinkAlive
PROPERTIES
    ImplementsPipe
    EveryByteRead
    EndIsReported
