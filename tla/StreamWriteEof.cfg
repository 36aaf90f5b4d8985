SPECIFICATION FairSpec
CONSTANTS
    MaxBody = 2
    MaxWrite = 1
    Window = 2
INVARIANTS
    EofSuccessMeansSent
CHECK_DEADLOCK FALSE
