SPECIFICATION FairSpec
CONSTANTS
    Streams = {1}
    Capacity = 2
    MaxReplies = 1
INVARIANTS TypeOK NoStrandedOutput WireOrder StreamsAgree
    NobodyLeftWaiting GoawayFlushed
PROPERTY SessionEnds
CHECK_DEADLOCK FALSE
