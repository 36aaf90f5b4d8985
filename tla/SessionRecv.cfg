SPECIFICATION FairSpec
CONSTANTS
    Streams = {1}
    Capacity = 1
    MaxReplies = 0
PROPERTY RecvLoopEnds
CHECK_DEADLOCK FALSE
