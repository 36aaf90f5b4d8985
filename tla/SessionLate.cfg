SPECIFICATION Spec
CONSTANTS
    Streams = {1}
    Capacity = 1
    MaxReplies = 0
INVARIANT EndLeavesNoStream
CHECK_DEADLOCK FALSE
