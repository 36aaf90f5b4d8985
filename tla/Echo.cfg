SPECIFICATION FairSpec
CONSTANTS Window = 4 BufferSize = 3 Sizes = {0, 4, 5} FaultySizes = {0, 5}
INVARIANTS NeverStuck EchoExact CleanEndIsWhole BacklogBounded
PROPERTY EchoCompletes
CHECK_DEADLOCK FALSE
