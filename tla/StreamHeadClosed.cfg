SPECIFICATION FairSpec
CONSTANTS MaxHeaders = 1 Values = {0, 5}
PROPERTY ClosedMeansReturn
CHECK_DEADLOCK FALSE
