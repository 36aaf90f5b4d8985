SPECIFICATION FairSpec
CONSTANTS MaxHeaders = 3 Values = {0, 5}
INVARIANTS RequestComplete ResponseFaithful FailureIsTruncation
PROPERTIES ResponseStays LaterIsFinal StatusNeverMissed WaiterWoken
CHECK_DEADLOCK FALSE
