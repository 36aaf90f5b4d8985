SPECIFICATION Spec
CONSTANTS MaxHeaders = 1 Values = {0, 5}
INVARIANT ResponseComplete
CHECK_DEADLOCK FALSE
