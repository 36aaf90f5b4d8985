SPECIFICATION Spec
CONSTANT Tasks = {t1, t2}
INVARIANT NoFrameLeft
CHECK_DEADLOCK FALSE
