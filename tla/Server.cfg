SPECIFICATION FairSpec
CONSTANT Tasks = {t1, t2, t3, t4}
INVARIANTS CountExact SafeDestroy RunsUntilStopped
PROPERTY DrainTerminates
CHECK_DEADLOCK FALSE
