SPECIFICATION Spec
CONSTANTS
  Tasks = {t1, t2}
  Closer = closer
  Nobody = nobody
  NWrites = 2
  CancelPoints = {"lock", "begin", "write", "commit", "rollback"}
  MaxCancels = 1
INVARIANTS
  CleanBetweenUnits
CHECK_DEADLOCK FALSE
