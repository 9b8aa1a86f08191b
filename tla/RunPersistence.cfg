SPECIFICATION PersistenceSpec
CONSTANTS
  r1 = r1
  r2 = r2
  a = a
  b = b
  NoWorker = NoWorker
  RunIds = {r1, r2}
  Workers = {w1, w2}
  Nodes = {a, b}
  Plan <- MCPlan
  Deps <- MCDeps
  Required = {a, b}
  Idempotent = {a}
  LeaseLen = 1
  MaxRevision = 6
  Tasks = {t1, t2, t3}
  Closer = closer
  Nobody = nobody
  NWrites = 2
  CancelPoints = {"lock", "begin", "write", "commit", "rollback"}
  MaxCancels = 2
INVARIANTS
  OwnershipMatchesState
  AllOrNothing
  OutcomeTruthful
  OnlyBeginLeaks
PROPERTIES
  StepsFollowDomain
  LifecycleSpec
  EveryUnitEnds
CHECK_DEADLOCK FALSE
