SPECIFICATION Spec
CONSTANTS
  r1 = r1
  r2 = r2
  a = a
  b = b
  NoWorker = NoWorker
  NoTask = NoTask
  NoRun = NoRun
  RunIds = {r1, r2}
  Workers = {w1, w2, w3}
  Nodes = {a, b}
  Plan <- MCPlan
  Deps <- MCDeps
  Required = {a}
  Idempotent = {a}
  LeaseLen = 1
  MaxRevision = 20
  Tasks = {t1, t2}
  MaxConcurrentRuns = 2
  FaultKinds = {"crash", "close", "raise", "lapse", "claim_error"}
  MaxFaults = 2
  RestartAfterExpiry = FALSE
SYMMETRY MCSymmetry
INVARIANTS
  TasksRegistered
  PermitsConserved
  NoLostWakeup
  CancelReachesTask
