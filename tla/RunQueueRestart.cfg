SPECIFICATION FairSpec
CONSTANTS
  r1 = r1
  a = a
  b = b
  c = c
  NoWorker = NoWorker
  NoTask = NoTask
  NoRun = NoRun
  RunIds = {r1}
  Workers = {w1, w2}
  Nodes = {a, b, c}
  Plan <- MCPlan
  Deps <- MCDeps
  Required = {b, c}
  Idempotent = {a, b}
  LeaseLen = 1
  MaxRevision = 20
  Tasks = {t1}
  MaxConcurrentRuns = 1
  FaultKinds = {"crash"}
  MaxFaults = 1
  RestartAfterExpiry = FALSE
PROPERTIES
  InterruptedRunsRecover
