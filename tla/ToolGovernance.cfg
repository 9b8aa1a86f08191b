SPECIFICATION Spec
CONSTANTS
  approve = approve
  free = free
  deny = deny
  Calls = {c1, c2}
  Runs = {r1}
  Arguments = {a1, a2}
  Grants = {g1}
  Nothing = Nothing
  Versions = {approve, free, deny}
  Allowing = {approve, free}
  Approving = {approve}
  MaxCalls <- MCMaxCalls
  Snapshots = {"s1", "s2"}
  SnapshotOf <- MCSnapshotOf
  MaxChanges = 1
  MaxFaults = 1
SYMMETRY MCSymmetry
INVARIANTS
  BudgetHonoured
  GrantBacksOneCall
  ExecutionRecorded
PROPERTIES
  NoStaleAuthorization
CHECK_DEADLOCK FALSE
