SPECIFICATION HostSpec
CONSTANTS
  v1 = v1
  v2 = v2
  o1 = o1
  o2 = o2
  o3 = o3
  c1 = c1
  c2 = c2
  c3 = c3
  c4 = c4
  call1 = call1
  t1 = t1
  t2 = t2
  t3 = t3
  NoAnswer = NoAnswer
  NoSkill = NoSkill
  NoUri = NoUri
  NoError = NoError
  NoPlan = NoPlan
  Normalized <- MCNormalized
  Decisions <- MCDecisions
  Catalog <- MCCatalog
  Limits <- MCLimits
  ResultsFor <- MCResultsFor
  OutputPolicy <- MCOutputPolicy
  Editors = {c1, c2, c3, c4}
  NoRow = NoRow
  MaxStamp = 3
  RowIds = {1, 2, 3}
  MaxCreated = 2
  older = older
  newer = newer
  NoRegion = NoRegion
  NoBaseline = NoBaseline
  Versions = {v1, v2}
  Snapshot <- MCSnapshot
  Orders = {o1, o2, o3}
  KeyOf <- MCKeyOf
  Deliveries = {c1, c2}
  Calls = {call1}
  CallOf <- MCCallOf
  Nothing = Nothing
  RecordTTL = 1
  MaxPolicyTime = 1
  Requests = {c1, c2, c3, c4}
  NoGrant = NoGrant
  GrantTTL = 1
  MaxBootTime = 1
  Inits = {c1, c2}
  Operator = Operator
  MaxStops = 1
  Tabs = {c1, c2}
  Sources = {1}
  MaxTokens = 3
  SessionTTL = 1
  AttemptLimit = 2
  AttemptWindow = 1
  MaxKeys = 1
  MaxLoginTime = 1
  References = {c1, c2}
  Materials = {c3, c4, call1}
  Threads = {older}
  Absent = Absent
  CreateAttempts = 2
  MaxFaults = 2
  MaxOutages = 1
  Processes = {older, newer}
  Package <- MCPackage
  Nobody = Nobody
  MaxSnapshots = 2
  MaxErrors = 1
  MaxDeaths = 2
  MaxAttempts = 4
  AttemptTimeout = 4
  TotalTimeout = 10
  Backoff <- MCBackoff
  Slack = 2
INVARIANTS
  PlansExecutable
  AnswersCompose
  OutputSafe
  RegistryKeeps
  PagesComplete
  ActivatedAsReviewed
  EgressAllowed
  BootstrapOnce
  TokenGoodOnce
  SecretsKept
  SnapshotsKept
  DeadlineHonoured
PROPERTIES
  InstalledStays
CHECK_DEADLOCK FALSE
