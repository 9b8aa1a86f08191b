SPECIFICATION Spec
CONSTANTS
  ask = ask
  r1 = r1
  other = other
  skill = skill
  heavy = heavy
  Deliveries = {d1, d2}
  Requests = {ask, other, skill, heavy}
  UserOf <- MCUserOf
  KeyOf <- MCKeyOf
  FingerprintOf <- MCFingerprintOf
  Facts <- MCFacts
  Policy <- MCPolicy
  Unknown = Unknown
  RunIds = {r1, r2}
  Nothing = Nothing
  TTL = 2
  Limit = 1
  Window = 1
  MaxKeys = 1
  Followed = {r1}
  Role = "admin"
  PageSize = 2
  MaxTime = 2
  MaxFaults = 1
  MaxRevision = 4
SYMMETRY MCSymmetry
INVARIANTS
  OneRunPerKey
  RootAskedOnce
  StreamComplete
  RateHonoured
PROPERTIES
  LifecycleSpec
CHECK_DEADLOCK FALSE
