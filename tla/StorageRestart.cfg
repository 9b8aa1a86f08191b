SPECIFICATION StorageSpec
CONSTANTS
  older = older
  newer = newer
  Processes = {older, newer}
  Package <- MCPackage
  Nobody = Nobody
  MaxSnapshots = 2
  MaxErrors = 1
  MaxDeaths = 2
INVARIANTS
  RestartPossible
CHECK_DEADLOCK FALSE
