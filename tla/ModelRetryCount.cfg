SPECIFICATION RetrySpec
CONSTANTS
  MaxAttempts = 4
  AttemptTimeout = 4
  TotalTimeout = 10
  Backoff <- MCBackoff
  Slack = 2
INVARIANTS
  ExactCounts
CHECK_DEADLOCK FALSE
