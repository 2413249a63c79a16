CONSTANTS
  Requests = {r1}
  Compensator = w
  Unlimited = {}
  Estimates = {2, 4}
  Actuals = {1}
  InitialQuota = 4
  InitialTokenQuota = 3
  MaxQuota = 7
  MaxRefundAttempts = 2
  MaxRefundFaults = 1
  CallersRetry = FALSE
  MaxReserves = 1
SPECIFICATION SessionsSpec
INVARIANT NeverOverRefunded
CHECK_DEADLOCK FALSE
