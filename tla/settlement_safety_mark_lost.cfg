CONSTANTS
  Ops = {o1}
  Channels = {c1, c2}
  Amounts = {1}
  Statuses = {200, 400}
  RejectionStatuses = {400}
  InitialQuota = 2
  InitialTokenQuota = 2
  TokenUnlimited = FALSE
  MaxQuota = 8
  MaxFaults = 1
  MaxEdits = 0
SPECIFICATION Spec
INVARIANTS
  SafetyOutcomeHolds
CHECK_DEADLOCK FALSE
