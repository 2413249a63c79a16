CONSTANTS
  Ops = {o1, o2}
  Channels = {c1, c2}
  Amounts = {1, 2}
  Statuses = {200, 408, 429}
  RejectionStatuses = {429}
  InitialQuota = 2
  InitialTokenQuota = 2
  TokenUnlimited = FALSE
  MaxQuota = 3
  MaxFaults = 2
  MaxEdits = 0
SPECIFICATION RequestsSpec
SYMMETRY Symmetry
INVARIANTS
  TypeOK
  HoldAccounting
  IntentNeverStranded
  MoneyConserved
PROPERTIES
  MaybeBilledNeverAutoReleased
  SafetyMarkHolds
  HoldRefinement
CHECK_DEADLOCK FALSE
