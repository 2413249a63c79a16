SPECIFICATION OrdersSpec
CONSTANTS
  Users = {u1, u2}
  Orders = {o1, o2}
  Transfers = {e1, e2}
  Txs = {x1, x2}
  Addresses = {a1}
  Units = {1}
  Suffixes = {1}
  QuotaPerUnit = 20
  MaxQuota = 51
  TTL = 1
  Cooldown = 2
  Grace = 1
  Fractions = {0, 1}
  InitialQuota = 10
  MaxTime = 4
  LastCreate = 3
  MaxLag = 1
SYMMETRY OrdersSymmetry
INVARIANTS
  PaymentReachesItsOrder
  CreditedOnce
  WalletIsLedger
PROPERTIES
  Final
