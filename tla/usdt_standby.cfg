SPECIFICATION FairWatcherSpec
CONSTANTS
  w1 = w1
  w2 = w2
  a1 = a1
  Watchers = {w1, w2}
  Deployed <- Standby
  Addresses = {a1}
  Watched = {}
  Users = {u1}
  Orders = {o1}
  Transfers = {e1}
  Txs = {x1}
  Units = {1}
  Suffixes = {1}
  QuotaPerUnit = 20
  MaxQuota = 51
  TTL = 1
  Cooldown = 2
  Grace = 1
  Fractions = {0}
  InitialQuota = 10
  MaxTime = 3
  LastCreate = 0
  MaxLag = 0
  PollInterval = 1
  LeaseDuration = 2
  Delays = {1}
  NoHolder = none
  MaxFaults = 1
INVARIANTS
  LeaseExclusive
PROPERTIES
  OrdersClose
  WatcherImplementsOrders
