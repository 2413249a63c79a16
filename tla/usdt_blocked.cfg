SPECIFICATION WatcherSpec
CONSTANTS
  w1 = w1
  w2 = w2
  a1 = a1
  Watchers = {w1}
  Deployed <- Single
  Addresses = {a1}
  Watched = {}
  Users = {u1, u2}
  Orders = {o1, o2}
  Transfers = {e1, e2}
  Txs = {x1, x2}
  Units = {1}
  Suffixes = {1, 2}
  QuotaPerUnit = 20
  MaxQuota = 51
  TTL = 1
  Cooldown = 2
  Grace = 1
  Fractions = {0}
  InitialQuota = 10
  MaxTime = 2
  LastCreate = 0
  MaxLag = 0
  PollInterval = 1
  LeaseDuration = 2
  Delays = {1, 2}
  NoHolder = none
  MaxFaults = 0
SYMMETRY WatcherSymmetry
PROPERTIES
  SettlesAllMatching
