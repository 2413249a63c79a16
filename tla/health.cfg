CONSTANTS
  Parts = {"routes", "generations", "nodes", "outbox"}
  r1 = r1  r2 = r2  w1 = w1  w2 = w2
  Routes = {r1, r2}
  Workers = {w1, w2}
  MaxCases = 4
  MaxGeneration = 2
  Allocated = 8
  Reservation = 2
  Costs = {1, 4}
  MaxChanges = 1
  MaxFaults = 2
  OutboxWorkers = {w1, w2}
  Customers = {c1}
  Operations = {t1}
  MaxFailures = 2
  MaxTrips = 0
  BatchSize = 1
  AlwaysRefused = {}
  MaxOutboxFaults = 1
SPECIFICATION HealthSpec
SYMMETRY Nodes
INVARIANTS
  ProbesPaidOnce
  OpenRoutesProven
  OlderGenerationsGiveWay
  OutboxSafe
CHECK_DEADLOCK FALSE
