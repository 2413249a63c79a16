CONSTANTS
  Parts = {"probes", "outbox"}
  r1 = r1  w1 = w1
  OutboxWorkers = {w1}
  Customers = {c1}
  Operations = {t1}
  MaxFailures = 1
  MaxTrips = 1
  BatchSize = 2
  AlwaysRefused = {"alert"}
  MaxOutboxFaults = 1
SPECIFICATION HealthFairSpec
PROPERTIES CasesEnd EveryJobProcessed
CHECK_DEADLOCK FALSE
