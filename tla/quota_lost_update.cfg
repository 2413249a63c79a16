CONSTANTS
  Parts = {"plan"}
  r1 = r1  r2 = r2
  Requests = {r1, r2}  Compensator = Compensator  Unlimited = {}
  Estimates = {2}  Actuals = {1, 3}  InitialQuota = 3  InitialTokenQuota = 4
  MaxQuota = 7  MaxRefundAttempts = 2  MaxRefundFaults = 1  CallersRetry = TRUE  MaxReserves = 0
  QuotaRequests = {r1, r2}  RequestId <- OwnId  Subs = {1, 2}  Total <- TotalOfSub
  Estimate = 2  Usages = {1, 3}  MaxTries = 3  MaxResets = 0  MaxEnded = 1
  MaxQuotaFaults = 0
  o1 = o1  o2 = o2  h1 = h1  h2 = h2  h3 = h3
  vip = vip  plain = plain
  PlanOrders = {o1}  PlanOf <- PlanOfOrder  Plans = {vip, plain}  Price = 1
  UpgradeGroup <- GroupOfPlan  Duration <- LengthOfPlan  MaxPurchase <- LimitOfPlan
  OrderHandlers = {h1, h2}  HandlerNode <- TwoNodes  OpeningQuota = 1
  MaxTime = 0  MaxSubs = 2
  Callbacks = {h1, h2, h3}  Trades = {o1, o2}
  Mutexes = {m1, m2, m3}  NoMutex = NoMutex  Nobody = Nobody
  TronAddresses = {a1, a2, a3, a4}  MaxEnabled = 1  MaxOperators = 2  MaxDeployFaults = 0
  c1 = c1  a1 = a1  a2 = a2
  Orders = {o1, o2}  Handlers = {h1, h2}  NodeOf <- OneNode
  Provider <- ProviderOfOrder  Amount <- OneUnit  QuotaPerUnit = 2
  Admins = TRUE  MaxRepeats = 2  MaxFaults = 2
SPECIFICATION PaymentsSpec
INVARIANTS
  UsedIsSum
CHECK_DEADLOCK FALSE
