CONSTANTS
  Parts = {"attempts", "split", "race", "logs", "alerts",
           "video", "retried", "clips", "songs"}
  b1 = b1  b2 = b2  b3 = b3  f1 = f1  f2 = f2  w1 = w1  w2 = w2
  bill1 = bill1  bill2 = bill2  NoWire = NoWire  NoProof = NoProof  NoBill = NoBill
  Requests = {1}
  Proofs = {b1, b2, b3, f1, f2}
  RequestOf <- RequestOfProof
  AttemptOf <- AttemptOfProof
  KindOf <- KindOfProof
  BillOf <- BillOfProof
  WireOf <- WireOfProof
  Wires = {w1, w2}
  ReservedQuota = 3
  AttemptQuota = 1
  Sweeps = TRUE
  WireOptional = TRUE
  text = text  image = image
  Refunds = {1, 2, 3, 4}
  Dims = {text, image}
  ChargeOf <- Charges
  FinalAttempt = 2
  ReversedAttempt <- AttemptOfRefund
  ModeOf <- ModeOfRefund
  UnitsOf <- UnitsOfRefund
  RefundWorkers = {1, 2}
  RetryLimit = 1
  StartBalance = 0
  WalletMax = 4
  MaxRefundFaults = 1
  Ops = {o1, o2}
  Maintainers = {m1, m2}
  BatchLimit = 2
  Poison = {}
  Deletes = TRUE
  MaxLogFaults = 1
  Sources = {s1}
  Reasons = {reason1, reason2}
  Nodes = {n1, n2}
  SameInstant = FALSE
  MaxUpdates = 2
  MaxFaults = 1
  p1 = p1  p2 = p2  clip = clip  song = song
  VideoPollers = {p1, p2}
  Maximum = 2
  MediaCharge = 1
  MaxAttempts = 1
  MaxMediaFaults = 1
  Tasks = {clip, song}
  Suno = {song}
  Pollers = {p1, p2}
  Quota = 2
  Actual = 3
  MaxPollFaults = 2
SPECIFICATION SupplierSpec
INVARIANTS
  AttemptsPaidExactly
  RefundsConserved
  CompletedIsDropped
  LoggedOnce
  SentOnce
  TasksBilledOnce
  SongsRefundedOncePerCrash
PROPERTIES
  VideoTaskOutcome
CHECK_DEADLOCK FALSE
