CONSTANTS
  Parts = {"refunds", "settlement", "topUps", "reviews"}
  r1 = r1  Compensator = Compensator  o1 = o1  o2 = o2  h1 = h1  h2 = h2  c1 = c1
  b2 = b2  NoWire = NoWire  NoProof = NoProof  NoBill = NoBill
  wire = wire  bill = bill
SPECIFICATION FairSpec
PROPERTIES EveryRefundLeavesTheQueue IntentEventuallySettled PaidIsCredited ReviewsReconciled
CHECK_DEADLOCK FALSE
