------------------------------ MODULE MCProgress ------------------------------
(***************************************************************************)
(* What must eventually happen, on small instances of the components whose *)
(* workers are fair.  The parts have no variable in common in this         *)
(* instance; part, chosen at the start, is the one that moves (see         *)
(* MCPayments).  No symmetry: the properties are temporal.                 *)
(***************************************************************************)
EXTENDS Integers, Sequences, FiniteSets, TLC

CONSTANTS Parts,
          r1, Compensator,                      \* billing
          o1, o2, h1, h2, c1,              \* orders, callbacks, a channel
          b2, NoWire, NoProof, NoBill, wire, bill

VARIABLES
  part,
  user, token, ledger, row, proc, batch, refundFaults, session, keyNet,
  setUser, setToken, setLedger, setRow, attempts, intent, setSession, mayBill,
  setFaults, adjusted,
  status, outcome, acked, task, credited, repeats, topUpFaults,
  req, attempt, attIntent, resolution, review, proof, charge, paid, pass

\* The refund queue behind one request whose session is extended.
Refunds == INSTANCE BillingSession WITH
  Requests <- {r1}, Unlimited <- {}, Estimates <- {0, 1, 2}, Actuals <- {1, 3},
  InitialQuota <- 3, InitialTokenQuota <- 2, MaxQuota <- 7, MaxRefundAttempts <- 2,
  MaxRefundFaults <- 1, CallersRetry <- FALSE, MaxReserves <- 1

\* Two requests of one user, with a fault anywhere.
Settlement == INSTANCE RequestSettlement WITH
  Ops <- {o1, o2}, Channels <- {c1}, Amounts <- {1, 2}, Statuses <- {200},
  RejectionStatuses <- {},
  InitialQuota <- 2, InitialTokenQuota <- 2, TokenUnlimited <- FALSE, MaxQuota <- 8,
  MaxFaults <- 1, MaxEdits <- 0, user <- setUser, token <- setToken,
  ledger <- setLedger, row <- setRow, session <- setSession, faults <- setFaults

\* Two providers that repeat their callbacks until they are acknowledged.
TopUps == INSTANCE TopUpWebhooks WITH
  Orders <- {o1, o2}, Provider <- (o1 :> "waffo" @@ o2 :> "pancake"),
  Amount <- [o \in {o1, o2} |-> 1], QuotaPerUnit <- 2, Handlers <- {h1, h2},
  NodeOf <- [h \in {h1, h2} |-> h], Admins <- TRUE,
  MaxRepeats <- 1, MaxFaults <- 1, faults <- topUpFaults

\* Two settlements in the order the reconcile pass reads them, beside the sweep that
\* releases rejected holds.
Reviews == INSTANCE AttemptBilling WITH
  Requests <- {1, 2}, Proofs <- {b2}, RequestOf <- [p \in {b2} |-> 1],
  AttemptOf <- [p \in {b2} |-> 2], KindOf <- [p \in {b2} |-> "billed"],
  BillOf <- [p \in {b2} |-> bill], WireOf <- [p \in {b2} |-> wire], Wires <- {wire},
  ReservedQuota <- 3, AttemptQuota <- 1, Sweeps <- TRUE, WireOptional <- FALSE,
  intent <- attIntent

ASSUME Refunds!RefundAssumption /\ Refunds!SessionAssumption
ASSUME TopUps!TopUpAssumption /\ Reviews!AttemptBillingAssumption
-------------------------------------------------------------------------------
refundVars == <<user, token, ledger, row, proc, batch, refundFaults, session, keyNet>>
settlementVars == <<setUser, setToken, setLedger, setRow, attempts, intent, setSession,
                    mayBill, setFaults, adjusted>>
topUpVars == <<status, outcome, acked, task, credited, repeats, topUpFaults>>
reviewVars == <<req, attempt, attIntent, resolution, review, proof, charge, paid, pass>>
vars == <<part, refundVars, settlementVars, topUpVars, reviewVars>>

Init ==
  /\ part \in Parts
  /\ Refunds!SessionsInit /\ Settlement!Init /\ TopUps!Init /\ Reviews!Init

Next ==
  /\ UNCHANGED part
  /\ IF part = "refunds" THEN Refunds!SessionsNext ELSE UNCHANGED refundVars
  /\ IF part = "settlement" THEN Settlement!Next ELSE UNCHANGED settlementVars
  /\ IF part = "topUps" THEN TopUps!Next ELSE UNCHANGED topUpVars
  /\ IF part = "reviews" THEN Reviews!Next ELSE UNCHANGED reviewVars

\* The workers' tickers run for as long as a process of the service does, a
\* started handler finishes, a provider repeats what was not acknowledged: each
\* component's own fairness (see its module), for the part that moves.  Reviews
\* need no worker but the reconcile pass.
Fairness ==
  /\ WF_refundVars(part = "refunds" /\ Refunds!WorkerStep)
  /\ \A o \in {o1, o2} : WF_settlementVars(part = "settlement" /\ Settlement!RetryFinalization(o))
  /\ \A h \in {h1, h2} : WF_topUpVars(part = "topUps" /\ TopUps!Step(h))
  /\ \A o \in {o1, o2} :
       SF_topUpVars(/\ part = "topUps" /\ o \notin acked
                    /\ \E h \in {h1, h2} : TopUps!Callback(h, o))
  /\ WF_reviewVars(part = "reviews" /\ (Reviews!StartReconcile \/ Reviews!ReconcileRow))

FairSpec == Init /\ [][Next]_vars /\ Fairness
-------------------------------------------------------------------------------
\* Every open row of the refund queue is completed, or a dead letter after the
\* attempts the code allows (model/billing_refund.go).
EveryRefundLeavesTheQueue == Refunds!EveryRefundLeavesTheQueue

\* A saved finalization intent is charged, whatever became of its handler
\* (RetryZTAPISettlementFinalizations).
IntentEventuallySettled == Settlement!IntentEventuallySettled

\* A payment the provider took is credited or its order closed, although
\* handlers die between their steps (controller/topup_waffo.go).
PaidIsCredited == TopUps!PaidIsCredited

\* A request that lacks a review row gets it, though rows before it in the pass
\* keep changing, unless the sweep has left a review open at it or before it
\* (model/ztapi_attempt_billing_storage.go).
ReviewsReconciled == Reviews!ReviewsReconciled
===============================================================================
