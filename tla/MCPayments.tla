------------------------------ MODULE MCPayments ------------------------------
(***************************************************************************)
(* What a customer pays with, on small instances: the wallet and API key   *)
(* of a relay request, subscriptions and their quota, the orders of every  *)
(* payment provider, the mutex table of the callbacks, the addresses the   *)
(* watcher polls, and the user an administrator suspends.                  *)
(*                                                                         *)
(* It extends the billing sessions, the subscription quota, the            *)
(* subscription orders, the top-ups, the mutex table and the watched       *)
(* addresses, whose constants payments.cfg gives (two requests that share  *)
(* a wallet of three and an API key of four, so that estimates of two      *)
(* collide and a settlement of three needs more; two subscriptions, the    *)
(* first with room for both requests but not for a larger settlement; a    *)
(* plan that changes the group and one that may be bought once), and       *)
(* instantiates the others.                                                *)
(*                                                                         *)
(* The parts have no variable in common in this instance, so interleaving  *)
(* them would only multiply their states: part, chosen at the start, is    *)
(* the one that moves.  A component under two deployments is two parts.    *)
(***************************************************************************)
EXTENDS BillingSession, SubscriptionQuota, SubscriptionOrders, TopUpWebhooks, OrderLock,
        WatchedAddresses, FiniteSetsExt, TLC

CONSTANTS Parts,                \* the parts a run checks
          r1, r2,               \* relay requests
          o1, o2, h1, h2, h3,   \* orders and the callbacks that handle them
          vip, plain,           \* subscription plans
          c1,                   \* an upstream channel
          a1, a2                \* the addresses that are ever deployed

VARIABLES
  part,
  strUser, strToken, strLedger, strRow, strProc, strBatch, strFaults, strSession, strKeyNet,
  resSub, resBegun, resResets, resRecord, resReq, resSnap, resReset, resCharged,
  resOverwritten, resFaults,
  loneNow, loneGroup, loneQuota, loneSubs, loneOrder, loneTopup, loneTx, lonePass,
  aloneStatus, aloneOutcome, aloneAcked, aloneTask, aloneCredited, aloneRepeats,
  aloneFaults,
  admUser, admToken, admLedger, admRow, admAttempts, admIntent, admSession,
  admMayBill, admFaults, adjusted

OneNode == [h \in {h1, h2} |-> "n1"]
TwoNodes == [h \in {h1, h2} |-> IF h = h1 THEN "n1" ELSE "n2"]

\* One request whose session is extended while it streams.
Stream == INSTANCE BillingSession WITH
  Requests <- {r1}, Unlimited <- {}, Estimates <- {0, 1, 2}, Actuals <- {1, 3},
  InitialQuota <- 3, InitialTokenQuota <- 2, MaxQuota <- 7, MaxRefundAttempts <- 2,
  MaxRefundFaults <- 2, CallersRetry <- FALSE, MaxReserves <- 1,
  user <- strUser, token <- strToken, ledger <- strLedger, row <- strRow, proc <- strProc,
  batch <- strBatch, refundFaults <- strFaults, session <- strSession, keyNet <- strKeyNet

OwnId(r) == r
TotalOfSub == <<4, 2>>

\* payments.cfg gives two subscriptions, whose periods last; this is one, with a
\* period that begins.
Renewed == INSTANCE SubscriptionQuota WITH
  Subs <- {1}, Total <- <<4>>, MaxResets <- 1, MaxEnded <- 0,
  sub <- resSub, begun <- resBegun, resets <- resResets, record <- resRecord, req <- resReq,
  snap <- resSnap, resetting <- resReset, charged <- resCharged,
  overwritten <- resOverwritten, quotaFaults <- resFaults

PlanOfOrder == o1 :> vip
GroupOfPlan == [p \in {vip, plain} |-> IF p = vip THEN "vip" ELSE ""]
LengthOfPlan == [p \in {vip, plain} |-> IF p = vip THEN 2 ELSE 1]
LimitOfPlan == [p \in {vip, plain} |-> IF p = vip THEN 0 ELSE 1]

\* payments.cfg gives two nodes, where no time passes; this is one, with an empty
\* wallet, where subscriptions end.
Lone == INSTANCE SubscriptionOrders WITH
  HandlerNode <- OneNode, OpeningQuota <- 0, MaxTime <- 1,
  now <- loneNow, group <- loneGroup, quota <- loneQuota, subs <- loneSubs,
  order <- loneOrder, topup <- loneTopup, tx <- loneTx, pass <- lonePass

\* The callbacks of Creem and Stripe beside an administrator, and those of epay
\* and Waffo by themselves; both on the only node.
ProviderOfOrder == o1 :> "creem" @@ o2 :> "stripe"
OneUnit == [o \in {o1, o2} |-> 1]
Alone == INSTANCE TopUpWebhooks WITH
  Orders <- {o1, o2}, Provider <- (o1 :> "epay" @@ o2 :> "waffo"), Amount <- OneUnit,
  QuotaPerUnit <- 2, Handlers <- {h1, h2}, NodeOf <- OneNode,
  Admins <- FALSE, MaxRepeats <- 2, MaxFaults <- 1, status <- aloneStatus,
  outcome <- aloneOutcome, acked <- aloneAcked, task <- aloneTask,
  credited <- aloneCredited, repeats <- aloneRepeats, faults <- aloneFaults

\* An administrator adjusts, disables and enables the owner of two requests
\* whose charges may leave a debt.
Admin == INSTANCE RequestSettlement WITH
  Ops <- {o1, o2}, Channels <- {c1}, Amounts <- {1, 2}, Statuses <- {200, 429},
  RejectionStatuses <- {429}, InitialQuota <- 1, InitialTokenQuota <- 2, TokenUnlimited <- TRUE, MaxQuota <- 8,
  MaxFaults <- 0, MaxEdits <- 2, user <- admUser, token <- admToken,
  ledger <- admLedger, row <- admRow, attempts <- admAttempts, intent <- admIntent,
  session <- admSession, mayBill <- admMayBill, faults <- admFaults

ASSUME Stream!RefundAssumption /\ Stream!SessionAssumption
ASSUME SubscriptionAssumption /\ Renewed!SubscriptionAssumption
ASSUME SubscriptionOrdersAssumption /\ Lone!SubscriptionOrdersAssumption
ASSUME TopUpAssumption /\ Alone!TopUpAssumption
ASSUME OrderLockAssumption /\ WatchedAssumption
-------------------------------------------------------------------------------
streamVars == <<strUser, strToken, strLedger, strRow, strProc, strBatch, strFaults,
                strSession, strKeyNet>>
renewedVars == <<resSub, resBegun, resResets, resRecord, resReq, resSnap, resReset,
                 resCharged, resOverwritten, resFaults>>
loneVars == <<loneNow, loneGroup, loneQuota, loneSubs, loneOrder, loneTopup, loneTx,
              lonePass>>
aloneVars == <<aloneStatus, aloneOutcome, aloneAcked, aloneTask, aloneCredited,
               aloneRepeats, aloneFaults>>
adminVars == <<admUser, admToken, admLedger, admRow, admAttempts, admIntent,
               admSession, admMayBill, admFaults, adjusted>>
paymentsVars == <<part, sessionVars, streamVars, quotaVars, renewedVars, subscriptionVars,
                  loneVars, vars, aloneVars, lockVars, addressVars, adminVars>>

PaymentsInit ==
  /\ part \in Parts
  /\ SessionsInit /\ Stream!SessionsInit
  /\ SubscriptionInit /\ Lone!SubscriptionInit
  /\ QuotaInit /\ Renewed!QuotaInit /\ Init /\ Alone!Init /\ LockInit
  /\ part # "lock" => wants = [h \in Callbacks |-> o1]
  /\ AddressesInit /\ Admin!Init

\* Operators may watch every address; a deployment has one of two (bound).
AddressStep == AddressesNext /\ deployed' \subseteq {a1, a2}

PaymentsNext ==
  /\ UNCHANGED part
  /\ IF part = "wallet" THEN SessionsNext ELSE UNCHANGED sessionVars
  /\ IF part = "stream" THEN Stream!SessionsNext ELSE UNCHANGED streamVars
  /\ IF part = "plan" THEN QuotaNext ELSE UNCHANGED quotaVars
  /\ IF part = "planRenewed" THEN Renewed!QuotaNext ELSE UNCHANGED renewedVars
  /\ IF part = "orders" THEN SubscriptionNext ELSE UNCHANGED subscriptionVars
  /\ IF part = "ordersAlone" THEN Lone!SubscriptionNext ELSE UNCHANGED loneVars
  /\ IF part = "topUps" THEN Next ELSE UNCHANGED vars
  /\ IF part = "topUpsAlone" THEN Alone!Next ELSE UNCHANGED aloneVars
  /\ IF part = "lock" THEN LockNext ELSE UNCHANGED lockVars
  /\ IF part = "addresses" THEN AddressStep ELSE UNCHANGED addressVars
  /\ IF part = "admin" THEN Admin!Next ELSE UNCHANGED adminVars

PaymentsSpec == PaymentsInit /\ [][PaymentsNext]_paymentsVars

-------------------------------------------------------------------------------
\* The deployments payments.cfg does not name: a session that is extended
\* while it streams leaves balances accounted, too, and until it is extended is
\* promised no more than it paid (service/billing_session.go); a subscription's
\* quota stays accounted when its period is renewed, and on one node an order
\* gives one subscription though no row is locked (model/subscription.go) and a
\* top-up is credited once (controller/topup.go); and the row of a request
\* whose handler is through is not left reserved, where no worker looks for it
\* (service/ztapi_durable_billing.go).
InstancesHold ==
  /\ part = "stream" => Stream!BalancesAreAccounted
  /\ part = "planRenewed" => Renewed!QuotaAccounted
  /\ part = "ordersAlone" => Lone!OrderDeliveredOnce
  /\ part = "topUpsAlone" => Alone!TopUpCreditedOnce
  /\ part = "admin" => Admin!FinishedRequestHandedOver /\ Admin!FinishedRequestReleased

\* Only an administrator undoes an administrative disable: no credit, release
\* or settlement enables that user again.
AdminDisableSticks == Admin!AdminDisableSticks
===============================================================================
