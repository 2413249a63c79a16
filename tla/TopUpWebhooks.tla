---------------------------- MODULE TopUpWebhooks ----------------------------
(***************************************************************************)
(* Top-up orders paid through epay, Stripe, Creem, Waffo and Waffo Pancake *)
(* (controller/topup*.go, model/topup.go): created by the console,         *)
(* completed or closed by the provider's callbacks under LockOrder, and    *)
(* completed or rejected by an administrator (ProcessAdminTopUp), who does *)
(* not take that lock.                                                     *)
(*                                                                         *)
(* A provider repeats a callback until it is acknowledged and may repeat   *)
(* it after that.  A callback reads the row and saves it as a whole later: *)
(* the transactions of Recharge* ask for the row's lock with               *)
(* Set("gorm:query_option", "FOR UPDATE"), which GORM 2 ignores, and the   *)
(* handlers of epay and of Stripe's failed payments run no transaction.    *)
(* Only ProcessAdminTopUp (clause.Locking) reads what it then changes, so  *)
(* its transaction is one step; what another database adds to this makes   *)
(* a call fail.                                                            *)
(***************************************************************************)
EXTENDS Integers

CONSTANTS Orders,
          Provider,       \* of each order
          Amount,         \* of each order: what the row stores
          QuotaPerUnit,
          Handlers,       \* callbacks and console requests running at a time
          NodeOf,         \* the node each runs on
          Admins,         \* whether administrators touch the orders
          MaxRepeats,     \* bound: deliveries of a callback already acknowledged
          MaxFaults       \* bound: failed database calls and crashes

Providers == {"epay", "stripe", "creem", "waffo", "pancake"}

TopUpAssumption ==
  /\ Provider \in [Orders -> Providers]
  /\ Amount \in [Orders -> Nat \ {0}] /\ QuotaPerUnit \in Nat \ {0}
  /\ Admins \in BOOLEAN
  /\ MaxRepeats \in Nat /\ MaxFaults \in Nat

VARIABLES status,     \* of each order's row; "none" before it is inserted
          outcome,    \* at the provider: "open", "paid" or "failed"
          acked,      \* the orders whose final callback the provider takes as delivered
          task,       \* what each handler is doing
          credited,   \* history: quota added to the wallet for each order
          repeats, faults

vars == <<status, outcome, acked, task, credited, repeats, faults>>

Closed == {"failed", "expired", "rejected"}
NoTask == [op |-> "idle"]
Ops == {"fulfil", "credit", "close", "notice"}
TaskType == {NoTask} \cup [op : Ops, order : Orders, seen : {"pending", "success"} \cup Closed]

\* Types of the rows and of the handlers' states.
TopUpTypeOK ==
  /\ status \in [Orders -> {"none", "pending", "success"} \cup Closed]
  /\ outcome \in [Orders -> {"open", "paid", "failed"}]
  /\ acked \subseteq Orders
  /\ task \in [Handlers -> TaskType]
  /\ credited \in [Orders -> Nat]
  /\ repeats \in 0..MaxRepeats /\ faults \in 0..MaxFaults

Init ==
  /\ status = [o \in Orders |-> "none"]
  /\ outcome = [o \in Orders |-> "open"]
  /\ acked = {}
  /\ task = [h \in Handlers |-> NoTask]
  /\ credited = [o \in Orders |-> 0]
  /\ repeats = 0 /\ faults = 0
-------------------------------------------------------------------------------
Fault == faults < MaxFaults /\ faults' = faults + 1
Idle(h) == task[h] = NoTask
Begin(h, op, o) == task' = [task EXCEPT ![h] = [op |-> op, order |-> o, seen |-> status[o]]]
End(h) == task' = [task EXCEPT ![h] = NoTask]
Working(h, ops, o) == task[h] # NoTask /\ task[h].op \in ops /\ task[h].order = o

\* The handlers LockOrder holds back (module OrderLock): other callbacks of
\* the order on this node.  Waffo's are handled without it unless they report a
\* success.
UsesOrderLock(op, o) == op \in {"fulfil", "credit"} \/ (op = "close" /\ Provider[o] # "waffo")

OrderLocked(h, o, op) ==
  /\ UsesOrderLock(op, o)
  /\ \E g \in Handlers \ {h} :
       /\ NodeOf[g] = NodeOf[h]
       /\ Working(g, {"fulfil", "credit", "close"}, o) /\ UsesOrderLock(task[g].op, o)

(***************************************************************************)
(* The order and what the provider does with it.  Waffo, Waffo Pancake and *)
(* Creem insert the row and then open the payment; when that fails Waffo's *)
(* handlers save their copy of the row as failed, whatever it has become.  *)
(* The others open the payment first and show it to the user once the row  *)
(* is there.                                                               *)
(***************************************************************************)
InsertPending(o, p) ==
  /\ Provider[o] = p /\ status[o] = "none"
  /\ status' = [status EXCEPT ![o] = "pending"]
  /\ UNCHANGED <<outcome, acked, task, credited, repeats, faults>>

RequestEpay(o) == InsertPending(o, "epay")
RequestStripePay(o) == InsertPending(o, "stripe")
RequestCreemPay(o) == InsertPending(o, "creem")
RequestWaffoPay(o) == InsertPending(o, "waffo")
RequestWaffoPancakePay(o) == InsertPending(o, "pancake")

RequestPay(o) ==
  \/ RequestEpay(o) \/ RequestStripePay(o) \/ RequestCreemPay(o)
  \/ RequestWaffoPay(o) \/ RequestWaffoPancakePay(o)

PaymentNotOpened(o) ==
  /\ status[o] # "none" /\ outcome[o] = "open"
  /\ Provider[o] \in {"waffo", "pancake"}
  /\ status' = [status EXCEPT ![o] = "failed"]
  /\ outcome' = [outcome EXCEPT ![o] = "failed"]
  /\ Fault
  /\ UNCHANGED <<acked, task, credited, repeats>>

ProviderDecides(o) ==
  /\ status[o] # "none" /\ outcome[o] = "open"
  /\ \/ outcome' = [outcome EXCEPT ![o] = "paid"]
     \/ /\ Provider[o] \in {"stripe", "waffo"}
        /\ outcome' = [outcome EXCEPT ![o] = "failed"]
  /\ UNCHANGED <<status, acked, task, credited, repeats, faults>>

(***************************************************************************)
(* A callback arrives: EpayNotify answers "success" before it does         *)
(* anything; the others answer when they are done.  Waffo's handler takes  *)
(* every status but PAY_SUCCESS for a failure, also the notice of a        *)
(* payment that may yet succeed.                                           *)
(***************************************************************************)
News(op) == CASE op = "fulfil" -> "paid" [] op = "close" -> "failed" [] OTHER -> "open"

Deliver(h, o, p, op) ==
  /\ Provider[o] = p /\ Idle(h) /\ status[o] # "none"
  /\ outcome[o] = News(op)
  /\ ~OrderLocked(h, o, op)
  /\ IF o \in acked THEN repeats < MaxRepeats /\ repeats' = repeats + 1
                    ELSE UNCHANGED repeats
  /\ Begin(h, op, o)
  /\ UNCHANGED <<status, outcome, credited, faults>>

EpayNotify(h, o) == Deliver(h, o, "epay", "fulfil") /\ acked' = acked \cup {o}

StripeWebhook(h, o) ==
  (\E op \in {"fulfil", "close"} : Deliver(h, o, "stripe", op)) /\ UNCHANGED acked

CreemWebhook(h, o) == Deliver(h, o, "creem", "fulfil") /\ UNCHANGED acked

WaffoWebhook(h, o) ==
  (\E op \in {"fulfil", "close", "notice"} : Deliver(h, o, "waffo", op)) /\ UNCHANGED acked

WaffoPancakeWebhook(h, o) == Deliver(h, o, "pancake", "fulfil") /\ UNCHANGED acked

Callback(h, o) ==
  \/ EpayNotify(h, o) \/ StripeWebhook(h, o) \/ CreemWebhook(h, o)
  \/ WaffoWebhook(h, o) \/ WaffoPancakeWebhook(h, o)

\* Mut_* definitions are deliberate misreadings used to test properties.
Mut_AlwaysAcknowledged(o, ok) == acked' = acked \cup {o}

\* What the provider is told: Stripe always hears 200, epay has heard
\* "success", the others hear of a failure and try again.
Answer(o, ok) ==
  acked' = IF ok \/ Provider[o] \in {"stripe", "epay"} THEN acked \cup {o} ELSE acked

\* Quota a paid order is worth: Creem's products are quoted in quota.
WebhookQuota(o) == IF Provider[o] = "creem" THEN Amount[o] ELSE Amount[o] * QuotaPerUnit

Mut_CreditsAnyStatus(seen) == TRUE

Creditable(seen) == seen = "pending"

\* Row and wallet in one transaction, for a provider p; the statuses in good
\* are answered with success.
RechargeTx(h, p, good) ==
  LET o == task[h].order
  IN /\ task[h].op = "fulfil" /\ Provider[o] = p
     /\ \/ /\ IF Creditable(task[h].seen)
                THEN /\ status' = [status EXCEPT ![o] = "success"]
                     /\ credited' = [credited EXCEPT ![o] = @ + WebhookQuota(o)]
                ELSE UNCHANGED <<status, credited>>
           /\ Answer(o, task[h].seen \in good)
           /\ UNCHANGED faults
        \/ UNCHANGED <<status, credited>> /\ Fault /\ Answer(o, FALSE)
     /\ End(h)
     /\ UNCHANGED <<outcome, repeats>>

\* fulfillOrder's answer is 200 in any case; handleCheckoutCompleted answers a
\* decided order with 200; Waffo's treat a success as done already.
Recharge(h) == RechargeTx(h, "stripe", {"pending"})
RechargeCreem(h) == RechargeTx(h, "creem", {"pending", "success"} \cup Closed)
RechargeWaffo(h) == RechargeTx(h, "waffo", {"pending", "success"})
RechargeWaffoPancake(h) == RechargeTx(h, "pancake", {"pending", "success"})

\* EpayNotify: the row is saved by itself, the wallet after it.
EpaySave(h) ==
  LET o == task[h].order
  IN /\ task[h].op = "fulfil" /\ Provider[o] = "epay"
     /\ \/ /\ Creditable(task[h].seen)
           /\ status' = [status EXCEPT ![o] = "success"]
           /\ task' = [task EXCEPT ![h].op = "credit"]
           /\ UNCHANGED faults
        \/ ~Creditable(task[h].seen) /\ End(h) /\ UNCHANGED <<status, faults>>
        \/ End(h) /\ Fault /\ UNCHANGED status
     /\ UNCHANGED <<outcome, acked, credited, repeats>>

EpayCredit(h) ==
  LET o == task[h].order
  IN /\ task[h].op = "credit"
     /\ \/ credited' = [credited EXCEPT ![o] = @ + WebhookQuota(o)] /\ UNCHANGED faults
        \/ UNCHANGED credited /\ Fault
     /\ End(h)
     /\ UNCHANGED <<status, outcome, acked, repeats>>

Closable(seen) == seen = "pending"

\* An open row is saved as closed, whole.  Only the last of Waffo's notices is
\* one it has to see delivered.
CloseRow(h, p, final) ==
  LET o == task[h].order
  IN /\ task[h].op \in {"close", "notice"} /\ Provider[o] = p
     /\ \/ /\ status' = [status EXCEPT ![o] = IF Closable(task[h].seen) THEN final ELSE @]
           /\ UNCHANGED faults
        \/ UNCHANGED status /\ Fault
     /\ IF task[h].op = "close" THEN Answer(o, TRUE) ELSE UNCHANGED acked
     /\ End(h)
     /\ UNCHANGED <<outcome, credited, repeats>>

sessionExpired(h) == CloseRow(h, "stripe", "expired")
sessionAsyncPaymentFailed(h) == CloseRow(h, "stripe", "failed")
WaffoPaymentFailed(h) == CloseRow(h, "waffo", "failed")

(***************************************************************************)
(* ProcessAdminTopUp: row, wallet and ledger in one transaction that locks *)
(* the row before it compares its status and again in the UPDATE.          *)
(* adminTopUpQuota multiplies by the unit for every provider.              *)
(***************************************************************************)
adminTopUpQuota(o) == Amount[o] * QuotaPerUnit

ProcessAdminTopUp(o, target) ==
  /\ Admins /\ status[o] = "pending"
  /\ status' = [status EXCEPT ![o] = target]
  /\ credited' = [credited EXCEPT ![o] = @ + (IF target = "success" THEN adminTopUpQuota(o)
                                                                   ELSE 0)]
  /\ UNCHANGED <<outcome, acked, task, repeats, faults>>

\* The process stops; what its transaction had not committed is gone.
Crash(h) ==
  /\ ~Idle(h) /\ Fault /\ End(h)
  /\ UNCHANGED <<status, outcome, acked, credited, repeats>>

Step(h) ==
  \/ Recharge(h) \/ RechargeCreem(h) \/ RechargeWaffo(h) \/ RechargeWaffoPancake(h)
  \/ EpaySave(h) \/ EpayCredit(h)
  \/ sessionExpired(h) \/ sessionAsyncPaymentFailed(h) \/ WaffoPaymentFailed(h)

Next ==
  \/ \E o \in Orders :
       \/ RequestPay(o) \/ PaymentNotOpened(o) \/ ProviderDecides(o)
       \/ \E target \in {"success", "rejected"} : ProcessAdminTopUp(o, target)
  \/ \E h \in Handlers : (\E o \in Orders : Callback(h, o)) \/ Step(h) \/ Crash(h)

Spec == Init /\ [][Next]_vars

\* A handler finishes, and an unacknowledged callback is delivered again.
FairSpec ==
  /\ Spec
  /\ \A h \in Handlers : WF_vars(Step(h))
  /\ \A o \in Orders : SF_vars(\E h \in Handlers : o \notin acked /\ Callback(h, o))
-------------------------------------------------------------------------------
NobodyOn(o) == \A h \in Handlers : task[h] = NoTask \/ task[h].order # o

\* "conflict-safe": callbacks repeated, and an administrator, add a payment to
\* the wallet at most once.
CreditedOnce ==
  \A o \in Orders : credited[o] \in {0, WebhookQuota(o), adminTopUpQuota(o)}

\* A row that says success has been credited once its handlers are done.
SuccessMeansCredited ==
  \A o \in Orders : status[o] = "success" /\ NobodyOn(o) => credited[o] > 0

\* A provider that regards the news of a payment as delivered leaves no
\* pending row: it will not call again.
DeliveredMeansDecided ==
  \A o \in Orders : o \in acked /\ outcome[o] = "paid" /\ NobodyOn(o) => status[o] # "pending"

\* "avoid staying pending for ever": the same for the news of a failure.
FailureMeansClosed ==
  \A o \in Orders : o \in acked /\ outcome[o] = "failed" /\ NobodyOn(o) => status[o] # "pending"

\* An order credits the quota it was sold for, whoever completes it.
CreditsWhatWasSold == \A o \in Orders : credited[o] \in {0, WebhookQuota(o)}

\* LockOrder serialises the callbacks of an order on the only node.
SingleNode == \A g, h \in Handlers : NodeOf[g] = NodeOf[h]

\* On one node no repetition, race or failure of the callbacks credits a top-up
\* a second time: it gets the quota its provider sold once, and once what an
\* administrator gave; both only when a callback that had read the row as
\* pending saves it after the administrator (CreditedOnce).  A row that says
\* success has been credited, unless epay's handler died between its writes.
TopUpCreditedOnce ==
  \A o \in Orders :
    LET sold == WebhookQuota(o)
        given == adminTopUpQuota(o)
    IN /\ SingleNode => credited[o] \in
            {0, sold} \cup (IF Admins THEN {given, sold + given} ELSE {})
       /\ Provider[o] # "epay" /\ status[o] = "success" => credited[o] > 0

\* On one node and left to its callbacks a decided order is never decided again:
\* not by a repeated callback, nor by the two failures Stripe reports.  Waffo's
\* failures are handled without LockOrder.
DecisionFinal ==
  [][\A o \in Orders :
       /\ SingleNode /\ ~Admins /\ Provider[o] # "waffo"
       /\ status[o] \in Closed \cup {"success"}
       => status'[o] = status[o]]_vars

\* A payment reaches the wallet however many calls fail on the way, unless
\* an administrator rejected it.
PaidIsCredited ==
  \A o \in Orders : (outcome[o] = "paid") ~> (credited[o] > 0 \/ status[o] \in Closed)
===============================================================================
