------------------------------ MODULE TopUpProofs ------------------------------
(***************************************************************************)
(* Proofs about TopUpWebhooks, for any number of orders, handlers, nodes,  *)
(* faults and repeated callbacks, with and without administrators; about   *)
(* OrderLock, the counted table that serialises the callbacks of an order  *)
(* on one node; and about SubscriptionOrders, for any number of orders,    *)
(* plans, handlers and nodes.                                              *)
(*                                                                         *)
(* The argument about top-ups follows the quota a callback is about to     *)
(* add: on one node it is the only callback under LockOrder, so the order  *)
(* has at most what an administrator, who takes no such lock, gave it      *)
(* meanwhile.  The argument about the table follows the mutex a callback   *)
(* has in hand: it is the entry of its trade number until the last user    *)
(* has left.  The argument about subscriptions rests on the top-up row     *)
(* that every delivered order has, and on one node on the row a callback   *)
(* has read, which no other changes; that about purchases counts those     *)
(* that have seen enough in the wallet.                                    *)
(***************************************************************************)
EXTENDS TopUpWebhooks, OrderLock, SubscriptionOrders, FiniteSums, FiniteSetTheorems, TLAPS

(***************************************************************************)
(* The inductive invariant.                                                *)
(***************************************************************************)

\* What a handler's operation says about its order: a callback brings the
\* provider's decision, and only epay's handler credits after it has saved.
TaskFits(h) ==
  task[h] # NoTask =>
    LET o == task[h].order
        op == task[h].op
    IN /\ status[o] # "none"
       /\ op \in {"fulfil", "credit"} => outcome[o] = "paid"
       /\ op = "close" => outcome[o] = "failed"
       /\ op = "notice" => Provider[o] = "waffo"
       /\ op = "credit" => Provider[o] = "epay" /\ status[o] # "pending"

TasksFit == \A h \in Handlers : TaskFits(h)

\* On one node LockOrder keeps the handlers that take it off each other's order.
AloneOn(g, h) ==
  (g # h /\ task[g] # NoTask /\ task[h] # NoTask /\ task[g].order = task[h].order
    /\ SingleNode) =>
      ~(UsesOrderLock(task[g].op, task[g].order) /\ UsesOrderLock(task[h].op, task[h].order))

HandlersAlone == \A g, h \in Handlers : AloneOn(g, h)

\* What an administrator may have added to an order.
Given(o) == IF Admins THEN {adminTopUpQuota(o)} ELSE {}

\* Whoever is about to credit an order is the only callback that does: the
\* order has at most what an administrator gave it meanwhile.
CreditIsDue(h) ==
  /\ SingleNode /\ task[h] # NoTask
  /\ task[h].op = "credit" \/ (task[h].op = "fulfil" /\ task[h].seen = "pending")
  => credited[task[h].order] \in {0} \cup Given(task[h].order)

CreditsAreDue == \A h \in Handlers : CreditIsDue(h)

\* Orders that only callbacks under LockOrder decide.
CallbacksDecide(o) == SingleNode /\ ~Admins /\ Provider[o] # "waffo"

\* The row is still pending when its handler has read it so.
ReadIsFresh(h) ==
  (task[h] # NoTask /\ CallbacksDecide(task[h].order)) =>
    (task[h].op \in {"fulfil", "close"} /\ task[h].seen = "pending"
       => status[task[h].order] = "pending")

ReadsAreFresh == \A h \in Handlers : ReadIsFresh(h)

\* Quota that one callback and one administrator add to an order.
Worth(o) ==
  {0, WebhookQuota(o)} \cup
  (IF Admins THEN {adminTopUpQuota(o), WebhookQuota(o) + adminTopUpQuota(o)} ELSE {})

\* No open order has been credited, and a success has, except by epay.
CreditFits(o) ==
  /\ status[o] \in {"none", "pending"} => credited[o] = 0
  /\ SingleNode => credited[o] \in Worth(o)
  /\ Provider[o] # "epay" /\ status[o] = "success" => credited[o] > 0

CreditsFit == \A o \in Orders : CreditFits(o)

\* Without administrators a row is open as long as the provider has not decided,
\* but for Waffo, whose notices close it before.
OpenIsUndecided ==
  ~Admins => \A o \in Orders :
    Provider[o] # "waffo" /\ outcome[o] = "open" => status[o] \in {"none", "pending"}

TopUpInv ==
  /\ TopUpTypeOK
  /\ TasksFit /\ HandlersAlone /\ CreditsAreDue /\ ReadsAreFresh
  /\ CreditsFit /\ OpenIsUndecided

(***************************************************************************)
(* Handlers and amounts.                                                   *)
(***************************************************************************)

\* A handler idles or has an operation on an order.
LEMMA TaskFacts ==
  ASSUME TopUpTypeOK, NEW h \in Handlers
  PROVE  /\ task[h] \in TaskType
         /\ NoTask.op = "idle"
         /\ task[h] # NoTask =>
              /\ task[h].op \in Ops /\ task[h].order \in Orders
              /\ task[h].seen \in {"pending", "success"} \cup Closed
         /\ task[h].op # "idle" => task[h] # NoTask
  <1>1. task[h] \in TaskType
    BY DEF TopUpTypeOK
  <1>2. NoTask.op = "idle"
    BY DEF NoTask
  <1>3. task[h] # NoTask => task[h] \in [op : Ops, order : Orders,
                                         seen : {"pending", "success"} \cup Closed]
    BY <1>1 DEF TaskType
  <1>4. QED
    BY <1>1, <1>2, <1>3

\* A completed order is worth some quota.
LEMMA WorthSomething ==
  ASSUME TopUpAssumption, NEW o \in Orders
  PROVE  /\ WebhookQuota(o) \in Nat /\ WebhookQuota(o) > 0
         /\ adminTopUpQuota(o) \in Nat /\ adminTopUpQuota(o) > 0
  <1>1. Amount[o] \in Nat /\ Amount[o] > 0 /\ QuotaPerUnit \in Nat /\ QuotaPerUnit > 0
    BY DEF TopUpAssumption
  <1>2. Amount[o] * QuotaPerUnit \in Nat /\ Amount[o] * QuotaPerUnit > 0
    BY <1>1
  <1>3. QED
    BY <1>1, <1>2 DEF WebhookQuota, adminTopUpQuota

(***************************************************************************)
(* How a handler ends: it leaves the row alone, or completes or closes it. *)
(***************************************************************************)
Ends(h, s, c) ==
  /\ task[h] # NoTask
  /\ task' = [task EXCEPT ![h] = NoTask]
  /\ status' = [status EXCEPT ![task[h].order] = s]
  /\ credited' = [credited EXCEPT ![task[h].order] = c]
  /\ outcome' = outcome

Leaves(h, s, c) == s = status[task[h].order] /\ c = credited[task[h].order]

Fulfils(h, s, c) ==
  /\ task[h].op = "fulfil" /\ task[h].seen = "pending"
  /\ Provider[task[h].order] # "epay"
  /\ s = "success" /\ c = credited[task[h].order] + WebhookQuota(task[h].order)

CreditsEpay(h, s, c) ==
  /\ task[h].op = "credit" /\ s = status[task[h].order]
  /\ c = credited[task[h].order] + WebhookQuota(task[h].order)

Closes(h, s, c) ==
  /\ task[h].op \in {"close", "notice"} /\ task[h].seen = "pending"
  /\ s \in {"failed", "expired"}
  /\ c = credited[task[h].order]

EndsRight(h, s, c) ==
  /\ Ends(h, s, c)
  /\ Leaves(h, s, c) \/ Fulfils(h, s, c) \/ CreditsEpay(h, s, c) \/ Closes(h, s, c)

\* What is left of the variables: who was told, and the bounds.
Counted == acked' \subseteq Orders /\ repeats' \in 0..MaxRepeats /\ faults' \in 0..MaxFaults

\* A fault is counted.
LEMMA FaultCounted ==
  ASSUME TopUpAssumption, TopUpTypeOK, Fault
  PROVE  faults' \in 0..MaxFaults
  BY DEF Fault, TopUpTypeOK, TopUpAssumption

\* A transaction of a callback completes the pending row that it read, or ends.
LEMMA RechargeEnds ==
  ASSUME TopUpAssumption, TopUpTypeOK, NEW h \in Handlers, NEW p \in Providers \ {"epay"},
         NEW good, RechargeTx(h, p, good)
  PROVE  Counted /\ \E s, c : EndsRight(h, s, c)
  <1> DEFINE o == task[h].order
  <1>1. task[h] # NoTask /\ o \in Orders /\ task[h].op = "fulfil" /\ Provider[o] # "epay"
    BY TaskFacts DEF RechargeTx
  <1>2. /\ task' = [task EXCEPT ![h] = NoTask] /\ outcome' = outcome /\ repeats' = repeats
        /\ faults' = faults \/ Fault
        /\ acked' \in {acked, acked \cup {o}}
        /\ \/ UNCHANGED <<status, credited>>
           \/ /\ task[h].seen = "pending"
              /\ status' = [status EXCEPT ![o] = "success"]
              /\ credited' = [credited EXCEPT ![o] = credited[o] + WebhookQuota(o)]
    BY DEF RechargeTx, End, Answer, Creditable
  <1>3. Counted
    BY <1>1, <1>2, FaultCounted DEF Counted, TopUpTypeOK
  <1>4. CASE UNCHANGED <<status, credited>>
    <2>1. EndsRight(h, status[o], credited[o])
      BY <1>1, <1>2, <1>4 DEF EndsRight, Ends, Leaves, TopUpTypeOK
    <2>2. QED
      BY <1>3, <2>1
  <1>5. CASE /\ task[h].seen = "pending"
             /\ status' = [status EXCEPT ![o] = "success"]
             /\ credited' = [credited EXCEPT ![o] = credited[o] + WebhookQuota(o)]
    <2>1. EndsRight(h, "success", credited[o] + WebhookQuota(o))
      BY <1>1, <1>2, <1>5 DEF EndsRight, Ends, Fulfils
    <2>2. QED
      BY <1>3, <2>1
  <1>6. QED
    BY <1>2, <1>4, <1>5

\* The notice of a failure closes the pending row that it read, or ends.
LEMMA CloseEnds ==
  ASSUME TopUpAssumption, TopUpTypeOK, NEW h \in Handlers,
         sessionExpired(h) \/ sessionAsyncPaymentFailed(h) \/ WaffoPaymentFailed(h)
  PROVE  Counted /\ \E s, c : EndsRight(h, s, c)
  <1> DEFINE o == task[h].order
  <1>1. PICK final \in {"failed", "expired"} :
          /\ task[h].op \in {"close", "notice"}
          /\ \/ /\ status' = [status EXCEPT ![o] = IF task[h].seen = "pending" THEN final
                                                   ELSE status[o]]
                /\ faults' = faults
             \/ status' = status /\ Fault
          /\ acked' \in {acked, acked \cup {o}}
          /\ task' = [task EXCEPT ![h] = NoTask]
          /\ UNCHANGED <<outcome, credited, repeats>>
    BY DEF sessionExpired, sessionAsyncPaymentFailed, WaffoPaymentFailed, CloseRow, Closable,
           Answer, End
  <1>2. task[h] # NoTask /\ o \in Orders
    BY <1>1, TaskFacts
  <1>3. Counted
    BY <1>1, <1>2, FaultCounted DEF Counted, TopUpTypeOK
  <1>4. CASE status' = status
    <2>1. EndsRight(h, status[o], credited[o])
      BY <1>1, <1>2, <1>4 DEF EndsRight, Ends, Leaves, TopUpTypeOK
    <2>2. QED
      BY <1>3, <2>1
  <1>5. CASE task[h].seen = "pending" /\ status' = [status EXCEPT ![o] = final]
    <2>1. EndsRight(h, final, credited[o])
      BY <1>1, <1>2, <1>5 DEF EndsRight, Ends, Closes, TopUpTypeOK
    <2>2. QED
      BY <1>3, <2>1
  <1>6. QED
    BY <1>1, <1>2, <1>4, <1>5 DEF TopUpTypeOK

\* Epay's credit is given, or lost; a crash leaves the row alone.
LEMMA CreditOrCrashEnds ==
  ASSUME TopUpAssumption, TopUpTypeOK, NEW h \in Handlers, EpayCredit(h) \/ Crash(h)
  PROVE  Counted /\ \E s, c : EndsRight(h, s, c)
  <1> DEFINE o == task[h].order
  <1>1. task[h] # NoTask /\ o \in Orders /\ task' = [task EXCEPT ![h] = NoTask]
    BY TaskFacts DEF EpayCredit, Crash, Idle, End
  <1>2. UNCHANGED <<status, outcome, acked, repeats>> /\ (faults' = faults \/ Fault)
    BY DEF EpayCredit, Crash
  <1>3. Counted
    BY <1>2, FaultCounted DEF Counted, TopUpTypeOK
  <1>4. CASE credited' = credited
    <2>1. EndsRight(h, status[o], credited[o])
      BY <1>1, <1>2, <1>4 DEF EndsRight, Ends, Leaves, TopUpTypeOK
    <2>2. QED
      BY <1>3, <2>1
  <1>5. CASE /\ task[h].op = "credit"
             /\ credited' = [credited EXCEPT ![o] = credited[o] + WebhookQuota(o)]
    <2>1. EndsRight(h, status[o], credited[o] + WebhookQuota(o))
      BY <1>1, <1>2, <1>5 DEF EndsRight, Ends, CreditsEpay, TopUpTypeOK
    <2>2. QED
      BY <1>3, <2>1
  <1>6. QED
    BY <1>4, <1>5 DEF EpayCredit, Crash

\* Epay's handler saves the row that it read as pending and goes on to the wallet.
Continues(h) ==
  /\ task[h].op = "fulfil" /\ task[h].seen = "pending" /\ Provider[task[h].order] = "epay"
  /\ status' = [status EXCEPT ![task[h].order] = "success"]
  /\ task' = [task EXCEPT ![h] = [task[h] EXCEPT !.op = "credit"]]
  /\ UNCHANGED <<outcome, credited>>

\* Epay's first write goes on to the second or ends.
LEMMA EpaySaveEnds ==
  ASSUME TopUpAssumption, TopUpTypeOK, NEW h \in Handlers, EpaySave(h)
  PROVE  Counted /\ (Continues(h) \/ \E s, c : EndsRight(h, s, c))
  <1> DEFINE o == task[h].order
  <1>1. task[h] # NoTask /\ o \in Orders
    BY TaskFacts DEF EpaySave
  <1>2. UNCHANGED <<outcome, acked, credited, repeats>> /\ (faults' = faults \/ Fault)
    BY DEF EpaySave
  <1>3. Counted
    BY <1>2, FaultCounted DEF Counted, TopUpTypeOK
  <1>4. CASE Creditable(task[h].seen) /\ task' = [task EXCEPT ![h].op = "credit"]
             /\ status' = [status EXCEPT ![o] = "success"]
    BY <1>2, <1>3, <1>4 DEF Continues, EpaySave, Creditable
  <1>5. CASE End(h) /\ status' = status
    <2>1. EndsRight(h, status[o], credited[o])
      BY <1>1, <1>2, <1>5 DEF EndsRight, Ends, Leaves, End, TopUpTypeOK
    <2>2. QED
      BY <1>3, <2>1
  <1>6. QED
    BY <1>4, <1>5 DEF EpaySave

\* Every step of a handler goes on to epay's second write or ends.
LEMMA StepEnds ==
  ASSUME TopUpAssumption, TopUpTypeOK, NEW h \in Handlers, Step(h) \/ Crash(h)
  PROVE  Counted /\ (Continues(h) \/ \E s, c : EndsRight(h, s, c))
  <1>1. CASE Recharge(h) \/ RechargeCreem(h) \/ RechargeWaffo(h) \/ RechargeWaffoPancake(h)
    BY <1>1, RechargeEnds DEF Recharge, RechargeCreem, RechargeWaffo, RechargeWaffoPancake,
                              Providers
  <1>2. CASE EpaySave(h)
    BY <1>2, EpaySaveEnds
  <1>3. CASE EpayCredit(h) \/ Crash(h)
    BY <1>3, CreditOrCrashEnds
  <1>4. CASE sessionExpired(h) \/ sessionAsyncPaymentFailed(h) \/ WaffoPaymentFailed(h)
    BY <1>4, CloseEnds
  <1>5. QED
    BY <1>1, <1>2, <1>3, <1>4 DEF Step

(***************************************************************************)
(* What the ends of handlers keep.                                         *)
(***************************************************************************)

\* The rows and the handlers that an end writes.
LEMMA EndWrites ==
  ASSUME TopUpAssumption, TopUpInv, NEW h \in Handlers, NEW s, NEW c, EndsRight(h, s, c)
  PROVE  LET o == task[h].order IN
         /\ o \in Orders /\ task[h].op \in Ops
         /\ task'[h] = NoTask /\ \A g \in Handlers \ {h} : task'[g] = task[g]
         /\ status'[o] = s /\ credited'[o] = c
         /\ \A p \in Orders \ {o} : status'[p] = status[p] /\ credited'[p] = credited[p]
         /\ s \in {"pending", "success"} \cup Closed /\ c \in Nat /\ c >= credited[o]
         /\ s = "pending" => status[o] = "pending"
  <1> DEFINE o == task[h].order
  <1>1. /\ TopUpTypeOK /\ task[h] # NoTask /\ o \in Orders /\ task[h].op \in Ops
        /\ TaskFits(h)
    BY TaskFacts DEF EndsRight, Ends, TopUpInv, TasksFit
  <1>2. status[o] \in {"pending", "success"} \cup Closed /\ credited[o] \in Nat
    BY <1>1 DEF TopUpTypeOK, TaskFits
  <1>3. s \in {"pending", "success"} \cup Closed /\ c \in Nat /\ c >= credited[o]
    BY <1>1, <1>2, WorthSomething
    DEF EndsRight, Leaves, Fulfils, CreditsEpay, Closes, Closed
  <1>4. s = "pending" => status[o] = "pending"
    BY DEF EndsRight, Leaves, Fulfils, CreditsEpay, Closes
  <1>5. /\ task'[h] = NoTask /\ \A g \in Handlers \ {h} : task'[g] = task[g]
        /\ status'[o] = s /\ credited'[o] = c
        /\ \A p \in Orders \ {o} : status'[p] = status[p] /\ credited'[p] = credited[p]
    BY <1>1 DEF EndsRight, Ends, TopUpTypeOK
  <1>6. QED
    BY <1>1, <1>3, <1>4, <1>5

\* An end keeps the types.
LEMMA EndKeepsTypes ==
  ASSUME TopUpAssumption, TopUpInv, NEW h \in Handlers, NEW s, NEW c, EndsRight(h, s, c), Counted
  PROVE  TopUpTypeOK'
  <1>1. TopUpTypeOK
    BY DEF TopUpInv
  <1>2. /\ task[h].order \in Orders /\ s \in {"pending", "success"} \cup Closed /\ c \in Nat
    BY EndWrites
  <1>3. NoTask \in TaskType
    BY DEF TaskType
  <1>4. task' \in [Handlers -> TaskType]
    BY <1>1, <1>3 DEF EndsRight, Ends, TopUpTypeOK
  <1>5. status' \in [Orders -> {"none", "pending", "success"} \cup Closed]
    BY <1>1, <1>2 DEF EndsRight, Ends, TopUpTypeOK
  <1>6. credited' \in [Orders -> Nat]
    BY <1>1, <1>2 DEF EndsRight, Ends, TopUpTypeOK
  <1>7. QED
    BY <1>1, <1>4, <1>5, <1>6 DEF EndsRight, Ends, Counted, TopUpTypeOK

\* A handler that ends leaves the others as they were, and alone.
LEMMA EndKeepsTasks ==
  ASSUME TopUpAssumption, TopUpInv, NEW h \in Handlers, NEW s, NEW c, EndsRight(h, s, c)
  PROVE  TasksFit' /\ HandlersAlone'
  <1> DEFINE o == task[h].order
  <1>1. /\ task'[h] = NoTask /\ \A g \in Handlers \ {h} : task'[g] = task[g]
        /\ status'[o] = s /\ s # "none" /\ (s = "pending" => status[o] = "pending")
        /\ \A p \in Orders \ {o} : status'[p] = status[p]
        /\ outcome' = outcome
    <2>1. /\ task'[h] = NoTask /\ \A g \in Handlers \ {h} : task'[g] = task[g]
          /\ status'[o] = s /\ s \in {"pending", "success"} \cup Closed
          /\ s = "pending" => status[o] = "pending"
          /\ \A p \in Orders \ {o} : status'[p] = status[p]
      BY EndWrites
    <2>2. s # "none"
      BY <2>1 DEF Closed
    <2>3. outcome' = outcome
      BY DEF EndsRight, Ends
    <2>4. QED
      BY <2>1, <2>2, <2>3
  <1>2. ASSUME NEW g \in Handlers
        PROVE  TaskFits(g)'
    <2>1. CASE g = h
      BY <1>1, <2>1 DEF TaskFits
    <2>2. CASE g # h
      <3>1. task'[g] = task[g] /\ TaskFits(g) /\ (task[g] # NoTask => task[g].order \in Orders)
        BY <1>1, <2>2, TaskFacts DEF TopUpInv, TasksFit
      <3>2. QED
        BY <1>1, <3>1 DEF TaskFits
    <2>3. QED
      BY <2>1, <2>2
  <1>3. ASSUME NEW f \in Handlers, NEW g \in Handlers
        PROVE  AloneOn(f, g)'
    <2>1. CASE f = h \/ g = h
      BY <1>1, <2>1 DEF AloneOn
    <2>2. CASE f # h /\ g # h
      <3>1. task'[f] = task[f] /\ task'[g] = task[g] /\ AloneOn(f, g)
        BY <1>1, <2>2 DEF TopUpInv, HandlersAlone
      <3>2. QED
        BY <3>1 DEF AloneOn, SingleNode, UsesOrderLock
    <2>3. QED
      BY <2>1, <2>2
  <1>4. QED
    BY <1>2, <1>3 DEF TasksFit, HandlersAlone

\* A handler of an order that others may credit or decide ends alone with it, or
\* leaves what they have read.
LEMMA EndKeepsReads ==
  ASSUME TopUpAssumption, TopUpInv, NEW h \in Handlers, NEW s, NEW c, EndsRight(h, s, c)
  PROVE  CreditsAreDue' /\ ReadsAreFresh'
  <1> DEFINE o == task[h].order
  <1>1. /\ task[h] # NoTask /\ o \in Orders
        /\ task'[h] = NoTask /\ \A g \in Handlers \ {h} : task'[g] = task[g]
        /\ status'[o] = s /\ credited'[o] = c
        /\ \A p \in Orders \ {o} : status'[p] = status[p] /\ credited'[p] = credited[p]
    BY EndWrites DEF EndsRight, Ends
  <1>2. ASSUME NEW g \in Handlers
        PROVE  CreditIsDue(g)'
    <2>1. CASE g = h \/ task[g] = NoTask
      BY <1>1, <2>1 DEF CreditIsDue
    <2>2. CASE g # h /\ task[g] # NoTask
      <3>1. task'[g] = task[g] /\ CreditIsDue(g) /\ task[g].order \in Orders
        BY <1>1, <2>2, TaskFacts DEF TopUpInv, CreditsAreDue
      <3>2. CASE task[g].order # o
        BY <1>1, <3>1, <3>2 DEF CreditIsDue, SingleNode, Given, adminTopUpQuota
      <3>3. CASE task[g].order = o /\ SingleNode /\ task[g].op \in {"fulfil", "credit"}
        <4>1. ~UsesOrderLock(task[h].op, o)
          BY <1>1, <2>2, <3>3 DEF TopUpInv, HandlersAlone, AloneOn, UsesOrderLock
        <4>2. c = credited[o]
          BY <4>1 DEF UsesOrderLock, EndsRight, Leaves, Fulfils, CreditsEpay, Closes
        <4>3. QED
          BY <1>1, <3>1, <3>3, <4>2 DEF CreditIsDue, SingleNode, Given, adminTopUpQuota
      <3>4. CASE ~(SingleNode /\ task[g].op \in {"fulfil", "credit"})
        BY <3>1, <3>4 DEF CreditIsDue, SingleNode
      <3>5. QED
        BY <3>2, <3>3, <3>4
    <2>3. QED
      BY <2>1, <2>2
  <1>3. ASSUME NEW g \in Handlers
        PROVE  ReadIsFresh(g)'
    <2>1. CASE g = h \/ task[g] = NoTask
      BY <1>1, <2>1 DEF ReadIsFresh
    <2>2. CASE g # h /\ task[g] # NoTask
      <3>1. task'[g] = task[g] /\ ReadIsFresh(g) /\ task[g].order \in Orders
        BY <1>1, <2>2, TaskFacts DEF TopUpInv, ReadsAreFresh
      <3>2. CASE task[g].order # o
        BY <1>1, <3>1, <3>2 DEF ReadIsFresh, CallbacksDecide, SingleNode
      <3>3. CASE /\ task[g].order = o /\ CallbacksDecide(o)
                 /\ task[g].op \in {"fulfil", "close"}
        <4>1. TaskFits(h)
          BY DEF TopUpInv, TasksFit
        <4>2. ~UsesOrderLock(task[h].op, o)
          BY <1>1, <2>2, <3>3
          DEF TopUpInv, HandlersAlone, AloneOn, UsesOrderLock, CallbacksDecide
        <4>3. task[h].op \notin {"fulfil", "credit", "close", "notice"}
          BY <1>1, <3>3, <4>1, <4>2 DEF UsesOrderLock, TaskFits, CallbacksDecide
        <4>4. s = status[o]
          BY <4>3 DEF EndsRight, Leaves, Fulfils, CreditsEpay, Closes
        <4>5. QED
          BY <1>1, <3>1, <3>3, <4>4 DEF ReadIsFresh, CallbacksDecide, SingleNode
      <3>4. CASE /\ task[g].order = o
                 /\ ~(CallbacksDecide(o) /\ task[g].op \in {"fulfil", "close"})
        BY <3>1, <3>4 DEF ReadIsFresh, CallbacksDecide, SingleNode
      <3>5. QED
        BY <3>2, <3>3, <3>4
    <2>3. QED
      BY <2>1, <2>2
  <1>4. QED
    BY <1>2, <1>3 DEF CreditsAreDue, ReadsAreFresh

\* Quota is added by the one callback it is due to; without administrators nobody
\* but Waffo decides what the provider has not.
LEMMA EndKeepsCredits ==
  ASSUME TopUpAssumption, TopUpInv, NEW h \in Handlers, NEW s, NEW c, EndsRight(h, s, c)
  PROVE  CreditsFit' /\ OpenIsUndecided'
  <1> DEFINE o == task[h].order
  <1>1. /\ task[h] # NoTask /\ o \in Orders
        /\ status'[o] = s /\ credited'[o] = c /\ c \in Nat /\ c >= credited[o]
        /\ \A p \in Orders \ {o} : status'[p] = status[p] /\ credited'[p] = credited[p]
        /\ s \in {"pending", "success"} \cup Closed /\ (s = "pending" => status[o] = "pending")
    BY EndWrites DEF EndsRight, Ends
  <1>2. /\ TaskFits(h) /\ CreditIsDue(h) /\ CreditFits(o) /\ outcome' = outcome
        /\ credited[o] \in Nat
    BY <1>1 DEF TopUpInv, TasksFit, CreditsAreDue, CreditsFit, TopUpTypeOK, EndsRight, Ends
  <1>3. ASSUME SingleNode
        PROVE  c \in Worth(o)
    <2>1. CASE Leaves(h, s, c) \/ Closes(h, s, c)
      BY <1>2, <1>3, <2>1 DEF Leaves, Closes, CreditFits
    <2>2. CASE Fulfils(h, s, c) \/ CreditsEpay(h, s, c)
      <3>1. credited[o] \in {0} \cup Given(o) /\ c = credited[o] + WebhookQuota(o)
        BY <1>1, <1>2, <1>3, <2>2 DEF Fulfils, CreditsEpay, CreditIsDue
      <3>2. QED
        BY <1>1, <3>1, WorthSomething DEF Given, Worth
    <2>3. QED
      BY <2>1, <2>2 DEF EndsRight
  <1>4. ASSUME Provider[o] # "epay", s = "success"
        PROVE  c > 0
    BY <1>1, <1>2, <1>4, WorthSomething
    DEF EndsRight, Leaves, Fulfils, CreditsEpay, Closes, CreditFits, TaskFits
  <1>5. ASSUME s \in {"none", "pending"}
        PROVE  c = 0
    BY <1>1, <1>2, <1>5 DEF EndsRight, Leaves, Fulfils, CreditsEpay, Closes, CreditFits,
                            TaskFits, Closed
  <1>6. ASSUME NEW p \in Orders
        PROVE  CreditFits(p)'
    <2>1. CASE p = o
      BY <1>1, <1>3, <1>4, <1>5, <2>1 DEF CreditFits, SingleNode, Worth, WebhookQuota,
                                          adminTopUpQuota, Closed
    <2>2. CASE p # o
      BY <1>1, <2>2 DEF TopUpInv, CreditsFit, CreditFits, SingleNode, Worth, WebhookQuota,
                        adminTopUpQuota
    <2>3. QED
      BY <2>1, <2>2
  <1>7. ASSUME ~Admins, outcome[o] = "open", Provider[o] # "waffo"
        PROVE  s \in {"none", "pending"}
    <2>1. task[h].op \notin {"fulfil", "credit", "close", "notice"}
      BY <1>1, <1>2, <1>7 DEF TaskFits
    <2>2. QED
      BY <2>1, EndWrites DEF Ops
  <1>8. OpenIsUndecided'
    BY <1>1, <1>2, <1>7 DEF TopUpInv, OpenIsUndecided
  <1>9. QED
    BY <1>6, <1>8 DEF CreditsFit

(***************************************************************************)
(* Epay's second write, arrivals, and the provider.                        *)
(***************************************************************************)

\* Between its two writes epay's handler is alone with a row that says success.
LEMMA ContinueStep ==
  ASSUME TopUpAssumption, TopUpInv, NEW h \in Handlers, Continues(h), Counted
  PROVE  TopUpInv'
  <1> DEFINE o == task[h].order
  <1>1. TopUpTypeOK /\ task[h] # NoTask /\ o \in Orders
        /\ task[h] \in [op : Ops, order : Orders, seen : {"pending", "success"} \cup Closed]
    BY TaskFacts DEF TopUpInv, Continues, TaskType
  <1>2. /\ task'[h].op = "credit" /\ task'[h].order = o /\ task'[h].seen = "pending"
        /\ task'[h] # NoTask /\ task'[h] \in TaskType
    BY <1>1 DEF Continues, TopUpTypeOK, TaskType, Ops, NoTask
  <1>3. /\ \A g \in Handlers \ {h} : task'[g] = task[g]
        /\ status'[o] = "success" /\ \A p \in Orders \ {o} : status'[p] = status[p]
        /\ UNCHANGED <<outcome, credited>> /\ Provider[o] = "epay"
    BY <1>1 DEF Continues, TopUpTypeOK
  <1>4. TopUpTypeOK'
    <2>1. task' \in [Handlers -> TaskType]
      BY <1>1, <1>2 DEF Continues, TopUpTypeOK
    <2>2. status' \in [Orders -> {"none", "pending", "success"} \cup Closed]
      BY <1>1 DEF Continues, TopUpTypeOK
    <2>3. QED
      BY <1>1, <1>3, <2>1, <2>2 DEF Counted, TopUpTypeOK
  <1>5. /\ outcome[o] = "paid"
        /\ SingleNode => credited[o] \in {0} \cup Given(o)
    BY <1>1 DEF TopUpInv, TasksFit, TaskFits, CreditsAreDue, CreditIsDue, Continues
  <1>6. ASSUME NEW g \in Handlers \ {h}, task[g] # NoTask, task[g].order = o, SingleNode
        PROVE  ~UsesOrderLock(task[g].op, o)
    BY <1>1, <1>6 DEF TopUpInv, HandlersAlone, AloneOn, Continues, UsesOrderLock
  <1>7. TasksFit'
    <2>1. ASSUME NEW g \in Handlers
          PROVE  TaskFits(g)'
      <3>1. CASE g = h
        BY <1>2, <1>3, <1>5, <3>1 DEF TaskFits
      <3>2. CASE g # h
        <4>1. task'[g] = task[g] /\ TaskFits(g) /\ (task[g] # NoTask => task[g].order \in Orders)
          BY <1>1, <1>3, <3>2, TaskFacts DEF TopUpInv, TasksFit
        <4>2. QED
          BY <1>3, <4>1 DEF TaskFits
      <3>3. QED
        BY <3>1, <3>2
    <2>2. QED
      BY <2>1 DEF TasksFit
  <1>8. HandlersAlone'
    <2>1. ASSUME NEW f \in Handlers, NEW g \in Handlers
          PROVE  AloneOn(f, g)'
      <3>1. CASE f # h /\ g # h
        BY <1>3, <2>1, <3>1 DEF TopUpInv, HandlersAlone, AloneOn, SingleNode, UsesOrderLock
      <3>2. CASE f = h \/ g = h
        BY <1>2, <1>3, <1>6, <3>2 DEF AloneOn, SingleNode, UsesOrderLock
      <3>3. QED
        BY <3>1, <3>2
    <2>2. QED
      BY <2>1 DEF HandlersAlone
  <1>9. CreditsAreDue'
    <2>1. ASSUME NEW g \in Handlers
          PROVE  CreditIsDue(g)'
      <3>1. CASE g = h
        BY <1>2, <1>3, <1>5, <3>1 DEF CreditIsDue, SingleNode, Given, adminTopUpQuota
      <3>2. CASE g # h
        BY <1>3, <3>2 DEF TopUpInv, CreditsAreDue, CreditIsDue, SingleNode, Given,
                          adminTopUpQuota
      <3>3. QED
        BY <3>1, <3>2
    <2>2. QED
      BY <2>1 DEF CreditsAreDue
  <1>10. ReadsAreFresh'
    <2>1. ASSUME NEW g \in Handlers
          PROVE  ReadIsFresh(g)'
      <3>1. CASE g = h
        BY <1>2, <3>1 DEF ReadIsFresh
      <3>2. CASE g # h /\ task[g] # NoTask
        <4>1. task'[g] = task[g] /\ ReadIsFresh(g) /\ task[g].order \in Orders
          BY <1>1, <1>3, <3>2, TaskFacts DEF TopUpInv, ReadsAreFresh
        <4>2. CASE task[g].order # o
          BY <1>3, <4>1, <4>2 DEF ReadIsFresh, CallbacksDecide, SingleNode
        <4>3. CASE task[g].order = o /\ SingleNode
          <5>1. task[g].op \notin {"fulfil", "close"}
            BY <1>3, <1>6, <3>2, <4>3 DEF UsesOrderLock
          <5>2. QED
            BY <4>1, <5>1 DEF ReadIsFresh
        <4>4. CASE ~SingleNode
          BY <4>4 DEF ReadIsFresh, CallbacksDecide, SingleNode
        <4>5. QED
          BY <4>2, <4>3, <4>4
      <3>3. CASE g # h /\ task[g] = NoTask
        BY <1>3, <3>3 DEF ReadIsFresh
      <3>4. QED
        BY <3>1, <3>2, <3>3
    <2>2. QED
      BY <2>1 DEF ReadsAreFresh
  <1>11. CreditsFit'
    <2>1. ASSUME NEW p \in Orders
          PROVE  CreditFits(p)'
      BY <1>1, <1>3, <2>1 DEF TopUpInv, CreditsFit, CreditFits, SingleNode, Worth,
                              WebhookQuota, adminTopUpQuota
    <2>2. QED
      BY <2>1 DEF CreditsFit
  <1>12. OpenIsUndecided'
    BY <1>1, <1>3, <1>5 DEF TopUpInv, OpenIsUndecided
  <1>13. QED
    BY <1>4, <1>7, <1>8, <1>9, <1>10, <1>11, <1>12 DEF TopUpInv

\* What begins on an order: a callback with the provider's news, let in by
\* LockOrder.
Begins(h, o, op) ==
  /\ task[h] = NoTask /\ status[o] # "none" /\ ~OrderLocked(h, o, op)
  /\ \/ op = "fulfil" /\ outcome[o] = "paid"
     \/ op = "close" /\ outcome[o] = "failed"
     \/ op = "notice" /\ Provider[o] = "waffo"
  /\ task' = [task EXCEPT ![h] = [op |-> op, order |-> o, seen |-> status[o]]]
  /\ UNCHANGED <<status, outcome, credited>>

\* Nobody else under LockOrder is on the order when a handler begins.
LEMMA BeginsAlone ==
  ASSUME TopUpAssumption, TopUpInv, NEW h \in Handlers, NEW g \in Handlers \ {h},
         NEW o \in Orders, NEW op, Begins(h, o, op),
         task[g] # NoTask, task[g].order = o, SingleNode
  PROVE  ~(UsesOrderLock(op, o) /\ UsesOrderLock(task[g].op, o))
  <1>1. NodeOf[g] = NodeOf[h]
    BY DEF SingleNode
  <1>2. UsesOrderLock(task[g].op, o) => task[g].op \in {"fulfil", "credit", "close"}
    BY DEF UsesOrderLock
  <1>3. QED
    BY <1>1, <1>2 DEF Begins, OrderLocked, Working

\* A handler that begins has read the row as it is.
LEMMA BeginStep ==
  ASSUME TopUpAssumption, TopUpInv, NEW h \in Handlers, NEW o \in Orders, NEW op,
         Begins(h, o, op), Counted
  PROVE  TopUpInv'
  <1>1. TopUpTypeOK /\ op \in {"fulfil", "close", "notice"}
        /\ status[o] \in {"pending", "success"} \cup Closed
    BY DEF TopUpInv, TopUpTypeOK, Begins
  <1>2. /\ task'[h] = [op |-> op, order |-> o, seen |-> status[o]]
        /\ \A g \in Handlers \ {h} : task'[g] = task[g]
        /\ UNCHANGED <<status, outcome, credited>>
    BY <1>1 DEF Begins, TopUpTypeOK
  <1>3. /\ task'[h].op = op /\ task'[h].order = o /\ task'[h].seen = status[o]
        /\ task'[h] \in TaskType
    BY <1>1, <1>2 DEF TaskType, Ops
  <1>4. TopUpTypeOK'
    <2>1. task' \in [Handlers -> TaskType]
      BY <1>1, <1>2, <1>3 DEF Begins, TopUpTypeOK
    <2>2. QED
      BY <1>1, <1>2, <2>1 DEF Counted, TopUpTypeOK
  <1>5. TasksFit'
    <2>1. ASSUME NEW g \in Handlers
          PROVE  TaskFits(g)'
      <3>1. CASE g = h
        BY <1>2, <1>3, <3>1 DEF TaskFits, Begins
      <3>2. CASE g # h
        BY <1>2, <3>2 DEF TopUpInv, TasksFit, TaskFits
      <3>3. QED
        BY <3>1, <3>2
    <2>2. QED
      BY <2>1 DEF TasksFit
  <1>6. HandlersAlone'
    <2>1. ASSUME NEW f \in Handlers, NEW g \in Handlers
          PROVE  AloneOn(f, g)'
      <3>1. CASE f # h /\ g # h
        BY <1>2, <3>1 DEF TopUpInv, HandlersAlone, AloneOn, SingleNode, UsesOrderLock
      <3>2. CASE f = h /\ g # h
        BY <1>2, <1>3, <3>2, BeginsAlone DEF AloneOn, SingleNode, UsesOrderLock
      <3>3. CASE f # h /\ g = h
        BY <1>2, <1>3, <3>3, BeginsAlone DEF AloneOn, SingleNode, UsesOrderLock
      <3>4. CASE f = h /\ g = h
        BY <3>4 DEF AloneOn
      <3>5. QED
        BY <3>1, <3>2, <3>3, <3>4
    <2>2. QED
      BY <2>1 DEF HandlersAlone
  <1>7. CreditsAreDue'
    <2>1. ASSUME NEW g \in Handlers
          PROVE  CreditIsDue(g)'
      <3>1. CASE g = h
        <4>1. status[o] = "pending" => credited[o] = 0
          BY DEF TopUpInv, CreditsFit, CreditFits
        <4>2. QED
          BY <1>1, <1>2, <1>3, <3>1, <4>1 DEF CreditIsDue, SingleNode, Given, adminTopUpQuota
      <3>2. CASE g # h
        BY <1>2, <3>2 DEF TopUpInv, CreditsAreDue, CreditIsDue, SingleNode, Given,
                          adminTopUpQuota
      <3>3. QED
        BY <3>1, <3>2
    <2>2. QED
      BY <2>1 DEF CreditsAreDue
  <1>8. ReadsAreFresh'
    <2>1. ASSUME NEW g \in Handlers
          PROVE  ReadIsFresh(g)'
      <3>1. CASE g = h
        BY <1>1, <1>2, <1>3, <3>1 DEF ReadIsFresh
      <3>2. CASE g # h
        BY <1>2, <3>2 DEF TopUpInv, ReadsAreFresh, ReadIsFresh, CallbacksDecide, SingleNode
      <3>3. QED
        BY <3>1, <3>2
    <2>2. QED
      BY <2>1 DEF ReadsAreFresh
  <1>9. CreditsFit' /\ OpenIsUndecided'
    BY <1>2 DEF TopUpInv, CreditsFit, CreditFits, SingleNode, Worth, WebhookQuota,
                adminTopUpQuota, OpenIsUndecided
  <1>10. QED
    BY <1>4, <1>5, <1>6, <1>7, <1>8, <1>9 DEF TopUpInv

\* Callbacks begin.
LEMMA ArrivalBegins ==
  ASSUME TopUpAssumption, TopUpInv, NEW h \in Handlers, NEW o \in Orders, Callback(h, o)
  PROVE  Counted /\ \E op : Begins(h, o, op)
  <1>1. PICK op \in {"fulfil", "close", "notice"}, p \in Providers :
          Deliver(h, o, p, op) /\ (op = "notice" => p = "waffo")
    BY DEF Callback, EpayNotify, StripeWebhook, CreemWebhook, WaffoWebhook,
           WaffoPancakeWebhook, Providers
  <1>2. Begins(h, o, op)
    BY <1>1 DEF Deliver, News, Begins, Begin, Idle
  <1>3. repeats' \in 0..MaxRepeats /\ faults' = faults
    BY <1>1 DEF Deliver, TopUpInv, TopUpTypeOK, TopUpAssumption
  <1>4. acked' \in {acked, acked \cup {o}}
    BY DEF Callback, EpayNotify, StripeWebhook, CreemWebhook, WaffoWebhook,
           WaffoPancakeWebhook
  <1>5. Counted
    BY <1>3, <1>4 DEF Counted, TopUpInv, TopUpTypeOK
  <1>6. QED
    BY <1>2, <1>5

\* An administrator completes or rejects an order that is still pending, so that
\* nothing has been added to it.
LEMMA AdminStep ==
  ASSUME TopUpAssumption, TopUpInv, NEW o \in Orders, NEW target \in {"success", "rejected"},
         ProcessAdminTopUp(o, target)
  PROVE  TopUpInv'
  <1> DEFINE c == credited[o] + (IF target = "success" THEN adminTopUpQuota(o) ELSE 0)
  <1>1. /\ TopUpTypeOK /\ Admins /\ status[o] = "pending" /\ credited[o] = 0
        /\ status' = [status EXCEPT ![o] = target] /\ credited' = [credited EXCEPT ![o] = c]
        /\ UNCHANGED <<outcome, acked, task, repeats, faults>>
    BY DEF ProcessAdminTopUp, TopUpInv, CreditsFit, CreditFits
  <1>2. /\ adminTopUpQuota(o) \in Nat /\ adminTopUpQuota(o) > 0
        /\ c = (IF target = "success" THEN adminTopUpQuota(o) ELSE 0)
    BY <1>1, WorthSomething
  <1> HIDE DEF c
  <1>3. /\ status'[o] = target /\ credited'[o] = c /\ c \in Nat /\ c \in {0} \cup Given(o)
        /\ \A p \in Orders \ {o} : status'[p] = status[p] /\ credited'[p] = credited[p]
    BY <1>1, <1>2 DEF TopUpTypeOK, Given
  <1>4. TopUpTypeOK'
    BY <1>1, <1>3 DEF TopUpTypeOK, Closed
  <1>5. TasksFit' /\ HandlersAlone'
    <2>1. \A h \in Handlers : task[h] # NoTask => task[h].order \in Orders
      BY <1>1, TaskFacts
    <2>2. QED
      BY <1>1, <1>3, <2>1 DEF TopUpInv, TasksFit, TaskFits, HandlersAlone, AloneOn,
                              SingleNode, UsesOrderLock
  <1>6. CreditsAreDue'
    <2>1. ASSUME NEW h \in Handlers
          PROVE  CreditIsDue(h)'
      <3>1. CreditIsDue(h) /\ (task[h] # NoTask => task[h].order \in Orders)
        BY <1>1, TaskFacts DEF TopUpInv, CreditsAreDue
      <3>2. QED
        BY <1>1, <1>3, <3>1 DEF CreditIsDue, SingleNode, Given, adminTopUpQuota
    <2>2. QED
      BY <2>1 DEF CreditsAreDue
  <1>7. ReadsAreFresh'
    BY <1>1 DEF ReadsAreFresh, ReadIsFresh, CallbacksDecide
  <1>8. CreditsFit'
    <2>1. ASSUME NEW p \in Orders
          PROVE  CreditFits(p)'
      <3>1. CASE p = o
        BY <1>1, <1>2, <1>3, <3>1 DEF CreditFits, SingleNode, Worth, Given, WebhookQuota,
                                      adminTopUpQuota
      <3>2. CASE p # o
        BY <1>3, <3>2 DEF TopUpInv, CreditsFit, CreditFits, SingleNode, Worth, WebhookQuota,
                          adminTopUpQuota
      <3>3. QED
        BY <3>1, <3>2
    <2>2. QED
      BY <2>1 DEF CreditsFit
  <1>9. OpenIsUndecided'
    BY <1>1 DEF OpenIsUndecided
  <1>10. QED
    BY <1>4, <1>5, <1>6, <1>7, <1>8, <1>9 DEF TopUpInv

\* A new order is open, and a payment that could not be opened has no callback.
LEMMA WorldStep ==
  ASSUME TopUpAssumption, TopUpInv, NEW o \in Orders,
         RequestPay(o) \/ PaymentNotOpened(o) \/ ProviderDecides(o)
  PROVE  TopUpInv'
  <1>1. TopUpTypeOK
    BY DEF TopUpInv
  <1>2. CASE RequestPay(o)
    <2>1. /\ status[o] = "none" /\ status' = [status EXCEPT ![o] = "pending"]
          /\ UNCHANGED <<outcome, acked, task, credited, repeats, faults>>
      BY <1>2 DEF RequestPay, RequestEpay, RequestStripePay, RequestCreemPay, RequestWaffoPay,
                  RequestWaffoPancakePay, InsertPending
    <2>2. status'[o] = "pending" /\ \A p \in Orders \ {o} : status'[p] = status[p]
      BY <1>1, <2>1 DEF TopUpTypeOK
    <2>3. TopUpTypeOK'
      BY <1>1, <2>1 DEF TopUpTypeOK
    <2>4. \A h \in Handlers : task[h] # NoTask => task[h].order \in Orders \ {o}
      BY <1>1, <2>1, TaskFacts DEF TopUpInv, TasksFit, TaskFits
    <2>5. TasksFit' /\ HandlersAlone' /\ CreditsAreDue' /\ ReadsAreFresh'
      BY <2>1, <2>2, <2>4 DEF TopUpInv, TasksFit, TaskFits, HandlersAlone, AloneOn, UsesOrderLock,
                              CreditsAreDue, CreditIsDue, Given, adminTopUpQuota,
                              ReadsAreFresh, ReadIsFresh, CallbacksDecide, SingleNode
    <2>6. CreditsFit' /\ OpenIsUndecided'
      BY <2>1, <2>2 DEF TopUpInv, CreditsFit, CreditFits, SingleNode, Worth, WebhookQuota,
                        adminTopUpQuota, OpenIsUndecided
    <2>7. QED
      BY <2>3, <2>5, <2>6 DEF TopUpInv
  <1>3. CASE PaymentNotOpened(o)
    <2>1. /\ status[o] # "none" /\ outcome[o] = "open" /\ Provider[o] \in {"waffo", "pancake"}
          /\ status' = [status EXCEPT ![o] = "failed"]
          /\ outcome' = [outcome EXCEPT ![o] = "failed"]
          /\ UNCHANGED <<acked, task, credited, repeats>> /\ Fault
      BY <1>3 DEF PaymentNotOpened
    <2>2. /\ status'[o] = "failed" /\ outcome'[o] = "failed"
          /\ \A p \in Orders \ {o} : status'[p] = status[p] /\ outcome'[p] = outcome[p]
      BY <1>1, <2>1 DEF TopUpTypeOK
    <2>3. TopUpTypeOK'
      BY <1>1, <2>1, FaultCounted DEF TopUpTypeOK, Closed
    <2>4. ASSUME NEW h \in Handlers, task[h] # NoTask, task[h].order = o
          PROVE  task[h].op = "notice"
      BY <1>1, <2>1, <2>4, TaskFacts DEF TopUpInv, TasksFit, TaskFits, Ops
    <2>5. TasksFit' /\ CreditsAreDue' /\ ReadsAreFresh'
      <3>1. ASSUME NEW h \in Handlers
            PROVE  TaskFits(h)' /\ CreditIsDue(h)' /\ ReadIsFresh(h)'
        <4>1. /\ TaskFits(h) /\ CreditIsDue(h) /\ ReadIsFresh(h)
              /\ task[h] # NoTask => task[h].order \in Orders
          BY <1>1, TaskFacts DEF TopUpInv, TasksFit, CreditsAreDue, ReadsAreFresh
        <4>2. CreditIsDue(h)'
          BY <2>1, <4>1 DEF CreditIsDue, SingleNode, Given, adminTopUpQuota
        <4>3. CASE task[h] # NoTask /\ task[h].order = o
          BY <2>1, <2>2, <2>4, <4>1, <4>2, <4>3 DEF TaskFits, ReadIsFresh
        <4>4. CASE ~(task[h] # NoTask /\ task[h].order = o)
          BY <2>1, <2>2, <4>1, <4>2, <4>4 DEF TaskFits, ReadIsFresh, CallbacksDecide, SingleNode
        <4>5. QED
          BY <4>3, <4>4
      <3>2. QED
        BY <3>1 DEF TasksFit, CreditsAreDue, ReadsAreFresh
    <2>6. HandlersAlone'
      BY <2>1 DEF TopUpInv, HandlersAlone, AloneOn, SingleNode, UsesOrderLock
    <2>7. CreditsFit' /\ OpenIsUndecided'
      BY <2>1, <2>2 DEF TopUpInv, CreditsFit, CreditFits, SingleNode, Worth, WebhookQuota,
                        adminTopUpQuota, OpenIsUndecided
    <2>8. QED
      BY <2>3, <2>5, <2>6, <2>7 DEF TopUpInv
  <1>4. CASE ProviderDecides(o)
    <2>1. /\ outcome[o] = "open"
          /\ \/ outcome' = [outcome EXCEPT ![o] = "paid"]
             \/ outcome' = [outcome EXCEPT ![o] = "failed"]
          /\ UNCHANGED <<status, acked, task, credited, repeats, faults>>
      BY <1>4 DEF ProviderDecides
    <2>2. /\ outcome'[o] # "open" /\ \A p \in Orders \ {o} : outcome'[p] = outcome[p]
      BY <1>1, <2>1 DEF TopUpTypeOK
    <2>3. TopUpTypeOK'
      BY <1>1, <2>1 DEF TopUpTypeOK
    <2>4. TasksFit'
      <3>1. ASSUME NEW h \in Handlers
            PROVE  TaskFits(h)'
        BY <1>1, <2>1, <2>2, TaskFacts DEF TopUpInv, TasksFit, TaskFits
      <3>2. QED
        BY <3>1 DEF TasksFit
    <2>5. HandlersAlone' /\ CreditsAreDue' /\ ReadsAreFresh'
      BY <2>1 DEF TopUpInv, HandlersAlone, AloneOn, UsesOrderLock, CreditsAreDue, CreditIsDue,
                  Given, adminTopUpQuota, ReadsAreFresh, ReadIsFresh, CallbacksDecide, SingleNode
    <2>6. CreditsFit' /\ OpenIsUndecided'
      BY <2>1, <2>2 DEF TopUpInv, CreditsFit, CreditFits, SingleNode, Worth, WebhookQuota,
                        adminTopUpQuota, OpenIsUndecided
    <2>7. QED
      BY <2>3, <2>4, <2>5, <2>6 DEF TopUpInv
  <1>5. QED
    BY <1>2, <1>3, <1>4

(***************************************************************************)
(* The theorems.                                                           *)
(***************************************************************************)

\* No order is credited before it exists.
LEMMA TopUpStarts ==
  ASSUME TopUpAssumption, Init
  PROVE  TopUpInv
  <1>1. TopUpTypeOK
    BY DEF Init, TopUpTypeOK, TaskType, TopUpAssumption
  <1>2. TasksFit /\ HandlersAlone /\ CreditsAreDue /\ ReadsAreFresh
    BY DEF Init, TasksFit, TaskFits, HandlersAlone, AloneOn, CreditsAreDue, CreditIsDue,
           ReadsAreFresh, ReadIsFresh
  <1>3. CreditsFit /\ OpenIsUndecided
    BY DEF Init, CreditsFit, CreditFits, Worth, OpenIsUndecided
  <1>4. QED
    BY <1>1, <1>2, <1>3 DEF TopUpInv

\* Every step keeps the invariant.
LEMMA TopUpStep ==
  ASSUME TopUpAssumption, TopUpInv, [Next]_vars
  PROVE  TopUpInv'
  <1>1. ASSUME NEW o \in Orders, RequestPay(o) \/ PaymentNotOpened(o) \/ ProviderDecides(o)
        PROVE  TopUpInv'
    BY <1>1, WorldStep
  <1>2. ASSUME NEW h \in Handlers, NEW o \in Orders, Callback(h, o)
        PROVE  TopUpInv'
    BY <1>2, ArrivalBegins, BeginStep
  <1>3. ASSUME NEW h \in Handlers, Step(h) \/ Crash(h)
        PROVE  TopUpInv'
    <2>1. Counted /\ (Continues(h) \/ \E s, c : EndsRight(h, s, c))
      BY <1>3, StepEnds DEF TopUpInv
    <2>2. CASE Continues(h)
      BY <2>1, <2>2, ContinueStep
    <2>3. ASSUME NEW s, NEW c, EndsRight(h, s, c)
          PROVE  TopUpInv'
      BY <2>1, <2>3, EndKeepsTypes, EndKeepsTasks, EndKeepsReads, EndKeepsCredits DEF TopUpInv
    <2>4. QED
      BY <2>1, <2>2, <2>3
  <1>4. ASSUME NEW o \in Orders, NEW target \in {"success", "rejected"},
               ProcessAdminTopUp(o, target)
        PROVE  TopUpInv'
    BY <1>4, AdminStep
  <1>5. CASE UNCHANGED vars
    BY <1>5 DEF vars, TopUpInv, TopUpTypeOK, TasksFit, TaskFits, HandlersAlone, AloneOn,
                UsesOrderLock, CreditsAreDue, CreditIsDue, Given, ReadsAreFresh, ReadIsFresh,
                CallbacksDecide, CreditsFit, CreditFits, OpenIsUndecided, SingleNode, Worth,
                WebhookQuota, adminTopUpQuota
  <1>6. QED
    BY <1>1, <1>2, <1>3, <1>4, <1>5 DEF Next

\* The invariant holds in every behaviour.
THEOREM TopUpAlways == ASSUME TopUpAssumption PROVE Spec => []TopUpInv
  <1>1. Init => TopUpInv
    BY TopUpStarts
  <1>2. TopUpInv /\ [Next]_vars => TopUpInv'
    BY TopUpStep
  <1>3. QED
    BY <1>1, <1>2, PTL DEF Spec

\* However many callbacks arrive, in whatever order they fail and are repeated, on
\* one node a top-up gets what its provider sold once, and what an administrator
\* gave once; on any number of nodes every success but epay's has been credited.
THEOREM TopUpsAreCreditedOnce ==
  ASSUME TopUpAssumption
  PROVE  Spec => []TopUpCreditedOnce
  <1>1. TopUpInv => TopUpCreditedOnce
    BY DEF TopUpInv, CreditsFit, CreditFits, Worth, TopUpCreditedOnce
  <1>2. QED
    BY <1>1, TopUpAlways, PTL

\* A decided order stays as it is: what fulfils or closes it has found it pending.
LEMMA DecisionStays ==
  ASSUME TopUpAssumption, TopUpInv, [Next]_vars, NEW o \in Orders,
         CallbacksDecide(o), status[o] \in Closed \cup {"success"}
  PROVE  status'[o] = status[o]
  <1>1. TopUpTypeOK /\ status[o] \notin {"none", "pending"}
    BY DEF TopUpInv, Closed
  <1>2. ASSUME NEW p \in Orders, RequestPay(p) \/ PaymentNotOpened(p) \/ ProviderDecides(p)
        PROVE  status'[o] = status[o]
    <2>1. CASE RequestPay(p)
      BY <1>1, <2>1 DEF RequestPay, RequestEpay, RequestStripePay, RequestCreemPay,
                        RequestWaffoPay, RequestWaffoPancakePay, InsertPending, TopUpTypeOK
    <2>2. CASE PaymentNotOpened(p)
      <3>1. /\ outcome[p] = "open" /\ Provider[p] \in {"waffo", "pancake"}
            /\ status' = [status EXCEPT ![p] = "failed"]
        BY <2>2 DEF PaymentNotOpened
      <3>2. p # o
        BY <1>1, <3>1 DEF TopUpInv, OpenIsUndecided, CallbacksDecide
      <3>3. QED
        BY <1>1, <3>1, <3>2 DEF TopUpTypeOK
    <2>3. CASE ProviderDecides(p)
      BY <2>3 DEF ProviderDecides
    <2>4. QED
      BY <1>2, <2>1, <2>2, <2>3
  <1>3. ASSUME NEW h \in Handlers, NEW p \in Orders, Callback(h, p)
        PROVE  status'[o] = status[o]
    BY <1>3, ArrivalBegins DEF Begins
  <1>4. ASSUME NEW h \in Handlers, Step(h) \/ Crash(h)
        PROVE  status'[o] = status[o]
    <2>1. Continues(h) \/ \E s, c : EndsRight(h, s, c)
      BY <1>1, <1>4, StepEnds
    <2>2. ReadIsFresh(h) /\ TaskFits(h)
      BY DEF TopUpInv, ReadsAreFresh, TasksFit
    <2>3. CASE Continues(h)
      <3>1. task[h] # NoTask /\ task[h].op = "fulfil" /\ task[h].seen = "pending"
            /\ status' = [status EXCEPT ![task[h].order] = "success"]
        BY <1>1, <2>3, TaskFacts DEF Continues
      <3>2. task[h].order # o
        BY <1>1, <2>2, <3>1 DEF ReadIsFresh
      <3>3. QED
        BY <1>1, <3>1, <3>2 DEF TopUpTypeOK
    <2>4. ASSUME NEW s, NEW c, EndsRight(h, s, c)
          PROVE  status'[o] = status[o]
      <3>1. task[h] # NoTask /\ status' = [status EXCEPT ![task[h].order] = s]
        BY <2>4 DEF EndsRight, Ends
      <3>2. CASE task[h].order # o
        BY <1>1, <3>1, <3>2 DEF TopUpTypeOK
      <3>3. CASE task[h].order = o
        <4>1. CASE Leaves(h, s, c) \/ CreditsEpay(h, s, c)
          BY <1>1, <3>1, <3>3, <4>1 DEF Leaves, CreditsEpay, TopUpTypeOK
        <4>2. CASE Fulfils(h, s, c)
          BY <1>1, <2>2, <3>1, <3>3, <4>2 DEF Fulfils, ReadIsFresh
        <4>3. CASE Closes(h, s, c)
          BY <1>1, <2>2, <3>1, <3>3, <4>3 DEF Closes, ReadIsFresh, TaskFits, CallbacksDecide
        <4>4. QED
          BY <2>4, <4>1, <4>2, <4>3 DEF EndsRight
      <3>4. QED
        BY <3>2, <3>3
    <2>5. QED
      BY <2>1, <2>3, <2>4
  <1>5. ASSUME NEW p \in Orders, NEW target, ProcessAdminTopUp(p, target)
        PROVE  status'[o] = status[o]
    BY <1>5 DEF ProcessAdminTopUp, CallbacksDecide
  <1>6. CASE UNCHANGED vars
    BY <1>6 DEF vars
  <1>7. QED
    BY <1>2, <1>3, <1>4, <1>5, <1>6 DEF Next

\* On one node and left to its callbacks a decided order is never decided again, but
\* for Waffo's: LockOrder is all that keeps a repeated callback, or the failure that
\* Stripe reports after an expiry, from a row that was read as pending.
THEOREM DecisionsAreFinal ==
  ASSUME TopUpAssumption
  PROVE  Spec => DecisionFinal
  <1>1. TopUpInv /\ [Next]_vars =>
          [\A o \in Orders :
             /\ SingleNode /\ ~Admins /\ Provider[o] # "waffo"
             /\ status[o] \in Closed \cup {"success"}
             => status'[o] = status[o]]_vars
    BY DecisionStays DEF CallbacksDecide
  <1>2. QED
    BY <1>1, TopUpAlways, PTL DEF Spec, DecisionFinal

-------------------------------------------------------------------------------
(***************************************************************************)
(* The table of counted mutexes (OrderLock), for every set of callbacks,   *)
(* trade numbers and mutex objects.                                        *)
(***************************************************************************)

\* Between its increment and its decrement a handler is counted; it has its
\* mutex in hand from the load to the end of UnlockOrder.
Counting == {"lock", "inside", "unlock", "recreate", "uncount"}
Holding == Counting \cup {"count", "delete"}

Users(m) == {h \in Callbacks : rcm[h] = m /\ pc[h] \in Counting}

\* createLock is held around the load and the count, the uncount and the deletion.
GuardHeld ==
  \A h \in Callbacks : createLock = h <=> pc[h] \in {"load", "count", "uncount", "delete"}

\* The mutex in hand is the entry of the trade number, so that UnlockOrder
\* finds the mutex that LockOrder locked.
EntryInHand ==
  \A h \in Callbacks :
    IF pc[h] \in Holding
    THEN rcm[h] = orderLocks[wants[h]] /\ rcm[h] # NoMutex
    ELSE rcm[h] = NoMutex

EntriesDistinct ==
  \A s, t \in Trades : orderLocks[s] = orderLocks[t] /\ orderLocks[s] # NoMutex => s = t

CountExact == \A m \in Mutexes : refCount[m] = Cardinality(Users(m))

OwnerInside ==
  \A h \in Callbacks, m \in Mutexes : owner[m] = h <=> pc[h] \in Inside /\ rcm[h] = m

LockInv ==
  /\ OrderLockTypeOK
  /\ GuardHeld
  /\ EntryInHand
  /\ EntriesDistinct
  /\ CountExact
  /\ OwnerInside
-------------------------------------------------------------------------------
\* Initially nobody holds anything.
LEMMA LockInvStarts ==
  ASSUME OrderLockAssumption, LockInit
  PROVE  LockInv
  <1>1. OrderLockTypeOK
    BY DEF LockInit, OrderLockTypeOK, PCs
  <1>2. GuardHeld /\ EntryInHand /\ EntriesDistinct /\ OwnerInside
    BY DEF OrderLockAssumption, LockInit, GuardHeld, EntryInHand, EntriesDistinct,
           OwnerInside, Holding, Counting, Inside
  <1>3. CountExact
    <2>1. \A m \in Mutexes : Users(m) = {}
      BY DEF LockInit, Users, Counting
    <2>2. QED
      BY <2>1, FS_EmptySet DEF CountExact, LockInit
  <1>4. QED
    BY <1>1, <1>2, <1>3 DEF LockInv

\* The counts stay exact over a step that leaves refCount and every mutex's
\* users alone.
LEMMA SameUsers ==
  ASSUME CountExact, refCount' = refCount, \A m \in Mutexes : Users(m)' = Users(m)
  PROVE  CountExact'
  BY DEF CountExact

\* Finitely many callbacks use a mutex, so the users of one can be counted.
LEMMA FiniteUsers ==
  ASSUME OrderLockAssumption, NEW m
  PROVE  IsFiniteSet(Users(m))
  BY FS_Subset DEF Users, OrderLockAssumption

\* Before it asks a handler has nothing in hand.
LEMMA CallLockOrderStep ==
  ASSUME OrderLockAssumption, LockInv, NEW h \in Callbacks, NEW t \in Trades,
         CallLockOrder(h, t)
  PROVE  LockInv'
  <1> USE DEF CallLockOrder, To
  <1>1. OrderLockTypeOK'
    BY DEF LockInv, OrderLockTypeOK, PCs
  <1>2. GuardHeld'
    BY DEF LockInv, OrderLockTypeOK, GuardHeld
  <1>3. EntryInHand' /\ EntriesDistinct'
    BY DEF LockInv, OrderLockTypeOK, EntryInHand, EntriesDistinct, Holding, Counting
  <1>4. CountExact'
    BY SameUsers DEF LockInv, OrderLockTypeOK, Users, Counting
  <1>5. OwnerInside'
    BY DEF LockInv, OrderLockTypeOK, OwnerInside, Inside
  <1>6. QED
    BY <1>1, <1>2, <1>3, <1>4, <1>5 DEF LockInv

\* Taking createLock.
LEMMA CreateLockStep ==
  ASSUME OrderLockAssumption, LockInv, NEW h \in Callbacks,
         \/ AcquireCreateLock(h, "create", "load")
         \/ AcquireCreateLock(h, "recreate", "uncount")
  PROVE  LockInv'
  <1> USE DEF AcquireCreateLock, To
  <1>1. OrderLockTypeOK'
    BY DEF LockInv, OrderLockTypeOK, PCs
  <1>2. GuardHeld'
    BY DEF LockInv, OrderLockTypeOK, GuardHeld, OrderLockAssumption
  <1>3. EntryInHand' /\ EntriesDistinct'
    BY DEF LockInv, OrderLockTypeOK, EntryInHand, EntriesDistinct, Holding, Counting
  <1>4. CountExact'
    BY SameUsers DEF LockInv, OrderLockTypeOK, Users, Counting
  <1>5. OwnerInside'
    BY DEF LockInv, OrderLockTypeOK, OwnerInside, Inside
  <1>6. QED
    BY <1>1, <1>2, <1>3, <1>4, <1>5 DEF LockInv

\* A trade number without an entry has no user, because a user's mutex is the
\* entry: the new mutex is nobody else's.
LEMMA LoadOrStoreStep ==
  ASSUME OrderLockAssumption, LockInv, NEW h \in Callbacks, LoadOrStore(h)
  PROVE  LockInv'
  <1>1. CASE orderLocks[wants[h]] # NoMutex
    <2>0. /\ pc[h] = "load" /\ pc' = [pc EXCEPT ![h] = "count"]
          /\ rcm' = [rcm EXCEPT ![h] = orderLocks[wants[h]]]
          /\ UNCHANGED <<createLock, orderLocks, owner, refCount, wants>>
      BY <1>1 DEF LoadOrStore, To
    <2>1. OrderLockTypeOK'
      BY <2>0 DEF LockInv, OrderLockTypeOK, PCs
    <2>2. GuardHeld'
      BY <2>0 DEF LockInv, OrderLockTypeOK, GuardHeld
    <2>3. EntryInHand' /\ EntriesDistinct'
      BY <2>0, <1>1 DEF LockInv, OrderLockTypeOK, EntryInHand, EntriesDistinct, Holding, Counting
    <2>4. CountExact'
      BY <2>0, SameUsers DEF LockInv, OrderLockTypeOK, Users, Counting
    <2>5. OwnerInside'
      BY <2>0 DEF LockInv, OrderLockTypeOK, OwnerInside, Inside
    <2>6. QED
      BY <2>1, <2>2, <2>3, <2>4, <2>5 DEF LockInv
  <1>2. CASE orderLocks[wants[h]] = NoMutex
    <2> PICK m \in Mutexes :
          /\ Unused(m) /\ pc[h] = "load" /\ pc' = [pc EXCEPT ![h] = "count"]
          /\ rcm' = [rcm EXCEPT ![h] = m]
          /\ orderLocks' = [orderLocks EXCEPT ![wants[h]] = m]
          /\ owner' = [owner EXCEPT ![m] = Nobody]
          /\ refCount' = [refCount EXCEPT ![m] = 0]
          /\ UNCHANGED <<createLock, wants>>
      BY <1>2 DEF LoadOrStore, To
    <2> m # NoMutex
      BY DEF OrderLockAssumption
    <2>1. OrderLockTypeOK'
      BY DEF LockInv, OrderLockTypeOK, PCs
    <2>2. GuardHeld'
      BY DEF LockInv, OrderLockTypeOK, GuardHeld
    <2>3. EntriesDistinct'
      BY DEF LockInv, OrderLockTypeOK, EntriesDistinct, Unused
    <2>4. EntryInHand'
      <3> SUFFICES ASSUME NEW g \in Callbacks
                   PROVE  IF pc'[g] \in Holding
                          THEN rcm'[g] = orderLocks'[wants'[g]] /\ rcm'[g] # NoMutex
                          ELSE rcm'[g] = NoMutex
        BY DEF EntryInHand
      <3>1. CASE g = h
        BY <3>1 DEF LockInv, OrderLockTypeOK, Holding
      <3>2. CASE g # h
        BY <3>2, <1>2 DEF LockInv, OrderLockTypeOK, EntryInHand
      <3>3. QED
        BY <3>1, <3>2
    <2>5. CountExact'
      <3>1. Users(m)' = {}
        BY DEF LockInv, OrderLockTypeOK, Users, Unused, Counting
      <3>2. \A n \in Mutexes : n # m => Users(n)' = Users(n)
        BY DEF LockInv, OrderLockTypeOK, Users, Counting
      <3>3. QED
        BY <3>1, <3>2, FS_EmptySet DEF LockInv, OrderLockTypeOK, CountExact
    <2>6. OwnerInside'
      BY DEF LockInv, OrderLockTypeOK, OwnerInside, Inside, Unused, OrderLockAssumption
    <2>7. QED
      BY <2>1, <2>2, <2>3, <2>4, <2>5, <2>6 DEF LockInv
  <1>3. QED
    BY <1>1, <1>2

\* The increment makes the callback a user of the entry it loaded.
LEMMA CountStep ==
  ASSUME OrderLockAssumption, LockInv, NEW h \in Callbacks, Count(h)
  PROVE  LockInv'
  <1> USE DEF Count, To
  <1>0. rcm[h] \in Mutexes
    BY DEF LockInv, OrderLockTypeOK, EntryInHand, Holding
  <1>1. OrderLockTypeOK'
    BY <1>0 DEF LockInv, OrderLockTypeOK, PCs
  <1>2. GuardHeld'
    BY DEF LockInv, OrderLockTypeOK, GuardHeld, OrderLockAssumption
  <1>3. EntryInHand' /\ EntriesDistinct'
    BY DEF LockInv, OrderLockTypeOK, EntryInHand, EntriesDistinct, Holding, Counting
  <1>4. CountExact'
    <2>1. /\ h \notin Users(rcm[h])
          /\ Users(rcm[h])' = Users(rcm[h]) \cup {h}
      BY <1>0 DEF LockInv, OrderLockTypeOK, Users, Counting
    <2>2. \A m \in Mutexes : m # rcm[h] => Users(m)' = Users(m)
      BY DEF LockInv, OrderLockTypeOK, Users, Counting
    <2>3. Cardinality(Users(rcm[h])') = Cardinality(Users(rcm[h])) + 1
      BY <2>1, FiniteUsers, FS_AddElement
    <2>4. QED
      BY <1>0, <2>2, <2>3 DEF LockInv, OrderLockTypeOK, CountExact
  <1>5. OwnerInside'
    BY DEF LockInv, OrderLockTypeOK, OwnerInside, Inside
  <1>6. QED
    BY <1>1, <1>2, <1>3, <1>4, <1>5 DEF LockInv

\* Taking the mutex in hand makes the callback its owner.
LEMMA LockMutexStep ==
  ASSUME OrderLockAssumption, LockInv, NEW h \in Callbacks, LockMutex(h)
  PROVE  LockInv'
  <1> USE DEF LockMutex, To
  <1>0. rcm[h] \in Mutexes
    BY DEF LockInv, OrderLockTypeOK, EntryInHand, Holding, Counting
  <1>1. OrderLockTypeOK'
    BY <1>0 DEF LockInv, OrderLockTypeOK, PCs
  <1>2. GuardHeld'
    BY DEF LockInv, OrderLockTypeOK, GuardHeld
  <1>3. EntryInHand' /\ EntriesDistinct'
    BY DEF LockInv, OrderLockTypeOK, EntryInHand, EntriesDistinct, Holding, Counting
  <1>4. CountExact'
    BY SameUsers DEF LockInv, OrderLockTypeOK, Users, Counting
  <1>5. OwnerInside'
    BY <1>0 DEF LockInv, OrderLockTypeOK, OwnerInside, Inside, OrderLockAssumption
  <1>6. QED
    BY <1>1, <1>2, <1>3, <1>4, <1>5 DEF LockInv

\* The entry is there and is the mutex that is held.
LEMMA EntryFound ==
  ASSUME LockInv, NEW h \in Callbacks, LoadEntry(h)
  PROVE  /\ rcm' = rcm
         /\ pc' = [pc EXCEPT ![h] = "unlock"]
  <1>1. orderLocks[wants[h]] = rcm[h] /\ rcm[h] # NoMutex
    BY DEF LockInv, EntryInHand, LoadEntry, Holding, Counting
  <1>2. QED
    BY <1>1 DEF LockInv, OrderLockTypeOK, LoadEntry, To

\* UnlockOrder loads its entry again and gets the mutex it has.
LEMMA LoadEntryStep ==
  ASSUME OrderLockAssumption, LockInv, NEW h \in Callbacks, LoadEntry(h)
  PROVE  LockInv'
  <1>0. /\ pc[h] = "inside" /\ pc' = [pc EXCEPT ![h] = "unlock"]
        /\ UNCHANGED <<createLock, orderLocks, owner, refCount, wants, rcm>>
    BY EntryFound DEF LoadEntry
  <1>1. OrderLockTypeOK'
    BY <1>0 DEF LockInv, OrderLockTypeOK, PCs
  <1>2. GuardHeld'
    BY <1>0 DEF LockInv, OrderLockTypeOK, GuardHeld
  <1>3. EntryInHand' /\ EntriesDistinct'
    BY <1>0 DEF LockInv, OrderLockTypeOK, EntryInHand, EntriesDistinct, Holding, Counting
  <1>4. CountExact'
    BY <1>0, SameUsers DEF LockInv, OrderLockTypeOK, Users, Counting
  <1>5. OwnerInside'
    BY <1>0 DEF LockInv, OrderLockTypeOK, OwnerInside, Inside
  <1>6. QED
    BY <1>1, <1>2, <1>3, <1>4, <1>5 DEF LockInv

\* Unlocking the entry leaves it without an owner.
LEMMA UnlockMutexStep ==
  ASSUME OrderLockAssumption, LockInv, NEW h \in Callbacks, UnlockMutex(h)
  PROVE  LockInv'
  <1> USE DEF UnlockMutex, To
  <1>0. rcm[h] \in Mutexes
    BY DEF LockInv, OrderLockTypeOK, EntryInHand, Holding, Counting
  <1>1. OrderLockTypeOK'
    BY <1>0 DEF LockInv, OrderLockTypeOK, PCs
  <1>2. GuardHeld'
    BY DEF LockInv, OrderLockTypeOK, GuardHeld
  <1>3. EntryInHand' /\ EntriesDistinct'
    BY DEF LockInv, OrderLockTypeOK, EntryInHand, EntriesDistinct, Holding, Counting
  <1>4. CountExact'
    BY SameUsers DEF LockInv, OrderLockTypeOK, Users, Counting
  <1>5. OwnerInside'
    <2>1. owner[rcm[h]] = h
      BY <1>0 DEF LockInv, OwnerInside, Inside
    <2>2. QED
      BY <1>0, <2>1 DEF LockInv, OrderLockTypeOK, OwnerInside, Inside, OrderLockAssumption
  <1>6. QED
    BY <1>1, <1>2, <1>3, <1>4, <1>5 DEF LockInv

\* The decrement takes one user from the entry.
LEMMA UncountStep ==
  ASSUME OrderLockAssumption, LockInv, NEW h \in Callbacks, Uncount(h)
  PROVE  LockInv'
  <1> USE DEF Uncount, To
  <1>0. rcm[h] \in Mutexes
    BY DEF LockInv, OrderLockTypeOK, EntryInHand, Holding, Counting
  <1>1. CountExact' /\ refCount' \in [Mutexes -> Nat]
    <2>1. /\ h \in Users(rcm[h])
          /\ Users(rcm[h])' = Users(rcm[h]) \ {h}
      BY <1>0 DEF LockInv, OrderLockTypeOK, Users, Counting
    <2>2. \A m \in Mutexes : m # rcm[h] => Users(m)' = Users(m)
      BY DEF LockInv, OrderLockTypeOK, Users, Counting
    <2>3. /\ Cardinality(Users(rcm[h])') = Cardinality(Users(rcm[h])) - 1
          /\ Cardinality(Users(rcm[h])') \in Nat
      BY <2>1, FiniteUsers, FS_RemoveElement, FS_CardinalityType
    <2>4. QED
      BY <1>0, <2>2, <2>3 DEF LockInv, OrderLockTypeOK, CountExact
  <1>2. OrderLockTypeOK'
    BY <1>1 DEF LockInv, OrderLockTypeOK, PCs
  <1>3. GuardHeld'
    BY DEF LockInv, OrderLockTypeOK, GuardHeld
  <1>4. EntryInHand' /\ EntriesDistinct'
    BY DEF LockInv, OrderLockTypeOK, EntryInHand, EntriesDistinct, Holding, Counting
  <1>5. OwnerInside'
    BY DEF LockInv, OrderLockTypeOK, OwnerInside, Inside
  <1>6. QED
    BY <1>1, <1>2, <1>3, <1>4, <1>5 DEF LockInv

\* The last user is alone: whoever else works on the trade number has the same
\* mutex, is between its own count and uncount, and the count would show it.
LEMMA LastUserAlone ==
  ASSUME OrderLockAssumption, LockInv, NEW h \in Callbacks, pc[h] = "delete", LastUser(h),
         NEW g \in Callbacks, g # h, pc[g] \in Holding
  PROVE  wants[g] # wants[h]
  <1> SUFFICES ASSUME wants[g] = wants[h]
               PROVE  FALSE
    OBVIOUS
  <1>1. rcm[g] = rcm[h] /\ rcm[h] \in Mutexes
    BY DEF LockInv, OrderLockTypeOK, EntryInHand, Holding
  <1>2. pc[g] \in Counting
    <2>1. createLock = h
      BY DEF LockInv, GuardHeld
    <2>2. pc[g] \notin {"count", "delete"}
      BY <2>1 DEF LockInv, GuardHeld
    <2>3. QED
      BY <2>2 DEF Holding
  <1>3. g \in Users(rcm[h])
    BY <1>1, <1>2 DEF Users
  <1>4. Cardinality(Users(rcm[h])) = 0
    BY <1>1 DEF LockInv, CountExact, LastUser
  <1>5. QED
    BY <1>3, <1>4, FiniteUsers, FS_EmptySet

\* A deletion at count zero takes the entry from nobody else.
LEMMA DeleteEntryStep ==
  ASSUME OrderLockAssumption, LockInv, NEW h \in Callbacks, DeleteEntry(h)
  PROVE  LockInv'
  <1> USE DEF DeleteEntry, To
  <1>1. OrderLockTypeOK'
    BY DEF LockInv, OrderLockTypeOK, PCs
  <1>2. GuardHeld'
    BY DEF LockInv, OrderLockTypeOK, GuardHeld, OrderLockAssumption
  <1>3. EntriesDistinct'
    BY DEF LockInv, OrderLockTypeOK, EntriesDistinct
  <1>4. EntryInHand'
    <2> SUFFICES ASSUME NEW g \in Callbacks
                 PROVE  IF pc'[g] \in Holding
                        THEN rcm'[g] = orderLocks'[wants'[g]] /\ rcm'[g] # NoMutex
                        ELSE rcm'[g] = NoMutex
      BY DEF EntryInHand
    <2>1. CASE g = h
      BY <2>1 DEF LockInv, OrderLockTypeOK, Holding, Counting
    <2>2. CASE g # h /\ pc[g] \in Holding
      <3>1. LastUser(h) => wants[g] # wants[h]
        BY <2>2, LastUserAlone
      <3>2. orderLocks'[wants[g]] = orderLocks[wants[g]]
        BY <3>1 DEF LockInv, OrderLockTypeOK
      <3>3. QED
        BY <2>2, <3>2 DEF LockInv, OrderLockTypeOK, EntryInHand
    <2>3. CASE g # h /\ pc[g] \notin Holding
      BY <2>3 DEF LockInv, OrderLockTypeOK, EntryInHand
    <2>4. QED
      BY <2>1, <2>2, <2>3
  <1>5. CountExact'
    BY SameUsers DEF LockInv, OrderLockTypeOK, Users, Counting
  <1>6. OwnerInside'
    BY DEF LockInv, OrderLockTypeOK, OwnerInside, Inside, OrderLockAssumption
  <1>7. QED
    BY <1>1, <1>2, <1>3, <1>4, <1>5, <1>6 DEF LockInv

\* Every step keeps the invariant.
LEMMA LockInvKept ==
  ASSUME OrderLockAssumption, LockInv, [LockNext]_lockVars
  PROVE  LockInv'
  <1>1. CASE UNCHANGED lockVars
    BY <1>1 DEF lockVars, LockInv, OrderLockTypeOK, GuardHeld, EntryInHand, EntriesDistinct,
                CountExact, OwnerInside, Users
  <1>2. CASE LockNext
    BY <1>2, CallLockOrderStep, CreateLockStep, LoadOrStoreStep, CountStep, LockMutexStep,
       LoadEntryStep, UnlockMutexStep, UncountStep, DeleteEntryStep
       DEF LockNext, LockOrder, UnlockOrder
  <1>3. QED
    BY <1>1, <1>2
-------------------------------------------------------------------------------
\* No two callbacks inside have the same mutex, and one trade number has one mutex.
LEMMA InsideAlone ==
  ASSUME LockInv, NEW g \in Callbacks, NEW h \in Callbacks, g # h,
         pc[g] \in Inside, pc[h] \in Inside
  PROVE  wants[g] # wants[h]
  <1>1. rcm[g] = orderLocks[wants[g]] /\ rcm[h] = orderLocks[wants[h]] /\ rcm[h] \in Mutexes
    BY DEF LockInv, OrderLockTypeOK, EntryInHand, Inside, Holding, Counting
  <1>2. QED
    BY <1>1 DEF LockInv, OwnerInside

\* LockOrder lets one callback of an order in at a time.
THEOREM CallbacksExclude ==
  ASSUME OrderLockAssumption
  PROVE  LockSpec => []OrdersExclusive
  <1>1. LockInit => LockInv
    BY LockInvStarts
  <1>2. LockInv /\ [LockNext]_lockVars => LockInv'
    BY LockInvKept
  <1>3. LockInv => OrdersExclusive
    BY InsideAlone DEF OrdersExclusive
  <1>4. QED
    BY <1>1, <1>2, <1>3, PTL DEF LockSpec
-------------------------------------------------------------------------------
\* How the phase of one handler follows its program counter.
PhaseOf(step) ==
  CASE step \in Inside -> "inside"
    [] step \in {"create", "load", "count", "lock"} -> "waiting"
    [] OTHER -> "out"

\* The refinement mapping, as a function of the position.
LEMMA PhaseIs ==
  /\ phase = [h \in Callbacks |-> PhaseOf(pc[h])]
  /\ phase' = [h \in Callbacks |-> PhaseOf(pc'[h])]
  BY DEF phase, PhaseOf

\* What a position means to OrderMutex.
LEMMA PhaseValues ==
  /\ \A step \in Inside : PhaseOf(step) = "inside"
  /\ \A step \in {"create", "load", "count", "lock"} : PhaseOf(step) = "waiting"
  /\ \A step \in {"out", "recreate", "uncount", "delete"} : PhaseOf(step) = "out"
  BY DEF PhaseOf, Inside

\* A step of h changes the phase of h alone, as its program counter says.
LEMMA PhaseStep ==
  ASSUME LockInv, NEW h \in Callbacks, NEW step, pc' = [pc EXCEPT ![h] = step]
  PROVE  phase' = [phase EXCEPT ![h] = PhaseOf(step)]
  BY PhaseIs DEF LockInv, OrderLockTypeOK

\* A step between positions of one phase is a stutter.
LEMMA SamePhase ==
  ASSUME LockInv, NEW h \in Callbacks, NEW step, pc' = [pc EXCEPT ![h] = step],
         PhaseOf(step) = PhaseOf(pc[h])
  PROVE  phase' = phase
  BY PhaseStep, PhaseIs

\* Asking, entering and leaving are the steps of the abstract mutex; the
\* bookkeeping of the table is invisible.
LEMMA NextImplements ==
  ASSUME OrderLockAssumption, LockInv, [LockNext]_lockVars
  PROVE  [Mutex!Next]_(Mutex!vars)
  <1>1. CASE UNCHANGED lockVars
    BY <1>1 DEF lockVars, Mutex!vars, phase
  <1>2. ASSUME NEW h \in Callbacks, NEW t \in Trades, CallLockOrder(h, t)
        PROVE  Mutex!Ask(h, t)
    <2>1. phase[h] = "out"
      BY <1>2, PhaseIs, PhaseValues DEF CallLockOrder
    <2>2. phase' = [phase EXCEPT ![h] = "waiting"]
      <3>1. pc' = [pc EXCEPT ![h] = "create"]
        BY <1>2 DEF CallLockOrder, To
      <3>2. PhaseOf("create") = "waiting"
        BY PhaseValues
      <3>3. QED
        BY <3>1, <3>2, PhaseStep
    <2>3. QED
      BY <1>2, <2>1, <2>2 DEF CallLockOrder, Mutex!Ask
  <1>3. ASSUME NEW h \in Callbacks, LockMutex(h)
        PROVE  Mutex!Enter(h)
    <2>1. phase[h] = "waiting"
      BY <1>3, PhaseIs, PhaseValues DEF LockMutex
    <2>2. phase' = [phase EXCEPT ![h] = "inside"]
      <3>1. pc' = [pc EXCEPT ![h] = "inside"]
        BY <1>3 DEF LockMutex, To
      <3>2. PhaseOf("inside") = "inside"
        BY PhaseValues DEF Inside
      <3>3. QED
        BY <3>1, <3>2, PhaseStep
    <2>3. ASSUME NEW g \in Callbacks, phase[g] = "inside"
          PROVE  wants[g] # wants[h]
      <3>1. pc[g] \in Inside
        BY <2>3, PhaseIs DEF PhaseOf
      <3>2. /\ rcm[g] = orderLocks[wants[g]] /\ rcm[h] = orderLocks[wants[h]]
            /\ rcm[g] \in Mutexes
        BY <1>3, <3>1
           DEF LockMutex, LockInv, OrderLockTypeOK, EntryInHand, Inside, Holding, Counting
      <3>3. owner[rcm[g]] = g
        BY <3>1, <3>2 DEF LockInv, OwnerInside
      <3>4. QED
        BY <1>3, <3>2, <3>3 DEF LockMutex, OrderLockAssumption
    <2>4. QED
      BY <1>3, <2>1, <2>2, <2>3 DEF LockMutex, Mutex!Enter
  <1>4. ASSUME NEW h \in Callbacks, UnlockMutex(h)
        PROVE  Mutex!Leave(h)
    <2>1. phase[h] = "inside"
      BY <1>4, PhaseIs, PhaseValues DEF UnlockMutex, Inside
    <2>2. phase' = [phase EXCEPT ![h] = "out"]
      <3>1. pc' = [pc EXCEPT ![h] = "recreate"]
        BY <1>4 DEF UnlockMutex, To
      <3>2. PhaseOf("recreate") = "out"
        BY PhaseValues
      <3>3. QED
        BY <3>1, <3>2, PhaseStep
    <2>3. QED
      BY <1>4, <2>1, <2>2 DEF UnlockMutex, Mutex!Leave
  <1>5. ASSUME NEW h \in Callbacks,
               \/ AcquireCreateLock(h, "create", "load") \/ LoadOrStore(h) \/ Count(h)
               \/ AcquireCreateLock(h, "recreate", "uncount") \/ Uncount(h)
               \/ DeleteEntry(h)
        PROVE  UNCHANGED <<phase, wants>>
    <2>1. PICK step : /\ pc' = [pc EXCEPT ![h] = step]
                      /\ PhaseOf(step) = PhaseOf(pc[h])
      BY <1>5, PhaseValues DEF AcquireCreateLock, LoadOrStore, Count, Uncount, DeleteEntry, To
    <2>2. QED
      BY <1>5, <2>1, SamePhase
         DEF AcquireCreateLock, LoadOrStore, Count, Uncount, DeleteEntry
  <1>6. ASSUME NEW h \in Callbacks, LoadEntry(h)
        PROVE  UNCHANGED <<phase, wants>>
    <2>1. pc' = [pc EXCEPT ![h] = "unlock"] /\ PhaseOf("unlock") = PhaseOf(pc[h])
      BY <1>6, EntryFound, PhaseValues DEF LoadEntry, Inside
    <2>2. QED
      BY <1>6, <2>1, SamePhase DEF LoadEntry
  <1>7. CASE LockNext
    <2> PICK h \in Callbacks :
          (\E t \in Trades : CallLockOrder(h, t)) \/ LockOrder(h) \/ UnlockOrder(h)
      BY <1>7 DEF LockNext
    <2>1. CASE \E t \in Trades : CallLockOrder(h, t)
      BY <2>1, <1>2 DEF Mutex!Next
    <2>2. CASE LockMutex(h)
      BY <2>2, <1>3 DEF Mutex!Next
    <2>3. CASE UnlockMutex(h)
      BY <2>3, <1>4 DEF Mutex!Next
    <2>4. CASE LoadEntry(h)
      BY <2>4, <1>6 DEF Mutex!vars
    <2>5. CASE \/ AcquireCreateLock(h, "create", "load") \/ LoadOrStore(h) \/ Count(h)
               \/ AcquireCreateLock(h, "recreate", "uncount") \/ Uncount(h)
               \/ DeleteEntry(h)
      BY <2>5, <1>5 DEF Mutex!vars
    <2>6. QED
      BY <2>1, <2>2, <2>3, <2>4, <2>5 DEF LockOrder, UnlockOrder
  <1>8. QED
    BY <1>1, <1>7

\* LockOrder and UnlockOrder are one mutex per trade number, however many
\* callbacks of however many orders share the table.
THEOREM OrderLockImplementsMutex ==
  ASSUME OrderLockAssumption
  PROVE  LockSpec => ImplementsMutex
  <1>1. LockInit => LockInv /\ Mutex!Init
    <2>1. ASSUME LockInit
          PROVE  Mutex!Init
      BY <2>1, PhaseIs, PhaseValues DEF LockInit, Mutex!Init
    <2>2. QED
      BY <2>1, LockInvStarts
  <1>2. LockInv /\ [LockNext]_lockVars => LockInv'
    BY LockInvKept
  <1>3. LockInv /\ [LockNext]_lockVars => [Mutex!Next]_(Mutex!vars)
    BY NextImplements
  <1>4. QED
    BY <1>1, <1>2, <1>3, PTL DEF LockSpec, ImplementsMutex, Mutex!Spec

(***************************************************************************)
(* Subscription orders.  The inductive invariant.                          *)
(***************************************************************************)

OnOrder(h) == tx[h].op \in {"complete", "expire"}
Buys(h) == tx[h].op = "purchase"

\* On one node a callback is alone with its order and has read the row as it is.
CallbackFits(h) ==
  OnOrder(h) =>
    /\ order[tx[h].order] # "none"
    /\ SingleOrderNode =>
         /\ tx[h].status = order[tx[h].order]
         /\ \A g \in OrderHandlers \ {h} : OnOrder(g) => tx[g].order # tx[h].order

\* No order gave two subscriptions: what gave one has its top-up row.  The
\* successful ones gave one, on one node only they.
OrdersDelivered ==
  /\ \A i, j \in Ids :
       subs[i].paidBy \in PlanOrders /\ subs[i].paidBy = subs[j].paidBy => i = j
  /\ \A i \in Ids : subs[i].paidBy \in PlanOrders => subs[i].paidBy \in topup
  /\ \A o \in PlanOrders : order[o] = "success" => \E i \in Ids : subs[i].paidBy = o
  /\ SingleOrderNode =>
       \A i \in Ids : subs[i].paidBy \in PlanOrders => order[subs[i].paidBy] = "success"

\* The purchases that have seen enough in the wallet: it pays for all of them
\* but one price for each handler beside the first.
Affording == {h \in OrderHandlers : Buys(h) /\ tx[h].quota >= Price}
WalletCovers ==
  quota + Price * (Cardinality(OrderHandlers) - 1) >= Price * Cardinality(Affording)

Bought == {i \in Ids : subs[i].paidBy = "balance"}
WalletPays == quota = OpeningQuota - Price * Cardinality(Bought)

SubscriptionInv ==
  /\ SubscriptionOrdersTypeOK
  /\ \A h \in OrderHandlers : CallbackFits(h)
  /\ OrdersDelivered /\ WalletPays /\ WalletCovers

(***************************************************************************)
(* The rows.                                                               *)
(***************************************************************************)

\* The sequence of rows as a function.
LEMMA RowsAre ==
  ASSUME SubscriptionOrdersTypeOK
  PROVE  /\ Len(subs) \in Nat /\ Ids = 1..Len(subs) /\ IsFiniteSet(Ids)
         /\ subs \in [1..Len(subs) -> SubType]
         /\ \A i \in Ids : subs[i] \in SubType
  <1>1. subs \in Seq(SubType)
    BY DEF SubscriptionOrdersTypeOK
  <1>2. Len(subs) \in Nat /\ subs \in [1..Len(subs) -> SubType]
    BY <1>1
  <1>3. Ids = 1..Len(subs) /\ \A i \in Ids : subs[i] \in SubType
    BY <1>2 DEF Ids
  <1>4. IsFiniteSet(Ids)
    <2>1. 1 \in Int /\ Len(subs) \in Int
      BY <1>2
    <2>2. QED
      BY <1>3, <2>1, FS_Interval
  <1>5. QED
    BY <1>2, <1>3, <1>4

\* The clock, the bounds and the rows' ends are numbers.
LEMMA RowNumbers ==
  ASSUME SubscriptionOrdersAssumption, SubscriptionOrdersTypeOK
  PROVE  /\ MaxTime \in Nat /\ now \in Nat /\ now <= MaxTime
         /\ MaxSubs \in Nat /\ Len(subs) \in Nat /\ Len(subs) <= MaxSubs
         /\ \A p \in Plans : Duration[p] \in Nat /\ now + Duration[p] \in Nat
         /\ \A i \in Ids : i \in Nat /\ i >= 1 /\ i <= Len(subs) /\ i \in 1..MaxSubs
         /\ \A i \in Ids : subs[i].end \in Nat
  <1>1. MaxTime \in Nat /\ MaxSubs \in Nat /\ now \in 0..MaxTime /\ Len(subs) <= MaxSubs
    BY DEF SubscriptionOrdersTypeOK, SubscriptionOrdersAssumption
  <1>2. now \in Nat /\ now <= MaxTime
    BY <1>1
  <1>3. \A p \in Plans : Duration[p] \in Nat
    BY DEF SubscriptionOrdersAssumption
  <1>4. \A p \in Plans : now + Duration[p] \in Nat
    BY <1>2, <1>3
  <1>5. Len(subs) \in Nat
    BY RowsAre
  <1>6. \A i \in Ids : i \in 1..Len(subs)
    BY RowsAre
  <1>7. \A i \in 1..Len(subs) : i \in Nat /\ i >= 1 /\ i <= Len(subs) /\ i \in 1..MaxSubs
    BY <1>1, <1>5
  <1>8. \A i \in Ids : subs[i].end \in Nat
    BY RowsAre DEF SubType
  <1>9. QED
    BY <1>1, <1>2, <1>3, <1>4, <1>5, <1>6, <1>7, <1>8

\* A function on an interval from 1 is a sequence.
LEMMA FunctionIsSeq ==
  ASSUME NEW S, NEW n \in Nat, NEW f \in [1..n -> S]
  PROVE  f \in Seq(S) /\ Len(f) = n
  OBVIOUS

\* A new row comes after the others.
LEMMA RowCreated ==
  ASSUME SubscriptionOrdersAssumption, SubscriptionOrdersTypeOK, NEW p \in Plans,
         NEW source \in PlanOrders \cup {"admin", "balance"},
         CreateUserSubscriptionFromPlan(p, source)
  PROVE  /\ subs' \in Seq(SubType) /\ Len(subs') = Len(subs) + 1 /\ Len(subs') <= MaxSubs
         /\ Ids' = Ids \cup {Len(subs) + 1} /\ Len(subs) + 1 \notin Ids
         /\ \A i \in Ids : subs'[i] = subs[i]
         /\ subs'[Len(subs) + 1].paidBy = source
         /\ group' \in Groups \ {""}
  <1> DEFINE new == [plan |-> p, status |-> "active", end |-> now + Duration[p],
                     upgrade |-> UpgradeGroup[p],
                     prev |-> IF ChangesGroup(p) THEN group ELSE "",
                     paidBy |-> source]
  <1>1. /\ Len(subs) < MaxSubs /\ subs' = Append(subs, new)
        /\ group' = IF ChangesGroup(p) THEN UpgradeGroup[p] ELSE group
    BY DEF CreateUserSubscriptionFromPlan
  <1>2. /\ group \in Groups \ {""} /\ UpgradeGroup[p] \in Groups /\ now \in Nat
        /\ Duration[p] \in Nat /\ MaxSubs \in Nat
    <2>1. group \in Groups \ {""} /\ UpgradeGroup[p] \in Groups
      BY DEF SubscriptionOrdersTypeOK, Groups
    <2>2. QED
      BY <2>1, RowNumbers
  <1>3. new \in SubType
    <2>1. (IF ChangesGroup(p) THEN group ELSE "") \in Groups \cup {""}
      BY <1>2
    <2>2. now + Duration[p] \in Nat
      BY RowNumbers
    <2>3. QED
      BY <1>2, <2>1, <2>2 DEF SubType
  <1>4. group' \in Groups \ {""}
    BY <1>1, <1>2 DEF ChangesGroup
  <1>5. new.paidBy = source
    OBVIOUS
  <1> HIDE DEF new
  <1>6. subs \in Seq(SubType) /\ Len(subs) \in Nat
    BY RowsAre DEF SubscriptionOrdersTypeOK
  <1>7. /\ subs' \in Seq(SubType) /\ Len(subs') = Len(subs) + 1
        /\ \A i \in 1..Len(subs) : subs'[i] = subs[i]
        /\ subs'[Len(subs) + 1] = new
    BY <1>1, <1>3, <1>6
  <1>8. Ids' = Ids \cup {Len(subs) + 1} /\ Len(subs) + 1 \notin Ids
    BY <1>6, <1>7 DEF Ids
  <1>9. Len(subs') <= MaxSubs
    <2>1. Len(subs) < MaxSubs /\ Len(subs') = Len(subs) + 1
      BY <1>1, <1>7
    <2>2. QED
      BY <2>1, RowNumbers
  <1>10. \A i \in Ids : subs'[i] = subs[i]
    BY <1>7 DEF Ids
  <1>11. QED
    BY <1>4, <1>5, <1>7, <1>8, <1>9, <1>10

\* A step that changes rows in place.
SamePayers ==
  /\ subs' \in Seq(SubType) /\ Len(subs') = Len(subs)
  /\ \A i \in Ids : subs'[i].paidBy = subs[i].paidBy

\* One row changed in place.
LEMMA RowChanged ==
  ASSUME SubscriptionOrdersTypeOK, NEW i \in Ids, NEW v \in SubType,
         v.paidBy = subs[i].paidBy, subs' = [subs EXCEPT ![i] = v]
  PROVE  SamePayers
  <1>1. subs' \in [1..Len(subs) -> SubType] /\ Len(subs) \in Nat
    BY RowsAre
  <1>2. subs' \in Seq(SubType) /\ Len(subs') = Len(subs)
    BY <1>1, FunctionIsSeq
  <1>3. QED
    BY <1>2, RowsAre DEF SamePayers

\* Rows changed in place keep what is said about who paid.
LEMMA PayersKept ==
  ASSUME SubscriptionOrdersTypeOK, SamePayers
  PROVE  /\ Ids' = Ids /\ Bought' = Bought
         /\ /\ OrdersDelivered /\ topup' = topup
            /\ \A o \in PlanOrders : order'[o] = "success" <=> order[o] = "success"
            => OrdersDelivered'
  <1>1. Ids' = Ids
    BY DEF SamePayers, Ids
  <1>2. Bought' = Bought
    BY <1>1 DEF SamePayers, Bought
  <1>3. QED
    <2>1. ASSUME OrdersDelivered, topup' = topup,
                 \A o \in PlanOrders : order'[o] = "success" <=> order[o] = "success"
          PROVE  OrdersDelivered'
      BY <1>1, <2>1 DEF OrdersDelivered, SamePayers, SingleOrderNode
    <2>2. QED
      BY <1>1, <1>2, <2>1

\* Of the rows that have expired, one ended last: LastExpired is one of them.
LEMMA LastExpiredExists ==
  ASSUME SubscriptionOrdersAssumption, SubscriptionOrdersTypeOK,
         NEW expired \in SUBSET Ids, expired # {}
  PROVE  LastExpired(expired) \in expired
  <1> DEFINE Later(i, j) == subs[j].end < subs[i].end \/ (subs[j].end = subs[i].end /\ j <= i)
             UpTo(n) == {i \in expired : i <= n}
             N == {n \in Nat : UpTo(n) # {} =>
                               \E i \in UpTo(n) : \A j \in UpTo(n) : Later(i, j)}
  <1>1. /\ Len(subs) \in Nat /\ Ids = 1..Len(subs)
        /\ \A i \in Ids : subs[i].end \in Nat
        /\ \A i \in expired : i \in Nat /\ i >= 1 /\ i <= Len(subs) /\ i \in Ids
    <2>1. Ids = 1..Len(subs)
      BY RowsAre
    <2>2. QED
      BY <2>1, RowNumbers
  <1>2. 0 \in N
    <2>1. UpTo(0) = {}
      <3>1. \A i \in expired : ~(i <= 0)
        BY <1>1
      <3>2. QED
        BY <3>1
    <2>2. QED
      BY <2>1
  <1>3. ASSUME NEW n \in N
        PROVE  n + 1 \in N
    <2>1. n \in Nat /\ n + 1 \in Nat
      OBVIOUS
    <2>2. CASE n + 1 \notin expired
      <3>1. UpTo(n + 1) = UpTo(n)
        <4>1. \A i \in expired : i <= n + 1 <=> i <= n
          BY <1>1, <2>1, <2>2
        <4>2. QED
          BY <4>1
      <3>2. QED
        BY <2>1, <3>1
    <2>3. CASE n + 1 \in expired
      <3>1. UpTo(n + 1) = UpTo(n) \cup {n + 1}
        <4>1. \A i \in expired : i <= n + 1 <=> (i <= n \/ i = n + 1)
          BY <1>1, <2>1
        <4>2. n + 1 <= n + 1
          BY <2>1
        <4>3. QED
          BY <2>3, <4>1, <4>2
      <3>2. CASE UpTo(n) = {}
        <4>1. \A j \in UpTo(n + 1) : Later(n + 1, j)
          BY <1>1, <2>1, <2>3, <3>1, <3>2
        <4>2. QED
          BY <2>1, <3>1, <4>1
      <3>3. CASE UpTo(n) # {}
        <4>1. PICK i \in UpTo(n) : \A j \in UpTo(n) : Later(i, j)
          BY <3>3
        <4>2. CASE Later(i, n + 1)
          <5>1. \A j \in UpTo(n + 1) : Later(i, j)
            BY <3>1, <4>1, <4>2
          <5>2. QED
            BY <2>1, <3>1, <4>1, <5>1
        <4>3. CASE ~Later(i, n + 1)
          <5>1. \A j \in UpTo(n + 1) : Later(n + 1, j)
            BY <1>1, <2>1, <2>3, <3>1, <4>1, <4>3
          <5>2. QED
            BY <2>1, <3>1, <5>1
        <4>4. QED
          BY <4>2, <4>3
      <3>4. QED
        BY <3>2, <3>3
    <2>4. QED
      BY <2>2, <2>3
  <1>4. N \in SUBSET Nat
    OBVIOUS
  <1>5. \A n \in Nat : n \in N
    <2> HIDE DEF N
    <2>1. QED
      BY <1>2, <1>3, <1>4, SetOfNaturalsInduction
  <1>6. UpTo(Len(subs)) = expired
    <2>1. \A i \in expired : i <= Len(subs)
      BY <1>1
    <2>2. QED
      BY <2>1
  <1>7. \E i \in expired : \A j \in expired : Later(i, j)
    <2>1. Len(subs) \in N
      BY <1>1, <1>5
    <2>2. \E i \in UpTo(Len(subs)) : \A j \in UpTo(Len(subs)) : Later(i, j)
      BY <1>6, <2>1
    <2>3. QED
      BY <1>6, <2>2
  <1>8. QED
    BY <1>7 DEF LastExpired

\* The maintenance task finds a group that is one.
LEMMA ExpiryGroup ==
  ASSUME SubscriptionOrdersAssumption, SubscriptionOrdersTypeOK
  PROVE  GroupAfterExpiry \in Groups \ {""}
  <1> DEFINE expired == {i \in Ids :
                           Upgrades(i) /\ (subs[i].status = "expired" \/ i \in DueRows)}
             last == LastExpired(expired)
  <1>1. group \in Groups \ {""} /\ expired \in SUBSET Ids
    BY DEF SubscriptionOrdersTypeOK
  <1>2. GroupAfterExpiry \in {group} \/ (expired # {} /\ subs[last].prev # ""
                                         /\ GroupAfterExpiry = subs[last].prev)
    BY DEF GroupAfterExpiry
  <1>3. expired # {} => subs[last].prev \in Groups \cup {""}
    <2> HIDE DEF expired
    <2>1. expired # {} => last \in Ids
      BY <1>1, LastExpiredExists
    <2>2. QED
      BY <2>1, RowsAre DEF SubType
  <1>4. QED
    BY <1>1, <1>2, <1>3

\* A subscription leaves its group for one that is one.
LEMMA LeftGroup ==
  ASSUME SubscriptionOrdersTypeOK, NEW i \in Ids
  PROVE  GroupWithout(i) \in Groups \ {""}
  BY RowsAre DEF GroupWithout, SubscriptionOrdersTypeOK, SubType

(***************************************************************************)
(* The wallet.                                                             *)
(***************************************************************************)

\* Multiples of a price.
LEMMA Multiples ==
  ASSUME NEW p \in Nat, NEW k \in Nat, NEW m \in Nat
  PROVE  /\ p * k \in Nat /\ p * (k + 1) = p * k + p
         /\ k <= m => p * k <= p * m
  <1>1. p * k \in Nat /\ p * (k + 1) = p * k + p
    OBVIOUS
  <1>2. ASSUME k <= m
        PROVE  p * k <= p * m
    <2>1. m - k \in Nat /\ m = k + (m - k)
      BY <1>2
    <2>2. p * (m - k) \in Nat
      BY <2>1
    <2>3. p * m = p * k + p * (m - k)
      BY <2>1
    <2>4. QED
      BY <1>1, <2>2, <2>3
  <1>3. QED
    BY <1>1, <1>2

\* The purchases that have seen enough are some of the handlers.
LEMMA AffordingCounts ==
  ASSUME SubscriptionOrdersAssumption
  PROVE  /\ IsFiniteSet(Affording) /\ Cardinality(Affording) \in Nat
         /\ Cardinality(OrderHandlers) \in Nat /\ Cardinality(OrderHandlers) - 1 \in Nat
         /\ Price \in Nat
         /\ \A h \in OrderHandlers \ Affording :
              Cardinality(Affording) <= Cardinality(OrderHandlers) - 1
  <1>1. IsFiniteSet(OrderHandlers) /\ OrderHandlers # {} /\ Price \in Nat
    BY DEF SubscriptionOrdersAssumption
  <1>2. Affording \in SUBSET OrderHandlers
    BY DEF Affording
  <1>3. /\ IsFiniteSet(Affording) /\ Cardinality(Affording) \in Nat
        /\ Cardinality(OrderHandlers) \in Nat /\ Cardinality(OrderHandlers) # 0
    BY <1>1, <1>2, FS_Subset, FS_CardinalityType, FS_EmptySet
  <1>4. ASSUME NEW h \in OrderHandlers \ Affording
        PROVE  Cardinality(Affording) <= Cardinality(OrderHandlers) - 1
    <2>1. /\ IsFiniteSet(OrderHandlers \ {h})
          /\ Cardinality(OrderHandlers \ {h}) = Cardinality(OrderHandlers) - 1
      BY <1>1, FS_RemoveElement
    <2>2. Affording \in SUBSET (OrderHandlers \ {h})
      BY <1>2
    <2>3. QED
      BY <2>1, <2>2, FS_Subset
  <1>5. QED
    BY <1>1, <1>3, <1>4

\* The wallet does not fall below what the handlers beside the first may take.
LEMMA OverdraftBounded ==
  ASSUME SubscriptionOrdersAssumption, SubscriptionOrdersTypeOK, WalletCovers
  PROVE  quota + Price * (Cardinality(OrderHandlers) - 1) >= 0
  <1>1. Price * Cardinality(Affording) \in Nat /\ quota \in Int
        /\ Price * (Cardinality(OrderHandlers) - 1) \in Nat
    BY AffordingCounts, Multiples DEF SubscriptionOrdersTypeOK
  <1>2. QED
    BY <1>1 DEF WalletCovers

\* A purchase that begins either finds too little or finds its price.
LEMMA CoverBegins ==
  ASSUME SubscriptionOrdersAssumption, SubscriptionOrdersTypeOK, WalletCovers,
         NEW h \in OrderHandlers, ~Buys(h), NEW t, BeginTx(h, t), quota' = quota,
         t.op = "purchase" => t.quota = quota
  PROVE  WalletCovers'
  <1> DEFINE N == Cardinality(OrderHandlers) - 1
             k == Cardinality(Affording)
  <1>1. /\ IsFiniteSet(Affording) /\ k \in Nat /\ N \in Nat /\ Price \in Nat
        /\ quota \in Int /\ h \notin Affording /\ k <= N
    BY AffordingCounts DEF Affording, SubscriptionOrdersTypeOK
  <1>2. tx'[h] = t /\ \A g \in OrderHandlers \ {h} : tx'[g] = tx[g]
    BY DEF BeginTx, SubscriptionOrdersTypeOK
  <1>3. CASE t.op = "purchase" /\ quota >= Price
    <2>1. Affording' = Affording \cup {h}
      BY <1>2, <1>3 DEF Affording, Buys
    <2>2. Cardinality(Affording') = k + 1
      BY <1>1, <2>1, FS_AddElement
    <2>3. /\ Price * (k + 1) = Price * k + Price /\ Price * k \in Nat
          /\ Price * k <= Price * N /\ Price * N \in Nat
      BY <1>1, Multiples
    <2>4. quota' + Price * N >= Price * (k + 1)
      <3> HIDE DEF k, N
      <3>1. QED
        BY <1>1, <1>3, <2>3
    <2>5. QED
      BY <2>2, <2>4 DEF WalletCovers
  <1>4. CASE ~(t.op = "purchase" /\ quota >= Price)
    <2>1. Affording' = Affording
      BY <1>1, <1>2, <1>4 DEF Affording, Buys
    <2>2. QED
      BY <2>1 DEF WalletCovers
  <1>5. QED
    BY <1>3, <1>4

\* A transaction that ends takes its price, or leaves the wallet.
LEMMA CoverEnds ==
  ASSUME SubscriptionOrdersAssumption, SubscriptionOrdersTypeOK, WalletCovers,
         NEW h \in OrderHandlers, EndTx(h),
         quota' = quota \/ (h \in Affording /\ quota' = quota - Price)
  PROVE  WalletCovers'
  <1> DEFINE N == Cardinality(OrderHandlers) - 1
             k == Cardinality(Affording)
  <1>1. /\ IsFiniteSet(Affording) /\ k \in Nat /\ N \in Nat /\ Price \in Nat
        /\ quota \in Int
    BY AffordingCounts DEF SubscriptionOrdersTypeOK
  <1>2. ~Buys(h)' /\ \A g \in OrderHandlers \ {h} : tx'[g] = tx[g]
    BY DEF EndTx, SubscriptionOrdersTypeOK, NoTx, Buys
  <1>3. Affording' = Affording \ {h}
    BY <1>2 DEF Affording, Buys
  <1>4. CASE h \notin Affording
    <2>1. Affording' = Affording
      BY <1>3, <1>4
    <2>2. QED
      BY <1>4, <2>1 DEF WalletCovers
  <1>5. CASE h \in Affording
    <2>1. Cardinality(Affording') = k - 1 /\ k - 1 \in Nat
      <3>1. Cardinality(Affording') = k - 1 /\ IsFiniteSet(Affording')
        BY <1>1, <1>3, <1>5, FS_RemoveElement
      <3>2. QED
        BY <3>1, FS_CardinalityType
    <2>2. Price * k = Price * (k - 1) + Price /\ Price * (k - 1) \in Nat
      <3>1. Price * ((k - 1) + 1) = Price * (k - 1) + Price /\ Price * (k - 1) \in Nat
        BY <1>1, <2>1, Multiples
      <3>2. (k - 1) + 1 = k
        BY <1>1
      <3>3. QED
        BY <3>1, <3>2
    <2>3. Price * N \in Nat
      BY <1>1, Multiples
    <2>4. quota + Price * N >= Price * k
      BY DEF WalletCovers
    <2>5. quota' + Price * N >= Price * (k - 1)
      <3> HIDE DEF k, N
      <3>1. QED
        BY <1>1, <2>2, <2>3, <2>4
    <2>6. QED
      BY <2>1, <2>5 DEF WalletCovers
  <1>6. QED
    BY <1>4, <1>5

(***************************************************************************)
(* The steps.                                                              *)
(***************************************************************************)

\* What a transaction in hand looks like.
LEMMA TxFacts ==
  ASSUME SubscriptionOrdersTypeOK, NEW h \in OrderHandlers
  PROVE  /\ tx[h] \in TxType /\ NoTx.op = "none"
         /\ OnOrder(h) => /\ tx[h].order \in PlanOrders /\ tx[h].status \in OrderStatuses
                          /\ tx[h].count \in Nat
         /\ Buys(h) => tx[h].plan \in Plans /\ tx[h].quota \in Int /\ tx[h].count \in Nat
         /\ ~(OnOrder(h) /\ Buys(h))
  <1>1. tx[h] \in TxType
    BY DEF SubscriptionOrdersTypeOK
  <1>2. QED
    BY <1>1 DEF TxType, NoTx, OnOrder, Buys

\* A step that leaves orders, transactions and the wallet alone and changes
\* rows in place.
LEMMA InPlaceKeeps ==
  ASSUME SubscriptionOrdersAssumption, SubscriptionInv, SamePayers,
         UNCHANGED <<quota, order, topup, tx>>, now' \in 0..MaxTime,
         group' \in Groups \ {""}, pass' \in PassType
  PROVE  SubscriptionInv'
  <1>1. SubscriptionOrdersTypeOK'
    BY DEF SubscriptionInv, SubscriptionOrdersTypeOK, SamePayers
  <1>2. \A h \in OrderHandlers : CallbackFits(h)'
    BY DEF SubscriptionInv, CallbackFits, OnOrder, SingleOrderNode
  <1>3. OrdersDelivered'
    BY PayersKept DEF SubscriptionInv
  <1>4. WalletPays' /\ WalletCovers'
    BY PayersKept DEF SubscriptionInv, WalletPays, WalletCovers, Affording, Buys
  <1>5. QED
    BY <1>1, <1>2, <1>3, <1>4 DEF SubscriptionInv

\* Cancelling, deleting and expiring subscriptions and the passing of time.
LEMMA QuietKeeps ==
  ASSUME SubscriptionOrdersAssumption, SubscriptionInv,
         \/ \E i \in Ids : AdminInvalidateUserSubscription(i) \/ AdminDeleteUserSubscription(i)
         \/ Maintenance \/ Tick \/ UNCHANGED subscriptionVars
  PROVE  SubscriptionInv'
  <1>1. /\ SubscriptionOrdersTypeOK /\ now \in 0..MaxTime /\ group \in Groups \ {""}
        /\ pass \in PassType /\ now \in Nat
    BY RowNumbers DEF SubscriptionInv, SubscriptionOrdersTypeOK
  <1>2. subs \in Seq(SubType) /\ (subs' = subs => SamePayers)
    BY <1>1 DEF SubscriptionOrdersTypeOK, SamePayers
  <1>3. ASSUME NEW i \in Ids, AdminInvalidateUserSubscription(i)
        PROVE  SubscriptionInv'
    <2> DEFINE v == [subs[i] EXCEPT !.status = "cancelled", !.end = now]
    <2>1. v \in SubType /\ v.paidBy = subs[i].paidBy
      BY <1>1, RowsAre DEF SubType
    <2>2. subs' = [subs EXCEPT ![i] = v]
      BY <1>1, <1>3, RowsAre DEF AdminInvalidateUserSubscription, SubType
    <2> HIDE DEF v
    <2>3. SamePayers
      BY <1>1, <2>1, <2>2, RowChanged
    <2>4. QED
      BY <1>1, <1>3, <2>3, LeftGroup, InPlaceKeeps DEF AdminInvalidateUserSubscription
  <1>4. ASSUME NEW i \in Ids, AdminDeleteUserSubscription(i)
        PROVE  SubscriptionInv'
    <2> DEFINE v == [subs[i] EXCEPT !.status = "deleted"]
    <2>1. v \in SubType /\ v.paidBy = subs[i].paidBy
      BY <1>1, RowsAre DEF SubType
    <2>2. subs' = [subs EXCEPT ![i] = v]
      BY <1>1, <1>4, RowsAre DEF AdminDeleteUserSubscription, SubType
    <2> HIDE DEF v
    <2>3. SamePayers
      BY <1>1, <2>1, <2>2, RowChanged
    <2>4. QED
      BY <1>1, <1>4, <2>3, LeftGroup, InPlaceKeeps DEF AdminDeleteUserSubscription
  <1>5. ASSUME ExpiryReads
        PROVE  SubscriptionInv'
    <2>1. DueRows \in SUBSET (1..MaxSubs)
      <3>1. \A i \in Ids : i \in 1..MaxSubs
        BY <1>1, RowNumbers
      <3>2. QED
        BY <3>1 DEF DueRows
    <2>2. pass' \in PassType
      BY <1>1, <1>5, <2>1, ExpiryGroup DEF ExpiryReads, PassType
    <2>3. QED
      BY <1>1, <1>2, <1>5, <2>2, InPlaceKeeps DEF ExpiryReads
  <1>6. ASSUME ExpireDueSubscriptions
        PROVE  SubscriptionInv'
    <2> DEFINE e(i) == IF i \in pass.rows /\ subs[i].status = "active"
                         THEN [subs[i] EXCEPT !.status = "expired"] ELSE subs[i]
    <2>1. \A i \in Ids : e(i) \in SubType /\ e(i).paidBy = subs[i].paidBy
      BY <1>1, RowsAre DEF SubType
    <2>2. subs' = [i \in 1..Len(subs) |-> e(i)]
      BY <1>1, <1>6, RowsAre DEF ExpireDueSubscriptions
    <2> HIDE DEF e
    <2>3. subs' \in [1..Len(subs) -> SubType] /\ Len(subs) \in Nat
      BY <1>1, <2>1, <2>2, RowsAre
    <2>4. SamePayers
      BY <1>1, <2>1, <2>2, <2>3, FunctionIsSeq, RowsAre DEF SamePayers
    <2>5. group' \in Groups \ {""} /\ pass' \in PassType
      <3>1. pass.open /\ pass' = NoPass /\ group' \in {group, pass.to}
        BY <1>6 DEF ExpireDueSubscriptions
      <3>2. pass # NoPass
        BY <3>1 DEF NoPass
      <3>3. pass.to \in Groups \ {""}
        BY <1>1, <3>2 DEF PassType
      <3>4. QED
        BY <1>1, <3>1, <3>3 DEF PassType
    <2>6. QED
      BY <1>1, <1>6, <2>4, <2>5, InPlaceKeeps DEF ExpireDueSubscriptions
  <1>7. ASSUME Tick
        PROVE  SubscriptionInv'
    <2>1. now' \in 0..MaxTime /\ UNCHANGED <<group, quota, subs, order, topup, tx, pass>>
      <3>1. /\ now < MaxTime /\ now' = now + 1
            /\ UNCHANGED <<group, quota, subs, order, topup, tx, pass>>
        BY <1>7 DEF Tick
      <3>2. now \in Nat /\ MaxTime \in Nat
        BY <1>1, RowNumbers
      <3>3. QED
        BY <3>1, <3>2
    <2>2. QED
      BY <1>1, <1>2, <2>1, InPlaceKeeps
  <1>8. ASSUME UNCHANGED subscriptionVars
        PROVE  SubscriptionInv'
    BY <1>1, <1>2, <1>8, InPlaceKeeps DEF subscriptionVars
  <1>9. QED
    BY <1>3, <1>4, <1>5, <1>6, <1>7, <1>8 DEF Maintenance

\* A new subscription and who paid for it.
LEMMA CreatedPayers ==
  ASSUME SubscriptionOrdersAssumption, SubscriptionOrdersTypeOK, NEW p \in Plans,
         NEW source \in PlanOrders \cup {"admin", "balance"},
         CreateUserSubscriptionFromPlan(p, source), order' \in [PlanOrders -> OrderStatuses]
  PROVE  /\ source # "balance" => Bought' = Bought
         /\ source = "balance" => Cardinality(Bought') = Cardinality(Bought) + 1
         /\ (/\ OrdersDelivered /\ source \notin PlanOrders
             /\ order' = order /\ topup' = topup) => OrdersDelivered'
         /\ (/\ OrdersDelivered /\ source \in PlanOrders \ topup
             /\ order' = [order EXCEPT ![source] = "success"]
             /\ topup' = topup \cup {source}) => OrdersDelivered'
  <1> DEFINE n == Len(subs) + 1
  <1>1. /\ Ids' = Ids \cup {n} /\ n \notin Ids
        /\ \A i \in Ids : subs'[i] = subs[i]
        /\ subs'[n].paidBy = source
    BY RowCreated
  <1> HIDE DEF n
  <1>2. ASSUME source # "balance"
        PROVE  Bought' = Bought
    BY <1>1, <1>2 DEF Bought
  <1>3. ASSUME source = "balance"
        PROVE  Cardinality(Bought') = Cardinality(Bought) + 1
    <2>1. Bought' = Bought \cup {n} /\ n \notin Bought
      BY <1>1, <1>3 DEF Bought
    <2>2. IsFiniteSet(Bought)
      <3>1. Bought \in SUBSET Ids
        BY DEF Bought
      <3>2. QED
        BY <3>1, RowsAre, FS_Subset
    <2>3. QED
      BY <2>1, <2>2, FS_AddElement
  <1>4. ASSUME OrdersDelivered, source \notin PlanOrders, order' = order, topup' = topup
        PROVE  OrdersDelivered'
    BY <1>1, <1>4 DEF OrdersDelivered, SingleOrderNode
  <1>5. ASSUME OrdersDelivered, source \in PlanOrders \ topup,
               order' = [order EXCEPT ![source] = "success"], topup' = topup \cup {source}
        PROVE  OrdersDelivered'
    <2>1. order \in [PlanOrders -> OrderStatuses]
      BY DEF SubscriptionOrdersTypeOK
    <2>2. \A i \in Ids : subs[i].paidBy # source
      BY <1>5 DEF OrdersDelivered
    <2>3. ASSUME NEW i \in Ids', NEW j \in Ids',
                 subs'[i].paidBy \in PlanOrders, subs'[i].paidBy = subs'[j].paidBy
          PROVE  i = j
      BY <1>1, <1>5, <2>2, <2>3 DEF OrdersDelivered
    <2>4. ASSUME NEW i \in Ids', subs'[i].paidBy \in PlanOrders
          PROVE  /\ subs'[i].paidBy \in topup'
                 /\ SingleOrderNode => order'[subs'[i].paidBy] = "success"
      <3>1. CASE i = n
        BY <1>1, <1>5, <2>1, <3>1
      <3>2. CASE i # n
        BY <1>1, <1>5, <2>1, <2>2, <2>4, <3>2 DEF OrdersDelivered
      <3>3. QED
        BY <3>1, <3>2
    <2>5. ASSUME NEW o \in PlanOrders, order'[o] = "success"
          PROVE  \E i \in Ids' : subs'[i].paidBy = o
      <3>1. CASE o = source
        BY <1>1, <3>1
      <3>2. CASE o # source
        BY <1>1, <1>5, <2>1, <2>5, <3>2 DEF OrdersDelivered
      <3>3. QED
        BY <3>1, <3>2
    <2>6. QED
      BY <2>3, <2>4, <2>5 DEF OrdersDelivered, SingleOrderNode
  <1>6. QED
    BY <1>2, <1>3, <1>4, <1>5

\* Opening an order keeps the invariant.
LEMMA SubscriptionRequestKeeps ==
  ASSUME SubscriptionOrdersAssumption, SubscriptionInv, NEW o \in PlanOrders,
         SubscriptionRequest(o)
  PROVE  SubscriptionInv'
  <1>1. /\ SubscriptionOrdersTypeOK /\ order[o] = "none"
        /\ order' = [order EXCEPT ![o] = "pending"]
        /\ UNCHANGED <<now, group, quota, subs, topup, tx, pass>>
    BY DEF SubscriptionInv, SubscriptionRequest
  <1>2. order \in [PlanOrders -> OrderStatuses] /\ order' \in [PlanOrders -> OrderStatuses]
    BY <1>1 DEF SubscriptionOrdersTypeOK, OrderStatuses
  <1>3. SubscriptionOrdersTypeOK'
    BY <1>1, <1>2 DEF SubscriptionOrdersTypeOK
  <1>4. ASSUME NEW h \in OrderHandlers
        PROVE  CallbackFits(h)'
    <2>1. CallbackFits(h)
      BY DEF SubscriptionInv
    <2>2. QED
      BY <1>1, <1>2, <2>1, TxFacts DEF CallbackFits, OnOrder, SingleOrderNode
  <1>5. OrdersDelivered'
    <2>1. \A q \in PlanOrders : order'[q] = "success" <=> order[q] = "success"
      BY <1>1, <1>2
    <2>2. QED
      BY <1>1, <2>1, PayersKept
         DEF SubscriptionInv, SamePayers, SubscriptionOrdersTypeOK
  <1>6. WalletPays' /\ WalletCovers'
    BY <1>1 DEF SubscriptionInv, WalletPays, Bought, Ids, WalletCovers, Affording, Buys
  <1>7. QED
    BY <1>3, <1>4, <1>5, <1>6 DEF SubscriptionInv

\* Beginning a transaction leaves the rows alone.
LEMMA BegunKeeps ==
  ASSUME SubscriptionOrdersAssumption, SubscriptionInv, NEW h \in OrderHandlers,
         NEW t \in TxType, BeginTx(h, t),
         UNCHANGED <<now, group, quota, subs, order, topup, pass>>,
         ~Buys(h), t.op = "purchase" => t.quota = quota,
         \A g \in OrderHandlers : CallbackFits(g)'
  PROVE  SubscriptionInv'
  <1>1. SubscriptionOrdersTypeOK'
    BY DEF SubscriptionInv, SubscriptionOrdersTypeOK, BeginTx
  <1>2. OrdersDelivered'
    BY DEF SubscriptionInv, OrdersDelivered, Ids, SingleOrderNode
  <1>3. WalletPays' /\ WalletCovers'
    BY CoverBegins DEF SubscriptionInv, WalletPays, Bought, Ids
  <1>4. QED
    BY <1>1, <1>2, <1>3 DEF SubscriptionInv

\* A count of rows is a number.
LEMMA CountIsNat ==
  ASSUME SubscriptionOrdersTypeOK, NEW p
  PROVE  CountUserSubscriptionsByPlan(p) \in Nat
  <1>1. {i \in Ids : subs[i].plan = p /\ subs[i].status # "deleted"} \in SUBSET Ids
    OBVIOUS
  <1>2. QED
    BY <1>1, RowsAre, FS_Subset, FS_CardinalityType DEF CountUserSubscriptionsByPlan

\* A callback begins alone with its order.
LEMMA BeginCallbackKeeps ==
  ASSUME SubscriptionOrdersAssumption, SubscriptionInv, NEW h \in OrderHandlers,
         NEW o \in PlanOrders, NEW op \in {"complete", "expire"}, BeginCallback(h, o, op)
  PROVE  SubscriptionInv'
  <1> DEFINE t == [op |-> op, order |-> o, status |-> order[o],
                   count |-> CountUserSubscriptionsByPlan(PlanOf[o])]
  <1>1. /\ SubscriptionOrdersTypeOK /\ tx \in [OrderHandlers -> TxType]
        /\ order[o] \in OrderStatuses
    BY DEF SubscriptionInv, SubscriptionOrdersTypeOK
  <1>2. /\ order[o] # "none" /\ ~SubscriptionLocked(h, o) /\ BeginTx(h, t)
        /\ UNCHANGED <<now, group, quota, subs, order, topup, pass>> /\ ~Buys(h)
    BY DEF BeginCallback, NoneOpen, NoTx, Buys
  <1>3. /\ t \in TxType /\ t.op \in {"complete", "expire"} /\ t.op # "purchase"
        /\ t.order = o /\ t.status = order[o]
    BY <1>1, CountIsNat DEF TxType
  <1> HIDE DEF t
  <1>4. tx'[h] = t /\ \A g \in OrderHandlers \ {h} : tx'[g] = tx[g]
    BY <1>1, <1>2 DEF BeginTx
  <1>5. ASSUME NEW g \in OrderHandlers
        PROVE  CallbackFits(g)'
    <2>1. CallbackFits(g)
      BY DEF SubscriptionInv
    <2>2. CASE g = h
      <3>1. ASSUME SingleOrderNode, NEW f \in OrderHandlers \ {h}, OnOrder(f)
            PROVE  tx[f].order # o
        BY <1>2, <3>1 DEF SubscriptionLocked, SingleOrderNode, OnOrder
      <3>2. QED
        BY <1>2, <1>3, <1>4, <2>2, <3>1 DEF CallbackFits, OnOrder, SingleOrderNode
    <2>3. CASE g # h
      <3>1. ASSUME SingleOrderNode, OnOrder(g)
            PROVE  tx[g].order # o
        BY <1>2, <2>3, <3>1 DEF SubscriptionLocked, SingleOrderNode, OnOrder
      <3>2. QED
        BY <1>2, <1>3, <1>4, <2>1, <2>3, <3>1 DEF CallbackFits, OnOrder, SingleOrderNode
    <2>4. QED
      BY <2>2, <2>3
  <1>6. QED
    BY <1>2, <1>3, <1>5, BegunKeeps

\* A purchase reads the wallet, beside others.
LEMMA BeginPurchaseKeeps ==
  ASSUME SubscriptionOrdersAssumption, SubscriptionInv, NEW h \in OrderHandlers,
         NEW p \in Plans, BeginPurchase(h, p)
  PROVE  SubscriptionInv'
  <1> DEFINE t == [op |-> "purchase", plan |-> p, quota |-> quota,
                   count |-> CountUserSubscriptionsByPlan(p)]
  <1>1. /\ SubscriptionOrdersTypeOK /\ tx \in [OrderHandlers -> TxType] /\ quota \in Int
    BY DEF SubscriptionInv, SubscriptionOrdersTypeOK
  <1>2. /\ BeginTx(h, t) /\ ~Buys(h)
        /\ UNCHANGED <<now, group, quota, subs, order, topup, pass>>
    BY DEF BeginPurchase, NoneOpen, NoTx, Buys
  <1>3. t \in TxType /\ t.op = "purchase" /\ t.quota = quota
    BY <1>1, CountIsNat DEF TxType
  <1> HIDE DEF t
  <1>4. tx'[h] = t /\ \A g \in OrderHandlers \ {h} : tx'[g] = tx[g]
    BY <1>1, <1>2 DEF BeginTx
  <1>5. ASSUME NEW g \in OrderHandlers
        PROVE  CallbackFits(g)'
    <2>1. CallbackFits(g)
      BY DEF SubscriptionInv
    <2>2. QED
      BY <1>2, <1>3, <1>4, <2>1 DEF CallbackFits, OnOrder, SingleOrderNode
  <1>6. QED
    BY <1>2, <1>3, <1>5, BegunKeeps

\* The end of a transaction: only its own order changed.
LEMMA EndedKeeps ==
  ASSUME SubscriptionInv, NEW h \in OrderHandlers, EndTx(h),
         order' \in [PlanOrders -> OrderStatuses],
         \A o \in PlanOrders : order'[o] # order[o] =>
           OnOrder(h) /\ tx[h].order = o /\ order'[o] # "none"
  PROVE  /\ tx' \in [OrderHandlers -> TxType]
         /\ \A g \in OrderHandlers : CallbackFits(g)'
  <1>1. /\ SubscriptionOrdersTypeOK /\ tx \in [OrderHandlers -> TxType]
        /\ tx' = [tx EXCEPT ![h] = NoTx]
    BY DEF SubscriptionInv, SubscriptionOrdersTypeOK, EndTx
  <1>2. tx'[h] = NoTx /\ NoTx.op = "none" /\ \A g \in OrderHandlers \ {h} : tx'[g] = tx[g]
    BY <1>1 DEF NoTx
  <1>3. tx' \in [OrderHandlers -> TxType]
    BY <1>1 DEF TxType
  <1>4. ASSUME NEW g \in OrderHandlers
        PROVE  CallbackFits(g)'
    <2>1. CallbackFits(g) /\ CallbackFits(h)
      BY DEF SubscriptionInv
    <2>2. CASE g = h
      BY <1>2, <2>2 DEF CallbackFits, OnOrder
    <2>3. CASE g # h
      <3>1. tx'[g] = tx[g] /\ (OnOrder(g) => tx[g].order \in PlanOrders)
        BY <1>1, <1>2, <2>3, TxFacts
      <3>2. ASSUME OnOrder(g)
            PROVE  /\ order'[tx[g].order] # "none"
                   /\ SingleOrderNode => order'[tx[g].order] = order[tx[g].order]
        BY <2>1, <2>3, <3>1, <3>2 DEF CallbackFits
      <3>3. \A f \in OrderHandlers : OnOrder(f)' => OnOrder(f) /\ tx'[f] = tx[f]
        BY <1>2 DEF OnOrder
      <3>4. QED
        BY <2>1, <3>1, <3>2, <3>3 DEF CallbackFits, SingleOrderNode
    <2>4. QED
      BY <2>2, <2>3
  <1>5. QED
    BY <1>3, <1>4

\* A successful callback gives the order's subscription, once.
LEMMA CompleteKeeps ==
  ASSUME SubscriptionOrdersAssumption, SubscriptionInv, NEW h \in OrderHandlers,
         CompleteSubscriptionOrder(h)
  PROVE  SubscriptionInv'
  <1> DEFINE o == tx[h].order
             p == PlanOf[o]
  <1>1. /\ SubscriptionOrdersTypeOK /\ tx[h].op = "complete" /\ OnOrder(h)
        /\ EndTx(h) /\ UNCHANGED <<now, quota, pass>>
    BY DEF SubscriptionInv, CompleteSubscriptionOrder, OnOrder
  <1>2. o \in PlanOrders /\ p \in Plans /\ CallbackFits(h)
    BY <1>1, TxFacts DEF SubscriptionInv, SubscriptionOrdersAssumption
  <1>3. order \in [PlanOrders -> OrderStatuses]
    BY <1>1 DEF SubscriptionOrdersTypeOK
  <1>4. CASE /\ o \notin topup /\ CreateUserSubscriptionFromPlan(p, o)
             /\ topup' = topup \cup {o} /\ order' = [order EXCEPT ![o] = "success"]
    <2>1. /\ order' \in [PlanOrders -> OrderStatuses]
          /\ \A q \in PlanOrders : order'[q] # order[q] =>
               OnOrder(h) /\ tx[h].order = q /\ order'[q] # "none"
      BY <1>1, <1>2, <1>3, <1>4 DEF OrderStatuses
    <2>2. /\ tx' \in [OrderHandlers -> TxType]
          /\ \A g \in OrderHandlers : CallbackFits(g)'
      BY <1>1, <2>1, EndedKeeps
    <2>3. SubscriptionOrdersTypeOK'
      BY <1>1, <1>2, <1>4, <2>1, <2>2, RowCreated DEF SubscriptionOrdersTypeOK
    <2>4. o # "balance" /\ o \in PlanOrders \cup {"admin", "balance"}
      BY <1>2 DEF SubscriptionOrdersAssumption
    <2>5. OrdersDelivered'
      BY <1>1, <1>2, <1>4, <2>1, <2>4, CreatedPayers DEF SubscriptionInv
    <2>6. WalletPays' /\ WalletCovers'
      <3>1. Bought' = Bought
        BY <1>1, <1>2, <1>4, <2>1, <2>4, CreatedPayers
      <3>2. QED
        BY <1>1, <3>1, CoverEnds DEF SubscriptionInv, WalletPays
    <2>7. QED
      BY <2>2, <2>3, <2>5, <2>6 DEF SubscriptionInv
  <1>5. CASE UNCHANGED <<group, subs, topup, order>>
    <2>1. /\ tx' \in [OrderHandlers -> TxType]
          /\ \A g \in OrderHandlers : CallbackFits(g)'
      BY <1>1, <1>3, <1>5, EndedKeeps
    <2>2. SubscriptionOrdersTypeOK'
      BY <1>1, <1>5, <2>1 DEF SubscriptionOrdersTypeOK
    <2>3. OrdersDelivered' /\ WalletPays' /\ WalletCovers'
      BY <1>1, <1>5, CoverEnds DEF SubscriptionInv, OrdersDelivered, WalletPays, Bought, Ids,
                                   SingleOrderNode
    <2>4. QED
      BY <2>1, <2>2, <2>3 DEF SubscriptionInv
  <1>6. QED
    BY <1>4, <1>5 DEF CompleteSubscriptionOrder, TradeNoFree

\* Expiring an order closes one that is still pending.
LEMMA ExpireKeeps ==
  ASSUME SubscriptionOrdersAssumption, SubscriptionInv, NEW h \in OrderHandlers,
         ExpireSubscriptionOrder(h)
  PROVE  SubscriptionInv'
  <1> DEFINE o == tx[h].order
  <1>1. /\ SubscriptionOrdersTypeOK /\ OnOrder(h) /\ EndTx(h)
        /\ order' = [order EXCEPT ![o] = IF tx[h].status = "pending" THEN "expired"
                                         ELSE order[o]]
        /\ UNCHANGED <<now, group, quota, subs, topup, pass>>
    BY DEF SubscriptionInv, ExpireSubscriptionOrder, OnOrder, CanExpire
  <1>2. o \in PlanOrders /\ CallbackFits(h) /\ order \in [PlanOrders -> OrderStatuses]
    BY <1>1, TxFacts DEF SubscriptionInv, SubscriptionOrdersTypeOK
  <1>3. /\ order' \in [PlanOrders -> OrderStatuses]
        /\ \A q \in PlanOrders : order'[q] # order[q] =>
             OnOrder(h) /\ tx[h].order = q /\ order'[q] # "none"
    BY <1>1, <1>2 DEF OrderStatuses
  <1>4. /\ tx' \in [OrderHandlers -> TxType]
        /\ \A g \in OrderHandlers : CallbackFits(g)'
    BY <1>1, <1>3, EndedKeeps
  <1>5. SubscriptionOrdersTypeOK'
    BY <1>1, <1>3, <1>4 DEF SubscriptionOrdersTypeOK
  <1>6. OrdersDelivered'
    <2>1. /\ \A q \in PlanOrders : order'[q] = "success" => order[q] = "success"
          /\ SingleOrderNode =>
               \A q \in PlanOrders : order[q] = "success" => order'[q] = "success"
      BY <1>1, <1>2 DEF CallbackFits
    <2>2. QED
      BY <1>1, <2>1 DEF SubscriptionInv, OrdersDelivered, Ids, SingleOrderNode
  <1>7. WalletPays' /\ WalletCovers'
    BY <1>1, CoverEnds DEF SubscriptionInv, WalletPays, Bought, Ids
  <1>8. QED
    BY <1>4, <1>5, <1>6, <1>7 DEF SubscriptionInv

\* An administrator's gift is nobody's payment.
LEMMA AdminBindKeeps ==
  ASSUME SubscriptionOrdersAssumption, SubscriptionInv, NEW p \in Plans,
         AdminBindSubscription(p)
  PROVE  SubscriptionInv'
  <1>1. /\ SubscriptionOrdersTypeOK /\ CreateUserSubscriptionFromPlan(p, "admin")
        /\ UNCHANGED <<now, quota, order, topup, tx, pass>>
    BY DEF SubscriptionInv, AdminBindSubscription
  <1>2. /\ order' \in [PlanOrders -> OrderStatuses] /\ "admin" \notin PlanOrders
        /\ "admin" \in PlanOrders \cup {"admin", "balance"}
    BY <1>1 DEF SubscriptionOrdersTypeOK, SubscriptionOrdersAssumption
  <1>3. SubscriptionOrdersTypeOK'
    BY <1>1, <1>2, RowCreated DEF SubscriptionOrdersTypeOK
  <1>4. Bought' = Bought /\ (OrdersDelivered => OrdersDelivered')
    BY <1>1, <1>2, CreatedPayers
  <1>5. \A h \in OrderHandlers : CallbackFits(h)'
    BY <1>1 DEF SubscriptionInv, CallbackFits, OnOrder, SingleOrderNode
  <1>6. QED
    BY <1>1, <1>3, <1>4, <1>5
       DEF SubscriptionInv, WalletPays, WalletCovers, Affording, Buys

\* A purchase from the wallet is paid.
LEMMA PurchaseKeeps ==
  ASSUME SubscriptionOrdersAssumption, SubscriptionInv, NEW h \in OrderHandlers,
         PurchaseSubscriptionWithBalance(h)
  PROVE  SubscriptionInv'
  <1> DEFINE p == tx[h].plan
  <1>1. /\ SubscriptionOrdersTypeOK /\ Buys(h) /\ EndTx(h)
        /\ UNCHANGED <<now, order, topup, pass>>
    BY DEF SubscriptionInv, PurchaseSubscriptionWithBalance, Buys
  <1>2. /\ p \in Plans /\ order' \in [PlanOrders -> OrderStatuses]
        /\ "balance" \notin PlanOrders /\ "balance" \in PlanOrders \cup {"admin", "balance"}
    BY <1>1, TxFacts DEF SubscriptionInv, SubscriptionOrdersTypeOK, SubscriptionOrdersAssumption
  <1>3. Price \in Nat /\ quota \in Int /\ tx[h].quota \in Int /\ OpeningQuota \in Nat
    BY <1>1, TxFacts DEF SubscriptionOrdersTypeOK, SubscriptionOrdersAssumption
  <1>4. /\ tx' \in [OrderHandlers -> TxType]
        /\ \A g \in OrderHandlers : CallbackFits(g)'
    BY <1>1, <1>2, EndedKeeps
  <1>5. CASE /\ tx[h].quota >= Price /\ CreateUserSubscriptionFromPlan(p, "balance")
             /\ quota' = quota - Price
    <2>1. quota' \in Int
      BY <1>3, <1>5
    <2>2. SubscriptionOrdersTypeOK'
      BY <1>1, <1>2, <1>4, <1>5, <2>1, RowCreated DEF SubscriptionOrdersTypeOK
    <2>3. /\ Cardinality(Bought') = Cardinality(Bought) + 1
          /\ OrdersDelivered => OrdersDelivered'
      BY <1>1, <1>2, <1>5, CreatedPayers
    <2>4. WalletPays'
      <3>1. Cardinality(Bought) \in Nat
        <4>1. Bought \in SUBSET Ids
          BY DEF Bought
        <4>2. QED
          BY <1>1, <4>1, RowsAre, FS_Subset, FS_CardinalityType
      <3>2. quota = OpeningQuota - Price * Cardinality(Bought)
        BY DEF SubscriptionInv, WalletPays
      <3>3. Price * (Cardinality(Bought) + 1) = Price * Cardinality(Bought) + Price
        BY <1>3, <3>1
      <3>4. Price * Cardinality(Bought) \in Int
        BY <1>3, <3>1
      <3>5. quota' = OpeningQuota - Price * (Cardinality(Bought) + 1)
        BY <1>3, <1>5, <3>2, <3>3, <3>4
      <3>6. QED
        BY <2>3, <3>5 DEF WalletPays
    <2>5. WalletCovers'
      BY <1>1, <1>5, CoverEnds DEF SubscriptionInv, Affording
    <2>6. QED
      BY <1>4, <2>2, <2>3, <2>4, <2>5 DEF SubscriptionInv
  <1>6. CASE UNCHANGED <<group, subs, quota>>
    <2>1. SubscriptionOrdersTypeOK'
      BY <1>1, <1>4, <1>6 DEF SubscriptionOrdersTypeOK
    <2>2. OrdersDelivered' /\ WalletPays' /\ WalletCovers'
      BY <1>1, <1>6, CoverEnds DEF SubscriptionInv, OrdersDelivered, WalletPays, Bought, Ids,
                                   SingleOrderNode
    <2>3. QED
      BY <1>4, <2>1, <2>2 DEF SubscriptionInv
  <1>7. QED
    BY <1>5, <1>6 DEF PurchaseSubscriptionWithBalance, Affordable

\* Nothing has been sold at the start.
LEMMA SubscriptionsStart ==
  ASSUME SubscriptionOrdersAssumption, SubscriptionInit
  PROVE  SubscriptionInv
  <1>1. /\ now = 0 /\ group = BaseGroup /\ quota = OpeningQuota /\ subs = <<>>
        /\ order = [o \in PlanOrders |-> "none"] /\ topup = {}
        /\ tx = [h \in OrderHandlers |-> NoTx] /\ pass = NoPass
    BY DEF SubscriptionInit
  <1>2. MaxTime \in Nat /\ MaxSubs \in Nat /\ OpeningQuota \in Nat /\ Price \in Nat
    BY DEF SubscriptionOrdersAssumption
  <1>3. Len(subs) = 0 /\ subs \in Seq(SubType) /\ Ids = {}
    BY <1>1 DEF Ids
  <1>4. SubscriptionOrdersTypeOK
    <2>1. now \in 0..MaxTime /\ quota \in Int /\ Len(subs) <= MaxSubs
      BY <1>1, <1>2, <1>3
    <2>2. group \in Groups \ {""}
      BY <1>1 DEF Groups, BaseGroup
    <2>3. order \in [PlanOrders -> OrderStatuses]
      BY <1>1 DEF OrderStatuses
    <2>4. tx \in [OrderHandlers -> TxType] /\ pass \in PassType
      BY <1>1 DEF TxType, PassType
    <2>5. QED
      BY <1>1, <1>3, <2>1, <2>2, <2>3, <2>4 DEF SubscriptionOrdersTypeOK
  <1>5. \A h \in OrderHandlers : CallbackFits(h)
    BY <1>1 DEF CallbackFits, OnOrder, NoTx
  <1>6. OrdersDelivered
    BY <1>1, <1>3 DEF OrdersDelivered
  <1>7. Cardinality(Bought) = 0
    BY <1>3, FS_EmptySet DEF Bought
  <1>8. WalletPays /\ WalletCovers
    <2>1. Price * 0 = 0
      BY <1>2
    <2>2. Affording = {}
      BY <1>1 DEF Affording, Buys, NoTx
    <2>3. Cardinality(Affording) = 0 /\ Price * (Cardinality(OrderHandlers) - 1) \in Nat
      BY <2>2, AffordingCounts, Multiples, FS_EmptySet
    <2>4. QED
      BY <1>1, <1>2, <1>7, <2>1, <2>3 DEF WalletPays, WalletCovers
  <1>9. QED
    BY <1>4, <1>5, <1>6, <1>8 DEF SubscriptionInv

\* Every step keeps the invariant.
LEMMA SubscriptionInvKept ==
  ASSUME SubscriptionOrdersAssumption, SubscriptionInv,
         [SubscriptionNext]_subscriptionVars
  PROVE  SubscriptionInv'
  BY QuietKeeps, SubscriptionRequestKeeps, BeginCallbackKeeps, CompleteKeeps, ExpireKeeps,
     BeginPurchaseKeeps, PurchaseKeeps, AdminBindKeeps DEF SubscriptionNext

\* The invariant holds in every reachable state.
LEMMA SubscriptionInvHolds ==
  ASSUME SubscriptionOrdersAssumption
  PROVE  SubscriptionSpec => []SubscriptionInv
  BY SubscriptionsStart, SubscriptionInvKept, PTL DEF SubscriptionSpec

\* The rows of subscriptions and orders, the user's group and the open
\* transactions keep their types, whoever changes them.
THEOREM SubscriptionsStayTyped ==
  ASSUME SubscriptionOrdersAssumption
  PROVE  SubscriptionSpec => []SubscriptionOrdersTypeOK
  <1>1. SubscriptionInv => SubscriptionOrdersTypeOK
    BY DEF SubscriptionInv
  <1>2. QED
    BY <1>1, SubscriptionInvHolds, PTL

\* What an order has given, as the property counts it.
LEMMA DeliveredOnce ==
  ASSUME SubscriptionOrdersTypeOK, OrdersDelivered
  PROVE  OrderDeliveredOnce
  <1>1. ASSUME NEW o \in PlanOrders
        PROVE  /\ Cardinality({i \in Ids : subs[i].paidBy = o}) <= 1
               /\ order[o] = "success" => {i \in Ids : subs[i].paidBy = o} # {}
               /\ SingleOrderNode /\ {i \in Ids : subs[i].paidBy = o} # {} => order[o] = "success"
    <2> DEFINE given == {i \in Ids : subs[i].paidBy = o}
    <2>1. /\ order[o] = "success" => given # {}
          /\ SingleOrderNode /\ given # {} => order[o] = "success"
      BY DEF OrdersDelivered
    <2>2. given = {} \/ \E i \in Ids : given = {i}
      BY DEF OrdersDelivered
    <2>3. Cardinality(given) <= 1
      <3>1. CASE given = {}
        BY <3>1, FS_EmptySet
      <3>2. CASE \E i \in Ids : given = {i}
        <4> HIDE DEF given
        <4>1. PICK i \in Ids : given = {i}
          BY <3>2
        <4>2. Cardinality({i}) = 1
          BY FS_Singleton
        <4>3. QED
          BY <4>1, <4>2
      <3>3. QED
        BY <2>2, <3>1, <3>2
    <2>4. QED
      BY <2>1, <2>3
  <1>2. QED
    BY <1>1 DEF OrderDeliveredOnce

\* CompleteSubscriptionOrder, however often and on however many nodes the
\* callbacks of an order run: it gives at most one subscription, which the unique
\* trade number of its top-up row guards; a success gave one, and on one node, by
\* LockOrder, what gave one is a success.
THEOREM SubscriptionsAreDeliveredOnce ==
  ASSUME SubscriptionOrdersAssumption
  PROVE  SubscriptionSpec => []OrderDeliveredOnce
  <1>1. SubscriptionInv => OrderDeliveredOnce
    BY DeliveredOnce DEF SubscriptionInv
  <1>2. QED
    BY <1>1, SubscriptionInvHolds, PTL

\* Purchases from the wallet beside the callbacks are paid for as well, and
\* overdraw it by no more than those that run at the same time
\* (PurchaseSubscriptionWithBalance).
THEOREM SubscriptionsArePaidOnce ==
  ASSUME SubscriptionOrdersAssumption
  PROVE  SubscriptionSpec => []SubscriptionsPaidOnce
  <1>1. SubscriptionInv => SubscriptionsPaidOnce
    BY DeliveredOnce, OverdraftBounded
       DEF SubscriptionInv, WalletPays, Bought, SubscriptionsPaidOnce, PurchasesPaid
  <1>2. QED
    BY <1>1, SubscriptionInvHolds, PTL

\* On one node a completed or expired order stays what it is: a late expiry
\* takes no paid subscription's order back.
THEOREM SubscriptionOrdersStayFinal ==
  ASSUME SubscriptionOrdersAssumption
  PROVE  SubscriptionSpec => OrderFinal
  <1> DEFINE Kept == \A o \in PlanOrders :
                       SingleOrderNode /\ order[o] \in {"success", "expired"}
                         => order'[o] = order[o]
  <1>1. ASSUME SubscriptionInv, SubscriptionNext, SingleOrderNode
        PROVE  Kept
    <2>1. order \in [PlanOrders -> OrderStatuses]
      BY <1>1 DEF SubscriptionInv, SubscriptionOrdersTypeOK
    <2>2. ASSUME NEW o \in PlanOrders, SubscriptionRequest(o)
          PROVE  Kept
      BY <2>1, <2>2 DEF SubscriptionRequest
    <2>3. ASSUME NEW h \in OrderHandlers,
                 CompleteSubscriptionOrder(h) \/ ExpireSubscriptionOrder(h)
          PROVE  Kept
      <3>1. OnOrder(h)
        BY <2>3 DEF CompleteSubscriptionOrder, ExpireSubscriptionOrder, OnOrder
      <3>2. tx[h].status = order[tx[h].order]
        BY <1>1, <3>1 DEF SubscriptionInv, CallbackFits
      <3>3. \/ order' = order
            \/ /\ order[tx[h].order] = "pending"
               /\ \E new \in {"success", "expired"} :
                    order' = [order EXCEPT ![tx[h].order] = new]
        BY <2>1, <2>3, <3>2 DEF CompleteSubscriptionOrder, ExpireSubscriptionOrder, CanExpire
      <3>4. QED
        BY <2>1, <3>3
    <2>4. ASSUME order' = order
          PROVE  Kept
      BY <2>4
    <2>5. QED
      BY <1>1, <2>2, <2>3, <2>4
         DEF SubscriptionNext, BeginCallback, BeginPurchase, PurchaseSubscriptionWithBalance,
             AdminBindSubscription, AdminInvalidateUserSubscription,
             AdminDeleteUserSubscription, Maintenance, ExpiryReads, ExpireDueSubscriptions, Tick
  <1>2. SubscriptionInv /\ [SubscriptionNext]_subscriptionVars => [Kept]_subscriptionVars
    <2>1. ~SingleOrderNode => Kept
      OBVIOUS
    <2>2. QED
      BY <1>1, <2>1
  <1>3. QED
    BY <1>2, SubscriptionInvHolds, PTL DEF SubscriptionSpec, OrderFinal
===============================================================================
