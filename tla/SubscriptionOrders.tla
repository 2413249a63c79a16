-------------------------- MODULE SubscriptionOrders --------------------------
(***************************************************************************)
(* How a user's subscriptions come and go (model/subscription.go): paid    *)
(* orders completed or expired by provider callbacks, purchases from the   *)
(* wallet, administrative binding, cancellation and deletion, expiry by    *)
(* the maintenance task, and the user group each of these may change.      *)
(*                                                                         *)
(* Callbacks hold LockOrder (controller/topup.go, module OrderLock), which *)
(* excludes the other callbacks of the order on the same node.  The        *)
(* transactions ask for the rows' locks through Set("gorm:query_option",   *)
(* "FOR UPDATE"), which GORM 2 ignores.  A transaction is therefore a      *)
(* reading step, which fixes MySQL's snapshot (REPEATABLE READ), and a     *)
(* committing step that saves the row as a whole whatever it has become;   *)
(* only a unique key refuses it.                                           *)
(***************************************************************************)
EXTENDS Integers, Sequences, FiniteSets

CONSTANTS PlanOrders,      \* the paid orders of one user
          PlanOf,          \* the plan of each order
          Plans,           \* the plans the wallet or an administrator may use too
          UpgradeGroup,    \* the group of each plan, "" for none
          Duration,        \* the length of each plan
          MaxPurchase,     \* MaxPurchasePerUser of each plan, 0 for no limit
          Price,           \* the wallet price of a plan
          OrderHandlers,   \* concurrent callbacks and console requests
          HandlerNode,     \* the node each of them runs on
          OpeningQuota,    \* the wallet to start with
          MaxTime, MaxSubs \* bounds

SubscriptionOrdersAssumption ==
  /\ PlanOf \in [PlanOrders -> Plans] /\ PlanOrders \cap {"admin", "balance"} = {}
  /\ Duration \in [Plans -> Nat \ {0}] /\ MaxPurchase \in [Plans -> Nat]
  /\ Price \in Nat /\ OpeningQuota \in Nat
  /\ IsFiniteSet(OrderHandlers) /\ OrderHandlers # {}
  /\ MaxTime \in Nat /\ MaxSubs \in Nat

VARIABLES now,     \* the clock
          group,   \* the user's group
          quota,   \* the user's wallet
          subs,    \* user_subscriptions, in order of creation
          order,   \* the status of each order
          topup,   \* the orders that have a top-up row (unique trade number)
          tx,      \* the open transaction of each handler
          pass     \* the open expiry transaction of the maintenance task

subscriptionVars == <<now, group, quota, subs, order, topup, tx, pass>>

BaseGroup == "default"
Groups == {BaseGroup} \cup {UpgradeGroup[p] : p \in Plans}

SubType == [plan : Plans, status : {"active", "expired", "cancelled", "deleted"}, end : Nat,
            upgrade : Groups, prev : Groups \cup {""},
            paidBy : PlanOrders \cup {"admin", "balance"}]

OrderStatuses == {"none", "pending", "success", "expired"}

NoTx == [op |-> "none"]
TxType ==
  {NoTx} \cup [op : {"complete", "expire"}, order : PlanOrders, status : OrderStatuses,
               count : Nat]
         \cup [op : {"purchase"}, plan : Plans, quota : Int, count : Nat]

NoPass == [open |-> FALSE]
PassType ==
  {NoPass} \cup [open : {TRUE}, rows : SUBSET (1..MaxSubs), from : Groups \ {""},
                 to : Groups \ {""}]

\* Types of the rows.
SubscriptionOrdersTypeOK ==
  /\ now \in 0..MaxTime
  /\ group \in Groups \ {""}
  /\ quota \in Int
  /\ subs \in Seq(SubType) /\ Len(subs) <= MaxSubs
  /\ order \in [PlanOrders -> OrderStatuses]
  /\ topup \subseteq PlanOrders
  /\ tx \in [OrderHandlers -> TxType]
  /\ pass \in PassType

SubscriptionInit ==
  /\ now = 0 /\ group = BaseGroup /\ quota = OpeningQuota
  /\ subs = <<>>
  /\ order = [o \in PlanOrders |-> "none"]
  /\ topup = {}
  /\ tx = [h \in OrderHandlers |-> NoTx]
  /\ pass = NoPass
-------------------------------------------------------------------------------
Ids == 1..Len(subs)
Active(i) == subs[i].status = "active" /\ subs[i].end > now
Upgrades(i) == subs[i].upgrade # ""

CountUserSubscriptionsByPlan(p) ==
  Cardinality({i \in Ids : subs[i].plan = p /\ subs[i].status # "deleted"})

LimitReached(p, count) == MaxPurchase[p] > 0 /\ count >= MaxPurchase[p]

ChangesGroup(p) == UpgradeGroup[p] # "" /\ group # UpgradeGroup[p]

\* CreateUserSubscriptionFromPlanTx after its count: the group the user is in
\* is remembered only when the plan changes it.
CreateUserSubscriptionFromPlan(p, source) ==
  /\ Len(subs) < MaxSubs
  /\ subs' = Append(subs, [plan |-> p, status |-> "active", end |-> now + Duration[p],
                           upgrade |-> UpgradeGroup[p],
                           prev |-> IF ChangesGroup(p) THEN group ELSE "",
                           paidBy |-> source])
  /\ group' = IF ChangesGroup(p) THEN UpgradeGroup[p] ELSE group

NoneOpen(h) == tx[h] = NoTx
BeginTx(h, t) == tx' = [tx EXCEPT ![h] = t]
EndTx(h) == tx' = [tx EXCEPT ![h] = NoTx]

\* LockOrder on the node.
SubscriptionLocked(h, o) ==
  \E g \in OrderHandlers \ {h} :
    /\ tx[g].op \in {"complete", "expire"} /\ tx[g].order = o
    /\ HandlerNode[g] = HandlerNode[h]

(***************************************************************************)
(* The order: created by the console, completed or expired by callbacks.   *)
(***************************************************************************)
SubscriptionRequest(o) ==
  /\ order[o] = "none"
  /\ ~LimitReached(PlanOf[o], CountUserSubscriptionsByPlan(PlanOf[o]))
  /\ order' = [order EXCEPT ![o] = "pending"]
  /\ UNCHANGED <<now, group, quota, subs, topup, tx, pass>>

BeginCallback(h, o, op) ==
  /\ NoneOpen(h) /\ order[o] # "none"
  /\ ~SubscriptionLocked(h, o)
  /\ BeginTx(h, [op |-> op, order |-> o, status |-> order[o],
               count |-> CountUserSubscriptionsByPlan(PlanOf[o])])
  /\ UNCHANGED <<now, group, quota, subs, order, topup, pass>>

\* Mut_* definitions are deliberate misreadings used to test properties.
Mut_TradeNoFree(o) == TRUE

\* upsertSubscriptionTopUpTx: a pending order's snapshot has no top-up row, so
\* one is inserted, and the trade number's unique key refuses a second.
TradeNoFree(o) == o \notin topup

\* When the row cannot be inserted the subscription is rolled back as well.
CompleteSubscriptionOrder(h) ==
  /\ tx[h].op = "complete"
  /\ LET o == tx[h].order
         p == PlanOf[o]
     IN IF tx[h].status = "pending" /\ ~LimitReached(p, tx[h].count) /\ TradeNoFree(o)
          THEN /\ CreateUserSubscriptionFromPlan(p, o)
               /\ topup' = topup \cup {o}
               /\ order' = [order EXCEPT ![o] = "success"]
          ELSE UNCHANGED <<group, subs, topup, order>>
  /\ EndTx(h)
  /\ UNCHANGED <<now, quota, pass>>

CanExpire(status) == status = "pending"

ExpireSubscriptionOrder(h) ==
  /\ tx[h].op = "expire"
  /\ order' = [order EXCEPT ![tx[h].order] = IF CanExpire(tx[h].status) THEN "expired" ELSE @]
  /\ EndTx(h)
  /\ UNCHANGED <<now, group, quota, subs, topup, pass>>

(***************************************************************************)
(* AdminBindSubscription and PurchaseSubscriptionWithBalance.  The second  *)
(* compares the wallet it has read and takes the price from what it is.    *)
(***************************************************************************)
AdminBindSubscription(p) ==
  /\ ~LimitReached(p, CountUserSubscriptionsByPlan(p))
  /\ CreateUserSubscriptionFromPlan(p, "admin")
  /\ UNCHANGED <<now, quota, order, topup, tx, pass>>

BeginPurchase(h, p) ==
  /\ NoneOpen(h)
  /\ BeginTx(h, [op |-> "purchase", plan |-> p, quota |-> quota,
               count |-> CountUserSubscriptionsByPlan(p)])
  /\ UNCHANGED <<now, group, quota, subs, order, topup, pass>>

Affordable(seen) == seen >= Price

PurchaseSubscriptionWithBalance(h) ==
  /\ tx[h].op = "purchase"
  /\ LET p == tx[h].plan
     IN IF Affordable(tx[h].quota) /\ ~LimitReached(p, tx[h].count)
          THEN CreateUserSubscriptionFromPlan(p, "balance") /\ quota' = quota - Price
          ELSE UNCHANGED <<group, subs, quota>>
  /\ EndTx(h)
  /\ UNCHANGED <<now, order, topup, pass>>

(***************************************************************************)
(* The end of a subscription and the group it leaves behind.               *)
(***************************************************************************)
\* downgradeUserGroupForSubscriptionTx: the subscription's group is left for
\* the one before it, unless another upgrade is active.
GroupWithout(i) ==
  IF /\ subs[i].upgrade \notin {""} /\ group = subs[i].upgrade
     /\ ~\E j \in Ids \ {i} : Active(j) /\ Upgrades(j)
     /\ subs[i].prev \notin {"", group}
    THEN subs[i].prev
    ELSE group

AdminInvalidateUserSubscription(i) ==
  /\ subs[i].status \notin {"deleted", "cancelled"}
  /\ subs' = [subs EXCEPT ![i].status = "cancelled", ![i].end = now]
  /\ group' = GroupWithout(i)
  /\ UNCHANGED <<now, quota, order, topup, tx, pass>>

AdminDeleteUserSubscription(i) ==
  /\ subs[i].status # "deleted"
  /\ subs' = [subs EXCEPT ![i].status = "deleted"]
  /\ group' = GroupWithout(i)
  /\ UNCHANGED <<now, quota, order, topup, tx, pass>>

DueRows == {i \in Ids : subs[i].status = "active" /\ subs[i].end <= now}

LastExpired(expired) ==
  CHOOSE i \in expired : \A j \in expired :
    subs[j].end < subs[i].end \/ (subs[j].end = subs[i].end /\ j <= i)

\* ExpireDueSubscriptions for the user: it marks the rows, then looks for an
\* active upgrade, then for the last expired one and where it came from.
GroupAfterExpiry ==
  LET expired == {i \in Ids : Upgrades(i) /\ (subs[i].status = "expired" \/ i \in DueRows)}
      last == LastExpired(expired)
  IN IF \/ \E j \in Ids : Active(j) /\ Upgrades(j)
        \/ expired = {}
       THEN group
       ELSE IF subs[last].prev # "" /\ group = subs[last].upgrade
              THEN subs[last].prev
              ELSE group

ExpiryReads ==
  /\ ~pass.open /\ DueRows # {}
  /\ pass' = [open |-> TRUE, rows |-> DueRows, from |-> group, to |-> GroupAfterExpiry]
  /\ UNCHANGED <<now, group, quota, subs, order, topup, tx>>

ExpireDueSubscriptions ==
  /\ pass.open
  /\ subs' = [i \in Ids |-> IF i \in pass.rows /\ subs[i].status = "active"
                              THEN [subs[i] EXCEPT !.status = "expired"] ELSE subs[i]]
  /\ group' = IF pass.to = pass.from THEN group ELSE pass.to
  /\ pass' = NoPass
  /\ UNCHANGED <<now, quota, order, topup, tx>>

Tick ==
  /\ now < MaxTime
  /\ now' = now + 1
  /\ UNCHANGED <<group, quota, subs, order, topup, tx, pass>>

Maintenance == ExpiryReads \/ ExpireDueSubscriptions

SubscriptionNext ==
  \/ \E o \in PlanOrders : SubscriptionRequest(o)
  \/ \E h \in OrderHandlers :
       \/ \E o \in PlanOrders, op \in {"complete", "expire"} : BeginCallback(h, o, op)
       \/ CompleteSubscriptionOrder(h) \/ ExpireSubscriptionOrder(h)
       \/ \E p \in Plans : BeginPurchase(h, p)
       \/ PurchaseSubscriptionWithBalance(h)
  \/ \E p \in Plans : AdminBindSubscription(p)
  \/ \E i \in Ids : AdminInvalidateUserSubscription(i) \/ AdminDeleteUserSubscription(i)
  \/ Maintenance
  \/ Tick

SubscriptionSpec == SubscriptionInit /\ [][SubscriptionNext]_subscriptionVars

\* The maintenance task ticks for as long as the master node runs.
SubscriptionFairSpec == SubscriptionSpec /\ WF_subscriptionVars(Maintenance)
-------------------------------------------------------------------------------
SingleOrderNode == \A g, h \in OrderHandlers : HandlerNode[g] = HandlerNode[h]

\* "Complete a subscription order (idempotent)": however often and on however
\* many nodes the callbacks of an order run, it gives at most one subscription,
\* and has given it when it is a success.  On one node it is a success when it
\* has given it: on two, an expiry that read the order before may overwrite it.
OrderDeliveredOnce ==
  \A o \in PlanOrders :
    LET given == {i \in Ids : subs[i].paidBy = o}
    IN /\ Cardinality(given) <= 1
       /\ order[o] = "success" => given # {}
       /\ SingleOrderNode /\ given # {} => order[o] = "success"

\* Every purchase from the wallet is paid for.  Those that run at the same time
\* have all seen the money the first one takes, so the wallet can end below
\* zero: by one price for each of them but the first, and no further.
PurchasesPaid ==
  /\ quota = OpeningQuota - Price * Cardinality({i \in Ids : subs[i].paidBy = "balance"})
  /\ quota + Price * (Cardinality(OrderHandlers) - 1) >= 0

\* Every subscription is paid for, by one order or from the wallet, and no
\* payment gives two.
SubscriptionsPaidOnce == OrderDeliveredOnce /\ PurchasesPaid

\* On one node a completed or expired order stays what it is.
OrderFinal ==
  [][\A o \in PlanOrders :
       SingleOrderNode /\ order[o] \in {"success", "expired"}
         => order'[o] = order[o]]_subscriptionVars

\* A subscription past its end is taken out of service by the task.
DueSubscriptionsExpire ==
  \A i \in 1..MaxSubs :
    (i \in Ids /\ subs[i].status = "active" /\ subs[i].end <= now)
      ~> (i \in Ids /\ subs[i].status # "active")

\* "No active upgraded subscription, downgrade to previous group if needed":
\* when nothing is active or due and no upgrade is pending, the user is back
\* in the group he had before the first one.
GroupFollowsSubscriptions ==
  (/\ ~pass.open
   /\ \A i \in Ids : subs[i].status = "expired") => group = BaseGroup

\* "If there's an active upgraded subscription, keep current group": the
\* maintenance task takes no group away that an active subscription gives.
ActiveUpgradeKept ==
  [][ExpireDueSubscriptions /\ (\E i \in Ids : Active(i) /\ Upgrades(i))
       => group' = group]_subscriptionVars
===============================================================================
