------------------------------ MODULE USDTOrders ------------------------------
(***************************************************************************)
(* USDT top-up orders (model/usdt_topup_order.go, usdt_topup_settlement.go *)
(* and the operator's path through model/topup.go).                        *)
(*                                                                         *)
(* An order asks its customer to pay a whole number of USDT plus a suffix  *)
(* of 1 to 99 cents.  Nothing else ties an incoming transfer to an order:  *)
(* the amount, the address and the block time are all the settlement sees. *)
(* A suffix therefore stays reserved for a cooldown that outlives the      *)
(* order.  The order owns a row of the general top-up table, which an      *)
(* operator may complete or reject by hand.                                *)
(*                                                                         *)
(* Every operation is one transaction.  Its time t was read before its     *)
(* locks were granted, so it may lie up to MaxLag seconds in the past.     *)
(***************************************************************************)
EXTENDS LedgerArithmetic, FiniteSets, Functions

CONSTANTS
  Users,         \* customers
  Orders,        \* order ids (each with its top-up row)
  Transfers,     \* incoming token transfers on the chain
  Txs,           \* transaction ids; one transaction may hold several transfers
  Addresses,     \* receiving addresses
  Units,         \* whole USDT amounts customers ask for
  Suffixes,      \* cents, 1..99 in the code
  QuotaPerUnit,  \* wallet quota for one USDT
  TTL,           \* OrderTTL, in seconds
  Cooldown,      \* SuffixCooldown, in seconds
  Grace,         \* usdtWatcherConfirmationGrace, in seconds
  Fractions,     \* milliseconds of a block time within its second
  InitialQuota,  \* every wallet at the start
  MaxTime,       \* bound on the clock
  LastCreate,    \* bound on the time of the last new order
  MaxLag         \* bound on the age of a transaction's time

\* What LoadUSDTTopUpConfig and validateUSDTTopUpOrderInput insist on.
ASSUME USDTAssumption ==
  /\ Units \subseteq Nat \ {0}
  /\ Suffixes \subseteq 1..99
  /\ QuotaPerUnit \in Nat
  /\ TTL \in Nat \ {0}
  /\ Cooldown \in Nat /\ Cooldown >= TTL
  /\ Grace \in Nat \ {0}
  /\ Fractions \subseteq 0..999
  /\ InitialQuota \in 0..MaxQuota
  /\ MaxTime \in Nat /\ LastCreate \in Nat /\ MaxLag \in Nat

VARIABLES
  clock,    \* seconds
  users,    \* the wallet rows
  orders,   \* the orders created so far
  topUps,   \* the status of the top-up row of each order
  ledger,   \* the immutable ledger: idempotency key -> [user, delta]
  chain     \* the transfers made so far

orderVars == <<clock, users, orders, topUps, ledger, chain>>
-------------------------------------------------------------------------------
Open == {"pending", "confirming"}

OrderType == [status : Open \cup {"settled", "expired"}, user : Users, units : Units,
              suffix : Suffixes, address : Addresses, created : Nat, expires : Nat,
              cooldown : Nat, tx : SUBSET Txs, blockTime : Nat]

TransferType == [tx : Txs, to : Addresses, amount : Nat, ts : Nat,
                 confirmed : BOOLEAN, for : Orders]

\* Idempotency keys: "usdt-trc20:<tx>", "usdt-trc20-bonus:<order>" and
\* "topup:<id>".
LedgerKeys == ({"usdt-trc20"} \X Txs) \cup ({"usdt-trc20-bonus", "topup"} \X Orders)

\* Types: every row refers to existing rows and every balance fits its column.
OrdersTypeOK ==
  /\ clock \in Nat
  /\ users \in [Users -> UserType]
  /\ DOMAIN orders \subseteq Orders
  /\ orders \in [DOMAIN orders -> OrderType]
  /\ topUps \in [DOMAIN orders -> {"pending", "success", "expired", "rejected"}]
  /\ DOMAIN ledger \subseteq LedgerKeys
  /\ ledger \in [DOMAIN ledger -> [user : Users, delta : Nat \ {0}]]
  /\ DOMAIN chain \subseteq Transfers
  /\ chain \in [DOMAIN chain -> TransferType]

\* A table with one more row.
With(table, key, new) ==
  [k \in DOMAIN table \cup {key} |-> IF k = key THEN new ELSE table[k]]

\* The times a transaction that commits now may have read.
ReadTimes == {t \in 0..clock : t + MaxLag >= clock}
-------------------------------------------------------------------------------
(***************************************************************************)
(* The amount to pay, in millionths of a USDT, and what it buys.           *)
(***************************************************************************)
ExactPayAmountMicros(order) == order.units * 1000000 + order.suffix * 10000

\* adminTopUpQuota, for a USDT top-up.
PaidQuota(order) == order.units * QuotaPerUnit

BonusQuota(order) == PaidQuota(order) \div 20

(***************************************************************************)
(* CreateUSDTTopUpOrder: under the lock of the amount, a suffix that no    *)
(* order of the same amount still reserves.                                *)
(***************************************************************************)
Mut_ReservedWhileOpen(units, t) ==
  {s \in Suffixes : \A o \in DOMAIN orders :
     orders[o].units = units /\ orders[o].status \in Open => orders[o].suffix # s}

FreeSuffixes(units, t) ==
  {s \in Suffixes : \A o \in DOMAIN orders :
     orders[o].units = units /\ orders[o].cooldown > t => orders[o].suffix # s}

NewOrder(u, units, s, a, t) ==
  [status |-> "pending", user |-> u, units |-> units, suffix |-> s, address |-> a,
   created |-> t, expires |-> t + TTL, cooldown |-> t + Cooldown,
   tx |-> {}, blockTime |-> 0]

\* UserAuth lets neither a deleted nor a disabled user through.
Authenticated(u) == ~users[u].deleted /\ users[u].status = "enabled"

CreateUSDTTopUpOrder(u, o, units, a, t) ==
  /\ t <= LastCreate
  /\ o \notin DOMAIN orders
  /\ Authenticated(u)
  /\ \E s \in FreeSuffixes(units, t) :
       orders' = With(orders, o, NewOrder(u, units, s, a, t))
  /\ topUps' = With(topUps, o, "pending")
  /\ UNCHANGED <<clock, users, ledger, chain>>

\* CancelUSDTTopUpOrder: both rows must still be pending.
Mut_CancelAnyOpen(o) ==
  /\ orders[o].status \in Open \cup {"settled"}
  /\ Authenticated(orders[o].user)
  /\ orders' = [orders EXCEPT ![o].status = "expired"]
  /\ topUps' = [topUps EXCEPT ![o] = "expired"]
  /\ UNCHANGED <<clock, users, ledger, chain>>

CancelUSDTTopUpOrder(o) ==
  /\ orders[o].status = "pending"
  /\ topUps[o] = "pending"
  /\ Authenticated(orders[o].user)
  /\ orders' = [orders EXCEPT ![o].status = "expired"]
  /\ topUps' = [topUps EXCEPT ![o] = "expired"]
  /\ UNCHANGED <<clock, users, ledger, chain>>

(***************************************************************************)
(* AdvanceUSDTTopUpExpiryStates: an order past its window waits for late   *)
(* confirmations, and expires when the grace is over too.                  *)
(***************************************************************************)
Mut_ConfirmingForgotten(t) ==
  {o \in DOMAIN orders : orders[o].status = "pending" /\ orders[o].expires <= t}

PastWindow(t) == {o \in DOMAIN orders : orders[o].status \in Open /\ orders[o].expires <= t}

PastGrace(t) == {o \in PastWindow(t) : orders[o].expires <= t - Grace}

AdvanceUSDTTopUpExpiryStates(t) ==
  /\ orders' = [o \in DOMAIN orders |->
                  IF o \in PastGrace(t) THEN [orders[o] EXCEPT !.status = "expired"]
                  ELSE IF o \in PastWindow(t) THEN [orders[o] EXCEPT !.status = "confirming"]
                  ELSE orders[o]]
  /\ topUps' = [o \in DOMAIN orders |->
                  IF o \in PastGrace(t) /\ topUps[o] = "pending" THEN "expired"
                  ELSE topUps[o]]
  /\ UNCHANGED <<clock, users, ledger, chain>>

(***************************************************************************)
(* SettleUSDTTopUp.  A transaction that settled an order is never applied  *)
(* again.  Otherwise exactly one open order must match the transfer.       *)
(***************************************************************************)
SettledWith(tx) == {o \in DOMAIN orders : tx \in orders[o].tx}

settlementEvidenceMatches(order, x) ==
  /\ order.tx = {x.tx}
  /\ ExactPayAmountMicros(order) = x.amount
  /\ order.address = x.to
  /\ order.blockTime = x.ts

Mut_LateAccepted(x) ==
  {o \in DOMAIN orders :
     /\ orders[o].status \in Open
     /\ ExactPayAmountMicros(orders[o]) = x.amount
     /\ orders[o].address = x.to}

Candidates(x) ==
  {o \in DOMAIN orders :
     /\ orders[o].status \in Open
     /\ ExactPayAmountMicros(orders[o]) = x.amount
     /\ orders[o].address = x.to
     /\ orders[o].created * 1000 <= x.ts
     /\ orders[o].expires * 1000 >= x.ts}

\* What the credit itself requires: a top-up nobody has decided, a user that
\* exists, two sums that fit, two fresh ledger keys.
Mut_TopUpIgnored(o, tx) ==
  LET user == users[orders[o].user]
      paid == PaidQuota(orders[o])
      bonus == BonusQuota(orders[o])
  IN /\ ~user.deleted
     /\ paid > 0 /\ bonus > 0
     /\ checkedBalanceLedgerSum(user.quota, paid)
     /\ checkedBalanceLedgerSum(user.quota + paid, bonus)

CanCredit(o, tx) ==
  LET user == users[orders[o].user]
      paid == PaidQuota(orders[o])
      bonus == BonusQuota(orders[o])
  IN /\ topUps[o] = "pending"
     /\ ~user.deleted
     /\ paid > 0 /\ bonus > 0
     /\ checkedBalanceLedgerSum(user.quota, paid)
     /\ checkedBalanceLedgerSum(user.quota + paid, bonus)
     /\ <<"usdt-trc20", tx>> \notin DOMAIN ledger
     /\ <<"usdt-trc20-bonus", o>> \notin DOMAIN ledger

Entry(u, delta) == [user |-> u, delta |-> delta]

Mut_BonusOnBalanceBefore(o, x) ==
  LET u == orders[o].user
      paid == PaidQuota(orders[o])
      bonus == BonusQuota(orders[o])
  IN /\ ledger' = With(With(ledger, <<"usdt-trc20", x.tx>>, Entry(u, paid)),
                       <<"usdt-trc20-bonus", o>>, Entry(u, bonus))
     /\ users' = [users EXCEPT ![u] = balanceLedgerUserUpdates(@, @.quota + bonus, FALSE)]
     /\ topUps' = [topUps EXCEPT ![o] = "success"]
     /\ orders' = [orders EXCEPT ![o] = [@ EXCEPT !.status = "settled", !.tx = {x.tx},
                                                  !.blockTime = x.ts]]
     /\ UNCHANGED <<clock, chain>>

Credit(o, x) ==
  LET u == orders[o].user
      paid == PaidQuota(orders[o])
      bonus == BonusQuota(orders[o])
  IN /\ ledger' = With(With(ledger, <<"usdt-trc20", x.tx>>, Entry(u, paid)),
                       <<"usdt-trc20-bonus", o>>, Entry(u, bonus))
     /\ users' = [users EXCEPT ![u] =
                    balanceLedgerUserUpdates(@, @.quota + paid + bonus, FALSE)]
     /\ topUps' = [topUps EXCEPT ![o] = "success"]
     /\ orders' = [orders EXCEPT ![o] = [@ EXCEPT !.status = "settled", !.tx = {x.tx},
                                                  !.blockTime = x.ts]]
     /\ UNCHANGED <<clock, chain>>

\* The four answers of SettleUSDTTopUp, of which only the first changes rows.
Applied(x) ==
  /\ SettledWith(x.tx) = {}
  /\ \E o \in DOMAIN orders :
       /\ Candidates(x) = {o}
       /\ CanCredit(o, x.tx)
       /\ Credit(o, x)

Replayed(x) == \E o \in SettledWith(x.tx) : settlementEvidenceMatches(orders[o], x)

\* ErrUSDTTopUpTransferMismatch and ErrUSDTTopUpTransferAmbiguous.
Unmatched(x) ==
  \/ \E o \in SettledWith(x.tx) : ~settlementEvidenceMatches(orders[o], x)
  \/ SettledWith(x.tx) = {} /\ Cardinality(Candidates(x)) # 1

\* Any other error: the one matching order cannot be credited.
Refused(x) ==
  /\ SettledWith(x.tx) = {}
  /\ \E o \in DOMAIN orders : Candidates(x) = {o} /\ ~CanCredit(o, x.tx)

(***************************************************************************)
(* ProcessAdminTopUp: an operator completes or rejects a pending top-up by *)
(* hand, whichever provider it belongs to.  The order is not touched.      *)
(***************************************************************************)
CompleteAdminTopUp(o) ==
  LET u == orders[o].user
      quota == PaidQuota(orders[o])
  IN /\ topUps[o] = "pending"
     /\ quota > 0 /\ quota <= MaxQuota
     /\ ~users[u].deleted
     /\ checkedBalanceLedgerSum(users[u].quota, quota)
     /\ <<"topup", o>> \notin DOMAIN ledger
     /\ ledger' = With(ledger, <<"topup", o>>, Entry(u, quota))
     /\ users' = [users EXCEPT ![u] = balanceLedgerUserUpdates(@, @.quota + quota, FALSE)]
     /\ topUps' = [topUps EXCEPT ![o] = "success"]
     /\ UNCHANGED <<clock, orders, chain>>

RejectAdminTopUp(o) ==
  /\ topUps[o] = "pending"
  /\ topUps' = [topUps EXCEPT ![o] = "rejected"]
  /\ UNCHANGED <<clock, users, orders, ledger, chain>>

DeleteUser(u) ==
  /\ ~users[u].deleted
  /\ users' = [users EXCEPT ![u].deleted = TRUE]
  /\ UNCHANGED <<clock, orders, topUps, ledger, chain>>

(***************************************************************************)
(* The world outside.  A customer pays the exact amount of an order to its *)
(* address, at any time after the order exists and however often.  Two     *)
(* transfers of one transaction share its block.                           *)
(***************************************************************************)
Pay(e, tx, o, fraction) ==
  LET ts == clock * 1000 + fraction IN
  /\ e \notin DOMAIN chain
  /\ \A f \in DOMAIN chain : chain[f].tx = tx => chain[f].ts = ts /\ ~chain[f].confirmed
  /\ chain' = With(chain, e,
                   [tx |-> tx, to |-> orders[o].address,
                    amount |-> ExactPayAmountMicros(orders[o]), ts |-> ts,
                    confirmed |-> FALSE, for |-> o])
  /\ UNCHANGED <<clock, users, orders, topUps, ledger>>

Confirm(tx) ==
  /\ \E e \in DOMAIN chain : chain[e].tx = tx /\ ~chain[e].confirmed
  /\ chain' = [e \in DOMAIN chain |->
                 IF chain[e].tx = tx THEN [chain[e] EXCEPT !.confirmed = TRUE]
                 ELSE chain[e]]
  /\ UNCHANGED <<clock, users, orders, topUps, ledger>>

Tick ==
  /\ clock < MaxTime
  /\ clock' = clock + 1
  /\ UNCHANGED <<users, orders, topUps, ledger, chain>>
-------------------------------------------------------------------------------
OrdersInit ==
  /\ clock = 0
  /\ users = [u \in Users |-> [quota |-> InitialQuota, used |-> 0, status |-> "enabled",
                               debtSuspended |-> FALSE, deleted |-> FALSE]]
  /\ orders = [o \in {} |-> 0]
  /\ topUps = [o \in {} |-> "pending"]
  /\ ledger = [k \in {} |-> 0]
  /\ chain = [e \in {} |-> 0]

Customers ==
  \/ \E u \in Users, o \in Orders, units \in Units, a \in Addresses, t \in ReadTimes :
       CreateUSDTTopUpOrder(u, o, units, a, t)
  \/ \E o \in DOMAIN orders : CancelUSDTTopUpOrder(o)

World ==
  \/ \E e \in Transfers, tx \in Txs, o \in DOMAIN orders, f \in Fractions : Pay(e, tx, o, f)
  \/ \E tx \in Txs : Confirm(tx)
  \/ Tick

Operators ==
  \/ \E o \in DOMAIN orders : CompleteAdminTopUp(o) \/ RejectAdminTopUp(o)
  \/ \E u \in Users : DeleteUser(u)

\* Here any process may settle any confirmed transfer and advance the expiry
\* at any time; USDTWatcher says when they do.
Settlement ==
  \/ \E t \in ReadTimes : AdvanceUSDTTopUpExpiryStates(t)
  \/ \E e \in DOMAIN chain : chain[e].confirmed /\ Applied(chain[e])

OrdersNext == Customers \/ World \/ Operators \/ Settlement

OrdersSpec == OrdersInit /\ [][OrdersNext]_orderVars
-------------------------------------------------------------------------------
(***************************************************************************)
(* Properties.                                                             *)
(***************************************************************************)

\* A suffix is never in use twice: two orders of the same amount never have
\* overlapping reservations, even if their transactions read stale times.
ReservationsDisjoint ==
  \A o, p \in DOMAIN orders :
    o # p /\ orders[o].units = orders[p].units /\ orders[o].suffix = orders[p].suffix =>
      orders[o].cooldown <= orders[p].created \/ orders[p].cooldown <= orders[o].created

\* The amount identifies the payer: a payment made after its order's second
\* began and before its suffix was freed is never credited to another order -
\* be it late, a second payment, or one for an order already cancelled.
InReach(x) ==
  /\ orders[x.for].created * 1000 < x.ts
  /\ x.ts < orders[x.for].cooldown * 1000

PaymentReachesItsOrder ==
  \A e \in DOMAIN chain, o \in DOMAIN orders :
    settlementEvidenceMatches(orders[o], chain[e]) /\ InReach(chain[e]) => chain[e].for = o

\* Nobody is credited twice: a transaction settles at most one order, and an
\* order is credited by a transfer or by an operator, never by both.
CreditedOnce ==
  /\ \A o, p \in DOMAIN orders : o # p => orders[o].tx \cap orders[p].tx = {}
  /\ \A o \in DOMAIN orders :
       orders[o].status = "settled" =>
         /\ topUps[o] = "success"
         /\ <<"topup", o>> \notin DOMAIN ledger

\* The customer's books agree with the operator's: a top-up shown as paid has
\* its ledger row, and one that is not has none.
TopUpBacked ==
  \A o \in DOMAIN orders :
    topUps[o] = "success" <=>
      \/ <<"topup", o>> \in DOMAIN ledger
      \/ \E tx \in orders[o].tx : <<"usdt-trc20", tx>> \in DOMAIN ledger

\* What the entries of a ledger add up to for a user.
Booked(table, u) ==
  SumFunctionOnSet([k \in DOMAIN table |-> table[k].delta],
                   {k \in DOMAIN table : table[k].user = u})

\* The wallet is what the ledger says: the sum of the user's entries on top of
\* the initial balance.
WalletIsLedger == \A u \in Users : users[u].quota = InitialQuota + Booked(ledger, u)

\* A closed order stays closed, a decided top-up stays decided and a ledger
\* row is immutable, whoever raced for them.
Final ==
  [][/\ \A o \in DOMAIN orders :
          /\ orders[o].status \notin Open => orders'[o] = orders[o]
          /\ topUps[o] # "pending" => topUps'[o] = topUps[o]
     /\ \A k \in DOMAIN ledger : k \in DOMAIN ledger' /\ ledger'[k] = ledger[k]]_orderVars
===============================================================================
