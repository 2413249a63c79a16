------------------------------ MODULE USDTProofs ------------------------------
(***************************************************************************)
(* Proofs about USDTOrders, USDTWatcher and WatchedAddresses, for every    *)
(* number of users, orders, transfers and addresses and every              *)
(* configuration that USDTAssumption allows.  The orders: no payment is    *)
(* credited to another customer's order, nobody is credited twice, what is *)
(* decided stays decided, and every wallet is the sum of its ledger.  The  *)
(* watchers: they implement the orders, whatever the interleaving of       *)
(* cycles, crashes and unacknowledged transactions, and two of them never  *)
(* hold the lease.  The list of addresses they poll: only requests that    *)
(* race exceed its cap, and what an operator disabled stays so.            *)
(***************************************************************************)
EXTENDS USDTWatcher, WatchedAddresses, FiniteSums

(***************************************************************************)
(* Tables and wallets.                                                     *)
(***************************************************************************)

\* A credit that checkedBalanceLedgerSum accepts leaves a wallet row.
LEMMA CreditType ==
  ASSUME NEW u \in UserType, NEW d \in Nat, d > 0,
         checkedBalanceLedgerSum(u.quota, d)
  PROVE  balanceLedgerUserUpdates(u, u.quota + d, FALSE) \in UserType
  <1> USE MaxQuotaAssumption
  <1>1. u.quota + d \in -MaxQuota..MaxQuota
    BY DEF checkedBalanceLedgerSum, UserType
  <1>2. QED
    BY <1>1 DEF balanceLedgerUserUpdates, UserType

\* What an order buys: the paid quota and the twentieth on top of it.
LEMMA AmountType ==
  ASSUME NEW order \in OrderType
  PROVE  /\ order.units \in Nat \ {0} /\ order.suffix \in 1..99
         /\ ExactPayAmountMicros(order) \in Nat
  <1>1. order.units \in Nat \ {0} /\ order.suffix \in 1..99
    <2>1. order.units \in Units /\ order.suffix \in Suffixes
      BY DEF OrderType
    <2>2. Units \subseteq Nat \ {0} /\ Suffixes \subseteq 1..99
      BY USDTAssumption
    <2>3. QED
      BY <2>1, <2>2
  <1>2. \A m, n \in Nat : m * 1000000 + n * 10000 \in Nat
    BY SMT
  <1>3. order.units \in Nat /\ order.suffix \in Nat
    BY <1>1
  <1>4. QED
    BY <1>1, <1>2, <1>3, SMT DEF ExactPayAmountMicros

\* An order's quota and its bonus are numbers.
LEMMA QuotaType ==
  ASSUME NEW order \in OrderType
  PROVE  PaidQuota(order) \in Nat /\ BonusQuota(order) \in Nat
  <1>1. PaidQuota(order) \in Nat
    <2>1. \A m, n \in Nat : m * n \in Nat
      BY SMT
    <2>2. order.units \in Nat /\ QuotaPerUnit \in Nat
      <3>1. Units \subseteq Nat \ {0} /\ QuotaPerUnit \in Nat
        BY USDTAssumption
      <3>2. order.units \in Nat
        BY AmountType
      <3> QED
        BY <3>1, <3>2
    <2>3. QED
      BY <2>1, <2>2 DEF PaidQuota
  <1>2. \A n \in Nat : n \div 20 \in Nat
    BY SMT
  <1>3. QED
    BY <1>1, <1>2 DEF BonusQuota

(***************************************************************************)
(* Type correctness, one action at a time.                                 *)
(***************************************************************************)
LEMMA CreateType ==
  ASSUME OrdersTypeOK, NEW u \in Users, NEW o \in Orders, NEW units \in Units,
         NEW a \in Addresses, NEW t \in ReadTimes,
         CreateUSDTTopUpOrder(u, o, units, a, t)
  PROVE  OrdersTypeOK'
  <1> USE USDTAssumption
  <1>1. PICK s \in FreeSuffixes(units, t) :
          orders' = With(orders, o, NewOrder(u, units, s, a, t))
    BY DEF CreateUSDTTopUpOrder
  <1>2. t \in Nat /\ s \in Suffixes
    BY <1>1 DEF ReadTimes, FreeSuffixes, OrdersTypeOK
  <1>3. NewOrder(u, units, s, a, t) \in OrderType
    BY <1>2 DEF NewOrder, OrderType, Open
  <1>4. /\ DOMAIN orders' = DOMAIN orders \cup {o}
        /\ orders' \in [DOMAIN orders \cup {o} -> OrderType]
    <2>1. orders \in [DOMAIN orders -> OrderType]
      BY DEF OrdersTypeOK
    <2>2. QED
      BY <2>1, <1>1, <1>3 DEF With
  <1>5. topUps' \in [DOMAIN orders \cup {o} -> {"pending", "success", "expired", "rejected"}]
    <2>1. /\ topUps \in [DOMAIN topUps -> {"pending", "success", "expired", "rejected"}]
          /\ DOMAIN topUps = DOMAIN orders
          /\ topUps' = With(topUps, o, "pending")
      BY DEF OrdersTypeOK, CreateUSDTTopUpOrder
    <2>2. QED
      BY <2>1 DEF With
  <1>6. QED
    BY <1>4, <1>5 DEF OrdersTypeOK, CreateUSDTTopUpOrder

\* Cancelling keeps the tables well formed.
LEMMA CancelType ==
  ASSUME OrdersTypeOK, NEW o \in DOMAIN orders, CancelUSDTTopUpOrder(o)
  PROVE  OrdersTypeOK'
  <1> DEFINE new == [orders[o] EXCEPT !.status = "expired"]
  <1>1. orders' = [orders EXCEPT ![o] = new]
    BY DEF CancelUSDTTopUpOrder
  <1>2. new \in OrderType
    BY DEF OrdersTypeOK, OrderType
  <1> HIDE DEF new
  <1>3. DOMAIN orders' = DOMAIN orders /\ orders' \in [DOMAIN orders -> OrderType]
    BY <1>1, <1>2 DEF OrdersTypeOK
  <1>4. QED
    BY <1>3 DEF OrdersTypeOK, CancelUSDTTopUpOrder

\* So does a pass over the expired orders.
LEMMA AdvanceType ==
  ASSUME OrdersTypeOK, NEW t \in ReadTimes, AdvanceUSDTTopUpExpiryStates(t)
  PROVE  OrdersTypeOK'
  <1>1. \A o \in DOMAIN orders : /\ [orders[o] EXCEPT !.status = "expired"] \in OrderType
                                 /\ [orders[o] EXCEPT !.status = "confirming"] \in OrderType
                                 /\ orders[o] \in OrderType
    BY DEF OrdersTypeOK, OrderType, Open
  <1>2. DOMAIN orders' = DOMAIN orders /\ orders' \in [DOMAIN orders -> OrderType]
    BY <1>1 DEF AdvanceUSDTTopUpExpiryStates
  <1>3. topUps' \in [DOMAIN orders -> {"pending", "success", "expired", "rejected"}]
    BY DEF AdvanceUSDTTopUpExpiryStates, OrdersTypeOK
  <1>4. QED
    BY <1>2, <1>3 DEF OrdersTypeOK, AdvanceUSDTTopUpExpiryStates

\* A ledger table with a new entry of positive size.
LEMMA EntryType ==
  ASSUME NEW table, table \in [DOMAIN table -> [user : Users, delta : Nat \ {0}]],
         DOMAIN table \subseteq LedgerKeys,
         NEW k \in LedgerKeys, NEW u \in Users, NEW d \in Nat \ {0}
  PROVE  /\ DOMAIN With(table, k, Entry(u, d)) \subseteq LedgerKeys
         /\ With(table, k, Entry(u, d)) \in
              [DOMAIN With(table, k, Entry(u, d)) -> [user : Users, delta : Nat \ {0}]]
  BY DEF With, Entry

\* So does a settlement.
LEMMA CreditStepType ==
  ASSUME OrdersTypeOK, NEW e \in DOMAIN chain, Applied(chain[e])
  PROVE  OrdersTypeOK'
  <1> USE MaxQuotaAssumption
  <1> DEFINE x == chain[e]
  <1>x. x \in TransferType
    BY DEF OrdersTypeOK
  <1>1. PICK o \in DOMAIN orders :
          Candidates(x) = {o} /\ CanCredit(o, x.tx) /\ Credit(o, x)
    BY DEF Applied
  <1> DEFINE u == orders[o].user
             paid == PaidQuota(orders[o])
             bonus == BonusQuota(orders[o])
             new == [orders[o] EXCEPT !.status = "settled", !.tx = {x.tx},
                                      !.blockTime = x.ts]
             first == With(ledger, <<"usdt-trc20", x.tx>>, Entry(u, paid))
  <1>2. /\ orders[o] \in OrderType /\ o \in Orders /\ u \in Users
        /\ users[u] \in UserType /\ x.tx \in Txs
    BY <1>1, <1>x DEF OrdersTypeOK, OrderType, TransferType
  <1>3. paid \in Nat /\ bonus \in Nat
    BY <1>2, QuotaType
  <1>4. /\ paid > 0 /\ bonus > 0
        /\ checkedBalanceLedgerSum(users[u].quota, paid)
        /\ checkedBalanceLedgerSum(users[u].quota + paid, bonus)
    BY <1>1 DEF CanCredit
  <1>q. users[u].quota \in -MaxQuota..MaxQuota
    BY <1>2 DEF UserType
  <1>5. users[u].quota + paid + bonus \in -MaxQuota..MaxQuota
    <2> HIDE DEF paid, bonus, u
    <2> QED
      BY <1>3, <1>4, <1>q DEF checkedBalanceLedgerSum
  <1>6. balanceLedgerUserUpdates(users[u], users[u].quota + paid + bonus, FALSE) \in UserType
    <2> HIDE DEF paid, bonus, u
    <2> QED
      BY <1>2, <1>5 DEF balanceLedgerUserUpdates, UserType
  <1>7. users' \in [Users -> UserType]
    <2>1. users' = [users EXCEPT ![u] = balanceLedgerUserUpdates(users[u],
                                          users[u].quota + paid + bonus, FALSE)]
      BY <1>1 DEF Credit
    <2> HIDE DEF paid, bonus, u
    <2>2. QED
      BY <2>1, <1>6 DEF OrdersTypeOK
  <1>8. new \in OrderType
    BY <1>2, <1>x DEF OrderType, TransferType
  <1>9. DOMAIN orders' = DOMAIN orders /\ orders' \in [DOMAIN orders -> OrderType]
    <2>1. orders' = [orders EXCEPT ![o] = new]
      BY <1>1 DEF Credit
    <2> HIDE DEF new
    <2>2. QED
      BY <2>1, <1>8 DEF OrdersTypeOK
  <1>10. paid \in Nat \ {0} /\ bonus \in Nat \ {0}
    BY <1>3, <1>4
  <1>11. /\ DOMAIN ledger' \subseteq LedgerKeys
         /\ ledger' \in [DOMAIN ledger' -> [user : Users, delta : Nat \ {0}]]
    <2>1. <<"usdt-trc20", x.tx>> \in LedgerKeys /\ <<"usdt-trc20-bonus", o>> \in LedgerKeys
      BY <1>2 DEF LedgerKeys
    <2>2. ledger' = With(first, <<"usdt-trc20-bonus", o>>, Entry(u, bonus))
      BY <1>1 DEF Credit
    <2> HIDE DEF paid, bonus, u
    <2>3. /\ DOMAIN first \subseteq LedgerKeys
          /\ first \in [DOMAIN first -> [user : Users, delta : Nat \ {0}]]
      BY <2>1, <1>2, <1>10, EntryType DEF OrdersTypeOK
    <2> HIDE DEF first
    <2>4. QED
      BY <2>1, <2>2, <2>3, <1>2, <1>10, EntryType
  <1>12. QED
    BY <1>1, <1>7, <1>9, <1>11 DEF OrdersTypeOK, Credit

\* So does an operator's completion of the top-up.
LEMMA CompleteType ==
  ASSUME OrdersTypeOK, NEW o \in DOMAIN orders, CompleteAdminTopUp(o)
  PROVE  OrdersTypeOK'
  <1> USE MaxQuotaAssumption
  <1> DEFINE u == orders[o].user
             quota == PaidQuota(orders[o])
             new == balanceLedgerUserUpdates(users[u], users[u].quota + quota, FALSE)
  <1>1. orders[o] \in OrderType /\ o \in Orders /\ u \in Users /\ users[u] \in UserType
    BY DEF OrdersTypeOK, OrderType
  <1>2. /\ quota \in Nat /\ quota > 0
        /\ checkedBalanceLedgerSum(users[u].quota, quota)
    BY <1>1, QuotaType DEF CompleteAdminTopUp
  <1>3. /\ ledger' = With(ledger, <<"topup", o>>, Entry(u, quota))
        /\ users' = [users EXCEPT ![u] = new]
    BY DEF CompleteAdminTopUp
  <1>4. new \in UserType
    BY <1>1, <1>2, CreditType
  <1> HIDE DEF quota, u, new
  <1>5. users' \in [Users -> UserType]
    BY <1>3, <1>4 DEF OrdersTypeOK
  <1>6. <<"topup", o>> \in LedgerKeys
    BY <1>1 DEF LedgerKeys
  <1>7. /\ DOMAIN ledger' \subseteq LedgerKeys
        /\ ledger' \in [DOMAIN ledger' -> [user : Users, delta : Nat \ {0}]]
    <2>1. /\ DOMAIN ledger \subseteq LedgerKeys
          /\ ledger \in [DOMAIN ledger -> [user : Users, delta : Nat \ {0}]]
      BY DEF OrdersTypeOK
    <2>2. quota \in Nat \ {0}
      BY <1>2
    <2>3. QED
      BY <1>1, <1>3, <1>6, <2>1, <2>2, EntryType
  <1>8. QED
    BY <1>5, <1>7 DEF OrdersTypeOK, CompleteAdminTopUp

\* So does a transfer that reaches the chain.
LEMMA PayType ==
  ASSUME OrdersTypeOK, NEW e \in Transfers, NEW tx \in Txs, NEW o \in DOMAIN orders,
         NEW f \in Fractions, Pay(e, tx, o, f)
  PROVE  OrdersTypeOK'
  <1> DEFINE new == [tx |-> tx, to |-> orders[o].address,
                     amount |-> ExactPayAmountMicros(orders[o]), ts |-> clock * 1000 + f,
                     confirmed |-> FALSE, for |-> o]
  <1>1. ExactPayAmountMicros(orders[o]) \in Nat /\ clock * 1000 + f \in Nat
    <2>1. orders[o] \in OrderType /\ clock \in Nat
      BY DEF OrdersTypeOK
    <2>2. f \in 0..999
      BY USDTAssumption
    <2>3. QED
      BY <2>1, <2>2, AmountType, SMT
  <1>2. new \in TransferType
    BY <1>1 DEF TransferType, OrdersTypeOK, OrderType
  <1>3. chain' = With(chain, e, new)
    BY DEF Pay
  <1> HIDE DEF new
  <1>4. DOMAIN chain' \subseteq Transfers /\ chain' \in [DOMAIN chain' -> TransferType]
    BY <1>2, <1>3 DEF With, OrdersTypeOK
  <1>5. QED
    BY <1>4, ZenonT(60) DEF OrdersTypeOK, Pay

\* So does its confirmation.
LEMMA ConfirmType ==
  ASSUME OrdersTypeOK, NEW tx \in Txs, Confirm(tx)
  PROVE  OrdersTypeOK'
  <1>1. \A e \in DOMAIN chain : /\ chain[e] \in TransferType
                                /\ [chain[e] EXCEPT !.confirmed = TRUE] \in TransferType
    BY DEF OrdersTypeOK, TransferType
  <1>2. DOMAIN chain' = DOMAIN chain /\ chain' \in [DOMAIN chain -> TransferType]
    BY <1>1 DEF Confirm
  <1>3. QED
    BY <1>2 DEF OrdersTypeOK, Confirm

\* Every step keeps the tables well formed.
LEMMA OrdersTypeStep ==
  ASSUME OrdersTypeOK, [OrdersNext]_orderVars
  PROVE  OrdersTypeOK'
  <1>1. CASE Customers
    BY <1>1, CreateType, CancelType DEF Customers
  <1>2. CASE World
    <2>1. ASSUME Tick PROVE OrdersTypeOK'
      BY <2>1 DEF Tick, OrdersTypeOK
    <2>2. QED
      BY <1>2, <2>1, PayType, ConfirmType DEF World
  <1>3. CASE Operators
    <2>1. ASSUME NEW o \in DOMAIN orders, RejectAdminTopUp(o) PROVE OrdersTypeOK'
      BY <2>1 DEF RejectAdminTopUp, OrdersTypeOK
    <2>2. ASSUME NEW u \in Users, DeleteUser(u) PROVE OrdersTypeOK'
      BY <2>2, ZenonT(60) DEF DeleteUser, OrdersTypeOK, UserType
    <2>3. QED
      BY <1>3, <2>1, <2>2, CompleteType DEF Operators
  <1>4. CASE Settlement
    BY <1>4, AdvanceType, CreditStepType DEF Settlement
  <1>5. CASE UNCHANGED orderVars
    BY <1>5 DEF orderVars, OrdersTypeOK
  <1>6. QED
    BY <1>1, <1>2, <1>3, <1>4, <1>5 DEF OrdersNext

\* So are they at the start.
LEMMA OrdersTypeInit == OrdersInit => OrdersTypeOK
  BY USDTAssumption, MaxQuotaAssumption DEF OrdersInit, OrdersTypeOK, UserType

(***************************************************************************)
(* What a step does to the orders: it creates one, settles one, or changes *)
(* nothing but statuses.                                                   *)
(***************************************************************************)

\* What a customer was promised when the order was created.
SameTerms(r, s) ==
  /\ r.user = s.user /\ r.units = s.units /\ r.suffix = s.suffix
  /\ r.address = s.address /\ r.created = s.created
  /\ r.expires = s.expires /\ r.cooldown = s.cooldown

SameEvidence(r, s) == r.tx = s.tx /\ r.blockTime = s.blockTime

Creates ==
  \E u \in Users, o \in Orders, units \in Units, a \in Addresses, t \in ReadTimes :
    CreateUSDTTopUpOrder(u, o, units, a, t)

Settles == \E e \in DOMAIN chain : Applied(chain[e])

Moves ==
  /\ DOMAIN orders' = DOMAIN orders
  /\ \A o \in DOMAIN orders : /\ SameTerms(orders'[o], orders[o])
                              /\ SameEvidence(orders'[o], orders[o])

\* Cancelling keeps every order's terms and evidence.
LEMMA CancelMoves ==
  ASSUME OrdersTypeOK, NEW o \in DOMAIN orders, CancelUSDTTopUpOrder(o)
  PROVE  Moves
  BY DEF CancelUSDTTopUpOrder, OrdersTypeOK, OrderType, Moves, SameTerms, SameEvidence

\* So does a pass over the expired orders.
LEMMA AdvanceMoves ==
  ASSUME OrdersTypeOK, NEW t \in ReadTimes, AdvanceUSDTTopUpExpiryStates(t)
  PROVE  Moves
  <1>1. DOMAIN orders' = DOMAIN orders
    BY DEF AdvanceUSDTTopUpExpiryStates
  <1>2. ASSUME NEW o \in DOMAIN orders
        PROVE  SameTerms(orders'[o], orders[o]) /\ SameEvidence(orders'[o], orders[o])
    <2>1. orders[o] \in OrderType
      BY DEF OrdersTypeOK
    <2>2. \/ orders'[o] = [orders[o] EXCEPT !.status = "expired"]
          \/ orders'[o] = [orders[o] EXCEPT !.status = "confirming"]
          \/ orders'[o] = orders[o]
      BY DEF AdvanceUSDTTopUpExpiryStates
    <2>3. QED
      BY <2>1, <2>2 DEF OrderType, SameTerms, SameEvidence
  <1>3. QED
    BY <1>1, <1>2 DEF Moves

\* A step creates an order, settles one, or keeps every order's terms and evidence.
LEMMA StepShape ==
  ASSUME OrdersTypeOK, [OrdersNext]_orderVars
  PROVE  Creates \/ Settles \/ Moves
  <1>1. orders' = orders => Moves
    BY DEF Moves, SameTerms, SameEvidence
  <1>2. CASE Customers
    BY <1>2, CancelMoves DEF Customers, Creates
  <1>3. CASE World
    BY <1>1, <1>3, ZenonT(60) DEF World, Pay, Confirm, Tick
  <1>4. CASE Operators
    BY <1>1, <1>4 DEF Operators, CompleteAdminTopUp, RejectAdminTopUp, DeleteUser
  <1>5. CASE Settlement
    BY <1>5, AdvanceMoves DEF Settlement, Settles
  <1>6. CASE UNCHANGED orderVars
    BY <1>1, <1>6 DEF orderVars
  <1>7. QED
    BY <1>2, <1>3, <1>4, <1>5, <1>6 DEF OrdersNext

\* A new order, next to the ones there were.
LEMMA CreateShape ==
  ASSUME OrdersTypeOK, Creates
  PROVE  \E o \in Orders, s \in Suffixes, u \in Users, units \in Units, a \in Addresses,
            t \in Nat :
           /\ o \notin DOMAIN orders
           /\ DOMAIN orders' = DOMAIN orders \cup {o}
           /\ orders'[o] = NewOrder(u, units, s, a, t)
           /\ \A p \in DOMAIN orders : orders'[p] = orders[p]
           /\ \A p \in DOMAIN orders :
                orders[p].units = units /\ orders[p].cooldown > t => orders[p].suffix # s
           /\ topUps' = With(topUps, o, "pending")
           /\ ledger' = ledger /\ chain' = chain
  <1>1. PICK u \in Users, o \in Orders, units \in Units, a \in Addresses, t \in ReadTimes :
          CreateUSDTTopUpOrder(u, o, units, a, t)
    BY DEF Creates
  <1>2. PICK s \in FreeSuffixes(units, t) :
          orders' = With(orders, o, NewOrder(u, units, s, a, t))
    BY <1>1 DEF CreateUSDTTopUpOrder
  <1>3. t \in Nat /\ s \in Suffixes
    BY DEF ReadTimes, FreeSuffixes, OrdersTypeOK
  <1>4. \A p \in DOMAIN orders :
          orders[p].units = units /\ orders[p].cooldown > t => orders[p].suffix # s
    BY DEF FreeSuffixes
  <1>5. /\ o \notin DOMAIN orders
        /\ topUps' = With(topUps, o, "pending")
        /\ ledger' = ledger /\ chain' = chain
    BY <1>1 DEF CreateUSDTTopUpOrder
  <1>6. /\ DOMAIN orders' = DOMAIN orders \cup {o}
        /\ orders'[o] = NewOrder(u, units, s, a, t)
        /\ \A p \in DOMAIN orders : orders'[p] = orders[p]
    BY <1>2, <1>5 DEF With
  <1>7. QED
    BY <1>3, <1>4, <1>5, <1>6

\* A settlement: one order gets the evidence of one transfer.
LEMMA SettleShape ==
  ASSUME OrdersTypeOK, Settles
  PROVE  \E o \in DOMAIN orders, e \in DOMAIN chain :
           /\ SettledWith(chain[e].tx) = {}
           /\ o \in Candidates(chain[e])
           /\ topUps[o] = "pending"
           /\ DOMAIN orders' = DOMAIN orders
           /\ orders'[o] = [orders[o] EXCEPT !.status = "settled", !.tx = {chain[e].tx},
                                             !.blockTime = chain[e].ts]
           /\ \A p \in DOMAIN orders : p # o => orders'[p] = orders[p]
           /\ topUps' = [topUps EXCEPT ![o] = "success"]
           /\ DOMAIN ledger' = DOMAIN ledger \cup {<<"usdt-trc20", chain[e].tx>>,
                                                   <<"usdt-trc20-bonus", o>>}
           /\ \A k \in DOMAIN ledger : ledger'[k] = ledger[k]
           /\ chain' = chain
  <1>1. PICK e \in DOMAIN chain : Applied(chain[e])
    BY DEF Settles
  <1>2. PICK o \in DOMAIN orders :
          /\ Candidates(chain[e]) = {o}
          /\ CanCredit(o, chain[e].tx)
          /\ Credit(o, chain[e])
    BY <1>1 DEF Applied
  <1>3. SettledWith(chain[e].tx) = {} /\ o \in Candidates(chain[e]) /\ topUps[o] = "pending"
    BY <1>1, <1>2 DEF Applied, CanCredit
  <1>4. /\ DOMAIN orders' = DOMAIN orders
        /\ orders'[o] = [orders[o] EXCEPT !.status = "settled", !.tx = {chain[e].tx},
                                          !.blockTime = chain[e].ts]
        /\ \A p \in DOMAIN orders : p # o => orders'[p] = orders[p]
    BY <1>2 DEF Credit, OrdersTypeOK
  <1>5. /\ topUps' = [topUps EXCEPT ![o] = "success"]
        /\ chain' = chain
    BY <1>2 DEF Credit
  <1>6. /\ DOMAIN ledger' = DOMAIN ledger \cup {<<"usdt-trc20", chain[e].tx>>,
                                                <<"usdt-trc20-bonus", o>>}
        /\ \A k \in DOMAIN ledger : ledger'[k] = ledger[k]
    <2> DEFINE k1 == <<"usdt-trc20", chain[e].tx>>
               k2 == <<"usdt-trc20-bonus", o>>
               n1 == Entry(orders[o].user, PaidQuota(orders[o]))
               n2 == Entry(orders[o].user, BonusQuota(orders[o]))
    <2>1. ledger' = With(With(ledger, k1, n1), k2, n2)
      BY <1>2 DEF Credit
    <2>2. k1 \notin DOMAIN ledger /\ k2 \notin DOMAIN ledger
      BY <1>2 DEF CanCredit
    <2> HIDE DEF k1, k2, n1, n2
    <2>3. /\ DOMAIN ledger' = DOMAIN ledger \cup {k1, k2}
          /\ \A k \in DOMAIN ledger : ledger'[k] = ledger[k]
      BY <2>1, <2>2 DEF With
    <2>4. QED
      BY <2>3 DEF k1, k2
  <1>7. QED
    BY <1>3, <1>4, <1>5, <1>6

(***************************************************************************)
(* Whose payment it is.                                                    *)
(***************************************************************************)

\* The promised window, and the block time of what settled the order in it.
WindowsKept ==
  \A o \in DOMAIN orders :
    /\ orders[o].expires = orders[o].created + TTL
    /\ orders[o].cooldown = orders[o].created + Cooldown
    /\ orders[o].tx # {} => /\ orders[o].created * 1000 <= orders[o].blockTime
                            /\ orders[o].blockTime <= orders[o].expires * 1000

\* A payment is for an order and of exactly its amount.
PaymentsExact ==
  \A e \in DOMAIN chain :
    /\ chain[e].for \in DOMAIN orders
    /\ chain[e].amount = ExactPayAmountMicros(orders[chain[e].for])

PaymentInv == OrdersTypeOK /\ WindowsKept /\ ReservationsDisjoint /\ PaymentsExact

\* Two amounts are equal only if the units and the cents are.
LEMMA AmountsDiffer ==
  ASSUME NEW r \in OrderType, NEW s \in OrderType,
         ExactPayAmountMicros(r) = ExactPayAmountMicros(s)
  PROVE  r.units = s.units /\ r.suffix = s.suffix
  <1>2. /\ r.units \in Nat /\ s.units \in Nat
        /\ r.suffix \in 1..99 /\ s.suffix \in 1..99
    BY AmountType
  <1>3. r.units * 1000000 + r.suffix * 10000 = s.units * 1000000 + s.suffix * 10000
    BY SMT DEF ExactPayAmountMicros
  <1>4. PICK m \in Nat, n \in Nat, a \in 1..99, b \in 1..99 :
          m = r.units /\ n = s.units /\ a = r.suffix /\ b = s.suffix
    BY <1>2, Zenon
  <1>5. m * 1000000 + a * 10000 = n * 1000000 + b * 10000
    BY <1>3, <1>4, SMT
  <1>6. m = n /\ a = b
    <2>1. 100 * (m - n) = b - a
      BY <1>5, SMT
    <2>2. b - a < 100 /\ b - a > -100
      BY SMT
    <2>3. QED
      BY <2>1, <2>2, SMT
  <1>7. QED
    BY <1>4, <1>6

\* The conjuncts about orders alone, through each kind of step.
LEMMA WindowsStep ==
  ASSUME PaymentInv, [OrdersNext]_orderVars
  PROVE  WindowsKept' /\ ReservationsDisjoint'
  <1>t. OrdersTypeOK /\ WindowsKept /\ ReservationsDisjoint
    BY DEF PaymentInv
  <1>o. \A o \in DOMAIN orders : orders[o] \in OrderType
    BY <1>t DEF OrdersTypeOK
  <1>1. CASE Creates
    <2>1. PICK o \in Orders, s \in Suffixes, u \in Users, units \in Units, a \in Addresses,
               t \in Nat :
            /\ o \notin DOMAIN orders
            /\ DOMAIN orders' = DOMAIN orders \cup {o}
            /\ orders'[o] = NewOrder(u, units, s, a, t)
            /\ \A p \in DOMAIN orders : orders'[p] = orders[p]
            /\ \A p \in DOMAIN orders :
                 orders[p].units = units /\ orders[p].cooldown > t => orders[p].suffix # s
      BY <1>1, <1>t, CreateShape
    <2>2. WindowsKept'
      BY <2>1, <1>t DEF WindowsKept, NewOrder
    <2>3. ASSUME NEW p \in DOMAIN orders, orders[p].units = units, orders[p].suffix = s
          PROVE  orders[p].cooldown <= t
      BY <2>1, <2>3, <1>o DEF OrderType
    <2>4. orders'[o].units = units /\ orders'[o].suffix = s /\ orders'[o].created = t
      BY <2>1 DEF NewOrder
    <2>5. ReservationsDisjoint'
      BY <2>1, <2>3, <2>4, <1>t DEF ReservationsDisjoint
    <2>6. QED
      BY <2>2, <2>5
  <1>2. CASE Settles
    <2>1. PICK o \in DOMAIN orders, e \in DOMAIN chain :
            /\ o \in Candidates(chain[e])
            /\ DOMAIN orders' = DOMAIN orders
            /\ orders'[o] = [orders[o] EXCEPT !.status = "settled", !.tx = {chain[e].tx},
                                              !.blockTime = chain[e].ts]
            /\ \A p \in DOMAIN orders : p # o => orders'[p] = orders[p]
      BY <1>2, <1>t, SettleShape
    <2>2. /\ SameTerms(orders'[o], orders[o])
          /\ orders'[o].blockTime = chain[e].ts
      BY <2>1, <1>o DEF OrderType, SameTerms
    <2>3. /\ orders[o].created * 1000 <= chain[e].ts
          /\ orders[o].expires * 1000 >= chain[e].ts
          /\ chain[e].ts \in Nat /\ orders[o].expires \in Nat
      BY <2>1, <1>o, <1>t DEF Candidates, OrderType, OrdersTypeOK, TransferType
    <2>4. \A p \in DOMAIN orders : SameTerms(orders'[p], orders[p])
      BY <2>1, <2>2 DEF SameTerms
    <2>5. WindowsKept'
      <3>1. ASSUME NEW p \in DOMAIN orders, orders'[p].tx # {}
            PROVE  /\ orders'[p].created * 1000 <= orders'[p].blockTime
                   /\ orders'[p].blockTime <= orders'[p].expires * 1000
        <4>1. CASE p = o
          BY <4>1, <2>2, <2>3, SMT DEF SameTerms
        <4>2. CASE p # o
          BY <4>2, <3>1, <2>1, <1>t, SMT DEF WindowsKept
        <4>3. QED
          BY <4>1, <4>2
      <3>2. \A p \in DOMAIN orders : /\ orders'[p].expires = orders'[p].created + TTL
                                     /\ orders'[p].cooldown = orders'[p].created + Cooldown
        BY <2>4, <1>t, SMT DEF WindowsKept, SameTerms
      <3>3. QED
        BY <2>1, <3>1, <3>2, SMT DEF WindowsKept
    <2>6. ReservationsDisjoint'
      BY <2>1, <2>4, <1>t DEF ReservationsDisjoint, SameTerms
    <2>7. QED
      BY <2>5, <2>6
  <1>3. CASE Moves
    <2>1. WindowsKept'
      BY <1>3, <1>t, SMT DEF Moves, SameTerms, SameEvidence, WindowsKept
    <2>2. ReservationsDisjoint'
      BY <1>3, <1>t DEF Moves, SameTerms, ReservationsDisjoint
    <2>3. QED
      BY <2>1, <2>2
  <1>4. QED
    BY <1>1, <1>2, <1>3, <1>t, StepShape

\* Orders keep their terms, so an amount once exact stays exact.
LEMMA PaymentsStep ==
  ASSUME PaymentInv, [OrdersNext]_orderVars
  PROVE  PaymentsExact'
  <1>t. OrdersTypeOK /\ PaymentsExact
    BY DEF PaymentInv
  <1>o. \A o \in DOMAIN orders : orders[o] \in OrderType
    BY <1>t DEF OrdersTypeOK
  <1>a. \A o \in DOMAIN orders :
          /\ o \in DOMAIN orders'
          /\ orders'[o].units = orders[o].units /\ orders'[o].suffix = orders[o].suffix
    <2>1. CASE Creates
      BY <2>1, <1>t, CreateShape
    <2>2. CASE Settles
      <3>1. PICK o \in DOMAIN orders, e \in DOMAIN chain :
              /\ DOMAIN orders' = DOMAIN orders
              /\ orders'[o] = [orders[o] EXCEPT !.status = "settled", !.tx = {chain[e].tx},
                                                !.blockTime = chain[e].ts]
              /\ \A p \in DOMAIN orders : p # o => orders'[p] = orders[p]
        BY <2>2, <1>t, SettleShape
      <3>2. orders'[o].units = orders[o].units /\ orders'[o].suffix = orders[o].suffix
        BY <3>1, <1>o DEF OrderType
      <3>3. QED
        BY <3>1, <3>2
    <2>3. CASE Moves
      BY <2>3 DEF Moves, SameTerms
    <2>4. QED
      BY <2>1, <2>2, <2>3, <1>t, StepShape
  <1>b. \A o \in DOMAIN orders :
          ExactPayAmountMicros(orders'[o]) = ExactPayAmountMicros(orders[o])
    BY <1>a, SMT DEF ExactPayAmountMicros
  <1>1. CASE chain' = chain
    BY <1>1, <1>a, <1>b, <1>t DEF PaymentsExact
  <1>2. ASSUME NEW e \in Transfers, NEW tx \in Txs, NEW o \in DOMAIN orders,
               NEW f \in Fractions, Pay(e, tx, o, f)
        PROVE  PaymentsExact'
    <2> DEFINE new == [tx |-> tx, to |-> orders[o].address,
                       amount |-> ExactPayAmountMicros(orders[o]), ts |-> clock * 1000 + f,
                       confirmed |-> FALSE, for |-> o]
    <2>1. chain' = With(chain, e, new) /\ e \notin DOMAIN chain
      BY <1>2, Zenon DEF Pay
    <2>2. new.for = o /\ new.amount = ExactPayAmountMicros(orders[o])
      OBVIOUS
    <2> HIDE DEF new
    <2>3. /\ DOMAIN chain' = DOMAIN chain \cup {e}
          /\ chain'[e] = new
          /\ \A d \in DOMAIN chain : chain'[d] = chain[d]
      BY <2>1 DEF With
    <2>4. QED
      BY <2>2, <2>3, <1>a, <1>b, <1>t DEF PaymentsExact
  <1>3. ASSUME NEW tx \in Txs, Confirm(tx)
        PROVE  PaymentsExact'
    <2>1. DOMAIN chain' = DOMAIN chain
      BY <1>3 DEF Confirm
    <2>2. \A e \in DOMAIN chain : chain[e] \in TransferType
      BY <1>t DEF OrdersTypeOK
    <2>3. \A e \in DOMAIN chain :
            chain'[e].for = chain[e].for /\ chain'[e].amount = chain[e].amount
      BY <1>3, <2>2 DEF Confirm, TransferType
    <2>4. QED
      BY <2>1, <2>3, <1>a, <1>b, <1>t DEF PaymentsExact
  <1>4. \/ chain' = chain
        \/ \E e \in Transfers, tx \in Txs, o \in DOMAIN orders, f \in Fractions :
             Pay(e, tx, o, f)
        \/ \E tx \in Txs : Confirm(tx)
    <2>1. Creates => chain' = chain
      BY DEF Creates, CreateUSDTTopUpOrder
    <2>2. Settlement => chain' = chain
      BY DEF Settlement, AdvanceUSDTTopUpExpiryStates, Applied, Credit
    <2>3. Operators => chain' = chain
      BY DEF Operators, CompleteAdminTopUp, RejectAdminTopUp, DeleteUser
    <2>4. UNCHANGED orderVars => chain' = chain
      BY DEF orderVars
    <2>5. QED
      BY <2>1, <2>2, <2>3, <2>4
         DEF OrdersNext, Customers, World, Creates, CancelUSDTTopUpOrder, Tick
  <1>5. QED
    BY <1>1, <1>2, <1>3, <1>4

\* No payment is misdirected at the start.
LEMMA PaymentInit ==
  OrdersInit => PaymentInv
  BY OrdersTypeInit
  DEF PaymentInv, OrdersInit, WindowsKept, ReservationsDisjoint, PaymentsExact

\* No step misdirects one.
LEMMA PaymentStep ==
  PaymentInv /\ [OrdersNext]_orderVars => PaymentInv'
  <1>1. PaymentInv => OrdersTypeOK
    BY DEF PaymentInv
  <1>2. QED
    BY <1>1, OrdersTypeStep, WindowsStep, PaymentsStep DEF PaymentInv

\* The amount identifies the order among those whose reservation spans the
\* block time, and reservations do not overlap.
LEMMA AmountIdentifies ==
  PaymentInv => PaymentReachesItsOrder
  <1> SUFFICES ASSUME PaymentInv, NEW e \in DOMAIN chain, NEW o \in DOMAIN orders,
                      settlementEvidenceMatches(orders[o], chain[e]), InReach(chain[e]),
                      chain[e].for # o
               PROVE  FALSE
    BY DEF PaymentReachesItsOrder
  <1> DEFINE p == chain[e].for
  <1>1. p \in DOMAIN orders /\ chain[e].amount = ExactPayAmountMicros(orders[p])
    BY DEF PaymentInv, PaymentsExact
  <1>2. orders[o] \in OrderType /\ orders[p] \in OrderType /\ chain[e] \in TransferType
    BY <1>1 DEF PaymentInv, OrdersTypeOK
  <1>3. orders[o].units = orders[p].units /\ orders[o].suffix = orders[p].suffix
    <2>1. ExactPayAmountMicros(orders[o]) = ExactPayAmountMicros(orders[p])
      BY <1>1 DEF settlementEvidenceMatches
    <2>2. QED
      BY <2>1, <1>2, AmountsDiffer
  <1>4. \/ orders[o].cooldown <= orders[p].created
        \/ orders[p].cooldown <= orders[o].created
    BY <1>1, <1>3 DEF PaymentInv, ReservationsDisjoint
  <1>5. /\ orders[o].created * 1000 <= chain[e].ts
        /\ chain[e].ts <= orders[o].expires * 1000
        /\ orders[o].expires = orders[o].created + TTL
        /\ orders[o].cooldown = orders[o].created + Cooldown
    <2>1. orders[o].tx # {} /\ orders[o].blockTime = chain[e].ts
      BY DEF settlementEvidenceMatches
    <2>2. QED
      BY <2>1, SMT DEF PaymentInv, WindowsKept
  <1>6. orders[p].created * 1000 < chain[e].ts /\ chain[e].ts < orders[p].cooldown * 1000
    BY SMT DEF InReach
  <1>7. TTL \in Nat /\ Cooldown \in Nat /\ TTL <= Cooldown
    BY USDTAssumption
  <1>8. PICK oc \in Nat, pc \in Nat, pd \in Nat, ts \in Nat :
          /\ oc = orders[o].created /\ pc = orders[p].created /\ pd = orders[p].cooldown
          /\ ts = chain[e].ts
    BY <1>2 DEF OrderType, TransferType
  <1>9. /\ oc * 1000 <= ts /\ ts <= (oc + TTL) * 1000
        /\ pc * 1000 < ts /\ ts < pd * 1000
        /\ oc + Cooldown <= pc \/ pd <= oc
    BY <1>4, <1>5, <1>6, <1>8, SMT
  <1>10. QED
    BY <1>7, <1>9, SMT

(***************************************************************************)
(* Who was credited, and how often.                                        *)
(***************************************************************************)

\* An order, its top-up row and the ledger tell the same story.
OrderBooks(o) ==
  /\ orders[o].status = "settled" <=> orders[o].tx # {}
  /\ orders[o].tx # {} =>
       /\ topUps[o] = "success"
       /\ <<"topup", o>> \notin DOMAIN ledger
       /\ \E x \in Txs : orders[o].tx = {x} /\ <<"usdt-trc20", x>> \in DOMAIN ledger
  /\ topUps[o] = "success" => orders[o].tx # {} \/ <<"topup", o>> \in DOMAIN ledger
  /\ <<"topup", o>> \in DOMAIN ledger => topUps[o] = "success"

\* An operator's credit is for an order that exists, and no transaction is
\* the evidence of two orders.
CreditInv ==
  /\ OrdersTypeOK
  /\ \A o \in DOMAIN orders : OrderBooks(o)
  /\ \A o \in Orders : <<"topup", o>> \in DOMAIN ledger => o \in DOMAIN orders
  /\ \A o, p \in DOMAIN orders : o # p => orders[o].tx \cap orders[p].tx = {}

\* The invariant says what the two properties say.
LEMMA BooksBalance ==
  CreditInv => CreditedOnce /\ TopUpBacked
  BY DEF CreditInv, OrderBooks, CreditedOnce, TopUpBacked

\* An order is not disturbed by a step that leaves its evidence, its top-up
\* and its operator's credit alone, whatever else is written to the ledger.
Aside(o) ==
  /\ orders'[o].tx = orders[o].tx
  /\ orders'[o].status = "settled" <=> orders[o].status = "settled"
  /\ topUps'[o] = "success" <=> topUps[o] = "success"
  /\ <<"topup", o>> \in DOMAIN ledger' <=> <<"topup", o>> \in DOMAIN ledger

\* The books of an order are kept by a step that works on another order.
LEMMA AsideBooks ==
  ASSUME NEW o, OrderBooks(o), Aside(o), DOMAIN ledger \subseteq DOMAIN ledger'
  PROVE  OrderBooks(o)'
  BY DEF OrderBooks, Aside

\* Steps that write nothing to the ledger and leave every order aside.
LEMMA AsideStep ==
  ASSUME CreditInv, OrdersTypeOK', ledger' = ledger, DOMAIN orders' = DOMAIN orders,
         \A o \in DOMAIN orders : Aside(o)
  PROVE  CreditInv'
  <1>1. \A o \in DOMAIN orders : OrderBooks(o)'
    BY AsideBooks DEF CreditInv
  <1>2. \A o \in DOMAIN orders : orders'[o].tx = orders[o].tx
    BY DEF Aside
  <1>3. QED
    BY <1>1, <1>2 DEF CreditInv

\* They are kept by a creation,
LEMMA CreateBooks ==
  ASSUME CreditInv, OrdersTypeOK', Creates
  PROVE  CreditInv'
  <1>t. OrdersTypeOK
    BY DEF CreditInv
  <1>1. PICK o \in Orders, s \in Suffixes, u \in Users, units \in Units, a \in Addresses,
             t \in Nat :
          /\ o \notin DOMAIN orders
          /\ DOMAIN orders' = DOMAIN orders \cup {o}
          /\ orders'[o] = NewOrder(u, units, s, a, t)
          /\ \A p \in DOMAIN orders : orders'[p] = orders[p]
          /\ topUps' = With(topUps, o, "pending")
          /\ ledger' = ledger
    BY <1>t, CreateShape
  <1>2. /\ topUps'[o] = "pending"
        /\ \A p \in DOMAIN orders : topUps'[p] = topUps[p]
    BY <1>1, <1>t DEF With, OrdersTypeOK
  <1>3. OrderBooks(o)'
    <2>1. orders'[o].tx = {} /\ orders'[o].status = "pending"
      BY <1>1 DEF NewOrder
    <2>2. <<"topup", o>> \notin DOMAIN ledger'
      BY <1>1 DEF CreditInv
    <2>3. QED
      BY <1>2, <2>1, <2>2 DEF OrderBooks
  <1>4. \A p \in DOMAIN orders : OrderBooks(p)'
    BY <1>1, <1>2, AsideBooks DEF CreditInv, Aside
  <1>5. orders'[o].tx = {}
    BY <1>1 DEF NewOrder
  <1>6. QED
    BY <1>1, <1>3, <1>4, <1>5 DEF CreditInv

\* by a settlement,
LEMMA SettleBooks ==
  ASSUME CreditInv, OrdersTypeOK', Settles
  PROVE  CreditInv'
  <1>t. OrdersTypeOK
    BY DEF CreditInv
  <1>1. PICK o \in DOMAIN orders, e \in DOMAIN chain :
          /\ SettledWith(chain[e].tx) = {}
          /\ topUps[o] = "pending"
          /\ DOMAIN orders' = DOMAIN orders
          /\ orders'[o] = [orders[o] EXCEPT !.status = "settled", !.tx = {chain[e].tx},
                                            !.blockTime = chain[e].ts]
          /\ \A p \in DOMAIN orders : p # o => orders'[p] = orders[p]
          /\ topUps' = [topUps EXCEPT ![o] = "success"]
          /\ DOMAIN ledger' = DOMAIN ledger \cup {<<"usdt-trc20", chain[e].tx>>,
                                                  <<"usdt-trc20-bonus", o>>}
    BY <1>t, SettleShape
  <1>2. /\ chain[e].tx \in Txs
        /\ orders[o] \in OrderType
        /\ topUps \in [DOMAIN orders -> {"pending", "success", "expired", "rejected"}]
    BY <1>t DEF OrdersTypeOK, TransferType
  <1>3. orders'[o].tx = {chain[e].tx} /\ orders'[o].status = "settled"
    BY <1>1, <1>2 DEF OrderType
  <1>4. topUps'[o] = "success" /\ \A p \in DOMAIN orders : p # o => topUps'[p] = topUps[p]
    BY <1>1, <1>2
  <1>5. /\ \A p : <<"topup", p>> \in DOMAIN ledger' <=> <<"topup", p>> \in DOMAIN ledger
        /\ <<"usdt-trc20", chain[e].tx>> \in DOMAIN ledger'
        /\ DOMAIN ledger \subseteq DOMAIN ledger'
    BY <1>1
  <1>6. OrderBooks(o)'
    <2>1. <<"topup", o>> \notin DOMAIN ledger
      BY <1>1 DEF CreditInv, OrderBooks
    <2>2. QED
      BY <2>1, <1>2, <1>3, <1>4, <1>5 DEF OrderBooks
  <1>7. \A p \in DOMAIN orders : p # o => OrderBooks(p)'
    BY <1>1, <1>4, <1>5, AsideBooks DEF CreditInv, Aside
  <1>8. \A p, q \in DOMAIN orders : p # q => orders'[p].tx \cap orders'[q].tx = {}
    <2>1. \A p \in DOMAIN orders : chain[e].tx \notin orders[p].tx
      BY <1>1 DEF SettledWith
    <2>2. \A p \in DOMAIN orders : p # o => orders'[p].tx = orders[p].tx
      BY <1>1
    <2>3. \A p, q \in DOMAIN orders : p # q => orders[p].tx \cap orders[q].tx = {}
      BY DEF CreditInv
    <2>4. QED
      BY <2>1, <2>2, <2>3, <1>3
  <1>9. QED
    BY <1>1, <1>5, <1>6, <1>7, <1>8 DEF CreditInv

\* and by an operator's completion.
LEMMA CompleteBooks ==
  ASSUME CreditInv, OrdersTypeOK', NEW o \in DOMAIN orders, CompleteAdminTopUp(o)
  PROVE  CreditInv'
  <1>t. topUps \in [DOMAIN orders -> {"pending", "success", "expired", "rejected"}]
    BY DEF CreditInv, OrdersTypeOK
  <1>1. /\ topUps[o] = "pending" /\ orders' = orders
        /\ topUps' = [topUps EXCEPT ![o] = "success"]
        /\ DOMAIN ledger' = DOMAIN ledger \cup {<<"topup", o>>}
    <2> DEFINE n == Entry(orders[o].user, PaidQuota(orders[o]))
    <2>1. ledger' = With(ledger, <<"topup", o>>, n)
      BY DEF CompleteAdminTopUp
    <2> HIDE DEF n
    <2>2. DOMAIN ledger' = DOMAIN ledger \cup {<<"topup", o>>}
      BY <2>1 DEF With
    <2>3. QED
      BY <2>2 DEF CompleteAdminTopUp
  <1>2. topUps'[o] = "success" /\ \A p \in DOMAIN orders : p # o => topUps'[p] = topUps[p]
    BY <1>1, <1>t
  <1>3. \A p : p # o =>
          (<<"topup", p>> \in DOMAIN ledger' <=> <<"topup", p>> \in DOMAIN ledger)
    BY <1>1
  <1>4. OrderBooks(o)'
    <2>1. orders[o].tx = {} /\ orders[o].status # "settled"
      BY <1>1 DEF CreditInv, OrderBooks
    <2>2. QED
      BY <2>1, <1>1, <1>2 DEF OrderBooks
  <1>5. \A p \in DOMAIN orders : p # o => OrderBooks(p)'
    <2>1. DOMAIN ledger \subseteq DOMAIN ledger'
      BY <1>1
    <2>2. \A p \in DOMAIN orders : p # o => Aside(p)
      BY <1>1, <1>2, <1>3 DEF Aside
    <2>3. QED
      BY <2>1, <2>2, AsideBooks DEF CreditInv
  <1>6. \A p \in Orders : <<"topup", p>> \in DOMAIN ledger' => p \in DOMAIN orders'
    BY <1>1 DEF CreditInv
  <1>7. QED
    BY <1>1, <1>4, <1>5, <1>6 DEF CreditInv

\* Every step keeps the books of every order.
LEMMA CreditStep ==
  ASSUME CreditInv, [OrdersNext]_orderVars
  PROVE  CreditInv'
  <1>t. OrdersTypeOK
    BY DEF CreditInv
  <1>p. OrdersTypeOK'
    BY <1>t, OrdersTypeStep
  <1>o. /\ \A o \in DOMAIN orders : orders[o] \in OrderType
        /\ topUps \in [DOMAIN orders -> {"pending", "success", "expired", "rejected"}]
    BY <1>t DEF OrdersTypeOK
  <1>1. CASE Creates
    BY <1>1, <1>p, CreateBooks
  <1>2. ASSUME NEW o \in DOMAIN orders, CancelUSDTTopUpOrder(o)
        PROVE  CreditInv'
    <2>1. /\ ledger' = ledger /\ DOMAIN orders' = DOMAIN orders
          /\ \A p \in DOMAIN orders : Aside(p)
      BY <1>2, <1>o DEF CancelUSDTTopUpOrder, Aside, OrderType
    <2>2. QED
      BY <2>1, <1>p, AsideStep
  <1>3. ASSUME NEW t \in ReadTimes, AdvanceUSDTTopUpExpiryStates(t)
        PROVE  CreditInv'
    <2>1. ledger' = ledger /\ DOMAIN orders' = DOMAIN orders
      BY <1>3 DEF AdvanceUSDTTopUpExpiryStates
    <2>2. ASSUME NEW p \in DOMAIN orders
          PROVE  Aside(p)
      <3>1. \/ orders'[p] = orders[p]
            \/ /\ orders[p].status \in Open
               /\ orders'[p] = [orders[p] EXCEPT !.status = "expired"]
            \/ /\ orders[p].status \in Open
               /\ orders'[p] = [orders[p] EXCEPT !.status = "confirming"]
        BY <1>3 DEF AdvanceUSDTTopUpExpiryStates, PastGrace, PastWindow
      <3>2. \/ topUps'[p] = topUps[p]
            \/ topUps[p] = "pending" /\ topUps'[p] = "expired"
        BY <1>3 DEF AdvanceUSDTTopUpExpiryStates
      <3>3. orders'[p].tx = orders[p].tx
            /\ (orders'[p].status = "settled" <=> orders[p].status = "settled")
        BY <3>1, <1>o DEF OrderType, Open
      <3>4. QED
        BY <3>2, <3>3, <2>1 DEF Aside
    <2>3. QED
      BY <2>1, <2>2, <1>p, AsideStep
  <1>4. CASE Settles
    BY <1>4, <1>p, SettleBooks
  <1>5. ASSUME NEW o \in DOMAIN orders, CompleteAdminTopUp(o)
        PROVE  CreditInv'
    BY <1>5, <1>p, CompleteBooks
  <1>6. ASSUME NEW o \in DOMAIN orders, RejectAdminTopUp(o)
        PROVE  CreditInv'
    <2>1. /\ ledger' = ledger /\ orders' = orders
          /\ \A p \in DOMAIN orders : Aside(p)
      BY <1>6, <1>o DEF RejectAdminTopUp, Aside
    <2>2. QED
      BY <2>1, <1>p, AsideStep
  <1>7. CASE orders' = orders /\ topUps' = topUps /\ ledger' = ledger
    <2>1. \A p \in DOMAIN orders : Aside(p)
      BY <1>7 DEF Aside
    <2>2. QED
      BY <2>1, <1>7, <1>p, AsideStep
  <1>8. CASE Customers
    BY <1>8, <1>1, <1>2 DEF Customers, Creates
  <1>9. CASE World \/ UNCHANGED orderVars
    BY <1>9, <1>7, ZenonT(60) DEF World, Pay, Confirm, Tick, orderVars
  <1>10. CASE Operators
    BY <1>10, <1>5, <1>6, <1>7 DEF Operators, DeleteUser
  <1>11. CASE Settlement
    BY <1>11, <1>3, <1>4 DEF Settlement, Settles
  <1>12. QED
    BY <1>8, <1>9, <1>10, <1>11 DEF OrdersNext

\* At the start there is no order to keep books of.
LEMMA CreditInit ==
  OrdersInit => CreditInv
  BY OrdersTypeInit DEF OrdersInit, CreditInv

(***************************************************************************)
(* What is decided stays decided.                                          *)
(***************************************************************************)
Decided ==
  /\ \A o \in DOMAIN orders :
       /\ orders[o].status \notin Open => orders'[o] = orders[o]
       /\ topUps[o] # "pending" => topUps'[o] = topUps[o]
  /\ \A k \in DOMAIN ledger : k \in DOMAIN ledger' /\ ledger'[k] = ledger[k]

\* No step undoes a decision on an order or its top-up.
LEMMA DecidedStep ==
  ASSUME OrdersTypeOK, [OrdersNext]_orderVars
  PROVE  Decided
  <1>o. /\ \A o \in DOMAIN orders : orders[o] \in OrderType
        /\ topUps \in [DOMAIN orders -> {"pending", "success", "expired", "rejected"}]
        /\ orders \in [DOMAIN orders -> OrderType]
    BY DEF OrdersTypeOK
  <1>1. CASE Creates
    <2>1. PICK o \in Orders :
            /\ o \notin DOMAIN orders
            /\ \A p \in DOMAIN orders : orders'[p] = orders[p]
            /\ topUps' = With(topUps, o, "pending")
            /\ ledger' = ledger
      BY <1>1, CreateShape
    <2>2. \A p \in DOMAIN orders : topUps'[p] = topUps[p]
      BY <2>1, <1>o DEF With
    <2>3. QED
      BY <2>1, <2>2 DEF Decided
  <1>2. ASSUME NEW o \in DOMAIN orders, CancelUSDTTopUpOrder(o)
        PROVE  Decided
    BY <1>2, <1>o DEF CancelUSDTTopUpOrder, Decided, Open
  <1>3. ASSUME NEW t \in ReadTimes, AdvanceUSDTTopUpExpiryStates(t)
        PROVE  Decided
    BY <1>3 DEF AdvanceUSDTTopUpExpiryStates, PastGrace, PastWindow, Decided
  <1>4. CASE Settles
    <2>1. PICK o \in DOMAIN orders, e \in DOMAIN chain :
            /\ o \in Candidates(chain[e])
            /\ topUps[o] = "pending"
            /\ \A p \in DOMAIN orders : p # o => orders'[p] = orders[p]
            /\ topUps' = [topUps EXCEPT ![o] = "success"]
            /\ DOMAIN ledger' = DOMAIN ledger \cup {<<"usdt-trc20", chain[e].tx>>,
                                                    <<"usdt-trc20-bonus", o>>}
            /\ \A k \in DOMAIN ledger : ledger'[k] = ledger[k]
      BY <1>4, SettleShape
    <2>2. orders[o].status \in Open
      BY <2>1, SMT DEF Candidates
    <2>3. \A p \in DOMAIN orders : topUps[p] # "pending" => topUps'[p] = topUps[p]
      BY <2>1, <1>o
    <2>4. QED
      BY <2>1, <2>2, <2>3 DEF Decided
  <1>5. ASSUME NEW o \in DOMAIN orders, CompleteAdminTopUp(o)
        PROVE  Decided
    <2> DEFINE n == Entry(orders[o].user, PaidQuota(orders[o]))
    <2>1. /\ topUps[o] = "pending" /\ orders' = orders
          /\ topUps' = [topUps EXCEPT ![o] = "success"]
          /\ ledger' = With(ledger, <<"topup", o>>, n)
          /\ <<"topup", o>> \notin DOMAIN ledger
      BY <1>5 DEF CompleteAdminTopUp
    <2> HIDE DEF n
    <2>2. \A k \in DOMAIN ledger : k \in DOMAIN ledger' /\ ledger'[k] = ledger[k]
      BY <2>1 DEF With
    <2>3. \A p \in DOMAIN orders : topUps[p] # "pending" => topUps'[p] = topUps[p]
      BY <2>1, <1>o
    <2>4. QED
      BY <2>1, <2>2, <2>3 DEF Decided
  <1>6. ASSUME NEW o \in DOMAIN orders, RejectAdminTopUp(o)
        PROVE  Decided
    BY <1>6, <1>o DEF RejectAdminTopUp, Decided
  <1>7. CASE orders' = orders /\ topUps' = topUps /\ ledger' = ledger
    BY <1>7 DEF Decided
  <1>8. CASE Customers
    BY <1>8, <1>1, <1>2 DEF Customers, Creates
  <1>9. CASE World \/ UNCHANGED orderVars
    BY <1>9, <1>7, ZenonT(60) DEF World, Pay, Confirm, Tick, orderVars
  <1>10. CASE Operators
    BY <1>10, <1>5, <1>6, <1>7 DEF Operators, DeleteUser
  <1>11. CASE Settlement
    BY <1>11, <1>3, <1>4 DEF Settlement, Settles
  <1>12. QED
    BY <1>8, <1>9, <1>10, <1>11 DEF OrdersNext

(***************************************************************************)
(* The wallets.  A user's balance is a sum over the ledger, which grows by *)
(* one or two entries of one user when that user is credited.              *)
(***************************************************************************)
\* A ledger's rows.
Entries(table) == table \in [DOMAIN table -> [user : Users, delta : Nat \ {0}]]

\* One entry of u more, and nothing else.
Adds(before, after, u, d) ==
  \A v \in Users : /\ Booked(before, v) \in Int
                    /\ Booked(after, v) = Booked(before, v) + (IF v = u THEN d ELSE 0)

\* A new entry adds to its user's sum and to nobody else's.
LEMMA BookedGrows ==
  ASSUME NEW table, Entries(table), IsFiniteSet(DOMAIN table),
         NEW key, key \notin DOMAIN table, NEW u \in Users, NEW d \in Nat \ {0},
         NEW grown, grown = With(table, key, Entry(u, d))
  PROVE  /\ Entries(grown) /\ IsFiniteSet(DOMAIN grown)
         /\ DOMAIN grown = DOMAIN table \cup {key}
         /\ Adds(table, grown, u, d)
  <1> DEFINE f == [k \in DOMAIN table |-> table[k].delta]
             g == [k \in DOMAIN grown |-> grown[k].delta]
             Of(v) == {k \in DOMAIN table : table[k].user = v}
             OfGrown(v) == {k \in DOMAIN grown : grown[k].user = v}
  <1>1. /\ DOMAIN grown = DOMAIN table \cup {key}
        /\ grown[key].user = u /\ grown[key].delta = d
        /\ \A k \in DOMAIN table : grown[k] = table[k]
    BY DEF With, Entry
  <1>2. Entries(grown)
    BY DEF Entries, With, Entry
  <1>3. IsFiniteSet(DOMAIN grown)
    BY <1>1, FS_AddElement
  <1>4. ASSUME NEW v \in Users
        PROVE  /\ Booked(table, v) \in Int
               /\ Booked(grown, v) = Booked(table, v) + (IF v = u THEN d ELSE 0)
    <2>1. /\ IsFiniteSet(Of(v)) /\ \A k \in Of(v) : f[k] \in Int
          /\ \A k \in Of(v) : f[k] = g[k]
      <3>1. Of(v) \in SUBSET DOMAIN table
        OBVIOUS
      <3>2. \A k \in DOMAIN table : table[k].delta \in Int
        BY DEF Entries
      <3>3. \A k \in DOMAIN table : f[k] = table[k].delta /\ g[k] = table[k].delta
        BY <1>1
      <3> QED
        BY <3>1, <3>2, <3>3, FS_Subset
    <2>2. Booked(table, v) = SumFunctionOnSet(f, Of(v))
      BY DEF Booked
    <2>3. Booked(grown, v) = SumFunctionOnSet(g, OfGrown(v))
      BY DEF Booked
    <2>4. SumFunctionOnSet(f, Of(v)) \in Int
      <3> HIDE DEF f, Of
      <3> QED
        BY <2>1, SumType
    <2>5. SumFunctionOnSet(f, Of(v)) = SumFunctionOnSet(g, Of(v))
      <3> HIDE DEF f, g, Of
      <3> QED
        BY <2>1, SumAgrees
    <2>6. CASE v # u
      <3>1. \A k : k \in OfGrown(v) <=> k \in Of(v)
        BY <1>1, <2>6
      <3>2. OfGrown(v) = Of(v)
        <4> HIDE DEF Of, OfGrown
        <4> QED
          BY <3>1
      <3> HIDE DEF f, g, Of, OfGrown
      <3> QED
        BY <2>2, <2>3, <2>4, <2>5, <2>6, <3>2
    <2>7. CASE v = u
      <3>1. OfGrown(v) = Of(v) \cup {key} /\ key \notin Of(v)
        BY <1>1, <2>7
      <3>2. IsFiniteSet(OfGrown(v)) /\ key \in OfGrown(v) /\ OfGrown(v) \ {key} = Of(v)
        <4> HIDE DEF Of, OfGrown
        <4> QED
          BY <2>1, <3>1, FS_AddElement
      <3>3. g[key] = d /\ d \in Int
        BY <1>1
      <3>4. \A k \in OfGrown(v) : g[k] \in Int
        BY <2>1, <3>1, <3>3
      <3>5. SumFunctionOnSet(g, OfGrown(v)) = g[key] + SumFunctionOnSet(g, OfGrown(v) \ {key})
        <4> HIDE DEF g, OfGrown
        <4> QED
          BY <3>2, <3>4, SumOfOthers
      <3> HIDE DEF f, g, Of, OfGrown
      <3> QED
        BY <2>2, <2>3, <2>4, <2>5, <2>7, <3>2, <3>3, <3>5
    <2> QED
      BY <2>6, <2>7
  <1> QED
    BY <1>1, <1>2, <1>3, <1>4 DEF Adds

\* What a credit writes to the balance.
LEMMA CreditedBalance ==
  ASSUME NEW r \in UserType, NEW after
  PROVE  balanceLedgerUserUpdates(r, after, FALSE).quota = after
  BY DEF balanceLedgerUserUpdates, UserType

\* The invariant of the books: the sums are over finitely many entries.
BookInv ==
  /\ OrdersTypeOK
  /\ IsFiniteSet(DOMAIN ledger)
  /\ WalletIsLedger

\* Settling an order credits its user with both entries.
LEMMA SettleBooked ==
  ASSUME BookInv, NEW e \in DOMAIN chain, Applied(chain[e])
  PROVE  IsFiniteSet(DOMAIN ledger') /\ WalletIsLedger'
  <1>1. PICK o \in DOMAIN orders : CanCredit(o, chain[e].tx) /\ Credit(o, chain[e])
    BY DEF Applied
  <1> DEFINE u == orders[o].user
             paid == PaidQuota(orders[o])
             bonus == BonusQuota(orders[o])
             k1 == <<"usdt-trc20", chain[e].tx>>
             k2 == <<"usdt-trc20-bonus", o>>
             first == With(ledger, k1, Entry(u, paid))
  <1>2. /\ orders[o] \in OrderType /\ u \in Users /\ users \in [Users -> UserType]
        /\ Entries(ledger) /\ IsFiniteSet(DOMAIN ledger)
    BY DEF BookInv, OrdersTypeOK, OrderType, Entries
  <1>3. paid \in Nat \ {0} /\ bonus \in Nat \ {0}
    BY <1>1, <1>2, QuotaType DEF CanCredit
  <1>4. k1 \notin DOMAIN ledger /\ k2 \notin DOMAIN ledger /\ k1 # k2
    BY <1>1 DEF CanCredit
  <1>5. /\ ledger' = With(first, k2, Entry(u, bonus))
        /\ users' = [users EXCEPT ![u] = balanceLedgerUserUpdates(users[u],
                                           users[u].quota + paid + bonus, FALSE)]
    BY <1>1 DEF Credit
  <1> HIDE DEF u, paid, bonus, k1, k2
  <1>6. /\ Entries(first) /\ IsFiniteSet(DOMAIN first)
        /\ DOMAIN first = DOMAIN ledger \cup {k1}
        /\ Adds(ledger, first, u, paid)
    BY <1>2, <1>3, <1>4, BookedGrows
  <1> HIDE DEF first
  <1>7. /\ IsFiniteSet(DOMAIN ledger')
        /\ Adds(first, ledger', u, bonus)
    <2> DEFINE second == With(first, k2, Entry(u, bonus))
    <2>1. k2 \notin DOMAIN first
      BY <1>4, <1>6
    <2>2. /\ Entries(second) /\ IsFiniteSet(DOMAIN second)
          /\ DOMAIN second = DOMAIN first \cup {k2}
          /\ Adds(first, second, u, bonus)
      BY <1>2, <1>3, <1>6, <2>1, BookedGrows
    <2> HIDE DEF second
    <2> QED
      BY <1>5, <2>2 DEF second
  <1>8. users'[u].quota = users[u].quota + paid + bonus
    BY <1>2, <1>5, CreditedBalance
  <1>9. ASSUME NEW v \in Users PROVE users'[v].quota = InitialQuota + Booked(ledger', v)
    <2>1. users[v].quota = InitialQuota + Booked(ledger, v)
      BY DEF BookInv, WalletIsLedger
    <2>2. InitialQuota \in Int
      BY USDTAssumption
    <2>3. CASE v = u
      <3>1. Booked(ledger', v) = Booked(ledger, v) + paid + bonus
        BY <1>3, <1>6, <1>7, <2>3 DEF Adds
      <3>2. Booked(ledger, v) \in Int
        BY <1>6 DEF Adds
      <3> QED
        BY <1>3, <1>8, <2>1, <2>2, <2>3, <3>1, <3>2
    <2>4. CASE v # u
      <3>1. Booked(ledger', v) = Booked(ledger, v)
        BY <1>6, <1>7, <2>4 DEF Adds
      <3>2. users'[v] = users[v]
        BY <1>2, <1>5, <2>4
      <3> QED
        BY <2>1, <3>1, <3>2
    <2> QED
      BY <2>3, <2>4
  <1> QED
    BY <1>7, <1>9 DEF WalletIsLedger

\* An operator's completion credits the paid quota alone.
LEMMA CompleteBooked ==
  ASSUME BookInv, NEW o \in DOMAIN orders, CompleteAdminTopUp(o)
  PROVE  IsFiniteSet(DOMAIN ledger') /\ WalletIsLedger'
  <1> DEFINE u == orders[o].user
             paid == PaidQuota(orders[o])
             k == <<"topup", o>>
  <1>1. /\ orders[o] \in OrderType /\ u \in Users /\ users \in [Users -> UserType]
        /\ Entries(ledger) /\ IsFiniteSet(DOMAIN ledger)
    BY DEF BookInv, OrdersTypeOK, OrderType, Entries
  <1>2. paid \in Nat \ {0}
    BY <1>1, QuotaType DEF CompleteAdminTopUp
  <1>3. /\ k \notin DOMAIN ledger
        /\ ledger' = With(ledger, k, Entry(u, paid))
        /\ users' = [users EXCEPT ![u] = balanceLedgerUserUpdates(users[u],
                                           users[u].quota + paid, FALSE)]
    BY DEF CompleteAdminTopUp
  <1> HIDE DEF u, paid, k
  <1>4. /\ IsFiniteSet(DOMAIN ledger')
        /\ Adds(ledger, ledger', u, paid)
    <2> DEFINE after == With(ledger, k, Entry(u, paid))
    <2>1. /\ Entries(after) /\ IsFiniteSet(DOMAIN after)
          /\ DOMAIN after = DOMAIN ledger \cup {k}
          /\ Adds(ledger, after, u, paid)
      <3>1. k \notin DOMAIN ledger
        BY <1>3
      <3> QED
        BY <1>1, <1>2, <3>1, BookedGrows
    <2> HIDE DEF after
    <2> QED
      BY <1>3, <2>1 DEF after
  <1>5. users'[u].quota = users[u].quota + paid
    BY <1>1, <1>3, CreditedBalance
  <1>6. ASSUME NEW v \in Users PROVE users'[v].quota = InitialQuota + Booked(ledger', v)
    <2>1. users[v].quota = InitialQuota + Booked(ledger, v)
      BY DEF BookInv, WalletIsLedger
    <2>2. InitialQuota \in Int
      BY USDTAssumption
    <2>3. CASE v = u
      BY <1>2, <1>4, <1>5, <2>1, <2>2, <2>3 DEF Adds
    <2>4. CASE v # u
      <3>1. users'[v] = users[v]
        BY <1>1, <1>3, <2>4
      <3> QED
        BY <1>4, <2>1, <2>4, <3>1 DEF Adds
    <2> QED
      BY <2>3, <2>4
  <1> QED
    BY <1>4, <1>6 DEF WalletIsLedger

\* Every step keeps the wallets equal to their ledger.
LEMMA BookStep ==
  BookInv /\ [OrdersNext]_orderVars => BookInv'
  <1> SUFFICES ASSUME BookInv, [OrdersNext]_orderVars
               PROVE  IsFiniteSet(DOMAIN ledger') /\ WalletIsLedger'
    BY OrdersTypeStep DEF BookInv
  <1>1. ASSUME users' = users, ledger' = ledger
        PROVE  IsFiniteSet(DOMAIN ledger') /\ WalletIsLedger'
    BY <1>1 DEF BookInv, WalletIsLedger
  <1>2. CASE Customers
    BY <1>1, <1>2 DEF Customers, CreateUSDTTopUpOrder, CancelUSDTTopUpOrder
  <1>3. CASE World
    BY <1>1, <1>3, ZenonT(60) DEF World, Pay, Confirm, Tick
  <1>4. ASSUME NEW u \in Users, DeleteUser(u)
        PROVE  IsFiniteSet(DOMAIN ledger') /\ WalletIsLedger'
    <2>1. /\ ledger' = ledger /\ users \in [Users -> UserType]
          /\ users' = [users EXCEPT ![u] = [users[u] EXCEPT !.deleted = TRUE]]
      BY <1>4 DEF DeleteUser, BookInv, OrdersTypeOK
    <2>2. \A v \in Users : users'[v].quota = users[v].quota
      BY <2>1 DEF UserType
    <2> QED
      BY <2>1, <2>2 DEF BookInv, WalletIsLedger
  <1>5. CASE Operators
    BY <1>1, <1>4, <1>5, CompleteBooked DEF Operators, RejectAdminTopUp
  <1>6. CASE Settlement
    BY <1>1, <1>6, SettleBooked DEF Settlement, AdvanceUSDTTopUpExpiryStates
  <1>7. CASE UNCHANGED orderVars
    BY <1>1, <1>7 DEF orderVars
  <1> QED
    BY <1>2, <1>3, <1>5, <1>6, <1>7 DEF OrdersNext

\* At the start the ledger is empty.
LEMMA BookInit ==
  OrdersInit => BookInv
  <1> SUFFICES ASSUME OrdersInit PROVE BookInv
    OBVIOUS
  <1>1. DOMAIN ledger = {}
    BY DEF OrdersInit
  <1>2. ASSUME NEW u \in Users PROVE users[u].quota = InitialQuota + Booked(ledger, u)
    <2> DEFINE f == [k \in DOMAIN ledger |-> ledger[k].delta]
               mine == {k \in DOMAIN ledger : ledger[k].user = u}
    <2>1. mine = {}
      BY <1>1
    <2>2. Booked(ledger, u) = SumFunctionOnSet(f, mine)
      BY DEF Booked
    <2> HIDE DEF f, mine
    <2>3. Booked(ledger, u) = 0
      BY <2>1, <2>2, SumOfNone
    <2>4. users[u].quota = InitialQuota
      BY DEF OrdersInit
    <2> QED
      BY <2>3, <2>4, USDTAssumption
  <1> QED
    BY <1>1, <1>2, OrdersTypeInit, FS_EmptySet DEF BookInv, WalletIsLedger

(***************************************************************************)
(* The theorems.                                                           *)
(***************************************************************************)

\* Every balance fits its column and every row refers to existing rows, for
\* any number of customers, orders and transfers.
THEOREM OrdersTypeCorrect == OrdersSpec => []OrdersTypeOK
  <1>1. OrdersInit => OrdersTypeOK
    BY OrdersTypeInit
  <1>2. OrdersTypeOK /\ [OrdersNext]_orderVars => OrdersTypeOK'
    BY OrdersTypeStep
  <1>3. QED
    BY <1>1, <1>2, PTL DEF OrdersSpec

\* CreateUSDTTopUpOrder never gives two orders of one amount a suffix whose
\* reservations overlap.
THEOREM ReservationsNeverOverlap == OrdersSpec => []ReservationsDisjoint
  <1>1. PaymentInv => ReservationsDisjoint
    BY DEF PaymentInv
  <1>2. QED
    BY <1>1, PaymentInit, PaymentStep, PTL DEF OrdersSpec

\* SettleUSDTTopUp never credits a payment made within its own order's
\* reservation to another order.
THEOREM PaymentNeverMisdirected == OrdersSpec => []PaymentReachesItsOrder
  BY AmountIdentifies, PaymentInit, PaymentStep, PTL DEF OrdersSpec

\* Settlement and ProcessAdminTopUp never both credit an order, and no
\* transaction is credited twice.
THEOREM NobodyCreditedTwice == OrdersSpec => []CreditedOnce
  <1>1. CreditInv /\ [OrdersNext]_orderVars => CreditInv'
    BY CreditStep
  <1>2. CreditInv => CreditedOnce
    BY BooksBalance
  <1>3. QED
    BY <1>1, <1>2, CreditInit, PTL DEF OrdersSpec

\* A top-up is shown as paid exactly when its ledger row exists.
THEOREM TopUpsBacked == OrdersSpec => []TopUpBacked
  <1>1. CreditInv /\ [OrdersNext]_orderVars => CreditInv'
    BY CreditStep
  <1>2. CreditInv => TopUpBacked
    BY BooksBalance
  <1>3. QED
    BY <1>1, <1>2, CreditInit, PTL DEF OrdersSpec

\* Closed orders, decided top-ups and ledger rows never change again.
THEOREM DecisionsFinal == OrdersSpec => Final
  <1>1. OrdersTypeOK /\ [OrdersNext]_orderVars => [Decided]_orderVars
    BY DecidedStep
  <1>2. OrdersTypeOK /\ [OrdersNext]_orderVars => OrdersTypeOK'
    BY OrdersTypeStep
  <1>3. QED
    BY <1>1, <1>2, OrdersTypeInit, PTL DEF OrdersSpec, Final, Decided

\* Every wallet is the opening balance and the sum of its user's ledger rows,
\* whichever path credited it: Credit writes two, ProcessAdminTopUp one.
THEOREM WalletsAreTheirLedgers == OrdersSpec => []WalletIsLedger
  <1>1. BookInv => WalletIsLedger
    BY DEF BookInv
  <1>2. QED
    BY <1>1, BookInit, BookStep, PTL DEF OrdersSpec

(***************************************************************************)
(* The watchers implement the orders: a step of WatcherSpec is a step of   *)
(* OrdersSpec or leaves the orders alone.  The one thing a watcher         *)
(* remembers that matters is its list of transfers: what it has listed was *)
(* confirmed, and on the chain it stays confirmed.                         *)
(***************************************************************************)


QueueConfirmed ==
  \A w \in Watchers : \A e \in watcher[w].queue : e \in DOMAIN chain /\ chain[e].confirmed

WatcherInv == WatcherTypeOK /\ QueueConfirmed

\* A confirmed transfer stays on the chain and stays confirmed.
ChainKept ==
  \A e \in DOMAIN chain : chain[e].confirmed => e \in DOMAIN chain' /\ chain'[e].confirmed

\* What the steps of a cycle do to the orders.
LEMMA CycleImplements ==
  ASSUME WatcherInv, NEW w \in Watchers, Cycle(w) \/ Breakdown(w)
  PROVE  Settlement \/ UNCHANGED orderVars
  <1>1. ASSUME NEW e, e \in watcher[w].queue, Applied(chain[e])
        PROVE  Settlement
    BY <1>1 DEF WatcherInv, QueueConfirmed, Settlement
  <1>2. CASE Cycle(w)
    BY <1>1, <1>2 DEF Cycle, StartCycle, ListOrders, AcquireLease, QueryChain, QueryFails,
                      SettleNext, FinishCycle, Settlement
  <1>3. CASE Breakdown(w)
    BY <1>1, <1>3 DEF Breakdown, SettleUnacknowledged, DatabaseFails, CrashWatcher
  <1>4. QED
    BY <1>2, <1>3

\* A step of a watcher is a step of the orders, or leaves them alone.
LEMMA StepImplements ==
  ASSUME WatcherInv, [WatcherNext]_watcherVars
  PROVE  [OrdersNext]_orderVars
  <1>1. CASE Environment
    <2>1. ASSUME NEW w \in Watchers, NEW u \in Users, NEW o \in Orders, NEW units \in Units,
                 NEW t \in ReadTimes, CreateUSDTTopUpOrder(u, o, units, Deployed[w], t)
          PROVE  Customers
      <3>1. Deployed[w] \in Addresses
        BY WatcherAssumption
      <3>2. QED
        BY <2>1, <3>1 DEF Customers
    <2>2. QED
      BY <1>1, <2>1 DEF Environment, OrdersNext, Customers
  <1>2. ASSUME NEW w \in Watchers, Cycle(w) \/ Breakdown(w)
        PROVE  [OrdersNext]_orderVars
    BY <1>2, CycleImplements DEF OrdersNext
  <1>3. CASE UNCHANGED watcherVars
    BY <1>3 DEF watcherVars, orderVars
  <1>4. QED
    BY <1>1, <1>2, <1>3 DEF WatcherNext

\* A confirmed transfer stays on the chain.
LEMMA ChainStep ==
  ASSUME OrdersTypeOK, [OrdersNext]_orderVars
  PROVE  ChainKept
  <1>1. CASE chain' = chain
    BY <1>1 DEF ChainKept
  <1>2. ASSUME NEW e \in Transfers, NEW tx \in Txs, NEW o \in DOMAIN orders,
               NEW f \in Fractions, Pay(e, tx, o, f)
        PROVE  ChainKept
    <2> DEFINE new == [tx |-> tx, to |-> orders[o].address,
                       amount |-> ExactPayAmountMicros(orders[o]), ts |-> clock * 1000 + f,
                       confirmed |-> FALSE, for |-> o]
    <2>1. chain' = With(chain, e, new) /\ e \notin DOMAIN chain
      BY <1>2, Zenon DEF Pay
    <2> HIDE DEF new
    <2>2. QED
      BY <2>1 DEF With, ChainKept
  <1>3. ASSUME NEW tx \in Txs, Confirm(tx)
        PROVE  ChainKept
    <2>1. \A e \in DOMAIN chain : chain[e] \in TransferType
      BY DEF OrdersTypeOK
    <2>2. QED
      BY <1>3, <2>1 DEF Confirm, TransferType, ChainKept
  <1>4. \/ chain' = chain
        \/ \E e \in Transfers, tx \in Txs, o \in DOMAIN orders, f \in Fractions :
             Pay(e, tx, o, f)
        \/ \E tx \in Txs : Confirm(tx)
    <2>1. Customers => chain' = chain
      BY DEF Customers, CreateUSDTTopUpOrder, CancelUSDTTopUpOrder
    <2>2. Settlement => chain' = chain
      BY DEF Settlement, AdvanceUSDTTopUpExpiryStates, Applied, Credit
    <2>3. Operators => chain' = chain
      BY DEF Operators, CompleteAdminTopUp, RejectAdminTopUp, DeleteUser
    <2>4. UNCHANGED orderVars => chain' = chain
      BY DEF orderVars
    <2>5. QED
      BY <2>1, <2>2, <2>3, <2>4 DEF OrdersNext, World, Tick
  <1>5. QED
    BY <1>1, <1>2, <1>3, <1>4

\* How a step of w moves it through its cycle: it rests, reads the time, or goes
\* on with the time it has read, to the query only with the lease.
Paced(w, m) ==
  \/ m.pc = "wait"
  \/ m.pc = "list" /\ m.now \in ReadTimes
  \/ /\ m.now = watcher[w].now
     /\ \/ watcher[w].pc = "list" /\ m.pc = "lease"
        \/ watcher[w].pc = "lease" /\ m.pc = "query" /\ AcquireLease(w)
        \/ watcher[w].pc \in {"query", "settle"} /\ m.pc = "settle"

\* What a step of w makes of its memory: a well-typed one, in which every
\* transfer was listed before or is confirmed now.
Remembers(w) ==
  \E m \in WatcherType :
    /\ watcher' = [watcher EXCEPT ![w] = m]
    /\ Paced(w, m)
    /\ m.queue \subseteq watcher[w].queue \cup {e \in DOMAIN chain : chain[e].confirmed}

\* A watcher at rest remembers no transfer.
LEMMA RestRemembers ==
  ASSUME NEW w, NEW n \in Nat, Rest(w, n)
  PROVE  Remembers(w)
  <1>1. Idle(n) \in WatcherType /\ Idle(n).queue = {} /\ Idle(n).pc = "wait"
    BY DEF Idle, WatcherType
  <1>2. QED
    BY <1>1 DEF Rest, Remembers, Paced

\* Nor does one whose cycle failed.
LEMMA FailRemembers ==
  ASSUME NEW w, NEW n \in Nat, Fail(w, n)
  PROVE  Remembers(w)
  <1>1. PICK d \in Delays : Rest(w, n + d)
    BY DEF Fail
  <1>2. Delays \subseteq Nat
    BY WatcherAssumption
  <1>3. n + d \in Nat
    BY <1>2
  <1>4. QED
    BY <1>1, <1>3, RestRemembers

\* Through its cycle a watcher remembers only what the chain showed it.
LEMMA CycleRemembers ==
  ASSUME WatcherInv, NEW w \in Watchers, Cycle(w) \/ Breakdown(w)
  PROVE  Remembers(w)
  <1>t. /\ watcher \in [Watchers -> WatcherType] /\ watcher[w] \in WatcherType
        /\ watcher[w].now \in Nat /\ watcher[w].nextPoll \in Nat /\ clock \in Nat
    BY DEF WatcherInv, WatcherTypeOK, WatcherType, OrdersTypeOK
  <1>i. PollInterval \in Nat
    BY WatcherAssumption
  <1>n. watcher[w].now + PollInterval \in Nat
    BY <1>t, <1>i
  <1>1. CASE StartCycle(w)
    <2>1. PICK t \in ReadTimes : watcher' = [watcher EXCEPT ![w].pc = "list", ![w].now = t]
      BY <1>1 DEF StartCycle
    <2>2. t \in Nat
      BY <1>t DEF ReadTimes
    <2> DEFINE m == [watcher[w] EXCEPT !.pc = "list", !.now = t]
    <2>3. m \in WatcherType /\ m.queue = watcher[w].queue /\ m.pc = "list" /\ m.now = t
      BY <1>t, <2>2 DEF WatcherType
    <2>4. watcher' = [watcher EXCEPT ![w] = m]
      BY <2>1, <1>t
    <2> HIDE DEF m
    <2>5. QED
      BY <2>3, <2>4 DEF Remembers, Paced
  <1>2. CASE ListOrders(w)
    <2>1. CASE Rest(w, 0) \/ Rest(w, watcher[w].nextPoll)
      BY <2>1, <1>t, RestRemembers
    <2>2. CASE \E o \in Oldest(Reconcilable(watcher[w].now)) :
                 watcher' = [watcher EXCEPT ![w].pc = "lease", ![w].since = orders[o].created]
      <3>1. PICK o \in Oldest(Reconcilable(watcher[w].now)) :
              watcher' = [watcher EXCEPT ![w].pc = "lease", ![w].since = orders[o].created]
        BY <2>2
      <3>2. o \in DOMAIN orders
        BY DEF Oldest, Reconcilable
      <3>3. orders[o].created \in Nat
        BY <3>2 DEF WatcherInv, WatcherTypeOK, OrdersTypeOK, OrderType
      <3> DEFINE m == [watcher[w] EXCEPT !.pc = "lease", !.since = orders[o].created]
      <3>4. /\ m \in WatcherType /\ m.queue = watcher[w].queue
            /\ m.pc = "lease" /\ m.now = watcher[w].now
        BY <1>t, <3>3 DEF WatcherType
      <3>5. watcher' = [watcher EXCEPT ![w] = m]
        BY <3>1, <1>t
      <3> HIDE DEF m
      <3>6. QED
        BY <1>2, <3>4, <3>5 DEF Remembers, Paced, ListOrders
    <2>3. QED
      BY <1>2, <2>1, <2>2 DEF ListOrders
  <1>3. CASE AcquireLease(w)
    <2>1. CASE Rest(w, watcher[w].now + PollInterval)
      BY <2>1, <1>n, RestRemembers
    <2>2. CASE watcher' = [watcher EXCEPT ![w].pc = "query"]
      <3> DEFINE m == [watcher[w] EXCEPT !.pc = "query"]
      <3>1. /\ m \in WatcherType /\ m.queue = watcher[w].queue
            /\ m.pc = "query" /\ m.now = watcher[w].now
        BY <1>t DEF WatcherType
      <3>2. watcher' = [watcher EXCEPT ![w] = m]
        BY <2>2, <1>t
      <3> HIDE DEF m
      <3>3. QED
        BY <1>3, <3>1, <3>2 DEF Remembers, Paced, AcquireLease
    <2>3. QED
      BY <1>3, <2>1, <2>2 DEF AcquireLease
  <1>4. CASE QueryChain(w)
    <2>1. PICK S \in SUBSET Visible(w) :
            watcher' = [watcher EXCEPT ![w].pc = "settle", ![w].queue = S]
      BY <1>4 DEF QueryChain
    <2>2. S \subseteq {e \in DOMAIN chain : chain[e].confirmed} /\ S \subseteq Transfers
      BY DEF Visible, WatcherInv, WatcherTypeOK, OrdersTypeOK
    <2> DEFINE m == [watcher[w] EXCEPT !.pc = "settle", !.queue = S]
    <2>3. m \in WatcherType /\ m.queue = S /\ m.pc = "settle" /\ m.now = watcher[w].now
      BY <1>t, <2>2 DEF WatcherType
    <2>4. watcher' = [watcher EXCEPT ![w] = m]
      BY <2>1, <1>t
    <2> HIDE DEF m
    <2>5. QED
      BY <1>4, <2>2, <2>3, <2>4 DEF Remembers, Paced, QueryChain
  <1>5. CASE Fail(w, watcher[w].now)
    BY <1>5, <1>t, FailRemembers
  <1>6. ASSUME NEW e, Done(w, e), watcher[w].pc = "settle"
        PROVE  Remembers(w)
    <2> DEFINE m == [watcher[w] EXCEPT !.queue = watcher[w].queue \ {e}]
    <2>1. /\ m \in WatcherType /\ m.queue \subseteq watcher[w].queue
          /\ m.pc = watcher[w].pc /\ m.now = watcher[w].now
      BY <1>t DEF WatcherType
    <2>2. watcher' = [watcher EXCEPT ![w] = m]
      BY <1>6, <1>t DEF Done
    <2> HIDE DEF m
    <2>3. QED
      BY <1>6, <2>1, <2>2 DEF Remembers, Paced
  <1>7. CASE FinishCycle(w)
    BY <1>7, <1>n, RestRemembers DEF FinishCycle
  <1>8. CASE CrashWatcher(w)
    BY <1>8, RestRemembers DEF CrashWatcher
  <1>9. QED
    BY <1>1, <1>2, <1>3, <1>4, <1>5, <1>6, <1>7, <1>8
       DEF Cycle, Breakdown, QueryFails, SettleNext, SettleUnacknowledged, DatabaseFails

\* The lease table and the fault counter.
LEMMA LeaseType ==
  ASSUME WatcherInv, NEW w \in Watchers, Cycle(w) \/ Breakdown(w)
  PROVE  /\ lease' \in [Addresses -> [holder : Watchers \cup {NoHolder}, expires : Nat]]
         /\ faults' \in 0..MaxFaults
  <1>t. /\ lease \in [Addresses -> [holder : Watchers \cup {NoHolder}, expires : Nat]]
        /\ faults \in 0..MaxFaults /\ watcher[w].now \in Nat
    BY DEF WatcherInv, WatcherTypeOK, WatcherType
  <1>a. LeaseDuration \in Nat /\ MaxFaults \in Nat /\ Deployed[w] \in Addresses
    BY WatcherAssumption
  <1>1. CASE UNCHANGED <<lease, faults>>
    BY <1>1, <1>t
  <1>2. CASE AcquireLease(w)
    BY <1>2, <1>t, <1>a DEF AcquireLease
  <1>3. Fault => faults' \in 0..MaxFaults
    BY <1>t, <1>a DEF Fault
  <1>4. CASE CrashWatcher(w)
    BY <1>4, <1>3, <1>t DEF CrashWatcher
  <1>5. CASE Fault /\ UNCHANGED lease
    BY <1>5, <1>3, <1>t
  <1>6. QED
    BY <1>1, <1>2, <1>4, <1>5
       DEF Cycle, Breakdown, StartCycle, ListOrders, QueryChain, QueryFails, SettleNext,
           FinishCycle, SettleUnacknowledged, DatabaseFails

\* Every step keeps what the watchers remember true.
LEMMA WatcherStep ==
  ASSUME WatcherInv, [WatcherNext]_watcherVars
  PROVE  WatcherInv'
  <1>t. OrdersTypeOK /\ watcher \in [Watchers -> WatcherType]
    BY DEF WatcherInv, WatcherTypeOK
  <1>o. OrdersTypeOK' /\ ChainKept
    BY <1>t, StepImplements, OrdersTypeStep, ChainStep
  <1>1. CASE UNCHANGED <<watcher, lease, faults>>
    BY <1>1, <1>o DEF WatcherInv, WatcherTypeOK, QueueConfirmed, ChainKept
  <1>2. ASSUME NEW w \in Watchers, Cycle(w) \/ Breakdown(w)
        PROVE  WatcherInv'
    <2>1. PICK m \in WatcherType :
            /\ watcher' = [watcher EXCEPT ![w] = m]
            /\ m.queue \subseteq watcher[w].queue \cup {e \in DOMAIN chain : chain[e].confirmed}
      BY <1>2, CycleRemembers DEF Remembers
    <2>2. watcher' \in [Watchers -> WatcherType]
      BY <2>1, <1>t
    <2>3. QueueConfirmed'
      <3>1. \A v \in Watchers : watcher'[v].queue \subseteq
              watcher[v].queue \cup {e \in DOMAIN chain : chain[e].confirmed}
        BY <2>1, <1>t
      <3>2. QED
        BY <3>1, <1>o DEF WatcherInv, QueueConfirmed, ChainKept
    <2>4. QED
      BY <2>2, <2>3, <1>2, <1>o, LeaseType DEF WatcherInv, WatcherTypeOK
  <1>3. QED
    BY <1>1, <1>2 DEF WatcherNext, Environment, watcherVars

\* At the start they remember nothing.
LEMMA WatcherInitInv ==
  WatcherInit => WatcherInv
  <1> SUFFICES ASSUME WatcherInit PROVE WatcherInv
    OBVIOUS
  <1>1. OrdersTypeOK
    BY OrdersTypeInit DEF WatcherInit
  <1>2. watcher \in [Watchers -> WatcherType] /\ \A w \in Watchers : watcher[w].queue = {}
    BY DEF WatcherInit, Idle, WatcherType
  <1>3. MaxFaults \in Nat
    BY WatcherAssumption
  <1>4. QED
    BY <1>1, <1>2, <1>3 DEF WatcherInit, WatcherInv, WatcherTypeOK, QueueConfirmed

\* Watchers, leases and orders keep their types for any number of watchers.
THEOREM WatcherTypeCorrect == WatcherSpec => []WatcherTypeOK
  <1>1. WatcherInv /\ [WatcherNext]_watcherVars => WatcherInv'
    BY WatcherStep
  <1>2. WatcherInv => WatcherTypeOK
    BY DEF WatcherInv
  <1>3. QED
    BY <1>1, <1>2, WatcherInitInv, PTL DEF WatcherSpec

\* pollOnce does to the orders only what USDTOrders allows: the theorems
\* about OrdersSpec hold for any number of watchers, crashes and lost answers.
THEOREM WatchersRefineOrders == WatcherSpec => WatcherImplementsOrders
  <1>1. WatcherInit => OrdersInit
    BY DEF WatcherInit
  <1>2. WatcherInv /\ [WatcherNext]_watcherVars => [OrdersNext]_orderVars
    BY StepImplements
  <1>3. WatcherInv /\ [WatcherNext]_watcherVars => WatcherInv'
    BY WatcherStep
  <1>4. QED
    BY <1>1, <1>2, <1>3, WatcherInitInv, PTL DEF WatcherSpec, WatcherImplementsOrders, OrdersSpec
-----------------------------------------------------------------------------
\* A cycle that outlived its lease: time has moved on by a lease, the row runs at
\* least a lease longer than this cycle's did, and the process that holds it now
\* began its next cycle no earlier than the lag of a clock allows.
Outlived(w) ==
  LET row == lease[Deployed[w]]
      now == watcher[w].now
  IN /\ now + LeaseDuration <= clock
     /\ now + 2 * LeaseDuration <= row.expires + MaxLag
     /\ \A h \in Watchers : row.holder = h /\ watcher[h].pc \in {"list", "lease"} =>
          now + LeaseDuration <= watcher[h].now + MaxLag

\* What the row says of w's cycle: while w holds it, it runs from the time the
\* cycle read; somebody else holds it only when w outlived it.
LeaseRow(w) ==
  LET row == lease[Deployed[w]] IN
  /\ watcher[w].pc # "wait" => watcher[w].now <= clock
  /\ Polling(w) /\ row.holder = w => row.expires = watcher[w].now + LeaseDuration
  /\ Polling(w) /\ row.holder # w => Outlived(w)

LeaseInv == LeaseExclusive /\ \A w \in Watchers : LeaseRow(w)

\* Time does not run backwards.
LEMMA ClockStep ==
  ASSUME OrdersTypeOK, [OrdersNext]_orderVars
  PROVE  clock \in Nat /\ clock' \in Nat /\ clock <= clock'
  <1>t. clock \in Nat
    BY DEF OrdersTypeOK
  <1>1. Customers => clock' = clock
    BY DEF Customers, CreateUSDTTopUpOrder, CancelUSDTTopUpOrder
  <1>2. Settlement => clock' = clock
    BY DEF Settlement, AdvanceUSDTTopUpExpiryStates, Applied, Credit
  <1>3. Operators => clock' = clock
    BY DEF Operators, CompleteAdminTopUp, RejectAdminTopUp, DeleteUser
  <1>4. World => clock' = clock \/ clock' = clock + 1
    <2>1. Tick => clock' = clock + 1
      BY DEF Tick
    <2>2. \A e \in Transfers, tx \in Txs, o \in DOMAIN orders, fraction \in Fractions :
            Pay(e, tx, o, fraction) => clock' = clock
      BY DEF Pay
    <2>3. \A tx \in Txs : Confirm(tx) => clock' = clock
      BY DEF Confirm
    <2>4. QED
      BY <2>1, <2>2, <2>3 DEF World
  <1>5. UNCHANGED orderVars => clock' = clock
    BY DEF orderVars
  <1>6. QED
    BY <1>t, <1>1, <1>2, <1>3, <1>4, <1>5 DEF OrdersNext

\* How a step of w moves it on, with its lease: it rests, and if it died its rows
\* lose their holder; it reads the time; it goes on with the time it has read, to
\* the query when it holds the row or the row has run out, with a new lease.
Moved(w) ==
  LET m == watcher'[w]
      now == watcher[w].now
      row == lease[Deployed[w]]
  IN \/ /\ m.pc = "wait"
        /\ \A a \in Addresses :
             /\ lease'[a].expires = lease[a].expires
             /\ \/ lease'[a].holder = lease[a].holder
                \/ lease[a].holder = w /\ lease'[a].holder = NoHolder
     \/ m.pc = "list" /\ m.now \in ReadTimes /\ lease' = lease
     \/ watcher[w].pc = "list" /\ m.pc = "lease" /\ m.now = now /\ lease' = lease
     \/ /\ watcher[w].pc = "lease" /\ m.pc = "query" /\ m.now = now
        /\ row.holder = w \/ row.expires <= now
        /\ lease' = [lease EXCEPT ![Deployed[w]] =
                       [holder |-> w, expires |-> now + LeaseDuration]]
     \/ Polling(w) /\ m.pc = "settle" /\ m.now = now /\ lease' = lease

\* Every step of a watcher is one of these.
LEMMA CycleMoves ==
  ASSUME WatcherInv, NEW w \in Watchers, Cycle(w) \/ Breakdown(w)
  PROVE  /\ Moved(w) /\ watcher'[w].now \in Nat
         /\ \A v \in Watchers \ {w} : watcher'[v] = watcher[v]
  <1>t. /\ watcher \in [Watchers -> WatcherType] /\ Deployed[w] \in Addresses
        /\ lease \in [Addresses -> [holder : Watchers \cup {NoHolder}, expires : Nat]]
        /\ watcher[w].now \in Nat /\ lease[Deployed[w]].expires \in Nat
    BY WatcherAssumption DEF WatcherInv, WatcherTypeOK, WatcherType
  <1>m. PICK m \in WatcherType : watcher' = [watcher EXCEPT ![w] = m] /\ Paced(w, m)
    BY CycleRemembers DEF Remembers
  <1>o. /\ watcher'[w] = m /\ m.now \in Nat
        /\ \A v \in Watchers \ {w} : watcher'[v] = watcher[v]
    BY <1>m, <1>t DEF WatcherType
  <1>1. CASE AcquireLease(w)
    <2>1. CASE lease[Deployed[w]].holder # w /\ lease[Deployed[w]].expires > watcher[w].now
      <3>1. lease' = lease /\ watcher'[w].pc = "wait"
        BY <1>1, <2>1, <1>t DEF AcquireLease, Rest, Idle
      <3>2. QED
        BY <1>o, <3>1 DEF Moved
    <2>2. CASE ~(lease[Deployed[w]].holder # w /\ lease[Deployed[w]].expires > watcher[w].now)
      <3>1. /\ watcher[w].pc = "lease"
            /\ watcher' = [watcher EXCEPT ![w].pc = "query"]
            /\ lease' = [lease EXCEPT ![Deployed[w]] =
                           [holder |-> w, expires |-> watcher[w].now + LeaseDuration]]
        BY <1>1, <2>2 DEF AcquireLease
      <3>2. watcher'[w].pc = "query" /\ watcher'[w].now = watcher[w].now
        BY <3>1, <1>t DEF WatcherType
      <3>3. lease[Deployed[w]].holder = w \/ lease[Deployed[w]].expires <= watcher[w].now
        BY <2>2, <1>t
      <3>4. QED
        BY <3>1, <3>2, <3>3, <1>o DEF Moved
    <2>3. QED
      BY <2>1, <2>2
  <1>2. CASE CrashWatcher(w)
    <2>1. watcher'[w].pc = "wait"
      BY <1>2, <1>t DEF CrashWatcher, Rest, Idle
    <2>2. \A a \in Addresses :
            /\ lease'[a].expires = lease[a].expires
            /\ \/ lease'[a].holder = lease[a].holder
               \/ lease[a].holder = w /\ lease'[a].holder = NoHolder
      BY <1>2, <1>t DEF CrashWatcher
    <2>3. QED
      BY <2>1, <2>2, <1>o DEF Moved
  <1>3. CASE lease' = lease /\ ~AcquireLease(w)
    BY <1>3, <1>m, <1>o DEF Moved, Paced, Polling
  <1>4. QED
    BY <1>1, <1>2, <1>3
       DEF Cycle, Breakdown, StartCycle, ListOrders, QueryChain, QueryFails, SettleNext,
           FinishCycle, SettleUnacknowledged, DatabaseFails

\* A step of w keeps what the row says of any cycle, and keeps the cycles apart.
LEMMA CycleKeepsLease ==
  ASSUME WatcherInv, LeaseInv, NEW w \in Watchers, Cycle(w) \/ Breakdown(w),
         clock' \in Nat, clock <= clock'
  PROVE  LeaseInv'
  <1>t. /\ clock \in Nat /\ LeaseDuration \in Nat /\ MaxLag \in Nat /\ NoHolder \notin Watchers
        /\ watcher \in [Watchers -> WatcherType]
        /\ lease \in [Addresses -> [holder : Watchers \cup {NoHolder}, expires : Nat]]
    BY WatcherAssumption, USDTAssumption DEF WatcherInv, WatcherTypeOK, OrdersTypeOK
  <1>v. \A v \in Watchers : /\ watcher[v].now \in Nat /\ lease[Deployed[v]].expires \in Nat
                            /\ Deployed[v] \in Addresses
    BY <1>t, WatcherAssumption DEF WatcherType
  <1>m. /\ Moved(w) /\ watcher'[w].now \in Nat
        /\ \A v \in Watchers \ {w} : watcher'[v] = watcher[v]
    BY CycleMoves
  <1>1. CASE watcher'[w].pc = "wait"
    <2>1. \A a \in Addresses : /\ lease'[a].expires = lease[a].expires
                               /\ \/ lease'[a].holder = lease[a].holder
                                  \/ lease[a].holder = w /\ lease'[a].holder = NoHolder
      BY <1>1, <1>m DEF Moved
    <2>2. LeaseExclusive'
      BY <1>1, <1>m DEF LeaseInv, LeaseExclusive, Polling
    <2>3. LeaseRow(w)'
      BY <1>1 DEF LeaseRow, Polling
    <2>4. ASSUME NEW v \in Watchers \ {w} PROVE LeaseRow(v)'
      BY <1>1, <2>1, <2>4, <1>m, <1>t, <1>v DEF LeaseInv, LeaseRow, Outlived, Polling
    <2>5. QED
      BY <2>2, <2>3, <2>4 DEF LeaseInv
  <1>2. CASE /\ watcher'[w].pc = "list" /\ watcher'[w].now \in ReadTimes /\ lease' = lease
    <2>1. watcher'[w].now <= clock /\ clock <= watcher'[w].now + MaxLag
      BY <1>2, <1>t DEF ReadTimes
    <2>2. QED
      BY <1>2, <2>1, <1>m, <1>t, <1>v DEF LeaseInv, LeaseExclusive, LeaseRow, Outlived, Polling
  <1>3. CASE /\ watcher[w].pc = "list" /\ watcher'[w].pc = "lease"
             /\ watcher'[w].now = watcher[w].now /\ lease' = lease
    BY <1>3, <1>m, <1>t, <1>v DEF LeaseInv, LeaseExclusive, LeaseRow, Outlived, Polling
  <1>4. CASE /\ watcher[w].pc = "lease" /\ watcher'[w].pc = "query"
             /\ watcher'[w].now = watcher[w].now
             /\ lease[Deployed[w]].holder = w \/ lease[Deployed[w]].expires <= watcher[w].now
             /\ lease' = [lease EXCEPT ![Deployed[w]] =
                            [holder |-> w, expires |-> watcher[w].now + LeaseDuration]]
    <2>1. /\ lease'[Deployed[w]].holder = w
          /\ lease'[Deployed[w]].expires = watcher[w].now + LeaseDuration
          /\ \A a \in Addresses \ {Deployed[w]} : lease'[a] = lease[a]
      BY <1>4, <1>t, <1>v
    <2>2. watcher[w].now <= clock
      BY <1>4 DEF LeaseInv, LeaseRow
    <2>3. ASSUME NEW v \in Watchers, v # w, Deployed[v] = Deployed[w], Polling(v)
          PROVE  /\ watcher[v].now + LeaseDuration <= watcher[w].now + MaxLag
                 /\ watcher[v].now + LeaseDuration <= clock
                 /\ watcher[v].now + LeaseDuration <= watcher[w].now + MaxLag
      <3>1. CASE lease[Deployed[v]].holder = v
        BY <3>1, <2>2, <2>3, <1>4, <1>t, <1>v DEF LeaseInv, LeaseRow
      <3>2. CASE lease[Deployed[v]].holder # v
        BY <3>2, <2>2, <2>3, <1>4, <1>t, <1>v DEF LeaseInv, LeaseRow, Outlived
      <3>3. QED
        BY <3>1, <3>2
    <2>4. LeaseExclusive'
      BY <1>4, <2>3, <1>m DEF LeaseInv, LeaseExclusive, Polling
    <2>5. ASSUME NEW v \in Watchers
          PROVE  LeaseRow(v)'
      <3>1. CASE v = w
        BY <3>1, <1>4, <2>1, <2>2, <1>t, <1>v DEF LeaseRow, Polling
      <3>2. CASE v # w /\ Deployed[v] = Deployed[w]
        BY <3>2, <1>4, <2>1, <2>3, <1>m, <1>t, <1>v
           DEF LeaseInv, LeaseRow, Outlived, Polling
      <3>3. CASE v # w /\ Deployed[v] # Deployed[w]
        BY <3>3, <1>4, <2>1, <1>m, <1>t, <1>v DEF LeaseInv, LeaseRow, Outlived, Polling
      <3>4. QED
        BY <3>1, <3>2, <3>3
    <2>6. QED
      BY <2>4, <2>5 DEF LeaseInv
  <1>5. CASE /\ Polling(w) /\ watcher'[w].pc = "settle"
             /\ watcher'[w].now = watcher[w].now /\ lease' = lease
    BY <1>5, <1>m, <1>t, <1>v DEF LeaseInv, LeaseExclusive, LeaseRow, Outlived, Polling
  <1>6. QED
    BY <1>1, <1>2, <1>3, <1>4, <1>5, <1>m DEF Moved

\* AcquireUSDTWatcherLease keeps the cycles of one deployment a lease apart, for
\* any number of processes, crashes and deployments and any lag of their clocks.
THEOREM LeaseKept == WatcherSpec => []LeaseExclusive
  <1>1. WatcherInit => LeaseInv
    BY DEF WatcherInit, Idle, LeaseInv, LeaseExclusive, LeaseRow, Polling
  <1>2. WatcherInv /\ LeaseInv /\ [WatcherNext]_watcherVars => LeaseInv'
    <2> SUFFICES ASSUME WatcherInv, LeaseInv, [WatcherNext]_watcherVars
                 PROVE  LeaseInv'
      OBVIOUS
    <2>1. clock \in Nat /\ clock' \in Nat /\ clock <= clock'
      BY StepImplements, ClockStep DEF WatcherInv, WatcherTypeOK
    <2>2. CASE UNCHANGED <<watcher, lease>>
      <3>1. \A w \in Watchers : watcher[w].now \in Nat
        BY DEF WatcherInv, WatcherTypeOK, WatcherType
      <3>2. LeaseDuration \in Nat
        BY WatcherAssumption
      <3>3. QED
        BY <2>1, <2>2, <3>1, <3>2 DEF LeaseInv, LeaseExclusive, LeaseRow, Outlived, Polling
    <2>3. ASSUME NEW w \in Watchers, Cycle(w) \/ Breakdown(w)
          PROVE  LeaseInv'
      BY <2>1, <2>3, CycleKeepsLease
    <2>4. QED
      BY <2>2, <2>3 DEF WatcherNext, Environment, watcherVars
  <1>3. WatcherInv /\ [WatcherNext]_watcherVars => WatcherInv'
    BY WatcherStep
  <1>4. LeaseInv => LeaseExclusive
    BY DEF LeaseInv
  <1>5. QED
    BY <1>1, <1>2, <1>3, <1>4, WatcherInitInv, PTL DEF WatcherSpec

-------------------------------------------------------------------------------
(***************************************************************************)
(* The addresses that a cycle polls (WatchedAddresses).                    *)
(***************************************************************************)

Row == [address : TronAddresses, enabled : BOOLEAN]

\* At most one address.
AtMostOne(s) == s = {} \/ \E a \in TronAddresses : s = {a}

\* The table of addresses, and at most one deployment.
AddressesInv ==
  /\ rows \in Seq(Row)
  /\ \A i, j \in 1..Len(rows) : rows[i].address = rows[j].address => i = j
  /\ admitted \subseteq {"create", "enable"} \X TronAddresses
  /\ AtMostOne(marker) /\ AtMostOne(deployed)
  /\ replaced \subseteq TronAddresses
  /\ deployFaults \in 0..MaxDeployFaults

\* A table after an insertion: the rows it had, and perhaps an enabled one for an
\* address that had none.
Extended ==
  \/ rows' = rows
  \/ \E a \in TronAddresses : ~HasRow(a) /\ rows' = NewRow(a)

\* A table after an operator's switch of row i.
Switched(i, on) == rows' = [rows EXCEPT ![i] = [address |-> rows[i].address, enabled |-> on]]

\* Both keep the addresses unique, and an insertion enables no row that was there.
LEMMA TableKept ==
  ASSUME AddressesInv, Extended \/ \E i \in 1..Len(rows), on \in BOOLEAN : Switched(i, on)
  PROVE  /\ rows' \in Seq(Row)
         /\ \A i, j \in 1..Len(rows') : rows'[i].address = rows'[j].address => i = j
         /\ Extended => \A i \in 1..Len(rows) : rows'[i] = rows[i]
  <1>1. rows \in Seq(Row) /\ Len(rows) \in Nat /\ \A i \in 1..Len(rows) : rows[i] \in Row
    BY DEF AddressesInv
  <1>2. CASE rows' = rows
    BY <1>1, <1>2 DEF AddressesInv
  <1>3. ASSUME NEW a \in TronAddresses, ~HasRow(a), rows' = NewRow(a)
        PROVE  /\ rows' \in Seq(Row)
               /\ \A i, j \in 1..Len(rows') : rows'[i].address = rows'[j].address => i = j
               /\ \A i \in 1..Len(rows) : rows'[i] = rows[i]
    <2> DEFINE r == [address |-> a, enabled |-> TRUE]
    <2>1. r \in Row /\ r.address = a
      BY DEF Row
    <2>2. rows' = Append(rows, r)
      BY <1>3 DEF NewRow
    <2>3. /\ rows' \in Seq(Row) /\ Len(rows') = Len(rows) + 1
          /\ rows'[Len(rows) + 1] = r
          /\ \A i \in 1..Len(rows) : rows'[i] = rows[i]
      <3> HIDE DEF r
      <3> QED
        BY <1>1, <2>1, <2>2
    <2>4. \A i \in 1..Len(rows) : rows[i].address # a
      BY <1>3 DEF HasRow
    <2>5. \A i, j \in 1..Len(rows') : rows'[i].address = rows'[j].address => i = j
      <3> HIDE DEF r
      <3>1. ASSUME NEW i \in 1..Len(rows'), NEW j \in 1..Len(rows'),
                   rows'[i].address = rows'[j].address
            PROVE  i = j
        <4>1. CASE i \in 1..Len(rows) /\ j \in 1..Len(rows)
          BY <2>3, <3>1, <4>1 DEF AddressesInv
        <4>2. CASE ~(i \in 1..Len(rows) /\ j \in 1..Len(rows))
          BY <1>1, <2>1, <2>3, <2>4, <3>1, <4>2
        <4>3. QED
          BY <4>1, <4>2
      <3>2. QED
        BY <3>1
    <2>6. QED
      BY <2>3, <2>5
  <1>4. ASSUME NEW i \in 1..Len(rows), NEW on \in BOOLEAN, Switched(i, on)
        PROVE  /\ rows' \in Seq(Row)
               /\ \A k, j \in 1..Len(rows') : rows'[k].address = rows'[j].address => k = j
    <2>1. [address |-> rows[i].address, enabled |-> on] \in Row
      BY <1>1, <1>4 DEF Row
    <2>2. rows' \in Seq(Row) /\ Len(rows') = Len(rows)
      BY <1>1, <1>4, <2>1 DEF Switched
    <2>3. \A j \in 1..Len(rows) : rows'[j].address = rows[j].address
      BY <1>1, <1>4 DEF Switched
    <2>4. QED
      BY <2>2, <2>3 DEF AddressesInv
  <1>5. CASE Extended
    BY <1>2, <1>3, <1>5 DEF Extended
  <1>6. CASE ~Extended
    BY <1>4, <1>6
  <1>7. QED
    BY <1>5, <1>6

\* What the column's update does to a row.
LEMMA SwitchIs ==
  ASSUME AddressesInv, NEW i \in 1..Len(rows), NEW on \in BOOLEAN,
         rows' = [rows EXCEPT ![i].enabled = on]
  PROVE  Switched(i, on)
  <1>1. rows[i] \in Row
    BY DEF AddressesInv
  <1>2. [rows[i] EXCEPT !.enabled = on] = [address |-> rows[i].address, enabled |-> on]
    BY <1>1 DEF Row
  <1>3. rows' = [rows EXCEPT ![i] = [rows[i] EXCEPT !.enabled = on]]
    OBVIOUS
  <1>4. QED
    BY <1>2, <1>3 DEF Switched

\* A deployment adds at most the address it replaces.
LEMMA DeployExtends ==
  ASSUME AddressesInv, NEW a \in TronAddresses, Deploy(a) \/ DeployWithFault(a)
  PROVE  Extended
  <1>1. marker \subseteq TronAddresses
    BY DEF AddressesInv, AtMostOne
  <1>2. rows' = rows \/ \E previous \in marker : rows' = KeepPrevious(previous)
    BY DEF Deploy, DeployWithFault
  <1>3. QED
    BY <1>1, <1>2 DEF KeepPrevious, Extended

\* Every step extends the table or switches a row, and enables one that is there
\* only for an operator's request that was admitted.
LEMMA AddressesStep ==
  ASSUME WatchedAssumption, AddressesInv, [AddressesNext]_addressVars
  PROVE  /\ AddressesInv'
         /\ \A i \in 1..Len(rows) : ~rows[i].enabled /\ rows'[i].enabled =>
              <<"enable", rows[i].address>> \in admitted
  <1>1. \A i \in 1..Len(rows) : rows[i] \in Row
    BY DEF AddressesInv
  <1>2. CASE UNCHANGED addressVars
    BY <1>2 DEF addressVars, AddressesInv
  <1>3. ASSUME NEW a \in TronAddresses, AdmitCreate(a) \/ ApplyCreate(a)
        PROVE  /\ AddressesInv' /\ Extended
    <2>1. Extended
      BY <1>3 DEF AdmitCreate, ApplyCreate, Extended
    <2>2. admitted' \subseteq {"create", "enable"} \X TronAddresses
      BY <1>3 DEF AdmitCreate, ApplyCreate, AddressesInv
    <2>3. UNCHANGED <<marker, deployed, replaced, deployFaults>>
      BY <1>3 DEF AdmitCreate, ApplyCreate
    <2>4. QED
      BY <2>1, <2>2, <2>3, TableKept DEF AddressesInv
  <1>4. ASSUME NEW a \in TronAddresses, Deploy(a) \/ DeployWithFault(a)
        PROVE  /\ AddressesInv' /\ Extended
    <2>1. Extended
      BY <1>4, DeployExtends
    <2>2. /\ deployed' = {a} /\ replaced' = (replaced \cup deployed) \ {a}
          /\ admitted' = admitted /\ (marker' = marker \/ marker' = {a})
          /\ \/ deployFaults' = deployFaults
             \/ deployFaults < MaxDeployFaults /\ deployFaults' = deployFaults + 1
      BY <1>4 DEF Deploy, DeployWithFault, Restarted
    <2>3. AtMostOne(marker') /\ AtMostOne(deployed') /\ replaced' \subseteq TronAddresses
      BY <2>2 DEF AddressesInv, AtMostOne
    <2>4. deployFaults' \in 0..MaxDeployFaults
      BY <2>2 DEF AddressesInv, WatchedAssumption
    <2>5. QED
      BY <2>1, <2>2, <2>3, <2>4, TableKept DEF AddressesInv, AtMostOne
  <1>5. ASSUME NEW i \in 1..Len(rows), AdmitEnable(i)
        PROVE  AddressesInv' /\ rows' = rows
    BY <1>1, <1>5 DEF AdmitEnable, AddressesInv, Row, AtMostOne
  <1>6. ASSUME NEW i \in 1..Len(rows), ApplyEnable(i)
        PROVE  /\ AddressesInv'
               /\ Switched(i, TRUE) /\ <<"enable", rows[i].address>> \in admitted
    <2>1. Switched(i, TRUE)
      BY <1>6, SwitchIs DEF ApplyEnable
    <2>2. admitted' \subseteq {"create", "enable"} \X TronAddresses
      BY <1>6 DEF ApplyEnable, AddressesInv
    <2>3. QED
      BY <1>6, <2>1, <2>2, TableKept DEF ApplyEnable, AddressesInv, AtMostOne
  <1>7. ASSUME NEW i \in 1..Len(rows), Disable(i)
        PROVE  AddressesInv' /\ Switched(i, FALSE)
    <2>1. Switched(i, FALSE)
      BY <1>7, SwitchIs DEF Disable
    <2>2. replaced' \subseteq TronAddresses
      BY <1>7 DEF Disable, AddressesInv
    <2>3. QED
      BY <1>7, <2>1, <2>2, TableKept DEF Disable, AddressesInv, AtMostOne
  <1>8. ASSUME NEW i \in 1..Len(rows), NEW on \in BOOLEAN, Switched(i, on),
               NEW j \in 1..Len(rows), ~rows[j].enabled, rows'[j].enabled
        PROVE  j = i /\ on
    <2>1. rows \in Seq(Row) /\ [address |-> rows[i].address, enabled |-> on].enabled = on
      BY DEF AddressesInv
    <2>2. j # i => rows'[j] = rows[j]
      BY <1>8, <2>1 DEF Switched
    <2>3. rows'[i].enabled = on
      BY <1>8, <2>1 DEF Switched
    <2>4. QED
      BY <1>8, <2>2, <2>3
  <1>9. CASE Extended
    BY <1>2, <1>3, <1>4, <1>5, <1>6, <1>7, <1>9, TableKept DEF AddressesNext
  <1>10. CASE ~Extended
    BY <1>2, <1>3, <1>4, <1>5, <1>6, <1>7, <1>8, <1>10 DEF AddressesNext, Extended, addressVars
  <1>11. QED
    BY <1>9, <1>10

\* The table of addresses keeps its shape.
LEMMA AddressesAlways == ASSUME WatchedAssumption PROVE AddressesSpec => []AddressesInv
  <1>1. AddressesInit => AddressesInv
    BY DEF AddressesInit, AddressesInv, AtMostOne, WatchedAssumption
  <1>2. AddressesInv /\ [AddressesNext]_addressVars => AddressesInv'
    BY AddressesStep
  <1>3. QED
    BY <1>1, <1>2, PTL DEF AddressesSpec

\* The rows that are enabled and the requests that may enable one more each.
CapInv ==
  /\ IsFiniteSet(admitted) /\ Cardinality(admitted) <= MaxOperators
  /\ Cardinality(Enabled) + Cardinality(admitted) <= MaxEnabled + MaxOperators

\* The enabled rows are finitely many.
LEMMA EnabledFinite ==
  ASSUME AddressesInv
  PROVE  IsFiniteSet(Enabled) /\ Cardinality(Enabled) \in Nat
  <1>1. Len(rows) \in Nat
    BY DEF AddressesInv
  <1>2. IsFiniteSet(1..Len(rows)) /\ Enabled \subseteq 1..Len(rows)
    BY <1>1, FS_Interval DEF Enabled
  <1>3. QED
    BY <1>2, FS_Subset, FS_CardinalityType

\* A step that enables at most one row adds at most one to their number.
LEMMA OneMoreEnabled ==
  ASSUME AddressesInv, NEW n, Enabled' \subseteq Enabled \cup {n}
  PROVE  Cardinality(Enabled') \in Nat /\ Cardinality(Enabled') <= Cardinality(Enabled) + 1
  <1>1. IsFiniteSet(Enabled) /\ Cardinality(Enabled) \in Nat
    BY EnabledFinite
  <1>2. /\ IsFiniteSet(Enabled \cup {n})
        /\ Cardinality(Enabled \cup {n}) \in {Cardinality(Enabled), Cardinality(Enabled) + 1}
    BY <1>1, FS_AddElement
  <1>3. IsFiniteSet(Enabled') /\ Cardinality(Enabled') <= Cardinality(Enabled \cup {n})
    BY <1>2, FS_Subset
  <1>4. Cardinality(Enabled') \in Nat
    BY <1>3, FS_CardinalityType
  <1>5. QED
    BY <1>1, <1>2, <1>3, <1>4

\* Neither an insertion nor a switch enables two rows, and a row switched off is
\* enabled no more.
LEMMA EnabledOneMore ==
  ASSUME AddressesInv, Extended \/ \E i \in 1..Len(rows), on \in BOOLEAN : Switched(i, on)
  PROVE  /\ \E n : Enabled' \subseteq Enabled \cup {n}
         /\ \A i \in 1..Len(rows) : Switched(i, FALSE) => Enabled' \subseteq Enabled
  <1>1. rows \in Seq(Row) /\ Len(rows) \in Nat
    BY DEF AddressesInv
  <1>2. Enabled' = {j \in 1..Len(rows') : rows'[j].enabled}
    BY DEF Enabled
  <1>3. ASSUME NEW a \in TronAddresses, rows' = NewRow(a)
        PROVE  Enabled' \subseteq Enabled \cup {Len(rows) + 1}
    <2> DEFINE r == [address |-> a, enabled |-> TRUE]
    <2>1. rows' = Append(rows, r)
      BY <1>3 DEF NewRow
    <2>2. /\ Len(rows') = Len(rows) + 1
          /\ \A i \in 1..Len(rows) : rows'[i] = rows[i]
      <3> HIDE DEF r
      <3> QED
        BY <1>1, <2>1
    <2>3. QED
      BY <1>1, <1>2, <2>2 DEF Enabled
  <1>4. ASSUME NEW i \in 1..Len(rows), NEW on \in BOOLEAN, Switched(i, on)
        PROVE  /\ Enabled' \subseteq Enabled \cup {i}
               /\ ~on => Enabled' \subseteq Enabled
    <2>1. /\ Len(rows') = Len(rows) /\ rows'[i].enabled = on
          /\ \A j \in 1..Len(rows) : j # i => rows'[j] = rows[j]
      BY <1>1, <1>4 DEF Switched
    <2>2. QED
      BY <1>2, <2>1 DEF Enabled
  <1>5. ASSUME rows' = rows
        PROVE  Enabled' = Enabled
    BY <1>2, <1>5 DEF Enabled
  <1>6. \E n : Enabled' \subseteq Enabled \cup {n}
    <2>1. CASE Extended
      BY <1>3, <1>5, <2>1 DEF Extended
    <2>2. CASE ~Extended
      BY <1>4, <2>2
    <2>3. QED
      BY <2>1, <2>2
  <1>7. QED
    BY <1>4, <1>6

\* Admitting a request, or applying one, changes the number of those in flight by
\* one.
LEMMA AdmittedChanges ==
  ASSUME IsFiniteSet(admitted), NEW request
  PROVE  /\ Cardinality(admitted) \in Nat
         /\ admitted' = admitted \cup {request} =>
              IsFiniteSet(admitted') /\ Cardinality(admitted') \in Nat
                /\ Cardinality(admitted') <= Cardinality(admitted) + 1
         /\ request \in admitted /\ admitted' = admitted \ {request} =>
              IsFiniteSet(admitted') /\ Cardinality(admitted') = Cardinality(admitted) - 1
  <1>1. Cardinality(admitted) \in Nat
    BY FS_CardinalityType
  <1>2. ASSUME admitted' = admitted \cup {request}
        PROVE  /\ IsFiniteSet(admitted') /\ Cardinality(admitted') \in Nat
               /\ Cardinality(admitted') <= Cardinality(admitted) + 1
    <2>1. /\ IsFiniteSet(admitted \cup {request})
          /\ Cardinality(admitted \cup {request})
               \in {Cardinality(admitted), Cardinality(admitted) + 1}
      BY FS_AddElement
    <2>2. QED
      BY <1>1, <1>2, <2>1
  <1>3. ASSUME request \in admitted, admitted' = admitted \ {request}
        PROVE  IsFiniteSet(admitted') /\ Cardinality(admitted') = Cardinality(admitted) - 1
    BY <1>3, FS_RemoveElement
  <1>4. QED
    BY <1>1, <1>2, <1>3

\* A row is enabled beyond the cap only out of a request that was in flight.
LEMMA CapStep ==
  ASSUME WatchedAssumption, AddressesInv, CapInv, [AddressesNext]_addressVars
  PROVE  CapInv'
  <1>1. /\ IsFiniteSet(Enabled) /\ Cardinality(Enabled) \in Nat
        /\ IsFiniteSet(admitted) /\ Cardinality(admitted) \in Nat
        /\ MaxEnabled \in Nat /\ MaxOperators \in Nat
        /\ Cardinality(admitted) <= MaxOperators
        /\ Cardinality(Enabled) + Cardinality(admitted) <= MaxEnabled + MaxOperators
    BY EnabledFinite, FS_CardinalityType DEF CapInv, WatchedAssumption
  <1>2. ASSUME rows' = rows, admitted' = admitted
        PROVE  CapInv'
    <2>1. Enabled' = Enabled
      BY <1>2 DEF Enabled
    <2>2. QED
      BY <1>1, <1>2, <2>1 DEF CapInv
  <1>3. ASSUME NEW request, Admissible, MayBegin, rows' = rows,
               admitted' = admitted \cup {request}
        PROVE  CapInv'
    <2>1. Enabled' = Enabled
      BY <1>3 DEF Enabled
    <2>2. Cardinality(Enabled) < MaxEnabled /\ Cardinality(admitted) < MaxOperators
      BY <1>3 DEF Admissible, MayBegin
    <2>3. /\ IsFiniteSet(admitted') /\ Cardinality(admitted') \in Nat
          /\ Cardinality(admitted') <= Cardinality(admitted) + 1
      BY <1>1, <1>3, AdmittedChanges
    <2>4. /\ Cardinality(admitted') <= MaxOperators
          /\ Cardinality(Enabled) + Cardinality(admitted') <= MaxEnabled + MaxOperators
      BY <1>1, <2>2, <2>3
    <2>5. QED
      BY <2>1, <2>3, <2>4 DEF CapInv
  <1>4. ASSUME NEW request \in admitted, admitted' = admitted \ {request},
               Extended \/ \E i \in 1..Len(rows), on \in BOOLEAN : Switched(i, on)
        PROVE  CapInv'
    <2>1. Cardinality(Enabled') \in Nat /\ Cardinality(Enabled') <= Cardinality(Enabled) + 1
      BY <1>4, EnabledOneMore, OneMoreEnabled
    <2>2. IsFiniteSet(admitted') /\ Cardinality(admitted') = Cardinality(admitted) - 1
      BY <1>1, <1>4, AdmittedChanges
    <2>3. /\ Cardinality(admitted') <= MaxOperators
          /\ Cardinality(Enabled') + Cardinality(admitted') <= MaxEnabled + MaxOperators
      BY <1>1, <2>1, <2>2
    <2>4. QED
      BY <2>2, <2>3 DEF CapInv
  <1>5. ASSUME NEW a \in TronAddresses, Deploy(a) \/ DeployWithFault(a)
        PROVE  CapInv'
    <2>1. admitted' = admitted
      BY <1>5 DEF Deploy, DeployWithFault, Restarted
    <2>2. CASE rows' = rows
      BY <1>2, <2>1, <2>2
    <2>3. CASE rows' # rows
      <3>1. Admissible
        BY <1>5, <2>3 DEF Deploy, DeployWithFault, KeepPrevious
      <3>2. Cardinality(Enabled) < MaxEnabled
        BY <3>1 DEF Admissible
      <3>3. Extended
        BY <1>5, DeployExtends
      <3>4. /\ Cardinality(Enabled') \in Nat
            /\ Cardinality(Enabled') <= Cardinality(Enabled) + 1
        BY <3>3, EnabledOneMore, OneMoreEnabled
      <3>5. QED
        BY <1>1, <2>1, <3>2, <3>4 DEF CapInv
    <2>4. QED
      BY <2>2, <2>3
  <1>6. ASSUME NEW i \in 1..Len(rows), Disable(i)
        PROVE  CapInv'
    <2>1. Switched(i, FALSE) /\ admitted' = admitted
      BY <1>6, SwitchIs DEF Disable
    <2>2. Enabled' \subseteq Enabled
      BY <2>1, EnabledOneMore
    <2>3. Cardinality(Enabled') <= Cardinality(Enabled) /\ Cardinality(Enabled') \in Nat
      BY <1>1, <2>2, FS_Subset, FS_CardinalityType
    <2>4. QED
      BY <1>1, <2>1, <2>3 DEF CapInv
  <1>7. ASSUME NEW a \in TronAddresses, AdmitCreate(a) \/ ApplyCreate(a)
        PROVE  CapInv'
    <2>1. CASE AdmitCreate(a)
      BY <1>3, <2>1 DEF AdmitCreate
    <2>2. CASE ApplyCreate(a)
      BY <1>4, <2>2 DEF ApplyCreate, Extended
    <2>3. QED
      BY <1>7, <2>1, <2>2
  <1>8. ASSUME NEW i \in 1..Len(rows), AdmitEnable(i) \/ ApplyEnable(i)
        PROVE  CapInv'
    <2>1. CASE AdmitEnable(i)
      BY <1>3, <2>1 DEF AdmitEnable
    <2>2. CASE ApplyEnable(i)
      BY <1>4, <2>2, SwitchIs DEF ApplyEnable
    <2>3. QED
      BY <1>8, <2>1, <2>2
  <1>9. QED
    BY <1>2, <1>5, <1>6, <1>7, <1>8 DEF AddressesNext, addressVars

\* The cap on the polled addresses, as far as the transactions keep it: whatever
\* operators and deployments do, in any number and order, a row is enabled beyond it
\* only by a request that had counted the rows when there was still room.
THEOREM CapIsExceededByRacesOnly ==
  ASSUME WatchedAssumption PROVE AddressesSpec => []CapExceededByRacesOnly
  <1>1. AddressesInit => CapInv
    <2> SUFFICES ASSUME AddressesInit
                 PROVE  CapInv
      OBVIOUS
    <2>1. Enabled = {} /\ admitted = {}
      BY DEF AddressesInit, Enabled
    <2>2. IsFiniteSet(admitted) /\ Cardinality(Enabled) = 0 /\ Cardinality(admitted) = 0
      BY <2>1, FS_EmptySet
    <2>3. QED
      BY <2>2 DEF CapInv, WatchedAssumption
  <1>2. AddressesInv /\ CapInv /\ [AddressesNext]_addressVars => CapInv'
    BY CapStep
  <1>3. AddressesInv /\ CapInv => CapExceededByRacesOnly
    <2>1. ASSUME AddressesInv, CapInv
          PROVE  CapExceededByRacesOnly
      <3>1. Cardinality(Enabled) \in Nat /\ Cardinality(admitted) \in Nat
        BY <2>1, EnabledFinite, FS_CardinalityType DEF CapInv
      <3>2. QED
        BY <2>1, <3>1 DEF CapInv, CapExceededByRacesOnly, WatchedAssumption
    <2>2. QED
      BY <2>1
  <1>4. QED
    BY <1>1, <1>2, <1>3, AddressesAlways, PTL DEF AddressesSpec

\* No restart revives an address that an operator disabled: a row that is there is
\* enabled only by a request that an operator made and that passed its checks.
THEOREM DisabledIsFinal == ASSUME WatchedAssumption PROVE AddressesSpec => DisabledStaysDisabled
  <1>1. AddressesInv /\ [AddressesNext]_addressVars =>
          [\A i \in 1..Len(rows) : ~rows[i].enabled /\ rows'[i].enabled =>
             <<"enable", rows[i].address>> \in admitted]_addressVars
    BY AddressesStep
  <1>2. QED
    BY <1>1, AddressesAlways, PTL DEF AddressesSpec, DisabledStaysDisabled
=============================================================================
