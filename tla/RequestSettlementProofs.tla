----------------------- MODULE RequestSettlementProofs -----------------------
(***************************************************************************)
(* Proofs about RequestSettlement, for any number of requests, channels,   *)
(* faults and administrative changes and any quota limit.  The first half  *)
(* proves the types and sums up what one transaction may do to the money   *)
(* of its request (Moves).  The second proves each safety invariant from   *)
(* that summary and from a strengthening of its own that the transactions  *)
(* preserve.                                                               *)
(***************************************************************************)
EXTENDS RequestSettlement, FiniteSums, TLAPS

(***************************************************************************)
(* The database steps.  A handler's step is a transaction of its request   *)
(* that commits, or leaves the database alone.                             *)
(***************************************************************************)
\* Who parks a row: the handler for the reason it remembers, or its cleanup.
PendsAs(o, usage, missing) ==
  \/ session[o].pc = "park" /\ usage = "known" /\ missing = session[o].reason
  \/ usage = "none" /\ missing = "upstream_billing_unconfirmed"

Tx(o) ==
  \/ \E amount \in Amounts : /\ CanBeginSettlement(o, amount)
                             /\ BeginZTAPIRequestSettlement(o, amount)
  \/ \E ch \in Channels : /\ BeginAttempt(o, ch)
                          /\ CanBeginAttempt(o, ch) /\ BeginZTAPIRequestAttempt(o, ch)
  \/ \E status \in Statuses, block \in BOOLEAN :
       /\ Respond(o, status, block)
       /\ RecordZTAPIRequestAttemptResponse(o, session[o].attempt, status)
  \/ MarkZTAPIRequestSafetyOutcome(o)
  \/ \E usage \in {"none", "known"}, missing \in Reasons :
       /\ PendsAs(o, usage, missing)
       /\ CanPend(o, usage, missing)
       /\ PendZTAPIRequestSettlement(o, usage, missing)
  \/ CanRelease(o) /\ ReleaseZTAPIRequestSettlement(o)
  \/ CanReleaseRejected(o) /\ ReleaseZTAPIDispatchedRejectedSettlement(o)
  \/ \E actual \in Amounts :
       /\ SaveIntent(o, actual)
       /\ CanSaveIntent(o, actual, session[o].attempt)
       /\ saveZTAPISettlementFinalizationIntent(o, actual, session[o].attempt)
  \/ CanFinalize(o) /\ finalizeZTAPIRequestSettlement(o)
  \/ /\ row[o].status = "released"
     /\ intent[o].state = "open"
     /\ intent' = [intent EXCEPT ![o].state = "completed"]
     /\ UNCHANGED <<user, token, ledger, row, attempts>>
  \/ /\ CanResolve(o)
     /\ ReturnReservation(o, "no-charge")
     /\ row' = [row EXCEPT ![o].status = "released"]
     /\ UNCHANGED <<attempts, intent>>

\* A step of a handler is one transaction on its request's rows, or none.
LEMMA HandlerIsTx ==
  ASSUME TypeOK, NEW o \in Ops, Handler(o)
  PROVE  Tx(o) \/ UNCHANGED db
<1>1. ASSUME NEW amount \in Amounts, Begin(o, amount) PROVE Tx(o) \/ UNCHANGED db
  BY <1>1 DEF Begin, Call, Tx
<1>2. ASSUME NEW ch \in Channels, BeginAttempt(o, ch) PROVE Tx(o) \/ UNCHANGED db
  BY <1>2 DEF BeginAttempt, Call, Tx
<1>3. ASSUME NEW status \in Statuses, NEW block \in BOOLEAN, Respond(o, status, block) PROVE Tx(o) \/ UNCHANGED db
  BY <1>3 DEF Respond, Call, Tx
<1>4. ASSUME NEW actual \in Amounts, SaveIntent(o, actual) PROVE Tx(o) \/ UNCHANGED db
  BY <1>4 DEF SaveIntent, Call, Tx
<1>5. CASE Finalize(o)
  BY <1>5 DEF Finalize, Call, Tx
<1>6. CASE ParkRow(o)
  <2>1. session[o].reason \in Reasons
    BY DEF TypeOK, SessionTypeOK, SessionType
  <2> QED
    BY <1>6, <2>1 DEF ParkRow, Call, Tx, PendsAs
<1>7. CASE RefundUndispatched(o)
  BY <1>7 DEF RefundUndispatched, Call, Tx
<1>8. CASE RefundSafety(o)
  BY <1>8 DEF RefundSafety, Call, Tx
<1>9. CASE RefundDispatched(o)
  BY <1>9 DEF RefundDispatched, Call, Tx
<1>10. CASE RefundPend(o)
  <2>1. "upstream_billing_unconfirmed" \in Reasons
    BY DEF Reasons
  <2> QED
    BY <1>10, <2>1 DEF RefundPend, Call, Tx, PendsAs
<1>11. CASE GiveUp(o) \/ TransportError(o) \/ UsageIncomplete(o)
            \/ RefundNothing(o) \/ Crash(o)
  BY <1>11 DEF GiveUp, TransportError, UsageIncomplete, RefundNothing, Crash
<1> QED
  BY <1>1, <1>2, <1>3, <1>4, <1>5, <1>6, <1>7, <1>8, <1>9, <1>10, <1>11
  DEF Handler
-------------------------------------------------------------------------------
(***************************************************************************)
(* What the quota operators return.                                        *)
(***************************************************************************)
LEMMA UserUpdatesFact ==
  ASSUME NEW u \in UserType, NEW after \in -MaxQuota..MaxQuota,
         NEW settlement \in BOOLEAN
  PROVE  /\ balanceLedgerUserUpdates(u, after, settlement) \in UserType
         /\ balanceLedgerUserUpdates(u, after, settlement).quota = after
         /\ balanceLedgerUserUpdates(u, after, settlement).used = u.used
         /\ balanceLedgerUserUpdates(u, after, settlement).deleted = u.deleted
BY DEF balanceLedgerUserUpdates, UserType

\* What ztapiSettlementWalletDeltaTx writes to the user: the balance moves by
\* exactly delta, usage and deletion are left alone.
LEMMA UserAfterFact ==
  ASSUME user \in UserType, NEW o \in Ops, NEW key \in LedgerKeys,
         NEW delta \in Int, NEW allowNegative \in BOOLEAN,
         CanMoveWallet(o, key, delta, allowNegative)
  PROVE  /\ UserAfter(delta, allowNegative) \in UserType
         /\ UserAfter(delta, allowNegative).quota = user.quota + delta
         /\ UserAfter(delta, allowNegative).used = user.used
         /\ UserAfter(delta, allowNegative).deleted = user.deleted
<1>0. MaxQuota \in Nat /\ user.quota \in -MaxQuota..MaxQuota
  BY MaxQuotaAssumption DEF UserType
<1>1. CASE delta = 0
  BY <1>0, <1>1 DEF UserAfter
<1>2. CASE delta # 0
  <2>1. user.quota + delta \in -MaxQuota..MaxQuota
    BY <1>0, <1>2 DEF CanMoveWallet, checkedBalanceLedgerSum,
                      checkedSettlementBalanceLedgerSum
  <2> DEFINE updated == balanceLedgerUserUpdates(user, user.quota + delta, allowNegative)
  <2>2. /\ updated \in UserType
        /\ updated.quota = user.quota + delta
        /\ updated.used = user.used
        /\ updated.deleted = user.deleted
    BY <2>1, UserUpdatesFact
  <2>3. user.status \in {"enabled", "disabled"}
    BY DEF UserType
  <2>4. UserAfter(delta, allowNegative)
          = IF user.deleted THEN [updated EXCEPT !.status = user.status] ELSE updated
    BY <1>2 DEF UserAfter
  <2> HIDE DEF updated
  <2> QED
    BY <2>2, <2>3, <2>4 DEF UserType
<1> QED
  BY <1>1, <1>2

\* The ledger row of a movement: a key is written once, and no other row changes.
LEMMA LedgerAfterFact ==
  ASSUME ledger \in [Ops -> [LedgerKeys -> -MaxQuota..MaxQuota]],
         NEW o \in Ops, NEW key \in LedgerKeys,
         NEW delta \in -MaxQuota..MaxQuota, NEW allowNegative \in BOOLEAN,
         CanMoveWallet(o, key, delta, allowNegative)
  PROVE  /\ LedgerAfter(o, key, delta) \in [Ops -> [LedgerKeys -> -MaxQuota..MaxQuota]]
         /\ LedgerAfter(o, key, delta)[o] \in [LedgerKeys -> -MaxQuota..MaxQuota]
         /\ LedgerAfter(o, key, delta)[o][key] = ledger[o][key] + delta
         /\ delta = 0 \/ ledger[o][key] = 0
         /\ \A k \in LedgerKeys \ {key} : LedgerAfter(o, key, delta)[o][k] = ledger[o][k]
         /\ \A p \in Ops \ {o} : LedgerAfter(o, key, delta)[p] = ledger[p]
<1>0. MaxQuota \in Nat
  BY MaxQuotaAssumption
<1>1. delta = 0 \/ ledger[o][key] = 0
  BY DEF CanMoveWallet
<1>2. ledger[o][key] \in -MaxQuota..MaxQuota
  OBVIOUS
<1>3. ledger[o][key] + delta \in -MaxQuota..MaxQuota
  BY <1>0, <1>1, <1>2
<1> DEFINE entries == [ledger[o] EXCEPT ![key] = @ + delta]
<1>4. LedgerAfter(o, key, delta) = [ledger EXCEPT ![o] = entries]
  BY DEF LedgerAfter
<1>5. ledger[o] \in [LedgerKeys -> -MaxQuota..MaxQuota]
  OBVIOUS
<1>6. /\ entries \in [LedgerKeys -> -MaxQuota..MaxQuota]
      /\ entries[key] = ledger[o][key] + delta
      /\ \A k \in LedgerKeys \ {key} : entries[k] = ledger[o][k]
  BY <1>3, <1>5
<1> HIDE DEF entries
<1>7. LedgerAfter(o, key, delta)[o] = entries
  BY <1>4
<1> QED
  BY <1>1, <1>4, <1>6, <1>7

\* ztapiSettlementTokenDeltaTx moves quota between a key's remainder and its use.
LEMMA TokenAfterFact ==
  ASSUME token \in TokenType, NEW delta \in Int, CanMoveToken(delta)
  PROVE  /\ TokenAfter(delta) \in TokenType
         /\ TokenAfter(delta).remain + TokenAfter(delta).used = token.remain + token.used
         /\ TokenAfter(delta).remain = token.remain + delta
<1>0. MaxQuota \in Nat /\ token.remain \in 0..MaxQuota /\ token.used \in 0..MaxQuota
  BY MaxQuotaAssumption DEF TokenType, Quota
<1>1. token.remain + delta \in 0..MaxQuota /\ token.used - delta \in 0..MaxQuota
  BY <1>0 DEF CanMoveToken, checkedBalanceLedgerSum
<1> DEFINE status == IF delta = 0 THEN token.status
                     ELSE IF token.remain + delta = 0 THEN "exhausted"
                     ELSE "enabled"
<1>2. status \in {"enabled", "exhausted"}
  BY DEF TokenType
<1>3. TokenAfter(delta) = [token EXCEPT !.remain = token.remain + delta,
                                       !.used = token.used - delta,
                                       !.status = status]
  BY DEF TokenAfter
<1> HIDE DEF status
<1>4. TokenAfter(delta) = [remain |-> token.remain + delta,
                           used |-> token.used - delta, status |-> status]
  BY <1>3 DEF TokenType
<1> QED
  BY <1>0, <1>1, <1>2, <1>4 DEF TokenType, Quota

\* The movement of the key lies between nothing and what was asked for.
LEMMA TokenDeltaFact ==
  ASSUME token \in TokenType, NEW delta \in Int, NEW allowDebt \in BOOLEAN
  PROVE  /\ TokenDelta(delta, allowDebt) \in Int
         /\ delta >= 0 => TokenDelta(delta, allowDebt) \in 0..delta
         /\ delta < 0 => TokenDelta(delta, allowDebt) \in delta..0
         /\ ~allowDebt => TokenDelta(delta, allowDebt) \in {0, delta}
<1>0. token.remain \in Nat
  BY MaxQuotaAssumption DEF TokenType, Quota
<1> QED
  BY <1>0, SettlementAssumption DEF TokenDelta
-------------------------------------------------------------------------------
(***************************************************************************)
(* Type correctness of the database.                                       *)
(***************************************************************************)
LEMMA ReturnType ==
  ASSUME DBTypeOK, NEW o \in Ops, NEW key \in LedgerKeys,
         CanReturn(o, key), ReturnReservation(o, key)
  PROVE  /\ user' \in UserType
         /\ user'.quota = user.quota + row[o].reserved
         /\ user'.used = user.used
         /\ token' \in TokenType
         /\ token'.remain + token'.used = token.remain + token.used
         /\ ledger' \in [Ops -> [LedgerKeys -> -MaxQuota..MaxQuota]]
         /\ ledger'[o][key] = ledger[o][key] + row[o].reserved
         /\ row[o].reserved = 0 \/ ledger[o][key] = 0
         /\ \A k \in LedgerKeys \ {key} : ledger'[o][k] = ledger[o][k]
         /\ \A p \in Ops \ {o} : ledger'[p] = ledger[p]
<1>1. /\ user \in UserType /\ token \in TokenType
      /\ ledger \in [Ops -> [LedgerKeys -> -MaxQuota..MaxQuota]]
      /\ row[o] \in RowType
  BY DEF DBTypeOK
<1>2. row[o].reserved \in 0..MaxQuota /\ row[o].tokenReserved \in 0..MaxQuota
  BY <1>1 DEF RowType, Quota
<1>3. row[o].reserved \in -MaxQuota..MaxQuota /\ row[o].reserved \in Int
      /\ row[o].tokenReserved \in Int
  BY <1>2, MaxQuotaAssumption
<1>4. CanMoveWallet(o, key, row[o].reserved, FALSE)
  BY DEF CanReturn
<1>5. /\ UserAfter(row[o].reserved, FALSE) \in UserType
      /\ UserAfter(row[o].reserved, FALSE).quota = user.quota + row[o].reserved
      /\ UserAfter(row[o].reserved, FALSE).used = user.used
  BY <1>1, <1>3, <1>4, UserAfterFact
<1> DEFINE moved == TokenDelta(row[o].tokenReserved, FALSE)
<1>6. moved \in Int
  BY <1>1, <1>3, TokenDeltaFact
<1>7. CanMoveToken(moved)
  BY DEF CanReturn
<1> HIDE DEF moved
<1>8. /\ TokenAfter(moved) \in TokenType
      /\ TokenAfter(moved).remain + TokenAfter(moved).used = token.remain + token.used
  BY <1>1, <1>6, <1>7, TokenAfterFact
<1>9. user' = UserAfter(row[o].reserved, FALSE) /\ token' = TokenAfter(moved)
      /\ ledger' = LedgerAfter(o, key, row[o].reserved)
  BY DEF ReturnReservation, moved
<1>10. /\ ledger' \in [Ops -> [LedgerKeys -> -MaxQuota..MaxQuota]]
       /\ ledger'[o][key] = ledger[o][key] + row[o].reserved
       /\ row[o].reserved = 0 \/ ledger[o][key] = 0
       /\ \A k \in LedgerKeys \ {key} : ledger'[o][k] = ledger[o][k]
       /\ \A p \in Ops \ {o} : ledger'[p] = ledger[p]
  <2> DEFINE reserved == row[o].reserved
  <2>1. reserved \in -MaxQuota..MaxQuota /\ CanMoveWallet(o, key, reserved, FALSE)
    BY <1>3, <1>4
  <2>2. ledger' = LedgerAfter(o, key, reserved)
    BY <1>9
  <2> HIDE DEF reserved
  <2>3. /\ LedgerAfter(o, key, reserved) \in [Ops -> [LedgerKeys -> -MaxQuota..MaxQuota]]
        /\ LedgerAfter(o, key, reserved)[o][key] = ledger[o][key] + reserved
        /\ reserved = 0 \/ ledger[o][key] = 0
        /\ \A k \in LedgerKeys \ {key} : LedgerAfter(o, key, reserved)[o][k] = ledger[o][k]
        /\ \A p \in Ops \ {o} : LedgerAfter(o, key, reserved)[p] = ledger[p]
    BY <1>1, <2>1, LedgerAfterFact, ZenonT(60)
  <2> QED
    BY <2>2, <2>3 DEF reserved
<1> QED
  BY <1>5, <1>8, <1>9, <1>10

\* A reservation debits the wallet and the key and inserts its row.
LEMMA BeginType ==
  ASSUME DBTypeOK, NEW o \in Ops, NEW amount \in Amounts,
         CanBeginSettlement(o, amount), BeginZTAPIRequestSettlement(o, amount)
  PROVE  /\ DBTypeOK'
         /\ user'.quota = user.quota - amount
         /\ token'.remain + token'.used = token.remain + token.used
         /\ ledger'[o]["begin"] = ledger[o]["begin"] - amount
         /\ \A k \in LedgerKeys \ {"begin"} : ledger'[o][k] = ledger[o][k]
         /\ \A p \in Ops \ {o} : ledger'[p] = ledger[p]
         /\ \E t \in Quota :
              row' = [row EXCEPT ![o] = NewRow("reserved", amount, t)]
<1>1. /\ user \in UserType /\ token \in TokenType
      /\ ledger \in [Ops -> [LedgerKeys -> -MaxQuota..MaxQuota]]
  BY DEF DBTypeOK
<1>2. amount \in 0..MaxQuota
  BY SettlementAssumption
<1>3. -amount \in -MaxQuota..MaxQuota /\ -amount \in Int /\ -amount <= 0
  BY <1>2, MaxQuotaAssumption
<1>4. CanMoveWallet(o, "begin", -amount, FALSE) /\ "begin" \in LedgerKeys
  BY DEF CanBeginSettlement, LedgerKeys
<1>5. /\ UserAfter(-amount, FALSE) \in UserType
      /\ UserAfter(-amount, FALSE).quota = user.quota + (-amount)
  BY <1>1, <1>3, <1>4, UserAfterFact
<1> DEFINE taken == TokenDelta(-amount, FALSE)
<1>6. taken \in {0, -amount} /\ taken \in Int
  BY <1>1, <1>3, TokenDeltaFact
<1>7. CanMoveToken(taken)
  BY DEF CanBeginSettlement
<1>8. /\ user' = UserAfter(-amount, FALSE)
      /\ token' = TokenAfter(taken)
      /\ ledger' = LedgerAfter(o, "begin", -amount)
      /\ row' = [row EXCEPT ![o] = NewRow("reserved", amount, -taken)]
      /\ attempts' = attempts /\ intent' = intent
  BY DEF BeginZTAPIRequestSettlement
<1> HIDE DEF taken
<1>9. /\ TokenAfter(taken) \in TokenType
      /\ TokenAfter(taken).remain + TokenAfter(taken).used = token.remain + token.used
  BY <1>1, <1>6, <1>7, TokenAfterFact
<1>10. /\ ledger' \in [Ops -> [LedgerKeys -> -MaxQuota..MaxQuota]]
       /\ ledger'[o]["begin"] = ledger[o]["begin"] + (-amount)
       /\ \A k \in LedgerKeys \ {"begin"} : ledger'[o][k] = ledger[o][k]
       /\ \A p \in Ops \ {o} : ledger'[p] = ledger[p]
  <2> DEFINE delta == -amount
  <2>1. delta \in -MaxQuota..MaxQuota /\ CanMoveWallet(o, "begin", delta, FALSE)
    BY <1>3, <1>4
  <2>2. ledger' = LedgerAfter(o, "begin", delta)
    BY <1>8
  <2> HIDE DEF delta
  <2>3. /\ LedgerAfter(o, "begin", delta) \in [Ops -> [LedgerKeys -> -MaxQuota..MaxQuota]]
        /\ LedgerAfter(o, "begin", delta)[o]["begin"] = ledger[o]["begin"] + delta
        /\ \A k \in LedgerKeys \ {"begin"} :
             LedgerAfter(o, "begin", delta)[o][k] = ledger[o][k]
        /\ \A p \in Ops \ {o} : LedgerAfter(o, "begin", delta)[p] = ledger[p]
    BY <1>1, <1>4, <2>1, LedgerAfterFact, ZenonT(60)
  <2> QED
    BY <2>2, <2>3 DEF delta
<1>11. -taken \in Quota
  <2>1. CASE taken = 0
    BY <2>1, MaxQuotaAssumption DEF Quota
  <2>2. CASE taken = -amount
    <3>1. amount \in Int /\ -taken = amount
      BY <1>2, <2>2
    <3> QED
      BY <1>2, <3>1 DEF Quota
  <2> QED
    BY <1>6, <2>1, <2>2
<1>12. NewRow("reserved", amount, -taken) \in RowType
  <2>1. 0 \in Quota /\ amount \in Quota /\ 0 \in 0..MaxAttempts
    BY <1>2, MaxQuotaAssumption DEF Quota, MaxAttempts
  <2> QED
    BY <1>11, <2>1 DEF NewRow, RowType, RowStatuses, Reasons
<1>14. row' \in [Ops -> RowType]
  BY <1>8, <1>12 DEF DBTypeOK
<1>15. DBTypeOK'
  BY <1>5, <1>8, <1>9, <1>10, <1>14 DEF DBTypeOK
<1>16. /\ user'.quota = user.quota - amount
       /\ ledger'[o]["begin"] = ledger[o]["begin"] - amount
  <2>1. user.quota \in Int /\ ledger[o]["begin"] \in Int /\ amount \in Int
    BY <1>1, <1>2, <1>4, MaxQuotaAssumption DEF UserType
  <2> QED
    BY <2>1, <1>5, <1>8, <1>10
<1> QED
  BY <1>8, <1>9, <1>10, <1>11, <1>15, <1>16

(***************************************************************************)
(* What a transaction may do to the money of its request o: take the hold, *)
(* charge it, return it through one of the three release keys, or leave it *)
(* alone.  Rows and ledger rows of other requests stay as they are, and    *)
(* the key's remaining and used quota keep their sum.                      *)
(***************************************************************************)
OthersSame(o) == \A p \in Ops \ {o} : row'[p] = row[p] /\ ledger'[p] = ledger[p]

Taken(o) ==
  /\ row[o].status = "absent" /\ row'[o].status = "reserved"
  /\ row'[o].charged = 0
  /\ ledger'[o]["begin"] = ledger[o]["begin"] - row'[o].reserved
  /\ \A k \in LedgerKeys \ {"begin"} : ledger'[o][k] = ledger[o][k]

Charged(o) ==
  /\ row[o].status \in Held /\ row'[o].status = "settled"
  /\ row'[o].reserved = row[o].reserved
  /\ ledger'[o]["settle"] = ledger[o]["settle"] + (row[o].reserved - row'[o].charged)
  /\ \A k \in LedgerKeys \ {"settle"} : ledger'[o][k] = ledger[o][k]

Returned(o) ==
  /\ row[o].status \in Held /\ row'[o].status = "released"
  /\ row'[o].reserved = row[o].reserved /\ row'[o].charged = row[o].charged
  /\ \E key \in {"release", "upstream-rejected", "no-charge"} :
       /\ ledger'[o][key] = ledger[o][key] + row[o].reserved
       /\ \A k \in LedgerKeys \ {key} : ledger'[o][k] = ledger[o][k]

Quiet(o) ==
  /\ \/ row'[o].status = row[o].status
     \/ row[o].status = "reserved" /\ row'[o].status = "pending"
  /\ row[o].status \in {"settled", "released"} => row'[o] = row[o]
  /\ row'[o].reserved = row[o].reserved /\ row'[o].charged = row[o].charged
  /\ ledger'[o] = ledger[o]

TokenSum == token.remain + token.used

Moves(o) ==
  /\ DBTypeOK'
  /\ OthersSame(o)
  /\ Taken(o) \/ Charged(o) \/ Returned(o) \/ Quiet(o)
  /\ TokenSum' = TokenSum

\* Beginning a settlement touches its own request only.
LEMMA BeginMoves ==
  ASSUME DBTypeOK, NEW o \in Ops, NEW amount \in Amounts,
         CanBeginSettlement(o, amount), BeginZTAPIRequestSettlement(o, amount)
  PROVE  Moves(o)
<1>1. PICK t \in Quota : row' = [row EXCEPT ![o] = NewRow("reserved", amount, t)]
  BY BeginType
<1>2. row'[o] = NewRow("reserved", amount, t) /\ \A p \in Ops \ {o} : row'[p] = row[p]
  BY <1>1 DEF DBTypeOK
<1>3. /\ row'[o].status = "reserved" /\ row'[o].charged = 0
      /\ row'[o].reserved = amount
  BY <1>2 DEF NewRow
<1>4. row[o].status = "absent"
  BY DEF CanBeginSettlement
<1>5. Taken(o) /\ OthersSame(o) /\ DBTypeOK' /\ TokenSum' = TokenSum
  BY <1>2, <1>3, <1>4, BeginType DEF Taken, OthersSame, TokenSum
<1> QED
  BY <1>5 DEF Moves

\* An attempt numbers itself and marks the row as dispatched.
LEMMA BeginAttemptMoves ==
  ASSUME DBTypeOK, NEW o \in Ops, NEW ch \in Channels,
         CanBeginAttempt(o, ch), BeginZTAPIRequestAttempt(o, ch)
  PROVE  Moves(o)
<1> DEFINE new == [channel |-> ch, http |-> NoResponse, safety |-> FALSE]
<1>1. new \in AttemptType
  BY DEF AttemptType, NoResponse
<1>2. attempts[o] \in Seq(AttemptType) /\ Len(attempts[o]) < MaxAttempts
      /\ row[o] \in RowType
  BY DEF DBTypeOK, CanBeginAttempt
<1>3. attempts' = [attempts EXCEPT ![o] = Append(attempts[o], new)]
      /\ row' = [row EXCEPT ![o].dispatched = TRUE]
      /\ UNCHANGED <<user, token, ledger, intent>>
  BY DEF BeginZTAPIRequestAttempt
<1> HIDE DEF new
<1>4. Append(attempts[o], new) \in Seq(AttemptType)
      /\ Len(Append(attempts[o], new)) <= MaxAttempts
  BY <1>1, <1>2 DEF MaxAttempts
<1>5. attempts' \in [Ops -> Seq(AttemptType)]
      /\ \A p \in Ops : Len(attempts'[p]) <= MaxAttempts
  BY <1>3, <1>4 DEF DBTypeOK
<1>6. /\ row' \in [Ops -> RowType]
      /\ row'[o].status = row[o].status
      /\ row'[o].reserved = row[o].reserved /\ row'[o].charged = row[o].charged
      /\ \A p \in Ops \ {o} : row'[p] = row[p]
  BY <1>2, <1>3 DEF DBTypeOK, RowType
<1>7. DBTypeOK'
  BY <1>3, <1>5, <1>6 DEF DBTypeOK
<1>8. row[o].status = "reserved"
  BY DEF CanBeginAttempt
<1>9. OthersSame(o)
  BY <1>3, <1>6 DEF OthersSame
<1>10. Quiet(o)
  BY <1>3, <1>6, <1>8 DEF Quiet
<1>11. TokenSum' = TokenSum
  BY <1>3 DEF TokenSum
<1> QED
  BY <1>7, <1>9, <1>10, <1>11 DEF Moves

\* A recorded status or safety mark leaves a well-formed attempt.
LEMMA AttemptUpdate ==
  ASSUME NEW a \in AttemptType, NEW status \in 0..599
  PROVE  /\ [a EXCEPT !.http = status] \in AttemptType
         /\ [a EXCEPT !.safety = TRUE] \in AttemptType
<1>1. [a EXCEPT !.http = status] \in AttemptType
  BY ZenonT(30) DEF AttemptType
<1>2. [a EXCEPT !.safety = TRUE] \in AttemptType
  BY ZenonT(30) DEF AttemptType
<1> QED
  BY <1>1, <1>2

\* A step that rewrites one request's attempts moves no money.
LEMMA AttemptsOnlyMoves ==
  ASSUME DBTypeOK, NEW o \in Ops, NEW new \in Seq(AttemptType),
         Len(new) <= MaxAttempts, attempts' = [attempts EXCEPT ![o] = new],
         UNCHANGED <<user, token, ledger, row, intent>>
  PROVE  Moves(o)
<1>1. attempts' \in [Ops -> Seq(AttemptType)]
      /\ \A p \in Ops : Len(attempts'[p]) <= MaxAttempts
  BY DEF DBTypeOK
<1>2. DBTypeOK'
  BY <1>1 DEF DBTypeOK
<1>3. OthersSame(o)
  BY DEF OthersSame
<1>4. Quiet(o)
  BY DEF Quiet
<1>5. TokenSum' = TokenSum
  BY DEF TokenSum
<1> QED
  BY <1>2, <1>3, <1>4, <1>5 DEF Moves

\* Recording an upstream's status moves no money.
LEMMA RecordMoves ==
  ASSUME DBTypeOK, NEW o \in Ops, NEW i \in Int, NEW status \in Statuses,
         RecordZTAPIRequestAttemptResponse(o, i, status)
  PROVE  Moves(o)
<1> DEFINE s == attempts[o]
           new == [s EXCEPT ![i].http = status]
<1>1. s \in Seq(AttemptType) /\ Len(s) <= MaxAttempts
  BY DEF DBTypeOK
<1>2. status \in 0..599
  BY SettlementAssumption
<1>3. attempts' = [attempts EXCEPT ![o] = new]
      /\ UNCHANGED <<user, token, ledger, row, intent>>
  BY DEF RecordZTAPIRequestAttemptResponse
<1> HIDE DEF s
<1>4. new \in Seq(AttemptType) /\ Len(new) = Len(s)
  <2>1. DOMAIN new = 1..Len(s)
    BY <1>1
  <2>2. \A j \in 1..Len(s) : new[j] \in AttemptType
    <3>1. SUFFICES ASSUME NEW j \in 1..Len(s) PROVE new[j] \in AttemptType
      OBVIOUS
    <3>2. s[j] \in AttemptType
      BY <1>1
    <3>3. CASE j = i
      <4>1. new[j] = [s[j] EXCEPT !.http = status]
        BY <1>1, <3>3
      <4> QED
        BY <1>2, <3>2, <4>1, AttemptUpdate, ZenonT(60)
    <3>4. CASE j # i
      BY <1>1, <3>2, <3>4
    <3> QED
      BY <3>3, <3>4
  <2>3. new = [j \in 1..Len(s) |-> new[j]]
    BY <2>1
  <2> HIDE DEF new
  <2> QED
    BY <1>1, <2>1, <2>2, <2>3
<1> HIDE DEF new
<1> QED
  BY <1>1, <1>3, <1>4, AttemptsOnlyMoves

\* Marking a safety outcome moves no money.
LEMMA MarkMoves ==
  ASSUME DBTypeOK, NEW o \in Ops, MarkZTAPIRequestSafetyOutcome(o)
  PROVE  Moves(o)
<1> DEFINE s == attempts[o]
           new == [i \in 1..Len(s) |-> [s[i] EXCEPT !.safety = TRUE]]
<1>1. s \in Seq(AttemptType) /\ Len(s) <= MaxAttempts
  BY DEF DBTypeOK
<1>3. attempts' = [attempts EXCEPT ![o] = new]
      /\ UNCHANGED <<user, token, ledger, row, intent>>
  BY DEF MarkZTAPIRequestSafetyOutcome
<1> HIDE DEF s
<1>4. new \in Seq(AttemptType) /\ Len(new) = Len(s)
  <2>1. \A i \in 1..Len(s) : [s[i] EXCEPT !.safety = TRUE] \in AttemptType
    <3>1. 0 \in 0..599 /\ \A i \in 1..Len(s) : s[i] \in AttemptType
      BY <1>1
    <3> QED
      BY <3>1, AttemptUpdate, ZenonT(60)
  <2> QED
    BY <1>1, <2>1
<1> HIDE DEF new
<1> QED
  BY <1>1, <1>3, <1>4, AttemptsOnlyMoves

\* Parking keeps the reservation and the intent.
LEMMA PendMoves ==
  ASSUME DBTypeOK, NEW o \in Ops, NEW usage \in {"none", "known"},
         NEW missing \in Reasons, CanPend(o, usage, missing),
         PendZTAPIRequestSettlement(o, usage, missing)
  PROVE  Moves(o)
<1> DEFINE e == PendingEvidence(o, usage, missing)
           new == [row[o] EXCEPT !.status = "pending", !.usage = e.usage,
                                 !.missing = e.missing]
<1>1. e.usage \in {"none", "known"} /\ e.missing \in Reasons
  BY DEF PendingEvidence, Reasons
<1>2. row' = [row EXCEPT ![o] = new] /\ UNCHANGED <<user, token, ledger, attempts, intent>>
  BY DEF PendZTAPIRequestSettlement, DBTypeOK
<1> HIDE DEF e
<1>3. row[o] \in RowType /\ row \in [Ops -> RowType]
  BY DEF DBTypeOK
<1>4. /\ new \in RowType
      /\ new.status = "pending" /\ new.reserved = row[o].reserved
      /\ new.charged = row[o].charged
  BY <1>1, <1>3 DEF RowType, RowStatuses
<1> HIDE DEF new
<1>5. row' \in [Ops -> RowType] /\ row'[o] = new /\ \A p \in Ops \ {o} : row'[p] = row[p]
  BY <1>2, <1>3, <1>4
<1>6. row[o].status \in {"reserved", "pending"}
  BY DEF CanPend
<1>7. DBTypeOK'
  BY <1>2, <1>5 DEF DBTypeOK
<1>8. OthersSame(o)
  BY <1>2, <1>5 DEF OthersSame
<1>9. Quiet(o)
  BY <1>2, <1>4, <1>5, <1>6 DEF Quiet
<1>10. TokenSum' = TokenSum
  BY <1>2 DEF TokenSum
<1> QED
  BY <1>7, <1>8, <1>9, <1>10 DEF Moves

\* The three release paths differ in their guards and in their ledger key.
LEMMA ReturnMoves ==
  ASSUME DBTypeOK, NEW o \in Ops,
         NEW key \in {"release", "upstream-rejected", "no-charge"},
         CanReturn(o, key), ReturnReservation(o, key),
         row[o].status \in Held, NEW new \in RowType,
         row' = [row EXCEPT ![o] = new], new.status = "released",
         new.reserved = row[o].reserved, new.charged = row[o].charged,
         UNCHANGED <<attempts, intent>>
  PROVE  Moves(o)
<1>1. key \in LedgerKeys
  BY DEF LedgerKeys
<1>2. row' \in [Ops -> RowType] /\ row'[o] = new /\ \A p \in Ops \ {o} : row'[p] = row[p]
  BY DEF DBTypeOK
<1>3. /\ user' \in UserType
      /\ token' \in TokenType
      /\ token'.remain + token'.used = token.remain + token.used
      /\ ledger' \in [Ops -> [LedgerKeys -> -MaxQuota..MaxQuota]]
      /\ ledger'[o][key] = ledger[o][key] + row[o].reserved
      /\ \A k \in LedgerKeys \ {key} : ledger'[o][k] = ledger[o][k]
      /\ \A p \in Ops \ {o} : ledger'[p] = ledger[p]
  BY <1>1, ReturnType
<1>4. DBTypeOK'
  BY <1>2, <1>3 DEF DBTypeOK
<1>5. OthersSame(o)
  BY <1>2, <1>3 DEF OthersSame
<1>6. Returned(o)
  BY <1>2, <1>3 DEF Returned
<1>7. TokenSum' = TokenSum
  BY <1>3 DEF TokenSum
<1> QED
  BY <1>4, <1>5, <1>6, <1>7 DEF Moves

\* A rolled back transaction moves nothing.
LEMMA UnchangedMoves ==
  ASSUME DBTypeOK, NEW o \in Ops, UNCHANGED db
  PROVE  Moves(o)
<1>1. UNCHANGED <<user, token, ledger, row, attempts, intent>>
  BY DEF db
<1>2. DBTypeOK'
  BY <1>1 DEF DBTypeOK
<1>3. OthersSame(o)
  BY <1>1 DEF OthersSame
<1>4. Quiet(o)
  BY <1>1 DEF Quiet
<1>5. TokenSum' = TokenSum
  BY <1>1 DEF TokenSum
<1> QED
  BY <1>2, <1>3, <1>4, <1>5 DEF Moves

\* A release returns the whole reservation, once.
LEMMA ReleaseMoves ==
  ASSUME DBTypeOK, NEW o \in Ops, CanRelease(o), ReleaseZTAPIRequestSettlement(o)
  PROVE  Moves(o)
<1>1. CASE row[o].status = "released"
  BY <1>1, UnchangedMoves DEF ReleaseZTAPIRequestSettlement
<1>2. CASE row[o].status # "released"
  <2> DEFINE new == [row[o] EXCEPT !.status = "released"]
  <2>1. /\ CanReturn(o, "release") /\ ReturnReservation(o, "release")
        /\ row[o].status \in Held
        /\ row' = [row EXCEPT ![o] = new] /\ UNCHANGED <<attempts, intent>>
    BY <1>2 DEF CanRelease, ReleaseZTAPIRequestSettlement, Held
  <2>2. row[o] \in RowType
    BY DEF DBTypeOK
  <2>3. /\ new \in RowType /\ new.status = "released"
        /\ new.reserved = row[o].reserved /\ new.charged = row[o].charged
    BY <2>2 DEF RowType, RowStatuses
  <2> HIDE DEF new
  <2> QED
    BY <2>1, <2>3, ReturnMoves
<1> QED
  BY <1>1, <1>2

\* So does the release of a request that every supplier rejected.
LEMMA ReleaseRejectedMoves ==
  ASSUME DBTypeOK, NEW o \in Ops, CanReleaseRejected(o),
         ReleaseZTAPIDispatchedRejectedSettlement(o)
  PROVE  Moves(o)
<1>1. CASE row[o].status = "released"
  BY <1>1, UnchangedMoves DEF ReleaseZTAPIDispatchedRejectedSettlement
<1>2. CASE row[o].status # "released"
  <2> DEFINE n == Len(attempts[o])
             new == [row[o] EXCEPT !.status = "released", !.missing = "none",
                                   !.finalAttempt = n]
  <2>1. /\ CanReturn(o, "upstream-rejected") /\ ReturnReservation(o, "upstream-rejected")
        /\ row[o].status \in Held /\ UNCHANGED <<attempts, intent>>
    BY <1>2 DEF CanReleaseRejected, ReleaseZTAPIDispatchedRejectedSettlement
  <2>2. row' = [row EXCEPT ![o] = new]
    BY <1>2 DEF ReleaseZTAPIDispatchedRejectedSettlement, DBTypeOK
  <2>3. row[o] \in RowType /\ n \in 0..MaxAttempts
    BY DEF DBTypeOK
  <2> HIDE DEF n
  <2>4. /\ new \in RowType /\ new.status = "released"
        /\ new.reserved = row[o].reserved /\ new.charged = row[o].charged
    BY <2>3 DEF RowType, RowStatuses, Reasons
  <2> HIDE DEF new
  <2> QED
    BY <2>1, <2>2, <2>4, ReturnMoves
<1> QED
  BY <1>1, <1>2

\* So does the operator's decision that nothing is owed.
LEMMA ResolveMoves ==
  ASSUME DBTypeOK, NEW o \in Ops, CanResolve(o), ReturnReservation(o, "no-charge"),
         row' = [row EXCEPT ![o].status = "released"], UNCHANGED <<attempts, intent>>
  PROVE  Moves(o)
<1> DEFINE new == [row[o] EXCEPT !.status = "released"]
<1>1. CanReturn(o, "no-charge") /\ row[o].status \in Held /\ row' = [row EXCEPT ![o] = new]
  BY DEF CanResolve, Held
<1>2. row[o] \in RowType
  BY DEF DBTypeOK
<1>3. /\ new \in RowType /\ new.status = "released"
      /\ new.reserved = row[o].reserved /\ new.charged = row[o].charged
  BY <1>2 DEF RowType, RowStatuses
<1> HIDE DEF new
<1> QED
  BY <1>1, <1>3, ReturnMoves

\* A step that rewrites intents only moves no money.
LEMMA IntentOnlyMoves ==
  ASSUME DBTypeOK, NEW o \in Ops, intent' \in [Ops -> IntentType],
         UNCHANGED <<user, token, ledger, row, attempts>>
  PROVE  Moves(o)
<1>1. DBTypeOK'
  BY DEF DBTypeOK
<1>2. OthersSame(o)
  BY DEF OthersSame
<1>3. Quiet(o)
  BY DEF Quiet
<1>4. TokenSum' = TokenSum
  BY DEF TokenSum
<1> QED
  BY <1>1, <1>2, <1>3, <1>4 DEF Moves

\* Saving an intent moves no money.
LEMMA SaveIntentMoves ==
  ASSUME DBTypeOK, NEW o \in Ops, NEW actual \in Amounts,
         NEW attempt \in 0..MaxAttempts,
         saveZTAPISettlementFinalizationIntent(o, actual, attempt)
  PROVE  Moves(o)
<1> DEFINE new == [state |-> "open", actual |-> actual, attempt |-> attempt]
<1>1. actual \in Quota
  BY SettlementAssumption DEF Quota
<1>2. new \in IntentType
  BY <1>1 DEF IntentType
<1>3. intent' = intent \/ intent' = [intent EXCEPT ![o] = new]
  BY DEF saveZTAPISettlementFinalizationIntent
<1> HIDE DEF new
<1>4. intent' \in [Ops -> IntentType]
  BY <1>2, <1>3 DEF DBTypeOK
<1> QED
  BY <1>4, IntentOnlyMoves DEF saveZTAPISettlementFinalizationIntent

\* Completing an intent keeps its amount.
LEMMA CompleteIntent ==
  ASSUME DBTypeOK, NEW o \in Ops, intent' = [intent EXCEPT ![o].state = "completed"]
  PROVE  /\ intent' \in [Ops -> IntentType]
         /\ intent'[o].state = "completed"
         /\ intent'[o].actual = intent[o].actual
         /\ \A p \in Ops \ {o} : intent'[p] = intent[p]
<1> DEFINE new == [intent[o] EXCEPT !.state = "completed"]
<1>1. intent \in [Ops -> IntentType] /\ intent[o] \in IntentType
  BY DEF DBTypeOK
<1>2. intent' = [intent EXCEPT ![o] = new]
  OBVIOUS
<1>3. new \in IntentType /\ new.state = "completed" /\ new.actual = intent[o].actual
  BY <1>1 DEF IntentType
<1> HIDE DEF new
<1> QED
  BY <1>1, <1>2, <1>3

\* What the key has paid after a correction of its reservation is no debt and
\* fits the column.
LEMMA KeptByKey ==
  ASSUME NEW held \in 0..MaxQuota, NEW actual \in 0..MaxQuota, NEW moved \in Int,
         held - actual >= 0 => moved \in 0..(held - actual),
         held - actual < 0 => moved \in (held - actual)..0
  PROVE  held - moved \in 0..MaxQuota
<1>1. MaxQuota \in Int /\ held \in Int /\ actual \in Int
  BY MaxQuotaAssumption
<1>2. CASE held - actual >= 0
  BY <1>1, <1>2
<1>3. CASE held - actual < 0
  BY <1>1, <1>3
<1> QED
  BY <1>1, <1>2, <1>3

\* A finalization settles the row at the intent's amount and completes the intent.
LEMMA FinalizeMoves ==
  ASSUME DBTypeOK, NEW o \in Ops, CanFinalize(o), finalizeZTAPIRequestSettlement(o)
  PROVE  /\ Moves(o)
         /\ row[o].status # "settled" =>
              /\ row'[o].status = "settled"
              /\ row'[o].charged = intent[o].actual
              /\ intent'[o].state = "completed"
              /\ intent'[o].actual = intent[o].actual
<1>1. CASE row[o].status = "settled"
  BY <1>1, UnchangedMoves DEF finalizeZTAPIRequestSettlement
<1>2. CASE row[o].status # "settled"
  <2> DEFINE actual == intent[o].actual
             r == row[o]
             delta == r.reserved - actual
             moved == TokenDelta(r.tokenReserved - actual, TRUE)
             new == [r EXCEPT !.status = "settled", !.charged = actual,
                              !.tokenCharged = r.tokenReserved - moved,
                              !.usage = "known", !.missing = "none",
                              !.finalAttempt = intent[o].attempt]
  <2>1. /\ user \in UserType /\ token \in TokenType /\ r \in RowType
        /\ row \in [Ops -> RowType]
        /\ ledger \in [Ops -> [LedgerKeys -> -MaxQuota..MaxQuota]]
        /\ intent[o] \in IntentType
    BY DEF DBTypeOK
  <2>2. /\ actual \in 0..MaxQuota /\ r.reserved \in 0..MaxQuota
        /\ r.tokenReserved \in 0..MaxQuota /\ intent[o].attempt \in 0..MaxAttempts
    BY <2>1 DEF RowType, IntentType, Quota
  <2>3. /\ CanMoveWallet(o, "settle", delta, TRUE) /\ CanMoveToken(moved)
        /\ user.used + actual <= MaxQuota
        /\ r.status \in Held /\ "settle" \in LedgerKeys
    BY <1>2 DEF CanFinalize, Retryable, Held, LedgerKeys
  <2>4. /\ user' = [UserAfter(delta, TRUE) EXCEPT !.used = @ + actual]
        /\ ledger' = LedgerAfter(o, "settle", delta)
        /\ token' = TokenAfter(moved)
        /\ intent' = [intent EXCEPT ![o].state = "completed"]
        /\ attempts' = attempts
    BY <1>2 DEF finalizeZTAPIRequestSettlement
  <2>5. row' = [row EXCEPT ![o] = new]
    BY <1>2, <2>1 DEF finalizeZTAPIRequestSettlement, TokenCharged
  <2>6. /\ delta \in -MaxQuota..MaxQuota /\ delta \in Int
        /\ r.tokenReserved - actual \in Int
    BY <2>2, MaxQuotaAssumption
  <2>7. /\ moved \in Int
        /\ r.tokenReserved - actual >= 0 => moved \in 0..(r.tokenReserved - actual)
        /\ r.tokenReserved - actual < 0 => moved \in (r.tokenReserved - actual)..0
    BY <2>1, <2>6, TokenDeltaFact
  <2> HIDE DEF moved
  <2>8. r.tokenReserved - moved \in 0..MaxQuota
    BY <2>2, <2>7, KeptByKey
  <2> DEFINE tokenCharged == r.tokenReserved - moved
  <2> HIDE DEF delta, actual, r
  <2>9. /\ new \in RowType /\ new.status = "settled" /\ new.charged = actual
        /\ new.reserved = r.reserved
    <3>1. new = [r EXCEPT !.status = "settled", !.charged = actual,
                          !.tokenCharged = tokenCharged,
                          !.usage = "known", !.missing = "none",
                          !.finalAttempt = intent[o].attempt]
      OBVIOUS
    <3>2. tokenCharged \in 0..MaxQuota
      BY <2>8
    <3> HIDE DEF new, tokenCharged
    <3> QED
      BY <2>1, <2>2, <3>1, <3>2 DEF RowType, RowStatuses, Reasons, Quota
  <2> HIDE DEF new
  <2>10. /\ row' \in [Ops -> RowType] /\ row'[o] = new
         /\ \A p \in Ops \ {o} : row'[p] = row[p]
    BY <2>1, <2>5, <2>9
  <2>11. /\ token' \in TokenType
         /\ token'.remain + token'.used = token.remain + token.used
    BY <2>1, <2>3, <2>4, <2>7, TokenAfterFact
  <2>12. user' \in UserType
    <3> DEFINE u == UserAfter(delta, TRUE)
    <3>1. u \in UserType /\ u.used = user.used
      BY <2>1, <2>3, <2>6, UserAfterFact
    <3>2. user.used + actual \in 0..MaxQuota
      BY <2>1, <2>2, <2>3, MaxQuotaAssumption DEF UserType
    <3>3. user' = [u EXCEPT !.used = u.used + actual]
      BY <2>4
    <3> HIDE DEF u
    <3> QED
      BY <3>1, <3>2, <3>3 DEF UserType
  <2>13. /\ ledger' \in [Ops -> [LedgerKeys -> -MaxQuota..MaxQuota]]
         /\ ledger'[o]["settle"] = ledger[o]["settle"] + delta
         /\ \A k \in LedgerKeys \ {"settle"} : ledger'[o][k] = ledger[o][k]
         /\ \A p \in Ops \ {o} : ledger'[p] = ledger[p]
    <3>1. /\ LedgerAfter(o, "settle", delta) \in [Ops -> [LedgerKeys -> -MaxQuota..MaxQuota]]
          /\ LedgerAfter(o, "settle", delta)[o]["settle"] = ledger[o]["settle"] + delta
          /\ \A k \in LedgerKeys \ {"settle"} :
               LedgerAfter(o, "settle", delta)[o][k] = ledger[o][k]
          /\ \A p \in Ops \ {o} : LedgerAfter(o, "settle", delta)[p] = ledger[p]
      BY <2>1, <2>3, <2>6, LedgerAfterFact, ZenonT(60)
    <3> QED
      BY <2>4, <3>1
  <2>14. /\ intent' \in [Ops -> IntentType] /\ intent'[o].state = "completed"
         /\ intent'[o].actual = actual
    BY <2>4, CompleteIntent DEF actual
  <2>15. DBTypeOK'
    BY <2>4, <2>10, <2>11, <2>12, <2>13, <2>14 DEF DBTypeOK
  <2>16. OthersSame(o)
    BY <2>10, <2>13 DEF OthersSame
  <2>17. Charged(o)
    <3>1. /\ row'[o].status = "settled" /\ row'[o].charged = actual
          /\ row'[o].reserved = row[o].reserved /\ row[o].status \in Held
      BY <2>3, <2>9, <2>10 DEF r
    <3>2. ledger'[o]["settle"] = ledger[o]["settle"] + (row[o].reserved - row'[o].charged)
      BY <2>13, <3>1 DEF delta, r
    <3> QED
      BY <2>13, <3>1, <3>2 DEF Charged
  <2>18. TokenSum' = TokenSum
    BY <2>11 DEF TokenSum
  <2>19. Moves(o)
    BY <2>15, <2>16, <2>17, <2>18 DEF Moves
  <2> QED
    BY <2>9, <2>10, <2>14, <2>19 DEF actual
<1> QED
  BY <1>1, <1>2

\* Every transaction of a request is one of the movements above.
LEMMA TxMoves ==
  ASSUME TypeOK, NEW o \in Ops, Tx(o)
  PROVE  Moves(o)
<1>1. DBTypeOK /\ session[o].attempt \in 0..MaxAttempts /\ session[o].attempt \in Int
  BY DEF TypeOK, SessionTypeOK, SessionType, MaxAttempts
<1>2. CASE /\ row[o].status = "released"
           /\ intent' = [intent EXCEPT ![o].state = "completed"]
           /\ UNCHANGED <<user, token, ledger, row, attempts>>
  BY <1>1, <1>2, CompleteIntent, IntentOnlyMoves
<1> QED
  BY <1>1, <1>2, BeginMoves, BeginAttemptMoves, RecordMoves, MarkMoves, PendMoves,
     ReleaseMoves, ReleaseRejectedMoves, SaveIntentMoves, FinalizeMoves, ResolveMoves
  DEF Tx
-------------------------------------------------------------------------------
(***************************************************************************)
(* Type correctness of the handlers, and then of the whole system.         *)
(***************************************************************************)
LEMMA SessionUpdate ==
  ASSUME SessionTypeOK, NEW o \in Ops, NEW new \in SessionType,
         session' = [session EXCEPT ![o] = new]
  PROVE  /\ session' \in [Ops -> SessionType] /\ session'[o] = new
         /\ \A p \in Ops \ {o} : session'[p] = session[p]
BY DEF SessionTypeOK

\* A handler that proceeds keeps the reason it remembers.
LEMMA GotoFact ==
  ASSUME SessionTypeOK, NEW o \in Ops, NEW pc \in PCs, Goto(o, pc)
  PROVE  /\ session' \in [Ops -> SessionType]
         /\ session'[o].pc = pc /\ session'[o].reason = session[o].reason
         /\ \A p \in Ops \ {o} : session'[p] = session[p]
<1> DEFINE new == [session[o] EXCEPT !.pc = pc]
<1>1. session[o] \in SessionType /\ session' = [session EXCEPT ![o] = new]
  BY DEF SessionTypeOK, Goto
<1>2. new \in SessionType /\ new.pc = pc /\ new.reason = session[o].reason
  BY <1>1 DEF SessionType
<1> HIDE DEF new
<1> QED
  BY <1>1, <1>2, SessionUpdate

\* A handler that fails goes on to its refund.
LEMMA FailFact ==
  ASSUME SessionTypeOK, NEW o \in Ops, Fail(o)
  PROVE  /\ session' \in [Ops -> SessionType]
         /\ session'[o].pc = "refund" /\ session'[o].reason = session[o].reason
         /\ \A p \in Ops \ {o} : session'[p] = session[p]
<1> DEFINE new == [session[o] EXCEPT !.pc = "refund", !.failed = TRUE]
<1>1. session[o] \in SessionType /\ session' = [session EXCEPT ![o] = new]
  BY DEF SessionTypeOK, Fail
<1>2. new \in SessionType /\ new.pc = "refund" /\ new.reason = session[o].reason
  BY <1>1 DEF SessionType, PCs
<1> HIDE DEF new
<1> QED
  BY <1>1, <1>2, SessionUpdate

\* So does one that fails on an answer; it remembers what it saw of it.
LEMMA FailAnsweredFact ==
  ASSUME SessionTypeOK, NEW o \in Ops, NEW block \in BOOLEAN, NEW safety \in BOOLEAN,
         FailAnswered(o, block, safety)
  PROVE  /\ session' \in [Ops -> SessionType]
         /\ session'[o].pc = "refund" /\ session'[o].reason = session[o].reason
         /\ session'[o].blocked = block /\ session'[o].safety = safety
         /\ session'[o].attempt = session[o].attempt
         /\ session'[o].status = session[o].status
         /\ session'[o].dispatched = session[o].dispatched
         /\ \A p \in Ops \ {o} : session'[p] = session[p]
<1> DEFINE new == [session[o] EXCEPT !.pc = "refund", !.failed = TRUE,
                                     !.blocked = block, !.safety = safety]
<1>1. session[o] \in SessionType /\ session' = [session EXCEPT ![o] = new]
  BY DEF SessionTypeOK, FailAnswered
<1>2. /\ new \in SessionType /\ new.pc = "refund" /\ new.reason = session[o].reason
      /\ new.blocked = block /\ new.safety = safety /\ new.attempt = session[o].attempt
      /\ new.status = session[o].status /\ new.dispatched = session[o].dispatched
  BY <1>1 DEF SessionType, PCs
<1> HIDE DEF new
<1> QED
  BY <1>1, <1>2, SessionUpdate

\* A handler that parks remembers why.
LEMMA ParkFact ==
  ASSUME SessionTypeOK, NEW o \in Ops, NEW reason \in Reasons, Park(o, reason)
  PROVE  /\ session' \in [Ops -> SessionType]
         /\ session'[o].pc = "park" /\ session'[o].reason = reason
         /\ \A p \in Ops \ {o} : session'[p] = session[p]
<1> DEFINE new == [session[o] EXCEPT !.pc = "park", !.reason = reason]
<1>1. session[o] \in SessionType /\ session' = [session EXCEPT ![o] = new]
  BY DEF SessionTypeOK, Park
<1>2. new \in SessionType /\ new.pc = "park" /\ new.reason = reason
  BY <1>1 DEF SessionType, PCs
<1> HIDE DEF new
<1> QED
  BY <1>1, <1>2, SessionUpdate

\* A handler whose row is decided is done, or refunds once more.
LEMMA EndedFact ==
  ASSUME SessionTypeOK, NEW o \in Ops, NEW status \in RowStatuses, Ended(o, status)
  PROVE  /\ session' \in [Ops -> SessionType]
         /\ session'[o].pc \in {"refund", "done"}
         /\ \A p \in Ops \ {o} : session'[p] = session[p]
<1> DEFINE again == status = "reserved" /\ session[o].failed /\ ~session[o].retried
           pc == IF again THEN "refund" ELSE "done"
           retried == again \/ session[o].retried
           new == [session[o] EXCEPT !.pc = pc, !.status = status, !.retried = retried]
<1>1. session[o] \in SessionType /\ session' = [session EXCEPT ![o] = new]
  BY DEF SessionTypeOK, Ended
<1>2. pc \in {"refund", "done"} /\ retried \in BOOLEAN
  BY <1>1 DEF SessionType
<1> HIDE DEF pc, retried, again
<1>3. new \in SessionType /\ new.pc = pc
  BY <1>1, <1>2 DEF SessionType, PCs
<1> HIDE DEF new
<1> QED
  BY <1>1, <1>2, <1>3, SessionUpdate

\* A handler that reads a status proceeds with it.
LEMMA AdvanceFact ==
  ASSUME SessionTypeOK, NEW o \in Ops, NEW pc \in PCs, NEW status \in RowStatuses,
         session' = [session EXCEPT ![o].pc = pc, ![o].status = status]
  PROVE  /\ session' \in [Ops -> SessionType]
         /\ session'[o].pc = pc
         /\ \A p \in Ops \ {o} : session'[p] = session[p]
<1> DEFINE new == [session[o] EXCEPT !.pc = pc, !.status = status]
<1>1. session[o] \in SessionType /\ session' = [session EXCEPT ![o] = new]
  BY DEF SessionTypeOK
<1>2. new \in SessionType /\ new.pc = pc
  BY <1>1 DEF SessionType
<1> HIDE DEF new
<1> QED
  BY <1>1, <1>2, SessionUpdate

\* What the ways a handler goes on do to its memory: the last answer and what was
\* seen of it stay.
SameAnswer(o) ==
  /\ session'[o].blocked = session[o].blocked
  /\ session'[o].safety = session[o].safety
  /\ session'[o].attempt = session[o].attempt

LEMMA SessionFields ==
  ASSUME SessionTypeOK, NEW o \in Ops
  PROVE  /\ \A pc \in PCs : Goto(o, pc) =>
              /\ session'[o].pc = pc
              /\ session'[o].status = session[o].status
              /\ session'[o].dispatched = session[o].dispatched /\ SameAnswer(o)
         /\ Fail(o) =>
              /\ session'[o].pc = "refund"
              /\ session'[o].status = session[o].status
              /\ session'[o].dispatched = session[o].dispatched /\ SameAnswer(o)
         /\ \A reason \in Reasons : Park(o, reason) =>
              /\ session'[o].pc = "park"
              /\ session'[o].status = session[o].status
              /\ session'[o].dispatched = session[o].dispatched /\ SameAnswer(o)
         /\ \A status \in RowStatuses : Ended(o, status) =>
              /\ session'[o].pc \in {"refund", "done"}
              /\ session'[o].status = status
              /\ session'[o].dispatched = session[o].dispatched /\ SameAnswer(o)
<1>0. session \in [Ops -> SessionType] /\ session[o] \in SessionType
  BY DEF SessionTypeOK
<1>1. ASSUME NEW pc \in PCs, Goto(o, pc)
      PROVE  /\ session'[o].pc = pc
             /\ session'[o].status = session[o].status
             /\ session'[o].dispatched = session[o].dispatched /\ SameAnswer(o)
  BY <1>0, <1>1 DEF Goto, SessionType, SameAnswer
<1>2. ASSUME Fail(o)
      PROVE  /\ session'[o].pc = "refund"
             /\ session'[o].status = session[o].status
             /\ session'[o].dispatched = session[o].dispatched /\ SameAnswer(o)
  BY <1>0, <1>2 DEF Fail, SessionType, SameAnswer
<1>3. ASSUME NEW reason \in Reasons, Park(o, reason)
      PROVE  /\ session'[o].pc = "park"
             /\ session'[o].status = session[o].status
             /\ session'[o].dispatched = session[o].dispatched /\ SameAnswer(o)
  BY <1>0, <1>3 DEF Park, SessionType, SameAnswer
<1>4. ASSUME NEW status \in RowStatuses, Ended(o, status)
      PROVE  /\ session'[o].pc \in {"refund", "done"}
             /\ session'[o].status = status
             /\ session'[o].dispatched = session[o].dispatched /\ SameAnswer(o)
  <2> DEFINE again == status = "reserved" /\ session[o].failed /\ ~session[o].retried
             pc == IF again THEN "refund" ELSE "done"
             retried == again \/ session[o].retried
  <2>1. session' = [session EXCEPT ![o].pc = pc, ![o].status = status,
                                   ![o].retried = retried]
    BY <1>0, <1>4 DEF Ended
  <2>2. pc \in {"refund", "done"}
    OBVIOUS
  <2> HIDE DEF again, pc, retried
  <2> QED
    BY <1>0, <2>1, <2>2 DEF SessionType, SameAnswer
<1> QED
  BY <1>1, <1>2, <1>3, <1>4

\* How a handler's program counter moves: it never returns to the steps before
\* the intent is saved, and it parks only an answered request - for the retry
\* of the intent once that has been saved.
Early == {"idle", "ready", "sent", "answered"}

Forward(o) ==
  /\ \A p \in Ops \ {o} : session'[p] = session[p]
  /\ session[o].pc \notin Early => session'[o].pc \notin Early
  /\ session'[o].pc = "park" => session[o].pc \in {"answered", "finalize"}
  /\ session'[o].pc = "park" /\ session[o].pc = "finalize" =>
       session'[o].reason = "settlement_retry_required"

\* The count of faults is a number.
LEMMA FaultsFact ==
  ASSUME faults \in Nat, Fault \/ UNCHANGED faults
  PROVE  faults' \in Nat
BY DEF Fault

\* A step that dispatches nothing keeps the sessions well formed.
LEMMA QuietSession ==
  ASSUME SessionTypeOK, session' \in [Ops -> SessionType],
         UNCHANGED <<mayBill, adjusted>>, Fault \/ UNCHANGED faults
  PROVE  SessionTypeOK'
BY FaultsFact DEF SessionTypeOK

\* Dispatching an attempt advances the handler.
LEMMA DispatchSession ==
  ASSUME TypeOK, NEW o \in Ops, NEW ch \in Channels, BeginAttempt(o, ch)
  PROVE  SessionTypeOK' /\ Forward(o)
<1>0. SessionTypeOK /\ session[o] \in SessionType /\ session[o].pc = "ready"
  BY DEF TypeOK, SessionTypeOK, BeginAttempt
<1>1. adjusted' = adjusted /\ (Fault \/ UNCHANGED faults)
  BY DEF BeginAttempt, Call
<1>2. CASE Fail(o) /\ UNCHANGED mayBill
  <2>1. Forward(o)
    BY <1>0, <1>2, FailFact DEF Forward, Early
  <2> QED
    BY <1>0, <1>1, <1>2, <2>1, FailFact, QuietSession
<1>3. ASSUME CanBeginAttempt(o, ch),
             session' = [session EXCEPT ![o].pc = "sent", ![o].dispatched = TRUE,
                                        ![o].attempt = Len(attempts[o]) + 1],
             mayBill' = [mayBill EXCEPT ![o] = @ \cup {Len(attempts[o]) + 1}]
      PROVE  SessionTypeOK' /\ Forward(o)
  <2> DEFINE n == Len(attempts[o]) + 1
             new == [session[o] EXCEPT !.pc = "sent", !.dispatched = TRUE, !.attempt = n]
  <2>1. n \in 1..MaxAttempts
    <3>1. attempts[o] \in Seq(AttemptType)
      BY DEF TypeOK, DBTypeOK
    <3> QED
      BY <1>3, <3>1 DEF CanBeginAttempt, MaxAttempts
  <2>2. session' = [session EXCEPT ![o] = new]
    BY <1>0, <1>3 DEF SessionTypeOK
  <2>3. mayBill' \in [Ops -> SUBSET (1..MaxAttempts)]
    BY <1>0, <1>3, <2>1 DEF SessionTypeOK
  <2>4. n \in 0..MaxAttempts
    BY <2>1 DEF MaxAttempts
  <2> HIDE DEF n
  <2>5. new \in SessionType /\ new.pc = "sent"
    BY <1>0, <2>4 DEF SessionType, PCs
  <2> HIDE DEF new
  <2>6. session' \in [Ops -> SessionType] /\ session'[o] = new
        /\ \A p \in Ops \ {o} : session'[p] = session[p]
    BY <1>0, <2>2, <2>5, SessionUpdate
  <2>7. Forward(o)
    BY <1>0, <2>5, <2>6 DEF Forward, Early
  <2> QED
    BY <1>0, <1>1, <2>3, <2>6, <2>7, FaultsFact DEF SessionTypeOK
<1> QED
  BY <1>2, <1>3 DEF BeginAttempt, Call

\* An answer advances the handler.
LEMMA RespondSession ==
  ASSUME TypeOK, NEW o \in Ops, NEW status \in Statuses, NEW block \in BOOLEAN, Respond(o, status, block)
  PROVE  SessionTypeOK' /\ Forward(o)
<1>0. SessionTypeOK /\ session[o] \in SessionType /\ session[o].pc = "sent"
  BY DEF TypeOK, SessionTypeOK, Respond
<1>1. adjusted' = adjusted /\ (Fault \/ UNCHANGED faults)
  BY DEF Respond, Call
<1>2. mayBill' \in [Ops -> SUBSET (1..MaxAttempts)]
  BY <1>0 DEF SessionTypeOK, Respond, MaybeRun
<1>3. /\ session' \in [Ops -> SessionType]
      /\ session'[o].pc \in {"answered", "ready", "refund"}
      /\ \A p \in Ops \ {o} : session'[p] = session[p]
  <2>1. CASE Goto(o, "answered")
    BY <1>0, <2>1, GotoFact DEF PCs
  <2>2. CASE Goto(o, "ready")
    BY <1>0, <2>2, GotoFact DEF PCs
  <2>3. ASSUME NEW safety \in BOOLEAN, FailAnswered(o, block, safety) PROVE <1>3!:
    BY <1>0, <2>3, FailAnsweredFact
  <2> QED
    BY <2>1, <2>2, <2>3 DEF Respond, Call
<1>4. Forward(o)
  BY <1>0, <1>3 DEF Forward, Early
<1> QED
  BY <1>0, <1>1, <1>2, <1>3, <1>4, FaultsFact DEF SessionTypeOK

\* Every step of a handler advances it, and no other.
LEMMA HandlerSession ==
  ASSUME TypeOK, NEW o \in Ops, Handler(o)
  PROVE  SessionTypeOK' /\ Forward(o)
<1>0. SessionTypeOK /\ session[o] \in SessionType
  BY DEF TypeOK, SessionTypeOK
<1>1. ASSUME NEW amount \in Amounts, Begin(o, amount)
      PROVE  SessionTypeOK' /\ Forward(o)
  <2>1. UNCHANGED <<mayBill, adjusted>> /\ (Fault \/ UNCHANGED faults)
        /\ session[o].pc = "idle"
    BY <1>1 DEF Begin, Call
  <2>2. /\ session' \in [Ops -> SessionType] /\ session'[o].pc \in {"ready", "done"}
        /\ \A p \in Ops \ {o} : session'[p] = session[p]
    <3>1. CASE session' = [session EXCEPT ![o].pc = "ready", ![o].status = "reserved"]
      BY <1>0, <3>1, AdvanceFact, ZenonT(60) DEF PCs, RowStatuses
    <3>2. CASE Goto(o, "done")
      BY <1>0, <3>2, GotoFact DEF PCs
    <3> QED
      BY <1>1, <3>1, <3>2 DEF Begin, Call
  <2>3. Forward(o)
    BY <2>1, <2>2 DEF Forward, Early
  <2> QED
    BY <1>0, <2>1, <2>2, <2>3, QuietSession
<1>2. CASE GiveUp(o) \/ TransportError(o)
  <2>1. UNCHANGED <<mayBill, adjusted>> /\ UNCHANGED faults
        /\ session[o].pc \in {"ready", "sent"}
    BY <1>2 DEF GiveUp, TransportError
  <2>2. /\ session' \in [Ops -> SessionType] /\ session'[o].pc \in {"ready", "refund"}
        /\ \A p \in Ops \ {o} : session'[p] = session[p]
    <3>1. CASE Goto(o, "ready")
      BY <1>0, <3>1, GotoFact DEF PCs
    <3>2. CASE Fail(o)
      BY <1>0, <3>2, FailFact
    <3> QED
      BY <1>2, <3>1, <3>2 DEF GiveUp, TransportError
  <2>3. Forward(o)
    BY <2>1, <2>2 DEF Forward, Early
  <2> QED
    BY <1>0, <2>1, <2>2, <2>3, QuietSession
<1>3. CASE \/ UsageIncomplete(o) \/ Finalize(o)
           \/ \E actual \in Amounts : SaveIntent(o, actual)
  <2>1. UNCHANGED <<mayBill, adjusted>> /\ (Fault \/ UNCHANGED faults)
        /\ session[o].pc \in {"answered", "finalize"}
    BY <1>3 DEF UsageIncomplete, SaveIntent, Finalize, Call
  <2>2. /\ session' \in [Ops -> SessionType]
        /\ session'[o].pc \in {"finalize", "park", "refund"}
        /\ \A p \in Ops \ {o} : session'[p] = session[p]
        /\ session'[o].pc = "park" /\ session[o].pc = "finalize" =>
             session'[o].reason = "settlement_retry_required"
    <3>1. ASSUME NEW reason \in {"dimensions_missing", "attempt_evidence_conflict"},
                 Park(o, reason), session[o].pc = "answered"
          PROVE  <2>2!:
      BY <1>0, <3>1, ParkFact DEF Reasons
    <3>2. CASE Goto(o, "finalize")
      BY <1>0, <3>2, GotoFact DEF PCs
    <3>3. CASE Park(o, "settlement_retry_required")
      BY <1>0, <3>3, ParkFact, ZenonT(60) DEF Reasons
    <3>4. CASE session' = [session EXCEPT ![o].pc = "refund", ![o].status = "settled"]
      BY <1>0, <3>4, AdvanceFact, ZenonT(60) DEF PCs, RowStatuses
    <3> QED
      BY <1>3, <3>1, <3>2, <3>3, <3>4 DEF UsageIncomplete, SaveIntent, Finalize, Call
  <2>3. Forward(o)
    BY <2>1, <2>2 DEF Forward, Early
  <2> QED
    BY <1>0, <2>1, <2>2, <2>3, QuietSession
<1>4. CASE \/ ParkRow(o) \/ RefundNothing(o) \/ RefundUndispatched(o) \/ RefundSafety(o)
           \/ RefundDispatched(o) \/ RefundPend(o)
  <2>1. UNCHANGED <<mayBill, adjusted>> /\ (Fault \/ UNCHANGED faults)
        /\ session[o].pc \in {"park", "refund", "pend"}
    BY <1>4 DEF ParkRow, RefundNothing, RefundUndispatched, RefundSafety,
                RefundDispatched, RefundPend, Call
  <2>2. /\ session' \in [Ops -> SessionType]
        /\ session'[o].pc \in {"refund", "pend", "done"}
        /\ \A p \in Ops \ {o} : session'[p] = session[p]
    <3>1. ASSUME NEW status \in RowStatuses, Ended(o, status) PROVE <2>2!:
      BY <1>0, <3>1, EndedFact, ZenonT(60)
    <3>2. CASE session' = [session EXCEPT ![o].pc = "refund", ![o].status = "pending"]
      BY <1>0, <3>2, AdvanceFact, ZenonT(60) DEF PCs, RowStatuses
    <3>3. CASE Goto(o, "refund") \/ Goto(o, "pend")
      BY <1>0, <3>3, GotoFact DEF PCs
    <3>4. /\ session[o].status \in RowStatuses /\ "released" \in RowStatuses
          /\ "reserved" \in RowStatuses /\ "pending" \in RowStatuses
      BY <1>0 DEF SessionType, RowStatuses
    <3> QED
      BY <1>4, <3>1, <3>2, <3>3, <3>4
      DEF ParkRow, RefundNothing, RefundUndispatched, RefundSafety,
          RefundDispatched, RefundPend, Call
  <2>3. Forward(o)
    BY <2>1, <2>2 DEF Forward, Early
  <2> QED
    BY <1>0, <2>1, <2>2, <2>3, QuietSession
<1>5. CASE Crash(o)
  <2>1. UNCHANGED <<mayBill, adjusted>> /\ Fault /\ Goto(o, "crashed")
    BY <1>5 DEF Crash
  <2>2. /\ session' \in [Ops -> SessionType] /\ session'[o].pc = "crashed"
        /\ \A p \in Ops \ {o} : session'[p] = session[p]
    BY <1>0, <2>1, GotoFact DEF PCs
  <2>3. Forward(o)
    BY <2>2 DEF Forward, Early
  <2> QED
    BY <1>0, <2>1, <2>2, <2>3, QuietSession
<1> QED
  BY <1>1, <1>2, <1>3, <1>4, <1>5, DispatchSession, RespondSession DEF Handler

\* The workers and the operator change rows and no handler's memory.
LEMMA WorkerIsTx ==
  ASSUME NEW o \in Ops, Worker(o) \/ Operator(o)
  PROVE  Tx(o) /\ UNCHANGED <<session, mayBill, faults, adjusted>>
BY DEF Worker, Operator, RetryFinalization, SweepRejectedHold, ResolvePendingNoCharge, Tx

\* Account administration changes the user only.
LEMMA AdminType ==
  ASSUME TypeOK, Admin
  PROVE  TypeOK' /\ UNCHANGED <<token, ledger, row, attempts, intent, session, mayBill>>
<1>0. /\ user \in UserType /\ adjusted \in [count : Nat, total : Int]
      /\ user.quota \in -MaxQuota..MaxQuota /\ MaxQuota \in Nat
  BY MaxQuotaAssumption DEF TypeOK, DBTypeOK, SessionTypeOK, UserType
<1>1. UNCHANGED <<token, ledger, row, attempts, intent, session, mayBill, faults>>
  BY DEF Admin, AdjustUserBalance, UpdateZTAPIUserStatus, DeleteUser
<1>2. user' \in UserType /\ adjusted' \in [count : Nat, total : Int]
  <2>1. ASSUME NEW delta \in Int, AdjustUserBalance(delta) PROVE <1>2!:
    <3>1. user.quota + delta \in -MaxQuota..MaxQuota
      BY <1>0, <2>1 DEF AdjustUserBalance, checkedBalanceLedgerSum
    <3>2. user' \in UserType
      BY <1>0, <2>1, <3>1, UserUpdatesFact DEF AdjustUserBalance
    <3>3. adjusted' = [count |-> adjusted.count + 1, total |-> adjusted.total + delta]
      BY <2>1 DEF AdjustUserBalance
    <3> QED
      BY <1>0, <3>2, <3>3
  <2>2. ASSUME NEW next \in {"enabled", "disabled"}, UpdateZTAPIUserStatus(next)
        PROVE  <1>2!:
    <3>1. user' = [user EXCEPT !.status = next, !.debtSuspended = FALSE]
          /\ adjusted' = [adjusted EXCEPT !.count = adjusted.count + 1]
      BY <2>2 DEF UpdateZTAPIUserStatus
    <3>2. user' \in UserType
      BY <1>0, <3>1 DEF UserType
    <3> QED
      BY <1>0, <3>1, <3>2
  <2>3. CASE DeleteUser
    <3>1. user' = [user EXCEPT !.deleted = TRUE]
          /\ adjusted' = [adjusted EXCEPT !.count = adjusted.count + 1]
      BY <2>3 DEF DeleteUser
    <3>2. user' \in UserType
      BY <1>0, <3>1 DEF UserType
    <3> QED
      BY <1>0, <3>1, <3>2
  <2>4. \A amount \in Amounts : amount \in Int /\ -amount \in Int
    BY SettlementAssumption
  <2> QED
    BY <2>1, <2>2, <2>3, <2>4 DEF Admin
<1> QED
  BY <1>1, <1>2 DEF TypeOK, DBTypeOK, SessionTypeOK

\* A step is a handler's, a worker's or an operator's transaction on one
\* request, or an administrative change, or leaves everything alone.
LEMMA StepCases ==
  ASSUME TypeOK, [Next]_vars
  PROVE  \/ \E o \in Ops : Handler(o) /\ Moves(o) /\ Forward(o) /\ SessionTypeOK'
         \/ \E o \in Ops : /\ Worker(o) \/ Operator(o)
                           /\ Moves(o)
                           /\ UNCHANGED <<session, mayBill, faults, adjusted>>
         \/ /\ Admin /\ TypeOK'
            /\ UNCHANGED <<token, ledger, row, attempts, intent, session, mayBill>>
         \/ UNCHANGED vars
<1>1. ASSUME NEW o \in Ops, Handler(o) PROVE Moves(o) /\ Forward(o) /\ SessionTypeOK'
  BY <1>1, HandlerIsTx, TxMoves, UnchangedMoves, HandlerSession DEF TypeOK
<1>2. ASSUME NEW o \in Ops, Worker(o) \/ Operator(o)
      PROVE  Moves(o) /\ UNCHANGED <<session, mayBill, faults, adjusted>>
  BY <1>2, WorkerIsTx, TxMoves
<1>3. ASSUME Admin
      PROVE  TypeOK' /\ UNCHANGED <<token, ledger, row, attempts, intent, session, mayBill>>
  BY <1>3, AdminType
<1> QED
  BY <1>1, <1>2, <1>3 DEF Next

\* Every step keeps every table well formed.
LEMMA TypeStep ==
  ASSUME TypeOK, [Next]_vars
  PROVE  TypeOK'
<1>1. ASSUME NEW o \in Ops, Moves(o), UNCHANGED <<session, mayBill, faults, adjusted>>
      PROVE  TypeOK'
  BY <1>1 DEF Moves, TypeOK, SessionTypeOK
<1>2. ASSUME NEW o \in Ops, Moves(o), SessionTypeOK'
      PROVE  TypeOK'
  BY <1>2 DEF Moves, TypeOK
<1>3. CASE UNCHANGED vars
  BY <1>3 DEF vars, TypeOK, DBTypeOK, SessionTypeOK
<1> QED
  BY <1>1, <1>2, <1>3, StepCases

\* So are the tables at the start.
LEMMA TypeInit == Init => TypeOK
<1>1. SUFFICES ASSUME Init PROVE TypeOK
  OBVIOUS
<1>2. 0 \in Quota /\ 0 \in -MaxQuota..MaxQuota /\ 0 \in 0..MaxAttempts
  BY MaxQuotaAssumption DEF Quota, MaxAttempts
<1>3. user \in UserType /\ token \in TokenType
  BY <1>1, <1>2, SettlementAssumption, MaxQuotaAssumption
  DEF Init, UserType, TokenType, Quota
<1>4. AbsentRow \in RowType
  BY <1>2 DEF AbsentRow, NewRow, RowType, RowStatuses, Reasons
<1>5. IdleSession \in SessionType
  BY <1>2 DEF IdleSession, SessionType, PCs, RowStatuses, Reasons
<1>6. row \in [Ops -> RowType] /\ session \in [Ops -> SessionType]
  BY <1>1, <1>4, <1>5 DEF Init
<1>7. ledger \in [Ops -> [LedgerKeys -> -MaxQuota..MaxQuota]]
      /\ intent \in [Ops -> IntentType]
  BY <1>1, <1>2 DEF Init, IntentType
<1>8. attempts \in [Ops -> Seq(AttemptType)] /\ \A o \in Ops : Len(attempts[o]) <= MaxAttempts
  BY <1>1 DEF Init, MaxAttempts
<1>9. mayBill \in [Ops -> SUBSET (1..MaxAttempts)] /\ faults \in Nat
      /\ adjusted \in [count : Nat, total : Int]
  BY <1>1 DEF Init
<1> QED
  BY <1>3, <1>6, <1>7, <1>8, <1>9 DEF TypeOK, DBTypeOK, SessionTypeOK

(***************************************************************************)
(* No sequence of reservations, settlements, refunds, faults and edits     *)
(* takes a balance, a limit, a charge or a ledger amount out of its column.*)
(***************************************************************************)
THEOREM TypeCorrect == Spec => []TypeOK
BY TypeInit, TypeStep, PTL DEF Spec

(***************************************************************************)
(* The ledger and the rows.  HoldAccounting speaks of sums; what the steps *)
(* preserve is which ledger rows exist in each status of the row.          *)
(***************************************************************************)
Shape(r, l) ==
  /\ r.status = "absent" => \A k \in LedgerKeys : l[k] = 0
  /\ r.status \in Held =>
       /\ l["begin"] = -r.reserved
       /\ \A k \in LedgerKeys \ {"begin"} : l[k] = 0
  /\ r.status = "settled" =>
       /\ l["begin"] = -r.reserved /\ l["settle"] = r.reserved - r.charged
       /\ \A k \in LedgerKeys \ {"begin", "settle"} : l[k] = 0
  /\ r.status = "released" =>
       /\ l["begin"] = -r.reserved /\ l["settle"] = 0
       /\ l["release"] + l["upstream-rejected"] + l["no-charge"] = r.reserved

LedgerShape == \A o \in Ops : Shape(row[o], ledger[o])

\* Every step keeps the shape of a request's ledger rows.
LEMMA ShapeStep ==
  ASSUME TypeOK, LedgerShape, [Next]_vars
  PROVE  LedgerShape'
<1>1. ASSUME NEW o \in Ops, Moves(o)
      PROVE  LedgerShape'
  <2>1. SUFFICES ASSUME NEW p \in Ops PROVE Shape(row'[p], ledger'[p])
    BY DEF LedgerShape
  <2>2. Shape(row[p], ledger[p]) /\ Shape(row[o], ledger[o])
    BY DEF LedgerShape
  <2>3. CASE p # o
    BY <1>1, <2>2, <2>3 DEF Moves, OthersSame
  <2>4. Shape(row'[o], ledger'[o])
    <3> DEFINE r == row[o]
               l == ledger[o]
               r1 == row'[o]
               l1 == ledger'[o]
    <3>1. /\ r.reserved \in Int /\ r1.reserved \in Int /\ r1.charged \in Int
          /\ \A k \in LedgerKeys : l[k] \in Int /\ l1[k] \in Int
          /\ LedgerKeys = {"begin", "settle", "release", "upstream-rejected", "no-charge"}
      <4>1. /\ r \in RowType /\ r1 \in RowType
            /\ l \in [LedgerKeys -> -MaxQuota..MaxQuota]
            /\ l1 \in [LedgerKeys -> -MaxQuota..MaxQuota]
        BY <1>1 DEF Moves, TypeOK, DBTypeOK
      <4>2. -MaxQuota..MaxQuota \subseteq Int /\ Quota \subseteq Int
        BY MaxQuotaAssumption DEF Quota
      <4> HIDE DEF r, l, r1, l1
      <4> QED
        BY <4>1, <4>2 DEF RowType, LedgerKeys
    <3>2. CASE Taken(o)
      <4>1. /\ r.status = "absent" /\ r1.status = "reserved"
            /\ l1["begin"] = l["begin"] - r1.reserved
            /\ \A k \in LedgerKeys \ {"begin"} : l1[k] = l[k]
        BY <3>2 DEF Taken
      <4> HIDE DEF r, l, r1, l1
      <4>2. \A k \in LedgerKeys : l[k] = 0
        BY <2>2, <4>1 DEF Shape, r, l
      <4>3. Shape(r1, l1)
        BY <3>1, <4>1, <4>2 DEF Shape, Held
      <4> QED
        BY <4>3 DEF r1, l1
    <3>3. CASE Charged(o)
      <4>1. /\ r.status \in Held /\ r1.status = "settled" /\ r1.reserved = r.reserved
            /\ l1["settle"] = l["settle"] + (r.reserved - r1.charged)
            /\ \A k \in LedgerKeys \ {"settle"} : l1[k] = l[k]
        BY <3>3 DEF Charged
      <4> HIDE DEF r, l, r1, l1
      <4>2. l["begin"] = -r.reserved /\ \A k \in LedgerKeys \ {"begin"} : l[k] = 0
        BY <2>2, <4>1 DEF Shape, r, l
      <4>3. Shape(r1, l1)
        BY <3>1, <4>1, <4>2 DEF Shape, Held
      <4> QED
        BY <4>3 DEF r1, l1
    <3>4. CASE Returned(o)
      <4>1. PICK key \in {"release", "upstream-rejected", "no-charge"} :
              /\ r.status \in Held /\ r1.status = "released" /\ r1.reserved = r.reserved
              /\ l1[key] = l[key] + r.reserved
              /\ \A k \in LedgerKeys \ {key} : l1[k] = l[k]
        BY <3>4 DEF Returned
      <4> HIDE DEF r, l, r1, l1
      <4>2. l["begin"] = -r.reserved /\ \A k \in LedgerKeys \ {"begin"} : l[k] = 0
        BY <2>2, <4>1 DEF Shape, r, l
      <4>3. /\ l1["begin"] = -r.reserved /\ l1["settle"] = 0
            /\ l1["release"] + l1["upstream-rejected"] + l1["no-charge"] = r.reserved
        BY <3>1, <4>1, <4>2
      <4>4. Shape(r1, l1)
        BY <4>1, <4>3 DEF Shape, Held
      <4> QED
        BY <4>4 DEF r1, l1
    <3>5. CASE Quiet(o)
      <4>1. /\ r1.status = r.status \/ (r.status \in Held /\ r1.status \in Held)
            /\ r1.reserved = r.reserved /\ r1.charged = r.charged /\ l1 = l
        BY <3>5 DEF Quiet, Held
      <4>2. Shape(r, l)
        BY <2>2
      <4> HIDE DEF r, l, r1, l1
      <4>3. Shape(r1, l1)
        BY <4>1, <4>2 DEF Shape, Held
      <4> QED
        BY <4>3 DEF r1, l1
    <3> QED
      BY <1>1, <3>2, <3>3, <3>4, <3>5 DEF Moves
  <2> QED
    BY <2>3, <2>4
<1>2. CASE UNCHANGED <<row, ledger>>
  BY <1>2 DEF LedgerShape
<1> QED
  BY <1>1, <1>2, StepCases DEF vars

\* A reservation, its correction, and a return of which two parts are nothing.
LEMMA SumOfFive ==
  ASSUME NEW b \in Int, NEW s \in Int, NEW x \in Int, NEW y \in Int, NEW z \in Int
  PROVE  /\ x = 0 /\ y = 0 /\ z = 0 => -(b + s + x + y + z) = -(b + s)
         /\ -(b + s + x + y + z) = -(b + s + (x + y + z))
  OBVIOUS

\* The shape says what the wallet holds for each row.
LEMMA ShapeAccounts ==
  ASSUME TypeOK, LedgerShape
  PROVE  HoldAccounting
<1>1. SUFFICES ASSUME NEW o \in Ops PROVE NetDebit(o) = Owed(row[o])
  BY DEF HoldAccounting
<1> DEFINE r == row[o]
           l == ledger[o]
<1>2. /\ r.reserved \in Int /\ r.charged \in Int /\ r.status \in RowStatuses
      /\ \A k \in LedgerKeys : l[k] \in Int
  <2>1. r \in RowType /\ l \in [LedgerKeys -> -MaxQuota..MaxQuota]
    BY DEF TypeOK, DBTypeOK
  <2>2. -MaxQuota..MaxQuota \subseteq Int /\ Quota \subseteq Int
    BY MaxQuotaAssumption DEF Quota
  <2> HIDE DEF r, l
  <2> QED
    BY <2>1, <2>2 DEF RowType
<1>3. Shape(r, l)
  BY DEF LedgerShape
<1>4. NetDebit(o) = -(l["begin"] + l["settle"] + l["release"]
                      + l["upstream-rejected"] + l["no-charge"])
  BY DEF NetDebit
<1> HIDE DEF r, l
<1>5. -(l["begin"] + l["settle"] + l["release"] + l["upstream-rejected"] + l["no-charge"])
        = Owed(r)
  <2>1. /\ l["begin"] \in Int /\ l["settle"] \in Int /\ l["release"] \in Int
        /\ l["upstream-rejected"] \in Int /\ l["no-charge"] \in Int
    BY <1>2 DEF LedgerKeys
  <2>2. CASE r.status = "absent"
    BY <1>3, <2>1, <2>2 DEF Shape, Owed, Held, LedgerKeys
  <2>3. CASE r.status \in Held
    <3>1. Owed(r) = r.reserved
      BY <2>3 DEF Owed, Held
    <3>2. l["begin"] = -r.reserved /\ \A k \in LedgerKeys \ {"begin"} : l[k] = 0
      BY <1>3, <2>3 DEF Shape
    <3>3. /\ l["settle"] = 0 /\ l["release"] = 0
          /\ l["upstream-rejected"] = 0 /\ l["no-charge"] = 0
      BY <3>2 DEF LedgerKeys
    <3> QED
      BY <1>2, <2>1, <3>1, <3>2, <3>3, SumOfFive
  <2>4. CASE r.status = "settled"
    <3>1. Owed(r) = r.charged
      BY <2>4 DEF Owed, Held
    <3>2. /\ l["begin"] = -r.reserved /\ l["settle"] = r.reserved - r.charged
          /\ \A k \in LedgerKeys \ {"begin", "settle"} : l[k] = 0
      BY <1>3, <2>4 DEF Shape
    <3>3. l["release"] = 0 /\ l["upstream-rejected"] = 0 /\ l["no-charge"] = 0
      BY <3>2 DEF LedgerKeys
    <3> QED
      BY <1>2, <2>1, <3>1, <3>2, <3>3, SumOfFive
  <2>5. CASE r.status = "released"
    <3>1. Owed(r) = 0
      BY <2>5 DEF Owed, Held
    <3>2. /\ l["begin"] = -r.reserved /\ l["settle"] = 0
          /\ l["release"] + l["upstream-rejected"] + l["no-charge"] = r.reserved
      BY <1>3, <2>5 DEF Shape
    <3> QED
      BY <1>2, <2>1, <3>1, <3>2
  <2> QED
    BY <1>2, <2>2, <2>3, <2>4, <2>5 DEF RowStatuses, Held
<1> QED
  BY <1>4, <1>5 DEF r

\* At the start no request has a ledger row.
LEMMA ShapeInit == Init => LedgerShape
<1>1. SUFFICES ASSUME Init, NEW o \in Ops PROVE Shape(row[o], ledger[o])
  BY DEF LedgerShape
<1>2. row[o].status = "absent" /\ ledger[o] = [k \in LedgerKeys |-> 0]
  BY <1>1 DEF Init, AbsentRow, NewRow
<1> QED
  BY <1>2 DEF Shape, Held

(***************************************************************************)
(* Whatever handlers, workers and operators do, in any order, with any     *)
(* number of failed or unacknowledged transactions and crashes: a held     *)
(* request has cost the wallet its reservation, a settled one exactly its  *)
(* charge, a released one nothing.                                         *)
(***************************************************************************)
THEOREM HoldsAccounted == Spec => []HoldAccounting
<1>1. Init => TypeOK /\ LedgerShape
  BY TypeInit, ShapeInit
<1>2. TypeOK /\ LedgerShape /\ [Next]_vars => TypeOK' /\ LedgerShape'
  BY TypeStep, ShapeStep
<1>3. TypeOK /\ LedgerShape => HoldAccounting
  BY ShapeAccounts
<1> QED
  BY <1>1, <1>2, <1>3, PTL DEF Spec
-------------------------------------------------------------------------------
(***************************************************************************)
(* The API key: every transaction moves between remaining and used quota.  *)
(***************************************************************************)
THEOREM TokenConserved == Spec => []TokenConservation
<1>1. Init => TypeOK /\ TokenConservation
  <2>1. ASSUME Init PROVE TokenConservation
    <3>1. token.remain = InitialTokenQuota /\ token.used = 0
      BY <2>1 DEF Init
    <3>2. InitialTokenQuota \in Int
      BY SettlementAssumption
    <3> QED
      BY <3>1, <3>2 DEF TokenConservation
  <2> QED
    BY <2>1, TypeInit
<1>2. TypeOK /\ TokenConservation /\ [Next]_vars => TypeOK' /\ TokenConservation'
  <2>1. SUFFICES ASSUME TypeOK, TokenConservation, [Next]_vars
                 PROVE  TokenConservation'
    BY TypeStep
  <2>2. ASSUME NEW o \in Ops, Moves(o) PROVE TokenConservation'
    BY <2>1, <2>2 DEF Moves, TokenSum, TokenConservation
  <2>3. CASE UNCHANGED token
    BY <2>1, <2>3 DEF TokenConservation
  <2> QED
    BY <2>1, <2>2, <2>3, StepCases DEF vars
<1> QED
  BY <1>1, <1>2, PTL DEF Spec

(***************************************************************************)
(* No later cleanup, retry, sweep or review touches the row or the ledger  *)
(* of a settled or released request.                                       *)
(***************************************************************************)
THEOREM TerminalFinal == Spec => TerminalRowsFinal
<1> DEFINE Final == \A o \in Ops : row[o].status \in {"settled", "released"} =>
                      row'[o] = row[o] /\ ledger'[o] = ledger[o]
<1>1. TypeOK /\ [Next]_vars => [Final]_vars
  <2>1. SUFFICES ASSUME TypeOK, [Next]_vars, NEW p \in Ops,
                        row[p].status \in {"settled", "released"}
                 PROVE  row'[p] = row[p] /\ ledger'[p] = ledger[p]
    OBVIOUS
  <2>2. ASSUME NEW o \in Ops, Moves(o)
        PROVE  row'[p] = row[p] /\ ledger'[p] = ledger[p]
    <3>1. CASE p # o
      BY <2>2, <3>1 DEF Moves, OthersSame
    <3>2. CASE p = o
      BY <2>1, <2>2, <3>2 DEF Moves, Taken, Charged, Returned, Quiet, Held
    <3> QED
      BY <3>1, <3>2
  <2>3. CASE UNCHANGED <<row, ledger>>
    BY <2>3
  <2> QED
    BY <2>1, <2>2, <2>3, StepCases DEF vars
<1> QED
  BY <1>1, TypeCorrect, PTL DEF Spec, TerminalRowsFinal
-------------------------------------------------------------------------------
(***************************************************************************)
(* Refinement: the rows and the ledger implement HoldLifecycle.            *)
(***************************************************************************)
LEMMA OwedInQuota ==
  ASSUME NEW r \in RowType
  PROVE  /\ r.status \in Held => Owed(r) = r.reserved
         /\ r.status = "settled" => Owed(r) = r.charged
         /\ r.status = "released" => Owed(r) = 0
         /\ r.reserved \in Quota /\ r.charged \in Quota
         /\ r.status \in RowStatuses
BY DEF Owed, Held, RowType

\* Each movement of a request is a step of its hold, or none.
LEMMA HoldStep ==
  ASSUME TypeOK, HoldAccounting, HoldAccounting', NEW o \in Ops, Moves(o)
  PROVE  [Hold!HoldNext]_(Hold!HoldVars)
<1> DEFINE phase == [p \in Ops |-> Phase(row[p].status)]
           paid == [p \in Ops |-> NetDebit(p)]
<1>1. /\ row[o] \in RowType /\ row'[o] \in RowType
      /\ NetDebit(o) = Owed(row[o]) /\ NetDebit(o)' = Owed(row'[o])
  BY DEF Moves, TypeOK, DBTypeOK, HoldAccounting
<1>2. \A p \in Ops \ {o} : row'[p] = row[p] /\ NetDebit(p)' = NetDebit(p)
  BY DEF Moves, OthersSame, NetDebit
<1>3. phase' = [phase EXCEPT ![o] = Phase(row'[o].status)]
  BY <1>2
<1>4. paid' = [paid EXCEPT ![o] = Owed(row'[o])]
  BY <1>1, <1>2
<1>5. phase[o] = Phase(row[o].status) /\ paid[o] = Owed(row[o])
  BY <1>1
<1>6. CASE Taken(o)
  <2>1. Phase(row[o].status) = "none" /\ Phase(row'[o].status) = "held"
    BY <1>6 DEF Taken, Phase, Held
  <2>2. Owed(row'[o]) \in Quota
    BY <1>1, <1>6, OwedInQuota DEF Taken, Held
  <2>3. Hold!Take(o)
    BY <1>3, <1>4, <1>5, <2>1, <2>2 DEF Hold!Take
  <2> QED
    BY <2>3 DEF Hold!HoldNext
<1>7. CASE Charged(o)
  <2>1. Phase(row[o].status) = "held" /\ Phase(row'[o].status) = "charged"
    BY <1>7 DEF Charged, Phase, Held
  <2>2. Owed(row'[o]) \in Quota
    BY <1>1, <1>7, OwedInQuota DEF Charged
  <2>3. Hold!Charge(o)
    BY <1>3, <1>4, <1>5, <2>1, <2>2 DEF Hold!Charge
  <2> QED
    BY <2>3 DEF Hold!HoldNext
<1>8. CASE Returned(o)
  <2>1. Phase(row[o].status) = "held" /\ Phase(row'[o].status) = "returned"
    BY <1>8 DEF Returned, Phase, Held
  <2>2. Owed(row'[o]) = 0
    BY <1>1, <1>8, OwedInQuota DEF Returned
  <2>3. Hold!Return(o)
    BY <1>3, <1>4, <1>5, <2>1, <2>2 DEF Hold!Return
  <2> QED
    BY <2>3 DEF Hold!HoldNext
<1>9. CASE Quiet(o)
  <2>1. Phase(row'[o].status) = Phase(row[o].status)
    BY <1>9 DEF Quiet, Phase, Held
  <2>2. Owed(row'[o]) = Owed(row[o])
    BY <1>9 DEF Quiet, Owed, Held
  <2>3. phase' = phase /\ paid' = paid
    BY <1>3, <1>4, <1>5, <2>1, <2>2
  <2> QED
    BY <2>3 DEF Hold!HoldVars
<1> QED
  BY <1>6, <1>7, <1>8, <1>9 DEF Moves

\* Every behaviour of the settlement rows, ledger, workers and failures is,
\* request by request, a behaviour of HoldLifecycle: one hold, and one end of
\* it, by a charge or by the return of everything.
THEOREM HoldRefined == Spec => HoldRefinement
<1>1. Init => Hold!HoldInit
  <2>1. SUFFICES ASSUME Init PROVE Hold!HoldInit
    OBVIOUS
  <2>2. HoldAccounting
    BY <2>1, TypeInit, ShapeInit, ShapeAccounts
  <2>3. \A o \in Ops : row[o].status = "absent"
    BY <2>1 DEF Init, AbsentRow, NewRow
  <2>4. \A o \in Ops : Phase(row[o].status) = "none" /\ NetDebit(o) = 0
    BY <2>2, <2>3 DEF Phase, Held, HoldAccounting, Owed
  <2> QED
    BY <2>4 DEF Hold!HoldInit
<1>2. TypeOK /\ HoldAccounting /\ HoldAccounting' /\ [Next]_vars
        => [Hold!HoldNext]_(Hold!HoldVars)
  <2>1. SUFFICES ASSUME TypeOK, HoldAccounting, HoldAccounting', [Next]_vars
                 PROVE  [Hold!HoldNext]_(Hold!HoldVars)
    OBVIOUS
  <2>2. ASSUME UNCHANGED <<row, ledger>> PROVE UNCHANGED Hold!HoldVars
    BY <2>2 DEF Hold!HoldVars, NetDebit
  <2> QED
    BY <2>1, <2>2, HoldStep, StepCases DEF vars
<1> QED
  BY <1>1, <1>2, TypeCorrect, HoldsAccounted, PTL DEF Spec, HoldRefinement, Hold!HoldSpec
-------------------------------------------------------------------------------
(***************************************************************************)
(* The releases.  Of the transactions of a request only the release of an  *)
(* undispatched reservation writes the "release" row, and only the release *)
(* of proven rejections the "upstream-rejected" row.                       *)
(***************************************************************************)

\* A movement under one key writes no other row.
LEMMA LedgerOther ==
  ASSUME TypeOK, NEW o \in Ops, NEW key \in LedgerKeys, NEW k \in LedgerKeys \ {key},
         NEW delta
  PROVE  LedgerAfter(o, key, delta)[o][k] = ledger[o][k]
<1>1. ledger[o] \in [LedgerKeys -> -MaxQuota..MaxQuota] /\ o \in DOMAIN ledger
  BY DEF TypeOK, DBTypeOK
<1> QED
  BY <1>1 DEF LedgerAfter

\* What a transaction needs to write either release row.
LEMMA ReleaseRows ==
  ASSUME TypeOK, NEW o \in Ops, Tx(o)
  PROVE  /\ ledger'[o]["release"] # ledger[o]["release"] => ~row[o].dispatched
         /\ ledger'[o]["upstream-rejected"] # ledger[o]["upstream-rejected"] =>
              ProvenRejected(o)
<1> DEFINE Same == /\ ledger'[o]["release"] = ledger[o]["release"]
                   /\ ledger'[o]["upstream-rejected"] = ledger[o]["upstream-rejected"]
<1>1. ASSUME NEW key \in {"begin", "settle", "no-charge"}, NEW delta,
             ledger' = LedgerAfter(o, key, delta)
      PROVE  Same
  <2>1. /\ key \in LedgerKeys /\ "release" \in LedgerKeys \ {key}
        /\ "upstream-rejected" \in LedgerKeys \ {key}
    BY <1>1 DEF LedgerKeys
  <2> QED
    BY <1>1, <2>1, LedgerOther
<1>2. CASE CanRelease(o) /\ ReleaseZTAPIRequestSettlement(o)
  <2>1. CASE row[o].status = "released"
    BY <1>2, <2>1 DEF ReleaseZTAPIRequestSettlement, db
  <2>2. CASE row[o].status # "released"
    <3>1. ledger' = LedgerAfter(o, "release", row[o].reserved) /\ ~row[o].dispatched
      BY <1>2, <2>2 DEF CanRelease, ReleaseZTAPIRequestSettlement, ReturnReservation
    <3>2. "release" \in LedgerKeys /\ "upstream-rejected" \in LedgerKeys \ {"release"}
      BY DEF LedgerKeys
    <3> QED
      BY <3>1, <3>2, LedgerOther
  <2> QED
    BY <2>1, <2>2
<1>3. CASE CanReleaseRejected(o) /\ ReleaseZTAPIDispatchedRejectedSettlement(o)
  <2>1. CASE row[o].status = "released"
    BY <1>3, <2>1 DEF ReleaseZTAPIDispatchedRejectedSettlement, db
  <2>2. CASE row[o].status # "released"
    <3>1. ledger' = LedgerAfter(o, "upstream-rejected", row[o].reserved)
          /\ ProvenRejected(o)
      BY <1>3, <2>2 DEF CanReleaseRejected, RejectionUnproven,
                        ReleaseZTAPIDispatchedRejectedSettlement, ReturnReservation
    <3>2. /\ "upstream-rejected" \in LedgerKeys
          /\ "release" \in LedgerKeys \ {"upstream-rejected"}
      BY DEF LedgerKeys
    <3> QED
      BY <3>1, <3>2, LedgerOther
  <2> QED
    BY <2>1, <2>2
<1>4. CASE CanFinalize(o) /\ finalizeZTAPIRequestSettlement(o)
  <2>1. CASE row[o].status = "settled"
    BY <1>4, <2>1 DEF finalizeZTAPIRequestSettlement, db
  <2>2. CASE row[o].status # "settled"
    BY <1>1, <1>4, <2>2 DEF finalizeZTAPIRequestSettlement
  <2> QED
    BY <2>1, <2>2
<1>5. CASE CanResolve(o) /\ ReturnReservation(o, "no-charge")
  BY <1>1, <1>5 DEF ReturnReservation
<1>6. ASSUME NEW amount \in Amounts, BeginZTAPIRequestSettlement(o, amount)
      PROVE  Same
  BY <1>1, <1>6 DEF BeginZTAPIRequestSettlement
<1> QED
  BY <1>2, <1>3, <1>4, <1>5, <1>6
  DEF Tx, BeginZTAPIRequestAttempt, RecordZTAPIRequestAttemptResponse,
      MarkZTAPIRequestSafetyOutcome, PendZTAPIRequestSettlement,
      saveZTAPISettlementFinalizationIntent

\* The rows, evidence and memory of every request but o stay as they are.
Elsewhere(o) ==
  \A p \in Ops \ {o} :
    /\ row'[p] = row[p] /\ ledger'[p] = ledger[p]
    /\ attempts'[p] = attempts[p] /\ intent'[p] = intent[p]
    /\ session'[p] = session[p] /\ mayBill'[p] = mayBill[p]

\* A handler never touches the ground truth of another request.
LEMMA OthersMayBill ==
  ASSUME TypeOK, NEW o \in Ops, Handler(o)
  PROVE  \A p \in Ops \ {o} : mayBill'[p] = mayBill[p]
<1>1. ASSUME NEW ch \in Channels, BeginAttempt(o, ch)
      PROVE  \A p \in Ops \ {o} : mayBill'[p] = mayBill[p]
  BY <1>1 DEF BeginAttempt, Call, TypeOK, SessionTypeOK
<1>2. ASSUME NEW status \in Statuses, NEW block \in BOOLEAN, Respond(o, status, block)
      PROVE  \A p \in Ops \ {o} : mayBill'[p] = mayBill[p]
  BY <1>2 DEF Respond, MaybeRun, TypeOK, SessionTypeOK
<1> QED
  BY <1>1, <1>2
  DEF Handler, Begin, GiveUp, TransportError, UsageIncomplete, SaveIntent, Finalize,
      ParkRow, RefundNothing, RefundUndispatched, RefundSafety, RefundDispatched,
      RefundPend, Crash

\* A transaction touches neither the attempts nor the intent of another request.
LEMMA OthersEvidence ==
  ASSUME TypeOK, NEW o \in Ops, Tx(o)
  PROVE  \A p \in Ops \ {o} : attempts'[p] = attempts[p] /\ intent'[p] = intent[p]
<1>1. /\ attempts \in [Ops -> Seq(AttemptType)] /\ intent \in [Ops -> IntentType]
  BY DEF TypeOK, DBTypeOK
<1>2. CASE UNCHANGED <<attempts, intent>>
  BY <1>2
<1>3. ASSUME NEW ch \in Channels, BeginZTAPIRequestAttempt(o, ch)
      PROVE  \A p \in Ops \ {o} : attempts'[p] = attempts[p] /\ intent'[p] = intent[p]
  BY <1>1, <1>3 DEF BeginZTAPIRequestAttempt
<1>4. ASSUME NEW status \in Statuses,
             RecordZTAPIRequestAttemptResponse(o, session[o].attempt, status)
      PROVE  \A p \in Ops \ {o} : attempts'[p] = attempts[p] /\ intent'[p] = intent[p]
  BY <1>1, <1>4 DEF RecordZTAPIRequestAttemptResponse
<1>5. CASE MarkZTAPIRequestSafetyOutcome(o)
  BY <1>1, <1>5 DEF MarkZTAPIRequestSafetyOutcome
<1>6. ASSUME NEW actual \in Amounts,
             saveZTAPISettlementFinalizationIntent(o, actual, session[o].attempt)
      PROVE  \A p \in Ops \ {o} : attempts'[p] = attempts[p] /\ intent'[p] = intent[p]
  BY <1>1, <1>6 DEF saveZTAPISettlementFinalizationIntent
<1>7. CASE finalizeZTAPIRequestSettlement(o)
  BY <1>1, <1>7 DEF finalizeZTAPIRequestSettlement, db
<1>8. CASE intent' = [intent EXCEPT ![o].state = "completed"] /\ UNCHANGED attempts
  BY <1>1, <1>8
<1> QED
  BY <1>2, <1>3, <1>4, <1>5, <1>6, <1>7, <1>8
  DEF Tx, BeginZTAPIRequestSettlement, PendZTAPIRequestSettlement,
      ReleaseZTAPIRequestSettlement, ReleaseZTAPIDispatchedRejectedSettlement, db

\* A step is a transaction of one request, or changes no request at all.
LEMMA StepIsLocal ==
  ASSUME TypeOK, [Next]_vars
  PROVE  \/ \E o \in Ops : /\ Handler(o) \/ UNCHANGED <<session, mayBill>>
                           /\ Tx(o) \/ UNCHANGED db
                           /\ Moves(o) /\ Elsewhere(o) /\ TypeOK'
         \/ UNCHANGED <<ledger, row, attempts, intent, session, mayBill>>
<1>0. TypeOK'
  BY TypeStep
<1>1. ASSUME NEW o \in Ops, Handler(o)
      PROVE  (Tx(o) \/ UNCHANGED db) /\ Moves(o) /\ Elsewhere(o)
  <2>1. Tx(o) \/ UNCHANGED db
    BY <1>1, HandlerIsTx
  <2>2. Moves(o) /\ Forward(o)
    BY <1>1, <2>1, TxMoves, UnchangedMoves, HandlerSession DEF TypeOK
  <2>3. \A p \in Ops \ {o} : attempts'[p] = attempts[p] /\ intent'[p] = intent[p]
    BY <2>1, OthersEvidence DEF db
  <2> QED
    BY <1>1, <2>1, <2>2, <2>3, OthersMayBill DEF Elsewhere, Moves, OthersSame, Forward
<1>2. ASSUME NEW o \in Ops, Worker(o) \/ Operator(o)
      PROVE  /\ Tx(o) /\ Moves(o) /\ Elsewhere(o)
             /\ UNCHANGED <<session, mayBill>>
  BY <1>2, WorkerIsTx, TxMoves, OthersEvidence DEF Elsewhere, Moves, OthersSame
<1>3. CASE Admin
  BY <1>3, AdminType
<1>4. CASE UNCHANGED vars
  BY <1>4 DEF vars
<1> QED
  BY <1>0, <1>1, <1>2, <1>3, <1>4 DEF Next

(***************************************************************************)
(* From the moment an attempt carries the content-safety mark, no handler  *)
(* and no sweep returns the hold as a rejection.                           *)
(***************************************************************************)
THEOREM SafetyMarkKept == Spec => SafetyMarkHolds
<1> DEFINE Marked(o) == \E i \in 1..Len(attempts[o]) : attempts[o][i].safety
           Holds == \A o \in Ops : Marked(o) =>
                      ledger'[o]["upstream-rejected"] = ledger[o]["upstream-rejected"]
<1>1. TypeOK /\ [Next]_vars => [Holds]_vars
  <2>1. SUFFICES ASSUME TypeOK, [Next]_vars, NEW p \in Ops, Marked(p)
                 PROVE  ledger'[p]["upstream-rejected"] = ledger[p]["upstream-rejected"]
    OBVIOUS
  <2>2. ~ProvenRejected(p)
    BY <2>1 DEF ProvenRejected
  <2>3. ASSUME NEW o \in Ops, Tx(o), Elsewhere(o)
        PROVE  ledger'[p]["upstream-rejected"] = ledger[p]["upstream-rejected"]
    BY <2>1, <2>2, <2>3, ReleaseRows DEF Elsewhere
  <2> QED
    BY <2>1, <2>3, StepIsLocal DEF db
<1> QED
  BY <1>1, TypeCorrect, PTL DEF Spec, SafetyMarkHolds
-------------------------------------------------------------------------------
(***************************************************************************)
(* What the supplier may have billed.  The attempts recorded in the        *)
(* database cover the attempts that were really sent, and none of these    *)
(* carries a status that proves a rejection - but for the last one, when   *)
(* its answer was a content-safety block.  A block ends the request.       *)
(***************************************************************************)
Open == {"idle", "ready", "sent", "answered", "finalize", "park"}

BilledShape(o) ==
  /\ attempts[o] # <<>> => row[o].dispatched /\ row[o].status # "absent"
  /\ \A i \in mayBill[o] :
       /\ i \in 1..Len(attempts[o])
       /\ \/ ~ztapiUpstreamRejectedBeforeInference(attempts[o][i].http)
          \/ session[o].blocked /\ i = session[o].attempt
  /\ session[o].pc \in Open => ~session[o].blocked

\* Only a dispatch and an answer change what a handler knows of its last answer,
\* and no handler returns to the steps before its cleanup.
LEMMA AnswerKept ==
  ASSUME TypeOK, NEW o \in Ops, Handler(o)
  PROVE  \/ /\ SameAnswer(o)
            /\ session[o].pc \notin Open => session'[o].pc \notin Open
         \/ \E ch \in Channels : BeginAttempt(o, ch)
         \/ \E status \in Statuses, block \in BOOLEAN : Respond(o, status, block)
<1>0. /\ SessionTypeOK /\ session \in [Ops -> SessionType] /\ session[o] \in SessionType
      /\ session[o].status \in RowStatuses
  BY DEF TypeOK, SessionTypeOK, SessionType
<1>1. ASSUME NEW amount \in Amounts, Begin(o, amount)
      PROVE  SameAnswer(o) /\ session[o].pc \in Open
  <2>1. CASE Goto(o, "done")
    BY <1>0, <1>1, <2>1, SessionFields DEF PCs, Open, Begin
  <2>2. CASE session' = [session EXCEPT ![o].pc = "ready", ![o].status = "reserved"]
    BY <1>0, <1>1, <2>2 DEF SameAnswer, SessionType, Open, Begin
  <2> QED
    BY <1>1, <2>1, <2>2 DEF Begin, Call
<1>2. CASE GiveUp(o) \/ TransportError(o)
  <2>1. Goto(o, "ready") \/ Fail(o)
    BY <1>2 DEF GiveUp, TransportError
  <2> QED
    BY <1>0, <1>2, <2>1, SessionFields DEF PCs, Open, GiveUp, TransportError
<1>3. CASE UsageIncomplete(o)
  BY <1>0, <1>3, SessionFields DEF Reasons, Open, UsageIncomplete
<1>4. CASE \/ \E actual \in Amounts : SaveIntent(o, actual)
           \/ Finalize(o) \/ ParkRow(o)
  <2>1. session[o].pc \in Open
    BY <1>4 DEF Open, SaveIntent, Finalize, ParkRow
  <2>2. \/ Goto(o, "finalize") \/ Goto(o, "refund")
        \/ Park(o, "settlement_retry_required")
        \/ session' = [session EXCEPT ![o].pc = "refund", ![o].status = "settled"]
        \/ session' = [session EXCEPT ![o].pc = "refund", ![o].status = "pending"]
    BY <1>4 DEF SaveIntent, Finalize, ParkRow, Call
  <2>3. ASSUME NEW status, session' = [session EXCEPT ![o].pc = "refund", ![o].status = status]
        PROVE  SameAnswer(o)
    BY <1>0, <2>3 DEF SameAnswer, SessionType
  <2> QED
    BY <1>0, <2>1, <2>2, <2>3, SessionFields DEF PCs, Reasons
<1>5. CASE \/ RefundNothing(o) \/ RefundUndispatched(o) \/ RefundSafety(o)
           \/ RefundDispatched(o) \/ RefundPend(o) \/ Crash(o)
  <2>1. \/ Goto(o, "pend") \/ Goto(o, "crashed")
        \/ \E status \in RowStatuses : Ended(o, status)
    BY <1>0, <1>5
    DEF RefundNothing, RefundUndispatched, RefundSafety, RefundDispatched, RefundPend, Crash,
        Call, RowStatuses
  <2> QED
    BY <1>0, <2>1, SessionFields DEF PCs, Open
<1> QED
  BY <1>1, <1>2, <1>3, <1>4, <1>5 DEF Handler

\* What a step of a handler does to the ground truth: it dispatches an attempt,
\* or learns that one ran nothing.
LEMMA MayBillStep ==
  ASSUME TypeOK, NEW o \in Ops, Handler(o)
  PROVE  \/ mayBill'[o] \subseteq mayBill[o]
         \/ /\ mayBill'[o] = mayBill[o] \cup {Len(attempts[o]) + 1}
            /\ \E ch \in Channels : /\ BeginAttempt(o, ch)
                                    /\ CanBeginAttempt(o, ch)
                                    /\ BeginZTAPIRequestAttempt(o, ch)
<1>0. mayBill \in [Ops -> SUBSET (1..MaxAttempts)]
  BY DEF TypeOK, SessionTypeOK
<1>1. ASSUME NEW ch \in Channels, BeginAttempt(o, ch)
      PROVE  \/ mayBill' = mayBill
             \/ /\ mayBill'[o] = mayBill[o] \cup {Len(attempts[o]) + 1}
                /\ CanBeginAttempt(o, ch) /\ BeginZTAPIRequestAttempt(o, ch)
  BY <1>0, <1>1 DEF BeginAttempt, Call
<1>2. ASSUME NEW status \in Statuses, NEW block \in BOOLEAN, Respond(o, status, block)
      PROVE  mayBill'[o] \subseteq mayBill[o]
  BY <1>0, <1>2 DEF Respond, MaybeRun
<1> QED
  BY <1>1, <1>2
  DEF Handler, Begin, GiveUp, TransportError, UsageIncomplete, SaveIntent, Finalize,
      ParkRow, RefundNothing, RefundUndispatched, RefundSafety, RefundDispatched,
      RefundPend, Crash

\* A dispatch keeps the shape: the request is not blocked yet, and the new
\* attempt has no status.
LEMMA BilledDispatch ==
  ASSUME TypeOK, NEW o \in Ops, BilledShape(o), NEW ch \in Channels, BeginAttempt(o, ch),
         CanBeginAttempt(o, ch), BeginZTAPIRequestAttempt(o, ch),
         mayBill'[o] \subseteq mayBill[o] \cup {Len(attempts[o]) + 1}
  PROVE  BilledShape(o)'
<1> DEFINE s == attempts[o]
           new == [channel |-> ch, http |-> NoResponse, safety |-> FALSE]
           t == attempts'[o]
<1>0. ~session[o].blocked /\ ~session'[o].blocked
  <2>1. session[o] \in SessionType /\ ~session[o].blocked
    BY DEF TypeOK, SessionTypeOK, BilledShape, BeginAttempt, Open
  <2>2. session'[o].blocked = session[o].blocked
    BY <2>1, SessionFields DEF BeginAttempt, Call, TypeOK, SessionTypeOK, SessionType, SameAnswer
  <2> QED
    BY <2>1, <2>2
<1>1. s \in Seq(AttemptType) /\ row[o] \in RowType
  BY DEF TypeOK, DBTypeOK
<1>2. t = Append(s, new) /\ row' = [row EXCEPT ![o].dispatched = TRUE]
  BY DEF BeginZTAPIRequestAttempt, TypeOK, DBTypeOK
<1>3. row'[o].dispatched /\ row'[o].status = "reserved"
  BY <1>1, <1>2 DEF CanBeginAttempt, TypeOK, DBTypeOK, RowType
<1>5. new.http = 0 /\ ~ztapiUpstreamRejectedBeforeInference(0)
  BY DEF NoResponse, ztapiUpstreamRejectedBeforeInference
<1> HIDE DEF new, s
<1>6. Len(t) = Len(s) + 1 /\ t[Len(s) + 1] = new /\ \A i \in 1..Len(s) : t[i] = s[i]
  BY <1>1, <1>2
<1> HIDE DEF t
<1>7. ASSUME NEW i \in mayBill'[o]
      PROVE  i \in 1..Len(t) /\ ~ztapiUpstreamRejectedBeforeInference(t[i].http)
  <2>1. CASE i = Len(s) + 1
    BY <1>1, <1>5, <1>6, <2>1
  <2>2. CASE i \in mayBill[o]
    BY <1>0, <1>1, <1>6, <2>2 DEF BilledShape, s
  <2> QED
    BY <1>7, <2>1, <2>2 DEF s
<1> QED
  BY <1>0, <1>2, <1>3, <1>7 DEF BilledShape, t

\* A recorded answer keeps the shape: by the suppliers' contract, one that proves
\* a rejection takes its attempt out of the ground truth, or is a block.
LEMMA BilledRespond ==
  ASSUME TypeOK, NEW o \in Ops, BilledShape(o), NEW status \in Statuses,
         NEW block \in BOOLEAN, Respond(o, status, block),
         RecordZTAPIRequestAttemptResponse(o, session[o].attempt, status)
  PROVE  BilledShape(o)'
<1> DEFINE s == attempts[o]
           n == session[o].attempt
           t == attempts'[o]
<1>1. s \in Seq(AttemptType) /\ n \in 0..MaxAttempts /\ status \in Int
  BY SettlementAssumption DEF TypeOK, DBTypeOK, SessionTypeOK, SessionType
<1>2. t = [s EXCEPT ![n].http = status] /\ row' = row
  BY DEF RecordZTAPIRequestAttemptResponse, TypeOK, DBTypeOK
<1>3. /\ ~session[o].blocked
      /\ mayBill'[o] = IF status \in RejectionStatuses /\ ~block THEN mayBill[o] \ {n}
                                                               ELSE mayBill[o]
  BY DEF Respond, MaybeRun, TypeOK, SessionTypeOK, BilledShape, Open
<1>4. /\ session'[o].attempt = n
      /\ session'[o].blocked = block
      /\ session'[o].pc \in Open => ~block
  <2>1. SessionTypeOK /\ session[o] \in SessionType
    BY DEF TypeOK, SessionTypeOK
  <2>2. \/ ~block /\ (Goto(o, "answered") \/ Goto(o, "ready"))
        \/ \E safety \in BOOLEAN : FailAnswered(o, block, safety)
    BY DEF Respond, Call
  <2>3. CASE ~block /\ (Goto(o, "answered") \/ Goto(o, "ready"))
    <3>1. session'[o].attempt = n /\ session'[o].blocked = session[o].blocked
      BY <2>1, <2>3, SessionFields DEF SameAnswer, PCs
    <3>2. session[o].blocked = FALSE /\ block = FALSE
      BY <1>3, <2>1, <2>3 DEF SessionType
    <3> QED
      BY <3>1, <3>2
  <2>4. ASSUME NEW safety \in BOOLEAN, FailAnswered(o, block, safety) PROVE <1>4!:
    BY <2>1, <2>4, FailAnsweredFact DEF Open
  <2> QED
    BY <2>2, <2>3, <2>4
<1>5. /\ Len(t) = Len(s)
      /\ \A i \in 1..Len(s) : i # n => t[i].http = s[i].http
      /\ \A i \in 1..Len(s) : i = n => t[i].http = status
  <2>1. \A i \in 1..Len(s) : s[i] \in AttemptType
    BY <1>1
  <2> HIDE DEF s, n, t
  <2>2. DOMAIN t = DOMAIN s /\ \A i \in 1..Len(s) : i # n => t[i] = s[i]
    BY <1>1, <1>2
  <2>3. Len(t) = Len(s)
    BY <1>1, <1>2
  <2>4. ASSUME NEW i \in 1..Len(s), i = n PROVE t[i].http = status
    <3>1. t[i] = [s[i] EXCEPT !.http = status]
      BY <1>1, <1>2, <2>4
    <3> QED
      BY <2>1, <3>1 DEF AttemptType
  <2> QED
    BY <2>2, <2>3, <2>4
<1>6. ztapiUpstreamRejectedBeforeInference(status) => status \in RejectionStatuses
  BY SupplierContract DEF ztapiUpstreamRejectedBeforeInference
<1> HIDE DEF s, n, t
<1>7. attempts[o] = s /\ attempts'[o] = t
  BY DEF s, t
<1>8. \A i \in mayBill[o] :
        i \in 1..Len(s) /\ ~ztapiUpstreamRejectedBeforeInference(s[i].http)
  BY <1>3, <1>7 DEF BilledShape
<1>9. ASSUME NEW i \in mayBill'[o]
      PROVE  /\ i \in 1..Len(t)
             /\ ~ztapiUpstreamRejectedBeforeInference(t[i].http) \/ (block /\ i = n)
  BY <1>1, <1>3, <1>5, <1>6, <1>8, <1>9
<1>10. t # <<>> => s # <<>>
  BY <1>1, <1>5
<1> QED
  BY <1>2, <1>4, <1>7, <1>9, <1>10 DEF BilledShape

\* What the other transactions leave of the evidence: the statuses, and that a
\* request with attempts is marked as dispatched.
KeepsEvidence(o) ==
  /\ Len(attempts'[o]) = Len(attempts[o])
  /\ \A i \in 1..Len(attempts[o]) : attempts'[o][i].http = attempts[o][i].http
  /\ row[o].dispatched /\ row[o].status # "absent" =>
       row'[o].dispatched /\ row'[o].status # "absent"

\* Only a dispatch and a recorded answer change the evidence.
LEMMA TxEvidence ==
  ASSUME TypeOK, NEW o \in Ops, Tx(o)
  PROVE  \/ KeepsEvidence(o)
         \/ \E ch \in Channels : /\ BeginAttempt(o, ch)
                                 /\ CanBeginAttempt(o, ch) /\ BeginZTAPIRequestAttempt(o, ch)
         \/ \E status \in Statuses, block \in BOOLEAN :
              /\ Respond(o, status, block)
              /\ RecordZTAPIRequestAttemptResponse(o, session[o].attempt, status)
<1>1. /\ row \in [Ops -> RowType] /\ row[o] \in RowType
      /\ attempts \in [Ops -> Seq(AttemptType)] /\ attempts[o] \in Seq(AttemptType)
  BY DEF TypeOK, DBTypeOK
<1>2. ASSUME row' = row, attempts' = attempts PROVE KeepsEvidence(o)
  BY <1>2 DEF KeepsEvidence
<1>3. ASSUME row[o].status = "absent", attempts' = attempts PROVE KeepsEvidence(o)
  BY <1>3 DEF KeepsEvidence
<1>4. CASE MarkZTAPIRequestSafetyOutcome(o)
  <2> DEFINE s == attempts[o]
             t == attempts'[o]
  <2>1. t = [i \in 1..Len(s) |-> [s[i] EXCEPT !.safety = TRUE]] /\ row' = row
    BY <1>1, <1>4 DEF MarkZTAPIRequestSafetyOutcome
  <2>2. s \in Seq(AttemptType) /\ \A i \in 1..Len(s) : s[i] \in AttemptType
    BY <1>1
  <2> HIDE DEF s, t
  <2>3. Len(t) = Len(s) /\ \A i \in 1..Len(s) : t[i] = [s[i] EXCEPT !.safety = TRUE]
    BY <2>1, <2>2
  <2>4. ASSUME NEW i \in 1..Len(s) PROVE t[i].http = s[i].http
    <3>1. s[i] \in AttemptType /\ t[i] = [s[i] EXCEPT !.safety = TRUE]
      BY <2>2, <2>3
    <3> QED
      BY <3>1 DEF AttemptType
  <2> QED
    BY <2>1, <2>3, <2>4 DEF KeepsEvidence, s, t
<1>5. ASSUME NEW r \in RowType, r.dispatched = row[o].dispatched, r.status # "absent",
             row' = [row EXCEPT ![o] = r], UNCHANGED attempts
      PROVE  KeepsEvidence(o)
  BY <1>1, <1>5 DEF KeepsEvidence
<1>6. ASSUME NEW usage, NEW missing, PendZTAPIRequestSettlement(o, usage, missing)
      PROVE  KeepsEvidence(o)
  <2> DEFINE e == PendingEvidence(o, usage, missing)
  <2>1. row' = [row EXCEPT ![o] = [row[o] EXCEPT !.status = "pending", !.usage = e.usage,
                                                 !.missing = e.missing]]
        /\ attempts' = attempts
    BY <1>1, <1>6 DEF PendZTAPIRequestSettlement
  <2> HIDE DEF e
  <2>2. row'[o].dispatched = row[o].dispatched /\ row'[o].status = "pending"
    BY <1>1, <2>1 DEF RowType
  <2> QED
    BY <2>1, <2>2 DEF KeepsEvidence
<1>7. ASSUME ReleaseZTAPIRequestSettlement(o) PROVE KeepsEvidence(o)
  BY <1>1, <1>2, <1>7 DEF ReleaseZTAPIRequestSettlement, KeepsEvidence, RowType, db
<1>8. ASSUME ReleaseZTAPIDispatchedRejectedSettlement(o) PROVE KeepsEvidence(o)
  <2>1. CASE row[o].status = "released"
    <3>1. row' = row /\ attempts' = attempts
      BY <1>8, <2>1 DEF ReleaseZTAPIDispatchedRejectedSettlement, db
    <3> QED
      BY <1>2, <3>1
  <2>2. CASE row[o].status # "released"
    <3> DEFINE n == Len(attempts[o])
    <3>1. row' = [row EXCEPT ![o] = [row[o] EXCEPT !.status = "released", !.missing = "none",
                                                   !.finalAttempt = n]]
          /\ attempts' = attempts
      BY <1>1, <1>8, <2>2 DEF ReleaseZTAPIDispatchedRejectedSettlement
    <3> HIDE DEF n
    <3>2. row'[o].dispatched = row[o].dispatched /\ row'[o].status = "released"
      BY <1>1, <3>1 DEF RowType
    <3> QED
      BY <3>1, <3>2 DEF KeepsEvidence
  <2> QED
    BY <2>1, <2>2
<1>9. ASSUME finalizeZTAPIRequestSettlement(o) PROVE KeepsEvidence(o)
  <2>1. CASE row[o].status = "settled"
    <3>1. row' = row /\ attempts' = attempts
      BY <1>9, <2>1 DEF finalizeZTAPIRequestSettlement, db
    <3> QED
      BY <1>2, <3>1
  <2>2. CASE row[o].status # "settled"
    <3> DEFINE actual == intent[o].actual
               paid == TokenCharged(o, TokenDelta(row[o].tokenReserved - actual, TRUE))
    <3>1. row' = [row EXCEPT ![o] = [row[o] EXCEPT !.status = "settled", !.charged = actual,
                               !.tokenCharged = paid, !.usage = "known",
                               !.missing = "none", !.finalAttempt = intent[o].attempt]]
          /\ attempts' = attempts
      BY <1>1, <1>9, <2>2 DEF finalizeZTAPIRequestSettlement
    <3> HIDE DEF actual, paid
    <3>2. row'[o].dispatched = row[o].dispatched /\ row'[o].status = "settled"
      BY <1>1, <3>1 DEF RowType
    <3> QED
      BY <3>1, <3>2 DEF KeepsEvidence
  <2> QED
    BY <2>1, <2>2
<1>10. CASE row' = [row EXCEPT ![o].status = "released"] /\ UNCHANGED attempts
  BY <1>1, <1>10 DEF KeepsEvidence, RowType
<1>11. ASSUME NEW amount \in Amounts, CanBeginSettlement(o, amount),
              BeginZTAPIRequestSettlement(o, amount)
       PROVE  KeepsEvidence(o)
  <2>1. row[o].status = "absent" /\ attempts' = attempts
    BY <1>11 DEF CanBeginSettlement, BeginZTAPIRequestSettlement
  <2> QED
    BY <1>3, <2>1
<1> QED
  BY <1>2, <1>4, <1>6, <1>7, <1>8, <1>9, <1>10, <1>11
  DEF Tx, saveZTAPISettlementFinalizationIntent

\* Every step keeps what is known of the attempts that may have been billed.
LEMMA BilledStep ==
  ASSUME TypeOK, \A o \in Ops : BilledShape(o), [Next]_vars
  PROVE  \A o \in Ops : BilledShape(o)'
<1>1. ASSUME NEW o \in Ops, Handler(o) \/ UNCHANGED <<session, mayBill>>,
             Tx(o) \/ UNCHANGED db, TypeOK'
      PROVE  BilledShape(o)'
  <2>0. BilledShape(o)
    OBVIOUS
  <2>1. \/ mayBill'[o] \subseteq mayBill[o]
        \/ /\ mayBill'[o] = mayBill[o] \cup {Len(attempts[o]) + 1}
           /\ \E ch \in Channels : /\ BeginAttempt(o, ch) /\ CanBeginAttempt(o, ch)
                                   /\ BeginZTAPIRequestAttempt(o, ch)
    BY <1>1, MayBillStep
  <2>2. ASSUME NEW ch \in Channels, BeginAttempt(o, ch),
               CanBeginAttempt(o, ch), BeginZTAPIRequestAttempt(o, ch)
        PROVE  BilledShape(o)'
    <3>1. mayBill'[o] \subseteq mayBill[o] \cup {Len(attempts[o]) + 1}
      BY <2>1
    <3> QED
      BY <2>0, <2>2, <3>1, BilledDispatch
  <2>3. ASSUME NEW status \in Statuses, NEW block \in BOOLEAN, Respond(o, status, block),
               RecordZTAPIRequestAttemptResponse(o, session[o].attempt, status)
        PROVE  BilledShape(o)'
    BY <2>0, <2>3, BilledRespond
  <2>4. \* a step that leaves the evidence and the last answer
        ASSUME KeepsEvidence(o), mayBill'[o] \subseteq mayBill[o],
               session[o].blocked => session'[o].blocked /\ session'[o].attempt = session[o].attempt,
               session'[o].pc \in Open => ~session'[o].blocked
        PROVE  BilledShape(o)'
    <3> DEFINE s == attempts[o]
               t == attempts'[o]
    <3>1. s \in Seq(AttemptType) /\ t \in Seq(AttemptType)
      BY <1>1 DEF TypeOK, DBTypeOK
    <3>2. /\ Len(t) = Len(s)
          /\ \A i \in 1..Len(s) : t[i].http = s[i].http
      BY <2>4 DEF KeepsEvidence
    <3>3. t # <<>> => s # <<>>
      BY <3>1, <3>2
    <3>4. \A i \in mayBill'[o] :
            /\ i \in 1..Len(t)
            /\ \/ ~ztapiUpstreamRejectedBeforeInference(t[i].http)
               \/ session'[o].blocked /\ i = session'[o].attempt
      BY <2>0, <2>4, <3>2 DEF BilledShape
    <3>5. t # <<>> => row'[o].dispatched /\ row'[o].status # "absent"
      BY <2>0, <2>4, <3>3 DEF BilledShape, KeepsEvidence
    <3> QED
      BY <2>4, <3>4, <3>5 DEF BilledShape
  <2>5. ASSUME NEW ch \in Channels, BeginAttempt(o, ch),
               ~(CanBeginAttempt(o, ch) /\ BeginZTAPIRequestAttempt(o, ch))
        PROVE  BilledShape(o)'
    <3>1. Fail(o) /\ UNCHANGED db /\ UNCHANGED mayBill
      BY <2>5 DEF BeginAttempt, Call
    <3>2. KeepsEvidence(o)
      BY <3>1 DEF KeepsEvidence, db
    <3>3. SameAnswer(o) /\ session'[o].pc = "refund"
      BY <3>1, SessionFields DEF TypeOK
    <3> QED
      BY <2>4, <3>1, <3>2, <3>3 DEF SameAnswer, Open
  <2>6. ASSUME NEW status \in Statuses, NEW block \in BOOLEAN, Respond(o, status, block),
               ~RecordZTAPIRequestAttemptResponse(o, session[o].attempt, status)
        PROVE  BilledShape(o)'
    <3>1. FailAnswered(o, block, FALSE) /\ UNCHANGED db
      BY <2>6 DEF Respond, Call
    <3>2. KeepsEvidence(o)
      BY <3>1 DEF KeepsEvidence, db
    <3>3. ~session[o].blocked /\ session'[o].pc \notin Open
      BY <2>0, <2>6, <3>1, FailAnsweredFact DEF BilledShape, Respond, Open, TypeOK
    <3>4. mayBill'[o] \subseteq mayBill[o]
      BY <2>6 DEF Respond, MaybeRun, TypeOK, SessionTypeOK
    <3> QED
      BY <2>4, <3>2, <3>3, <3>4
  <2>7. CASE /\ SameAnswer(o) /\ (session[o].pc \notin Open => session'[o].pc \notin Open)
             /\ ~\E ch \in Channels : BeginAttempt(o, ch)
             /\ ~\E status \in Statuses, block \in BOOLEAN : Respond(o, status, block)
    <3>1. KeepsEvidence(o)
      BY <1>1, <2>7, TxEvidence DEF KeepsEvidence, db
    <3>2. mayBill'[o] \subseteq mayBill[o]
      BY <2>1, <2>7
    <3> QED
      BY <2>0, <2>4, <2>7, <3>1, <3>2 DEF SameAnswer, BilledShape
  <2>8. CASE UNCHANGED <<session, mayBill>> /\ ~Handler(o)
    <3>1. /\ ~\E ch \in Channels : BeginAttempt(o, ch)
          /\ ~\E status \in Statuses, block \in BOOLEAN : Respond(o, status, block)
      BY <2>8 DEF Handler
    <3> QED
      BY <2>7, <2>8, <3>1 DEF SameAnswer
  <2> QED
    BY <1>1, <2>2, <2>3, <2>5, <2>6, <2>7, <2>8, AnswerKept
<1>2. ASSUME NEW p \in Ops, NEW o \in Ops \ {p}, Elsewhere(o) PROVE BilledShape(p)'
  BY <1>2 DEF Elsewhere, BilledShape
<1>3. CASE UNCHANGED <<ledger, row, attempts, intent, session, mayBill>>
  BY <1>3 DEF BilledShape
<1> QED
  BY <1>1, <1>2, <1>3, StepIsLocal

(***************************************************************************)
(* The content-safety blocks while nothing fails.  Until the cleanup has   *)
(* marked the attempts, the row is one that no sweep looks at, and the     *)
(* handler knows of the block.                                             *)
(***************************************************************************)
Marked(o) == \A i \in 1..Len(attempts[o]) : attempts[o][i].safety

BlockShape(o) ==
  /\ session[o].pc \in {"idle", "ready", "sent"} => row[o].status # "pending"
  /\ faults = 0 /\ session[o].blocked =>
       /\ session[o].safety
       /\ Marked(o) \/ (session[o].pc \in {"refund", "done"} /\ row[o].status # "pending")

\* Only a handler that parks its row or cleans up makes it pending.
LEMMA PendedByCleanup ==
  ASSUME TypeOK, NEW o \in Ops, row'[o].status = "pending"
  PROVE  /\ Handler(o) => row[o].status = "pending" \/ ParkRow(o) \/ RefundPend(o)
         /\ Worker(o) \/ Operator(o) => row[o].status = "pending"
<1>0. row \in [Ops -> RowType]
  BY DEF TypeOK, DBTypeOK
<1>1. ASSUME NEW amount \in Amounts, BeginZTAPIRequestSettlement(o, amount)
      PROVE  FALSE
  <2> DEFINE taken == TokenDelta(-amount, FALSE)
  <2>1. row' = [row EXCEPT ![o] = NewRow("reserved", amount, -taken)]
    BY <1>1 DEF BeginZTAPIRequestSettlement
  <2> HIDE DEF taken
  <2> QED
    BY <1>0, <2>1 DEF NewRow
<1>2. ASSUME NEW ch, BeginZTAPIRequestAttempt(o, ch) PROVE row[o].status = "pending"
  BY <1>0, <1>2 DEF BeginZTAPIRequestAttempt, RowType
<1>3. CASE ReleaseZTAPIRequestSettlement(o)
  BY <1>0, <1>3 DEF ReleaseZTAPIRequestSettlement, RowType, db
<1>4. CASE ReleaseZTAPIDispatchedRejectedSettlement(o)
  <2>1. row[o].status # "released" => row' = [row EXCEPT ![o].status = "released",
                             ![o].missing = "none", ![o].finalAttempt = Len(attempts[o])]
    BY <1>4 DEF ReleaseZTAPIDispatchedRejectedSettlement
  <2> DEFINE n == Len(attempts[o])
  <2> HIDE DEF n
  <2>2. row[o].status = "released" => row' = row
    BY <1>4 DEF ReleaseZTAPIDispatchedRejectedSettlement, db
  <2> QED
    BY <1>0, <2>1, <2>2 DEF RowType
<1>5. CASE finalizeZTAPIRequestSettlement(o)
  <2>1. CASE row[o].status = "settled"
    BY <1>5, <2>1 DEF finalizeZTAPIRequestSettlement, db
  <2>2. CASE row[o].status # "settled"
    <3> DEFINE actual == intent[o].actual
               key == TokenCharged(o, TokenDelta(row[o].tokenReserved - actual, TRUE))
               last == intent[o].attempt
    <3>1. row' = [row EXCEPT ![o].status = "settled", ![o].charged = actual,
                             ![o].tokenCharged = key, ![o].usage = "known",
                             ![o].missing = "none", ![o].finalAttempt = last]
      BY <1>5, <2>2 DEF finalizeZTAPIRequestSettlement
    <3> HIDE DEF actual, key, last
    <3> QED
      BY <1>0, <3>1 DEF RowType
  <2> QED
    BY <2>1, <2>2
<1>6. CASE ResolvePendingNoCharge(o)
  BY <1>0, <1>6 DEF ResolvePendingNoCharge, CanResolve
<1> QED
  BY <1>0, <1>1, <1>2, <1>3, <1>4, <1>5, <1>6
  DEF Handler, Worker, Operator, Begin, BeginAttempt, GiveUp, TransportError, Respond,
      RecordZTAPIRequestAttemptResponse, UsageIncomplete, SaveIntent,
      saveZTAPISettlementFinalizationIntent, Finalize, RefundNothing, RefundUndispatched,
      RefundSafety, MarkZTAPIRequestSafetyOutcome, RefundDispatched, Crash,
      RetryFinalization, SweepRejectedHold, Call, db

\* No fault was counted before a state in which none is.
LEMMA NoFaultBefore ==
  ASSUME TypeOK, [Next]_vars, faults' = 0
  PROVE  faults = 0 /\ ~Fault
<1>1. faults \in Nat
  BY DEF TypeOK, SessionTypeOK
<1>2. ~Fault
  BY <1>1 DEF Fault
<1>3. ASSUME NEW o \in Ops, Handler(o) PROVE faults' = faults
  BY <1>2, <1>3
  DEF Handler, Begin, BeginAttempt, GiveUp, TransportError, Respond, UsageIncomplete,
      SaveIntent, Finalize, ParkRow, RefundNothing, RefundUndispatched, RefundSafety,
      RefundDispatched, RefundPend, Crash, Call
<1>4. ASSUME NEW o \in Ops, Worker(o) \/ Operator(o) PROVE faults' = faults
  BY <1>4, WorkerIsTx
<1>5. CASE Admin
  <2>1. faults' = faults
    BY <1>5 DEF Admin, AdjustUserBalance, UpdateZTAPIUserStatus, DeleteUser
  <2> QED
    BY <1>2, <2>1
<1> QED
  BY <1>2, <1>3, <1>4, <1>5 DEF Next, vars

\* A handler does not come back to the steps before the answer.
LEMMA AnswerIsPast ==
  ASSUME TypeOK, NEW o \in Ops, Handler(o), session'[o].pc \in {"idle", "ready", "sent"}
  PROVE  session[o].pc \in {"idle", "ready", "sent"}
<1>0. SessionTypeOK
  BY DEF TypeOK
<1>1. CASE session[o].pc = "answered"
  <2>1. \/ \E reason \in Reasons : Park(o, reason)
        \/ Goto(o, "finalize") \/ Goto(o, "crashed")
    BY <1>1
    DEF Handler, Begin, BeginAttempt, GiveUp, TransportError, Respond, UsageIncomplete,
        SaveIntent, Finalize, ParkRow, RefundNothing, RefundUndispatched, RefundSafety,
        RefundDispatched, RefundPend, Crash, Call, Reasons
  <2> QED
    BY <1>0, <2>1, SessionFields DEF PCs
<1>2. CASE session[o].pc \notin Early
  BY <1>2, HandlerSession DEF Forward, Early
<1> QED
  BY <1>1, <1>2 DEF Early

\* The cleanup of a block keeps it from the sweeps, unless it fails.
LEMMA BlockCleanup ==
  ASSUME TypeOK, NEW o \in Ops, BilledShape(o), BlockShape(o), Handler(o), SameAnswer(o),
         faults = 0, ~Fault, session'[o].blocked
  PROVE  /\ session'[o].safety
         /\ \/ Marked(o)'
            \/ session'[o].pc \in {"refund", "done"} /\ row'[o].status # "pending"
<1>0. /\ SessionTypeOK /\ session[o] \in SessionType /\ session[o].status \in RowStatuses
      /\ attempts \in [Ops -> Seq(AttemptType)]
  BY DEF TypeOK, SessionTypeOK, DBTypeOK, SessionType
<1>1. session[o].blocked /\ session[o].safety /\ session'[o].safety
  BY DEF SameAnswer, BlockShape
<1>2. session[o].pc \notin Open
  BY <1>1 DEF BilledShape
<1>3. \/ Marked(o)
      \/ session[o].pc \in {"refund", "done"} /\ row[o].status # "pending"
  BY <1>1 DEF BlockShape
<1>4. ASSUME attempts' = attempts, session'[o].pc \in {"refund", "done"},
             session[o].pc = "refund"
      PROVE  Marked(o)' \/ (session'[o].pc \in {"refund", "done"} /\ row'[o].status # "pending")
  <2>1. row[o].status # "pending" => row'[o].status # "pending"
    BY <1>4, PendedByCleanup DEF ParkRow, RefundPend
  <2> QED
    BY <1>3, <1>4, <2>1 DEF Marked
<1>5. CASE RefundNothing(o)
  <2>1. attempts' = attempts /\ Ended(o, session[o].status) /\ session[o].pc = "refund"
    BY <1>5 DEF RefundNothing, db
  <2>2. session'[o].pc \in {"refund", "done"}
    BY <1>0, <2>1, SessionFields
  <2> QED
    BY <1>1, <1>4, <2>1, <2>2
<1>6. CASE RefundUndispatched(o)
  <2>1. attempts' = attempts
    BY <1>6 DEF RefundUndispatched, Call, ReleaseZTAPIRequestSettlement, db
  <2>2. \E status \in RowStatuses : Ended(o, status)
    BY <1>6 DEF RefundUndispatched, Call, RowStatuses
  <2>3. session'[o].pc \in {"refund", "done"} /\ session[o].pc = "refund"
    BY <1>0, <1>6, <2>2, SessionFields DEF RefundUndispatched
  <2> QED
    BY <1>1, <1>4, <2>1, <2>3
<1>7. CASE RefundSafety(o)
  <2>1. MarkZTAPIRequestSafetyOutcome(o)
    BY <1>7 DEF RefundSafety, Call
  <2> DEFINE s == attempts[o]
             t == attempts'[o]
  <2>2. t = [i \in 1..Len(s) |-> [s[i] EXCEPT !.safety = TRUE]] /\ s \in Seq(AttemptType)
    BY <1>0, <2>1 DEF MarkZTAPIRequestSafetyOutcome
  <2> HIDE DEF s, t
  <2>3. Len(t) = Len(s) /\ \A i \in 1..Len(s) : s[i] \in AttemptType
    BY <2>2
  <2>4. ASSUME NEW i \in 1..Len(t) PROVE t[i].safety
    <3>1. t[i] = [s[i] EXCEPT !.safety = TRUE] /\ s[i] \in AttemptType
      BY <2>2, <2>3, <2>4
    <3> QED
      BY <3>1 DEF AttemptType
  <2> QED
    BY <1>1, <2>4 DEF Marked, t
<1>8. CASE RefundPend(o)
  <2>1. attempts' = attempts /\ session[o].pc = "pend"
    BY <1>8 DEF RefundPend, Call, PendZTAPIRequestSettlement, db
  <2> QED
    BY <1>1, <1>3, <2>1 DEF Marked
<1> QED
  BY <1>1, <1>2, <1>4, <1>5, <1>6, <1>7, <1>8
  DEF Handler, Open, Begin, BeginAttempt, GiveUp, TransportError, Respond, UsageIncomplete,
      SaveIntent, Finalize, ParkRow, RefundDispatched, Crash

\* Every step keeps that.
LEMMA BlockStep ==
  ASSUME TypeOK, \A o \in Ops : BilledShape(o) /\ BlockShape(o), [Next]_vars
  PROVE  \A o \in Ops : BlockShape(o)'
<1>0. faults' = 0 => faults = 0 /\ ~Fault
  BY NoFaultBefore
<1>1. ASSUME NEW o \in Ops, Handler(o) PROVE BlockShape(o)'
  <2>0. /\ SessionTypeOK /\ session[o] \in SessionType
        /\ BilledShape(o) /\ BlockShape(o)
    BY DEF TypeOK, SessionTypeOK
  <2>1. session'[o].pc \in {"idle", "ready", "sent"} => row'[o].status # "pending"
    <3>1. ASSUME session'[o].pc \in {"idle", "ready", "sent"}, row'[o].status = "pending"
          PROVE  FALSE
      <4>1. session[o].pc \in {"idle", "ready", "sent"}
        BY <1>1, <3>1, AnswerIsPast
      <4>2. row[o].status = "pending"
        BY <1>1, <3>1, <4>1, PendedByCleanup DEF ParkRow, RefundPend
      <4> QED
        BY <2>0, <4>1, <4>2 DEF BlockShape
    <3> QED
      BY <3>1
  <2>2. ASSUME faults' = 0, session'[o].blocked
        PROVE  /\ session'[o].safety
               /\ \/ Marked(o)'
                  \/ session'[o].pc \in {"refund", "done"} /\ row'[o].status # "pending"
    <3>1. CASE SameAnswer(o)
      BY <1>0, <1>1, <2>0, <2>2, <3>1, BlockCleanup
    <3>2. ASSUME NEW ch \in Channels, BeginAttempt(o, ch) PROVE FALSE
      <4>1. session'[o].blocked = session[o].blocked
        BY <2>0, <3>2, SessionFields DEF BeginAttempt, Call, SameAnswer, SessionTypeOK, SessionType
      <4> QED
        BY <2>0, <2>2, <3>2, <4>1 DEF BilledShape, BeginAttempt, Open
    <3>3. ASSUME NEW status \in Statuses, NEW block \in BOOLEAN, Respond(o, status, block)
          PROVE  /\ session'[o].safety
                 /\ \/ Marked(o)'
                    \/ session'[o].pc \in {"refund", "done"} /\ row'[o].status # "pending"
      <4>1. /\ RecordZTAPIRequestAttemptResponse(o, session[o].attempt, status)
            /\ \/ Goto(o, "answered") \/ Goto(o, "ready")
               \/ FailAnswered(o, block, block)
        BY <1>0, <2>2, <3>3 DEF Respond, Call
      <4>2. CASE Goto(o, "answered") \/ Goto(o, "ready")
        <5>1. SameAnswer(o)
          BY <2>0, <4>2, SessionFields DEF PCs
        <5> QED
          BY <3>1, <5>1
      <4>3. CASE FailAnswered(o, block, block)
        <5>1. session'[o].blocked = block /\ session'[o].safety = block /\ session'[o].pc = "refund"
          BY <2>0, <4>3, FailAnsweredFact
        <5>2. row' = row /\ row[o].status # "pending"
          BY <2>0, <3>3, <4>1 DEF RecordZTAPIRequestAttemptResponse, Respond, BlockShape
        <5> QED
          BY <2>2, <5>1, <5>2
      <4> QED
        BY <4>1, <4>2, <4>3
    <3> QED
      BY <1>1, <3>1, <3>2, <3>3, AnswerKept
  <2> QED
    BY <2>1, <2>2 DEF BlockShape
<1>2. ASSUME NEW o \in Ops, Worker(o) \/ Operator(o) PROVE BlockShape(o)'
  <2>1. UNCHANGED <<session, faults>> /\ BlockShape(o)
    BY <1>2, WorkerIsTx
  <2>2. attempts' = attempts
    BY <1>2 DEF Worker, Operator, RetryFinalization, finalizeZTAPIRequestSettlement,
                SweepRejectedHold, ReleaseZTAPIDispatchedRejectedSettlement,
                ResolvePendingNoCharge, db
  <2>3. row[o].status # "pending" => row'[o].status # "pending"
    BY <1>2, PendedByCleanup
  <2> QED
    BY <2>1, <2>2, <2>3 DEF BlockShape, Marked
<1>3. ASSUME NEW p \in Ops, session'[p] = session[p], row'[p] = row[p],
             attempts'[p] = attempts[p]
      PROVE  BlockShape(p)'
  BY <1>0, <1>3 DEF BlockShape, Marked
<1>4. ASSUME NEW o \in Ops, Handler(o) \/ Worker(o) \/ Operator(o), NEW p \in Ops \ {o}
      PROVE  BlockShape(p)'
  <2>1. Tx(o) \/ UNCHANGED db
    BY <1>4, HandlerIsTx, WorkerIsTx
  <2>2. row'[p] = row[p] /\ attempts'[p] = attempts[p]
    BY <2>1, TxMoves, OthersEvidence DEF Moves, OthersSame, db
  <2>3. session'[p] = session[p]
    BY <1>4, HandlerSession, WorkerIsTx DEF Forward
  <2> QED
    BY <1>3, <2>2, <2>3
<1>5. CASE Admin
  BY <1>3, <1>5, AdminType
<1>6. CASE UNCHANGED vars
  BY <1>3, <1>6 DEF vars
<1> QED
  BY <1>1, <1>2, <1>4, <1>5, <1>6 DEF Next

\* Of a block that was not marked, no step returns the hold before a fault.
LEMMA BlockNotReturned ==
  ASSUME TypeOK, NEW o \in Ops, Handler(o) \/ Worker(o) \/ Operator(o),
         session[o].blocked, session[o].safety, BilledShape(o),
         session[o].pc \in {"refund", "done"}, row[o].status # "pending"
  PROVE  ledger'[o]["upstream-rejected"] = ledger[o]["upstream-rejected"]
<1>1. ASSUME NEW key \in {"release", "settle"}, NEW delta, ledger' = LedgerAfter(o, key, delta)
      PROVE  ledger'[o]["upstream-rejected"] = ledger[o]["upstream-rejected"]
  <2>1. key \in LedgerKeys /\ "upstream-rejected" \in LedgerKeys \ {key}
    BY <1>1 DEF LedgerKeys
  <2> QED
    BY <1>1, <2>1, LedgerOther
<1>2. CASE ReleaseZTAPIRequestSettlement(o)
  BY <1>1, <1>2 DEF ReleaseZTAPIRequestSettlement, ReturnReservation, db
<1>3. CASE finalizeZTAPIRequestSettlement(o)
  <2>1. CASE row[o].status = "settled"
    BY <1>3, <2>1 DEF finalizeZTAPIRequestSettlement, db
  <2>2. CASE row[o].status # "settled"
    BY <1>1, <1>3, <2>2 DEF finalizeZTAPIRequestSettlement
  <2> QED
    BY <2>1, <2>2
<1>4. CASE Handler(o)
  <2>1. \/ RefundNothing(o) \/ RefundUndispatched(o) \/ RefundSafety(o) \/ Crash(o)
    BY <1>4
    DEF Handler, Begin, BeginAttempt, GiveUp, TransportError, Respond, UsageIncomplete,
        SaveIntent, Finalize, ParkRow, RefundDispatched, RefundPend
  <2> QED
    BY <1>2, <2>1
    DEF RefundNothing, RefundUndispatched, RefundSafety, Crash, Call,
        MarkZTAPIRequestSafetyOutcome, db
<1>5. CASE Worker(o) \/ Operator(o)
  BY <1>3, <1>5 DEF Worker, Operator, RetryFinalization, SweepRejectedHold,
                    ResolvePendingNoCharge, CanResolve
<1> QED
  BY <1>4, <1>5

\* So only the hold of an unmarked block is returned unasked, after a fault.
LEMMA ReturnedUnaskedStep ==
  ASSUME TypeOK, NEW p \in Ops, BilledShape(p), BlockShape(p), [Next]_vars,
         ReturnedUnasked(p), mayBill[p] # {}
  PROVE  /\ faults > 0
         /\ mayBill[p] = {session[p].attempt} /\ session[p].blocked
         /\ ~attempts[p][session[p].attempt].safety
<1>1. PICK o \in Ops : Handler(o) \/ Worker(o) \/ Operator(o)
  <2>1. ledger' # ledger
    BY DEF ReturnedUnasked
  <2> QED
    BY <2>1, AdminType DEF Next, vars
<1>2. Tx(o) \/ UNCHANGED db
  BY <1>1, HandlerIsTx, WorkerIsTx
<1>3. Tx(p) /\ (Handler(p) \/ Worker(p) \/ Operator(p))
  <2>1. Tx(o)
    BY <1>2 DEF ReturnedUnasked, db
  <2>2. o = p
    BY <2>1, TxMoves DEF Moves, OthersSame, ReturnedUnasked
  <2> QED
    BY <1>1, <2>1, <2>2
<1>4. PICK i \in mayBill[p] : TRUE
  OBVIOUS
<1>5. attempts[p] \in Seq(AttemptType) /\ faults \in Nat
  BY DEF TypeOK, DBTypeOK, SessionTypeOK
<1>6. attempts[p] # <<>> /\ row[p].dispatched
  <2>1. i \in 1..Len(attempts[p])
    BY DEF BilledShape
  <2>2. attempts[p] # <<>>
    BY <1>5, <2>1
  <2> QED
    BY <2>2 DEF BilledShape
<1>7. /\ ledger'[p]["upstream-rejected"] # ledger[p]["upstream-rejected"]
      /\ ProvenRejected(p)
  BY <1>3, <1>6, ReleaseRows DEF ReturnedUnasked
<1>8. \A j \in mayBill[p] :
        j \in 1..Len(attempts[p]) /\ session[p].blocked /\ j = session[p].attempt
  BY <1>7 DEF BilledShape, ProvenRejected
<1>9. ~attempts[p][i].safety /\ ~Marked(p)
  BY <1>7, <1>8 DEF ProvenRejected, Marked
<1>10. faults # 0
  BY <1>3, <1>7, <1>8, <1>9, BlockNotReturned DEF BlockShape
<1> QED
  BY <1>5, <1>8, <1>9, <1>10

(***************************************************************************)
(* No automatic path returns the reservation of a request that a supplier  *)
(* may have run a model for, whatever statuses arrive, are lost, or are    *)
(* recorded by a transaction whose answer is lost; a content-safety block  *)
(* is the one exception, and only once a fault kept it from being marked.  *)
(* The suppliers' contract is assumed (SupplierContract); it says nothing  *)
(* of blocks.                                                              *)
(***************************************************************************)
THEOREM MaybeBilledKept == Spec => MaybeBilledNeverAutoReleased
<1> DEFINE Billed == \A o \in Ops : BilledShape(o) /\ BlockShape(o)
<1>1. Init => Billed
  BY DEF Init, BilledShape, BlockShape, IdleSession, AbsentRow, NewRow
<1>2. TypeOK /\ Billed /\ [Next]_vars => Billed'
  BY BilledStep, BlockStep
<1>3. TypeOK /\ Billed /\ [Next]_vars =>
        [\A o \in Ops : ReturnedUnasked(o) =>
           \/ mayBill[o] = {}
           \/ /\ faults > 0
              /\ mayBill[o] = {session[o].attempt} /\ session[o].blocked
              /\ ~attempts[o][session[o].attempt].safety]_vars
  BY ReturnedUnaskedStep
<1> HIDE DEF Billed
<1> QED
  BY <1>1, <1>2, <1>3, TypeCorrect, PTL DEF Spec, MaybeBilledNeverAutoReleased
-------------------------------------------------------------------------------
(***************************************************************************)
(* The finalization intent.  IntentNeverStranded alone is not inductive:   *)
(* that no row is parked under a reason its worker does not look for       *)
(* follows from where the handler stands, which has no intent before it    *)
(* has answered and parks afterwards only for the retry.                   *)
(***************************************************************************)
IntentShape(o) ==
  /\ session[o].pc \in Early => intent[o].state = "none"
  /\ session[o].pc = "park" /\ session[o].reason # "settlement_retry_required" =>
       intent[o].state = "none"
  /\ intent[o].state = "open" => row[o].status = "reserved" \/ Retryable(o)
  /\ intent[o].state = "completed" <=> row[o].status = "settled"
  /\ row[o].status = "settled" => row[o].charged = intent[o].actual

\* A transaction keeps the intent and the settlement of its row; or it saves the
\* intent of a reserved row; or it charges what the intent says.
IntentKept(o) ==
  /\ intent'[o] = intent[o]
  /\ \/ row'[o].status = row[o].status /\ row'[o].charged = row[o].charged
     \/ row[o].status # "settled" /\ row'[o].status # "settled"
  /\ intent[o].state = "open" /\ (row[o].status = "reserved" \/ Retryable(o)) =>
       row'[o].status = "reserved" \/ Retryable(o)'

IntentSaved(o) ==
  /\ \E actual \in Amounts : SaveIntent(o, actual)
  /\ intent'[o].state = "open" \/ intent'[o] = intent[o]
  /\ intent'[o] # intent[o] => row[o].status = "reserved"
  /\ row' = row

IntentApplied(o) ==
  /\ intent[o].state # "none"
  /\ intent'[o].state = "completed" /\ intent'[o].actual = intent[o].actual
  /\ row'[o].status = "settled" /\ row'[o].charged = intent[o].actual

\* A parking keeps an open intent where its worker finds it.
LEMMA PendKeepsIntent ==
  ASSUME TypeOK, NEW o \in Ops, IntentShape(o), NEW usage, NEW missing,
         PendsAs(o, usage, missing), CanPend(o, usage, missing),
         PendZTAPIRequestSettlement(o, usage, missing)
  PROVE  IntentKept(o)
<1> DEFINE e == PendingEvidence(o, usage, missing)
<1>1. row \in [Ops -> RowType] /\ row[o] \in RowType /\ intent[o] \in IntentType
  BY DEF TypeOK, DBTypeOK
<1>2. row' = [row EXCEPT ![o] = [row[o] EXCEPT !.status = "pending", !.usage = e.usage,
                                               !.missing = e.missing]]
      /\ intent' = intent
  BY <1>1 DEF PendZTAPIRequestSettlement
<1>3. row[o].status \in {"reserved", "pending"}
  BY DEF CanPend
<1>4. ASSUME intent[o].state = "open", row[o].status = "reserved" \/ Retryable(o)
      PROVE  e.usage = "known" /\ e.missing = "settlement_retry_required"
  <2>1. HasIntent(o)
    BY <1>4 DEF HasIntent
  <2>2. CASE session[o].pc = "park" /\ usage = "known" /\ missing = session[o].reason
    <3>1. missing = "settlement_retry_required"
      BY <1>4, <2>2 DEF IntentShape
    <3> QED
      BY <2>2, <3>1 DEF PendingEvidence
  <2>3. CASE usage = "none" /\ missing = "upstream_billing_unconfirmed"
    BY <1>4, <2>1, <2>3 DEF PendingEvidence, Retryable
  <2> QED
    BY <2>2, <2>3 DEF PendsAs
<1> HIDE DEF e
<1>5. /\ row'[o].status = "pending" /\ row'[o].usage = e.usage
      /\ row'[o].missing = e.missing
  BY <1>1, <1>2 DEF RowType
<1> QED
  BY <1>2, <1>3, <1>4, <1>5 DEF IntentKept, Retryable

\* What each transaction does to the intent.
LEMMA TxIntent ==
  ASSUME TypeOK, NEW o \in Ops, IntentShape(o), Tx(o)
  PROVE  IntentKept(o) \/ IntentSaved(o) \/ IntentApplied(o)
<1>1. /\ row \in [Ops -> RowType] /\ row[o] \in RowType
      /\ intent \in [Ops -> IntentType] /\ intent[o] \in IntentType /\ DBTypeOK
  BY DEF TypeOK, DBTypeOK
<1>2. ASSUME intent' = intent, row' = row PROVE IntentKept(o)
  BY <1>2 DEF IntentKept, Retryable
<1>3. ASSUME intent' = intent, intent[o].state # "open",
             row[o].status # "settled", row'[o].status # "settled"
      PROVE  IntentKept(o)
  BY <1>3 DEF IntentKept
<1>4. ASSUME NEW amount \in Amounts, CanBeginSettlement(o, amount),
             BeginZTAPIRequestSettlement(o, amount)
      PROVE  IntentKept(o)
  <2>1. PICK t \in Quota : row' = [row EXCEPT ![o] = NewRow("reserved", amount, t)]
    BY <1>1, <1>4, BeginType
  <2>2. row'[o].status = "reserved" /\ intent' = intent /\ row[o].status = "absent"
    BY <1>1, <1>4, <2>1 DEF NewRow, BeginZTAPIRequestSettlement, CanBeginSettlement
  <2> QED
    BY <1>3, <2>2 DEF IntentShape, Retryable
<1>5. ASSUME NEW ch \in Channels, CanBeginAttempt(o, ch), BeginZTAPIRequestAttempt(o, ch)
      PROVE  IntentKept(o)
  <2>1. /\ row'[o].status = "reserved" /\ row'[o].charged = row[o].charged
        /\ row[o].status = "reserved" /\ intent' = intent
    BY <1>1, <1>5 DEF BeginZTAPIRequestAttempt, CanBeginAttempt, RowType
  <2> QED
    BY <2>1 DEF IntentKept
<1>6. ASSUME CanRelease(o), ReleaseZTAPIRequestSettlement(o) PROVE IntentKept(o)
  <2>1. CASE row[o].status = "released"
    <3>1. intent' = intent /\ row' = row
      BY <1>6, <2>1 DEF ReleaseZTAPIRequestSettlement, db
    <3> QED
      BY <1>2, <3>1
  <2>2. CASE row[o].status # "released"
    <3>1. /\ intent' = intent /\ intent[o].state = "none"
          /\ row[o].status = "reserved" /\ row'[o].status = "released"
      BY <1>1, <1>6, <2>2 DEF CanRelease, ReleaseZTAPIRequestSettlement, HasIntent, RowType
    <3> QED
      BY <1>3, <3>1
  <2> QED
    BY <2>1, <2>2
<1>7. ASSUME CanReleaseRejected(o), ReleaseZTAPIDispatchedRejectedSettlement(o)
      PROVE  IntentKept(o)
  <2>1. CASE row[o].status = "released"
    <3>1. intent' = intent /\ row' = row
      BY <1>7, <2>1 DEF ReleaseZTAPIDispatchedRejectedSettlement, db
    <3> QED
      BY <1>2, <3>1
  <2>2. CASE row[o].status # "released"
    <3> DEFINE n == Len(attempts[o])
    <3>1. row' = [row EXCEPT ![o] = [row[o] EXCEPT !.status = "released", !.missing = "none",
                                                   !.finalAttempt = n]]
          /\ intent' = intent
      BY <1>1, <1>7, <2>2 DEF ReleaseZTAPIDispatchedRejectedSettlement
    <3>2. intent[o].state = "none" /\ row[o].status \in Held
      BY <1>7, <2>2 DEF CanReleaseRejected, HasIntent
    <3> HIDE DEF n
    <3>3. row'[o].status = "released"
      BY <1>1, <3>1 DEF RowType
    <3> QED
      BY <1>3, <3>1, <3>2, <3>3 DEF Held
  <2> QED
    BY <2>1, <2>2
<1>8. ASSUME NEW actual \in Amounts, SaveIntent(o, actual),
             CanSaveIntent(o, actual, session[o].attempt),
             saveZTAPISettlementFinalizationIntent(o, actual, session[o].attempt)
      PROVE  IntentSaved(o)
  <2>1. CASE HasIntent(o)
    <3>1. intent' = intent /\ row' = row
      BY <1>8, <2>1 DEF saveZTAPISettlementFinalizationIntent
    <3> QED
      BY <1>8, <3>1 DEF IntentSaved
  <2>2. CASE ~HasIntent(o)
    <3>1. intent'[o].state = "open" /\ row' = row /\ row[o].status = "reserved"
      BY <1>1, <1>8, <2>2 DEF saveZTAPISettlementFinalizationIntent, CanSaveIntent
    <3> QED
      BY <1>8, <3>1 DEF IntentSaved
  <2> QED
    BY <2>1, <2>2
<1>9. ASSUME CanFinalize(o), finalizeZTAPIRequestSettlement(o)
      PROVE  IntentKept(o) \/ IntentApplied(o)
  <2>1. CASE row[o].status = "settled"
    <3>1. intent' = intent /\ row' = row
      BY <1>9, <2>1 DEF finalizeZTAPIRequestSettlement, db
    <3> QED
      BY <1>2, <3>1
  <2>2. CASE row[o].status # "settled"
    BY <1>1, <1>9, <2>2, FinalizeMoves DEF IntentApplied, CanFinalize, HasIntent
  <2> QED
    BY <2>1, <2>2
<1>10. ASSUME CanResolve(o), row' = [row EXCEPT ![o].status = "released"], intent' = intent
       PROVE  IntentKept(o)
  <2>1. intent[o].state = "none" /\ row[o].status = "pending" /\ row'[o].status = "released"
    BY <1>1, <1>10 DEF CanResolve, HasIntent, RowType
  <2> QED
    BY <1>3, <1>10, <2>1
<1>11. ~(row[o].status = "released" /\ intent[o].state = "open")
  BY DEF IntentShape, Retryable
<1> QED
  BY <1>2, <1>4, <1>5, <1>6, <1>7, <1>8, <1>9, <1>10, <1>11, PendKeepsIntent
  DEF Tx, RecordZTAPIRequestAttemptResponse, MarkZTAPIRequestSafetyOutcome
\* A handler that saves its intent is past the steps that have none, and parks
\* only for the retry.
LEMMA SavingMovesOn ==
  ASSUME TypeOK, NEW o \in Ops, NEW actual \in Amounts, SaveIntent(o, actual)
  PROVE  /\ session'[o].pc \notin Early
         /\ session'[o].pc = "park" => session'[o].reason = "settlement_retry_required"
<1>0. SessionTypeOK
  BY DEF TypeOK
<1>1. CASE Goto(o, "finalize")
  BY <1>0, <1>1, GotoFact DEF PCs, Early
<1>2. CASE Park(o, "settlement_retry_required")
  <2>1. "settlement_retry_required" \in Reasons
    BY DEF Reasons
  <2>2. session'[o].pc = "park" /\ session'[o].reason = "settlement_retry_required"
    BY <1>0, <1>2, <2>1, ParkFact, ZenonT(60)
  <2> QED
    BY <2>2 DEF Early
<1> QED
  BY <1>1, <1>2 DEF SaveIntent, Call

\* Every step keeps the intent where it belongs.
LEMMA IntentStep ==
  ASSUME TypeOK, \A o \in Ops : IntentShape(o), [Next]_vars
  PROVE  \A o \in Ops : IntentShape(o)'
<1>1. ASSUME NEW o \in Ops, Handler(o) \/ UNCHANGED <<session, mayBill>>,
             Tx(o) \/ UNCHANGED db
      PROVE  IntentShape(o)'
  <2>0. IntentShape(o) /\ intent[o] \in IntentType
    BY DEF TypeOK, DBTypeOK
  <2>1. IntentKept(o) \/ IntentSaved(o) \/ IntentApplied(o)
    <3>1. CASE UNCHANGED db
      BY <3>1 DEF db, IntentKept, Retryable
    <3> QED
      BY <1>1, <2>0, <3>1, TxIntent
  <2>2. \* the rows
        /\ intent'[o].state = "open" => row'[o].status = "reserved" \/ Retryable(o)'
        /\ intent'[o].state = "completed" <=> row'[o].status = "settled"
        /\ row'[o].status = "settled" => row'[o].charged = intent'[o].actual
    <3>1. CASE IntentKept(o)
      BY <2>0, <3>1 DEF IntentShape, IntentKept
    <3>2. CASE IntentSaved(o)
      <4>1. row' = row
        BY <3>2 DEF IntentSaved
      <4>2. CASE intent'[o] = intent[o]
        BY <2>0, <4>1, <4>2 DEF IntentShape, Retryable
      <4>3. CASE intent'[o].state = "open" /\ row[o].status = "reserved"
        BY <2>0, <4>1, <4>3 DEF IntentShape
      <4> QED
        BY <3>2, <4>2, <4>3 DEF IntentSaved
    <3>3. CASE IntentApplied(o)
      BY <3>3 DEF IntentApplied
    <3> QED
      BY <2>1, <3>1, <3>2, <3>3
  <2>3. \* the handler
        /\ session'[o].pc \in Early => intent'[o].state = "none"
        /\ session'[o].pc = "park" /\ session'[o].reason # "settlement_retry_required" =>
             intent'[o].state = "none"
    <3>1. CASE IntentSaved(o)
      BY <3>1, SavingMovesOn DEF IntentSaved
    <3>2. ASSUME intent[o].state = "none" => intent'[o].state = "none"
          PROVE  <2>3!:
      <4>1. CASE UNCHANGED session
        BY <2>0, <3>2, <4>1 DEF IntentShape
      <4>2. CASE Handler(o)
        <5>1. Forward(o)
          BY <4>2, HandlerSession
        <5> QED
          BY <2>0, <3>2, <5>1 DEF Forward, IntentShape, Early
      <4> QED
        BY <1>1, <4>1, <4>2
    <3> QED
      BY <2>1, <3>1, <3>2 DEF IntentKept, IntentApplied
  <2> QED
    BY <2>2, <2>3 DEF IntentShape
<1>2. ASSUME NEW p \in Ops, NEW o \in Ops \ {p}, Elsewhere(o) PROVE IntentShape(p)'
  BY <1>2 DEF Elsewhere, IntentShape, Retryable
<1>3. CASE UNCHANGED <<ledger, row, attempts, intent, session, mayBill>>
  BY <1>3 DEF IntentShape, Retryable
<1> QED
  BY <1>1, <1>2, <1>3, StepIsLocal

(***************************************************************************)
(* A saved intent is never stranded: no park, sweep, review or crash moves *)
(* its row out of the worker's reach before it is applied, the charge is   *)
(* the intent's, and no row is settled without one.                        *)
(***************************************************************************)
THEOREM IntentKeptReachable == Spec => []IntentNeverStranded
<1> DEFINE Intents == \A o \in Ops : IntentShape(o)
<1>1. Init => Intents
  BY DEF Init, IntentShape, IdleSession, Early, AbsentRow, NewRow
<1>2. TypeOK /\ Intents /\ [Next]_vars => TypeOK' /\ Intents'
  BY TypeStep, IntentStep
<1>3. Intents => IntentNeverStranded
  BY DEF IntentShape, IntentNeverStranded
<1> HIDE DEF Intents
<1> QED
  BY <1>1, <1>2, <1>3, TypeInit, PTL DEF Spec
-------------------------------------------------------------------------------
(***************************************************************************)
(* The owner of the wallet: debt, suspension and the administrator.        *)
(***************************************************************************)
Solvent(u) ==
  /\ u.status = "enabled" /\ ~u.deleted => u.quota >= 0
  /\ u.debtSuspended => u.quota < 0

\* A disable that is not a debt suspension.
Banned(u) == u.status = "disabled" /\ ~u.debtSuspended

\* balanceLedgerUserUpdates keeps a user solvent unless a movement that is no
\* settlement takes an active balance below zero, and lifts no administrator's
\* disable.
LEMMA UpdatesSolvent ==
  ASSUME NEW u \in UserType, Solvent(u), NEW after \in Int, NEW settlement \in BOOLEAN,
         settlement \/ after >= 0 \/ ~(u.status = "enabled" /\ ~u.deleted)
  PROVE  /\ Solvent(balanceLedgerUserUpdates(u, after, settlement))
         /\ Banned(u) => Banned(balanceLedgerUserUpdates(u, after, settlement))
<1> DEFINE v == balanceLedgerUserUpdates(u, after, settlement)
<1>1. /\ u.status \in {"enabled", "disabled"} /\ u.debtSuspended \in BOOLEAN
      /\ u.deleted \in BOOLEAN
  BY DEF UserType
<1>2. CASE settlement /\ after < 0 /\ (u.status = "enabled" \/ u.debtSuspended)
  <2>1. v = [u EXCEPT !.quota = after, !.status = "disabled", !.debtSuspended = TRUE]
    BY <1>2 DEF balanceLedgerUserUpdates
  <2> HIDE DEF v
  <2>2. v.quota = after /\ v.status = "disabled" /\ v.debtSuspended
    BY <2>1 DEF UserType
  <2> QED
    BY <1>2, <2>2 DEF Solvent, Banned, v
<1>3. CASE ~(settlement /\ after < 0) /\ after >= 0 /\ u.debtSuspended
  <2>1. v = [u EXCEPT !.quota = after, !.status = "enabled", !.debtSuspended = FALSE]
    BY <1>3 DEF balanceLedgerUserUpdates
  <2> HIDE DEF v
  <2>2. v.quota = after /\ ~v.debtSuspended
    BY <2>1 DEF UserType
  <2> QED
    BY <1>3, <2>2 DEF Solvent, Banned, v
<1>4. CASE /\ settlement /\ after < 0 => u.status = "disabled" /\ ~u.debtSuspended
           /\ ~(settlement /\ after < 0) => ~(after >= 0 /\ u.debtSuspended)
  <2>1. v = [u EXCEPT !.quota = after]
    BY <1>4 DEF balanceLedgerUserUpdates
  <2> HIDE DEF v
  <2>2. /\ v.quota = after /\ v.status = u.status
        /\ v.debtSuspended = u.debtSuspended /\ v.deleted = u.deleted
    BY <2>1 DEF UserType
  <2> QED
    BY <1>4, <2>2 DEF Solvent, Banned, v
<1> QED
  BY <1>1, <1>2, <1>3, <1>4

\* So does every wallet movement of a request.
LEMMA MovementSolvent ==
  ASSUME TypeOK, Solvent(user), NEW o \in Ops, NEW key \in LedgerKeys, NEW delta \in Int,
         NEW allowNegative \in BOOLEAN, CanMoveWallet(o, key, delta, allowNegative)
  PROVE  /\ Solvent(UserAfter(delta, allowNegative))
         /\ Banned(user) => Banned(UserAfter(delta, allowNegative))
<1>0. user \in UserType /\ user.quota \in Int
  BY MaxQuotaAssumption DEF TypeOK, DBTypeOK, UserType
<1>1. CASE delta = 0
  BY <1>1 DEF UserAfter
<1>2. CASE delta # 0
  <2> DEFINE after == user.quota + delta
             updated == balanceLedgerUserUpdates(user, after, allowNegative)
  <2>1. allowNegative \/ after >= 0 \/ ~(user.status = "enabled" /\ ~user.deleted)
    <3>1. CASE ~allowNegative
      BY <1>0, <1>2, <3>1 DEF CanMoveWallet, checkedBalanceLedgerSum, Solvent
    <3> QED
      BY <3>1
  <2>2. after \in Int
    BY <1>0
  <2> HIDE DEF after
  <2>3. Solvent(updated) /\ (Banned(user) => Banned(updated))
    BY <1>0, <2>1, <2>2, UpdatesSolvent
  <2>4. updated \in UserType /\ updated.deleted = user.deleted
    <3>1. after \in -MaxQuota..MaxQuota
      BY <1>0, <1>2, MaxQuotaAssumption DEF CanMoveWallet, checkedBalanceLedgerSum,
           checkedSettlementBalanceLedgerSum, UserType, after
    <3> QED
      BY <1>0, <3>1, UserUpdatesFact
  <2>5. UserAfter(delta, allowNegative)
          = IF user.deleted THEN [updated EXCEPT !.status = user.status] ELSE updated
    BY <1>2 DEF UserAfter, after
  <2> HIDE DEF updated
  <2>6. CASE user.deleted
    <3> DEFINE v == [updated EXCEPT !.status = user.status]
    <3>1. /\ v.status = user.status /\ v.deleted = updated.deleted
          /\ v.quota = updated.quota /\ v.debtSuspended = updated.debtSuspended
      BY <2>4 DEF UserType
    <3> HIDE DEF v
    <3>2. Solvent(v) /\ (Banned(user) => Banned(v))
      BY <2>3, <2>4, <2>6, <3>1 DEF Solvent, Banned
    <3> QED
      BY <2>5, <2>6, <3>2 DEF v
  <2> QED
    BY <2>3, <2>5, <2>6
<1> QED
  BY <1>1, <1>2

\* And so every transaction.
LEMMA TxSolvent ==
  ASSUME TypeOK, Solvent(user), NEW o \in Ops, Tx(o)
  PROVE  Solvent(user') /\ (Banned(user) => Banned(user'))
<1>1. row[o] \in RowType /\ intent[o] \in IntentType /\ user \in UserType
  BY DEF TypeOK, DBTypeOK
<1>2. /\ row[o].reserved \in Int /\ intent[o].actual \in Int
      /\ row[o].reserved - intent[o].actual \in Int
  BY <1>1, MaxQuotaAssumption DEF RowType, IntentType, Quota
<1>3. CASE user' = user
  BY <1>3
<1>4. ASSUME NEW key \in {"release", "upstream-rejected", "no-charge"}, CanReturn(o, key),
             ReturnReservation(o, key)
      PROVE  Solvent(user') /\ (Banned(user) => Banned(user'))
  <2>1. key \in LedgerKeys /\ CanMoveWallet(o, key, row[o].reserved, FALSE)
        /\ user' = UserAfter(row[o].reserved, FALSE)
    BY <1>4 DEF LedgerKeys, CanReturn, ReturnReservation
  <2> QED
    BY <1>2, <2>1, MovementSolvent
<1>5. ASSUME NEW amount \in Amounts, CanBeginSettlement(o, amount),
             BeginZTAPIRequestSettlement(o, amount)
      PROVE  Solvent(user') /\ (Banned(user) => Banned(user'))
  <2>1. "begin" \in LedgerKeys /\ CanMoveWallet(o, "begin", -amount, FALSE)
        /\ user' = UserAfter(-amount, FALSE)
    BY <1>5 DEF LedgerKeys, CanBeginSettlement, BeginZTAPIRequestSettlement
  <2>2. -amount \in Int
    BY SettlementAssumption
  <2> QED
    BY <2>1, <2>2, MovementSolvent
<1>6. ASSUME CanFinalize(o), finalizeZTAPIRequestSettlement(o)
      PROVE  Solvent(user') /\ (Banned(user) => Banned(user'))
  <2>1. CASE row[o].status = "settled"
    BY <1>3, <1>6, <2>1 DEF finalizeZTAPIRequestSettlement, db
  <2>2. CASE row[o].status # "settled"
    <3> DEFINE delta == row[o].reserved - intent[o].actual
               u == UserAfter(delta, TRUE)
    <3>1. "settle" \in LedgerKeys /\ CanMoveWallet(o, "settle", delta, TRUE)
      BY <1>6, <2>2 DEF LedgerKeys, CanFinalize
    <3>2. user' = [u EXCEPT !.used = u.used + intent[o].actual]
      BY <1>6, <2>2 DEF finalizeZTAPIRequestSettlement
    <3>3. delta \in Int
      BY <1>2
    <3> HIDE DEF delta
    <3>4. Solvent(u) /\ (Banned(user) => Banned(u)) /\ u \in UserType
      BY <1>1, <3>1, <3>3, MovementSolvent, UserAfterFact
    <3> HIDE DEF u
    <3>5. /\ user'.status = u.status /\ user'.deleted = u.deleted
          /\ user'.quota = u.quota /\ user'.debtSuspended = u.debtSuspended
      BY <3>2, <3>4 DEF UserType
    <3> QED
      BY <3>4, <3>5 DEF Solvent, Banned
  <2> QED
    BY <2>1, <2>2
<1>7. CASE CanRelease(o) /\ ReleaseZTAPIRequestSettlement(o)
  BY <1>3, <1>4, <1>7 DEF CanRelease, ReleaseZTAPIRequestSettlement, db
<1>8. CASE CanReleaseRejected(o) /\ ReleaseZTAPIDispatchedRejectedSettlement(o)
  BY <1>3, <1>4, <1>8 DEF CanReleaseRejected, ReleaseZTAPIDispatchedRejectedSettlement, db
<1>9. CASE CanResolve(o) /\ ReturnReservation(o, "no-charge")
  BY <1>4, <1>9 DEF CanResolve
<1> QED
  BY <1>3, <1>5, <1>6, <1>7, <1>8, <1>9
  DEF Tx, BeginZTAPIRequestAttempt, RecordZTAPIRequestAttemptResponse,
      MarkZTAPIRequestSafetyOutcome, PendZTAPIRequestSettlement,
      saveZTAPISettlementFinalizationIntent

\* An administrator's change counts, and enables nobody who is in debt.
LEMMA AdminSolvent ==
  ASSUME TypeOK, Solvent(user), Admin
  PROVE  Solvent(user') /\ adjusted'.count > adjusted.count
<1>0. /\ user \in UserType /\ user.quota \in Int
      /\ adjusted \in [count : Nat, total : Int] /\ adjusted.count \in Nat
  BY MaxQuotaAssumption DEF TypeOK, DBTypeOK, SessionTypeOK, UserType
<1>1. ASSUME NEW delta \in Int, AdjustUserBalance(delta)
      PROVE  Solvent(user') /\ adjusted'.count > adjusted.count
  <2>0. adjusted' = [count |-> adjusted.count + 1, total |-> adjusted.total + delta]
    BY <1>1 DEF AdjustUserBalance
  <2>1. /\ user' = balanceLedgerUserUpdates(user, user.quota + delta, FALSE)
        /\ delta # 0 /\ checkedBalanceLedgerSum(user.quota, delta)
    BY <1>1 DEF AdjustUserBalance
  <2> DEFINE after == user.quota + delta
  <2>2. after >= 0 \/ ~(user.status = "enabled" /\ ~user.deleted)
    BY <1>0, <2>1 DEF checkedBalanceLedgerSum, Solvent
  <2>3. after \in Int /\ user' = balanceLedgerUserUpdates(user, after, FALSE)
    BY <1>0, <2>1
  <2> HIDE DEF after
  <2>4. Solvent(user')
    BY <1>0, <2>2, <2>3, UpdatesSolvent
  <2>5. adjusted'.count > adjusted.count
    BY <1>0, <2>0
  <2> QED
    BY <2>4, <2>5
<1>2. ASSUME NEW next \in {"enabled", "disabled"}, UpdateZTAPIUserStatus(next)
      PROVE  Solvent(user') /\ adjusted'.count > adjusted.count
  <2>1. /\ user' = [user EXCEPT !.status = next, !.debtSuspended = FALSE]
        /\ next = "enabled" => user.quota >= 0
        /\ adjusted' = [adjusted EXCEPT !.count = adjusted.count + 1]
    BY <1>2 DEF UpdateZTAPIUserStatus
  <2>2. user'.status = next /\ ~user'.debtSuspended /\ user'.quota = user.quota
    BY <1>0, <2>1 DEF UserType
  <2> QED
    BY <1>0, <2>1, <2>2 DEF Solvent
<1>3. CASE DeleteUser
  <2>1. /\ user' = [user EXCEPT !.deleted = TRUE]
        /\ adjusted' = [adjusted EXCEPT !.count = adjusted.count + 1]
    BY <1>3 DEF DeleteUser
  <2>2. user'.deleted /\ user'.debtSuspended = user.debtSuspended /\ user'.quota = user.quota
    BY <1>0, <2>1 DEF UserType
  <2> QED
    BY <1>0, <2>1, <2>2 DEF Solvent
<1>4. \A amount \in Amounts : amount \in Int /\ -amount \in Int
  BY SettlementAssumption
<1> QED
  BY <1>1, <1>2, <1>3, <1>4 DEF Admin

\* The user row changes in a transaction of a request or by an administrator.
LEMMA UserCases ==
  ASSUME TypeOK, [Next]_vars
  PROVE  (\E o \in Ops : Tx(o)) \/ Admin \/ user' = user
BY HandlerIsTx, WorkerIsTx DEF Next, db, vars

\* Every step keeps the user solvent.
LEMMA SolventStep ==
  ASSUME TypeOK, Solvent(user), [Next]_vars
  PROVE  Solvent(user')
BY UserCases, TxSolvent, AdminSolvent

(***************************************************************************)
(* A user in debt is suspended and a suspension for debt ends with it, also *)
(* when settlements, returns and an administrator's edits interleave.      *)
(***************************************************************************)
THEOREM DebtIsSuspended == Spec => []DebtSuspends
<1>1. Init => Solvent(user)
  BY SettlementAssumption DEF Init, Solvent
<1>2. TypeOK /\ Solvent(user) /\ [Next]_vars => TypeOK' /\ Solvent(user)'
  BY TypeStep, SolventStep
<1>3. Solvent(user) => DebtSuspends
  BY DEF Solvent, DebtSuspends
<1> QED
  BY <1>1, <1>2, <1>3, TypeInit, PTL DEF Spec

(***************************************************************************)
(* No credit, return or settlement enables a user whom an administrator    *)
(* disabled.                                                               *)
(***************************************************************************)
THEOREM AdminDisableKept == Spec => AdminDisableSticks
<1> DEFINE Sticks ==
             user.status = "disabled" /\ ~user.debtSuspended /\ user'.status = "enabled"
               => adjusted'.count > adjusted.count
<1>1. TypeOK /\ Solvent(user) /\ [Next]_vars => [Sticks]_vars
  <2>1. SUFFICES ASSUME TypeOK, Solvent(user), [Next]_vars,
                        user.status = "disabled", ~user.debtSuspended,
                        user'.status = "enabled"
                 PROVE  adjusted'.count > adjusted.count
    OBVIOUS
  <2>2. Banned(user) /\ ~Banned(user')
    BY <2>1 DEF Banned
  <2> QED
    BY <2>1, <2>2, UserCases, TxSolvent, AdminSolvent
<1>2. Init => Solvent(user)
  BY SettlementAssumption DEF Init, Solvent
<1>3. TypeOK /\ Solvent(user) /\ [Next]_vars => TypeOK' /\ Solvent(user)'
  BY TypeStep, SolventStep
<1> QED
  BY <1>1, <1>2, <1>3, TypeInit, PTL DEF Spec, AdminDisableSticks
-------------------------------------------------------------------------------
(***************************************************************************)
(* Money.  MoneyConserved sums over the requests; a transaction changes    *)
(* one term of each sum, by what it moves in the wallet or the key.  What  *)
(* a row must have for that: nothing is charged before it is settled, and  *)
(* the key never holds or pays more than the wallet, nothing if unlimited. *)
(***************************************************************************)
MoneyRow(r) ==
  /\ r.status # "settled" => r.charged = 0
  /\ r.status \in Held =>
       /\ r.tokenReserved <= r.reserved
       /\ TokenUnlimited => r.tokenReserved = 0
  /\ r.status = "settled" => r.tokenCharged <= r.charged

MoneyShape == \A o \in Ops : MoneyRow(row[o])

\* What a transaction of o moves is what its row gains or loses.
MoneyMoves(o) ==
  /\ MoneyRow(row'[o])
  /\ user'.quota + Owed(row'[o]) = user.quota + Owed(row[o])
  /\ user'.used - row'[o].charged = user.used - row[o].charged
  /\ token'.used - TokenOwed(row'[o]) = token.used - TokenOwed(row[o])

\* What the key's row says it has paid.
LEMMA TokenOwedFact ==
  ASSUME NEW r \in RowType, MoneyRow(r)
  PROVE  /\ r.status \in Held => TokenOwed(r) = r.tokenReserved
         /\ r.status = "settled" => TokenOwed(r) = r.tokenCharged
         /\ r.status \in {"absent", "released"} => TokenOwed(r) = 0 /\ Owed(r) = 0
         /\ TokenOwed(r) \in Int /\ Owed(r) \in Int /\ TokenOwed(r) <= Owed(r)
<1>1. /\ r.status \in RowStatuses
      /\ r.reserved \in Int /\ r.charged \in Int
      /\ r.tokenReserved \in Int /\ r.tokenCharged \in Int
  BY MaxQuotaAssumption DEF RowType, Quota
<1>2. CASE r.status \in Held
  BY <1>1, <1>2 DEF TokenOwed, Owed, MoneyRow, Held
<1>3. CASE r.status = "settled"
  BY <1>1, <1>3 DEF TokenOwed, Owed, MoneyRow, Held
<1>4. CASE r.status \in {"absent", "released"}
  BY <1>1, <1>4 DEF TokenOwed, Owed, MoneyRow, Held
<1> QED
  BY <1>1, <1>2, <1>3, <1>4 DEF RowStatuses, Held

\* The key's use moves by the opposite of its remainder.
LEMMA TokenUsedFact ==
  ASSUME token \in TokenType, NEW delta \in Int, CanMoveToken(delta)
  PROVE  TokenAfter(delta).used = token.used - delta /\ token.used \in Int
<1>1. token.remain \in Int /\ token.used \in Int
  BY MaxQuotaAssumption DEF TokenType, Quota
<1> DEFINE status == IF delta = 0 THEN token.status
                     ELSE IF token.remain + delta = 0 THEN "exhausted"
                     ELSE "enabled"
<1>2. TokenAfter(delta) = [token EXCEPT !.remain = token.remain + delta,
                                       !.used = token.used - delta,
                                       !.status = status]
  BY DEF TokenAfter
<1> HIDE DEF status
<1>3. TokenAfter(delta) = [remain |-> token.remain + delta,
                           used |-> token.used - delta, status |-> status]
  BY <1>2 DEF TokenType
<1> QED
  BY <1>1, <1>3

\* A transaction that moves nothing, and keeps what the row has paid.
LEMMA StillMoney ==
  ASSUME TypeOK, MoneyShape, NEW o \in Ops, UNCHANGED <<user, token>>,
         row'[o].reserved = row[o].reserved, row'[o].charged = row[o].charged,
         row'[o].tokenReserved = row[o].tokenReserved,
         row'[o].tokenCharged = row[o].tokenCharged,
         \/ row'[o].status = row[o].status
         \/ row[o].status \in Held /\ row'[o].status \in Held
  PROVE  MoneyMoves(o)
<1>1. MoneyRow(row[o])
  BY DEF MoneyShape
<1>2. /\ MoneyRow(row'[o]) /\ Owed(row'[o]) = Owed(row[o])
      /\ TokenOwed(row'[o]) = TokenOwed(row[o])
  BY <1>1 DEF MoneyRow, Owed, TokenOwed, Held
<1> QED
  BY <1>2 DEF MoneyMoves

\* A reservation takes from wallet and key what its row holds.
LEMMA BeginMoney ==
  ASSUME TypeOK, MoneyShape, NEW o \in Ops, NEW amount \in Amounts,
         CanBeginSettlement(o, amount), BeginZTAPIRequestSettlement(o, amount)
  PROVE  MoneyMoves(o)
<1> DEFINE taken == TokenDelta(-amount, FALSE)
           new == NewRow("reserved", amount, -taken)
<1>1. /\ user \in UserType /\ token \in TokenType /\ row \in [Ops -> RowType]
      /\ row[o].status = "absent" /\ MoneyRow(row[o])
  BY DEF TypeOK, DBTypeOK, CanBeginSettlement, MoneyShape
<1>2. amount \in Nat /\ -amount \in Int /\ user.quota \in Int /\ user.used \in Int
  BY <1>1, SettlementAssumption, MaxQuotaAssumption DEF UserType
<1>3. /\ UserAfter(-amount, FALSE).quota = user.quota + (-amount)
      /\ UserAfter(-amount, FALSE).used = user.used
  <2>1. CanMoveWallet(o, "begin", -amount, FALSE) /\ "begin" \in LedgerKeys
    BY DEF CanBeginSettlement, LedgerKeys
  <2> QED
    BY <1>1, <1>2, <2>1, UserAfterFact
<1>4. /\ taken \in {0, -amount} /\ taken \in Int
      /\ TokenUnlimited => taken = 0
  BY <1>1, <1>2, TokenDeltaFact DEF TokenDelta
<1>5. CanMoveToken(taken)
  BY DEF CanBeginSettlement
<1>6. /\ user' = UserAfter(-amount, FALSE) /\ token' = TokenAfter(taken)
      /\ row' = [row EXCEPT ![o] = new]
  BY DEF BeginZTAPIRequestSettlement
<1>7. row'[o] = new
  BY <1>1, <1>6
<1>8. /\ new.status = "reserved" /\ new.reserved = amount /\ new.tokenReserved = -taken
      /\ new.charged = 0 /\ row[o].charged = 0
  BY <1>1 DEF NewRow, MoneyRow
<1> HIDE DEF taken, new
<1>9. token'.used = token.used - taken /\ token.used \in Int
  BY <1>1, <1>4, <1>5, <1>6, TokenUsedFact
<1>10. MoneyRow(new)
  BY <1>2, <1>4, <1>8 DEF MoneyRow, Held
<1>11. Owed(new) = amount /\ TokenOwed(new) = -taken
  BY <1>8 DEF Owed, TokenOwed, Held
<1>12. Owed(row[o]) = 0 /\ TokenOwed(row[o]) = 0
  BY <1>1 DEF Owed, TokenOwed, Held
<1>13. user'.quota = user.quota + (-amount) /\ user'.used = user.used
  BY <1>3, <1>6
<1>14. user'.quota + amount = user.quota + 0 /\ user'.used - 0 = user.used - 0
  BY <1>2, <1>13
<1>15. token'.used - (-taken) = token.used - 0
  BY <1>4, <1>9
<1> QED
  BY <1>7, <1>8, <1>10, <1>11, <1>12, <1>14, <1>15 DEF MoneyMoves

\* A return gives both back.
LEMMA ReturnMoney ==
  ASSUME TypeOK, MoneyShape, NEW o \in Ops, NEW key \in LedgerKeys,
         CanReturn(o, key), ReturnReservation(o, key), row[o].status \in Held,
         row'[o].status = "released", row'[o].charged = row[o].charged
  PROVE  MoneyMoves(o)
<1>1. /\ user \in UserType /\ token \in TokenType /\ row[o] \in RowType /\ MoneyRow(row[o])
      /\ DBTypeOK
  BY DEF TypeOK, DBTypeOK, MoneyShape
<1>2. /\ row[o].reserved \in Int /\ row[o].tokenReserved \in Int
      /\ user.quota \in Int /\ user.used \in Int
  BY <1>1, MaxQuotaAssumption DEF RowType, Quota, UserType
<1>3. user'.quota = user.quota + row[o].reserved /\ user'.used = user.used
  BY <1>1, ReturnType
<1> DEFINE moved == TokenDelta(row[o].tokenReserved, FALSE)
<1>4. moved = row[o].tokenReserved
  BY <1>1 DEF TokenDelta, MoneyRow
<1>5. CanMoveToken(moved) /\ token' = TokenAfter(moved)
  BY DEF CanReturn, ReturnReservation
<1> HIDE DEF moved
<1>6. token'.used = token.used - row[o].tokenReserved /\ token.used \in Int
  BY <1>1, <1>2, <1>4, <1>5, TokenUsedFact
<1>7. MoneyRow(row'[o])
  BY <1>1 DEF MoneyRow, Held
<1>8. /\ Owed(row[o]) = row[o].reserved /\ TokenOwed(row[o]) = row[o].tokenReserved
      /\ Owed(row'[o]) = 0 /\ TokenOwed(row'[o]) = 0
  BY DEF Owed, TokenOwed, Held
<1> QED
  BY <1>2, <1>3, <1>6, <1>7, <1>8 DEF MoneyMoves

\* A settlement corrects both to what is charged; the key pays at most that.
LEMMA FinalizeMoney ==
  ASSUME TypeOK, MoneyShape, NEW o \in Ops, row[o].status # "settled",
         CanFinalize(o), finalizeZTAPIRequestSettlement(o)
  PROVE  MoneyMoves(o)
<1> DEFINE actual == intent[o].actual
           r == row[o]
           delta == r.reserved - actual
           rest == r.tokenReserved - actual
           moved == TokenDelta(rest, TRUE)
<1>1. /\ user \in UserType /\ token \in TokenType /\ r \in RowType
      /\ row \in [Ops -> RowType] /\ intent[o] \in IntentType /\ MoneyRow(r)
  BY DEF TypeOK, DBTypeOK, MoneyShape
<1>2. /\ actual \in Nat /\ r.reserved \in Nat /\ r.tokenReserved \in Nat
      /\ delta \in Int /\ rest \in Int
      /\ user.quota \in Int /\ user.used \in Int
  BY <1>1, MaxQuotaAssumption DEF RowType, IntentType, Quota, UserType
<1>3. /\ CanMoveWallet(o, "settle", delta, TRUE) /\ CanMoveToken(moved)
      /\ r.status \in Held /\ "settle" \in LedgerKeys
  BY DEF CanFinalize, Retryable, Held, LedgerKeys
<1>4. /\ user' = [UserAfter(delta, TRUE) EXCEPT !.used = @ + actual]
      /\ token' = TokenAfter(moved)
      /\ row' = [row EXCEPT ![o].status = "settled", ![o].charged = actual,
                            ![o].tokenCharged = r.tokenReserved - moved,
                            ![o].usage = "known", ![o].missing = "none",
                            ![o].finalAttempt = intent[o].attempt]
  BY DEF finalizeZTAPIRequestSettlement, TokenCharged
<1>5. /\ moved \in Int
      /\ rest >= 0 /\ ~TokenUnlimited => moved = rest
      /\ rest < 0 => moved \in rest..0
      /\ TokenUnlimited => moved = 0
  <2> HIDE DEF rest
  <2>1. moved \in Int /\ (rest < 0 => moved \in rest..0)
    BY <1>1, <1>2, TokenDeltaFact
  <2>2. moved = IF TokenUnlimited THEN 0
                ELSE IF rest < 0 /\ -rest > token.remain THEN -token.remain
                ELSE rest
    BY DEF TokenDelta
  <2> HIDE DEF moved
  <2>3. rest >= 0 /\ ~TokenUnlimited => moved = rest
    BY <1>2, <2>2
  <2>4. TokenUnlimited => moved = 0
    BY <2>2
  <2> QED
    BY <2>1, <2>3, <2>4
<1>6. /\ row'[o].status = "settled" /\ row'[o].charged = actual
      /\ row'[o].tokenCharged = r.tokenReserved - moved
  BY <1>1, <1>4 DEF RowType
<1> HIDE DEF moved
<1>7. /\ UserAfter(delta, TRUE) \in UserType
      /\ UserAfter(delta, TRUE).quota = user.quota + delta
      /\ UserAfter(delta, TRUE).used = user.used
  BY <1>1, <1>2, <1>3, UserAfterFact
<1>8. user'.quota = user.quota + delta /\ user'.used = user.used + actual
  <2> DEFINE u == UserAfter(delta, TRUE)
  <2>1. u \in UserType /\ u.quota = user.quota + delta /\ u.used = user.used
    BY <1>7
  <2>2. user' = [u EXCEPT !.used = u.used + actual]
    BY <1>4
  <2> HIDE DEF u
  <2> QED
    BY <2>1, <2>2 DEF UserType
<1>9. token'.used = token.used - moved /\ token.used \in Int
  BY <1>1, <1>3, <1>4, <1>5, TokenUsedFact
<1>10. /\ r.charged = 0
       /\ TokenUnlimited => r.tokenReserved = 0
  BY <1>1, <1>3 DEF MoneyRow
<1>11. r.tokenReserved - moved <= actual
  BY <1>2, <1>5, <1>10, SettlementAssumption
<1>12. MoneyRow(row'[o])
  BY <1>6, <1>11 DEF MoneyRow, Held
<1>13. /\ Owed(r) = r.reserved /\ TokenOwed(r) = r.tokenReserved
       /\ Owed(row'[o]) = actual /\ TokenOwed(row'[o]) = r.tokenReserved - moved
  BY <1>3, <1>6 DEF Owed, TokenOwed, Held
<1>14. /\ user'.quota + actual = user.quota + r.reserved
       /\ user'.used - actual = user.used - 0
       /\ token'.used - (r.tokenReserved - moved) = token.used - r.tokenReserved
  BY <1>2, <1>5, <1>8, <1>9
<1> QED
  BY <1>6, <1>10, <1>12, <1>13, <1>14 DEF MoneyMoves

\* Every transaction moves what its row says.
LEMMA TxMoney ==
  ASSUME TypeOK, MoneyShape, NEW o \in Ops, Tx(o)
  PROVE  MoneyMoves(o)
<1>1. /\ row \in [Ops -> RowType] /\ row[o] \in RowType
  BY DEF TypeOK, DBTypeOK
<1>2. ASSUME UNCHANGED <<user, token, row>> PROVE MoneyMoves(o)
  BY <1>2, StillMoney
<1>3. ASSUME NEW ch \in Channels, CanBeginAttempt(o, ch), BeginZTAPIRequestAttempt(o, ch)
      PROVE  MoneyMoves(o)
  <2>1. UNCHANGED <<user, token>> /\ row' = [row EXCEPT ![o].dispatched = TRUE]
    BY <1>3 DEF BeginZTAPIRequestAttempt
  <2>2. /\ row'[o].status = row[o].status /\ row'[o].reserved = row[o].reserved
        /\ row'[o].charged = row[o].charged
        /\ row'[o].tokenReserved = row[o].tokenReserved
        /\ row'[o].tokenCharged = row[o].tokenCharged
    BY <1>1, <2>1 DEF RowType
  <2> QED
    BY <2>1, <2>2, StillMoney
<1>4. ASSUME NEW usage, NEW missing, CanPend(o, usage, missing),
             PendZTAPIRequestSettlement(o, usage, missing)
      PROVE  MoneyMoves(o)
  <2> DEFINE e == PendingEvidence(o, usage, missing)
  <2>1. /\ UNCHANGED <<user, token>>
        /\ row' = [row EXCEPT ![o].status = "pending", ![o].usage = e.usage,
                              ![o].missing = e.missing]
    BY <1>4 DEF PendZTAPIRequestSettlement
  <2> HIDE DEF e
  <2>2. /\ row'[o].status = "pending" /\ row'[o].reserved = row[o].reserved
        /\ row'[o].charged = row[o].charged
        /\ row'[o].tokenReserved = row[o].tokenReserved
        /\ row'[o].tokenCharged = row[o].tokenCharged
    BY <1>1, <2>1 DEF RowType
  <2>3. row[o].status \in Held
    BY <1>4 DEF CanPend, Held
  <2> QED
    BY <2>1, <2>2, <2>3, StillMoney DEF Held
<1>5. ASSUME NEW key \in LedgerKeys, CanReturn(o, key), ReturnReservation(o, key),
             row[o].status \in Held, row' = [row EXCEPT ![o].status = "released"]
      PROVE  MoneyMoves(o)
  <2>1. row'[o].status = "released" /\ row'[o].charged = row[o].charged
    BY <1>1, <1>5 DEF RowType
  <2> QED
    BY <1>5, <2>1, ReturnMoney
<1>6. CASE CanRelease(o) /\ ReleaseZTAPIRequestSettlement(o)
  <2>1. CASE row[o].status = "released"
    BY <1>2, <1>6, <2>1 DEF ReleaseZTAPIRequestSettlement, db
  <2>2. CASE row[o].status # "released"
    BY <1>5, <1>6, <2>2 DEF CanRelease, ReleaseZTAPIRequestSettlement, LedgerKeys, Held
  <2> QED
    BY <2>1, <2>2
<1>7. CASE CanReleaseRejected(o) /\ ReleaseZTAPIDispatchedRejectedSettlement(o)
  <2>1. CASE row[o].status = "released"
    BY <1>2, <1>7, <2>1 DEF ReleaseZTAPIDispatchedRejectedSettlement, db
  <2>2. CASE row[o].status # "released"
    <3> DEFINE n == Len(attempts[o])
    <3>1. /\ CanReturn(o, "upstream-rejected") /\ ReturnReservation(o, "upstream-rejected")
          /\ row[o].status \in Held
          /\ row' = [row EXCEPT ![o].status = "released", ![o].missing = "none",
                                ![o].finalAttempt = n]
      BY <1>7, <2>2 DEF CanReleaseRejected, ReleaseZTAPIDispatchedRejectedSettlement
    <3> HIDE DEF n
    <3>2. row'[o].status = "released" /\ row'[o].charged = row[o].charged
      BY <1>1, <3>1 DEF RowType
    <3>3. "upstream-rejected" \in LedgerKeys
      BY DEF LedgerKeys
    <3> QED
      BY <3>1, <3>2, <3>3, ReturnMoney
  <2> QED
    BY <2>1, <2>2
<1>8. CASE CanFinalize(o) /\ finalizeZTAPIRequestSettlement(o)
  <2>1. CASE row[o].status = "settled"
    BY <1>2, <1>8, <2>1 DEF finalizeZTAPIRequestSettlement, db
  <2> QED
    BY <1>8, <2>1, FinalizeMoney
<1>9. CASE /\ CanResolve(o) /\ ReturnReservation(o, "no-charge")
           /\ row' = [row EXCEPT ![o].status = "released"]
  BY <1>5, <1>9 DEF CanResolve, LedgerKeys, Held
<1> QED
  BY <1>2, <1>3, <1>4, <1>6, <1>7, <1>8, <1>9, BeginMoney
  DEF Tx, RecordZTAPIRequestAttemptResponse, MarkZTAPIRequestSafetyOutcome,
      saveZTAPISettlementFinalizationIntent

\* A handler's step edits no user.
LEMMA HandlerEditsNothing ==
  ASSUME NEW o \in Ops, Handler(o)
  PROVE  adjusted' = adjusted
BY DEF Handler, Begin, BeginAttempt, GiveUp, TransportError, Respond, UsageIncomplete,
       SaveIntent, Finalize, ParkRow, RefundNothing, RefundUndispatched, RefundSafety,
       RefundDispatched, RefundPend, Crash

\* An edit moves the wallet by what it adds to the adjustments.
LEMMA AdminMoney ==
  ASSUME TypeOK, Admin
  PROVE  /\ user'.quota - adjusted'.total = user.quota - adjusted.total
         /\ user'.used = user.used
<1>0. /\ user \in UserType /\ user.quota \in Int
      /\ adjusted \in [count : Nat, total : Int] /\ adjusted.total \in Int
  BY MaxQuotaAssumption DEF TypeOK, DBTypeOK, SessionTypeOK, UserType
<1>1. ASSUME NEW delta \in Int, AdjustUserBalance(delta)
      PROVE  /\ user'.quota - adjusted'.total = user.quota - adjusted.total
             /\ user'.used = user.used
  <2> DEFINE after == user.quota + delta
  <2>1. /\ user' = balanceLedgerUserUpdates(user, after, FALSE)
        /\ checkedBalanceLedgerSum(user.quota, delta)
        /\ adjusted' = [count |-> adjusted.count + 1, total |-> adjusted.total + delta]
    BY <1>1 DEF AdjustUserBalance
  <2>2. after \in -MaxQuota..MaxQuota
    BY <1>0, <2>1, MaxQuotaAssumption DEF checkedBalanceLedgerSum, UserType
  <2> HIDE DEF after
  <2>3. user'.quota = after /\ user'.used = user.used
    BY <1>0, <2>1, <2>2, UserUpdatesFact
  <2>4. adjusted'.total = adjusted.total + delta
    BY <2>1
  <2> QED
    BY <1>0, <2>3, <2>4 DEF after
<1>2. ASSUME NEW next, UpdateZTAPIUserStatus(next)
      PROVE  /\ user'.quota = user.quota /\ user'.used = user.used
             /\ adjusted'.total = adjusted.total
  BY <1>0, <1>2 DEF UpdateZTAPIUserStatus, UserType
<1>3. ASSUME DeleteUser
      PROVE  /\ user'.quota = user.quota /\ user'.used = user.used
             /\ adjusted'.total = adjusted.total
  BY <1>0, <1>3 DEF DeleteUser, UserType
<1>4. \A amount \in Amounts : amount \in Int /\ -amount \in Int
  BY SettlementAssumption
<1> QED
  BY <1>1, <1>2, <1>3, <1>4 DEF Admin

\* The terms of the three sums.
OwedOf == [o \in Ops |-> Owed(row[o])]
ChargedOf == [o \in Ops |-> row[o].charged]
TokenOwedOf == [o \in Ops |-> TokenOwed(row[o])]

\* The balances are those sums.
MoneySums ==
  /\ user.quota = InitialQuota + adjusted.total - SumFunctionOnSet(OwedOf, Ops)
  /\ user.used = SumFunctionOnSet(ChargedOf, Ops)
  /\ token.used = SumFunctionOnSet(TokenOwedOf, Ops)

\* What the property says with sums over the domains of those functions.
LEMMA MoneySumsMean ==
  /\ WalletConservation <=> /\ user.quota = InitialQuota + adjusted.total
                                              - SumFunctionOnSet(OwedOf, Ops)
                            /\ user.used = SumFunctionOnSet(ChargedOf, Ops)
  /\ TokenAccounting <=> /\ token.used = SumFunctionOnSet(TokenOwedOf, Ops)
                         /\ \A o \in Ops : TokenOwed(row[o]) <= Owed(row[o])
<1>1. DOMAIN OwedOf = Ops /\ DOMAIN ChargedOf = Ops /\ DOMAIN TokenOwedOf = Ops
  BY DEF OwedOf, ChargedOf, TokenOwedOf
<1>2. /\ SumFunction(OwedOf) = SumFunctionOnSet(OwedOf, Ops)
      /\ SumFunction(ChargedOf) = SumFunctionOnSet(ChargedOf, Ops)
      /\ SumFunction(TokenOwedOf) = SumFunctionOnSet(TokenOwedOf, Ops)
  BY <1>1, Zenon DEF SumFunction, FoldFunction, SumFunctionOnSet
<1>3. WalletConservation <=> /\ user.quota = InitialQuota + adjusted.total
                                               - SumFunction(OwedOf)
                             /\ user.used = SumFunction(ChargedOf)
  BY Zenon DEF WalletConservation, OwedOf, ChargedOf
<1>4. TokenAccounting <=> /\ token.used = SumFunction(TokenOwedOf)
                          /\ \A o \in Ops : TokenOwed(row[o]) <= Owed(row[o])
  BY Zenon DEF TokenAccounting, TokenOwedOf
<1> QED
  BY <1>2, <1>3, <1>4

\* Each term of the sums is a number.
LEMMA TermsAreNumbers ==
  ASSUME TypeOK, MoneyShape
  PROVE  \A o \in Ops : /\ OwedOf[o] \in Int /\ ChargedOf[o] \in Int /\ TokenOwedOf[o] \in Int
                        /\ OwedOf[o] = Owed(row[o]) /\ ChargedOf[o] = row[o].charged
                        /\ TokenOwedOf[o] = TokenOwed(row[o])
                        /\ TokenOwed(row[o]) <= Owed(row[o])
<1>1. SUFFICES ASSUME NEW o \in Ops
               PROVE  /\ Owed(row[o]) \in Int /\ row[o].charged \in Int
                      /\ TokenOwed(row[o]) \in Int
                      /\ TokenOwed(row[o]) <= Owed(row[o])
  BY DEF OwedOf, ChargedOf, TokenOwedOf
<1>2. row[o] \in RowType /\ MoneyRow(row[o])
  BY DEF TypeOK, DBTypeOK, MoneyShape
<1>3. row[o].charged \in Int
  BY <1>2, MaxQuotaAssumption DEF RowType, Quota
<1> QED
  BY <1>2, <1>3, TokenOwedFact

\* A transaction of o changes o's terms only.
LEMMA SumsMove ==
  ASSUME TypeOK, MoneyShape, TypeOK', MoneyShape', NEW o \in Ops,
         \A p \in Ops \ {o} : row'[p] = row[p]
  PROVE  /\ SumFunctionOnSet(OwedOf, Ops) \in Int
         /\ SumFunctionOnSet(OwedOf', Ops)
              = SumFunctionOnSet(OwedOf, Ops) + Owed(row'[o]) - Owed(row[o])
         /\ SumFunctionOnSet(ChargedOf, Ops) \in Int
         /\ SumFunctionOnSet(ChargedOf', Ops)
              = SumFunctionOnSet(ChargedOf, Ops) + row'[o].charged - row[o].charged
         /\ SumFunctionOnSet(TokenOwedOf, Ops) \in Int
         /\ SumFunctionOnSet(TokenOwedOf', Ops)
              = SumFunctionOnSet(TokenOwedOf, Ops) + TokenOwed(row'[o]) - TokenOwed(row[o])
<1> DEFINE w == OwedOf
           w1 == OwedOf'
           c == ChargedOf
           c1 == ChargedOf'
           t == TokenOwedOf
           t1 == TokenOwedOf'
<1>1. IsFiniteSet(Ops)
  BY SettlementAssumption
<1>2. \A p \in Ops : /\ w[p] \in Int /\ c[p] \in Int /\ t[p] \in Int
                     /\ w[p] = Owed(row[p]) /\ c[p] = row[p].charged
                     /\ t[p] = TokenOwed(row[p])
  BY TermsAreNumbers
<1>3. \A p \in Ops : /\ w1[p] \in Int /\ c1[p] \in Int /\ t1[p] \in Int
                     /\ w1[p] = Owed(row'[p]) /\ c1[p] = row'[p].charged
                     /\ t1[p] = TokenOwed(row'[p])
  <2>1. ASSUME NEW p \in Ops
        PROVE  /\ Owed(row'[p]) \in Int /\ row'[p].charged \in Int
               /\ TokenOwed(row'[p]) \in Int
    <3>1. row'[p] \in RowType /\ MoneyRow(row'[p])
      BY DEF TypeOK, DBTypeOK, MoneyShape
    <3>2. row'[p].charged \in Int
      BY <3>1, MaxQuotaAssumption DEF RowType, Quota
    <3> QED
      BY <3>1, <3>2, TokenOwedFact
  <2> QED
    BY <2>1 DEF OwedOf, ChargedOf, TokenOwedOf
<1>4. \A p \in Ops \ {o} : w1[p] = w[p] /\ c1[p] = c[p] /\ t1[p] = t[p]
  BY <1>2, <1>3
<1> HIDE DEF w, w1, c, c1, t, t1
<1>5. /\ SumFunctionOnSet(w, Ops) \in Int
      /\ SumFunctionOnSet(w1, Ops) = SumFunctionOnSet(w, Ops) + w1[o] - w[o]
  BY <1>1, <1>2, <1>3, <1>4, SumOfChanged
<1>6. /\ SumFunctionOnSet(c, Ops) \in Int
      /\ SumFunctionOnSet(c1, Ops) = SumFunctionOnSet(c, Ops) + c1[o] - c[o]
  BY <1>1, <1>2, <1>3, <1>4, SumOfChanged
<1>7. /\ SumFunctionOnSet(t, Ops) \in Int
      /\ SumFunctionOnSet(t1, Ops) = SumFunctionOnSet(t, Ops) + t1[o] - t[o]
  BY <1>1, <1>2, <1>3, <1>4, SumOfChanged
<1> QED
  BY <1>2, <1>3, <1>5, <1>6, <1>7 DEF w, w1, c, c1, t, t1

\* Every step keeps the rows in shape.
LEMMA MoneyShapeStep ==
  ASSUME TypeOK, MoneyShape, [Next]_vars
  PROVE  MoneyShape'
<1>1. ASSUME NEW o \in Ops, Tx(o), \A p \in Ops \ {o} : row'[p] = row[p]
      PROVE  MoneyShape'
  BY <1>1, TxMoney DEF MoneyShape, MoneyMoves
<1>2. ASSUME row' = row PROVE MoneyShape'
  BY <1>2 DEF MoneyShape
<1> QED
  BY <1>1, <1>2, StepIsLocal DEF Elsewhere, db

\* What a step of the requests, or of an administrator, is to the sums.
LEMMA MoneyCases ==
  ASSUME TypeOK, MoneyShape, [Next]_vars
  PROVE  \/ \E o \in Ops : /\ MoneyMoves(o) /\ adjusted' = adjusted
                           /\ \A p \in Ops \ {o} : row'[p] = row[p]
         \/ /\ user'.quota - adjusted'.total = user.quota - adjusted.total
            /\ user'.used = user.used /\ token' = token /\ row' = row
<1>1. ASSUME NEW o \in Ops, Tx(o) \/ UNCHANGED db
      PROVE  MoneyMoves(o) /\ \A p \in Ops \ {o} : row'[p] = row[p]
  <2>1. CASE Tx(o)
    BY <2>1, TxMoney, TxMoves DEF Moves, OthersSame
  <2>2. CASE UNCHANGED db
    <3>1. UNCHANGED <<user, token, row>>
      BY <2>2 DEF db
    <3> QED
      BY <3>1, StillMoney
  <2> QED
    BY <1>1, <2>1, <2>2
<1>2. ASSUME NEW o \in Ops, Handler(o)
      PROVE  /\ MoneyMoves(o) /\ adjusted' = adjusted
             /\ \A p \in Ops \ {o} : row'[p] = row[p]
  BY <1>1, <1>2, HandlerIsTx, HandlerEditsNothing
<1>3. ASSUME NEW o \in Ops, Worker(o) \/ Operator(o)
      PROVE  /\ MoneyMoves(o) /\ adjusted' = adjusted
             /\ \A p \in Ops \ {o} : row'[p] = row[p]
  BY <1>1, <1>3, WorkerIsTx
<1>4. CASE Admin
  BY <1>4, AdminMoney, AdminType
<1>5. CASE UNCHANGED vars
  BY <1>5 DEF vars
<1> QED
  BY <1>2, <1>3, <1>4, <1>5 DEF Next

\* Every step keeps the balances equal to the sums.
LEMMA MoneySumsStep ==
  ASSUME TypeOK, MoneyShape, MoneySums, [Next]_vars
  PROVE  MoneySums'
<1>0. TypeOK' /\ MoneyShape'
  BY TypeStep, MoneyShapeStep
<1>1. /\ InitialQuota \in Int
      /\ user.quota \in Int /\ user'.quota \in Int /\ user.used \in Int /\ user'.used \in Int
      /\ token.used \in Int /\ token'.used \in Int
      /\ adjusted.total \in Int /\ adjusted'.total \in Int
  BY <1>0, SettlementAssumption, MaxQuotaAssumption
  DEF TypeOK, DBTypeOK, SessionTypeOK, UserType, TokenType, Quota
<1>2. ASSUME NEW o \in Ops, MoneyMoves(o), adjusted' = adjusted,
             \A p \in Ops \ {o} : row'[p] = row[p]
      PROVE  MoneySums'
  <2> DEFINE w == SumFunctionOnSet(OwedOf, Ops)
             w1 == SumFunctionOnSet(OwedOf', Ops)
             c == SumFunctionOnSet(ChargedOf, Ops)
             c1 == SumFunctionOnSet(ChargedOf', Ops)
             t == SumFunctionOnSet(TokenOwedOf, Ops)
             t1 == SumFunctionOnSet(TokenOwedOf', Ops)
  <2>1. /\ w \in Int /\ w1 = w + Owed(row'[o]) - Owed(row[o])
        /\ c \in Int /\ c1 = c + row'[o].charged - row[o].charged
        /\ t \in Int /\ t1 = t + TokenOwed(row'[o]) - TokenOwed(row[o])
    BY <1>0, <1>2, SumsMove
  <2>2. /\ Owed(row[o]) \in Int /\ Owed(row'[o]) \in Int
        /\ TokenOwed(row[o]) \in Int /\ TokenOwed(row'[o]) \in Int
        /\ row[o].charged \in Int /\ row'[o].charged \in Int
    <3>1. row[o] \in RowType /\ row'[o] \in RowType /\ MoneyRow(row[o]) /\ MoneyRow(row'[o])
      BY <1>0 DEF TypeOK, DBTypeOK, MoneyShape
    <3>2. row[o].charged \in Int /\ row'[o].charged \in Int
      BY <3>1, MaxQuotaAssumption DEF RowType, Quota
    <3> QED
      BY <3>1, <3>2, TokenOwedFact
  <2>3. /\ user.quota = InitialQuota + adjusted.total - w
        /\ user.used = c /\ token.used = t
    BY DEF MoneySums
  <2>4. /\ user'.quota + Owed(row'[o]) = user.quota + Owed(row[o])
        /\ user'.used - row'[o].charged = user.used - row[o].charged
        /\ token'.used - TokenOwed(row'[o]) = token.used - TokenOwed(row[o])
    BY <1>2 DEF MoneyMoves
  <2> HIDE DEF w, w1, c, c1, t, t1
  <2>5. user'.quota = InitialQuota + adjusted'.total - w1
    BY <1>1, <1>2, <2>1, <2>2, <2>3, <2>4
  <2>6. user'.used = c1 /\ token'.used = t1
    BY <1>1, <2>1, <2>2, <2>3, <2>4
  <2> QED
    BY <2>5, <2>6 DEF MoneySums, w1, c1, t1
<1>3. ASSUME user'.quota - adjusted'.total = user.quota - adjusted.total,
             user'.used = user.used, token' = token, row' = row
      PROVE  MoneySums'
  <2>1. OwedOf' = OwedOf /\ ChargedOf' = ChargedOf /\ TokenOwedOf' = TokenOwedOf
    BY <1>3 DEF OwedOf, ChargedOf, TokenOwedOf
  <2> DEFINE w == SumFunctionOnSet(OwedOf, Ops)
  <2>2. w \in Int
    BY SettlementAssumption, TermsAreNumbers, SumType
  <2>3. user.quota = InitialQuota + adjusted.total - w
    BY DEF MoneySums
  <2> HIDE DEF w
  <2>4. user'.quota = InitialQuota + adjusted'.total - w
    BY <1>1, <1>3, <2>2, <2>3
  <2> QED
    BY <1>3, <2>1, <2>4 DEF MoneySums, w
<1> QED
  BY <1>2, <1>3, MoneyCases

\* At the start there is nothing to sum.
LEMMA MoneyInit == Init => MoneyShape /\ MoneySums
<1>1. SUFFICES ASSUME Init PROVE MoneyShape /\ MoneySums
  OBVIOUS
<1>2. \A o \in Ops : /\ row[o] = AbsentRow
                     /\ AbsentRow.status = "absent" /\ AbsentRow.charged = 0
  BY <1>1 DEF Init, AbsentRow, NewRow
<1>3. \A o \in Ops : OwedOf[o] = 0 /\ ChargedOf[o] = 0 /\ TokenOwedOf[o] = 0
  BY <1>2 DEF OwedOf, ChargedOf, TokenOwedOf, Owed, TokenOwed, Held
<1>4. /\ SumFunctionOnSet(OwedOf, Ops) = 0 /\ SumFunctionOnSet(ChargedOf, Ops) = 0
      /\ SumFunctionOnSet(TokenOwedOf, Ops) = 0
  BY <1>3, SettlementAssumption, SumOfZeros
<1>5. /\ user.quota = InitialQuota /\ user.used = 0 /\ token.used = 0
      /\ adjusted.total = 0
  BY <1>1 DEF Init
<1>6. MoneySums
  BY <1>4, <1>5, SettlementAssumption DEF MoneySums
<1>7. MoneyShape
  BY <1>2 DEF MoneyShape, MoneyRow, Held
<1> QED
  BY <1>6, <1>7

(***************************************************************************)
(* Nothing is lost or created between requests that share one wallet and   *)
(* one key: the wallet is the opening balance and the adjustments less     *)
(* what the requests hold or were charged, the lifetime usage is the sum   *)
(* of the charges, the key's use is what its requests hold or paid, never  *)
(* more than the wallet paid, and adds up to its limit with what remains.  *)
(***************************************************************************)
THEOREM MoneyIsConserved == Spec => []MoneyConserved
<1>1. Init => TypeOK /\ MoneyShape /\ MoneySums
  BY TypeInit, MoneyInit
<1>2. TypeOK /\ MoneyShape /\ MoneySums /\ [Next]_vars
        => TypeOK' /\ MoneyShape' /\ MoneySums'
  BY TypeStep, MoneyShapeStep, MoneySumsStep
<1>3. TypeOK /\ MoneyShape /\ MoneySums /\ TokenConservation => MoneyConserved
  BY MoneySumsMean, TermsAreNumbers DEF MoneySums, MoneyConserved
<1> QED
  BY <1>1, <1>2, <1>3, TokenConserved, PTL DEF Spec
-------------------------------------------------------------------------------
(***************************************************************************)
(* Holds that are left behind.  Without a fault a handler that is through  *)
(* with its request has returned, handed over or charged the reservation,  *)
(* provided the wallet has room for what it would return: a wallet that is *)
(* filled up to its limit by credits while it holds reservations refuses   *)
(* the return, and the row is left.                                        *)
(***************************************************************************)
\* What the wallet was given and has not spent fits its column.
Room == InitialQuota + adjusted.total - user.used <= MaxQuota

\* Nothing is charged to the key before the row is settled.
KeyUncharged == \A o \in Ops : row[o].status # "settled" => row[o].tokenCharged = 0

\* While no step has failed, a handler knows whether its request was
\* dispatched and whether its row is still reserved; a request that was not
\* dispatched has no evidence of any kind; and a handler that is done has left
\* no row reserved but to an intent.
InStep(o) ==
  /\ session[o].pc # "crashed"
  /\ session[o].pc = "idle" => row[o].status = "absent"
  /\ session[o].pc \in {"sent", "answered", "finalize", "park", "pend"} =>
       session[o].dispatched
  /\ row[o].dispatched <=> session[o].dispatched
  /\ row[o].status = "reserved" => session[o].status = "reserved"
  /\ row[o].status = "absent" => ~row[o].dispatched
  /\ ~row[o].dispatched => /\ row[o].status \in {"absent", "reserved", "released"}
                           /\ ~HasIntent(o)
                           /\ attempts[o] = <<>>
  /\ session[o].pc = "done" => row[o].status # "reserved" \/ HasIntent(o)

InStepUnlessFault == faults = 0 => \A o \in Ops : InStep(o)

\* The wallet and the key accept the return of any hold they have room for.
LEMMA HoldIsReturnable ==
  ASSUME TypeOK, LedgerShape, MoneyShape, MoneySums, TokenConservation, Room,
         NEW o \in Ops, row[o].status \in Held, NEW key \in LedgerKeys \ {"begin"}
  PROVE  CanReturn(o, key)
<1> DEFINE r == row[o]
           w == SumFunctionOnSet(OwedOf, Ops)
           c == SumFunctionOnSet(ChargedOf, Ops)
           t == SumFunctionOnSet(TokenOwedOf, Ops)
<1>1. /\ r \in RowType /\ MoneyRow(r) /\ Shape(r, ledger[o]) /\ r.status \in Held
      /\ r.reserved \in Nat /\ r.tokenReserved \in Nat
  BY MaxQuotaAssumption DEF TypeOK, DBTypeOK, MoneyShape, LedgerShape, RowType, Quota
<1>2. /\ user.quota \in -MaxQuota..MaxQuota /\ token \in TokenType
      /\ token.remain \in Nat /\ token.used \in Nat /\ MaxQuota \in Nat
      /\ InitialQuota \in Int /\ adjusted.total \in Int
      /\ InitialTokenQuota \in Nat /\ InitialTokenQuota <= MaxQuota
  BY MaxQuotaAssumption, SettlementAssumption
  DEF TypeOK, DBTypeOK, SessionTypeOK, UserType, TokenType, Quota
<1>3. ASSUME NEW p \in Ops
      PROVE  /\ OwedOf[p] \in Int /\ ChargedOf[p] \in Int
             /\ OwedOf[p] - ChargedOf[p] \in Nat /\ TokenOwedOf[p] \in Nat
  <2>1. row[p] \in RowType /\ MoneyRow(row[p])
    BY DEF TypeOK, DBTypeOK, MoneyShape
  <2>2. /\ row[p].reserved \in Nat /\ row[p].charged \in Nat
        /\ row[p].tokenReserved \in Nat /\ row[p].tokenCharged \in Nat
    BY <2>1, MaxQuotaAssumption DEF RowType, Quota
  <2>3. row[p].status # "settled" => row[p].charged = 0
    BY <2>1 DEF MoneyRow
  <2>4. Owed(row[p]) \in Nat /\ TokenOwed(row[p]) \in Nat
    BY <2>2 DEF Owed, TokenOwed
  <2>5. row[p].charged <= Owed(row[p])
    BY <2>2, <2>3 DEF Owed, Held
  <2>6. /\ OwedOf[p] = Owed(row[p]) /\ ChargedOf[p] = row[p].charged
        /\ TokenOwedOf[p] = TokenOwed(row[p])
    BY DEF OwedOf, ChargedOf, TokenOwedOf
  <2> QED
    BY <2>2, <2>4, <2>5, <2>6
<1>4. OwedOf[o] = r.reserved /\ ChargedOf[o] = 0 /\ TokenOwedOf[o] = r.tokenReserved
  <2>1. Owed(r) = r.reserved /\ r.charged = 0
    BY <1>1 DEF Owed, Held, MoneyRow
  <2>2. TokenOwed(r) = r.tokenReserved
    BY <1>1, TokenOwedFact
  <2> QED
    BY <2>1, <2>2 DEF OwedOf, ChargedOf, TokenOwedOf
<1>5. r.reserved <= w - c /\ r.tokenReserved <= t /\ w \in Int /\ c \in Int /\ t \in Nat
  <2> DEFINE held == [p \in Ops |-> OwedOf[p] - ChargedOf[p]]
  <2>1. \A p \in Ops : held[p] = OwedOf[p] - ChargedOf[p] /\ held[p] \in Nat
    BY <1>3
  <2>2. held[o] = r.reserved
    BY <1>1, <1>4
  <2> HIDE DEF held
  <2>3. SumFunctionOnSet(held, Ops) = w - c
    BY <1>3, <2>1, SettlementAssumption, SumOfDifferences
  <2>4. held[o] <= SumFunctionOnSet(held, Ops)
    BY <2>1, SettlementAssumption, TermWithinSum
  <2>5. r.tokenReserved <= t /\ t \in Nat
    BY <1>3, <1>4, SettlementAssumption, TermWithinSum, SumOfNaturals
  <2>6. w \in Int /\ c \in Int
    BY <1>3, SettlementAssumption, SumType
  <2> QED
    BY <2>2, <2>3, <2>4, <2>5, <2>6
<1>6. /\ user.quota = InitialQuota + adjusted.total - w /\ user.used = c /\ token.used = t
      /\ InitialQuota + adjusted.total - user.used <= MaxQuota
      /\ token.remain + token.used = InitialTokenQuota
  BY DEF MoneySums, TokenConservation, Room
<1>7. ledger[o][key] = 0
  BY <1>1 DEF Shape
<1> HIDE DEF r, w, c, t
<1>8. CanMoveWallet(o, key, r.reserved, FALSE)
  <2>1. checkedBalanceLedgerSum(user.quota, r.reserved)
    BY <1>1, <1>2, <1>5, <1>6 DEF checkedBalanceLedgerSum
  <2> QED
    BY <1>7, <2>1 DEF CanMoveWallet
<1>9. CanMoveToken(TokenDelta(r.tokenReserved, FALSE))
  <2>1. TokenDelta(r.tokenReserved, FALSE) \in {0, r.tokenReserved}
    BY DEF TokenDelta
  <2>2. CanMoveToken(r.tokenReserved)
    BY <1>1, <1>2, <1>5, <1>6 DEF CanMoveToken, checkedBalanceLedgerSum
  <2>3. CanMoveToken(0)
    BY DEF CanMoveToken
  <2> QED
    BY <2>1, <2>2, <2>3
<1> QED
  BY <1>8, <1>9 DEF CanReturn, r

\* What a transaction may do to a row that exists: dispatching is not undone, no
\* row becomes reserved again, and an intent stays.
Later(o) ==
  /\ row[o].dispatched => row'[o].dispatched
  /\ row'[o].status = "reserved" => row[o].status = "reserved"
  /\ row'[o].status # "absent"
  /\ HasIntent(o) => HasIntent(o)'

\* Every transaction on a row that exists is of that kind.
LEMMA TxLater ==
  ASSUME TypeOK, NEW o \in Ops, Tx(o), row[o].status # "absent"
  PROVE  Later(o)
<1>0. /\ row \in [Ops -> RowType] /\ intent \in [Ops -> IntentType]
  BY DEF TypeOK, DBTypeOK
<1>1. CASE UNCHANGED <<row, intent>>
  BY <1>1 DEF Later, HasIntent
<1>2. ASSUME NEW ch \in Channels, BeginZTAPIRequestAttempt(o, ch)
      PROVE  Later(o)
  BY <1>0, <1>2 DEF BeginZTAPIRequestAttempt, Later, HasIntent, RowType
<1>3. ASSUME NEW usage, NEW missing, PendZTAPIRequestSettlement(o, usage, missing)
      PROVE  Later(o)
  <2> DEFINE e == PendingEvidence(o, usage, missing)
  <2>1. row' = [row EXCEPT ![o].status = "pending", ![o].usage = e.usage,
                           ![o].missing = e.missing] /\ intent' = intent
    BY <1>3 DEF PendZTAPIRequestSettlement
  <2> HIDE DEF e
  <2> QED
    BY <1>0, <2>1 DEF Later, HasIntent, RowType
<1>4. CASE row' = [row EXCEPT ![o].status = "released"] /\ UNCHANGED intent
  BY <1>0, <1>4 DEF Later, HasIntent, RowType
<1>5. CASE ReleaseZTAPIRequestSettlement(o)
  BY <1>1, <1>4, <1>5 DEF ReleaseZTAPIRequestSettlement, db
<1>6. CASE ReleaseZTAPIDispatchedRejectedSettlement(o)
  <2>1. CASE row[o].status = "released"
    BY <1>1, <1>6, <2>1 DEF ReleaseZTAPIDispatchedRejectedSettlement, db
  <2>2. CASE row[o].status # "released"
    <3> DEFINE n == Len(attempts[o])
    <3>1. row' = [row EXCEPT ![o].status = "released", ![o].missing = "none",
                             ![o].finalAttempt = n] /\ intent' = intent
      BY <1>6, <2>2 DEF ReleaseZTAPIDispatchedRejectedSettlement
    <3> HIDE DEF n
    <3> QED
      BY <1>0, <3>1 DEF Later, HasIntent, RowType
  <2> QED
    BY <2>1, <2>2
<1>7. ASSUME NEW actual, NEW attempt, saveZTAPISettlementFinalizationIntent(o, actual, attempt)
      PROVE  Later(o)
  <2>1. row' = row /\ (HasIntent(o) => intent' = intent)
    BY <1>7 DEF saveZTAPISettlementFinalizationIntent
  <2> QED
    BY <2>1 DEF Later, HasIntent
<1>8. CASE intent' = [intent EXCEPT ![o].state = "completed"] /\ UNCHANGED row
  BY <1>0, <1>8 DEF Later, HasIntent, IntentType
<1>9. CASE finalizeZTAPIRequestSettlement(o)
  <2>1. CASE row[o].status = "settled"
    BY <1>1, <1>9, <2>1 DEF finalizeZTAPIRequestSettlement, db
  <2>2. CASE row[o].status # "settled"
    <3> DEFINE actual == intent[o].actual
               key == TokenCharged(o, TokenDelta(row[o].tokenReserved - actual, TRUE))
               last == intent[o].attempt
    <3>1. row' = [row EXCEPT ![o].status = "settled", ![o].charged = actual,
                             ![o].tokenCharged = key, ![o].usage = "known",
                             ![o].missing = "none", ![o].finalAttempt = last]
      BY <1>9, <2>2 DEF finalizeZTAPIRequestSettlement
    <3>2. intent' = [intent EXCEPT ![o].state = "completed"]
      BY <1>9, <2>2 DEF finalizeZTAPIRequestSettlement
    <3>3. HasIntent(o)'
      BY <1>0, <3>2 DEF HasIntent, IntentType
    <3> HIDE DEF actual, key, last
    <3> QED
      BY <1>0, <3>1, <3>3 DEF Later, RowType
  <2> QED
    BY <2>1, <2>2
<1> QED
  BY <1>1, <1>2, <1>3, <1>4, <1>5, <1>6, <1>7, <1>8, <1>9
  DEF Tx, CanBeginSettlement, RecordZTAPIRequestAttemptResponse,
      MarkZTAPIRequestSafetyOutcome

\* The key is charged with the settlement, and not before.
LEMMA TxKeyUncharged ==
  ASSUME TypeOK, KeyUncharged, NEW o \in Ops, Tx(o)
  PROVE  row'[o].status # "settled" => row'[o].tokenCharged = 0
<1> DEFINE Kept == row'[o].status # "settled" => row'[o].tokenCharged = 0
<1>0. /\ row \in [Ops -> RowType] /\ row[o] \in RowType
      /\ row[o].status # "settled" => row[o].tokenCharged = 0
  BY DEF TypeOK, DBTypeOK, KeyUncharged
<1>1. CASE UNCHANGED row
  BY <1>0, <1>1
<1>2. ASSUME NEW amount, BeginZTAPIRequestSettlement(o, amount) PROVE Kept
  <2> DEFINE taken == TokenDelta(-amount, FALSE)
  <2>1. row' = [row EXCEPT ![o] = NewRow("reserved", amount, -taken)]
    BY <1>2 DEF BeginZTAPIRequestSettlement
  <2> HIDE DEF taken
  <2> QED
    BY <1>0, <2>1 DEF NewRow
<1>3. ASSUME NEW ch, BeginZTAPIRequestAttempt(o, ch) PROVE Kept
  BY <1>0, <1>3 DEF BeginZTAPIRequestAttempt, RowType
<1>4. ASSUME NEW usage, NEW missing, CanPend(o, usage, missing),
             PendZTAPIRequestSettlement(o, usage, missing)
      PROVE  Kept
  <2> DEFINE e == PendingEvidence(o, usage, missing)
  <2>1. row' = [row EXCEPT ![o].status = "pending", ![o].usage = e.usage,
                           ![o].missing = e.missing]
    BY <1>4 DEF PendZTAPIRequestSettlement
  <2>2. row[o].status # "settled"
    BY <1>4 DEF CanPend
  <2> HIDE DEF e
  <2> QED
    BY <1>0, <2>1, <2>2 DEF RowType
<1>5. CASE row[o].status # "settled" /\ row' = [row EXCEPT ![o].status = "released"]
  BY <1>0, <1>5 DEF RowType
<1>6. CASE CanRelease(o) /\ ReleaseZTAPIRequestSettlement(o)
  BY <1>1, <1>5, <1>6 DEF CanRelease, ReleaseZTAPIRequestSettlement, db
<1>7. CASE CanReleaseRejected(o) /\ ReleaseZTAPIDispatchedRejectedSettlement(o)
  <2>1. CASE row[o].status = "released"
    BY <1>1, <1>7, <2>1 DEF ReleaseZTAPIDispatchedRejectedSettlement, db
  <2>2. CASE row[o].status # "released"
    <3> DEFINE n == Len(attempts[o])
    <3>1. row' = [row EXCEPT ![o].status = "released", ![o].missing = "none",
                             ![o].finalAttempt = n]
      BY <1>7, <2>2 DEF ReleaseZTAPIDispatchedRejectedSettlement
    <3>2. row[o].status # "settled"
      BY <1>7, <2>2 DEF CanReleaseRejected, Held
    <3> HIDE DEF n
    <3> QED
      BY <1>0, <3>1, <3>2 DEF RowType
  <2> QED
    BY <2>1, <2>2
<1>8. CASE finalizeZTAPIRequestSettlement(o)
  <2>1. CASE row[o].status = "settled"
    BY <1>1, <1>8, <2>1 DEF finalizeZTAPIRequestSettlement, db
  <2>2. CASE row[o].status # "settled"
    <3> DEFINE actual == intent[o].actual
               key == TokenCharged(o, TokenDelta(row[o].tokenReserved - actual, TRUE))
               last == intent[o].attempt
    <3>1. row' = [row EXCEPT ![o].status = "settled", ![o].charged = actual,
                             ![o].tokenCharged = key, ![o].usage = "known",
                             ![o].missing = "none", ![o].finalAttempt = last]
      BY <1>8, <2>2 DEF finalizeZTAPIRequestSettlement
    <3> HIDE DEF actual, key, last
    <3> QED
      BY <1>0, <3>1 DEF RowType
  <2> QED
    BY <2>1, <2>2
<1>9. CASE /\ CanResolve(o)
           /\ row' = [row EXCEPT ![o].status = "released"]
  BY <1>5, <1>9 DEF CanResolve
<1> QED
  BY <1>1, <1>2, <1>3, <1>4, <1>6, <1>7, <1>8, <1>9
  DEF Tx, RecordZTAPIRequestAttemptResponse, MarkZTAPIRequestSafetyOutcome,
      saveZTAPISettlementFinalizationIntent

\* So every step keeps it.
LEMMA KeyUnchargedStep ==
  ASSUME TypeOK, KeyUncharged, [Next]_vars
  PROVE  KeyUncharged'
<1>1. ASSUME NEW o \in Ops, Tx(o), \A p \in Ops \ {o} : row'[p] = row[p]
      PROVE  KeyUncharged'
  BY <1>1, TxKeyUncharged DEF KeyUncharged
<1>2. ASSUME row' = row PROVE KeyUncharged'
  BY <1>2 DEF KeyUncharged
<1> QED
  BY <1>1, <1>2, StepIsLocal DEF Elsewhere, db

\* A hold whose return nothing speaks against is returned: the cleanup of a
\* request that was not dispatched, or was rejected, cannot fail on it.
LEMMA ReservedIsReturned ==
  ASSUME TypeOK, LedgerShape, MoneyShape, MoneySums, TokenConservation, KeyUncharged, Room,
         NEW o \in Ops, row[o].status = "reserved", ~HasIntent(o)
  PROVE  /\ ~row[o].dispatched => CanRelease(o)
         /\ ~RejectionUnproven(o) => CanReleaseRejected(o)
<1>1. row[o].status \in Held /\ row[o].status # "settled"
  BY DEF Held
<1>2. row[o].charged = 0 /\ row[o].tokenCharged = 0
  BY <1>1 DEF MoneyShape, MoneyRow, KeyUncharged
<1>3. /\ "release" \in LedgerKeys \ {"begin"}
      /\ "upstream-rejected" \in LedgerKeys \ {"begin"}
  BY DEF LedgerKeys
<1>4. CanReturn(o, "release") /\ CanReturn(o, "upstream-rejected")
  BY <1>1, <1>3, HoldIsReturnable
<1> QED
  BY <1>1, <1>2, <1>4 DEF CanRelease, CanReleaseRejected

\* While nothing fails, a handler's step keeps it in step with its row ...
LEMMA BeginInStep ==
  ASSUME TypeOK, NEW o \in Ops, InStep(o), ~Fault,
         \/ \E amount \in Amounts : Begin(o, amount)
         \/ \E ch \in Channels : BeginAttempt(o, ch)
         \/ GiveUp(o) \/ TransportError(o)
  PROVE  InStep(o)'
<1>0. /\ SessionTypeOK /\ session \in [Ops -> SessionType] /\ session[o] \in SessionType
      /\ row \in [Ops -> RowType] /\ row[o] \in RowType
  BY DEF TypeOK, SessionTypeOK, DBTypeOK
<1>1. CASE /\ UNCHANGED db /\ session[o].pc \in {"ready", "sent"}
           /\ Goto(o, "ready") \/ Fail(o)
  <2>1. /\ session'[o].pc \in {"ready", "refund"}
        /\ session'[o].status = session[o].status
        /\ session'[o].dispatched = session[o].dispatched
    BY <1>0, <1>1, SessionFields DEF PCs
  <2> QED
    BY <1>1, <2>1 DEF InStep, HasIntent, db
<1>2. ASSUME NEW amount \in Amounts, Begin(o, amount) PROVE InStep(o)'
  <2>1. session[o].pc = "idle" /\ row[o].status = "absent" /\ ~row[o].dispatched
        /\ ~session[o].dispatched /\ attempts[o] = <<>> /\ ~HasIntent(o)
    BY <1>2 DEF Begin, InStep
  <2>2. CASE /\ BeginZTAPIRequestSettlement(o, amount)
             /\ session' = [session EXCEPT ![o].pc = "ready", ![o].status = "reserved"]
    <3> DEFINE taken == TokenDelta(-amount, FALSE)
    <3>1. row' = [row EXCEPT ![o] = NewRow("reserved", amount, -taken)]
          /\ UNCHANGED <<attempts, intent>>
      BY <2>2 DEF BeginZTAPIRequestSettlement
    <3> HIDE DEF taken
    <3>2. row'[o].status = "reserved" /\ ~row'[o].dispatched
      BY <1>0, <3>1 DEF NewRow
    <3>3. /\ session'[o].pc = "ready" /\ session'[o].status = "reserved"
          /\ ~session'[o].dispatched
      BY <1>0, <2>1, <2>2 DEF SessionType
    <3> QED
      BY <2>1, <3>1, <3>2, <3>3 DEF InStep, HasIntent
  <2>3. CASE UNCHANGED db /\ Goto(o, "done")
    <3>1. /\ session'[o].pc = "done" /\ session'[o].status = session[o].status
          /\ session'[o].dispatched = session[o].dispatched
      BY <1>0, <2>3, SessionFields DEF PCs
    <3> QED
      BY <2>1, <2>3, <3>1 DEF InStep, HasIntent, db
  <2> QED
    BY <1>2, <2>2, <2>3 DEF Begin, Call
<1>3. ASSUME NEW ch \in Channels, BeginAttempt(o, ch) PROVE InStep(o)'
  <2>1. session[o].pc = "ready"
    BY <1>3 DEF BeginAttempt
  <2>2. ASSUME CanBeginAttempt(o, ch), BeginZTAPIRequestAttempt(o, ch),
               session' = [session EXCEPT ![o].pc = "sent", ![o].dispatched = TRUE,
                                          ![o].attempt = Len(attempts[o]) + 1]
        PROVE  InStep(o)'
    <3>1. row' = [row EXCEPT ![o].dispatched = TRUE] /\ row[o].status = "reserved"
      BY <2>2 DEF CanBeginAttempt, BeginZTAPIRequestAttempt
    <3>2. row'[o].status = "reserved" /\ row'[o].dispatched
      BY <1>0, <3>1 DEF RowType
    <3> DEFINE n == Len(attempts[o]) + 1
    <3>3. session' = [session EXCEPT ![o].pc = "sent", ![o].dispatched = TRUE,
                                     ![o].attempt = n]
      BY <2>2
    <3> HIDE DEF n
    <3>4. /\ session'[o].pc = "sent" /\ session'[o].dispatched
          /\ session'[o].status = session[o].status
      BY <1>0, <3>3 DEF SessionType
    <3>5. session[o].status = "reserved"
      BY <3>1 DEF InStep
    <3> QED
      BY <3>2, <3>4, <3>5 DEF InStep
  <2>3. CASE UNCHANGED db /\ Fail(o)
    BY <1>1, <2>1, <2>3
  <2> QED
    BY <1>3, <2>2, <2>3 DEF BeginAttempt, Call
<1>4. CASE GiveUp(o) \/ TransportError(o)
  BY <1>1, <1>4 DEF GiveUp, TransportError
<1> QED
  BY <1>2, <1>3, <1>4

\* ... also once the request was dispatched ...
LEMMA DispatchedInStep ==
  ASSUME TypeOK, NEW o \in Ops, InStep(o), ~Fault,
         \/ \E status \in Statuses, block \in BOOLEAN : Respond(o, status, block)
         \/ UsageIncomplete(o)
         \/ \E actual \in Amounts : SaveIntent(o, actual)
         \/ Finalize(o) \/ ParkRow(o)
  PROVE  InStep(o)'
<1>0. /\ SessionTypeOK /\ session \in [Ops -> SessionType] /\ session[o] \in SessionType
      /\ row \in [Ops -> RowType] /\ row[o] \in RowType
  BY DEF TypeOK, SessionTypeOK, DBTypeOK
<1>1. /\ session[o].dispatched /\ row[o].dispatched /\ row[o].status # "absent"
      /\ row[o].status = "reserved" => session[o].status = "reserved"
  BY DEF InStep, Respond, UsageIncomplete, SaveIntent, Finalize, ParkRow
<1>2. ASSUME Tx(o) \/ UNCHANGED db PROVE Later(o)
  BY <1>1, <1>2, TxLater DEF Later, HasIntent, db
<1>3. ASSUME Later(o), session'[o].dispatched, session'[o].pc \notin {"idle", "done", "crashed"},
             \/ session'[o].status = session[o].status
             \/ row'[o].status # "reserved"
      PROVE  InStep(o)'
  BY <1>1, <1>3 DEF InStep, Later
<1>4. ASSUME NEW pc \in {"ready", "answered", "finalize", "refund"},
             Later(o), Goto(o, pc)
      PROVE  InStep(o)'
  <2>1. pc \in PCs
    BY DEF PCs
  <2>2. /\ session'[o].pc = pc /\ session'[o].status = session[o].status
        /\ session'[o].dispatched = session[o].dispatched
    BY <1>0, <1>4, <2>1, SessionFields
  <2> QED
    BY <1>1, <1>3, <1>4, <2>2
<1>5. ASSUME Later(o), Fail(o) PROVE InStep(o)'
  BY <1>0, <1>1, <1>3, <1>5, SessionFields
<1>6. ASSUME NEW reason \in Reasons, Later(o), Park(o, reason) PROVE InStep(o)'
  BY <1>0, <1>1, <1>3, <1>6, SessionFields
<1>7. ASSUME NEW status \in Statuses, NEW block \in BOOLEAN, Respond(o, status, block) PROVE InStep(o)'
  <2>1. Later(o)
    <3>1. row' = row /\ intent' = intent
      BY <1>7 DEF Respond, Call, RecordZTAPIRequestAttemptResponse, db
    <3> QED
      BY <1>1, <3>1 DEF Later, HasIntent
  <2>2. ASSUME NEW safety \in BOOLEAN, FailAnswered(o, block, safety) PROVE InStep(o)'
    <3>1. /\ session'[o].pc = "refund" /\ session'[o].status = session[o].status
          /\ session'[o].dispatched = session[o].dispatched
      BY <1>0, <2>2, FailAnsweredFact
    <3> QED
      BY <1>1, <1>3, <2>1, <3>1
  <2> QED
    BY <1>4, <1>7, <2>1, <2>2 DEF Respond, Call
<1>8. CASE UsageIncomplete(o)
  <2>1. Later(o)
    BY <1>2, <1>8 DEF UsageIncomplete
  <2> QED
    BY <1>6, <1>8, <2>1 DEF UsageIncomplete, Reasons
<1>9. "settlement_retry_required" \in Reasons
  BY DEF Reasons
<1>10. ASSUME NEW actual \in Amounts, SaveIntent(o, actual) PROVE InStep(o)'
  <2>1. Later(o)
    BY <1>2, <1>10 DEF SaveIntent, Call, Tx
  <2> QED
    BY <1>4, <1>6, <1>9, <1>10, <2>1 DEF SaveIntent, Call
<1>11. CASE Finalize(o)
  <2>1. Later(o)
    BY <1>2, <1>11 DEF Finalize, Call, Tx
  <2>2. CASE /\ finalizeZTAPIRequestSettlement(o)
             /\ session' = [session EXCEPT ![o].pc = "refund", ![o].status = "settled"]
    <3>1. row'[o].status = "settled"
      <4>1. CASE row[o].status = "settled"
        BY <2>2, <4>1 DEF finalizeZTAPIRequestSettlement, db
      <4>2. CASE row[o].status # "settled"
        <5> DEFINE actual == intent[o].actual
                   key == TokenCharged(o, TokenDelta(row[o].tokenReserved - actual, TRUE))
                   last == intent[o].attempt
        <5>1. row' = [row EXCEPT ![o].status = "settled", ![o].charged = actual,
                                 ![o].tokenCharged = key, ![o].usage = "known",
                                 ![o].missing = "none", ![o].finalAttempt = last]
          BY <2>2, <4>2 DEF finalizeZTAPIRequestSettlement
        <5> HIDE DEF actual, key, last
        <5> QED
          BY <1>0, <5>1 DEF RowType
      <4> QED
        BY <4>1, <4>2
    <3>2. session'[o].pc = "refund" /\ session'[o].dispatched
      BY <1>0, <1>1, <2>2 DEF SessionType
    <3> QED
      BY <1>3, <2>1, <3>1, <3>2
  <2> QED
    BY <1>6, <1>9, <1>11, <2>1, <2>2 DEF Finalize, Call
<1>12. CASE ParkRow(o)
  <2> DEFINE reason == session[o].reason
  <2>1. Later(o)
    <3>1. CASE UNCHANGED db
      BY <1>2, <3>1
    <3>2. CASE CanPend(o, "known", reason) /\ PendZTAPIRequestSettlement(o, "known", reason)
      <4>1. reason \in Reasons /\ session[o].pc = "park"
        BY <1>0, <1>12 DEF SessionType, ParkRow
      <4>2. PendsAs(o, "known", reason)
        BY <4>1 DEF PendsAs
      <4>3. Tx(o)
        BY <3>2, <4>1, <4>2 DEF Tx
      <4> QED
        BY <1>2, <4>3
    <3> QED
      BY <1>12, <3>1, <3>2 DEF ParkRow, Call
  <2>2. CASE /\ PendZTAPIRequestSettlement(o, "known", reason)
             /\ session' = [session EXCEPT ![o].pc = "refund", ![o].status = "pending"]
    <3>1. row'[o].status = "pending"
      <4> DEFINE e == PendingEvidence(o, "known", reason)
      <4>1. row' = [row EXCEPT ![o].status = "pending", ![o].usage = e.usage,
                               ![o].missing = e.missing]
        BY <2>2 DEF PendZTAPIRequestSettlement
      <4> HIDE DEF e
      <4> QED
        BY <1>0, <4>1 DEF RowType
    <3>2. session'[o].pc = "refund" /\ session'[o].dispatched
      BY <1>0, <1>1, <2>2 DEF SessionType
    <3> QED
      BY <1>3, <2>1, <3>1, <3>2
  <2> QED
    BY <1>4, <1>12, <2>1, <2>2 DEF ParkRow, Call
<1> QED
  BY <1>7, <1>8, <1>10, <1>11, <1>12

\* ... and while it cleans up.
LEMMA CleanupInStep ==
  ASSUME TypeOK, LedgerShape, MoneyShape, MoneySums, TokenConservation, KeyUncharged, Room,
         NEW o \in Ops, InStep(o), ~Fault,
         \/ RefundNothing(o) \/ RefundUndispatched(o) \/ RefundSafety(o)
         \/ RefundDispatched(o) \/ RefundPend(o)
  PROVE  InStep(o)'
<1>0. /\ SessionTypeOK /\ session \in [Ops -> SessionType] /\ session[o] \in SessionType
      /\ row \in [Ops -> RowType] /\ row[o] \in RowType
      /\ {"released", "reserved", "pending"} \subseteq RowStatuses
      /\ session[o].status \in RowStatuses
  BY DEF TypeOK, SessionTypeOK, DBTypeOK, RowStatuses, SessionType
<1>1. /\ row[o].dispatched <=> session[o].dispatched
      /\ row[o].status = "reserved" => session[o].status = "reserved"
  BY DEF InStep
<1>2. ASSUME Tx(o) \/ UNCHANGED db, row[o].dispatched PROVE Later(o)
  BY <1>2, TxLater DEF InStep, Later, HasIntent, db
\* The cleanup ends with what it has made of the row, ...
<1>3. ASSUME NEW status \in {"released", "pending"}, Ended(o, status), Later(o),
             row'[o].status = status, row[o].dispatched
      PROVE  InStep(o)'
  <2>1. /\ session'[o].pc \in {"refund", "done"} /\ session'[o].status = status
        /\ session'[o].dispatched = session[o].dispatched
    BY <1>0, <1>3, SessionFields
  <2> QED
    BY <1>1, <1>3, <2>1 DEF InStep, Later
\* ... or without having touched it, when it is not reserved or has an intent.
<1>4. ASSUME NEW status \in RowStatuses, Ended(o, status), UNCHANGED db,
             row[o].status = "reserved" => status = "reserved" /\ HasIntent(o)
      PROVE  InStep(o)'
  <2>1. /\ session'[o].pc \in {"refund", "done"} /\ session'[o].status = status
        /\ session'[o].dispatched = session[o].dispatched
    BY <1>0, <1>4, SessionFields
  <2>2. row' = row /\ intent' = intent /\ attempts' = attempts
    BY <1>4 DEF db
  <2> QED
    BY <1>4, <2>1, <2>2 DEF InStep, HasIntent
<1>5. CASE RefundNothing(o)
  BY <1>0, <1>1, <1>4, <1>5 DEF RefundNothing
<1>6. CASE RefundUndispatched(o)
  <2>1. ~row[o].dispatched /\ ~HasIntent(o) /\ attempts[o] = <<>>
    BY <1>1, <1>6 DEF RefundUndispatched, InStep
  <2>2. CASE /\ CanRelease(o) /\ ReleaseZTAPIRequestSettlement(o) /\ Ended(o, "released")
    <3>1. /\ row'[o].status = "released" /\ ~row'[o].dispatched
          /\ attempts' = attempts /\ intent' = intent
      <4>1. CASE row[o].status = "released"
        BY <2>1, <2>2, <4>1 DEF ReleaseZTAPIRequestSettlement, db
      <4>2. CASE row[o].status # "released"
        <5>1. row' = [row EXCEPT ![o].status = "released"] /\ UNCHANGED <<attempts, intent>>
          BY <2>2, <4>2 DEF ReleaseZTAPIRequestSettlement
        <5> QED
          BY <1>0, <2>1, <5>1 DEF RowType
      <4> QED
        BY <4>1, <4>2
    <3>2. /\ session'[o].pc \in {"refund", "done"} /\ session'[o].status = "released"
          /\ session'[o].dispatched = session[o].dispatched
      BY <1>0, <2>2, SessionFields
    <3> QED
      BY <1>1, <2>1, <3>1, <3>2 DEF InStep, HasIntent
  <2>3. CASE ~CanRelease(o) /\ UNCHANGED db /\ Ended(o, "reserved")
    <3>1. row[o].status # "reserved"
      BY <2>1, <2>3, ReservedIsReturned
    <3> QED
      BY <1>0, <1>4, <2>3, <3>1
  <2> QED
    BY <1>6, <2>2, <2>3 DEF RefundUndispatched, Call
<1>7. ASSUME Later(o), Goto(o, "pend"), row[o].dispatched PROVE InStep(o)'
  <2>1. /\ session'[o].pc = "pend" /\ session'[o].status = session[o].status
        /\ session'[o].dispatched = session[o].dispatched
    BY <1>0, <1>7, SessionFields DEF PCs
  <2> QED
    BY <1>1, <1>7, <2>1 DEF InStep, Later
<1>8. CASE RefundSafety(o)
  <2>1. row[o].dispatched /\ Goto(o, "pend") /\ (Tx(o) \/ UNCHANGED db)
    BY <1>1, <1>8 DEF RefundSafety, Call, Tx
  <2> QED
    BY <1>2, <1>7, <2>1
<1>9. CASE RefundDispatched(o)
  <2>1. row[o].dispatched
    BY <1>1, <1>9 DEF RefundDispatched
  <2>2. CASE UNCHANGED db /\ Goto(o, "pend")
    BY <1>2, <1>7, <2>1, <2>2
  <2>3. CASE /\ CanReleaseRejected(o) /\ ReleaseZTAPIDispatchedRejectedSettlement(o)
             /\ Ended(o, "released")
    <3>1. Later(o)
      BY <1>2, <2>1, <2>3 DEF Tx
    <3>2. row'[o].status = "released"
      <4>1. CASE row[o].status = "released"
        BY <2>3, <4>1 DEF ReleaseZTAPIDispatchedRejectedSettlement, db
      <4>2. CASE row[o].status # "released"
        <5> DEFINE n == Len(attempts[o])
        <5>1. row' = [row EXCEPT ![o].status = "released", ![o].missing = "none",
                                 ![o].finalAttempt = n]
          BY <2>3, <4>2 DEF ReleaseZTAPIDispatchedRejectedSettlement
        <5> HIDE DEF n
        <5> QED
          BY <1>0, <5>1 DEF RowType
      <4> QED
        BY <4>1, <4>2
    <3> QED
      BY <1>3, <2>1, <2>3, <3>1, <3>2
  <2>4. CASE /\ ~RejectionUnproven(o) /\ ~CanReleaseRejected(o)
             /\ UNCHANGED db /\ Ended(o, "reserved")
    <3>1. row[o].status = "reserved" => HasIntent(o)
      BY <2>4, ReservedIsReturned
    <3> QED
      BY <1>0, <1>4, <2>4, <3>1
  <2> QED
    BY <1>9, <2>2, <2>3, <2>4 DEF RefundDispatched, Call
<1>10. CASE RefundPend(o)
  <2> DEFINE reason == "upstream_billing_unconfirmed"
  <2>1. row[o].dispatched
    BY <1>1, <1>10 DEF RefundPend, InStep
  <2>2. CASE /\ CanPend(o, "none", reason) /\ PendZTAPIRequestSettlement(o, "none", reason)
             /\ Ended(o, "pending")
    <3>1. Tx(o)
      BY <2>2 DEF Tx, PendsAs, Reasons
    <3>2. Later(o)
      BY <1>2, <2>1, <3>1
    <3>3. row'[o].status = "pending"
      <4> DEFINE e == PendingEvidence(o, "none", reason)
      <4>1. row' = [row EXCEPT ![o].status = "pending", ![o].usage = e.usage,
                               ![o].missing = e.missing]
        BY <2>2 DEF PendZTAPIRequestSettlement
      <4> HIDE DEF e
      <4> QED
        BY <1>0, <4>1 DEF RowType
    <3> QED
      BY <1>3, <2>1, <2>2, <3>2, <3>3
  <2>3. CASE ~CanPend(o, "none", reason) /\ UNCHANGED db /\ Ended(o, "reserved")
    <3>1. row[o].status # "reserved"
      BY <2>3 DEF CanPend
    <3> QED
      BY <1>0, <1>4, <2>3, <3>1
  <2> QED
    BY <1>10, <2>2, <2>3 DEF RefundPend, Call
<1> QED
  BY <1>5, <1>6, <1>8, <1>9, <1>10

\* A worker or an operator has nothing to do on a request that was not
\* dispatched, and what it does on another leaves its handler in step.
LEMMA WorkerInStep ==
  ASSUME TypeOK, NEW o \in Ops, InStep(o), Worker(o) \/ Operator(o)
  PROVE  InStep(o)'
<1>1. Tx(o) /\ session' = session
  BY WorkerIsTx
<1>2. row[o].dispatched
  BY DEF InStep, Worker, Operator, RetryFinalization, SweepRejectedHold,
         ResolvePendingNoCharge, CanResolve, HasIntent
<1>3. Later(o)
  BY <1>1, <1>2, TxLater DEF InStep
<1> QED
  BY <1>1, <1>2, <1>3 DEF InStep, Later

\* So every step that is not a fault keeps every handler in step.
LEMMA InStepStep ==
  ASSUME TypeOK, LedgerShape, MoneyShape, MoneySums, TokenConservation, KeyUncharged, Room,
         InStepUnlessFault, [Next]_vars
  PROVE  InStepUnlessFault'
<1>1. SUFFICES ASSUME faults' = 0, NEW p \in Ops PROVE InStep(p)'
  BY DEF InStepUnlessFault
<1>2. faults \in Nat
  BY DEF TypeOK, SessionTypeOK
<1>3. ~Fault
  BY <1>1, <1>2 DEF Fault
<1>4. faults = 0
  <2>1. ASSUME NEW o \in Ops, Handler(o) PROVE faults' = faults
    BY <1>3, <2>1
    DEF Handler, Begin, BeginAttempt, GiveUp, TransportError, Respond, UsageIncomplete,
        SaveIntent, Finalize, ParkRow, RefundNothing, RefundUndispatched, RefundSafety,
        RefundDispatched, RefundPend, Crash, Call
  <2>2. ASSUME NEW o \in Ops, Worker(o) \/ Operator(o) PROVE faults' = faults
    BY <2>2, WorkerIsTx
  <2>3. CASE Admin
    BY <1>1, <2>3 DEF Admin, AdjustUserBalance, UpdateZTAPIUserStatus, DeleteUser
  <2> QED
    BY <1>1, <2>1, <2>2, <2>3 DEF Next, vars
<1>5. \A o \in Ops : InStep(o)
  BY <1>4 DEF InStepUnlessFault
<1>6. ASSUME row'[p] = row[p], attempts'[p] = attempts[p], intent'[p] = intent[p],
             session'[p] = session[p]
      PROVE  InStep(p)'
  BY <1>5, <1>6 DEF InStep, HasIntent
<1>7. ASSUME NEW o \in Ops, Handler(o) PROVE InStep(o)'
  BY <1>3, <1>5, <1>7, BeginInStep, DispatchedInStep, CleanupInStep DEF Handler, Crash
<1>8. ASSUME NEW o \in Ops, Worker(o) \/ Operator(o) PROVE InStep(o)'
  BY <1>5, <1>8, WorkerInStep
<1>9. ASSUME NEW o \in Ops, Handler(o) \/ Worker(o) \/ Operator(o), p # o PROVE InStep(p)'
  <2>1. Tx(o) \/ UNCHANGED db
    BY <1>9, HandlerIsTx, WorkerIsTx
  <2>2. /\ row'[p] = row[p] /\ attempts'[p] = attempts[p] /\ intent'[p] = intent[p]
    BY <1>9, <2>1, TxMoves, OthersEvidence DEF Moves, OthersSame, db
  <2>3. session'[p] = session[p]
    BY <1>9, HandlerSession, WorkerIsTx DEF Forward
  <2> QED
    BY <1>6, <2>2, <2>3
<1>10. CASE Admin
  BY <1>6, <1>10, AdminType
<1>11. CASE UNCHANGED vars
  BY <1>6, <1>11 DEF vars
<1> QED
  BY <1>7, <1>8, <1>9, <1>10, <1>11 DEF Next

(***************************************************************************)
(* A handler that is through with its request, none of its transactions    *)
(* having failed, leaves no reservation behind: a dispatched request is    *)
(* charged, released, parked for the durable queue, or owned by an intent, *)
(* and one that was not dispatched is released.  The cleanup does not look *)
(* at the balance before it returns a hold, so the wallet must have room:  *)
(* []Room says no credit fills it past the maximum less what it holds.     *)
(***************************************************************************)
THEOREM NoHoldIsLeftBehind ==
  Spec /\ []Room => [](faults = 0 => FinishedRequestHandedOver /\ FinishedRequestReleased)
<1> DEFINE Books == TypeOK /\ LedgerShape /\ MoneyShape /\ MoneySums /\ KeyUncharged
<1>1. Init => Books /\ InStepUnlessFault
  <2>1. ASSUME Init, NEW o \in Ops PROVE row[o].tokenCharged = 0 /\ InStep(o)
    <3>1. row[o] = AbsentRow /\ session[o] = IdleSession /\ attempts[o] = <<>>
          /\ ~HasIntent(o)
      BY <2>1 DEF Init, HasIntent
    <3> QED
      BY <3>1 DEF AbsentRow, NewRow, IdleSession, InStep
  <2> QED
    BY <2>1, TypeInit, ShapeInit, MoneyInit DEF KeyUncharged, InStepUnlessFault
<1>2. Books /\ [Next]_vars => Books'
  BY TypeStep, ShapeStep, MoneyShapeStep, MoneySumsStep, KeyUnchargedStep
<1>3. Books /\ TokenConservation /\ Room /\ InStepUnlessFault /\ [Next]_vars
        => InStepUnlessFault'
  BY InStepStep
<1>4. InStepUnlessFault
        => (faults = 0 => FinishedRequestHandedOver /\ FinishedRequestReleased)
  BY DEF InStepUnlessFault, InStep, FinishedRequestHandedOver, FinishedRequestReleased
<1> QED
  BY <1>1, <1>2, <1>3, <1>4, TokenConserved, PTL DEF Spec
===============================================================================
