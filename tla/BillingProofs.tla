---------------------------- MODULE BillingProofs ----------------------------
(***************************************************************************)
(* Proofs about BillingSession and the refund queue under it, for any      *)
(* number of requests, faults and repeated calls, with and without         *)
(* extensions of a session; and about SubscriptionQuota, for any number of *)
(* requests, subscriptions, periods and faults, and any ids.               *)
(*                                                                         *)
(* The argument follows each credit from the session that asks for it to   *)
(* the row of the queue and from the row to the ledger.  A request asks    *)
(* for a credit under one key per purpose and always with one amount; the  *)
(* row keeps that amount; a pending row has not been credited and an       *)
(* applied or completed one has; and the two purposes that could return    *)
(* the same money, a settlement and a refund, exclude each other.          *)
(*                                                                         *)
(* The argument about subscriptions follows what each request has been     *)
(* charged.  Every subscription shows at least what its own requests were  *)
(* charged, so no refund reaches the zero at which the code cuts it off,   *)
(* and a save that replaces what it had read posts the whole difference.   *)
(***************************************************************************)
EXTENDS BillingSession, SubscriptionQuota, FiniteSums

(***************************************************************************)
(* The inductive invariant.                                                *)
(***************************************************************************)

\* Types, with the columns of the API key not yet bounded.
BillingTypes ==
  /\ user \in UserType
  /\ token \in [remain : Nat, used : Nat, status : {"enabled", "exhausted"}]
  /\ ledger \in [Requests \X (WalletKeys \cup DebitKeys) -> -MaxQuota..MaxQuota]
  /\ row \in [RefundKeys -> RowType]
  /\ proc \in [Actors -> ProcType]
  /\ batch \subseteq RefundKeys
  /\ refundFaults \in 0..MaxRefundFaults
  /\ session \in [Requests -> SessionType]
  /\ keyNet \in [Requests -> Nat]

\* The two sums.
WalletSumHolds == user.quota = InitialQuota - SumFunction([r \in Requests |-> WalletNet(r)])

KeySumsHold ==
  /\ token.used = SumFunction([r \in Requests |-> keyNet[r]])
  /\ token.remain + token.used = InitialTokenQuota

SumsHold == WalletSumHolds /\ KeySumsHold

\* A row asks for something; a wallet row is credited once, and its status
\* tells whether it was, except that a dead letter may be either.
RowFits(k) ==
  /\ row[k].status # "none" => row[k].amount > 0
  /\ k[2] \in WalletKeys =>
       /\ ledger[k] \in {0, row[k].amount}
       /\ row[k].status \in {"none", "pending"} => ledger[k] = 0
       /\ row[k].status \in {"applied", "completed"} => ledger[k] = row[k].amount

NoneOf(r, kind) == row[<<r, kind>>].status = "none"
Plain(r) == s(r).reserves = 0

ReservePCs == {"reserveFunding", "reserveToken", "reserveRollback"}
RefundPCs == {"refund", "tokenRefunding", "fundingRefund", "fundingRefunding",
              "refundFailed", "refunded"}
SettlePCs == {"settle", "settling", "settleToken", "exhaust", "settleFailed", "settled"}
OpenedPCs == {"open"} \cup ReservePCs \cup RefundPCs \cup SettlePCs

\* Which rows a session may have, and their amounts.
RowsFit(r) ==
  /\ ~NoneOf(r, "token-preconsume") =>
       s(r).pc \in {"rollback", "rejected", "lost"} /\ NoneOf(r, "token")
  /\ ~NoneOf(r, "token") =>
       s(r).pc \in RefundPCs \cup {"lost"} /\ row[<<r, "token">>].amount = s(r).tokenConsumed
  /\ ~NoneOf(r, "wallet") =>
       /\ s(r).pc \in RefundPCs \cup {"lost"}
       /\ row[<<r, "wallet">>].amount = s(r).consumed
       /\ NoneOf(r, "wallet-settle-refund") /\ ledger[<<r, "wallet-settle-debit">>] = 0
       /\ ~s(r).fundingSettled
  /\ ~NoneOf(r, "wallet-settle-refund") =>
       /\ s(r).pc \in SettlePCs \cup {"lost"}
       /\ row[<<r, "wallet-settle-refund">>].amount = -FundingDelta(r)
  /\ ~NoneOf(r, "wallet-reserve") => ~Plain(r)

\* What a request has taken from the API key covers what may be returned to
\* it; exactly, as long as the session was not extended.
KeyStages(r) ==
  /\ s(r).pc \in {"start", "token"} => s(r).tokenConsumed = 0
  /\ s(r).pc \in {"rollback", "tokenRefunding"} => s(r).tokenConsumed > 0
  /\ s(r).tokenRefunded => s(r).pc \in RefundPCs \cup {"lost"}
  /\ s(r).pc \in {"fundingRefund", "fundingRefunding"} => s(r).tokenRefunded

KeyCovers(r) ==
  /\ (/\ s(r).pc \notin {"exhaust", "settled", "rejected", "lost"}
      /\ row[<<r, "token">>].status \in {"none", "pending"}
      /\ row[<<r, "token-preconsume">>].status \in {"none", "pending"}) =>
        keyNet[r] >= s(r).tokenConsumed /\ (Plain(r) => keyNet[r] = s(r).tokenConsumed)
  /\ \A kind \in TokenKeys :
        row[<<r, kind>>].status = "pending" => keyNet[r] >= row[<<r, kind>>].amount

KeyExact(r) ==
  Plain(r) =>
    /\ row[<<r, "token">>].status = "pending" => keyNet[r] = row[<<r, "token">>].amount
    /\ row[<<r, "token">>].status \in {"applied", "completed"} => keyNet[r] = 0
    /\ s(r).tokenRefunded \/ s(r).pc = "refunded" => keyNet[r] = 0

\* What the session remembers of the wallet is what the ledger says.
WalletStages(r) ==
  /\ \A kind \in DebitKeys : ledger[<<r, kind>>] <= 0
  /\ s(r).pc \in {"start", "token", "funding"} =>
       ledger[<<r, "wallet-preconsume">>] = 0 /\ s(r).consumed = 0 /\ Plain(r)
  /\ s(r).pc \in {"start", "token", "funding", "rollback", "rejected"} => s(r).preConsumed = 0
  /\ s(r).pc \in {"open"} \cup ReservePCs => s(r).consumed >= s(r).preConsumed
  /\ s(r).pc \in ReservePCs => s(r).target > s(r).preConsumed /\ ~Plain(r)
  /\ s(r).pc = "reserveFunding" => s(r).consumed = s(r).preConsumed
  /\ s(r).pc \in {"reserveToken", "reserveRollback"} => s(r).consumed = s(r).target
  /\ s(r).pc = "reserveToken" => KeyExtension(r) > 0
  /\ s(r).pc = "settling" => FundingDelta(r) < 0
  /\ s(r).pc = "settleToken" => Limited(r)
  /\ s(r).pc = "fundingRefunding" => s(r).consumed > 0

SettleFits(r) ==
  /\ ledger[<<r, "wallet-settle-debit">>] # 0 =>
       /\ s(r).pc \in SettlePCs \cup {"lost"}
       /\ FundingDelta(r) > 0 /\ ledger[<<r, "wallet-settle-debit">>] = -FundingDelta(r)
  /\ s(r).fundingSettled =>
       /\ s(r).pc \in {"settleToken", "exhaust", "settled", "lost"}
       /\ FundingDelta(r) > 0 => ledger[<<r, "wallet-settle-debit">>] = -FundingDelta(r)
       /\ FundingDelta(r) < 0 => ledger[<<r, "wallet-settle-refund">>] = -FundingDelta(r)
       /\ FundingDelta(r) >= 0 => ledger[<<r, "wallet-settle-refund">>] = 0

WalletExact(r) ==
  Plain(r) =>
    /\ ledger[<<r, "wallet-reserve-debit">>] = 0
    /\ s(r).consumed = s(r).preConsumed
    /\ s(r).pc = "refunded" => ledger[<<r, "wallet">>] = s(r).consumed
    /\ s(r).preConsumed > 0 \/ s(r).pc \in OpenedPCs \/ s(r).fundingSettled =>
         ledger[<<r, "wallet-preconsume">>] = -s(r).preConsumed

\* Inside the queue, a request works on the row its session waits for.
Busy == {"ensure", "tx", "sync", "complete", "failed"}

WaitsFor(r, kind, amount) ==
  /\ proc[r].at \in Busy => proc[r].key = <<r, kind>> /\ proc[r].amount = amount
  /\ proc[r].at \in Busy \ {"ensure"} => ~NoneOf(r, kind) /\ row[<<r, kind>>].amount = amount
  /\ proc[r].at \in {"sync", "complete", "ok"} /\ kind \in WalletKeys =>
       ledger[<<r, kind>>] = amount

ProcFits(r) ==
  /\ proc[r].at # "idle" =>
       s(r).pc \in {"rollback", "reserveRollback", "settling", "tokenRefunding",
                    "fundingRefunding"}
  /\ s(r).pc = "rollback" => WaitsFor(r, "token-preconsume", s(r).tokenConsumed)
  /\ s(r).pc = "rollback" /\ proc[r].at \in {"idle", "ensure"} =>
       NoneOf(r, "token-preconsume")
  /\ s(r).pc = "reserveRollback" => WaitsFor(r, "wallet-reserve", FundingExtension(r))
  /\ s(r).pc = "settling" => WaitsFor(r, "wallet-settle-refund", -FundingDelta(r))
  /\ s(r).pc = "tokenRefunding" => WaitsFor(r, "token", s(r).tokenConsumed)
  /\ s(r).pc = "tokenRefunding" /\ proc[r].at \in {"sync", "complete", "ok"} /\ Plain(r) =>
       keyNet[r] = 0
  /\ s(r).pc = "fundingRefunding" => WaitsFor(r, "wallet", s(r).consumed)

\* The compensator works on rows that exist.
CompensatorFits ==
  /\ proc[Compensator].at # "ensure"
  /\ proc[Compensator].at \in Busy =>
       /\ proc[Compensator].key \in RefundKeys
       /\ row[proc[Compensator].key].status # "none"
  /\ \A k \in batch : row[k].status # "none"

Fits(r) ==
  /\ RowsFit(r)
  /\ KeyStages(r) /\ KeyCovers(r) /\ KeyExact(r)
  /\ WalletStages(r) /\ SettleFits(r) /\ WalletExact(r)

BillingInv ==
  /\ BillingTypes /\ SumsHold
  /\ \A k \in RefundKeys : RowFits(k)
  /\ \A r \in Requests : Fits(r) /\ ProcFits(r)
  /\ CompensatorFits
-------------------------------------------------------------------------------
(***************************************************************************)
(* Sums.                                                                   *)
(***************************************************************************)

\* The entries of a ledger are integers, and so is their sum for a request.
LEMMA EntriesAreInt ==
  ASSUME NEW l \in [Requests \X (WalletKeys \cup DebitKeys) -> -MaxQuota..MaxQuota],
         NEW r \in Requests
  PROVE  /\ \A kind \in WalletKeys \cup DebitKeys : l[<<r, kind>>] \in Int
         /\ -(l[<<r, "wallet-preconsume">>] + l[<<r, "wallet-settle-debit">>]
              + l[<<r, "wallet-reserve-debit">>] + l[<<r, "wallet">>]
              + l[<<r, "wallet-settle-refund">>] + l[<<r, "wallet-reserve">>]) \in Int
  <1>1. \A kind \in WalletKeys \cup DebitKeys : l[<<r, kind>>] \in -MaxQuota..MaxQuota
    OBVIOUS
  <1>2. \A kind \in WalletKeys \cup DebitKeys : l[<<r, kind>>] \in Int
    BY <1>1, MaxQuotaAssumption
  <1>3. QED
    BY <1>2 DEF WalletKeys, DebitKeys

\* The ledger's entries and the key's net amounts are integers.
LEMMA NetIsInt ==
  ASSUME BillingTypes, NEW r \in Requests
  PROVE  /\ WalletNet(r) \in Int /\ keyNet[r] \in Int
         /\ \A kind \in WalletKeys \cup DebitKeys : ledger[<<r, kind>>] \in Int
  <1>1. keyNet[r] \in Int
    BY DEF BillingTypes
  <1>2. ledger \in [Requests \X (WalletKeys \cup DebitKeys) -> -MaxQuota..MaxQuota]
    BY DEF BillingTypes
  <1>3. QED
    BY <1>1, <1>2, EntriesAreInt DEF WalletNet

\* No request has taken more from the API key than the key shows as used, and
\* no more than it had.
LEMMA KeyWithinUsed ==
  ASSUME BillingTypes, SumsHold, NEW r \in Requests
  PROVE  keyNet[r] <= token.used /\ token.used <= InitialTokenQuota
  <1> DEFINE f == [q \in Requests |-> keyNet[q]]
  <1>1. IsFiniteSet(Requests) /\ \A q \in Requests : f[q] \in Nat
    BY RefundAssumption DEF BillingTypes
  <1>2. token.used = SumFunctionOnSet(f, Requests)
    BY DEF SumsHold, KeySumsHold, SumFunction
  <1>3. f[r] = keyNet[r]
    OBVIOUS
  <1> HIDE DEF f
  <1>4. f[r] <= SumFunctionOnSet(f, Requests)
    BY <1>1, TermWithinSum
  <1>5. token.remain \in Nat /\ token.used \in Nat /\ InitialTokenQuota \in Nat
    BY SessionAssumption, MaxQuotaAssumption DEF BillingTypes
  <1>6. QED
    BY <1>2, <1>3, <1>4, <1>5 DEF SumsHold, KeySumsHold

\* The columns of the API key keep their ranges.
LEMMA TypesFollow ==
  ASSUME BillingTypes, SumsHold
  PROVE  SessionTypeOK
  <1>1. InitialTokenQuota \in 0..MaxQuota /\ MaxQuota \in Nat
    BY SessionAssumption, MaxQuotaAssumption
  <1>2. \A r \in Requests : keyNet[r] \in 0..MaxQuota
    BY <1>1, KeyWithinUsed DEF BillingTypes
  <1>3. token.used \in 0..MaxQuota /\ token.remain \in 0..MaxQuota
    BY <1>1 DEF BillingTypes, SumsHold, KeySumsHold
  <1>4. token \in TokenType
    BY <1>3 DEF BillingTypes, TokenType
  <1>5. keyNet \in [Requests -> 0..MaxQuota]
    BY <1>2 DEF BillingTypes
  <1>6. QED
    BY <1>4, <1>5 DEF BillingTypes, SessionTypeOK, RefundTypeOK

\* d units move from the API key to request q.
KeyMove(q, d) ==
  /\ keyNet' = [keyNet EXCEPT ![q] = @ + d]
  /\ token'.used = token.used + d
  /\ token'.remain = token.remain - d

\* d units are credited to the wallet (or debited, d < 0) under a key of q.
WalletMove(q, kind, d) ==
  /\ user'.quota = user.quota + d
  /\ ledger' = [ledger EXCEPT ![<<q, kind>>] = @ + d]

\* A movement of the API key keeps its columns and the sum of what requests
\* have taken in step.
LEMMA KeySumKept ==
  ASSUME BillingTypes, keyNet' \in [Requests -> Nat], KeySumsHold, NEW q \in Requests,
         NEW d \in Int, KeyMove(q, d)
  PROVE  KeySumsHold'
  <1> DEFINE f == [r \in Requests |-> keyNet[r]]
             ff == [r \in Requests |-> keyNet'[r]]
  <1>1. IsFiniteSet(Requests) /\ \A r \in Requests : f[r] \in Int /\ ff[r] \in Int
    <2>1. \A r \in Requests : keyNet[r] \in Int /\ keyNet'[r] \in Int
      BY DEF BillingTypes
    <2>2. QED
      BY <2>1, RefundAssumption
  <1>2. \A r \in Requests \ {q} : ff[r] = f[r]
    BY DEF KeyMove, BillingTypes
  <1>3. ff[q] = f[q] + d
    BY DEF KeyMove, BillingTypes
  <1>4. token.used = SumFunctionOnSet(f, Requests)
    BY DEF KeySumsHold, SumFunction
  <1>5. SumFunction(ff) = SumFunctionOnSet(ff, Requests)
    BY DEF SumFunction
  <1>6. token'.used = SumFunction(ff) => KeySumsHold'
    <2>1. token.remain \in Int /\ token.used \in Int /\ InitialTokenQuota \in Int
      BY SessionAssumption DEF BillingTypes
    <2>2. QED
      BY <2>1 DEF KeySumsHold, KeyMove
  <1> HIDE DEF f, ff
  <1>7. /\ SumFunctionOnSet(f, Requests) \in Int
        /\ SumFunctionOnSet(ff, Requests) = SumFunctionOnSet(f, Requests) + ff[q] - f[q]
    BY <1>1, <1>2, SumOfChanged
  <1>8. QED
    BY <1>1, <1>3, <1>4, <1>5, <1>6, <1>7 DEF KeyMove

\* A movement of the wallet keeps its balance and the ledger in step.
LEMMA WalletSumKept ==
  ASSUME BillingTypes, WalletSumHolds, NEW q \in Requests,
         ledger' \in [Requests \X (WalletKeys \cup DebitKeys) -> -MaxQuota..MaxQuota],
         NEW kind \in WalletKeys \cup DebitKeys, NEW d \in Int, WalletMove(q, kind, d)
  PROVE  WalletSumHolds'
  <1> DEFINE f == [r \in Requests |-> WalletNet(r)]
             ff == [r \in Requests |-> WalletNet(r)']
  <1>1. IsFiniteSet(Requests) /\ \A r \in Requests : f[r] \in Int /\ ff[r] \in Int
    <2>1. ASSUME NEW r \in Requests PROVE WalletNet(r)' \in Int
      BY EntriesAreInt DEF BillingTypes, WalletNet
    <2>2. QED
      BY <2>1, RefundAssumption, NetIsInt
  <1>2. \A r \in Requests \ {q} : ff[r] = f[r]
    <2>1. \A r \in Requests \ {q} : \A other \in WalletKeys \cup DebitKeys :
            ledger'[<<r, other>>] = ledger[<<r, other>>]
      BY DEF WalletMove, BillingTypes
    <2>2. \A r \in Requests \ {q} : WalletNet(r)' = WalletNet(r)
      BY <2>1 DEF WalletNet, WalletKeys, DebitKeys
    <2>3. QED
      BY <2>2
  <1>3. ff[q] = f[q] - d
    <2>1. ledger'[<<q, kind>>] = ledger[<<q, kind>>] + d
      BY DEF WalletMove, BillingTypes
    <2>2. \A other \in (WalletKeys \cup DebitKeys) \ {kind} :
            ledger'[<<q, other>>] = ledger[<<q, other>>]
      BY DEF WalletMove, BillingTypes
    <2>3. \A other \in WalletKeys \cup DebitKeys : ledger[<<q, other>>] \in Int
      BY NetIsInt
    <2>4. /\ ledger[<<q, "wallet">>] \in Int /\ ledger[<<q, "wallet-settle-refund">>] \in Int
          /\ ledger[<<q, "wallet-reserve">>] \in Int
          /\ ledger[<<q, "wallet-preconsume">>] \in Int
          /\ ledger[<<q, "wallet-settle-debit">>] \in Int
          /\ ledger[<<q, "wallet-reserve-debit">>] \in Int
      BY <2>3 DEF WalletKeys, DebitKeys
    <2>5. WalletNet(q)' = WalletNet(q) - d
      <3>1. CASE kind \in WalletKeys
        BY <2>1, <2>2, <2>4, <3>1 DEF WalletNet, WalletKeys, DebitKeys
      <3>2. CASE kind \in DebitKeys
        BY <2>1, <2>2, <2>4, <3>2 DEF WalletNet, WalletKeys, DebitKeys
      <3>3. QED
        BY <3>1, <3>2
    <2>6. QED
      BY <2>5
  <1>4. user.quota = InitialQuota - SumFunctionOnSet(f, Requests)
    BY DEF WalletSumHolds, SumFunction
  <1>5. SumFunction(ff) = SumFunctionOnSet(ff, Requests)
    BY DEF SumFunction
  <1>6. user'.quota = InitialQuota - SumFunction(ff) => WalletSumHolds'
    BY DEF WalletSumHolds
  <1> HIDE DEF f, ff
  <1>7. /\ SumFunctionOnSet(f, Requests) \in Int
        /\ SumFunctionOnSet(ff, Requests) = SumFunctionOnSet(f, Requests) + ff[q] - f[q]
    BY <1>1, <1>2, SumOfChanged
  <1>8. InitialQuota \in Int
    BY SessionAssumption
  <1>9. QED
    BY <1>1, <1>3, <1>4, <1>5, <1>6, <1>7, <1>8 DEF WalletMove
-------------------------------------------------------------------------------
(***************************************************************************)
(* The session's steps change the session of one request, what it has      *)
(* taken and where it is in the queue.                                     *)
(***************************************************************************)

\* Nothing of request q changes.
Untouched(q) ==
  /\ session'[q] = session[q] /\ keyNet'[q] = keyNet[q] /\ proc'[q] = proc[q]
  /\ \A kind \in WalletKeys \cup DebitKeys : ledger'[<<q, kind>>] = ledger[<<q, kind>>]
  /\ \A kind \in TokenKeys \cup WalletKeys : row'[<<q, kind>>] = row[<<q, kind>>]

\* What does not change keeps fitting.
LEMMA UntouchedFits ==
  ASSUME NEW q \in Requests, Untouched(q), Fits(q), ProcFits(q)
  PROVE  Fits(q)' /\ ProcFits(q)'
  <1>1. /\ session'[q] = session[q] /\ keyNet'[q] = keyNet[q]
        /\ row'[<<q, "token">>] = row[<<q, "token">>]
        /\ row'[<<q, "token-preconsume">>] = row[<<q, "token-preconsume">>]
        /\ row'[<<q, "wallet">>] = row[<<q, "wallet">>]
        /\ row'[<<q, "wallet-settle-refund">>] = row[<<q, "wallet-settle-refund">>]
        /\ row'[<<q, "wallet-reserve">>] = row[<<q, "wallet-reserve">>]
        /\ \A kind \in TokenKeys : row'[<<q, kind>>] = row[<<q, kind>>]
        /\ ledger'[<<q, "wallet">>] = ledger[<<q, "wallet">>]
        /\ ledger'[<<q, "wallet-settle-refund">>] = ledger[<<q, "wallet-settle-refund">>]
        /\ ledger'[<<q, "wallet-reserve">>] = ledger[<<q, "wallet-reserve">>]
        /\ ledger'[<<q, "wallet-preconsume">>] = ledger[<<q, "wallet-preconsume">>]
        /\ ledger'[<<q, "wallet-settle-debit">>] = ledger[<<q, "wallet-settle-debit">>]
        /\ ledger'[<<q, "wallet-reserve-debit">>] = ledger[<<q, "wallet-reserve-debit">>]
        /\ \A kind \in DebitKeys : ledger'[<<q, kind>>] = ledger[<<q, kind>>]
    BY DEF Untouched, WalletKeys, DebitKeys, TokenKeys
  <1>2. RowsFit(q)'
    BY <1>1 DEF Fits, RowsFit, NoneOf, Plain, s, FundingDelta
  <1>3. KeyStages(q)' /\ KeyCovers(q)' /\ KeyExact(q)'
    BY <1>1 DEF Fits, KeyStages, KeyCovers, KeyExact, Plain, s
  <1>4. WalletStages(q)' /\ SettleFits(q)' /\ WalletExact(q)'
    BY <1>1 DEF Fits, WalletStages, SettleFits, WalletExact, Plain, s, FundingDelta,
                KeyExtension, Limited
  <1>5. ProcFits(q)'
    BY <1>1 DEF Untouched, ProcFits, WaitsFor, Plain, s, FundingDelta, FundingExtension,
                NoneOf
  <1>6. QED
    BY <1>2, <1>3, <1>4, <1>5 DEF Fits

\* A step of the session of r: the queue's rows and the credits of the ledger
\* stay, and so does everything of the others.
SessionMove(r) ==
  /\ row' = row /\ batch' = batch
  /\ session' = [session EXCEPT ![r] = session'[r]]
  /\ keyNet' = [keyNet EXCEPT ![r] = keyNet'[r]]
  /\ proc' = [proc EXCEPT ![r] = proc'[r]]
  /\ \A q \in Requests : \A kind \in WalletKeys \cup DebitKeys :
       q # r \/ kind \in WalletKeys => ledger'[<<q, kind>>] = ledger[<<q, kind>>]

\* Such a step keeps the invariant when it keeps the types and the sums and
\* what is said of r.
LEMMA SessionMoveKeeps ==
  ASSUME BillingInv, NEW r \in Requests, SessionMove(r), BillingTypes', SumsHold',
         Fits(r)', ProcFits(r)'
  PROVE  BillingInv'
  <1>1. ASSUME NEW q \in Requests
        PROVE  Fits(q)' /\ ProcFits(q)'
    <2>1. CASE q = r
      BY <2>1
    <2>2. CASE q # r
      <3>1. Untouched(q)
        <4>1. q \in Actors
          BY DEF Actors
        <4>2. QED
          BY <2>2, <4>1 DEF Untouched, SessionMove, BillingInv, BillingTypes
      <3>2. QED
        BY <3>1, UntouchedFits DEF BillingInv
    <2>3. QED
      BY <2>1, <2>2
  <1>2. ASSUME NEW k \in RefundKeys
        PROVE  RowFits(k)'
    <2>1. k[2] \in WalletKeys => ledger'[k] = ledger[k]
      <3>1. k = <<k[1], k[2]>> /\ k[1] \in Requests
        BY DEF RefundKeys
      <3>2. QED
        BY <3>1 DEF SessionMove
    <2>2. QED
      BY <2>1 DEF RowFits, BillingInv, SessionMove
  <1>3. CompensatorFits'
    <2>1. Compensator # r /\ Compensator \in Actors
      BY RefundAssumption DEF Actors
    <2>2. proc'[Compensator] = proc[Compensator]
      BY <2>1 DEF SessionMove, BillingInv, BillingTypes
    <2>3. QED
      BY <2>2 DEF CompensatorFits, SessionMove, BillingInv
  <1>4. QED
    BY <1>1, <1>2, <1>3 DEF BillingInv
-------------------------------------------------------------------------------
(***************************************************************************)
(* What the calls of a session may do to the wallet and to the API key.    *)
(***************************************************************************)
LedgerType == [Requests \X (WalletKeys \cup DebitKeys) -> -MaxQuota..MaxQuota]
KeyType == [remain : Nat, used : Nat, status : {"enabled", "exhausted"}]

\* A debit under a key of r took the amount, or nothing.
Debited(r, kind, amount) ==
  /\ user' \in UserType /\ ledger' \in LedgerType
  /\ WalletSumHolds'
  /\ \A q \in Requests : \A other \in WalletKeys \cup DebitKeys :
       q # r \/ other # kind => ledger'[<<q, other>>] = ledger[<<q, other>>]
  /\ ledger'[<<r, kind>>] \in {ledger[<<r, kind>>], -amount}

\* A movement of the wallet that keeps the columns' ranges is a sound debit.
LEMMA DebitIsSound ==
  ASSUME BillingTypes, WalletSumHolds, NEW r \in Requests, NEW kind \in DebitKeys,
         NEW amount \in 0..MaxQuota, NEW settlement \in BOOLEAN,
         CanDebit(r, kind, amount, settlement), Debit(r, kind, amount, settlement)
  PROVE  /\ Debited(r, kind, amount)
         /\ ledger[<<r, kind>>] = 0 => ledger'[<<r, kind>>] = -amount
         /\ ledger[<<r, kind>>] # 0 => ledger' = ledger
  <1> DEFINE k == <<r, kind>>
  <1>0. /\ k \in Requests \X (WalletKeys \cup DebitKeys) /\ MaxQuota \in Nat
        /\ ledger \in LedgerType /\ user \in UserType /\ user.quota \in -MaxQuota..MaxQuota
    BY MaxQuotaAssumption DEF BillingTypes, LedgerType, UserType
  <1>1. CASE ledger[k] # 0
    <2>1. user' = user /\ ledger' = ledger
      BY <1>1 DEF Debit
    <2>2. WalletSumHolds'
      BY <2>1 DEF WalletSumHolds, WalletNet
    <2>3. QED
      BY <1>0, <1>1, <2>1, <2>2 DEF Debited
  <1>2. CASE ledger[k] = 0
    <2>1. /\ user' = balanceLedgerUserUpdates(user, user.quota - amount, settlement)
          /\ ledger' = [ledger EXCEPT ![k] = -amount]
      BY <1>2 DEF Debit
    <2>2. user.quota - amount \in -MaxQuota..MaxQuota
      BY <1>0, <1>2 DEF CanDebit, checkedBalanceLedgerSum, checkedSettlementBalanceLedgerSum
    <2>3. user' \in UserType /\ user'.quota = user.quota - amount
      BY <1>0, <2>1, <2>2 DEF balanceLedgerUserUpdates, UserType
    <2>4. -amount \in -MaxQuota..MaxQuota /\ -amount \in Int /\ ledger[k] + (-amount) = -amount
      BY <1>0, <1>2
    <2>5. ledger' \in LedgerType
      BY <1>0, <2>1, <2>4 DEF LedgerType
    <2>6. WalletMove(r, kind, -amount)
      <3>1. user'.quota = user.quota + (-amount)
        BY <1>0, <2>3
      <3>2. ledger' = [ledger EXCEPT ![<<r, kind>>] = @ + (-amount)]
        BY <1>2, <2>1, <2>4
      <3>3. QED
        BY <3>1, <3>2 DEF WalletMove
    <2>7. WalletSumHolds'
      BY <2>4, <2>5, <2>6, WalletSumKept DEF LedgerType
    <2>8. ledger'[k] = -amount
      BY <1>0, <2>1 DEF LedgerType
    <2>9. \A q \in Requests : \A other \in WalletKeys \cup DebitKeys :
            q # r \/ other # kind => ledger'[<<q, other>>] = ledger[<<q, other>>]
      BY <1>0, <2>1 DEF LedgerType
    <2>10. QED
      BY <1>2, <2>3, <2>5, <2>7, <2>8, <2>9 DEF Debited
  <1>3. QED
    BY <1>1, <1>2

\* The four outcomes of a debit: it succeeds, or it is reported as failed
\* whether or not it has taken anything.
LEMMA DebitOutcomes ==
  ASSUME BillingTypes, WalletSumHolds, NEW r \in Requests, NEW kind \in DebitKeys,
         NEW amount \in 0..MaxQuota, NEW settlement \in BOOLEAN, NEW onSuccess, NEW onError,
         DebitCall(r, kind, amount, settlement, onSuccess, onError)
  PROVE  /\ Debited(r, kind, amount) /\ refundFaults' \in 0..MaxRefundFaults
         /\ \/ /\ session' = [session EXCEPT ![r] = onSuccess]
               /\ ledger[<<r, kind>>] = 0 => ledger'[<<r, kind>>] = -amount
               /\ ledger[<<r, kind>>] # 0 => ledger' = ledger
            \/ session' = [session EXCEPT ![r] = onError]
  <1>0. refundFaults' \in 0..MaxRefundFaults
    BY RefundAssumption
       DEF DebitCall, NoRefundFault, RefundFault, TwoFaults, BillingTypes
  <1>1. CASE UNCHANGED <<user, ledger>> /\ session' = [session EXCEPT ![r] = onError]
    <2>1. WalletSumHolds'
      BY <1>1 DEF WalletSumHolds, WalletNet
    <2>2. QED
      BY <1>0, <1>1, <2>1 DEF Debited, BillingTypes, LedgerType
  <1>2. CASE /\ CanDebit(r, kind, amount, settlement) /\ Debit(r, kind, amount, settlement)
             /\ \/ session' = [session EXCEPT ![r] = onSuccess]
                \/ session' = [session EXCEPT ![r] = onError]
    BY <1>0, <1>2, DebitIsSound
  <1>3. QED
    BY <1>1, <1>2 DEF DebitCall

\* r takes d units of the API key, or gives them back.
KeyMoved(r, d) ==
  /\ token' \in KeyType /\ keyNet' \in [Requests -> Nat]
  /\ KeySumsHold'
  /\ keyNet' = [keyNet EXCEPT ![r] = @ + d]

\* A sound movement of the key's two columns.
LEMMA KeyMoveIsSound ==
  ASSUME BillingTypes, KeySumsHold, NEW r \in Requests, NEW d \in Int, KeyMove(r, d),
         token'.status \in {"enabled", "exhausted"},
         token' \in [remain : Int, used : Int, status : {"enabled", "exhausted"}],
         token.remain - d >= 0, token.used + d >= 0, keyNet[r] + d >= 0
  PROVE  KeyMoved(r, d)
  <1>1. keyNet' \in [Requests -> Nat]
    BY DEF KeyMove, BillingTypes
  <1>2. token' \in KeyType
    BY DEF KeyMove, BillingTypes, KeyType
  <1>3. KeySumsHold'
    BY <1>1, KeySumKept
  <1>4. QED
    BY <1>1, <1>2, <1>3 DEF KeyMoved, KeyMove

\* decreaseTokenQuota takes what the key has.
LEMMA DecreaseIsSound ==
  ASSUME BillingTypes, KeySumsHold, NEW r \in Requests, NEW amount \in Nat,
         CanDecrease(amount), DecreaseTokenQuota(r, amount)
  PROVE  KeyMoved(r, amount)
  <1>1. /\ token' = [token EXCEPT !.remain = @ - amount, !.used = @ + amount]
        /\ keyNet' = [keyNet EXCEPT ![r] = @ + amount]
    BY DEF DecreaseTokenQuota
  <1>2. /\ token.remain \in Nat /\ token.used \in Nat /\ keyNet[r] \in Nat
        /\ token.status \in {"enabled", "exhausted"}
    BY DEF BillingTypes
  <1>3. /\ token' \in [remain : Int, used : Int, status : {"enabled", "exhausted"}]
        /\ token'.remain = token.remain - amount /\ token'.used = token.used + amount
        /\ token'.status = token.status
    <2>1. token \in KeyType
      BY DEF BillingTypes, KeyType
    <2>2. token' = [remain |-> token.remain - amount, used |-> token.used + amount,
                    status |-> token.status]
      BY <1>1, <2>1 DEF KeyType
    <2>3. QED
      BY <1>2, <2>2
  <1>4. token.remain - amount >= 0 /\ token.used + amount >= 0 /\ keyNet[r] + amount >= 0
    BY <1>2 DEF CanDecrease
  <1>5. KeyMove(r, amount)
    BY <1>1, <1>3 DEF KeyMove
  <1>6. QED
    BY <1>2, <1>3, <1>4, <1>5, KeyMoveIsSound

\* increaseTokenQuota gives back what this request has taken.
LEMMA IncreaseIsSound ==
  ASSUME BillingTypes, SumsHold, NEW r \in Requests, NEW amount \in Nat,
         keyNet[r] >= amount, IncreaseTokenQuota(r, amount)
  PROVE  KeyMoved(r, -amount)
  <1>1. /\ token' = [token EXCEPT !.remain = @ + amount, !.used = @ - amount]
        /\ keyNet' = [keyNet EXCEPT ![r] = @ - amount]
    BY DEF IncreaseTokenQuota
  <1>2. /\ token.remain \in Nat /\ token.used \in Nat /\ keyNet[r] \in Nat
        /\ token.status \in {"enabled", "exhausted"}
    BY DEF BillingTypes
  <1>3. /\ token' \in [remain : Int, used : Int, status : {"enabled", "exhausted"}]
        /\ token'.remain = token.remain + amount /\ token'.used = token.used - amount
        /\ token'.status = token.status
    <2>1. token \in KeyType
      BY DEF BillingTypes, KeyType
    <2>2. token' = [remain |-> token.remain + amount, used |-> token.used - amount,
                    status |-> token.status]
      BY <1>1, <2>1 DEF KeyType
    <2>3. QED
      BY <1>2, <2>2
  <1>4. /\ token.remain - (-amount) >= 0 /\ token.used + (-amount) >= 0
        /\ keyNet[r] + (-amount) >= 0
    BY <1>2, KeyWithinUsed
  <1>5. KeyMove(r, -amount)
    <2>1. keyNet[r] - amount = keyNet[r] + (-amount)
      BY <1>2
    <2>2. keyNet' = [keyNet EXCEPT ![r] = @ + (-amount)]
      BY <1>1, <2>1
    <2>3. QED
      BY <1>2, <1>3, <2>2 DEF KeyMove
  <1>6. QED
    BY <1>2, <1>3, <1>4, <1>5, KeyMoveIsSound DEF SumsHold

\* ExhaustTokenQuota takes all that is left.
LEMMA ExhaustIsSound ==
  ASSUME BillingTypes, KeySumsHold, NEW r \in Requests, ExhaustTokenQuota(r)
  PROVE  KeyMoved(r, token.remain)
  <1>1. /\ token' = [remain |-> 0, used |-> token.used + token.remain, status |-> "exhausted"]
        /\ keyNet' = [keyNet EXCEPT ![r] = @ + token.remain]
    BY DEF ExhaustTokenQuota
  <1>2. token.remain \in Nat /\ token.used \in Nat /\ keyNet[r] \in Nat
    BY DEF BillingTypes
  <1>3. /\ token' \in [remain : Int, used : Int, status : {"enabled", "exhausted"}]
        /\ token'.remain = token.remain - token.remain
        /\ token'.used = token.used + token.remain
        /\ token'.status \in {"enabled", "exhausted"}
    BY <1>1, <1>2
  <1>4. KeyMove(r, token.remain)
    BY <1>1, <1>3 DEF KeyMove
  <1>5. QED
    BY <1>2, <1>3, <1>4, KeyMoveIsSound
-------------------------------------------------------------------------------
(***************************************************************************)
(* Each step of a session keeps the invariant.  A step whose session still *)
(* fits the rows, the API key and the wallet is shown for the request that *)
(* takes it; SessionMoveKeeps does the rest.                               *)
(***************************************************************************)

\* The numbers of a session.
LEMMA SessionNumbers ==
  ASSUME BillingTypes, NEW r \in Requests
  PROVE  /\ MaxQuota \in Nat /\ s(r) \in SessionType
         /\ s(r).target \in 0..MaxQuota /\ s(r).actual \in 0..MaxQuota
         /\ s(r).preConsumed \in 0..MaxQuota /\ s(r).tokenConsumed \in 0..MaxQuota
         /\ s(r).consumed \in 0..MaxQuota /\ s(r).reserves \in 0..MaxReserves
         /\ s(r).fundingSettled \in BOOLEAN /\ s(r).tokenRefunded \in BOOLEAN
         /\ keyNet[r] \in Nat
  BY MaxQuotaAssumption DEF BillingTypes, s, SessionType

\* A step that touches neither wallet, key nor queue.
LEMMA QuietMove ==
  ASSUME BillingInv, NEW r \in Requests, NEW v \in SessionType,
         session' = [session EXCEPT ![r] = v],
         UNCHANGED <<user, token, ledger, row, batch, keyNet>>,
         proc' = [proc EXCEPT ![r] = proc'[r]], proc'[r] \in ProcType,
         refundFaults' \in 0..MaxRefundFaults, Fits(r)', ProcFits(r)'
  PROVE  BillingInv'
  <1>1. SessionMove(r)
    BY DEF SessionMove, BillingInv, BillingTypes
  <1>2. BillingTypes'
    BY DEF BillingInv, BillingTypes
  <1>3. SumsHold'
    BY DEF BillingInv, SumsHold, WalletSumHolds, KeySumsHold, WalletNet
  <1>4. QED
    BY <1>1, <1>2, <1>3, SessionMoveKeeps


\* Everything of a session but its position stays.
SameButPc(v, u) ==
  /\ v.target = u.target /\ v.actual = u.actual /\ v.preConsumed = u.preConsumed
  /\ v.tokenConsumed = u.tokenConsumed /\ v.consumed = u.consumed /\ v.reserves = u.reserves
  /\ v.fundingSettled = u.fundingSettled /\ v.tokenRefunded = u.tokenRefunded

\* A session that moves on to another position.
LEMMA OnlyPc ==
  ASSUME BillingTypes, NEW r \in Requests, NEW pc \in SessionPCs,
         SessionGoes(r, pc)
  PROVE  \E v \in SessionType : /\ session' = [session EXCEPT ![r] = v] /\ s(r)' = v
                                /\ v.pc = pc /\ SameButPc(v, s(r))
  <1> DEFINE v == [s(r) EXCEPT !.pc = pc]
  <1>1. session' = [session EXCEPT ![r] = v]
    BY DEF SessionGoes, s
  <1>2. v \in SessionType /\ v.pc = pc /\ SameButPc(v, s(r))
    BY SessionNumbers DEF SessionType, SameButPc
  <1>3. s(r)' = v
    BY <1>1 DEF s, BillingTypes
  <1> HIDE DEF v
  <1>4. QED
    BY <1>1, <1>2, <1>3

\* What the invariant says of one request.
LEMMA InvOf ==
  ASSUME BillingInv, NEW r \in Requests
  PROVE  /\ BillingTypes /\ SumsHold /\ ProcFits(r)
         /\ RowsFit(r) /\ KeyStages(r) /\ KeyCovers(r) /\ KeyExact(r)
         /\ WalletStages(r) /\ SettleFits(r) /\ WalletExact(r)
         /\ proc \in [Actors -> ProcType] /\ r \in Actors
         /\ \A kind \in TokenKeys \cup WalletKeys : RowFits(<<r, kind>>)
  <1>1. r \in Actors
    BY DEF Actors
  <1>2. \A kind \in TokenKeys \cup WalletKeys : RowFits(<<r, kind>>)
    BY DEF BillingInv, RefundKeys
  <1>3. QED
    BY <1>1, <1>2 DEF BillingInv, BillingTypes, Fits

\* SettleAgain keeps the invariant.
LEMMA SettleAgainKeeps ==
  ASSUME BillingInv, NEW r \in Requests, SettleAgain(r)
  PROVE  BillingInv'
  <1>1. /\ BillingTypes /\ SumsHold /\ ProcFits(r)
        /\ RowsFit(r) /\ KeyStages(r) /\ KeyCovers(r) /\ KeyExact(r)
        /\ WalletStages(r) /\ SettleFits(r) /\ WalletExact(r)
        /\ proc \in [Actors -> ProcType] /\ r \in Actors
        /\ \A kind \in TokenKeys \cup WalletKeys : RowFits(<<r, kind>>)
    BY InvOf
  <1>2. UNCHANGED <<user, token, ledger, row, proc, batch, keyNet, refundFaults>>
    BY DEF SettleAgain, refundVars
  <1>3. s(r).pc = "settleFailed"
    BY DEF SettleAgain
  <1>4. PICK v \in SessionType : /\ session' = [session EXCEPT ![r] = v] /\ s(r)' = v
                                 /\ v.pc = "settle" /\ SameButPc(v, s(r))
    BY <1>1, OnlyPc DEF SettleAgain, SessionPCs
  <1>5. RowsFit(r)'
    BY <1>1, <1>2, <1>3, <1>4
       DEF RowsFit, NoneOf, Plain, s, RefundPCs, SettlePCs, FundingDelta, SameButPc
  <1>6. KeyStages(r)'
    BY <1>1, <1>2, <1>3, <1>4 DEF KeyStages, s, RefundPCs, SameButPc
  <1>7. KeyCovers(r)'
    BY <1>1, <1>2, <1>3, <1>4
       DEF RowsFit, KeyStages, KeyCovers, RowFits, NoneOf, TokenKeys, Plain, s, RefundPCs,
           SameButPc
  <1>8. KeyExact(r)'
    BY <1>1, <1>2, <1>3, <1>4
       DEF RowsFit, KeyStages, KeyCovers, KeyExact, RowFits, NoneOf, Plain, s, RefundPCs,
           SameButPc
  <1>9. WalletStages(r)'
    BY <1>1, <1>2, <1>3, <1>4
       DEF WalletStages, Plain, s, ReservePCs, SettlePCs, DebitKeys, FundingDelta,
           KeyExtension, Limited, SameButPc
  <1>10. SettleFits(r)'
    BY <1>1, <1>2, <1>3, <1>4
       DEF RowsFit, NoneOf, WalletStages, SettleFits, s, SettlePCs, FundingDelta, SameButPc
  <1>11. WalletExact(r)'
    BY <1>1, <1>2, <1>3, <1>4
       DEF RowsFit, NoneOf, WalletStages, SettleFits, WalletExact, Plain, s, RefundPCs,
           SettlePCs, ReservePCs, OpenedPCs, SameButPc
  <1>12. ProcFits(r)'
    BY <1>1, <1>2, <1>3, <1>4 DEF ProcFits, s
  <1>13. QED
    BY <1>1, <1>2, <1>4, <1>5, <1>6, <1>7, <1>8, <1>9, <1>10, <1>11, <1>12, QuietMove
       DEF Fits, BillingTypes

\* The request leaves the queue.
LEMMA Returned ==
  ASSUME BillingTypes, NEW r \in Requests, Return(r, "idle")
  PROVE  /\ proc' = [proc EXCEPT ![r] = proc'[r]]
         /\ proc'[r] \in ProcType /\ proc'[r].at = "idle"
  <1>1. proc \in [Actors -> ProcType] /\ r \in Actors
    BY DEF BillingTypes, Actors
  <1>2. At("idle") \in ProcType /\ At("idle").at = "idle"
    BY MaxQuotaAssumption DEF At, ProcType
  <1>3. QED
    BY <1>1, <1>2 DEF Return

\* The request enters the queue.
LEMMA Queued ==
  ASSUME BillingTypes, NEW r \in Requests, NEW kind \in TokenKeys \cup WalletKeys,
         NEW amount \in 0..MaxQuota, Queue(r, kind, amount)
  PROVE  /\ proc' = [proc EXCEPT ![r] = proc'[r]] /\ proc'[r] \in ProcType
         /\ proc'[r].at = "ensure" /\ proc'[r].key = <<r, kind>> /\ proc'[r].amount = amount
  <1>1. proc \in [Actors -> ProcType] /\ r \in Actors
    BY DEF BillingTypes, Actors
  <1> DEFINE p == [at |-> "ensure", key |-> <<r, kind>>, amount |-> amount]
  <1>2. p \in ProcType
    BY DEF ProcType, RefundKeys
  <1>3. p.at = "ensure" /\ p.key = <<r, kind>> /\ p.amount = amount
    OBVIOUS
  <1>4. proc' = [proc EXCEPT ![r] = p]
    BY DEF Queue
  <1> HIDE DEF p
  <1>5. QED
    BY <1>1, <1>2, <1>3, <1>4

\* RefundSession keeps the invariant.
LEMMA RefundSessionKeeps ==
  ASSUME BillingInv, NEW r \in Requests, RefundSession(r)
  PROVE  BillingInv'
  <1>1. /\ BillingTypes /\ SumsHold /\ ProcFits(r)
        /\ RowsFit(r) /\ KeyStages(r) /\ KeyCovers(r) /\ KeyExact(r)
        /\ WalletStages(r) /\ SettleFits(r) /\ WalletExact(r)
        /\ proc \in [Actors -> ProcType] /\ r \in Actors
        /\ \A kind \in TokenKeys \cup WalletKeys : RowFits(<<r, kind>>)
    BY InvOf
  <1>2. UNCHANGED <<user, token, ledger, row, proc, batch, keyNet, refundFaults>>
    BY DEF RefundSession, refundVars
  <1>3. s(r).pc \in {"open", "refundFailed"}
    BY DEF RefundSession
  <1>4. PICK v \in SessionType :
          /\ session' = [session EXCEPT ![r] = v] /\ s(r)' = v /\ SameButPc(v, s(r))
          /\ v.pc = IF NeedsRefund(r) THEN "refund" ELSE "refunded"
    <2>1. (IF NeedsRefund(r) THEN "refund" ELSE "refunded") \in SessionPCs
      BY DEF SessionPCs
    <2>2. QED
      BY <1>1, <2>1, OnlyPc DEF RefundSession
  <1>5. RowsFit(r)'
    BY <1>1, <1>2, <1>3, <1>4, SessionNumbers
       DEF RowsFit, NoneOf, Plain, s, RefundPCs, SettlePCs, FundingDelta, SameButPc,
           NeedsRefund
  <1>6. KeyStages(r)'
    BY <1>1, <1>2, <1>3, <1>4, SessionNumbers
       DEF KeyStages, s, RefundPCs, SameButPc, NeedsRefund
  <1>7. KeyCovers(r)'
    BY <1>1, <1>2, <1>3, <1>4, SessionNumbers
       DEF RowsFit, KeyStages, KeyCovers, RowFits, NoneOf, TokenKeys, Plain, s, RefundPCs,
           SameButPc, NeedsRefund
  <1>8. KeyExact(r)'
    BY <1>1, <1>2, <1>3, <1>4, SessionNumbers
       DEF RowsFit, KeyStages, KeyCovers, KeyExact, RowFits, NoneOf, Plain, s, RefundPCs,
           SameButPc, NeedsRefund, SettleFits, TokenKeys, WalletKeys
  <1>9. WalletStages(r)'
    BY <1>1, <1>2, <1>3, <1>4, SessionNumbers
       DEF WalletStages, Plain, s, ReservePCs, SettlePCs, DebitKeys, FundingDelta,
           KeyExtension, Limited, SameButPc, NeedsRefund
  <1>10. SettleFits(r)'
    BY <1>1, <1>2, <1>3, <1>4, SessionNumbers
       DEF RowsFit, NoneOf, WalletStages, SettleFits, s, SettlePCs, FundingDelta, SameButPc,
           NeedsRefund
  <1>11. WalletExact(r)'
    BY <1>1, <1>2, <1>3, <1>4, SessionNumbers
       DEF RowsFit, NoneOf, WalletStages, SettleFits, WalletExact, Plain, s, RefundPCs,
           SettlePCs, ReservePCs, OpenedPCs, SameButPc, NeedsRefund, RowFits, WalletKeys
  <1>12. ProcFits(r)'
    BY <1>1, <1>2, <1>3, <1>4 DEF ProcFits, s
  <1>13. QED
    BY <1>1, <1>2, <1>4, <1>5, <1>6, <1>7, <1>8, <1>9, <1>10, <1>11, <1>12, QuietMove
       DEF Fits, BillingTypes

\* RefundFunding keeps the invariant.
LEMMA RefundFundingKeeps ==
  ASSUME BillingInv, NEW r \in Requests, RefundFunding(r)
  PROVE  BillingInv'
  <1>1. /\ BillingTypes /\ SumsHold /\ ProcFits(r)
        /\ RowsFit(r) /\ KeyStages(r) /\ KeyCovers(r) /\ KeyExact(r)
        /\ WalletStages(r) /\ SettleFits(r) /\ WalletExact(r)
        /\ proc \in [Actors -> ProcType] /\ r \in Actors
        /\ \A kind \in TokenKeys \cup WalletKeys : RowFits(<<r, kind>>)
    BY InvOf
  <1>2. UNCHANGED <<user, token, ledger, row, batch, keyNet, refundFaults>>
    BY DEF RefundFunding
  <1>3. s(r).pc = "fundingRefund"
    BY DEF RefundFunding
  <1>4. PICK v \in SessionType :
          /\ session' = [session EXCEPT ![r] = v] /\ s(r)' = v /\ SameButPc(v, s(r))
          /\ v.pc = IF s(r).consumed > 0 THEN "fundingRefunding" ELSE "refunded"
    BY <1>1, OnlyPc DEF RefundFunding, SessionPCs
  <1>5. RowsFit(r)'
    BY <1>1, <1>2, <1>3, <1>4, SessionNumbers
       DEF RowsFit, NoneOf, Plain, s, RefundPCs, SettlePCs, FundingDelta, SameButPc,
           WalletKeys
  <1>6. KeyStages(r)'
    BY <1>1, <1>2, <1>3, <1>4, SessionNumbers DEF KeyStages, s, RefundPCs, SameButPc, WalletKeys
  <1>7. KeyCovers(r)'
    BY <1>1, <1>2, <1>3, <1>4, SessionNumbers
       DEF RowsFit, KeyStages, KeyCovers, RowFits, NoneOf, TokenKeys, Plain, s, RefundPCs,
           SameButPc, WalletKeys
  <1>8. KeyExact(r)'
    BY <1>1, <1>2, <1>3, <1>4, SessionNumbers
       DEF RowsFit, KeyStages, KeyCovers, KeyExact, RowFits, NoneOf, Plain, s, RefundPCs,
           SameButPc, WalletKeys
  <1>9. WalletStages(r)'
    BY <1>1, <1>2, <1>3, <1>4, SessionNumbers
       DEF WalletStages, Plain, s, ReservePCs, SettlePCs, DebitKeys, FundingDelta,
           KeyExtension, Limited, SameButPc, WalletKeys
  <1>10. SettleFits(r)'
    BY <1>1, <1>2, <1>3, <1>4, SessionNumbers
       DEF RowsFit, NoneOf, WalletStages, SettleFits, s, SettlePCs, FundingDelta, SameButPc,
           WalletKeys
  <1>11. WalletExact(r)'
    BY <1>1, <1>2, <1>3, <1>4, SessionNumbers
       DEF RowsFit, NoneOf, WalletStages, SettleFits, WalletExact, Plain, s, RefundPCs,
           SettlePCs, ReservePCs, OpenedPCs, SameButPc, WalletKeys, RowFits
  <1>12. ProcFits(r)' /\ proc' = [proc EXCEPT ![r] = proc'[r]] /\ proc'[r] \in ProcType
    <2>1. CASE s(r).consumed > 0
      <3>1. "wallet" \in WalletKeys /\ s(r).consumed \in 0..MaxQuota
        BY <1>1, SessionNumbers DEF WalletKeys
      <3>2. /\ proc' = [proc EXCEPT ![r] = proc'[r]] /\ proc'[r] \in ProcType
            /\ proc'[r].at = "ensure" /\ proc'[r].key = <<r, "wallet">>
            /\ proc'[r].amount = s(r).consumed
        BY <1>1, <2>1, <3>1, Queued DEF RefundFunding
      <3>3. QED
        BY <1>2, <1>3, <1>4, <2>1, <3>2 DEF ProcFits, WaitsFor, SameButPc, s
    <2>2. CASE ~(s(r).consumed > 0)
      <3>1. proc' = proc /\ proc[r].at = "idle"
        BY <1>1, <1>3, <2>2 DEF RefundFunding, ProcFits
      <3>2. QED
        BY <1>1, <1>3, <1>4, <2>2, <3>1 DEF ProcFits, s
    <2>3. QED
      BY <2>1, <2>2
  <1>13. QED
    BY <1>1, <1>2, <1>4, <1>5, <1>6, <1>7, <1>8, <1>9, <1>10, <1>11, <1>12, QuietMove
       DEF Fits, BillingTypes

\* FundingRefunded keeps the invariant.
LEMMA FundingRefundedKeeps ==
  ASSUME BillingInv, NEW r \in Requests, FundingRefunded(r)
  PROVE  BillingInv'
  <1>1. /\ BillingTypes /\ SumsHold /\ ProcFits(r)
        /\ RowsFit(r) /\ KeyStages(r) /\ KeyCovers(r) /\ KeyExact(r)
        /\ WalletStages(r) /\ SettleFits(r) /\ WalletExact(r)
        /\ proc \in [Actors -> ProcType] /\ r \in Actors
        /\ \A kind \in TokenKeys \cup WalletKeys : RowFits(<<r, kind>>)
    BY InvOf
  <1>2. UNCHANGED <<user, token, ledger, row, batch, keyNet, refundFaults>>
    BY DEF FundingRefunded
  <1>3. s(r).pc = "fundingRefunding"
    BY DEF FundingRefunded
  <1>4. PICK v \in SessionType :
          /\ session' = [session EXCEPT ![r] = v] /\ s(r)' = v /\ SameButPc(v, s(r))
          /\ v.pc \in {"refunded", "refundFailed"}
          /\ v.pc = "refunded" => ledger[<<r, "wallet">>] = s(r).consumed
    <2>1. (IF Succeeded(r) THEN "refunded" ELSE "refundFailed") \in SessionPCs
      BY DEF SessionPCs
    <2>2. Succeeded(r) => ledger[<<r, "wallet">>] = s(r).consumed
      BY <1>1, <1>3 DEF Succeeded, ProcFits, WaitsFor, WalletKeys
    <2>3. PICK v \in SessionType :
          /\ session' = [session EXCEPT ![r] = v] /\ s(r)' = v /\ SameButPc(v, s(r))
          /\ v.pc = IF Succeeded(r) THEN "refunded" ELSE "refundFailed"
      BY <1>1, <2>1, OnlyPc DEF FundingRefunded
    <2>4. QED
      BY <2>2, <2>3
  <1>5. RowsFit(r)'
    BY <1>1, <1>2, <1>3, <1>4, SessionNumbers
       DEF RowsFit, NoneOf, Plain, s, RefundPCs, SettlePCs, FundingDelta, SameButPc
  <1>6. KeyStages(r)'
    BY <1>1, <1>2, <1>3, <1>4, SessionNumbers DEF KeyStages, s, RefundPCs, SameButPc
  <1>7. KeyCovers(r)'
    BY <1>1, <1>2, <1>3, <1>4, SessionNumbers
       DEF RowsFit, KeyStages, KeyCovers, RowFits, NoneOf, TokenKeys, Plain, s, RefundPCs,
           SameButPc
  <1>8. KeyExact(r)'
    BY <1>1, <1>2, <1>3, <1>4, SessionNumbers
       DEF RowsFit, KeyStages, KeyCovers, KeyExact, RowFits, NoneOf, Plain, s, RefundPCs,
           SameButPc
  <1>9. WalletStages(r)'
    BY <1>1, <1>2, <1>3, <1>4, SessionNumbers
       DEF WalletStages, Plain, s, ReservePCs, SettlePCs, DebitKeys, FundingDelta,
           KeyExtension, Limited, SameButPc
  <1>10. SettleFits(r)'
    BY <1>1, <1>2, <1>3, <1>4, SessionNumbers
       DEF RowsFit, NoneOf, WalletStages, SettleFits, s, SettlePCs, FundingDelta, SameButPc
  <1>11. WalletExact(r)'
    BY <1>1, <1>2, <1>3, <1>4, SessionNumbers
       DEF RowsFit, NoneOf, WalletStages, SettleFits, WalletExact, Plain, s, RefundPCs,
           SettlePCs, ReservePCs, OpenedPCs, SameButPc
  <1>12. proc' = [proc EXCEPT ![r] = proc'[r]] /\ proc'[r] \in ProcType /\ proc'[r].at = "idle"
    BY <1>1, Returned DEF FundingRefunded
  <1>13. ProcFits(r)'
    BY <1>4, <1>12 DEF ProcFits, s
  <1>14. QED
    BY <1>1, <1>2, <1>4, <1>5, <1>6, <1>7, <1>8, <1>9, <1>10, <1>11, <1>12, <1>13, QuietMove
       DEF Fits, BillingTypes

\* A crash of the process keeps the invariant.
LEMMA SessionCrashKeeps ==
  ASSUME BillingInv, NEW r \in Requests, SessionCrash(r)
  PROVE  BillingInv'
  <1>1. /\ BillingTypes /\ SumsHold /\ ProcFits(r)
        /\ RowsFit(r) /\ KeyStages(r) /\ KeyCovers(r) /\ KeyExact(r)
        /\ WalletStages(r) /\ SettleFits(r) /\ WalletExact(r)
        /\ proc \in [Actors -> ProcType] /\ r \in Actors
        /\ \A kind \in TokenKeys \cup WalletKeys : RowFits(<<r, kind>>)
    BY InvOf
  <1>2. UNCHANGED <<user, token, ledger, row, batch, keyNet>>
    BY DEF SessionCrash
  <1>3. s(r).pc \in SessionPCs \ {"start", "rejected", "settled", "settleFailed",
                                 "refundFailed", "refunded", "lost"}
    BY <1>1 DEF SessionCrash, SessionEnded, BillingTypes, SessionType, s
  <1>4. PICK v \in SessionType : /\ session' = [session EXCEPT ![r] = v] /\ s(r)' = v
                                 /\ v.pc = "lost" /\ SameButPc(v, s(r))
    BY <1>1, OnlyPc DEF SessionCrash, SessionPCs
  <1>5. RowsFit(r)'
    BY <1>1, <1>2, <1>3, <1>4, SessionNumbers
       DEF RowsFit, NoneOf, Plain, s, RefundPCs, SettlePCs, FundingDelta, SameButPc
  <1>6. KeyStages(r)'
    BY <1>1, <1>2, <1>3, <1>4, SessionNumbers DEF KeyStages, s, RefundPCs, SameButPc
  <1>7. KeyCovers(r)'
    BY <1>1, <1>2, <1>3, <1>4, SessionNumbers
       DEF RowsFit, KeyStages, KeyCovers, RowFits, NoneOf, TokenKeys, Plain, s, RefundPCs,
           SameButPc
  <1>8. KeyExact(r)'
    BY <1>1, <1>2, <1>3, <1>4, SessionNumbers
       DEF RowsFit, KeyStages, KeyCovers, KeyExact, RowFits, NoneOf, Plain, s, RefundPCs,
           SameButPc
  <1>9. WalletStages(r)'
    BY <1>1, <1>2, <1>3, <1>4, SessionNumbers
       DEF WalletStages, Plain, s, ReservePCs, SettlePCs, DebitKeys, FundingDelta,
           KeyExtension, Limited, SameButPc
  <1>10. SettleFits(r)'
    BY <1>1, <1>2, <1>3, <1>4, SessionNumbers
       DEF RowsFit, NoneOf, WalletStages, SettleFits, s, SettlePCs, FundingDelta, SameButPc
  <1>11. WalletExact(r)'
    BY <1>1, <1>2, <1>3, <1>4, SessionNumbers
       DEF RowsFit, NoneOf, WalletStages, SettleFits, WalletExact, Plain, s, RefundPCs,
           SettlePCs, ReservePCs, OpenedPCs, SameButPc
  <1>12. /\ proc' = [proc EXCEPT ![r] = proc'[r]] /\ proc'[r] \in ProcType
        /\ proc'[r].at = "idle" /\ refundFaults' \in 0..MaxRefundFaults
    BY <1>1, Returned, RefundAssumption DEF SessionCrash, RefundFault, BillingTypes
  <1>13. ProcFits(r)'
    BY <1>4, <1>12 DEF ProcFits, s
  <1>14. QED
    BY <1>1, <1>2, <1>4, <1>5, <1>6, <1>7, <1>8, <1>9, <1>10, <1>11, <1>12, <1>13, QuietMove
       DEF Fits, BillingTypes

-------------------------------------------------------------------------------
(***************************************************************************)
(* Opening and extending a session.                                        *)
(***************************************************************************)

\* A step that moves d units between the request and the API key.
LEMMA KeyStep ==
  ASSUME BillingInv, NEW r \in Requests, NEW v \in SessionType, NEW d \in Int,
         session' = [session EXCEPT ![r] = v], UNCHANGED <<user, ledger, row, proc, batch>>,
         KeyMoved(r, d), refundFaults' \in 0..MaxRefundFaults, Fits(r)', ProcFits(r)'
  PROVE  BillingInv'
  <1>1. SessionMove(r)
    BY DEF SessionMove, BillingInv, BillingTypes, KeyMoved
  <1>2. BillingTypes'
    BY DEF BillingInv, BillingTypes, KeyMoved, KeyType
  <1>3. SumsHold'
    BY DEF BillingInv, SumsHold, WalletSumHolds, WalletNet, KeyMoved
  <1>4. QED
    BY <1>1, <1>2, <1>3, SessionMoveKeeps

\* A call that leaves the API key alone moves nothing.
LEMMA KeyUnmoved ==
  ASSUME BillingTypes, KeySumsHold, NEW r \in Requests, UNCHANGED <<token, keyNet>>
  PROVE  KeyMoved(r, 0)
  <1>1. keyNet' = [keyNet EXCEPT ![r] = @ + 0]
    BY DEF BillingTypes
  <1>2. QED
    BY <1>1 DEF KeyMoved, KeySumsHold, BillingTypes, KeyType

\* A step that takes the amount from the wallet, or nothing.
LEMMA DebitStep ==
  ASSUME BillingInv, NEW r \in Requests, NEW v \in SessionType, NEW kind \in DebitKeys,
         NEW amount, session' = [session EXCEPT ![r] = v],
         UNCHANGED <<token, row, proc, batch, keyNet>>,
         Debited(r, kind, amount), refundFaults' \in 0..MaxRefundFaults, Fits(r)', ProcFits(r)'
  PROVE  BillingInv'
  <1>0. kind \notin WalletKeys
    BY DEF WalletKeys, DebitKeys
  <1>1. SessionMove(r)
    <2>1. \A q \in Requests : \A other \in WalletKeys \cup DebitKeys :
            q # r \/ other \in WalletKeys => ledger'[<<q, other>>] = ledger[<<q, other>>]
      BY <1>0 DEF Debited
    <2>2. QED
      BY <2>1 DEF SessionMove, BillingInv, BillingTypes
  <1>2. BillingTypes'
    BY DEF BillingInv, BillingTypes, Debited, LedgerType
  <1>3. SumsHold'
    BY DEF BillingInv, SumsHold, KeySumsHold, Debited
  <1>4. QED
    BY <1>1, <1>2, <1>3, SessionMoveKeeps

\* A debit under one key leaves the other entries of the request alone.
LEMMA DebitedEntries ==
  ASSUME NEW r \in Requests, NEW kind \in DebitKeys, NEW amount, Debited(r, kind, amount)
  PROVE  /\ \A other \in DebitKeys : other # kind => ledger'[<<r, other>>] = ledger[<<r, other>>]
         /\ ledger'[<<r, "wallet">>] = ledger[<<r, "wallet">>]
         /\ ledger'[<<r, "wallet-settle-refund">>] = ledger[<<r, "wallet-settle-refund">>]
         /\ ledger'[<<r, "wallet-reserve">>] = ledger[<<r, "wallet-reserve">>]
  BY DEF Debited, WalletKeys, DebitKeys

\* A new session keeps the invariant.
LEMMA NewBillingSessionKeeps ==
  ASSUME BillingInv, NEW r \in Requests, NewBillingSession(r)
  PROVE  BillingInv'
  <1>1. /\ BillingTypes /\ SumsHold /\ ProcFits(r)
        /\ RowsFit(r) /\ KeyStages(r) /\ KeyCovers(r) /\ KeyExact(r)
        /\ WalletStages(r) /\ SettleFits(r) /\ WalletExact(r)
        /\ proc \in [Actors -> ProcType] /\ r \in Actors
        /\ \A kind \in TokenKeys \cup WalletKeys : RowFits(<<r, kind>>)
    BY InvOf
  <1>2. UNCHANGED <<user, token, ledger, row, proc, batch, keyNet, refundFaults>>
    BY DEF NewBillingSession, refundVars
  <1>3. s(r).pc = "start"
    BY DEF NewBillingSession
  <1>4. PICK v \in SessionType :
          /\ session' = [session EXCEPT ![r] = v] /\ s(r)' = v
          /\ v.pc \in {"token", "funding", "rejected"}
          /\ v.actual = s(r).actual /\ v.preConsumed = s(r).preConsumed
          /\ v.tokenConsumed = s(r).tokenConsumed /\ v.consumed = s(r).consumed
          /\ v.reserves = s(r).reserves /\ v.fundingSettled = s(r).fundingSettled
          /\ v.tokenRefunded = s(r).tokenRefunded
    <2>1. CASE SessionGoes(r, "rejected")
      BY <1>1, <2>1, OnlyPc DEF SessionPCs, SameButPc
    <2>2. ASSUME NEW estimate \in Estimates,
                 session' = [session EXCEPT ![r].target = estimate,
                   ![r].pc = IF estimate > 0 /\ Limited(r) THEN "token" ELSE "funding"]
          PROVE  \E v \in SessionType :
                   /\ session' = [session EXCEPT ![r] = v] /\ s(r)' = v
                   /\ v.pc \in {"token", "funding", "rejected"}
                   /\ v.actual = s(r).actual /\ v.preConsumed = s(r).preConsumed
                   /\ v.tokenConsumed = s(r).tokenConsumed /\ v.consumed = s(r).consumed
                   /\ v.reserves = s(r).reserves /\ v.fundingSettled = s(r).fundingSettled
                   /\ v.tokenRefunded = s(r).tokenRefunded
      <3> DEFINE pc == IF estimate > 0 /\ Limited(r) THEN "token" ELSE "funding"
                 v == [s(r) EXCEPT !.target = estimate, !.pc = pc]
      <3>1. pc \in {"token", "funding"} /\ estimate \in 0..MaxQuota
        BY SessionAssumption
      <3>2. session' = [session EXCEPT ![r].target = estimate, ![r].pc = pc]
        BY <2>2
      <3> HIDE DEF pc
      <3>3. session' = [session EXCEPT ![r] = v]
        BY <1>1, <3>2 DEF BillingTypes, SessionType, s
      <3>4. /\ v \in SessionType /\ v.pc = pc
            /\ v.actual = s(r).actual /\ v.preConsumed = s(r).preConsumed
            /\ v.tokenConsumed = s(r).tokenConsumed /\ v.consumed = s(r).consumed
            /\ v.reserves = s(r).reserves /\ v.fundingSettled = s(r).fundingSettled
            /\ v.tokenRefunded = s(r).tokenRefunded
        BY <1>1, <3>1, SessionNumbers DEF SessionType, SessionPCs
      <3>5. s(r)' = v
        BY <1>1, <3>3 DEF BillingTypes, s
      <3> HIDE DEF v
      <3>6. QED
        BY <3>1, <3>3, <3>4, <3>5
    <2>3. QED
      BY <2>1, <2>2 DEF NewBillingSession
  <1>5. RowsFit(r)'
    BY <1>1, <1>2, <1>3, <1>4, SessionNumbers
       DEF RowsFit, NoneOf, Plain, s, RefundPCs, SettlePCs, FundingDelta
  <1>6. KeyStages(r)'
    BY <1>1, <1>2, <1>3, <1>4, SessionNumbers DEF KeyStages, s, RefundPCs
  <1>7. KeyCovers(r)'
    BY <1>1, <1>2, <1>3, <1>4, SessionNumbers
       DEF RowsFit, KeyStages, KeyCovers, RowFits, NoneOf, TokenKeys, Plain, s, RefundPCs
  <1>8. KeyExact(r)'
    BY <1>1, <1>2, <1>3, <1>4, SessionNumbers
       DEF RowsFit, KeyStages, KeyCovers, KeyExact, RowFits, NoneOf, Plain, s, RefundPCs
  <1>9. WalletStages(r)'
    BY <1>1, <1>2, <1>3, <1>4, SessionNumbers
       DEF WalletStages, Plain, s, ReservePCs, SettlePCs, DebitKeys, FundingDelta,
           KeyExtension, Limited
  <1>10. SettleFits(r)'
    BY <1>1, <1>2, <1>3, <1>4, SessionNumbers
       DEF RowsFit, NoneOf, WalletStages, SettleFits, s, SettlePCs, FundingDelta
  <1>11. WalletExact(r)'
    BY <1>1, <1>2, <1>3, <1>4, SessionNumbers
       DEF RowsFit, NoneOf, WalletStages, SettleFits, WalletExact, Plain, s, RefundPCs,
           SettlePCs, ReservePCs, OpenedPCs
  <1>12. ProcFits(r)'
    BY <1>1, <1>2, <1>3, <1>4 DEF ProcFits, s
  <1>13. QED
    BY <1>1, <1>2, <1>4, <1>5, <1>6, <1>7, <1>8, <1>9, <1>10, <1>11, <1>12, QuietMove
       DEF Fits, BillingTypes

\* Taking the estimate from the API key keeps the invariant.
LEMMA PreConsumeTokenQuotaKeeps ==
  ASSUME BillingInv, NEW r \in Requests, PreConsumeTokenQuota(r)
  PROVE  BillingInv'
  <1>1. /\ BillingTypes /\ SumsHold /\ ProcFits(r)
        /\ RowsFit(r) /\ KeyStages(r) /\ KeyCovers(r) /\ KeyExact(r)
        /\ WalletStages(r) /\ SettleFits(r) /\ WalletExact(r)
        /\ proc \in [Actors -> ProcType] /\ r \in Actors
        /\ \A kind \in TokenKeys \cup WalletKeys : RowFits(<<r, kind>>)
    BY InvOf
  <1>2. UNCHANGED <<user, ledger, row, proc, batch>>
    BY DEF PreConsumeTokenQuota
  <1>3. s(r).pc = "token"
    BY DEF PreConsumeTokenQuota
  <1> DEFINE funded == [s(r) EXCEPT !.pc = "funding", !.tokenConsumed = s(r).target]
             rejected == [s(r) EXCEPT !.pc = "rejected"]
  <1>a. /\ funded \in SessionType /\ rejected \in SessionType
        /\ funded.pc = "funding" /\ funded.tokenConsumed = s(r).target
        /\ funded.actual = s(r).actual /\ funded.preConsumed = s(r).preConsumed
        /\ funded.consumed = s(r).consumed /\ funded.reserves = s(r).reserves
        /\ funded.fundingSettled = s(r).fundingSettled
        /\ funded.tokenRefunded = s(r).tokenRefunded
        /\ rejected.pc = "rejected" /\ SameButPc(rejected, s(r))
    BY <1>1, SessionNumbers DEF SessionType, SessionPCs, SameButPc
  <1>b. PICK v \in {funded, rejected}, d \in {0, s(r).target} :
          /\ session' = [session EXCEPT ![r] = v] /\ KeyMoved(r, d)
          /\ refundFaults' \in 0..MaxRefundFaults
          /\ v = funded => d = s(r).target
    <2>1. KeyCall(r, CanDecrease(s(r).target), DecreaseTokenQuota(r, s(r).target),
                  funded, rejected, rejected)
      BY DEF PreConsumeTokenQuota
    <2>2. CanDecrease(s(r).target) /\ DecreaseTokenQuota(r, s(r).target)
            => KeyMoved(r, s(r).target)
      BY <1>1, SessionNumbers, DecreaseIsSound DEF SumsHold
    <2>3. UNCHANGED <<token, keyNet>> => KeyMoved(r, 0)
      BY <1>1, KeyUnmoved DEF SumsHold
    <2>4. refundFaults \in 0..MaxRefundFaults /\ MaxRefundFaults \in Nat
      BY <1>1, RefundAssumption DEF BillingTypes
    <2>5. funded # rejected
      BY <1>a
    <2> HIDE DEF funded, rejected
    <2>6. QED
      BY <2>1, <2>2, <2>3, <2>4, <2>5 DEF KeyCall, RefundFault, NoRefundFault
  <1> HIDE DEF funded, rejected
  <1>4. /\ v \in SessionType /\ session' = [session EXCEPT ![r] = v] /\ s(r)' = v
        /\ KeyMoved(r, d) /\ d \in Int /\ d >= 0 /\ refundFaults' \in 0..MaxRefundFaults
        /\ keyNet'[r] = keyNet[r] + d
        /\ \/ v.pc = "funding" /\ v.tokenConsumed = d
           \/ v.pc = "rejected" /\ v.tokenConsumed = s(r).tokenConsumed
        /\ v.actual = s(r).actual /\ v.preConsumed = s(r).preConsumed
        /\ v.consumed = s(r).consumed /\ v.reserves = s(r).reserves
        /\ v.fundingSettled = s(r).fundingSettled /\ v.tokenRefunded = s(r).tokenRefunded
    BY <1>1, <1>a, <1>b, SessionNumbers DEF SameButPc, KeyMoved, BillingTypes, s
  <1>5. RowsFit(r)'
    BY <1>1, <1>2, <1>3, <1>4, SessionNumbers
       DEF RowsFit, NoneOf, Plain, s, RefundPCs, SettlePCs, FundingDelta
  <1>6. KeyStages(r)'
    BY <1>1, <1>2, <1>3, <1>4, SessionNumbers DEF KeyStages, s, RefundPCs
  <1>7. KeyCovers(r)'
    BY <1>1, <1>2, <1>3, <1>4, SessionNumbers
       DEF RowsFit, KeyStages, KeyCovers, RowFits, NoneOf, TokenKeys, Plain, s, RefundPCs
  <1>8. KeyExact(r)'
    BY <1>1, <1>2, <1>3, <1>4, SessionNumbers
       DEF RowsFit, KeyStages, KeyCovers, KeyExact, RowFits, NoneOf, Plain, s, RefundPCs
  <1>9. WalletStages(r)'
    BY <1>1, <1>2, <1>3, <1>4, SessionNumbers
       DEF WalletStages, Plain, s, ReservePCs, SettlePCs, DebitKeys, FundingDelta,
           KeyExtension, Limited
  <1>10. SettleFits(r)'
    BY <1>1, <1>2, <1>3, <1>4, SessionNumbers
       DEF RowsFit, NoneOf, WalletStages, SettleFits, s, SettlePCs, FundingDelta
  <1>11. WalletExact(r)'
    BY <1>1, <1>2, <1>3, <1>4, SessionNumbers
       DEF RowsFit, NoneOf, WalletStages, SettleFits, WalletExact, Plain, s, RefundPCs,
           SettlePCs, ReservePCs, OpenedPCs
  <1>12. ProcFits(r)'
    BY <1>1, <1>2, <1>3, <1>4 DEF ProcFits, s
  <1>13. QED
    BY <1>1, <1>2, <1>4, <1>5, <1>6, <1>7, <1>8, <1>9, <1>10, <1>11, <1>12, KeyStep DEF Fits

\* Taking the estimate from the wallet keeps the invariant.
LEMMA PreConsumeFundingKeeps ==
  ASSUME BillingInv, NEW r \in Requests, PreConsumeFunding(r)
  PROVE  BillingInv'
  <1>1. /\ BillingTypes /\ SumsHold /\ ProcFits(r)
        /\ RowsFit(r) /\ KeyStages(r) /\ KeyCovers(r) /\ KeyExact(r)
        /\ WalletStages(r) /\ SettleFits(r) /\ WalletExact(r)
        /\ proc \in [Actors -> ProcType] /\ r \in Actors
        /\ \A kind \in TokenKeys \cup WalletKeys : RowFits(<<r, kind>>)
    BY InvOf
  <1>2. UNCHANGED <<token, row, proc, batch, keyNet>>
    BY DEF PreConsumeFunding
  <1>3. s(r).pc = "funding"
    BY DEF PreConsumeFunding
  <1> DEFINE opened == [s(r) EXCEPT !.pc = "open", !.preConsumed = s(r).target,
                                    !.consumed = s(r).target]
             failed == AfterPreConsumeError(r)
  <1>a. /\ opened \in SessionType /\ failed \in SessionType
        /\ opened.pc = "open" /\ opened.preConsumed = s(r).target
        /\ opened.consumed = s(r).target
        /\ opened.actual = s(r).actual /\ opened.tokenConsumed = s(r).tokenConsumed
        /\ opened.reserves = s(r).reserves /\ opened.fundingSettled = s(r).fundingSettled
        /\ opened.tokenRefunded = s(r).tokenRefunded
        /\ failed.pc \in {"rollback", "rejected"} /\ SameButPc(failed, s(r))
        /\ failed.pc = "rollback" => s(r).tokenConsumed > 0
    BY <1>1, SessionNumbers DEF SessionType, SessionPCs, SameButPc, AfterPreConsumeError
  <1>b. ledger[<<r, "wallet-preconsume">>] = 0
    BY <1>1, <1>3 DEF WalletStages
  <1>c. PICK v \in {opened, failed} :
          /\ session' = [session EXCEPT ![r] = v]
          /\ Debited(r, "wallet-preconsume", s(r).target)
          /\ refundFaults' \in 0..MaxRefundFaults
          /\ v = opened => ledger'[<<r, "wallet-preconsume">>] = -s(r).target
    <2> HIDE DEF opened, failed
    <2>1. CASE s(r).target = 0
      <3>1. /\ session' = [session EXCEPT ![r] = opened]
            /\ UNCHANGED <<user, ledger, refundFaults>>
        BY <2>1 DEF PreConsumeFunding, opened
      <3>2. WalletSumHolds'
        BY <1>1, <3>1 DEF SumsHold, WalletSumHolds, WalletNet
      <3>3. QED
        BY <1>1, <1>b, <2>1, <3>1, <3>2 DEF Debited, BillingTypes, LedgerType
    <2>2. CASE s(r).target # 0
      <3>1. DebitCall(r, "wallet-preconsume", s(r).target, FALSE, opened, failed)
        BY <2>2 DEF PreConsumeFunding, opened, failed
      <3>2. /\ Debited(r, "wallet-preconsume", s(r).target)
            /\ refundFaults' \in 0..MaxRefundFaults
            /\ \/ /\ session' = [session EXCEPT ![r] = opened]
                  /\ ledger'[<<r, "wallet-preconsume">>] = -s(r).target
               \/ session' = [session EXCEPT ![r] = failed]
        <4>1. /\ "wallet-preconsume" \in DebitKeys /\ s(r).target \in 0..MaxQuota
              /\ FALSE \in BOOLEAN /\ WalletSumHolds
          BY <1>1, SessionNumbers DEF DebitKeys, SumsHold
        <4>2. /\ Debited(r, "wallet-preconsume", s(r).target)
              /\ refundFaults' \in 0..MaxRefundFaults
              /\ \/ /\ session' = [session EXCEPT ![r] = opened]
                    /\ ledger[<<r, "wallet-preconsume">>] = 0 =>
                         ledger'[<<r, "wallet-preconsume">>] = -s(r).target
                    /\ ledger[<<r, "wallet-preconsume">>] # 0 => ledger' = ledger
                 \/ session' = [session EXCEPT ![r] = failed]
          BY <1>1, <3>1, <4>1, DebitOutcomes, ZenonT(40)
        <4>3. QED
          BY <1>b, <4>2
      <3>3. opened # failed
        BY <1>a
      <3>4. QED
        BY <3>2, <3>3
    <2>3. QED
      BY <2>1, <2>2
  <1> HIDE DEF opened, failed
  <1>4. /\ v \in SessionType /\ session' = [session EXCEPT ![r] = v] /\ s(r)' = v
        /\ \/ /\ v.pc = "open" /\ v.preConsumed = s(r).target /\ v.consumed = s(r).target
              /\ ledger'[<<r, "wallet-preconsume">>] = -s(r).target
           \/ /\ v.pc = "rejected" \/ (v.pc = "rollback" /\ s(r).tokenConsumed > 0)
              /\ v.preConsumed = s(r).preConsumed /\ v.consumed = s(r).consumed
        /\ v.actual = s(r).actual /\ v.tokenConsumed = s(r).tokenConsumed
        /\ v.reserves = s(r).reserves
        /\ v.fundingSettled = s(r).fundingSettled /\ v.tokenRefunded = s(r).tokenRefunded
        /\ ledger'[<<r, "wallet-preconsume">>] \in {0, -s(r).target}
        /\ ledger'[<<r, "wallet-settle-debit">>] = ledger[<<r, "wallet-settle-debit">>]
        /\ ledger'[<<r, "wallet-reserve-debit">>] = ledger[<<r, "wallet-reserve-debit">>]
        /\ ledger'[<<r, "wallet">>] = ledger[<<r, "wallet">>]
        /\ ledger'[<<r, "wallet-settle-refund">>] = ledger[<<r, "wallet-settle-refund">>]
    <2>1. s(r)' = v
      BY <1>1, <1>a, <1>c DEF BillingTypes, s
    <2>2. /\ \A other \in DebitKeys :
               other # "wallet-preconsume" => ledger'[<<r, other>>] = ledger[<<r, other>>]
          /\ ledger'[<<r, "wallet">>] = ledger[<<r, "wallet">>]
          /\ ledger'[<<r, "wallet-settle-refund">>] = ledger[<<r, "wallet-settle-refund">>]
      BY <1>c, DebitedEntries DEF DebitKeys
    <2>3. QED
      BY <1>a, <1>b, <1>c, <2>1, <2>2 DEF SameButPc, DebitKeys, Debited
  <1>5. RowsFit(r)'
    BY <1>1, <1>2, <1>3, <1>4, SessionNumbers
       DEF RowsFit, NoneOf, Plain, s, RefundPCs, SettlePCs, FundingDelta
  <1>6. KeyStages(r)'
    BY <1>1, <1>2, <1>3, <1>4, SessionNumbers DEF KeyStages, s, RefundPCs
  <1>7. KeyCovers(r)'
    BY <1>1, <1>2, <1>3, <1>4, SessionNumbers
       DEF RowsFit, KeyStages, KeyCovers, RowFits, NoneOf, TokenKeys, Plain, s, RefundPCs
  <1>8. KeyExact(r)'
    BY <1>1, <1>2, <1>3, <1>4, SessionNumbers
       DEF RowsFit, KeyStages, KeyCovers, KeyExact, RowFits, NoneOf, Plain, s, RefundPCs
  <1>9. WalletStages(r)'
    BY <1>1, <1>2, <1>3, <1>4, SessionNumbers
       DEF WalletStages, Plain, s, ReservePCs, SettlePCs, DebitKeys, FundingDelta,
           KeyExtension, Limited
  <1>10. SettleFits(r)'
    BY <1>1, <1>2, <1>3, <1>4, SessionNumbers
       DEF RowsFit, NoneOf, WalletStages, SettleFits, s, SettlePCs, FundingDelta
  <1>11. WalletExact(r)'
    BY <1>1, <1>2, <1>3, <1>4, SessionNumbers
       DEF RowsFit, NoneOf, WalletStages, SettleFits, WalletExact, Plain, s, RefundPCs,
           SettlePCs, ReservePCs, OpenedPCs
  <1>12. ProcFits(r)'
    <2>1. proc[r].at = "idle"
      BY <1>1, <1>3 DEF ProcFits
    <2>2. NoneOf(r, "token-preconsume")
      BY <1>1, <1>3 DEF RowsFit
    <2>3. QED
      BY <1>2, <1>4, <2>1, <2>2 DEF ProcFits, WaitsFor, Busy, NoneOf, s
  <1>13. QED
    BY <1>1, <1>2, <1>4, <1>5, <1>6, <1>7, <1>8, <1>9, <1>10, <1>11, <1>12, <1>c, DebitStep
       DEF Fits, DebitKeys

\* The roll-back of the API key keeps the invariant.
LEMMA RollbackPreConsumeKeeps ==
  ASSUME BillingInv, NEW r \in Requests, RollbackPreConsume(r)
  PROVE  BillingInv'
  <1>1. /\ BillingTypes /\ SumsHold /\ ProcFits(r)
        /\ RowsFit(r) /\ KeyStages(r) /\ KeyCovers(r) /\ KeyExact(r)
        /\ WalletStages(r) /\ SettleFits(r) /\ WalletExact(r)
        /\ proc \in [Actors -> ProcType] /\ r \in Actors
        /\ \A kind \in TokenKeys \cup WalletKeys : RowFits(<<r, kind>>)
    BY InvOf
  <1>2. UNCHANGED <<user, token, ledger, row, batch, refundFaults, keyNet>>
    BY DEF RollbackPreConsume
  <1>3. s(r).pc = "rollback"
    BY DEF RollbackPreConsume
  <1>a. CASE proc[r].at = "idle" /\ Queue(r, "token-preconsume", s(r).tokenConsumed)
             /\ UNCHANGED session
    <2>1. /\ proc' = [proc EXCEPT ![r] = proc'[r]] /\ proc'[r] \in ProcType
          /\ proc'[r].at = "ensure" /\ proc'[r].key = <<r, "token-preconsume">>
          /\ proc'[r].amount = s(r).tokenConsumed
      <3>1. "token-preconsume" \in TokenKeys \cup WalletKeys
        BY DEF TokenKeys
      <3>2. QED
        BY <1>1, <1>a, <3>1, SessionNumbers, Queued
    <2>2. s(r)' = s(r) /\ session' = [session EXCEPT ![r] = s(r)] /\ s(r) \in SessionType
      BY <1>1, <1>a, SessionNumbers DEF BillingTypes, s
    <2>3. Fits(r)'
      BY <1>1, <1>2, <1>a
         DEF Fits, RowsFit, KeyStages, KeyCovers, KeyExact, WalletStages, SettleFits,
             WalletExact, NoneOf, Plain, s, FundingDelta, KeyExtension, Limited
    <2>4. ProcFits(r)'
      BY <1>1, <1>2, <1>3, <1>a, <2>1, <2>2 DEF ProcFits, WaitsFor, NoneOf, s, WalletKeys
    <2>5. QED
      BY <1>1, <1>2, <2>1, <2>2, <2>3, <2>4, QuietMove DEF BillingTypes
  <1>b. CASE Return(r, "idle")
             /\ session' = [session EXCEPT ![r].pc = "rejected", ![r].tokenConsumed = 0]
    <2> DEFINE v == [s(r) EXCEPT !.pc = "rejected", !.tokenConsumed = 0]
    <2>1. session' = [session EXCEPT ![r] = v]
      BY <1>1, <1>b DEF BillingTypes, SessionType, s
    <2>2. /\ v \in SessionType /\ v.pc = "rejected" /\ v.tokenConsumed = 0
          /\ v.actual = s(r).actual /\ v.preConsumed = s(r).preConsumed
          /\ v.consumed = s(r).consumed
          /\ v.reserves = s(r).reserves /\ v.fundingSettled = s(r).fundingSettled
          /\ v.tokenRefunded = s(r).tokenRefunded
      <3>1. s(r) \in SessionType /\ 0 \in 0..MaxQuota /\ "rejected" \in SessionPCs
        BY <1>1, SessionNumbers DEF SessionPCs
      <3>2. QED
        BY <3>1 DEF SessionType
    <2>3. s(r)' = v
      BY <1>1, <2>1 DEF BillingTypes, s
    <2> HIDE DEF v
    <2>5. RowsFit(r)'
      BY <1>1, <1>2, <1>3, <2>2, <2>3, SessionNumbers
         DEF RowsFit, NoneOf, Plain, s, RefundPCs, SettlePCs, FundingDelta
    <2>6. KeyStages(r)'
      BY <1>1, <1>2, <1>3, <2>2, <2>3, SessionNumbers DEF KeyStages, s, RefundPCs
    <2>7. KeyCovers(r)'
      BY <1>1, <1>2, <1>3, <2>2, <2>3, SessionNumbers
         DEF RowsFit, KeyStages, KeyCovers, RowFits, NoneOf, TokenKeys, Plain, s, RefundPCs
    <2>8. KeyExact(r)'
      BY <1>1, <1>2, <1>3, <2>2, <2>3, SessionNumbers
         DEF RowsFit, KeyStages, KeyCovers, KeyExact, RowFits, NoneOf, Plain, s, RefundPCs
    <2>9. WalletStages(r)'
      BY <1>1, <1>2, <1>3, <2>2, <2>3, SessionNumbers
         DEF WalletStages, Plain, s, ReservePCs, SettlePCs, DebitKeys, FundingDelta,
             KeyExtension, Limited
    <2>10. SettleFits(r)'
      BY <1>1, <1>2, <1>3, <2>2, <2>3, SessionNumbers
         DEF RowsFit, NoneOf, WalletStages, SettleFits, s, SettlePCs, FundingDelta
    <2>11. WalletExact(r)'
      BY <1>1, <1>2, <1>3, <2>2, <2>3, SessionNumbers
         DEF RowsFit, NoneOf, WalletStages, SettleFits, WalletExact, Plain, s, RefundPCs,
             SettlePCs, ReservePCs, OpenedPCs
    <2>12. proc' = [proc EXCEPT ![r] = proc'[r]] /\ proc'[r] \in ProcType /\ proc'[r].at = "idle"
      BY <1>1, <1>b, Returned
    <2>13. ProcFits(r)'
      BY <2>2, <2>3, <2>12 DEF ProcFits, s
    <2>14. QED
      BY <1>1, <1>2, <2>1, <2>2, <2>5, <2>6, <2>7, <2>8, <2>9, <2>10, <2>11, <2>12, <2>13,
         QuietMove DEF Fits, BillingTypes
  <1>4. QED
    BY <1>a, <1>b DEF RollbackPreConsume

\* Asking for an extension keeps the invariant.
LEMMA ReserveKeeps ==
  ASSUME BillingInv, NEW r \in Requests, Reserve(r)
  PROVE  BillingInv'
  <1>1. /\ BillingTypes /\ SumsHold /\ ProcFits(r)
        /\ RowsFit(r) /\ KeyStages(r) /\ KeyCovers(r) /\ KeyExact(r)
        /\ WalletStages(r) /\ SettleFits(r) /\ WalletExact(r)
        /\ proc \in [Actors -> ProcType] /\ r \in Actors
        /\ \A kind \in TokenKeys \cup WalletKeys : RowFits(<<r, kind>>)
    BY InvOf
  <1>2. UNCHANGED <<user, token, ledger, row, proc, batch, keyNet, refundFaults>>
    BY DEF Reserve, refundVars
  <1>3. s(r).pc = "open" /\ s(r).reserves = 0
    BY <1>1, SessionAssumption, SessionNumbers DEF Reserve
  <1>4. PICK v \in SessionType :
          /\ session' = [session EXCEPT ![r] = v] /\ s(r)' = v
          /\ v.pc = "reserveFunding" /\ v.target > s(r).preConsumed /\ v.reserves = 1
          /\ v.actual = s(r).actual /\ v.preConsumed = s(r).preConsumed
          /\ v.tokenConsumed = s(r).tokenConsumed /\ v.consumed = s(r).consumed
          /\ v.fundingSettled = s(r).fundingSettled /\ v.tokenRefunded = s(r).tokenRefunded
    <2>1. PICK target \in Estimates :
            /\ target > s(r).preConsumed
            /\ session' = [session EXCEPT ![r].target = target, ![r].pc = "reserveFunding",
                                          ![r].reserves = @ + 1]
      BY DEF Reserve
    <2> DEFINE v == [s(r) EXCEPT !.target = target, !.pc = "reserveFunding", !.reserves = 1]
    <2>2. s(r).reserves + 1 = 1 /\ 1 \in 0..MaxReserves
      BY <1>3, SessionAssumption DEF Reserve
    <2>3. session' = [session EXCEPT ![r] = v]
      <3>1. session[r].reserves + 1 = 1
        BY <2>2 DEF s
      <3>2. QED
        BY <1>1, <2>1, <3>1 DEF BillingTypes, SessionType, s
    <2>4. /\ v \in SessionType /\ v.pc = "reserveFunding" /\ v.target = target /\ v.reserves = 1
          /\ v.actual = s(r).actual /\ v.preConsumed = s(r).preConsumed
          /\ v.tokenConsumed = s(r).tokenConsumed /\ v.consumed = s(r).consumed
          /\ v.fundingSettled = s(r).fundingSettled /\ v.tokenRefunded = s(r).tokenRefunded
      <3>1. s(r) \in SessionType /\ target \in 0..MaxQuota /\ "reserveFunding" \in SessionPCs
        BY <1>1, SessionNumbers, SessionAssumption DEF SessionPCs
      <3>2. QED
        BY <2>2, <3>1 DEF SessionType
    <2>5. s(r)' = v
      BY <1>1, <2>3 DEF BillingTypes, s
    <2> HIDE DEF v
    <2>6. QED
      BY <2>1, <2>3, <2>4, <2>5
  <1>5. RowsFit(r)'
    BY <1>1, <1>2, <1>3, <1>4, SessionNumbers
       DEF RowsFit, NoneOf, Plain, s, RefundPCs, SettlePCs, FundingDelta
  <1>6. KeyStages(r)'
    BY <1>1, <1>2, <1>3, <1>4, SessionNumbers DEF KeyStages, s, RefundPCs
  <1>7. KeyCovers(r)'
    BY <1>1, <1>2, <1>3, <1>4, SessionNumbers
       DEF RowsFit, KeyStages, KeyCovers, RowFits, NoneOf, TokenKeys, Plain, s, RefundPCs
  <1>8. KeyExact(r)'
    BY <1>1, <1>2, <1>3, <1>4, SessionNumbers
       DEF RowsFit, KeyStages, KeyCovers, KeyExact, RowFits, NoneOf, Plain, s, RefundPCs
  <1>9. WalletStages(r)'
    BY <1>1, <1>2, <1>3, <1>4, SessionNumbers
       DEF WalletStages, Plain, s, ReservePCs, SettlePCs, DebitKeys, FundingDelta,
           KeyExtension, Limited, WalletExact
  <1>10. SettleFits(r)'
    BY <1>1, <1>2, <1>3, <1>4, SessionNumbers
       DEF RowsFit, NoneOf, WalletStages, SettleFits, s, SettlePCs, FundingDelta
  <1>11. WalletExact(r)'
    BY <1>1, <1>2, <1>3, <1>4, SessionNumbers
       DEF RowsFit, NoneOf, WalletStages, SettleFits, WalletExact, Plain, s, RefundPCs,
           SettlePCs, ReservePCs, OpenedPCs
  <1>12. ProcFits(r)'
    BY <1>1, <1>2, <1>3, <1>4 DEF ProcFits, s
  <1>13. QED
    BY <1>1, <1>2, <1>4, <1>5, <1>6, <1>7, <1>8, <1>9, <1>10, <1>11, <1>12, QuietMove
       DEF Fits, BillingTypes

\* Extending the wallet part keeps the invariant.
LEMMA ReserveFundingKeeps ==
  ASSUME BillingInv, NEW r \in Requests, ReserveFunding(r)
  PROVE  BillingInv'
  <1>1. /\ BillingTypes /\ SumsHold /\ ProcFits(r)
        /\ RowsFit(r) /\ KeyStages(r) /\ KeyCovers(r) /\ KeyExact(r)
        /\ WalletStages(r) /\ SettleFits(r) /\ WalletExact(r)
        /\ proc \in [Actors -> ProcType] /\ r \in Actors
        /\ \A kind \in TokenKeys \cup WalletKeys : RowFits(<<r, kind>>)
    BY InvOf
  <1>2. UNCHANGED <<token, row, proc, batch, keyNet>>
    BY DEF ReserveFunding
  <1>3. s(r).pc = "reserveFunding"
    BY DEF ReserveFunding
  <1> DEFINE taken == [s(r) EXCEPT !.consumed = @ + FundingExtension(r)]
             extended == IF KeyExtension(r) > 0 THEN [taken EXCEPT !.pc = "reserveToken"]
                         ELSE [taken EXCEPT !.pc = "open", !.preConsumed = s(r).target]
             failed == [s(r) EXCEPT !.pc = "open"]
  <1>a. /\ s(r).target > s(r).preConsumed /\ s(r).consumed = s(r).preConsumed
        /\ s(r).consumed + FundingExtension(r) = s(r).target
        /\ FundingExtension(r) \in 0..MaxQuota
    BY <1>1, <1>3, SessionNumbers DEF WalletStages, ReservePCs, FundingExtension
  <1>b. /\ extended \in SessionType
        /\ \/ /\ extended.pc = "reserveToken" /\ KeyExtension(r) > 0
              /\ extended.preConsumed = s(r).preConsumed
           \/ extended.pc = "open" /\ extended.preConsumed = s(r).target
        /\ extended.consumed = s(r).target
        /\ extended.target = s(r).target /\ extended.actual = s(r).actual
        /\ extended.tokenConsumed = s(r).tokenConsumed /\ extended.reserves = s(r).reserves
        /\ extended.fundingSettled = s(r).fundingSettled
        /\ extended.tokenRefunded = s(r).tokenRefunded
    <2>1. taken = [s(r) EXCEPT !.consumed = s(r).target]
      BY <1>1, <1>a, SessionNumbers DEF SessionType
    <2>2. s(r) \in SessionType /\ {"reserveToken", "open"} \subseteq SessionPCs
      BY <1>1, SessionNumbers DEF SessionPCs
    <2>3. s(r).target \in 0..MaxQuota
      BY <1>1, SessionNumbers
    <2> HIDE DEF taken
    <2>4. /\ taken \in SessionType /\ taken.consumed = s(r).target
          /\ taken.target = s(r).target /\ taken.actual = s(r).actual
          /\ taken.preConsumed = s(r).preConsumed
          /\ taken.tokenConsumed = s(r).tokenConsumed /\ taken.reserves = s(r).reserves
          /\ taken.fundingSettled = s(r).fundingSettled
          /\ taken.tokenRefunded = s(r).tokenRefunded
      BY <2>1, <2>2, <2>3 DEF SessionType
    <2>5. CASE KeyExtension(r) > 0
      BY <2>2, <2>4, <2>5 DEF SessionType
    <2>6. CASE ~(KeyExtension(r) > 0)
      BY <2>2, <2>3, <2>4, <2>6 DEF SessionType
    <2>7. QED
      BY <2>5, <2>6
  <1>c. failed \in SessionType /\ failed.pc = "open" /\ SameButPc(failed, s(r))
    BY <1>1, SessionNumbers DEF SessionType, SessionPCs, SameButPc
  <1>d. PICK v \in {extended, failed} :
          /\ session' = [session EXCEPT ![r] = v]
          /\ Debited(r, "wallet-reserve-debit", FundingExtension(r))
          /\ refundFaults' \in 0..MaxRefundFaults
    <2>1. DebitCall(r, "wallet-reserve-debit", FundingExtension(r), FALSE, extended, failed)
      BY DEF ReserveFunding
    <2>2. /\ "wallet-reserve-debit" \in DebitKeys
          /\ FALSE \in BOOLEAN /\ WalletSumHolds /\ BillingTypes
          /\ FundingExtension(r) \in 0..MaxQuota
      BY <1>1, <1>a DEF DebitKeys, SumsHold
    <2> HIDE DEF extended, failed
    <2>3. /\ Debited(r, "wallet-reserve-debit", FundingExtension(r))
          /\ refundFaults' \in 0..MaxRefundFaults
          /\ \/ /\ session' = [session EXCEPT ![r] = extended]
                /\ ledger[<<r, "wallet-reserve-debit">>] = 0 =>
                     ledger'[<<r, "wallet-reserve-debit">>] = -FundingExtension(r)
                /\ ledger[<<r, "wallet-reserve-debit">>] # 0 => ledger' = ledger
             \/ session' = [session EXCEPT ![r] = failed]
      BY <2>1, <2>2, DebitOutcomes, ZenonT(40)
    <2>4. QED
      BY <2>3
  <1> HIDE DEF taken, extended, failed
  <1>4. /\ v \in SessionType /\ session' = [session EXCEPT ![r] = v] /\ s(r)' = v
        /\ \/ /\ v.pc = "reserveToken" /\ KeyExtension(r) > 0
              /\ v.preConsumed = s(r).preConsumed /\ v.consumed = s(r).target
           \/ v.pc = "open" /\ v.preConsumed = s(r).target /\ v.consumed = s(r).target
           \/ v.pc = "open" /\ v.preConsumed = s(r).preConsumed /\ v.consumed = s(r).consumed
        /\ v.target = s(r).target /\ v.actual = s(r).actual
        /\ v.tokenConsumed = s(r).tokenConsumed /\ v.reserves = s(r).reserves
        /\ v.fundingSettled = s(r).fundingSettled /\ v.tokenRefunded = s(r).tokenRefunded
        /\ ledger'[<<r, "wallet-reserve-debit">>]
             \in {ledger[<<r, "wallet-reserve-debit">>], -FundingExtension(r)}
        /\ ledger'[<<r, "wallet-settle-debit">>] = ledger[<<r, "wallet-settle-debit">>]
        /\ ledger'[<<r, "wallet-preconsume">>] = ledger[<<r, "wallet-preconsume">>]
        /\ ledger'[<<r, "wallet">>] = ledger[<<r, "wallet">>]
        /\ ledger'[<<r, "wallet-settle-refund">>] = ledger[<<r, "wallet-settle-refund">>]
    <2>1. s(r)' = v
      BY <1>1, <1>b, <1>c, <1>d DEF BillingTypes, s
    <2>2. /\ \A other \in DebitKeys :
               other # "wallet-reserve-debit" => ledger'[<<r, other>>] = ledger[<<r, other>>]
          /\ ledger'[<<r, "wallet">>] = ledger[<<r, "wallet">>]
          /\ ledger'[<<r, "wallet-settle-refund">>] = ledger[<<r, "wallet-settle-refund">>]
      BY <1>d, DebitedEntries DEF DebitKeys
    <2>3. QED
      BY <1>b, <1>c, <1>d, <2>1, <2>2 DEF SameButPc, DebitKeys, Debited
  <1>5. RowsFit(r)'
    BY <1>1, <1>2, <1>3, <1>4, SessionNumbers, <1>a
       DEF RowsFit, NoneOf, Plain, s, RefundPCs, SettlePCs, FundingDelta
  <1>6. KeyStages(r)'
    BY <1>1, <1>2, <1>3, <1>4, SessionNumbers, <1>a DEF KeyStages, s, RefundPCs
  <1>7. KeyCovers(r)'
    BY <1>1, <1>2, <1>3, <1>4, SessionNumbers, <1>a
       DEF RowsFit, KeyStages, KeyCovers, RowFits, NoneOf, TokenKeys, Plain, s, RefundPCs
  <1>8. KeyExact(r)'
    BY <1>1, <1>2, <1>3, <1>4, SessionNumbers, <1>a
       DEF RowsFit, KeyStages, KeyCovers, KeyExact, RowFits, NoneOf, Plain, s, RefundPCs
  <1>9. WalletStages(r)'
    BY <1>1, <1>2, <1>3, <1>4, SessionNumbers, <1>a
       DEF WalletStages, Plain, s, ReservePCs, SettlePCs, DebitKeys, FundingDelta,
           KeyExtension, Limited
  <1>10. SettleFits(r)'
    BY <1>1, <1>2, <1>3, <1>4, SessionNumbers, <1>a
       DEF RowsFit, NoneOf, WalletStages, SettleFits, s, SettlePCs, FundingDelta
  <1>11. WalletExact(r)'
    BY <1>1, <1>2, <1>3, <1>4, SessionNumbers, <1>a
       DEF RowsFit, NoneOf, WalletStages, SettleFits, WalletExact, Plain, s, RefundPCs,
           SettlePCs, ReservePCs, OpenedPCs
  <1>12. ProcFits(r)'
    BY <1>1, <1>2, <1>3, <1>4 DEF ProcFits, s
  <1>13. QED
    BY <1>1, <1>2, <1>4, <1>5, <1>6, <1>7, <1>8, <1>9, <1>10, <1>11, <1>12, <1>d, DebitStep
       DEF Fits, DebitKeys

\* Extending the part of the API key keeps the invariant.
LEMMA ReserveTokenKeeps ==
  ASSUME BillingInv, NEW r \in Requests, ReserveToken(r)
  PROVE  BillingInv'
  <1>1. /\ BillingTypes /\ SumsHold /\ ProcFits(r)
        /\ RowsFit(r) /\ KeyStages(r) /\ KeyCovers(r) /\ KeyExact(r)
        /\ WalletStages(r) /\ SettleFits(r) /\ WalletExact(r)
        /\ proc \in [Actors -> ProcType] /\ r \in Actors
        /\ \A kind \in TokenKeys \cup WalletKeys : RowFits(<<r, kind>>)
    BY InvOf
  <1>2. UNCHANGED <<user, ledger, row, proc, batch>>
    BY DEF ReserveToken
  <1>3. s(r).pc = "reserveToken"
    BY DEF ReserveToken
  <1> DEFINE extended == [s(r) EXCEPT !.pc = "open", !.preConsumed = s(r).target,
                                      !.tokenConsumed = s(r).target]
             failed == [s(r) EXCEPT !.pc = "reserveRollback"]
             d0 == KeyExtension(r)
  <1>a. /\ extended \in SessionType /\ failed \in SessionType
        /\ extended.pc = "open" /\ extended.preConsumed = s(r).target
        /\ extended.tokenConsumed = s(r).target
        /\ extended.target = s(r).target /\ extended.actual = s(r).actual
        /\ extended.consumed = s(r).consumed /\ extended.reserves = s(r).reserves
        /\ extended.fundingSettled = s(r).fundingSettled
        /\ extended.tokenRefunded = s(r).tokenRefunded
        /\ failed.pc = "reserveRollback" /\ SameButPc(failed, s(r))
    BY <1>1, SessionNumbers DEF SessionType, SessionPCs, SameButPc
  <1>b. d0 \in Nat /\ d0 > 0 /\ d0 = s(r).target - s(r).tokenConsumed
    BY <1>1, <1>3, SessionNumbers DEF WalletStages, KeyExtension
  <1>c. PICK v \in {extended, failed}, d \in {0, d0} :
          /\ session' = [session EXCEPT ![r] = v] /\ KeyMoved(r, d)
          /\ refundFaults' \in 0..MaxRefundFaults
          /\ v = extended => d = d0
    <2>1. KeyCall(r, CanDecrease(d0), DecreaseTokenQuota(r, d0), extended, failed, failed)
      BY DEF ReserveToken
    <2> HIDE DEF extended, failed, d0
    <2>2. CanDecrease(d0) /\ DecreaseTokenQuota(r, d0) => KeyMoved(r, d0)
      BY <1>1, <1>b, DecreaseIsSound DEF SumsHold
    <2>3. UNCHANGED <<token, keyNet>> => KeyMoved(r, 0)
      BY <1>1, KeyUnmoved DEF SumsHold
    <2>4. refundFaults \in 0..MaxRefundFaults /\ MaxRefundFaults \in Nat
      BY <1>1, RefundAssumption DEF BillingTypes
    <2>5. extended # failed
      BY <1>a
    <2>6. QED
      BY <2>1, <2>2, <2>3, <2>4, <2>5 DEF KeyCall, RefundFault, NoRefundFault
  <1> HIDE DEF extended, failed, d0
  <1>4. /\ v \in SessionType /\ session' = [session EXCEPT ![r] = v] /\ s(r)' = v
        /\ KeyMoved(r, d) /\ d \in Int /\ d >= 0 /\ refundFaults' \in 0..MaxRefundFaults
        /\ keyNet'[r] = keyNet[r] + d
        /\ \/ /\ v.pc = "open" /\ v.preConsumed = s(r).target /\ v.tokenConsumed = s(r).target
              /\ d = s(r).target - s(r).tokenConsumed
           \/ /\ v.pc = "reserveRollback" /\ v.preConsumed = s(r).preConsumed
              /\ v.tokenConsumed = s(r).tokenConsumed
        /\ v.target = s(r).target /\ v.actual = s(r).actual /\ v.consumed = s(r).consumed
        /\ v.reserves = s(r).reserves /\ v.fundingSettled = s(r).fundingSettled
        /\ v.tokenRefunded = s(r).tokenRefunded
    BY <1>1, <1>a, <1>b, <1>c, SessionNumbers DEF SameButPc, KeyMoved, BillingTypes, s
  <1>5. RowsFit(r)'
    BY <1>1, <1>2, <1>3, <1>4, SessionNumbers
       DEF RowsFit, NoneOf, Plain, s, RefundPCs, SettlePCs, FundingDelta
  <1>6. KeyStages(r)'
    BY <1>1, <1>2, <1>3, <1>4, SessionNumbers DEF KeyStages, s, RefundPCs
  <1>7. KeyCovers(r)'
    BY <1>1, <1>2, <1>3, <1>4, SessionNumbers
       DEF RowsFit, KeyStages, KeyCovers, RowFits, NoneOf, TokenKeys, Plain, s, RefundPCs,
           WalletStages, ReservePCs
  <1>8. KeyExact(r)'
    BY <1>1, <1>2, <1>3, <1>4, SessionNumbers
       DEF RowsFit, KeyStages, KeyCovers, KeyExact, RowFits, NoneOf, Plain, s, RefundPCs
  <1>9. WalletStages(r)'
    BY <1>1, <1>2, <1>3, <1>4, SessionNumbers
       DEF WalletStages, Plain, s, ReservePCs, SettlePCs, DebitKeys, FundingDelta,
           KeyExtension, Limited
  <1>10. SettleFits(r)'
    BY <1>1, <1>2, <1>3, <1>4, SessionNumbers
       DEF RowsFit, NoneOf, WalletStages, SettleFits, s, SettlePCs, FundingDelta
  <1>11. WalletExact(r)'
    BY <1>1, <1>2, <1>3, <1>4, SessionNumbers
       DEF RowsFit, NoneOf, WalletStages, SettleFits, WalletExact, Plain, s, RefundPCs,
           SettlePCs, ReservePCs, OpenedPCs
  <1>12. ProcFits(r)'
    BY <1>1, <1>2, <1>3, <1>4 DEF ProcFits, WaitsFor, Busy, s
  <1>13. QED
    BY <1>1, <1>2, <1>4, <1>5, <1>6, <1>7, <1>8, <1>9, <1>10, <1>11, <1>12, KeyStep DEF Fits

\* The roll-back of the wallet part keeps the invariant.
LEMMA RollbackReserveKeeps ==
  ASSUME BillingInv, NEW r \in Requests, RollbackReserve(r)
  PROVE  BillingInv'
  <1>1. /\ BillingTypes /\ SumsHold /\ ProcFits(r)
        /\ RowsFit(r) /\ KeyStages(r) /\ KeyCovers(r) /\ KeyExact(r)
        /\ WalletStages(r) /\ SettleFits(r) /\ WalletExact(r)
        /\ proc \in [Actors -> ProcType] /\ r \in Actors
        /\ \A kind \in TokenKeys \cup WalletKeys : RowFits(<<r, kind>>)
    BY InvOf
  <1>2. UNCHANGED <<user, token, ledger, row, batch, refundFaults, keyNet>>
    BY DEF RollbackReserve
  <1>3. /\ s(r).pc = "reserveRollback"
        /\ s(r).target > s(r).preConsumed /\ s(r).consumed = s(r).target
    BY <1>1 DEF RollbackReserve, WalletStages, ReservePCs
  <1>a. CASE proc[r].at = "idle" /\ Queue(r, "wallet-reserve", FundingExtension(r))
             /\ UNCHANGED session
    <2>1. /\ proc' = [proc EXCEPT ![r] = proc'[r]] /\ proc'[r] \in ProcType
          /\ proc'[r].at = "ensure" /\ proc'[r].key = <<r, "wallet-reserve">>
          /\ proc'[r].amount = FundingExtension(r)
      <3>1. "wallet-reserve" \in TokenKeys \cup WalletKeys /\ FundingExtension(r) \in 0..MaxQuota
        BY <1>1, <1>3, SessionNumbers DEF TokenKeys, WalletKeys, FundingExtension
      <3>2. QED
        BY <1>1, <1>a, <3>1, Queued
    <2>2. s(r)' = s(r) /\ session' = [session EXCEPT ![r] = s(r)] /\ s(r) \in SessionType
      BY <1>1, <1>a, SessionNumbers DEF BillingTypes, s
    <2>3. Fits(r)'
      BY <1>1, <1>2, <1>a
         DEF Fits, RowsFit, KeyStages, KeyCovers, KeyExact, WalletStages, SettleFits,
             WalletExact, NoneOf, Plain, s, FundingDelta, KeyExtension, Limited
    <2>4. ProcFits(r)'
      BY <1>1, <1>2, <1>3, <1>a, <2>1, <2>2
         DEF ProcFits, WaitsFor, NoneOf, s, FundingExtension
    <2>5. QED
      BY <1>1, <1>2, <2>1, <2>2, <2>3, <2>4, QuietMove DEF BillingTypes
  <1>b. CASE /\ Return(r, "idle")
             /\ session' = [session EXCEPT ![r].pc = "open",
                  ![r].consumed = IF Succeeded(r) THEN @ - FundingExtension(r) ELSE @]
    <2> DEFINE left == IF Succeeded(r) THEN s(r).consumed - FundingExtension(r)
                       ELSE s(r).consumed
               v == [s(r) EXCEPT !.pc = "open", !.consumed = left]
    <2>0. left \in 0..MaxQuota /\ left >= s(r).preConsumed
      BY <1>1, <1>3, SessionNumbers DEF FundingExtension
    <2>1. session' = [session EXCEPT ![r] = v]
      BY <1>1, <1>b DEF BillingTypes, SessionType, s
    <2> HIDE DEF left
    <2>2. /\ v \in SessionType /\ v.pc = "open" /\ v.consumed = left
          /\ v.target = s(r).target /\ v.actual = s(r).actual
          /\ v.preConsumed = s(r).preConsumed /\ v.tokenConsumed = s(r).tokenConsumed
          /\ v.reserves = s(r).reserves /\ v.fundingSettled = s(r).fundingSettled
          /\ v.tokenRefunded = s(r).tokenRefunded
      <3>1. s(r) \in SessionType /\ "open" \in SessionPCs
        BY <1>1, SessionNumbers DEF SessionPCs
      <3>2. QED
        BY <2>0, <3>1 DEF SessionType
    <2>3. s(r)' = v
      BY <1>1, <2>1 DEF BillingTypes, s
    <2> HIDE DEF v
    <2>5. RowsFit(r)'
      BY <1>1, <1>2, <1>3, <2>0, <2>2, <2>3, SessionNumbers
         DEF RowsFit, NoneOf, Plain, s, RefundPCs, SettlePCs, FundingDelta
    <2>6. KeyStages(r)'
      BY <1>1, <1>2, <1>3, <2>0, <2>2, <2>3, SessionNumbers DEF KeyStages, s, RefundPCs
    <2>7. KeyCovers(r)'
      BY <1>1, <1>2, <1>3, <2>0, <2>2, <2>3, SessionNumbers
         DEF RowsFit, KeyStages, KeyCovers, RowFits, NoneOf, TokenKeys, Plain, s, RefundPCs,
             WalletStages, ReservePCs
    <2>8. KeyExact(r)'
      BY <1>1, <1>2, <1>3, <2>0, <2>2, <2>3, SessionNumbers
         DEF RowsFit, KeyStages, KeyCovers, KeyExact, RowFits, NoneOf, Plain, s, RefundPCs
    <2>9. WalletStages(r)'
      BY <1>1, <1>2, <1>3, <2>0, <2>2, <2>3, SessionNumbers
         DEF WalletStages, Plain, s, ReservePCs, SettlePCs, DebitKeys, FundingDelta,
             KeyExtension, Limited
    <2>10. SettleFits(r)'
      BY <1>1, <1>2, <1>3, <2>0, <2>2, <2>3, SessionNumbers
         DEF RowsFit, NoneOf, WalletStages, SettleFits, s, SettlePCs, FundingDelta
    <2>11. WalletExact(r)'
      BY <1>1, <1>2, <1>3, <2>0, <2>2, <2>3, SessionNumbers
         DEF RowsFit, NoneOf, WalletStages, SettleFits, WalletExact, Plain, s, RefundPCs,
             SettlePCs, ReservePCs, OpenedPCs
    <2>12. proc' = [proc EXCEPT ![r] = proc'[r]] /\ proc'[r] \in ProcType /\ proc'[r].at = "idle"
      BY <1>1, <1>b, Returned
    <2>13. ProcFits(r)'
      BY <2>2, <2>3, <2>12 DEF ProcFits, s
    <2>14. QED
      BY <1>1, <1>2, <2>1, <2>2, <2>5, <2>6, <2>7, <2>8, <2>9, <2>10, <2>11, <2>12, <2>13,
         QuietMove DEF Fits, BillingTypes
  <1>4. QED
    BY <1>a, <1>b DEF RollbackReserve

-------------------------------------------------------------------------------
(***************************************************************************)
(* Settling a session.                                                     *)
(***************************************************************************)

\* The beginning of a settlement keeps the invariant.
LEMMA SettleSessionKeeps ==
  ASSUME BillingInv, NEW r \in Requests, SettleSession(r)
  PROVE  BillingInv'
  <1>1. /\ BillingTypes /\ SumsHold /\ ProcFits(r)
        /\ RowsFit(r) /\ KeyStages(r) /\ KeyCovers(r) /\ KeyExact(r)
        /\ WalletStages(r) /\ SettleFits(r) /\ WalletExact(r)
        /\ proc \in [Actors -> ProcType] /\ r \in Actors
        /\ \A kind \in TokenKeys \cup WalletKeys : RowFits(<<r, kind>>)
    BY InvOf
  <1>2. UNCHANGED <<user, token, ledger, row, proc, batch, keyNet, refundFaults>>
    BY DEF SettleSession, refundVars
  <1>3. s(r).pc = "open"
    BY DEF SettleSession
  <1>4. PICK v \in SessionType :
          /\ session' = [session EXCEPT ![r] = v] /\ s(r)' = v /\ v.pc = "settle"
          /\ v.target = s(r).target /\ v.preConsumed = s(r).preConsumed
          /\ v.tokenConsumed = s(r).tokenConsumed /\ v.consumed = s(r).consumed
          /\ v.reserves = s(r).reserves /\ v.fundingSettled = s(r).fundingSettled
          /\ v.tokenRefunded = s(r).tokenRefunded
    <2>1. PICK actual \in Actuals :
            session' = [session EXCEPT ![r].actual = actual, ![r].pc = "settle"]
      BY DEF SettleSession
    <2> DEFINE v == [s(r) EXCEPT !.actual = actual, !.pc = "settle"]
    <2>2. session' = [session EXCEPT ![r] = v]
      BY <1>1, <2>1 DEF BillingTypes, SessionType, s
    <2>3. /\ v \in SessionType /\ v.pc = "settle"
          /\ v.target = s(r).target /\ v.preConsumed = s(r).preConsumed
          /\ v.tokenConsumed = s(r).tokenConsumed /\ v.consumed = s(r).consumed
          /\ v.reserves = s(r).reserves /\ v.fundingSettled = s(r).fundingSettled
          /\ v.tokenRefunded = s(r).tokenRefunded
      <3>1. s(r) \in SessionType /\ actual \in 0..MaxQuota /\ "settle" \in SessionPCs
        BY <1>1, SessionNumbers, SessionAssumption DEF SessionPCs
      <3>2. QED
        BY <3>1 DEF SessionType
    <2>4. s(r)' = v
      BY <1>1, <2>2 DEF BillingTypes, s
    <2> HIDE DEF v
    <2>5. QED
      BY <2>2, <2>3, <2>4
  <1>5. RowsFit(r)'
    BY <1>1, <1>2, <1>3, <1>4, SessionNumbers
       DEF RowsFit, NoneOf, Plain, s, RefundPCs, SettlePCs, FundingDelta
  <1>6. KeyStages(r)'
    BY <1>1, <1>2, <1>3, <1>4, SessionNumbers DEF KeyStages, s, RefundPCs
  <1>7. KeyCovers(r)'
    BY <1>1, <1>2, <1>3, <1>4, SessionNumbers
       DEF RowsFit, KeyStages, KeyCovers, RowFits, NoneOf, TokenKeys, Plain, s, RefundPCs
  <1>8. KeyExact(r)'
    BY <1>1, <1>2, <1>3, <1>4, SessionNumbers
       DEF RowsFit, KeyStages, KeyCovers, KeyExact, RowFits, NoneOf, Plain, s, RefundPCs
  <1>9. WalletStages(r)'
    BY <1>1, <1>2, <1>3, <1>4, SessionNumbers
       DEF WalletStages, Plain, s, ReservePCs, SettlePCs, DebitKeys, FundingDelta,
           KeyExtension, Limited
  <1>10. SettleFits(r)'
    BY <1>1, <1>2, <1>3, <1>4, SessionNumbers
       DEF RowsFit, NoneOf, WalletStages, SettleFits, s, SettlePCs, FundingDelta
  <1>11. WalletExact(r)'
    BY <1>1, <1>2, <1>3, <1>4, SessionNumbers
       DEF RowsFit, NoneOf, WalletStages, SettleFits, WalletExact, Plain, s, RefundPCs,
           SettlePCs, ReservePCs, OpenedPCs
  <1>12. ProcFits(r)'
    BY <1>1, <1>2, <1>3, <1>4 DEF ProcFits, s
  <1>13. QED
    BY <1>1, <1>2, <1>4, <1>5, <1>6, <1>7, <1>8, <1>9, <1>10, <1>11, <1>12, QuietMove
       DEF Fits, BillingTypes

\* The session after its funding was settled.
LEMMA FundingSettledIs ==
  ASSUME BillingTypes, NEW r \in Requests
  PROVE  /\ FundingSettled(r) \in SessionType /\ FundingSettled(r).fundingSettled = TRUE
         /\ \/ FundingSettled(r).pc = "settled"
            \/ FundingSettled(r).pc = "settleToken" /\ Limited(r)
         /\ FundingSettled(r).target = s(r).target /\ FundingSettled(r).actual = s(r).actual
         /\ FundingSettled(r).preConsumed = s(r).preConsumed
         /\ FundingSettled(r).tokenConsumed = s(r).tokenConsumed
         /\ FundingSettled(r).consumed = s(r).consumed
         /\ FundingSettled(r).reserves = s(r).reserves
         /\ FundingSettled(r).tokenRefunded = s(r).tokenRefunded
  <1>1. s(r) \in SessionType /\ {"settled", "settleToken"} \subseteq SessionPCs
    BY SessionNumbers DEF SessionPCs
  <1>2. ~Limited(r) => TokenDelta(r) = 0
    BY DEF TokenDelta
  <1>3. CASE TokenDelta(r) = 0
    BY <1>1, <1>3 DEF FundingSettled, SessionType
  <1>4. CASE TokenDelta(r) # 0
    BY <1>1, <1>2, <1>4 DEF FundingSettled, SessionType
  <1>5. QED
    BY <1>3, <1>4

\* Settling the wallet keeps the invariant.
LEMMA SettleFundingKeeps ==
  ASSUME BillingInv, NEW r \in Requests, SettleFunding(r)
  PROVE  BillingInv'
  <1>1. /\ BillingTypes /\ SumsHold /\ ProcFits(r)
        /\ RowsFit(r) /\ KeyStages(r) /\ KeyCovers(r) /\ KeyExact(r)
        /\ WalletStages(r) /\ SettleFits(r) /\ WalletExact(r)
        /\ proc \in [Actors -> ProcType] /\ r \in Actors
        /\ \A kind \in TokenKeys \cup WalletKeys : RowFits(<<r, kind>>)
    BY InvOf
  <1>2. UNCHANGED <<token, row, batch, keyNet>>
    BY DEF SettleFunding
  <1>3. s(r).pc = "settle"
    BY DEF SettleFunding
  <1> DEFINE settled == FundingSettled(r)
             failed == [s(r) EXCEPT !.pc = "settleFailed"]
  <1>a. /\ settled \in SessionType /\ settled.fundingSettled = TRUE
        /\ \/ settled.pc = "settled"
           \/ settled.pc = "settleToken" /\ Limited(r)
        /\ settled.target = s(r).target /\ settled.actual = s(r).actual
        /\ settled.preConsumed = s(r).preConsumed
        /\ settled.tokenConsumed = s(r).tokenConsumed /\ settled.consumed = s(r).consumed
        /\ settled.reserves = s(r).reserves /\ settled.tokenRefunded = s(r).tokenRefunded
    BY <1>1, FundingSettledIs
  <1>b. failed \in SessionType /\ failed.pc = "settleFailed" /\ SameButPc(failed, s(r))
    BY <1>1, SessionNumbers DEF SessionType, SessionPCs, SameButPc
  <1>c. FundingDelta(r) \in Int /\ -FundingDelta(r) \in Int
        /\ (FundingDelta(r) >= 0 => FundingDelta(r) \in 0..MaxQuota)
        /\ (FundingDelta(r) < 0 => -FundingDelta(r) \in 0..MaxQuota)
    BY <1>1, SessionNumbers DEF FundingDelta
  <1>d. FundingDelta(r) >= 0 => ledger[<<r, "wallet-settle-refund">>] = 0
    BY <1>1, <1>c DEF RowsFit, RowFits, NoneOf, WalletKeys
  <1>e. proc[r].at = "idle"
    BY <1>1, <1>3 DEF ProcFits
  <1> HIDE DEF settled, failed
  <1>4. CASE FundingDelta(r) < 0
    <2>1. /\ Queue(r, "wallet-settle-refund", -FundingDelta(r)) /\ SessionGoes(r, "settling")
          /\ UNCHANGED <<user, ledger, refundFaults>>
      <3>1. ~(FundingDelta(r) = 0) /\ ~(FundingDelta(r) > 0)
        BY <1>4, <1>c
      <3>2. QED
        BY <3>1, Zenon DEF SettleFunding
    <2>2. /\ proc' = [proc EXCEPT ![r] = proc'[r]] /\ proc'[r] \in ProcType
          /\ proc'[r].at = "ensure" /\ proc'[r].key = <<r, "wallet-settle-refund">>
          /\ proc'[r].amount = -FundingDelta(r)
      <3>1. "wallet-settle-refund" \in TokenKeys \cup WalletKeys
        BY DEF WalletKeys
      <3>2. QED
        BY <1>1, <1>4, <1>c, <2>1, <3>1, Queued
    <2>3. PICK v \in SessionType :
            /\ session' = [session EXCEPT ![r] = v] /\ s(r)' = v
            /\ v.pc = "settling" /\ SameButPc(v, s(r))
      BY <1>1, <2>1, OnlyPc DEF SessionPCs
    <2>5. RowsFit(r)'
      BY <1>1, <1>2, <1>3, <1>4, <2>1, <2>3, SessionNumbers
         DEF RowsFit, NoneOf, Plain, s, RefundPCs, SettlePCs, FundingDelta, SameButPc
    <2>6. KeyStages(r)'
      BY <1>1, <1>2, <1>3, <1>4, <2>1, <2>3, SessionNumbers
         DEF KeyStages, s, RefundPCs, SameButPc
    <2>7. KeyCovers(r)'
      BY <1>1, <1>2, <1>3, <1>4, <2>1, <2>3, SessionNumbers
         DEF RowsFit, KeyStages, KeyCovers, RowFits, NoneOf, TokenKeys, Plain, s, RefundPCs,
             SameButPc
    <2>8. KeyExact(r)'
      BY <1>1, <1>2, <1>3, <1>4, <2>1, <2>3, SessionNumbers
         DEF RowsFit, KeyStages, KeyCovers, KeyExact, RowFits, NoneOf, Plain, s, RefundPCs,
             SameButPc
    <2>9. WalletStages(r)'
      BY <1>1, <1>2, <1>3, <1>4, <2>1, <2>3, SessionNumbers
         DEF WalletStages, Plain, s, ReservePCs, SettlePCs, DebitKeys, FundingDelta,
             KeyExtension, Limited, SameButPc
    <2>10. SettleFits(r)'
      BY <1>1, <1>2, <1>3, <1>4, <2>1, <2>3, SessionNumbers
         DEF RowsFit, NoneOf, WalletStages, SettleFits, s, SettlePCs, FundingDelta, SameButPc
    <2>11. WalletExact(r)'
      BY <1>1, <1>2, <1>3, <1>4, <2>1, <2>3, SessionNumbers
         DEF RowsFit, NoneOf, WalletStages, SettleFits, WalletExact, Plain, s, RefundPCs,
             SettlePCs, ReservePCs, OpenedPCs, SameButPc
    <2>12. ProcFits(r)'
      BY <1>2, <2>2, <2>3 DEF ProcFits, WaitsFor, SameButPc, FundingDelta, s
    <2>13. QED
      BY <1>1, <1>2, <2>1, <2>2, <2>3, <2>5, <2>6, <2>7, <2>8, <2>9, <2>10, <2>11, <2>12,
         QuietMove DEF Fits, BillingTypes
  <1>f. ASSUME FundingDelta(r) >= 0
        PROVE  \E v \in {settled, failed} :
                 /\ session' = [session EXCEPT ![r] = v]
                 /\ Debited(r, "wallet-settle-debit", FundingDelta(r))
                 /\ refundFaults' \in 0..MaxRefundFaults /\ proc' = proc
                 /\ v = settled =>
                      ledger'[<<r, "wallet-settle-debit">>] = -FundingDelta(r)
    <2>0. settled # failed
      BY <1>3, <1>a, <1>b
    <2>1. CASE FundingDelta(r) = 0
      <3>1. /\ session' = [session EXCEPT ![r] = settled]
            /\ UNCHANGED <<user, ledger, proc, refundFaults>>
        BY <2>1 DEF SettleFunding, settled
      <3>2. WalletSumHolds'
        BY <1>1, <3>1 DEF SumsHold, WalletSumHolds, WalletNet
      <3>3. ledger[<<r, "wallet-settle-debit">>] = 0
        BY <1>1, <2>1 DEF SettleFits
      <3>4. ledger'[<<r, "wallet-settle-debit">>] = -FundingDelta(r)
        <4>1. -FundingDelta(r) = 0
          <5>1. \A x \in Int : x >= 0 /\ x <= 0 => -x = 0
            OBVIOUS
          <5>2. FundingDelta(r) >= 0 /\ FundingDelta(r) <= 0
            BY <2>1
          <5>3. QED
            BY <1>c, <5>1, <5>2
        <4>2. ledger' = ledger
          BY <3>1
        <4>3. QED
          BY <3>3, <4>1, <4>2
      <3>5. Debited(r, "wallet-settle-debit", FundingDelta(r))
        BY <1>1, <3>1, <3>2 DEF Debited, BillingTypes, LedgerType
      <3>6. refundFaults' \in 0..MaxRefundFaults
        BY <1>1, <3>1 DEF BillingTypes
      <3>7. QED
        BY <3>1, <3>4, <3>5, <3>6
    <2>2. CASE FundingDelta(r) > 0
      <3>1. /\ DebitCall(r, "wallet-settle-debit", FundingDelta(r), TRUE, settled, failed)
            /\ proc' = proc
        <4>1. ~(FundingDelta(r) = 0) /\ ~(FundingDelta(r) < 0)
          BY <1>c, <2>2
        <4>2. QED
          BY <4>1, Zenon DEF SettleFunding, settled, failed
      <3>a. PICK settlement \in BOOLEAN :
              DebitCall(r, "wallet-settle-debit", FundingDelta(r), settlement, settled, failed)
        BY <3>1, Zenon
      <3>2. /\ "wallet-settle-debit" \in DebitKeys /\ WalletSumHolds
            /\ BillingTypes /\ FundingDelta(r) \in 0..MaxQuota
        BY <1>1, <1>c, <2>2 DEF DebitKeys, SumsHold
      <3>3. /\ Debited(r, "wallet-settle-debit", FundingDelta(r))
            /\ refundFaults' \in 0..MaxRefundFaults
            /\ \/ /\ session' = [session EXCEPT ![r] = settled]
                  /\ ledger[<<r, "wallet-settle-debit">>] = 0 =>
                       ledger'[<<r, "wallet-settle-debit">>] = -FundingDelta(r)
                  /\ ledger[<<r, "wallet-settle-debit">>] # 0 => ledger' = ledger
               \/ session' = [session EXCEPT ![r] = failed]
        BY <3>a, <3>2, DebitOutcomes
      <3>4. ledger[<<r, "wallet-settle-debit">>] # 0 =>
              ledger[<<r, "wallet-settle-debit">>] = -FundingDelta(r)
        BY <1>1 DEF SettleFits
      <3>5. QED
        BY <2>0, <3>1, <3>3, <3>4
    <2>3. QED
      BY <1>c, <1>f, <2>1, <2>2
  <1>5. CASE FundingDelta(r) >= 0
    <2>0. PICK v \in {settled, failed} :
            /\ session' = [session EXCEPT ![r] = v]
            /\ Debited(r, "wallet-settle-debit", FundingDelta(r))
            /\ refundFaults' \in 0..MaxRefundFaults /\ proc' = proc
            /\ v = settled => ledger'[<<r, "wallet-settle-debit">>] = -FundingDelta(r)
      BY <1>5, <1>f
    <2>1. /\ v \in SessionType /\ s(r)' = v
          /\ \/ /\ v.pc = "settled" \/ (v.pc = "settleToken" /\ Limited(r))
                /\ v.fundingSettled = TRUE
                /\ ledger'[<<r, "wallet-settle-debit">>] = -FundingDelta(r)
             \/ v.pc = "settleFailed" /\ v.fundingSettled = s(r).fundingSettled
          /\ v.target = s(r).target /\ v.actual = s(r).actual
          /\ v.preConsumed = s(r).preConsumed /\ v.tokenConsumed = s(r).tokenConsumed
          /\ v.consumed = s(r).consumed /\ v.reserves = s(r).reserves
          /\ v.tokenRefunded = s(r).tokenRefunded
      BY <1>1, <1>a, <1>b, <2>0 DEF SameButPc, BillingTypes, s
    <2>2. /\ ledger'[<<r, "wallet-settle-debit">>]
               \in {ledger[<<r, "wallet-settle-debit">>], -FundingDelta(r)}
          /\ ledger'[<<r, "wallet-reserve-debit">>] = ledger[<<r, "wallet-reserve-debit">>]
          /\ ledger'[<<r, "wallet-preconsume">>] = ledger[<<r, "wallet-preconsume">>]
          /\ ledger'[<<r, "wallet">>] = ledger[<<r, "wallet">>]
          /\ ledger'[<<r, "wallet-settle-refund">>] = ledger[<<r, "wallet-settle-refund">>]
      BY <2>0, DebitedEntries DEF DebitKeys, Debited
    <2>5. RowsFit(r)'
      BY <1>1, <1>2, <1>3, <1>5, <1>d, <2>1, <2>2, SessionNumbers
         DEF RowsFit, NoneOf, Plain, s, RefundPCs, SettlePCs, FundingDelta
    <2>6. KeyStages(r)'
      BY <1>1, <1>2, <1>3, <1>5, <1>d, <2>1, <2>2, SessionNumbers DEF KeyStages, s, RefundPCs
    <2>7. KeyCovers(r)'
      BY <1>1, <1>2, <1>3, <1>5, <1>d, <2>1, <2>2, SessionNumbers
         DEF RowsFit, KeyStages, KeyCovers, RowFits, NoneOf, TokenKeys, Plain, s, RefundPCs
    <2>8. KeyExact(r)'
      BY <1>1, <1>2, <1>3, <1>5, <1>d, <2>1, <2>2, SessionNumbers
         DEF RowsFit, KeyStages, KeyCovers, KeyExact, RowFits, NoneOf, Plain, s, RefundPCs
    <2>9. WalletStages(r)'
      BY <1>1, <1>2, <1>3, <1>5, <1>d, <2>1, <2>2, SessionNumbers
         DEF WalletStages, Plain, s, ReservePCs, SettlePCs, DebitKeys, FundingDelta,
             KeyExtension, Limited
    <2>10. SettleFits(r)'
      BY <1>1, <1>2, <1>3, <1>5, <1>d, <2>1, <2>2, SessionNumbers
         DEF RowsFit, NoneOf, WalletStages, SettleFits, s, SettlePCs, FundingDelta
    <2>11. WalletExact(r)'
      BY <1>1, <1>2, <1>3, <1>5, <1>d, <2>1, <2>2, SessionNumbers
         DEF RowsFit, NoneOf, WalletStages, SettleFits, WalletExact, Plain, s, RefundPCs,
             SettlePCs, ReservePCs, OpenedPCs
    <2>12. ProcFits(r)'
      BY <1>e, <2>0, <2>1 DEF ProcFits, s
    <2>13. QED
      BY <1>1, <1>2, <2>0, <2>1, <2>5, <2>6, <2>7, <2>8, <2>9, <2>10, <2>11, <2>12, DebitStep
         DEF Fits, DebitKeys
  <1>6. QED
    BY <1>4, <1>5, <1>c

\* The answer to a settlement by refund keeps the invariant.
LEMMA SettleRefundedKeeps ==
  ASSUME BillingInv, NEW r \in Requests, SettleRefunded(r)
  PROVE  BillingInv'
  <1>1. /\ BillingTypes /\ SumsHold /\ ProcFits(r)
        /\ RowsFit(r) /\ KeyStages(r) /\ KeyCovers(r) /\ KeyExact(r)
        /\ WalletStages(r) /\ SettleFits(r) /\ WalletExact(r)
        /\ proc \in [Actors -> ProcType] /\ r \in Actors
        /\ \A kind \in TokenKeys \cup WalletKeys : RowFits(<<r, kind>>)
    BY InvOf
  <1>2. UNCHANGED <<user, token, ledger, row, batch, refundFaults, keyNet>>
    BY DEF SettleRefunded
  <1>3. s(r).pc = "settling" /\ FundingDelta(r) < 0
    BY <1>1 DEF SettleRefunded, WalletStages
  <1>4. PICK v \in SessionType :
          /\ session' = [session EXCEPT ![r] = v] /\ s(r)' = v
          /\ \/ /\ v.pc = "settled" \/ (v.pc = "settleToken" /\ Limited(r))
                /\ v.fundingSettled = TRUE
                /\ ledger[<<r, "wallet-settle-refund">>] = -FundingDelta(r)
             \/ v.pc = "settleFailed" /\ v.fundingSettled = s(r).fundingSettled
          /\ v.target = s(r).target /\ v.actual = s(r).actual
          /\ v.preConsumed = s(r).preConsumed /\ v.tokenConsumed = s(r).tokenConsumed
          /\ v.consumed = s(r).consumed /\ v.reserves = s(r).reserves
          /\ v.tokenRefunded = s(r).tokenRefunded
    <2> DEFINE settled == FundingSettled(r)
               failed == [s(r) EXCEPT !.pc = "settleFailed"]
    <2>1. /\ settled \in SessionType /\ settled.fundingSettled = TRUE
          /\ \/ settled.pc = "settled"
             \/ settled.pc = "settleToken" /\ Limited(r)
          /\ settled.target = s(r).target /\ settled.actual = s(r).actual
          /\ settled.preConsumed = s(r).preConsumed
          /\ settled.tokenConsumed = s(r).tokenConsumed /\ settled.consumed = s(r).consumed
          /\ settled.reserves = s(r).reserves /\ settled.tokenRefunded = s(r).tokenRefunded
      BY <1>1, FundingSettledIs
    <2>2. failed \in SessionType /\ failed.pc = "settleFailed" /\ SameButPc(failed, s(r))
      BY <1>1, SessionNumbers DEF SessionType, SessionPCs, SameButPc
    <2>3. session' = [session EXCEPT ![r] = IF Succeeded(r) THEN settled ELSE failed]
      BY DEF SettleRefunded
    <2> HIDE DEF settled, failed
    <2>4. Succeeded(r) => ledger[<<r, "wallet-settle-refund">>] = -FundingDelta(r)
      BY <1>1, <1>3 DEF Succeeded, ProcFits, WaitsFor, WalletKeys
    <2>5. s(r)' = IF Succeeded(r) THEN settled ELSE failed
      BY <1>1, <2>3 DEF BillingTypes, s
    <2>6. CASE Succeeded(r)
      BY <2>1, <2>3, <2>4, <2>5, <2>6
    <2>7. CASE ~Succeeded(r)
      BY <2>2, <2>3, <2>5, <2>7 DEF SameButPc
    <2>8. QED
      BY <2>6, <2>7
  <1>5. RowsFit(r)'
    BY <1>1, <1>2, <1>3, <1>4, SessionNumbers
       DEF RowsFit, NoneOf, Plain, s, RefundPCs, SettlePCs, FundingDelta
  <1>6. KeyStages(r)'
    BY <1>1, <1>2, <1>3, <1>4, SessionNumbers DEF KeyStages, s, RefundPCs
  <1>7. KeyCovers(r)'
    BY <1>1, <1>2, <1>3, <1>4, SessionNumbers
       DEF RowsFit, KeyStages, KeyCovers, RowFits, NoneOf, TokenKeys, Plain, s, RefundPCs
  <1>8. KeyExact(r)'
    BY <1>1, <1>2, <1>3, <1>4, SessionNumbers
       DEF RowsFit, KeyStages, KeyCovers, KeyExact, RowFits, NoneOf, Plain, s, RefundPCs
  <1>9. WalletStages(r)'
    BY <1>1, <1>2, <1>3, <1>4, SessionNumbers
       DEF WalletStages, Plain, s, ReservePCs, SettlePCs, DebitKeys, FundingDelta,
           KeyExtension, Limited
  <1>10. SettleFits(r)'
    BY <1>1, <1>2, <1>3, <1>4, SessionNumbers
       DEF RowsFit, NoneOf, WalletStages, SettleFits, s, SettlePCs, FundingDelta
  <1>11. WalletExact(r)'
    BY <1>1, <1>2, <1>3, <1>4, SessionNumbers
       DEF RowsFit, NoneOf, WalletStages, SettleFits, WalletExact, Plain, s, RefundPCs,
           SettlePCs, ReservePCs, OpenedPCs
  <1>12. proc' = [proc EXCEPT ![r] = proc'[r]] /\ proc'[r] \in ProcType /\ proc'[r].at = "idle"
    BY <1>1, Returned DEF SettleRefunded
  <1>13. ProcFits(r)'
    BY <1>4, <1>12 DEF ProcFits, s
  <1>14. QED
    BY <1>1, <1>2, <1>4, <1>5, <1>6, <1>7, <1>8, <1>9, <1>10, <1>11, <1>12, <1>13, QuietMove
       DEF Fits, BillingTypes

\* Settling the API key keeps the invariant.
LEMMA SettleTokenKeeps ==
  ASSUME BillingInv, NEW r \in Requests, SettleToken(r)
  PROVE  BillingInv'
  <1>1. /\ BillingTypes /\ SumsHold /\ ProcFits(r)
        /\ RowsFit(r) /\ KeyStages(r) /\ KeyCovers(r) /\ KeyExact(r)
        /\ WalletStages(r) /\ SettleFits(r) /\ WalletExact(r)
        /\ proc \in [Actors -> ProcType] /\ r \in Actors
        /\ \A kind \in TokenKeys \cup WalletKeys : RowFits(<<r, kind>>)
    BY InvOf
  <1>2. UNCHANGED <<user, ledger, row, proc, batch>>
    BY DEF SettleToken
  <1>3. s(r).pc = "settleToken" /\ Limited(r)
    BY <1>1 DEF SettleToken, WalletStages
  <1> DEFINE done == [s(r) EXCEPT !.pc = "settled"]
             drained == [s(r) EXCEPT !.pc = "exhaust"]
  <1>a. /\ done \in SessionType /\ done.pc = "settled" /\ SameButPc(done, s(r))
        /\ drained \in SessionType /\ drained.pc = "exhaust" /\ SameButPc(drained, s(r))
    BY <1>1, SessionNumbers DEF SessionType, SessionPCs, SameButPc
  <1>b. TokenDelta(r) \in Int /\ TokenDelta(r) = s(r).actual - s(r).tokenConsumed
    BY <1>1, <1>3, SessionNumbers DEF TokenDelta
  <1>c. keyNet[r] >= s(r).tokenConsumed
    BY <1>1, <1>3 DEF KeyCovers, RowsFit, NoneOf, RefundPCs
  <1>d. PICK v \in {done, drained}, d \in Int :
          /\ session' = [session EXCEPT ![r] = v] /\ KeyMoved(r, d)
          /\ refundFaults' \in 0..MaxRefundFaults
    <2>1. UNCHANGED <<token, keyNet>> => KeyMoved(r, 0)
      BY <1>1, KeyUnmoved DEF SumsHold
    <2>2. refundFaults \in 0..MaxRefundFaults /\ MaxRefundFaults \in Nat
      BY <1>1, RefundAssumption DEF BillingTypes
    <2>3. CASE TokenDelta(r) > 0
      <3>1. KeyCall(r, CanDecrease(TokenDelta(r)), DecreaseTokenQuota(r, TokenDelta(r)),
                    done, drained, done)
        BY <2>3 DEF SettleToken
      <3>2. TokenDelta(r) \in Nat
        BY <1>b, <2>3
      <3>3. CanDecrease(TokenDelta(r)) /\ DecreaseTokenQuota(r, TokenDelta(r))
              => KeyMoved(r, TokenDelta(r))
        BY <1>1, <3>2, DecreaseIsSound DEF SumsHold
      <3> HIDE DEF done, drained
      <3>4. QED
        BY <1>b, <2>1, <2>2, <3>1, <3>3 DEF KeyCall, RefundFault, NoRefundFault
    <2>4. CASE ~(TokenDelta(r) > 0)
      <3>1. KeyCall(r, TRUE, IncreaseTokenQuota(r, -TokenDelta(r)), done, done, done)
        BY <2>4 DEF SettleToken
      <3>2. -TokenDelta(r) \in Nat /\ keyNet[r] >= -TokenDelta(r)
        BY <1>1, <1>b, <1>c, <2>4, SessionNumbers
      <3>3. IncreaseTokenQuota(r, -TokenDelta(r)) => KeyMoved(r, -(-TokenDelta(r)))
        BY <1>1, <3>2, IncreaseIsSound
      <3>4. -(-TokenDelta(r)) \in Int
        BY <1>b
      <3> HIDE DEF done, drained
      <3>5. QED
        BY <2>1, <2>2, <3>1, <3>3, <3>4 DEF KeyCall, RefundFault, NoRefundFault
    <2>5. QED
      BY <2>3, <2>4
  <1> HIDE DEF done, drained
  <1>4. /\ v \in SessionType /\ session' = [session EXCEPT ![r] = v] /\ s(r)' = v
        /\ KeyMoved(r, d) /\ d \in Int /\ refundFaults' \in 0..MaxRefundFaults
        /\ v.pc \in {"settled", "exhaust"} /\ SameButPc(v, s(r))
    BY <1>1, <1>a, <1>d DEF BillingTypes, s
  <1>5. RowsFit(r)'
    BY <1>1, <1>2, <1>3, <1>4, SessionNumbers
       DEF RowsFit, NoneOf, Plain, s, RefundPCs, SettlePCs, FundingDelta, SameButPc
  <1>6. KeyStages(r)'
    BY <1>1, <1>2, <1>3, <1>4, SessionNumbers DEF KeyStages, s, RefundPCs, SameButPc
  <1>7. KeyCovers(r)'
    BY <1>1, <1>2, <1>3, <1>4, SessionNumbers
       DEF RowsFit, KeyStages, KeyCovers, RowFits, NoneOf, TokenKeys, Plain, s, RefundPCs,
           SameButPc, SettleFits
  <1>8. KeyExact(r)'
    BY <1>1, <1>2, <1>3, <1>4, SessionNumbers
       DEF RowsFit, KeyStages, KeyCovers, KeyExact, RowFits, NoneOf, Plain, s, RefundPCs,
           SameButPc, SettleFits
  <1>9. WalletStages(r)'
    BY <1>1, <1>2, <1>3, <1>4, SessionNumbers
       DEF WalletStages, Plain, s, ReservePCs, SettlePCs, DebitKeys, FundingDelta,
           KeyExtension, Limited, SameButPc
  <1>10. SettleFits(r)'
    BY <1>1, <1>2, <1>3, <1>4, SessionNumbers
       DEF RowsFit, NoneOf, WalletStages, SettleFits, s, SettlePCs, FundingDelta, SameButPc
  <1>11. WalletExact(r)'
    BY <1>1, <1>2, <1>3, <1>4, SessionNumbers
       DEF RowsFit, NoneOf, WalletStages, SettleFits, WalletExact, Plain, s, RefundPCs,
           SettlePCs, ReservePCs, OpenedPCs, SameButPc
  <1>12. ProcFits(r)'
    BY <1>1, <1>2, <1>3, <1>4 DEF ProcFits, s
  <1>13. QED
    BY <1>1, <1>2, <1>4, <1>5, <1>6, <1>7, <1>8, <1>9, <1>10, <1>11, <1>12, KeyStep DEF Fits

\* Exhausting the API key keeps the invariant.
LEMMA SettleExhaustKeeps ==
  ASSUME BillingInv, NEW r \in Requests, SettleExhaust(r)
  PROVE  BillingInv'
  <1>1. /\ BillingTypes /\ SumsHold /\ ProcFits(r)
        /\ RowsFit(r) /\ KeyStages(r) /\ KeyCovers(r) /\ KeyExact(r)
        /\ WalletStages(r) /\ SettleFits(r) /\ WalletExact(r)
        /\ proc \in [Actors -> ProcType] /\ r \in Actors
        /\ \A kind \in TokenKeys \cup WalletKeys : RowFits(<<r, kind>>)
    BY InvOf
  <1>2. UNCHANGED <<user, ledger, row, proc, batch>>
    BY DEF SettleExhaust
  <1>3. s(r).pc = "exhaust"
    BY DEF SettleExhaust
  <1> DEFINE done == [s(r) EXCEPT !.pc = "settled"]
  <1>a. done \in SessionType /\ done.pc = "settled" /\ SameButPc(done, s(r))
    BY <1>1, SessionNumbers DEF SessionType, SessionPCs, SameButPc
  <1>b. PICK d \in Int :
          /\ session' = [session EXCEPT ![r] = done] /\ KeyMoved(r, d)
          /\ refundFaults' \in 0..MaxRefundFaults
    <2>1. UNCHANGED <<token, keyNet>> => KeyMoved(r, 0)
      BY <1>1, KeyUnmoved DEF SumsHold
    <2>2. refundFaults \in 0..MaxRefundFaults /\ MaxRefundFaults \in Nat
      BY <1>1, RefundAssumption DEF BillingTypes
    <2>3. KeyCall(r, TRUE, ExhaustTokenQuota(r), done, done, done)
      BY DEF SettleExhaust
    <2>4. ExhaustTokenQuota(r) => KeyMoved(r, token.remain)
      BY <1>1, ExhaustIsSound DEF SumsHold
    <2>5. token.remain \in Int
      BY <1>1 DEF BillingTypes
    <2> HIDE DEF done
    <2>6. QED
      BY <2>1, <2>2, <2>3, <2>4, <2>5 DEF KeyCall, RefundFault, NoRefundFault
  <1> HIDE DEF done
  <1>4. /\ done \in SessionType /\ session' = [session EXCEPT ![r] = done] /\ s(r)' = done
        /\ KeyMoved(r, d) /\ d \in Int /\ refundFaults' \in 0..MaxRefundFaults
        /\ done.pc = "settled" /\ SameButPc(done, s(r))
    BY <1>1, <1>a, <1>b DEF BillingTypes, s
  <1>5. RowsFit(r)'
    BY <1>1, <1>2, <1>3, <1>4, SessionNumbers
       DEF RowsFit, NoneOf, Plain, s, RefundPCs, SettlePCs, FundingDelta, SameButPc
  <1>6. KeyStages(r)'
    BY <1>1, <1>2, <1>3, <1>4, SessionNumbers DEF KeyStages, s, RefundPCs, SameButPc
  <1>7. KeyCovers(r)'
    BY <1>1, <1>2, <1>3, <1>4, SessionNumbers
       DEF RowsFit, KeyStages, KeyCovers, RowFits, NoneOf, TokenKeys, Plain, s, RefundPCs,
           SameButPc, SettleFits
  <1>8. KeyExact(r)'
    BY <1>1, <1>2, <1>3, <1>4, SessionNumbers
       DEF RowsFit, KeyStages, KeyCovers, KeyExact, RowFits, NoneOf, Plain, s, RefundPCs,
           SameButPc, SettleFits
  <1>9. WalletStages(r)'
    BY <1>1, <1>2, <1>3, <1>4, SessionNumbers
       DEF WalletStages, Plain, s, ReservePCs, SettlePCs, DebitKeys, FundingDelta,
           KeyExtension, Limited, SameButPc
  <1>10. SettleFits(r)'
    BY <1>1, <1>2, <1>3, <1>4, SessionNumbers
       DEF RowsFit, NoneOf, WalletStages, SettleFits, s, SettlePCs, FundingDelta, SameButPc
  <1>11. WalletExact(r)'
    BY <1>1, <1>2, <1>3, <1>4, SessionNumbers
       DEF RowsFit, NoneOf, WalletStages, SettleFits, WalletExact, Plain, s, RefundPCs,
           SettlePCs, ReservePCs, OpenedPCs, SameButPc
  <1>12. ProcFits(r)'
    BY <1>1, <1>2, <1>3, <1>4 DEF ProcFits, s
  <1>13. QED
    BY <1>1, <1>2, <1>4, <1>5, <1>6, <1>7, <1>8, <1>9, <1>10, <1>11, <1>12, KeyStep DEF Fits

-------------------------------------------------------------------------------
(***************************************************************************)
(* Refunding the API key, and every step of a session.                     *)
(***************************************************************************)

\* Handing the credit of the API key over keeps the invariant.
LEMMA RefundTokenKeeps ==
  ASSUME BillingInv, NEW r \in Requests, RefundToken(r)
  PROVE  BillingInv'
  <1>1. /\ BillingTypes /\ SumsHold /\ ProcFits(r)
        /\ RowsFit(r) /\ KeyStages(r) /\ KeyCovers(r) /\ KeyExact(r)
        /\ WalletStages(r) /\ SettleFits(r) /\ WalletExact(r)
        /\ proc \in [Actors -> ProcType] /\ r \in Actors
        /\ \A kind \in TokenKeys \cup WalletKeys : RowFits(<<r, kind>>)
    BY InvOf
  <1>2. UNCHANGED <<user, token, ledger, row, batch, refundFaults, keyNet>>
    BY DEF RefundToken
  <1>3. s(r).pc = "refund"
    BY DEF RefundToken
  <1>a. CASE ~s(r).tokenRefunded /\ s(r).tokenConsumed > 0
    <2>1. Queue(r, "token", s(r).tokenConsumed) /\ SessionGoes(r, "tokenRefunding")
      BY <1>a DEF RefundToken
    <2>2. /\ proc' = [proc EXCEPT ![r] = proc'[r]] /\ proc'[r] \in ProcType
          /\ proc'[r].at = "ensure" /\ proc'[r].key = <<r, "token">>
          /\ proc'[r].amount = s(r).tokenConsumed
      <3>1. "token" \in TokenKeys \cup WalletKeys
        BY DEF TokenKeys
      <3>2. QED
        BY <1>1, <2>1, <3>1, SessionNumbers, Queued
    <2>3. PICK v \in SessionType :
            /\ session' = [session EXCEPT ![r] = v] /\ s(r)' = v
            /\ v.pc = "tokenRefunding" /\ SameButPc(v, s(r))
      BY <1>1, <2>1, OnlyPc DEF SessionPCs
    <2>5. RowsFit(r)'
      BY <1>1, <1>2, <1>3, <1>a, <2>3, SessionNumbers
         DEF RowsFit, NoneOf, Plain, s, RefundPCs, SettlePCs, FundingDelta, SameButPc
    <2>6. KeyStages(r)'
      BY <1>1, <1>2, <1>3, <1>a, <2>3, SessionNumbers DEF KeyStages, s, RefundPCs, SameButPc
    <2>7. KeyCovers(r)'
      BY <1>1, <1>2, <1>3, <1>a, <2>3, SessionNumbers
         DEF RowsFit, KeyStages, KeyCovers, RowFits, NoneOf, TokenKeys, Plain, s, RefundPCs,
             SameButPc
    <2>8. KeyExact(r)'
      BY <1>1, <1>2, <1>3, <1>a, <2>3, SessionNumbers
         DEF RowsFit, KeyStages, KeyCovers, KeyExact, RowFits, NoneOf, Plain, s, RefundPCs,
             SameButPc
    <2>9. WalletStages(r)'
      BY <1>1, <1>2, <1>3, <1>a, <2>3, SessionNumbers
         DEF WalletStages, Plain, s, ReservePCs, SettlePCs, DebitKeys, FundingDelta,
             KeyExtension, Limited, SameButPc
    <2>10. SettleFits(r)'
      BY <1>1, <1>2, <1>3, <1>a, <2>3, SessionNumbers
         DEF RowsFit, NoneOf, WalletStages, SettleFits, s, SettlePCs, FundingDelta, SameButPc
    <2>11. WalletExact(r)'
      BY <1>1, <1>2, <1>3, <1>a, <2>3, SessionNumbers
         DEF RowsFit, NoneOf, WalletStages, SettleFits, WalletExact, Plain, s, RefundPCs,
             SettlePCs, ReservePCs, OpenedPCs, SameButPc
    <2>12. ProcFits(r)'
      BY <1>2, <2>2, <2>3 DEF ProcFits, WaitsFor, SameButPc, s
    <2>13. QED
      BY <1>1, <1>2, <2>2, <2>3, <2>5, <2>6, <2>7, <2>8, <2>9, <2>10, <2>11, <2>12,
         QuietMove DEF Fits, BillingTypes
  <1>b. CASE s(r).tokenRefunded \/ ~(s(r).tokenConsumed > 0)
    <2>1. /\ session' = [session EXCEPT ![r].pc = "fundingRefund", ![r].tokenRefunded = TRUE]
          /\ UNCHANGED proc
      BY <1>b DEF RefundToken
    <2> DEFINE v == [s(r) EXCEPT !.pc = "fundingRefund", !.tokenRefunded = TRUE]
    <2>2. session' = [session EXCEPT ![r] = v]
      BY <1>1, <2>1 DEF BillingTypes, SessionType, s
    <2>3. /\ v \in SessionType /\ v.pc = "fundingRefund" /\ v.tokenRefunded = TRUE
          /\ v.target = s(r).target /\ v.actual = s(r).actual
          /\ v.preConsumed = s(r).preConsumed /\ v.tokenConsumed = s(r).tokenConsumed
          /\ v.consumed = s(r).consumed /\ v.reserves = s(r).reserves
          /\ v.fundingSettled = s(r).fundingSettled
      BY <1>1, SessionNumbers DEF SessionType, SessionPCs
    <2>4. s(r)' = v
      BY <1>1, <2>2 DEF BillingTypes, s
    <2> HIDE DEF v
    <2>5. RowsFit(r)'
      BY <1>1, <1>2, <1>3, <1>b, <2>3, <2>4, SessionNumbers
         DEF RowsFit, NoneOf, Plain, s, RefundPCs, SettlePCs, FundingDelta
    <2>6. KeyStages(r)'
      BY <1>1, <1>2, <1>3, <1>b, <2>3, <2>4, SessionNumbers DEF KeyStages, s, RefundPCs
    <2>7. KeyCovers(r)'
      BY <1>1, <1>2, <1>3, <1>b, <2>3, <2>4, SessionNumbers
         DEF RowsFit, KeyStages, KeyCovers, RowFits, NoneOf, TokenKeys, Plain, s, RefundPCs
    <2>8. KeyExact(r)'
      BY <1>1, <1>2, <1>3, <1>b, <2>3, <2>4, SessionNumbers
         DEF RowsFit, KeyStages, KeyCovers, KeyExact, RowFits, NoneOf, Plain, s, RefundPCs,
             TokenKeys, WalletKeys
    <2>9. WalletStages(r)'
      BY <1>1, <1>2, <1>3, <1>b, <2>3, <2>4, SessionNumbers
         DEF WalletStages, Plain, s, ReservePCs, SettlePCs, DebitKeys, FundingDelta,
             KeyExtension, Limited
    <2>10. SettleFits(r)'
      BY <1>1, <1>2, <1>3, <1>b, <2>3, <2>4, SessionNumbers
         DEF RowsFit, NoneOf, WalletStages, SettleFits, s, SettlePCs, FundingDelta
    <2>11. WalletExact(r)'
      BY <1>1, <1>2, <1>3, <1>b, <2>3, <2>4, SessionNumbers
         DEF RowsFit, NoneOf, WalletStages, SettleFits, WalletExact, Plain, s, RefundPCs,
             SettlePCs, ReservePCs, OpenedPCs
    <2>12. ProcFits(r)'
      BY <1>1, <1>3, <2>1, <2>3, <2>4 DEF ProcFits, s
    <2>13. QED
      BY <1>1, <1>2, <2>1, <2>2, <2>3, <2>5, <2>6, <2>7, <2>8, <2>9, <2>10, <2>11, <2>12,
         QuietMove DEF Fits, BillingTypes
  <1>4. QED
    BY <1>a, <1>b

\* The answer to the credit of the API key keeps the invariant.
LEMMA TokenRefundedKeeps ==
  ASSUME BillingInv, NEW r \in Requests, TokenRefunded(r)
  PROVE  BillingInv'
  <1>1. /\ BillingTypes /\ SumsHold /\ ProcFits(r)
        /\ RowsFit(r) /\ KeyStages(r) /\ KeyCovers(r) /\ KeyExact(r)
        /\ WalletStages(r) /\ SettleFits(r) /\ WalletExact(r)
        /\ proc \in [Actors -> ProcType] /\ r \in Actors
        /\ \A kind \in TokenKeys \cup WalletKeys : RowFits(<<r, kind>>)
    BY InvOf
  <1>2. UNCHANGED <<user, token, ledger, row, batch, refundFaults, keyNet>>
    BY DEF TokenRefunded
  <1>3. s(r).pc = "tokenRefunding" /\ proc[r].at \in {"ok", "err"}
    BY DEF TokenRefunded, Answered
  <1>4. PICK v \in SessionType :
          /\ session' = [session EXCEPT ![r] = v] /\ s(r)' = v
          /\ \/ v.pc = "fundingRefund" /\ v.tokenRefunded = TRUE /\ proc[r].at = "ok"
             \/ v.pc = "refundFailed" /\ v.tokenRefunded = FALSE
          /\ v.target = s(r).target /\ v.actual = s(r).actual
          /\ v.preConsumed = s(r).preConsumed /\ v.tokenConsumed = s(r).tokenConsumed
          /\ v.consumed = s(r).consumed /\ v.reserves = s(r).reserves
          /\ v.fundingSettled = s(r).fundingSettled
    <2> DEFINE ok == Succeeded(r)
               pc == IF ok THEN "fundingRefund" ELSE "refundFailed"
               v == [s(r) EXCEPT !.pc = pc, !.tokenRefunded = ok]
    <2>1. session' = [session EXCEPT ![r].pc = pc, ![r].tokenRefunded = ok]
      BY DEF TokenRefunded
    <2>2. /\ ok \in BOOLEAN /\ (ok <=> proc[r].at = "ok")
          /\ pc \in SessionPCs
          /\ \/ ok = TRUE /\ pc = "fundingRefund"
             \/ ok = FALSE /\ pc = "refundFailed"
      BY DEF Succeeded, SessionPCs
    <2> HIDE DEF ok, pc
    <2>3. session' = [session EXCEPT ![r] = v]
      BY <1>1, <2>1 DEF BillingTypes, SessionType, s
    <2>4. /\ v \in SessionType /\ v.pc = pc /\ v.tokenRefunded = ok
          /\ v.target = s(r).target /\ v.actual = s(r).actual
          /\ v.preConsumed = s(r).preConsumed /\ v.tokenConsumed = s(r).tokenConsumed
          /\ v.consumed = s(r).consumed /\ v.reserves = s(r).reserves
          /\ v.fundingSettled = s(r).fundingSettled
      BY <1>1, <2>2, SessionNumbers DEF SessionType
    <2>5. s(r)' = v
      BY <1>1, <2>3 DEF BillingTypes, s
    <2> HIDE DEF v
    <2>6. QED
      BY <2>2, <2>3, <2>4, <2>5
  <1>5. RowsFit(r)'
    BY <1>1, <1>2, <1>3, <1>4, SessionNumbers
       DEF RowsFit, NoneOf, Plain, s, RefundPCs, SettlePCs, FundingDelta
  <1>6. KeyStages(r)'
    BY <1>1, <1>2, <1>3, <1>4, SessionNumbers DEF KeyStages, s, RefundPCs
  <1>7. KeyCovers(r)'
    BY <1>1, <1>2, <1>3, <1>4, SessionNumbers
       DEF RowsFit, KeyStages, KeyCovers, RowFits, NoneOf, TokenKeys, Plain, s, RefundPCs
  <1>8. KeyExact(r)'
    BY <1>1, <1>2, <1>3, <1>4, SessionNumbers
       DEF RowsFit, KeyStages, KeyCovers, KeyExact, RowFits, NoneOf, Plain, s, RefundPCs,
           ProcFits
  <1>9. WalletStages(r)'
    BY <1>1, <1>2, <1>3, <1>4, SessionNumbers
       DEF WalletStages, Plain, s, ReservePCs, SettlePCs, DebitKeys, FundingDelta,
           KeyExtension, Limited
  <1>10. SettleFits(r)'
    BY <1>1, <1>2, <1>3, <1>4, SessionNumbers
       DEF RowsFit, NoneOf, WalletStages, SettleFits, s, SettlePCs, FundingDelta
  <1>11. WalletExact(r)'
    BY <1>1, <1>2, <1>3, <1>4, SessionNumbers
       DEF RowsFit, NoneOf, WalletStages, SettleFits, WalletExact, Plain, s, RefundPCs,
           SettlePCs, ReservePCs, OpenedPCs
  <1>12. proc' = [proc EXCEPT ![r] = proc'[r]] /\ proc'[r] \in ProcType /\ proc'[r].at = "idle"
    BY <1>1, Returned DEF TokenRefunded
  <1>13. ProcFits(r)'
    BY <1>4, <1>12 DEF ProcFits, s
  <1>14. QED
    BY <1>1, <1>2, <1>4, <1>5, <1>6, <1>7, <1>8, <1>9, <1>10, <1>11, <1>12, <1>13, QuietMove
       DEF Fits, BillingTypes

\* Every step of a session keeps the invariant.
LEMMA SessionStepKeeps ==
  ASSUME BillingInv, NEW r \in Requests, SessionStep(r)
  PROVE  BillingInv'
  BY NewBillingSessionKeeps, PreConsumeTokenQuotaKeeps, PreConsumeFundingKeeps,
     RollbackPreConsumeKeeps, ReserveKeeps, ReserveFundingKeeps, ReserveTokenKeeps,
     RollbackReserveKeeps, SettleSessionKeeps, SettleFundingKeeps, SettleRefundedKeeps,
     SettleTokenKeeps, SettleExhaustKeeps, SettleAgainKeeps, RefundSessionKeeps,
     RefundTokenKeeps, TokenRefundedKeeps, RefundFundingKeeps, FundingRefundedKeeps,
     SessionCrashKeeps
     DEF SessionStep

-------------------------------------------------------------------------------
(***************************************************************************)
(* The rows.  A step of the queue works on one row: it inserts it, credits *)
(* it, or moves its status forward.                                        *)
(***************************************************************************)
Kinds == TokenKeys \cup WalletKeys

DataTypes ==
  /\ user \in UserType /\ token \in KeyType /\ ledger \in LedgerType
  /\ row \in [RefundKeys -> RowType] /\ keyNet \in [Requests -> Nat]

\* What the invariant says of the data of one request.
DataFits(q) ==
  DataTypes /\ SumsHold /\ (\A kind \in Kinds : RowFits(<<q, kind>>)) /\ Fits(q)

\* Nothing but one row, its entry in the ledger and the API key's share of its
\* request changes.
OnlyRow(q, kind) ==
  /\ session' = session
  /\ \A k \in RefundKeys \ {<<q, kind>>} : row'[k] = row[k]
  /\ \A k \in (Requests \X (WalletKeys \cup DebitKeys)) \ {<<q, kind>>} : ledger'[k] = ledger[k]
  /\ \A p \in Requests \ {q} : keyNet'[p] = keyNet[p]

\* The other requests do not notice it.
LEMMA OthersUntouched ==
  ASSUME NEW q \in Requests, NEW kind \in Kinds, OnlyRow(q, kind),
         NEW p \in Requests \ {q}, proc'[p] = proc[p]
  PROVE  Untouched(p)
  <1>1. \A other \in Kinds : row'[<<p, other>>] = row[<<p, other>>]
    BY DEF OnlyRow, RefundKeys, Kinds
  <1>2. \A other \in WalletKeys \cup DebitKeys : ledger'[<<p, other>>] = ledger[<<p, other>>]
    BY DEF OnlyRow
  <1>3. QED
    BY <1>1, <1>2 DEF OnlyRow, Untouched, Kinds

\* A row, once there, stays and keeps its amount; a credit stays; an API key
\* that has everything back keeps it.
RowsStay(q) ==
  /\ \A kind \in Kinds : row[<<q, kind>>].status # "none" =>
       row'[<<q, kind>>].status # "none" /\ row'[<<q, kind>>].amount = row[<<q, kind>>].amount
  /\ \A kind \in WalletKeys :
       ledger[<<q, kind>>] # 0 => ledger'[<<q, kind>>] = ledger[<<q, kind>>]
  /\ keyNet[q] = 0 => keyNet'[q] = 0

NoRowAppears(q) ==
  \A kind \in Kinds : row[<<q, kind>>].status = "none" => row'[<<q, kind>>].status = "none"

\* A step on a row keeps the invariant when it keeps what is said of its
\* request and of the compensator.
LEMMA RowStepKeeps ==
  ASSUME BillingInv, NEW q \in Requests, NEW kind \in Kinds, OnlyRow(q, kind),
         \A p \in Requests \ {q} : proc'[p] = proc[p],
         proc' \in [Actors -> ProcType], batch' \subseteq RefundKeys,
         refundFaults' \in 0..MaxRefundFaults,
         DataFits(q)', ProcFits(q)', CompensatorFits'
  PROVE  BillingInv'
  <1>1. ASSUME NEW p \in Requests
        PROVE  Fits(p)' /\ ProcFits(p)'
    <2>1. CASE p = q
      BY <2>1 DEF DataFits
    <2>2. CASE p # q
      BY <2>2, OthersUntouched, UntouchedFits DEF BillingInv
    <2>3. QED
      BY <2>1, <2>2
  <1>2. ASSUME NEW k \in RefundKeys
        PROVE  RowFits(k)'
    <2>0. k = <<k[1], k[2]>> /\ k[1] \in Requests /\ k[2] \in Kinds
      BY DEF RefundKeys, Kinds
    <2>1. CASE k[1] = q
      BY <2>0, <2>1 DEF DataFits
    <2>2. CASE k[1] # q
      <3>1. k # <<q, kind>>
        BY <2>0, <2>2
      <3>2. row'[k] = row[k] /\ (k[2] \in WalletKeys => ledger'[k] = ledger[k])
        BY <2>0, <3>1 DEF OnlyRow
      <3>3. RowFits(k)
        BY DEF BillingInv
      <3>4. QED
        BY <3>2, <3>3 DEF RowFits
    <2>3. QED
      BY <2>1, <2>2
  <1>3. BillingTypes'
    BY DEF DataFits, DataTypes, BillingInv, BillingTypes, OnlyRow, KeyType, LedgerType
  <1>4. QED
    BY <1>1, <1>2, <1>3 DEF BillingInv, DataFits

\* What is known of one row.
LEMMA RowOf ==
  ASSUME BillingInv, NEW q \in Requests, NEW kind \in Kinds
  PROVE  /\ <<q, kind>> \in RefundKeys /\ RowFits(<<q, kind>>)
         /\ row \in [RefundKeys -> RowType]
         /\ row[<<q, kind>>].status
              \in {"none", "pending", "applied", "completed", "dead_letter"}
         /\ row[<<q, kind>>].amount \in 0..MaxQuota
         /\ row[<<q, kind>>].attempts \in 0..MaxRefundAttempts
         /\ row[<<q, kind>>].status # "none" => row[<<q, kind>>].amount > 0
  <1>1. <<q, kind>> \in RefundKeys
    BY DEF RefundKeys, Kinds
  <1>2. row \in [RefundKeys -> RowType] /\ RowFits(<<q, kind>>)
    BY <1>1 DEF BillingInv, BillingTypes
  <1>3. QED
    BY <1>1, <1>2 DEF RowType, Open, RowFits

\* The status of a row moves forward, if at all, and nothing else changes.
Forward(q, kind) ==
  /\ UNCHANGED <<user, token, ledger, session, keyNet>>
  /\ \E x \in RowType :
       /\ row' = [row EXCEPT ![<<q, kind>>] = x]
       /\ x.amount = row[<<q, kind>>].amount
       /\ x.status # "none" <=> row[<<q, kind>>].status # "none"
       /\ x.status = "pending" => row[<<q, kind>>].status = "pending"
       /\ x.status \in {"applied", "completed"} =>
            row[<<q, kind>>].status \in {"applied", "completed"}

\* Moving a status forward keeps the data in step.
LEMMA ForwardFits ==
  ASSUME BillingInv, NEW q \in Requests, NEW kind \in Kinds, Forward(q, kind)
  PROVE  DataFits(q)' /\ RowsStay(q) /\ NoRowAppears(q) /\ OnlyRow(q, kind)
  <1>0. PICK x \in RowType :
          /\ row' = [row EXCEPT ![<<q, kind>>] = x]
          /\ x.amount = row[<<q, kind>>].amount
          /\ x.status # "none" <=> row[<<q, kind>>].status # "none"
          /\ x.status = "pending" => row[<<q, kind>>].status = "pending"
          /\ x.status \in {"applied", "completed"} =>
               row[<<q, kind>>].status \in {"applied", "completed"}
    BY DEF Forward
  <1>1. UNCHANGED <<user, token, ledger, session, keyNet>>
    BY DEF Forward
  <1>2. /\ BillingTypes /\ SumsHold
        /\ RowsFit(q) /\ KeyStages(q) /\ KeyCovers(q) /\ KeyExact(q)
        /\ WalletStages(q) /\ SettleFits(q) /\ WalletExact(q)
        /\ \A other \in TokenKeys \cup WalletKeys : RowFits(<<q, other>>)
    BY InvOf
  <1>3. <<q, kind>> \in RefundKeys /\ row \in [RefundKeys -> RowType]
    BY RowOf
  <1>4. \A other \in Kinds :
          /\ row'[<<q, other>>].amount = row[<<q, other>>].amount
          /\ row'[<<q, other>>].status # "none" <=> row[<<q, other>>].status # "none"
          /\ row'[<<q, other>>].status = "pending" => row[<<q, other>>].status = "pending"
          /\ row'[<<q, other>>].status \in {"applied", "completed"} =>
               row[<<q, other>>].status \in {"applied", "completed"}
          /\ row'[<<q, other>>].status \in {"none", "pending"} =>
               row[<<q, other>>].status \in {"none", "pending"}
    <2>1. ASSUME NEW other \in Kinds
          PROVE  <<q, other>> \in RefundKeys
      BY DEF RefundKeys, Kinds
    <2>2. QED
      BY <1>0, <1>3, <2>1
  <1>5. OnlyRow(q, kind)
    BY <1>0, <1>1, <1>3 DEF OnlyRow
  <1>6. DataTypes'
    BY <1>0, <1>1, <1>2, <1>3 DEF DataTypes, BillingTypes, KeyType, LedgerType
  <1>7. SumsHold'
    BY <1>1, <1>2 DEF SumsHold, WalletSumHolds, KeySumsHold, WalletNet
  <1>8. \A other \in Kinds : RowFits(<<q, other>>)'
    BY <1>1, <1>2, <1>4 DEF RowFits, Kinds
  <1>9. {"token", "token-preconsume", "wallet", "wallet-settle-refund", "wallet-reserve"}
          \subseteq Kinds
    BY DEF Kinds, TokenKeys, WalletKeys
  <1>10. RowsFit(q)'
    BY <1>1, <1>2, <1>4, <1>9 DEF RowsFit, NoneOf, Plain, s, FundingDelta
  <1>11. KeyStages(q)' /\ KeyCovers(q)' /\ KeyExact(q)'
    BY <1>1, <1>2, <1>4, <1>9 DEF KeyStages, KeyCovers, KeyExact, Plain, s, Kinds
  <1>12. WalletStages(q)' /\ SettleFits(q)' /\ WalletExact(q)'
    BY <1>1, <1>2
       DEF WalletStages, SettleFits, WalletExact, Plain, s, FundingDelta, KeyExtension, Limited
  <1>13. RowsStay(q) /\ NoRowAppears(q)
    BY <1>1, <1>4 DEF RowsStay, NoRowAppears
  <1>14. QED
    BY <1>5, <1>6, <1>7, <1>8, <1>10, <1>11, <1>12, <1>13 DEF DataFits, Fits

\* A credit: what CanApply allows, Apply does, and keyNet follows.
Credited(q, kind) ==
  /\ row[<<q, kind>>].status = "pending" /\ CanApply(<<q, kind>>) /\ Apply(<<q, kind>>)
  /\ keyNet' = IF token' = token THEN keyNet
               ELSE [keyNet EXCEPT ![q] = @ - (token'.remain - token.remain)]
  /\ session' = session

\* A credit of the API key gives back the row's amount.
LEMMA KeyCredit ==
  ASSUME BillingInv, NEW q \in Requests, NEW kind \in TokenKeys, Credited(q, kind)
  PROVE  /\ KeyMoved(q, -row[<<q, kind>>].amount) /\ UNCHANGED <<user, ledger>>
         /\ keyNet'[q] = keyNet[q] - row[<<q, kind>>].amount
  <1> DEFINE amount == row[<<q, kind>>].amount
  <1>0. kind \in Kinds /\ kind \in TokenKeys \cup WalletKeys
    BY DEF Kinds
  <1>1. /\ BillingTypes /\ SumsHold /\ KeyCovers(q) /\ token \in KeyType /\ keyNet[q] \in Nat
        /\ amount \in Nat /\ amount > 0 /\ keyNet[q] >= amount
    <2>1. BillingTypes /\ SumsHold /\ KeyCovers(q)
      BY InvOf
    <2>2. amount \in 0..MaxQuota /\ amount > 0
      BY <1>0, RowOf DEF Credited
    <2>3. QED
      BY <2>1, <2>2, MaxQuotaAssumption DEF BillingTypes, KeyType, KeyCovers, Credited
  <1>2. /\ token.used >= amount /\ UNCHANGED <<user, ledger>>
        /\ token' = [token EXCEPT !.remain = @ + amount, !.used = @ - amount]
    BY DEF Credited, CanApply, Apply
  <1> HIDE DEF amount
  <1>3. /\ token' = [remain |-> token.remain + amount, used |-> token.used - amount,
                     status |-> token.status]
        /\ token.remain \in Nat /\ token.used \in Nat
    BY <1>1, <1>2 DEF KeyType
  <1>4. /\ token' \in [remain : Int, used : Int, status : {"enabled", "exhausted"}]
        /\ token'.remain = token.remain + amount /\ token'.used = token.used - amount
        /\ token'.status \in {"enabled", "exhausted"} /\ token' # token
    BY <1>1, <1>3 DEF KeyType
  <1>5. keyNet' = [keyNet EXCEPT ![q] = @ - (token'.remain - token.remain)]
    BY <1>4 DEF Credited
  <1>6. keyNet[q] - (token'.remain - token.remain) = keyNet[q] + (-amount)
    BY <1>1, <1>3, <1>4
  <1>7. keyNet' = [keyNet EXCEPT ![q] = @ + (-amount)]
    BY <1>5, <1>6
  <1>8. KeyMove(q, -amount)
    BY <1>1, <1>3, <1>4, <1>7 DEF KeyMove
  <1>9. -amount \in Int /\ token.remain - (-amount) >= 0 /\ token.used + (-amount) >= 0
        /\ keyNet[q] + (-amount) >= 0
    BY <1>1, <1>2, <1>3
  <1>10. KeyMoved(q, -amount)
    BY <1>1, <1>4, <1>8, <1>9, KeyMoveIsSound DEF SumsHold
  <1>11. keyNet'[q] = keyNet[q] - amount
    BY <1>1, <1>7 DEF BillingTypes
  <1>12. QED
    BY <1>2, <1>10, <1>11 DEF amount

\* A credit of the wallet gives back the row's amount, once.
LEMMA WalletCredit ==
  ASSUME BillingInv, NEW q \in Requests, NEW kind \in WalletKeys, Credited(q, kind)
  PROVE  /\ user' \in UserType /\ ledger' \in LedgerType /\ WalletSumHolds'
         /\ UNCHANGED <<token, keyNet>>
         /\ ledger[<<q, kind>>] = 0 /\ ledger'[<<q, kind>>] = row[<<q, kind>>].amount
         /\ \A k \in (Requests \X (WalletKeys \cup DebitKeys)) \ {<<q, kind>>} :
              ledger'[k] = ledger[k]
  <1> DEFINE amount == row[<<q, kind>>].amount
             k == <<q, kind>>
  <1>0. kind \in Kinds /\ kind \notin TokenKeys
    BY DEF Kinds, TokenKeys, WalletKeys
  <1>1. /\ BillingTypes /\ WalletSumHolds /\ amount \in 0..MaxQuota
        /\ k \in Requests \X (WalletKeys \cup DebitKeys) /\ MaxQuota \in Nat
        /\ ledger \in LedgerType /\ user \in UserType /\ user.quota \in -MaxQuota..MaxQuota
    <2>1. BillingTypes /\ SumsHold
      BY InvOf
    <2>2. amount \in 0..MaxQuota
      BY <1>0, RowOf
    <2>3. QED
      BY <2>1, <2>2, MaxQuotaAssumption DEF BillingTypes, LedgerType, SumsHold, UserType
  <1>2. /\ ledger[k] = 0 /\ checkedBalanceLedgerSum(user.quota, amount)
        /\ user' = balanceLedgerUserUpdates(user, user.quota + amount, FALSE)
        /\ ledger' = [ledger EXCEPT ![k] = @ + amount]
        /\ UNCHANGED token
    BY <1>0 DEF Credited, CanApply, Apply
  <1> HIDE DEF amount
  <1>3. user.quota + amount \in -MaxQuota..MaxQuota
    BY <1>1, <1>2 DEF checkedBalanceLedgerSum
  <1>4. user' \in UserType /\ user'.quota = user.quota + amount
    BY <1>1, <1>2, <1>3 DEF balanceLedgerUserUpdates, UserType
  <1>5. ledger' \in LedgerType /\ ledger'[k] = amount
    BY <1>1, <1>2 DEF LedgerType
  <1>6. \A other \in (Requests \X (WalletKeys \cup DebitKeys)) \ {k} :
          ledger'[other] = ledger[other]
    BY <1>1, <1>2 DEF LedgerType
  <1>7. WalletMove(q, kind, amount)
    BY <1>2, <1>4 DEF WalletMove
  <1>8. WalletSumHolds'
    BY <1>1, <1>5, <1>7, WalletSumKept DEF LedgerType
  <1>9. keyNet' = keyNet
    BY <1>2 DEF Credited
  <1>10. QED
    BY <1>2, <1>4, <1>5, <1>6, <1>8, <1>9 DEF amount

\* A credit keeps the data in step.
LEMMA CreditedFits ==
  ASSUME BillingInv, NEW q \in Requests, NEW kind \in Kinds, Credited(q, kind)
  PROVE  /\ DataFits(q)' /\ RowsStay(q) /\ NoRowAppears(q) /\ OnlyRow(q, kind)
         /\ row'[<<q, kind>>].status = "applied"
         /\ row'[<<q, kind>>].amount = row[<<q, kind>>].amount
         /\ kind \in WalletKeys => ledger'[<<q, kind>>] = row[<<q, kind>>].amount
         /\ kind = "token" /\ Plain(q) => keyNet'[q] = 0
  <1> DEFINE k == <<q, kind>>
  <1>1. /\ BillingTypes /\ SumsHold
        /\ RowsFit(q) /\ KeyStages(q) /\ KeyCovers(q) /\ KeyExact(q)
        /\ WalletStages(q) /\ SettleFits(q) /\ WalletExact(q)
        /\ \A other \in TokenKeys \cup WalletKeys : RowFits(<<q, other>>)
    BY InvOf
  <1>2. /\ k \in RefundKeys /\ row \in [RefundKeys -> RowType]
        /\ row[k].amount \in 0..MaxQuota /\ row[k].amount > 0
        /\ row[k].status = "pending" /\ session' = session
        /\ row' = [row EXCEPT ![k].status = "applied"]
    BY RowOf DEF Credited, Apply
  <1>3. row' \in [RefundKeys -> RowType]
    BY <1>2 DEF RowType, Open
  <1>4. /\ row'[k].status = "applied" /\ row'[k].amount = row[k].amount
        /\ \A other \in RefundKeys \ {k} : row'[other] = row[other]
    BY <1>2 DEF RowType
  <1>a. \A other \in Kinds : <<q, other>> \in RefundKeys
    BY DEF RefundKeys, Kinds
  <1>b. \A other \in Kinds \ {kind} : row'[<<q, other>>] = row[<<q, other>>]
    BY <1>4, <1>a
  <1>c. {"token", "token-preconsume", "wallet", "wallet-settle-refund", "wallet-reserve"}
          \subseteq Kinds
    BY DEF Kinds, TokenKeys, WalletKeys
  <1>n. /\ keyNet[q] \in Nat
        /\ s(q).actual \in Int /\ s(q).preConsumed \in Int /\ s(q).consumed \in Int
        /\ s(q).tokenConsumed \in Int
    BY <1>1, SessionNumbers
  <1> HIDE DEF k
  <1>5. CASE kind \in TokenKeys
    <2>1. /\ KeyMoved(q, -row[k].amount) /\ UNCHANGED <<user, ledger>>
          /\ keyNet'[q] = keyNet[q] - row[k].amount
      BY <1>5, KeyCredit DEF k
    <2>2. keyNet' = [keyNet EXCEPT ![q] = @ + (-row[k].amount)]
      BY <2>1 DEF KeyMoved
    <2>3. OnlyRow(q, kind)
      BY <1>1, <1>2, <1>4, <2>1, <2>2 DEF OnlyRow, k, BillingTypes
    <2>4. DataTypes'
      BY <1>1, <1>3, <2>1 DEF DataTypes, BillingTypes, KeyMoved, LedgerType
    <2>5. SumsHold'
      BY <1>1, <2>1 DEF SumsHold, WalletSumHolds, WalletNet, KeyMoved
    <2>6. \A other \in Kinds : RowFits(<<q, other>>)'
      BY <1>1, <1>2, <1>4, <1>5, <1>b, <2>1 DEF RowFits, Kinds, TokenKeys, WalletKeys, k
    <2>7. RowsFit(q)'
      BY <1>1, <1>2, <1>4, <1>b, <1>c, <2>1 DEF RowsFit, NoneOf, Plain, s, FundingDelta, k
    <2>8. keyNet[q] >= row[k].amount
      BY <1>1, <1>2, <1>5 DEF KeyCovers, k
    <2>9. KeyStages(q)'
      BY <1>1, <1>2 DEF KeyStages, s
    <2>10. kind \in {"token", "token-preconsume"}
      BY <1>5 DEF TokenKeys
    <2>11. KeyCovers(q)'
      BY <1>1, <1>2, <1>4, <1>b, <1>c, <1>n, <2>1, <2>8, <2>10
         DEF KeyCovers, RowsFit, NoneOf, Plain, s, k, TokenKeys
    <2>12. KeyExact(q)'
      BY <1>1, <1>2, <1>4, <1>b, <1>c, <1>n, <2>1, <2>8, <2>10
         DEF KeyExact, RowsFit, NoneOf, Plain, s, k
    <2>13. WalletStages(q)' /\ SettleFits(q)' /\ WalletExact(q)'
      BY <1>1, <1>2, <2>1
         DEF WalletStages, SettleFits, WalletExact, Plain, s, FundingDelta, KeyExtension, Limited
    <2>14. RowsStay(q) /\ NoRowAppears(q)
      BY <1>2, <1>4, <1>b, <1>n, <2>1, <2>8 DEF RowsStay, NoRowAppears, k
    <2>15. kind = "token" /\ Plain(q) => keyNet'[q] = 0
      BY <1>1, <1>2, <1>n, <2>1 DEF KeyExact, k
    <2>16. kind \notin WalletKeys
      BY <2>10 DEF WalletKeys
    <2>17. QED
      BY <1>4, <2>3, <2>4, <2>5, <2>6, <2>7, <2>9, <2>11, <2>12, <2>13, <2>14, <2>15, <2>16
         DEF DataFits, Fits, k
  <1>6. CASE kind \in WalletKeys
    <2>1. /\ user' \in UserType /\ ledger' \in LedgerType /\ WalletSumHolds'
          /\ UNCHANGED <<token, keyNet>>
          /\ ledger[k] = 0 /\ ledger'[k] = row[k].amount
          /\ \A other \in (Requests \X (WalletKeys \cup DebitKeys)) \ {k} :
               ledger'[other] = ledger[other]
      BY <1>6, WalletCredit DEF k
    <2>2. \A other \in (WalletKeys \cup DebitKeys) \ {kind} :
            ledger'[<<q, other>>] = ledger[<<q, other>>]
      BY <2>1 DEF k
    <2>3. OnlyRow(q, kind)
      BY <1>2, <1>4, <2>1 DEF OnlyRow, k
    <2>4. DataTypes'
      BY <1>1, <1>3, <2>1 DEF DataTypes, BillingTypes, KeyType
    <2>5. SumsHold'
      BY <1>1, <2>1 DEF SumsHold, KeySumsHold
    <2>6. \A other \in Kinds : RowFits(<<q, other>>)'
      <3>1. RowFits(k)'
        BY <1>2, <1>4, <2>1 DEF RowFits
      <3>2. \A other \in Kinds \ {kind} : RowFits(<<q, other>>)'
        BY <1>1, <1>b, <2>2 DEF RowFits, Kinds
      <3>3. QED
        BY <3>1, <3>2 DEF k
    <2>7. kind \in {"wallet", "wallet-settle-refund", "wallet-reserve"}
      BY <1>6 DEF WalletKeys
    <2>8. /\ ledger'[<<q, "wallet-settle-debit">>] = ledger[<<q, "wallet-settle-debit">>]
          /\ ledger'[<<q, "wallet-preconsume">>] = ledger[<<q, "wallet-preconsume">>]
          /\ ledger'[<<q, "wallet-reserve-debit">>] = ledger[<<q, "wallet-reserve-debit">>]
          /\ kind # "wallet" => ledger'[<<q, "wallet">>] = ledger[<<q, "wallet">>]
          /\ kind # "wallet-settle-refund" =>
               ledger'[<<q, "wallet-settle-refund">>] = ledger[<<q, "wallet-settle-refund">>]
      BY <2>2, <2>7 DEF WalletKeys, DebitKeys
    <2>9. RowsFit(q)'
      BY <1>1, <1>2, <1>4, <1>b, <1>c, <2>8 DEF RowsFit, NoneOf, Plain, s, FundingDelta, k
    <2>10. /\ row'[<<q, "token">>] = row[<<q, "token">>]
           /\ row'[<<q, "token-preconsume">>] = row[<<q, "token-preconsume">>]
           /\ \A other \in TokenKeys : row'[<<q, other>>] = row[<<q, other>>]
      BY <1>b, <1>c, <2>7 DEF TokenKeys
    <2>11. KeyStages(q)' /\ KeyCovers(q)' /\ KeyExact(q)'
      BY <1>1, <1>2, <2>1, <2>10 DEF KeyStages, KeyCovers, KeyExact, Plain, s
    <2>12. WalletStages(q)'
      BY <1>1, <1>2, <2>8
         DEF WalletStages, Plain, s, FundingDelta, KeyExtension, Limited, DebitKeys
    <2>13. SettleFits(q)'
      BY <1>1, <1>2, <1>n, <2>1, <2>7, <2>8
         DEF SettleFits, RowsFit, NoneOf, s, FundingDelta, k
    <2>14. WalletExact(q)'
      BY <1>1, <1>2, <1>n, <2>1, <2>7, <2>8 DEF WalletExact, RowsFit, NoneOf, Plain, s, k
    <2>15. RowsStay(q) /\ NoRowAppears(q)
      BY <1>2, <1>4, <1>b, <2>1, <2>2 DEF RowsStay, NoRowAppears, k
    <2>16. kind # "token"
      BY <2>7
    <2>17. QED
      BY <1>4, <2>1, <2>3, <2>4, <2>5, <2>6, <2>9, <2>11, <2>12, <2>13, <2>14, <2>15, <2>16
         DEF DataFits, Fits, k
  <1>7. QED
    BY <1>5, <1>6 DEF Kinds

-------------------------------------------------------------------------------
(***************************************************************************)
(* A request inside the queue.                                             *)
(***************************************************************************)

\* The credit a session waits for: its kind and its amount.
Expects(r, kind) ==
  \/ s(r).pc = "rollback" /\ kind = "token-preconsume" /\ proc[r].amount = s(r).tokenConsumed
  \/ /\ s(r).pc = "reserveRollback" /\ kind = "wallet-reserve"
     /\ proc[r].amount = FundingExtension(r)
  \/ s(r).pc = "settling" /\ kind = "wallet-settle-refund" /\ proc[r].amount = -FundingDelta(r)
  \/ s(r).pc = "tokenRefunding" /\ kind = "token" /\ proc[r].amount = s(r).tokenConsumed
  \/ s(r).pc = "fundingRefunding" /\ kind = "wallet" /\ proc[r].amount = s(r).consumed

Waiting(r, kind) ==
  /\ proc[r].key = <<r, kind>> /\ proc[r].amount > 0 /\ Expects(r, kind)
  /\ proc[r].at # "ensure" => ~NoneOf(r, kind) /\ row[<<r, kind>>].amount = proc[r].amount
  /\ proc[r].at \in {"sync", "complete"} =>
       /\ kind \in WalletKeys => ledger[<<r, kind>>] = proc[r].amount
       /\ kind = "token" /\ Plain(r) => keyNet[r] = 0
  /\ proc[r].at = "ensure" /\ kind = "token-preconsume" => NoneOf(r, kind)

\* A request inside the queue works on the row its session waits for.
LEMMA InQueue ==
  ASSUME BillingInv, NEW r \in Requests, proc[r].at \in Busy
  PROVE  \E kind \in Kinds : Waiting(r, kind)
  <1>1. /\ BillingTypes /\ ProcFits(r) /\ KeyStages(r) /\ WalletStages(r)
        /\ proc[r].amount \in 0..MaxQuota
    BY InvOf DEF ProcType
  <1>2. /\ s(r).target \in Int /\ s(r).actual \in Int /\ s(r).preConsumed \in Int
        /\ s(r).consumed \in Int /\ s(r).tokenConsumed \in Int
    BY <1>1, SessionNumbers
  <1>3. proc[r].at # "idle" /\ (proc[r].at # "ensure" => proc[r].at \in Busy \ {"ensure"})
        /\ {"sync", "complete"} \subseteq {"sync", "complete", "ok"}
    BY DEF Busy
  <1>c. /\ "token" \in Kinds /\ "token-preconsume" \in Kinds /\ "wallet" \in Kinds
        /\ "wallet-settle-refund" \in Kinds /\ "wallet-reserve" \in Kinds
    BY DEF Kinds, TokenKeys, WalletKeys
  <1>4. CASE s(r).pc = "rollback"
    <2>1. WaitsFor(r, "token-preconsume", s(r).tokenConsumed) /\ s(r).tokenConsumed > 0
          /\ (proc[r].at = "ensure" => NoneOf(r, "token-preconsume"))
      BY <1>1, <1>4 DEF ProcFits, KeyStages
    <2>2. "token-preconsume" \notin WalletKeys
      BY DEF WalletKeys
    <2>9. Waiting(r, "token-preconsume")
      BY <1>1, <1>3, <1>4, <2>1, <2>2 DEF WaitsFor, Waiting, Expects
    <2>10. QED
      BY <1>c, <2>9
  <1>5. CASE s(r).pc = "reserveRollback"
    <2>1. WaitsFor(r, "wallet-reserve", FundingExtension(r)) /\ FundingExtension(r) > 0
      BY <1>1, <1>2, <1>5 DEF ProcFits, WalletStages, ReservePCs, FundingExtension
    <2>9. Waiting(r, "wallet-reserve")
      BY <1>1, <1>3, <1>5, <2>1 DEF WaitsFor, Waiting, Expects
    <2>10. QED
      BY <1>c, <2>9
  <1>6. CASE s(r).pc = "settling"
    <2>1. WaitsFor(r, "wallet-settle-refund", -FundingDelta(r)) /\ -FundingDelta(r) > 0
      BY <1>1, <1>2, <1>6 DEF ProcFits, WalletStages, FundingDelta
    <2>9. Waiting(r, "wallet-settle-refund")
      BY <1>1, <1>3, <1>6, <2>1 DEF WaitsFor, Waiting, Expects
    <2>10. QED
      BY <1>c, <2>9
  <1>7. CASE s(r).pc = "tokenRefunding"
    <2>1. WaitsFor(r, "token", s(r).tokenConsumed) /\ s(r).tokenConsumed > 0
      BY <1>1, <1>7 DEF ProcFits, KeyStages
    <2>2. proc[r].at \in {"sync", "complete"} /\ Plain(r) => keyNet[r] = 0
      BY <1>1, <1>7 DEF ProcFits
    <2>3. "token" \notin WalletKeys
      BY DEF WalletKeys
    <2>9. Waiting(r, "token")
      BY <1>1, <1>3, <1>7, <2>1, <2>2, <2>3 DEF WaitsFor, Waiting, Expects
    <2>10. QED
      BY <1>c, <2>9
  <1>8. CASE s(r).pc = "fundingRefunding"
    <2>1. WaitsFor(r, "wallet", s(r).consumed) /\ s(r).consumed > 0
      BY <1>1, <1>8 DEF ProcFits, WalletStages
    <2>9. Waiting(r, "wallet")
      BY <1>1, <1>3, <1>8, <2>1 DEF WaitsFor, Waiting, Expects
    <2>10. QED
      BY <1>c, <2>9
  <1>9. QED
    BY <1>1, <1>3, <1>4, <1>5, <1>6, <1>7, <1>8 DEF ProcFits

\* The request goes on with its row, or leaves with an answer.
GoesOn(r, kind) ==
  /\ session' = session /\ proc'[r].at \notin {"idle", "ensure"}
  /\ proc'[r].at \in Busy =>
       /\ proc'[r].key = <<r, kind>> /\ proc'[r].amount = proc[r].amount
       /\ ~NoneOf(r, kind)' /\ row'[<<r, kind>>].amount = proc[r].amount
  /\ proc'[r].at \in {"sync", "complete", "ok"} =>
       /\ kind \in WalletKeys => ledger'[<<r, kind>>] = proc[r].amount
       /\ kind = "token" /\ Plain(r) => keyNet'[r] = 0

\* Then it still fits what its session waits for.
LEMMA GoesOnFits ==
  ASSUME BillingInv, NEW r \in Requests, proc[r].at \in Busy, NEW kind \in Kinds,
         proc[r].key = <<r, kind>>, GoesOn(r, kind)
  PROVE  ProcFits(r)'
  <1>1. PICK k \in Kinds : Waiting(r, k)
    BY InQueue
  <1>2. kind = k /\ s(r)' = s(r)
    BY <1>1 DEF GoesOn, Waiting, s
  <1>3. PICK amount : amount = proc[r].amount
    OBVIOUS
  <1>4. WaitsFor(r, kind, amount)'
    BY <1>3 DEF GoesOn, WaitsFor, NoneOf
  <1>5. /\ FundingExtension(r)' = FundingExtension(r) /\ FundingDelta(r)' = FundingDelta(r)
        /\ Plain(r)' <=> Plain(r)
    BY <1>2 DEF FundingExtension, FundingDelta, Plain
  <1>6. Expects(r, kind)
    BY <1>1, <1>2 DEF Waiting
  <1>7. CASE s(r).pc = "rollback"
    BY <1>2, <1>3, <1>4, <1>5, <1>6, <1>7 DEF ProcFits, GoesOn, Expects
  <1>8. CASE s(r).pc = "reserveRollback"
    BY <1>2, <1>3, <1>4, <1>5, <1>6, <1>8 DEF ProcFits, GoesOn, Expects
  <1>9. CASE s(r).pc = "settling"
    BY <1>2, <1>3, <1>4, <1>5, <1>6, <1>9 DEF ProcFits, GoesOn, Expects
  <1>10. CASE s(r).pc = "tokenRefunding"
    BY <1>2, <1>3, <1>4, <1>5, <1>6, <1>10 DEF ProcFits, GoesOn, Expects
  <1>11. CASE s(r).pc = "fundingRefunding"
    BY <1>2, <1>3, <1>4, <1>5, <1>6, <1>11 DEF ProcFits, GoesOn, Expects
  <1>12. QED
    BY <1>6, <1>7, <1>8, <1>9, <1>10, <1>11 DEF Expects

\* A row appears when a request asks for its credit.
Inserted(q, kind, amount) ==
  /\ UNCHANGED <<user, token, ledger, session, keyNet>>
  /\ NoneOf(q, kind)
  /\ row' = [row EXCEPT ![<<q, kind>>] =
               [status |-> "pending", amount |-> amount, attempts |-> 0]]

\* Asking for a credit keeps the data in step.
LEMMA InsertedFits ==
  ASSUME BillingInv, NEW r \in Requests, NEW kind \in Kinds, Waiting(r, kind),
         proc[r].at = "ensure", Inserted(r, kind, proc[r].amount)
  PROVE  /\ DataFits(r)' /\ RowsStay(r) /\ OnlyRow(r, kind)
         /\ row'[<<r, kind>>].status = "pending"
         /\ row'[<<r, kind>>].amount = proc[r].amount
  <1> DEFINE k == <<r, kind>>
             amount == proc[r].amount
  <1>1. /\ BillingTypes /\ SumsHold
        /\ RowsFit(r) /\ KeyStages(r) /\ KeyCovers(r) /\ KeyExact(r)
        /\ WalletStages(r) /\ SettleFits(r) /\ WalletExact(r)
        /\ \A other \in TokenKeys \cup WalletKeys : RowFits(<<r, other>>)
    BY InvOf
  <1>2. /\ k \in RefundKeys /\ row \in [RefundKeys -> RowType] /\ row[k].status = "none"
        /\ row' = [row EXCEPT ![k] = [status |-> "pending", amount |-> amount, attempts |-> 0]]
        /\ UNCHANGED <<user, token, ledger, session, keyNet>>
    BY RowOf DEF Inserted, NoneOf
  <1>3. amount \in 0..MaxQuota /\ amount > 0 /\ amount \in Int
    <2>1. r \in Actors /\ proc \in [Actors -> ProcType]
      BY InvOf
    <2>2. amount \in 0..MaxQuota
      BY <2>1 DEF ProcType
    <2>3. QED
      BY <2>2 DEF Waiting
  <1> HIDE DEF amount
  <1>4. row' \in [RefundKeys -> RowType]
    <2>1. 0 \in 0..MaxRefundAttempts
      BY RefundAssumption
    <2>2. QED
      BY <1>2, <1>3, <2>1 DEF RowType, Open
  <1>5. /\ row'[k].status = "pending" /\ row'[k].amount = amount
        /\ \A other \in RefundKeys \ {k} : row'[other] = row[other]
    BY <1>2
  <1>a. \A other \in Kinds : <<r, other>> \in RefundKeys
    BY DEF RefundKeys, Kinds
  <1>b. \A other \in Kinds \ {kind} : row'[<<r, other>>] = row[<<r, other>>]
    BY <1>5, <1>a
  <1>c. {"token", "token-preconsume", "wallet", "wallet-settle-refund", "wallet-reserve"}
          \subseteq Kinds
    BY DEF Kinds, TokenKeys, WalletKeys
  <1>e. Expects(r, kind) /\ s(r)' = s(r)
    BY <1>2 DEF Waiting, s
  <1> HIDE DEF k
  <1>6. OnlyRow(r, kind)
    BY <1>2, <1>5 DEF OnlyRow, k
  <1>7. DataTypes'
    BY <1>1, <1>2, <1>4 DEF DataTypes, BillingTypes, KeyType, LedgerType
  <1>8. SumsHold'
    BY <1>1, <1>2 DEF SumsHold, WalletSumHolds, KeySumsHold, WalletNet
  <1>9. \A other \in Kinds : RowFits(<<r, other>>)'
    <2>1. RowFits(k)'
      <3>1. RowFits(k)
        BY <1>1 DEF k, Kinds
      <3>2. QED
        BY <1>2, <1>3, <1>5, <3>1 DEF RowFits
    <2>2. \A other \in Kinds \ {kind} : RowFits(<<r, other>>)'
      BY <1>1, <1>2, <1>b DEF RowFits, Kinds
    <2>3. QED
      BY <2>1, <2>2 DEF k
  <1>10. RowsFit(r)'
    BY <1>1, <1>2, <1>3, <1>5, <1>b, <1>c, <1>e
       DEF RowsFit, NoneOf, Plain, FundingDelta, Expects, WalletStages, SettleFits,
           RefundPCs, SettlePCs, ReservePCs, k, amount
  <1>11. KeyStages(r)'
    BY <1>1, <1>e DEF KeyStages
  <1>12. KeyCovers(r)'
    <2>1. /\ row'[<<r, "token">>].status \in {"none", "pending"} =>
               row[<<r, "token">>].status \in {"none", "pending"}
          /\ row'[<<r, "token-preconsume">>].status \in {"none", "pending"} =>
               row[<<r, "token-preconsume">>].status \in {"none", "pending"}
      BY <1>2, <1>5, <1>b, <1>c DEF k
    <2>2. keyNet[r] \in Nat /\ s(r).tokenConsumed \in Int
      BY <1>1, SessionNumbers
    <2>3. \A other \in TokenKeys : row'[<<r, other>>].status = "pending" =>
            keyNet[r] >= row'[<<r, other>>].amount
      <3>1. kind \in TokenKeys => keyNet[r] >= amount
        BY <1>1, <1>2, <1>c, <1>e
           DEF KeyCovers, RowsFit, NoneOf, Expects, RefundPCs, TokenKeys, k, amount
      <3>2. QED
        BY <1>1, <1>5, <1>b, <3>1 DEF KeyCovers, Kinds, k
    <2>4. QED
      BY <1>1, <1>2, <1>e, <2>1, <2>2, <2>3 DEF KeyCovers, Plain
  <1>13. KeyExact(r)'
    <2>1. kind = "token" /\ Plain(r) => keyNet[r] = amount
      BY <1>1, <1>2, <1>e
         DEF KeyCovers, RowsFit, NoneOf, Expects, RefundPCs, k, amount
    <2>2. QED
      BY <1>1, <1>2, <1>5, <1>b, <1>c, <1>e, <2>1 DEF KeyExact, Plain, k
  <1>14. WalletStages(r)' /\ SettleFits(r)' /\ WalletExact(r)'
    BY <1>1, <1>2, <1>e
       DEF WalletStages, SettleFits, WalletExact, Plain, FundingDelta, KeyExtension, Limited
  <1>15. RowsStay(r)
    BY <1>2, <1>5, <1>b DEF RowsStay, k
  <1>16. QED
    BY <1>5, <1>6, <1>7, <1>8, <1>9, <1>10, <1>11, <1>12, <1>13, <1>14, <1>15
       DEF DataFits, Fits, k, amount

\* Where the processing of a row may go, by what it does to the row.
Moves(a, q, kind) ==
  /\ batch' = batch /\ refundFaults' \in 0..MaxRefundFaults /\ session' = session
  /\ \/ Credited(q, kind) /\ (Goto(a, "sync") \/ Goto(a, "failed"))
     \/ /\ Forward(q, kind)
        /\ \/ Goto(a, "failed")
           \/ Return(a, "err")
           \/ Goto(a, "sync") /\ row[<<q, kind>>].status = "applied"
           \/ Goto(a, "complete") /\ proc[a].at = "sync"
           \/ /\ Return(a, "ok")
              /\ proc[a].at = "complete" \/ row[<<q, kind>>].status = "completed"

\* A row that is not written moves forward trivially.
LEMMA StillForward ==
  ASSUME BillingInv, NEW q \in Requests, NEW kind \in Kinds,
         UNCHANGED <<user, token, ledger, row, session, keyNet>>
  PROVE  Forward(q, kind)
  <1>1. row[<<q, kind>>] \in RowType /\ row' = [row EXCEPT ![<<q, kind>>] = row[<<q, kind>>]]
    BY RowOf
  <1>2. QED
    BY <1>1 DEF Forward

\* One more failure on a row, or its completion.
LEMMA WrittenForward ==
  ASSUME BillingInv, NEW q \in Requests, NEW kind \in Kinds,
         UNCHANGED <<user, token, ledger, session, keyNet>>,
         \/ row' = [row EXCEPT ![<<q, kind>>] = Failed(@)]
         \/ row' = CompletedRow(<<q, kind>>)
  PROVE  Forward(q, kind)
  <1> DEFINE r == row[<<q, kind>>]
  <1>1. /\ r \in RowType /\ r.attempts \in 0..MaxRefundAttempts /\ MaxRefundAttempts \in Nat
        /\ r.status \in {"none", "pending", "applied", "completed", "dead_letter"}
        /\ <<q, kind>> \in RefundKeys /\ row \in [RefundKeys -> RowType]
    BY RowOf, RefundAssumption
  <1>2. CASE row' = [row EXCEPT ![<<q, kind>>] = Failed(@)]
    <2>1. row' = [row EXCEPT ![<<q, kind>>] = Failed(r)]
      BY <1>2
    <2>2. CASE ~(r.status \in Open /\ r.attempts < MaxRefundAttempts)
      <3>1. Failed(r) = r
        BY <2>2 DEF Failed
      <3>2. QED
        BY <1>1, <2>1, <3>1 DEF Forward
    <2>3. CASE r.status \in Open /\ r.attempts < MaxRefundAttempts
      <3> DEFINE status == IF r.attempts + 1 >= MaxRefundAttempts THEN "dead_letter" ELSE r.status
      <3>1. status \in {"dead_letter", r.status}
        OBVIOUS
      <3> HIDE DEF status
      <3>2. r.attempts + 1 \in 0..MaxRefundAttempts
        BY <1>1, <2>3
      <3>3. Failed(r) = [r EXCEPT !.attempts = r.attempts + 1, !.status = status]
        BY <2>3 DEF Failed, status
      <3>4. /\ Failed(r) \in RowType /\ Failed(r).status = status
            /\ Failed(r).amount = r.amount
        BY <1>1, <3>1, <3>2, <3>3 DEF RowType, Open
      <3>5. r.status \in {"pending", "applied"}
        BY <2>3 DEF Open
      <3> HIDE DEF r
      <3>6. QED
        BY <2>1, <3>1, <3>4, <3>5 DEF Forward, r
    <2>4. QED
      BY <2>2, <2>3
  <1>3. CASE row' = CompletedRow(<<q, kind>>)
    <2> DEFINE status == IF r.status = "applied" THEN "completed" ELSE r.status
               x == [r EXCEPT !.status = status]
    <2>1. row' = [row EXCEPT ![<<q, kind>>].status = status]
      BY <1>3 DEF CompletedRow
    <2>2. x \in RowType /\ x.status = status /\ x.amount = r.amount
      BY <1>1 DEF RowType, Open
    <2>3. row' = [row EXCEPT ![<<q, kind>>] = x]
      BY <1>1, <2>1 DEF RowType
    <2>4. /\ x.status # "none" <=> r.status # "none"
          /\ x.status = "pending" => r.status = "pending"
          /\ x.status \in {"applied", "completed"} => r.status \in {"applied", "completed"}
      BY <2>2
    <2> HIDE DEF x
    <2>5. QED
      BY <2>2, <2>3, <2>4 DEF Forward
  <1>4. QED
    BY <1>2, <1>3

\* An actor's position changes.
LEMMA GotoIs ==
  ASSUME BillingTypes, NEW a \in Actors, NEW step, Goto(a, step),
         step \in {"tx", "sync", "complete", "failed"}
  PROVE  /\ proc' = [proc EXCEPT ![a] = proc'[a]] /\ proc' \in [Actors -> ProcType]
         /\ proc'[a].at = step /\ proc'[a].key = proc[a].key
         /\ proc'[a].amount = proc[a].amount
  <1>1. proc \in [Actors -> ProcType] /\ proc' = [proc EXCEPT ![a].at = step]
    BY DEF BillingTypes, Goto
  <1> DEFINE p == [proc[a] EXCEPT !.at = step]
  <1>2. p \in ProcType /\ p.at = step /\ p.key = proc[a].key /\ p.amount = proc[a].amount
    BY <1>1 DEF ProcType
  <1>3. proc' = [proc EXCEPT ![a] = p]
    BY <1>1
  <1> HIDE DEF p
  <1>4. QED
    BY <1>1, <1>2, <1>3

\* An actor has its answer.
LEMMA ReturnIs ==
  ASSUME BillingTypes, NEW a \in Actors, NEW answer \in {"ok", "err", "idle"}, Return(a, answer)
  PROVE  /\ proc' = [proc EXCEPT ![a] = proc'[a]] /\ proc' \in [Actors -> ProcType]
         /\ proc'[a].at = answer
  <1>1. proc \in [Actors -> ProcType] /\ proc' = [proc EXCEPT ![a] = At(answer)]
    BY DEF BillingTypes, Return
  <1>2. At(answer) \in ProcType /\ At(answer).at = answer
    BY MaxQuotaAssumption DEF At, ProcType
  <1>3. QED
    BY <1>1, <1>2

\* Processing a row moves it forward or credits it.
LEMMA ProcessMoves ==
  ASSUME BillingInv, NEW a \in Actors, NEW q \in Requests, NEW kind \in Kinds,
         proc[a].key = <<q, kind>>, ~NoneOf(q, kind),
         ProcessBillingRefundPending(a), KeyNetFollowsCredits(a), UNCHANGED session
  PROVE  Moves(a, q, kind) /\ proc[a].at \in Busy \ {"ensure"}
  <1> DEFINE k == <<q, kind>>
  <1>1. /\ refundFaults \in 0..MaxRefundFaults /\ MaxRefundFaults \in Nat
        /\ row[k].status \in {"none", "pending", "applied", "completed", "dead_letter"}
        /\ row[k].status # "none"
    BY RefundAssumption, RowOf DEF BillingInv, BillingTypes, NoneOf
  <1>2. RefundFault \/ NoRefundFault => refundFaults' \in 0..MaxRefundFaults
    BY <1>1 DEF RefundFault, NoRefundFault
  <1>3. token' = token => keyNet' = keyNet
    BY DEF KeyNetFollowsCredits
  <1>4. UNCHANGED <<user, token, ledger, row>> => Forward(q, kind)
    BY <1>3, StillForward
  <1>5. CASE ProcessTx(a)
    <2>1. batch' = batch /\ proc[a].at = "tx"
      BY <1>5 DEF ProcessTx
    <2>2. CASE ToApply(k) /\ CanApply(k) /\ Apply(k)
      <3>1. /\ Goto(a, "sync") \/ Goto(a, "failed")
            /\ RefundFault \/ NoRefundFault
        BY <1>5, <2>2 DEF ProcessTx, Apply
      <3>2. Credited(q, kind)
        BY <2>2 DEF Credited, ToApply, KeyNetFollowsCredits
      <3>3. QED
        BY <1>2, <2>1, <3>1, <3>2 DEF Moves, Busy
    <2>3. CASE UNCHANGED <<user, token, ledger, row>>
      <3>1. CASE /\ NoRefundFault
                 /\ CASE row[k].status = "pending" -> Goto(a, "failed")
                      [] row[k].status = "applied" -> Goto(a, "sync")
                      [] row[k].status = "dead_letter" -> Return(a, "err")
                      [] OTHER -> Return(a, "ok")
        <4>1. \/ Goto(a, "failed") \/ Return(a, "err")
              \/ Goto(a, "sync") /\ row[k].status = "applied"
              \/ Return(a, "ok") /\ row[k].status = "completed"
          BY <1>1, <3>1
        <4>2. QED
          BY <1>2, <1>4, <2>1, <2>3, <3>1, <4>1 DEF Moves, Busy
      <3>2. CASE RefundFault /\ Goto(a, "failed")
        BY <1>2, <1>4, <2>1, <2>3, <3>2 DEF Moves, Busy
      <3>3. CASE ToApply(k) /\ CanApply(k) /\ Apply(k)
        BY <2>2, <3>3
      <3>4. QED
        BY <1>5, <3>1, <3>2, <3>3 DEF ProcessTx
    <2>4. QED
      BY <1>5, <2>2, <2>3 DEF ProcessTx
  <1>6. CASE syncBillingRefundCache(a)
    <2>1. /\ proc[a].at = "sync" /\ batch' = batch /\ UNCHANGED <<user, token, ledger, row>>
          /\ Goto(a, "complete") \/ Goto(a, "failed")
          /\ RefundFault \/ NoRefundFault
      BY <1>6 DEF syncBillingRefundCache
    <2>2. QED
      BY <1>2, <1>4, <2>1 DEF Moves, Busy
  <1>7. CASE recordBillingRefundFailure(a)
    <2>1. /\ proc[a].at = "failed" /\ batch' = batch /\ UNCHANGED <<user, token, ledger>>
          /\ Return(a, "err") /\ (RefundFault \/ NoRefundFault)
          /\ row' = [row EXCEPT ![k] = Failed(@)] \/ row' = row
      BY <1>7 DEF recordBillingRefundFailure
    <2>2. Forward(q, kind)
      BY <1>3, <1>4, <2>1, WrittenForward
    <2>3. QED
      BY <1>2, <2>1, <2>2 DEF Moves, Busy
  <1>8. CASE CompleteRefund(a)
    <2>1. /\ proc[a].at = "complete" /\ batch' = batch /\ UNCHANGED <<user, token, ledger>>
          /\ Return(a, "err") \/ Return(a, "ok")
          /\ RefundFault \/ NoRefundFault
          /\ row' = CompletedRow(k) \/ row' = row
      BY <1>8 DEF CompleteRefund
    <2>2. Forward(q, kind)
      BY <1>3, <1>4, <2>1, WrittenForward
    <2>3. QED
      BY <1>2, <2>1, <2>2 DEF Moves, Busy
  <1>9. QED
    BY <1>5, <1>6, <1>7, <1>8 DEF ProcessBillingRefundPending

\* The compensator keeps fitting when rows stay and it keeps its place.
LEMMA CompensatorStays ==
  ASSUME BillingInv, NEW q \in Requests, NEW kind \in Kinds, OnlyRow(q, kind), RowsStay(q),
         proc'[Compensator] = proc[Compensator], batch' = batch
  PROVE  CompensatorFits'
  <1>1. ASSUME NEW k \in RefundKeys, row[k].status # "none"
        PROVE  row'[k].status # "none"
    <2>1. CASE k = <<q, kind>>
      BY <1>1, <2>1 DEF RowsStay
    <2>2. CASE k # <<q, kind>>
      BY <1>1, <2>2 DEF OnlyRow
    <2>3. QED
      BY <2>1, <2>2
  <1>2. QED
    BY <1>1 DEF BillingInv, BillingTypes, CompensatorFits

\* A step of a request inside the queue keeps the invariant when the data stay
\* in step and the request goes on.
LEMMA RequestRowStep ==
  ASSUME BillingInv, NEW r \in Requests, NEW kind \in Kinds, proc[r].at \in Busy,
         proc[r].key = <<r, kind>>,
         DataFits(r)', OnlyRow(r, kind), RowsStay(r), GoesOn(r, kind),
         proc' = [proc EXCEPT ![r] = proc'[r]], proc' \in [Actors -> ProcType],
         batch' = batch, refundFaults' \in 0..MaxRefundFaults
  PROVE  BillingInv'
  <1>1. \A p \in Actors \ {r} : proc'[p] = proc[p]
    BY DEF BillingInv, BillingTypes
  <1>2. Compensator \in Actors \ {r} /\ Requests \subseteq Actors
    BY RefundAssumption DEF Actors
  <1>3. CompensatorFits'
    BY <1>1, <1>2, CompensatorStays
  <1>4. ProcFits(r)'
    BY GoesOnFits
  <1>5. batch' \subseteq RefundKeys
    BY DEF BillingInv, BillingTypes
  <1>6. \A p \in Requests \ {r} : proc'[p] = proc[p]
    BY <1>1, <1>2
  <1>7. QED
    BY <1>3, <1>4, <1>5, <1>6, RowStepKeeps

\* Processing its row keeps the invariant.
LEMMA RequestProcessKeeps ==
  ASSUME BillingInv, NEW r \in Requests, ProcessBillingRefundPending(r),
         KeyNetFollowsCredits(r), UNCHANGED session
  PROVE  BillingInv'
  <1>1. proc[r].at \in Busy \ {"ensure"}
    BY DEF ProcessBillingRefundPending, ProcessTx, syncBillingRefundCache,
           recordBillingRefundFailure, CompleteRefund, Busy
  <1>2. PICK kind \in Kinds : Waiting(r, kind)
    BY <1>1, InQueue
  <1> DEFINE k == <<r, kind>>
  <1>3. /\ BillingTypes /\ KeyExact(r) /\ RowFits(k) /\ r \in Actors
    BY InvOf DEF Kinds
  <1>4. /\ proc[r].key = k /\ row[k].status # "none" /\ row[k].amount = proc[r].amount
        /\ proc[r].at \in {"sync", "complete"} =>
             /\ kind \in WalletKeys => ledger[k] = proc[r].amount
             /\ kind = "token" /\ Plain(r) => keyNet[r] = 0
    BY <1>1, <1>2 DEF Waiting, NoneOf
  <1>5. Moves(r, r, kind)
    BY <1>3, <1>4, ProcessMoves DEF NoneOf
  <1>6. /\ DataFits(r)' /\ RowsStay(r) /\ OnlyRow(r, kind)
        /\ row'[k].status # "none" /\ row'[k].amount = row[k].amount
        /\ \/ /\ kind \in WalletKeys => ledger'[k] = row[k].amount
              /\ kind = "token" /\ Plain(r) => keyNet'[r] = 0
              /\ Goto(r, "sync") \/ Goto(r, "failed")
           \/ /\ UNCHANGED <<ledger, keyNet>>
              /\ \/ Goto(r, "failed")
                 \/ Return(r, "err")
                 \/ Goto(r, "sync") /\ row[k].status = "applied"
                 \/ Goto(r, "complete") /\ proc[r].at = "sync"
                 \/ Return(r, "ok") /\ (proc[r].at = "complete" \/ row[k].status = "completed")
    <2>1. CASE Credited(r, kind) /\ (Goto(r, "sync") \/ Goto(r, "failed"))
      <3>1. /\ DataFits(r)' /\ RowsStay(r) /\ OnlyRow(r, kind)
            /\ row'[k].status = "applied" /\ row'[k].amount = row[k].amount
            /\ kind \in WalletKeys => ledger'[k] = row[k].amount
            /\ kind = "token" /\ Plain(r) => keyNet'[r] = 0
        BY <2>1, CreditedFits
      <3>2. QED
        BY <2>1, <3>1
    <2>2. CASE /\ Forward(r, kind)
               /\ \/ Goto(r, "failed")
                  \/ Return(r, "err")
                  \/ Goto(r, "sync") /\ row[k].status = "applied"
                  \/ Goto(r, "complete") /\ proc[r].at = "sync"
                  \/ Return(r, "ok") /\ (proc[r].at = "complete" \/ row[k].status = "completed")
      <3>1. DataFits(r)' /\ RowsStay(r) /\ OnlyRow(r, kind)
        BY <2>2, ForwardFits
      <3>2. row'[k].status # "none" /\ row'[k].amount = row[k].amount
        BY <1>4, <3>1 DEF RowsStay
      <3>3. UNCHANGED <<ledger, keyNet>>
        BY <2>2 DEF Forward
      <3>4. QED
        BY <2>2, <3>1, <3>2, <3>3
    <2>3. QED
      BY <1>5, <2>1, <2>2 DEF Moves
  <1>7. row[k].status \in {"applied", "completed"} =>
          /\ kind \in WalletKeys => ledger[k] = proc[r].amount
          /\ kind = "token" /\ Plain(r) => keyNet[r] = 0
    BY <1>3, <1>4 DEF RowFits, KeyExact
  <1> HIDE DEF k
  <1>8. /\ proc' = [proc EXCEPT ![r] = proc'[r]] /\ proc' \in [Actors -> ProcType]
        /\ proc'[r].at \in {"sync", "failed", "complete"} =>
             proc'[r].key = proc[r].key /\ proc'[r].amount = proc[r].amount
        /\ proc'[r].at \in {"sync", "failed", "complete", "ok", "err"}
        /\ proc'[r].at \in {"sync", "complete", "ok"} =>
             /\ kind \in WalletKeys => ledger'[k] = proc[r].amount
             /\ kind = "token" /\ Plain(r) => keyNet'[r] = 0
    <2>1. /\ Goto(r, "sync") => proc'[r].at = "sync"
          /\ Goto(r, "failed") => proc'[r].at = "failed"
          /\ Goto(r, "complete") => proc'[r].at = "complete"
          /\ Goto(r, "sync") \/ Goto(r, "failed") \/ Goto(r, "complete") =>
               /\ proc' = [proc EXCEPT ![r] = proc'[r]] /\ proc' \in [Actors -> ProcType]
               /\ proc'[r].key = proc[r].key /\ proc'[r].amount = proc[r].amount
      BY <1>3, GotoIs
    <2>2. /\ Return(r, "ok") => proc'[r].at = "ok"
          /\ Return(r, "err") => proc'[r].at = "err"
          /\ Return(r, "ok") \/ Return(r, "err") =>
               proc' = [proc EXCEPT ![r] = proc'[r]] /\ proc' \in [Actors -> ProcType]
      BY <1>3, ReturnIs
    <2>3. CASE /\ kind \in WalletKeys => ledger'[k] = row[k].amount
               /\ kind = "token" /\ Plain(r) => keyNet'[r] = 0
               /\ Goto(r, "sync") \/ Goto(r, "failed")
      BY <1>4, <2>1, <2>3
    <2>4. CASE /\ UNCHANGED <<ledger, keyNet>>
               /\ \/ Goto(r, "failed")
                  \/ Return(r, "err")
                  \/ Goto(r, "sync") /\ row[k].status = "applied"
                  \/ Goto(r, "complete") /\ proc[r].at = "sync"
                  \/ Return(r, "ok") /\ (proc[r].at = "complete" \/ row[k].status = "completed")
      BY <1>4, <1>7, <2>1, <2>2, <2>4
    <2>5. QED
      BY <1>6, <2>3, <2>4
  <1>9. GoesOn(r, kind)
    BY <1>4, <1>6, <1>8 DEF GoesOn, NoneOf, Busy, k
  <1>10. QED
    BY <1>1, <1>4, <1>5, <1>6, <1>8, <1>9, RequestRowStep DEF Moves, k

\* Recording its credit keeps the invariant.
LEMMA RequestEnsureKeeps ==
  ASSUME BillingInv, NEW r \in Requests, EnsureBillingRefundPending(r),
         KeyNetFollowsCredits(r), UNCHANGED session
  PROVE  BillingInv'
  <1>1. proc[r].at \in Busy /\ proc[r].at = "ensure"
    BY DEF EnsureBillingRefundPending, Busy
  <1>2. PICK kind \in Kinds : Waiting(r, kind)
    BY <1>1, InQueue
  <1> DEFINE k == <<r, kind>>
             conflict == row[k].status # "none" /\ row[k].amount # proc[r].amount
  <1>3. BillingTypes /\ r \in Actors /\ proc[r].key = k
    BY <1>2, InvOf DEF Waiting
  <1>4. /\ UNCHANGED <<user, token, ledger, batch>> /\ (RefundFault \/ NoRefundFault)
        /\ \/ /\ row' = EnsuredRow(k, proc[r].amount)
              /\ Return(r, "err") \/ (~conflict /\ Goto(r, "tx"))
           \/ row' = row /\ Return(r, "err")
    BY <1>3 DEF EnsureBillingRefundPending
  <1>5. keyNet' = keyNet
    BY <1>4 DEF KeyNetFollowsCredits
  <1>6. refundFaults' \in 0..MaxRefundFaults
    BY <1>3, <1>4, RefundAssumption DEF BillingTypes, RefundFault, NoRefundFault
  <1>7. /\ DataFits(r)' /\ RowsStay(r) /\ OnlyRow(r, kind)
        /\ row' = EnsuredRow(k, proc[r].amount) /\ ~conflict =>
             row'[k].status # "none" /\ row'[k].amount = proc[r].amount
    <2>1. CASE row' = row
      <3>1. Forward(r, kind)
        BY <1>4, <1>5, <2>1, StillForward
      <3>2. DataFits(r)' /\ RowsStay(r) /\ OnlyRow(r, kind)
        BY <3>1, ForwardFits
      <3>3. k \in RefundKeys /\ row \in [RefundKeys -> RowType]
        BY RowOf
      <3>4. row' = EnsuredRow(k, proc[r].amount) => row'[k].status # "none"
        BY <2>1, <3>3 DEF EnsuredRow
      <3>5. QED
        BY <2>1, <3>2, <3>4
    <2>2. CASE row' = EnsuredRow(k, proc[r].amount) /\ row' # row
      <3>1. Inserted(r, kind, proc[r].amount)
        BY <1>4, <1>5, <2>2 DEF EnsuredRow, Inserted, NoneOf
      <3>2. /\ DataFits(r)' /\ RowsStay(r) /\ OnlyRow(r, kind)
            /\ row'[k].status = "pending" /\ row'[k].amount = proc[r].amount
        BY <1>1, <1>2, <3>1, InsertedFits
      <3>3. QED
        BY <3>2
    <2>3. QED
      BY <1>4, <2>1, <2>2
  <1> HIDE DEF k, conflict
  <1>8. /\ proc' = [proc EXCEPT ![r] = proc'[r]] /\ proc' \in [Actors -> ProcType]
        /\ \/ proc'[r].at = "err"
           \/ /\ proc'[r].at = "tx" /\ proc'[r].key = k /\ proc'[r].amount = proc[r].amount
              /\ row'[k].status # "none" /\ row'[k].amount = proc[r].amount
    <2>1. CASE Return(r, "err")
      BY <1>3, <2>1, ReturnIs
    <2>2. CASE /\ row' = EnsuredRow(k, proc[r].amount) /\ ~conflict /\ Goto(r, "tx")
      BY <1>3, <1>7, <2>2, GotoIs
    <2>3. QED
      BY <1>4, <2>1, <2>2
  <1>9. GoesOn(r, kind)
    BY <1>8 DEF GoesOn, NoneOf, Busy, k
  <1>10. QED
    BY <1>1, <1>3, <1>4, <1>6, <1>7, <1>8, <1>9, RequestRowStep DEF k

-------------------------------------------------------------------------------
(***************************************************************************)
(* The compensator.                                                        *)
(***************************************************************************)

\* A request that waits for a credit keeps waiting for the same one while the
\* compensator works on its rows.
LEMMA WaitStays ==
  ASSUME NEW q \in Requests, NEW kind \in Kinds, NEW amount, WaitsFor(q, kind, amount),
         amount # 0, RowsStay(q), proc'[q] = proc[q]
  PROVE  WaitsFor(q, kind, amount)'
  BY DEF WaitsFor, RowsStay, NoneOf

\* So it still fits what its session waits for.
LEMMA WaitingFits ==
  ASSUME BillingInv, NEW q \in Requests, session' = session, proc'[q] = proc[q],
         RowsStay(q), NoRowAppears(q)
  PROVE  ProcFits(q)'
  <1>1. BillingTypes /\ ProcFits(q) /\ KeyStages(q) /\ WalletStages(q)
    BY InvOf
  <1>2. /\ s(q).target \in Int /\ s(q).actual \in Int /\ s(q).preConsumed \in Int
        /\ s(q).consumed \in Int /\ s(q).tokenConsumed \in Int
    BY <1>1, SessionNumbers
  <1>3. /\ s(q)' = s(q) /\ FundingExtension(q)' = FundingExtension(q)
        /\ FundingDelta(q)' = FundingDelta(q) /\ (Plain(q)' <=> Plain(q))
    BY DEF s, FundingExtension, FundingDelta, Plain
  <1>c. /\ "token" \in Kinds /\ "token-preconsume" \in Kinds /\ "wallet" \in Kinds
        /\ "wallet-settle-refund" \in Kinds /\ "wallet-reserve" \in Kinds
    BY DEF Kinds, TokenKeys, WalletKeys
  <1>4. CASE s(q).pc = "rollback"
    <2>1. PICK amount : amount = s(q).tokenConsumed
      OBVIOUS
    <2>2. WaitsFor(q, "token-preconsume", amount)'
      BY <1>1, <1>2, <1>4, <1>c, <2>1, WaitStays DEF ProcFits, KeyStages
    <2>3. NoneOf(q, "token-preconsume") => NoneOf(q, "token-preconsume")'
      BY <1>c DEF NoRowAppears, NoneOf
    <2>4. QED
      BY <1>1, <1>3, <1>4, <2>1, <2>2, <2>3 DEF ProcFits
  <1>5. CASE s(q).pc = "reserveRollback"
    <2>1. PICK amount : amount = FundingExtension(q)
      OBVIOUS
    <2>2. amount # 0
      BY <1>1, <1>2, <1>5, <2>1 DEF WalletStages, ReservePCs, FundingExtension
    <2>3. WaitsFor(q, "wallet-reserve", amount)'
      BY <1>1, <1>5, <1>c, <2>1, <2>2, WaitStays DEF ProcFits
    <2>4. QED
      BY <1>3, <1>5, <2>1, <2>3 DEF ProcFits
  <1>6. CASE s(q).pc = "settling"
    <2>1. PICK amount : amount = -FundingDelta(q)
      OBVIOUS
    <2>2. amount # 0
      BY <1>1, <1>2, <1>6, <2>1 DEF WalletStages, FundingDelta
    <2>3. WaitsFor(q, "wallet-settle-refund", amount)'
      BY <1>1, <1>6, <1>c, <2>1, <2>2, WaitStays DEF ProcFits
    <2>4. QED
      BY <1>3, <1>6, <2>1, <2>3 DEF ProcFits
  <1>7. CASE s(q).pc = "tokenRefunding"
    <2>1. PICK amount : amount = s(q).tokenConsumed
      OBVIOUS
    <2>2. WaitsFor(q, "token", amount)'
      BY <1>1, <1>2, <1>7, <1>c, <2>1, WaitStays DEF ProcFits, KeyStages
    <2>3. proc'[q].at \in {"sync", "complete", "ok"} /\ Plain(q) => keyNet'[q] = 0
      BY <1>1, <1>7 DEF ProcFits, RowsStay
    <2>4. QED
      BY <1>3, <1>7, <2>1, <2>2, <2>3 DEF ProcFits
  <1>8. CASE s(q).pc = "fundingRefunding"
    <2>1. PICK amount : amount = s(q).consumed
      OBVIOUS
    <2>2. WaitsFor(q, "wallet", amount)'
      BY <1>1, <1>2, <1>8, <1>c, <2>1, WaitStays DEF ProcFits, WalletStages
    <2>3. QED
      BY <1>3, <1>8, <2>1, <2>2 DEF ProcFits
  <1>9. CASE s(q).pc \notin {"rollback", "reserveRollback", "settling", "tokenRefunding",
                             "fundingRefunding"}
    BY <1>1, <1>3, <1>9 DEF ProcFits
  <1>10. QED
    BY <1>4, <1>5, <1>6, <1>7, <1>8, <1>9

\* The rows the compensator works on stay.
LEMMA RowsOfCompensatorStay ==
  ASSUME BillingInv, NEW q \in Requests, NEW kind \in Kinds, OnlyRow(q, kind), RowsStay(q),
         NEW k \in RefundKeys, row[k].status # "none"
  PROVE  row'[k].status # "none"
  <1>1. CASE k = <<q, kind>>
    BY <1>1 DEF RowsStay
  <1>2. CASE k # <<q, kind>>
    BY <1>2 DEF OnlyRow
  <1>3. QED
    BY <1>1, <1>2

\* Processing a row keeps the invariant, whoever else works on it.
LEMMA WorkerProcessKeeps ==
  ASSUME BillingInv, ProcessBillingRefundPending(Compensator),
         KeyNetFollowsCredits(Compensator), UNCHANGED session
  PROVE  BillingInv'
  <1>1. proc[Compensator].at \in Busy
    BY DEF ProcessBillingRefundPending, ProcessTx, syncBillingRefundCache,
           recordBillingRefundFailure, CompleteRefund, Busy
  <1>2. /\ proc[Compensator].key \in RefundKeys /\ row[proc[Compensator].key].status # "none"
        /\ BillingTypes /\ CompensatorFits /\ Compensator \in Actors
    BY <1>1 DEF BillingInv, CompensatorFits, Actors
  <1>3. PICK q \in Requests, kind \in Kinds : proc[Compensator].key = <<q, kind>>
    BY <1>2 DEF RefundKeys, Kinds
  <1> DEFINE k == <<q, kind>>
  <1>4. Moves(Compensator, q, kind)
    BY <1>2, <1>3, ProcessMoves DEF NoneOf
  <1>5. DataFits(q)' /\ RowsStay(q) /\ NoRowAppears(q) /\ OnlyRow(q, kind)
    <2>1. Credited(q, kind) \/ Forward(q, kind)
      BY <1>4 DEF Moves
    <2>2. QED
      BY <2>1, CreditedFits, ForwardFits
  <1>6. /\ proc' = [proc EXCEPT ![Compensator] = proc'[Compensator]]
        /\ proc' \in [Actors -> ProcType]
        /\ \/ proc'[Compensator].at \in {"sync", "failed", "complete"}
                /\ proc'[Compensator].key = k
           \/ proc'[Compensator].at \in {"ok", "err"}
    <2>1. \/ Goto(Compensator, "sync") \/ Goto(Compensator, "failed")
          \/ Goto(Compensator, "complete")
          \/ Return(Compensator, "ok") \/ Return(Compensator, "err")
      BY <1>4 DEF Moves
    <2>2. QED
      BY <1>2, <1>3, <2>1, GotoIs, ReturnIs
  <1>7. batch' = batch /\ refundFaults' \in 0..MaxRefundFaults /\ session' = session
    BY <1>4 DEF Moves
  <1>8. \A p \in Requests : proc'[p] = proc[p]
    BY <1>2, <1>6, RefundAssumption DEF BillingTypes, Actors
  <1>9. CompensatorFits'
    <2>1. \A other \in RefundKeys : row[other].status # "none" => row'[other].status # "none"
      BY <1>5, RowsOfCompensatorStay
    <2>2. k \in RefundKeys /\ row'[k].status # "none"
      BY <1>2, <1>3, <2>1
    <2>3. \A other \in batch' : row'[other].status # "none"
      BY <1>2, <1>7, <2>1 DEF CompensatorFits, BillingTypes
    <2> HIDE DEF k
    <2>4. QED
      BY <1>6, <2>2, <2>3 DEF CompensatorFits, Busy
  <1>10. ProcFits(q)'
    BY <1>5, <1>7, <1>8, WaitingFits
  <1>11. batch' \subseteq RefundKeys
    BY <1>2, <1>7 DEF BillingTypes
  <1>12. QED
    BY <1>5, <1>6, <1>7, <1>8, <1>9, <1>10, <1>11, RowStepKeeps

\* A step that only moves the compensator between rows keeps the invariant.
LEMMA CompensatorMoveKeeps ==
  ASSUME BillingInv, UNCHANGED <<user, token, ledger, row, session, keyNet>>,
         \A p \in Requests : proc'[p] = proc[p], proc' \in [Actors -> ProcType],
         batch' \subseteq RefundKeys, refundFaults' \in 0..MaxRefundFaults, CompensatorFits'
  PROVE  BillingInv'
  <1>1. BillingTypes'
    BY DEF BillingInv, BillingTypes
  <1>2. SumsHold'
    BY DEF BillingInv, SumsHold, WalletSumHolds, KeySumsHold, WalletNet
  <1>3. \A k \in RefundKeys : RowFits(k)'
    BY DEF BillingInv, RowFits
  <1>4. \A q \in Requests : Untouched(q)
    BY DEF Untouched
  <1>5. \A q \in Requests : Fits(q)' /\ ProcFits(q)'
    BY <1>4, UntouchedFits DEF BillingInv
  <1>6. QED
    BY <1>1, <1>2, <1>3, <1>5 DEF BillingInv

\* Every step of the compensator keeps the invariant.
LEMMA WorkerKeeps ==
  ASSUME BillingInv, WorkerStep \/ WorkerRestart
  PROVE  BillingInv'
  <1>1. /\ BillingTypes /\ CompensatorFits /\ Compensator \in Actors
        /\ Compensator \notin Requests /\ MaxRefundFaults \in Nat
        /\ refundFaults \in 0..MaxRefundFaults
    BY RefundAssumption DEF BillingInv, BillingTypes, Actors
  <1>2. ASSUME ScanPending, KeyNetFollowsCredits(Compensator), UNCHANGED session
        PROVE  BillingInv'
    <2>1. /\ batch' = OpenRows
          /\ UNCHANGED <<user, token, ledger, row, proc, refundFaults, session, keyNet>>
      BY <1>2 DEF ScanPending, KeyNetFollowsCredits
    <2>2. batch' \subseteq RefundKeys /\ \A k \in batch' : row'[k].status # "none"
      BY <2>1 DEF OpenRows, Open
    <2>3. CompensatorFits'
      BY <1>1, <2>1, <2>2 DEF CompensatorFits
    <2>4. QED
      BY <1>1, <2>1, <2>2, <2>3, CompensatorMoveKeeps DEF BillingTypes
  <1>3. ASSUME NextRefund, KeyNetFollowsCredits(Compensator), UNCHANGED session
        PROVE  BillingInv'
    <2>1. UNCHANGED <<user, token, ledger, row, refundFaults, session, keyNet>>
      BY <1>3 DEF NextRefund, KeyNetFollowsCredits
    <2>2. CASE Return(Compensator, "idle") /\ batch' = batch
      <3>1. /\ proc' = [proc EXCEPT ![Compensator] = proc'[Compensator]]
            /\ proc' \in [Actors -> ProcType] /\ proc'[Compensator].at = "idle"
        BY <1>1, <2>2, ReturnIs
      <3>2. CompensatorFits'
        BY <1>1, <2>1, <2>2, <3>1 DEF CompensatorFits, Busy
      <3>3. \A p \in Requests : proc'[p] = proc[p]
        BY <1>1, <3>1 DEF BillingTypes, Actors
      <3>4. batch' \subseteq RefundKeys
        BY <1>1, <2>2 DEF BillingTypes
      <3>5. QED
        BY <1>1, <2>1, <3>1, <3>2, <3>3, <3>4, CompensatorMoveKeeps
    <2>3. ASSUME NEW k \in batch,
                 proc' = [proc EXCEPT ![Compensator] = [at |-> "tx", key |-> k, amount |-> 0]],
                 batch' = batch \ {k}
          PROVE  BillingInv'
      <3>1. k \in RefundKeys /\ row[k].status # "none"
        BY <1>1 DEF BillingTypes, CompensatorFits
      <3> DEFINE p == [at |-> "tx", key |-> k, amount |-> 0]
      <3>2. p \in ProcType /\ p.at = "tx" /\ p.key = k
        BY <3>1, MaxQuotaAssumption DEF ProcType
      <3>3. proc' = [proc EXCEPT ![Compensator] = p]
        BY <2>3
      <3> HIDE DEF p
      <3>4. proc' \in [Actors -> ProcType] /\ proc'[Compensator] = p
        BY <1>1, <3>2, <3>3 DEF BillingTypes
      <3>5. \A q \in Requests : proc'[q] = proc[q]
        BY <1>1, <3>3 DEF BillingTypes, Actors
      <3>6. CompensatorFits'
        BY <1>1, <2>1, <2>3, <3>1, <3>2, <3>4 DEF CompensatorFits
      <3>7. batch' \subseteq RefundKeys
        BY <1>1, <2>3 DEF BillingTypes
      <3>8. QED
        BY <1>1, <2>1, <3>4, <3>5, <3>6, <3>7, CompensatorMoveKeeps
    <2>4. QED
      BY <1>3, <2>2, <2>3 DEF NextRefund
  <1>4. ASSUME WorkerCrash, UNCHANGED <<session, keyNet>>
        PROVE  BillingInv'
    <2>1. /\ UNCHANGED <<user, token, ledger, row, session, keyNet>> /\ batch' = {}
          /\ Return(Compensator, "idle") /\ RefundFault
      BY <1>4 DEF WorkerCrash
    <2>2. /\ proc' = [proc EXCEPT ![Compensator] = proc'[Compensator]]
          /\ proc' \in [Actors -> ProcType] /\ proc'[Compensator].at = "idle"
      BY <1>1, <2>1, ReturnIs
    <2>3. CompensatorFits'
      BY <2>1, <2>2 DEF CompensatorFits, Busy
    <2>4. \A p \in Requests : proc'[p] = proc[p]
      BY <1>1, <2>2 DEF BillingTypes, Actors
    <2>5. refundFaults' \in 0..MaxRefundFaults /\ batch' \subseteq RefundKeys
      BY <1>1, <2>1 DEF RefundFault
    <2>6. QED
      BY <2>1, <2>2, <2>3, <2>4, <2>5, CompensatorMoveKeeps
  <1>5. QED
    BY <1>2, <1>3, <1>4, WorkerProcessKeeps
       DEF WorkerStep, WorkerRestart, ProcessPendingBillingRefunds
-------------------------------------------------------------------------------
(***************************************************************************)
(* The invariant holds from the start.                                     *)
(***************************************************************************)

\* Nothing has been taken or promised at the start.
LEMMA BillingStarts ==
  ASSUME SessionsInit
  PROVE  BillingInv
  <1>1. /\ user = [quota |-> InitialQuota, used |-> 0, status |-> "enabled",
                   debtSuspended |-> FALSE, deleted |-> FALSE]
        /\ token = [remain |-> InitialTokenQuota, used |-> 0, status |-> "enabled"]
        /\ ledger = [k \in Requests \X (WalletKeys \cup DebitKeys) |-> 0]
        /\ row = [k \in RefundKeys |-> NoRow]
        /\ proc = [a \in Actors |-> At("idle")]
        /\ batch = {} /\ refundFaults = 0
        /\ session = [r \in Requests |-> NewSession]
        /\ keyNet = [r \in Requests |-> 0]
    BY DEF SessionsInit, RefundInit
  <1>2. /\ MaxQuota \in Nat /\ InitialQuota \in 0..MaxQuota /\ InitialTokenQuota \in 0..MaxQuota
        /\ MaxRefundAttempts \in Nat /\ MaxRefundFaults \in Nat /\ MaxReserves \in {0, 1}
        /\ IsFiniteSet(Requests) /\ Compensator \in Actors
    BY MaxQuotaAssumption, RefundAssumption, SessionAssumption DEF Actors
  <1>3. /\ \A k \in RefundKeys : row[k].status = "none"
        /\ \A r \in Requests : \A kind \in TokenKeys \cup WalletKeys :
             row[<<r, kind>>].status = "none"
    BY <1>1 DEF NoRow, RefundKeys
  <1>4. \A r \in Requests : \A kind \in WalletKeys \cup DebitKeys : ledger[<<r, kind>>] = 0
    BY <1>1
  <1>5. \A a \in Actors : proc[a].at = "idle"
    BY <1>1 DEF At
  <1>6. \A r \in Requests : s(r) = NewSession /\ keyNet[r] = 0
    BY <1>1 DEF s
  <1>7. BillingTypes
    <2>1. user \in UserType
      BY <1>1, <1>2 DEF UserType
    <2>2. token \in [remain : Nat, used : Nat, status : {"enabled", "exhausted"}]
      BY <1>1, <1>2
    <2>3. 0 \in -MaxQuota..MaxQuota /\ 0 \in 0..MaxQuota /\ 0 \in 0..MaxRefundAttempts
          /\ 0 \in 0..MaxRefundFaults /\ 0 \in 0..MaxReserves
      BY <1>2
    <2>4. ledger \in [Requests \X (WalletKeys \cup DebitKeys) -> -MaxQuota..MaxQuota]
      BY <1>1, <2>3
    <2>5. row \in [RefundKeys -> RowType]
      BY <1>1, <2>3 DEF NoRow, RowType
    <2>6. proc \in [Actors -> ProcType]
      BY <1>1, <2>3 DEF At, ProcType
    <2>7. "start" \in SessionPCs
      BY DEF SessionPCs
    <2>8. session \in [Requests -> SessionType]
      BY <1>1, <2>3, <2>7 DEF NewSession, SessionType
    <2>9. QED
      BY <1>1, <2>1, <2>2, <2>3, <2>4, <2>5, <2>6, <2>8 DEF BillingTypes
  <1>8. SumsHold
    <2> DEFINE f == [r \in Requests |-> WalletNet(r)]
               h == [r \in Requests |-> keyNet[r]]
    <2>1. ASSUME NEW r \in Requests
          PROVE  f[r] = 0 /\ h[r] = 0
      <3>1. \A kind \in WalletKeys \cup DebitKeys : ledger[<<r, kind>>] = 0
        BY <1>4
      <3> DEFINE total ==
                   ledger[<<r, "wallet-preconsume">>] + ledger[<<r, "wallet-settle-debit">>]
                   + ledger[<<r, "wallet-reserve-debit">>] + ledger[<<r, "wallet">>]
                   + ledger[<<r, "wallet-settle-refund">>] + ledger[<<r, "wallet-reserve">>]
      <3>2. WalletNet(r) = -total
        BY DEF WalletNet
      <3>3. total >= 0 /\ total <= 0 /\ total \in Int
        BY <3>1 DEF WalletKeys, DebitKeys
      <3> HIDE DEF total
      <3>4. -total = 0
        BY <3>3
      <3>5. QED
        BY <1>6, <3>2, <3>4
    <2>2. SumFunction(f) = SumFunctionOnSet(f, Requests)
          /\ SumFunction(h) = SumFunctionOnSet(h, Requests)
      BY DEF SumFunction
    <2>3. SumFunction(f) = 0 /\ SumFunction(h) = 0 => SumsHold
      BY <1>1, <1>2 DEF SumsHold, WalletSumHolds, KeySumsHold
    <2> HIDE DEF f, h
    <2>4. QED
      BY <1>2, <2>1, <2>2, <2>3, SumOfZeros
  <1>9. \A k \in RefundKeys : RowFits(k)
    <2>1. \A k \in RefundKeys : k[2] \in WalletKeys => ledger[k] = 0
      BY <1>1 DEF RefundKeys
    <2>2. QED
      BY <1>3, <2>1 DEF RowFits
  <1>10. ASSUME NEW r \in Requests
         PROVE  Fits(r) /\ ProcFits(r)
    <2>1. /\ s(r).pc = "start" /\ s(r).tokenConsumed = 0 /\ s(r).preConsumed = 0
          /\ s(r).consumed = 0 /\ ~s(r).fundingSettled /\ ~s(r).tokenRefunded
          /\ s(r).reserves = 0 /\ keyNet[r] = 0
      BY <1>6 DEF NewSession
    <2>2. RowsFit(r)
      BY <1>3 DEF RowsFit, NoneOf, TokenKeys, WalletKeys
    <2>3. KeyStages(r)
      BY <2>1 DEF KeyStages
    <2>4. KeyCovers(r) /\ KeyExact(r)
      BY <1>3, <2>1 DEF KeyCovers, KeyExact, TokenKeys
    <2>5. WalletStages(r)
      BY <1>4, <2>1 DEF WalletStages, Plain, DebitKeys, ReservePCs
    <2>6. SettleFits(r)
      BY <1>4, <2>1 DEF SettleFits, DebitKeys
    <2>7. WalletExact(r)
      BY <1>4, <2>1 DEF WalletExact, OpenedPCs, ReservePCs, RefundPCs, SettlePCs, DebitKeys
    <2>8. ProcFits(r)
      BY <1>5, <2>1 DEF ProcFits, Actors
    <2>9. QED
      BY <2>2, <2>3, <2>4, <2>5, <2>6, <2>7, <2>8 DEF Fits
  <1>11. CompensatorFits
    BY <1>1, <1>2, <1>5 DEF CompensatorFits, Busy
  <1>12. QED
    BY <1>7, <1>8, <1>9, <1>10, <1>11 DEF BillingInv

\* Every step, and a step that changes nothing, keeps it.
LEMMA BillingKept ==
  ASSUME BillingInv, [SessionsNext]_sessionVars
  PROVE  BillingInv'
  <1>1. ASSUME NEW r \in Requests, RequestRefund(r)
        PROVE  BillingInv'
    BY <1>1, RequestEnsureKeeps, RequestProcessKeeps DEF RequestRefund
  <1>2. CASE UNCHANGED sessionVars
    <2>1. UNCHANGED <<user, token, ledger, row, proc, batch, refundFaults, session, keyNet>>
      BY <1>2 DEF sessionVars, refundVars
    <2>2. CompensatorFits'
      BY <2>1 DEF BillingInv, CompensatorFits
    <2>3. QED
      BY <2>1, <2>2, CompensatorMoveKeeps DEF BillingInv, BillingTypes
  <1>3. QED
    BY <1>1, <1>2, SessionStepKeeps, WorkerKeeps DEF SessionsNext
-------------------------------------------------------------------------------
(***************************************************************************)
(* What the invariant implies.                                             *)
(***************************************************************************)

\* A request whose session was not extended pays what it reports, and what
\* the queue still owes it was taken for it.
LEMMA PlainIsAccounted ==
  ASSUME BillingInv, NEW r \in Requests, Plain(r)
  PROVE  OutcomeHolds(r) /\ NotOverRefunded(r)
  <1> DEFINE L(kind) == ledger[<<r, kind>>]
             R(kind) == row[<<r, kind>>]
  <1>1. BillingTypes /\ Fits(r)
    BY DEF BillingInv
  <1>2. /\ L("wallet-preconsume") \in Int /\ L("wallet-settle-debit") \in Int
        /\ L("wallet-reserve-debit") \in Int /\ L("wallet") \in Int
        /\ L("wallet-settle-refund") \in Int /\ L("wallet-reserve") \in Int
    BY <1>1, NetIsInt DEF WalletKeys, DebitKeys
  <1>3. /\ \A kind \in TokenKeys \cup WalletKeys : R(kind).amount \in Nat
        /\ keyNet[r] \in Nat
        /\ s(r).preConsumed \in Nat /\ s(r).actual \in Nat /\ s(r).consumed \in Nat
        /\ s(r).tokenConsumed \in Nat
    BY <1>1, MaxQuotaAssumption DEF BillingTypes, RowType, RefundKeys, SessionType, s
  <1>4. /\ \A kind \in TokenKeys \cup WalletKeys : R(kind).status # "none" => R(kind).amount > 0
        /\ \A kind \in WalletKeys :
             /\ L(kind) \in {0, R(kind).amount}
             /\ R(kind).status \in {"none", "pending"} => L(kind) = 0
    <2>1. \A kind \in TokenKeys \cup WalletKeys : RowFits(<<r, kind>>)
      BY DEF BillingInv, RefundKeys
    <2>2. QED
      BY <2>1 DEF RowFits
  <1>5. /\ L("wallet-reserve-debit") = 0 /\ s(r).consumed = s(r).preConsumed
        /\ L("wallet-preconsume") <= 0 /\ L("wallet-settle-debit") <= 0
    BY <1>1 DEF Fits, WalletExact, WalletStages, DebitKeys
  <1>6. R("wallet-reserve").status = "none" /\ L("wallet-reserve") = 0
    BY <1>1, <1>4 DEF Fits, RowsFit, NoneOf, WalletKeys
  <1>7. WalletNet(r) = -(L("wallet-preconsume") + L("wallet-settle-debit") + L("wallet")
                         + L("wallet-settle-refund"))
    BY <1>2, <1>5, <1>6 DEF WalletNet
  <1>8. s(r).fundingSettled => WalletNet(r) = s(r).actual
    <2>1. SUFFICES ASSUME s(r).fundingSettled PROVE WalletNet(r) = s(r).actual
      OBVIOUS
    <2>2. L("wallet-preconsume") = -s(r).preConsumed
      BY <1>1, <2>1 DEF Fits, WalletExact
    <2>3. L("wallet") = 0
      BY <1>1, <1>4, <2>1 DEF Fits, RowsFit, NoneOf, WalletKeys
    <2>4. L("wallet-settle-debit") + L("wallet-settle-refund") = -FundingDelta(r)
      BY <1>1, <1>2, <1>3, <2>1 DEF Fits, SettleFits, FundingDelta
    <2>5. QED
      BY <1>2, <1>3, <1>7, <2>2, <2>3, <2>4 DEF FundingDelta
  <1>9. s(r).pc = "refunded" => WalletNet(r) = 0 /\ keyNet[r] = 0
    <2>1. SUFFICES ASSUME s(r).pc = "refunded" PROVE WalletNet(r) = 0 /\ keyNet[r] = 0
      OBVIOUS
    <2>2. /\ L("wallet-preconsume") = -s(r).preConsumed
          /\ L("wallet") = s(r).preConsumed
      BY <1>1, <1>5, <2>1 DEF Fits, WalletExact, OpenedPCs, RefundPCs
    <2>3. L("wallet-settle-debit") = 0
      BY <1>1, <2>1 DEF Fits, SettleFits, SettlePCs
    <2>4. L("wallet-settle-refund") = 0
      BY <1>1, <1>4, <2>1 DEF Fits, RowsFit, NoneOf, SettlePCs, WalletKeys
    <2>5. keyNet[r] = 0
      BY <1>1, <2>1 DEF Fits, KeyExact
    <2>6. QED
      BY <1>2, <1>3, <1>7, <2>2, <2>3, <2>4, <2>5
  <1>10. WalletNet(r) >= Unpaid(<<r, "wallet">>) + Unpaid(<<r, "wallet-settle-refund">>)
                         + Unpaid(<<r, "wallet-reserve">>)
    <2>1. Unpaid(<<r, "wallet-reserve">>) = 0
      BY <1>6 DEF Unpaid
    <2>2. CASE R("wallet").status # "none"
      <3>1. /\ R("wallet").amount = s(r).preConsumed /\ R("wallet").amount > 0
            /\ R("wallet-settle-refund").status = "none" /\ L("wallet-settle-debit") = 0
        BY <1>1, <1>4, <1>5, <2>2 DEF Fits, RowsFit, NoneOf, WalletKeys
      <3>2. L("wallet-preconsume") = -s(r).preConsumed
        BY <1>1, <1>3, <3>1 DEF Fits, WalletExact
      <3>3. L("wallet-settle-refund") = 0
        BY <1>4, <3>1 DEF WalletKeys
      <3>4. L("wallet") + Unpaid(<<r, "wallet">>) <= R("wallet").amount
        BY <1>3, <1>4 DEF Unpaid, WalletKeys
      <3>5. Unpaid(<<r, "wallet-settle-refund">>) = 0 /\ Unpaid(<<r, "wallet">>) \in Nat
        BY <1>3, <3>1 DEF Unpaid, WalletKeys
      <3>6. QED
        BY <1>2, <1>3, <1>7, <2>1, <3>1, <3>2, <3>3, <3>4, <3>5
    <2>3. CASE R("wallet").status = "none" /\ R("wallet-settle-refund").status # "none"
      <3>1. /\ R("wallet-settle-refund").amount = s(r).preConsumed - s(r).actual
            /\ R("wallet-settle-refund").amount > 0
        BY <1>1, <1>3, <1>4, <2>3 DEF Fits, RowsFit, NoneOf, WalletKeys, FundingDelta
      <3>2. L("wallet-preconsume") = -s(r).preConsumed
        BY <1>1, <1>3, <3>1 DEF Fits, WalletExact
      <3>3. L("wallet") = 0
        BY <1>4, <2>3 DEF WalletKeys
      <3>4. L("wallet-settle-refund") + Unpaid(<<r, "wallet-settle-refund">>)
              <= R("wallet-settle-refund").amount
        BY <1>3, <1>4 DEF Unpaid, WalletKeys
      <3>5. Unpaid(<<r, "wallet">>) = 0 /\ Unpaid(<<r, "wallet-settle-refund">>) \in Nat
        BY <1>3, <2>3 DEF Unpaid, WalletKeys
      <3>6. QED
        BY <1>2, <1>3, <1>5, <1>7, <2>1, <3>1, <3>2, <3>3, <3>4, <3>5
    <2>4. CASE R("wallet").status = "none" /\ R("wallet-settle-refund").status = "none"
      <3>1. L("wallet") = 0 /\ L("wallet-settle-refund") = 0
        BY <1>4, <2>4 DEF WalletKeys
      <3>2. Unpaid(<<r, "wallet">>) = 0 /\ Unpaid(<<r, "wallet-settle-refund">>) = 0
        BY <2>4 DEF Unpaid
      <3>3. QED
        BY <1>2, <1>5, <1>7, <2>1, <3>1, <3>2
    <2>5. QED
      BY <2>2, <2>3, <2>4
  <1>11. keyNet[r] >= Unpaid(<<r, "token">>) + Unpaid(<<r, "token-preconsume">>)
    <2>1. \A kind \in TokenKeys : Unpaid(<<r, kind>>) \in Nat /\ Unpaid(<<r, kind>>) <= keyNet[r]
      BY <1>1, <1>3 DEF Fits, KeyCovers, Unpaid
    <2>2. R("token-preconsume").status = "none" \/ R("token").status = "none"
      BY <1>1 DEF Fits, RowsFit, NoneOf
    <2>3. Unpaid(<<r, "token-preconsume">>) = 0 \/ Unpaid(<<r, "token">>) = 0
      BY <2>2 DEF Unpaid
    <2>4. QED
      BY <1>3, <2>1, <2>3 DEF TokenKeys
  <1>12. QED
    BY <1>8, <1>9, <1>10, <1>11 DEF OutcomeHolds, NotOverRefunded

\* The invariant holds in every reachable state.
THEOREM BillingInvHolds == SessionsSpec => []BillingInv
  <1>1. SessionsInit => BillingInv
    BY BillingStarts
  <1>2. BillingInv /\ [SessionsNext]_sessionVars => BillingInv'
    BY BillingKept
  <1>3. QED
    BY <1>1, <1>2, PTL DEF SessionsSpec

\* The rows, the ledger, the sessions and the columns of the wallet and of the
\* API key keep their ranges, whatever fails and whoever repeats a call.
THEOREM SessionsStayTyped == SessionsSpec => []SessionTypeOK
  <1>1. BillingInv => SessionTypeOK
    BY TypesFollow DEF BillingInv
  <1>2. QED
    BY <1>1, BillingInvHolds, PTL

\* BillingSession.Settle, Refund and Reserve, with the refund queue under
\* them: the balance is the opening balance plus the ledger's rows, the API
\* key's columns account for every request, and a request that was not
\* extended pays what it reports and is never promised more than it paid.
THEOREM BalancesStayAccounted == SessionsSpec => []BalancesAreAccounted
  <1>1. BillingInv => BalancesAreAccounted
    BY PlainIsAccounted
       DEF BillingInv, SumsHold, WalletSumHolds, KeySumsHold, BalancesAreAccounted, Plain
  <1>2. QED
    BY <1>1, BillingInvHolds, PTL

\* What RefundRowsMoveForward says of a step.
RowsForward ==
  \A k \in RefundKeys :
    /\ row[k].status \in {"completed", "dead_letter"} => row'[k] = row[k]
    /\ row[k].status = "applied" => row'[k].status # "pending"
    /\ row[k].status # "none" => row'[k].amount = row[k].amount

\* Every write of the queue moves a row forward.
LEMMA QueueMovesForward ==
  ASSUME BillingTypes, NEW a \in Actors,
         EnsureBillingRefundPending(a) \/ ProcessBillingRefundPending(a)
  PROVE  RowsForward
  <1>1. row \in [RefundKeys -> RowType]
    BY DEF BillingTypes
  <1>2. \/ UNCHANGED row
        \/ row' = EnsuredRow(proc[a].key, proc[a].amount)
        \/ ToApply(proc[a].key) /\ Apply(proc[a].key)
        \/ row' = [row EXCEPT ![proc[a].key] = Failed(@)]
        \/ row' = CompletedRow(proc[a].key)
    BY DEF EnsureBillingRefundPending, ProcessBillingRefundPending, ProcessTx,
           syncBillingRefundCache, recordBillingRefundFailure, CompleteRefund
  <1>3. ASSUME NEW k \in RefundKeys
        PROVE  /\ row[k].status \in {"completed", "dead_letter"} => row'[k] = row[k]
               /\ row[k].status = "applied" => row'[k].status # "pending"
               /\ row[k].status # "none" => row'[k].amount = row[k].amount
    <2>1. row[k] = [status |-> row[k].status, amount |-> row[k].amount,
                    attempts |-> row[k].attempts]
      BY <1>1 DEF RowType
    <2>2. CASE UNCHANGED row
      BY <2>2
    <2>3. CASE row' = EnsuredRow(proc[a].key, proc[a].amount)
      BY <1>1, <2>3 DEF EnsuredRow
    <2>4. CASE ToApply(proc[a].key) /\ Apply(proc[a].key)
      BY <1>1, <2>1, <2>4 DEF ToApply, Apply
    <2>5. CASE row' = [row EXCEPT ![proc[a].key] = Failed(@)]
      <3>1. row'[k] = row[k] \/ row'[k] = Failed(row[k])
        BY <1>1, <2>5
      <3>2. row'[k] = row[k] \/ (row[k].status \in Open /\ row'[k].amount = row[k].amount
                                 /\ row'[k].status \in {row[k].status, "dead_letter"})
        BY <2>1, <3>1 DEF Failed
      <3>3. QED
        BY <3>2 DEF Open
    <2>6. CASE row' = CompletedRow(proc[a].key)
      BY <1>1, <2>1, <2>6 DEF CompletedRow
    <2>7. QED
      BY <1>2, <2>2, <2>3, <2>4, <2>5, <2>6
  <1>4. QED
    BY <1>3 DEF RowsForward

\* recordBillingRefundFailure, the transaction and the completion of
\* ProcessBillingRefundPending, by the request and by the compensator on the
\* same row: a closed row stays closed, a credited row never becomes payable
\* again, and no row ever asks for another amount.
THEOREM RefundRowsStayForward == SessionsSpec => RefundRowsMoveForward
  <1>1. BillingInv /\ [SessionsNext]_sessionVars => [RowsForward]_sessionVars
    <2>1. SUFFICES ASSUME BillingInv, SessionsNext
                   PROVE  RowsForward
      OBVIOUS
    <2>2. UNCHANGED row => RowsForward
      BY DEF RowsForward
    <2>3. ASSUME NEW r \in Requests, SessionStep(r)
          PROVE  UNCHANGED row
      BY <2>3
         DEF SessionStep, NewBillingSession, PreConsumeTokenQuota, PreConsumeFunding,
             RollbackPreConsume, Reserve, ReserveFunding, ReserveToken, RollbackReserve,
             SettleSession, SettleFunding, SettleRefunded, SettleToken, SettleExhaust,
             SettleAgain, RefundSession, RefundToken, TokenRefunded, RefundFunding,
             FundingRefunded, SessionCrash, refundVars
    <2>4. ASSUME NEW r \in Requests, RequestRefund(r)
          PROVE  RowsForward
      BY <2>1, <2>4, QueueMovesForward DEF RequestRefund, BillingInv, Actors
    <2>5. ASSUME WorkerStep
          PROVE  RowsForward
      BY <2>1, <2>2, <2>5, QueueMovesForward
         DEF WorkerStep, ProcessPendingBillingRefunds, ScanPending, NextRefund, BillingInv,
             Actors
    <2>6. ASSUME WorkerRestart
          PROVE  UNCHANGED row
      BY <2>6 DEF WorkerRestart, WorkerCrash
    <2>7. QED
      BY <2>1, <2>2, <2>3, <2>4, <2>5, <2>6 DEF SessionsNext
  <1>2. [RowsForward]_sessionVars =>
        [\A k \in RefundKeys :
           /\ row[k].status \in {"completed", "dead_letter"} => row'[k] = row[k]
           /\ row[k].status = "applied" => row'[k].status # "pending"
           /\ row[k].status # "none" => row'[k].amount = row[k].amount]_sessionVars
    BY DEF RowsForward
  <1>3. QED
    BY <1>1, <1>2, BillingInvHolds, PTL DEF SessionsSpec, RefundRowsMoveForward

(***************************************************************************)
(* The quota of subscriptions.  The inductive invariant.                   *)
(***************************************************************************)
TakenPCs == {"open", "settle", "refund", "refundDelta", "refundPost", "refundMark"}
OpenTxPCs == {"preconsume", "settle", "refundPost"}
ReturningPCs == {"refund", "refundDelta", "refundPost"}

\* A row that is not above its total, and the rows of a user.
SoundRow(held, i) == held \in QuotaRowType /\ (Total[i] > 0 => held.used <= Total[i])
SoundRows == {rows \in [Subs -> QuotaRowType] : \A i \in Subs : SoundRow(rows[i], i)}

\* A request has a subscription exactly when it was admitted to one, and a try
\* of its refund is left until it ends.
RequestShape(q) ==
  /\ q.pc \in {"start", "preconsume", "rejected"} => q.sub = 0
  /\ q.pc \in TakenPCs \cup {"settled", "settleFailed", "refunded", "refundFailed"} =>
       q.sub \in Subs /\ q.taken = Estimate
  /\ q.pc \in {"start", "preconsume"} \cup TakenPCs => q.tries < MaxTries

\* A record names what was taken, and from where.
RecordShape(rec) == rec.status # "none" => rec.sub \in Subs /\ rec.amount = Estimate

\* What an open transaction has read.
SoundSnap(seen) ==
  seen \in SnapType /\ seen.rows \in SoundRows /\ RecordShape(seen.record)

\* Types, for any ids.
QuotaTypes ==
  /\ sub \in SoundRows /\ begun \in [Subs -> Nat] /\ resets \in 0 .. MaxResets
  /\ record \in [RequestIds -> RecordType] /\ \A id \in RequestIds : RecordShape(record[id])
  /\ req \in [QuotaRequests -> RequestType] /\ \A r \in QuotaRequests : RequestShape(req[r])
  /\ \A r \in QuotaRequests : req[r].pc \in TakenPCs => MyRecord(r).status # "none"
  /\ snap \in [QuotaRequests -> SnapType \cup {NoSnap}]
  /\ \A r \in QuotaRequests : req[r].pc \in OpenTxPCs => SoundSnap(snap[r])
  /\ \A r \in QuotaRequests : req[r].pc = "preconsume" /\ snap[r].record.status # "none" =>
       MyRecord(r).status # "none"
  /\ \/ resetting = NoSnap
     \/ /\ resetting \in [sub : Subs, row : QuotaRowType, begun : Nat]
        /\ SoundRow(resetting.row, resetting.sub)
  /\ charged \in [QuotaRequests -> Int] /\ overwritten \in BOOLEAN
  /\ quotaFaults \in 0 .. MaxQuotaFaults

\* No transaction resets a row before a period has begun.
NoneIsDue ==
  resets = 0 =>
    /\ \A i \in Subs : begun[i] = 0
    /\ \A r \in QuotaRequests, i \in Subs : req[r].pc = "preconsume" => snap[r].begun[i] = 0
    /\ resetting = NoSnap

\* A request that has no subscription yet has no record, and the record of one
\* that may still change its charge is that of its subscription.
OwnRecord(r) ==
  /\ req[r].pc \in {"start", "preconsume"} => MyRecord(r).status = "none"
  /\ req[r].pc \in TakenPCs => MyRecord(r).sub = req[r].sub
  /\ req[r].pc \in TakenPCs \ {"refund"} => MyRecord(r).status = "consumed"

\* What a request has been charged, by how far it is.
ChargeIs(r) ==
  /\ req[r].pc \in {"start", "preconsume"} => charged[r] = 0
  /\ req[r].pc \in {"open", "settle"} => charged[r] = Estimate
  /\ req[r].pc = "settled" => charged[r] = req[r].actual
  /\ req[r].pc \in ReturningPCs => charged[r] <= Estimate
  /\ req[r].pc \in {"refundMark", "refunded"} => charged[r] <= 0
  /\ req[r].pc = "refund" /\ MyRecord(r).status = "refunded" => charged[r] <= 0
  /\ quotaFaults = 0 => /\ charged[r] >= 0
                        /\ req[r].pc \in ReturningPCs \cup {"settleFailed"} =>
                             charged[r] = Estimate
                        /\ req[r].pc = "rejected" => charged[r] = 0

UsedOf == [i \in Subs |-> sub[i].used]

\* What the requests of a subscription were charged: it shows at least that.
Owed(i) == [r \in QuotaRequests |-> IF req[r].sub = i THEN charged[r] ELSE 0]

UsedFits ==
  /\ SumFunctionOnSet(UsedOf, Subs) = SumFunctionOnSet(charged, QuotaRequests)
  /\ \A i \in Subs : SumFunctionOnSet(Owed(i), QuotaRequests) <= sub[i].used

\* As long as nothing has been lost or returned twice.
Accountable == resets = 0 /\ overwritten = FALSE /\ RefundIdempotent

QuotaInv ==
  /\ QuotaTypes
  /\ NoneIsDue
  /\ DistinctIds => /\ \A r \in QuotaRequests : OwnRecord(r) /\ ChargeIs(r)
                    /\ Accountable => UsedFits

\* A row that a reset empties is sound.
LEMMA EmptiedIsSound ==
  ASSUME SubscriptionAssumption, NEW held \in QuotaRowType, NEW latest \in Nat, NEW i \in Subs
  PROVE  SoundRow([held EXCEPT !.used = 0, !.period = latest], i)
  <1>1. PICK emptied : emptied = [held EXCEPT !.used = 0, !.period = latest]
    OBVIOUS
  <1>2. emptied \in QuotaRowType /\ emptied.used = 0
    BY <1>1 DEF QuotaRowType
  <1>3. Total[i] \in Nat
    BY DEF SubscriptionAssumption
  <1>4. SoundRow(emptied, i)
    BY <1>2, <1>3 DEF SoundRow
  <1>5. QED
    BY <1>1, <1>4

\* The initial state satisfies it.
LEMMA QuotaStarts ==
  ASSUME SubscriptionAssumption, QuotaInit
  PROVE  QuotaInv
  <1>1. sub \in SoundRows
    BY DEF QuotaInit, SubscriptionAssumption, SoundRows, SoundRow, QuotaRowType, NewSubscription
  <1>2. /\ NoRecord \in RecordType /\ RecordShape(NoRecord)
        /\ NewRequest \in RequestType /\ RequestShape(NewRequest)
    BY DEF NoRecord, RecordType, RecordShape, NewRequest, RequestType, RequestShape, QuotaPCs,
           TakenPCs, SubscriptionAssumption
  <1>3. QuotaTypes
    <2>1. /\ record \in [RequestIds -> RecordType]
          /\ \A id \in RequestIds : RecordShape(record[id])
      BY <1>2 DEF QuotaInit
    <2>2. /\ req \in [QuotaRequests -> RequestType]
          /\ \A r \in QuotaRequests : RequestShape(req[r]) /\ req[r].pc = "start"
      BY <1>2 DEF QuotaInit, NewRequest
    <2>3. snap \in [QuotaRequests -> SnapType \cup {NoSnap}]
      BY DEF QuotaInit
    <2>4. overwritten \in BOOLEAN
      BY DEF QuotaInit
    <2>5. /\ begun \in [Subs -> Nat] /\ resets \in 0 .. MaxResets /\ resetting = NoSnap
          /\ charged \in [QuotaRequests -> Int] /\ quotaFaults \in 0 .. MaxQuotaFaults
      BY DEF QuotaInit, SubscriptionAssumption
    <2>6. QED
      BY <1>1, <2>1, <2>2, <2>3, <2>4, <2>5 DEF QuotaTypes, TakenPCs, OpenTxPCs
  <1>4. ASSUME NEW r \in QuotaRequests
        PROVE  OwnRecord(r) /\ ChargeIs(r) /\ req[r].pc = "start"
    <2>1. MyRecord(r) = NoRecord /\ req[r] = NewRequest /\ charged[r] = 0
      BY DEF QuotaInit, MyRecord, RequestIds
    <2>2. QED
      BY <2>1 DEF OwnRecord, ChargeIs, NoRecord, NewRequest, TakenPCs, ReturningPCs
  <1>5. UsedFits
    <2>1. IsFiniteSet(Subs) /\ IsFiniteSet(QuotaRequests)
      BY DEF SubscriptionAssumption
    <2>2. ASSUME NEW i \in Subs
          PROVE  SumFunctionOnSet(Owed(i), QuotaRequests) = 0
      <3>1. \A r \in QuotaRequests : Owed(i)[r] = 0
        BY DEF QuotaInit, Owed
      <3>2. QED
        BY <2>1, <3>1, SumOfZeros
    <2>3. \A i \in Subs : UsedOf[i] = 0 /\ sub[i].used = 0
      BY DEF QuotaInit, UsedOf, NewSubscription
    <2>4. \A r \in QuotaRequests : charged[r] = 0
      BY DEF QuotaInit
    <2>5. /\ SumFunctionOnSet(UsedOf, Subs) = 0
          /\ SumFunctionOnSet(charged, QuotaRequests) = 0
      BY <2>1, <2>3, <2>4, SumOfZeros
    <2>6. QED
      BY <2>2, <2>3, <2>5 DEF UsedFits
  <1>6. NoneIsDue
    BY <1>4 DEF NoneIsDue, QuotaInit
  <1>7. QED
    BY <1>3, <1>4, <1>5, <1>6 DEF QuotaInv

\* The rows a transaction computes from are sound.
LEMMA SeenIsSound ==
  ASSUME SubscriptionAssumption, QuotaTypes, NEW r \in QuotaRequests, req[r].pc \in OpenTxPCs
  PROVE  Seen(r) \in SoundRows /\ snap[r].begun \in [Subs -> Nat]
  BY DEF QuotaTypes, Seen, SoundSnap, SnapType

\* What the sums are over.
LEMMA QuotaTermsTyped ==
  ASSUME SubscriptionAssumption, QuotaTypes
  PROVE  /\ IsFiniteSet(Subs) /\ IsFiniteSet(QuotaRequests) /\ Subs \subseteq Nat \ {0}
         /\ \A i \in Subs : UsedOf[i] = sub[i].used /\ sub[i].used \in Nat
         /\ \A r \in QuotaRequests : charged[r] \in Int
         /\ \A i \in Subs, r \in QuotaRequests :
              Owed(i)[r] \in Int /\ Owed(i)[r] = IF req[r].sub = i THEN charged[r] ELSE 0
  <1>1. IsFiniteSet(Subs) /\ IsFiniteSet(QuotaRequests)
    BY DEF SubscriptionAssumption
  <1>2. Subs \subseteq Nat \ {0}
    <2>1. PICK n : n = Cardinality(Subs)
      OBVIOUS
    <2>2. n \in Nat /\ Subs = 1 .. n
      BY <1>1, <2>1, FS_CardinalityType DEF SubscriptionAssumption
    <2>3. QED
      BY <2>2
  <1>3. \A i \in Subs : UsedOf[i] = sub[i].used /\ sub[i].used \in Nat
    BY DEF UsedOf, QuotaTypes, SoundRows, SoundRow, QuotaRowType
  <1>4. \A r \in QuotaRequests : charged[r] \in Int
    BY DEF QuotaTypes
  <1>5. QED
    BY <1>1, <1>2, <1>3, <1>4 DEF Owed

\* A step that changes neither a use, nor a charge, nor whom it belongs to.
LEMMA UsesUnchanged ==
  ASSUME UsedFits, \A i \in Subs : sub'[i].used = sub[i].used, UNCHANGED charged,
         \A o \in QuotaRequests : req'[o].sub = req[o].sub
  PROVE  UsedFits'
  <1>1. UsedOf' = UsedOf
    BY DEF UsedOf
  <1>2. \A i \in Subs : Owed(i)' = Owed(i)
    BY DEF Owed
  <1>3. QED
    BY <1>1, <1>2 DEF UsedFits

\* A request is charged what its subscription shows as used.
LEMMA UsesCharged ==
  ASSUME SubscriptionAssumption, QuotaTypes, UsedFits,
         sub' \in SoundRows, charged' \in [QuotaRequests -> Int],
         NEW r \in QuotaRequests, NEW i \in Subs, NEW d \in Int,
         sub'[i].used = sub[i].used + d, charged'[r] = charged[r] + d,
         \A j \in Subs \ {i} : sub'[j].used = sub[j].used,
         \A o \in QuotaRequests \ {r} : charged'[o] = charged[o] /\ req'[o].sub = req[o].sub,
         \/ req'[r].sub = i /\ (req[r].sub = i \/ (req[r].sub = 0 /\ charged[r] = 0))
         \/ req'[r].sub = 0 /\ req[r].sub = 0 /\ d >= 0
  PROVE  UsedFits'
  <1> DEFINE used == UsedOf
             after == [j \in Subs |-> sub'[j].used]
             paid == charged
             now == charged'
  <1>1. /\ IsFiniteSet(Subs) /\ IsFiniteSet(QuotaRequests) /\ i # 0
        /\ \A j \in Subs : /\ used[j] = sub[j].used /\ sub[j].used \in Nat
                           /\ after[j] = sub'[j].used /\ sub'[j].used \in Nat
        /\ \A o \in QuotaRequests : paid[o] \in Int /\ now[o] \in Int
    BY QuotaTermsTyped DEF QuotaTypes, SoundRows, SoundRow, QuotaRowType
  <1>2. /\ after[i] = used[i] + d /\ \A j \in Subs \ {i} : after[j] = used[j]
        /\ now[r] = paid[r] + d /\ \A o \in QuotaRequests \ {r} : now[o] = paid[o]
    BY <1>1
  <1> HIDE DEF used, after, paid, now
  <1>3. /\ SumFunctionOnSet(used, Subs) \in Int
        /\ SumFunctionOnSet(after, Subs) = SumFunctionOnSet(used, Subs) + after[i] - used[i]
    <2>1. \A j \in Subs : used[j] \in Int /\ after[j] \in Int
      BY <1>1
    <2>2. QED
      BY <1>1, <1>2, <2>1, SumOfChanged
  <1>4. /\ SumFunctionOnSet(paid, QuotaRequests) \in Int
        /\ SumFunctionOnSet(now, QuotaRequests)
             = SumFunctionOnSet(paid, QuotaRequests) + now[r] - paid[r]
    BY <1>1, <1>2, SumOfChanged
  <1>5. SumFunctionOnSet(used, Subs) = SumFunctionOnSet(paid, QuotaRequests)
    BY DEF UsedFits, used, paid
  <1>6. SumFunctionOnSet(after, Subs) = SumFunctionOnSet(now, QuotaRequests)
    BY <1>1, <1>2, <1>3, <1>4, <1>5
  <1>7. ASSUME NEW j \in Subs
        PROVE  (SumFunctionOnSet(Owed(j), QuotaRequests) <= sub[j].used)'
    <2> DEFINE owed == Owed(j)
               owes == [o \in QuotaRequests |-> IF req'[o].sub = j THEN charged'[o] ELSE 0]
    <2>1. /\ \A o \in QuotaRequests : owed[o] \in Int /\ owes[o] \in Int
          /\ \A o \in QuotaRequests \ {r} : owes[o] = owed[o]
          /\ owed[r] = IF req[r].sub = j THEN charged[r] ELSE 0
          /\ owes[r] = IF req'[r].sub = j THEN charged'[r] ELSE 0
      BY <1>1 DEF Owed, paid, now
    <2>2. SumFunctionOnSet(owed, QuotaRequests) <= sub[j].used
      BY DEF UsedFits
    <2>3. j # 0 /\ charged[r] \in Int /\ sub[j].used \in Nat /\ sub'[j].used \in Nat
      BY <1>1, QuotaTermsTyped DEF paid
    <2> HIDE DEF owed, owes
    <2>4. /\ SumFunctionOnSet(owed, QuotaRequests) \in Int
          /\ SumFunctionOnSet(owes, QuotaRequests)
               = SumFunctionOnSet(owed, QuotaRequests) + owes[r] - owed[r]
      BY <1>1, <2>1, SumOfChanged
    <2>5. owes[r] - owed[r] <= sub'[j].used - sub[j].used
      <3>1. CASE j = i /\ req'[r].sub = i
        <4>1. owes[r] = charged[r] + d /\ owed[r] = charged[r]
          BY <1>1, <2>1, <3>1
        <4>2. QED
          BY <2>3, <3>1, <4>1
      <3>2. CASE j = i /\ req'[r].sub = 0
        BY <1>1, <2>1, <2>3, <3>2
      <3>3. CASE j # i
        BY <1>1, <2>1, <2>3, <3>3
      <3>4. QED
        BY <3>1, <3>2, <3>3
    <2>6. owes[r] \in Int /\ owed[r] \in Int
      BY <2>1
    <2>7. SumFunctionOnSet(owes, QuotaRequests) <= sub'[j].used
      BY <2>2, <2>3, <2>4, <2>5, <2>6
    <2>8. QED
      BY <2>7 DEF owes, Owed
  <1>8. QED
    BY <1>6, <1>7 DEF UsedFits, UsedOf, after, now

\* A request's turn.  Beside its own session, record, snapshot and charge it
\* changes only rows.
LEMMA QuotaTurn ==
  ASSUME SubscriptionAssumption, QuotaInv, NEW r \in QuotaRequests,
         NEW next \in RequestType, RequestShape(next), ReqSet(r, next),
         sub' \in SoundRows, UNCHANGED <<begun, resets, resetting>>,
         QuotaFault \/ NoQuotaFault, overwritten' \in BOOLEAN,
         charged' \in [QuotaRequests -> Int],
         \A o \in QuotaRequests \ {r} : charged'[o] = charged[o],
         \/ UNCHANGED record
         \/ \E rec \in RecordType : /\ RecordShape(rec) /\ rec.status # "none"
                                    /\ record' = [record EXCEPT ![RequestId(r)] = rec],
         next.pc \in TakenPCs => record'[RequestId(r)].status # "none",
         \/ next.pc = "preconsume" /\ Read(r) /\ UNCHANGED record
         \/ next.pc # "preconsume" /\ \E i \in Subs : ReadRow(r, i)
         \/ next.pc \notin OpenTxPCs /\ (Close(r) \/ UNCHANGED snap),
         DistinctIds => OwnRecord(r)' /\ ChargeIs(r)' /\ (Accountable' => UsedFits')
  PROVE  QuotaInv'
  <1>1. /\ req' \in [QuotaRequests -> RequestType] /\ req'[r] = next
        /\ \A o \in QuotaRequests \ {r} : req'[o] = req[o]
    BY DEF ReqSet, QuotaInv, QuotaTypes
  <1>2. \A o \in QuotaRequests : RequestId(o) \in RequestIds
    BY DEF RequestIds
  <1>3. /\ record' \in [RequestIds -> RecordType]
        /\ \A id \in RequestIds : /\ RecordShape(record'[id])
                                  /\ record[id].status # "none" => record'[id].status # "none"
                                  /\ id # RequestId(r) => record'[id] = record[id]
    BY <1>2 DEF QuotaInv, QuotaTypes
  <1>4. /\ snap' \in [QuotaRequests -> SnapType \cup {NoSnap}]
        /\ \A o \in QuotaRequests \ {r} : snap'[o] = snap[o]
        /\ next.pc \in OpenTxPCs => SoundSnap(snap'[r])
        /\ next.pc = "preconsume" => snap'[r].begun = begun /\ snap'[r].record = MyRecord(r)'
    <2>1. /\ sub \in SoundRows /\ sub \in [Subs -> QuotaRowType] /\ begun \in [Subs -> Nat]
          /\ MyRecord(r) \in RecordType /\ RecordShape(MyRecord(r))
          /\ snap \in [QuotaRequests -> SnapType \cup {NoSnap}]
      BY <1>2 DEF QuotaInv, QuotaTypes, SoundRows, MyRecord
    <2>2. CASE next.pc = "preconsume" /\ Read(r) /\ UNCHANGED record
      <3>1. PICK seen : seen = [rows |-> sub, begun |-> begun, record |-> MyRecord(r)]
        OBVIOUS
      <3>2. SoundSnap(seen) /\ seen \in SnapType /\ seen.begun = begun /\ seen.record = MyRecord(r)
        BY <2>1, <3>1 DEF SoundSnap, SnapType
      <3>3. snap' = [snap EXCEPT ![r] = seen]
        BY <2>2, <3>1 DEF Read
      <3>4. MyRecord(r)' = MyRecord(r)
        BY <2>2 DEF MyRecord
      <3>5. QED
        BY <2>1, <3>2, <3>3, <3>4
    <2>3. CASE next.pc # "preconsume" /\ \E i \in Subs : ReadRow(r, i)
      <3>1. PICK i \in Subs : ReadRow(r, i)
        BY <2>3
      <3>2. PICK rows : rows = [j \in Subs |-> IF j = i THEN sub[i] ELSE NewSubscription]
        OBVIOUS
      <3>3. rows \in SoundRows /\ rows \in [Subs -> QuotaRowType]
        <4>1. \A j \in Subs : SoundRow(NewSubscription, j)
          BY DEF SoundRow, NewSubscription, QuotaRowType, SubscriptionAssumption
        <4>2. SoundRow(sub[i], i)
          BY <2>1 DEF SoundRows
        <4>3. QED
          BY <3>2, <4>1, <4>2 DEF SoundRows, SoundRow
      <3>4. PICK seen : seen = [rows |-> rows, begun |-> [j \in Subs |-> 0], record |-> NoRecord]
        OBVIOUS
      <3>5. SoundSnap(seen) /\ seen \in SnapType
        BY <3>3, <3>4 DEF SoundSnap, SnapType, NoRecord, RecordType, RecordShape
      <3>6. snap' = [snap EXCEPT ![r] = seen]
        BY <3>1, <3>2, <3>4 DEF ReadRow
      <3>7. QED
        BY <2>1, <2>3, <3>5, <3>6
    <2>4. CASE next.pc \notin OpenTxPCs /\ (Close(r) \/ UNCHANGED snap)
      BY <2>1, <2>4 DEF Close, OpenTxPCs
    <2>5. QED
      BY <2>2, <2>3, <2>4
  <1>5. /\ quotaFaults' \in 0 .. MaxQuotaFaults
        /\ quotaFaults' = 0 => quotaFaults = 0
    BY DEF QuotaInv, QuotaTypes, QuotaFault, NoQuotaFault, SubscriptionAssumption
  <1>6. \A o \in QuotaRequests :
          /\ req'[o].pc \in TakenPCs => record'[RequestId(o)].status # "none"
          /\ req'[o].pc = "preconsume" /\ snap'[o].record.status # "none" =>
               record'[RequestId(o)].status # "none"
    BY <1>1, <1>2, <1>3, <1>4 DEF QuotaInv, QuotaTypes, MyRecord
  <1>7. QuotaTypes'
    <2>1. \A o \in QuotaRequests : RequestShape(req'[o])
      BY <1>1 DEF QuotaInv, QuotaTypes
    <2>2. \A o \in QuotaRequests : req'[o].pc \in OpenTxPCs => SoundSnap(snap'[o])
      BY <1>1, <1>4 DEF QuotaInv, QuotaTypes
    <2>3. /\ begun' \in [Subs -> Nat] /\ resets' \in 0 .. MaxResets
          /\ \/ resetting' = NoSnap
             \/ /\ resetting' \in [sub : Subs, row : QuotaRowType, begun : Nat]
                /\ SoundRow(resetting'.row, resetting'.sub)
      BY DEF QuotaInv, QuotaTypes
    <2>4. QED
      BY <1>1, <1>3, <1>4, <1>5, <1>6, <2>1, <2>2, <2>3 DEF QuotaTypes, MyRecord
  <1>8. NoneIsDue'
    BY <1>1, <1>4 DEF QuotaInv, NoneIsDue
  <1>9. ASSUME DistinctIds, NEW o \in QuotaRequests \ {r}
        PROVE  OwnRecord(o)' /\ ChargeIs(o)'
    <2>1. RequestId(o) # RequestId(r)
      BY <1>9 DEF DistinctIds
    <2>2. MyRecord(o)' = MyRecord(o) /\ req'[o] = req[o] /\ charged'[o] = charged[o]
      BY <1>1, <1>2, <1>3, <2>1 DEF MyRecord
    <2>3. OwnRecord(o) /\ ChargeIs(o)
      BY <1>9 DEF QuotaInv
    <2>4. QED
      BY <1>5, <2>2, <2>3 DEF OwnRecord, ChargeIs
  <1>10. DistinctIds' <=> DistinctIds
    BY DEF DistinctIds
  <1>11. QED
    BY <1>7, <1>8, <1>9, <1>10 DEF QuotaInv

\* What a request's session holds.
LEMMA SessionOf ==
  ASSUME QuotaInv, NEW r \in QuotaRequests
  PROVE  /\ req[r] \in RequestType /\ RequestShape(req[r]) /\ charged[r] \in Int
         /\ MyRecord(r) \in RecordType /\ RecordShape(MyRecord(r))
         /\ req[r].pc \in TakenPCs => MyRecord(r).status # "none"
         /\ quotaFaults \in Nat
         /\ DistinctIds => OwnRecord(r) /\ ChargeIs(r) /\ (Accountable => UsedFits)
  BY DEF QuotaInv, QuotaTypes, MyRecord, RequestIds

\* A fault is counted.
LEMMA FaultCounts ==
  ASSUME QuotaTypes, QuotaFault
  PROVE  quotaFaults' # 0
  BY DEF QuotaTypes, QuotaFault

\* A turn that changes no use, no charge and no record.
LEMMA QuietTurn ==
  ASSUME SubscriptionAssumption, QuotaInv, NEW r \in QuotaRequests,
         NEW next \in RequestType, RequestShape(next), ReqSet(r, next),
         UNCHANGED <<sub, begun, resets, record, resetting, charged, overwritten>>,
         QuotaFault \/ NoQuotaFault,
         next.pc \in TakenPCs => MyRecord(r).status # "none",
         \/ next.pc = "preconsume" /\ Read(r)
         \/ next.pc # "preconsume" /\ \E i \in Subs : ReadRow(r, i)
         \/ next.pc \notin OpenTxPCs /\ (Close(r) \/ UNCHANGED snap),
         DistinctIds => next.sub = req[r].sub /\ OwnRecord(r)' /\ ChargeIs(r)'
  PROVE  QuotaInv'
  <1>1. /\ sub' \in SoundRows /\ charged' \in [QuotaRequests -> Int]
        /\ overwritten' \in BOOLEAN
    BY DEF QuotaInv, QuotaTypes
  <1>2. next.pc \in TakenPCs => record'[RequestId(r)].status # "none"
    BY DEF MyRecord
  <1>3. ASSUME DistinctIds, Accountable'
        PROVE  UsedFits'
    <2>1. Accountable
      BY <1>3 DEF Accountable, RefundIdempotent
    <2>2. UsedFits
      BY <1>3, <2>1 DEF QuotaInv
    <2>3. \A o \in QuotaRequests : req'[o].sub = req[o].sub
      BY <1>3 DEF ReqSet, QuotaInv, QuotaTypes
    <2>4. QED
      BY <2>2, <2>3, UsesUnchanged
  <1>4. QED
    BY <1>1, <1>2, <1>3, QuotaTurn

\* A pre-consumption begins.
LEMMA BeginStep ==
  ASSUME SubscriptionAssumption, QuotaInv, NEW r \in QuotaRequests, BeginPreConsume(r)
  PROVE  QuotaInv'
  <1>1. /\ req[r] \in RequestType /\ RequestShape(req[r])
        /\ DistinctIds => OwnRecord(r) /\ ChargeIs(r)
    BY SessionOf
  <1>2. PICK next : next = [req[r] EXCEPT !.pc = "preconsume"]
    OBVIOUS
  <1>3. /\ ReqSet(r, next) /\ Read(r) /\ req[r].pc = "start" /\ NoQuotaFault
        /\ UNCHANGED <<sub, begun, resets, record, resetting, charged, overwritten>>
    BY <1>2 DEF BeginPreConsume, ReqTo, NoQuotaFault
  <1>4. /\ next \in RequestType /\ next.pc = "preconsume" /\ next.sub = req[r].sub
        /\ RequestShape(next)
    BY <1>1, <1>2, <1>3 DEF RequestType, RequestShape, QuotaPCs, TakenPCs
  <1>5. req'[r] = next
    BY <1>3 DEF ReqSet, QuotaInv, QuotaTypes
  <1>6. DistinctIds => OwnRecord(r)' /\ ChargeIs(r)'
    BY <1>1, <1>3, <1>4, <1>5
       DEF OwnRecord, MyRecord, ChargeIs, TakenPCs, ReturningPCs, NoQuotaFault
  <1>7. QED
    BY <1>3, <1>4, <1>6, QuietTurn DEF TakenPCs

\* A settlement begins, or finds nothing to do.
LEMMA SettleBegins ==
  ASSUME SubscriptionAssumption, QuotaInv, NEW r \in QuotaRequests, Settle(r)
  PROVE  QuotaInv'
  <1>1. /\ req[r] \in RequestType /\ RequestShape(req[r])
        /\ req[r].pc \in TakenPCs => MyRecord(r).status # "none"
        /\ DistinctIds => OwnRecord(r) /\ ChargeIs(r)
    BY SessionOf
  <1>2. PICK actual \in Nat, pc \in {"settled", "settle"} :
          /\ ReqSet(r, [req[r] EXCEPT !.actual = actual, !.pc = pc])
          /\ \/ pc = "settled" /\ actual = req[r].taken /\ UNCHANGED snap
             \/ pc = "settle" /\ ReadRow(r, req[r].sub)
    BY DEF Settle, SubscriptionAssumption
  <1>3. PICK next : next = [req[r] EXCEPT !.actual = actual, !.pc = pc]
    OBVIOUS
  <1>4. /\ ReqSet(r, next) /\ req[r].pc = "open" /\ NoQuotaFault
        /\ UNCHANGED <<sub, begun, resets, record, resetting, charged, overwritten>>
    BY <1>2, <1>3 DEF Settle, NoQuotaFault
  <1>5. /\ next \in RequestType /\ next.pc = pc /\ next.sub = req[r].sub
        /\ next.actual = actual /\ next.sub \in Subs
        /\ RequestShape(next) /\ req[r].pc \in TakenPCs /\ req[r].taken = Estimate
    BY <1>1, <1>2, <1>3, <1>4 DEF RequestType, RequestShape, QuotaPCs, TakenPCs
  <1>6. req'[r] = next
    BY <1>4 DEF ReqSet, QuotaInv, QuotaTypes
  <1>7. DistinctIds => OwnRecord(r)'
    BY <1>1, <1>2, <1>4, <1>5, <1>6 DEF OwnRecord, MyRecord, TakenPCs
  <1>8. DistinctIds => ChargeIs(r)'
    BY <1>1, <1>2, <1>4, <1>5, <1>6
       DEF ChargeIs, MyRecord, TakenPCs, ReturningPCs, NoQuotaFault
  <1>9. \/ next.pc # "preconsume" /\ \E i \in Subs : ReadRow(r, i)
        \/ next.pc \notin OpenTxPCs /\ UNCHANGED snap
    BY <1>2, <1>5 DEF OpenTxPCs
  <1>10. QED
    BY <1>1, <1>4, <1>5, <1>7, <1>8, <1>9, QuietTurn

\* A refund begins, or its transaction does.
LEMMA RefundBegins ==
  ASSUME SubscriptionAssumption, QuotaInv, NEW r \in QuotaRequests, Refund(r) \/ RefundDelta(r)
  PROVE  QuotaInv'
  <1>1. /\ req[r] \in RequestType /\ RequestShape(req[r])
        /\ RecordShape(MyRecord(r))
        /\ req[r].pc \in TakenPCs => MyRecord(r).status # "none"
        /\ DistinctIds => OwnRecord(r) /\ ChargeIs(r)
    BY SessionOf
  <1>2. PICK pc \in {"refund", "refundPost"} :
          /\ ReqSet(r, [req[r] EXCEPT !.pc = pc])
          /\ \/ pc = "refund" /\ req[r].pc = "open" /\ UNCHANGED snap
             \/ pc = "refundPost" /\ req[r].pc = "refundDelta" /\ ReadRow(r, MyRecord(r).sub)
    BY DEF Refund, RefundDelta, ReqTo
  <1>3. PICK next : next = [req[r] EXCEPT !.pc = pc]
    OBVIOUS
  <1>4. /\ ReqSet(r, next) /\ NoQuotaFault /\ req[r].pc \in TakenPCs
        /\ UNCHANGED <<sub, begun, resets, record, resetting, charged, overwritten>>
    BY <1>2, <1>3 DEF Refund, RefundDelta, NoQuotaFault, TakenPCs
  <1>5. /\ next \in RequestType /\ next.pc = pc /\ next.sub = req[r].sub
        /\ RequestShape(next) /\ MyRecord(r).sub \in Subs
    BY <1>1, <1>2, <1>3, <1>4 DEF RequestType, RequestShape, QuotaPCs, TakenPCs, RecordShape
  <1>6. req'[r] = next
    BY <1>4 DEF ReqSet, QuotaInv, QuotaTypes
  <1>7. DistinctIds => OwnRecord(r)'
    BY <1>1, <1>2, <1>4, <1>5, <1>6 DEF OwnRecord, MyRecord, TakenPCs
  <1>8. DistinctIds => ChargeIs(r)'
    <2>1. Estimate \in Nat \ {0}
      BY DEF SubscriptionAssumption
    <2>2. QED
      BY <1>1, <1>2, <1>4, <1>5, <1>6, <2>1
         DEF ChargeIs, OwnRecord, MyRecord, TakenPCs, ReturningPCs, NoQuotaFault
  <1>9. \/ next.pc # "preconsume" /\ \E i \in Subs : ReadRow(r, i)
        \/ next.pc \notin OpenTxPCs /\ UNCHANGED snap
    BY <1>2, <1>5 DEF OpenTxPCs
  <1>10. QED
    BY <1>1, <1>4, <1>5, <1>7, <1>8, <1>9, QuietTurn

\* What is left after a failed try of a refund.
LEMMA RefundFailureTyped ==
  ASSUME SubscriptionAssumption, NEW r \in QuotaRequests, req[r] \in RequestType,
         RequestShape(req[r]), req[r].pc \in TakenPCs
  PROVE  /\ RefundFailure(r) \in RequestType /\ RequestShape(RefundFailure(r))
         /\ RefundFailure(r).sub = req[r].sub
         /\ RefundFailure(r).pc \in {"refund", "refundFailed"}
  <1>1. /\ req[r].tries \in Nat /\ req[r].tries < MaxTries /\ MaxTries \in Nat
        /\ req[r].sub \in Subs /\ req[r].taken = Estimate
    BY DEF RequestType, RequestShape, TakenPCs, SubscriptionAssumption
  <1>2. PICK pc \in {"refund", "refundFailed"}, tries \in 0 .. MaxTries :
          /\ RefundFailure(r) = [req[r] EXCEPT !.tries = tries, !.pc = pc]
          /\ pc = "refund" => tries < MaxTries
    <2>1. CASE req[r].tries + 1 < MaxTries
      <3>1. RefundFailure(r) = [req[r] EXCEPT !.tries = req[r].tries + 1, !.pc = "refund"]
        BY <2>1 DEF RefundFailure, RequestType
      <3>2. req[r].tries + 1 \in 0 .. MaxTries /\ req[r].tries + 1 < MaxTries
        BY <1>1, <2>1
      <3>3. QED
        BY <3>1, <3>2
    <2>2. CASE ~(req[r].tries + 1 < MaxTries)
      <3>1. RefundFailure(r) = [req[r] EXCEPT !.tries = req[r].tries + 1, !.pc = "refundFailed"]
        BY <2>2 DEF RefundFailure, RequestType
      <3>2. req[r].tries + 1 \in 0 .. MaxTries
        BY <1>1
      <3>3. QED
        BY <3>1, <3>2
    <2>3. QED
      BY <2>1, <2>2
  <1>3. PICK next : next = [req[r] EXCEPT !.tries = tries, !.pc = pc]
    OBVIOUS
  <1>4. /\ next \in RequestType /\ next.pc = pc /\ next.tries = tries
        /\ next.sub = req[r].sub /\ next.taken = req[r].taken
    BY <1>2, <1>3 DEF RequestType, QuotaPCs
  <1>5. RequestShape(next)
    BY <1>1, <1>2, <1>4 DEF RequestShape, TakenPCs
  <1>6. QED
    BY <1>2, <1>3, <1>4, <1>5

\* A refund reads its record, or fails to.
LEMMA RefundReads ==
  ASSUME SubscriptionAssumption, QuotaInv, NEW r \in QuotaRequests, RefundRead(r)
  PROVE  QuotaInv'
  <1>1. /\ req[r] \in RequestType /\ RequestShape(req[r])
        /\ req[r].pc \in TakenPCs => MyRecord(r).status # "none"
        /\ DistinctIds => OwnRecord(r) /\ ChargeIs(r)
    BY SessionOf
  <1>2. /\ req[r].pc = "refund" /\ req[r].pc \in TakenPCs
        /\ UNCHANGED <<sub, begun, resets, record, snap, resetting, charged, overwritten>>
    BY DEF RefundRead, TakenPCs
  <1>3. PICK next :
          /\ ReqSet(r, next)
          /\ \/ /\ next = [req[r] EXCEPT !.pc = "refunded"] /\ MyRecord(r).status = "refunded"
                /\ NoQuotaFault
             \/ /\ next = [req[r] EXCEPT !.pc = "refundDelta"]
                /\ MyRecord(r).status = "consumed" /\ NoQuotaFault
             \/ next = RefundFailure(r) /\ QuotaFault
    BY DEF RefundRead, ReqTo
  <1>4. /\ next \in RequestType /\ RequestShape(next) /\ next.sub = req[r].sub
        /\ \/ next.pc = "refunded" /\ MyRecord(r).status = "refunded" /\ NoQuotaFault
           \/ next.pc = "refundDelta" /\ MyRecord(r).status = "consumed" /\ NoQuotaFault
           \/ next.pc \in {"refund", "refundFailed"} /\ QuotaFault
    <2>1. CASE next = RefundFailure(r) /\ QuotaFault
      BY <1>1, <1>2, <2>1, RefundFailureTyped
    <2>2. CASE /\ next = [req[r] EXCEPT !.pc = "refunded"] /\ MyRecord(r).status = "refunded"
               /\ NoQuotaFault
      BY <1>1, <1>2, <2>2 DEF RequestType, RequestShape, QuotaPCs, TakenPCs
    <2>3. CASE /\ next = [req[r] EXCEPT !.pc = "refundDelta"]
               /\ MyRecord(r).status = "consumed" /\ NoQuotaFault
      BY <1>1, <1>2, <2>3 DEF RequestType, RequestShape, QuotaPCs, TakenPCs
    <2>4. QED
      BY <1>3, <2>1, <2>2, <2>3
  <1>5. req'[r] = next /\ next.pc \notin OpenTxPCs
    BY <1>3, <1>4 DEF ReqSet, QuotaInv, QuotaTypes, OpenTxPCs
  <1>6. DistinctIds => OwnRecord(r)'
    BY <1>1, <1>2, <1>4, <1>5 DEF OwnRecord, MyRecord, TakenPCs
  <1>7. DistinctIds => ChargeIs(r)'
    <2>1. QuotaFault => quotaFaults' # 0
      BY FaultCounts DEF QuotaInv
    <2>2. QED
      BY <1>1, <1>2, <1>4, <1>5, <2>1 DEF ChargeIs, MyRecord, ReturningPCs, NoQuotaFault
  <1>8. QuotaFault \/ NoQuotaFault
    BY <1>4
  <1>9. QED
    BY <1>1, <1>2, <1>3, <1>4, <1>5, <1>6, <1>7, <1>8, QuietTurn

\* A process dies, and its request is charged what it was.
LEMMA QuotaCrashStep ==
  ASSUME SubscriptionAssumption, QuotaInv, NEW r \in QuotaRequests, QuotaCrash(r)
  PROVE  QuotaInv'
  <1>1. /\ req[r] \in RequestType /\ RequestShape(req[r])
        /\ DistinctIds => OwnRecord(r) /\ ChargeIs(r)
    BY SessionOf
  <1>2. PICK next : next = [req[r] EXCEPT !.pc = "lost"]
    OBVIOUS
  <1>3. /\ ReqSet(r, next) /\ Close(r) /\ QuotaFault
        /\ UNCHANGED <<sub, begun, resets, record, resetting, charged, overwritten>>
    BY <1>2 DEF QuotaCrash, ReqTo
  <1>4. /\ next \in RequestType /\ next.pc = "lost" /\ next.sub = req[r].sub
        /\ RequestShape(next) /\ next.pc \notin TakenPCs \cup OpenTxPCs
    BY <1>1, <1>2 DEF RequestType, RequestShape, QuotaPCs, TakenPCs, OpenTxPCs
  <1>5. req'[r] = next
    BY <1>3 DEF ReqSet, QuotaInv, QuotaTypes
  <1>6. OwnRecord(r)'
    BY <1>4, <1>5 DEF OwnRecord, TakenPCs
  <1>7. ChargeIs(r)'
    <2>1. quotaFaults' # 0
      BY <1>3, FaultCounts DEF QuotaInv
    <2>2. QED
      BY <1>4, <1>5, <2>1 DEF ChargeIs, ReturningPCs
  <1>8. QED
    BY <1>3, <1>4, <1>6, <1>7, QuietTurn

\* A refund marks its record, or fails to, or is told that it failed.
LEMMA RefundMarks ==
  ASSUME SubscriptionAssumption, QuotaInv, NEW r \in QuotaRequests, RefundMark(r)
  PROVE  QuotaInv'
  <1>1. /\ req[r] \in RequestType /\ RequestShape(req[r]) /\ charged[r] \in Int
        /\ MyRecord(r) \in RecordType /\ RecordShape(MyRecord(r))
        /\ req[r].pc \in TakenPCs => MyRecord(r).status # "none"
        /\ DistinctIds => OwnRecord(r) /\ ChargeIs(r) /\ (Accountable => UsedFits)
    BY SessionOf
  <1>2. /\ req[r].pc = "refundMark" /\ req[r].pc \in TakenPCs
        /\ UNCHANGED <<sub, begun, resets, snap, resetting, charged, overwritten>>
    BY DEF RefundMark, TakenPCs
  <1>3. PICK marked : marked = [MyRecord(r) EXCEPT !.status = "refunded"]
    OBVIOUS
  <1>4. /\ marked \in RecordType /\ marked.status = "refunded" /\ RecordShape(marked)
        /\ marked.sub = MyRecord(r).sub
    <2>1. /\ marked \in RecordType /\ marked.status = "refunded"
          /\ marked.sub = MyRecord(r).sub /\ marked.amount = MyRecord(r).amount
      BY <1>1, <1>3 DEF RecordType
    <2>2. QED
      BY <1>1, <1>2, <2>1 DEF RecordShape
  <1>5. PICK next :
          /\ ReqSet(r, next)
          /\ \/ /\ next = [req[r] EXCEPT !.pc = "refunded"] /\ NoQuotaFault
                /\ record' = [record EXCEPT ![RequestId(r)] = marked]
             \/ /\ next = RefundFailure(r) /\ QuotaFault
                /\ \/ record' = [record EXCEPT ![RequestId(r)] = marked]
                   \/ UNCHANGED record
    BY <1>3 DEF RefundMark, ReqTo, MyRecord
  <1>6. /\ next \in RequestType /\ RequestShape(next) /\ next.sub = req[r].sub
        /\ \/ next.pc = "refunded" /\ NoQuotaFault
           \/ next.pc \in {"refund", "refundFailed"} /\ QuotaFault
    <2>1. CASE next = RefundFailure(r) /\ QuotaFault
      BY <1>1, <1>2, <2>1, RefundFailureTyped
    <2>2. CASE next = [req[r] EXCEPT !.pc = "refunded"] /\ NoQuotaFault
      BY <1>1, <1>2, <2>2 DEF RequestType, RequestShape, QuotaPCs, TakenPCs
    <2>3. QED
      BY <1>5, <2>1, <2>2
  <1>7. req'[r] = next /\ next.pc \notin OpenTxPCs /\ (QuotaFault \/ NoQuotaFault)
    BY <1>5, <1>6 DEF ReqSet, QuotaInv, QuotaTypes, OpenTxPCs
  <1>8. MyRecord(r)' \in {marked, MyRecord(r)} /\ record'[RequestId(r)] = MyRecord(r)'
    BY <1>5 DEF MyRecord, RequestIds, QuotaInv, QuotaTypes
  <1>9. \/ UNCHANGED record
        \/ \E rec \in RecordType : /\ RecordShape(rec) /\ rec.status # "none"
                                   /\ record' = [record EXCEPT ![RequestId(r)] = rec]
    BY <1>4, <1>5
  <1>10. DistinctIds => OwnRecord(r)'
    BY <1>1, <1>2, <1>4, <1>6, <1>7, <1>8 DEF OwnRecord, TakenPCs
  <1>11. DistinctIds => ChargeIs(r)'
    <2>1. QuotaFault => quotaFaults' # 0
      BY FaultCounts DEF QuotaInv
    <2>2. Estimate \in Nat \ {0}
      BY DEF SubscriptionAssumption
    <2>3. QED
      BY <1>1, <1>2, <1>6, <1>7, <2>1, <2>2 DEF ChargeIs, ReturningPCs, NoQuotaFault
  <1>12. ASSUME DistinctIds, Accountable'
         PROVE  UsedFits'
    <2>1. Accountable
      BY <1>2, <1>12 DEF Accountable, RefundIdempotent
    <2>2. \A o \in QuotaRequests : req'[o].sub = req[o].sub
      BY <1>5, <1>6 DEF ReqSet, QuotaInv, QuotaTypes
    <2>3. QED
      BY <1>1, <1>2, <1>12, <2>1, <2>2, UsesUnchanged
  <1>13. /\ sub' \in SoundRows /\ charged' \in [QuotaRequests -> Int] /\ overwritten' \in BOOLEAN
         /\ \A o \in QuotaRequests \ {r} : charged'[o] = charged[o]
         /\ record'[RequestId(r)].status # "none"
    BY <1>1, <1>2, <1>4, <1>8 DEF QuotaInv, QuotaTypes
  <1>14. QED
    BY <1>2, <1>5, <1>6, <1>7, <1>9, <1>10, <1>11, <1>12, <1>13, QuotaTurn

\* A change of a subscription's use, posted to the row that was read.
LEMMA PostTyped ==
  ASSUME SubscriptionAssumption, QuotaTypes, NEW r \in QuotaRequests, NEW i \in Subs,
         NEW d \in Int, Seen(r) \in SoundRows, CanPost(Seen(r)[i], i, d), Post(r, i, d)
  PROVE  /\ sub' \in SoundRows /\ charged' \in [QuotaRequests -> Int]
         /\ overwritten' \in BOOLEAN
         /\ charged'[r] = charged[r] + d
         /\ \A o \in QuotaRequests \ {r} : charged'[o] = charged[o]
         /\ \A j \in Subs \ {i} : sub'[j] = sub[j]
         /\ overwritten' = FALSE =>
              /\ overwritten = FALSE
              /\ sub[i].used + d >= 0 => sub'[i].used = sub[i].used + d
  <1> DEFINE held == Seen(r)[i]
             new == NewUsed(held, d)
  <1>1. held \in QuotaRowType /\ held.used \in Nat
    BY DEF SoundRows, SoundRow, QuotaRowType
  <1>2. new \in Nat /\ (held.used + d >= 0 => new = held.used + d)
    BY <1>1 DEF NewUsed
  <1>3. Total[i] > 0 => new <= Total[i]
    BY DEF CanPost
  <1>4. /\ overwritten' \in BOOLEAN
        /\ overwritten' = FALSE => overwritten = FALSE /\ held.used = sub[i].used
    BY DEF Post, Loses, QuotaTypes
  <1> HIDE DEF new
  <1>5. PICK u : u = [held EXCEPT !.used = new]
    OBVIOUS
  <1>6. u \in QuotaRowType /\ u.used = new
    BY <1>1, <1>2, <1>5 DEF QuotaRowType
  <1>7. sub' = [sub EXCEPT ![i] = u]
    BY <1>5 DEF Post, new
  <1>8. sub \in SoundRows
    BY DEF QuotaTypes
  <1>9. sub' \in SoundRows /\ sub'[i] = u /\ \A j \in Subs \ {i} : sub'[j] = sub[j]
    BY <1>3, <1>6, <1>7, <1>8 DEF SoundRows, SoundRow
  <1>10. /\ charged' \in [QuotaRequests -> Int] /\ charged'[r] = charged[r] + d
         /\ \A o \in QuotaRequests \ {r} : charged'[o] = charged[o]
    BY DEF Post, QuotaTypes
  <1>11. QED
    BY <1>2, <1>4, <1>6, <1>9, <1>10

\* A subscription shows at least what each of its requests was charged.
LEMMA OwnUseWithin ==
  ASSUME SubscriptionAssumption, QuotaTypes, UsedFits, RefundIdempotent,
         NEW r \in QuotaRequests, req[r].sub \in Subs
  PROVE  charged[r] <= sub[req[r].sub].used
  <1>1. PICK i \in Subs : i = req[r].sub
    OBVIOUS
  <1>2. /\ IsFiniteSet(QuotaRequests) /\ sub[i].used \in Nat
        /\ \A o \in QuotaRequests : Owed(i)[o] = IF req[o].sub = i THEN charged[o] ELSE 0
    BY QuotaTermsTyped
  <1>3. \A o \in QuotaRequests : charged[o] \in Nat
    BY DEF QuotaTypes, RefundIdempotent
  <1> DEFINE owed == Owed(i)
  <1>4. \A o \in QuotaRequests : owed[o] \in Nat
    BY <1>2, <1>3
  <1>5. SumFunctionOnSet(owed, QuotaRequests) <= sub[i].used
    BY DEF UsedFits
  <1>6. owed[r] = charged[r]
    BY <1>1, <1>2
  <1> HIDE DEF owed
  <1>7. /\ owed[r] <= SumFunctionOnSet(owed, QuotaRequests)
        /\ SumFunctionOnSet(owed, QuotaRequests) \in Nat
    BY <1>2, <1>4, TermWithinSum, SumOfNaturals
  <1>8. QED
    BY <1>1, <1>2, <1>3, <1>5, <1>6, <1>7

\* A call that posts a difference: what it does on success and on an error.
LEMMA PostCallStep ==
  ASSUME SubscriptionAssumption, QuotaInv, NEW r \in QuotaRequests,
         req[r].pc \in {"settle", "refundPost"},
         NEW i \in Subs, NEW d \in Int,
         NEW good \in RequestType, NEW bad \in RequestType, PostCall(r, i, d, good, bad),
         RequestShape(good), RequestShape(bad), good.sub = req[r].sub, bad.sub = req[r].sub,
         DistinctIds => i = req[r].sub,
         \/ /\ req[r].pc = "settle" /\ d = good.actual - Estimate
            /\ good.pc = "settled" /\ bad.pc = "settleFailed"
         \/ /\ req[r].pc = "refundPost" /\ d = -Estimate
            /\ good.pc = "refundMark" /\ bad.pc \in {"refund", "refundFailed"}
  PROVE  QuotaInv'
  <1>1. /\ req[r] \in RequestType /\ RequestShape(req[r]) /\ charged[r] \in Int
        /\ MyRecord(r) \in RecordType /\ RecordShape(MyRecord(r))
        /\ MyRecord(r).status # "none"
        /\ DistinctIds => OwnRecord(r) /\ ChargeIs(r) /\ (Accountable => UsedFits)
    BY SessionOf DEF TakenPCs
  <1>2. Seen(r) \in SoundRows
    BY SeenIsSound DEF QuotaInv, OpenTxPCs
  <1>3. /\ UNCHANGED <<begun, resets, record, resetting>> /\ Close(r) /\ MyRecord(r)' = MyRecord(r)
        /\ req[r].sub \in Subs /\ req[r].taken = Estimate /\ Estimate \in Nat \ {0}
        /\ good.actual \in Nat
    BY <1>1 DEF PostCall, RequestShape, TakenPCs, SubscriptionAssumption, MyRecord, RequestType
  <1>4. ASSUME NEW next \in {good, bad}, ReqSet(r, next)
        PROVE  /\ next \in RequestType /\ RequestShape(next) /\ next.pc \notin OpenTxPCs
               /\ next.sub = req[r].sub /\ req'[r] = next
               /\ \A o \in QuotaRequests \ {r} : req'[o] = req[o]
               /\ next.pc \in TakenPCs => record'[RequestId(r)].status # "none"
               /\ DistinctIds => OwnRecord(r)'
    <2>1. /\ next \in RequestType /\ RequestShape(next) /\ next.pc \notin OpenTxPCs
          /\ next.sub = req[r].sub /\ req'[r] = next
          /\ \A o \in QuotaRequests \ {r} : req'[o] = req[o]
          /\ next.pc \notin {"start", "preconsume"}
      BY <1>4 DEF OpenTxPCs, ReqSet, QuotaInv, QuotaTypes
    <2>2. record'[RequestId(r)].status # "none"
      BY <1>1, <1>3 DEF MyRecord
    <2>3. DistinctIds => OwnRecord(r)'
      BY <1>1, <1>3, <2>1 DEF OwnRecord, TakenPCs
    <2>4. QED
      BY <2>1, <2>2, <2>3
  <1>5. QuotaFault => quotaFaults' # 0
    BY FaultCounts DEF QuotaInv
  <1>6. CASE CanPost(Seen(r)[i], i, d) /\ Post(r, i, d)
    <2>1. /\ sub' \in SoundRows /\ charged' \in [QuotaRequests -> Int]
          /\ overwritten' \in BOOLEAN
          /\ charged'[r] = charged[r] + d
          /\ \A o \in QuotaRequests \ {r} : charged'[o] = charged[o]
          /\ \A j \in Subs \ {i} : sub'[j] = sub[j]
          /\ overwritten' = FALSE =>
               /\ overwritten = FALSE
               /\ sub[i].used + d >= 0 => sub'[i].used = sub[i].used + d
      BY <1>2, <1>6, PostTyped DEF QuotaInv
    <2>2. PICK next \in {good, bad} :
            /\ ReqSet(r, next)
            /\ (next = good /\ NoQuotaFault) \/ (next = bad /\ QuotaFault)
      <3>1. \/ ReqSet(r, good) /\ NoQuotaFault
            \/ ReqSet(r, bad) /\ QuotaFault
        BY <1>6 DEF PostCall, QuotaFault, NoQuotaFault
      <3>2. QED
        BY <3>1
    <2>3. /\ next \in RequestType /\ RequestShape(next) /\ next.pc \notin OpenTxPCs
          /\ next.sub = req[r].sub /\ req'[r] = next
          /\ \A o \in QuotaRequests \ {r} : req'[o] = req[o]
          /\ next.pc \in TakenPCs => record'[RequestId(r)].status # "none"
          /\ DistinctIds => OwnRecord(r)'
      BY <1>4, <2>2
    <2>4. ASSUME DistinctIds
          PROVE  ChargeIs(r)'
      <3>1. /\ req[r].pc = "settle" => charged[r] = Estimate
            /\ req[r].pc = "refundPost" =>
                 charged[r] <= Estimate /\ (quotaFaults = 0 => charged[r] = Estimate)
        BY <1>1, <2>4 DEF ChargeIs, ReturningPCs
      <3>2. CASE next = good /\ NoQuotaFault
        <4>1. /\ next.pc = "settled" => charged'[r] = next.actual
              /\ next.pc = "refundMark" =>
                   charged'[r] <= 0 /\ (quotaFaults = 0 => charged'[r] = 0)
          BY <1>1, <1>3, <2>1, <3>1, <3>2
        <4>2. next.pc \in {"settled", "refundMark"} /\ quotaFaults' = quotaFaults
          BY <3>2 DEF NoQuotaFault
        <4>3. quotaFaults' = 0 => charged'[r] >= 0
          BY <1>3, <3>2, <4>1, <4>2
        <4>4. QED
          BY <2>3, <4>1, <4>2, <4>3 DEF ChargeIs, ReturningPCs
      <3>3. CASE next = bad /\ QuotaFault
        <4>1. next.pc \in {"settleFailed", "refund", "refundFailed"} /\ quotaFaults' # 0
          BY <1>5, <3>3
        <4>2. next.pc = "refund" => charged'[r] <= 0
          BY <1>1, <1>3, <2>1, <3>1, <3>3
        <4>3. next.pc = "refund" => charged'[r] <= Estimate
          BY <1>3, <2>1, <4>2
        <4>4. QED
          BY <2>3, <4>1, <4>2, <4>3 DEF ChargeIs, ReturningPCs
      <3>4. QED
        BY <2>2, <3>2, <3>3
    <2>5. ASSUME DistinctIds, Accountable'
          PROVE  UsedFits'
      <3>1. overwritten' = FALSE /\ charged'[r] >= 0
        BY <2>5 DEF Accountable, RefundIdempotent
      <3>2. charged[r] >= 0
        <4>1. req[r].pc = "settle" => charged[r] = Estimate
          BY <1>1, <2>5 DEF ChargeIs
        <4>2. QED
          BY <1>1, <1>3, <2>1, <3>1, <4>1
      <3>3. Accountable
        BY <1>3, <2>1, <2>5, <3>1, <3>2 DEF Accountable, RefundIdempotent
      <3>4. UsedFits /\ i = req[r].sub
        BY <1>1, <2>5, <3>3
      <3>5. sub[i].used \in Nat /\ charged[r] <= sub[i].used
        BY <3>3, <3>4, OwnUseWithin, QuotaTermsTyped DEF QuotaInv, Accountable
      <3>6. sub'[i].used = sub[i].used + d
        BY <1>1, <2>1, <3>1, <3>5
      <3>7. QED
        BY <1>1, <2>1, <2>3, <3>4, <3>6, UsesCharged DEF QuotaInv
    <2>6. QuotaFault \/ NoQuotaFault
      BY <2>2
    <2>7. QED
      BY <1>3, <2>1, <2>2, <2>3, <2>4, <2>5, <2>6, QuotaTurn
  <1>7. CASE /\ UNCHANGED <<sub, charged, overwritten>> /\ ReqSet(r, bad)
             /\ QuotaFault \/ NoQuotaFault
    <2>1. ASSUME DistinctIds
          PROVE  ChargeIs(r)'
      <3>1. /\ req[r].pc = "settle" => charged[r] = Estimate
            /\ req[r].pc = "refundPost" => charged[r] <= Estimate
            /\ quotaFaults = 0 => charged[r] = Estimate
            /\ MyRecord(r).status = "consumed"
        BY <1>1, <2>1 DEF ChargeIs, ReturningPCs, OwnRecord, TakenPCs
      <3>2. req'[r] = bad /\ bad.pc \in {"settleFailed", "refund", "refundFailed"}
        BY <1>4, <1>7
      <3>3. quotaFaults' = 0 => quotaFaults = 0
        BY <1>5, <1>7 DEF NoQuotaFault
      <3>4. QED
        BY <1>3, <1>7, <3>1, <3>2, <3>3 DEF ChargeIs, ReturningPCs
    <2>2. QED
      BY <1>1, <1>3, <1>4, <1>7, <2>1, QuietTurn
  <1>8. QED
    BY <1>6, <1>7 DEF PostCall

\* A settlement is posted.
LEMMA SettlePosted ==
  ASSUME SubscriptionAssumption, QuotaInv, NEW r \in QuotaRequests, CommitSettle(r)
  PROVE  QuotaInv'
  <1>1. /\ req[r] \in RequestType /\ RequestShape(req[r])
        /\ req[r].pc = "settle" /\ Estimate \in Nat \ {0}
    BY SessionOf DEF CommitSettle, SubscriptionAssumption
  <1>2. req[r].sub \in Subs /\ req[r].taken = Estimate /\ req[r].actual \in Nat
    BY <1>1 DEF RequestShape, TakenPCs, RequestType
  <1>3. PICK d : d = SettleDelta(r)
    OBVIOUS
  <1>4. d \in Int /\ d = req[r].actual - Estimate
    BY <1>1, <1>2, <1>3 DEF SettleDelta
  <1>5. PICK good, bad : /\ good = [req[r] EXCEPT !.pc = "settled"]
                         /\ bad = [req[r] EXCEPT !.pc = "settleFailed"]
    OBVIOUS
  <1>6. /\ good \in RequestType /\ good.pc = "settled" /\ RequestShape(good)
        /\ good.sub = req[r].sub /\ good.actual = req[r].actual
    BY <1>1, <1>2, <1>5 DEF RequestType, RequestShape, QuotaPCs, TakenPCs
  <1>7. /\ bad \in RequestType /\ bad.pc = "settleFailed" /\ RequestShape(bad)
        /\ bad.sub = req[r].sub
    BY <1>1, <1>2, <1>5 DEF RequestType, RequestShape, QuotaPCs, TakenPCs
  <1>8. PostCall(r, req[r].sub, d, good, bad)
    BY <1>3, <1>5 DEF CommitSettle
  <1>9. QED
    BY <1>1, <1>2, <1>4, <1>6, <1>7, <1>8, PostCallStep

\* A refund is posted.
LEMMA RefundPosted ==
  ASSUME SubscriptionAssumption, QuotaInv, NEW r \in QuotaRequests, CommitRefundDelta(r)
  PROVE  QuotaInv'
  <1>1. /\ req[r] \in RequestType /\ RequestShape(req[r])
        /\ MyRecord(r) \in RecordType /\ RecordShape(MyRecord(r))
        /\ req[r].pc \in TakenPCs => MyRecord(r).status # "none"
        /\ DistinctIds => OwnRecord(r)
    BY SessionOf
  <1>2. req[r].pc = "refundPost" /\ req[r].pc \in TakenPCs /\ Estimate \in Nat \ {0}
    BY DEF CommitRefundDelta, TakenPCs, SubscriptionAssumption
  <1>3. PICK i, d : i = MyRecord(r).sub /\ d = -MyRecord(r).amount
    OBVIOUS
  <1>4. i \in Subs /\ d = -Estimate /\ d \in Int
    BY <1>1, <1>2, <1>3 DEF RecordShape
  <1>5. DistinctIds => i = req[r].sub
    BY <1>1, <1>2, <1>3 DEF OwnRecord
  <1>6. PICK good, bad : /\ good = [req[r] EXCEPT !.pc = "refundMark"]
                         /\ bad = RefundFailure(r)
    OBVIOUS
  <1>7. /\ good \in RequestType /\ good.pc = "refundMark" /\ RequestShape(good)
        /\ good.sub = req[r].sub
    BY <1>1, <1>2, <1>6 DEF RequestType, RequestShape, QuotaPCs, TakenPCs
  <1>8. /\ bad \in RequestType /\ RequestShape(bad) /\ bad.sub = req[r].sub
        /\ bad.pc \in {"refund", "refundFailed"}
    BY <1>1, <1>2, <1>6, RefundFailureTyped
  <1>9. PostCall(r, i, d, good, bad)
    BY <1>3, <1>6 DEF CommitRefundDelta
  <1>10. QED
    BY <1>2, <1>4, <1>5, <1>7, <1>8, <1>9, PostCallStep

\* A subscription with room is charged the estimate, whatever reset it needs first.
LEMMA ConsumeTyped ==
  ASSUME SubscriptionAssumption, QuotaInv, NEW r \in QuotaRequests, req[r].pc = "preconsume",
         NEW i \in Subs, Candidate(r, i), ConsumeFrom(r, i)
  PROVE  /\ sub' \in SoundRows /\ charged' \in [QuotaRequests -> Int]
         /\ overwritten' \in BOOLEAN /\ charged'[r] = charged[r] + Estimate
         /\ \A o \in QuotaRequests \ {r} : charged'[o] = charged[o]
         /\ resets = 0 /\ overwritten' = FALSE =>
              /\ overwritten = FALSE /\ sub'[i].used = sub[i].used + Estimate
              /\ \A j \in Subs \ {i} : sub'[j] = sub[j]
  <1>1. /\ Seen(r) \in SoundRows /\ snap[r].begun \in [Subs -> Nat] /\ sub \in SoundRows
        /\ charged \in [QuotaRequests -> Int]
        /\ Estimate \in Nat \ {0} /\ Total \in [Subs -> Nat]
        /\ resets = 0 => \A j \in Subs : snap[r].begun[j] = 0
    BY SeenIsSound DEF QuotaInv, QuotaTypes, OpenTxPCs, SubscriptionAssumption, NoneIsDue
  <1>2. ASSUME NEW j \in Subs
        PROVE  /\ SoundRow(Fresh(r, j), j)
               /\ resets = 0 => /\ ~IsDue(Seen(r)[j], snap[r].begun[j])
                                /\ Fresh(r, j) = Seen(r)[j]
    <2>1. /\ Seen(r)[j] \in QuotaRowType /\ SoundRow(Seen(r)[j], j)
          /\ Seen(r)[j].period \in Nat /\ snap[r].begun[j] \in Nat /\ Total[j] \in Nat
      BY <1>1 DEF SoundRows, SoundRow, QuotaRowType
    <2>2. PICK emptied : emptied = [Seen(r)[j] EXCEPT !.used = 0, !.period = snap[r].begun[j]]
      OBVIOUS
    <2>3. SoundRow(emptied, j)
      BY <2>1, <2>2, EmptiedIsSound
    <2>4. Fresh(r, j) = IF IsDue(Seen(r)[j], snap[r].begun[j]) THEN emptied ELSE Seen(r)[j]
      BY <2>2 DEF Fresh, Refreshed
    <2>5. resets = 0 => ~IsDue(Seen(r)[j], snap[r].begun[j])
      BY <1>1, <2>1 DEF IsDue
    <2>6. QED
      BY <2>1, <2>3, <2>4, <2>5
  <1> DEFINE held == Fresh(r, i)
             passed == {j \in Subs : /\ j < i /\ Seen(r)[j].status = "active"
                                     /\ IsDue(Seen(r)[j], snap[r].begun[j])}
  <1>3. held \in QuotaRowType /\ (Total[i] > 0 => held.used + Estimate <= Total[i])
    <2>1. held \in QuotaRowType /\ held.used \in Nat /\ Total[i] \in Nat
      BY <1>1, <1>2 DEF QuotaRowType, SoundRow
    <2>2. Total[i] = 0 \/ Total[i] - held.used >= Estimate
      BY DEF Candidate, HasRoom
    <2>3. QED
      BY <1>1, <2>1, <2>2
  <1>4. PICK taken : taken = [held EXCEPT !.used = held.used + Estimate]
    OBVIOUS
  <1>5. SoundRow(taken, i) /\ taken.used = held.used + Estimate
    BY <1>1, <1>3, <1>4 DEF QuotaRowType, SoundRow
  <1>6. /\ sub' = [j \in Subs |-> IF j = i THEN taken
                                  ELSE IF j \in passed THEN Fresh(r, j)
                                  ELSE sub[j]]
        /\ charged' = [charged EXCEPT ![r] = charged[r] + Estimate]
        /\ overwritten' = (overwritten \/ \E j \in passed \cup {i} : Loses(Seen(r)[j], j))
    BY <1>4 DEF ConsumeFrom
  <1> HIDE DEF held, passed
  <1>7. sub' \in SoundRows
    <2>1. \A j \in Subs : SoundRow(sub[j], j)
      BY <1>1 DEF SoundRows
    <2>2. ASSUME NEW j \in Subs
          PROVE  SoundRow(sub'[j], j)
      <3>1. CASE j = i
        BY <1>5, <1>6, <3>1
      <3>2. CASE j # i /\ j \in passed
        BY <1>2, <1>6, <3>2
      <3>3. CASE j # i /\ j \notin passed
        BY <1>6, <2>1, <3>3
      <3>4. QED
        BY <3>1, <3>2, <3>3
    <2>3. sub' \in [Subs -> QuotaRowType]
      BY <1>6, <2>2 DEF SoundRow
    <2>4. QED
      BY <2>2, <2>3 DEF SoundRows
  <1>8. /\ charged' \in [QuotaRequests -> Int] /\ charged'[r] = charged[r] + Estimate
        /\ \A o \in QuotaRequests \ {r} : charged'[o] = charged[o]
    BY <1>1, <1>6
  <1>9. /\ overwritten' \in BOOLEAN
        /\ overwritten' = FALSE => overwritten = FALSE /\ ~Loses(Seen(r)[i], i)
    BY <1>6 DEF QuotaInv, QuotaTypes
  <1>10. ASSUME resets = 0, overwritten' = FALSE
         PROVE  /\ sub'[i].used = sub[i].used + Estimate
                /\ \A j \in Subs \ {i} : sub'[j] = sub[j]
    <2>1. passed = {} /\ held = Seen(r)[i]
      BY <1>2, <1>10 DEF passed, held
    <2>2. Seen(r)[i].used = sub[i].used
      BY <1>9, <1>10 DEF Loses
    <2>3. QED
      BY <1>5, <1>6, <2>1, <2>2
  <1>11. QED
    BY <1>7, <1>8, <1>9, <1>10

\* A pre-consumption ends.
LEMMA PreConsumeStep ==
  ASSUME SubscriptionAssumption, QuotaInv, NEW r \in QuotaRequests, CommitPreConsume(r)
  PROVE  QuotaInv'
  <1>1. /\ req[r] \in RequestType /\ RequestShape(req[r]) /\ charged[r] \in Int
        /\ DistinctIds => OwnRecord(r) /\ ChargeIs(r) /\ (Accountable => UsedFits)
    BY SessionOf
  <1>2. /\ req[r].pc = "preconsume" /\ req[r].sub = 0 /\ req[r].tries < MaxTries
        /\ Close(r) /\ UNCHANGED <<begun, resets, resetting>> /\ Estimate \in Nat \ {0}
        /\ DistinctIds => MyRecord(r).status = "none" /\ charged[r] = 0
    BY <1>1 DEF CommitPreConsume, RequestShape, SubscriptionAssumption, OwnRecord, ChargeIs
  <1>3. PICK known : known = snap[r].record
    OBVIOUS
  <1>4. /\ known \in RecordType /\ RecordShape(known)
        /\ known.status # "none" => MyRecord(r).status # "none"
    BY <1>2, <1>3 DEF QuotaInv, QuotaTypes, OpenTxPCs, SoundSnap, SnapType
  <1>5. PICK rejected : rejected = [req[r] EXCEPT !.pc = "rejected"]
    OBVIOUS
  <1>6. /\ rejected \in RequestType /\ rejected.pc = "rejected" /\ rejected.sub = 0
        /\ RequestShape(rejected) /\ rejected.pc \notin TakenPCs \cup OpenTxPCs
    BY <1>1, <1>2, <1>5 DEF RequestType, RequestShape, QuotaPCs, TakenPCs, OpenTxPCs
  <1>7. \A q : ReqSet(r, q) => req'[r] = q
    BY DEF ReqSet, QuotaInv, QuotaTypes
  <1>8. QuotaFault => quotaFaults' # 0
    BY FaultCounts DEF QuotaInv
  <1>9. CASE /\ ReqSet(r, rejected) /\ UNCHANGED <<sub, record, charged, overwritten>>
             /\ QuotaFault \/ NoQuotaFault
    <2>1. OwnRecord(r)'
      BY <1>6, <1>7, <1>9 DEF OwnRecord, TakenPCs
    <2>2. DistinctIds => ChargeIs(r)'
      BY <1>2, <1>6, <1>7, <1>9 DEF ChargeIs, ReturningPCs
    <2>3. QED
      BY <1>2, <1>6, <1>9, <2>1, <2>2, QuietTurn
  <1>10. CASE /\ known.status = "consumed" /\ UNCHANGED <<sub, record, charged, overwritten>>
              /\ NoQuotaFault
              /\ ReqSet(r, [req[r] EXCEPT !.pc = "open", !.sub = known.sub,
                                          !.taken = known.amount])
    <2>1. PICK next : next = [req[r] EXCEPT !.pc = "open", !.sub = known.sub,
                                            !.taken = known.amount]
      OBVIOUS
    <2>2. MyRecord(r).status # "none" /\ known.sub \in Subs /\ known.amount = Estimate
      BY <1>4, <1>10 DEF RecordShape
    <2>3. /\ next \in RequestType /\ next.pc = "open" /\ next.sub \in Subs
          /\ next.taken = Estimate /\ next.tries = req[r].tries
      BY <1>1, <1>2, <2>1, <2>2 DEF RequestType, QuotaPCs
    <2>4. RequestShape(next) /\ next.pc \notin OpenTxPCs
      BY <1>2, <2>3 DEF RequestShape, OpenTxPCs, TakenPCs
    <2>5. ~DistinctIds
      BY <1>2, <2>2
    <2>6. QED
      BY <1>2, <1>10, <2>1, <2>2, <2>3, <2>4, <2>5, QuietTurn
  <1>11. ASSUME NEW i \in Subs, Candidate(r, i), ConsumeFrom(r, i),
                \/ ReqSet(r, [req[r] EXCEPT !.pc = "open", !.sub = i, !.taken = Estimate])
                   /\ NoQuotaFault
                \/ ReqSet(r, rejected) /\ QuotaFault
         PROVE  QuotaInv'
    <2>1. /\ sub' \in SoundRows /\ charged' \in [QuotaRequests -> Int]
          /\ overwritten' \in BOOLEAN /\ charged'[r] = charged[r] + Estimate
          /\ \A o \in QuotaRequests \ {r} : charged'[o] = charged[o]
          /\ resets = 0 /\ overwritten' = FALSE =>
               /\ overwritten = FALSE /\ sub'[i].used = sub[i].used + Estimate
               /\ \A j \in Subs \ {i} : sub'[j] = sub[j]
      BY <1>2, <1>11, ConsumeTyped
    <2>2. PICK open : open = [req[r] EXCEPT !.pc = "open", !.sub = i, !.taken = Estimate]
      OBVIOUS
    <2>3. /\ open \in RequestType /\ open.pc = "open" /\ open.sub = i
          /\ open.taken = Estimate /\ open.tries = req[r].tries
      BY <1>1, <1>2, <2>2 DEF RequestType, QuotaPCs
    <2>4. RequestShape(open) /\ open.pc \notin OpenTxPCs
      BY <1>2, <2>3 DEF RequestShape, OpenTxPCs, TakenPCs
    <2>5. PICK rec : rec = [status |-> "consumed", sub |-> i, amount |-> Estimate]
      OBVIOUS
    <2>6. /\ rec \in RecordType /\ RecordShape(rec) /\ rec.status = "consumed" /\ rec.sub = i
          /\ record' = [record EXCEPT ![RequestId(r)] = rec]
      BY <1>2, <1>11, <2>5 DEF RecordType, RecordShape, ConsumeFrom
    <2>7. record'[RequestId(r)] = rec
      BY <2>6 DEF QuotaInv, QuotaTypes, RequestIds
    <2>8. PICK next \in {open, rejected} :
            /\ ReqSet(r, next)
            /\ (next = open /\ NoQuotaFault) \/ (next = rejected /\ QuotaFault)
      <3>1. \/ ReqSet(r, open) /\ NoQuotaFault
            \/ ReqSet(r, rejected) /\ QuotaFault
        BY <1>11, <2>2
      <3>2. QED
        BY <3>1
    <2>9. /\ next \in RequestType /\ RequestShape(next) /\ next.pc \notin OpenTxPCs
          /\ next.sub \in {0, i} /\ req'[r] = next
          /\ \A o \in QuotaRequests \ {r} : req'[o] = req[o]
      BY <1>6, <1>7, <2>3, <2>4, <2>8 DEF ReqSet, QuotaInv, QuotaTypes
    <2>10. OwnRecord(r)'
      <3>1. MyRecord(r)' = rec
        BY <2>7 DEF MyRecord
      <3>2. next.pc \in {"open", "rejected"} /\ (next.pc = "open" => next.sub = i)
        BY <1>6, <2>3
      <3>3. QED
        BY <2>6, <2>9, <3>1, <3>2 DEF OwnRecord, TakenPCs
    <2>11. ASSUME DistinctIds
           PROVE  ChargeIs(r)'
      <3>1. charged'[r] = Estimate /\ charged'[r] >= 0
        BY <1>2, <2>1, <2>11
      <3>2. CASE next = open
        BY <2>3, <2>9, <3>1, <3>2 DEF ChargeIs, ReturningPCs
      <3>3. CASE next = rejected /\ QuotaFault
        BY <1>6, <1>8, <2>9, <3>3 DEF ChargeIs, ReturningPCs
      <3>4. QED
        BY <2>8, <3>2, <3>3
    <2>12. ASSUME DistinctIds, Accountable'
           PROVE  UsedFits'
      <3>1. overwritten' = FALSE /\ resets = 0 /\ charged[r] = 0
        BY <1>2, <2>12 DEF Accountable
      <3>2. Accountable
        BY <2>1, <2>12, <3>1 DEF Accountable, RefundIdempotent
      <3>3. UsedFits
        BY <1>1, <2>12, <3>2
      <3>4. QED
        BY <1>2, <2>1, <2>9, <3>1, <3>3, UsesCharged DEF QuotaInv
    <2>13. \E e \in RecordType : /\ RecordShape(e) /\ e.status # "none"
                                 /\ record' = [record EXCEPT ![RequestId(r)] = e]
      BY <2>6
    <2>14. record'[RequestId(r)].status # "none" /\ (QuotaFault \/ NoQuotaFault)
      BY <2>6, <2>7, <2>8
    <2>15. QED
      BY <1>2, <2>1, <2>8, <2>9, <2>10, <2>11, <2>12, <2>13, <2>14, QuotaTurn
  <1>12. CASE /\ {i \in Subs : Candidate(r, i)} # {}
              /\ LET room == {i \in Subs : Candidate(r, i)}
                     i == CHOOSE i \in room : \A j \in room : i <= j
                 IN /\ ConsumeFrom(r, i)
                    /\ \/ ReqSet(r, [req[r] EXCEPT !.pc = "open", !.sub = i,
                                                   !.taken = Estimate]) /\ NoQuotaFault
                       \/ ReqTo(r, "rejected") /\ QuotaFault
    <2> DEFINE room == {i \in Subs : Candidate(r, i)}
    <2>1. room \in SUBSET Nat /\ room # {}
      BY <1>12, QuotaTermsTyped DEF QuotaInv
    <2>2. \E m \in room : \A k \in room : m <= k
      <3> HIDE DEF room
      <3>1. QED
        BY <2>1, LeastNatural
    <2>3. PICK i : i = CHOOSE m \in room : \A j \in room : m <= j
      OBVIOUS
    <2>4. i \in room
      BY <2>2, <2>3
    <2>5. /\ ConsumeFrom(r, i)
          /\ \/ ReqSet(r, [req[r] EXCEPT !.pc = "open", !.sub = i, !.taken = Estimate])
                /\ NoQuotaFault
             \/ ReqSet(r, rejected) /\ QuotaFault
      BY <1>5, <1>12, <2>3 DEF ReqTo
    <2>6. QED
      BY <1>11, <2>4, <2>5
  <1>13. QED
    BY <1>3, <1>5, <1>9, <1>10, <1>12 DEF CommitPreConsume, ReqTo

\* A step of another writer of the rows, which is no request.
LEMMA RowStep ==
  ASSUME SubscriptionAssumption, QuotaInv, sub' \in SoundRows,
         begun' \in [Subs -> Nat], resets' \in 0 .. MaxResets,
         overwritten' \in BOOLEAN, UNCHANGED <<record, req, snap, charged, quotaFaults>>,
         \/ resetting' = NoSnap
         \/ /\ resetting' \in [sub : Subs, row : QuotaRowType, begun : Nat]
            /\ SoundRow(resetting'.row, resetting'.sub),
         resets' = 0 =>
           /\ resets = 0 /\ resetting' = NoSnap /\ begun' = begun
           /\ overwritten' = overwritten /\ \A i \in Subs : sub'[i].used = sub[i].used
  PROVE  QuotaInv'
  <1>1. QuotaTypes'
    BY DEF QuotaInv, QuotaTypes, MyRecord
  <1>2. NoneIsDue'
    BY DEF QuotaInv, NoneIsDue
  <1>3. ASSUME DistinctIds, NEW r \in QuotaRequests
        PROVE  OwnRecord(r)' /\ ChargeIs(r)'
    BY <1>3 DEF QuotaInv, OwnRecord, ChargeIs, MyRecord
  <1>4. ASSUME DistinctIds, Accountable'
        PROVE  UsedFits'
    <2>1. Accountable /\ \A i \in Subs : sub'[i].used = sub[i].used
      BY <1>4 DEF Accountable, RefundIdempotent
    <2>2. UsedFits
      BY <1>4, <2>1 DEF QuotaInv
    <2>3. QED
      BY <2>1, <2>2, UsesUnchanged
  <1>5. DistinctIds' <=> DistinctIds
    BY DEF DistinctIds
  <1>6. QED
    BY <1>1, <1>2, <1>3, <1>4, <1>5 DEF QuotaInv

\* A period begins, and a reset reads a row that is due and saves it.
LEMMA PeriodSteps ==
  ASSUME SubscriptionAssumption, QuotaInv,
         (\E i \in Subs : PeriodBegins(i) \/ ResetDueSubscriptions(i)) \/ CommitReset
  PROVE  QuotaInv'
  <1>1. /\ sub \in SoundRows /\ begun \in [Subs -> Nat] /\ resets \in 0 .. MaxResets
        /\ MaxResets \in Nat /\ overwritten \in BOOLEAN
        /\ \/ resetting = NoSnap
           \/ /\ resetting \in [sub : Subs, row : QuotaRowType, begun : Nat]
              /\ SoundRow(resetting.row, resetting.sub)
    BY DEF QuotaInv, QuotaTypes, SubscriptionAssumption
  <1>2. resets = 0 => resetting = NoSnap /\ \A i \in Subs : begun[i] = 0
    BY DEF QuotaInv, NoneIsDue
  <1>3. ASSUME NEW i \in Subs, PeriodBegins(i)
        PROVE  QuotaInv'
    <2>1. /\ resets' \in 0 .. MaxResets /\ resets' # 0 /\ begun' \in [Subs -> Nat]
          /\ UNCHANGED <<sub, record, req, snap, resetting, charged, overwritten, quotaFaults>>
      BY <1>1, <1>3 DEF PeriodBegins
    <2>2. QED
      BY <1>1, <2>1, RowStep
  <1>4. ASSUME NEW i \in Subs, ResetDueSubscriptions(i)
        PROVE  QuotaInv'
    <2>1. /\ resetting' = [sub |-> i, row |-> sub[i], begun |-> begun[i]]
          /\ IsDue(sub[i], begun[i])
          /\ UNCHANGED <<sub, begun, resets, record, req, snap, charged, overwritten, quotaFaults>>
      BY <1>4 DEF ResetDueSubscriptions
    <2>2. SoundRow(sub[i], i) /\ sub[i] \in QuotaRowType /\ sub[i].period \in Nat
      BY <1>1 DEF SoundRows, SoundRow, QuotaRowType
    <2>3. resets # 0
      BY <1>2, <2>1, <2>2 DEF IsDue
    <2>4. /\ resetting' \in [sub : Subs, row : QuotaRowType, begun : Nat]
          /\ SoundRow(resetting'.row, resetting'.sub)
      BY <1>1, <2>1, <2>2
    <2>5. QED
      BY <1>1, <2>1, <2>3, <2>4, RowStep
  <1>5. CASE CommitReset
    <2>1. /\ resetting # NoSnap /\ resetting' = NoSnap
          /\ UNCHANGED <<begun, resets, record, req, snap, charged, quotaFaults>>
      BY <1>5 DEF CommitReset
    <2>2. resets # 0 /\ overwritten' \in BOOLEAN
      BY <1>1, <1>2, <1>5, <2>1 DEF CommitReset
    <2>3. PICK i \in Subs, held \in QuotaRowType, latest \in Nat :
            /\ i = resetting.sub /\ held = resetting.row /\ latest = resetting.begun
            /\ SoundRow(held, i)
      BY <1>1, <2>1
    <2>4. PICK new : new = Refreshed(held, latest)
      OBVIOUS
    <2>5. SoundRow(new, i)
      <3>1. PICK emptied : emptied = [held EXCEPT !.used = 0, !.period = latest]
        OBVIOUS
      <3>2. SoundRow(emptied, i)
        BY <3>1, EmptiedIsSound
      <3>3. new \in {emptied, held}
        BY <2>4, <3>1 DEF Refreshed
      <3>4. QED
        BY <2>3, <3>2, <3>3
    <2>6. sub' = [sub EXCEPT ![i] = new]
      BY <1>5, <2>3, <2>4 DEF CommitReset
    <2>7. sub' \in SoundRows
      BY <1>1, <2>5, <2>6 DEF SoundRows, SoundRow
    <2>8. QED
      BY <1>1, <2>1, <2>2, <2>7, RowStep
  <1>6. QED
    BY <1>3, <1>4, <1>5

\* A subscription that ends keeps its use.
LEMMA EndStep ==
  ASSUME SubscriptionAssumption, QuotaInv, NEW i \in Subs, EndSubscription(i)
  PROVE  QuotaInv'
  <1>1. UNCHANGED <<begun, resets, record, req, snap, resetting, charged, overwritten,
                    quotaFaults>>
    BY DEF EndSubscription
  <1>2. PICK st \in {"ended", "deleted"} :
          sub' = [sub EXCEPT ![i] = [sub[i] EXCEPT !.status = st]]
    BY DEF EndSubscription
  <1>3. PICK ended : ended = [sub[i] EXCEPT !.status = st]
    OBVIOUS
  <1>4. /\ sub \in SoundRows /\ SoundRow(sub[i], i) /\ begun \in [Subs -> Nat]
        /\ resets \in 0 .. MaxResets /\ overwritten \in BOOLEAN
        /\ \/ resetting = NoSnap
           \/ /\ resetting \in [sub : Subs, row : QuotaRowType, begun : Nat]
              /\ SoundRow(resetting.row, resetting.sub)
        /\ resets = 0 => resetting = NoSnap
    BY DEF QuotaInv, QuotaTypes, SoundRows, NoneIsDue
  <1>5. SoundRow(ended, i) /\ ended.used = sub[i].used
    BY <1>3, <1>4 DEF QuotaRowType, SoundRow
  <1>6. sub' \in SoundRows /\ \A j \in Subs : sub'[j].used = sub[j].used
    BY <1>2, <1>3, <1>4, <1>5 DEF SoundRows, SoundRow
  <1>7. QED
    BY <1>1, <1>4, <1>6, RowStep

\* A record that is cleaned up belongs to no request on its way.
LEMMA CleanupStep ==
  ASSUME SubscriptionAssumption, QuotaInv, NEW id \in RequestIds, Cleanup(id)
  PROVE  QuotaInv'
  <1>1. /\ record' = [record EXCEPT ![id] = NoRecord]
        /\ UNCHANGED <<sub, begun, resets, req, snap, resetting, charged, overwritten,
                       quotaFaults>>
    BY DEF Cleanup
  <1>2. /\ record' \in [RequestIds -> RecordType] /\ record'[id].status = "none"
        /\ \A k \in RequestIds : RecordShape(record'[k])
        /\ \A k \in RequestIds \ {id} : record'[k] = record[k]
    <2>1. NoRecord \in RecordType /\ NoRecord.status = "none"
      BY DEF NoRecord, RecordType
    <2>2. QED
      BY <1>1, <2>1 DEF QuotaInv, QuotaTypes, RecordShape
  <1>3. \A r \in QuotaRequests : RequestId(r) \in RequestIds
    BY DEF RequestIds
  <1>4. \A r \in QuotaRequests :
          RequestId(r) = id => req[r].pc \notin TakenPCs \cup {"preconsume"}
    BY DEF Cleanup, Ended, TakenPCs
  <1>5. ASSUME NEW r \in QuotaRequests, req[r].pc \in TakenPCs \cup {"preconsume"}
        PROVE  MyRecord(r)' = MyRecord(r)
    BY <1>2, <1>3, <1>4, <1>5 DEF MyRecord
  <1>6. QuotaTypes'
    <2>1. \A r \in QuotaRequests :
            /\ req[r].pc \in TakenPCs => MyRecord(r)'.status # "none"
            /\ req[r].pc = "preconsume" /\ snap[r].record.status # "none" =>
                 MyRecord(r)'.status # "none"
      BY <1>5 DEF QuotaInv, QuotaTypes
    <2>2. QED
      BY <1>1, <1>2, <2>1 DEF QuotaInv, QuotaTypes
  <1>7. NoneIsDue'
    BY <1>1 DEF QuotaInv, NoneIsDue
  <1>8. ASSUME DistinctIds, NEW r \in QuotaRequests
        PROVE  OwnRecord(r)' /\ ChargeIs(r)'
    <2>1. OwnRecord(r) /\ ChargeIs(r)
      BY <1>8 DEF QuotaInv
    <2>2. CASE RequestId(r) = id
      <3>1. MyRecord(r)'.status = "none" /\ req[r].pc \notin TakenPCs
        BY <1>2, <1>4, <2>2 DEF MyRecord
      <3>2. QED
        BY <1>1, <2>1, <3>1 DEF OwnRecord, ChargeIs, TakenPCs
    <2>3. CASE RequestId(r) # id
      <3>1. MyRecord(r)' = MyRecord(r)
        BY <1>2, <1>3, <2>3 DEF MyRecord
      <3>2. QED
        BY <1>1, <2>1, <3>1 DEF OwnRecord, ChargeIs
    <2>4. QED
      BY <2>2, <2>3
  <1>9. ASSUME DistinctIds, Accountable'
        PROVE  UsedFits'
    <2>1. Accountable
      BY <1>1, <1>9 DEF Accountable, RefundIdempotent
    <2>2. QED
      BY <1>1, <1>9, <2>1, UsesUnchanged DEF QuotaInv
  <1>10. DistinctIds' <=> DistinctIds
    BY DEF DistinctIds
  <1>11. QED
    BY <1>6, <1>7, <1>8, <1>9, <1>10 DEF QuotaInv

\* Every step keeps it.
LEMMA QuotaStepKeeps ==
  ASSUME SubscriptionAssumption, QuotaInv, [QuotaNext]_quotaVars
  PROVE  QuotaInv'
  <1>1. ASSUME NEW r \in QuotaRequests,
               \/ BeginPreConsume(r) \/ CommitPreConsume(r)
               \/ Settle(r) \/ CommitSettle(r)
               \/ Refund(r) \/ RefundRead(r) \/ RefundDelta(r) \/ CommitRefundDelta(r)
               \/ RefundMark(r) \/ QuotaCrash(r)
        PROVE  QuotaInv'
    BY <1>1, BeginStep, PreConsumeStep, SettleBegins, SettlePosted, RefundBegins, RefundReads,
       RefundPosted, RefundMarks, QuotaCrashStep
  <1>2. ASSUME NEW i \in Subs, PeriodBegins(i) \/ ResetDueSubscriptions(i) \/ EndSubscription(i)
        PROVE  QuotaInv'
    BY <1>2, PeriodSteps, EndStep
  <1>3. ASSUME NEW id \in RequestIds, Cleanup(id)
        PROVE  QuotaInv'
    BY <1>3, CleanupStep
  <1>4. CASE UNCHANGED quotaVars
    <2>1. /\ sub \in SoundRows /\ begun \in [Subs -> Nat] /\ resets \in 0 .. MaxResets
          /\ overwritten \in BOOLEAN
          /\ \/ resetting = NoSnap
             \/ /\ resetting \in [sub : Subs, row : QuotaRowType, begun : Nat]
                /\ SoundRow(resetting.row, resetting.sub)
          /\ resets = 0 => resetting = NoSnap
      BY DEF QuotaInv, QuotaTypes, NoneIsDue
    <2>2. UNCHANGED <<sub, begun, resets, record, req, snap, resetting, charged, overwritten,
                      quotaFaults>>
      BY <1>4 DEF quotaVars
    <2>3. QED
      BY <2>1, <2>2, RowStep
  <1>5. CASE CommitReset
    BY <1>5, PeriodSteps
  <1>6. QED
    BY <1>1, <1>2, <1>3, <1>4, <1>5 DEF QuotaNext

\* It always holds.
LEMMA QuotaAlways ==
  ASSUME SubscriptionAssumption
  PROVE  QuotaSpec => []QuotaInv
  <1>1. QuotaInit => QuotaInv
    BY QuotaStarts
  <1>2. QuotaInv /\ [QuotaNext]_quotaVars => QuotaInv'
    BY QuotaStepKeeps
  <1>3. QED
    BY <1>1, <1>2, PTL DEF QuotaSpec

\* The state of the subscriptions stays well-typed, and a limited subscription
\* never shows more use than its total, though no row is locked, whole rows are
\* saved from what was read before, and clients may repeat ids
\* (PreConsumeUserSubscription, PostConsumeUserSubscriptionDelta,
\* ResetDueSubscriptions).
THEOREM SubscriptionsStayWithinTotal ==
  ASSUME SubscriptionAssumption
  PROVE  QuotaSpec => []SubscriptionTypeOK
  <1>1. QuotaInv => SubscriptionTypeOK
    BY DEF QuotaInv, QuotaTypes, SoundRows, SoundRow, SubscriptionTypeOK
  <1>2. QED
    BY <1>1, QuotaAlways, PTL

\* Without any row lock, and with ids no client repeats: a refund returns what
\* was consumed once unless a call fails on the way; where it does, every request
\* is charged what it reports; and before a period ends the subscriptions show
\* exactly what their requests were charged unless a save replaced a use it had
\* not read (PreConsumeUserSubscription, PostConsumeUserSubscriptionDelta,
\* RefundSubscriptionPreConsume).
THEOREM SubscriptionQuotaStaysAccounted ==
  ASSUME SubscriptionAssumption
  PROVE  QuotaSpec => []QuotaAccounted
  <1>1. ASSUME QuotaInv, DistinctIds, quotaFaults = 0
        PROVE  RefundIdempotent
    BY <1>1 DEF QuotaInv, ChargeIs, RefundIdempotent
  <1>2. ASSUME QuotaInv, DistinctIds, RefundIdempotent
        PROVE  ReportedChargeHolds
    <2>1. ASSUME NEW r \in QuotaRequests
          PROVE  /\ req[r].pc = "settled" => charged[r] = req[r].actual
                 /\ req[r].pc = "refunded" => charged[r] = 0
                 /\ quotaFaults = 0 /\ req[r].pc = "rejected" => charged[r] = 0
                 /\ quotaFaults = 0 /\ req[r].pc = "settleFailed" => charged[r] = req[r].taken
      <3>1. ChargeIs(r) /\ RequestShape(req[r]) /\ charged[r] \in Int /\ charged[r] >= 0
        BY <1>2 DEF QuotaInv, QuotaTypes, RefundIdempotent
      <3>2. QED
        BY <3>1 DEF ChargeIs, RequestShape
    <2>2. QED
      BY <2>1 DEF ReportedChargeHolds
  <1>3. ASSUME QuotaInv, DistinctIds, RefundIdempotent, ~overwritten
        PROVE  UsedIsSum
    <2>1. ASSUME resets = 0
          PROVE  SumFunction([i \in Subs |-> sub[i].used]) = SumFunction(charged)
      <3>1. Accountable
        BY <1>3, <2>1 DEF Accountable, QuotaInv, QuotaTypes
      <3>2. /\ SumFunctionOnSet(UsedOf, Subs) = SumFunctionOnSet(charged, QuotaRequests)
            /\ charged \in [QuotaRequests -> Int]
        BY <1>3, <3>1 DEF QuotaInv, QuotaTypes, UsedFits
      <3>3. DOMAIN charged = QuotaRequests /\ DOMAIN UsedOf = Subs
        BY <3>2 DEF UsedOf
      <3>4. QED
        BY <3>2, <3>3 DEF SumFunction, UsedOf
    <2>2. QED
      BY <2>1 DEF UsedIsSum
  <1>4. QuotaInv => QuotaAccounted
    BY <1>1, <1>2, <1>3 DEF QuotaAccounted
  <1>5. QED
    BY <1>4, QuotaAlways, PTL
=============================================================================
