---------------------------- MODULE BillingSession ----------------------------
(***************************************************************************)
(* The billing session of a relay request that pays from the wallet        *)
(* (service/billing_session.go, service/funding_source.go): it takes the   *)
(* estimated quota from the API key and from the wallet before the request *)
(* is sent, and afterwards either settles the difference to the actual     *)
(* usage or returns everything.  A session is memory only: what it has     *)
(* taken and returned is durable, the knowledge of it is not.  Credits go  *)
(* through the refund queue of BillingRefund; debits of the wallet go      *)
(* through the idempotent balance ledger; debits of the API key are plain  *)
(* conditional updates.                                                    *)
(*                                                                         *)
(* The relay handler calls Settle once or Refund once and only logs an     *)
(* error (CallersRetry FALSE); the session's own contract, exercised by    *)
(* its tests, is that a failed call may be repeated (CallersRetry TRUE).   *)
(***************************************************************************)
EXTENDS BillingRefund, Functions

CONSTANTS Unlimited,         \* the requests whose API key has no limit
          Estimates,         \* the quotas a request may pre-consume
          Actuals,           \* the quotas a request may really use
          InitialQuota, InitialTokenQuota,
          CallersRetry,      \* whether a failed Settle or Refund is repeated
          MaxReserves        \* bound: extensions of one session

ASSUME SessionAssumption ==
  /\ Unlimited \subseteq Requests
  /\ Estimates \subseteq 0..MaxQuota /\ Actuals \subseteq 0..MaxQuota
  /\ InitialQuota \in 0..MaxQuota /\ InitialTokenQuota \in 0..MaxQuota
  /\ CallersRetry \in BOOLEAN /\ MaxReserves \in {0, 1}

VARIABLES session,   \* the session of each request
          keyNet     \* history: what each request has taken from the API key

sessionVars == <<refundVars, session, keyNet>>

SessionPCs == {"start", "token", "funding", "rollback", "rejected",
        "open", "reserveFunding", "reserveToken", "reserveRollback",
        "settle", "settling", "settleToken", "exhaust", "settleFailed", "settled",
        "refund", "tokenRefunding", "fundingRefund", "fundingRefunding",
        "refundFailed", "refunded", "lost"}

SessionEnded == {"rejected", "settled", "settleFailed", "refundFailed", "refunded", "lost"}

SessionType ==
  [pc : SessionPCs, target : 0..MaxQuota, actual : 0..MaxQuota,
   preConsumed : 0..MaxQuota, tokenConsumed : 0..MaxQuota, consumed : 0..MaxQuota,
   fundingSettled : BOOLEAN, tokenRefunded : BOOLEAN, reserves : 0..MaxReserves]

NewSession ==
  [pc |-> "start", target |-> 0, actual |-> 0, preConsumed |-> 0, tokenConsumed |-> 0,
   consumed |-> 0, fundingSettled |-> FALSE, tokenRefunded |-> FALSE, reserves |-> 0]

\* Types and column ranges of the composed model.
SessionTypeOK ==
  /\ RefundTypeOK
  /\ session \in [Requests -> SessionType]
  /\ keyNet \in [Requests -> 0..MaxQuota]

SessionsInit ==
  /\ RefundInit(InitialQuota, InitialTokenQuota)
  /\ session = [r \in Requests |-> NewSession]
  /\ keyNet = [r \in Requests |-> 0]
-------------------------------------------------------------------------------
s(r) == session[r]
SessionGoes(r, pc) == session' = [session EXCEPT ![r].pc = pc]
Limited(r) == r \notin Unlimited

\* The request starts a credit and waits for proc[r] to end in "ok" or "err".
Queue(r, kind, amount) ==
  proc' = [proc EXCEPT ![r] = [at |-> "ensure", key |-> <<r, kind>>, amount |-> amount]]
Answered(r) == proc[r].at \in {"ok", "err"}
Succeeded(r) == proc[r].at = "ok"

(***************************************************************************)
(* decreaseTokenQuota, increaseTokenQuota, ExhaustTokenQuota.  keyNet      *)
(* follows the rows they change; the model has no other use for it.        *)
(***************************************************************************)
CanDecrease(amount) == token.remain >= amount

DecreaseTokenQuota(r, amount) ==
  /\ token' = [token EXCEPT !.remain = @ - amount, !.used = @ + amount]
  /\ keyNet' = [keyNet EXCEPT ![r] = @ + amount]

Mut_IncreaseForgetsUsed(r, amount) ==
  /\ token' = [token EXCEPT !.remain = @ + amount]
  /\ keyNet' = [keyNet EXCEPT ![r] = @ - amount]

IncreaseTokenQuota(r, amount) ==
  /\ token' = [token EXCEPT !.remain = @ + amount, !.used = @ - amount]
  /\ keyNet' = [keyNet EXCEPT ![r] = @ - amount]

ExhaustTokenQuota(r) ==
  /\ token' = [remain |-> 0, used |-> token.used + token.remain, status |-> "exhausted"]
  /\ keyNet' = [keyNet EXCEPT ![r] = @ + token.remain]

(***************************************************************************)
(* adjustUserBalance.  A key already in the ledger is a success that moves *)
(* nothing.  When the transaction is reported as failed the key is looked  *)
(* up, so a lost acknowledgement alone is harmless; the lookup has to fail *)
(* too.  The cache is invalidated afterwards, twice if need be, and a      *)
(* failure of that is ignored.                                             *)
(***************************************************************************)
CanDebit(r, kind, amount, settlement) ==
  \/ ledger[<<r, kind>>] # 0
  \/ IF settlement THEN checkedSettlementBalanceLedgerSum(user.quota, -amount)
                   ELSE checkedBalanceLedgerSum(user.quota, -amount)

Mut_DebitOffTheLedger(r, kind, amount, settlement) ==
  /\ user' = balanceLedgerUserUpdates(user, user.quota - amount, settlement)
  /\ UNCHANGED ledger

Debit(r, kind, amount, settlement) ==
  IF ledger[<<r, kind>>] # 0 THEN UNCHANGED <<user, ledger>>
  ELSE /\ user' = balanceLedgerUserUpdates(user, user.quota - amount, settlement)
       /\ ledger' = [ledger EXCEPT ![<<r, kind>>] = -amount]

TwoFaults == refundFaults + 1 < MaxRefundFaults /\ refundFaults' = refundFaults + 2

\* One debit with its outcomes: done, refused, failed, or done and lost.
DebitCall(r, kind, amount, settlement, onSuccess, onError) ==
  \/ /\ CanDebit(r, kind, amount, settlement)
     /\ Debit(r, kind, amount, settlement)
     /\ session' = [session EXCEPT ![r] = onSuccess]
     /\ NoRefundFault
  \/ /\ ~CanDebit(r, kind, amount, settlement)
     /\ session' = [session EXCEPT ![r] = onError]
     /\ NoRefundFault /\ UNCHANGED <<user, ledger>>
  \/ /\ session' = [session EXCEPT ![r] = onError]
     /\ RefundFault /\ UNCHANGED <<user, ledger>>
  \/ /\ CanDebit(r, kind, amount, settlement)
     /\ Debit(r, kind, amount, settlement)
     /\ session' = [session EXCEPT ![r] = onError]
     /\ TwoFaults

\* One change of the API key's row: done, failed, or done and lost.
KeyCall(r, can, Change, onSuccess, onRefused, onError) ==
  \/ can /\ Change /\ session' = [session EXCEPT ![r] = onSuccess] /\ NoRefundFault
  \/ /\ ~can
     /\ session' = [session EXCEPT ![r] = onRefused]
     /\ NoRefundFault /\ UNCHANGED <<token, keyNet>>
  \/ /\ session' = [session EXCEPT ![r] = onError]
     /\ RefundFault /\ UNCHANGED <<token, keyNet>>
  \/ can /\ Change /\ session' = [session EXCEPT ![r] = onError] /\ RefundFault
-------------------------------------------------------------------------------
(***************************************************************************)
(* NewBillingSession and preConsume: the API key first, the wallet second. *)
(* The check of the cached balance may see any older value, so it may let  *)
(* a request pass or refuse it whatever the row says.                      *)
(***************************************************************************)
NewBillingSession(r) ==
  /\ s(r).pc = "start"
  /\ \/ \E estimate \in Estimates :
          session' = [session EXCEPT ![r].target = estimate,
                        ![r].pc = IF estimate > 0 /\ Limited(r) THEN "token" ELSE "funding"]
     \/ SessionGoes(r, "rejected")
  /\ UNCHANGED <<refundVars, keyNet>>

PreConsumeTokenQuota(r) ==
  /\ s(r).pc = "token"
  /\ KeyCall(r, CanDecrease(s(r).target), DecreaseTokenQuota(r, s(r).target),
             [s(r) EXCEPT !.pc = "funding", !.tokenConsumed = s(r).target],
             [s(r) EXCEPT !.pc = "rejected"], [s(r) EXCEPT !.pc = "rejected"])
  /\ UNCHANGED <<user, ledger, row, proc, batch>>

AfterPreConsumeError(r) ==
  [s(r) EXCEPT !.pc = IF s(r).tokenConsumed > 0 THEN "rollback" ELSE "rejected"]

PreConsumeFunding(r) ==
  /\ s(r).pc = "funding"
  /\ LET opened == [s(r) EXCEPT !.pc = "open", !.preConsumed = s(r).target,
                                !.consumed = s(r).target]
     IN IF s(r).target = 0
          THEN /\ session' = [session EXCEPT ![r] = opened]
               /\ UNCHANGED <<user, ledger, refundFaults>>
          ELSE DebitCall(r, "wallet-preconsume", s(r).target, FALSE,
                         opened, AfterPreConsumeError(r))
  /\ UNCHANGED <<token, row, proc, batch, keyNet>>

\* The roll-back of the API key: queued and processed, an error is logged.
RollbackPreConsume(r) ==
  /\ s(r).pc = "rollback"
  /\ \/ /\ proc[r].at = "idle"
        /\ Queue(r, "token-preconsume", s(r).tokenConsumed)
        /\ UNCHANGED session
     \/ /\ Answered(r)
        /\ Return(r, "idle")
        /\ session' = [session EXCEPT ![r].pc = "rejected", ![r].tokenConsumed = 0]
  /\ UNCHANGED <<user, token, ledger, row, batch, refundFaults, keyNet>>
-------------------------------------------------------------------------------
(***************************************************************************)
(* Reserve: an extension before the request is sent.  The wallet first,    *)
(* then the API key; the wallet part is rolled back when the key refuses,  *)
(* and forgotten only when that roll-back reports success.                 *)
(***************************************************************************)
FundingExtension(r) == s(r).target - s(r).preConsumed
KeyExtension(r) == IF Limited(r) THEN s(r).target - s(r).tokenConsumed ELSE 0

Reserve(r) ==
  /\ s(r).pc = "open" /\ s(r).reserves < MaxReserves
  /\ \E target \in Estimates :
       /\ target > s(r).preConsumed
       /\ session' = [session EXCEPT ![r].target = target, ![r].pc = "reserveFunding",
                                     ![r].reserves = @ + 1]
  /\ UNCHANGED <<refundVars, keyNet>>

ReserveFunding(r) ==
  /\ s(r).pc = "reserveFunding"
  /\ LET taken == [s(r) EXCEPT !.consumed = @ + FundingExtension(r)]
     IN DebitCall(r, "wallet-reserve-debit", FundingExtension(r), FALSE,
                  IF KeyExtension(r) > 0 THEN [taken EXCEPT !.pc = "reserveToken"]
                  ELSE [taken EXCEPT !.pc = "open", !.preConsumed = s(r).target],
                  [s(r) EXCEPT !.pc = "open"])
  /\ UNCHANGED <<token, row, proc, batch, keyNet>>

ReserveToken(r) ==
  /\ s(r).pc = "reserveToken"
  /\ KeyCall(r, CanDecrease(KeyExtension(r)), DecreaseTokenQuota(r, KeyExtension(r)),
             [s(r) EXCEPT !.pc = "open", !.preConsumed = s(r).target,
                          !.tokenConsumed = s(r).target],
             [s(r) EXCEPT !.pc = "reserveRollback"],
             [s(r) EXCEPT !.pc = "reserveRollback"])
  /\ UNCHANGED <<user, ledger, row, proc, batch>>

RollbackReserve(r) ==
  /\ s(r).pc = "reserveRollback"
  /\ \/ /\ proc[r].at = "idle"
        /\ Queue(r, "wallet-reserve", FundingExtension(r))
        /\ UNCHANGED session
     \/ /\ Answered(r)
        /\ Return(r, "idle")
        /\ session' = [session EXCEPT ![r].pc = "open",
                         ![r].consumed = IF Succeeded(r) THEN @ - FundingExtension(r) ELSE @]
  /\ UNCHANGED <<user, token, ledger, row, batch, refundFaults, keyNet>>
-------------------------------------------------------------------------------
(***************************************************************************)
(* Settle(actual): the wallet first.  An error there ends the call with    *)
(* nothing settled; an error at the API key is logged and the session is   *)
(* settled all the same.                                                   *)
(***************************************************************************)
SettleSession(r) ==
  /\ s(r).pc = "open"
  /\ \E actual \in Actuals :
       session' = [session EXCEPT ![r].actual = actual, ![r].pc = "settle"]
  /\ UNCHANGED <<refundVars, keyNet>>

FundingDelta(r) == s(r).actual - s(r).preConsumed
TokenDelta(r) == IF Limited(r) THEN s(r).actual - s(r).tokenConsumed ELSE 0

FundingSettled(r) ==
  [s(r) EXCEPT !.pc = IF TokenDelta(r) = 0 THEN "settled" ELSE "settleToken",
               !.fundingSettled = TRUE]

SettleFunding(r) ==
  /\ s(r).pc = "settle"
  /\ \/ /\ FundingDelta(r) = 0
        /\ session' = [session EXCEPT ![r] = FundingSettled(r)]
        /\ UNCHANGED <<user, ledger, proc, refundFaults>>
     \/ /\ FundingDelta(r) > 0
        /\ DebitCall(r, "wallet-settle-debit", FundingDelta(r), TRUE,
                     FundingSettled(r), [s(r) EXCEPT !.pc = "settleFailed"])
        /\ UNCHANGED proc
     \/ /\ FundingDelta(r) < 0
        /\ Queue(r, "wallet-settle-refund", -FundingDelta(r))
        /\ SessionGoes(r, "settling")
        /\ UNCHANGED <<user, ledger, refundFaults>>
  /\ UNCHANGED <<token, row, batch, keyNet>>

SettleRefunded(r) ==
  /\ s(r).pc = "settling"
  /\ Answered(r)
  /\ Return(r, "idle")
  /\ session' = [session EXCEPT ![r] = IF Succeeded(r) THEN FundingSettled(r)
                                       ELSE [s(r) EXCEPT !.pc = "settleFailed"]]
  /\ UNCHANGED <<user, token, ledger, row, batch, refundFaults, keyNet>>

SettleToken(r) ==
  /\ s(r).pc = "settleToken"
  /\ LET done == [s(r) EXCEPT !.pc = "settled"]
     IN IF TokenDelta(r) > 0
          THEN KeyCall(r, CanDecrease(TokenDelta(r)), DecreaseTokenQuota(r, TokenDelta(r)),
                       done, [s(r) EXCEPT !.pc = "exhaust"], done)
          ELSE KeyCall(r, TRUE, IncreaseTokenQuota(r, -TokenDelta(r)), done, done, done)
  /\ UNCHANGED <<user, ledger, row, proc, batch>>

SettleExhaust(r) ==
  /\ s(r).pc = "exhaust"
  /\ LET done == [s(r) EXCEPT !.pc = "settled"]
     IN KeyCall(r, TRUE, ExhaustTokenQuota(r), done, done, done)
  /\ UNCHANGED <<user, ledger, row, proc, batch>>

\* Settle called again with the same usage (only where callers repeat it).
SettleAgain(r) ==
  /\ CallersRetry
  /\ s(r).pc = "settleFailed"
  /\ SessionGoes(r, "settle")
  /\ UNCHANGED <<refundVars, keyNet>>
-------------------------------------------------------------------------------
(***************************************************************************)
(* Refund: the API key first; the wallet only after the key's credit has   *)
(* been reported as processed.                                             *)
(***************************************************************************)
NeedsRefund(r) ==
  /\ ~s(r).fundingSettled
  /\ s(r).preConsumed > 0 \/ s(r).tokenConsumed > 0

RefundSession(r) ==
  /\ s(r).pc = "open" \/ (CallersRetry /\ s(r).pc = "refundFailed")
  /\ SessionGoes(r, IF NeedsRefund(r) THEN "refund" ELSE "refunded")
  /\ UNCHANGED <<refundVars, keyNet>>

RefundToken(r) ==
  /\ s(r).pc = "refund"
  /\ IF ~s(r).tokenRefunded /\ s(r).tokenConsumed > 0
       THEN Queue(r, "token", s(r).tokenConsumed) /\ SessionGoes(r, "tokenRefunding")
       ELSE /\ session' = [session EXCEPT ![r].pc = "fundingRefund",
                                          ![r].tokenRefunded = TRUE]
            /\ UNCHANGED proc
  /\ UNCHANGED <<user, token, ledger, row, batch, refundFaults, keyNet>>

TokenRefunded(r) ==
  /\ s(r).pc = "tokenRefunding"
  /\ Answered(r)
  /\ Return(r, "idle")
  /\ session' = [session EXCEPT ![r].pc = IF Succeeded(r) THEN "fundingRefund"
                                          ELSE "refundFailed",
                                ![r].tokenRefunded = Succeeded(r)]
  /\ UNCHANGED <<user, token, ledger, row, batch, refundFaults, keyNet>>

RefundFunding(r) ==
  /\ s(r).pc = "fundingRefund"
  /\ IF s(r).consumed > 0
       THEN Queue(r, "wallet", s(r).consumed) /\ SessionGoes(r, "fundingRefunding")
       ELSE SessionGoes(r, "refunded") /\ UNCHANGED proc
  /\ UNCHANGED <<user, token, ledger, row, batch, refundFaults, keyNet>>

FundingRefunded(r) ==
  /\ s(r).pc = "fundingRefunding"
  /\ Answered(r)
  /\ Return(r, "idle")
  /\ SessionGoes(r, IF Succeeded(r) THEN "refunded" ELSE "refundFailed")
  /\ UNCHANGED <<user, token, ledger, row, batch, refundFaults, keyNet>>
-------------------------------------------------------------------------------
\* The process that runs the request stops: its session is gone.
SessionCrash(r) ==
  /\ s(r).pc \notin SessionEnded \cup {"start"}
  /\ SessionGoes(r, "lost")
  /\ Return(r, "idle")
  /\ RefundFault
  /\ UNCHANGED <<user, token, ledger, row, batch, keyNet>>

\* keyNet follows a credit of the API key that the queue applies.
KeyNetFollowsCredits(a) ==
  keyNet' = IF token' = token THEN keyNet
            ELSE [keyNet EXCEPT ![proc[a].key[1]] = @ - (token'.remain - token.remain)]

SessionStep(r) ==
  \/ NewBillingSession(r) \/ PreConsumeTokenQuota(r) \/ PreConsumeFunding(r)
  \/ RollbackPreConsume(r)
  \/ Reserve(r) \/ ReserveFunding(r) \/ ReserveToken(r) \/ RollbackReserve(r)
  \/ SettleSession(r) \/ SettleFunding(r) \/ SettleRefunded(r) \/ SettleToken(r)
  \/ SettleExhaust(r) \/ SettleAgain(r)
  \/ RefundSession(r) \/ RefundToken(r) \/ TokenRefunded(r) \/ RefundFunding(r)
  \/ FundingRefunded(r)
  \/ SessionCrash(r)

RequestRefund(r) ==
  /\ EnsureBillingRefundPending(r) \/ ProcessBillingRefundPending(r)
  /\ KeyNetFollowsCredits(r)
  /\ UNCHANGED session

WorkerStep ==
  /\ ProcessPendingBillingRefunds
  /\ KeyNetFollowsCredits(Compensator)
  /\ UNCHANGED session

WorkerRestart == WorkerCrash /\ UNCHANGED <<session, keyNet>>

SessionsNext ==
  \/ \E r \in Requests : SessionStep(r) \/ RequestRefund(r)
  \/ WorkerStep
  \/ WorkerRestart

SessionsSpec == SessionsInit /\ [][SessionsNext]_sessionVars

(***************************************************************************)
(* The ticker starts a pass every minute for as long as the master runs,   *)
(* and a pass takes every row it found: the worker is weakly fair.         *)
(***************************************************************************)
SessionsFairSpec == SessionsSpec /\ WF_sessionVars(WorkerStep)
-------------------------------------------------------------------------------
(***************************************************************************)
(* Properties.                                                             *)
(***************************************************************************)
WalletNet(r) ==   \* what the ledger says the request has cost the wallet
  -(ledger[<<r, "wallet-preconsume">>] + ledger[<<r, "wallet-settle-debit">>]
    + ledger[<<r, "wallet-reserve-debit">>] + ledger[<<r, "wallet">>]
    + ledger[<<r, "wallet-settle-refund">>] + ledger[<<r, "wallet-reserve">>])

Unpaid(k) == IF row[k].status = "pending" THEN row[k].amount ELSE 0

\* A request is never given back more than was taken for it, by the wallet or
\* by the API key, whichever of the request and the worker processes the rows
\* and whatever is repeated: also when every open row is paid.
NotOverRefunded(r) ==
  /\ WalletNet(r) >= Unpaid(<<r, "wallet">>) + Unpaid(<<r, "wallet-settle-refund">>)
                     + Unpaid(<<r, "wallet-reserve">>)
  /\ keyNet[r] >= Unpaid(<<r, "token">>) + Unpaid(<<r, "token-preconsume">>)

NeverOverRefunded == \A r \in Requests : NotOverRefunded(r)

\* A session that reports a settlement has charged the wallet exactly the
\* actual usage, and one that reports a refund has left nothing charged.
OutcomeHolds(r) ==
  /\ s(r).fundingSettled => WalletNet(r) = s(r).actual
  /\ s(r).pc = "refunded" => WalletNet(r) = 0 /\ (Limited(r) => keyNet[r] = 0)

\* The balance is the opening balance plus the ledger's rows, and the API
\* key's two columns account for every request that used it; a request whose
\* session was not extended pays what it reports, and is never promised more
\* than it paid.  (An extension that is rolled back may be: NeverOverRefunded.)
BalancesAreAccounted ==
  /\ user.quota = InitialQuota - SumFunction([r \in Requests |-> WalletNet(r)])
  /\ token.used = SumFunction([r \in Requests |-> keyNet[r]])
  /\ token.remain + token.used = InitialTokenQuota
  /\ \A r \in Requests : s(r).reserves = 0 => OutcomeHolds(r) /\ NotOverRefunded(r)

\* Every open row leaves the queue: paid and completed, or a dead letter after
\* the attempts the code allows.
EveryRefundLeavesTheQueue ==
  \A k \in RefundKeys :
    (row[k].status \in Open) ~> (row[k].status \in {"completed", "dead_letter"})

\* A closed row stays closed and keeps its amount, and a paid row never
\* becomes payable again.
RefundRowsMoveForward ==
  [][\A k \in RefundKeys :
       /\ row[k].status \in {"completed", "dead_letter"} => row'[k] = row[k]
       /\ row[k].status = "applied" => row'[k].status # "pending"
       /\ row[k].status # "none" => row'[k].amount = row[k].amount]_sessionVars

(***************************************************************************)
(* Three readings of the comments that the code does not keep.             *)
(***************************************************************************)
\* "BillingRefundPending is the durable hand-off between request cleanup and
\* the background compensator": a cleanup that could write the API key's row
\* has handed the wallet's part over as well, whatever Redis answered.
CleanupHandedOver ==
  \A r \in Requests :
    s(r).pc = "refundFailed" /\ row[<<r, "token">>].status # "none" =>
      WalletNet(r) = Unpaid(<<r, "wallet">>)

\* "If any step fails, the completed steps are rolled back atomically": when
\* the roll-back of the API key ends, what the key lacks is in the queue.
RollbackCompletes ==
  [][\A r \in Requests :
       s(r).pc = "rollback" /\ s(r)'.pc = "rejected" =>
         keyNet'[r] = Unpaid(<<r, "token-preconsume">>)']_sessionVars

\* "billing refunds require manual recovery: dead_letters": a dead letter is a
\* credit that was not given.
DeadLetterUnpaid ==
  \A k \in RefundKeys :
    k[2] \in WalletKeys /\ row[k].status = "dead_letter" => ledger[k] = 0
===============================================================================
