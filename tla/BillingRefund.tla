---------------------------- MODULE BillingRefund ----------------------------
(***************************************************************************)
(* The durable refund queue (model/billing_refund.go) and its compensator  *)
(* (service/billing_refund_task.go).  A request hands a credit over as a   *)
(* row with an idempotency key and processes it at once; a worker on the   *)
(* master node processes every row left open, once a minute.  Both run     *)
(* ProcessBillingRefundPending, on the same row at the same time if it so  *)
(* happens: a transaction that credits the wallet or the API key, the      *)
(* invalidation of a Redis cache entry, and the update that completes the  *)
(* row are three separate steps, each of which may fail, or succeed and be *)
(* reported as failed.                                                     *)
(***************************************************************************)
EXTENDS LedgerArithmetic, FiniteSets

CONSTANTS Requests,       \* the relay requests of one user and one API key
          Compensator,         \* the compensator
          MaxRefundAttempts, \* BillingRefundMaxAttempts, 10 in the code
          MaxRefundFaults       \* bound: failed calls and crashes of a behaviour

ASSUME RefundAssumption ==
  /\ IsFiniteSet(Requests)
  /\ Compensator \notin Requests
  /\ MaxRefundAttempts \in Nat \ {0}
  /\ MaxRefundFaults \in Nat

VARIABLES user,    \* the wallet's row
          token,   \* the API key's quota columns
          ledger,  \* the balance ledger: delta per request and key, 0 if absent
          row,     \* billing_refund_pendings, by idempotency key
          proc,    \* where each actor is inside queueAndProcessBillingRefund
          batch,   \* the rows the worker still visits in this pass
          refundFaults   \* failures so far

refundVars == <<user, token, ledger, row, proc, batch, refundFaults>>

Actors == Requests \cup {Compensator}

(***************************************************************************)
(* The kinds a request queues a credit under.                              *)
(***************************************************************************)
TokenKeys == {"token-preconsume", "token"}
WalletKeys == {"wallet", "wallet-settle-refund", "wallet-reserve"}
DebitKeys == {"wallet-preconsume", "wallet-settle-debit", "wallet-reserve-debit"}
RefundKeys == Requests \X (TokenKeys \cup WalletKeys)
NoKey == <<>>

Open == {"pending", "applied"}
RowType == [status : {"none", "completed", "dead_letter"} \cup Open,
            amount : 0..MaxQuota, attempts : 0..MaxRefundAttempts]
NoRow == [status |-> "none", amount |-> 0, attempts |-> 0]

ProcType == [at : {"idle", "ensure", "tx", "sync", "complete", "failed", "ok", "err"},
             key : RefundKeys \cup {NoKey}, amount : 0..MaxQuota]
At(step) == [at |-> step, key |-> NoKey, amount |-> 0]

TokenType == [remain : 0..MaxQuota, used : 0..MaxQuota, status : {"enabled", "exhausted"}]

\* The columns keep their ranges, also when credits and debits interleave.
RefundTypeOK ==
  /\ user \in UserType
  /\ token \in TokenType
  /\ ledger \in [Requests \X (WalletKeys \cup DebitKeys) -> -MaxQuota..MaxQuota]
  /\ row \in [RefundKeys -> RowType]
  /\ proc \in [Actors -> ProcType]
  /\ batch \subseteq RefundKeys
  /\ refundFaults \in 0..MaxRefundFaults

RefundInit(quota, tokenQuota) ==
  /\ user = [quota |-> quota, used |-> 0, status |-> "enabled",
             debtSuspended |-> FALSE, deleted |-> FALSE]
  /\ token = [remain |-> tokenQuota, used |-> 0, status |-> "enabled"]
  /\ ledger = [k \in Requests \X (WalletKeys \cup DebitKeys) |-> 0]
  /\ row = [k \in RefundKeys |-> NoRow]
  /\ proc = [a \in Actors |-> At("idle")]
  /\ batch = {}
  /\ refundFaults = 0
-------------------------------------------------------------------------------
NoRefundFault == UNCHANGED refundFaults
RefundFault == refundFaults < MaxRefundFaults /\ refundFaults' = refundFaults + 1

Goto(a, step) == proc' = [proc EXCEPT ![a].at = step]
Return(a, result) == proc' = [proc EXCEPT ![a] = At(result)]

(***************************************************************************)
(* EnsureBillingRefundPending: find the row of the key or create it; a row *)
(* that asks something else is a conflict.                                 *)
(***************************************************************************)
EnsuredRow(k, amount) ==
  IF row[k].status = "none"
    THEN [row EXCEPT ![k] = [status |-> "pending", amount |-> amount, attempts |-> 0]]
    ELSE row

EnsureBillingRefundPending(a) ==
  /\ proc[a].at = "ensure"
  /\ LET k == proc[a].key
         conflict == row[k].status # "none" /\ row[k].amount # proc[a].amount
     IN \/ /\ row' = EnsuredRow(k, proc[a].amount)
           /\ IF conflict THEN Return(a, "err") ELSE Goto(a, "tx")
           /\ NoRefundFault
        \/ \* the insert fails, or its acknowledgement is lost
           /\ row' \in {row, EnsuredRow(k, proc[a].amount)}
           /\ Return(a, "err")
           /\ RefundFault
  /\ UNCHANGED <<user, token, ledger, batch>>

(***************************************************************************)
(* The credit itself.  The wallet takes what fits its column and only once *)
(* per ledger key; the API key takes back no more than it has used.        *)
(***************************************************************************)
CanApply(k) ==
  IF k[2] \in TokenKeys
    THEN token.used >= row[k].amount
    ELSE ledger[k] = 0 /\ checkedBalanceLedgerSum(user.quota, row[k].amount)

Apply(k) ==
  /\ IF k[2] \in TokenKeys
       THEN /\ token' = [token EXCEPT !.remain = @ + row[k].amount,
                                      !.used = @ - row[k].amount]
            /\ UNCHANGED <<user, ledger>>
       ELSE /\ user' = balanceLedgerUserUpdates(user, user.quota + row[k].amount, FALSE)
            /\ ledger' = [ledger EXCEPT ![k] = @ + row[k].amount]
            /\ UNCHANGED token
  /\ row' = [row EXCEPT ![k].status = "applied"]

(***************************************************************************)
(* The first step of ProcessBillingRefundPending, under the row's lock.    *)
(***************************************************************************)
ToApply(k) == row[k].status = "pending"

ProcessTx(a) ==
  /\ proc[a].at = "tx"
  /\ LET k == proc[a].key IN
     \/ \* the transaction runs and is acknowledged
        /\ NoRefundFault
        /\ \/ ToApply(k) /\ CanApply(k) /\ Apply(k) /\ Goto(a, "sync")
           \/ /\ ~(ToApply(k) /\ CanApply(k))
              /\ CASE row[k].status = "pending" -> Goto(a, "failed")
                   [] row[k].status = "applied" -> Goto(a, "sync")
                   [] row[k].status = "dead_letter" -> Return(a, "err")
                   [] OTHER -> Return(a, "ok")
              /\ UNCHANGED <<user, token, ledger, row>>
     \/ \* it fails
        /\ RefundFault
        /\ Goto(a, "failed")
        /\ UNCHANGED <<user, token, ledger, row>>
     \/ \* it commits and is reported as failed
        /\ RefundFault
        /\ ToApply(k) /\ CanApply(k) /\ Apply(k)
        /\ Goto(a, "failed")
  /\ UNCHANGED batch

\* syncBillingRefundCache: Redis drops the entry or cannot be reached.
syncBillingRefundCache(a) ==
  /\ proc[a].at = "sync"
  /\ \/ Goto(a, "complete") /\ NoRefundFault
     \/ Goto(a, "failed") /\ RefundFault
  /\ UNCHANGED <<user, token, ledger, row, batch>>

\* recordBillingRefundFailure: one more attempt on an open row; the last one
\* closes it, whatever the row has already done.  Its own error is dropped.
Failed(r) ==
  IF r.status \in Open /\ r.attempts < MaxRefundAttempts
    THEN [r EXCEPT !.attempts = @ + 1,
                   !.status = IF r.attempts + 1 >= MaxRefundAttempts THEN "dead_letter" ELSE @]
    ELSE r

recordBillingRefundFailure(a) ==
  /\ proc[a].at = "failed"
  /\ \/ row' = [row EXCEPT ![proc[a].key] = Failed(@)] /\ NoRefundFault
     \/ UNCHANGED row /\ RefundFault
  /\ Return(a, "err")
  /\ UNCHANGED <<user, token, ledger, batch>>

\* The last update: applied becomes completed, any other status stays.
CompletedRow(k) ==
  [row EXCEPT ![k].status = IF @ = "applied" THEN "completed" ELSE @]

CompleteRefund(a) ==
  /\ proc[a].at = "complete"
  /\ \/ row' = CompletedRow(proc[a].key) /\ Return(a, "ok") /\ NoRefundFault
     \/ row' \in {row, CompletedRow(proc[a].key)} /\ Return(a, "err") /\ RefundFault
  /\ UNCHANGED <<user, token, ledger, batch>>

ProcessBillingRefundPending(a) ==
  \/ ProcessTx(a)
  \/ syncBillingRefundCache(a)
  \/ recordBillingRefundFailure(a)
  \/ CompleteRefund(a)
-------------------------------------------------------------------------------
(***************************************************************************)
(* The worker: one pass at a time (billingRefundRetryRunning) over the     *)
(* rows it found open; an error on a row does not end the pass.  The rows  *)
(* of the model fit one batch.                                             *)
(***************************************************************************)
\* Mut_* definitions are deliberate misreadings used to test properties.
Mut_PendingOnly == {k \in RefundKeys : row[k].status = "pending"}

OpenRows == {k \in RefundKeys : row[k].status \in Open}

ScanPending ==
  /\ proc[Compensator].at = "idle" /\ batch = {}
  /\ OpenRows # {}
  /\ batch' = OpenRows
  /\ UNCHANGED <<user, token, ledger, row, proc, refundFaults>>

NextRefund ==
  /\ proc[Compensator].at \in {"idle", "ok", "err"}
  /\ IF batch = {}
       THEN /\ proc[Compensator].at # "idle"
            /\ Return(Compensator, "idle")
            /\ UNCHANGED batch
       ELSE \E k \in batch :
              /\ proc' = [proc EXCEPT ![Compensator] = [at |-> "tx", key |-> k, amount |-> 0]]
              /\ batch' = batch \ {k}
  /\ UNCHANGED <<user, token, ledger, row, refundFaults>>

\* The master process stops and starts again.
WorkerCrash ==
  /\ proc[Compensator].at # "idle" \/ batch # {}
  /\ Return(Compensator, "idle") /\ batch' = {}
  /\ RefundFault
  /\ UNCHANGED <<user, token, ledger, row>>

ProcessPendingBillingRefunds ==
  \/ ScanPending
  \/ NextRefund
  \/ ProcessBillingRefundPending(Compensator)
===============================================================================
