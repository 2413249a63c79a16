--------------------------- MODULE SupplierRefund ---------------------------
(***************************************************************************)
(* Supplier refunds (model/ztapi_supplier_refund.go and                    *)
(* ztapi_supplier_refund_amount.go).  A supplier reverses usage of an      *)
(* attempt it had billed; finance staff submit and approve the proof, and  *)
(* the customer gets back what those units were charged.  Refunds of one   *)
(* charge accumulate dimension by dimension, with the original rounding.   *)
(*                                                                         *)
(* ProcessZTAPISupplierRefund is one transaction under the request's row   *)
(* lock (one action) followed by four unlocked steps: read the row, drop   *)
(* the caches, clear the row's cache_sync_pending under its revision, mark *)
(* the refund completed.  The admin handler and the retry loop both run it.*)
(***************************************************************************)
EXTENDS Integers, Sequences, FiniteSets, Functions

CONSTANTS Refunds,      \* proof identities (source, proof id), ids 1..n
          Dims,         \* charge dimensions
          ChargeOf,     \* attempt -> dimension -> [units, num, den, charged, token]
          FinalAttempt, \* the attempt the settlement charged
          ReversedAttempt,    \* refund -> the attempt whose usage is reversed
          ModeOf,       \* refund -> "full" or "partial"
          UnitsOf,      \* refund -> dimension -> units; 0 is no line
          RefundWorkers,      \* the retry loop's node and the admin handlers
          RetryLimit,   \* rows per retry pass; 0: the pass returns at once
          StartBalance, WalletMax,
          MaxRefundFaults     \* bound on failed cache calls, crashes and deletions

ChargedAttempts == DOMAIN ChargeOf

ASSUME SupplierRefundAssumption ==
    /\ Refunds \subseteq Nat \ {0}
    /\ IsFiniteSet(Refunds) /\ IsFiniteSet(Dims) /\ IsFiniteSet(ChargedAttempts)
    /\ ReversedAttempt \in [Refunds -> ChargedAttempts]
    /\ ModeOf \in [Refunds -> {"full", "partial"}]
    /\ UnitsOf \in [Refunds -> [Dims -> Nat]]
    /\ \A k \in Refunds : (ModeOf[k] = "full") <=> (\A d \in Dims : UnitsOf[k][d] = 0)
    /\ RetryLimit \in Nat /\ MaxRefundFaults \in Nat
    /\ StartBalance \in 0..WalletMax /\ WalletMax \in Nat
    /\ ChargeOf \in [ChargedAttempts -> [Dims ->
         [units : Nat \ {0}, num : Nat, den : Nat \ {0}, charged : Nat, token : Nat]]]
    /\ \A a \in ChargedAttempts, d \in Dims :
         LET c == ChargeOf[a][d] IN
         /\ c.token <= c.charged
         /\ c.charged - ((c.units * c.num) \div c.den) \in {0, 1}

VARIABLES
    anchored,   \* attempts that have a charge anchor; the final one = settled
    progress,   \* attempt -> dimension -> [units, quota, token] refunded so far
    refunded,   \* attempt -> the anchor's own running totals [quota, token]
    reqRefunded,\* the request row's refunded_quota
    wallet, tokenRemain,
    deleted,    \* the owner was deleted
    refund,     \* refund -> [status, quota, token]; at: the revision it was applied in
    approved,   \* refunds with an approval row
    fresh, tried, \* retry order: never attempted by id, then by last attempt
    batch,      \* the rows the retry pass has yet to process
    worker,     \* worker -> [pc, refund, rev, flag]; the row as it was read
    rev,        \* the request row's updated_at
    syncPending,\* the request row's cache_sync_pending
    dropped,    \* the revision current when the caches were last dropped
    refundFaults

money == <<anchored, progress, refunded, reqRefunded, wallet, tokenRemain>>
retryQueue == <<fresh, tried, batch>>
cache == <<syncPending, dropped>>
refundVars == <<money, deleted, refund, approved, retryQueue, worker, rev, cache, refundFaults>>

NoRefund == [status |-> "none", quota |-> 0, token |-> 0, at |-> 0]
IdleCall == [pc |-> "idle", refund |-> 0, rev |-> 0, flag |-> FALSE]
NoProgress == [units |-> 0, quota |-> 0, token |-> 0]

RefundInit ==
    /\ anchored = {}
    /\ progress = [a \in ChargedAttempts |-> [d \in Dims |-> NoProgress]]
    /\ refunded = [a \in ChargedAttempts |-> [quota |-> 0, token |-> 0]]
    /\ reqRefunded = 0
    /\ wallet = StartBalance /\ tokenRemain = 0
    /\ deleted = FALSE
    /\ refund = [k \in Refunds |-> NoRefund]
    /\ approved = {}
    /\ fresh = <<>> /\ tried = <<>> /\ batch = <<>>
    /\ worker = [w \in RefundWorkers |-> IdleCall]
    /\ rev = 0 /\ syncPending = FALSE /\ dropped = 0
    /\ refundFaults = 0

RefundFault == refundFaults < MaxRefundFaults /\ refundFaults' = refundFaults + 1

-----------------------------------------------------------------------------
(* planZTAPISupplierRefund: cumulative targets, so that what is refunded     *)
(* depends on the units reversed and not on how they were split.             *)

\* Mut_* definitions are deliberate misreadings used to test properties.
Mut_TargetRoundsUp(c, units) ==
    LET ceiling == (units * c.num + c.den - 1) \div c.den IN
    IF ceiling > c.charged THEN c.charged ELSE ceiling

ztapiSupplierRefundTarget(c, units) ==
    IF units = c.units THEN c.charged
    ELSE LET floor == (units * c.num) \div c.den IN
         IF floor > c.charged THEN c.charged ELSE floor

PlanUnits(k, d) ==
    LET a == ReversedAttempt[k] IN
    IF ModeOf[k] = "full" THEN ChargeOf[a][d].units
    ELSE progress[a][d].units + UnitsOf[k][d]

PlanDim(k, d) ==
    LET c == ChargeOf[ReversedAttempt[k]][d]
        units == PlanUnits(k, d)
        quota == ztapiSupplierRefundTarget(c, units)
    IN [units |-> units, quota |-> quota,
        token |-> CASE c.token = c.charged -> quota
                    [] c.token # c.charged /\ units = c.units -> c.token
                    [] OTHER -> progress[ReversedAttempt[k]][d].token]

\* A line of a dimension whose token share is only known for the whole
\* dimension cannot be split.
PlanOK(k) ==
    \A d \in Dims :
        LET c == ChargeOf[ReversedAttempt[k]][d] IN
        /\ PlanUnits(k, d) <= c.units
        /\ ~(/\ c.token \notin {0, c.charged} /\ UnitsOf[k][d] > 0
             /\ PlanUnits(k, d) # c.units)

Plan(k) == [d \in Dims |-> PlanDim(k, d)]

PlanQuota(k) ==
    SumFunctionOnSet([d \in Dims |-> PlanDim(k, d).quota
                                       - progress[ReversedAttempt[k]][d].quota], Dims)
PlanToken(k) ==
    SumFunctionOnSet([d \in Dims |-> PlanDim(k, d).token
                                       - progress[ReversedAttempt[k]][d].token], Dims)

Charged(a) == SumFunctionOnSet([d \in Dims |-> ChargeOf[a][d].charged], Dims)
TokenCharged(a) == SumFunctionOnSet([d \in Dims |-> ChargeOf[a][d].token], Dims)

-----------------------------------------------------------------------------
(* The request and its proofs                                               *)

\* Settlement anchors the final attempt; an approved extra attempt anchors
\* the other.
RecordZTAPISupplierRefundChargeTx(a) ==
    /\ a \notin anchored
    /\ a # FinalAttempt => FinalAttempt \in anchored
    /\ anchored' = anchored \cup {a}
    /\ rev' = rev + 1 /\ syncPending' = TRUE
    /\ UNCHANGED <<progress, refunded, reqRefunded, wallet, tokenRemain, deleted,
                   refund, approved, retryQueue, worker, dropped, refundFaults>>

DeleteOwner ==
    /\ RefundFault /\ ~deleted /\ deleted' = TRUE
    /\ UNCHANGED <<money, refund, approved, retryQueue, worker, rev, cache>>

\* One row per proof identity; the same identity with another payload is a
\* conflict and changes nothing.
SubmitZTAPISupplierRefund(k) ==
    /\ refund[k].status = "none"
    /\ refund' = [refund EXCEPT ![k].status = "pending"]
    /\ fresh' = SelectSeq(fresh, LAMBDA j : j < k) \o <<k>>
                \o SelectSeq(fresh, LAMBDA j : j > k)
    /\ UNCHANGED <<money, deleted, approved, tried, batch, worker, rev, cache, refundFaults>>

\* The admin handler approves and then processes.
ApproveZTAPISupplierRefund(w, k) ==
    /\ worker[w] = IdleCall
    /\ refund[k].status # "none"
    /\ approved' = approved \cup {k}
    /\ worker' = [worker EXCEPT ![w] = [IdleCall EXCEPT !.pc = "tx", !.refund = k]]
    /\ UNCHANGED <<money, deleted, refund, retryQueue, rev, cache, refundFaults>>

-----------------------------------------------------------------------------
(* ProcessZTAPISupplierRefund                                               *)

\* Everything that must hold before money moves; otherwise the refund stays
\* pending with a reason.
RefundEligible(k) ==
    LET a == ReversedAttempt[k] IN
    /\ k \in approved
    /\ FinalAttempt \in anchored
    /\ ~deleted
    /\ a \in anchored
    /\ SumFunctionOnSet([b \in ChargedAttempts |-> refunded[b].quota], ChargedAttempts)
         = reqRefunded
    /\ PlanOK(k)
    /\ PlanQuota(k) <= Charged(a) - refunded[a].quota
    /\ PlanToken(k) <= TokenCharged(a) - refunded[a].token

\* The writes of the transaction: wallet and token, progress and totals of
\* the anchor and of the request, and the refund itself.
CreditRefund(w, k) ==
    LET a == ReversedAttempt[k] IN
    /\ progress' = [progress EXCEPT ![a] = Plan(k)]
    /\ refunded' = [refunded EXCEPT ![a] = [quota |-> @.quota + PlanQuota(k),
                                            token |-> @.token + PlanToken(k)]]
    /\ wallet' = wallet + PlanQuota(k)
    /\ tokenRemain' = tokenRemain + PlanToken(k)
    /\ reqRefunded' = reqRefunded + PlanQuota(k)
    /\ rev' = rev + 1 /\ syncPending' = TRUE
    /\ refund' = [refund EXCEPT ![k] = [status |-> "applied", quota |-> PlanQuota(k),
                                        token |-> PlanToken(k), at |-> rev + 1]]
    /\ worker' = [worker EXCEPT ![w].pc = "read"]
    /\ UNCHANGED <<anchored, deleted, approved, retryQueue, dropped, refundFaults>>

\* The transaction that moves the money.
ApplyRefund(w) ==
    LET k == worker[w].refund IN
    /\ worker[w].pc = "tx" /\ refund[k].status = "pending"
    /\ RefundEligible(k) /\ wallet + PlanQuota(k) <= WalletMax
    /\ CreditRefund(w, k)

\* Not eligible (stays pending), over the balance limit (an error), or already
\* completed: the call ends.
RefundNotApplied(w) ==
    LET k == worker[w].refund IN
    /\ worker[w].pc = "tx"
    /\ \/ refund[k].status = "completed"
       \/ refund[k].status = "pending"
          /\ ~(RefundEligible(k) /\ wallet + PlanQuota(k) <= WalletMax)
    /\ worker' = [worker EXCEPT ![w] = IdleCall]
    /\ UNCHANGED <<money, deleted, refund, approved, retryQueue, rev, cache, refundFaults>>

\* Already applied: only the caches are left to do.
RefundAlreadyApplied(w) ==
    /\ worker[w].pc = "tx"
    /\ refund[worker[w].refund].status = "applied"
    /\ worker' = [worker EXCEPT ![w].pc = "read"]
    /\ UNCHANGED <<money, deleted, refund, approved, retryQueue, rev, cache, refundFaults>>

\* The row is read again after the commit, then both caches are dropped.
ReadRow(w) ==
    /\ worker[w].pc = "read"
    /\ worker' = [worker EXCEPT ![w].pc = "drop", ![w].rev = rev,
                                        ![w].flag = syncPending]
    /\ UNCHANGED <<money, deleted, refund, approved, retryQueue, rev, cache, refundFaults>>

Mut_DropCachesIgnoresError(w) ==
    /\ worker[w].pc = "drop"
    /\ worker' = [worker EXCEPT ![w].pc = "clear"]
    /\ UNCHANGED <<money, deleted, refund, approved, retryQueue, rev, cache, refundFaults>>

DropCaches(w) ==
    /\ worker[w].pc = "drop"
    /\ dropped' = rev
    /\ worker' = [worker EXCEPT ![w].pc = "clear"]
    /\ UNCHANGED <<money, deleted, refund, approved, retryQueue, rev, syncPending, refundFaults>>

\* The call ends, with an error if the row as read still says pending;
\* otherwise the refund may be completed.
Synced(call, flag) ==
    IF flag \/ call.refund = 0 THEN IdleCall ELSE [call EXCEPT !.pc = "complete"]

AfterSync(w, flag) == worker' = [worker EXCEPT ![w] = Synced(worker[w], flag)]

\* Redis is unreachable: the flag stays.
DropCachesFails(w) ==
    /\ worker[w].pc = "drop" /\ RefundFault
    /\ AfterSync(w, worker[w].flag)
    /\ UNCHANGED <<money, deleted, refund, approved, retryQueue, rev, cache>>

\* The flag is cleared only if the row is still the one that was read.
ClearSyncPending(w) ==
    /\ worker[w].pc = "clear"
    /\ IF worker[w].rev = rev
       THEN syncPending' = FALSE /\ AfterSync(w, FALSE)
       ELSE UNCHANGED syncPending /\ AfterSync(w, worker[w].flag)
    /\ UNCHANGED <<money, deleted, refund, approved, retryQueue, rev, dropped, refundFaults>>

CompleteRefund(w) ==
    LET k == worker[w].refund IN
    /\ worker[w].pc = "complete"
    /\ refund' = IF refund[k].status = "applied"
                 THEN [refund EXCEPT ![k].status = "completed"] ELSE refund
    /\ worker' = [worker EXCEPT ![w] = IdleCall]
    /\ UNCHANGED <<money, deleted, approved, retryQueue, rev, cache, refundFaults>>

RefundCrash(w) ==
    /\ worker[w] # IdleCall /\ RefundFault
    /\ worker' = [worker EXCEPT ![w] = IdleCall]
    /\ batch' = <<>>
    /\ UNCHANGED <<money, deleted, refund, approved, fresh, tried, rev, cache>>

-----------------------------------------------------------------------------
(* The retry loop                                                           *)

Open(k) == refund[k].status \in {"pending", "applied"}

\* Rows ordered by last_attempt_at, then id; 0 (never attempted) is first.
RetryRows ==
    LET due == SelectSeq(fresh \o tried, Open) IN
    SubSeq(due, 1, IF Len(due) < RetryLimit THEN Len(due) ELSE RetryLimit)

StartRetry ==
    /\ batch = <<>> /\ RetryRows # <<>>
    /\ batch' = RetryRows
    /\ UNCHANGED <<money, deleted, refund, approved, fresh, tried, worker, rev, cache,
                   refundFaults>>

Without(s, k) == SelectSeq(s, LAMBDA j : j # k)

\* last_attempt_at is committed before the refund is processed, and only for a
\* row that is still open.
RetryZTAPISupplierRefunds(w, k) ==
    /\ batch # <<>> /\ k = Head(batch) /\ worker[w] = IdleCall
    /\ batch' = Tail(batch)
    /\ IF Open(k)
       THEN /\ fresh' = Without(fresh, k)
            /\ tried' = Append(Without(tried, k), k)
       ELSE UNCHANGED <<fresh, tried>>
    /\ worker' = [worker EXCEPT ![w] = [IdleCall EXCEPT !.pc = "tx", !.refund = k]]
    /\ UNCHANGED <<money, deleted, refund, approved, rev, cache, refundFaults>>

\* The maintenance pass over rows whose caches were not dropped; a plain
\* settlement drops its own the same way.
RetryZTAPISettlementCaches(w) ==
    /\ worker[w] = IdleCall /\ syncPending
    /\ worker' = [worker EXCEPT ![w] = [pc |-> "drop", refund |-> 0, rev |-> rev,
                                        flag |-> TRUE]]
    /\ UNCHANGED <<money, deleted, refund, approved, retryQueue, rev, cache, refundFaults>>

-----------------------------------------------------------------------------
ProcessZTAPISupplierRefund(w) ==
    \/ ApplyRefund(w) \/ RefundNotApplied(w) \/ RefundAlreadyApplied(w)
    \/ ReadRow(w) \/ DropCaches(w) \/ ClearSyncPending(w) \/ CompleteRefund(w)

RefundNext ==
    \/ \E a \in ChargedAttempts : RecordZTAPISupplierRefundChargeTx(a)
    \/ DeleteOwner
    \/ \E k \in Refunds : SubmitZTAPISupplierRefund(k)
    \/ \E w \in RefundWorkers, k \in Refunds : ApproveZTAPISupplierRefund(w, k)
    \/ \E w \in RefundWorkers : ProcessZTAPISupplierRefund(w) \/ DropCachesFails(w)
                                 \/ RefundCrash(w) \/ RetryZTAPISettlementCaches(w)
    \/ \E w \in RefundWorkers, k \in Refunds : RetryZTAPISupplierRefunds(w, k)
    \/ StartRetry

RefundSpec == RefundInit /\ [][RefundNext]_refundVars

\* A started call runs to its end, and the maintenance loop keeps starting
\* passes.  Strong fairness for the batch and the cache pass: an admin call
\* may hold the worker in between, but not for ever.
RefundFairSpec ==
    /\ RefundSpec
    /\ \A w \in RefundWorkers :
         /\ WF_refundVars(ProcessZTAPISupplierRefund(w))
         /\ SF_refundVars(\E k \in Refunds : RetryZTAPISupplierRefunds(w, k))
         /\ SF_refundVars(RetryZTAPISettlementCaches(w))
    /\ WF_refundVars(StartRetry)

-----------------------------------------------------------------------------
SupplierRefundTypeOK ==
    /\ anchored \subseteq ChargedAttempts
    /\ wallet \in 0..WalletMax /\ tokenRemain \in Nat
    /\ refund \in [Refunds -> [status : {"none", "pending", "applied", "completed"},
                               quota : Nat, token : Nat, at : 0..rev]]
    /\ approved \subseteq Refunds
    /\ batch \in Seq(Refunds) /\ fresh \in Seq(Refunds) /\ tried \in Seq(Refunds)
    /\ rev \in Nat /\ syncPending \in BOOLEAN /\ dropped \in 0..rev

\* The wallet and the token have received exactly the refunds that were
\* applied, and the request row and the anchors agree on the sum, however
\* many workers process the same proof.
BooksAgree ==
    LET total == SumFunctionOnSet([k \in Refunds |-> refund[k].quota], Refunds) IN
    /\ wallet = StartBalance + total
    /\ tokenRemain = SumFunctionOnSet([k \in Refunds |-> refund[k].token], Refunds)
    /\ reqRefunded = total
    /\ \A a \in ChargedAttempts :
         /\ refunded[a].quota
              = SumFunctionOnSet([d \in Dims |-> progress[a][d].quota], Dims)
         /\ refunded[a].quota <= Charged(a) /\ refunded[a].token <= TokenCharged(a)

\* What a customer has got back for a dimension depends only on the units
\* reversed, not on how many proofs they came in: the floor of the price, and
\* the whole allocation, rounding included, once every unit is reversed.
SplitInvariant ==
    \A a \in ChargedAttempts, d \in Dims :
        LET c == ChargeOf[a][d]
            p == progress[a][d]
        IN /\ p.units <= c.units
           /\ p.units = c.units => p.quota = c.charged /\ p.token = c.token
           /\ p.units # c.units => /\ p.quota * c.den <= p.units * c.num
                                   /\ p.units * c.num < (p.quota + 1) * c.den

\* The wallet has received exactly the refunds that were applied, and what a
\* customer got back depends on the units reversed and not on how many proofs
\* they came in (ProcessZTAPISupplierRefund, planZTAPISupplierRefund).
RefundsConserved == BooksAgree /\ SplitInvariant

\* A row whose caches are not marked for dropping had them dropped after its
\* last financial commit: a clear that raced with another refund of the same
\* request does not hide it.
DroppedBeforeCleared == ~syncPending => dropped = rev

\* A refund that moved money was approved; one reported completed had the
\* customer's caches dropped after its own commit, whoever dropped them; and
\* no clear of the row's flag hides a later commit (syncZTAPISettlementCaches).
CompletedIsDropped ==
    /\ DroppedBeforeCleared
    /\ \A k \in Refunds :
         /\ refund[k].status \in {"applied", "completed"} => k \in approved
         /\ refund[k].status = "completed" => dropped >= refund[k].at

\* "Scheduling survives financial rollback so a permanently ambiguous or
\* overflowing head item cannot starve later eligible refunds".
NoStarvation ==
    \A k \in Refunds :
        (refund[k].status \in {"pending", "applied"} /\ k \in approved)
            ~> (\/ refund[k].status = "completed"
                \/ refund[k].status = "pending"
                   /\ ~(RefundEligible(k) /\ wallet + PlanQuota(k) <= WalletMax))

\* The caches of a changed row are dropped in the end.
CachesDropped == syncPending ~> ~syncPending
=============================================================================
