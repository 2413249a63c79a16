--------------------------- MODULE AttemptBilling ---------------------------
(***************************************************************************)
(* Verified billing of single upstream attempts                            *)
(* (model/ztapi_attempt_billing_storage.go).  A request makes one or two   *)
(* attempts; an attempt the settlement does not account for gets a review  *)
(* row, and finance staff resolve the review with supplier proofs: a       *)
(* "nocharge" proof, or a "billed" proof that becomes either the final     *)
(* debit of a parked request (pending_final) or an extra debit for the     *)
(* first attempt of a settled one (additional_attempt).                    *)
(*                                                                         *)
(* Every transaction takes the request row FOR UPDATE first, so a          *)
(* transaction is one action; what runs between transactions (the follow-  *)
(* up of an approval, the retry worker, the row-by-row reconcile pass) is  *)
(* separate actions, any of which may be the one that a crash cuts off.    *)
(* Media tasks (UpstreamTaskID) are left to MediaTask.                     *)
(***************************************************************************)
EXTENDS Naturals, Sequences, FiniteSets

CONSTANTS Requests,         \* settlement ids 1..n, the order rows are read in
          Proofs,           \* proof identities (source, proof id)
          RequestOf,        \* proof -> the request it names
          AttemptOf,        \* proof -> the attempt it names
          KindOf,           \* proof -> "billed" or "nocharge"
          BillOf,           \* proof -> the upstream bill it names
          WireOf,           \* proof -> the upstream request id it names
          Wires, NoWire,    \* upstream request ids; none recorded
          NoProof, NoBill,
          ReservedQuota,    \* what Begin took from the wallet
          AttemptQuota,     \* what one billed attempt costs
          Sweeps,           \* TRUE: the hold sweep runs
          WireOptional      \* TRUE: a supplier may answer without an id

Attempts == 1..2

AttemptBillingAssumption ==
    /\ Requests \subseteq Nat \ {0}
    /\ RequestOf \in [Proofs -> Requests]
    /\ AttemptOf \in [Proofs -> Attempts]
    /\ KindOf \in [Proofs -> {"billed", "nocharge"}]
    /\ WireOf \in [Proofs -> Wires]
    /\ NoWire \notin Wires /\ NoProof \notin Proofs
    /\ \A p \in Proofs : BillOf[p] # NoBill
    /\ ReservedQuota \in Nat /\ AttemptQuota \in Nat
    /\ Sweeps \in BOOLEAN /\ WireOptional \in BOOLEAN

VARIABLES
    req,        \* request -> [status, missing, final]
    attempt,    \* request -> sequence of [answer, wire]
    intent,     \* request -> [attempt, wire, done]; attempt 0 is no intent
    resolution, \* request -> "none", "reviewer" or "approvals"
    review,     \* request -> attempt -> [status, proof]
    proof,      \* proof -> [status, target]
    charge,     \* request -> attempt -> [kind, wire, bill]
    paid,       \* request -> what the wallet has paid for it, net
    pass        \* the rows the reconcile pass has yet to visit

vars == <<req, attempt, intent, resolution, review, proof, charge, paid, pass>>

NoReview == [status |-> "none", proof |-> NoProof]
PendingReview == [status |-> "pending", proof |-> NoProof]
NoCharge == [kind |-> "none", wire |-> NoWire, bill |-> NoBill]
NoIntent == [attempt |-> 0, wire |-> NoWire, done |-> FALSE]

Init ==
    /\ req = [r \in Requests |-> [status |-> "reserved", missing |-> "none", final |-> 0]]
    /\ attempt = [r \in Requests |-> <<>>]
    /\ intent = [r \in Requests |-> NoIntent]
    /\ resolution = [r \in Requests |-> "none"]
    /\ review = [r \in Requests |-> [a \in Attempts |-> NoReview]]
    /\ proof = [p \in Proofs |-> [status |-> "none", target |-> "none"]]
    /\ charge = [r \in Requests |-> [a \in Attempts |-> NoCharge]]
    /\ paid = [r \in Requests |-> ReservedQuota]
    /\ pass = {}

-----------------------------------------------------------------------------
(* Reading the tables                                                       *)

HasIntent(r) == intent[r].attempt # 0

Recorded(r) == 1..Len(attempt[r])

\* A billed attempt's evidence names usage that some other attempt, charge or
\* approval already accounts for.
overlappingZTAPIAttemptUsageTx(p, chargeOfR) ==
    LET r == RequestOf[p]
        others == Attempts \ {AttemptOf[p]}
    IN \/ \E a \in others \cap Recorded(r) : attempt[r][a].wire = WireOf[p]
       \/ \E a \in others : \/ chargeOfR[a].bill = BillOf[p]
                            \/ chargeOfR[a].wire = WireOf[p]
       \/ \E q \in Proofs \ {p} : /\ proof[q].target # "none"
                                  /\ KindOf[q] = "billed"
                                  /\ BillOf[q] = BillOf[p]

\* The recorded attempt is the one the proof names, by its upstream id.
validateZTAPIAttemptLineageTx(p) ==
    /\ AttemptOf[p] \in Recorded(RequestOf[p])
    /\ attempt[RequestOf[p]][AttemptOf[p]].wire = WireOf[p]

\* The attempts of r that must have a review row, given r's row.
ReviewsDue(r, row) ==
    CASE row.status = "settled" -> {a \in Recorded(r) : a < row.final}
      [] row.status \in {"pending", "released"} -> Recorded(r)
      [] OTHER -> {}

EnsureZTAPIAttemptBillingReviewsTx(r, row) ==
    [a \in Attempts |-> IF a \in ReviewsDue(r, row) /\ review[r][a] = NoReview
                        THEN PendingReview ELSE review[r][a]]

-----------------------------------------------------------------------------
(* SyncZTAPIAttemptBillingReviewsTx.  Given the row and the charges the      *)
(* transaction is about to commit, whether the call succeeds and what it     *)
(* writes to the reviews, the proofs and the charges of r.                   *)

Resolve(reviews, from, to) ==
    [a \in Attempts |-> IF a \in from /\ reviews[a].status = "pending"
                        THEN [reviews[a] EXCEPT !.status = to] ELSE reviews[a]]

SyncApplied(r, row, charges) ==
    LET reviews == EnsureZTAPIAttemptBillingReviewsTx(r, row) IN
    IF \/ charges[row.final].kind # "final" \/ reviews[row.final] = NoReview
    THEN NoProof ELSE reviews[row.final].proof

SyncOK(r, row, charges, resolved) ==
    CASE row.status = "released" -> resolved # "none"
      [] row.status = "settled" /\ row.final # 0 ->
           LET p == SyncApplied(r, row, charges) IN
           p # NoProof => /\ proof[p].target = "pending_final"
                          /\ KindOf[p] = "billed" /\ AttemptOf[p] = row.final
                          /\ ~overlappingZTAPIAttemptUsageTx(p, charges)
                          /\ charges[row.final].bill \in {NoBill, BillOf[p]}
      [] OTHER -> TRUE

SyncReviews(r, row, charges) ==
    LET reviews == EnsureZTAPIAttemptBillingReviewsTx(r, row) IN
    CASE row.status = "released" -> Resolve(review[r], Attempts, "verified_nocharge")
      [] row.status = "settled" /\ charges[row.final].kind = "final" ->
           Resolve(reviews, {row.final}, "verified_billed")
      [] OTHER -> reviews

SyncProofs(r, row, charges) ==
    [p \in Proofs |-> IF row.status = "settled" /\ p = SyncApplied(r, row, charges)
                      THEN [proof[p] EXCEPT !.status = "applied"] ELSE proof[p]]

SyncCharges(r, row, charges) ==
    LET p == SyncApplied(r, row, charges) IN
    IF row.status = "settled" /\ p # NoProof
    THEN [charges EXCEPT ![row.final].bill = BillOf[p]] ELSE charges

SyncZTAPIAttemptBillingReviewsTx(r, row, charges, resolved) ==
    /\ SyncOK(r, row, charges, resolved)
    /\ review' = [review EXCEPT ![r] = SyncReviews(r, row, charges)]
    /\ proof' = SyncProofs(r, row, charges)
    /\ charge' = [charge EXCEPT ![r] = SyncCharges(r, row, charges)]

-----------------------------------------------------------------------------
(* The request's own life, as far as the reviews depend on it               *)

\* One goroutine serves a request: it starts no attempt after it has
\* recorded its final usage.
BeginZTAPIRequestAttempt(r) ==
    /\ req[r].status = "reserved" /\ ~HasIntent(r)
    /\ Len(attempt[r]) < 2
    /\ attempt' = [attempt EXCEPT ![r] = Append(@, [answer |-> "none", wire |-> NoWire])]
    /\ UNCHANGED <<req, intent, resolution, review, proof, charge, paid, pass>>

\* The response may be recorded at any time, also once the row is parked.
RecordZTAPIRequestAttemptResponse(r, a, answer, w) ==
    /\ a \in Recorded(r)
    /\ attempt[r][a].answer = "none"
    /\ w = NoWire => WireOptional
    /\ attempt' = [attempt EXCEPT ![r][a] = [answer |-> answer, wire |-> w]]
    /\ UNCHANGED <<req, intent, resolution, review, proof, charge, paid, pass>>

\* Cleanup parks a dispatched request; known usage makes it a retry hold.
PendZTAPIRequestSettlement(r) ==
    /\ req[r].status = "reserved" /\ attempt[r] # <<>>
    /\ req' = [req EXCEPT ![r] =
           [status |-> "pending", missing |-> IF HasIntent(r) THEN "retry" ELSE "unconfirmed",
            final |-> @.final]]
    /\ UNCHANGED <<attempt, intent, resolution, review, proof, charge, paid, pass>>

\* The relay saves the usage of the last attempt before it debits.
saveZTAPISettlementFinalizationIntent(r) ==
    /\ req[r].status = "reserved" /\ ~HasIntent(r) /\ attempt[r] # <<>>
    /\ LET last == attempt[r][Len(attempt[r])] IN
       /\ last.answer = "ok"
       /\ intent' = [intent EXCEPT ![r] = [attempt |-> Len(attempt[r]),
                                           wire |-> last.wire, done |-> FALSE]]
    /\ UNCHANGED <<req, attempt, resolution, review, proof, charge, paid, pass>>

\* Debit from the saved intent: the charge anchor, the log and the reviews
\* are part of the transaction, so a failed Sync leaves nothing behind.
finalizeZTAPIRequestSettlement(r) ==
    LET a == intent[r].attempt
        row == [status |-> "settled", missing |-> "none", final |-> a]
        anchored == [charge[r] EXCEPT ![a] = [kind |-> "final", wire |-> intent[r].wire,
                                              bill |-> NoBill]]
    IN /\ HasIntent(r) /\ ~intent[r].done
       /\ \/ req[r].status = "reserved"
          \/ req[r].status = "pending" /\ req[r].missing = "retry"
       /\ attempt[r][a].wire = intent[r].wire
       /\ Len(attempt[r]) = a
       /\ SyncZTAPIAttemptBillingReviewsTx(r, row,
              IF intent[r].wire = NoWire THEN charge[r] ELSE anchored, "none")
       /\ req' = [req EXCEPT ![r] = row]
       /\ intent' = [intent EXCEPT ![r].done = TRUE]
       /\ paid' = [paid EXCEPT ![r] = AttemptQuota]
       /\ UNCHANGED <<attempt, resolution, pass>>

\* The sweep of holds whose attempts were all refused before inference.  It
\* does not touch the reviews.
ReleaseZTAPIDispatchedRejectedSettlement(r) ==
    /\ Sweeps
    /\ \/ req[r].status = "reserved"
       \/ req[r].status = "pending" /\ req[r].missing = "unconfirmed"
    /\ attempt[r] # <<>>
    /\ \A a \in Recorded(r) : attempt[r][a].answer = "rejected"
    /\ ~HasIntent(r)
    /\ req' = [req EXCEPT ![r] = [status |-> "released", missing |-> "none",
                                  final |-> Len(attempt[r])]]
    /\ paid' = [paid EXCEPT ![r] = 0]
    /\ UNCHANGED <<attempt, intent, resolution, review, proof, charge, pass>>

\* A release under a no-charge proof for every attempt, and its reviews.
resolveZTAPIPendingNoCharge(r, by) ==
    LET row == [req[r] EXCEPT !.status = "released"] IN
    /\ resolution[r] = "none"
    /\ req[r].status = "pending"
    /\ ~HasIntent(r)
    /\ req' = [req EXCEPT ![r] = row]
    /\ resolution' = [resolution EXCEPT ![r] = by]
    /\ paid' = [paid EXCEPT ![r] = 0]
    /\ SyncZTAPIAttemptBillingReviewsTx(r, row, charge[r], by)
    /\ UNCHANGED <<attempt, intent, pass>>

\* A reviewer attests for the attempts as recorded.
ResolveZTAPIPendingNoCharge(r) == resolveZTAPIPendingNoCharge(r, "reviewer")
-----------------------------------------------------------------------------
(* Proofs                                                                   *)

\* A proof is stored once under its identity; the same identity with another
\* payload is refused.
SubmitZTAPIAttemptBilling(p) ==
    /\ proof[p].status = "none"
    /\ proof' = [proof EXCEPT ![p].status = "pending"]
    /\ UNCHANGED <<req, attempt, intent, resolution, review, charge, paid, pass>>

\* What an approval of p would be applied to; "none" leaves the proof pending.
ApplyTarget(p) ==
    LET r == RequestOf[p]
        parked == req[r].status = "pending" /\ ~HasIntent(r)
    IN  CASE parked /\ KindOf[p] = "nocharge" -> "pending_nocharge"
          [] parked /\ KindOf[p] = "billed" /\ AttemptOf[p] = Len(attempt[r]) -> "pending_final"
          [] req[r].status = "settled" /\ req[r].final = 2 /\ AttemptOf[p] = 1 ->
               "additional_attempt"
          [] OTHER -> "none"

Approvable(p) ==
    /\ ApplyTarget(p) # "none"
    /\ validateZTAPIAttemptLineageTx(p)
    /\ EnsureZTAPIAttemptBillingReviewsTx(RequestOf[p], req[RequestOf[p]])[AttemptOf[p]]
         = PendingReview
    /\ KindOf[p] = "billed" => ~overlappingZTAPIAttemptUsageTx(p, charge[RequestOf[p]])

\* An approval commits the target, the review's claim and, for a parked
\* request, the immutable finalization intent together.
ApproveZTAPIAttemptBilling(p) ==
    LET r == RequestOf[p]
        target == ApplyTarget(p)
        closed == KindOf[p] = "nocharge"
    IN /\ proof[p].status = "pending" /\ proof[p].target = "none"
       /\ Approvable(p)
       /\ proof' = [proof EXCEPT ![p] =
              [status |-> IF closed /\ target # "pending_nocharge" THEN "completed"
                          ELSE "approved", target |-> target]]
       /\ review' = [review EXCEPT ![r] =
              [EnsureZTAPIAttemptBillingReviewsTx(r, req[r]) EXCEPT ![AttemptOf[p]] =
                  [status |-> IF closed THEN "verified_nocharge" ELSE "pending",
                   proof |-> p]]]
       /\ IF target = "pending_final"
          THEN /\ intent' = [intent EXCEPT ![r] = [attempt |-> AttemptOf[p],
                                                   wire |-> WireOf[p], done |-> FALSE]]
               /\ req' = [req EXCEPT ![r].missing = "retry"]
          ELSE UNCHANGED <<intent, req>>
       /\ UNCHANGED <<attempt, resolution, charge, paid, pass>>

\* An approval that stays pending still commits the review rows it ensured.
ApprovalPends(p) ==
    LET r == RequestOf[p] IN
    /\ proof[p].status = "pending" /\ ~Approvable(p)
    /\ review' = [review EXCEPT ![r] = EnsureZTAPIAttemptBillingReviewsTx(r, req[r])]
    /\ UNCHANGED <<req, attempt, intent, resolution, proof, charge, paid, pass>>

\* All attempts of r carry an approved no-charge proof of a parked request.
AllApprovedNoCharge(r) ==
    /\ attempt[r] # <<>>
    /\ \A a \in Recorded(r) : /\ review[r][a].status = "verified_nocharge"
                              /\ review[r][a].proof # NoProof
                              /\ proof[review[r][a].proof].target = "pending_nocharge"

resolveZTAPIPendingFromApprovedNoChargeAttempts(r) ==
    /\ AllApprovedNoCharge(r)
    /\ resolveZTAPIPendingNoCharge(r, "approvals")

\* The proofs are closed in a transaction of their own, after the release.
CompleteApprovedNoCharge(r) ==
    LET closing == {p \in Proofs : /\ RequestOf[p] = r /\ proof[p].status = "approved"
                                   /\ proof[p].target = "pending_nocharge"}
    IN /\ resolution[r] = "approvals" /\ closing # {}
       /\ proof' = [p \in Proofs |-> IF p \in closing
                                     THEN [proof[p] EXCEPT !.status = "completed"]
                                     ELSE proof[p]]
       /\ UNCHANGED <<req, attempt, intent, resolution, review, charge, paid, pass>>

\* Mut_* definitions are deliberate misreadings used to test properties.
Mut_ProcessLeavesApproved(p) ==
    LET r == RequestOf[p] IN
    /\ proof[p].status = "approved" /\ proof[p].target = "additional_attempt"
    /\ KindOf[p] = "billed"
    /\ paid' = [paid EXCEPT ![r] = @ + AttemptQuota]
    /\ charge' = [charge EXCEPT ![r][1] = [kind |-> "additional", wire |-> WireOf[p],
                                           bill |-> BillOf[p]]]
    /\ UNCHANGED <<req, attempt, intent, resolution, review, proof, pass>>

\* The extra debit for the first attempt of a settled request.
ProcessAdditionalAttempt(p) ==
    LET r == RequestOf[p] IN
    /\ proof[p].status = "approved" /\ proof[p].target = "additional_attempt"
    /\ KindOf[p] = "billed"
    /\ ~overlappingZTAPIAttemptUsageTx(p, charge[r])
    /\ validateZTAPIAttemptLineageTx(p)
    /\ review[r][1] = [status |-> "pending", proof |-> p]
    /\ charge[r][1] = NoCharge
    /\ paid' = [paid EXCEPT ![r] = @ + AttemptQuota]
    /\ charge' = [charge EXCEPT ![r][1] = [kind |-> "additional", wire |-> WireOf[p],
                                           bill |-> BillOf[p]]]
    /\ proof' = [proof EXCEPT ![p].status = "applied"]
    /\ review' = [review EXCEPT ![r][1].status = "verified_billed"]
    /\ UNCHANGED <<req, attempt, intent, resolution, pass>>

\* The final debit an approval asked for: the worker finalizes from the intent.
ProcessPendingFinal(p) ==
    /\ proof[p].status = "approved" /\ proof[p].target = "pending_final"
    /\ ~overlappingZTAPIAttemptUsageTx(p, charge[RequestOf[p]])
    /\ finalizeZTAPIRequestSettlement(RequestOf[p])

\* Applied is durable before the caches are dropped.
CompleteAttemptBilling(p) ==
    /\ proof[p].status = "applied"
    /\ proof' = [proof EXCEPT ![p].status = "completed"]
    /\ UNCHANGED <<req, attempt, intent, resolution, review, charge, paid, pass>>

-----------------------------------------------------------------------------
(* ReconcileZTAPIAttemptBillingReviews                                      *)

NeedsReconcile(r) ==
    \/ /\ req[r].status = "pending" \/ (req[r].status = "settled" /\ req[r].final > 1)
       /\ \E a \in ReviewsDue(r, req[r]) : review[r][a] = NoReview
    \/ /\ req[r].status \in {"settled", "released"}
       /\ \E a \in Attempts : /\ review[r][a].status = "pending"
                              /\ req[r].status = "released" \/ a = req[r].final

StartReconcile ==
    /\ pass = {}
    /\ pass' = {r \in Requests : NeedsReconcile(r)}
    /\ pass' # {}
    /\ UNCHANGED <<req, attempt, intent, resolution, review, proof, charge, paid>>

\* A pass visits its rows in the order of their ids.
NextOfPass(r) == r \in pass /\ \A s \in pass : r <= s

Mut_ReconcileSkipsHead ==
    \E r \in pass :
        /\ NextOfPass(r)
        /\ pass' = pass \ {r}
        /\ UNCHANGED <<req, attempt, intent, resolution, review, proof, charge, paid>>

\* A row whose Sync fails ends the pass for every row behind it.
ReconcileRow ==
    \E r \in pass :
        /\ NextOfPass(r)
        /\ IF SyncOK(r, req[r], charge[r], resolution[r])
           THEN /\ SyncZTAPIAttemptBillingReviewsTx(r, req[r], charge[r], resolution[r])
                /\ pass' = pass \ {r}
           ELSE pass' = {} /\ UNCHANGED <<review, proof, charge>>
        /\ UNCHANGED <<req, attempt, intent, resolution, paid>>

-----------------------------------------------------------------------------
Relay(r) ==
    \/ BeginZTAPIRequestAttempt(r)
    \/ \E a \in Attempts, answer \in {"ok", "rejected"}, w \in Wires \cup {NoWire} :
           RecordZTAPIRequestAttemptResponse(r, a, answer, w)
    \/ PendZTAPIRequestSettlement(r)
    \/ saveZTAPISettlementFinalizationIntent(r)

Reviewer ==
    \/ \E r \in Requests : ResolveZTAPIPendingNoCharge(r)
    \/ \E p \in Proofs : \/ SubmitZTAPIAttemptBilling(p)
                         \/ ApproveZTAPIAttemptBilling(p)
                         \/ ApprovalPends(p)

\* What runZTAPICommercialMaintenance runs.
Maintenance(r) ==
    \/ finalizeZTAPIRequestSettlement(r)
    \/ resolveZTAPIPendingFromApprovedNoChargeAttempts(r)
    \/ CompleteApprovedNoCharge(r)

RetryZTAPIAttemptBillings(p) ==
    \/ ProcessAdditionalAttempt(p)
    \/ ProcessPendingFinal(p)
    \/ CompleteAttemptBilling(p)

Next ==
    \/ \E r \in Requests : Relay(r) \/ Maintenance(r)
                           \/ ReleaseZTAPIDispatchedRejectedSettlement(r)
    \/ Reviewer
    \/ \E p \in Proofs : RetryZTAPIAttemptBillings(p)
    \/ StartReconcile
    \/ ReconcileRow

Spec == Init /\ [][Next]_vars

\* The maintenance loop runs every pass; reviewers and suppliers promise
\* nothing.
FairSpec ==
    /\ Spec
    /\ \A r \in Requests : WF_vars(Maintenance(r))
    /\ \A p \in Proofs : WF_vars(RetryZTAPIAttemptBillings(p))
    /\ WF_vars(StartReconcile) /\ WF_vars(ReconcileRow)

-----------------------------------------------------------------------------
RowType == [status : {"reserved", "pending", "settled", "released"},
            missing : {"none", "unconfirmed", "retry"}, final : {0} \cup Attempts]
AttemptType == [answer : {"none", "ok", "rejected"}, wire : Wires \cup {NoWire}]
IntentType == [attempt : {0} \cup Attempts, wire : Wires \cup {NoWire}, done : BOOLEAN]
ReviewType == [status : {"none", "pending", "verified_billed", "verified_nocharge"},
               proof : Proofs \cup {NoProof}]
ProofType == [status : {"none", "pending", "approved", "applied", "completed"},
              target : {"none", "pending_final", "pending_nocharge", "additional_attempt"}]
ChargeType == [kind : {"none", "final", "additional"}, wire : Wires \cup {NoWire},
               bill : {BillOf[p] : p \in Proofs} \cup {NoBill}]

AttemptBillingTypeOK ==
    /\ req \in [Requests -> RowType]
    /\ attempt \in [Requests -> Seq(AttemptType)]
    /\ \A r \in Requests : Len(attempt[r]) <= 2
    /\ intent \in [Requests -> IntentType]
    /\ resolution \in [Requests -> {"none", "reviewer", "approvals"}]
    /\ review \in [Requests -> [Attempts -> ReviewType]]
    /\ proof \in [Proofs -> ProofType]
    /\ charge \in [Requests -> [Attempts -> ChargeType]]
    /\ paid \in [Requests -> Nat]
    /\ pass \subseteq Requests

\* What the wallet has paid for a request is exactly what its state says: the
\* reservation while it is open, nothing once released, and one attempt's
\* price per charge once settled, whichever of the relay, the two retry
\* workers and the reviewers got there, in whatever order.
PaidIsExact ==
    \A r \in Requests :
        paid[r] = CASE req[r].status = "settled" ->
                         AttemptQuota + (IF charge[r][1].kind = "additional"
                                         THEN AttemptQuota ELSE 0)
                    [] req[r].status = "released" -> 0
                    [] OTHER -> ReservedQuota

\* An attempt the supplier was shown not to have billed is never charged, and
\* a charged attempt is never declared free.
NoChargeNeverBilled ==
    \A r \in Requests, a \in Attempts :
        review[r][a].status = "verified_nocharge" => charge[r][a] = NoCharge

\* One upstream bill pays for one charge, and the two charges of a request
\* are two upstream requests ("A different proof or channel does not
\* establish distinct upstream usage").
DistinctUsage ==
    /\ \A r, s \in Requests, a, b \in Attempts :
           (<<r, a>> # <<s, b>> /\ charge[r][a].bill # NoBill)
               => charge[r][a].bill # charge[s][b].bill
    /\ \A r \in Requests :
           charge[r][1].wire # NoWire => charge[r][1].wire # charge[r][2].wire

\* An approval that makes a proof the final debit is never left without its
\* intent: no release, no other proof and no second finalization gets between.
ApprovedFinalIsReserved ==
    \A p \in Proofs : proof[p].target = "pending_final" =>
        LET r == RequestOf[p] IN
        /\ intent[r].attempt = AttemptOf[p]
        /\ \/ req[r].status = "pending" /\ req[r].missing = "retry" /\ ~intent[r].done
           \/ req[r].status = "settled" /\ req[r].final = AttemptOf[p] /\ intent[r].done
        /\ review[r][AttemptOf[p]].proof = p

\* What the wallet has paid for a request is what its state says, in whatever
\* order the relay, the retry workers, the reviewers and the suppliers' proofs
\* come; an approved final debit keeps its intent, a bill pays for one charge,
\* and an attempt proven free is never charged.
AttemptsPaidExactly ==
    /\ AttemptBillingTypeOK
    /\ PaidIsExact
    /\ ApprovedFinalIsReserved
    /\ DistinctUsage
    /\ NoChargeNeverBilled

\* "Terminal financial facts resolve review work in the same transaction":
\* the step that releases a request, or settles its final attempt, leaves no
\* review of it pending.  The sweep's release does.
TerminalResolvesReviews ==
    [][\A r \in Requests, a \in Attempts :
         (/\ req[r].status \in {"reserved", "pending"}
          /\ \/ req'[r].status = "released"
             \/ req'[r].status = "settled" /\ req'[r].final = a)
             => review'[r][a].status # "pending"]_vars

\* A verified outcome is final: no pass, retry or later proof reopens or
\* flips a review.
ReviewsAreFinal ==
    [][\A r \in Requests, a \in Attempts :
         review[r][a].status \in {"verified_billed", "verified_nocharge"}
             => review'[r][a] = review[r][a]]_vars

\* A request the sweep released while a review of it was open: nothing closes
\* that review any more, and every pass ends at the row.
LeftOpenBySweep(r) ==
    /\ req[r].status = "released" /\ resolution[r] = "none"
    /\ \E a \in Attempts : review[r][a].status = "pending"

\* A request that lacks a review row gets it, though rows before it in the pass
\* keep changing, or the sweep has left a review open at it or at a row the
\* pass reads before it.
ReviewsReconciled ==
    \A r \in Requests :
        NeedsReconcile(r) ~> (\/ ~NeedsReconcile(r)
                              \/ \E s \in Requests : s <= r /\ LeftOpenBySweep(s))

\* An approved billed proof is applied and closed unless later evidence shows
\* the usage to overlap.
ApprovedIsApplied ==
    \A p \in Proofs :
        (proof[p].status = "approved" /\ KindOf[p] = "billed")
            ~> (\/ proof[p].status = "completed"
                \/ overlappingZTAPIAttemptUsageTx(p, charge[RequestOf[p]]))
=============================================================================
