------------------------ MODULE AttemptBillingProofs ------------------------
(***************************************************************************)
(* Proofs about AttemptBilling, for every number of requests and proofs,   *)
(* whatever requests, attempts, bills and upstream ids the proofs name.    *)
(*                                                                         *)
(* The argument follows the evidence.  A charge exists only on a settled   *)
(* request, as its final attempt or as an additional one whose review is   *)
(* closed as billed; a bill on a charge is that of an approved proof for   *)
(* that very attempt; and an approval checks that no other approved proof  *)
(* names its bill.                                                         *)
(***************************************************************************)
EXTENDS AttemptBilling, SequenceTheorems, TLAPS

Verified == {"verified_billed", "verified_nocharge"}

(***************************************************************************)
(* The inductive invariant.                                                *)
(***************************************************************************)

\* Only a settled request has charges, and only its last attempt is final.
ChargesAreSettled ==
  \A r \in Requests :
    /\ req[r].status = "settled" => req[r].final \in Attempts
    /\ \A a \in Attempts :
         /\ req[r].status # "settled" => charge[r][a] = NoCharge
         /\ charge[r][a].kind = "none" => charge[r][a] = NoCharge
         /\ charge[r][a].kind = "final" => req[r].final = a
         /\ charge[r][a].kind = "additional" => a = 1 /\ req[r].final = 2

\* An additional charge closed the review of its attempt as billed.
AdditionalIsVerified ==
  \A r \in Requests : charge[r][1].kind = "additional" => review[r][1].status = "verified_billed"

\* A request in flight has no reviews.
ReservedUnreviewed ==
  \A r \in Requests, a \in Attempts : req[r].status = "reserved" => review[r][a] = NoReview

\* The attempt that a parked request is to be charged for was not shown free.
IntentNotFree ==
  \A r \in Requests : req[r].status = "pending" /\ HasIntent(r) =>
    review[r][intent[r].attempt].status # "verified_nocharge"

\* A review is claimed by a proof for its own attempt.
ReviewsNameTheirProof ==
  \A r \in Requests, a \in Attempts : review[r][a].proof # NoProof =>
    RequestOf[review[r][a].proof] = r /\ AttemptOf[review[r][a].proof] = a

\* An additional debit was approved for the first attempt of two.
AdditionalTargets ==
  \A p \in Proofs : proof[p].target = "additional_attempt" =>
    /\ req[RequestOf[p]].status = "settled"
    /\ req[RequestOf[p]].final = 2
    /\ AttemptOf[p] = 1

\* The bill of a charge is that of a proof approved for its attempt.
BillsAreProven ==
  \A r \in Requests, a \in Attempts : charge[r][a].bill # NoBill =>
    \E q \in Proofs : /\ RequestOf[q] = r /\ AttemptOf[q] = a
                      /\ KindOf[q] = "billed" /\ proof[q].target # "none"
                      /\ BillOf[q] = charge[r][a].bill

BillingInv ==
  /\ AttemptBillingTypeOK
  /\ ChargesAreSettled /\ PaidIsExact
  /\ AdditionalIsVerified /\ NoChargeNeverBilled
  /\ ReservedUnreviewed /\ IntentNotFree /\ ReviewsNameTheirProof
  /\ AdditionalTargets /\ ApprovedFinalIsReserved
  /\ BillsAreProven /\ DistinctUsage

(***************************************************************************)
(* What the shared parts of the transactions do.                           *)
(***************************************************************************)

\* The rows of the tables are records of the types given.
LEMMA RowsTyped ==
  ASSUME AttemptBillingTypeOK, NEW r \in Requests, NEW a \in Attempts
  PROVE  /\ req[r] \in RowType /\ intent[r] \in IntentType
         /\ review[r] \in [Attempts -> ReviewType] /\ review[r][a] \in ReviewType
         /\ charge[r] \in [Attempts -> ChargeType] /\ charge[r][a] \in ChargeType
  BY DEF AttemptBillingTypeOK

\* What is inserted is a row of its table.
LEMMA NewRowsTyped ==
  ASSUME AttemptBillingAssumption
  PROVE  /\ NoReview \in ReviewType /\ PendingReview \in ReviewType
         /\ NoCharge \in ChargeType /\ NoIntent \in IntentType
  BY DEF NoReview, PendingReview, NoCharge, NoIntent, ReviewType, ChargeType, IntentType

\* What a transaction may do to a review it is not approving a proof for: the proof
\* stays, a verified outcome stays.
ReviewAdvances(before, after) ==
  /\ after.proof = before.proof
  /\ before.status \in Verified => after = before

\* Ensuring the reviews of a request adds pending ones.
LEMMA EnsuredReviews ==
  ASSUME AttemptBillingAssumption, AttemptBillingTypeOK, NEW r \in Requests, NEW row \in RowType,
         NEW a \in Attempts
  PROVE  LET ensured == EnsureZTAPIAttemptBillingReviewsTx(r, row) IN
         /\ ensured \in [Attempts -> ReviewType]
         /\ ReviewAdvances(review[r][a], ensured[a])
         /\ ensured[a] = review[r][a] \/ (review[r][a] = NoReview /\ ensured[a] = PendingReview)
         /\ row.status = "reserved" => ensured[a] = review[r][a]
  <1> DEFINE ensured == EnsureZTAPIAttemptBillingReviewsTx(r, row)
  <1>1. review[r] \in [Attempts -> ReviewType] /\ PendingReview \in ReviewType
    BY RowsTyped, NewRowsTyped DEF Attempts
  <1>2. /\ ensured \in [Attempts -> ReviewType]
        /\ ensured[a] = review[r][a] \/ (review[r][a] = NoReview /\ ensured[a] = PendingReview)
    BY <1>1 DEF EnsureZTAPIAttemptBillingReviewsTx
  <1>3. ReviewAdvances(review[r][a], ensured[a])
    BY <1>2 DEF ReviewAdvances, NoReview, PendingReview, Verified
  <1>4. ASSUME row.status = "reserved"
        PROVE  ensured[a] = review[r][a]
    BY <1>4 DEF EnsureZTAPIAttemptBillingReviewsTx, ReviewsDue
  <1>5. QED
    BY <1>2, <1>3, <1>4

\* What Sync does to the reviews: a review is shown free only by a release, and shown
\* billed only for the final attempt of a settled request that has its charge.
LEMMA SyncedReviews ==
  ASSUME AttemptBillingAssumption, AttemptBillingTypeOK, NEW r \in Requests, NEW row \in RowType,
         NEW charges \in [Attempts -> ChargeType], NEW a \in Attempts
  PROVE  LET synced == SyncReviews(r, row, charges) IN
         /\ synced \in [Attempts -> ReviewType]
         /\ ReviewAdvances(review[r][a], synced[a])
         /\ row.status = "reserved" => synced[a] = review[r][a]
         /\ synced[a].status = "verified_nocharge" =>
              \/ review[r][a].status = "verified_nocharge"
              \/ row.status = "released"
         /\ row.status = "pending" /\ synced[a].status \in Verified =>
              review[r][a].status \in Verified
  <1> DEFINE ensured == EnsureZTAPIAttemptBillingReviewsTx(r, row)
             synced == SyncReviews(r, row, charges)
  <1>1. /\ ensured \in [Attempts -> ReviewType]
        /\ ReviewAdvances(review[r][a], ensured[a])
        /\ ensured[a] = review[r][a] \/ (review[r][a] = NoReview /\ ensured[a] = PendingReview)
        /\ row.status = "reserved" => ensured[a] = review[r][a]
    BY EnsuredReviews
  <1>2. review[r] \in [Attempts -> ReviewType]
    BY RowsTyped
  <1>3. CASE synced = ensured /\ row.status # "released"
    BY <1>1, <1>3 DEF NoReview, PendingReview, Verified
  <1>4. CASE /\ row.status = "released"
             /\ synced = Resolve(review[r], Attempts, "verified_nocharge")
    <2>1. synced \in [Attempts -> ReviewType]
      BY <1>2, <1>4 DEF Resolve, ReviewType
    <2>2. synced[a] = IF review[r][a].status = "pending"
                      THEN [review[r][a] EXCEPT !.status = "verified_nocharge"]
                      ELSE review[r][a]
      BY <1>4 DEF Resolve
    <2>3. ReviewAdvances(review[r][a], synced[a])
      BY <1>2, <2>2 DEF ReviewAdvances, Verified, ReviewType
    <2>4. QED
      BY <1>4, <2>1, <2>3
  <1>5. CASE row.status = "settled" /\ synced = Resolve(ensured, {row.final}, "verified_billed")
    <2>1. synced \in [Attempts -> ReviewType]
      BY <1>1, <1>5 DEF Resolve, ReviewType
    <2>2. \/ synced[a] = ensured[a]
          \/ /\ ensured[a].status = "pending"
             /\ synced[a] = [ensured[a] EXCEPT !.status = "verified_billed"]
      BY <1>5 DEF Resolve
    <2>3. ReviewAdvances(review[r][a], synced[a])
      BY <1>1, <1>2, <2>2 DEF ReviewAdvances, Verified, ReviewType
    <2>4. synced[a].status = "verified_nocharge" => review[r][a].status = "verified_nocharge"
      BY <1>1, <2>2 DEF ReviewType, PendingReview
    <2>5. QED
      BY <1>5, <2>1, <2>3, <2>4
  <1>6. QED
    BY <1>3, <1>4, <1>5 DEF SyncReviews, RowType

\* Sync changes the status of proofs and never what they were approved for.
LEMMA SyncedProofs ==
  ASSUME AttemptBillingTypeOK, NEW r, NEW row, NEW charges, NEW p \in Proofs
  PROVE  /\ SyncProofs(r, row, charges) \in [Proofs -> ProofType]
         /\ SyncProofs(r, row, charges)[p].target = proof[p].target
  <1> DEFINE synced == SyncProofs(r, row, charges)
  <1>1. proof \in [Proofs -> ProofType]
    BY DEF AttemptBillingTypeOK
  <1>2. \A q \in Proofs : \/ synced[q] = proof[q]
                         \/ synced[q] = [proof[q] EXCEPT !.status = "applied"]
    BY DEF SyncProofs
  <1>3. ASSUME NEW q \in Proofs
        PROVE  synced[q] \in ProofType /\ synced[q].target = proof[q].target
    <2>1. proof[q] \in ProofType
      BY <1>1
    <2>2. /\ [proof[q] EXCEPT !.status = "applied"] \in ProofType
          /\ [proof[q] EXCEPT !.status = "applied"].target = proof[q].target
      BY <2>1 DEF ProofType
    <2>3. QED
      BY <1>2, <2>1, <2>2
  <1>4. synced = [q \in Proofs |-> synced[q]]
    BY DEF SyncProofs
  <1>5. QED
    BY <1>3, <1>4

\* The proof p, approved for the final debit of r, puts its bill on the final charge.
BilledBy(p, r, row, charges) ==
  /\ row.status = "settled"
  /\ RequestOf[p] = r /\ AttemptOf[p] = row.final /\ KindOf[p] = "billed"
  /\ proof[p].target = "pending_final"
  /\ charges[row.final].kind = "final"
  /\ ~overlappingZTAPIAttemptUsageTx(p, charges)

\* Sync writes a bill on the final charge, or leaves the charges alone.
LEMMA SyncedCharges ==
  ASSUME AttemptBillingAssumption, AttemptBillingTypeOK, ReviewsNameTheirProof,
         NEW r \in Requests, NEW row \in RowType, NEW resolved,
         NEW charges \in [Attempts -> ChargeType],
         row.status = "settled" => row.final \in Attempts,
         SyncOK(r, row, charges, resolved)
  PROVE  LET synced == SyncCharges(r, row, charges) IN
         /\ synced \in [Attempts -> ChargeType]
         /\ \/ synced = charges
            \/ \E p \in Proofs :
                 /\ BilledBy(p, r, row, charges)
                 /\ synced = [charges EXCEPT ![row.final].bill = BillOf[p]]
  <1> DEFINE p == SyncApplied(r, row, charges)
             synced == SyncCharges(r, row, charges)
  <1>1. CASE row.status # "settled" \/ p = NoProof
    BY <1>1 DEF SyncCharges
  <1>2. CASE row.status = "settled" /\ p # NoProof
    <2>1. row.final \in Attempts /\ row.final # 0
      BY <1>2 DEF Attempts
    <2>2. /\ charges[row.final].kind = "final"
          /\ p = EnsureZTAPIAttemptBillingReviewsTx(r, row)[row.final].proof
      BY <1>2 DEF SyncApplied
    <2>3. p = review[r][row.final].proof
      BY <2>1, <2>2, EnsuredReviews DEF ReviewAdvances
    <2>4. p \in Proofs
      BY <1>2, <2>1, <2>3, RowsTyped DEF ReviewType
    <2>5. RequestOf[p] = r /\ AttemptOf[p] = row.final
      BY <1>2, <2>1, <2>3 DEF ReviewsNameTheirProof
    <2>6. /\ proof[p].target = "pending_final" /\ KindOf[p] = "billed"
          /\ ~overlappingZTAPIAttemptUsageTx(p, charges)
      BY <1>2, <2>1 DEF SyncOK
    <2>7. BilledBy(p, r, row, charges)
      BY <1>2, <2>2, <2>5, <2>6 DEF BilledBy
    <2>8. synced = [charges EXCEPT ![row.final].bill = BillOf[p]]
      BY <1>2 DEF SyncCharges
    <2>9. synced \in [Attempts -> ChargeType]
      BY <2>1, <2>4, <2>8 DEF ChargeType
    <2>10. QED
      BY <2>4, <2>7, <2>8, <2>9
  <1>3. QED
    BY <1>1, <1>2

\* A bill that does not overlap is nobody else's: putting it on the attempt its proof
\* names keeps every bill proven and distinct.
LEMMA NewBill ==
  ASSUME AttemptBillingAssumption, AttemptBillingTypeOK, BillsAreProven, DistinctUsage,
         NEW p \in Proofs, NEW r \in Requests, NEW a \in Attempts, NEW charges,
         RequestOf[p] = r, AttemptOf[p] = a, KindOf[p] = "billed", proof[p].target # "none",
         ~overlappingZTAPIAttemptUsageTx(p, charges),
         \A q \in Proofs : proof'[q].target = proof[q].target,
         charge'[r][a].bill = BillOf[p],
         \A s \in Requests, b \in Attempts :
           <<s, b>> # <<r, a>> => charge'[s][b].bill \in {NoBill, charge[s][b].bill}
  PROVE  /\ BillsAreProven'
         /\ \A s, t \in Requests, b, c \in Attempts :
              (<<s, b>> # <<t, c>> /\ charge'[s][b].bill # NoBill)
                => charge'[s][b].bill # charge'[t][c].bill
  <1>1. ASSUME NEW s \in Requests, NEW b \in Attempts, <<s, b>> # <<r, a>>,
               charge[s][b].bill # NoBill
        PROVE  charge[s][b].bill # BillOf[p]
    <2>1. PICK q \in Proofs : /\ RequestOf[q] = s /\ AttemptOf[q] = b
                              /\ KindOf[q] = "billed" /\ proof[q].target # "none"
                              /\ BillOf[q] = charge[s][b].bill
      BY <1>1 DEF BillsAreProven
    <2>2. q # p
      BY <1>1, <2>1
    <2>3. QED
      BY <2>1, <2>2 DEF overlappingZTAPIAttemptUsageTx
  <1>2. BillOf[p] # NoBill
    BY DEF AttemptBillingAssumption
  <1>3. ASSUME NEW s \in Requests, NEW t \in Requests, NEW b \in Attempts, NEW c \in Attempts,
               <<s, b>> # <<t, c>>, charge'[s][b].bill # NoBill
        PROVE  charge'[s][b].bill # charge'[t][c].bill
    <2>1. CASE <<s, b>> = <<r, a>>
      BY <1>1, <1>2, <1>3, <2>1
    <2>2. CASE <<t, c>> = <<r, a>>
      BY <1>1, <1>2, <1>3, <2>2
    <2>3. CASE <<s, b>> # <<r, a>> /\ <<t, c>> # <<r, a>>
      BY <1>3, <2>3 DEF DistinctUsage
    <2>4. QED
      BY <2>1, <2>2, <2>3
  <1>4. ASSUME NEW s \in Requests, NEW b \in Attempts, charge'[s][b].bill # NoBill
        PROVE  \E q \in Proofs : /\ RequestOf[q] = s /\ AttemptOf[q] = b
                                 /\ KindOf[q] = "billed" /\ proof'[q].target # "none"
                                 /\ BillOf[q] = charge'[s][b].bill
    <2>1. CASE <<s, b>> = <<r, a>>
      BY <2>1
    <2>2. CASE <<s, b>> # <<r, a>>
      BY <1>4, <2>2 DEF BillsAreProven
    <2>3. QED
      BY <2>1, <2>2
  <1>5. QED
    BY <1>3, <1>4 DEF BillsAreProven

(***************************************************************************)
(* Types.                                                                  *)
(***************************************************************************)

\* What Sync writes has the types of its tables.
LEMMA SyncTyped ==
  ASSUME AttemptBillingAssumption, AttemptBillingTypeOK, ReviewsNameTheirProof,
         NEW r \in Requests, NEW row \in RowType, NEW resolved,
         NEW charges \in [Attempts -> ChargeType],
         row.status = "settled" => row.final \in Attempts,
         SyncZTAPIAttemptBillingReviewsTx(r, row, charges, resolved)
  PROVE  /\ review' \in [Requests -> [Attempts -> ReviewType]]
         /\ proof' \in [Proofs -> ProofType]
         /\ charge' \in [Requests -> [Attempts -> ChargeType]]
  <1>1. 1 \in Attempts
    BY DEF Attempts
  <1>2. SyncReviews(r, row, charges) \in [Attempts -> ReviewType]
    BY <1>1, SyncedReviews
  <1>3. SyncCharges(r, row, charges) \in [Attempts -> ChargeType]
    BY SyncedCharges DEF SyncZTAPIAttemptBillingReviewsTx
  <1>4. SyncProofs(r, row, charges) \in [Proofs -> ProofType]
    <2>1. CASE Proofs = {}
      BY <2>1 DEF SyncProofs
    <2>2. CASE Proofs # {}
      BY <2>2, SyncedProofs
    <2>3. QED
      BY <2>1, <2>2
  <1>5. QED
    BY <1>2, <1>3, <1>4 DEF SyncZTAPIAttemptBillingReviewsTx, AttemptBillingTypeOK

\* The row and the charges that a final debit commits.
LEMMA FinalizationTyped ==
  ASSUME AttemptBillingAssumption, AttemptBillingTypeOK, NEW r \in Requests, HasIntent(r)
  PROVE  /\ intent[r].attempt \in Attempts /\ intent[r].wire \in Wires \cup {NoWire}
         /\ [status |-> "settled", missing |-> "none", final |-> intent[r].attempt] \in RowType
         /\ [kind |-> "final", wire |-> intent[r].wire, bill |-> NoBill] \in ChargeType
         /\ [charge[r] EXCEPT ![intent[r].attempt] =
               [kind |-> "final", wire |-> intent[r].wire, bill |-> NoBill]]
              \in [Attempts -> ChargeType]
  <1>1. intent[r] \in IntentType /\ charge[r] \in [Attempts -> ChargeType]
    BY DEF AttemptBillingTypeOK
  <1>2. intent[r].attempt \in Attempts /\ intent[r].wire \in Wires \cup {NoWire}
    BY <1>1 DEF HasIntent, IntentType
  <1>3. [kind |-> "final", wire |-> intent[r].wire, bill |-> NoBill] \in ChargeType
    BY <1>2 DEF ChargeType
  <1>4. QED
    BY <1>1, <1>2, <1>3 DEF RowType

\* A finalization keeps the types.
LEMMA FinalizeTyped ==
  ASSUME AttemptBillingAssumption, AttemptBillingTypeOK, ReviewsNameTheirProof,
         NEW r \in Requests, finalizeZTAPIRequestSettlement(r)
  PROVE  AttemptBillingTypeOK'
  <1> DEFINE a == intent[r].attempt
             row == [status |-> "settled", missing |-> "none", final |-> a]
             anchored == [charge[r] EXCEPT ![a] = [kind |-> "final", wire |-> intent[r].wire,
                                                   bill |-> NoBill]]
             charges == IF intent[r].wire = NoWire THEN charge[r] ELSE anchored
  <1>1. /\ SyncZTAPIAttemptBillingReviewsTx(r, row, charges, "none")
        /\ HasIntent(r)
        /\ req' = [req EXCEPT ![r] = row]
        /\ intent' = [intent EXCEPT ![r].done = TRUE]
        /\ paid' = [paid EXCEPT ![r] = AttemptQuota]
        /\ UNCHANGED <<attempt, resolution, pass>>
    BY DEF finalizeZTAPIRequestSettlement
  <1>2. row \in RowType /\ row.final \in Attempts /\ charges \in [Attempts -> ChargeType]
    BY <1>1, FinalizationTyped DEF AttemptBillingTypeOK
  <1>3. /\ review' \in [Requests -> [Attempts -> ReviewType]]
        /\ proof' \in [Proofs -> ProofType]
        /\ charge' \in [Requests -> [Attempts -> ChargeType]]
    BY <1>1, <1>2, SyncTyped
  <1>4. intent' \in [Requests -> IntentType]
    BY <1>1 DEF AttemptBillingTypeOK, IntentType
  <1>5. QED
    BY <1>1, <1>2, <1>3, <1>4 DEF AttemptBillingTypeOK, AttemptBillingAssumption

\* A release under no-charge evidence keeps the types.
LEMMA ResolveTyped ==
  ASSUME AttemptBillingAssumption, AttemptBillingTypeOK, ReviewsNameTheirProof,
         NEW r \in Requests, NEW by \in {"reviewer", "approvals"},
         resolveZTAPIPendingNoCharge(r, by)
  PROVE  AttemptBillingTypeOK'
  <1> DEFINE row == [req[r] EXCEPT !.status = "released"]
  <1>1. row \in RowType /\ row.status = "released" /\ charge[r] \in [Attempts -> ChargeType]
    BY DEF AttemptBillingTypeOK, RowType
  <1>2. SyncZTAPIAttemptBillingReviewsTx(r, row, charge[r], by)
    BY DEF resolveZTAPIPendingNoCharge
  <1>3. /\ review' \in [Requests -> [Attempts -> ReviewType]]
        /\ proof' \in [Proofs -> ProofType]
        /\ charge' \in [Requests -> [Attempts -> ChargeType]]
    BY <1>1, <1>2, SyncTyped
  <1>4. QED
    BY <1>1, <1>3 DEF resolveZTAPIPendingNoCharge, AttemptBillingTypeOK

\* An approval keeps the types.
LEMMA ApproveTyped ==
  ASSUME AttemptBillingAssumption, AttemptBillingTypeOK, NEW p \in Proofs,
         ApproveZTAPIAttemptBilling(p)
  PROVE  AttemptBillingTypeOK'
  <1> DEFINE r == RequestOf[p]
             a == AttemptOf[p]
             target == ApplyTarget(p)
             ensured == EnsureZTAPIAttemptBillingReviewsTx(r, req[r])
  <1>1. r \in Requests /\ a \in Attempts /\ WireOf[p] \in Wires
    BY DEF AttemptBillingAssumption
  <1>2. req[r] \in RowType /\ intent[r] \in IntentType
    BY <1>1 DEF AttemptBillingTypeOK
  <1>3. ensured \in [Attempts -> ReviewType]
    BY <1>1, <1>2, EnsuredReviews
  <1>4. review' \in [Requests -> [Attempts -> ReviewType]]
    <2>1. PICK status \in {"verified_nocharge", "pending"} :
            review' = [review EXCEPT ![r] = [ensured EXCEPT ![a] =
                                               [status |-> status, proof |-> p]]]
      BY DEF ApproveZTAPIAttemptBilling
    <2>2. [status |-> status, proof |-> p] \in ReviewType
      BY DEF ReviewType
    <2>3. QED
      BY <1>3, <2>1, <2>2 DEF AttemptBillingTypeOK
  <1>5. proof' \in [Proofs -> ProofType]
    <2>1. target \in {"none", "pending_final", "pending_nocharge", "additional_attempt"}
      BY DEF ApplyTarget
    <2>2. PICK status \in {"completed", "approved"} :
            proof' = [proof EXCEPT ![p] = [status |-> status, target |-> target]]
      BY DEF ApproveZTAPIAttemptBilling
    <2>3. [status |-> status, target |-> target] \in ProofType
      BY <2>1 DEF ProofType
    <2>4. QED
      BY <2>2, <2>3 DEF AttemptBillingTypeOK
  <1>6. intent' \in [Requests -> IntentType] /\ req' \in [Requests -> RowType]
    <2>1. CASE UNCHANGED <<intent, req>>
      BY <2>1 DEF AttemptBillingTypeOK
    <2>2. CASE /\ intent' = [intent EXCEPT ![r] = [attempt |-> a, wire |-> WireOf[p],
                                                   done |-> FALSE]]
               /\ req' = [req EXCEPT ![r].missing = "retry"]
      <3>1. [attempt |-> a, wire |-> WireOf[p], done |-> FALSE] \in IntentType
        BY <1>1 DEF IntentType
      <3>2. [req[r] EXCEPT !.missing = "retry"] \in RowType
        BY <1>2 DEF RowType
      <3>3. QED
        BY <1>1, <2>2, <3>1, <3>2 DEF AttemptBillingTypeOK
    <2>3. QED
      BY <2>1, <2>2 DEF ApproveZTAPIAttemptBilling
  <1>7. QED
    BY <1>4, <1>5, <1>6 DEF ApproveZTAPIAttemptBilling, AttemptBillingTypeOK

\* The attempts of a request are numbered 1 and 2.
LEMMA AttemptNumbers ==
  /\ \A n \in Nat : n <= 2 => n \in {0} \cup Attempts
  /\ \A n \in Nat : n <= 2 /\ n # 0 => n \in Attempts
  BY DEF Attempts

\* The steps of the relay keep the types.
LEMMA RelayTyped ==
  ASSUME AttemptBillingAssumption, AttemptBillingTypeOK, NEW r \in Requests, Relay(r)
  PROVE  AttemptBillingTypeOK'
  <1>1. attempt[r] \in Seq(AttemptType) /\ Len(attempt[r]) <= 2 /\ intent[r] \in IntentType
    BY DEF AttemptBillingTypeOK
  <1>2. CASE BeginZTAPIRequestAttempt(r)
    <2> DEFINE started == [answer |-> "none", wire |-> NoWire]
    <2>1. started \in AttemptType
      BY DEF AttemptType
    <2>2. /\ Append(attempt[r], started) \in Seq(AttemptType)
          /\ Len(Append(attempt[r], started)) <= 2
      BY <1>1, <1>2, <2>1 DEF BeginZTAPIRequestAttempt
    <2>3. attempt' = [attempt EXCEPT ![r] = Append(attempt[r], started)]
      BY <1>2 DEF BeginZTAPIRequestAttempt
    <2>4. /\ attempt' \in [Requests -> Seq(AttemptType)]
          /\ \A s \in Requests : Len(attempt'[s]) <= 2
      BY <2>2, <2>3 DEF AttemptBillingTypeOK
    <2>5. QED
      BY <1>2, <2>4 DEF BeginZTAPIRequestAttempt, AttemptBillingTypeOK
  <1>3. ASSUME NEW a \in Attempts, NEW answer \in {"ok", "rejected"},
               NEW w \in Wires \cup {NoWire}, RecordZTAPIRequestAttemptResponse(r, a, answer, w)
        PROVE  AttemptBillingTypeOK'
    <2> DEFINE recorded == [answer |-> answer, wire |-> w]
    <2>1. recorded \in AttemptType
      BY DEF AttemptType
    <2>2. a \in 1..Len(attempt[r])
      BY <1>3 DEF RecordZTAPIRequestAttemptResponse, Recorded
    <2>3. /\ [attempt[r] EXCEPT ![a] = recorded] \in Seq(AttemptType)
          /\ Len([attempt[r] EXCEPT ![a] = recorded]) = Len(attempt[r])
      BY <1>1, <2>1, <2>2
    <2>4. attempt' = [attempt EXCEPT ![r] = [attempt[r] EXCEPT ![a] = recorded]]
      BY <1>3 DEF RecordZTAPIRequestAttemptResponse, AttemptBillingTypeOK
    <2>5. /\ attempt' \in [Requests -> Seq(AttemptType)]
          /\ \A s \in Requests : Len(attempt'[s]) <= 2
      BY <1>1, <2>3, <2>4 DEF AttemptBillingTypeOK
    <2>6. QED
      BY <1>3, <2>5 DEF RecordZTAPIRequestAttemptResponse, AttemptBillingTypeOK
  <1>4. CASE PendZTAPIRequestSettlement(r)
    <2>1. PICK missing \in {"unconfirmed", "retry"} :
            req' = [req EXCEPT ![r] = [status |-> "pending", missing |-> missing,
                                       final |-> req[r].final]]
      BY <1>4 DEF PendZTAPIRequestSettlement, AttemptBillingTypeOK
    <2>2. req[r] \in RowType
      BY DEF AttemptBillingTypeOK
    <2>3. [status |-> "pending", missing |-> missing, final |-> req[r].final] \in RowType
      BY <2>2 DEF RowType
    <2>4. req' \in [Requests -> RowType]
      BY <2>1, <2>3 DEF AttemptBillingTypeOK
    <2>5. QED
      BY <1>4, <2>4 DEF PendZTAPIRequestSettlement, AttemptBillingTypeOK
  <1>5. CASE saveZTAPISettlementFinalizationIntent(r)
    <2> DEFINE n == Len(attempt[r])
    <2>1. n \in Attempts
      <3>1. n \in Nat /\ n <= 2
        BY <1>1, LenProperties
      <3>2. n # 0
        BY <1>1, <1>5, EmptySeq DEF saveZTAPISettlementFinalizationIntent
      <3>3. QED
        BY <3>1, <3>2, AttemptNumbers
    <2>2. attempt[r][n] \in AttemptType
      BY <1>1, <2>1 DEF Attempts
    <2>3. [attempt |-> n, wire |-> attempt[r][n].wire, done |-> FALSE] \in IntentType
      BY <2>1, <2>2 DEF IntentType, AttemptType
    <2>4. intent' \in [Requests -> IntentType]
      BY <1>5, <2>3 DEF saveZTAPISettlementFinalizationIntent, AttemptBillingTypeOK
    <2>5. QED
      BY <1>5, <2>4 DEF saveZTAPISettlementFinalizationIntent, AttemptBillingTypeOK
  <1>6. QED
    BY <1>2, <1>3, <1>4, <1>5 DEF Relay

\* A retried proof keeps the types.
LEMMA RetryTyped ==
  ASSUME AttemptBillingAssumption, AttemptBillingTypeOK, ReviewsNameTheirProof,
         NEW p \in Proofs, RetryZTAPIAttemptBillings(p)
  PROVE  AttemptBillingTypeOK'
  <1> DEFINE r == RequestOf[p]
  <1>1. r \in Requests /\ WireOf[p] \in Wires
    BY DEF AttemptBillingAssumption
  <1>2. CASE ProcessAdditionalAttempt(p)
    <2> DEFINE added == [kind |-> "additional", wire |-> WireOf[p], bill |-> BillOf[p]]
    <2>1. added \in ChargeType
      BY <1>1 DEF ChargeType
    <2>2. charge' \in [Requests -> [Attempts -> ChargeType]]
      BY <1>2, <2>1 DEF ProcessAdditionalAttempt, AttemptBillingTypeOK
    <2>3. review' \in [Requests -> [Attempts -> ReviewType]]
      <3>1. review[r] \in [Attempts -> ReviewType] /\ 1 \in Attempts
        BY <1>1 DEF AttemptBillingTypeOK, Attempts
      <3>2. [review[r][1] EXCEPT !.status = "verified_billed"] \in ReviewType
        BY <3>1 DEF ReviewType
      <3>3. review' = [review EXCEPT ![r] = [review[r] EXCEPT ![1] =
                                               [review[r][1] EXCEPT !.status = "verified_billed"]]]
        BY <1>1, <1>2 DEF ProcessAdditionalAttempt, AttemptBillingTypeOK
      <3>4. QED
        BY <3>1, <3>2, <3>3 DEF AttemptBillingTypeOK
    <2>4. proof' \in [Proofs -> ProofType]
      BY <1>2 DEF ProcessAdditionalAttempt, AttemptBillingTypeOK, ProofType
    <2>5. paid' \in [Requests -> Nat]
      BY <1>1, <1>2 DEF ProcessAdditionalAttempt, AttemptBillingTypeOK,
                        AttemptBillingAssumption
    <2>6. QED
      BY <1>2, <2>2, <2>3, <2>4, <2>5 DEF ProcessAdditionalAttempt, AttemptBillingTypeOK
  <1>3. CASE ProcessPendingFinal(p)
    BY <1>1, <1>3, FinalizeTyped DEF ProcessPendingFinal
  <1>4. CASE CompleteAttemptBilling(p)
    <2>1. proof' \in [Proofs -> ProofType]
      BY <1>4 DEF CompleteAttemptBilling, AttemptBillingTypeOK, ProofType
    <2>2. QED
      BY <1>4, <2>1 DEF CompleteAttemptBilling, AttemptBillingTypeOK
  <1>5. QED
    BY <1>2, <1>3, <1>4 DEF RetryZTAPIAttemptBillings

\* Closing the proofs of a release keeps the types.
LEMMA CompleteTyped ==
  ASSUME AttemptBillingTypeOK, NEW r \in Requests, CompleteApprovedNoCharge(r)
  PROVE  AttemptBillingTypeOK'
  <1>1. \A p \in Proofs : proof[p] \in ProofType
    BY DEF AttemptBillingTypeOK
  <1>2. \A p \in Proofs : [proof[p] EXCEPT !.status = "completed"] \in ProofType
    BY <1>1 DEF ProofType
  <1>3. PICK closing \in SUBSET Proofs :
          proof' = [p \in Proofs |-> IF p \in closing
                                     THEN [proof[p] EXCEPT !.status = "completed"] ELSE proof[p]]
    BY DEF CompleteApprovedNoCharge
  <1>4. proof' \in [Proofs -> ProofType]
    BY <1>1, <1>2, <1>3
  <1>5. QED
    BY <1>4 DEF CompleteApprovedNoCharge, AttemptBillingTypeOK

\* Every step keeps the types.
LEMMA TypeStep ==
  ASSUME AttemptBillingAssumption, AttemptBillingTypeOK, ReviewsNameTheirProof,
         ChargesAreSettled, [Next]_vars
  PROVE  AttemptBillingTypeOK'
  <1>1. ASSUME NEW r \in Requests, Maintenance(r)
        PROVE  AttemptBillingTypeOK'
    BY <1>1, FinalizeTyped, ResolveTyped, CompleteTyped
    DEF Maintenance, resolveZTAPIPendingFromApprovedNoChargeAttempts
  <1>2. ASSUME NEW r \in Requests, ReleaseZTAPIDispatchedRejectedSettlement(r)
        PROVE  AttemptBillingTypeOK'
    <2>1. Len(attempt[r]) \in {0} \cup Attempts
      <3>1. attempt[r] \in Seq(AttemptType) /\ Len(attempt[r]) <= 2
        BY DEF AttemptBillingTypeOK
      <3>2. Len(attempt[r]) \in Nat
        BY <3>1, LenProperties
      <3>3. QED
        BY <3>1, <3>2, AttemptNumbers
    <2>2. req' \in [Requests -> RowType] /\ paid' \in [Requests -> Nat]
      BY <1>2, <2>1
      DEF ReleaseZTAPIDispatchedRejectedSettlement, AttemptBillingTypeOK, RowType
    <2>3. QED
      BY <1>2, <2>2 DEF ReleaseZTAPIDispatchedRejectedSettlement, AttemptBillingTypeOK
  <1>3. CASE Reviewer
    <2>1. ASSUME NEW r \in Requests, ResolveZTAPIPendingNoCharge(r)
          PROVE  AttemptBillingTypeOK'
      BY <2>1, ResolveTyped DEF ResolveZTAPIPendingNoCharge
    <2>2. ASSUME NEW p \in Proofs, SubmitZTAPIAttemptBilling(p)
          PROVE  AttemptBillingTypeOK'
      <3>1. proof' \in [Proofs -> ProofType]
        BY <2>2 DEF SubmitZTAPIAttemptBilling, AttemptBillingTypeOK, ProofType
      <3>2. QED
        BY <2>2, <3>1 DEF SubmitZTAPIAttemptBilling, AttemptBillingTypeOK
    <2>3. ASSUME NEW p \in Proofs, ApprovalPends(p)
          PROVE  AttemptBillingTypeOK'
      <3> DEFINE r == RequestOf[p]
      <3>1. r \in Requests /\ AttemptOf[p] \in Attempts
        BY DEF AttemptBillingAssumption
      <3>2. EnsureZTAPIAttemptBillingReviewsTx(r, req[r]) \in [Attempts -> ReviewType]
        BY <3>1, RowsTyped, EnsuredReviews
      <3>3. review' \in [Requests -> [Attempts -> ReviewType]]
        BY <2>3, <3>2 DEF ApprovalPends, AttemptBillingTypeOK
      <3>4. QED
        BY <2>3, <3>3 DEF ApprovalPends, AttemptBillingTypeOK
    <2>4. QED
      BY <1>3, <2>1, <2>2, <2>3, ApproveTyped DEF Reviewer
  <1>4. CASE StartReconcile
    BY <1>4 DEF StartReconcile, AttemptBillingTypeOK
  <1>5. CASE ReconcileRow
    <2>1. PICK r \in pass :
            /\ \/ /\ SyncZTAPIAttemptBillingReviewsTx(r, req[r], charge[r], resolution[r])
                  /\ pass' = pass \ {r}
               \/ pass' = {} /\ UNCHANGED <<review, proof, charge>>
            /\ UNCHANGED <<req, attempt, intent, resolution, paid>>
      BY <1>5 DEF ReconcileRow
    <2>2. r \in Requests /\ req[r] \in RowType /\ charge[r] \in [Attempts -> ChargeType]
      BY DEF AttemptBillingTypeOK
    <2>3. /\ review' \in [Requests -> [Attempts -> ReviewType]]
          /\ proof' \in [Proofs -> ProofType]
          /\ charge' \in [Requests -> [Attempts -> ChargeType]]
      BY <2>1, <2>2, SyncTyped DEF ChargesAreSettled, AttemptBillingTypeOK
    <2>4. pass' \subseteq Requests
      BY <2>1 DEF AttemptBillingTypeOK
    <2>5. QED
      BY <2>1, <2>3, <2>4 DEF AttemptBillingTypeOK
  <1>6. CASE UNCHANGED vars
    BY <1>6 DEF vars, AttemptBillingTypeOK
  <1>7. QED
    BY <1>1, <1>2, <1>3, <1>4, <1>5, <1>6, RelayTyped, RetryTyped DEF Next

(***************************************************************************)
(* One request: its row, its charges and what was paid for it.             *)
(***************************************************************************)

\* What ChargesAreSettled and PaidIsExact say of one request.
RowExact(row, charges, sum) ==
  /\ row.status = "settled" => row.final \in Attempts
  /\ \A a \in Attempts :
       /\ row.status # "settled" => charges[a] = NoCharge
       /\ charges[a].kind = "none" => charges[a] = NoCharge
       /\ charges[a].kind = "final" => row.final = a
       /\ charges[a].kind = "additional" => a = 1 /\ row.final = 2
  /\ sum = CASE row.status = "settled" ->
                  AttemptQuota + (IF charges[1].kind = "additional" THEN AttemptQuota ELSE 0)
             [] row.status = "released" -> 0
             [] OTHER -> ReservedQuota

\* The two invariants, request by request.
LEMMA RowsExact ==
  ChargesAreSettled /\ PaidIsExact
    <=> \A r \in Requests : RowExact(req[r], charge[r], paid[r])
  BY DEF ChargesAreSettled, PaidIsExact, RowExact

\* A step that touches one request needs to be right about that one.
LEMMA OtherRowsExact ==
  ASSUME ChargesAreSettled, PaidIsExact, NEW r \in Requests,
         \A s \in Requests \ {r} :
           req'[s] = req[s] /\ charge'[s] = charge[s] /\ paid'[s] = paid[s],
         RowExact(req'[r], charge'[r], paid'[r])
  PROVE  ChargesAreSettled' /\ PaidIsExact'
  <1>1. ASSUME NEW s \in Requests
        PROVE  RowExact(req'[s], charge'[s], paid'[s])
    BY <1>1, RowsExact
  <1>2. QED
    BY <1>1 DEF ChargesAreSettled, PaidIsExact, RowExact

\* A request that is not settled has no charge, whatever else its row says.
LEMMA UnsettledRow ==
  ASSUME NEW row, NEW charges, NEW sum, row.status # "settled",
         \A a \in Attempts : charges[a] = NoCharge,
         sum = IF row.status = "released" THEN 0 ELSE ReservedQuota
  PROVE  RowExact(row, charges, sum)
  BY DEF RowExact, NoCharge

\* The bill that Sync adds changes no charge's kind.
LEMMA SyncedRow ==
  ASSUME AttemptBillingAssumption, AttemptBillingTypeOK, ReviewsNameTheirProof,
         NEW r \in Requests, NEW row \in RowType, NEW resolved, NEW sum,
         NEW charges \in [Attempts -> ChargeType], RowExact(row, charges, sum),
         SyncOK(r, row, charges, resolved)
  PROVE  RowExact(row, SyncCharges(r, row, charges), sum)
  <1> DEFINE synced == SyncCharges(r, row, charges)
  <1>1. row.status = "settled" => row.final \in Attempts
    BY DEF RowExact
  <1>2. CASE synced = charges
    BY <1>2
  <1>3. ASSUME NEW p \in Proofs, BilledBy(p, r, row, charges),
               synced = [charges EXCEPT ![row.final].bill = BillOf[p]]
        PROVE  RowExact(row, synced, sum)
    <2>1. row.final \in Attempts /\ charges[row.final].kind = "final" /\ row.status = "settled"
      BY <1>1, <1>3 DEF BilledBy
    <2>2. \A a \in Attempts : a # row.final => synced[a] = charges[a]
      BY <1>3
    <2>3. synced[row.final].kind = "final"
      BY <1>3, <2>1 DEF ChargeType
    <2>4. 1 \in Attempts
      BY DEF Attempts
    <2>5. QED
      BY <2>1, <2>2, <2>3, <2>4 DEF RowExact
  <1>4. QED
    BY <1>1, <1>2, <1>3, SyncedCharges

\* What a request has been charged is unchanged by what leaves its row and charges.
LEMMA RelayKeepsRows ==
  ASSUME BillingInv, NEW r \in Requests, Relay(r)
  PROVE  ChargesAreSettled' /\ PaidIsExact'
  <1>1. CASE UNCHANGED <<req, charge, paid>>
    BY <1>1 DEF BillingInv, ChargesAreSettled, PaidIsExact
  <1>2. CASE PendZTAPIRequestSettlement(r)
    <2>1. /\ req[r].status = "reserved" /\ req'[r].status = "pending"
          /\ charge' = charge /\ paid' = paid
          /\ \A s \in Requests \ {r} : req'[s] = req[s]
      BY <1>2 DEF PendZTAPIRequestSettlement, BillingInv, AttemptBillingTypeOK
    <2>2. RowExact(req[r], charge[r], paid[r])
      BY RowsExact DEF BillingInv
    <2>3. RowExact(req'[r], charge'[r], paid'[r])
      <3>1. paid'[r] = ReservedQuota /\ \A a \in Attempts : charge'[r][a] = NoCharge
        BY <2>1, <2>2 DEF RowExact
      <3>2. QED
        BY <2>1, <3>1, UnsettledRow
    <2>4. QED
      BY <2>1, <2>3, OtherRowsExact DEF BillingInv
  <1>3. QED
    BY <1>1, <1>2 DEF Relay, BeginZTAPIRequestAttempt, RecordZTAPIRequestAttemptResponse,
                      saveZTAPISettlementFinalizationIntent

\* The charges and the row a final debit commits are exact before Sync adds a bill.
LEMMA FinalizedRow ==
  ASSUME AttemptBillingAssumption, BillingInv, NEW r \in Requests,
         finalizeZTAPIRequestSettlement(r)
  PROVE  LET a == intent[r].attempt
             row == [status |-> "settled", missing |-> "none", final |-> a]
             anchored == [charge[r] EXCEPT ![a] = [kind |-> "final", wire |-> intent[r].wire,
                                                   bill |-> NoBill]]
             charges == IF intent[r].wire = NoWire THEN charge[r] ELSE anchored
         IN  /\ a \in Attempts /\ row \in RowType /\ charges \in [Attempts -> ChargeType]
             /\ RowExact(row, charges, AttemptQuota)
             /\ \A b \in Attempts : charge[r][b] = NoCharge /\ (b # a => charges[b] = NoCharge)
             /\ charges[a].bill = NoBill
             /\ SyncZTAPIAttemptBillingReviewsTx(r, row, charges, "none")
  <1> DEFINE a == intent[r].attempt
             row == [status |-> "settled", missing |-> "none", final |-> a]
             final == [kind |-> "final", wire |-> intent[r].wire, bill |-> NoBill]
             anchored == [charge[r] EXCEPT ![a] = final]
             charges == IF intent[r].wire = NoWire THEN charge[r] ELSE anchored
  <1>1. AttemptBillingTypeOK
    BY DEF BillingInv
  <1>2. /\ HasIntent(r) /\ req[r].status # "settled"
        /\ SyncZTAPIAttemptBillingReviewsTx(r, row, charges, "none")
    BY DEF finalizeZTAPIRequestSettlement
  <1>3. a \in Attempts /\ row \in RowType /\ anchored \in [Attempts -> ChargeType]
    BY <1>1, <1>2, FinalizationTyped
  <1>4. charges \in [Attempts -> ChargeType] /\ charge[r] \in [Attempts -> ChargeType]
    BY <1>1, <1>3 DEF AttemptBillingTypeOK
  <1>5. \A b \in Attempts : charge[r][b] = NoCharge
    BY <1>2 DEF BillingInv, ChargesAreSettled
  <1>6. \A b \in Attempts : charges[b] = NoCharge \/ (b = a /\ charges[b] = final)
    BY <1>4, <1>5
  <1>7. charges[a].bill = NoBill
    BY <1>3, <1>6 DEF NoCharge
  <1>8. RowExact(row, charges, AttemptQuota)
    <2>1. 1 \in Attempts /\ AttemptQuota + 0 = AttemptQuota
      BY DEF Attempts, AttemptBillingAssumption
    <2>2. \A b \in Attempts : charges[b].kind # "additional"
      BY <1>6 DEF NoCharge
    <2>3. QED
      BY <1>3, <1>6, <2>1, <2>2 DEF RowExact, NoCharge
  <1>9. QED
    BY <1>2, <1>3, <1>4, <1>5, <1>6, <1>7, <1>8

\* A final debit charges the request once.
LEMMA FinalizeKeepsRows ==
  ASSUME AttemptBillingAssumption, BillingInv, NEW r \in Requests,
         finalizeZTAPIRequestSettlement(r)
  PROVE  ChargesAreSettled' /\ PaidIsExact'
  <1> DEFINE a == intent[r].attempt
             row == [status |-> "settled", missing |-> "none", final |-> a]
             anchored == [charge[r] EXCEPT ![a] = [kind |-> "final", wire |-> intent[r].wire,
                                                   bill |-> NoBill]]
             charges == IF intent[r].wire = NoWire THEN charge[r] ELSE anchored
  <1>1. /\ row \in RowType /\ charges \in [Attempts -> ChargeType]
        /\ RowExact(row, charges, AttemptQuota)
        /\ SyncZTAPIAttemptBillingReviewsTx(r, row, charges, "none")
    BY FinalizedRow
  <1>2. AttemptBillingTypeOK /\ ReviewsNameTheirProof
    BY DEF BillingInv
  <1>3. RowExact(row, SyncCharges(r, row, charges), AttemptQuota)
    BY <1>1, <1>2, SyncedRow DEF SyncZTAPIAttemptBillingReviewsTx
  <1>4. /\ req' = [req EXCEPT ![r] = row]
        /\ paid' = [paid EXCEPT ![r] = AttemptQuota]
        /\ charge' = [charge EXCEPT ![r] = SyncCharges(r, row, charges)]
    BY <1>1 DEF finalizeZTAPIRequestSettlement, SyncZTAPIAttemptBillingReviewsTx
  <1>5. /\ req'[r] = row /\ paid'[r] = AttemptQuota
        /\ charge'[r] = SyncCharges(r, row, charges)
        /\ \A s \in Requests \ {r} :
             req'[s] = req[s] /\ charge'[s] = charge[s] /\ paid'[s] = paid[s]
    BY <1>2, <1>4 DEF AttemptBillingTypeOK
  <1>6. QED
    BY <1>3, <1>5, OtherRowsExact DEF BillingInv

\* A release gives back the reservation of a request that has no charge.
LEMMA ReleaseKeepsRows ==
  ASSUME AttemptBillingAssumption, BillingInv, NEW r \in Requests,
         \/ ReleaseZTAPIDispatchedRejectedSettlement(r)
         \/ \E by \in {"reviewer", "approvals"} : resolveZTAPIPendingNoCharge(r, by)
  PROVE  ChargesAreSettled' /\ PaidIsExact'
  <1>1. req[r].status # "settled" /\ \A a \in Attempts : charge[r][a] = NoCharge
    BY DEF BillingInv, ChargesAreSettled, ReleaseZTAPIDispatchedRejectedSettlement,
           resolveZTAPIPendingNoCharge
  <1>2. /\ req'[r].status = "released" /\ paid'[r] = 0 /\ charge' = charge
        /\ \A s \in Requests \ {r} : req'[s] = req[s] /\ paid'[s] = paid[s]
    <2>1. CASE ReleaseZTAPIDispatchedRejectedSettlement(r)
      BY <2>1 DEF ReleaseZTAPIDispatchedRejectedSettlement, BillingInv, AttemptBillingTypeOK
    <2>2. ASSUME NEW by \in {"reviewer", "approvals"}, resolveZTAPIPendingNoCharge(r, by)
          PROVE  /\ req'[r].status = "released" /\ paid'[r] = 0 /\ charge' = charge
                 /\ \A s \in Requests \ {r} : req'[s] = req[s] /\ paid'[s] = paid[s]
      <3> DEFINE row == [req[r] EXCEPT !.status = "released"]
      <3>1. req[r] \in RowType /\ charge \in [Requests -> [Attempts -> ChargeType]]
        BY DEF BillingInv, AttemptBillingTypeOK
      <3>2. row.status = "released"
        BY <3>1 DEF RowType
      <3>3. SyncCharges(r, row, charge[r]) = charge[r]
        BY <3>2 DEF SyncCharges
      <3>4. /\ req' = [req EXCEPT ![r] = row] /\ paid' = [paid EXCEPT ![r] = 0]
            /\ charge' = [charge EXCEPT ![r] = charge[r]]
        BY <2>2, <3>3 DEF resolveZTAPIPendingNoCharge, SyncZTAPIAttemptBillingReviewsTx
      <3>5. QED
        BY <3>1, <3>2, <3>4 DEF BillingInv, AttemptBillingTypeOK
    <2>3. QED
      BY <2>1, <2>2
  <1>3. RowExact(req'[r], charge'[r], paid'[r])
    BY <1>1, <1>2, UnsettledRow
  <1>4. QED
    BY <1>2, <1>3, OtherRowsExact DEF BillingInv

\* An approval leaves the row's status, its charges and what was paid.
LEMMA ApproveKeepsRows ==
  ASSUME AttemptBillingAssumption, BillingInv, NEW p \in Proofs, ApproveZTAPIAttemptBilling(p)
  PROVE  ChargesAreSettled' /\ PaidIsExact'
  <1> DEFINE r == RequestOf[p]
  <1>1. r \in Requests /\ req[r] \in RowType /\ charge' = charge /\ paid' = paid
    BY DEF AttemptBillingAssumption, BillingInv, AttemptBillingTypeOK, ApproveZTAPIAttemptBilling
  <1>2. /\ req'[r].status = req[r].status /\ req'[r].final = req[r].final
        /\ \A s \in Requests \ {r} : req'[s] = req[s]
    <2>1. req' = req \/ req' = [req EXCEPT ![r] = [req[r] EXCEPT !.missing = "retry"]]
      BY DEF ApproveZTAPIAttemptBilling, BillingInv, AttemptBillingTypeOK
    <2>2. /\ [req[r] EXCEPT !.missing = "retry"].status = req[r].status
          /\ [req[r] EXCEPT !.missing = "retry"].final = req[r].final
      BY <1>1 DEF RowType
    <2>3. req \in [Requests -> RowType]
      BY DEF BillingInv, AttemptBillingTypeOK
    <2>4. QED
      BY <1>1, <2>1, <2>2, <2>3
  <1>3. RowExact(req[r], charge[r], paid[r])
    BY <1>1, RowsExact DEF BillingInv
  <1>4. RowExact(req'[r], charge'[r], paid'[r])
    BY <1>1, <1>2, <1>3 DEF RowExact
  <1>5. QED
    BY <1>1, <1>2, <1>4, OtherRowsExact DEF BillingInv

\* An additional debit is paid once, for an attempt that had no charge.
LEMMA AdditionalKeepsRows ==
  ASSUME AttemptBillingAssumption, BillingInv, NEW p \in Proofs, ProcessAdditionalAttempt(p)
  PROVE  ChargesAreSettled' /\ PaidIsExact'
  <1> DEFINE r == RequestOf[p]
             added == [kind |-> "additional", wire |-> WireOf[p], bill |-> BillOf[p]]
  <1>1. r \in Requests /\ AttemptQuota \in Nat /\ 1 \in Attempts
    BY DEF AttemptBillingAssumption, Attempts
  <1>2. /\ req[r].status = "settled" /\ req[r].final = 2 /\ charge[r][1] = NoCharge
    BY DEF BillingInv, AdditionalTargets, ProcessAdditionalAttempt
  <1>3. RowExact(req[r], charge[r], paid[r])
    BY <1>1, RowsExact DEF BillingInv
  <1>4. /\ req' = req /\ paid'[r] = paid[r] + AttemptQuota
        /\ charge'[r] = [charge[r] EXCEPT ![1] = added]
        /\ \A s \in Requests \ {r} : charge'[s] = charge[s] /\ paid'[s] = paid[s]
    BY <1>1 DEF ProcessAdditionalAttempt, BillingInv, AttemptBillingTypeOK
  <1>5. charge'[r][1] = added /\ \A a \in Attempts : a # 1 => charge'[r][a] = charge[r][a]
    BY <1>1, <1>4 DEF BillingInv, AttemptBillingTypeOK
  <1>6. paid[r] = AttemptQuota
    BY <1>1, <1>2, <1>3 DEF RowExact, NoCharge
  <1>7. RowExact(req'[r], charge'[r], paid'[r])
    <2>1. req'[r].status = "settled" /\ req'[r].final = 2 /\ 2 \in Attempts
      BY <1>2, <1>4 DEF Attempts
    <2>2. charge'[r][1].kind = "additional" /\ paid'[r] = AttemptQuota + AttemptQuota
      BY <1>4, <1>5, <1>6
    <2>3. \A a \in Attempts :
            /\ charge'[r][a].kind = "none" => charge'[r][a] = NoCharge
            /\ charge'[r][a].kind = "final" => req'[r].final = a
            /\ charge'[r][a].kind = "additional" => a = 1 /\ req'[r].final = 2
      BY <1>3, <1>4, <1>5, <2>1, <2>2 DEF RowExact
    <2>4. QED
      BY <2>1, <2>2, <2>3 DEF RowExact
  <1>8. QED
    BY <1>1, <1>4, <1>7, OtherRowsExact DEF BillingInv

\* The reconcile pass puts a bill on a final charge and changes nothing else here.
LEMMA ReconcileKeepsRows ==
  ASSUME AttemptBillingAssumption, BillingInv, ReconcileRow
  PROVE  ChargesAreSettled' /\ PaidIsExact'
  <1>1. PICK r \in Requests :
          /\ \/ SyncZTAPIAttemptBillingReviewsTx(r, req[r], charge[r], resolution[r])
             \/ UNCHANGED <<review, proof, charge>>
          /\ UNCHANGED <<req, intent, paid>>
    BY DEF ReconcileRow, BillingInv, AttemptBillingTypeOK
  <1>2. CASE UNCHANGED charge
    BY <1>1, <1>2 DEF BillingInv, ChargesAreSettled, PaidIsExact
  <1>3. CASE SyncZTAPIAttemptBillingReviewsTx(r, req[r], charge[r], resolution[r])
    <2>1. /\ AttemptBillingTypeOK /\ ReviewsNameTheirProof
          /\ req[r] \in RowType /\ charge[r] \in [Attempts -> ChargeType]
          /\ RowExact(req[r], charge[r], paid[r])
      BY RowsExact DEF BillingInv, AttemptBillingTypeOK
    <2>2. RowExact(req[r], SyncCharges(r, req[r], charge[r]), paid[r])
      BY <1>3, <2>1, SyncedRow DEF SyncZTAPIAttemptBillingReviewsTx
    <2>3. /\ charge'[r] = SyncCharges(r, req[r], charge[r])
          /\ \A s \in Requests \ {r} : charge'[s] = charge[s]
      BY <1>3, <2>1 DEF SyncZTAPIAttemptBillingReviewsTx, AttemptBillingTypeOK
    <2>4. QED
      BY <1>1, <2>2, <2>3, OtherRowsExact DEF BillingInv
  <1>4. QED
    BY <1>1, <1>2, <1>3

\* Every step leaves each request charged and paid for as its state says.
LEMMA MoneyStep ==
  ASSUME AttemptBillingAssumption, BillingInv, [Next]_vars
  PROVE  ChargesAreSettled' /\ PaidIsExact'
  <1>1. CASE UNCHANGED <<req, charge, paid>>
    BY <1>1 DEF BillingInv, ChargesAreSettled, PaidIsExact
  <1>2. ASSUME NEW r \in Requests, Maintenance(r)
        PROVE  ChargesAreSettled' /\ PaidIsExact'
    BY <1>1, <1>2, FinalizeKeepsRows, ReleaseKeepsRows
    DEF Maintenance, resolveZTAPIPendingFromApprovedNoChargeAttempts, CompleteApprovedNoCharge
  <1>3. CASE Reviewer
    BY <1>1, <1>3, ReleaseKeepsRows, ApproveKeepsRows
    DEF Reviewer, ResolveZTAPIPendingNoCharge, SubmitZTAPIAttemptBilling, ApprovalPends
  <1>4. ASSUME NEW p \in Proofs, RetryZTAPIAttemptBillings(p)
        PROVE  ChargesAreSettled' /\ PaidIsExact'
    <2>1. RequestOf[p] \in Requests
      BY DEF AttemptBillingAssumption
    <2>2. QED
      BY <1>1, <1>4, <2>1, FinalizeKeepsRows, AdditionalKeepsRows
      DEF RetryZTAPIAttemptBillings, ProcessPendingFinal, CompleteAttemptBilling
  <1>5. CASE StartReconcile \/ UNCHANGED vars
    BY <1>1, <1>5 DEF StartReconcile, vars
  <1>6. QED
    BY <1>2, <1>3, <1>4, <1>5, RelayKeepsRows, ReleaseKeepsRows, ReconcileKeepsRows DEF Next

(***************************************************************************)
(* One request: its reviews, against its row, its intent and its charges.  *)
(***************************************************************************)

\* What the invariants about reviews say of one request.
ReviewsExact(r, row, intended, reviews, charges) ==
  /\ charges[1].kind = "additional" => reviews[1].status = "verified_billed"
  /\ row.status = "pending" /\ intended.attempt # 0 =>
       reviews[intended.attempt].status # "verified_nocharge"
  /\ \A a \in Attempts :
       /\ reviews[a].status = "verified_nocharge" => charges[a] = NoCharge
       /\ row.status = "reserved" => reviews[a] = NoReview
       /\ reviews[a].proof # NoProof =>
            RequestOf[reviews[a].proof] = r /\ AttemptOf[reviews[a].proof] = a

ReviewInv ==
  AdditionalIsVerified /\ NoChargeNeverBilled /\ ReservedUnreviewed /\ IntentNotFree
    /\ ReviewsNameTheirProof

\* The invariants, request by request.
LEMMA AllReviewsExact ==
  ReviewInv <=> \A r \in Requests : ReviewsExact(r, req[r], intent[r], review[r], charge[r])
  BY DEF ReviewInv, AdditionalIsVerified, NoChargeNeverBilled, ReservedUnreviewed,
         IntentNotFree, HasIntent, ReviewsNameTheirProof, ReviewsExact

\* A step that touches one request needs to be right about that one.
LEMMA OtherReviewsExact ==
  ASSUME ReviewInv, NEW r \in Requests,
         \A s \in Requests \ {r} : /\ req'[s] = req[s] /\ intent'[s] = intent[s]
                                   /\ review'[s] = review[s] /\ charge'[s] = charge[s],
         ReviewsExact(r, req'[r], intent'[r], review'[r], charge'[r])
  PROVE  ReviewInv'
  <1>1. ASSUME NEW s \in Requests
        PROVE  ReviewsExact(s, req'[s], intent'[s], review'[s], charge'[s])
    BY <1>1, AllReviewsExact
  <1>2. QED
    BY <1>1 DEF ReviewInv, AdditionalIsVerified, NoChargeNeverBilled, ReservedUnreviewed,
                IntentNotFree, HasIntent, ReviewsNameTheirProof, ReviewsExact

\* Sync resolves reviews only in line with the row and the charges it commits.
LEMMA SyncKeepsReviews ==
  ASSUME AttemptBillingAssumption, AttemptBillingTypeOK, ReviewsNameTheirProof,
         NEW r \in Requests, NEW row \in RowType, NEW resolved, NEW sum,
         NEW intended \in IntentType,
         NEW charges \in [Attempts -> ChargeType], RowExact(row, charges, sum),
         SyncOK(r, row, charges, resolved),
         ReviewsExact(r, row, intended, review[r], charges)
  PROVE  ReviewsExact(r, row, intended, SyncReviews(r, row, charges),
                      SyncCharges(r, row, charges))
  <1> DEFINE reviews == SyncReviews(r, row, charges)
             synced == SyncCharges(r, row, charges)
  <1>1. \A a \in Attempts :
          /\ synced[a].kind = charges[a].kind
          /\ synced[a] # charges[a] => charges[a].kind = "final"
    <2>1. row.status = "settled" => row.final \in Attempts
      BY DEF RowExact
    <2>2. ASSUME NEW p \in Proofs, BilledBy(p, r, row, charges),
                 synced = [charges EXCEPT ![row.final].bill = BillOf[p]]
          PROVE  \A a \in Attempts :
                   /\ synced[a].kind = charges[a].kind
                   /\ synced[a] # charges[a] => charges[a].kind = "final"
      BY <2>1, <2>2 DEF BilledBy, ChargeType
    <2>3. QED
      BY <2>1, <2>2, SyncedCharges
  <1>2. ASSUME NEW a \in Attempts
        PROVE  /\ ReviewAdvances(review[r][a], reviews[a])
               /\ row.status = "reserved" => reviews[a] = review[r][a]
               /\ reviews[a].status = "verified_nocharge" =>
                    \/ review[r][a].status = "verified_nocharge"
                    \/ row.status = "released"
    BY <1>2, SyncedReviews
  <1>3. 1 \in Attempts
    BY DEF Attempts
  <1>4. synced[1].kind = "additional" => reviews[1].status = "verified_billed"
    BY <1>1, <1>2, <1>3 DEF ReviewsExact, ReviewAdvances, Verified
  <1>5. row.status = "pending" /\ intended.attempt # 0 =>
          reviews[intended.attempt].status # "verified_nocharge"
    BY <1>2 DEF ReviewsExact, IntentType
  <1>6. ASSUME NEW a \in Attempts
        PROVE  /\ reviews[a].status = "verified_nocharge" => synced[a] = NoCharge
               /\ row.status = "reserved" => reviews[a] = NoReview
               /\ reviews[a].proof # NoProof =>
                    RequestOf[reviews[a].proof] = r /\ AttemptOf[reviews[a].proof] = a
    <2>1. reviews[a].status = "verified_nocharge" => charges[a] = NoCharge
      BY <1>2 DEF ReviewsExact, RowExact
    <2>2. charges[a] = NoCharge => synced[a] = NoCharge
      BY <1>1 DEF NoCharge
    <2>3. QED
      BY <1>2, <2>1, <2>2 DEF ReviewsExact, ReviewAdvances
  <1>7. QED
    BY <1>4, <1>5, <1>6 DEF ReviewsExact

\* The relay leaves the reviews alone, and a request it parks has none.
LEMMA RelayKeepsReviews ==
  ASSUME BillingInv, ReviewInv, NEW r \in Requests, Relay(r)
  PROVE  ReviewInv'
  <1>1. CASE UNCHANGED <<req, intent, review, charge>>
    BY <1>1 DEF ReviewInv, AdditionalIsVerified, NoChargeNeverBilled, ReservedUnreviewed,
                IntentNotFree, HasIntent, ReviewsNameTheirProof
  <1>2. CASE PendZTAPIRequestSettlement(r) \/ saveZTAPISettlementFinalizationIntent(r)
    <2>1. /\ review' = review /\ charge' = charge /\ req[r].status = "reserved"
          /\ req'[r].status \in {"reserved", "pending"}
          /\ req'[r].status = "pending" => intent'[r] = intent[r]
          /\ \A s \in Requests \ {r} : req'[s] = req[s] /\ intent'[s] = intent[s]
      BY <1>2 DEF PendZTAPIRequestSettlement, saveZTAPISettlementFinalizationIntent,
                  BillingInv, AttemptBillingTypeOK
    <2>2. ReviewsExact(r, req[r], intent[r], review[r], charge[r])
      BY AllReviewsExact
    <2>3. intent[r].attempt \in {0} \cup Attempts
      BY DEF BillingInv, AttemptBillingTypeOK, IntentType
    <2>4. ReviewsExact(r, req'[r], intent'[r], review'[r], charge'[r])
      BY <2>1, <2>2, <2>3 DEF ReviewsExact, NoReview
    <2>5. QED
      BY <2>1, <2>4, OtherReviewsExact
  <1>3. QED
    BY <1>1, <1>2 DEF Relay, BeginZTAPIRequestAttempt, RecordZTAPIRequestAttemptResponse

\* A final debit is never for an attempt that was shown free.
LEMMA FinalizeKeepsReviews ==
  ASSUME AttemptBillingAssumption, BillingInv, ReviewInv, NEW r \in Requests,
         finalizeZTAPIRequestSettlement(r)
  PROVE  ReviewInv'
  <1> DEFINE a == intent[r].attempt
             row == [status |-> "settled", missing |-> "none", final |-> a]
             anchored == [charge[r] EXCEPT ![a] = [kind |-> "final", wire |-> intent[r].wire,
                                                   bill |-> NoBill]]
             charges == IF intent[r].wire = NoWire THEN charge[r] ELSE anchored
  <1>1. /\ a \in Attempts /\ row \in RowType /\ charges \in [Attempts -> ChargeType]
        /\ RowExact(row, charges, AttemptQuota)
        /\ \A b \in Attempts : charge[r][b] = NoCharge /\ (b # a => charges[b] = NoCharge)
        /\ SyncZTAPIAttemptBillingReviewsTx(r, row, charges, "none")
    BY FinalizedRow
  <1>2. AttemptBillingTypeOK /\ ReviewsNameTheirProof
    BY DEF BillingInv
  <1>3. ReviewsExact(r, req[r], intent[r], review[r], charge[r])
    BY AllReviewsExact
  <1>4. intent'[r] \in IntentType /\ intent'[r].attempt = a
    BY <1>2 DEF finalizeZTAPIRequestSettlement, AttemptBillingTypeOK, IntentType
  <1>5. charges[1].kind # "additional"
    BY <1>1 DEF RowExact, Attempts, NoCharge
  <1>6. review[r][a].status # "verified_nocharge"
    BY <1>1, <1>3 DEF finalizeZTAPIRequestSettlement, ReviewsExact, NoReview, HasIntent
  <1>7. ReviewsExact(r, row, intent'[r], review[r], charges)
    BY <1>1, <1>3, <1>5, <1>6 DEF ReviewsExact
  <1>8. ReviewsExact(r, row, intent'[r], SyncReviews(r, row, charges),
                     SyncCharges(r, row, charges))
    BY <1>1, <1>2, <1>4, <1>7, SyncKeepsReviews DEF SyncZTAPIAttemptBillingReviewsTx
  <1>9. /\ req'[r] = row /\ review'[r] = SyncReviews(r, row, charges)
        /\ charge'[r] = SyncCharges(r, row, charges)
        /\ \A s \in Requests \ {r} : /\ req'[s] = req[s] /\ intent'[s] = intent[s]
                                     /\ review'[s] = review[s] /\ charge'[s] = charge[s]
    BY <1>1, <1>2 DEF finalizeZTAPIRequestSettlement, SyncZTAPIAttemptBillingReviewsTx,
                      AttemptBillingTypeOK
  <1>10. QED
    BY <1>8, <1>9, OtherReviewsExact

\* A release finds no charge on the request it frees.
LEMMA ReleaseKeepsReviews ==
  ASSUME AttemptBillingAssumption, BillingInv, ReviewInv, NEW r \in Requests,
         \/ ReleaseZTAPIDispatchedRejectedSettlement(r)
         \/ \E by \in {"reviewer", "approvals"} : resolveZTAPIPendingNoCharge(r, by)
  PROVE  ReviewInv'
  <1>1. AttemptBillingTypeOK /\ ReviewsNameTheirProof
    BY DEF BillingInv
  <1>2. ReviewsExact(r, req[r], intent[r], review[r], charge[r])
    BY AllReviewsExact
  <1>3. CASE ReleaseZTAPIDispatchedRejectedSettlement(r)
    <2>1. /\ req'[r].status = "released"
          /\ UNCHANGED <<intent, review, charge>>
          /\ \A s \in Requests \ {r} : req'[s] = req[s]
      BY <1>1, <1>3 DEF ReleaseZTAPIDispatchedRejectedSettlement, AttemptBillingTypeOK
    <2>2. ReviewsExact(r, req'[r], intent'[r], review'[r], charge'[r])
      BY <1>2, <2>1 DEF ReviewsExact
    <2>3. QED
      BY <2>1, <2>2, OtherReviewsExact
  <1>4. ASSUME NEW by \in {"reviewer", "approvals"}, resolveZTAPIPendingNoCharge(r, by)
        PROVE  ReviewInv'
    <2> DEFINE row == [req[r] EXCEPT !.status = "released"]
    <2>1. /\ SyncZTAPIAttemptBillingReviewsTx(r, row, charge[r], by)
          /\ req' = [req EXCEPT ![r] = row] /\ intent' = intent
          /\ req[r].status = "pending"
      BY <1>4 DEF resolveZTAPIPendingNoCharge
    <2>2. /\ row \in RowType /\ row.status = "released" /\ intent[r] \in IntentType
          /\ charge[r] \in [Attempts -> ChargeType]
      BY <1>1 DEF AttemptBillingTypeOK, RowType
    <2>3. RowExact(row, charge[r], 0)
      BY <2>1, <2>2, UnsettledRow DEF BillingInv, ChargesAreSettled
    <2>4. ReviewsExact(r, row, intent[r], review[r], charge[r])
      BY <1>2, <2>2 DEF ReviewsExact
    <2>5. ReviewsExact(r, row, intent[r], SyncReviews(r, row, charge[r]),
                       SyncCharges(r, row, charge[r]))
      BY <1>1, <2>1, <2>2, <2>3, <2>4, SyncKeepsReviews DEF SyncZTAPIAttemptBillingReviewsTx
    <2>6. /\ req'[r] = row /\ intent'[r] = intent[r]
          /\ review'[r] = SyncReviews(r, row, charge[r])
          /\ charge'[r] = SyncCharges(r, row, charge[r])
          /\ \A s \in Requests \ {r} : /\ req'[s] = req[s] /\ intent'[s] = intent[s]
                                       /\ review'[s] = review[s] /\ charge'[s] = charge[s]
      BY <1>1, <2>1 DEF SyncZTAPIAttemptBillingReviewsTx, AttemptBillingTypeOK
    <2>7. QED
      BY <2>5, <2>6, OtherReviewsExact
  <1>5. QED
    BY <1>3, <1>4

\* Ensuring reviews closes none and opens none of a request in flight.
LEMMA EnsureKeepsReviews ==
  ASSUME AttemptBillingAssumption, AttemptBillingTypeOK, NEW r \in Requests,
         ReviewsExact(r, req[r], intent[r], review[r], charge[r])
  PROVE  ReviewsExact(r, req[r], intent[r], EnsureZTAPIAttemptBillingReviewsTx(r, req[r]),
                      charge[r])
  <1> DEFINE ensured == EnsureZTAPIAttemptBillingReviewsTx(r, req[r])
  <1>1. req[r] \in RowType /\ intent[r] \in IntentType /\ 1 \in Attempts
    BY DEF AttemptBillingTypeOK, Attempts
  <1>2. ASSUME NEW a \in Attempts
        PROVE  /\ ReviewAdvances(review[r][a], ensured[a])
               /\ \/ ensured[a] = review[r][a]
                  \/ review[r][a] = NoReview /\ ensured[a] = PendingReview
               /\ req[r].status = "reserved" => ensured[a] = review[r][a]
    BY <1>1, <1>2, EnsuredReviews
  <1>3. ASSUME NEW a \in Attempts
        PROVE  ensured[a].status = "verified_nocharge" =>
                 review[r][a].status = "verified_nocharge"
    BY <1>2, <1>3 DEF PendingReview
  <1>4. charge[r][1].kind = "additional" => ensured[1].status = "verified_billed"
    BY <1>1, <1>2 DEF ReviewsExact, ReviewAdvances, Verified
  <1>5. req[r].status = "pending" /\ intent[r].attempt # 0 =>
          ensured[intent[r].attempt].status # "verified_nocharge"
    BY <1>1, <1>3 DEF ReviewsExact, IntentType
  <1>6. ASSUME NEW a \in Attempts
        PROVE  /\ ensured[a].status = "verified_nocharge" => charge[r][a] = NoCharge
               /\ req[r].status = "reserved" => ensured[a] = NoReview
               /\ ensured[a].proof # NoProof =>
                    RequestOf[ensured[a].proof] = r /\ AttemptOf[ensured[a].proof] = a
    BY <1>2, <1>3 DEF ReviewsExact, ReviewAdvances
  <1>7. QED
    BY <1>4, <1>5, <1>6 DEF ReviewsExact

\* What an approval decides, read from the tables.
LEMMA ApprovalFacts ==
  ASSUME AttemptBillingAssumption, BillingInv, NEW p \in Proofs, ApproveZTAPIAttemptBilling(p)
  PROVE  LET r == RequestOf[p]
             a == AttemptOf[p]
             ensured == EnsureZTAPIAttemptBillingReviewsTx(r, req[r])
             closed == KindOf[p] = "nocharge"
         IN  /\ r \in Requests /\ a \in Attempts
             /\ ensured[a] = PendingReview
             /\ review[r][a] \in {NoReview, PendingReview}
             /\ req[r].status \in {"pending", "settled"}
             /\ req[r].status = "pending" => ~HasIntent(r)
             /\ req[r].status = "settled" => req[r].final = 2 /\ a = 1
             /\ ApplyTarget(p) \in {"pending_final", "pending_nocharge", "additional_attempt"}
             /\ ApplyTarget(p) = "pending_final" <=> req[r].status = "pending" /\ ~closed
             /\ ApplyTarget(p) = "additional_attempt" <=> req[r].status = "settled"
             /\ ~closed => ~overlappingZTAPIAttemptUsageTx(p, charge[r])
             /\ proof[p].target = "none"
             /\ review' = [review EXCEPT ![r] = [ensured EXCEPT ![a] =
                  [status |-> IF closed THEN "verified_nocharge" ELSE "pending", proof |-> p]]]
  <1> DEFINE r == RequestOf[p]
             a == AttemptOf[p]
             ensured == EnsureZTAPIAttemptBillingReviewsTx(r, req[r])
  <1>1. r \in Requests /\ a \in Attempts /\ KindOf[p] \in {"billed", "nocharge"}
    BY DEF AttemptBillingAssumption
  <1>2. /\ ApplyTarget(p) # "none" /\ ensured[a] = PendingReview
        /\ KindOf[p] = "billed" => ~overlappingZTAPIAttemptUsageTx(p, charge[r])
        /\ proof[p].target = "none"
        /\ review' = [review EXCEPT ![r] = [ensured EXCEPT ![a] =
             [status |-> IF KindOf[p] = "nocharge" THEN "verified_nocharge" ELSE "pending",
              proof |-> p]]]
    BY DEF ApproveZTAPIAttemptBilling, Approvable
  <1>3. review[r][a] \in {NoReview, PendingReview}
    BY <1>1, <1>2, RowsTyped, EnsuredReviews DEF BillingInv
  <1>4. /\ req[r].status \in {"pending", "settled"}
        /\ req[r].status = "pending" => ~HasIntent(r)
        /\ req[r].status = "settled" => req[r].final = 2 /\ a = 1
        /\ ApplyTarget(p) \in {"pending_final", "pending_nocharge", "additional_attempt"}
        /\ ApplyTarget(p) = "pending_final" <=>
             req[r].status = "pending" /\ KindOf[p] # "nocharge"
        /\ ApplyTarget(p) = "additional_attempt" <=> req[r].status = "settled"
    <2>1. CASE req[r].status = "pending"
      <3>1. ~HasIntent(r)
        BY <1>2, <2>1 DEF ApplyTarget, HasIntent
      <3>2. CASE KindOf[p] = "nocharge"
        <4>1. ApplyTarget(p) = "pending_nocharge"
          BY <2>1, <3>1, <3>2 DEF ApplyTarget, HasIntent
        <4>2. QED
          BY <2>1, <3>1, <3>2, <4>1
      <3>3. CASE KindOf[p] # "nocharge"
        <4>1. ApplyTarget(p) = "pending_final"
          BY <1>2, <2>1, <3>1, <3>3 DEF ApplyTarget, HasIntent
        <4>2. QED
          BY <2>1, <3>1, <3>3, <4>1
      <3>4. QED
        BY <3>2, <3>3
    <2>2. CASE req[r].status # "pending"
      <3>1. req[r].status = "settled" /\ req[r].final = 2 /\ a = 1
        BY <1>2, <2>2 DEF ApplyTarget
      <3>2. ApplyTarget(p) = "additional_attempt"
        BY <3>1 DEF ApplyTarget
      <3>3. QED
        BY <3>1, <3>2
    <2>3. QED
      BY <2>1, <2>2
  <1>5. QED
    BY <1>1, <1>2, <1>3, <1>4

\* A no-charge approval finds no charge on its attempt, and the intent that a billed one
\* saves is for an attempt that was not shown free.
LEMMA ApproveKeepsReviews ==
  ASSUME AttemptBillingAssumption, BillingInv, ReviewInv, NEW p \in Proofs,
         ApproveZTAPIAttemptBilling(p)
  PROVE  ReviewInv'
  <1> DEFINE r == RequestOf[p]
             a == AttemptOf[p]
             closed == KindOf[p] = "nocharge"
             ensured == EnsureZTAPIAttemptBillingReviewsTx(r, req[r])
             claimed == [status |-> IF closed THEN "verified_nocharge" ELSE "pending",
                         proof |-> p]
  <1>1. /\ r \in Requests /\ a \in Attempts /\ ensured[a] = PendingReview
        /\ review[r][a] \in {NoReview, PendingReview}
        /\ req[r].status \in {"pending", "settled"}
        /\ req[r].status = "pending" => ~HasIntent(r)
        /\ req[r].status = "settled" => req[r].final = 2 /\ a = 1
        /\ ApplyTarget(p) = "pending_final" <=> req[r].status = "pending" /\ ~closed
        /\ review' = [review EXCEPT ![r] = [ensured EXCEPT ![a] = claimed]]
    BY ApprovalFacts
  <1>2. /\ AttemptBillingTypeOK
        /\ ReviewsExact(r, req[r], intent[r], review[r], charge[r])
        /\ req[r] \in RowType /\ intent[r] \in IntentType
    BY <1>1, AllReviewsExact DEF BillingInv, AttemptBillingTypeOK
  <1>3. ReviewsExact(r, req[r], intent[r], ensured, charge[r])
    BY <1>1, <1>2, EnsureKeepsReviews
  <1>4. ensured \in [Attempts -> ReviewType]
    BY <1>1, <1>2, EnsuredReviews
  <1>5. review'[r][a] = claimed /\ \A b \in Attempts : b # a => review'[r][b] = ensured[b]
    BY <1>1, <1>2, <1>4 DEF AttemptBillingTypeOK
  <1>6. /\ req'[r].status = req[r].status /\ charge' = charge
        /\ \A s \in Requests \ {r} : req'[s] = req[s] /\ intent'[s] = intent[s]
                                     /\ review'[s] = review[s]
    <2>1. \/ UNCHANGED <<req, intent>>
          \/ /\ req' = [req EXCEPT ![r] = [req[r] EXCEPT !.missing = "retry"]]
             /\ \E new \in IntentType : intent' = [intent EXCEPT ![r] = new]
      <3>1. [attempt |-> a, wire |-> WireOf[p], done |-> FALSE] \in IntentType
        BY <1>1 DEF IntentType, AttemptBillingAssumption
      <3>2. QED
        BY <1>2, <3>1 DEF ApproveZTAPIAttemptBilling, AttemptBillingTypeOK
    <2>2. [req[r] EXCEPT !.missing = "retry"].status = req[r].status
      BY <1>2 DEF RowType
    <2>3. QED
      BY <1>1, <1>2, <2>1, <2>2 DEF ApproveZTAPIAttemptBilling, AttemptBillingTypeOK
  <1>7. closed => charge[r][a] = NoCharge
    <2>1. CASE req[r].status = "pending"
      BY <1>1, <2>1 DEF BillingInv, ChargesAreSettled
    <2>2. CASE req[r].status = "settled"
      <3>1. charge[r][1].kind \in {"none", "final", "additional"}
        BY <1>1, <1>2, RowsTyped DEF ChargeType, Attempts
      <3>2. charge[r][1].kind # "final"
        BY <1>1, <2>2 DEF BillingInv, ChargesAreSettled
      <3>3. charge[r][1].kind # "additional"
        BY <1>1, <1>2, <2>2 DEF ReviewsExact, NoReview, PendingReview
      <3>4. QED
        BY <1>1, <2>2, <3>1, <3>2, <3>3 DEF BillingInv, ChargesAreSettled
    <2>3. QED
      BY <1>1, <2>1, <2>2
  <1>8. charge[r][1].kind = "additional" => review'[r][1].status = "verified_billed"
    <2>1. 1 \in Attempts
      BY DEF Attempts
    <2>2. charge[r][1].kind = "additional" => a # 1
      BY <1>1, <1>2 DEF ReviewsExact, NoReview, PendingReview
    <2>3. QED
      BY <1>3, <1>5, <2>1, <2>2 DEF ReviewsExact
  <1>9. req[r].status = "pending" /\ intent'[r].attempt # 0 =>
          review'[r][intent'[r].attempt].status # "verified_nocharge"
    <2>1. CASE ApplyTarget(p) = "pending_final"
      BY <1>1, <1>2, <1>5, <2>1 DEF ApproveZTAPIAttemptBilling, AttemptBillingTypeOK
    <2>2. CASE ApplyTarget(p) # "pending_final"
      BY <1>1, <2>2 DEF ApproveZTAPIAttemptBilling, HasIntent
    <2>3. QED
      BY <2>1, <2>2
  <1>10. ASSUME NEW b \in Attempts
         PROVE  /\ review'[r][b].status = "verified_nocharge" => charge[r][b] = NoCharge
                /\ review'[r][b].proof # NoProof =>
                     RequestOf[review'[r][b].proof] = r /\ AttemptOf[review'[r][b].proof] = b
    BY <1>3, <1>5, <1>7 DEF ReviewsExact
  <1>11. ReviewsExact(r, req'[r], intent'[r], review'[r], charge'[r])
    BY <1>1, <1>6, <1>8, <1>9, <1>10 DEF ReviewsExact
  <1>12. QED
    BY <1>1, <1>6, <1>11, OtherReviewsExact

\* An approval that stays pending only ensures the reviews of its request.
LEMMA PendingApprovalKeepsReviews ==
  ASSUME AttemptBillingAssumption, BillingInv, ReviewInv, NEW p \in Proofs, ApprovalPends(p)
  PROVE  ReviewInv'
  <1> DEFINE r == RequestOf[p]
             ensured == EnsureZTAPIAttemptBillingReviewsTx(r, req[r])
  <1>1. r \in Requests /\ AttemptBillingTypeOK
    BY DEF AttemptBillingAssumption, BillingInv
  <1>2. ReviewsExact(r, req[r], intent[r], ensured, charge[r])
    BY <1>1, AllReviewsExact, EnsureKeepsReviews
  <1>3. /\ UNCHANGED <<req, intent, charge>>
        /\ review'[r] = ensured /\ \A s \in Requests \ {r} : review'[s] = review[s]
    BY <1>1 DEF ApprovalPends, AttemptBillingTypeOK
  <1>4. QED
    BY <1>1, <1>2, <1>3, OtherReviewsExact

\* An additional debit closes the review it was approved for, in the same transaction.
LEMMA AdditionalKeepsReviews ==
  ASSUME AttemptBillingAssumption, BillingInv, ReviewInv, NEW p \in Proofs,
         ProcessAdditionalAttempt(p)
  PROVE  ReviewInv'
  <1> DEFINE r == RequestOf[p]
             closed == [review[r][1] EXCEPT !.status = "verified_billed"]
  <1>1. /\ r \in Requests /\ 1 \in Attempts /\ AttemptBillingTypeOK
        /\ req[r].status = "settled"
    BY DEF AttemptBillingAssumption, Attempts, BillingInv, AdditionalTargets,
           ProcessAdditionalAttempt
  <1>2. ReviewsExact(r, req[r], intent[r], review[r], charge[r]) /\ review[r][1] \in ReviewType
    BY <1>1, AllReviewsExact DEF AttemptBillingTypeOK
  <1>3. closed.status = "verified_billed" /\ closed.proof = review[r][1].proof
    BY <1>2 DEF ReviewType
  <1>4. /\ UNCHANGED <<req, intent>>
        /\ review'[r][1] = closed
        /\ \A a \in Attempts : a # 1 => /\ review'[r][a] = review[r][a]
                                        /\ charge'[r][a] = charge[r][a]
        /\ \A s \in Requests \ {r} : review'[s] = review[s] /\ charge'[s] = charge[s]
    BY <1>1 DEF ProcessAdditionalAttempt, AttemptBillingTypeOK
  <1>5. ReviewsExact(r, req'[r], intent'[r], review'[r], charge'[r])
    <2>1. /\ review'[r][1].status = "verified_billed"
          /\ review'[r][1].proof = review[r][1].proof
          /\ req'[r].status = "settled"
      BY <1>1, <1>3, <1>4
    <2>2. ASSUME NEW a \in Attempts
          PROVE  /\ review'[r][a].status = "verified_nocharge" => charge'[r][a] = NoCharge
                 /\ review'[r][a].proof # NoProof =>
                      RequestOf[review'[r][a].proof] = r /\ AttemptOf[review'[r][a].proof] = a
      <3>1. CASE a = 1
        BY <1>1, <1>2, <2>1, <3>1 DEF ReviewsExact
      <3>2. CASE a # 1
        BY <1>2, <1>4, <3>2 DEF ReviewsExact
      <3>3. QED
        BY <3>1, <3>2
    <2>3. QED
      BY <2>1, <2>2 DEF ReviewsExact
  <1>6. QED
    BY <1>1, <1>4, <1>5, OtherReviewsExact

\* The reconcile pass resolves a row's reviews as the transaction that missed them would.
LEMMA ReconcileKeepsReviews ==
  ASSUME AttemptBillingAssumption, BillingInv, ReviewInv, ReconcileRow
  PROVE  ReviewInv'
  <1>1. PICK r \in Requests :
          /\ \/ SyncZTAPIAttemptBillingReviewsTx(r, req[r], charge[r], resolution[r])
             \/ UNCHANGED <<review, proof, charge>>
          /\ UNCHANGED <<req, intent, paid>>
    BY DEF ReconcileRow, BillingInv, AttemptBillingTypeOK
  <1>2. CASE UNCHANGED <<review, proof, charge>>
    BY <1>1, <1>2 DEF ReviewInv, AdditionalIsVerified, NoChargeNeverBilled, ReservedUnreviewed,
                      IntentNotFree, HasIntent, ReviewsNameTheirProof
  <1>3. CASE SyncZTAPIAttemptBillingReviewsTx(r, req[r], charge[r], resolution[r])
    <2>1. /\ AttemptBillingTypeOK /\ ReviewsNameTheirProof
          /\ req[r] \in RowType /\ intent[r] \in IntentType
          /\ charge[r] \in [Attempts -> ChargeType]
          /\ RowExact(req[r], charge[r], paid[r])
          /\ ReviewsExact(r, req[r], intent[r], review[r], charge[r])
      BY RowsExact, AllReviewsExact DEF BillingInv, AttemptBillingTypeOK
    <2>2. ReviewsExact(r, req[r], intent[r], SyncReviews(r, req[r], charge[r]),
                       SyncCharges(r, req[r], charge[r]))
      BY <1>3, <2>1, SyncKeepsReviews DEF SyncZTAPIAttemptBillingReviewsTx
    <2>3. /\ review'[r] = SyncReviews(r, req[r], charge[r])
          /\ charge'[r] = SyncCharges(r, req[r], charge[r])
          /\ \A s \in Requests \ {r} : review'[s] = review[s] /\ charge'[s] = charge[s]
      BY <1>3, <2>1 DEF SyncZTAPIAttemptBillingReviewsTx, AttemptBillingTypeOK
    <2>4. QED
      BY <1>1, <2>2, <2>3, OtherReviewsExact
  <1>4. QED
    BY <1>1, <1>2, <1>3

\* Every step keeps the reviews in line with rows, intents and charges.
LEMMA ReviewStep ==
  ASSUME AttemptBillingAssumption, BillingInv, [Next]_vars
  PROVE  ReviewInv'
  <1>1. ReviewInv
    BY DEF BillingInv, ReviewInv
  <1>2. CASE UNCHANGED <<req, intent, review, charge>>
    BY <1>1, <1>2 DEF ReviewInv, AdditionalIsVerified, NoChargeNeverBilled,
                      ReservedUnreviewed, IntentNotFree, HasIntent, ReviewsNameTheirProof
  <1>3. ASSUME NEW r \in Requests, Maintenance(r)
        PROVE  ReviewInv'
    BY <1>1, <1>2, <1>3, FinalizeKeepsReviews, ReleaseKeepsReviews
    DEF Maintenance, resolveZTAPIPendingFromApprovedNoChargeAttempts, CompleteApprovedNoCharge
  <1>4. CASE Reviewer
    BY <1>1, <1>2, <1>4, ReleaseKeepsReviews, ApproveKeepsReviews, PendingApprovalKeepsReviews
    DEF Reviewer, ResolveZTAPIPendingNoCharge, SubmitZTAPIAttemptBilling
  <1>5. ASSUME NEW p \in Proofs, RetryZTAPIAttemptBillings(p)
        PROVE  ReviewInv'
    <2>1. RequestOf[p] \in Requests
      BY DEF AttemptBillingAssumption
    <2>2. QED
      BY <1>1, <1>2, <1>5, <2>1, FinalizeKeepsReviews, AdditionalKeepsReviews
      DEF RetryZTAPIAttemptBillings, ProcessPendingFinal, CompleteAttemptBilling
  <1>6. CASE StartReconcile \/ UNCHANGED vars
    BY <1>2, <1>6 DEF StartReconcile, vars
  <1>7. QED
    BY <1>1, <1>3, <1>4, <1>5, <1>6, RelayKeepsReviews, ReleaseKeepsReviews,
       ReconcileKeepsReviews DEF Next

(***************************************************************************)
(* What proofs were approved for.                                          *)
(***************************************************************************)

\* The proofs that an approval made the final debit of their request keep its intent and
\* its review, and additional debits wait for settled requests: no step but the approval
\* of that proof gives a proof a target.
TargetInv == AdditionalTargets /\ ApprovedFinalIsReserved

\* What one approved proof promises.
TargetKept(target, r, a, row, intended, by, p) ==
  /\ target = "additional_attempt" => row.status = "settled" /\ row.final = 2 /\ a = 1
  /\ target = "pending_final" =>
       /\ intended.attempt = a /\ by = p
       /\ \/ row.status = "pending" /\ row.missing = "retry" /\ ~intended.done
          \/ row.status = "settled" /\ row.final = a /\ intended.done

\* The invariants, proof by proof.
LEMMA AllTargetsKept ==
  TargetInv <=> \A p \in Proofs :
    TargetKept(proof[p].target, RequestOf[p], AttemptOf[p], req[RequestOf[p]],
               intent[RequestOf[p]], review[RequestOf[p]][AttemptOf[p]].proof, p)
  BY DEF TargetInv, AdditionalTargets, ApprovedFinalIsReserved, TargetKept

\* A step that touches one request needs to be right about the proofs for that one.
LEMMA OtherTargetsKept ==
  ASSUME AttemptBillingAssumption, TargetInv, NEW r \in Requests,
         \A s \in Requests \ {r} :
           req'[s] = req[s] /\ intent'[s] = intent[s] /\ review'[s] = review[s],
         \A p \in Proofs : RequestOf[p] # r => proof'[p].target = proof[p].target,
         \A p \in Proofs : RequestOf[p] = r =>
           TargetKept(proof'[p].target, r, AttemptOf[p], req'[r], intent'[r],
                      review'[r][AttemptOf[p]].proof, p)
  PROVE  TargetInv'
  <1>1. ASSUME NEW p \in Proofs
        PROVE  TargetKept(proof'[p].target, RequestOf[p], AttemptOf[p], req'[RequestOf[p]],
                          intent'[RequestOf[p]], review'[RequestOf[p]][AttemptOf[p]].proof, p)
    <2>1. CASE RequestOf[p] = r
      BY <2>1
    <2>2. CASE RequestOf[p] # r
      <3>1. RequestOf[p] \in Requests \ {r}
        BY <2>2 DEF AttemptBillingAssumption
      <3>2. QED
        BY <2>2, <3>1, AllTargetsKept
    <2>3. QED
      BY <2>1, <2>2
  <1>2. QED
    BY <1>1 DEF TargetInv, AdditionalTargets, ApprovedFinalIsReserved, TargetKept

\* So does one that leaves rows, intents, targets and the claims on reviews alone.
LEMMA TargetsUntouched ==
  ASSUME AttemptBillingAssumption, TargetInv, UNCHANGED <<req, intent>>,
         \A p \in Proofs : proof'[p].target = proof[p].target,
         \A r \in Requests, a \in Attempts : review'[r][a].proof = review[r][a].proof
  PROVE  TargetInv'
  <1>1. ASSUME NEW p \in Proofs
        PROVE  TargetKept(proof'[p].target, RequestOf[p], AttemptOf[p], req'[RequestOf[p]],
                          intent'[RequestOf[p]], review'[RequestOf[p]][AttemptOf[p]].proof, p)
    <2>1. RequestOf[p] \in Requests /\ AttemptOf[p] \in Attempts
      BY DEF AttemptBillingAssumption
    <2>2. QED
      BY <2>1, AllTargetsKept
  <1>2. QED
    BY <1>1 DEF TargetInv, AdditionalTargets, ApprovedFinalIsReserved, TargetKept

\* Sync keeps the claims on reviews and the targets of proofs.
LEMMA SyncKeepsClaims ==
  ASSUME AttemptBillingAssumption, AttemptBillingTypeOK, NEW r \in Requests, NEW row \in RowType,
         NEW resolved, NEW charges \in [Attempts -> ChargeType],
         SyncZTAPIAttemptBillingReviewsTx(r, row, charges, resolved)
  PROVE  /\ \A p \in Proofs : proof'[p].target = proof[p].target
         /\ \A s \in Requests, a \in Attempts : review'[s][a].proof = review[s][a].proof
         /\ \A s \in Requests \ {r} : review'[s] = review[s]
  <1>1. /\ proof' = SyncProofs(r, row, charges)
        /\ review' = [review EXCEPT ![r] = SyncReviews(r, row, charges)]
    BY DEF SyncZTAPIAttemptBillingReviewsTx
  <1>2. \A p \in Proofs : proof'[p].target = proof[p].target
    BY <1>1, SyncedProofs
  <1>3. \A a \in Attempts : SyncReviews(r, row, charges)[a].proof = review[r][a].proof
    BY SyncedReviews DEF ReviewAdvances
  <1>4. QED
    BY <1>1, <1>2, <1>3 DEF AttemptBillingTypeOK

\* A request in flight has no approved proof.
LEMMA RelayKeepsTargets ==
  ASSUME AttemptBillingAssumption, BillingInv, TargetInv, NEW r \in Requests, Relay(r)
  PROVE  TargetInv'
  <1>1. UNCHANGED <<review, proof>>
    BY DEF Relay, BeginZTAPIRequestAttempt, RecordZTAPIRequestAttemptResponse,
           PendZTAPIRequestSettlement, saveZTAPISettlementFinalizationIntent
  <1>2. CASE UNCHANGED <<req, intent>>
    BY <1>1, <1>2, TargetsUntouched
  <1>3. CASE PendZTAPIRequestSettlement(r) \/ saveZTAPISettlementFinalizationIntent(r)
    <2>1. /\ req[r].status = "reserved"
          /\ \A s \in Requests \ {r} : req'[s] = req[s] /\ intent'[s] = intent[s]
      BY <1>3 DEF PendZTAPIRequestSettlement, saveZTAPISettlementFinalizationIntent,
                  BillingInv, AttemptBillingTypeOK
    <2>2. \A p \in Proofs : RequestOf[p] = r =>
            proof[p].target # "pending_final" /\ proof[p].target # "additional_attempt"
      BY <2>1, AllTargetsKept DEF TargetKept
    <2>3. \A p \in Proofs : RequestOf[p] = r =>
            TargetKept(proof'[p].target, r, AttemptOf[p], req'[r], intent'[r],
                       review'[r][AttemptOf[p]].proof, p)
      BY <1>1, <2>2 DEF TargetKept
    <2>4. QED
      BY <1>1, <2>1, <2>3, OtherTargetsKept
  <1>4. QED
    BY <1>2, <1>3 DEF Relay, BeginZTAPIRequestAttempt, RecordZTAPIRequestAttemptResponse

\* The debit an approval asked for settles its own attempt.
LEMMA FinalizeKeepsTargets ==
  ASSUME AttemptBillingAssumption, BillingInv, TargetInv, NEW r \in Requests,
         finalizeZTAPIRequestSettlement(r)
  PROVE  TargetInv'
  <1> DEFINE a == intent[r].attempt
             row == [status |-> "settled", missing |-> "none", final |-> a]
             anchored == [charge[r] EXCEPT ![a] = [kind |-> "final", wire |-> intent[r].wire,
                                                   bill |-> NoBill]]
             charges == IF intent[r].wire = NoWire THEN charge[r] ELSE anchored
  <1>1. /\ row \in RowType /\ charges \in [Attempts -> ChargeType]
        /\ SyncZTAPIAttemptBillingReviewsTx(r, row, charges, "none")
    BY FinalizedRow
  <1>2. /\ \A p \in Proofs : proof'[p].target = proof[p].target
        /\ \A s \in Requests, b \in Attempts : review'[s][b].proof = review[s][b].proof
        /\ \A s \in Requests \ {r} : review'[s] = review[s]
    BY <1>1, SyncKeepsClaims DEF BillingInv
  <1>3. /\ req[r].status # "settled"
        /\ req'[r] = row /\ intent'[r].attempt = a /\ intent'[r].done
        /\ \A s \in Requests \ {r} : req'[s] = req[s] /\ intent'[s] = intent[s]
    BY DEF finalizeZTAPIRequestSettlement, BillingInv, AttemptBillingTypeOK, IntentType
  <1>4. ASSUME NEW p \in Proofs, RequestOf[p] = r
        PROVE  TargetKept(proof'[p].target, r, AttemptOf[p], req'[r], intent'[r],
                          review'[r][AttemptOf[p]].proof, p)
    <2>1. AttemptOf[p] \in Attempts
      BY DEF AttemptBillingAssumption
    <2>2. QED
      BY <1>2, <1>3, <1>4, <2>1, AllTargetsKept DEF TargetKept
  <1>5. QED
    BY <1>2, <1>3, <1>4, OtherTargetsKept

\* A release needs that no intent was saved, so no approved debit is waiting.
LEMMA ReleaseKeepsTargets ==
  ASSUME AttemptBillingAssumption, BillingInv, TargetInv, NEW r \in Requests,
         \/ ReleaseZTAPIDispatchedRejectedSettlement(r)
         \/ \E by \in {"reviewer", "approvals"} : resolveZTAPIPendingNoCharge(r, by)
  PROVE  TargetInv'
  <1>1. /\ req[r].status # "settled" /\ ~HasIntent(r) /\ intent' = intent
        /\ \A s \in Requests \ {r} : req'[s] = req[s]
    BY DEF ReleaseZTAPIDispatchedRejectedSettlement, resolveZTAPIPendingNoCharge, BillingInv,
           AttemptBillingTypeOK
  <1>2. /\ \A p \in Proofs : proof'[p].target = proof[p].target
        /\ \A s \in Requests \ {r} : review'[s] = review[s]
    <2>1. CASE ReleaseZTAPIDispatchedRejectedSettlement(r)
      BY <2>1 DEF ReleaseZTAPIDispatchedRejectedSettlement
    <2>2. ASSUME NEW by \in {"reviewer", "approvals"}, resolveZTAPIPendingNoCharge(r, by)
          PROVE  /\ \A p \in Proofs : proof'[p].target = proof[p].target
                 /\ \A s \in Requests \ {r} : review'[s] = review[s]
      <3>1. [req[r] EXCEPT !.status = "released"] \in RowType
        <4>1. req[r] \in RowType
          BY DEF BillingInv, AttemptBillingTypeOK
        <4>2. QED
          BY <4>1 DEF RowType
      <3>2. charge[r] \in [Attempts -> ChargeType]
        BY DEF BillingInv, AttemptBillingTypeOK
      <3>3. QED
        BY <2>2, <3>1, <3>2, SyncKeepsClaims DEF resolveZTAPIPendingNoCharge, BillingInv
    <2>3. QED
      BY <2>1, <2>2
  <1>3. ASSUME NEW p \in Proofs, RequestOf[p] = r
        PROVE  TargetKept(proof'[p].target, r, AttemptOf[p], req'[r], intent'[r],
                          review'[r][AttemptOf[p]].proof, p)
    <2>1. AttemptOf[p] # 0
      BY DEF AttemptBillingAssumption, Attempts
    <2>2. proof[p].target # "pending_final" /\ proof[p].target # "additional_attempt"
      BY <1>1, <1>3, <2>1, AllTargetsKept DEF TargetKept, HasIntent
    <2>3. QED
      BY <1>2, <2>2 DEF TargetKept
  <1>4. QED
    BY <1>1, <1>2, <1>3, OtherTargetsKept

\* An approval gives its proof a target, and finds no other proof in its way.
LEMMA ApproveKeepsTargets ==
  ASSUME AttemptBillingAssumption, BillingInv, TargetInv, NEW p \in Proofs,
         ApproveZTAPIAttemptBilling(p)
  PROVE  /\ TargetInv'
         /\ \A q \in Proofs : q # p => proof'[q].target = proof[q].target
         /\ proof'[p].target = ApplyTarget(p) /\ ApplyTarget(p) # "none"
  <1> DEFINE r == RequestOf[p]
             a == AttemptOf[p]
             ensured == EnsureZTAPIAttemptBillingReviewsTx(r, req[r])
  <1>1. /\ r \in Requests /\ a \in Attempts
        /\ req[r].status \in {"pending", "settled"}
        /\ req[r].status = "pending" => ~HasIntent(r)
        /\ req[r].status = "settled" => req[r].final = 2 /\ a = 1
        /\ ApplyTarget(p) \in {"pending_final", "pending_nocharge", "additional_attempt"}
        /\ ApplyTarget(p) = "pending_final" => req[r].status = "pending"
        /\ ApplyTarget(p) = "additional_attempt" <=> req[r].status = "settled"
    BY ApprovalFacts
  <1>2. /\ AttemptBillingTypeOK /\ req[r] \in RowType /\ ensured \in [Attempts -> ReviewType]
        /\ \A b \in Attempts : ensured[b].proof = review[r][b].proof
    <2>1. AttemptBillingTypeOK /\ req[r] \in RowType
      BY <1>1 DEF BillingInv, AttemptBillingTypeOK
    <2>2. QED
      BY <1>1, <2>1, EnsuredReviews DEF ReviewAdvances
  <1>3. /\ review'[r][a].proof = p
        /\ \A b \in Attempts : b # a => review'[r][b].proof = review[r][b].proof
        /\ \A s \in Requests \ {r} : review'[s] = review[s]
    <2>1. PICK status \in {"verified_nocharge", "pending"} :
            review' = [review EXCEPT ![r] = [ensured EXCEPT ![a] =
                                               [status |-> status, proof |-> p]]]
      BY ApprovalFacts
    <2>2. /\ review'[r] = [ensured EXCEPT ![a] = [status |-> status, proof |-> p]]
          /\ \A s \in Requests \ {r} : review'[s] = review[s]
      BY <1>1, <1>2, <2>1 DEF AttemptBillingTypeOK
    <2>3. QED
      BY <1>1, <1>2, <2>2
  <1>4. /\ proof'[p].target = ApplyTarget(p)
        /\ \A q \in Proofs : q # p => proof'[q].target = proof[q].target
    BY <1>2 DEF ApproveZTAPIAttemptBilling, AttemptBillingTypeOK
  <1>5. CASE ApplyTarget(p) = "pending_final"
    <2>1. /\ intent'[r].attempt = a /\ ~intent'[r].done
          /\ req' = [req EXCEPT ![r] = [req[r] EXCEPT !.missing = "retry"]]
          /\ \A s \in Requests \ {r} : intent'[s] = intent[s]
      BY <1>1, <1>2, <1>5 DEF ApproveZTAPIAttemptBilling, AttemptBillingTypeOK
    <2>2. /\ [req[r] EXCEPT !.missing = "retry"].status = req[r].status
          /\ [req[r] EXCEPT !.missing = "retry"].missing = "retry"
      BY <1>2 DEF RowType
    <2>3. /\ req'[r].status = "pending" /\ req'[r].missing = "retry"
          /\ \A s \in Requests \ {r} : req'[s] = req[s]
      BY <1>1, <1>2, <1>5, <2>1, <2>2 DEF AttemptBillingTypeOK
    <2>4. ASSUME NEW q \in Proofs, RequestOf[q] = r
          PROVE  TargetKept(proof'[q].target, r, AttemptOf[q], req'[r], intent'[r],
                            review'[r][AttemptOf[q]].proof, q)
      <3>1. CASE q = p
        BY <1>3, <1>4, <1>5, <2>1, <2>3, <3>1 DEF TargetKept
      <3>2. CASE q # p
        <4>1. AttemptOf[q] # 0
          BY DEF AttemptBillingAssumption, Attempts
        <4>2. proof[q].target # "pending_final" /\ proof[q].target # "additional_attempt"
          BY <1>1, <1>5, <2>4, <4>1, AllTargetsKept DEF TargetKept, HasIntent
        <4>3. QED
          BY <1>4, <3>2, <4>2 DEF TargetKept
      <3>3. QED
        BY <3>1, <3>2
    <2>5. QED
      BY <1>1, <1>3, <1>4, <2>1, <2>3, <2>4, OtherTargetsKept
  <1>6. CASE ApplyTarget(p) # "pending_final"
    <2>1. UNCHANGED <<req, intent>>
      BY <1>6 DEF ApproveZTAPIAttemptBilling
    <2>2. ASSUME NEW q \in Proofs, RequestOf[q] = r
          PROVE  TargetKept(proof'[q].target, r, AttemptOf[q], req'[r], intent'[r],
                            review'[r][AttemptOf[q]].proof, q)
      <3>1. CASE q = p
        BY <1>1, <1>4, <1>6, <2>1, <3>1 DEF TargetKept
      <3>2. CASE q # p
        <4>1. AttemptOf[q] # 0 /\ AttemptOf[q] \in Attempts
          BY DEF AttemptBillingAssumption, Attempts
        <4>2. TargetKept(proof[q].target, r, AttemptOf[q], req[r], intent[r],
                         review[r][AttemptOf[q]].proof, q)
          BY <2>2, AllTargetsKept
        <4>3. CASE req[r].status = "pending"
          BY <1>1, <1>4, <3>2, <4>1, <4>2, <4>3 DEF TargetKept, HasIntent
        <4>4. CASE req[r].status = "settled"
          <5>1. proof[q].target = "pending_final" => AttemptOf[q] # a
            BY <1>1, <4>2, <4>4 DEF TargetKept
          <5>2. QED
            BY <1>3, <1>4, <2>1, <3>2, <4>1, <4>2, <5>1 DEF TargetKept
        <4>5. QED
          BY <1>1, <4>3, <4>4
      <3>3. QED
        BY <3>1, <3>2
    <2>3. QED
      BY <1>1, <1>3, <1>4, <2>1, <2>2, OtherTargetsKept
  <1>7. QED
    BY <1>1, <1>4, <1>5, <1>6

\* Every step but an approval leaves the targets of proofs alone, and all keep what an
\* approval promised.
LEMMA TargetStep ==
  ASSUME AttemptBillingAssumption, BillingInv, [Next]_vars
  PROVE  /\ TargetInv'
         /\ \A p \in Proofs : proof[p].target # "none" => proof'[p].target # "none"
  <1> DEFINE Kept == \A p \in Proofs : proof'[p].target = proof[p].target
             Claimed == \A r \in Requests, a \in Attempts :
                          review'[r][a].proof = review[r][a].proof
  <1>1. TargetInv /\ AttemptBillingTypeOK
    BY DEF BillingInv, TargetInv
  <1>2. ASSUME UNCHANGED <<req, intent>>, Kept, Claimed
        PROVE  TargetInv'
    BY <1>1, <1>2, TargetsUntouched
  <1>3. ASSUME NEW r \in Requests, Relay(r)
        PROVE  TargetInv' /\ Kept
    BY <1>1, <1>3, RelayKeepsTargets
    DEF Relay, BeginZTAPIRequestAttempt, RecordZTAPIRequestAttemptResponse,
        PendZTAPIRequestSettlement, saveZTAPISettlementFinalizationIntent
  <1>4. ASSUME NEW r \in Requests, finalizeZTAPIRequestSettlement(r)
        PROVE  TargetInv' /\ Kept
    <2>1. Kept
      BY <1>1, <1>4, FinalizedRow, SyncKeepsClaims
    <2>2. QED
      BY <1>1, <1>4, <2>1, FinalizeKeepsTargets
  <1>5. ASSUME NEW r \in Requests,
               \/ ReleaseZTAPIDispatchedRejectedSettlement(r)
               \/ \E by \in {"reviewer", "approvals"} : resolveZTAPIPendingNoCharge(r, by)
        PROVE  TargetInv' /\ Kept
    <2>1. Kept
      BY <1>1, <1>5, SyncedProofs
      DEF ReleaseZTAPIDispatchedRejectedSettlement, resolveZTAPIPendingNoCharge,
          SyncZTAPIAttemptBillingReviewsTx
    <2>2. QED
      BY <1>1, <1>5, <2>1, ReleaseKeepsTargets
  <1>6. ASSUME NEW r \in Requests, CompleteApprovedNoCharge(r)
        PROVE  TargetInv' /\ Kept
    <2>1. \A p \in Proofs : [proof[p] EXCEPT !.status = "completed"].target = proof[p].target
      BY <1>1 DEF AttemptBillingTypeOK, ProofType
    <2>2. Kept
      BY <1>6, <2>1 DEF CompleteApprovedNoCharge
    <2>3. QED
      BY <1>2, <1>6, <2>2 DEF CompleteApprovedNoCharge
  <1>7. ASSUME NEW p \in Proofs, SubmitZTAPIAttemptBilling(p) \/ CompleteAttemptBilling(p)
        PROVE  TargetInv' /\ Kept
    <2>1. Kept
      <3>1. proof \in [Proofs -> ProofType]
        BY <1>1 DEF AttemptBillingTypeOK
      <3>2. PICK status \in {"pending", "completed"} :
              proof' = [proof EXCEPT ![p] = [proof[p] EXCEPT !.status = status]]
        BY <1>7, <3>1 DEF SubmitZTAPIAttemptBilling, CompleteAttemptBilling
      <3>3. [proof[p] EXCEPT !.status = status].target = proof[p].target
        BY <3>1 DEF ProofType
      <3>4. QED
        BY <3>1, <3>2, <3>3
    <2>2. QED
      BY <1>2, <1>7, <2>1 DEF SubmitZTAPIAttemptBilling, CompleteAttemptBilling
  <1>8. ASSUME NEW p \in Proofs, ApprovalPends(p)
        PROVE  TargetInv' /\ Kept
    <2> DEFINE r == RequestOf[p]
    <2>1. r \in Requests /\ req[r] \in RowType
      BY <1>1 DEF AttemptBillingAssumption, AttemptBillingTypeOK
    <2>2. \A a \in Attempts :
            EnsureZTAPIAttemptBillingReviewsTx(r, req[r])[a].proof = review[r][a].proof
      BY <1>1, <2>1, EnsuredReviews DEF ReviewAdvances
    <2>3. Claimed
      BY <1>1, <1>8, <2>2 DEF ApprovalPends, AttemptBillingTypeOK
    <2>4. QED
      BY <1>2, <1>8, <2>3 DEF ApprovalPends
  <1>9. ASSUME NEW p \in Proofs, ProcessAdditionalAttempt(p)
        PROVE  TargetInv' /\ Kept
    <2> DEFINE r == RequestOf[p]
    <2>1. r \in Requests /\ 1 \in Attempts /\ review[r][1] \in ReviewType
      <3>1. r \in Requests /\ 1 \in Attempts
        BY DEF AttemptBillingAssumption, Attempts
      <3>2. QED
        BY <1>1, <3>1, RowsTyped
    <2>2. [review[r][1] EXCEPT !.status = "verified_billed"].proof = review[r][1].proof
      BY <2>1 DEF ReviewType
    <2>3. Claimed
      BY <1>1, <1>9, <2>1, <2>2 DEF ProcessAdditionalAttempt, AttemptBillingTypeOK
    <2>4. Kept
      BY <1>1, <1>9 DEF ProcessAdditionalAttempt, AttemptBillingTypeOK, ProofType
    <2>5. QED
      BY <1>2, <1>9, <2>3, <2>4 DEF ProcessAdditionalAttempt
  <1>10. ASSUME ReconcileRow
         PROVE  TargetInv' /\ Kept
    <2>1. PICK r \in Requests :
            /\ \/ SyncZTAPIAttemptBillingReviewsTx(r, req[r], charge[r], resolution[r])
               \/ UNCHANGED <<review, proof, charge>>
            /\ UNCHANGED <<req, intent, paid>>
      BY <1>1, <1>10 DEF ReconcileRow, AttemptBillingTypeOK
    <2>2. req[r] \in RowType /\ charge[r] \in [Attempts -> ChargeType]
      BY <1>1 DEF AttemptBillingTypeOK
    <2>3. Kept /\ Claimed
      BY <1>1, <2>1, <2>2, SyncKeepsClaims
    <2>4. QED
      BY <1>2, <2>1, <2>3
  <1>11. CASE StartReconcile \/ UNCHANGED vars
    BY <1>2, <1>11 DEF StartReconcile, vars
  <1>12. ASSUME NEW p \in Proofs, ApproveZTAPIAttemptBilling(p)
         PROVE  /\ TargetInv'
                /\ \A q \in Proofs : proof[q].target # "none" => proof'[q].target # "none"
    BY <1>1, <1>12, ApproveKeepsTargets
  <1>13. CASE Reviewer
    BY <1>5, <1>7, <1>8, <1>12, <1>13 DEF Reviewer, ResolveZTAPIPendingNoCharge
  <1>14. ASSUME NEW p \in Proofs, RetryZTAPIAttemptBillings(p)
         PROVE  TargetInv' /\ Kept
    <2>1. RequestOf[p] \in Requests
      BY DEF AttemptBillingAssumption
    <2>2. QED
      BY <1>4, <1>7, <1>9, <1>14, <2>1 DEF RetryZTAPIAttemptBillings, ProcessPendingFinal
  <1>15. ASSUME NEW r \in Requests, Maintenance(r)
         PROVE  TargetInv' /\ Kept
    BY <1>4, <1>5, <1>6, <1>15
    DEF Maintenance, resolveZTAPIPendingFromApprovedNoChargeAttempts
  <1>16. QED
    BY <1>3, <1>5, <1>10, <1>11, <1>13, <1>14, <1>15 DEF Next, vars

(***************************************************************************)
(* Bills and upstream ids.                                                 *)
(***************************************************************************)

BillInv == BillsAreProven /\ DistinctUsage

\* The two charges of a request name two upstream requests.
WiresDistinct(charges) == charges[1].wire # NoWire => charges[1].wire # charges[2].wire

\* A step that adds no bill and no upstream id keeps bills proven and distinct.
LEMMA NoNewBill ==
  ASSUME BillInv, NEW r \in Requests,
         \A p \in Proofs : proof[p].target # "none" => proof'[p].target # "none",
         \A s \in Requests \ {r} : charge'[s] = charge[s],
         \A a \in Attempts : charge'[r][a].bill \in {NoBill, charge[r][a].bill},
         WiresDistinct(charge'[r])
  PROVE  BillInv'
  <1>1. \A s \in Requests, a \in Attempts : charge'[s][a].bill \in {NoBill, charge[s][a].bill}
    OBVIOUS
  <1>2. BillsAreProven'
    BY <1>1 DEF BillInv, BillsAreProven
  <1>3. \A s, t \in Requests, a, b \in Attempts :
          (<<s, a>> # <<t, b>> /\ charge'[s][a].bill # NoBill)
            => charge'[s][a].bill # charge'[t][b].bill
    BY <1>1 DEF BillInv, DistinctUsage
  <1>4. \A s \in Requests :
          charge'[s][1].wire # NoWire => charge'[s][1].wire # charge'[s][2].wire
    BY DEF BillInv, DistinctUsage, WiresDistinct
  <1>5. QED
    BY <1>2, <1>3, <1>4 DEF BillInv, DistinctUsage

\* A step that adds the bill of an approved proof does too, if it does not overlap.
LEMMA OneNewBill ==
  ASSUME AttemptBillingAssumption, AttemptBillingTypeOK, BillInv,
         NEW p \in Proofs, NEW r \in Requests, NEW a \in Attempts, NEW charges,
         RequestOf[p] = r, AttemptOf[p] = a, KindOf[p] = "billed", proof[p].target # "none",
         ~overlappingZTAPIAttemptUsageTx(p, charges),
         \A q \in Proofs : proof'[q].target = proof[q].target,
         \A s \in Requests \ {r} : charge'[s] = charge[s],
         charge'[r][a].bill = BillOf[p],
         \A b \in Attempts : b # a => charge'[r][b].bill \in {NoBill, charge[r][b].bill},
         WiresDistinct(charge'[r])
  PROVE  BillInv'
  <1>1. \A s \in Requests, b \in Attempts :
          <<s, b>> # <<r, a>> => charge'[s][b].bill \in {NoBill, charge[s][b].bill}
    OBVIOUS
  <1>2. /\ BillsAreProven'
        /\ \A s, t \in Requests, b, c \in Attempts :
             (<<s, b>> # <<t, c>> /\ charge'[s][b].bill # NoBill)
               => charge'[s][b].bill # charge'[t][c].bill
    BY <1>1, NewBill DEF BillInv
  <1>3. \A s \in Requests :
          charge'[s][1].wire # NoWire => charge'[s][1].wire # charge'[s][2].wire
    BY DEF BillInv, DistinctUsage, WiresDistinct
  <1>4. QED
    BY <1>2, <1>3 DEF BillInv, DistinctUsage

\* Sync adds the bill of the proof its review names, or none.
LEMMA SyncKeepsBills ==
  ASSUME AttemptBillingAssumption, AttemptBillingTypeOK, ReviewsNameTheirProof, BillInv,
         NEW r \in Requests, NEW row \in RowType, NEW resolved,
         NEW charges \in [Attempts -> ChargeType],
         row.status = "settled" => row.final \in Attempts,
         \A a \in Attempts : charges[a].bill \in {NoBill, charge[r][a].bill},
         WiresDistinct(charges),
         SyncZTAPIAttemptBillingReviewsTx(r, row, charges, resolved)
  PROVE  BillInv'
  <1> DEFINE synced == SyncCharges(r, row, charges)
  <1>1. /\ charge' = [charge EXCEPT ![r] = synced]
        /\ SyncOK(r, row, charges, resolved)
        /\ \A p \in Proofs : proof'[p].target = proof[p].target
    BY SyncKeepsClaims DEF SyncZTAPIAttemptBillingReviewsTx
  <1>2. charge'[r] = synced /\ \A s \in Requests \ {r} : charge'[s] = charge[s]
    BY <1>1 DEF AttemptBillingTypeOK
  <1>3. CASE synced = charges
    BY <1>1, <1>2, <1>3, NoNewBill
  <1>4. ASSUME NEW p \in Proofs, BilledBy(p, r, row, charges),
               synced = [charges EXCEPT ![row.final].bill = BillOf[p]]
        PROVE  BillInv'
    <2> DEFINE a == row.final
    <2>1. /\ a \in Attempts /\ RequestOf[p] = r /\ AttemptOf[p] = a /\ KindOf[p] = "billed"
          /\ proof[p].target # "none" /\ ~overlappingZTAPIAttemptUsageTx(p, charges)
      BY <1>4 DEF BilledBy
    <2>2. synced[a].bill = BillOf[p] /\ \A b \in Attempts : b # a => synced[b] = charges[b]
      BY <1>4, <2>1 DEF ChargeType
    <2>3. \A b \in Attempts : synced[b].wire = charges[b].wire
      BY <1>4, <2>1 DEF ChargeType
    <2>4. WiresDistinct(charge'[r])
      BY <1>2, <2>3 DEF WiresDistinct, Attempts
    <2>5. QED
      BY <1>1, <1>2, <2>1, <2>2, <2>4, OneNewBill
  <1>5. QED
    BY <1>1, <1>3, <1>4, SyncedCharges

\* Every step keeps every bill proven and distinct.
LEMMA BillStep ==
  ASSUME AttemptBillingAssumption, BillingInv, [Next]_vars
  PROVE  BillInv'
  <1>1. /\ AttemptBillingTypeOK /\ BillInv /\ ReviewsNameTheirProof
        /\ \A p \in Proofs : proof[p].target # "none" => proof'[p].target # "none"
    BY TargetStep DEF BillingInv, BillInv
  <1>2. CASE UNCHANGED charge
    <2>1. BillsAreProven'
      BY <1>1, <1>2 DEF BillInv, BillsAreProven
    <2>2. DistinctUsage'
      BY <1>1, <1>2 DEF BillInv, DistinctUsage
    <2>3. QED
      BY <2>1, <2>2 DEF BillInv
  <1>3. ASSUME NEW r \in Requests, finalizeZTAPIRequestSettlement(r)
        PROVE  BillInv'
    <2> DEFINE a == intent[r].attempt
               row == [status |-> "settled", missing |-> "none", final |-> a]
               anchored == [charge[r] EXCEPT ![a] =
                              [kind |-> "final", wire |-> intent[r].wire, bill |-> NoBill]]
               charges == IF intent[r].wire = NoWire THEN charge[r] ELSE anchored
    <2>1. /\ a \in Attempts /\ row \in RowType /\ charges \in [Attempts -> ChargeType]
          /\ \A b \in Attempts : charge[r][b] = NoCharge /\ (b # a => charges[b] = NoCharge)
          /\ charges[a].bill = NoBill
          /\ SyncZTAPIAttemptBillingReviewsTx(r, row, charges, "none")
      BY <1>3, FinalizedRow
    <2>2. \A b \in Attempts : charges[b].bill \in {NoBill, charge[r][b].bill}
      BY <2>1 DEF NoCharge
    <2>3. WiresDistinct(charges)
      <3>1. CASE a = 1
        <4>1. charges[2].wire = NoWire
          BY <2>1, <3>1 DEF Attempts, NoCharge
        <4>2. QED
          BY <4>1 DEF WiresDistinct
      <3>2. CASE a # 1
        <4>1. charges[1].wire = NoWire
          BY <2>1, <3>2 DEF Attempts, NoCharge
        <4>2. QED
          BY <4>1 DEF WiresDistinct
      <3>3. QED
        BY <3>1, <3>2
    <2>4. QED
      BY <1>1, <2>1, <2>2, <2>3, SyncKeepsBills
  <1>4. ASSUME NEW r \in Requests, NEW row \in RowType, NEW resolved,
               row.status = "settled" => row.final \in Attempts,
               SyncZTAPIAttemptBillingReviewsTx(r, row, charge[r], resolved)
        PROVE  BillInv'
    <2>1. charge[r] \in [Attempts -> ChargeType] /\ WiresDistinct(charge[r])
      BY <1>1 DEF AttemptBillingTypeOK, BillInv, DistinctUsage, WiresDistinct
    <2>2. QED
      BY <1>1, <1>4, <2>1, SyncKeepsBills
  <1>5. ASSUME NEW r \in Requests, NEW by \in {"reviewer", "approvals"},
               resolveZTAPIPendingNoCharge(r, by)
        PROVE  BillInv'
    <2> DEFINE row == [req[r] EXCEPT !.status = "released"]
    <2>1. req[r] \in RowType
      BY <1>1 DEF AttemptBillingTypeOK
    <2>2. row \in RowType /\ row.status = "released"
      BY <2>1 DEF RowType
    <2>3. QED
      BY <1>4, <1>5, <2>2 DEF resolveZTAPIPendingNoCharge
  <1>6. CASE ReconcileRow
    <2>1. PICK r \in Requests :
            \/ SyncZTAPIAttemptBillingReviewsTx(r, req[r], charge[r], resolution[r])
            \/ UNCHANGED charge
      BY <1>1, <1>6 DEF ReconcileRow, AttemptBillingTypeOK
    <2>2. req[r] \in RowType /\ (req[r].status = "settled" => req[r].final \in Attempts)
      BY <1>1 DEF AttemptBillingTypeOK, BillingInv, ChargesAreSettled
    <2>3. QED
      BY <1>2, <1>4, <2>1, <2>2
  <1>7. ASSUME NEW p \in Proofs, ProcessAdditionalAttempt(p)
        PROVE  BillInv'
    <2> DEFINE r == RequestOf[p]
               added == [kind |-> "additional", wire |-> WireOf[p], bill |-> BillOf[p]]
    <2>1. r \in Requests /\ 1 \in Attempts /\ 2 \in Attempts
      BY DEF AttemptBillingAssumption, Attempts
    <2>2. /\ AttemptOf[p] = 1 /\ KindOf[p] = "billed" /\ proof[p].target # "none"
          /\ ~overlappingZTAPIAttemptUsageTx(p, charge[r])
          /\ charge' = [charge EXCEPT ![r][1] = added]
          /\ proof' = [proof EXCEPT ![p].status = "applied"]
      BY <1>7 DEF ProcessAdditionalAttempt, BillingInv, AdditionalTargets
    <2>3. /\ charge'[r][1] = added /\ \A b \in Attempts : b # 1 => charge'[r][b] = charge[r][b]
          /\ \A s \in Requests \ {r} : charge'[s] = charge[s]
      BY <1>1, <2>1, <2>2 DEF AttemptBillingTypeOK
    <2>4. \A q \in Proofs : proof'[q].target = proof[q].target
      BY <1>1, <2>2 DEF AttemptBillingTypeOK, ProofType
    <2>5. charge[r][2].wire # WireOf[p]
      BY <2>1, <2>2 DEF overlappingZTAPIAttemptUsageTx
    <2>6. WiresDistinct(charge'[r])
      BY <2>1, <2>3, <2>5 DEF WiresDistinct
    <2>7. QED
      BY <1>1, <2>1, <2>2, <2>3, <2>4, <2>6, OneNewBill
  <1>8. ASSUME NEW r \in Requests, Maintenance(r)
        PROVE  BillInv'
    BY <1>2, <1>3, <1>5, <1>8
    DEF Maintenance, resolveZTAPIPendingFromApprovedNoChargeAttempts, CompleteApprovedNoCharge
  <1>9. CASE Reviewer
    BY <1>2, <1>5, <1>9 DEF Reviewer, ResolveZTAPIPendingNoCharge, SubmitZTAPIAttemptBilling,
                            ApproveZTAPIAttemptBilling, ApprovalPends
  <1>10. ASSUME NEW p \in Proofs, RetryZTAPIAttemptBillings(p)
         PROVE  BillInv'
    <2>1. RequestOf[p] \in Requests
      BY DEF AttemptBillingAssumption
    <2>2. QED
      BY <1>2, <1>3, <1>7, <1>10, <2>1
      DEF RetryZTAPIAttemptBillings, ProcessPendingFinal, CompleteAttemptBilling
  <1>11. ASSUME NEW r \in Requests, Relay(r) \/ ReleaseZTAPIDispatchedRejectedSettlement(r)
         PROVE  BillInv'
    BY <1>2, <1>11
    DEF Relay, BeginZTAPIRequestAttempt, RecordZTAPIRequestAttemptResponse,
        PendZTAPIRequestSettlement, saveZTAPISettlementFinalizationIntent,
        ReleaseZTAPIDispatchedRejectedSettlement
  <1>12. CASE StartReconcile \/ UNCHANGED vars
    BY <1>2, <1>12 DEF StartReconcile, vars
  <1>13. QED
    BY <1>6, <1>8, <1>9, <1>10, <1>11, <1>12 DEF Next

(***************************************************************************)
(* The theorems.                                                           *)
(***************************************************************************)

\* Before anything happens every request holds its reservation and nothing else.
LEMMA BillingStarts ==
  ASSUME AttemptBillingAssumption, Init
  PROVE  BillingInv
  <1>1. /\ \A r \in Requests : /\ req[r].status = "reserved" /\ paid[r] = ReservedQuota
                               /\ intent[r] = NoIntent
                               /\ \A a \in Attempts : /\ charge[r][a] = NoCharge
                                                      /\ review[r][a] = NoReview
        /\ \A p \in Proofs : proof[p].target = "none"
    BY DEF Init
  <1>2. AttemptBillingTypeOK
    <2>1. [status |-> "reserved", missing |-> "none", final |-> 0] \in RowType
      BY DEF RowType
    <2>2. [status |-> "none", target |-> "none"] \in ProofType
      BY DEF ProofType
    <2>3. attempt \in [Requests -> Seq(AttemptType)] /\ \A r \in Requests : Len(attempt[r]) <= 2
      BY EmptySeq DEF Init
    <2>4. /\ intent \in [Requests -> IntentType]
          /\ review \in [Requests -> [Attempts -> ReviewType]]
          /\ charge \in [Requests -> [Attempts -> ChargeType]]
      BY NewRowsTyped DEF Init
    <2>5. QED
      BY <2>1, <2>2, <2>3, <2>4 DEF Init, AttemptBillingTypeOK, AttemptBillingAssumption
  <1>3. 1 \in Attempts /\ 2 \in Attempts
    BY DEF Attempts
  <1>4. ChargesAreSettled /\ PaidIsExact
    BY <1>1 DEF ChargesAreSettled, PaidIsExact, NoCharge
  <1>5. /\ AdditionalIsVerified /\ NoChargeNeverBilled /\ ReservedUnreviewed
        /\ IntentNotFree /\ ReviewsNameTheirProof
    BY <1>1, <1>3 DEF AdditionalIsVerified, NoChargeNeverBilled, ReservedUnreviewed,
                      IntentNotFree, ReviewsNameTheirProof, NoCharge, NoReview
  <1>6. AdditionalTargets /\ ApprovedFinalIsReserved
    BY <1>1 DEF AdditionalTargets, ApprovedFinalIsReserved
  <1>7. BillsAreProven /\ DistinctUsage
    BY <1>1, <1>3 DEF BillsAreProven, DistinctUsage, NoCharge
  <1>8. QED
    BY <1>2, <1>4, <1>5, <1>6, <1>7 DEF BillingInv

\* Every step keeps the invariant.
LEMMA BillingStep ==
  ASSUME AttemptBillingAssumption, BillingInv, [Next]_vars
  PROVE  BillingInv'
  <1>1. AttemptBillingTypeOK'
    BY TypeStep DEF BillingInv
  <1>2. ChargesAreSettled' /\ PaidIsExact' /\ ReviewInv' /\ TargetInv' /\ BillInv'
    BY MoneyStep, ReviewStep, TargetStep, BillStep
  <1>3. QED
    BY <1>1, <1>2 DEF BillingInv, ReviewInv, TargetInv, BillInv

\* The invariant holds in every behaviour.
THEOREM BillingAlways == ASSUME AttemptBillingAssumption PROVE Spec => []BillingInv
  <1>1. Init => BillingInv
    BY BillingStarts
  <1>2. BillingInv /\ [Next]_vars => BillingInv'
    BY BillingStep
  <1>3. QED
    BY <1>1, <1>2, PTL DEF Spec

\* However many requests there are and whatever proofs arrive in whatever order, the
\* wallet has paid for a request exactly what its state says, an approved final debit
\* keeps its intent, a bill pays for one charge and an attempt proven free for none.
THEOREM AttemptsArePaidExactly ==
  ASSUME AttemptBillingAssumption
  PROVE  Spec => []AttemptsPaidExactly
  <1>1. BillingInv => AttemptsPaidExactly
    BY DEF BillingInv, AttemptsPaidExactly
  <1>2. QED
    BY <1>1, BillingAlways, PTL

(***************************************************************************)
(* Verified reviews are final.                                             *)
(***************************************************************************)

\* Reviews of a request that were verified before are the same after.
VerifiedKept(before, after) ==
  \A a \in Attempts : before[a].status \in Verified => after[a] = before[a]

\* A step that writes the reviews of one request needs to be right about that one.
LEMMA OthersKeepVerified ==
  ASSUME AttemptBillingTypeOK, NEW r \in Requests, NEW reviews,
         review' = [review EXCEPT ![r] = reviews], VerifiedKept(review[r], reviews)
  PROVE  \A s \in Requests : VerifiedKept(review[s], review'[s])
  BY DEF AttemptBillingTypeOK, VerifiedKept

\* Sync resolves pending reviews only.
LEMMA SyncKeepsVerified ==
  ASSUME AttemptBillingAssumption, AttemptBillingTypeOK, NEW r \in Requests,
         NEW row \in RowType, NEW charges \in [Attempts -> ChargeType], NEW resolved,
         SyncZTAPIAttemptBillingReviewsTx(r, row, charges, resolved)
  PROVE  \A s \in Requests : VerifiedKept(review[s], review'[s])
  <1> DEFINE reviews == SyncReviews(r, row, charges)
  <1>1. ASSUME NEW a \in Attempts
        PROVE  ReviewAdvances(review[r][a], reviews[a])
    BY <1>1, SyncedReviews
  <1>2. VerifiedKept(review[r], reviews)
    BY <1>1 DEF VerifiedKept, ReviewAdvances
  <1>3. review' = [review EXCEPT ![r] = reviews]
    BY DEF SyncZTAPIAttemptBillingReviewsTx
  <1>4. QED
    BY <1>2, <1>3, OthersKeepVerified

\* A final debit and a release write reviews through Sync, or not at all.
LEMMA ClosingKeepsVerified ==
  ASSUME AttemptBillingAssumption, BillingInv, NEW r \in Requests,
         \/ finalizeZTAPIRequestSettlement(r)
         \/ \E by \in {"reviewer", "approvals"} : resolveZTAPIPendingNoCharge(r, by)
  PROVE  \A s \in Requests : VerifiedKept(review[s], review'[s])
  <1>1. AttemptBillingTypeOK
    BY DEF BillingInv
  <1>2. CASE finalizeZTAPIRequestSettlement(r)
    <2> DEFINE a == intent[r].attempt
               row == [status |-> "settled", missing |-> "none", final |-> a]
               anchored == [charge[r] EXCEPT ![a] = [kind |-> "final", wire |-> intent[r].wire,
                                                     bill |-> NoBill]]
               charges == IF intent[r].wire = NoWire THEN charge[r] ELSE anchored
    <2>1. /\ row \in RowType /\ charges \in [Attempts -> ChargeType]
          /\ SyncZTAPIAttemptBillingReviewsTx(r, row, charges, "none")
      BY <1>2, FinalizedRow
    <2>2. QED
      BY <1>1, <2>1, SyncKeepsVerified
  <1>3. ASSUME NEW by \in {"reviewer", "approvals"}, resolveZTAPIPendingNoCharge(r, by)
        PROVE  \A s \in Requests : VerifiedKept(review[s], review'[s])
    <2> DEFINE row == [req[r] EXCEPT !.status = "released"]
    <2>1. SyncZTAPIAttemptBillingReviewsTx(r, row, charge[r], by)
      BY <1>3 DEF resolveZTAPIPendingNoCharge
    <2>2. row \in RowType /\ charge[r] \in [Attempts -> ChargeType]
      <3>1. req[r] \in RowType /\ charge[r] \in [Attempts -> ChargeType]
        BY <1>1 DEF AttemptBillingTypeOK
      <3>2. row \in RowType
        BY <3>1 DEF RowType
      <3>3. QED
        BY <3>1, <3>2
    <2>3. QED
      BY <1>1, <2>1, <2>2, SyncKeepsVerified
  <1>4. QED
    BY <1>2, <1>3

\* An approval claims a pending review only.
LEMMA ApprovingKeepsVerified ==
  ASSUME AttemptBillingAssumption, BillingInv, NEW p \in Proofs,
         ApproveZTAPIAttemptBilling(p) \/ ApprovalPends(p)
  PROVE  \A s \in Requests : VerifiedKept(review[s], review'[s])
  <1> DEFINE r == RequestOf[p]
             ensured == EnsureZTAPIAttemptBillingReviewsTx(r, req[r])
  <1>1. r \in Requests /\ AttemptBillingTypeOK /\ req[r] \in RowType
    BY DEF AttemptBillingAssumption, BillingInv, AttemptBillingTypeOK
  <1>2. ASSUME NEW a \in Attempts
        PROVE  ensured \in [Attempts -> ReviewType] /\ ReviewAdvances(review[r][a], ensured[a])
    BY <1>1, <1>2, EnsuredReviews
  <1>3. CASE ApprovalPends(p)
    <2>1. VerifiedKept(review[r], ensured)
      BY <1>2 DEF VerifiedKept, ReviewAdvances
    <2>2. QED
      BY <1>1, <1>3, <2>1, OthersKeepVerified DEF ApprovalPends
  <1>4. CASE ApproveZTAPIAttemptBilling(p)
    <2> DEFINE claimed == [status |-> IF KindOf[p] = "nocharge" THEN "verified_nocharge"
                                      ELSE "pending", proof |-> p]
               reviews == [ensured EXCEPT ![AttemptOf[p]] = claimed]
    <2>1. /\ AttemptOf[p] \in Attempts
          /\ review[r][AttemptOf[p]] \in {NoReview, PendingReview}
          /\ review' = [review EXCEPT ![r] = reviews]
      BY <1>4, ApprovalFacts
    <2>2. review[r][AttemptOf[p]].status \notin Verified
      BY <2>1 DEF NoReview, PendingReview, Verified
    <2>3. VerifiedKept(review[r], reviews)
      BY <1>2, <2>1, <2>2 DEF VerifiedKept, ReviewAdvances
    <2>4. QED
      BY <1>1, <2>1, <2>3, OthersKeepVerified
  <1>5. QED
    BY <1>3, <1>4

\* An additional debit closes a pending review, and a pass goes through Sync.
LEMMA RetryingKeepsVerified ==
  ASSUME AttemptBillingAssumption, BillingInv,
         (\E p \in Proofs : ProcessAdditionalAttempt(p)) \/ ReconcileRow
  PROVE  \A s \in Requests : VerifiedKept(review[s], review'[s])
  <1>1. AttemptBillingTypeOK
    BY DEF BillingInv
  <1>2. ASSUME NEW p \in Proofs, ProcessAdditionalAttempt(p)
        PROVE  \A s \in Requests : VerifiedKept(review[s], review'[s])
    <2> DEFINE r == RequestOf[p]
               closed == [review[r][1] EXCEPT !.status = "verified_billed"]
               reviews == [review[r] EXCEPT ![1] = closed]
    <2>1. r \in Requests /\ review[r] \in [Attempts -> ReviewType]
      BY <1>1, RowsTyped DEF AttemptBillingAssumption, AttemptBillingTypeOK
    <2>2. review' = [review EXCEPT ![r] = reviews]
      BY <1>2 DEF ProcessAdditionalAttempt
    <2>3. review[r][1].status = "pending"
      BY <1>2 DEF ProcessAdditionalAttempt
    <2>4. VerifiedKept(review[r], reviews)
      BY <2>1, <2>3 DEF VerifiedKept, Verified
    <2>5. QED
      BY <1>1, <2>1, <2>2, <2>4, OthersKeepVerified
  <1>3. CASE ReconcileRow
    <2>1. PICK r \in Requests :
            \/ SyncZTAPIAttemptBillingReviewsTx(r, req[r], charge[r], resolution[r])
            \/ UNCHANGED review
      BY <1>1, <1>3 DEF ReconcileRow, AttemptBillingTypeOK
    <2>2. req[r] \in RowType /\ charge[r] \in [Attempts -> ChargeType]
      BY <1>1 DEF AttemptBillingTypeOK
    <2>3. QED
      BY <1>1, <2>1, <2>2, SyncKeepsVerified DEF VerifiedKept
  <1>4. QED
    BY <1>2, <1>3

\* No step reopens or flips a verified review.
LEMMA VerifiedStep ==
  ASSUME AttemptBillingAssumption, BillingInv, [Next]_vars
  PROVE  \A s \in Requests : VerifiedKept(review[s], review'[s])
  <1>1. CASE UNCHANGED review
    BY <1>1 DEF VerifiedKept
  <1>2. ASSUME NEW r \in Requests,
               \/ Relay(r) \/ Maintenance(r) \/ ReleaseZTAPIDispatchedRejectedSettlement(r)
        PROVE  \A s \in Requests : VerifiedKept(review[s], review'[s])
    <2>1. CASE Relay(r) \/ ReleaseZTAPIDispatchedRejectedSettlement(r)
      BY <1>1, <2>1 DEF Relay, BeginZTAPIRequestAttempt, RecordZTAPIRequestAttemptResponse,
                        PendZTAPIRequestSettlement, saveZTAPISettlementFinalizationIntent,
                        ReleaseZTAPIDispatchedRejectedSettlement
    <2>2. CASE Maintenance(r)
      BY <1>1, <2>2, ClosingKeepsVerified
      DEF Maintenance, resolveZTAPIPendingFromApprovedNoChargeAttempts, CompleteApprovedNoCharge
    <2>3. QED
      BY <1>2, <2>1, <2>2
  <1>3. CASE Reviewer
    BY <1>1, <1>3, ClosingKeepsVerified, ApprovingKeepsVerified
    DEF Reviewer, ResolveZTAPIPendingNoCharge, SubmitZTAPIAttemptBilling
  <1>4. ASSUME NEW p \in Proofs, RetryZTAPIAttemptBillings(p)
        PROVE  \A s \in Requests : VerifiedKept(review[s], review'[s])
    <2>1. CASE ProcessAdditionalAttempt(p)
      BY <2>1, RetryingKeepsVerified
    <2>2. CASE ProcessPendingFinal(p)
      BY <2>2, ClosingKeepsVerified DEF ProcessPendingFinal, AttemptBillingAssumption
    <2>3. CASE CompleteAttemptBilling(p)
      BY <1>1, <2>3 DEF CompleteAttemptBilling
    <2>4. QED
      BY <1>4, <2>1, <2>2, <2>3 DEF RetryZTAPIAttemptBillings
  <1>5. CASE StartReconcile
    BY <1>1, <1>5 DEF StartReconcile
  <1>6. CASE ReconcileRow
    BY <1>6, RetryingKeepsVerified
  <1>7. QED
    BY <1>1, <1>2, <1>3, <1>4, <1>5, <1>6 DEF Next, vars

\* A verified outcome is final: no pass, retry or later proof reopens or flips it.
THEOREM VerifiedReviewsAreFinal ==
  ASSUME AttemptBillingAssumption PROVE Spec => ReviewsAreFinal
  <1>1. BillingInv /\ [Next]_vars =>
          [\A r \in Requests, a \in Attempts :
             review[r][a].status \in {"verified_billed", "verified_nocharge"}
               => review'[r][a] = review[r][a]]_vars
    BY VerifiedStep DEF VerifiedKept, Verified
  <1>2. QED
    BY <1>1, BillingAlways, PTL DEF Spec, ReviewsAreFinal
=============================================================================
