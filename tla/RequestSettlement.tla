-------------------------- MODULE RequestSettlement --------------------------
(***************************************************************************)
(* The durable settlement of managed requests.                             *)
(*                                                                         *)
(* A managed request reserves quota from the wallet and from its API key   *)
(* before it is dispatched (BeginZTAPIRequestSettlement), is sent to at    *)
(* most two upstream channels, and ends in one of four ways: its exact     *)
(* usage is charged, its reservation is returned, it is parked as pending  *)
(* for a worker or a reviewer, or the process dies.  Three kinds of actor  *)
(* work on the same rows: the HTTP handler of each request, which keeps an *)
(* in-memory copy of the row (ztapiDurableBilling), the maintenance worker *)
(* and a finance operator.                                                 *)
(*                                                                         *)
(* Every step of a handler is one database transaction.  A transaction may *)
(* fail and roll back, may commit without the caller learning of it, and   *)
(* the handler may die between any two of them; MaxFaults bounds how often.*)
(***************************************************************************)
EXTENDS LedgerArithmetic, Sequences, FiniteSets, Functions

CONSTANTS
  Ops,                \* operation ids, one for each managed request
  Channels,           \* upstream channels
  Amounts,            \* quota amounts a request reserves or is charged
  Statuses,           \* HTTP statuses an upstream answers with
  RejectionStatuses,  \* those a supplier gives only without running a model,
                      \* unless it blocks the content (a fact of its contract)
  InitialQuota,       \* wallet balance at the start
  InitialTokenQuota,  \* remaining limit of the API key at the start
  TokenUnlimited,     \* TRUE when the API key has no limit of its own
  MaxFaults,          \* bound on failed transactions, lost commits, crashes
  MaxEdits            \* bound on administrative changes of the user

ASSUME SettlementAssumption ==
  /\ IsFiniteSet(Ops)
  /\ Amounts \subseteq 0..MaxQuota
  /\ Statuses \subseteq 100..599
  /\ InitialQuota \in 0..MaxQuota
  /\ InitialTokenQuota \in 0..MaxQuota
  /\ TokenUnlimited \in BOOLEAN
  /\ MaxFaults \in Nat
  /\ MaxEdits \in Nat

\* What the release of rejected holds takes for granted about the suppliers
\* (model/ztapi_request_attempt.go): outside a content-safety block, none of
\* these answers follows a run of the model.
ASSUME SupplierContract ==
  Statuses \cap ((400..499 \ {408}) \cup {503}) \subseteq RejectionStatuses

VARIABLES
  user,       \* the wallet owner's row
  token,      \* the API key's row
  ledger,     \* ledger[o][k]: delta of the ledger row with key "ztapi:<o>:<k>"
  row,        \* the settlement rows
  attempts,   \* the dispatch attempts of each request
  intent,     \* the durable finalization intents
  session,    \* the handlers: program counter and in-memory billing session
  mayBill,    \* attempts the supplier may have run a model for (ground truth)
  faults,     \* faults so far
  adjusted    \* administrative changes: [count, total] of their ledger rows

db == <<user, token, ledger, row, attempts, intent>>
vars == <<user, token, ledger, row, attempts, intent, session, mayBill,
          faults, adjusted>>
-------------------------------------------------------------------------------
(***************************************************************************)
(* Types.                                                                  *)
(***************************************************************************)
LedgerKeys == {"begin", "settle", "release", "upstream-rejected", "no-charge"}

Held == {"reserved", "pending"}
RowStatuses == {"absent", "reserved", "pending", "settled", "released"}

\* What a pending row waits for (missing_dimensions_json).
Reasons == {"none", "upstream_billing_unconfirmed", "settlement_retry_required",
            "dimensions_missing", "attempt_evidence_conflict"}

MaxAttempts == 2
NoResponse == 0

Quota == 0..MaxQuota

TokenType == [remain : Quota, used : Quota, status : {"enabled", "exhausted"}]

RowType == [status : RowStatuses, reserved : Quota, tokenReserved : Quota,
            charged : Quota, tokenCharged : Quota, dispatched : BOOLEAN,
            usage : {"none", "known"}, missing : Reasons,
            finalAttempt : 0..MaxAttempts]

AttemptType == [channel : Channels, http : 0..599, safety : BOOLEAN]

IntentType == [state : {"none", "open", "completed"}, actual : Quota,
               attempt : 0..MaxAttempts]

PCs == {"idle", "ready", "sent", "answered", "finalize", "park", "refund",
        "pend", "done", "crashed"}

SessionType == [pc : PCs, status : RowStatuses, dispatched : BOOLEAN,
                attempt : 0..MaxAttempts, blocked : BOOLEAN, safety : BOOLEAN,
                failed : BOOLEAN, retried : BOOLEAN, reason : Reasons]

\* The database columns.  Every quota column stays inside its 32-bit range:
\* the wallet between the two limits, the key and the rows between zero and
\* the maximum.
DBTypeOK ==
  /\ user \in UserType
  /\ token \in TokenType
  /\ ledger \in [Ops -> [LedgerKeys -> -MaxQuota..MaxQuota]]
  /\ row \in [Ops -> RowType]
  /\ attempts \in [Ops -> Seq(AttemptType)]
  /\ \A o \in Ops : Len(attempts[o]) <= MaxAttempts
  /\ intent \in [Ops -> IntentType]

\* The handlers' memory, the ground truth and the bounds.
SessionTypeOK ==
  /\ session \in [Ops -> SessionType]
  /\ mayBill \in [Ops -> SUBSET (1..MaxAttempts)]
  /\ faults \in Nat
  /\ adjusted \in [count : Nat, total : Int]

\* Types and column ranges: no sequence of reservations, settlements and
\* refunds takes a balance, a limit or a charge out of its column.
TypeOK == DBTypeOK /\ SessionTypeOK
-------------------------------------------------------------------------------
(***************************************************************************)
(* Moving quota.  Each transaction below changes the wallet, at most one   *)
(* ledger row and the key's limit together.                                *)
(***************************************************************************)

\* ztapiSettlementWalletDeltaTx: a zero delta writes nothing; the ledger key
\* is unique; the sum is checked.
CanMoveWallet(o, key, delta, allowNegative) ==
  delta # 0 =>
    /\ ledger[o][key] = 0
    /\ IF allowNegative
         THEN checkedSettlementBalanceLedgerSum(user.quota, delta)
         ELSE checkedBalanceLedgerSum(user.quota, delta)

\* The user row afterwards; the status of a deleted user is left alone.
Mut_DebtForgiven(delta, allowNegative) ==
  LET after == user.quota + delta
  IN balanceLedgerUserUpdates(user, IF after < 0 THEN 0 ELSE after, allowNegative)

UserAfter(delta, allowNegative) ==
  LET updated == balanceLedgerUserUpdates(user, user.quota + delta, allowNegative)
  IN IF delta = 0 THEN user
     ELSE IF user.deleted THEN [updated EXCEPT !.status = user.status]
     ELSE updated

LedgerAfter(o, key, delta) ==
  [ledger EXCEPT ![o][key] = @ + delta]

\* ztapiSettlementTokenDeltaTx: what a request for `delta` really moves.  A
\* final debit beyond the remaining limit takes what is left.
Mut_TokenDebtNotClamped(delta, allowDebt) ==
  IF TokenUnlimited THEN 0 ELSE delta

TokenDelta(delta, allowDebt) ==
  IF TokenUnlimited THEN 0
  ELSE IF allowDebt /\ delta < 0 /\ -delta > token.remain THEN -token.remain
  ELSE delta

CanMoveToken(delta) ==
  delta # 0 =>
    /\ checkedBalanceLedgerSum(token.remain, delta)
    /\ token.used - delta >= 0 /\ token.used - delta <= MaxQuota

TokenAfter(delta) ==
  [token EXCEPT !.remain = @ + delta,
                !.used = @ - delta,
                !.status = IF delta = 0 THEN @
                           ELSE IF token.remain + delta = 0 THEN "exhausted"
                           ELSE "enabled"]

\* The common tail of the release paths: both reservations go back in full.
CanReturn(o, key) ==
  /\ CanMoveWallet(o, key, row[o].reserved, FALSE)
  /\ CanMoveToken(TokenDelta(row[o].tokenReserved, FALSE))

ReturnReservation(o, key) ==
  /\ user' = UserAfter(row[o].reserved, FALSE)
  /\ ledger' = LedgerAfter(o, key, row[o].reserved)
  /\ token' = TokenAfter(TokenDelta(row[o].tokenReserved, FALSE))

HasIntent(o) == intent[o].state # "none"
-------------------------------------------------------------------------------
(***************************************************************************)
(* The transactions of model/ztapi_request_settlement.go and               *)
(* model/ztapi_request_attempt.go.  CanX(o) says when X returns no error,  *)
(* X(o) is what it commits.  Each takes the row's lock first, so each is   *)
(* one step.                                                               *)
(***************************************************************************)
NewRow(status, amount, tokenAmount) ==
  [status |-> status, reserved |-> amount, tokenReserved |-> tokenAmount,
   charged |-> 0, tokenCharged |-> 0, dispatched |-> FALSE, usage |-> "none",
   missing |-> "none", finalAttempt |-> 0]

AbsentRow == NewRow("absent", 0, 0)

CanBeginSettlement(o, amount) ==
  /\ row[o].status = "absent"
  /\ user.status = "enabled" /\ ~user.deleted
  /\ token.status = "enabled"
  /\ CanMoveWallet(o, "begin", -amount, FALSE)
  /\ CanMoveToken(TokenDelta(-amount, FALSE))

BeginZTAPIRequestSettlement(o, amount) ==
  LET taken == TokenDelta(-amount, FALSE) IN
  /\ user' = UserAfter(-amount, FALSE)
  /\ ledger' = LedgerAfter(o, "begin", -amount)
  /\ token' = TokenAfter(taken)
  /\ row' = [row EXCEPT ![o] = NewRow("reserved", amount, -taken)]
  /\ UNCHANGED <<attempts, intent>>

CanBeginAttempt(o, ch) ==
  /\ row[o].status = "reserved"
  /\ Len(attempts[o]) < MaxAttempts
  /\ \A i \in 1..Len(attempts[o]) : attempts[o][i].channel # ch

BeginZTAPIRequestAttempt(o, ch) ==
  /\ attempts' = [attempts EXCEPT ![o] =
                    Append(@, [channel |-> ch, http |-> NoResponse,
                               safety |-> FALSE])]
  /\ row' = [row EXCEPT ![o].dispatched = TRUE]
  /\ UNCHANGED <<user, token, ledger, intent>>

\* RecordZTAPIRequestAttemptResponse asks nothing of the row's status.
RecordZTAPIRequestAttemptResponse(o, i, status) ==
  /\ attempts' = [attempts EXCEPT ![o] = [@ EXCEPT ![i].http = status]]
  /\ UNCHANGED <<user, token, ledger, row, intent>>

MarkZTAPIRequestSafetyOutcome(o) ==
  /\ attempts' = [attempts EXCEPT ![o] =
                    [i \in 1..Len(@) |-> [@[i] EXCEPT !.safety = TRUE]]]
  /\ UNCHANGED <<user, token, ledger, row, intent>>

\* PendZTAPIRequestSettlement: cleanup has no usage of its own, so when an
\* intent exists it parks the row for the intent's retry instead.
Mut_CleanupErasesIntent(o, usage, missing) ==
  [usage |-> usage, missing |-> missing]

PendingEvidence(o, usage, missing) ==
  IF /\ missing = "upstream_billing_unconfirmed"
     /\ \/ row[o].status = "reserved"
        \/ /\ row[o].status = "pending"
           /\ row[o].missing = "settlement_retry_required"
     /\ HasIntent(o)
    THEN [usage |-> "known", missing |-> "settlement_retry_required"]
    ELSE [usage |-> usage, missing |-> missing]

Mut_PendAnyRow(o, usage, missing) == row[o].status # "absent"

CanPend(o, usage, missing) ==
  \/ row[o].status = "reserved"
  \/ /\ row[o].status = "pending"
     /\ row[o].usage = PendingEvidence(o, usage, missing).usage
     /\ row[o].missing = PendingEvidence(o, usage, missing).missing

PendZTAPIRequestSettlement(o, usage, missing) ==
  /\ row' = [row EXCEPT ![o].status = "pending",
                        ![o].usage = PendingEvidence(o, usage, missing).usage,
                        ![o].missing = PendingEvidence(o, usage, missing).missing]
  /\ UNCHANGED <<user, token, ledger, attempts, intent>>

\* ReleaseZTAPIRequestSettlement: only a reservation that was never
\* dispatched, and only once.
CanRelease(o) ==
  \/ row[o].status = "released"
  \/ /\ row[o].status = "reserved"
     /\ ~row[o].dispatched
     /\ ~HasIntent(o)
     /\ CanReturn(o, "release")

Mut_ReleaseTwice(o) ==
  /\ ReturnReservation(o, "release")
  /\ row' = [row EXCEPT ![o].status = "released"]
  /\ UNCHANGED <<attempts, intent>>

ReleaseZTAPIRequestSettlement(o) ==
  IF row[o].status = "released" THEN UNCHANGED db
  ELSE /\ ReturnReservation(o, "release")
       /\ row' = [row EXCEPT ![o].status = "released"]
       /\ UNCHANGED <<attempts, intent>>

\* A status that proves the supplier answered without running a model.
ztapiUpstreamRejectedBeforeInference(status) ==
  /\ status # 408
  /\ status \in 400..499 \/ status = 503

Mut_UnmarkedProof(o) ==
  /\ attempts[o] # <<>>
  /\ \A i \in 1..Len(attempts[o]) :
       ztapiUpstreamRejectedBeforeInference(attempts[o][i].http)

ProvenRejected(o) ==
  /\ attempts[o] # <<>>
  /\ \A i \in 1..Len(attempts[o]) :
       /\ ~attempts[o][i].safety
       /\ ztapiUpstreamRejectedBeforeInference(attempts[o][i].http)

\* ReleaseZTAPIDispatchedRejectedSettlement answers ErrZTAPISettlementPending
\* when the row waits for other evidence or the attempts prove nothing.
RejectionUnproven(o) ==
  \/ /\ row[o].status = "pending"
     /\ row[o].missing # "upstream_billing_unconfirmed"
  \/ row[o].status \in Held /\ ~ProvenRejected(o)

CanReleaseRejected(o) ==
  \/ row[o].status = "released"
  \/ /\ row[o].status \in Held
     /\ ~RejectionUnproven(o)
     /\ row[o].charged = 0 /\ row[o].tokenCharged = 0
     /\ ~HasIntent(o)
     /\ CanReturn(o, "upstream-rejected")

ReleaseZTAPIDispatchedRejectedSettlement(o) ==
  IF row[o].status = "released" THEN UNCHANGED db
  ELSE /\ ReturnReservation(o, "upstream-rejected")
       /\ row' = [row EXCEPT ![o].status = "released",
                             ![o].missing = "none",
                             ![o].finalAttempt = Len(attempts[o])]
       /\ UNCHANGED <<attempts, intent>>

\* saveZTAPISettlementFinalizationIntent: the intent is written once, for the
\* latest attempt; saving the same one again succeeds.
Retryable(o) ==
  /\ row[o].status = "pending"
  /\ row[o].missing = "settlement_retry_required"
  /\ row[o].usage = "known"

CanSaveIntent(o, actual, attempt) ==
  \/ /\ HasIntent(o)
     /\ row[o].status = "reserved" \/ Retryable(o)
     /\ intent[o].actual = actual /\ intent[o].attempt = attempt
  \/ /\ ~HasIntent(o)
     /\ row[o].status = "reserved"
     /\ attempt >= 1 /\ attempt = Len(attempts[o])

saveZTAPISettlementFinalizationIntent(o, actual, attempt) ==
  /\ intent' = IF HasIntent(o) THEN intent
               ELSE [intent EXCEPT ![o] = [state |-> "open", actual |-> actual,
                                           attempt |-> attempt]]
  /\ UNCHANGED <<user, token, ledger, row, attempts>>

\* finalizeZTAPIRequestSettlement with the intent's evidence.  A settled row
\* accepts the replay of what it was settled with.
Mut_UsageUnchecked(o) ==
  /\ HasIntent(o)
  /\ row[o].status = "reserved" \/ Retryable(o)
  /\ intent[o].attempt = Len(attempts[o])
  /\ CanMoveWallet(o, "settle", row[o].reserved - intent[o].actual, TRUE)
  /\ CanMoveToken(TokenDelta(row[o].tokenReserved - intent[o].actual, TRUE))

CanFinalize(o) ==
  \/ /\ row[o].status = "settled"
     /\ row[o].charged = intent[o].actual
     /\ row[o].finalAttempt = intent[o].attempt
  \/ /\ HasIntent(o)
     /\ row[o].status = "reserved" \/ Retryable(o)
     /\ intent[o].attempt = Len(attempts[o])
     /\ CanMoveWallet(o, "settle", row[o].reserved - intent[o].actual, TRUE)
     /\ CanMoveToken(TokenDelta(row[o].tokenReserved - intent[o].actual, TRUE))
     /\ user.used + intent[o].actual <= MaxQuota

\* What the API key paid in the end: its reservation less what moved back.
TokenCharged(o, moved) == row[o].tokenReserved - moved

finalizeZTAPIRequestSettlement(o) ==
  IF row[o].status = "settled" THEN UNCHANGED db
  ELSE
    LET actual == intent[o].actual
        delta == row[o].reserved - actual
        moved == TokenDelta(row[o].tokenReserved - actual, TRUE)
    IN
    /\ user' = [UserAfter(delta, TRUE) EXCEPT !.used = @ + actual]
    /\ ledger' = LedgerAfter(o, "settle", delta)
    /\ token' = TokenAfter(moved)
    /\ row' = [row EXCEPT ![o].status = "settled",
                          ![o].charged = actual,
                          ![o].tokenCharged = TokenCharged(o, moved),
                          ![o].usage = "known",
                          ![o].missing = "none",
                          ![o].finalAttempt = intent[o].attempt]
    /\ intent' = [intent EXCEPT ![o].state = "completed"]
    /\ UNCHANGED attempts
-------------------------------------------------------------------------------
(***************************************************************************)
(* The HTTP handler of a request: controller/relay.go around the session   *)
(* of service/ztapi_durable_billing.go.                                    *)
(***************************************************************************)
Fault == faults < MaxFaults /\ faults' = faults + 1

\* Run the transaction tx, which returns no error when can holds.  ok and err
\* say how the caller goes on.  The second line is a commit whose answer is
\* lost, the last one a transaction that fails and rolls back.
Call(can, tx, ok, err) ==
  \/ can /\ tx /\ ok /\ UNCHANGED faults
  \/ can /\ tx /\ err /\ Fault
  \/ ~can /\ UNCHANGED db /\ err /\ UNCHANGED faults
  \/ can /\ UNCHANGED db /\ err /\ Fault

Goto(o, pc) == session' = [session EXCEPT ![o].pc = pc]

\* The relay ends with an error: the deferred cleanup runs, twice.
Fail(o) == session' = [session EXCEPT ![o].pc = "refund", ![o].failed = TRUE]

IdleSession ==
  [pc |-> "idle", status |-> "absent", dispatched |-> FALSE, attempt |-> 0,
   blocked |-> FALSE, safety |-> FALSE, failed |-> FALSE, retried |-> FALSE, reason |-> "none"]

(***************************************************************************)
(* newZTAPIDurableBilling.  After an error the row is looked up, so a lost *)
(* commit is noticed unless the lookup fails as well: then the reservation *)
(* stays and nobody knows its operation id.                                *)
(***************************************************************************)
Begin(o, amount) ==
  /\ session[o].pc = "idle"
  /\ Call(CanBeginSettlement(o, amount),
          BeginZTAPIRequestSettlement(o, amount),
          session' = [session EXCEPT ![o].pc = "ready",
                                     ![o].status = "reserved"],
          Goto(o, "done"))
  /\ UNCHANGED <<mayBill, adjusted>>

\* BeginZTAPIBillingAttempt, just before the request goes out.
BeginAttempt(o, ch) ==
  /\ session[o].pc = "ready"
  /\ Call(CanBeginAttempt(o, ch),
          BeginZTAPIRequestAttempt(o, ch),
          /\ session' = [session EXCEPT ![o].pc = "sent",
                                        ![o].dispatched = TRUE,
                                        ![o].attempt = Len(attempts[o]) + 1]
          /\ mayBill' = [mayBill EXCEPT ![o] = @ \cup {Len(attempts[o]) + 1}],
          Fail(o) /\ UNCHANGED mayBill)
  /\ UNCHANGED adjusted

\* No channel is left, or the request fails before it is sent.
GiveUp(o) ==
  /\ session[o].pc = "ready"
  /\ Fail(o)
  /\ UNCHANGED <<db, mayBill, faults, adjusted>>

\* shouldRetry: another channel may be tried.
ztapiRetryableError(o, status) ==
  /\ session[o].attempt < MaxAttempts
  /\ status \in {401, 402, 429} \cup 500..599

\* The upstream connection fails: no status is ever recorded.
TransportError(o) ==
  /\ session[o].pc = "sent"
  /\ \/ session[o].attempt < MaxAttempts /\ Goto(o, "ready")
     \/ Fail(o)
  /\ UNCHANGED <<db, mayBill, faults, adjusted>>

\* What the supplier may have run a model for once it has answered attempt i
\* (external).  A content-safety block may come after the run, whatever its
\* status: the supplier may bill it.
MaybeRun(o, i, status, block) ==
  IF status \in RejectionStatuses /\ ~block
    THEN [mayBill EXCEPT ![o] = @ \ {i}]
    ELSE mayBill

Mut_BlockUnseen(o, block, safety) ==
  session' = [session EXCEPT ![o].pc = "refund", ![o].failed = TRUE,
                             ![o].blocked = block]

\* The request fails on the answer.  safety says whether the relay saw that it
\* is a content-safety block.
FailAnswered(o, block, safety) ==
  session' = [session EXCEPT ![o].pc = "refund", ![o].failed = TRUE,
                             ![o].blocked = block, ![o].safety = safety]

\* ObserveZTAPIBillingResponse, and what the relay makes of the answer: it is
\* consumed, retried on another channel, or the request fails - at once when
\* it is a content-safety block.  An answer whose status could not be recorded
\* is closed unread.
Respond(o, status, block) ==
  /\ session[o].pc = "sent"
  /\ mayBill' = MaybeRun(o, session[o].attempt, status, block)
  /\ Call(TRUE,
          RecordZTAPIRequestAttemptResponse(o, session[o].attempt, status),
          \/ ~block /\ status \in 200..299 /\ Goto(o, "answered")
          \/ ~block /\ status \notin 200..299 /\ ztapiRetryableError(o, status)
             /\ Goto(o, "ready")
          \/ FailAnswered(o, block, block),
          FailAnswered(o, block, FALSE))
  /\ UNCHANGED adjusted

(***************************************************************************)
(* postZTAPIDurableTextQuota, for an answer that was relayed.              *)
(***************************************************************************)
Park(o, reason) ==
  session' = [session EXCEPT ![o].pc = "park", ![o].reason = reason]

\* The usage does not price the request, or the attempts' evidence disagrees
\* with what was recorded: the row is parked for review.
UsageIncomplete(o) ==
  /\ session[o].pc = "answered"
  /\ \E reason \in {"dimensions_missing", "attempt_evidence_conflict"} :
       Park(o, reason)
  /\ UNCHANGED <<db, mayBill, faults, adjusted>>

\* FinalizeZTAPIRequestSettlementWithEvidence: first the durable intent ...
SaveIntent(o, actual) ==
  /\ session[o].pc = "answered"
  /\ Call(CanSaveIntent(o, actual, session[o].attempt),
          saveZTAPISettlementFinalizationIntent(o, actual, session[o].attempt),
          Goto(o, "finalize"),
          Park(o, "settlement_retry_required"))
  /\ UNCHANGED <<mayBill, adjusted>>

\* ... then the money.
Finalize(o) ==
  /\ session[o].pc = "finalize"
  /\ Call(CanFinalize(o),
          finalizeZTAPIRequestSettlement(o),
          session' = [session EXCEPT ![o].pc = "refund",
                                     ![o].status = "settled"],
          Park(o, "settlement_retry_required"))
  /\ UNCHANGED <<mayBill, adjusted>>

ParkRow(o) ==
  /\ session[o].pc = "park"
  /\ Call(CanPend(o, "known", session[o].reason),
          PendZTAPIRequestSettlement(o, "known", session[o].reason),
          session' = [session EXCEPT ![o].pc = "refund",
                                     ![o].status = "pending"],
          Goto(o, "refund"))
  /\ UNCHANGED <<mayBill, adjusted>>

(***************************************************************************)
(* Refund, from the deferred cleanup: FinishZTAPIBilling, and once more    *)
(* when the relay failed.  It decides on the session's copy of the row.    *)
(***************************************************************************)
Ended(o, status) ==
  LET again == status = "reserved" /\ session[o].failed /\ ~session[o].retried
  IN session' = [session EXCEPT ![o].pc = IF again THEN "refund" ELSE "done",
                                ![o].status = status,
                                ![o].retried = again \/ @]

RefundNothing(o) ==
  /\ session[o].pc = "refund"
  /\ session[o].status # "reserved"
  /\ Ended(o, session[o].status)
  /\ UNCHANGED <<db, mayBill, faults, adjusted>>

RefundUndispatched(o) ==
  /\ session[o].pc = "refund"
  /\ session[o].status = "reserved"
  /\ ~session[o].dispatched
  /\ Call(CanRelease(o), ReleaseZTAPIRequestSettlement(o),
          Ended(o, "released"), Ended(o, "reserved"))
  /\ UNCHANGED <<mayBill, adjusted>>

\* A failure to mark the safety outcome is only logged.
RefundSafety(o) ==
  /\ session[o].pc = "refund"
  /\ session[o].status = "reserved"
  /\ session[o].dispatched /\ session[o].safety
  /\ Call(TRUE, MarkZTAPIRequestSafetyOutcome(o),
          Goto(o, "pend"), Goto(o, "pend"))
  /\ UNCHANGED <<mayBill, adjusted>>

Mut_UnprovenKept(o) ==
  /\ session[o].pc = "refund"
  /\ session[o].status = "reserved"
  /\ session[o].dispatched /\ ~session[o].safety
  /\ Call(CanReleaseRejected(o), ReleaseZTAPIDispatchedRejectedSettlement(o),
          Ended(o, "released"), Ended(o, "reserved"))
  /\ UNCHANGED <<mayBill, adjusted>>

RefundDispatched(o) ==
  /\ session[o].pc = "refund"
  /\ session[o].status = "reserved"
  /\ session[o].dispatched /\ ~session[o].safety
  /\ \/ /\ RejectionUnproven(o)
        /\ UNCHANGED db
        /\ \/ Goto(o, "pend") /\ UNCHANGED faults
           \/ Ended(o, "reserved") /\ Fault
     \/ /\ ~RejectionUnproven(o)
        /\ Call(CanReleaseRejected(o),
                ReleaseZTAPIDispatchedRejectedSettlement(o),
                Ended(o, "released"), Ended(o, "reserved"))
  /\ UNCHANGED <<mayBill, adjusted>>

RefundPend(o) ==
  /\ session[o].pc = "pend"
  /\ Call(CanPend(o, "none", "upstream_billing_unconfirmed"),
          PendZTAPIRequestSettlement(o, "none", "upstream_billing_unconfirmed"),
          Ended(o, "pending"), Ended(o, "reserved"))
  /\ UNCHANGED <<mayBill, adjusted>>

\* The process dies; its session is gone, the rows stay as they are.
Crash(o) ==
  /\ session[o].pc \notin {"idle", "done", "crashed"}
  /\ Goto(o, "crashed")
  /\ Fault
  /\ UNCHANGED <<db, mayBill, adjusted>>
-------------------------------------------------------------------------------
(***************************************************************************)
(* The maintenance worker (service/billing_refund_task.go) and the finance *)
(* operator.  A failed transaction of theirs changes nothing and is tried  *)
(* again on the next tick, so it is a step not taken.                      *)
(***************************************************************************)

\* RetryZTAPISettlementFinalizations: the intent of a released row is closed,
\* any other one is applied.
RetryFinalization(o) ==
  /\ intent[o].state = "open"
  /\ IF row[o].status = "released"
       THEN /\ intent' = [intent EXCEPT ![o].state = "completed"]
            /\ UNCHANGED <<user, token, ledger, row, attempts>>
       ELSE CanFinalize(o) /\ finalizeZTAPIRequestSettlement(o)
  /\ UNCHANGED <<session, mayBill, faults, adjusted>>

\* ReleaseZTAPIRejectedDispatchedHolds, for one of the rows it visits.
SweepRejectedHold(o) ==
  /\ row[o].status = "pending"
  /\ row[o].missing = "upstream_billing_unconfirmed"
  /\ CanReleaseRejected(o)
  /\ ReleaseZTAPIDispatchedRejectedSettlement(o)
  /\ UNCHANGED <<session, mayBill, faults, adjusted>>

\* resolveZTAPIPendingNoCharge: an operator's proof, one line for each
\* attempt, that the supplier did not bill.
CanResolve(o) ==
  /\ row[o].status = "pending"
  /\ ~HasIntent(o)
  /\ attempts[o] # <<>>
  /\ CanReturn(o, "no-charge")

ResolvePendingNoCharge(o) ==
  /\ CanResolve(o)
  /\ ReturnReservation(o, "no-charge")
  /\ row' = [row EXCEPT ![o].status = "released"]
  /\ UNCHANGED <<attempts, intent, session, mayBill, faults, adjusted>>

(***************************************************************************)
(* Administrative changes of the same user row.                            *)
(***************************************************************************)
AdjustUserBalance(delta) ==
  /\ adjusted.count < MaxEdits
  /\ ~user.deleted
  /\ delta # 0
  /\ checkedBalanceLedgerSum(user.quota, delta)
  /\ user' = balanceLedgerUserUpdates(user, user.quota + delta, FALSE)
  /\ adjusted' = [count |-> adjusted.count + 1, total |-> adjusted.total + delta]
  /\ UNCHANGED <<token, ledger, row, attempts, intent, session, mayBill, faults>>

UpdateZTAPIUserStatus(next) ==
  /\ adjusted.count < MaxEdits
  /\ ~user.deleted
  /\ next = "enabled" => user.quota >= 0
  /\ user' = [user EXCEPT !.status = next, !.debtSuspended = FALSE]
  /\ adjusted' = [adjusted EXCEPT !.count = @ + 1]
  /\ UNCHANGED <<token, ledger, row, attempts, intent, session, mayBill, faults>>

DeleteUser ==
  /\ adjusted.count < MaxEdits
  /\ ~user.deleted
  /\ user' = [user EXCEPT !.deleted = TRUE]
  /\ adjusted' = [adjusted EXCEPT !.count = @ + 1]
  /\ UNCHANGED <<token, ledger, row, attempts, intent, session, mayBill, faults>>
-------------------------------------------------------------------------------
Init ==
  /\ user = [quota |-> InitialQuota, used |-> 0, status |-> "enabled",
             debtSuspended |-> FALSE, deleted |-> FALSE]
  /\ token = [remain |-> InitialTokenQuota, used |-> 0, status |-> "enabled"]
  /\ ledger = [o \in Ops |-> [k \in LedgerKeys |-> 0]]
  /\ row = [o \in Ops |-> AbsentRow]
  /\ attempts = [o \in Ops |-> <<>>]
  /\ intent = [o \in Ops |-> [state |-> "none", actual |-> 0, attempt |-> 0]]
  /\ session = [o \in Ops |-> IdleSession]
  /\ mayBill = [o \in Ops |-> {}]
  /\ faults = 0
  /\ adjusted = [count |-> 0, total |-> 0]

Handler(o) ==
  \/ \E amount \in Amounts : Begin(o, amount)
  \/ \E ch \in Channels : BeginAttempt(o, ch)
  \/ GiveUp(o)
  \/ TransportError(o)
  \/ \E status \in Statuses, block \in BOOLEAN : Respond(o, status, block)
  \/ UsageIncomplete(o)
  \/ \E actual \in Amounts : SaveIntent(o, actual)
  \/ Finalize(o)
  \/ ParkRow(o)
  \/ RefundNothing(o)
  \/ RefundUndispatched(o)
  \/ RefundSafety(o)
  \/ RefundDispatched(o)
  \/ RefundPend(o)
  \/ Crash(o)

Worker(o) == RetryFinalization(o) \/ SweepRejectedHold(o)

Operator(o) == ResolvePendingNoCharge(o)

Admin ==
  \/ \E amount \in Amounts : AdjustUserBalance(amount) \/ AdjustUserBalance(-amount)
  \/ \E next \in {"enabled", "disabled"} : UpdateZTAPIUserStatus(next)
  \/ DeleteUser

Next == (\E o \in Ops : Handler(o) \/ Worker(o) \/ Operator(o)) \/ Admin

Spec == Init /\ [][Next]_vars

\* The worker's ticker runs for as long as a process of the service does.
Fairness == \A o \in Ops : WF_vars(RetryFinalization(o))

FairSpec == Spec /\ Fairness
-------------------------------------------------------------------------------
(***************************************************************************)
(* Properties.                                                             *)
(***************************************************************************)

\* What the ledger rows of a request took from the wallet.
NetDebit(o) == -(ledger[o]["begin"] + ledger[o]["settle"] + ledger[o]["release"]
                 + ledger[o]["upstream-rejected"] + ledger[o]["no-charge"])

\* What a request's row says the wallet has paid for it.
Owed(r) == CASE r.status \in Held -> r.reserved
             [] r.status = "settled" -> r.charged
             [] OTHER -> 0

\* The ledger and the settlement rows tell the same story, whatever handler,
\* worker and operator did in between and however often each of them retried:
\* a held request has cost the customer its reservation, a settled one exactly
\* its charge, a released one nothing.  A double release or a release of a
\* settled request shows here.
HoldAccounting == \A o \in Ops : NetDebit(o) = Owed(row[o])

\* The API key's remaining and used quota always add up to its limit.
TokenConservation == token.remain + token.used = InitialTokenQuota

\* The wallet balance is the opening balance, plus the administrative
\* adjustments, minus what the requests hold or were charged; the lifetime
\* usage is the sum of the charges.  Nothing is lost or created between
\* requests that share one wallet.
WalletConservation ==
  /\ user.quota = InitialQuota + adjusted.total
                  - SumFunction([o \in Ops |-> Owed(row[o])])
  /\ user.used = SumFunction([o \in Ops |-> row[o].charged])

\* What the row says the API key has paid for the request.
TokenOwed(r) == CASE r.status \in Held -> r.tokenReserved
                  [] r.status = "settled" -> r.tokenCharged
                  [] OTHER -> 0

\* The key's used quota is what its requests hold or were charged, never more
\* than the wallet paid for them, also when a charge passes the key's limit.
TokenAccounting ==
  /\ token.used = SumFunction([o \in Ops |-> TokenOwed(row[o])])
  /\ \A o \in Ops : TokenOwed(row[o]) <= Owed(row[o])

\* No fault, retry, sweep, review or edit loses or creates money, of the wallet
\* or of the API key.
MoneyConserved == WalletConservation /\ TokenAccounting /\ TokenConservation

\* A step returns the reservation without an operator's decision: as one that
\* was never dispatched, or as one the supplier rejected.
ReturnedUnasked(o) ==
  \/ ledger'[o]["release"] # ledger[o]["release"]
  \/ ledger'[o]["upstream-rejected"] # ledger[o]["upstream-rejected"]

\* No automatic step returns the reservation of a request the supplier may have
\* run a model for: what the supplier did, not what the handler happened to
\* record.  The one way around it is a fault in the cleanup of a content-safety
\* block that keeps its attempt from being marked (settlement_safety_mark_lost);
\* while nothing fails, blocks are kept as well.
MaybeBilledNeverAutoReleased ==
  [][\A o \in Ops : ReturnedUnasked(o) =>
       \/ mayBill[o] = {}
       \/ /\ faults > 0
          /\ mayBill[o] = {session[o].attempt} /\ session[o].blocked
          /\ ~attempts[o][session[o].attempt].safety]_vars

\* From the moment an attempt carries the content-safety mark, no automatic
\* path returns the hold: SafetyOutcome of model/ztapi_request_attempt.go.
SafetyMarkHolds ==
  [][\A o \in Ops : (\E i \in 1..Len(attempts[o]) : attempts[o][i].safety) =>
       ledger'[o]["upstream-rejected"] = ledger[o]["upstream-rejected"]]_vars

\* The stronger promise of controller/relay.go, "its billing hold is never
\* auto-released": the request ended as a safety outcome, marked or not.
SafetyOutcomeHolds ==
  \A o \in Ops : session[o].safety => ledger[o]["upstream-rejected"] = 0

\* A saved intent is never stranded.  Until it is applied, its row is one the
\* worker can finalize: cleanup cannot park it under a reason that blocks the
\* retry, nor can a release overtake it.  Afterwards the row carries exactly
\* the intent's charge, and no row is settled in any other way.
IntentNeverStranded ==
  \A o \in Ops :
    /\ intent[o].state = "open" => row[o].status = "reserved" \/ Retryable(o)
    /\ intent[o].state = "completed" <=> row[o].status = "settled"
    /\ row[o].status = "settled" => row[o].charged = intent[o].actual

\* A user in debt never keeps an enabled account, and a debt suspension ends
\* with the debt.
DebtSuspends ==
  /\ user.status = "enabled" /\ ~user.deleted => user.quota >= 0
  /\ user.debtSuspended => user.quota < 0

\* FinishZTAPIBilling "hands unfinished dispatched holds to the durable
\* queue": when the handler of a dispatched request is through with it, the
\* row is not left reserved, where no worker looks for it - unless an intent
\* owns it.
FinishedRequestHandedOver ==
  \A o \in Ops : session[o].pc = "done" /\ row[o].dispatched =>
    row[o].status # "reserved" \/ HasIntent(o)

\* A handler that is done without a fault leaves no undispatched hold either.
FinishedRequestReleased ==
  \A o \in Ops : session[o].pc = "done" /\ ~row[o].dispatched =>
    row[o].status \in {"absent", "released"}

\* Settled and released are final: no later cleanup, retry, sweep or review
\* changes the row or writes another ledger row for it.
TerminalRowsFinal ==
  [][\A o \in Ops : row[o].status \in {"settled", "released"} =>
       row'[o] = row[o] /\ ledger'[o] = ledger[o]]_vars

\* Only an administrator undoes an administrative disable: no credit, release
\* or settlement enables a user whose suspension is not a debt suspension.
AdminDisableSticks ==
  [][user.status = "disabled" /\ ~user.debtSuspended /\ user'.status = "enabled"
       => adjusted'.count > adjusted.count]_vars

\* A saved intent is eventually charged, whatever became of its handler.
IntentEventuallySettled ==
  \A o \in Ops : intent[o].state = "open" ~> row[o].status = "settled"

\* Each request's money moves as HoldLifecycle promises: the settlement rows
\* and the ledger implement it, whatever faults and retries there are.
Phase(status) == CASE status = "absent" -> "none"
                   [] status \in Held -> "held"
                   [] status = "settled" -> "charged"
                   [] status = "released" -> "returned"

Hold == INSTANCE HoldLifecycle WITH phase <- [o \in Ops |-> Phase(row[o].status)],
                                    paid <- [o \in Ops |-> NetDebit(o)]

HoldRefinement == Hold!HoldSpec
===============================================================================
