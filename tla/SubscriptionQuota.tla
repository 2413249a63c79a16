-------------------------- MODULE SubscriptionQuota --------------------------
(***************************************************************************)
(* The quota of a user's subscriptions (model/subscription.go) as relay    *)
(* requests use it (SubscriptionFunding of service/funding_source.go):     *)
(* pre-consumption under a request id, settlement of the difference,       *)
(* refund with up to three tries, and next to them the periodic reset, the *)
(* end or deletion of a subscription, and the cleanup of old records.      *)
(*                                                                         *)
(* Every transaction reads subscription rows, computes, and saves whole    *)
(* rows.  The reads ask for row locks through Set("gorm:query_option",     *)
(* "FOR UPDATE"), which GORM 2, the version in use, ignores: on MySQL a    *)
(* transaction computes from the snapshot of its first read, and its save  *)
(* replaces what others have committed since, the use, the status and the  *)
(* reset time of a row alike (Save even inserts a row again that has been  *)
(* deleted).  overwritten says that a save has lost another's use.         *)
(***************************************************************************)
EXTENDS Integers, FiniteSets, Functions

CONSTANTS QuotaRequests,    \* relay requests paid from a subscription
          RequestId(_),     \* the id of a request: middleware/request-id.go takes the client's
          Subs,             \* 1..n: the user's subscriptions by end time
          Total,            \* AmountTotal of each, 0 for no limit
          Estimate,         \* the quota a request pre-consumes
          Usages,           \* the quotas a request may really use
          MaxTries,         \* refundWithRetry: 3 in the code
          MaxResets,        \* bound: reset periods that begin
          MaxEnded,         \* bound: subscriptions that are not active
          MaxQuotaFaults    \* bound: failed calls and crashes

SubscriptionAssumption ==
  /\ IsFiniteSet(QuotaRequests) /\ IsFiniteSet(Subs) /\ Subs = 1..Cardinality(Subs)
  /\ Total \in [Subs -> Nat]
  /\ Estimate \in Nat \ {0} /\ Usages \subseteq Nat
  /\ MaxTries \in Nat \ {0} /\ MaxResets \in Nat /\ MaxEnded \in Nat /\ MaxQuotaFaults \in Nat

VARIABLES sub,          \* user_subscriptions
          begun,        \* the periods of each that have begun
          resets,       \* bound: the periods begun in all
          record,       \* subscription_pre_consume_records, by request id
          req,          \* the requests' sessions
          snap,         \* what a request's open transaction has read
          resetting,    \* the row the reset job has read
          charged,      \* history: what each request has been charged
          overwritten,  \* history: a save has replaced a use it had not read
          quotaFaults

quotaVars == <<sub, begun, resets, record, req, snap, resetting, charged, overwritten,
               quotaFaults>>

RequestIds == {RequestId(r) : r \in QuotaRequests}

\* period is the period next_reset_time ends.
QuotaRowType == [used : Nat, period : Nat,
                 status : {"active", "ended", "deleted"}]
NewSubscription == [used |-> 0, period |-> 0, status |-> "active"]
RecordType == [status : {"none", "consumed", "refunded"}, sub : Subs \cup {0}, amount : Nat]
NoRecord == [status |-> "none", sub |-> 0, amount |-> 0]
QuotaPCs == {"start", "preconsume", "rejected", "open", "settle", "settled", "settleFailed",
             "refund", "refundDelta", "refundPost", "refundMark", "refunded",
             "refundFailed", "lost"}
Ended == {"rejected", "settled", "settleFailed", "refunded", "refundFailed", "lost"}
RequestType == [pc : QuotaPCs, sub : Subs \cup {0}, taken : Nat, actual : Nat,
                tries : 0..MaxTries]
NewRequest == [pc |-> "start", sub |-> 0, taken |-> 0, actual |-> 0, tries |-> 0]
NoSnap == <<>>
SnapType == [rows : [Subs -> QuotaRowType], begun : [Subs -> Nat], record : RecordType]

\* Types; a limited subscription never shows more use than its total.
SubscriptionTypeOK ==
  /\ sub \in [Subs -> QuotaRowType]
  /\ \A i \in Subs : Total[i] > 0 => sub[i].used <= Total[i]
  /\ begun \in [Subs -> Nat] /\ resets \in 0..MaxResets
  /\ record \in [RequestIds -> RecordType]
  /\ req \in [QuotaRequests -> RequestType]
  /\ snap \in [QuotaRequests -> SnapType \cup {NoSnap}]
  /\ resetting \in [sub : Subs, row : QuotaRowType, begun : Nat] \cup {NoSnap}
  /\ charged \in [QuotaRequests -> Int] /\ overwritten \in BOOLEAN
  /\ quotaFaults \in 0..MaxQuotaFaults

QuotaInit ==
  /\ sub = [i \in Subs |-> NewSubscription]
  /\ begun = [i \in Subs |-> 0] /\ resets = 0
  /\ record = [id \in RequestIds |-> NoRecord]
  /\ req = [r \in QuotaRequests |-> NewRequest]
  /\ snap = [r \in QuotaRequests |-> NoSnap] /\ resetting = NoSnap
  /\ charged = [r \in QuotaRequests |-> 0] /\ overwritten = FALSE
  /\ quotaFaults = 0
-------------------------------------------------------------------------------
NoQuotaFault == UNCHANGED quotaFaults
QuotaFault == quotaFaults < MaxQuotaFaults /\ quotaFaults' = quotaFaults + 1

ReqSet(r, state) == req' = [req EXCEPT ![r] = state]
ReqTo(r, pc) == ReqSet(r, [req[r] EXCEPT !.pc = pc])
MyRecord(r) == record[RequestId(r)]

\* The transaction of r reads all rows or one, and computes what it writes from
\* that.  What it does not read is blank.
Read(r) ==
  snap' = [snap EXCEPT ![r] = [rows |-> sub, begun |-> begun, record |-> MyRecord(r)]]
ReadRow(r, i) ==
  LET rows == [j \in Subs |-> IF j = i THEN sub[i] ELSE NewSubscription]
  IN snap' = [snap EXCEPT ![r] = [rows |-> rows, begun |-> [j \in Subs |-> 0],
                                  record |-> NoRecord]]
Close(r) == snap' = [snap EXCEPT ![r] = NoSnap]
Seen(r) == snap[r].rows

\* Saving a row that was read as seen loses what has been used or returned since.
Loses(seen, i) == seen.used # sub[i].used

(***************************************************************************)
(* maybeResetUserSubscriptionWithPlanTx: a row of an older period than the *)
(* latest that has begun is emptied.                                       *)
(***************************************************************************)
\* Mut_* definitions are deliberate misreadings used to test properties.
IsDue(row, latest) == row.period < latest

Refreshed(row, latest) ==
  IF IsDue(row, latest) THEN [row EXCEPT !.used = 0, !.period = latest] ELSE row

(***************************************************************************)
(* PreConsumeUserSubscription: an id that has a record is not charged      *)
(* again; otherwise the first active subscription with room is, and the    *)
(* ones before it that are due are reset on the way.                       *)
(***************************************************************************)
Fresh(r, i) == Refreshed(Seen(r)[i], snap[r].begun[i])

HasRoom(row, i) == Total[i] = 0 \/ Total[i] - row.used >= Estimate

Candidate(r, i) == Seen(r)[i].status = "active" /\ HasRoom(Fresh(r, i), i)

BeginPreConsume(r) ==
  /\ req[r].pc = "start"
  /\ Read(r)
  /\ ReqTo(r, "preconsume")
  /\ UNCHANGED <<sub, begun, resets, record, resetting, charged, overwritten, quotaFaults>>

ConsumeFrom(r, i) ==
  LET passed == {j \in Subs : /\ j < i /\ Seen(r)[j].status = "active"
                              /\ IsDue(Seen(r)[j], snap[r].begun[j])}
  IN /\ sub' = [j \in Subs |-> IF j = i THEN [Fresh(r, i) EXCEPT !.used = @ + Estimate]
                               ELSE IF j \in passed THEN Fresh(r, j)
                               ELSE sub[j]]
     /\ record' = [record EXCEPT ![RequestId(r)] =
                     [status |-> "consumed", sub |-> i, amount |-> Estimate]]
     /\ charged' = [charged EXCEPT ![r] = @ + Estimate]
     /\ overwritten' = (overwritten \/ \E j \in passed \cup {i} : Loses(Seen(r)[j], j))

\* A record that another transaction has inserted since fails the insertion.
CommitPreConsume(r) ==
  /\ req[r].pc = "preconsume"
  /\ LET known == snap[r].record
         room == {i \in Subs : Candidate(r, i)}
         opened(i, amount) == [req[r] EXCEPT !.pc = "open", !.sub = i, !.taken = amount]
         unchanged == UNCHANGED <<sub, record, charged, overwritten>>
         gone == known.sub # 0 /\ Seen(r)[known.sub].status = "deleted"
     IN \/ /\ known.status = "refunded" \/ gone
           /\ ReqTo(r, "rejected") /\ unchanged /\ NoQuotaFault
        \/ /\ known.status = "consumed" /\ ~gone
           /\ ReqSet(r, opened(known.sub, known.amount)) /\ unchanged /\ NoQuotaFault
        \/ /\ known.status = "none" /\ (room = {} \/ MyRecord(r).status # "none")
           /\ ReqTo(r, "rejected") /\ unchanged /\ NoQuotaFault
        \/ /\ known.status = "none" /\ room # {} /\ MyRecord(r).status = "none"
           /\ LET i == CHOOSE i \in room : \A j \in room : i <= j
              IN ConsumeFrom(r, i) /\ (\/ ReqSet(r, opened(i, Estimate)) /\ NoQuotaFault
                                       \/ ReqTo(r, "rejected") /\ QuotaFault)
        \/ /\ ReqTo(r, "rejected") /\ unchanged /\ QuotaFault
  /\ Close(r)
  /\ UNCHANGED <<begun, resets, resetting>>
-------------------------------------------------------------------------------
(***************************************************************************)
(* PostConsumeUserSubscriptionDelta: not below zero, not above the total.  *)
(***************************************************************************)
Mut_RefundDropped(subRow, delta) == IF delta < 0 THEN subRow.used ELSE subRow.used + delta

NewUsed(subRow, delta) == IF subRow.used + delta < 0 THEN 0 ELSE subRow.used + delta

CanPost(subRow, i, delta) ==
  /\ subRow.status # "deleted"
  /\ Total[i] > 0 => NewUsed(subRow, delta) <= Total[i]

Post(r, i, delta) ==
  /\ sub' = [sub EXCEPT ![i] = [Seen(r)[i] EXCEPT !.used = NewUsed(Seen(r)[i], delta)]]
  /\ charged' = [charged EXCEPT ![r] = @ + delta]
  /\ overwritten' = (overwritten \/ Loses(Seen(r)[i], i))

\* One call of it by r: done, refused, failed, or done and reported as failed.
PostCall(r, i, delta, onSuccess, onError) ==
  /\ \/ /\ CanPost(Seen(r)[i], i, delta)
        /\ Post(r, i, delta)
        /\ \/ ReqSet(r, onSuccess) /\ NoQuotaFault
           \/ ReqSet(r, onError) /\ QuotaFault
     \/ /\ UNCHANGED <<sub, charged, overwritten>>
        /\ ReqSet(r, onError)
        /\ \/ ~CanPost(Seen(r)[i], i, delta) /\ NoQuotaFault
           \/ QuotaFault
  /\ Close(r)
  /\ UNCHANGED <<begun, resets, record, resetting>>

(***************************************************************************)
(* Settle: the difference between the usage and what was pre-consumed.     *)
(***************************************************************************)
Settle(r) ==
  /\ req[r].pc = "open"
  /\ \E actual \in Usages :
       \/ /\ actual = req[r].taken /\ UNCHANGED snap
          /\ ReqSet(r, [req[r] EXCEPT !.actual = actual, !.pc = "settled"])
       \/ /\ actual # req[r].taken /\ ReadRow(r, req[r].sub)
          /\ ReqSet(r, [req[r] EXCEPT !.actual = actual, !.pc = "settle"])
  /\ UNCHANGED <<sub, begun, resets, record, resetting, charged, overwritten, quotaFaults>>

SettleDelta(r) == req[r].actual - req[r].taken

CommitSettle(r) ==
  /\ req[r].pc = "settle"
  /\ PostCall(r, req[r].sub, SettleDelta(r),
              [req[r] EXCEPT !.pc = "settled"], [req[r] EXCEPT !.pc = "settleFailed"])

(***************************************************************************)
(* RefundSubscriptionPreConsume under refundWithRetry.  The record is read *)
(* in one transaction; the quota is returned in a transaction of its own;  *)
(* the record is marked, and the first transaction committed, after that.  *)
(***************************************************************************)
RefundFailure(r) ==
  [req[r] EXCEPT !.tries = @ + 1,
                 !.pc = IF req[r].tries + 1 < MaxTries THEN "refund" ELSE "refundFailed"]

Refund(r) ==
  /\ req[r].pc = "open"
  /\ ReqTo(r, "refund")
  /\ UNCHANGED <<sub, begun, resets, record, snap, resetting, charged, overwritten,
                 quotaFaults>>

RefundRead(r) ==
  /\ req[r].pc = "refund"
  /\ \/ MyRecord(r).status = "refunded" /\ ReqTo(r, "refunded") /\ NoQuotaFault
     \/ MyRecord(r).status = "consumed" /\ ReqTo(r, "refundDelta") /\ NoQuotaFault
     \/ ReqSet(r, RefundFailure(r)) /\ QuotaFault
  /\ UNCHANGED <<sub, begun, resets, record, snap, resetting, charged, overwritten>>

RefundDelta(r) ==
  /\ req[r].pc = "refundDelta"
  /\ ReqTo(r, "refundPost") /\ ReadRow(r, MyRecord(r).sub)
  /\ UNCHANGED <<sub, begun, resets, record, resetting, charged, overwritten, quotaFaults>>

CommitRefundDelta(r) ==
  /\ req[r].pc = "refundPost"
  /\ PostCall(r, MyRecord(r).sub, -MyRecord(r).amount,
              [req[r] EXCEPT !.pc = "refundMark"], RefundFailure(r))

RefundMark(r) ==
  /\ req[r].pc = "refundMark"
  /\ \/ /\ record' = [record EXCEPT ![RequestId(r)].status = "refunded"]
        /\ \/ ReqTo(r, "refunded") /\ NoQuotaFault
           \/ ReqSet(r, RefundFailure(r)) /\ QuotaFault
     \/ UNCHANGED record /\ ReqSet(r, RefundFailure(r)) /\ QuotaFault
  /\ UNCHANGED <<sub, begun, resets, snap, resetting, charged, overwritten>>
-------------------------------------------------------------------------------
(***************************************************************************)
(* The other writers of the rows.                                          *)
(***************************************************************************)
\* Time passes the next_reset_time of a subscription.
PeriodBegins(i) ==
  /\ resets < MaxResets
  /\ begun' = [begun EXCEPT ![i] = @ + 1] /\ resets' = resets + 1
  /\ UNCHANGED <<sub, record, req, snap, resetting, charged, overwritten, quotaFaults>>

\* ResetDueSubscriptions: its transaction reads a row that is due, and saves it.
ResetDueSubscriptions(i) ==
  /\ resetting = NoSnap /\ sub[i].status = "active" /\ IsDue(sub[i], begun[i])
  /\ resetting' = [sub |-> i, row |-> sub[i], begun |-> begun[i]]
  /\ UNCHANGED <<sub, begun, resets, record, req, snap, charged, overwritten, quotaFaults>>

CommitReset ==
  /\ resetting # NoSnap
  /\ sub' = [sub EXCEPT ![resetting.sub] = Refreshed(resetting.row, resetting.begun)]
  /\ overwritten' = (overwritten \/ Loses(resetting.row, resetting.sub))
  /\ resetting' = NoSnap
  /\ UNCHANGED <<begun, resets, record, req, snap, charged, quotaFaults>>

\* ExpireDueSubscriptions and AdminInvalidateUserSubscription end a
\* subscription, AdminDeleteUserSubscription removes it.
EndSubscription(i) ==
  /\ Cardinality({j \in Subs : sub[j].status # "active"} \cup {i}) <= MaxEnded
  /\ \/ sub[i].status = "active" /\ sub' = [sub EXCEPT ![i].status = "ended"]
     \/ sub[i].status # "deleted" /\ sub' = [sub EXCEPT ![i].status = "deleted"]
  /\ UNCHANGED <<begun, resets, record, req, snap, resetting, charged, overwritten,
                 quotaFaults>>

\* CleanupSubscriptionPreConsumeRecords: records a week old, whose requests
\* ended long ago.
Cleanup(id) ==
  /\ record[id].status # "none"
  /\ \A r \in QuotaRequests : RequestId(r) = id => req[r].pc \in Ended \cup {"start"}
  /\ record' = [record EXCEPT ![id] = NoRecord]
  /\ UNCHANGED <<sub, begun, resets, req, snap, resetting, charged, overwritten, quotaFaults>>

\* The process that runs the request stops.
QuotaCrash(r) ==
  /\ req[r].pc \notin Ended \cup {"start"}
  /\ ReqTo(r, "lost") /\ Close(r) /\ QuotaFault
  /\ UNCHANGED <<sub, begun, resets, record, resetting, charged, overwritten>>

QuotaNext ==
  \/ \E r \in QuotaRequests :
       \/ BeginPreConsume(r) \/ CommitPreConsume(r)
       \/ Settle(r) \/ CommitSettle(r)
       \/ Refund(r) \/ RefundRead(r) \/ RefundDelta(r) \/ CommitRefundDelta(r)
       \/ RefundMark(r) \/ QuotaCrash(r)
  \/ \E i \in Subs : PeriodBegins(i) \/ ResetDueSubscriptions(i) \/ EndSubscription(i)
  \/ CommitReset
  \/ \E id \in RequestIds : Cleanup(id)

QuotaSpec == QuotaInit /\ [][QuotaNext]_quotaVars
-------------------------------------------------------------------------------
\* What the subscriptions show as used is what their requests were charged,
\* while no period has ended: PostConsumeUserSubscriptionDelta says to "update
\* subscription used amount by delta", and concurrent pre-consumptions,
\* settlements and refunds would lose nothing of each other.
UsedIsSum ==
  resets = 0 => SumFunction([i \in Subs |-> sub[i].used]) = SumFunction(charged)

\* "RefundSubscriptionPreConsume is idempotent": no number of tries returns
\* more than was consumed.
RefundIdempotent == \A r \in QuotaRequests : charged[r] >= 0

\* A request is charged what its session reports: its usage when settled and
\* nothing when refunded or, but for an answer that was lost, refused.  A
\* settlement that failed leaves the pre-consumption.
ReportedChargeHolds ==
  \A r \in QuotaRequests :
    /\ req[r].pc = "settled" => charged[r] = req[r].actual
    /\ req[r].pc = "refunded" => charged[r] = 0
    /\ quotaFaults = 0 /\ req[r].pc = "rejected" => charged[r] = 0
    /\ quotaFaults = 0 /\ req[r].pc = "settleFailed" => charged[r] = req[r].taken

DistinctIds == \A r, o \in QuotaRequests : RequestId(r) = RequestId(o) => r = o

\* With ids no client repeats, a refund returns what was consumed once unless
\* a call fails between its two commits, however requests, resets and ends of
\* subscriptions interleave; where it does, every request is charged what it
\* reports, and unless a save replaced a use it had not read the subscriptions
\* show exactly what their requests were charged.  So those two are the only
\* ways in which PreConsumeUserSubscription, PostConsumeUserSubscriptionDelta
\* and RefundSubscriptionPreConsume (model/subscription.go) lose account.
QuotaAccounted ==
  DistinctIds =>
    /\ quotaFaults = 0 => RefundIdempotent
    /\ RefundIdempotent => ReportedChargeHolds /\ (overwritten \/ UsedIsSum)
===============================================================================
