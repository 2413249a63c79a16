---------------------------- MODULE FinanceAlerts ----------------------------
(***************************************************************************)
(* Finance alerts (model/ztapi_finance_alert.go, service/ztapi_finance_-   *)
(* alert.go).  A scan queues one alert for every pending request, refund   *)
(* or attempt review, and for every reservation older than a day; an alert *)
(* is identified for its lifetime by its source and reason.  A tick claims *)
(* due alerts under a lease, checks the source again inside the claim, and *)
(* sends them to Telegram one by one.  Several nodes tick at once, and a   *)
(* tick can be cut off anywhere.                                           *)
(*                                                                         *)
(* Time is kept only as far as the code compares it: updated_at is a       *)
(* revision number, an alert is due or not, and a lease can expire only    *)
(* after its tick has ended, because it outlasts the tick's own deadline.  *)
(***************************************************************************)
EXTENDS Naturals

CONSTANTS Sources,      \* requests, refunds and attempt reviews
          Reasons,      \* reasons a source can be pending for
          Nodes,
          SameInstant,  \* TRUE: two updates may get one updated_at
          MaxUpdates,   \* updates of a source
          MaxFaults     \* failed calls and crashes in a behaviour

NoReason == "none"
StaleHold == "stale_reserved_hold"
AllReasons == Reasons \cup {StaleHold}
Keys == Sources \X AllReasons

ASSUME FinanceAlertsAssumption ==
    /\ Reasons \cap {NoReason, StaleHold} = {}
    /\ SameInstant \in BOOLEAN /\ MaxUpdates \in Nat /\ MaxFaults \in Nat

VARIABLES
    source,     \* source -> [status, reason, aged, updatedAt, updates]
    job,        \* key -> [status, updatedAt, due, expired, attempts, lease]
    delivered,  \* key -> messages Telegram accepted
    node,       \* node -> [pc, rows, todo, current, lease, ok]
    faults

alertVars == <<source, job, delivered, node, faults>>

NoJob == [status |-> "none", updatedAt |-> 0, due |-> FALSE, expired |-> FALSE,
          attempts |-> 0, lease |-> 0]

Idle == [pc |-> "idle", rows |-> {}, todo |-> {}, claimed |-> {}, sent |-> {}]

AlertInit ==
    /\ source = [s \in Sources |-> [status |-> "reserved", reason |-> NoReason,
                                    aged |-> FALSE, updatedAt |-> 1, updates |-> 0]]
    /\ job = [k \in Keys |-> NoJob]
    /\ delivered = [k \in Keys |-> 0]
    /\ node = [n \in Nodes |-> Idle]
    /\ faults = 0

Fault == faults < MaxFaults /\ faults' = faults + 1

(* ------------------------------ the sources ------------------------------ *)

UpdateSource(s, new) ==
    /\ source[s].updates < MaxUpdates
    /\ \E u \in {source[s].updatedAt + 1} \cup
                (IF SameInstant THEN {source[s].updatedAt} ELSE {}) :
         source' = [source EXCEPT ![s] = [new EXCEPT !.updatedAt = u, !.updates = @ + 1]]
    /\ UNCHANGED <<job, delivered, node, faults>>

\* A reservation is updated without a change of status.
Touch(s) == source[s].status = "reserved" /\ UpdateSource(s, source[s])

\* A day has passed since it was created.
Age(s) ==
    /\ source[s].status = "reserved" /\ ~source[s].aged
    /\ source' = [source EXCEPT ![s].aged = TRUE]
    /\ UNCHANGED <<job, delivered, node, faults>>

Park(s, r) ==
    /\ source[s].status \in {"reserved", "pending"} /\ source[s].reason # r
    /\ UpdateSource(s, [source[s] EXCEPT !.status = "pending", !.reason = r])

ResolveSource(s) ==
    /\ source[s].status \in {"reserved", "pending"}
    /\ UpdateSource(s, [source[s] EXCEPT !.status = "terminal", !.reason = NoReason])

(* --------------------------------- the scan ------------------------------ *)

SourceReason(s) ==
    CASE source[s].status = "pending" -> source[s].reason
      [] source[s].status = "reserved" /\ source[s].aged -> StaleHold
      [] OTHER -> NoReason

\* An alert of any reason at least as new as the source hides it.
Accounted(s) == \E r \in AllReasons : /\ job[<<s, r>>].status # "none"
                                      /\ job[<<s, r>>].updatedAt >= source[s].updatedAt

ScanSources(n) ==
    /\ node[n].pc = "idle"
    /\ node' = [node EXCEPT ![n].pc = "queue",
           ![n].rows = {<<<<s, SourceReason(s)>>, source[s].updatedAt>> :
                        s \in {x \in Sources : SourceReason(x) # NoReason /\ ~Accounted(x)}}]
    /\ UNCHANGED <<source, job, delivered, faults>>

\* The insert of one row; an alert that exists only learns the newer revision.
Queued(old, u) ==
    IF old.status = "none"
      THEN [NoJob EXCEPT !.status = "pending", !.updatedAt = u, !.due = TRUE]
      ELSE [old EXCEPT !.updatedAt = IF @ < u THEN u ELSE @]

QueueAlert(n) ==
    /\ node[n].pc = "queue"
    /\ \E row \in node[n].rows :
         /\ job' = [job EXCEPT ![row[1]] = Queued(@, row[2])]
         /\ node' = [node EXCEPT ![n].rows = @ \ {row}]
    /\ UNCHANGED <<source, delivered, faults>>

\* An insert fails: the scan ends, the claim that follows still runs.
QueueFails(n) ==
    /\ node[n].pc = "queue" /\ node[n].rows # {} /\ Fault
    /\ node' = [node EXCEPT ![n].rows = {}]
    /\ UNCHANGED <<source, job, delivered>>

(* -------------------------------- the claim ------------------------------ *)

Eligible(k) == /\ job[k].due
               /\ \/ job[k].status = "pending"
                  \/ job[k].status = "sending" /\ job[k].expired

\* The candidates, each with the lease token it was seen with.
SelectCandidates(n) ==
    /\ node[n].pc = "queue" /\ node[n].rows = {}
    /\ node' = [node EXCEPT ![n].pc = "claim",
           ![n].todo = {<<k, job[k].lease>> : k \in {x \in Keys : Eligible(x)}}]
    /\ UNCHANGED <<source, job, delivered, faults>>

Resolved(k) == source[k[1]].status = "terminal"

\* The source is settled or released: the alert is withdrawn.
CancelAlert(n, k, old) ==
    /\ Eligible(k) /\ Resolved(k)
    /\ job' = [job EXCEPT ![k].status = "cancelled", ![k].lease = 0, ![k].expired = FALSE]
    /\ node' = [node EXCEPT ![n].todo = @ \ {<<k, old>>}]

\* Mut_* definitions are deliberate misreadings used to test properties.
Mut_TakeLeaseOfAnyone(n, k, old) ==
    /\ job[k].status \in {"pending", "sending"} /\ SourceReason(k[1]) = k[2]
    /\ job[k].attempts < MaxFaults + 3
    /\ job' = [job EXCEPT ![k].status = "sending", ![k].attempts = @ + 1,
                          ![k].lease = job[k].attempts + 1, ![k].expired = FALSE]
    /\ node' = [node EXCEPT ![n].todo = @ \ {<<k, old>>},
                            ![n].claimed = @ \cup {<<k, job[k].attempts + 1>>}]

\* The source still says what the alert says: it is leased for sending.
TakeLease(n, k, old) ==
    /\ Eligible(k) /\ SourceReason(k[1]) = k[2]
    /\ job' = [job EXCEPT ![k].status = "sending", ![k].attempts = @ + 1,
                          ![k].lease = job[k].attempts + 1, ![k].expired = FALSE]
    /\ node' = [node EXCEPT ![n].todo = @ \ {<<k, old>>},
                            ![n].claimed = @ \cup {<<k, job[k].attempts + 1>>}]

\* Another reason, which is no proof of resolution: the claim is rolled back
\* and the alert put off, unless somebody claimed it since it was selected.
PutOff(n, k, old) ==
    /\ Eligible(k) /\ ~Resolved(k) /\ SourceReason(k[1]) # k[2]
    /\ job' = IF job[k].lease = old
              THEN [job EXCEPT ![k].status = "pending", ![k].lease = 0,
                               ![k].due = FALSE, ![k].expired = FALSE]
              ELSE job
    /\ node' = [node EXCEPT ![n].todo = @ \ {<<k, old>>}]

\* Somebody else has it.
Skip(n, k, old) ==
    /\ ~Eligible(k)
    /\ node' = [node EXCEPT ![n].todo = @ \ {<<k, old>>}]
    /\ UNCHANGED job

ClaimAlert(n) ==
    /\ node[n].pc = "claim"
    /\ \E c \in node[n].todo :
         \/ CancelAlert(n, c[1], c[2]) \/ TakeLease(n, c[1], c[2])
         \/ PutOff(n, c[1], c[2]) \/ Skip(n, c[1], c[2])
    /\ UNCHANGED <<source, delivered, faults>>

\* The transaction of one claim fails: the others go on.
ClaimFails(n) ==
    /\ node[n].pc = "claim" /\ Fault
    /\ \E c \in node[n].todo : node' = [node EXCEPT ![n].todo = @ \ {c}]
    /\ UNCHANGED <<source, job, delivered>>

StartSending(n) ==
    /\ node[n].pc = "claim" /\ node[n].todo = {}
    /\ node' = [node EXCEPT ![n].pc = "send"]
    /\ UNCHANGED <<source, job, delivered, faults>>

(* ------------------------------- the delivery ---------------------------- *)

SendAlert(n) ==
    /\ node[n].pc = "send" /\ node[n].sent = {}
    /\ \E c \in node[n].claimed :
         /\ delivered' = [delivered EXCEPT ![c[1]] = @ + 1]
         /\ node' = [node EXCEPT ![n].claimed = @ \ {c}, ![n].sent = {<<c, TRUE>>}]
    /\ UNCHANGED <<source, job, faults>>

\* No answer, or a refusal; the message may have been accepted all the same.
SendFails(n) ==
    /\ node[n].pc = "send" /\ node[n].sent = {} /\ Fault
    /\ \E c \in node[n].claimed, accepted \in BOOLEAN :
         /\ delivered' = IF accepted THEN [delivered EXCEPT ![c[1]] = @ + 1] ELSE delivered
         /\ node' = [node EXCEPT ![n].claimed = @ \ {c}, ![n].sent = {<<c, FALSE>>}]
    /\ UNCHANGED <<source, job>>

\* The outcome is stored only by the holder of the lease: sent, or put off.
FinishZTAPIFinanceAlert(n) ==
    /\ node[n].pc = "send"
    /\ \E x \in node[n].sent :
         LET k == x[1][1] lease == x[1][2] ok == x[2] IN
           job' = IF job[k].status = "sending" /\ job[k].lease = lease
                  THEN [job EXCEPT ![k] = [@ EXCEPT !.lease = 0, !.expired = FALSE,
                          !.status = IF ok THEN "sent" ELSE "pending", !.due = ok]]
                  ELSE job
    /\ node' = [node EXCEPT ![n].sent = {}]
    /\ UNCHANGED <<source, delivered, faults>>

FinishFails(n) ==
    /\ node[n].pc = "send" /\ node[n].sent # {} /\ Fault
    /\ node' = [node EXCEPT ![n].sent = {}]
    /\ UNCHANGED <<source, job, delivered>>

EndTick(n) ==
    /\ node[n].pc = "send" /\ node[n].claimed = {} /\ node[n].sent = {}
    /\ node' = [node EXCEPT ![n] = Idle]
    /\ UNCHANGED <<source, job, delivered, faults>>

\* The process dies, or the tick's deadline cancels what is left of it.
CutOff(n) ==
    /\ node[n].pc # "idle" /\ Fault
    /\ node' = [node EXCEPT ![n] = Idle]
    /\ UNCHANGED <<source, job, delivered>>

(* ----------------------------------- time -------------------------------- *)

Held(k) == \E n \in Nodes : \E c \in node[n].claimed \cup {x[1] : x \in node[n].sent} :
              c = <<k, job[k].lease>>

LeaseExpires(k) ==
    /\ job[k].status = "sending" /\ ~job[k].expired /\ ~Held(k)
    /\ job' = [job EXCEPT ![k].expired = TRUE]
    /\ UNCHANGED <<source, delivered, node, faults>>

BecomesDue(k) ==
    /\ job[k].status = "pending" /\ ~job[k].due
    /\ job' = [job EXCEPT ![k].due = TRUE]
    /\ UNCHANGED <<source, delivered, node, faults>>

Tick(n) ==
    \/ ScanSources(n) \/ QueueAlert(n) \/ SelectCandidates(n) \/ ClaimAlert(n)
    \/ StartSending(n) \/ SendAlert(n) \/ FinishZTAPIFinanceAlert(n) \/ EndTick(n)

AlertNext ==
    \/ \E s \in Sources : \/ Touch(s) \/ Age(s) \/ ResolveSource(s)
                          \/ \E r \in Reasons : Park(s, r)
    \/ \E n \in Nodes : \/ Tick(n) \/ QueueFails(n) \/ ClaimFails(n)
                        \/ SendFails(n) \/ FinishFails(n) \/ CutOff(n)
    \/ \E k \in Keys : LeaseExpires(k) \/ BecomesDue(k)

AlertSpec == AlertInit /\ [][AlertNext]_alertVars

\* The maintenance timer ticks on every node, and time passes.
AlertFairSpec ==
    /\ AlertSpec
    /\ \A n \in Nodes : WF_alertVars(Tick(n))
    /\ \A s \in Sources : WF_alertVars(Age(s))
    /\ \A k \in Keys : WF_alertVars(LeaseExpires(k)) /\ WF_alertVars(BecomesDue(k))

(* ------------------------------- properties ------------------------------ *)

FinanceAlertsTypeOK ==
    /\ \A s \in Sources :
         /\ source[s].status \in {"reserved", "pending", "terminal"}
         /\ source[s].reason \in Reasons \cup {NoReason}
         /\ (source[s].status = "pending") = (source[s].reason # NoReason)
    /\ \A k \in Keys :
         /\ job[k].status \in {"none", "pending", "sending", "sent", "cancelled"}
         /\ (job[k].lease # 0) = (job[k].status = "sending")
         /\ job[k].lease \in {0, job[k].attempts}
         /\ delivered[k] <= job[k].attempts
    /\ faults \in 0..MaxFaults

\* One live claim per alert: two nodes never both hold an alert they are
\* about to send (ClaimZTAPIFinanceAlerts).
OneClaimant ==
    \A m, n \in Nodes, k \in Keys :
      (/\ \E c \in node[m].claimed : c[1] = k
       /\ \E c \in node[n].claimed : c[1] = k) => m = n

\* Telegram takes an alert twice only if a crash or a failed call lost the
\* first receipt, and two nodes never hold one alert (RunZTAPIFinanceAlertsOnce).
SentOnce ==
    /\ \A k \in Keys : delivered[k] <= 1 + faults
    /\ OneClaimant

\* Only an observed terminal state withdraws a warning: a change of reason
\* never does (ztapiFinanceValidateSource).
CancelledIsResolved == \A k \in Keys : job[k].status = "cancelled" => Resolved(k)

\* Whatever a source stays pending for is in the end reported: changed
\* reasons, old alerts, dead ticks and failed sends only delay it, and a
\* reservation nobody ends is reported as stale.
PendingReported ==
    \A k \in Keys : (SourceReason(k[1]) = k[2])
                      ~> (job[k].status = "sent" \/ SourceReason(k[1]) # k[2])

\* A reservation that lasts is reported however often it is touched.
StaleHoldReported ==
    \A s \in Sources : (source[s].status = "reserved")
        ~> (job[<<s, StaleHold>>].status = "sent" \/ source[s].status # "reserved")
=============================================================================
