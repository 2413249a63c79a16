------------------------------ MODULE HealthOutbox ------------------------------
(***************************************************************************)
(* The health alert outbox (model/ztapi_health_outbox.go, model/ztapi_cus- *)
(* tomer_alert.go) and the worker loop that empties it (RunOnce and runOut-*)
(* box of service/ztapi_health_worker.go).  Requests that fail upstream,   *)
(* a model that trips and an operator's test put jobs in a table; every    *)
(* node's worker goes through the kinds of job in one order, leases one    *)
(* job at a time, delivers it and acknowledges it with the lease token.    *)
(*                                                                         *)
(* A job's clock is two flags: it is due, its lease is alive.  The ten     *)
(* minutes in which failures of one customer share a job are a flag too.   *)
(* A customer stands for the user, model and channel of the dedup key.     *)
(***************************************************************************)
EXTENDS Naturals, Sequences, FiniteSets, Functions

CONSTANTS OutboxWorkers,
          Customers,
          Operations,     \* UUIDs of an operator's delivery tests
          MaxFailures,    \* failed customer requests in a behaviour
          MaxTrips,       \* times the model trips
          BatchSize,      \* jobs of one kind a tick may deliver
          AlwaysRefused,  \* kinds whose delivery the environment never accepts
          MaxOutboxFaults \* crashes, refusals and leases that run out on a worker

ASSUME HealthOutboxAssumption ==
    /\ MaxFailures \in Nat /\ MaxTrips \in Nat /\ MaxOutboxFaults \in Nat
    /\ BatchSize \in Nat \ {0}
    /\ IsFiniteSet(Customers) /\ IsFiniteSet(Operations)

Kinds == <<"unpublish", "customer_alert", "alert", "alert_test">>
None == "none"

VARIABLES jobs,       \* rows of ztapi_health_outbox, in the order of their ids
          workers,    \* where each node's loop is, and the item it holds
          failures,   \* ghost: failed requests of each customer
          trips,      \* times the model tripped
          audited,    \* tests with an audit event
          accepted,   \* ghost: jobs whose recipient accepted a delivery
          outboxFaults

outboxVars == <<jobs, workers, failures, trips, audited, accepted, outboxFaults>>

JobIds == 1 .. Len(jobs)
OutboxFault == outboxFaults < MaxOutboxFaults /\ outboxFaults' = outboxFaults + 1

\* A node between two ticks.
IdleLoop == [at |-> "idle", kind |-> 0, left |-> 0, job |-> 0, token |-> None]

\* A node in runOutbox of the k-th kind, with left more jobs to take in this tick.
Picking(k, left) == [at |-> "pick", kind |-> k, left |-> left, job |-> 0, token |-> None]

OutboxInit ==
    /\ jobs = <<>> /\ workers = [w \in OutboxWorkers |-> IdleLoop]
    /\ failures = [c \in Customers |-> 0] /\ trips = 0 /\ audited = {}
    /\ accepted = {} /\ outboxFaults = 0

\* ZTAPIHealthOutbox.
Job(kind, key, n) ==
    [kind |-> kind, key |-> key, status |-> "pending", due |-> TRUE, leased |-> FALSE,
     token |-> None, occurrences |-> n, recent |-> n > 0]

Enqueue(new) == jobs' = jobs \o new

-----------------------------------------------------------------------------
(***************************************************************************)
(* Producers.                                                              *)
(***************************************************************************)

\* The job of the last ten minutes that already tells about the customer.
SharedJob(c) ==
    {i \in JobIds : jobs[i].kind = "customer_alert" /\ jobs[i].key = c /\ jobs[i].recent}

\* enqueueZTAPICustomerAlertTx, under the model's health lock.
EnqueueCustomerAlert(c) ==
    IF SharedJob(c) # {}
      THEN \E i \in SharedJob(c) :
              /\ \A j \in SharedJob(c) : j <= i
              /\ jobs' = [jobs EXCEPT ![i].occurrences = @ + 1]
      ELSE Enqueue(<<Job("customer_alert", c, 1)>>)

RequestFails(c) ==
    /\ failures[c] < MaxFailures /\ failures' = [failures EXCEPT ![c] = @ + 1]
    /\ EnqueueCustomerAlert(c)
    /\ UNCHANGED <<workers, trips, audited, accepted, outboxFaults>>

\* openZTAPIVerifiedModelCircuitTx leaves both jobs in one transaction.
ModelTrips ==
    /\ trips < MaxTrips /\ trips' = trips + 1
    /\ Enqueue(<<Job("alert", trips + 1, 0), Job("unpublish", trips + 1, 0)>>)
    /\ UNCHANGED <<workers, failures, audited, accepted, outboxFaults>>

\* EnqueueTestAlert, under the catalog lock: a retry of the operation finds its job.
EnqueueTestAlert(op) ==
    /\ ~ \E i \in JobIds : jobs[i].kind = "alert_test" /\ jobs[i].key = op
    /\ Enqueue(<<Job("alert_test", op, 0)>>) /\ audited' = audited \cup {op}
    /\ UNCHANGED <<workers, failures, trips, accepted, outboxFaults>>

-----------------------------------------------------------------------------
(***************************************************************************)
(* The worker.                                                             *)
(***************************************************************************)

\* The tick starts at the first kind.
RunOnce(w) ==
    /\ workers[w].at = "idle"
    /\ workers' = [workers EXCEPT ![w] = Picking(1, BatchSize)]
    /\ UNCHANGED <<jobs, failures, trips, audited, accepted, outboxFaults>>

\* runOutbox of one kind is over: the next kind, or the end of the tick.
NextKind(w) ==
    workers' = [workers EXCEPT ![w] =
        IF @.kind = Len(Kinds) THEN IdleLoop ELSE Picking(@.kind + 1, BatchSize)]

NextItem(w) ==
    workers' = [workers EXCEPT ![w] = Picking(@.kind, @.left - 1)]

\* Mut_* definitions are deliberate misreadings used to test properties.
Mut_ClaimableItem(i) == jobs[i].due /\ jobs[i].status = "pending"

ClaimableItem(i) ==
    /\ jobs[i].due
    /\ \/ jobs[i].status = "pending"
       \/ jobs[i].status = "leased" /\ ~jobs[i].leased

Candidates(w) == {i \in JobIds : jobs[i].kind = Kinds[workers[w].kind] /\ ClaimableItem(i)}

\* ClaimOutbox reads the oldest candidate without a lock.
Pick(w) ==
    /\ workers[w].at = "pick"
    /\ IF workers[w].left = 0 \/ Candidates(w) = {}
         THEN NextKind(w)
         ELSE \E i \in Candidates(w) :
                /\ \A j \in Candidates(w) : i <= j
                /\ workers' = [workers EXCEPT ![w].at = "claim", ![w].job = i]
    /\ UNCHANGED <<jobs, failures, trips, audited, accepted, outboxFaults>>

Mut_Claim2(w) ==
    LET i == workers[w].job IN
    /\ workers[w].at = "claim"
    /\ IF ClaimableItem(i)
         THEN /\ jobs' = [jobs EXCEPT ![i].status = "leased", ![i].leased = TRUE,
                                   ![i].token = None]
              /\ workers' = [workers EXCEPT ![w].at = "send", ![w].token = None]
         ELSE NextKind(w) /\ UNCHANGED jobs
    /\ UNCHANGED <<failures, trips, audited, accepted, outboxFaults>>

\* The compare-and-set of ClaimOutbox: a candidate somebody else took ends the kind.
\* The token is a fresh UUID; a worker holds one item, so the worker names it.
ClaimItem(w) ==
    LET i == workers[w].job IN
    /\ workers[w].at = "claim"
    /\ IF ClaimableItem(i)
         THEN /\ jobs' = [jobs EXCEPT ![i].status = "leased", ![i].leased = TRUE, ![i].token = w]
              /\ workers' = [workers EXCEPT ![w].at = "send", ![w].token = w]
         ELSE NextKind(w) /\ UNCHANGED jobs
    /\ UNCHANGED <<failures, trips, audited, accepted, outboxFaults>>

Refusal(i) == IF jobs[i].kind \in AlwaysRefused THEN UNCHANGED outboxFaults ELSE OutboxFault

\* deliverZTAPIHealthAlert: the recipient accepts, or refuses, or accepts and the
\* answer is lost.
Deliver(w) ==
    LET i == workers[w].job IN
    /\ workers[w].at = "send" /\ jobs[i].kind # "unpublish"
    /\ \/ /\ jobs[i].kind \notin AlwaysRefused /\ accepted' = accepted \cup {i}
          /\ \/ workers' = [workers EXCEPT ![w].at = "ack"] /\ UNCHANGED outboxFaults
             \/ workers' = [workers EXCEPT ![w].at = "retry"] /\ OutboxFault
       \/ /\ workers' = [workers EXCEPT ![w].at = "retry"] /\ Refusal(i)
          /\ UNCHANGED accepted
    /\ UNCHANGED <<jobs, failures, trips, audited>>

HoldsItem(w) ==
    LET i == workers[w].job IN
    jobs[i].status = "leased" /\ jobs[i].token = workers[w].token /\ jobs[i].leased

\* ProcessUnpublish commits the catalogue change and the acknowledgement together;
\* its error sends the job back.  What it decides is in HealthVerification.
ProcessUnpublishItem(w) ==
    LET i == workers[w].job IN
    /\ workers[w].at = "send" /\ jobs[i].kind = "unpublish"
    /\ \/ /\ HoldsItem(w)
          /\ jobs' = [jobs EXCEPT ![i].status = "done", ![i].leased = FALSE]
          /\ accepted' = accepted \cup {i}
          /\ \/ NextItem(w) /\ UNCHANGED outboxFaults
             \/ workers' = [workers EXCEPT ![w].at = "retry"] /\ OutboxFault
       \/ /\ \/ ~HoldsItem(w) /\ UNCHANGED outboxFaults
             \/ HoldsItem(w) /\ OutboxFault
          /\ workers' = [workers EXCEPT ![w].at = "retry"]
          /\ UNCHANGED <<jobs, accepted>>
    /\ UNCHANGED <<failures, trips, audited>>

\* FinishOutboxWithReceipt: only the holder of the live lease; an error ends the kind.
FinishOutbox(w, status) ==
    LET i == workers[w].job IN
    IF HoldsItem(w)
      THEN /\ jobs' = [jobs EXCEPT ![i].status = status, ![i].leased = FALSE,
                                ![i].due = status = "done"]
           /\ NextItem(w)
      ELSE NextKind(w) /\ UNCHANGED jobs

Finish(w) ==
    /\ \/ workers[w].at = "ack" /\ FinishOutbox(w, "done")
       \/ workers[w].at = "retry" /\ FinishOutbox(w, "pending")
    /\ UNCHANGED <<failures, trips, audited, accepted, outboxFaults>>

-----------------------------------------------------------------------------
(***************************************************************************)
(* Clocks and crashes.                                                     *)
(***************************************************************************)

\* The backoff of ztapiHealthAlertBackoff has passed.
RetryDue(i) ==
    /\ i \in JobIds /\ ~jobs[i].due /\ jobs' = [jobs EXCEPT ![i].due = TRUE]
    /\ UNCHANGED <<workers, failures, trips, audited, accepted, outboxFaults>>

\* A lease outlives the time a tick gives to a kind, so one whose worker still
\* runs expires only when that worker stalls.
ItemLeaseExpires(i) ==
    /\ i \in JobIds /\ jobs[i].leased /\ jobs' = [jobs EXCEPT ![i].leased = FALSE]
    /\ IF \E w \in OutboxWorkers :
            workers[w].job = i /\ workers[w].at \in {"send", "ack", "retry"} /\ HoldsItem(w)
         THEN OutboxFault ELSE UNCHANGED outboxFaults
    /\ UNCHANGED <<workers, failures, trips, audited, accepted>>

\* Ten minutes after the job was created.
WindowPasses(i) ==
    /\ i \in JobIds /\ jobs[i].recent /\ jobs' = [jobs EXCEPT ![i].recent = FALSE]
    /\ UNCHANGED <<workers, failures, trips, audited, accepted, outboxFaults>>

\* The tick's context ends or the node restarts: the item is dropped.
Stop(w) ==
    /\ workers[w].at # "idle" /\ workers' = [workers EXCEPT ![w] = IdleLoop] /\ OutboxFault
    /\ UNCHANGED <<jobs, failures, trips, audited, accepted>>

OutboxWorkerStep(w) ==
    RunOnce(w) \/ Pick(w) \/ ClaimItem(w) \/ Deliver(w) \/ ProcessUnpublishItem(w) \/ Finish(w)

OutboxNext ==
    \/ \E c \in Customers : RequestFails(c)
    \/ ModelTrips
    \/ \E op \in Operations : EnqueueTestAlert(op)
    \/ \E w \in OutboxWorkers : OutboxWorkerStep(w) \/ Stop(w)
    \/ \E i \in JobIds : RetryDue(i) \/ ItemLeaseExpires(i) \/ WindowPasses(i)

OutboxSpec == OutboxInit /\ [][OutboxNext]_outboxVars

MaxJobs == MaxFailures * Cardinality(Customers) + 2 * MaxTrips + Cardinality(Operations)

\* The ticker runs every node's loop, and clocks advance.
OutboxFairSpec ==
    /\ OutboxSpec /\ \A w \in OutboxWorkers : WF_outboxVars(OutboxWorkerStep(w))
    /\ \A i \in 1 .. MaxJobs : WF_outboxVars(RetryDue(i)) /\ WF_outboxVars(ItemLeaseExpires(i))

-----------------------------------------------------------------------------
(***************************************************************************)
(* Properties.                                                             *)
(***************************************************************************)

JobKinds == {"unpublish", "customer_alert", "alert", "alert_test"}

JobType == [kind : JobKinds, key : Customers \cup Operations \cup Nat,
            status : {"pending", "leased", "done"}, due : BOOLEAN, leased : BOOLEAN,
            token : OutboxWorkers \cup {None}, occurrences : Nat, recent : BOOLEAN]

ItemType == [at : {"idle", "pick", "claim", "send", "ack", "retry"}, kind : 0 .. Len(Kinds),
             left : 0 .. BatchSize, job : Nat, token : OutboxWorkers \cup {None}]

RowsOK == jobs \in Seq(JobType) /\ \A i \in JobIds : jobs[i].leased => jobs[i].status = "leased"

CountsOK ==
    /\ failures \in [Customers -> 0 .. MaxFailures] /\ trips \in 0 .. MaxTrips
    /\ audited \subseteq Operations /\ accepted \subseteq JobIds
    /\ outboxFaults \in 0 .. MaxOutboxFaults

\* Shapes of the rows and of the workers' items, and the bound on the ids that
\* fairness and liveness quantify over.
HealthOutboxTypeOK ==
    /\ RowsOK /\ CountsOK
    /\ workers \in [OutboxWorkers -> ItemType]
    /\ \A w \in OutboxWorkers : workers[w].job \in 0 .. Len(jobs)
    /\ Len(jobs) <= MaxJobs

\* Claims, expiries and takeovers leave at most one worker whose acknowledgement a
\* job would take (the compare-and-set of ClaimOutbox and the fresh token).
LeaseExclusive ==
    \A i \in JobIds : Cardinality({w \in OutboxWorkers :
        workers[w].job = i /\ workers[w].at \in {"send", "ack", "retry"} /\ HoldsItem(w)}) <= 1

\* However deliveries, refusals, takeovers and lost answers follow one another, a
\* job leaves the table only after its recipient accepted it.
DoneWasAccepted == \A i \in JobIds : jobs[i].status = "done" => i \in accepted

\* The failures of customer c that job i tells about.
CountedBy(i, c) ==
    IF jobs[i].kind = "customer_alert" /\ jobs[i].key = c THEN jobs[i].occurrences ELSE 0

\* Every failed request of a customer is counted by exactly one job
\* (enqueueZTAPICustomerAlertTx), whatever the worker does with the jobs meanwhile.
EveryFailureCounted ==
    \A c \in Customers :
        SumFunctionOnSet([i \in JobIds |-> CountedBy(i, c)], JobIds) = failures[c]

\* "10 分钟内不重复刷屏": within ten minutes a customer has one job, delivered or not.
OneJobPerWindow == \A c \in Customers : Cardinality(SharedJob(c)) <= 1

\* What an acknowledgement takes: a lease nobody else holds, and an acceptance.
AcknowledgedByHolder == LeaseExclusive /\ DoneWasAccepted

\* A delivery test has one job and one audit event, however often the operator
\* repeats the operation (EnqueueTestAlert).
OneJobPerTest ==
    \A op \in Operations :
        Cardinality({i \in JobIds : jobs[i].kind = "alert_test" /\ jobs[i].key = op})
          = IF op \in audited THEN 1 ELSE 0

\* What producers leave: every failure and every test is counted, by one job.
AlertsQueuedOnce == EveryFailureCounted /\ OneJobPerWindow /\ OneJobPerTest

\* Each failure is counted by one job, and no job is done that its recipient did not
\* accept.  A delivery may reach the recipient again when its lease ran out, and
\* failures added to a job that is being delivered, or is done, are counted but not
\* told.
OutboxSafe == AlertsQueuedOnce /\ AcknowledgedByHolder

\* "Alert failures must not suppress the independent unpublish queue": with alerts
\* that are refused for ever, every unpublish job is still processed.
UnpublishedDespiteAlerts ==
    \A i \in 1 .. MaxJobs :
        (i \in JobIds /\ jobs[i].kind = "unpublish") ~> (i \in JobIds /\ jobs[i].status = "done")

\* Every job of a kind the recipient can accept is delivered in the end, whatever
\* crashed, expired or was refused on the way.
EveryAlertDelivered ==
    \A i \in 1 .. MaxJobs :
        (i \in JobIds /\ jobs[i].kind \notin AlwaysRefused) ~> (i \in JobIds /\ jobs[i].status = "done")

EveryJobProcessed == EveryAlertDelivered /\ UnpublishedDespiteAlerts
=============================================================================
