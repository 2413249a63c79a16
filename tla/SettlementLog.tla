---------------------------- MODULE SettlementLog ----------------------------
(***************************************************************************)
(* Consumption logs of settled requests (model/ztapi_settlement_log.go).   *)
(* The transaction that settles a request queues its log in the main       *)
(* database; the log itself goes to LOG_DB, another database, so delivery  *)
(* is two transactions: insert the log under a receipt in LOG_DB, then     *)
(* acknowledge the outbox row in the main database.  The request's own     *)
(* handler runs one delivery pass of limit 1 before it answers; the        *)
(* maintenance worker runs passes of BatchLimit.  Either can be cut off    *)
(* between the two transactions, and they run side by side.                *)
(***************************************************************************)
EXTENDS Naturals, Sequences, SequencesExt, FiniteSets

CONSTANTS Ops,          \* operations; each is also the handler that settles it
          Maintainers,  \* maintenance workers, one per node
          BatchLimit,   \* rows of a maintenance pass (billingRefundRetryBatch)
          Poison,       \* operations whose log LOG_DB refuses for ever
          Deletes,      \* TRUE: the channel may be deleted meanwhile
          MaxLogFaults     \* failed transactions and crashes in a behaviour

ASSUME SettlementLogAssumption ==
    /\ Ops \cap Maintainers = {} /\ Poison \subseteq Ops
    /\ BatchLimit \in Nat \ {0} /\ MaxLogFaults \in Nat /\ Deletes \in BOOLEAN

Workers == Ops \cup Maintainers

VARIABLES
    logIntent, \* operation -> "none", "open" or "done": its finalization intent
    queue,     \* the outbox: operations in the order their rows were created
    acked,     \* operation -> log id on its outbox row; 0 is not delivered
    receipt,   \* operation -> log id on its LOG_DB receipt; 0 is no receipt
    inserted,  \* the operations of all log rows ever inserted; a log id is an index
    logs,      \* ids of the log rows that still exist
    channel,   \* "present" or "deleted"
    logWorker, \* worker -> [pc, jobs, log]
    logFaults

logVars == <<logIntent, queue, acked, receipt, inserted, logs, channel, logWorker,
             logFaults>>

Settled == Range(queue)

NoPass == [pc |-> "idle", jobs |-> {}, log |-> 0]

LogInit ==
    /\ logIntent = [o \in Ops |-> "none"]
    /\ queue = <<>>
    /\ acked = [o \in Ops |-> 0]
    /\ receipt = [o \in Ops |-> 0]
    /\ inserted = <<>>
    /\ logs = {}
    /\ channel = "present"
    /\ logWorker = [w \in Workers |-> NoPass]
    /\ logFaults = 0

LogFault == logFaults < MaxLogFaults /\ logFaults' = logFaults + 1

(* ------------------------- settling and queueing ------------------------- *)

\* The row is inserted once per operation, and the channel's used quota moves
\* with it; without the channel row the whole settlement is refused.
EnqueueZTAPISettlementLogTx(o) ==
    /\ channel = "present"
    /\ o \notin Settled
    /\ queue' = Append(queue, o)

\* The usage is known: its intent is durable before money moves.
RecordIntent(o) ==
    /\ logWorker[o].pc = "idle" /\ logIntent[o] = "none"
    /\ logIntent' = [logIntent EXCEPT ![o] = "open"]
    /\ logWorker' = [logWorker EXCEPT ![o].pc = "finalize"]
    /\ UNCHANGED <<queue, acked, receipt, inserted, logs, channel, logFaults>>

\* The handler's own settlement; the maintenance worker may have been first.
Finalize(o) ==
    /\ logWorker[o].pc = "finalize"
    /\ IF logIntent[o] = "done" THEN UNCHANGED <<logIntent, queue>>
       ELSE /\ EnqueueZTAPISettlementLogTx(o)
            /\ logIntent' = [logIntent EXCEPT ![o] = "done"]
    /\ logWorker' = [logWorker EXCEPT ![o].pc = "select"]
    /\ UNCHANGED <<acked, receipt, inserted, logs, channel, logFaults>>

\* It failed: the handler answers and leaves the intent to the worker.
FinalizeFails(o) ==
    /\ logWorker[o].pc = "finalize"
    /\ IF channel = "present" THEN LogFault ELSE UNCHANGED logFaults
    /\ logWorker' = [logWorker EXCEPT ![o].pc = "failed"]
    /\ UNCHANGED <<logIntent, queue, acked, receipt, inserted, logs, channel>>

\* The worker's retry of one open intent.
RetryZTAPISettlementFinalizations(m, o) ==
    /\ logWorker[m].pc = "idle" /\ logIntent[o] = "open"
    /\ EnqueueZTAPISettlementLogTx(o)
    /\ logIntent' = [logIntent EXCEPT ![o] = "done"]
    /\ UNCHANGED <<acked, receipt, inserted, logs, channel, logWorker, logFaults>>

\* An administrator deletes the channel the requests were served by.
DeleteChannel ==
    /\ Deletes /\ channel = "present"
    /\ channel' = "deleted"
    /\ UNCHANGED <<logIntent, queue, acked, receipt, inserted, logs, logWorker, logFaults>>

(* ----------------------- delivery to the log database -------------------- *)

\* Rows are named by their place in the queue.
Undelivered == {i \in DOMAIN queue : acked[queue[i]] = 0}

Limit(w) == IF w \in Ops THEN 1 ELSE BatchLimit

Oldest(rows, n) == {i \in rows : Cardinality({j \in rows : j < i}) < n}

\* A pass reads the oldest undelivered rows, whoever they belong to.
SelectJobs(w) ==
    /\ logWorker[w].pc = IF w \in Ops THEN "select" ELSE "idle"
    /\ w \in Maintainers => Undelivered # {}
    /\ logWorker' = [logWorker EXCEPT ![w].pc = "deliver",
                                      ![w].jobs = Oldest(Undelivered, Limit(w))]
    /\ UNCHANGED <<logIntent, queue, acked, receipt, inserted, logs, channel, logFaults>>

Job(w) == queue[Min(logWorker[w].jobs)]

\* Mut_* definitions are deliberate misreadings used to test properties.
Mut_DeliverWithoutReceipt(w) ==
    /\ logWorker[w].pc = "deliver" /\ logWorker[w].jobs # {} /\ Job(w) \notin Poison
    /\ Len(inserted) < 5
    /\ LET id == Len(inserted) + 1 IN
         /\ inserted' = Append(inserted, Job(w))
         /\ logs' = logs \cup {id}
         /\ receipt' = [receipt EXCEPT ![Job(w)] = id]
         /\ logWorker' = [logWorker EXCEPT ![w].pc = "ack", ![w].log = id]
    /\ UNCHANGED <<logIntent, queue, acked, channel, logFaults>>

\* One LOG_DB transaction: the receipt is inserted first, so that a second
\* delivery of the operation finds the log it already has.
DeliverZTAPISettlementLog(w) ==
    /\ logWorker[w].pc = "deliver" /\ logWorker[w].jobs # {} /\ Job(w) \notin Poison
    /\ LET o == Job(w) id == Len(inserted) + 1 IN
         IF receipt[o] > 0
         THEN /\ logWorker' = [logWorker EXCEPT ![w].pc = "ack", ![w].log = receipt[o]]
              /\ UNCHANGED <<inserted, logs, receipt>>
         ELSE /\ inserted' = Append(inserted, o)
              /\ logs' = logs \cup {id}
              /\ receipt' = [receipt EXCEPT ![o] = id]
              /\ logWorker' = [logWorker EXCEPT ![w].pc = "ack", ![w].log = id]
    /\ UNCHANGED <<logIntent, queue, acked, channel, logFaults>>

NextJob(w) ==
    [pc |-> "deliver", log |-> 0,
     jobs |-> LET rows == logWorker[w].jobs IN rows \ {Min(rows)}]

\* LOG_DB refuses the row: the pass goes on with the next.
DeliverFails(w) ==
    /\ logWorker[w].pc = "deliver" /\ logWorker[w].jobs # {}
    /\ IF Job(w) \in Poison THEN UNCHANGED logFaults ELSE LogFault
    /\ logWorker' = [logWorker EXCEPT ![w] = NextJob(w)]
    /\ UNCHANGED <<logIntent, queue, acked, receipt, inserted, logs, channel>>

\* The acknowledgement, in the main database, only of an unacknowledged row.
Acknowledge(w) ==
    /\ logWorker[w].pc = "ack"
    /\ acked' = IF acked[Job(w)] = 0 THEN [acked EXCEPT ![Job(w)] = logWorker[w].log]
                ELSE acked
    /\ logWorker' = [logWorker EXCEPT ![w] = NextJob(w)]
    /\ UNCHANGED <<logIntent, queue, receipt, inserted, logs, channel, logFaults>>

AcknowledgeFails(w) ==
    /\ logWorker[w].pc = "ack" /\ LogFault
    /\ logWorker' = [logWorker EXCEPT ![w] = NextJob(w)]
    /\ UNCHANGED <<logIntent, queue, acked, receipt, inserted, logs, channel>>

FinishPass(w) ==
    /\ logWorker[w].pc = "deliver" /\ logWorker[w].jobs = {}
    /\ logWorker' = [logWorker EXCEPT
           ![w] = IF w \in Ops THEN [NoPass EXCEPT !.pc = "returned"]
                  ELSE NoPass]
    /\ UNCHANGED <<logIntent, queue, acked, receipt, inserted, logs, channel, logFaults>>

\* Log retention removes rows; receipts are never removed.
DeleteOldLog(id) ==
    /\ id \in logs
    /\ logs' = logs \ {id}
    /\ UNCHANGED <<logIntent, queue, acked, receipt, inserted, channel, logWorker, logFaults>>

Crash(w) ==
    /\ logWorker[w].pc \in {"finalize", "select", "deliver", "ack"} /\ LogFault
    /\ logWorker' = [logWorker EXCEPT
           ![w] = IF w \in Ops THEN [NoPass EXCEPT !.pc = "failed"]
                  ELSE NoPass]
    /\ UNCHANGED <<logIntent, queue, acked, receipt, inserted, logs, channel>>

Pass(w) == \/ SelectJobs(w) \/ DeliverZTAPISettlementLog(w) \/ DeliverFails(w)
           \/ Acknowledge(w) \/ AcknowledgeFails(w) \/ FinishPass(w)

LogNext ==
    \/ \E o \in Ops : RecordIntent(o) \/ Finalize(o) \/ FinalizeFails(o)
    \/ \E m \in Maintainers, o \in Ops : RetryZTAPISettlementFinalizations(m, o)
    \/ \E w \in Workers : Pass(w) \/ Crash(w)
    \/ \E id \in logs : DeleteOldLog(id)
    \/ DeleteChannel

LogSpec == LogInit /\ [][LogNext]_logVars

\* The maintenance timer runs on every node; handlers that were started end.
LogFairSpec ==
    /\ LogSpec
    /\ \A o \in Ops : WF_logVars(Finalize(o) \/ FinalizeFails(o) \/ Pass(o))
    /\ \A m \in Maintainers :
         /\ WF_logVars(Pass(m))
         /\ \A o \in Ops : SF_logVars(RetryZTAPISettlementFinalizations(m, o))

(* ------------------------------- properties ------------------------------ *)

SettlementLogTypeOK ==
    /\ logIntent \in [Ops -> {"none", "open", "done"}]
    /\ queue \in Seq(Ops) /\ inserted \in Seq(Ops)
    /\ acked \in [Ops -> 0..Len(inserted)] /\ receipt \in [Ops -> 0..Len(inserted)]
    /\ logs \subseteq DOMAIN inserted
    /\ channel \in {"present", "deleted"}
    /\ \A w \in Workers :
         /\ logWorker[w].pc \in {"idle", "finalize", "select", "deliver", "ack",
                                  "failed", "returned"}
         /\ logWorker[w].jobs \subseteq DOMAIN queue /\ logWorker[w].log \in 0..Len(inserted)
    /\ logFaults \in 0..MaxLogFaults

\* An acknowledged outbox row names a log of its own operation, the one on
\* the receipt, even when two passes worked on it (ProcessPending...).
AckNamesItsLog ==
    \A o \in Ops : acked[o] # 0 => inserted[acked[o]] = o /\ receipt[o] = acked[o]

\* Whatever is redelivered, crashes between the two databases or is removed
\* by log retention, an operation is logged at most once across them, and its
\* outbox row names that log (deliverZTAPISettlementLog).
LoggedOnce ==
    /\ \A i, j \in DOMAIN inserted : inserted[i] = inserted[j] => i = j
    /\ AckNamesItsLog

\* A request whose intent is complete has its log queued: the settlement and
\* the outbox row commit together (finalizeZTAPIRequestSettlement).
CompletedIsQueued == \A o \in Ops : logIntent[o] = "done" => o \in Settled

\* Every log LOG_DB can take is in the end delivered, behind any number of
\* refused rows smaller than the batch, and whoever settled it.
EveryLogDelivered ==
    \A o \in Ops \ Poison : (o \in Settled) ~> (acked[o] # 0)

\* A recorded intent is in the end settled, after failures and crashes, as
\* long as its channel exists (RetryZTAPISettlementFinalizations).
IntentsSettled == \A o \in Ops : (logIntent[o] = "open") ~> (logIntent[o] = "done")

\* service/ztapi_durable_billing.go: a successful charge is visible to the
\* caller immediately, unless log delivery fails.
ChargeVisibleOnReturn ==
    \A o \in Ops : logWorker[o].pc = "returned" /\ logFaults = 0 => receipt[o] # 0
=============================================================================
