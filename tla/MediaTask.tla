------------------------------ MODULE MediaTask ------------------------------
(***************************************************************************)
(* One durable video request, from the submission handler (RelayTask,     *)
(* RelayTaskSubmit) to the polling loop (TaskPollingLoop).                 *)
(*                                                                         *)
(* Four records describe it: the hold (ztapi_request_settlements), the    *)
(* durable task (ztapi_media_tasks), the polling rows (tasks: one inserted *)
(* by the handler, one by the recovery of a lost insert) and the job at    *)
(* the provider.  No transaction spans the durable task and its polling    *)
(* row, several processes may poll, and a poll applies an answer it        *)
(* fetched some steps earlier.                                             *)
(***************************************************************************)
EXTENDS Naturals, Sequences

CONSTANTS VideoPollers,    \* processes that run TaskPollingLoop
          Maximum,         \* the maximum reservation of the request
          MediaCharge,     \* the charge of the usage the provider reports in the end
          MaxAttempts,     \* upstream attempts of a request, 2 in the code
          MaxMediaFaults   \* bound: failed calls, lost answers and crashes

MediaAssumption ==
  /\ Maximum \in Nat \ {0} /\ MediaCharge \in 0 .. Maximum
  /\ MaxAttempts \in 1 .. 2 /\ MaxMediaFaults \in Nat

VARIABLES relay,         \* where RelayTask is
          hold,          \* the request settlement
          heldQuota,     \* what the request took from the wallet
          mediaAttempts, \* recorded outcome of each upstream attempt
          media,         \* the durable task
          pollRows,      \* polling rows: status, by who inserted it
          providerJob,   \* the job at the provider
          videoPoller,   \* where each polling loop is, and what it has read
          mediaFaults

mediaVars == <<relay, hold, heldQuota, mediaAttempts, media, pollRows, providerJob,
               videoPoller, mediaFaults>>

Origins == {"handler", "recovered"}
UnfinishedRows == {"NOT_START", "SUBMITTED", "IN_PROGRESS"}
RowStates == {"absent", "SUCCESS", "FAILURE"} \cup UnfinishedRows

RelayStages == {"start", "reserved", "prepared", "sent", "accepted", "bound", "answered",
                "failed", "done"}
Evidence == {"none", "timeout", "confirmed"}
HoldType == [status : {"none", "reserved", "pending", "settled", "released"},
             missing : {"none", "upstream_billing_unconfirmed", "media_charge_unknown"},
             usage : Evidence, charged : Nat]
MediaType == [state : {"absent", "reserved", "submitted", "processing", "succeeded", "failed",
                       "unknown"},
              charge : {"none", "known", "unknown"}, usage : Evidence]
JobType == [status : {"none", "running", "succeeded", "failed"}, usage : BOOLEAN]

\* What a poll has read, and, once it is prepared, whether it observes a hold
\* that another poll has left pending.
NoPoll == [at |-> "idle"]
AnswerType == [status : {"UNKNOWN", "IN_PROGRESS", "SUCCESS", "FAILURE"}, usage : BOOLEAN]
FetchedType == [at : {"fetched"}, row : Origins \cup {"none"},
                from : UnfinishedRows \cup {"none"}, answer : AnswerType,
                evidence : Evidence]
PreparedType == [at : {"prepared", "applied"}, row : Origins \cup {"none"},
                 from : UnfinishedRows \cup {"none"}, answer : AnswerType,
                 evidence : Evidence, refresh : BOOLEAN]

MediaFault == mediaFaults < MaxMediaFaults /\ mediaFaults' = mediaFaults + 1

MediaInit ==
  /\ relay = "start" /\ heldQuota = 0 /\ mediaAttempts = <<>> /\ mediaFaults = 0
  /\ hold = [status |-> "none", missing |-> "none", usage |-> "none", charged |-> 0]
  /\ media = [state |-> "absent", charge |-> "none", usage |-> "none"]
  /\ pollRows = [r \in Origins |-> "absent"]
  /\ providerJob = [status |-> "none", usage |-> FALSE]
  /\ videoPoller = [p \in VideoPollers |-> NoPoll]

-------------------------------------------------------------------------------
(***************************************************************************)
(* The submission handler.                                                 *)
(***************************************************************************)
PreConsume ==
  /\ relay = "start" /\ relay' = "reserved"
  /\ hold' = [hold EXCEPT !.status = "reserved"]
  /\ heldQuota' = Maximum
  /\ UNCHANGED <<mediaAttempts, media, pollRows, providerJob, videoPoller, mediaFaults>>

\* A second attempt finds the row of the first.
BeginZTAPIMediaTask ==
  /\ relay = "reserved" /\ hold.status = "reserved"
  /\ \/ /\ relay' = "prepared"
        /\ media' = IF media.state = "absent" THEN [media EXCEPT !.state = "reserved"] ELSE media
        /\ UNCHANGED mediaFaults
     \/ MediaFault /\ relay' = "failed" /\ UNCHANGED media
  /\ UNCHANGED <<hold, heldQuota, mediaAttempts, pollRows, providerJob, videoPoller>>

\* The attempt is recorded before the request leaves.
BeginAttempt ==
  /\ relay = "prepared" /\ hold.status = "reserved" /\ Len(mediaAttempts) < MaxAttempts
  /\ \/ /\ relay' = "sent" /\ mediaAttempts' = Append(mediaAttempts, "sent")
        /\ UNCHANGED mediaFaults
     \/ MediaFault /\ relay' = "failed" /\ UNCHANGED mediaAttempts
  /\ UNCHANGED <<hold, heldQuota, media, pollRows, providerJob, videoPoller>>

Outcome(answer) == mediaAttempts' = [mediaAttempts EXCEPT ![Len(mediaAttempts)] = answer]

\* A refusal or a lost answer may be retried on another channel.
NotAccepted ==
  /\ relay = "sent"
  /\ \/ Outcome("rejected") /\ UNCHANGED mediaFaults
     \/ MediaFault /\ UNCHANGED mediaAttempts
  /\ \/ Len(mediaAttempts) < MaxAttempts /\ relay' = "reserved"
     \/ relay' = "failed"
  /\ UNCHANGED <<hold, heldQuota, media, pollRows, providerJob, videoPoller>>

\* Once the provider accepted there is no retry, whatever fails afterwards.
processTaskSubmissionResponse ==
  /\ relay = "sent" /\ Outcome("accepted")
  /\ providerJob' = [providerJob EXCEPT !.status = "running"]
  /\ \/ relay' = "accepted" /\ UNCHANGED mediaFaults
     \/ MediaFault /\ relay' = "failed"
  /\ UNCHANGED <<hold, heldQuota, media, pollRows, videoPoller>>

\* PrepareZTAPIMediaTaskSubmission again, then MarkZTAPIMediaTaskSubmitted.
BindZTAPIMediaTaskSubmission ==
  /\ relay = "accepted" /\ hold.status = "reserved"
  /\ Len(SelectSeq(mediaAttempts, LAMBDA a : a = "accepted")) = 1
  /\ \/ /\ relay' = "bound" /\ media' = [media EXCEPT !.state = "submitted"]
        /\ UNCHANGED mediaFaults
     \/ MediaFault /\ relay' = "failed" /\ UNCHANGED media
  /\ UNCHANGED <<hold, heldQuota, mediaAttempts, pollRows, providerJob, videoPoller>>

\* Reserve(finalQuota) and the buffered answer: the top-up may fail, the
\* customer may be gone.
CommitResponse ==
  /\ relay = "bound"
  /\ \/ relay' = "answered" /\ UNCHANGED mediaFaults
     \/ MediaFault /\ relay' = "failed"
  /\ UNCHANGED <<hold, heldQuota, mediaAttempts, media, pollRows, providerJob, videoPoller>>

\* A failed insert is only logged.
InsertTask ==
  /\ relay = "answered" /\ relay' = "done"
  /\ \/ pollRows' = [pollRows EXCEPT !["handler"] = "NOT_START"] /\ UNCHANGED mediaFaults
     \/ MediaFault /\ UNCHANGED pollRows
  /\ UNCHANGED <<hold, heldQuota, mediaAttempts, media, providerJob, videoPoller>>

\* The deferred Refund of RelayTask: a hold that a poller has already moved
\* is left alone.
Refund ==
  /\ relay = "failed" /\ relay' = "done"
  /\ CASE hold.status # "reserved" -> UNCHANGED <<hold, heldQuota>>
       [] /\ hold.status = "reserved"
          /\ \A i \in DOMAIN mediaAttempts : mediaAttempts[i] = "rejected" ->
            hold' = [hold EXCEPT !.status = "released"] /\ heldQuota' = 0
       [] OTHER ->
            /\ hold' = [hold EXCEPT !.status = "pending",
                                    !.missing = "upstream_billing_unconfirmed"]
            /\ UNCHANGED heldQuota
  /\ UNCHANGED <<mediaAttempts, media, pollRows, providerJob, videoPoller, mediaFaults>>

HandlerCrash ==
  /\ relay # "done" /\ MediaFault /\ relay' = "done"
  /\ UNCHANGED <<hold, heldQuota, mediaAttempts, media, pollRows, providerJob, videoPoller>>

Handler == \/ PreConsume \/ BeginZTAPIMediaTask \/ BeginAttempt \/ NotAccepted
           \/ processTaskSubmissionResponse \/ BindZTAPIMediaTaskSubmission
           \/ CommitResponse \/ InsertTask \/ Refund \/ HandlerCrash

-------------------------------------------------------------------------------
(***************************************************************************)
(* The provider.  The usage may become known after the job has ended.      *)
(***************************************************************************)
ProviderStep ==
  /\ \/ /\ providerJob.status = "running"
        /\ \E s \in {"succeeded", "failed"}, u \in BOOLEAN :
             providerJob' = [status |-> s, usage |-> u]
     \/ /\ providerJob.status \in {"succeeded", "failed"} /\ ~providerJob.usage
        /\ providerJob' = [providerJob EXCEPT !.usage = TRUE]
  /\ UNCHANGED <<relay, hold, heldQuota, mediaAttempts, media, pollRows, videoPoller,
                 mediaFaults>>

\* What a poll may be told: an answer without a usage may also come late.
Answers ==
  LET final == [succeeded |-> "SUCCESS", failed |-> "FAILURE"]
  IN {[status |-> "UNKNOWN", usage |-> FALSE]} \cup
     IF providerJob.status = "running" THEN {[status |-> "IN_PROGRESS", usage |-> FALSE]}
     ELSE {[status |-> final[providerJob.status], usage |-> u] :
             u \in {FALSE, providerJob.usage}}

-------------------------------------------------------------------------------
(***************************************************************************)
(* The polling loop.                                                       *)
(***************************************************************************)
\* EnsureZTAPIMediaLegacyTask, under the lock of the durable task.
RecoverZTAPIMediaLegacyTask(p) ==
  /\ videoPoller[p] = NoPoll
  /\ media.state \in {"submitted", "processing", "unknown"}
  /\ \A r \in Origins : pollRows[r] = "absent"
  /\ pollRows' = [pollRows EXCEPT !["recovered"] =
                IF media.state = "submitted" THEN "SUBMITTED" ELSE "IN_PROGRESS"]
  /\ UNCHANGED <<relay, hold, heldQuota, mediaAttempts, media, providerJob, videoPoller,
                 mediaFaults>>

\* ApplyZTAPIMediaTimeout observes "unknown" and leaves the row pollable.
SweepTimedOut(p) ==
  /\ videoPoller[p] = NoPoll /\ \E r \in Origins : pollRows[r] \in UnfinishedRows
  /\ videoPoller' = [videoPoller EXCEPT ![p] =
       [at |-> "fetched", row |-> "none", from |-> "none",
        answer |-> [status |-> "UNKNOWN", usage |-> FALSE], evidence |-> "timeout"]]
  /\ UNCHANGED <<relay, hold, heldQuota, mediaAttempts, media, pollRows, providerJob,
                 mediaFaults>>

\* Two unfinished rows share the upstream id, and the later one is polled.
FetchTask(p) ==
  /\ videoPoller[p] = NoPoll
  /\ \E r \in {o \in Origins : pollRows[o] \in UnfinishedRows} :
       /\ r = "recovered" => pollRows["handler"] \notin UnfinishedRows
       /\ \E answer \in Answers :
            videoPoller' = [videoPoller EXCEPT ![p] =
              [at |-> "fetched", row |-> r, from |-> pollRows[r], answer |-> answer,
               evidence |-> IF answer.usage THEN "confirmed" ELSE "none"]]
  /\ UNCHANGED <<relay, hold, heldQuota, mediaAttempts, media, pollRows, providerJob,
                 mediaFaults>>

Target(answer) == [UNKNOWN |-> "unknown", SUCCESS |-> "succeeded", FAILURE |-> "failed",
                   IN_PROGRESS |-> "processing"][answer.status]

PollGoes(p, at) == videoPoller' = [videoPoller EXCEPT ![p] = at]

\* ensureZTAPIMediaTaskProcessing and prepareZTAPIMediaTerminal; the status of
\* the hold is read here, before the transaction that uses it.
PrepareTerminal(p) ==
  /\ videoPoller[p].at = "fetched"
  /\ LET target == Target(videoPoller[p].answer)
         observe == [at |-> IF target = "processing" THEN "applied" ELSE "prepared",
                     row |-> videoPoller[p].row, from |-> videoPoller[p].from,
                     answer |-> videoPoller[p].answer, evidence |-> videoPoller[p].evidence,
                     refresh |-> /\ hold.status = "pending"
                                 /\ hold.missing = "media_charge_unknown"]
     IN CASE media.state = "submitted" ->
               media' = [media EXCEPT !.state = "processing"] /\ PollGoes(p, observe)
          [] \/ media.state = "processing"
             \/ target # "processing" /\ media.state \in {"unknown", target} ->
               PollGoes(p, observe) /\ UNCHANGED media
          [] OTHER -> PollGoes(p, NoPoll) /\ UNCHANGED media
  /\ UNCHANGED <<relay, hold, heldQuota, mediaAttempts, pollRows, providerJob, mediaFaults>>

Observed(p) == [state |-> Target(videoPoller[p].answer),
                charge |-> IF videoPoller[p].answer.usage THEN "known" ELSE "unknown",
                usage |-> videoPoller[p].evidence]

\* finalizeZTAPIRequestSettlementWithOptions (directEvidence),
\* refreshZTAPIMediaPendingObservation and pendZTAPIRequestSettlementWithLineage:
\* whether the hold accepts the observation.
HoldAccepts(p) ==
  IF Observed(p).charge = "known"
    THEN \/ hold.status \in {"reserved", "settled"}
         \/ hold.status = "pending" /\ hold.missing = "media_charge_unknown"
    ELSE \/ hold.status = "reserved" /\ ~videoPoller[p].refresh
         \/ /\ hold.status = "pending" /\ hold.missing = "media_charge_unknown"
            /\ videoPoller[p].refresh \/ hold.usage = videoPoller[p].evidence

HoldAfter(p) ==
  IF Observed(p).charge = "known"
    THEN [status |-> "settled", missing |-> "none", usage |-> "confirmed",
          charged |-> MediaCharge]
    ELSE [status |-> "pending", missing |-> "media_charge_unknown",
          usage |-> videoPoller[p].evidence, charged |-> 0]

\* Mut_* definitions are deliberate misreadings used to test properties.
Mut_TaskAcceptsAny(p) == TRUE

\* applyZTAPIMediaTaskTerminalTx: whether the durable task does.
TaskAccepts(p) ==
  \/ media = Observed(p)
  \/ media.state = "processing"
  \/ /\ media.charge = "unknown" /\ Observed(p).charge # "unknown"
     /\ media.state \in {"unknown", Observed(p).state}
  \/ /\ media.state = "unknown" /\ media.charge = "unknown"
     /\ Observed(p).charge = "unknown" /\ HoldAfter(p).status = "pending"

\* One transaction changes the hold and the durable task, or neither.
ApplyTerminal(p) ==
  /\ videoPoller[p].at = "prepared"
  /\ IF HoldAccepts(p) /\ TaskAccepts(p)
       THEN /\ hold' = HoldAfter(p)
            /\ heldQuota' = IF HoldAfter(p).status = "settled" THEN MediaCharge ELSE heldQuota
            /\ media' = Observed(p)
            /\ PollGoes(p, IF videoPoller[p].row = "none" THEN NoPoll
                           ELSE [videoPoller[p] EXCEPT !.at = "applied"])
       ELSE PollGoes(p, NoPoll) /\ UNCHANGED <<hold, heldQuota, media>>
  /\ UNCHANGED <<relay, mediaAttempts, pollRows, providerJob, mediaFaults>>

RowAfter(p) == IF videoPoller[p].answer.status = "UNKNOWN" THEN "IN_PROGRESS"
               ELSE videoPoller[p].answer.status

\* updateVideoSingleTask's UpdateWithStatus, against the status it fetched.
UpdateRow(p) ==
  /\ videoPoller[p].at = "applied"
  /\ pollRows' = [pollRows EXCEPT ![videoPoller[p].row] =
                    IF @ = videoPoller[p].from THEN RowAfter(p) ELSE @]
  /\ PollGoes(p, NoPoll)
  /\ UNCHANGED <<relay, hold, heldQuota, mediaAttempts, media, providerJob, mediaFaults>>

\* A crash, or a call of the poll that fails.
VideoPollCrash(p) ==
  /\ videoPoller[p] # NoPoll /\ MediaFault /\ PollGoes(p, NoPoll)
  /\ UNCHANGED <<relay, hold, heldQuota, mediaAttempts, media, pollRows, providerJob>>

VideoPoll(p) == \/ RecoverZTAPIMediaLegacyTask(p) \/ SweepTimedOut(p) \/ FetchTask(p)
           \/ PrepareTerminal(p) \/ ApplyTerminal(p) \/ UpdateRow(p) \/ VideoPollCrash(p)

\* An operator returns a pending reservation with a proof of no charge.
ResolveNoCharge ==
  /\ hold.status = "pending"
  /\ hold' = [hold EXCEPT !.status = "released"] /\ heldQuota' = 0
  /\ UNCHANGED <<relay, mediaAttempts, media, pollRows, providerJob, videoPoller, mediaFaults>>

MediaNext == Handler \/ ProviderStep \/ ResolveNoCharge \/ \E p \in VideoPollers : VideoPoll(p)

MediaSpec == MediaInit /\ [][MediaNext]_mediaVars

-------------------------------------------------------------------------------
\* Types of the records and of what the polls have read.
MediaTypeOK ==
  /\ relay \in RelayStages
  /\ hold \in HoldType /\ heldQuota \in 0 .. Maximum
  /\ mediaAttempts \in Seq({"sent", "rejected", "accepted"})
  /\ media \in MediaType /\ providerJob \in JobType
  /\ pollRows \in [Origins -> RowStates]
  /\ videoPoller \in [VideoPollers -> {NoPoll} \cup FetchedType \cup PreparedType]
  /\ mediaFaults \in 0 .. MaxMediaFaults

\* The four records of a video request agree although no transaction spans
\* them: the wallet holds exactly what the hold says, the hold is settled just
\* when the durable task knows its charge, an unresolved charge never leaves
\* the hold open for automatic release, and a polling row - which ends the
\* polling - shows an outcome only after the durable task has recorded it.
\* Behind it: the one transaction of applyZTAPIMediaTaskTerminalObservationOnce.
RecordsAgree ==
  /\ heldQuota = CASE hold.status \in {"none", "released"} -> 0
                [] hold.status = "settled" -> hold.charged
                [] OTHER -> Maximum
  /\ hold.status = "settled" <=> media.charge = "known"
  /\ media.charge = "known" => media.state = providerJob.status /\ heldQuota = MediaCharge
  /\ media.charge = "unknown" => hold.status \in {"pending", "released"}
  /\ \A r \in Origins : /\ pollRows[r] = "SUCCESS" => media.state = "succeeded"
                        /\ pollRows[r] = "FAILURE" => media.state = "failed"

\* What a customer has been shown stays: a finished polling row does not change
\* and a known charge is never taken back, however late another poller applies
\* the answer it fetched (UpdateWithStatus, ztapiMediaTaskTerminalMatches).
OutcomeStays ==
  /\ \A r \in Origins : pollRows[r] \in {"SUCCESS", "FAILURE"} => pollRows'[r] = pollRows[r]
  /\ media.charge = "known" => media' = media /\ hold' = hold

\* Every step leaves the records in agreement, and an outcome as it was.
VideoTaskOutcome == [][RecordsAgree' /\ OutcomeStays]_mediaVars
=============================================================================
