----------------------------- MODULE TaskPolling -----------------------------
(***************************************************************************)
(* Asynchronous tasks of the legacy billing (service/task_polling.go,      *)
(* service/task_billing.go): the submission charged a quota before the     *)
(* polling row was inserted, and the end of the task refunds or reprices   *)
(* it.  Video rows are finished by a compare-and-set on the status that    *)
(* was read (UpdateWithStatus), and only the winner touches the money.     *)
(* Suno rows are refunded first and saved unconditionally afterwards; one  *)
(* that is answered with a reason to fail, but not FAILURE, is refunded    *)
(* with progress "100%" and never polled again, and is left out.           *)
(* Rows of a channel that cannot be loaded are failed in bulk, with        *)
(* neither guard nor refund.                                               *)
(***************************************************************************)
EXTENDS Integers, FiniteSets

CONSTANTS Tasks,        \* asynchronous tasks
          Suno,         \* those polled by updateSunoTasks
          Pollers,      \* processes that run TaskPollingLoop
          Quota,        \* what the submission charged
          Actual,       \* what a finished task is repriced to
          MaxPollFaults \* bound: failed calls and crashes

PollingAssumption ==
  /\ Suno \subseteq Tasks /\ IsFiniteSet(Pollers)
  /\ Quota \in Nat \ {0} /\ Actual \in Nat \ {0}
  /\ MaxPollFaults \in Nat

VARIABLES taskRow,     \* status of each polling row
          fundingUsed, \* what each task took from the funding source
          keyUsed,     \* what it took from the API key
          adjusts,     \* funding adjustments after the submission
          taskJob,     \* the task at the provider
          poller,      \* where each polling loop is, and what it has read
          pollFaults

pollingVars == <<taskRow, fundingUsed, keyUsed, adjusts, taskJob, poller, pollFaults>>

Unfinished == {"SUBMITTED", "IN_PROGRESS"}
Final == {"SUCCESS", "FAILURE"}

\* What a pass does with a task it has read: list, write by compare-and-set,
\* adjust the money, save.
NoTaskPoll == [at |-> "idle"]
TaskPollType == [at : {"listed", "cas", "save", "refund", "reprice", "refundKey",
                       "repriceKey"},
                 task : Tasks, from : Unfinished, to : Unfinished \cup Final,
                 saves : BOOLEAN]

PollFault == pollFaults < MaxPollFaults /\ pollFaults' = pollFaults + 1

PollingInit ==
  /\ taskRow = [t \in Tasks |-> "absent"]
  /\ fundingUsed = [t \in Tasks |-> Quota] /\ keyUsed = fundingUsed
  /\ adjusts = [t \in Tasks |-> 0]
  /\ taskJob = [t \in Tasks |-> "running"]
  /\ poller = [p \in Pollers |-> NoTaskPoll]
  /\ pollFaults = 0

Goes(p, at) == poller' = [poller EXCEPT ![p] = at]

\* RelayTask: the insert that follows a settled submission; a failure is only
\* logged, and the row stays absent.
Insert(t) ==
  /\ taskRow[t] = "absent"
  /\ \/ taskRow' = [taskRow EXCEPT ![t] = "SUBMITTED"] /\ UNCHANGED pollFaults
     \/ taskRow' = [taskRow EXCEPT ![t] = "lost"] /\ PollFault
  /\ UNCHANGED <<fundingUsed, keyUsed, adjusts, taskJob, poller>>

ProviderEnds(t) ==
  /\ taskJob[t] = "running" /\ \E s \in Final : taskJob' = [taskJob EXCEPT ![t] = s]
  /\ UNCHANGED <<taskRow, fundingUsed, keyUsed, adjusts, poller, pollFaults>>

-------------------------------------------------------------------------------
(***************************************************************************)
(* A pass reads the unfinished rows, asks the provider and writes back.    *)
(***************************************************************************)
\* GetTimedOutUnfinishedTasks: the sweep decides without asking the provider.
SweepTimedOutTasks(p, t) ==
  /\ poller[p] = NoTaskPoll /\ taskRow[t] \in Unfinished
  /\ Goes(p, [at |-> "cas", task |-> t, from |-> taskRow[t], to |-> "FAILURE", saves |-> FALSE])
  /\ UNCHANGED <<taskRow, fundingUsed, keyUsed, adjusts, taskJob, pollFaults>>

\* GetAllUnFinishSyncTasks.
ListUnfinished(p, t) ==
  /\ poller[p] = NoTaskPoll /\ taskRow[t] \in Unfinished
  /\ Goes(p, [at |-> "listed", task |-> t, from |-> taskRow[t], to |-> taskRow[t],
              saves |-> t \in Suno])
  /\ UNCHANGED <<taskRow, fundingUsed, keyUsed, adjusts, taskJob, pollFaults>>

\* FetchTask.  An error answer to a video poll is read as a failed task
\* (FailTaskInfo), even while the job runs.
Fetch(p) ==
  /\ poller[p].at = "listed"
  /\ LET t == poller[p].task
         told == IF taskJob[t] = "running" THEN "IN_PROGRESS" ELSE taskJob[t]
         next == IF t \notin Suno THEN "cas" ELSE IF told = "FAILURE" THEN "refund" ELSE "save"
     IN \/ Goes(p, [poller[p] EXCEPT !.at = next, !.to = told]) /\ UNCHANGED pollFaults
        \/ /\ t \notin Suno /\ PollFault
           /\ Goes(p, [poller[p] EXCEPT !.at = "cas", !.to = "FAILURE"])
  /\ UNCHANGED <<taskRow, fundingUsed, keyUsed, adjusts, taskJob>>

\* TaskBulkUpdateByID, when the channel cannot be loaded: no guard, no money.
FailChannelTasks(p) ==
  /\ poller[p].at = "listed" /\ PollFault
  /\ taskRow' = [taskRow EXCEPT ![poller[p].task] = "FAILURE"]
  /\ Goes(p, NoTaskPoll)
  /\ UNCHANGED <<fundingUsed, keyUsed, adjusts, taskJob>>

\* What the winner of a final status does next.
AfterWrite(seen) ==
  CASE seen.to = "FAILURE" -> [seen EXCEPT !.at = "refund"]
    [] seen.to = "SUCCESS" -> [seen EXCEPT !.at = "reprice"]
    [] OTHER -> NoTaskPoll

\* Mut_* definitions are deliberate misreadings used to test properties.
Mut_UpdateUnguarded(p) ==
  /\ poller[p].at = "cas"
  /\ taskRow' = [taskRow EXCEPT ![poller[p].task] = poller[p].to]
  /\ Goes(p, AfterWrite(poller[p]))
  /\ UNCHANGED <<fundingUsed, keyUsed, adjusts, taskJob, pollFaults>>

\* Only the caller that moves the row out of the status it read goes on.
UpdateWithStatus(p) ==
  /\ poller[p].at = "cas"
  /\ LET seen == poller[p]
     IN IF taskRow[seen.task] = seen.from
          THEN taskRow' = [taskRow EXCEPT ![seen.task] = seen.to] /\ Goes(p, AfterWrite(seen))
          ELSE Goes(p, NoTaskPoll) /\ UNCHANGED taskRow
  /\ UNCHANGED <<fundingUsed, keyUsed, adjusts, taskJob, pollFaults>>

\* Task.Update of a Suno row saves what was read, whatever the row is by now.
SaveSuno(p) ==
  /\ poller[p].at = "save"
  /\ taskRow' = [taskRow EXCEPT ![poller[p].task] = poller[p].to]
  /\ Goes(p, NoTaskPoll)
  /\ UNCHANGED <<fundingUsed, keyUsed, adjusts, taskJob, pollFaults>>

Delta(at) == IF at \in {"refund", "refundKey"} THEN -Quota ELSE Actual - Quota

\* RefundTaskQuota and RecalculateTaskQuota: the funding source first ...
AdjustFunding(p) ==
  /\ poller[p].at \in {"refund", "reprice"}
  /\ LET t == poller[p].task
     IN /\ fundingUsed' = [fundingUsed EXCEPT ![t] = @ + Delta(poller[p].at)]
        /\ adjusts' = [adjusts EXCEPT ![t] = @ + 1]
  /\ Goes(p, [poller[p] EXCEPT !.at = [refund |-> "refundKey", reprice |-> "repriceKey"][@]])
  /\ UNCHANGED <<taskRow, keyUsed, taskJob, pollFaults>>

Mut_LeftUnsaved(p) == NoTaskPoll

Left(p) == IF poller[p].saves THEN [poller[p] EXCEPT !.at = "save"] ELSE NoTaskPoll

\* ... then the API key ...
AdjustKey(p) ==
  /\ poller[p].at \in {"refundKey", "repriceKey"}
  /\ keyUsed' = [keyUsed EXCEPT ![poller[p].task] = @ + Delta(poller[p].at)]
  /\ Goes(p, Left(p))
  /\ UNCHANGED <<taskRow, fundingUsed, adjusts, taskJob, pollFaults>>

\* ... and a failed adjustment ends the billing, not the pass.  A price that
\* cannot be computed keeps the quota of the submission.
AdjustFails(p) ==
  /\ poller[p].at \in {"refund", "reprice", "refundKey", "repriceKey"}
  /\ \/ PollFault
     \/ poller[p].at = "reprice" /\ UNCHANGED pollFaults
  /\ Goes(p, Left(p))
  /\ UNCHANGED <<taskRow, fundingUsed, keyUsed, adjusts, taskJob>>

PollerCrash(p) ==
  /\ poller[p] # NoTaskPoll /\ PollFault /\ Goes(p, NoTaskPoll)
  /\ UNCHANGED <<taskRow, fundingUsed, keyUsed, adjusts, taskJob>>

Poll(p) == \/ \E t \in Tasks : SweepTimedOutTasks(p, t) \/ ListUnfinished(p, t)
           \/ Fetch(p) \/ FailChannelTasks(p) \/ UpdateWithStatus(p) \/ SaveSuno(p)
           \/ AdjustFunding(p) \/ AdjustKey(p) \/ AdjustFails(p) \/ PollerCrash(p)

PollingNext == (\E t \in Tasks : Insert(t) \/ ProviderEnds(t)) \/ \E p \in Pollers : Poll(p)

PollingSpec == PollingInit /\ [][PollingNext]_pollingVars

-------------------------------------------------------------------------------
\* Types of the rows, the money and what the pollers have read.
PollingTypeOK ==
  /\ taskRow \in [Tasks -> {"absent", "lost"} \cup Unfinished \cup Final]
  /\ fundingUsed \in [Tasks -> Int] /\ keyUsed \in [Tasks -> Int]
  /\ adjusts \in [Tasks -> Nat] /\ pollFaults \in 0 .. MaxPollFaults
  /\ taskJob \in [Tasks -> {"running"} \cup Final]
  /\ poller \in [Pollers -> {NoTaskPoll} \cup TaskPollType]

Owing(t) == {p \in Pollers : poller[p] # NoTaskPoll /\ poller[p].task = t
                             /\ poller[p].at \in {"refund", "reprice"}}

\* A video task is refunded or repriced at most once, by one poller, whatever
\* the timeout sweep, the polls of other processes and the bulk failure of a
\* channel do in between; the key is adjusted only with the funding, and only
\* a failed task is free (UpdateWithStatus in service/task_polling.go).
BilledOnce ==
  \A t \in Tasks \ Suno :
    /\ adjusts[t] + Cardinality(Owing(t)) <= 1
    /\ fundingUsed[t] \in {Quota, Actual, 0}
    /\ keyUsed[t] \in {Quota, fundingUsed[t]}
    /\ fundingUsed[t] = 0 \/ (\E p \in Owing(t) : poller[p].at = "refund") =>
         taskRow[t] = "FAILURE"

\* A Suno task, refunded before its row is saved, is refunded again only after
\* a crash - when one process polls (updateSunoTasks).
SunoRefundedOncePerCrash ==
  Cardinality(Pollers) = 1 => \A t \in Suno : adjusts[t] <= 1 + pollFaults

\* Every task of the older billing is refunded or repriced once.
TasksBilledOnce == BilledOnce /\ SunoRefundedOncePerCrash
=============================================================================
