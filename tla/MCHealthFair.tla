----------------------------- MODULE MCHealthFair -----------------------------
(***************************************************************************)
(* What must eventually happen to the health of managed models, on small   *)
(* instances: queued verification cases close, tripped models are acted    *)
(* on, and the jobs of the outbox, which this module extends and           *)
(* health_fair.cfg gives its constants, are delivered.                     *)
(*                                                                         *)
(* The parts have no variable in common in this instance; part, chosen at  *)
(* the start, is the one that moves (see MCPayments).                      *)
(***************************************************************************)
EXTENDS HealthOutbox

CONSTANTS Parts, r1, w1

VARIABLES
  part,
  health, published, eligible, inflight, case, gate, routeState, accounted, incident,
  unpublish, routeAlerts, sent, worker, changes, faults

\* One route that may be disabled, for two generations of the model.
Probes == INSTANCE HealthVerification WITH
  Routes <- {r1}, Workers <- {w1}, MaxCases <- 3, MaxGeneration <- 2, Allocated <- 9,
  Reservation <- 2, Costs <- {2}, MaxChanges <- 2, MaxFaults <- 1

ASSUME Probes!HealthVerificationAssumption
-------------------------------------------------------------------------------
probeVars == <<health, published, eligible, inflight, case, gate, routeState, accounted,
               incident, unpublish, routeAlerts, sent, worker, changes, faults>>
healthVars == <<part, probeVars, outboxVars>>

HealthInit == part \in Parts /\ Probes!Init /\ OutboxInit

HealthNext ==
  /\ UNCHANGED part
  /\ IF part = "probes" THEN Probes!Next /\ UNCHANGED outboxVars
     ELSE OutboxNext /\ UNCHANGED probeVars

HealthSpec == HealthInit /\ [][HealthNext]_healthVars

\* A process of the service runs the workers, and time passes: leases and
\* delays end.
Fairness ==
  /\ WF_probeVars(part = "probes" /\ Probes!WorkerStep(w1))
  /\ \A c \in Probes!Cases :
       /\ WF_probeVars(part = "probes" /\ Probes!ExpireDispatch(c))
       /\ WF_probeVars(part = "probes" /\ Probes!LeaseExpires(c) /\ ~Probes!Working(c))
  /\ \A g \in Probes!Generations :
       WF_probeVars(part = "probes" /\ Probes!ProcessUnpublish(g))
  /\ \A w \in OutboxWorkers : WF_outboxVars(part = "outbox" /\ OutboxWorkerStep(w))
  /\ \A i \in 1..MaxJobs :
       /\ WF_outboxVars(part = "outbox" /\ RetryDue(i))
       /\ WF_outboxVars(part = "outbox" /\ ItemLeaseExpires(i))

HealthFairSpec == HealthSpec /\ Fairness
-------------------------------------------------------------------------------
\* Every queued case is closed, by a result or without one, and a tripped model
\* is unpublished or found to have a route again.
CasesEnd == Probes!CaseCloses /\ Probes!TripIsActedOn
===============================================================================
