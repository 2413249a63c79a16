-------------------------- MODULE HealthVerification --------------------------
(***************************************************************************)
(* Route verification of one published model (model/ztapi_health_verifi-   *)
(* cation.go, ztapi_health.go, ztapi_health_outbox.go, ztapi_health_veri-  *)
(* fication_pin.go and the worker loop of service/ztapi_health_worker.go). *)
(* A suspicious answer to a real request queues one paid probe for the     *)
(* route it took; a worker claims the case, reserves its cost, sends one   *)
(* probe through the relay pinned to the route and counts what it proves.  *)
(* Two failed probes open a route; when every eligible route is open the   *)
(* model trips, and an outbox job unpublishes it after looking again.  An  *)
(* administrator recovers the model into the next generation.              *)
(*                                                                         *)
(* A route is a channel with one of its keys, for one request shape.  Time *)
(* is kept as two flags, a lease that is alive and a gate that is cooling  *)
(* down.  A transaction is one step: the checks it makes are made at its   *)
(* commit.                                                                 *)
(***************************************************************************)
EXTENDS Naturals, FiniteSets, Functions

CONSTANTS Routes,
          Workers,        \* nodes that run the worker loop
          MaxCases,       \* verification cases in a behaviour
          MaxGeneration,  \* generations of the model
          Allocated,      \* the probe budget
          Reservation,    \* what a probe reserves
          Costs,          \* what a probe may turn out to cost
          MaxChanges,     \* times an administrator enables or disables a route
          MaxFaults       \* crashes, deferred claims and leases that run out on a worker

ASSUME HealthVerificationAssumption ==
    /\ MaxCases \in Nat \ {0} /\ MaxGeneration \in Nat \ {0}
    /\ Allocated \in Nat /\ Reservation \in Nat \ {0} /\ Costs \subseteq Nat
    /\ MaxChanges \in Nat /\ MaxFaults \in Nat

Cases == 1 .. MaxCases
Generations == 1 .. MaxGeneration
RouteKeys == Routes \X Generations  \* ZTAPIHealthRouteIdentity
Unfinished == {"queued", "claimed", "dispatching"}

VARIABLES
    health,      \* ZTAPIHealthState: [generation, open]
    published,   \* the model's publication
    eligible,    \* routes the publication authorises and the channels enable
    inflight,    \* real attempts admitted and not yet complete, by route key
    case,        \* case -> [state, key, attempts, live, estimate, result]
    gate,        \* route key -> [active, last, cooling]
    routeState,  \* route key -> [failures, open]
    accounted,   \* what the probe budget has accounted for
    incident,    \* generation -> "none", "open", "unpublished" or "recovered"
    unpublish,   \* generation -> status of the incident's unpublish job
    routeAlerts, \* cases a route alert was queued for
    sent,        \* case -> probes that reached the provider
    worker,      \* worker -> [pc, case, attempts, seen]
    changes, faults

vars == <<health, published, eligible, inflight, case, gate, routeState, accounted,
          incident, unpublish, routeAlerts, sent, worker, changes, faults>>

modelVars == <<health, published, incident, unpublish, routeAlerts>>

NoCase == [state |-> "none", key |-> <<>>, attempts |-> 0, live |-> FALSE,
           estimate |-> 0, result |-> "none"]
Queued(k) == [state |-> "queued", key |-> k, attempts |-> 0, live |-> FALSE,
              estimate |-> 0, result |-> "none"]
Idle == [pc |-> "idle", case |-> 0, attempts |-> 0, seen |-> "none"]

Init ==
    /\ health = [generation |-> 1, open |-> FALSE]
    /\ published = TRUE
    /\ eligible = Routes
    /\ inflight = {}
    /\ case = [c \in Cases |-> NoCase]
    /\ gate = [k \in RouteKeys |-> [active |-> 0, last |-> 0, cooling |-> FALSE]]
    /\ routeState = [k \in RouteKeys |-> [failures |-> 0, open |-> FALSE]]
    /\ accounted = 0
    /\ incident = [g \in Generations |-> "none"]
    /\ unpublish = [g \in Generations |-> "none"]
    /\ routeAlerts = {}
    /\ sent = [c \in Cases |-> 0]
    /\ worker = [w \in Workers |-> Idle]
    /\ changes = 0 /\ faults = 0

Fault == faults < MaxFaults /\ faults' = faults + 1
UsedCases == {c \in Cases : case[c].state # "none"}

(* -------------------------- real customer traffic ------------------------- *)

Current(r) == <<r, health.generation>>

\* AdmitRequest and AdmitAttempt of a real request: the model must be published
\* and closed, and the route it is about to take must not be open.
AdmitAttempt(r) ==
    /\ published /\ ~health.open /\ r \in eligible
    /\ ~routeState[Current(r)].open
    /\ Current(r) \notin inflight
    /\ inflight' = inflight \cup {Current(r)}
    /\ UNCHANGED <<modelVars, eligible, case, gate, routeState, accounted, sent, worker, changes, faults>>

\* The case of a gate is done with: another may follow after the cool-down.
Finished(k, c) == [gate EXCEPT ![k] = [active |-> 0, last |-> c, cooling |-> TRUE]]

\* Mut_* definitions are deliberate misreadings used to test properties.
Mut_StaleCases(k) == {}

\* Cases of the same route under another generation that have sent nothing.
StaleCases(k) ==
    {c \in Cases : case[c].state \in {"queued", "claimed"}
                   /\ case[c].key[1] = k[1] /\ case[c].key[2] # k[2]}

Close(c, result) ==
    [case[c] EXCEPT !.state = "cancelled", !.result = result, !.live = FALSE]

\* What a suspicion about route k leaves: cases of older generations are
\* cancelled; a new case is queued unless the route has one or is cooling down.
EnqueueSuspicion(k) ==
    LET stale == StaleCases(k)
        cases == [c \in Cases |-> IF c \in stale THEN Close(c, "route_changed") ELSE case[c]]
        gates == [j \in RouteKeys |->
                    IF gate[j].active \in stale
                    THEN [active |-> 0, last |-> gate[j].active, cooling |-> FALSE]
                    ELSE gate[j]]
        new == Cardinality(UsedCases) + 1
    IN  IF gate[k].active # 0 \/ gate[k].cooling
        THEN case' = cases /\ gate' = gates
        ELSE /\ new \in Cases
             /\ case' = [cases EXCEPT ![new] = Queued(k)]
             /\ gate' = [gates EXCEPT ![k].active = new]

CompleteSuspected(k) == EnqueueSuspicion(k) /\ UNCHANGED routeState

\* A success cancels the probe that has not been sent and clears the failures
\* of a closed route; it never closes an open one.
CompleteSuccess(k) ==
    LET c == gate[k].active IN
    /\ IF c # 0 /\ case[c].state \in {"queued", "claimed"}
       THEN /\ case' = [case EXCEPT ![c] = Close(c, "none")]
            /\ gate' = Finished(k, c)
       ELSE UNCHANGED <<case, gate>>
    /\ routeState' = IF routeState[k].open THEN routeState
                     ELSE [routeState EXCEPT ![k].failures = 0]

\* completeTx of a real request.  An outcome of an older generation is only
\* recorded; one that is neither success nor suspicion proves nothing.
CompleteRequest(k) ==
    /\ k \in inflight
    /\ inflight' = inflight \ {k}
    /\ \/ k[2] = health.generation /\ CompleteSuspected(k)
       \/ k[2] = health.generation /\ CompleteSuccess(k)
       \/ UNCHANGED <<case, gate, routeState>>
    /\ UNCHANGED <<modelVars, eligible, accounted, sent, worker, changes, faults>>

(* ------------------------------- the worker ------------------------------ *)

Holds(w) ==  \* lockClaimed- and lockDispatchingZTAPIHealthVerificationCase
    LET c == worker[w].case IN case[c].live /\ case[c].attempts = worker[w].attempts
HoldsGate(w) == LET c == worker[w].case IN gate[case[c].key].active = c

RouteActive(k) ==  \* productionZTAPIVerificationTarget
    published /\ ~health.open /\ k[2] = health.generation /\ k[1] \in eligible

Goto(w, pc) == worker' = [worker EXCEPT ![w].pc = pc]
Rest(w) == worker' = [worker EXCEPT ![w] = Idle]

Mut_Claimable(c) ==
    \/ case[c].state = "queued"
    \/ case[c].state \in {"claimed", "dispatching"} /\ ~case[c].live

Mut_ClaimableOnce(c) == case[c].state = "queued"

Claimable(c) == \/ case[c].state = "queued"
                \/ case[c].state = "claimed" /\ ~case[c].live

Claim(w, c) ==
    /\ worker[w].pc = "idle"
    /\ Claimable(c)
    /\ case' = [case EXCEPT ![c].state = "claimed", ![c].live = TRUE, ![c].attempts = @ + 1]
    /\ worker' = [worker EXCEPT ![w] = [pc |-> "claimed", case |-> c, seen |-> "none",
                                        attempts |-> case[c].attempts + 1]]
    /\ UNCHANGED <<modelVars, eligible, inflight, gate, routeState, accounted, sent, changes, faults>>

\* The probe's identity, its URL or the target cannot be read: the claim is put
\* back, if it is still held.
DeferClaim(w) ==
    /\ worker[w].pc = "claimed"
    /\ Fault
    /\ LET c == worker[w].case IN
       case' = IF Holds(w) /\ case[c].state = "claimed"
               THEN [case EXCEPT ![c].state = "queued", ![c].live = FALSE] ELSE case
    /\ Rest(w)
    /\ UNCHANGED <<modelVars, eligible, inflight, gate, routeState, accounted, sent, changes>>

\* The target is read before the dispatch transaction.
LoadTarget(w) ==
    /\ worker[w].pc = "claimed"
    /\ Goto(w, IF RouteActive(case[worker[w].case].key) THEN "checked" ELSE "changed")
    /\ UNCHANGED <<modelVars, eligible, inflight, case, gate, routeState, accounted, sent, changes, faults>>

CancelCase(c, result) ==
    /\ case' = [case EXCEPT ![c] = Close(c, result)]
    /\ gate' = Finished(case[c].key, c)

CancelClaim(w) ==
    LET c == worker[w].case IN
    /\ worker[w].pc = "changed"
    /\ IF HoldsGate(w) /\ Holds(w) /\ case[c].state = "claimed"
       THEN CancelCase(c, "route_changed")
       ELSE UNCHANGED <<case, gate>>
    /\ Rest(w)
    /\ UNCHANGED <<modelVars, eligible, inflight, routeState, accounted, sent, changes, faults>>

Affordable == accounted <= Allocated /\ Reservation <= Allocated - accounted

\* Under the gate: the claim must be held and the route unchanged, and the
\* budget must cover the reservation.
BeginDispatch(w) ==
    LET c == worker[w].case IN
    /\ worker[w].pc = "checked"
    /\ IF ~(HoldsGate(w) /\ Holds(w) /\ case[c].state = "claimed")
       THEN Rest(w) /\ UNCHANGED <<case, gate, accounted>>
       ELSE IF ~RouteActive(case[c].key)
       THEN CancelCase(c, "route_changed") /\ Rest(w) /\ UNCHANGED accounted
       ELSE IF ~Affordable
       THEN CancelCase(c, "budget_exhausted") /\ Rest(w) /\ UNCHANGED accounted
       ELSE /\ case' = [case EXCEPT ![c].state = "dispatching", ![c].estimate = Reservation]
            /\ accounted' = accounted + Reservation
            /\ Goto(w, "dispatched")
            /\ UNCHANGED gate
    /\ UNCHANGED <<modelVars, eligible, inflight, routeState, sent, changes, faults>>

\* The probe goes through the relay, which checks its pin and admits it as a
\* probe: an open route is no obstacle, an open model is.
SendProbe(w, answer) ==
    LET c == worker[w].case IN
    /\ worker[w].pc = "dispatched"
    /\ IF Holds(w) /\ case[c].state = "dispatching" /\ RouteActive(case[c].key)
       THEN /\ sent' = [sent EXCEPT ![c] = @ + 1]
            /\ worker' = [worker EXCEPT ![w].pc = "answered", ![w].seen = answer]
       ELSE /\ worker' = [worker EXCEPT ![w].pc = "answered", ![w].seen = "missing"]
            /\ UNCHANGED sent
    /\ UNCHANGED <<modelVars, eligible, inflight, case, gate, routeState, accounted, changes, faults>>

Settle(c, cost) ==  \* settleZTAPIHealthVerificationEstimate
    accounted + (IF cost > case[c].estimate THEN cost - case[c].estimate ELSE 0)

Done(c, state, result, cost) ==
    [case EXCEPT ![c].state = state, ![c].result = result, ![c].live = FALSE,
                 ![c].estimate = IF cost > @ THEN cost ELSE @]

Mut_AfterProbe(k, failed) ==
    IF failed /\ ~routeState[k].open
    THEN [routeState EXCEPT ![k] = [failures |-> 2, open |-> TRUE]]
    ELSE IF failed THEN routeState
    ELSE [routeState EXCEPT ![k] = [failures |-> 0, open |-> FALSE]]

\* A failed probe counts; the second opens the route.  A healthy one resets it.
AfterProbe(k, failed) ==
    IF ~failed THEN [routeState EXCEPT ![k] = [failures |-> 0, open |-> FALSE]]
    ELSE IF routeState[k].open THEN routeState
    ELSE [routeState EXCEPT ![k] = [failures |-> @.failures + 1, open |-> @.failures >= 1]]

\* evaluateZTAPIModelAvailabilityTx: a model with no eligible route, or one that
\* is not published, is not called unavailable.
AllUnavailable(g, states) ==
    published /\ eligible # {} /\ \A r \in eligible : states[<<r, g>>].open

\* The model trips: one incident per generation, with its unpublish job.
Trip(g) ==
    /\ health' = [health EXCEPT !.open = TRUE]
    /\ incident' = [incident EXCEPT ![g] = "open"]
    /\ unpublish' = [unpublish EXCEPT ![g] = "pending"]
    /\ UNCHANGED <<published, routeAlerts>>

Trips(k, states) ==
    AllUnavailable(k[2], states) /\ health.generation = k[2] /\ ~health.open

\* The incident of a generation is a unique row: a second cannot be inserted.
IncidentConflict(k, states) == Trips(k, states) /\ incident[k[2]] # "none"

CountFailure(c, k, states) ==
    IF ~states[k].open THEN UNCHANGED modelVars
    ELSE IF Trips(k, states) THEN Trip(k[2])
    ELSE IF AllUnavailable(k[2], states) /\ health.open THEN UNCHANGED modelVars
    ELSE /\ routeAlerts' = routeAlerts \cup {c}
         /\ UNCHANGED <<health, published, incident, unpublish>>

CompleteProbe(w, cost) ==
    LET c == worker[w].case
        k == case[c].key
        failed == worker[w].seen = "failure"
        states == AfterProbe(k, failed)
    IN
    /\ worker[w].pc = "answered" /\ worker[w].seen \in {"healthy", "failure"}
    /\ HoldsGate(w) /\ Holds(w) /\ case[c].state = "dispatching"
    /\ ~(failed /\ IncidentConflict(k, states))
    /\ routeState' = states
    /\ IF failed THEN CountFailure(c, k, states) ELSE UNCHANGED modelVars
    /\ case' = Done(c, "completed", worker[w].seen, cost)
    /\ gate' = Finished(k, c)
    /\ accounted' = Settle(c, cost)
    /\ Rest(w)
    /\ UNCHANGED <<eligible, inflight, sent, changes, faults>>

\* The transaction fails on the unique incident and is rolled back.
CompletionRefused(w) ==
    LET k == case[worker[w].case].key IN
    /\ worker[w].pc = "answered" /\ worker[w].seen = "failure"
    /\ HoldsGate(w) /\ Holds(w) /\ case[worker[w].case].state = "dispatching"
    /\ IncidentConflict(k, AfterProbe(k, TRUE))
    /\ worker' = [worker EXCEPT ![w] = [Idle EXCEPT !.seen = "refused"]]
    /\ UNCHANGED <<modelVars, eligible, inflight, case, gate, routeState, accounted, sent, changes, faults>>

CompleteUnknown(w, cost) ==
    LET c == worker[w].case IN
    /\ worker[w].pc = "answered" /\ worker[w].seen = "missing"
    /\ HoldsGate(w) /\ Holds(w) /\ case[c].state = "dispatching"
    /\ case' = Done(c, "unknown", "probe_missing", cost)
    /\ gate' = Finished(case[c].key, c)
    /\ accounted' = Settle(c, cost)
    /\ Rest(w)
    /\ UNCHANGED <<modelVars, eligible, inflight, routeState, sent, changes, faults>>

\* The lease ran out and the case was closed: what the probe proved is dropped.
CompletionLate(w) ==
    LET c == worker[w].case IN
    /\ worker[w].pc = "answered"
    /\ ~(HoldsGate(w) /\ Holds(w) /\ case[c].state = "dispatching")
    /\ Rest(w)
    /\ UNCHANGED <<modelVars, eligible, inflight, case, gate, routeState, accounted, sent, changes, faults>>

\* A dispatch whose lease ran out is closed as unknown and never sent again.
ExpireDispatch(c) ==
    /\ case[c].state = "dispatching" /\ ~case[c].live
    /\ case' = Done(c, "unknown", "dispatch_expired", 0)
    /\ gate' = IF gate[case[c].key].active \in {c, 0} THEN Finished(case[c].key, c) ELSE gate
    /\ UNCHANGED <<modelVars, eligible, inflight, routeState, accounted, sent, worker, changes, faults>>

Working(c) == \E w \in Workers : worker[w].pc # "idle" /\ worker[w].case = c

\* A lease outlasts the work it covers unless the worker died or was stalled.
LeaseExpires(c) ==
    /\ case[c].state \in {"claimed", "dispatching"} /\ case[c].live
    /\ IF Working(c) THEN Fault ELSE UNCHANGED faults
    /\ case' = [case EXCEPT ![c].live = FALSE]
    /\ UNCHANGED <<modelVars, eligible, inflight, gate, routeState, accounted, sent, worker, changes>>

\* The tick ends without completing: the process died or its context did.
WorkerStops(w) ==
    /\ worker[w].pc # "idle"
    /\ Fault
    /\ Rest(w)
    /\ UNCHANGED <<modelVars, eligible, inflight, case, gate, routeState, accounted, sent, changes>>

CoolDown(k) ==
    /\ gate[k].cooling
    /\ gate' = [gate EXCEPT ![k].cooling = FALSE]
    /\ UNCHANGED <<modelVars, eligible, inflight, case, routeState, accounted, sent, worker, changes, faults>>

(* --------------------------- outbox, administrator ------------------------ *)

JobIsCurrent(g) == health.open /\ health.generation = g

\* ProcessUnpublish: only the incident that is open now, and only if its routes
\* are still all unavailable; otherwise the model is closed again.
ProcessUnpublish(g) ==
    /\ unpublish[g] = "pending"
    /\ IF JobIsCurrent(g) /\ AllUnavailable(g, routeState)
       THEN /\ published' = FALSE
            /\ incident' = [incident EXCEPT ![g] = "unpublished"]
            /\ unpublish' = [unpublish EXCEPT ![g] = "done"]
            /\ UNCHANGED health
       ELSE /\ unpublish' = [unpublish EXCEPT ![g] = "superseded"]
            /\ IF JobIsCurrent(g)
               THEN /\ health' = [health EXCEPT !.open = FALSE]
                    /\ incident' = [incident EXCEPT ![g] = "recovered"]
               ELSE UNCHANGED <<health, incident>>
            /\ UNCHANGED published
    /\ UNCHANGED <<eligible, inflight, case, gate, routeState, accounted, routeAlerts, sent, worker, changes, faults>>

ManualRecover ==
    /\ health.open /\ health.generation < MaxGeneration
    /\ published' = FALSE
    /\ incident' = [incident EXCEPT ![health.generation] = "recovered"]
    /\ health' = [generation |-> health.generation + 1, open |-> FALSE]
    /\ UNCHANGED <<eligible, inflight, case, gate, routeState, accounted, unpublish, routeAlerts, sent, worker, changes, faults>>

Publish ==
    /\ ~published /\ ~health.open
    /\ published' = TRUE
    /\ UNCHANGED <<health, eligible, inflight, case, gate, routeState, accounted, incident, unpublish, routeAlerts, sent, worker, changes, faults>>

\* A channel, one of its keys or its ability is switched on or off.
ChangeRoute(r) ==
    /\ changes < MaxChanges
    /\ changes' = changes + 1
    /\ eligible' = IF r \in eligible THEN eligible \ {r} ELSE eligible \cup {r}
    /\ UNCHANGED <<modelVars, inflight, case, gate, routeState, accounted, sent, worker, faults>>

WorkerStep(w) ==
    \/ \E c \in Cases : Claim(w, c)
    \/ LoadTarget(w) \/ CancelClaim(w) \/ BeginDispatch(w)
    \/ \E answer \in {"healthy", "failure", "missing"} : SendProbe(w, answer)
    \/ \E cost \in Costs : CompleteProbe(w, cost) \/ CompleteUnknown(w, cost)
    \/ CompletionRefused(w) \/ CompletionLate(w)

Next ==
    \/ \E r \in Routes : AdmitAttempt(r) \/ ChangeRoute(r)
    \/ \E k \in RouteKeys : CompleteRequest(k) \/ CoolDown(k)
    \/ \E w \in Workers : WorkerStep(w) \/ DeferClaim(w) \/ WorkerStops(w)
    \/ \E c \in Cases : ExpireDispatch(c) \/ LeaseExpires(c)
    \/ \E g \in Generations : ProcessUnpublish(g)
    \/ ManualRecover \/ Publish

Spec == Init /\ [][Next]_vars

\* The loop ticks for ever, leases end on their own and jobs are processed;
\* customers and administrators owe nothing.
FairSpec ==
    /\ Spec
    /\ \A w \in Workers : WF_vars(WorkerStep(w))
    /\ \A c \in Cases : WF_vars(ExpireDispatch(c)) /\ WF_vars(LeaseExpires(c) /\ ~Working(c))
    /\ \A g \in Generations : WF_vars(ProcessUnpublish(g))

(* ------------------------------- properties ------------------------------- *)

States == {"none", "queued", "claimed", "dispatching", "completed", "unknown", "cancelled"}
Results == {"none", "route_changed", "budget_exhausted", "healthy", "failure",
            "probe_missing", "dispatch_expired"}
CaseType == [state : States, key : RouteKeys \cup {<<>>}, attempts : Nat, live : BOOLEAN,
             estimate : Nat, result : Results]
GateType == [active : Cases \cup {0}, last : Cases \cup {0}, cooling : BOOLEAN]
WorkerType == [pc : {"idle", "claimed", "checked", "changed", "dispatched", "answered"},
               case : Cases \cup {0}, attempts : Nat,
               seen : {"none", "healthy", "failure", "missing", "refused"}]

ModelTypeOK ==
    /\ health \in [generation : Generations, open : BOOLEAN]
    /\ published \in BOOLEAN /\ routeAlerts \subseteq Cases
    /\ incident \in [Generations -> {"none", "open", "unpublished", "recovered"}]
    /\ unpublish \in [Generations -> {"none", "pending", "done", "superseded"}]

CasesTypeOK ==
    /\ case \in [Cases -> CaseType] /\ \A c \in UsedCases : case[c].key \in RouteKeys
    /\ gate \in [RouteKeys -> GateType] /\ accounted \in Nat

RoutesTypeOK ==
    /\ eligible \subseteq Routes /\ inflight \subseteq RouteKeys
    /\ routeState \in [RouteKeys -> [failures : 0 .. 2, open : BOOLEAN]]
    /\ changes \in 0 .. MaxChanges

WorkersTypeOK ==
    /\ worker \in [Workers -> WorkerType] /\ sent \in [Cases -> Nat]
    /\ faults \in 0 .. MaxFaults

\* Types of the rows, and at most two counted failures.
HealthVerificationTypeOK == ModelTypeOK /\ CasesTypeOK /\ RoutesTypeOK /\ WorkersTypeOK

\* "Single spend per case": whatever crashes, leases and reclaims happen, a case
\* costs the provider at most one probe, and that one was reserved beforehand.
SingleSpend ==
    \A c \in Cases : sent[c] <= 1 /\ (sent[c] = 1 => case[c].estimate >= Reservation)

\* The budget accounts for every probe ever dispatched, once, at no less than it
\* was found to cost; dispatches alone never pass what was allocated.
BudgetCoversProbes ==
    /\ accounted = SumFunctionOnSet([c \in Cases |-> case[c].estimate], Cases)
    /\ Reservation * Cardinality({c \in Cases : case[c].estimate > 0}) <= Allocated

\* One paid case at a time per exact route, and the gate names it: no gate is
\* held by a finished case, and no unfinished one has lost its gate.
GateNamesActive ==
    \A c \in Cases : case[c].state \in Unfinished <=> \E k \in RouteKeys : gate[k].active = c

\* Once real traffic of a newer generation has queued a case for a route, no
\* case of an older generation of it can still be claimed and paid for.
OldCasesGiveWay ==
    \A c, d \in UsedCases :
        case[c].key[1] = case[d].key[1] /\ case[c].key[2] < case[d].key[2]
        => case[c].state \notin {"queued", "claimed"}

\* Real traffic cannot open a route: it takes two probes, of cases of their own,
\* that failed under this very generation with no healthy probe after them.
OpenNeedsTwoProbes ==
    \A k \in RouteKeys :
        LET proofs == {c \in Cases : case[c].key = k /\ case[c].state = "completed"}
            healthy == {c \in proofs : case[c].result = "healthy"}
        IN  routeState[k].open =>
                Cardinality({c \in proofs : case[c].result = "failure"
                                            /\ \A h \in healthy : h < c}) >= 2

\* A tripped model has the incident of its generation and a job that has not
\* given it up; a closed model of this generation has no job to unpublish it.
TripHasItsJob ==
    LET g == health.generation IN
    IF health.open
    THEN \/ incident[g] = "open" /\ unpublish[g] = "pending"
         \/ incident[g] = "unpublished" /\ unpublish[g] = "done" /\ ~published
    ELSE unpublish[g] \in {"none", "superseded"}

\* An open route is never silent: it was alerted, or the model it belongs to was.
OpenRouteReported ==
    \A k \in RouteKeys :
        routeState[k].open => \/ incident[k[2]] # "none"
                              \/ \E c \in routeAlerts : case[c].key = k

\* What the provider is paid for: no case twice, no probe without its reservation
\* and no route by two cases at a time (model/ztapi_health_verification.go).
ProbesPaidOnce == SingleSpend /\ BudgetCoversProbes /\ GateNamesActive

\* What is said of a route: it is open for two failed probes of its own, and then
\* somebody was told.
OpenRoutesProven == OpenNeedsTwoProbes /\ OpenRouteReported

\* What an older generation has left may neither be paid for nor unpublish the
\* model of the newer.
OlderGenerationsGiveWay == OldCasesGiveWay /\ TripHasItsJob

\* The catalog changes only for the incident that is open: a job of an older
\* generation never unpublishes what an administrator has published since.
OnlyTrippedUnpublished == [][published /\ ~published' => health.open]_vars

\* Every queued case is closed in the end, by a result or without one.
CaseCloses ==
    \A c \in Cases : case[c].state \in Unfinished ~> case[c].state \notin Unfinished

\* A tripped model is unpublished, or found to have a route again.
TripIsActedOn == health.open ~> (~published \/ ~health.open)

\* The comment in CompleteProbe: concurrent route opens must not "fail to
\* create the model incident".
FailureIsCounted == \A w \in Workers : worker[w].seen # "refused"
=============================================================================
