------------------------------ MODULE HealthProofs ------------------------------
(***************************************************************************)
(* Proofs about the health of managed models.                              *)
(*                                                                         *)
(* Route verification, for any number of routes, nodes, cases and genera-  *)
(* tions, any budget, and whatever crashes and late answers: what is paid  *)
(* for, what an open route proves, and what an older generation may still  *)
(* do.                                                                     *)
(*                                                                         *)
(* The outbox of alerts: the shapes of its rows and of the workers' items, *)
(* who may acknowledge a job, what a job that left the table has been      *)
(* through, and what the producers leave in the table.                     *)
(***************************************************************************)
EXTENDS HealthVerification, HealthOutbox, FiniteSums, SequenceTheorems

-------------------------------------------------------------------------------
(* The invariant. *)

Unsent == {"queued", "claimed"}
Dispatched == {"dispatching", "completed", "unknown"}

Paid == {c \in Cases : case[c].estimate > 0}

\* Cases are used in order, for routes of generations that have been.
CasesOrdered ==
  /\ UsedCases = 1..Cardinality(UsedCases)
  /\ \A c \in UsedCases : case[c].key[2] <= health.generation

\* A case that is not finished is the one its gate names, and the last of its route.
GatesNameCases ==
  /\ \A c \in Cases : case[c].state \in Unfinished => gate[case[c].key].active = c
  /\ \A k \in RouteKeys :
       LET c == gate[k].active IN c # 0 => case[c].state \in Unfinished /\ case[c].key = k
  /\ \A c, d \in UsedCases :
       case[c].key = case[d].key /\ c < d => case[c].state \notin Unfinished

\* Exactly the dispatched cases have a reservation, and the budget counts each.
ReservedCases ==
  /\ \A c \in Cases : IF case[c].state \in Dispatched
                      THEN case[c].estimate >= Reservation
                      ELSE case[c].estimate = 0
  /\ accounted = SumFunctionOnSet([c \in Cases |-> case[c].estimate], Cases)
  /\ Reservation * Cardinality(Paid) <= accounted
  /\ Reservation * Cardinality(Paid) <= Allocated

\* A worker that may still send is the only one for its case, and nothing was sent.
SendersAlone ==
  /\ \A c \in Cases : sent[c] <= 1 /\ (sent[c] = 1 => case[c].state \in Dispatched)
  /\ \A w \in Workers :
       /\ worker[w].pc # "idle" => worker[w].case \in UsedCases
       /\ worker[w].pc = "dispatched" => /\ case[worker[w].case].state \in Dispatched
                                         /\ sent[worker[w].case] = 0
  /\ \A v, w \in Workers : v # w /\ worker[v].pc = "dispatched" /\ worker[w].pc = "dispatched"
                           => worker[v].case # worker[w].case

\* Incidents and jobs belong to generations that have been.
IncidentsOrdered ==
  /\ \A g \in Generations :
       /\ g > health.generation => incident[g] = "none" /\ unpublish[g] = "none"
       /\ g < health.generation => incident[g] # "none"
  /\ TripHasItsJob

\* Alerts are of cases.
AlertsOfCases == routeAlerts \subseteq UsedCases

\* Failed probes of route k with no healthy one after them.
Proofs(k) == {c \in Cases : case[c].key = k /\ case[c].state = "completed"}
Failed(k) ==
  {c \in Proofs(k) : /\ case[c].result = "failure"
                     /\ \A h \in Proofs(k) : case[h].result = "healthy" => h < c}

FailuresProven ==
  \A k \in RouteKeys :
    IF routeState[k].open THEN Cardinality(Failed(k)) >= 2
    ELSE routeState[k].failures <= 1 /\ routeState[k].failures <= Cardinality(Failed(k))

HealthInv ==
  /\ HealthVerificationTypeOK
  /\ CasesOrdered /\ GatesNameCases /\ OldCasesGiveWay
  /\ ReservedCases /\ SendersAlone
  /\ IncidentsOrdered
  /\ FailuresProven /\ OpenRouteReported /\ AlertsOfCases

-------------------------------------------------------------------------------
(* What a step does to the model's row, its incidents and its publication. *)

\* Only probes, the outbox and administrators touch the model.
LEMMA ModelMoves ==
  ASSUME [Next]_vars
  PROVE  \/ UNCHANGED modelVars
         \/ \E w \in Workers, cost \in Costs : CompleteProbe(w, cost)
         \/ \E g \in Generations : ProcessUnpublish(g)
         \/ ManualRecover
         \/ Publish
  <1>1. CASE UNCHANGED vars
    BY <1>1 DEF vars, modelVars
  <1>2. ASSUME NEW r \in Routes, AdmitAttempt(r) \/ ChangeRoute(r)
        PROVE  UNCHANGED modelVars
    BY <1>2 DEF AdmitAttempt, ChangeRoute
  <1>3. ASSUME NEW k \in RouteKeys, CompleteRequest(k) \/ CoolDown(k)
        PROVE  UNCHANGED modelVars
    BY <1>3 DEF CompleteRequest, CoolDown
  <1>4. ASSUME NEW w \in Workers, NEW c \in Cases, Claim(w, c)
        PROVE  UNCHANGED modelVars
    BY <1>4 DEF Claim
  <1>5. ASSUME NEW w \in Workers, NEW answer, SendProbe(w, answer)
        PROVE  UNCHANGED modelVars
    BY <1>5 DEF SendProbe
  <1>6. ASSUME NEW w \in Workers, NEW cost \in Costs, CompleteUnknown(w, cost)
        PROVE  UNCHANGED modelVars
    BY <1>6 DEF CompleteUnknown
  <1>7. ASSUME NEW w \in Workers,
               LoadTarget(w) \/ CancelClaim(w) \/ BeginDispatch(w) \/ CompletionRefused(w)
                 \/ CompletionLate(w) \/ DeferClaim(w) \/ WorkerStops(w)
        PROVE  UNCHANGED modelVars
    BY <1>7 DEF LoadTarget, CancelClaim, BeginDispatch, CompletionRefused, CompletionLate,
                DeferClaim, WorkerStops
  <1>8. ASSUME NEW c \in Cases, ExpireDispatch(c) \/ LeaseExpires(c)
        PROVE  UNCHANGED modelVars
    BY <1>8 DEF ExpireDispatch, LeaseExpires
  <1>9. QED
    BY <1>1, <1>2, <1>3, <1>4, <1>5, <1>6, <1>7, <1>8 DEF Next, WorkerStep

\* A failed probe trips the model, alerts its route or says nothing; a healthy one is
\* silent.
Tripped(g) ==
  /\ health.generation = g /\ ~health.open /\ incident[g] = "none"
  /\ Trip(g)

Alerted(c) == routeAlerts' = routeAlerts \cup {c} /\ UNCHANGED <<health, published, incident, unpublish>>

\* Nothing else happens, and a failed probe that leaves its route open is not silent
\* unless an incident is open already.
LEMMA ProbeReports ==
  ASSUME HealthVerificationTypeOK, NEW w \in Workers, NEW cost, CompleteProbe(w, cost),
         worker[w].case \in UsedCases
  PROVE  LET c == worker[w].case
             k == case[c].key
         IN  /\ c \in Cases /\ k \in RouteKeys /\ k[2] \in Generations
             /\ Tripped(k[2]) \/ Alerted(c) \/ UNCHANGED modelVars
             /\ routeState' = AfterProbe(k, worker[w].seen = "failure")
             /\ \/ Tripped(k[2])
                \/ Alerted(c)
                \/ worker[w].seen # "failure"
                \/ ~routeState'[k].open
                \/ health.open
  <1> DEFINE c == worker[w].case
             k == case[c].key
             failed == worker[w].seen = "failure"
             states == AfterProbe(k, failed)
  <1>1. c \in Cases /\ k \in RouteKeys /\ k[2] \in Generations
    BY DEF HealthVerificationTypeOK, CasesTypeOK, UsedCases, RouteKeys
  <1>2. routeState' = states
    BY DEF CompleteProbe
  <1> HIDE DEF states
  <1>3. CASE ~failed
    <2>1. UNCHANGED modelVars
      BY <1>3 DEF CompleteProbe
    <2>2. QED
      BY <1>1, <1>2, <1>3, <2>1 DEF states
  <1>4. CASE failed
    <2>1. CountFailure(c, k, states) /\ ~IncidentConflict(k, states)
      BY <1>4 DEF CompleteProbe, states
    <2>2. CASE ~states[k].open
      <3>1. UNCHANGED modelVars
        BY <2>1, <2>2 DEF CountFailure
      <3>2. QED
        BY <1>1, <1>2, <2>2, <3>1 DEF states
    <2>3. CASE states[k].open /\ Trips(k, states)
      <3>1. Trip(k[2])
        BY <2>1, <2>3 DEF CountFailure
      <3>2. Tripped(k[2])
        BY <2>1, <2>3, <3>1 DEF IncidentConflict, Trips, Tripped
      <3>3. QED
        BY <1>1, <1>2, <3>2 DEF states
    <2>4. CASE states[k].open /\ ~Trips(k, states) /\ AllUnavailable(k[2], states) /\ health.open
      <3>1. UNCHANGED modelVars
        BY <2>1, <2>4 DEF CountFailure
      <3>2. QED
        BY <1>1, <1>2, <2>4, <3>1 DEF states
    <2>5. CASE states[k].open /\ ~Trips(k, states)
               /\ ~(AllUnavailable(k[2], states) /\ health.open)
      <3>1. Alerted(c)
        BY <2>1, <2>5 DEF CountFailure, Alerted
      <3>2. QED
        BY <1>1, <1>2, <3>1 DEF states
    <2>6. QED
      BY <2>2, <2>3, <2>4, <2>5
  <1>5. QED
    BY <1>3, <1>4

\* The model keeps its types, and its incidents their order.
ModelInv == ModelTypeOK /\ IncidentsOrdered

\* Every step keeps both.
LEMMA ModelStep ==
  ASSUME HealthVerificationTypeOK, IncidentsOrdered, SendersAlone, [Next]_vars
  PROVE  ModelInv'
  <1>0. /\ health \in [generation : Generations, open : BOOLEAN] /\ health.generation \in Generations
        /\ incident \in [Generations -> {"none", "open", "unpublished", "recovered"}]
        /\ unpublish \in [Generations -> {"none", "pending", "done", "superseded"}]
        /\ published \in BOOLEAN /\ routeAlerts \subseteq Cases
        /\ Generations \subseteq Nat
    BY DEF HealthVerificationTypeOK, ModelTypeOK, Generations
  <1>1. CASE UNCHANGED modelVars
    BY <1>1 DEF modelVars, ModelInv, HealthVerificationTypeOK, ModelTypeOK, IncidentsOrdered,
                TripHasItsJob
  <1>2. ASSUME NEW g \in Generations, Tripped(g)
        PROVE  ModelInv'
    <2>1. /\ health' = [health EXCEPT !.open = TRUE] /\ incident' = [incident EXCEPT ![g] = "open"]
          /\ unpublish' = [unpublish EXCEPT ![g] = "pending"] /\ published' = published
          /\ routeAlerts' = routeAlerts /\ health.generation = g
      BY <1>2 DEF Tripped, Trip
    <2>2. health' \in [generation : Generations, open : BOOLEAN] /\ health'.generation = g
          /\ health'.open
      BY <1>0, <2>1
    <2>3. incident'[g] = "open" /\ unpublish'[g] = "pending"
          /\ \A h \in Generations : h # g => incident'[h] = incident[h] /\ unpublish'[h] = unpublish[h]
      BY <1>0, <2>1
    <2>4. ModelTypeOK'
      BY <1>0, <2>1, <2>2 DEF ModelTypeOK
    <2>5. \A h \in Generations : /\ h > g => incident'[h] = "none" /\ unpublish'[h] = "none"
                                 /\ h < g => incident'[h] # "none"
      BY <1>0, <2>1, <2>3 DEF IncidentsOrdered
    <2>6. TripHasItsJob'
      BY <2>2, <2>3 DEF TripHasItsJob
    <2>7. QED
      BY <2>2, <2>4, <2>5, <2>6 DEF ModelInv, IncidentsOrdered
  <1>3. ASSUME NEW c \in Cases, Alerted(c)
        PROVE  ModelInv'
    BY <1>0, <1>3 DEF Alerted, ModelInv, ModelTypeOK, IncidentsOrdered, TripHasItsJob
  <1>4. ASSUME NEW w \in Workers, NEW cost \in Costs, CompleteProbe(w, cost)
        PROVE  ModelInv'
    <2>1. worker[w].pc # "idle"
      BY <1>4 DEF CompleteProbe
    <2>2. worker[w].case \in UsedCases
      BY <2>1 DEF SendersAlone
    <2>3. QED
      BY <1>1, <1>2, <1>3, <1>4, <2>2, ProbeReports
  <1>5. ASSUME NEW g \in Generations, ProcessUnpublish(g)
        PROVE  ModelInv'
    <2>0. unpublish[g] = "pending" /\ routeAlerts' = routeAlerts
      BY <1>5 DEF ProcessUnpublish
    <2>1. CASE JobIsCurrent(g) /\ AllUnavailable(g, routeState)
      <3>1. /\ published' = FALSE /\ incident' = [incident EXCEPT ![g] = "unpublished"]
            /\ unpublish' = [unpublish EXCEPT ![g] = "done"] /\ health' = health
            /\ health.open /\ health.generation = g
        BY <1>5, <2>1 DEF ProcessUnpublish, JobIsCurrent
      <3>2. ModelTypeOK'
        BY <1>0, <2>0, <3>1 DEF ModelTypeOK
      <3>3. incident'[g] = "unpublished" /\ unpublish'[g] = "done"
            /\ \A h \in Generations : h # g => incident'[h] = incident[h] /\ unpublish'[h] = unpublish[h]
        BY <1>0, <3>1
      <3>4. IncidentsOrdered'
        BY <1>0, <3>1, <3>3 DEF IncidentsOrdered, TripHasItsJob
      <3>5. QED
        BY <3>2, <3>4 DEF ModelInv
    <2>2. CASE JobIsCurrent(g) /\ ~AllUnavailable(g, routeState)
      <3>1. /\ health' = [health EXCEPT !.open = FALSE]
            /\ incident' = [incident EXCEPT ![g] = "recovered"]
            /\ unpublish' = [unpublish EXCEPT ![g] = "superseded"] /\ published' = published
            /\ health.generation = g
        BY <1>5, <2>2 DEF ProcessUnpublish, JobIsCurrent
      <3>2. health' \in [generation : Generations, open : BOOLEAN] /\ health'.generation = g
            /\ ~health'.open
        BY <1>0, <3>1
      <3>3. ModelTypeOK'
        BY <1>0, <2>0, <3>1, <3>2 DEF ModelTypeOK
      <3>4. incident'[g] = "recovered" /\ unpublish'[g] = "superseded"
            /\ \A h \in Generations : h # g => incident'[h] = incident[h] /\ unpublish'[h] = unpublish[h]
        BY <1>0, <3>1
      <3>5. IncidentsOrdered'
        BY <1>0, <3>1, <3>2, <3>4 DEF IncidentsOrdered, TripHasItsJob
      <3>6. QED
        BY <3>3, <3>5 DEF ModelInv
    <2>3. CASE ~JobIsCurrent(g)
      <3>1. /\ health' = health /\ incident' = incident /\ published' = published
            /\ unpublish' = [unpublish EXCEPT ![g] = "superseded"]
            /\ ~(health.open /\ health.generation = g)
        BY <1>5, <2>3 DEF ProcessUnpublish, JobIsCurrent
      <3>2. ModelTypeOK'
        BY <1>0, <2>0, <3>1 DEF ModelTypeOK
      <3>3. unpublish'[g] = "superseded"
            /\ \A h \in Generations : h # g => unpublish'[h] = unpublish[h]
        BY <1>0, <3>1
      <3>4. IncidentsOrdered'
        BY <1>0, <2>0, <3>1, <3>3 DEF IncidentsOrdered, TripHasItsJob
      <3>5. QED
        BY <3>2, <3>4 DEF ModelInv
    <2>4. QED
      BY <2>1, <2>2, <2>3
  <1>6. CASE ManualRecover
    <2> DEFINE g == health.generation
    <2>1. /\ health.open /\ g < MaxGeneration /\ published' = FALSE
          /\ incident' = [incident EXCEPT ![g] = "recovered"]
          /\ health' = [generation |-> g + 1, open |-> FALSE]
          /\ unpublish' = unpublish /\ routeAlerts' = routeAlerts
      BY <1>6 DEF ManualRecover
    <2>2. g + 1 \in Generations
      BY <1>0, <2>1, HealthVerificationAssumption DEF Generations
    <2>3. ModelTypeOK'
      BY <1>0, <2>1, <2>2 DEF ModelTypeOK
    <2>4. health'.generation = g + 1 /\ ~health'.open /\ incident'[g] = "recovered"
          /\ \A h \in Generations : h # g => incident'[h] = incident[h]
      BY <1>0, <2>1
    <2>5. ASSUME NEW h \in Generations
          PROVE  /\ h > g + 1 => incident'[h] = "none" /\ unpublish'[h] = "none"
                 /\ h < g + 1 => incident'[h] # "none"
      <3>1. h > g => incident[h] = "none" /\ unpublish[h] = "none"
        BY DEF IncidentsOrdered
      <3>2. h < g => incident[h] # "none"
        BY DEF IncidentsOrdered
      <3>3. (h < g + 1 => h = g \/ h < g) /\ (h > g + 1 => h > g /\ h # g)
        <4>1. h \in Nat /\ g \in Nat
          BY <1>0
        <4> HIDE DEF g
        <4>2. QED
          BY <4>1
      <3>4. QED
        BY <2>1, <2>4, <3>1, <3>2, <3>3
    <2>6. unpublish'[g + 1] = "none"
      <3>1. g + 1 > g
        <4>1. g \in Nat
          BY <1>0
        <4> HIDE DEF g
        <4>2. QED
          BY <4>1
      <3>2. unpublish[g + 1] = "none"
        BY <2>2, <3>1 DEF IncidentsOrdered
      <3>3. QED
        BY <2>1, <3>2
    <2>7. TripHasItsJob'
      BY <2>4, <2>6 DEF TripHasItsJob
    <2>8. IncidentsOrdered'
      <3>1. health'.generation = g + 1
        BY <2>4
      <3> HIDE DEF g
      <3>2. QED
        BY <2>5, <2>7, <3>1 DEF IncidentsOrdered
    <2>9. QED
      BY <2>3, <2>8 DEF ModelInv
  <1>7. CASE Publish
    <2>1. /\ published' = TRUE /\ ~health.open /\ health' = health /\ incident' = incident
          /\ unpublish' = unpublish /\ routeAlerts' = routeAlerts
      BY <1>7 DEF Publish
    <2>2. ModelTypeOK'
      BY <1>0, <2>1 DEF ModelTypeOK
    <2>3. IncidentsOrdered'
      BY <2>1 DEF IncidentsOrdered, TripHasItsJob
    <2>4. QED
      BY <2>2, <2>3 DEF ModelInv
  <1>8. QED
    BY <1>1, <1>4, <1>5, <1>6, <1>7, ModelMoves

-------------------------------------------------------------------------------
(* What a step does to the cases, the gates and the budget. *)

SameActive == \A k \in RouteKeys : gate'[k].active = gate[k].active
Released(j) == \A k \in RouteKeys : gate'[k].active = IF k = j THEN 0 ELSE gate[k].active

Untouched == case' = case /\ SameActive /\ accounted' = accounted

\* Case c alone changes, and stays one of its route.
Rewrites(c) ==
  /\ case[c].state # "none" /\ case'[c].state # "none" /\ case'[c].key = case[c].key
  /\ \A d \in Cases : d # c => case'[d] = case[d]

\* It is claimed, put back or loses its lease.
Keeps(c) ==
  /\ Rewrites(c) /\ SameActive /\ accounted' = accounted
  /\ case'[c].state = case[c].state \/ {case[c].state, case'[c].state} \subseteq Unsent
  /\ case'[c].estimate = case[c].estimate /\ case'[c].result = case[c].result

\* It is closed before anything was sent.
Cancels(c) ==
  /\ Rewrites(c) /\ Released(case[c].key) /\ accounted' = accounted
  /\ case[c].state \in Unsent /\ case'[c].state = "cancelled"
  /\ case'[c].estimate = case[c].estimate

\* Its reservation is taken from the budget.
Dispatches(c) ==
  /\ Rewrites(c) /\ SameActive
  /\ case[c].state = "claimed" /\ case'[c].state = "dispatching"
  /\ Affordable /\ case'[c].estimate = Reservation /\ accounted' = accounted + Reservation

\* Its probe is counted or given up.
Counts(c) == \E w \in Workers, cost \in Costs : CompleteProbe(w, cost) /\ worker[w].case = c

Finishes(c) ==
  /\ Rewrites(c) /\ Released(case[c].key)
  /\ case'[c].state = "completed" => Counts(c)
  /\ case[c].state = "dispatching" /\ case'[c].state \in {"completed", "unknown"}
  /\ case'[c].estimate >= case[c].estimate
  /\ accounted' = accounted + (case'[c].estimate - case[c].estimate)

\* A suspicion about route k closes the stale cases and queues case n, unless it is 0.
Enqueues(k, n) ==
  /\ k[2] = health.generation /\ accounted' = accounted
  /\ n # 0 => n = Cardinality(UsedCases) + 1 /\ n \in Cases /\ gate[k].active = 0
  /\ n # 0 => case'[n] = Queued(k)
  /\ \A c \in Cases \ {n} :
       IF c \in StaleCases(k)
       THEN /\ case'[c].state = "cancelled" /\ case'[c].key = case[c].key
            /\ case'[c].estimate = case[c].estimate
       ELSE case'[c] = case[c]
  /\ \A j \in RouteKeys :
       gate'[j].active = IF gate[j].active \in StaleCases(k) THEN 0
                         ELSE IF j = k /\ n # 0 THEN n ELSE gate[j].active

CaseMoves ==
  \/ Untouched
  \/ \E c \in Cases : Keeps(c) \/ Cancels(c) \/ Dispatches(c) \/ Finishes(c)
  \/ \E k \in RouteKeys, n \in Cases \cup {0} : Enqueues(k, n)

\* Numbers and keys of the rows.
LEMMA RowTypes ==
  ASSUME HealthVerificationTypeOK
  PROVE  /\ case \in [Cases -> CaseType] /\ gate \in [RouteKeys -> GateType]
         /\ accounted \in Nat /\ worker \in [Workers -> WorkerType]
         /\ \A c \in Cases : /\ case[c] \in CaseType /\ case[c].estimate \in Nat
                             /\ case[c].attempts \in Nat /\ c \in Nat \ {0}
         /\ \A c \in UsedCases : c \in Cases /\ case[c].key \in RouteKeys
         /\ \A c \in Cases : case[c].state # "none" => c \in UsedCases
         /\ MaxCases \in Nat /\ Reservation \in Nat \ {0} /\ 0 \notin Cases
  BY HealthVerificationAssumption
     DEF HealthVerificationTypeOK, CasesTypeOK, WorkersTypeOK, CaseType, Cases, UsedCases

\* A rewritten case leaves the types.
LEMMA RewriteTypes ==
  ASSUME HealthVerificationTypeOK, NEW c \in Cases, NEW row \in CaseType,
         case[c].state # "none", row.state # "none", row.key = case[c].key,
         case' = [case EXCEPT ![c] = row],
         gate' \in [RouteKeys -> GateType], accounted' \in Nat
  PROVE  CasesTypeOK' /\ Rewrites(c) /\ case'[c] = row
  <1>1. case' \in [Cases -> CaseType] /\ case'[c] = row
        /\ \A d \in Cases : d # c => case'[d] = case[d]
    BY RowTypes
  <1>2. \A d \in UsedCases' : d \in UsedCases /\ case'[d].key = case[d].key
    BY <1>1 DEF UsedCases
  <1>3. QED
    BY <1>1, <1>2, RowTypes DEF CasesTypeOK, Rewrites

\* A gate that lets its case go.
LEMMA FinishedGate ==
  ASSUME HealthVerificationTypeOK, NEW k \in RouteKeys, NEW c \in Cases,
         gate' = Finished(k, c)
  PROVE  gate' \in [RouteKeys -> GateType] /\ Released(k)
  <1> DEFINE g == [active |-> 0, last |-> c, cooling |-> TRUE]
  <1>1. g \in GateType
    BY DEF GateType
  <1>2. gate' = [gate EXCEPT ![k] = g] /\ g.active = 0
    BY DEF Finished
  <1> HIDE DEF g
  <1>3. QED
    BY <1>1, <1>2, RowTypes DEF Released

\* Claims, deferred claims and leases that end.
LEMMA KeepsStep ==
  ASSUME HealthVerificationTypeOK, SendersAlone,
         \/ \E w \in Workers, c \in Cases : Claim(w, c)
         \/ \E w \in Workers : DeferClaim(w)
         \/ \E c \in Cases : LeaseExpires(c)
  PROVE  CasesTypeOK' /\ CaseMoves
  <1>0. ASSUME case' = case, gate' = gate, accounted' = accounted
        PROVE  CasesTypeOK' /\ CaseMoves
    BY <1>0, RowTypes DEF CasesTypeOK, UsedCases, CaseMoves, Untouched, SameActive
  <1>1. ASSUME NEW c \in Cases, NEW s \in Unfinished, NEW n \in Nat, NEW b \in BOOLEAN,
               case[c].state = s \/ {case[c].state, s} \subseteq Unsent,
               case' = [case EXCEPT ![c] = [case[c] EXCEPT !.state = s, !.live = b, !.attempts = n]],
               gate' = gate, accounted' = accounted
        PROVE  CasesTypeOK' /\ CaseMoves
    <2> DEFINE row == [case[c] EXCEPT !.state = s, !.live = b, !.attempts = n]
    <2>1. case[c].state # "none"
      BY <1>1 DEF Unsent, Unfinished
    <2>2. /\ row \in CaseType /\ row.state = s /\ row.key = case[c].key
          /\ row.estimate = case[c].estimate /\ row.result = case[c].result
      BY RowTypes DEF CaseType, Unfinished, States
    <2>3. row.state # "none" /\ gate' \in [RouteKeys -> GateType] /\ accounted' \in Nat
      BY <1>1, <2>2, RowTypes DEF Unfinished
    <2>4. case' = [case EXCEPT ![c] = row]
      BY <1>1
    <2> HIDE DEF row
    <2>5. CasesTypeOK' /\ Rewrites(c) /\ case'[c] = row
      BY <2>1, <2>2, <2>3, <2>4, RewriteTypes
    <2>6. Keeps(c)
      BY <1>1, <2>2, <2>5 DEF Keeps, SameActive
    <2>7. QED
      BY <2>5, <2>6 DEF CaseMoves
  <1>2. ASSUME NEW w \in Workers, NEW c \in Cases, Claim(w, c)
        PROVE  CasesTypeOK' /\ CaseMoves
    <2>1. case[c].state \in Unsent /\ gate' = gate /\ accounted' = accounted
      BY <1>2 DEF Claim, Claimable, Unsent
    <2>2. case' = [case EXCEPT ![c] = [case[c] EXCEPT !.state = "claimed", !.live = TRUE,
                                                      !.attempts = case[c].attempts + 1]]
      BY <1>2, RowTypes DEF Claim
    <2>3. case[c].attempts + 1 \in Nat /\ "claimed" \in Unfinished
          /\ {case[c].state, "claimed"} \subseteq Unsent
      BY <2>1, RowTypes DEF Unfinished, Unsent
    <2>4. QED
      BY <1>1, <2>1, <2>2, <2>3
  <1>3. ASSUME NEW w \in Workers, DeferClaim(w)
        PROVE  CasesTypeOK' /\ CaseMoves
    <2> DEFINE c == worker[w].case
    <2>1. c \in Cases /\ gate' = gate /\ accounted' = accounted
      BY <1>3, RowTypes DEF DeferClaim, SendersAlone
    <2>2. CASE Holds(w) /\ case[c].state = "claimed"
      <3>1. case' = [case EXCEPT ![c].state = "queued", ![c].live = FALSE]
        BY <1>3, <2>2 DEF DeferClaim
      <3>2. case' = [case EXCEPT ![c] = [case[c] EXCEPT !.state = "queued", !.live = FALSE,
                                                        !.attempts = case[c].attempts]]
        <4> HIDE DEF c
        <4>1. QED
          BY <2>1, <3>1, RowTypes DEF CaseType
      <3>3. case[c].attempts \in Nat /\ "queued" \in Unfinished
            /\ {case[c].state, "queued"} \subseteq Unsent
        BY <2>1, <2>2, RowTypes DEF Unfinished, Unsent
      <3>4. QED
        BY <1>1, <2>1, <3>2, <3>3
    <2>3. CASE ~(Holds(w) /\ case[c].state = "claimed")
      BY <1>0, <1>3, <2>1, <2>3 DEF DeferClaim
    <2>4. QED
      BY <2>2, <2>3
  <1>4. ASSUME NEW c \in Cases, LeaseExpires(c)
        PROVE  CasesTypeOK' /\ CaseMoves
    <2>1. /\ case[c].state \in Unfinished /\ gate' = gate /\ accounted' = accounted
          /\ case' = [case EXCEPT ![c].live = FALSE]
      BY <1>4 DEF LeaseExpires, Unfinished
    <2>2. case' = [case EXCEPT ![c] = [case[c] EXCEPT !.state = case[c].state, !.live = FALSE,
                                                      !.attempts = case[c].attempts]]
      BY <2>1, RowTypes DEF CaseType
    <2>3. QED
      BY <1>1, <2>1, <2>2, RowTypes
  <1>5. QED
    BY <1>2, <1>3, <1>4

\* A case that is closed before its probe.
LEMMA CancelTypes ==
  ASSUME HealthVerificationTypeOK, NEW c \in Cases, case[c].state \in Unsent,
         NEW result \in Results, case' = [case EXCEPT ![c] = Close(c, result)],
         gate' = Finished(case[c].key, c), accounted' = accounted
  PROVE  CasesTypeOK' /\ CaseMoves
  <1> DEFINE row == Close(c, result)
  <1>1. case[c].state # "none" /\ case[c].key \in RouteKeys
    BY RowTypes DEF Unsent
  <1>2. /\ row \in CaseType /\ row.state = "cancelled" /\ row.key = case[c].key
        /\ row.estimate = case[c].estimate
    BY RowTypes DEF Close, CaseType, States
  <1>3. gate' \in [RouteKeys -> GateType] /\ Released(case[c].key)
    BY <1>1, FinishedGate
  <1>4. row.state # "none" /\ accounted' \in Nat /\ case' = [case EXCEPT ![c] = row]
    BY <1>2, RowTypes
  <1> HIDE DEF row
  <1>5. CasesTypeOK' /\ Rewrites(c) /\ case'[c] = row
    BY <1>1, <1>2, <1>3, <1>4, RewriteTypes
  <1>6. Cancels(c)
    BY <1>2, <1>3, <1>5 DEF Cancels
  <1>7. QED
    BY <1>5, <1>6 DEF CaseMoves

\* A case whose probe is over.
LEMMA FinishTypes ==
  ASSUME HealthVerificationTypeOK, NEW c \in Cases, case[c].state = "dispatching",
         NEW s \in {"completed", "unknown"}, NEW result \in Results, NEW cost \in Nat,
         case' = Done(c, s, result, cost), gate' = Finished(case[c].key, c),
         accounted' = Settle(c, cost), s = "completed" => Counts(c)
  PROVE  /\ CasesTypeOK' /\ CaseMoves /\ Finishes(c)
         /\ case'[c].state = s /\ case'[c].result = result
  <1> DEFINE e == IF cost > case[c].estimate THEN cost ELSE case[c].estimate
             row == [case[c] EXCEPT !.state = s, !.result = result, !.live = FALSE, !.estimate = e]
  <1>1. case[c].state # "none" /\ case[c].key \in RouteKeys
    BY RowTypes
  <1>2. e \in Nat /\ e >= case[c].estimate
        /\ (IF cost > case[c].estimate THEN cost - case[c].estimate ELSE 0) = e - case[c].estimate
    BY RowTypes
  <1>3. case' = [case EXCEPT ![c] = row]
    BY RowTypes DEF Done, CaseType
  <1>4. accounted' = accounted + (e - case[c].estimate)
    BY <1>2 DEF Settle
  <1> HIDE DEF e
  <1>5. /\ row \in CaseType /\ row.state = s /\ row.key = case[c].key
        /\ row.result = result /\ row.estimate = e
    <2>1. case[c] \in CaseType /\ e \in Nat /\ s \in States
      BY <1>2, RowTypes DEF States
    <2>2. QED
      BY <2>1 DEF CaseType
  <1>6. gate' \in [RouteKeys -> GateType] /\ Released(case[c].key)
    BY <1>1, FinishedGate
  <1>7. row.state # "none" /\ accounted' \in Nat
    BY <1>2, <1>4, <1>5, RowTypes
  <1> HIDE DEF row
  <1>8. CasesTypeOK' /\ Rewrites(c) /\ case'[c] = row
    BY <1>1, <1>3, <1>5, <1>6, <1>7, RewriteTypes
  <1>9. Finishes(c)
    BY <1>2, <1>4, <1>5, <1>6, <1>8 DEF Finishes
  <1>10. QED
    BY <1>5, <1>8, <1>9 DEF CaseMoves

\* The steps that finish a probe.
LEMMA FinishesStep ==
  ASSUME HealthVerificationTypeOK, GatesNameCases, SendersAlone,
         \/ \E w \in Workers, cost \in Costs : CompleteProbe(w, cost) \/ CompleteUnknown(w, cost)
         \/ \E c \in Cases : ExpireDispatch(c)
  PROVE  CasesTypeOK' /\ CaseMoves
  <1>1. ASSUME NEW w \in Workers, NEW cost \in Costs, CompleteProbe(w, cost)
        PROVE  CasesTypeOK' /\ CaseMoves
    <2> DEFINE c == worker[w].case
    <2>1. c \in Cases /\ cost \in Nat /\ case[c].state = "dispatching"
      BY <1>1, RowTypes, HealthVerificationAssumption DEF CompleteProbe, SendersAlone
    <2>2. /\ case' = Done(c, "completed", worker[w].seen, cost)
          /\ gate' = Finished(case[c].key, c) /\ accounted' = Settle(c, cost)
          /\ worker[w].seen \in Results /\ Counts(c)
      BY <1>1 DEF CompleteProbe, Results, Counts
    <2> HIDE DEF c
    <2>3. QED
      BY <2>1, <2>2, FinishTypes
  <1>2. ASSUME NEW w \in Workers, NEW cost \in Costs, CompleteUnknown(w, cost)
        PROVE  CasesTypeOK' /\ CaseMoves
    <2> DEFINE c == worker[w].case
    <2>1. c \in Cases /\ cost \in Nat /\ case[c].state = "dispatching"
      BY <1>2, RowTypes, HealthVerificationAssumption DEF CompleteUnknown, SendersAlone
    <2>2. /\ case' = Done(c, "unknown", "probe_missing", cost)
          /\ gate' = Finished(case[c].key, c) /\ accounted' = Settle(c, cost)
          /\ "probe_missing" \in Results
      BY <1>2 DEF CompleteUnknown, Results
    <2> HIDE DEF c
    <2>3. QED
      BY <2>1, <2>2, FinishTypes
  <1>3. ASSUME NEW c \in Cases, ExpireDispatch(c)
        PROVE  CasesTypeOK' /\ CaseMoves
    <2>1. case[c].state = "dispatching" /\ gate[case[c].key].active = c
      BY <1>3 DEF ExpireDispatch, GatesNameCases, Unfinished
    <2>2. case' = Done(c, "unknown", "dispatch_expired", 0) /\ "dispatch_expired" \in Results
          /\ gate' = Finished(case[c].key, c)
      BY <1>3, <2>1 DEF ExpireDispatch, Results
    <2>3. accounted' = Settle(c, 0)
      <3>1. ~(0 > case[c].estimate) /\ accounted \in Nat
        BY RowTypes
      <3>2. QED
        BY <1>3, <3>1 DEF ExpireDispatch, Settle
    <2>4. QED
      BY <2>1, <2>2, <2>3, FinishTypes
  <1>4. QED
    BY <1>1, <1>2, <1>3

\* A dispatch, or why there is none.
LEMMA DispatchStep ==
  ASSUME HealthVerificationTypeOK, SendersAlone, NEW w \in Workers,
         CancelClaim(w) \/ BeginDispatch(w)
  PROVE  CasesTypeOK' /\ CaseMoves
  <1> DEFINE c == worker[w].case
  <1>1. c \in Cases
    BY RowTypes DEF SendersAlone, CancelClaim, BeginDispatch
  <1>2. ASSUME case' = case, gate' = gate, accounted' = accounted
        PROVE  CasesTypeOK' /\ CaseMoves
    BY <1>2, RowTypes DEF CasesTypeOK, UsedCases, CaseMoves, Untouched, SameActive
  <1>3. ASSUME NEW result \in Results, case[c].state = "claimed", CancelCase(c, result),
               accounted' = accounted
        PROVE  CasesTypeOK' /\ CaseMoves
    <2>1. case[c].state \in Unsent
      BY <1>3 DEF Unsent
    <2>2. QED
      BY <1>1, <1>3, <2>1, CancelTypes DEF CancelCase
  <1>4. CASE CancelClaim(w)
    <2>1. \/ case[c].state = "claimed" /\ CancelCase(c, "route_changed")
          \/ case' = case /\ gate' = gate
      BY <1>4 DEF CancelClaim
    <2>2. accounted' = accounted /\ "route_changed" \in Results
      BY <1>4 DEF CancelClaim, Results
    <2>3. QED
      BY <1>2, <1>3, <2>1, <2>2
  <1>5. CASE BeginDispatch(w)
    <2>1. CASE ~(HoldsGate(w) /\ Holds(w) /\ case[c].state = "claimed")
      BY <1>2, <1>5, <2>1 DEF BeginDispatch
    <2>2. CASE case[c].state = "claimed" /\ HoldsGate(w) /\ Holds(w)
               /\ ~(RouteActive(case[c].key) /\ Affordable)
      <3>1. \E result \in {"route_changed", "budget_exhausted"} : CancelCase(c, result)
        BY <1>5, <2>2 DEF BeginDispatch
      <3>2. accounted' = accounted
        BY <1>5, <2>2 DEF BeginDispatch
      <3>3. QED
        BY <1>3, <2>2, <3>1, <3>2 DEF Results
    <2>3. CASE case[c].state = "claimed" /\ HoldsGate(w) /\ Holds(w)
               /\ RouteActive(case[c].key) /\ Affordable
      <3> DEFINE row == [case[c] EXCEPT !.state = "dispatching", !.estimate = Reservation]
      <3>1. /\ case' = [case EXCEPT ![c].state = "dispatching", ![c].estimate = Reservation]
            /\ accounted' = accounted + Reservation /\ gate' = gate
        BY <1>5, <2>3 DEF BeginDispatch
      <3>2. case' = [case EXCEPT ![c] = row]
        <4> HIDE DEF c
        <4>1. QED
          BY <1>1, <3>1, RowTypes
      <3>3. /\ row \in CaseType /\ row.state = "dispatching" /\ row.key = case[c].key
            /\ row.estimate = Reservation
        <4> HIDE DEF c
        <4>1. QED
          BY <1>1, RowTypes DEF CaseType, States
      <3>4. case[c].state # "none" /\ row.state # "none" /\ gate' \in [RouteKeys -> GateType]
            /\ accounted' \in Nat
        BY <2>3, <3>1, <3>3, RowTypes
      <3> HIDE DEF row, c
      <3>5. CasesTypeOK' /\ Rewrites(c) /\ case'[c] = row
        BY <1>1, <3>2, <3>3, <3>4, RewriteTypes
      <3>6. Dispatches(c)
        BY <2>3, <3>1, <3>3, <3>5 DEF Dispatches, SameActive
      <3>7. QED
        BY <1>1, <3>5, <3>6 DEF CaseMoves
    <2>4. QED
      BY <2>1, <2>2, <2>3
  <1>6. QED
    BY <1>4, <1>5

\* A suspicion about a route of the current generation.
LEMMA EnqueueTypes ==
  ASSUME HealthVerificationTypeOK, CasesOrdered, NEW k \in RouteKeys, k[2] = health.generation,
         EnqueueSuspicion(k), accounted' = accounted
  PROVE  CasesTypeOK' /\ CaseMoves
  <1> DEFINE stale == StaleCases(k)
             cases == [c \in Cases |-> IF c \in stale THEN Close(c, "route_changed") ELSE case[c]]
             gates == [j \in RouteKeys |->
                         IF gate[j].active \in stale
                         THEN [active |-> 0, last |-> gate[j].active, cooling |-> FALSE]
                         ELSE gate[j]]
             new == Cardinality(UsedCases) + 1
  <1>1. stale \subseteq Cases /\ \A c \in stale : case[c].state \in Unsent
    BY DEF StaleCases, Unsent
  <1>2. ASSUME NEW c \in stale
        PROVE  /\ Close(c, "route_changed") \in CaseType
               /\ Close(c, "route_changed").state = "cancelled"
               /\ Close(c, "route_changed").key = case[c].key
               /\ Close(c, "route_changed").estimate = case[c].estimate
    <2>1. case[c] \in CaseType
      BY <1>1, RowTypes
    <2>2. QED
      BY <2>1 DEF Close, CaseType, States, Results
  <1>3. /\ cases \in [Cases -> CaseType]
        /\ \A c \in Cases : IF c \in stale
                            THEN /\ cases[c].state = "cancelled" /\ cases[c].key = case[c].key
                                 /\ cases[c].estimate = case[c].estimate
                            ELSE cases[c] = case[c]
    <2>1. \A c \in Cases : cases[c] \in CaseType
      BY <1>2, RowTypes
    <2>2. cases \in [Cases -> CaseType]
      BY <2>1
    <2>3. QED
      BY <1>2, <2>2
  <1>4. gates \in [RouteKeys -> GateType]
        /\ \A j \in RouteKeys : gates[j].active = IF gate[j].active \in stale THEN 0
                                                  ELSE gate[j].active
    <2>1. \A j \in RouteKeys : gates[j] \in GateType
      BY <1>1, RowTypes DEF GateType
    <2>2. QED
      BY <2>1
  <1>5. \A c \in Cases : c \in UsedCases => case[c].key \in RouteKeys
    BY RowTypes
  <1>6. \A c \in stale : c \in UsedCases
    BY <1>1, RowTypes DEF Unsent
  <1>7. CASE gate[k].active # 0 \/ gate[k].cooling
    <2>1. case' = cases /\ gate' = gates
      BY <1>7 DEF EnqueueSuspicion
    <2> HIDE DEF cases, gates
    <2>2. CasesTypeOK'
      <3>1. \A c \in UsedCases' : case'[c].key \in RouteKeys
        BY <1>3, <1>5, <1>6, <2>1 DEF UsedCases
      <3>2. QED
        BY <1>3, <1>4, <2>1, <3>1, RowTypes DEF CasesTypeOK
    <2>3. Enqueues(k, 0)
      BY <1>3, <1>4, <2>1 DEF Enqueues
    <2>4. QED
      BY <2>2, <2>3 DEF CaseMoves
  <1>8. CASE ~(gate[k].active # 0 \/ gate[k].cooling)
    <2>1. /\ new \in Cases /\ gate[k].active = 0
          /\ case' = [cases EXCEPT ![new] = Queued(k)]
          /\ gate' = [gates EXCEPT ![k].active = new]
      BY <1>8 DEF EnqueueSuspicion
    <2>2. Queued(k) \in CaseType /\ Queued(k).key = k /\ Queued(k).state = "queued"
      BY DEF Queued, CaseType, States, Results
    <2>3. 0 \notin stale /\ new # 0
      BY <1>1, <2>1, RowTypes
    <2> HIDE DEF cases, gates, new, stale
    <2>4. /\ case' \in [Cases -> CaseType] /\ case'[new] = Queued(k)
          /\ \A c \in Cases : c # new => case'[c] = cases[c]
      BY <1>3, <2>1, <2>2
    <2>5. /\ gate' \in [RouteKeys -> GateType] /\ gate'[k].active = new
          /\ \A j \in RouteKeys : j # k => gate'[j] = gates[j]
      <3>1. gate' = [gates EXCEPT ![k] = [gates[k] EXCEPT !.active = new]]
        BY <1>4, <2>1
      <3>2. [gates[k] EXCEPT !.active = new] \in GateType
            /\ [gates[k] EXCEPT !.active = new].active = new
        BY <1>4, <2>1 DEF GateType
      <3>3. QED
        BY <1>4, <3>1, <3>2
    <2>6. CasesTypeOK'
      <3>1. \A c \in UsedCases' : case'[c].key \in RouteKeys
        BY <1>3, <1>5, <1>6, <2>2, <2>4 DEF UsedCases
      <3>2. QED
        BY <2>4, <2>5, <3>1, RowTypes DEF CasesTypeOK
    <2>7. Enqueues(k, new)
      <3>1. \A j \in RouteKeys :
              gate'[j].active = IF gate[j].active \in stale THEN 0
                                ELSE IF j = k /\ new # 0 THEN new ELSE gate[j].active
        BY <1>4, <2>1, <2>3, <2>5
      <3>2. \A c \in Cases \ {new} :
              IF c \in stale
              THEN /\ case'[c].state = "cancelled" /\ case'[c].key = case[c].key
                   /\ case'[c].estimate = case[c].estimate
              ELSE case'[c] = case[c]
        BY <1>3, <2>4
      <3>3. new = Cardinality(UsedCases) + 1
        BY DEF new
      <3>4. QED
        BY <2>1, <2>4, <3>1, <3>2, <3>3 DEF Enqueues, stale
    <2>8. QED
      BY <2>1, <2>6, <2>7 DEF CaseMoves
  <1>9. QED
    BY <1>7, <1>8

\* The outcome of a real request.
LEMMA RequestStep ==
  ASSUME HealthVerificationTypeOK, CasesOrdered, GatesNameCases, NEW k \in RouteKeys,
         CompleteRequest(k)
  PROVE  CasesTypeOK' /\ CaseMoves
  <1>0. accounted' = accounted
    BY DEF CompleteRequest
  <1>1. ASSUME case' = case, gate' = gate
        PROVE  CasesTypeOK' /\ CaseMoves
    BY <1>0, <1>1, RowTypes DEF CasesTypeOK, UsedCases, CaseMoves, Untouched, SameActive
  <1>2. CASE k[2] = health.generation /\ CompleteSuspected(k)
    BY <1>0, <1>2, EnqueueTypes DEF CompleteSuspected
  <1>3. CASE CompleteSuccess(k)
    <2> DEFINE c == gate[k].active
    <2>1. CASE c # 0 /\ case[c].state \in {"queued", "claimed"}
      <3>1. c \in Cases /\ case[c].state \in Unsent
        BY <2>1, RowTypes DEF GateType, Unsent
      <3>2. case[c].key = k
        BY <2>1 DEF GatesNameCases
      <3>3. case' = [case EXCEPT ![c] = Close(c, "none")] /\ gate' = Finished(k, c)
            /\ "none" \in Results
        BY <1>3, <2>1 DEF CompleteSuccess, Results
      <3> HIDE DEF c
      <3>4. QED
        BY <1>0, <3>1, <3>2, <3>3, CancelTypes
    <2>2. CASE ~(c # 0 /\ case[c].state \in {"queued", "claimed"})
      BY <1>1, <1>3, <2>2 DEF CompleteSuccess
    <2>3. QED
      BY <2>1, <2>2
  <1>4. QED
    BY <1>1, <1>2, <1>3 DEF CompleteRequest

\* A gate that has cooled down keeps its type and its case.
LEMMA GateCools ==
  ASSUME NEW g \in GateType
  PROVE  /\ [g EXCEPT !.cooling = FALSE] \in GateType
         /\ [g EXCEPT !.cooling = FALSE].active = g.active
  <1>1. [g EXCEPT !.cooling = FALSE] \in GateType
    BY Zenon DEF GateType
  <1>2. [g EXCEPT !.cooling = FALSE].active = g.active
    BY DEF GateType
  <1>3. QED
    BY <1>1, <1>2

\* Every step moves the cases in one of these ways.
LEMMA CasesStep ==
  ASSUME HealthVerificationTypeOK, CasesOrdered, GatesNameCases, SendersAlone, [Next]_vars
  PROVE  CasesTypeOK' /\ CaseMoves
  <1>1. ASSUME case' = case, SameActive, gate' \in [RouteKeys -> GateType], accounted' = accounted
        PROVE  CasesTypeOK' /\ CaseMoves
    BY <1>1, RowTypes DEF CasesTypeOK, UsedCases, CaseMoves, Untouched
  <1>2. ASSUME case' = case, gate' = gate, accounted' = accounted
        PROVE  CasesTypeOK' /\ CaseMoves
    BY <1>1, <1>2, RowTypes DEF SameActive
  <1>3. CASE UNCHANGED vars \/ Publish \/ ManualRecover
    BY <1>2, <1>3 DEF vars, Publish, ManualRecover
  <1>4. ASSUME NEW r \in Routes, AdmitAttempt(r) \/ ChangeRoute(r)
        PROVE  CasesTypeOK' /\ CaseMoves
    BY <1>2, <1>4 DEF AdmitAttempt, ChangeRoute
  <1>5. ASSUME NEW k \in RouteKeys, CoolDown(k)
        PROVE  CasesTypeOK' /\ CaseMoves
    <2>1. case' = case /\ accounted' = accounted
          /\ gate' = [gate EXCEPT ![k] = [gate[k] EXCEPT !.cooling = FALSE]]
      BY <1>5, RowTypes DEF CoolDown
    <2>2. gate[k] \in GateType
      BY RowTypes
    <2>3. [gate[k] EXCEPT !.cooling = FALSE] \in GateType
          /\ [gate[k] EXCEPT !.cooling = FALSE].active = gate[k].active
      BY <2>2, GateCools
    <2>4. gate' \in [RouteKeys -> GateType] /\ SameActive
      BY <2>1, <2>3, RowTypes DEF SameActive
    <2>5. QED
      BY <1>1, <2>1, <2>4
  <1>6. ASSUME NEW w \in Workers,
               \/ LoadTarget(w) \/ CompletionRefused(w) \/ CompletionLate(w) \/ WorkerStops(w)
               \/ \E answer \in {"healthy", "failure", "missing"} : SendProbe(w, answer)
        PROVE  CasesTypeOK' /\ CaseMoves
    BY <1>2, <1>6 DEF LoadTarget, CompletionRefused, CompletionLate, WorkerStops, SendProbe
  <1>7. ASSUME NEW g \in Generations, ProcessUnpublish(g)
        PROVE  CasesTypeOK' /\ CaseMoves
    BY <1>2, <1>7 DEF ProcessUnpublish
  <1>8. QED
    BY <1>3, <1>4, <1>5, <1>6, <1>7, RequestStep, KeepsStep, FinishesStep, DispatchStep
       DEF Next, WorkerStep

-------------------------------------------------------------------------------
(* Gates and cases. *)

\* How many cases there are, and how a new one adds to them.
LEMMA CaseCount ==
  ASSUME CasesOrdered
  PROVE  /\ IsFiniteSet(UsedCases) /\ Cardinality(UsedCases) \in Nat
         /\ Cardinality(UsedCases) + 1 \notin UsedCases
         /\ UsedCases \cup {Cardinality(UsedCases) + 1} = 1..(Cardinality(UsedCases) + 1)
         /\ Cardinality(1..(Cardinality(UsedCases) + 1)) = Cardinality(UsedCases) + 1
         /\ \A c \in UsedCases : c <= Cardinality(UsedCases) /\ c \in Nat
  <1> DEFINE n == Cardinality(UsedCases)
  <1>1. UsedCases \subseteq 1..MaxCases /\ MaxCases \in Nat
    BY HealthVerificationAssumption DEF UsedCases, Cases
  <1>2. IsFiniteSet(UsedCases) /\ n \in Nat
    <2>1. IsFiniteSet(1..MaxCases)
      BY <1>1, FS_Interval
    <2>2. QED
      BY <1>1, <2>1, FS_Subset, FS_CardinalityType
  <1>3. UsedCases = 1..n
    BY DEF CasesOrdered
  <1>4. n + 1 \notin UsedCases /\ UsedCases \cup {n + 1} = 1..(n + 1)
        /\ \A c \in UsedCases : c <= n /\ c \in Nat
    <2> HIDE DEF n
    <2>1. QED
      BY <1>2, <1>3
  <1>5. Cardinality(1..(n + 1)) = n + 1
    <2> HIDE DEF n
    <2>1. Cardinality(1..(n + 1)) = IF 1 > n + 1 THEN 0 ELSE (n + 1) - 1 + 1
      BY <1>2, FS_Interval
    <2>2. QED
      BY <1>2, <2>1
  <1>6. QED
    BY <1>2, <1>4, <1>5

\* The generation never goes back.
LEMMA GenerationGrows ==
  ASSUME HealthVerificationTypeOK, [Next]_vars
  PROVE  health.generation <= health'.generation /\ health.generation \in Nat
         /\ health'.generation \in Nat
  <1>1. health \in [generation : Generations, open : BOOLEAN] /\ Generations \subseteq Nat
    BY DEF HealthVerificationTypeOK, ModelTypeOK, Generations
  <1>2. health.generation \in Nat
    BY <1>1
  <1>3. health'.generation = health.generation \/ health'.generation = health.generation + 1
    <2>1. CASE UNCHANGED modelVars \/ Publish
      BY <2>1 DEF modelVars, Publish
    <2>2. ASSUME NEW w \in Workers, NEW cost \in Costs, CompleteProbe(w, cost)
          PROVE  health'.generation = health.generation
      <3>1. health' = health \/ health' = [health EXCEPT !.open = TRUE]
        BY <2>2 DEF CompleteProbe, CountFailure, Trip, modelVars
      <3>2. QED
        BY <1>1, <3>1
    <2>3. ASSUME NEW g \in Generations, ProcessUnpublish(g)
          PROVE  health'.generation = health.generation
      <3>1. health' = health \/ health' = [health EXCEPT !.open = FALSE]
        BY <2>3 DEF ProcessUnpublish
      <3>2. QED
        BY <1>1, <3>1
    <2>4. CASE ManualRecover
      BY <2>4 DEF ManualRecover
    <2>5. QED
      BY <2>1, <2>2, <2>3, <2>4, ModelMoves
  <1>4. QED
    BY <1>2, <1>3

\* Who is used after a step, and for which route.
LEMMA UsedAfter ==
  ASSUME HealthVerificationTypeOK, CasesOrdered, CaseMoves
  PROVE  \/ /\ UsedCases' = UsedCases
            /\ \A c \in UsedCases : case'[c].key = case[c].key
         \/ \E k \in RouteKeys, n \in Cases :
              /\ Enqueues(k, n) /\ n = Cardinality(UsedCases) + 1
              /\ n \notin UsedCases /\ UsedCases' = UsedCases \cup {n}
              /\ case'[n].key = k /\ case'[n].state = "queued"
              /\ \A c \in UsedCases : case'[c].key = case[c].key
  <1>1. CASE Untouched
    BY <1>1 DEF Untouched, UsedCases
  <1>2. ASSUME NEW c \in Cases, Rewrites(c)
        PROVE  UsedCases' = UsedCases /\ \A d \in UsedCases : case'[d].key = case[d].key
    BY <1>2 DEF Rewrites, UsedCases
  <1>3. ASSUME NEW k \in RouteKeys, NEW n \in Cases \cup {0}, Enqueues(k, n)
        PROVE  \/ /\ UsedCases' = UsedCases
                  /\ \A c \in UsedCases : case'[c].key = case[c].key
               \/ /\ n \in Cases /\ Enqueues(k, n) /\ n = Cardinality(UsedCases) + 1
                  /\ n \notin UsedCases /\ UsedCases' = UsedCases \cup {n}
                  /\ case'[n].key = k /\ case'[n].state = "queued"
                  /\ \A c \in UsedCases : case'[c].key = case[c].key
    <2>1. \A c \in StaleCases(k) : c \in Cases /\ case[c].state # "none"
      BY DEF StaleCases
    <2>2. \A c \in Cases \ {n} : /\ (case'[c].state # "none") <=> (case[c].state # "none")
                                 /\ case'[c].key = case[c].key
      BY <1>3, <2>1 DEF Enqueues
    <2>3. CASE n = 0
      BY <2>2, <2>3, RowTypes DEF UsedCases
    <2>4. CASE n # 0
      <3>1. n \in Cases /\ n = Cardinality(UsedCases) + 1 /\ case'[n] = Queued(k)
        BY <1>3, <2>4 DEF Enqueues
      <3>2. n \notin UsedCases
        BY <3>1, CaseCount
      <3>3. case'[n].key = k /\ case'[n].state = "queued"
        BY <3>1 DEF Queued
      <3>4. UsedCases' = UsedCases \cup {n}
        BY <2>2, <3>1, <3>3 DEF UsedCases
      <3>5. \A c \in UsedCases : case'[c].key = case[c].key
        BY <2>2, <3>2 DEF UsedCases
      <3>6. QED
        BY <1>3, <3>1, <3>2, <3>3, <3>4, <3>5
    <2>5. QED
      BY <2>3, <2>4
  <1>4. QED
    BY <1>1, <1>2, <1>3 DEF CaseMoves, Keeps, Cancels, Dispatches, Finishes

\* Cases get ids in the order they are queued, for the generation of that moment.
LEMMA CasesStayOrdered ==
  ASSUME HealthVerificationTypeOK, CasesOrdered, [Next]_vars, CaseMoves
  PROVE  CasesOrdered'
  <1>1. CASE UsedCases' = UsedCases /\ \A c \in UsedCases : case'[c].key = case[c].key
    <2>1. \A c \in UsedCases' : case'[c].key[2] <= health'.generation
      <3>1. SUFFICES ASSUME NEW c \in UsedCases PROVE case'[c].key[2] <= health'.generation
        BY <1>1
      <3>2. case'[c].key = case[c].key /\ case[c].key[2] <= health.generation
            /\ case[c].key[2] \in Nat
        BY <1>1, RowTypes DEF CasesOrdered, RouteKeys, Generations
      <3>3. QED
        BY <3>2, GenerationGrows
    <2>2. QED
      BY <1>1, <2>1 DEF CasesOrdered
  <1>2. ASSUME NEW k \in RouteKeys, NEW n \in Cases,
               Enqueues(k, n), n = Cardinality(UsedCases) + 1,
               n \notin UsedCases, UsedCases' = UsedCases \cup {n},
               case'[n].key = k, \A c \in UsedCases : case'[c].key = case[c].key
        PROVE  CasesOrdered'
    <2>1. UsedCases' = 1..n /\ Cardinality(1..n) = n
      BY <1>2, CaseCount
    <2>2. k[2] = health.generation
      BY <1>2 DEF Enqueues
    <2>3. ASSUME NEW c \in UsedCases PROVE case'[c].key[2] <= health'.generation
      <3>1. case'[c].key = case[c].key /\ case[c].key[2] <= health.generation
            /\ case[c].key[2] \in Nat
        BY <1>2, RowTypes DEF CasesOrdered, RouteKeys, Generations
      <3>2. QED
        BY <3>1, GenerationGrows
    <2>4. case'[n].key[2] <= health'.generation
      BY <1>2, <2>2, GenerationGrows
    <2>5. QED
      BY <1>2, <2>1, <2>3, <2>4 DEF CasesOrdered
  <1>3. QED
    BY <1>1, <1>2, UsedAfter

\* A rewritten case that is as finished as before.
LEMMA GatesKept ==
  ASSUME HealthVerificationTypeOK, GatesNameCases, NEW c \in Cases, Keeps(c) \/ Dispatches(c)
  PROVE  GatesNameCases'
  <1>1. \A d \in Cases : /\ case'[d].state \in Unfinished <=> case[d].state \in Unfinished
                         /\ case'[d].key = case[d].key
                         /\ case'[d].state # "none" <=> case[d].state # "none"
    BY DEF Keeps, Dispatches, Rewrites, Unsent, Unfinished
  <1>2. \A k \in RouteKeys : gate'[k].active = gate[k].active
                             /\ (gate[k].active # 0 => gate[k].active \in Cases)
    BY RowTypes DEF Keeps, Dispatches, SameActive, GateType
  <1>3. UsedCases' = UsedCases
    BY <1>1 DEF UsedCases
  <1>4. \A d \in Cases : case'[d].state \in Unfinished => gate'[case'[d].key].active = d
    <2>1. SUFFICES ASSUME NEW d \in Cases, case'[d].state \in Unfinished
                   PROVE  gate'[case'[d].key].active = d
      OBVIOUS
    <2>2. case[d].state \in Unfinished /\ case'[d].key = case[d].key /\ case[d].key \in RouteKeys
      BY <1>1, <2>1, RowTypes DEF Unfinished
    <2>3. QED
      BY <1>2, <2>2 DEF GatesNameCases
  <1>5. \A k \in RouteKeys : gate'[k].active # 0 => /\ case'[gate'[k].active].state \in Unfinished
                                                   /\ case'[gate'[k].active].key = k
    BY <1>1, <1>2 DEF GatesNameCases
  <1>6. \A a, b \in UsedCases' :
          case'[a].key = case'[b].key /\ a < b => case'[a].state \notin Unfinished
    BY <1>1, <1>3, RowTypes DEF GatesNameCases
  <1>7. QED
    BY <1>4, <1>5, <1>6 DEF GatesNameCases

\* A case that is closed and lets its gate go.
LEMMA GateReleased ==
  ASSUME HealthVerificationTypeOK, GatesNameCases, NEW c \in Cases, Cancels(c) \/ Finishes(c)
  PROVE  GatesNameCases'
  <1>1. /\ case[c].state \in Unfinished /\ case'[c].state \notin Unfinished
        /\ case[c].state # "none" /\ case'[c].state # "none" /\ case'[c].key = case[c].key
        /\ \A d \in Cases : d # c => case'[d] = case[d]
    BY DEF Cancels, Finishes, Rewrites, Unsent, Unfinished
  <1>2. c \in UsedCases /\ case[c].key \in RouteKeys /\ gate[case[c].key].active = c
    BY <1>1, RowTypes DEF GatesNameCases
  <1>3. \A k \in RouteKeys :
          gate'[k].active = IF k = case[c].key THEN 0 ELSE gate[k].active
    BY DEF Cancels, Finishes, Released
  <1>4. UsedCases' = UsedCases
    BY <1>1 DEF UsedCases
  <1>5. \A d \in Cases : case'[d].state \in Unfinished => gate'[case'[d].key].active = d
    <2>1. SUFFICES ASSUME NEW d \in Cases, case'[d].state \in Unfinished
                   PROVE  gate'[case'[d].key].active = d
      OBVIOUS
    <2>2. d # c /\ case'[d] = case[d]
      BY <1>1, <2>1
    <2>3. case[d].key \in RouteKeys /\ gate[case[d].key].active = d
      BY <2>1, <2>2, RowTypes DEF GatesNameCases, Unfinished
    <2>4. case[d].key # case[c].key
      BY <1>2, <2>2, <2>3
    <2>5. QED
      BY <1>3, <2>2, <2>3, <2>4
  <1>6. \A k \in RouteKeys : gate'[k].active # 0 => /\ case'[gate'[k].active].state \in Unfinished
                                                   /\ case'[gate'[k].active].key = k
    <2>1. SUFFICES ASSUME NEW k \in RouteKeys, gate'[k].active # 0
                   PROVE  /\ case'[gate'[k].active].state \in Unfinished
                          /\ case'[gate'[k].active].key = k
      OBVIOUS
    <2>2. k # case[c].key /\ gate'[k].active = gate[k].active
      BY <1>3, <2>1
    <2> DEFINE d == gate[k].active
    <2>3. d \in Cases /\ case[d].state \in Unfinished /\ case[d].key = k
      BY <2>1, <2>2, RowTypes DEF GatesNameCases, GateType
    <2>4. case'[d] = case[d]
      BY <1>1, <2>2, <2>3
    <2>5. QED
      BY <2>2, <2>3, <2>4
  <1>7. \A a, b \in UsedCases' :
          case'[a].key = case'[b].key /\ a < b => case'[a].state \notin Unfinished
    <2>1. \A a \in UsedCases : /\ case'[a].key = case[a].key
                               /\ case'[a].state \in Unfinished => case[a].state \in Unfinished
      BY <1>1, RowTypes
    <2>2. QED
      BY <1>4, <2>1 DEF GatesNameCases
  <1>8. QED
    BY <1>5, <1>6, <1>7 DEF GatesNameCases

\* A suspicion: stale cases let their gates go, and a new one takes a free gate.
LEMMA GateTaken ==
  ASSUME HealthVerificationTypeOK, CasesOrdered, GatesNameCases,
         NEW k \in RouteKeys, NEW n \in Cases \cup {0}, Enqueues(k, n)
  PROVE  GatesNameCases'
  <1> DEFINE stale == StaleCases(k)
  <1>1. \A c \in stale : c \in Cases /\ case[c].state \in Unfinished /\ case[c].key # k
    BY DEF StaleCases, Unfinished
  <1>2. /\ \A c \in Cases \ {n} :
             IF c \in stale THEN case'[c].state = "cancelled" /\ case'[c].key = case[c].key
             ELSE case'[c] = case[c]
        /\ \A j \in RouteKeys :
             gate'[j].active = IF gate[j].active \in stale THEN 0
                               ELSE IF j = k /\ n # 0 THEN n ELSE gate[j].active
        /\ n # 0 => /\ n \in Cases /\ gate[k].active = 0 /\ case'[n] = Queued(k)
                    /\ n = Cardinality(UsedCases) + 1
    BY DEF Enqueues
  <1> HIDE DEF stale
  <1>3. n # 0 => /\ n \notin UsedCases /\ case[n].state = "none" /\ n \notin stale
                 /\ case'[n].state = "queued" /\ case'[n].key = k
                 /\ \A c \in UsedCases : c < n
    <2>1. SUFFICES ASSUME n # 0
                   PROVE  /\ n \notin UsedCases /\ case[n].state = "none" /\ n \notin stale
                          /\ case'[n].state = "queued" /\ case'[n].key = k
                          /\ \A c \in UsedCases : c < n
      OBVIOUS
    <2>2. n \in Cases /\ case'[n] = Queued(k) /\ n = Cardinality(UsedCases) + 1
      BY <1>2, <2>1
    <2>3. n \notin UsedCases /\ \A c \in UsedCases : c < n
      BY <2>2, CaseCount
    <2>4. case[n].state = "none"
      BY <2>2, <2>3, RowTypes
    <2>5. n \notin stale
      BY <1>1, <2>4 DEF Unfinished
    <2>6. QED
      BY <2>2, <2>3, <2>4, <2>5 DEF Queued
  <1>4. \A c \in Cases : c # n /\ case'[c].state \in Unfinished
                         => c \notin stale /\ case'[c] = case[c]
    BY <1>2 DEF Unfinished
  <1>5. \A c \in Cases : case'[c].state \in Unfinished => gate'[case'[c].key].active = c
    <2>1. SUFFICES ASSUME NEW c \in Cases, case'[c].state \in Unfinished
                   PROVE  gate'[case'[c].key].active = c
      OBVIOUS
    <2>2. CASE c = n
      <3>1. n # 0 /\ gate[k].active = 0 /\ 0 \notin stale
        BY <1>1, <1>2, <2>2, RowTypes
      <3>2. gate'[k].active = n
        BY <1>2, <3>1
      <3>3. QED
        BY <1>3, <2>2, <3>1, <3>2
    <2>3. CASE c # n
      <3>1. c \notin stale /\ case'[c] = case[c]
        BY <1>4, <2>1, <2>3
      <3>2. case[c].key \in RouteKeys /\ gate[case[c].key].active = c /\ c # 0
        BY <2>1, <3>1, RowTypes DEF GatesNameCases, Unfinished
      <3>3. ~(case[c].key = k /\ n # 0)
        BY <1>2, <3>2
      <3>4. QED
        BY <1>2, <3>1, <3>2, <3>3
    <2>4. QED
      BY <2>2, <2>3
  <1>6. \A j \in RouteKeys : gate'[j].active # 0 => /\ case'[gate'[j].active].state \in Unfinished
                                                   /\ case'[gate'[j].active].key = j
    <2>1. SUFFICES ASSUME NEW j \in RouteKeys, gate'[j].active # 0
                   PROVE  /\ case'[gate'[j].active].state \in Unfinished
                          /\ case'[gate'[j].active].key = j
      OBVIOUS
    <2>2. gate[j].active \notin stale
      BY <1>2, <2>1
    <2>3. CASE j = k /\ n # 0
      <3>1. gate'[j].active = n
        BY <1>2, <2>2, <2>3
      <3>2. QED
        BY <1>3, <2>3, <3>1 DEF Unfinished
    <2>4. CASE ~(j = k /\ n # 0)
      <3> DEFINE c == gate[j].active
      <3>1. gate'[j].active = c /\ c # 0
        BY <1>2, <2>1, <2>2, <2>4
      <3>2. c \in Cases /\ case[c].state \in Unfinished /\ case[c].key = j
        BY <3>1, RowTypes DEF GatesNameCases, GateType
      <3>3. c # n
        BY <1>3, <3>1, <3>2 DEF Unfinished
      <3>4. case'[c] = case[c]
        BY <1>2, <2>2, <3>2, <3>3
      <3>5. QED
        BY <3>1, <3>2, <3>4
    <2>5. QED
      BY <2>3, <2>4
  <1>7. \A a, b \in UsedCases' :
          case'[a].key = case'[b].key /\ a < b => case'[a].state \notin Unfinished
    <2>1. SUFFICES ASSUME NEW a \in UsedCases', NEW b \in UsedCases',
                          case'[a].key = case'[b].key, a < b, case'[a].state \in Unfinished
                   PROVE  FALSE
      OBVIOUS
    <2>2. a \in Cases /\ b \in Cases
      BY DEF UsedCases
    <2>3. \A c \in UsedCases' : c # n => c \in UsedCases /\ case'[c].key = case[c].key
      BY <1>1, <1>2 DEF UsedCases, Unfinished
    <2>4. CASE a = n
      <3>1. b # n /\ b \in UsedCases /\ n # 0
        BY <2>1, <2>2, <2>3, <2>4, RowTypes
      <3>2. b < n /\ b \in Nat /\ a \in Nat
        BY <1>3, <2>2, <3>1, RowTypes
      <3>3. QED
        BY <2>1, <2>4, <3>2
    <2>5. CASE a # n /\ b = n
      <3>1. n # 0 /\ case[a].key = k /\ case[a].state \in Unfinished
        BY <1>3, <1>4, <2>1, <2>2, <2>3, <2>5, RowTypes
      <3>2. gate[k].active = a /\ a # 0
        BY <2>2, <3>1, RowTypes DEF GatesNameCases
      <3>3. QED
        BY <1>2, <3>1, <3>2
    <2>6. CASE a # n /\ b # n
      <3>1. a \in UsedCases /\ b \in UsedCases /\ case[a].key = case[b].key
            /\ case[a].state \in Unfinished
        BY <1>4, <2>1, <2>2, <2>3, <2>6
      <3>2. QED
        BY <2>1, <3>1 DEF GatesNameCases
    <2>7. QED
      BY <2>4, <2>5, <2>6
  <1>8. QED
    BY <1>5, <1>6, <1>7 DEF GatesNameCases

\* A gate names the unfinished case of its route, and only such a case.
LEMMA GatesStayNamed ==
  ASSUME HealthVerificationTypeOK, CasesOrdered, GatesNameCases, CaseMoves
  PROVE  GatesNameCases'
  <1>1. CASE Untouched
    <2>1. case' = case /\ UsedCases' = UsedCases
          /\ \A k \in RouteKeys : gate'[k].active = gate[k].active
      BY <1>1 DEF Untouched, SameActive, UsedCases
    <2>2. \A c \in Cases : case'[c].state \in Unfinished => gate'[case'[c].key].active = c
      BY <2>1, RowTypes DEF GatesNameCases, Unfinished
    <2>3. QED
      BY <2>1, <2>2 DEF GatesNameCases
  <1>2. QED
    BY <1>1, GatesKept, GateReleased, GateTaken DEF CaseMoves

-------------------------------------------------------------------------------
(* Generations and money. *)

\* A new case leaves no older one of its route that could still be sent.
LEMMA OldCasesStayBack ==
  ASSUME HealthVerificationTypeOK, CasesOrdered, OldCasesGiveWay, CaseMoves
  PROVE  OldCasesGiveWay'
  <1>1. ASSUME UsedCases' = UsedCases,
               \A c \in UsedCases : /\ case'[c].key = case[c].key
                                    /\ case'[c].state \in Unsent => case[c].state \in Unsent
        PROVE  OldCasesGiveWay'
    BY <1>1 DEF OldCasesGiveWay, Unsent
  <1>2. CASE Untouched
    BY <1>2 DEF Untouched, OldCasesGiveWay, UsedCases
  <1>3. ASSUME NEW c \in Cases, Keeps(c) \/ Cancels(c) \/ Dispatches(c) \/ Finishes(c)
        PROVE  OldCasesGiveWay'
    <2>1. \A d \in Cases : /\ case'[d].key = case[d].key
                           /\ case'[d].state # "none" <=> case[d].state # "none"
                           /\ case'[d].state \in Unsent => case[d].state \in Unsent
      BY <1>3 DEF Keeps, Cancels, Dispatches, Finishes, Rewrites, Unsent
    <2>2. UsedCases' = UsedCases
      BY <2>1 DEF UsedCases
    <2>3. QED
      BY <1>1, <2>1, <2>2, RowTypes
  <1>4. ASSUME NEW k \in RouteKeys, NEW n \in Cases \cup {0}, Enqueues(k, n)
        PROVE  OldCasesGiveWay'
    <2> DEFINE stale == StaleCases(k)
    <2>1. \A c \in Cases : c \in stale <=> /\ case[c].state \in Unsent
                                           /\ case[c].key[1] = k[1] /\ case[c].key[2] # k[2]
      BY DEF StaleCases, Unsent
    <2>2. \A c \in Cases \ {n} :
            IF c \in stale THEN case'[c].state = "cancelled" /\ case'[c].key = case[c].key
            ELSE case'[c] = case[c]
      BY <1>4 DEF Enqueues
    <2>3. n # 0 => n \in Cases /\ case'[n].key = k
      BY <1>4 DEF Enqueues, Queued
    <2> HIDE DEF stale
    <2>4. \A c \in UsedCases' : c # n => /\ c \in UsedCases /\ case'[c].key = case[c].key
                                         /\ case'[c].state \in Unsent =>
                                              case[c].state \in Unsent /\ c \notin stale
      BY <2>1, <2>2 DEF UsedCases, Unsent
    <2>5. SUFFICES ASSUME NEW c \in UsedCases', NEW d \in UsedCases',
                          case'[c].key[1] = case'[d].key[1], case'[c].key[2] < case'[d].key[2],
                          case'[c].state \in Unsent
                   PROVE  FALSE
      BY DEF OldCasesGiveWay, Unsent
    <2>6. c \in Cases /\ d \in Cases /\ k[2] \in Nat /\ k[2] = health.generation
          /\ \A e \in UsedCases : case[e].key[2] <= k[2] /\ case[e].key[2] \in Nat
      BY <1>4, RowTypes DEF UsedCases, Enqueues, CasesOrdered, RouteKeys, Generations
    <2>7. CASE c = n
      <3>1. case'[c].key = k
        BY <2>3, <2>6, <2>7, RowTypes
      <3>2. CASE d = n
        BY <2>5, <2>6, <2>7, <3>1, <3>2
      <3>3. CASE d # n
        <4>1. case'[d].key[2] <= k[2] /\ case'[d].key[2] \in Nat
          BY <2>4, <2>6, <3>3
        <4>2. QED
          BY <2>5, <2>6, <3>1, <4>1
      <3>4. QED
        BY <3>2, <3>3
    <2>8. CASE c # n /\ d = n
      <3>1. case'[d].key = k
        BY <2>3, <2>6, <2>8, RowTypes
      <3>2. case[c].key[1] = k[1] /\ case[c].key[2] < k[2] /\ case[c].state \in Unsent
            /\ c \notin stale /\ case[c].key[2] \in Nat
        BY <2>4, <2>5, <2>6, <2>8, <3>1
      <3>3. QED
        BY <2>1, <2>6, <3>2
    <2>9. CASE c # n /\ d # n
      BY <2>4, <2>5, <2>9 DEF OldCasesGiveWay, Unsent
    <2>10. QED
      BY <2>7, <2>8, <2>9
  <1>5. QED
    BY <1>2, <1>3, <1>4 DEF CaseMoves

\* The sum of the estimates of a table.
Booked(table) == SumFunctionOnSet([c \in Cases |-> table[c].estimate], Cases)

\* A row whose estimate grows adds as much to the sum.
LEMMA BookedMore ==
  ASSUME CasesTypeOK, CasesTypeOK', NEW c \in Cases, \A d \in Cases : d # c => case'[d] = case[d]
  PROVE  /\ Booked(case) \in Int
         /\ Booked(case') = Booked(case) + case'[c].estimate - case[c].estimate
  <1> DEFINE f == [d \in Cases |-> case[d].estimate]
             ff == [d \in Cases |-> case'[d].estimate]
  <1>1. IsFiniteSet(Cases)
    BY HealthVerificationAssumption, FS_Interval DEF Cases
  <1>2. \A d \in Cases : f[d] \in Int /\ ff[d] \in Int
    BY DEF CasesTypeOK, CaseType
  <1>3. \A d \in Cases \ {c} : ff[d] = f[d]
    OBVIOUS
  <1>4. Booked(case) = SumFunctionOnSet(f, Cases) /\ Booked(case') = SumFunctionOnSet(ff, Cases)
        /\ ff[c] = case'[c].estimate /\ f[c] = case[c].estimate
    BY DEF Booked
  <1> HIDE DEF f, ff
  <1>5. /\ SumFunctionOnSet(f, Cases) \in Int
        /\ SumFunctionOnSet(ff, Cases) = SumFunctionOnSet(f, Cases) + ff[c] - f[c]
    BY <1>1, <1>2, <1>3, SumOfChanged
  <1>6. QED
    BY <1>4, <1>5

\* The number of paid cases.
LEMMA PaidCount ==
  IsFiniteSet(Paid) /\ Cardinality(Paid) \in Nat
  <1>1. IsFiniteSet(Cases) /\ Paid \subseteq Cases
    BY HealthVerificationAssumption, FS_Interval DEF Cases, Paid
  <1>2. QED
    BY <1>1, FS_Subset, FS_CardinalityType

\* A dispatch books its reservation once; a completion adds what the probe cost above it.
LEMMA ReservationsStay ==
  ASSUME HealthVerificationTypeOK, ReservedCases, CasesTypeOK', CasesOrdered, CaseMoves
  PROVE  ReservedCases'
  <1>0. CasesTypeOK /\ accounted = Booked(case) /\ accounted \in Nat /\ Reservation \in Nat \ {0}
    BY RowTypes DEF HealthVerificationTypeOK, ReservedCases, Booked
  <1>1. ASSUME accounted' = accounted,
               \A c \in Cases : /\ case'[c].estimate = case[c].estimate
                                /\ case'[c].state \in Dispatched <=> case[c].state \in Dispatched
        PROVE  ReservedCases'
    <2>1. Paid' = Paid
      BY <1>1 DEF Paid
    <2>2. [c \in Cases |-> case'[c].estimate] = [c \in Cases |-> case[c].estimate]
      BY <1>1
    <2>3. \A c \in Cases : IF case'[c].state \in Dispatched
                           THEN case'[c].estimate >= Reservation ELSE case'[c].estimate = 0
      BY <1>1 DEF ReservedCases
    <2>4. QED
      BY <1>1, <2>1, <2>2, <2>3 DEF ReservedCases
  <1>2. CASE Untouched
    BY <1>1, <1>2 DEF Untouched
  <1>3. ASSUME NEW c \in Cases, Keeps(c) \/ Cancels(c)
        PROVE  ReservedCases'
    BY <1>1, <1>3 DEF Keeps, Cancels, Rewrites, Unsent, Dispatched
  <1>4. ASSUME NEW c \in Cases, Dispatches(c)
        PROVE  ReservedCases'
    <2>1. /\ case[c].state = "claimed" /\ case'[c].state = "dispatching"
          /\ case'[c].estimate = Reservation /\ accounted' = accounted + Reservation
          /\ \A d \in Cases : d # c => case'[d] = case[d]
      BY <1>4 DEF Dispatches, Rewrites
    <2>2. case[c].estimate = 0
      BY <2>1 DEF ReservedCases, Dispatched
    <2>3. Booked(case') = Booked(case) + Reservation /\ Booked(case) \in Int
      <3>1. /\ Booked(case) \in Int
            /\ Booked(case') = Booked(case) + case'[c].estimate - case[c].estimate
        BY <1>0, <2>1, BookedMore
      <3>2. QED
        BY <1>0, <2>1, <2>2, <3>1
    <2>4. Paid' = Paid \cup {c} /\ c \notin Paid
      BY <1>0, <2>1, <2>2 DEF Paid
    <2>5. Cardinality(Paid') = Cardinality(Paid) + 1
      BY <2>4, PaidCount, FS_AddElement
    <2>6. accounted + Reservation <= Allocated
      <3>1. accounted <= Allocated /\ Reservation <= Allocated - accounted /\ Allocated \in Nat
        BY <1>4, HealthVerificationAssumption DEF Dispatches, Affordable
      <3>2. QED
        BY <1>0, <3>1
    <2>7. Reservation * Cardinality(Paid') = Reservation * Cardinality(Paid) + Reservation
          /\ Reservation * Cardinality(Paid) \in Nat
      <3>1. \A r, m \in Nat : r * (m + 1) = r * m + r /\ r * m \in Nat
        BY SMT
      <3>2. QED
        BY <1>0, <2>5, <3>1, PaidCount
    <2>8. Reservation * Cardinality(Paid) <= accounted
      BY DEF ReservedCases
    <2>9. Reservation * Cardinality(Paid') <= accounted' /\ Reservation * Cardinality(Paid') <= Allocated
      BY <1>0, <2>1, <2>6, <2>7, <2>8, HealthVerificationAssumption
    <2>10. \A d \in Cases : IF case'[d].state \in Dispatched
                            THEN case'[d].estimate >= Reservation ELSE case'[d].estimate = 0
      BY <1>0, <2>1 DEF ReservedCases, Dispatched
    <2>11. accounted' = SumFunctionOnSet([d \in Cases |-> case'[d].estimate], Cases)
      BY <1>0, <2>1, <2>3 DEF Booked
    <2>12. QED
      BY <2>9, <2>10, <2>11 DEF ReservedCases
  <1>5. ASSUME NEW c \in Cases, Finishes(c)
        PROVE  ReservedCases'
    <2>1. /\ case[c].state = "dispatching" /\ case'[c].state \in {"completed", "unknown"}
          /\ case'[c].estimate >= case[c].estimate
          /\ accounted' = accounted + (case'[c].estimate - case[c].estimate)
          /\ \A d \in Cases : d # c => case'[d] = case[d]
      BY <1>5 DEF Finishes, Rewrites
    <2>2. case[c].estimate >= Reservation /\ case[c].estimate \in Nat /\ case'[c].estimate \in Nat
      BY <2>1, RowTypes DEF ReservedCases, Dispatched, CasesTypeOK, CaseType
    <2>3. /\ Booked(case) \in Int
          /\ Booked(case') = Booked(case) + case'[c].estimate - case[c].estimate
      BY <1>0, <2>1, BookedMore
    <2>4. Paid' = Paid
      <3>1. \A d \in Cases : case'[d].estimate > 0 <=> case[d].estimate > 0
        BY <1>0, <2>1, <2>2
      <3>2. QED
        BY <3>1 DEF Paid
    <2>5. Reservation * Cardinality(Paid) \in Nat
      <3>1. \A r, m \in Nat : r * m \in Nat
        BY SMT
      <3>2. QED
        BY <1>0, <3>1, PaidCount
    <2>6. Reservation * Cardinality(Paid') <= accounted' /\ Reservation * Cardinality(Paid') <= Allocated
      <3>1. Reservation * Cardinality(Paid) <= accounted /\ Reservation * Cardinality(Paid) <= Allocated
        BY DEF ReservedCases
      <3>2. accounted <= accounted' /\ accounted' \in Nat
        BY <1>0, <2>1, <2>2
      <3>3. QED
        BY <1>0, <2>4, <2>5, <3>1, <3>2
    <2>7. \A d \in Cases : IF case'[d].state \in Dispatched
                           THEN case'[d].estimate >= Reservation ELSE case'[d].estimate = 0
      BY <1>0, <2>1, <2>2 DEF ReservedCases, Dispatched
    <2>8. accounted' = SumFunctionOnSet([d \in Cases |-> case'[d].estimate], Cases)
      BY <1>0, <2>1, <2>2, <2>3 DEF Booked
    <2>9. QED
      BY <2>6, <2>7, <2>8 DEF ReservedCases
  <1>6. ASSUME NEW k \in RouteKeys, NEW n \in Cases \cup {0}, Enqueues(k, n)
        PROVE  ReservedCases'
    <2>1. \A c \in Cases \ {n} : /\ case'[c].estimate = case[c].estimate
                                 /\ case'[c].state \in Dispatched <=> case[c].state \in Dispatched
      BY <1>6 DEF Enqueues, StaleCases, Dispatched
    <2>2. n # 0 => /\ case'[n].estimate = 0 /\ case'[n].state \notin Dispatched
                   /\ case[n].estimate = 0 /\ case[n].state \notin Dispatched
      <3>1. SUFFICES ASSUME n # 0
                     PROVE  /\ case'[n].estimate = 0 /\ case'[n].state \notin Dispatched
                            /\ case[n].estimate = 0 /\ case[n].state \notin Dispatched
        OBVIOUS
      <3>2. n \in Cases /\ case'[n] = Queued(k) /\ n = Cardinality(UsedCases) + 1
        BY <1>6, <3>1 DEF Enqueues
      <3>3. case[n].state = "none"
        BY <3>2, CaseCount, RowTypes
      <3>4. QED
        BY <3>2, <3>3 DEF Queued, Dispatched, ReservedCases
    <2>3. accounted' = accounted
      BY <1>6 DEF Enqueues
    <2>4. \A c \in Cases : /\ case'[c].estimate = case[c].estimate
                           /\ case'[c].state \in Dispatched <=> case[c].state \in Dispatched
      BY <2>1, <2>2, RowTypes
    <2>5. QED
      BY <1>1, <2>3, <2>4
  <1>7. QED
    BY <1>2, <1>3, <1>4, <1>5, <1>6 DEF CaseMoves

-------------------------------------------------------------------------------
(* What the workers hold. *)

\* A used case stays used, and a dispatched one dispatched.
LEMMA DispatchedStays ==
  ASSUME HealthVerificationTypeOK, CasesOrdered, CaseMoves
  PROVE  /\ UsedCases \subseteq UsedCases'
         /\ \A c \in Cases : case[c].state \in Dispatched => case'[c].state \in Dispatched
  <1>1. UsedCases \subseteq UsedCases'
    BY UsedAfter
  <1>2. ASSUME NEW c \in Cases, Keeps(c) \/ Cancels(c) \/ Dispatches(c) \/ Finishes(c),
               NEW d \in Cases, case[d].state \in Dispatched
        PROVE  case'[d].state \in Dispatched
    BY <1>2 DEF Keeps, Cancels, Dispatches, Finishes, Rewrites, Unsent, Dispatched
  <1>3. ASSUME NEW k \in RouteKeys, NEW n \in Cases \cup {0}, Enqueues(k, n),
               NEW d \in Cases, case[d].state \in Dispatched
        PROVE  case'[d].state \in Dispatched
    <2>1. d \in UsedCases /\ d \notin StaleCases(k)
      BY <1>3 DEF UsedCases, Dispatched, StaleCases
    <2>2. d # n
      <3>1. n # 0 => n = Cardinality(UsedCases) + 1
        BY <1>3 DEF Enqueues
      <3>2. QED
        BY <2>1, <3>1, CaseCount, RowTypes
    <2>3. QED
      BY <1>3, <2>1, <2>2 DEF Enqueues
  <1>4. CASE Untouched
    BY <1>1, <1>4 DEF Untouched
  <1>5. QED
    BY <1>1, <1>2, <1>3, <1>4 DEF CaseMoves

\* What worker w goes on with: anything but a probe it may still send.
GoesOn(w, item) ==
  /\ item \in WorkerType /\ item.pc # "dispatched"
  /\ item.pc # "idle" => item.case \in UsedCases
  /\ worker' = [worker EXCEPT ![w] = item]

WorkersInv == WorkersTypeOK /\ SendersAlone

\* A step of nobody leaves each sender alone with its probe.
LEMMA RestingWorkers ==
  ASSUME HealthVerificationTypeOK, CasesOrdered, SendersAlone, CaseMoves,
         worker' = worker, sent' = sent, faults' \in 0..MaxFaults
  PROVE  WorkersInv'
  <1>1. WorkersTypeOK'
    BY DEF HealthVerificationTypeOK, WorkersTypeOK
  <1>2. /\ UsedCases \subseteq UsedCases'
        /\ \A c \in Cases : case[c].state \in Dispatched => case'[c].state \in Dispatched
    BY DispatchedStays
  <1>3. \A w \in Workers : worker[w].case \in UsedCases => worker[w].case \in Cases
    BY RowTypes
  <1>4. \A w \in Workers : worker[w].pc = "dispatched" => worker[w].case \in Cases
    BY <1>3 DEF SendersAlone
  <1>5. SendersAlone'
    BY <1>2, <1>4 DEF SendersAlone
  <1>6. QED
    BY <1>1, <1>5 DEF WorkersInv

\* So does a worker that goes on to anything but a dispatch.
LEMMA WorkerGoesOn ==
  ASSUME HealthVerificationTypeOK, CasesOrdered, SendersAlone, CaseMoves,
         NEW w \in Workers, NEW item, GoesOn(w, item), sent' = sent, faults' \in 0..MaxFaults
  PROVE  WorkersInv'
  <1>1. /\ worker' \in [Workers -> WorkerType] /\ worker'[w] = item
        /\ \A v \in Workers : v # w => worker'[v] = worker[v]
    BY RowTypes DEF GoesOn
  <1>2. WorkersTypeOK'
    BY <1>1 DEF HealthVerificationTypeOK, WorkersTypeOK
  <1>3. /\ UsedCases \subseteq UsedCases'
        /\ \A c \in Cases : case[c].state \in Dispatched => case'[c].state \in Dispatched
    BY DispatchedStays
  <1>4. \A v \in Workers : worker[v].pc = "dispatched" => worker[v].case \in Cases
    BY RowTypes DEF SendersAlone
  <1>5. \A c \in Cases : sent'[c] <= 1 /\ (sent'[c] = 1 => case'[c].state \in Dispatched)
    BY <1>3 DEF SendersAlone
  <1>6. \A v \in Workers :
          /\ worker'[v].pc # "idle" => worker'[v].case \in UsedCases'
          /\ worker'[v].pc = "dispatched" => /\ v # w
                                             /\ case'[worker'[v].case].state \in Dispatched
                                             /\ sent'[worker'[v].case] = 0
    BY <1>1, <1>3, <1>4 DEF SendersAlone, GoesOn
  <1>7. \A u, v \in Workers :
          u # v /\ worker'[u].pc = "dispatched" /\ worker'[v].pc = "dispatched"
          => worker'[u].case # worker'[v].case
    BY <1>1, <1>6 DEF SendersAlone
  <1>8. QED
    BY <1>2, <1>5, <1>6, <1>7 DEF WorkersInv, SendersAlone

\* The worker that dispatches a claimed case is the only one that may send its probe.
LEMMA DispatcherAlone ==
  ASSUME HealthVerificationTypeOK, CasesOrdered, SendersAlone, CaseMoves, CasesTypeOK',
         NEW w \in Workers, BeginDispatch(w)
  PROVE  WorkersInv'
  <1> DEFINE c == worker[w].case
  <1>1. worker[w] \in WorkerType /\ c \in UsedCases /\ c \in Cases
    BY RowTypes DEF BeginDispatch, SendersAlone
  <1>2. sent' = sent /\ faults' = faults /\ faults \in 0..MaxFaults
    BY DEF BeginDispatch, HealthVerificationTypeOK, WorkersTypeOK
  <1>3. CASE Rest(w)
    <2>1. Idle \in WorkerType /\ Idle.pc = "idle"
      BY DEF Idle, WorkerType
    <2>2. GoesOn(w, Idle)
      BY <1>3, <2>1 DEF Rest, GoesOn
    <2>3. QED
      BY <1>2, <2>2, WorkerGoesOn
  <1>4. CASE /\ case[c].state = "claimed" /\ Goto(w, "dispatched")
             /\ case' = [case EXCEPT ![c].state = "dispatching", ![c].estimate = Reservation]
    <2> DEFINE item == [worker[w] EXCEPT !.pc = "dispatched"]
    <2>1. item \in WorkerType /\ item.pc = "dispatched" /\ item.case = c
      BY <1>1 DEF WorkerType
    <2>2. /\ worker' \in [Workers -> WorkerType] /\ worker'[w] = item
          /\ \A v \in Workers : v # w => worker'[v] = worker[v]
      BY <1>4, <2>1, RowTypes DEF Goto
    <2>3. WorkersTypeOK'
      BY <1>2, <2>2 DEF HealthVerificationTypeOK, WorkersTypeOK
    <2>4. case'[c].state = "dispatching"
      <3> HIDE DEF c
      <3>1. QED
        BY <1>1, <1>4, RowTypes DEF CaseType
    <2>5. case[c].state \notin Dispatched /\ sent[c] = 0
      <3>1. case[c].state \notin Dispatched /\ sent[c] <= 1 /\ sent[c] \in Nat
        BY <1>1, <1>4 DEF SendersAlone, Dispatched, HealthVerificationTypeOK, WorkersTypeOK
      <3>2. sent[c] # 1
        BY <1>1, <3>1 DEF SendersAlone
      <3> HIDE DEF c
      <3>3. QED
        BY <3>1, <3>2
    <2> HIDE DEF item, c
    <2>6. /\ UsedCases \subseteq UsedCases'
          /\ \A d \in Cases : case[d].state \in Dispatched => case'[d].state \in Dispatched
      BY DispatchedStays
    <2>7. \A v \in Workers : worker[v].pc = "dispatched" => worker[v].case \in Cases
                                                            /\ worker[v].case # c
      BY <2>5, RowTypes DEF SendersAlone
    <2>8. \A d \in Cases : sent'[d] <= 1 /\ (sent'[d] = 1 => case'[d].state \in Dispatched)
      BY <1>2, <2>6 DEF SendersAlone
    <2>9. ASSUME NEW v \in Workers
          PROVE  /\ worker'[v].pc # "idle" => worker'[v].case \in UsedCases'
                 /\ worker'[v].pc = "dispatched" => /\ case'[worker'[v].case].state \in Dispatched
                                                    /\ sent'[worker'[v].case] = 0
      <3>1. CASE v = w
        BY <1>1, <1>2, <2>1, <2>2, <2>4, <2>5, <2>6, <3>1 DEF Dispatched
      <3>2. CASE v # w
        BY <1>2, <2>2, <2>6, <2>7, <3>2 DEF SendersAlone
      <3>3. QED
        BY <3>1, <3>2
    <2>10. ASSUME NEW u \in Workers, NEW v \in Workers, u # v,
                  worker'[u].pc = "dispatched", worker'[v].pc = "dispatched"
           PROVE  worker'[u].case # worker'[v].case
      <3>1. CASE u = w
        BY <2>1, <2>2, <2>7, <2>10, <3>1
      <3>2. CASE v = w
        BY <2>1, <2>2, <2>7, <2>10, <3>2
      <3>3. CASE u # w /\ v # w
        BY <2>2, <2>10, <3>3 DEF SendersAlone
      <3>4. QED
        BY <3>1, <3>2, <3>3
    <2>11. QED
      BY <2>3, <2>8, <2>9, <2>10 DEF WorkersInv, SendersAlone
  <1>5. QED
    BY <1>3, <1>4 DEF BeginDispatch

\* A worker sends the only probe of its case.
LEMMA SenderAlone ==
  ASSUME HealthVerificationTypeOK, CasesOrdered, SendersAlone,
         NEW w \in Workers, NEW answer \in {"healthy", "failure", "missing"}, SendProbe(w, answer)
  PROVE  WorkersInv'
  <1> DEFINE c == worker[w].case
  <1>1. /\ worker[w] \in WorkerType /\ c \in UsedCases /\ c \in Cases
        /\ worker[w].pc = "dispatched" /\ case[c].state \in Dispatched /\ sent[c] = 0
    BY RowTypes DEF SendProbe, SendersAlone
  <1>2. case' = case /\ UsedCases' = UsedCases /\ faults' = faults /\ faults \in 0..MaxFaults
        /\ sent \in [Cases -> Nat]
    BY DEF SendProbe, UsedCases, HealthVerificationTypeOK, WorkersTypeOK
  <1>3. PICK seen \in {"healthy", "failure", "missing"} :
          worker' = [worker EXCEPT ![w] = [worker[w] EXCEPT !.pc = "answered", !.seen = seen]]
    <2>1. \E seen \in {"healthy", "failure", "missing"} :
            worker' = [worker EXCEPT ![w].pc = "answered", ![w].seen = seen]
      BY DEF SendProbe
    <2>2. QED
      BY <2>1, RowTypes
  <1> DEFINE item == [worker[w] EXCEPT !.pc = "answered", !.seen = seen]
  <1>4. item \in WorkerType /\ item.pc = "answered" /\ item.case = c
    BY <1>1 DEF WorkerType
  <1>5. /\ worker' \in [Workers -> WorkerType] /\ worker'[w] = item
        /\ \A v \in Workers : v # w => worker'[v] = worker[v]
    BY <1>3, <1>4, RowTypes
  <1>6. sent' = sent \/ sent' = [sent EXCEPT ![c] = 1]
    <2>1. sent' = sent \/ sent' = [sent EXCEPT ![c] = @ + 1]
      BY DEF SendProbe
    <2> HIDE DEF c
    <2>2. QED
      BY <1>1, <1>2, <2>1
  <1> HIDE DEF item, c
  <1>7. WorkersTypeOK'
    <2>1. sent' \in [Cases -> Nat]
      BY <1>1, <1>2, <1>6
    <2>2. QED
      BY <1>2, <1>5, <2>1 DEF WorkersTypeOK
  <1>8. \A d \in Cases : sent'[d] = sent[d] \/ (d = c /\ sent'[d] = 1)
    BY <1>1, <1>2, <1>6
  <1>9. \A d \in Cases : sent'[d] <= 1 /\ (sent'[d] = 1 => case'[d].state \in Dispatched)
    BY <1>1, <1>2, <1>8 DEF SendersAlone
  <1>10. \A v \in Workers : v # w /\ worker[v].pc = "dispatched"
                           => worker[v].case \in Cases /\ worker[v].case # worker[w].case
    BY <1>1, RowTypes DEF SendersAlone
  <1>11. \A v \in Workers :
          /\ worker'[v].pc # "idle" => worker'[v].case \in UsedCases'
          /\ worker'[v].pc = "dispatched" => /\ v # w
                                             /\ case'[worker'[v].case].state \in Dispatched
                                             /\ sent'[worker'[v].case] = 0
    <2>1. SUFFICES ASSUME NEW v \in Workers
                   PROVE  /\ worker'[v].pc # "idle" => worker'[v].case \in UsedCases'
                          /\ worker'[v].pc = "dispatched" =>
                               /\ v # w
                               /\ case'[worker'[v].case].state \in Dispatched
                               /\ sent'[worker'[v].case] = 0
      OBVIOUS
    <2>2. CASE v = w
      BY <1>1, <1>2, <1>4, <1>5, <2>2
    <2>3. CASE v # w
      <3>1. worker'[v] = worker[v]
        BY <1>5, <2>3
      <3>2. worker[v].pc = "dispatched" => sent'[worker[v].case] = sent[worker[v].case]
        BY <1>8, <1>10, <2>3 DEF c
      <3>3. QED
        BY <1>2, <2>3, <3>1, <3>2 DEF SendersAlone
    <2>4. QED
      BY <2>2, <2>3
  <1>12. \A u, v \in Workers :
           u # v /\ worker'[u].pc = "dispatched" /\ worker'[v].pc = "dispatched"
           => worker'[u].case # worker'[v].case
    BY <1>5, <1>11 DEF SendersAlone
  <1>13. QED
    BY <1>7, <1>9, <1>11, <1>12 DEF WorkersInv, SendersAlone

\* The workers and what they have sent, whichever step is taken.
LEMMA WorkersStep ==
  ASSUME HealthVerificationTypeOK, CasesOrdered, GatesNameCases, SendersAlone, [Next]_vars
  PROVE  WorkersInv'
  <1>0. CasesTypeOK' /\ CaseMoves /\ faults \in 0..MaxFaults
    BY CasesStep DEF HealthVerificationTypeOK, WorkersTypeOK
  <1>1. Fault => faults' \in 0..MaxFaults
    BY <1>0, HealthVerificationAssumption DEF Fault
  <1>2. ASSUME worker' = worker, sent' = sent, faults' = faults \/ Fault
        PROVE  WorkersInv'
    BY <1>0, <1>1, <1>2, RestingWorkers
  <1>3. ASSUME NEW w \in Workers, Rest(w), sent' = sent, faults' = faults \/ Fault
        PROVE  WorkersInv'
    <2>1. Idle \in WorkerType /\ Idle.pc = "idle"
      BY DEF Idle, WorkerType
    <2>2. GoesOn(w, Idle)
      BY <1>3, <2>1 DEF Rest, GoesOn
    <2>3. QED
      BY <1>0, <1>1, <1>3, <2>2, WorkerGoesOn
  <1>4. CASE UNCHANGED vars \/ Publish \/ ManualRecover
    BY <1>2, <1>4 DEF vars, Publish, ManualRecover
  <1>5. ASSUME NEW r \in Routes, AdmitAttempt(r) \/ ChangeRoute(r)
        PROVE  WorkersInv'
    BY <1>2, <1>5 DEF AdmitAttempt, ChangeRoute
  <1>6. ASSUME NEW k \in RouteKeys, CompleteRequest(k) \/ CoolDown(k)
        PROVE  WorkersInv'
    BY <1>2, <1>6 DEF CompleteRequest, CoolDown
  <1>7. ASSUME NEW c \in Cases, ExpireDispatch(c) \/ LeaseExpires(c)
        PROVE  WorkersInv'
    BY <1>2, <1>7 DEF ExpireDispatch, LeaseExpires
  <1>8. ASSUME NEW g \in Generations, ProcessUnpublish(g)
        PROVE  WorkersInv'
    BY <1>2, <1>8 DEF ProcessUnpublish
  <1>9. ASSUME NEW w \in Workers, DeferClaim(w) \/ WorkerStops(w) \/ CancelClaim(w)
                                  \/ CompletionLate(w)
        PROVE  WorkersInv'
    BY <1>3, <1>9 DEF DeferClaim, WorkerStops, CancelClaim, CompletionLate
  <1>10. ASSUME NEW w \in Workers, NEW cost \in Costs,
                CompleteProbe(w, cost) \/ CompleteUnknown(w, cost)
         PROVE  WorkersInv'
    BY <1>3, <1>10 DEF CompleteProbe, CompleteUnknown
  <1>11. ASSUME NEW w \in Workers, NEW c \in Cases, Claim(w, c)
         PROVE  WorkersInv'
    <2> DEFINE item == [pc |-> "claimed", case |-> c, seen |-> "none",
                        attempts |-> case[c].attempts + 1]
    <2>1. worker' = [worker EXCEPT ![w] = item] /\ sent' = sent /\ faults' = faults
          /\ c \in UsedCases
      BY <1>11 DEF Claim, Claimable, UsedCases
    <2>2. item \in WorkerType /\ item.pc = "claimed" /\ item.case = c
      BY RowTypes DEF WorkerType
    <2> HIDE DEF item
    <2>3. GoesOn(w, item)
      BY <2>1, <2>2 DEF GoesOn
    <2>4. QED
      BY <1>0, <2>1, <2>3, WorkerGoesOn
  <1>12. ASSUME NEW w \in Workers, LoadTarget(w)
         PROVE  WorkersInv'
    <2>1. PICK pc \in {"checked", "changed"} : Goto(w, pc)
      BY <1>12 DEF LoadTarget
    <2> DEFINE item == [worker[w] EXCEPT !.pc = pc]
    <2>2. worker[w] \in WorkerType /\ worker[w].case \in UsedCases
      BY <1>12, RowTypes DEF LoadTarget, SendersAlone
    <2>3. item \in WorkerType /\ item.pc = pc /\ item.case = worker[w].case
      BY <2>2 DEF WorkerType
    <2>4. worker' = [worker EXCEPT ![w] = item] /\ sent' = sent /\ faults' = faults
      BY <1>12, <2>1 DEF LoadTarget, Goto
    <2> HIDE DEF item
    <2>5. GoesOn(w, item)
      BY <2>2, <2>3, <2>4 DEF GoesOn
    <2>6. QED
      BY <1>0, <2>4, <2>5, WorkerGoesOn
  <1>13. ASSUME NEW w \in Workers, CompletionRefused(w)
         PROVE  WorkersInv'
    <2> DEFINE item == [Idle EXCEPT !.seen = "refused"]
    <2>1. worker' = [worker EXCEPT ![w] = item] /\ sent' = sent /\ faults' = faults
      BY <1>13 DEF CompletionRefused
    <2>2. item \in WorkerType /\ item.pc = "idle"
      BY DEF WorkerType, Idle
    <2> HIDE DEF item
    <2>3. GoesOn(w, item)
      BY <2>1, <2>2 DEF GoesOn
    <2>4. QED
      BY <1>0, <2>1, <2>3, WorkerGoesOn
  <1>14. ASSUME NEW w \in Workers, NEW answer \in {"healthy", "failure", "missing"},
                SendProbe(w, answer)
         PROVE  WorkersInv'
    BY <1>14, SenderAlone
  <1>15. ASSUME NEW w \in Workers, BeginDispatch(w)
         PROVE  WorkersInv'
    BY <1>0, <1>15, DispatcherAlone
  <1>16. QED
    BY <1>4, <1>5, <1>6, <1>7, <1>8, <1>9, <1>10, <1>11, <1>12, <1>13, <1>14, <1>15
       DEF Next, WorkerStep

-------------------------------------------------------------------------------
(* What routes have failed. *)

\* Only an answer that is counted changes what a route has proven; the success of a
\* real request forgets the failures of a closed one.
LEMMA RoutesMove ==
  ASSUME HealthVerificationTypeOK, [Next]_vars
  PROVE  /\ eligible' \subseteq Routes /\ inflight' \subseteq RouteKeys
         /\ changes' \in 0..MaxChanges
         /\ \/ routeState' = routeState
            \/ \E k \in RouteKeys : /\ ~routeState[k].open
                                    /\ routeState' = [routeState EXCEPT ![k].failures = 0]
            \/ \E w \in Workers, cost \in Costs : CompleteProbe(w, cost)
  <1> DEFINE Goal ==
        /\ eligible' \subseteq Routes /\ inflight' \subseteq RouteKeys
        /\ changes' \in 0..MaxChanges
        /\ \/ routeState' = routeState
           \/ \E k \in RouteKeys : /\ ~routeState[k].open
                                   /\ routeState' = [routeState EXCEPT ![k].failures = 0]
           \/ \E w \in Workers, cost \in Costs : CompleteProbe(w, cost)
  <1>0. /\ eligible \subseteq Routes /\ inflight \subseteq RouteKeys
        /\ changes \in 0..MaxChanges
    BY DEF HealthVerificationTypeOK, RoutesTypeOK
  <1>1. CASE UNCHANGED vars \/ Publish \/ ManualRecover
    BY <1>0, <1>1 DEF vars, Publish, ManualRecover
  <1>2. ASSUME NEW r \in Routes, AdmitAttempt(r)
        PROVE  Goal
    <2>1. Current(r) \in RouteKeys
      BY DEF Current, RouteKeys, HealthVerificationTypeOK, ModelTypeOK
    <2>2. QED
      BY <1>0, <1>2, <2>1 DEF AdmitAttempt
  <1>3. ASSUME NEW r \in Routes, ChangeRoute(r)
        PROVE  Goal
    BY <1>0, <1>3, HealthVerificationAssumption DEF ChangeRoute
  <1>4. ASSUME NEW k \in RouteKeys, CompleteRequest(k)
        PROVE  Goal
    <2>1. /\ eligible' = eligible /\ inflight' = inflight \ {k} /\ changes' = changes
      BY <1>4 DEF CompleteRequest
    <2>2. \/ routeState' = routeState
          \/ ~routeState[k].open /\ routeState' = [routeState EXCEPT ![k].failures = 0]
      BY <1>4 DEF CompleteRequest, CompleteSuspected, CompleteSuccess
    <2>3. QED
      BY <1>0, <2>1, <2>2
  <1>5. ASSUME NEW k \in RouteKeys, CoolDown(k)
        PROVE  Goal
    BY <1>0, <1>5 DEF CoolDown
  <1>6. ASSUME NEW w \in Workers, WorkerStep(w)
        PROVE  Goal
    <2>1. ASSUME NEW c \in Cases, Claim(w, c)
          PROVE  Goal
      BY <1>0, <2>1 DEF Claim
    <2>2. CASE LoadTarget(w) \/ CancelClaim(w) \/ BeginDispatch(w) \/ CompletionRefused(w)
               \/ CompletionLate(w)
      BY <1>0, <2>2 DEF LoadTarget, CancelClaim, BeginDispatch, CompletionRefused, CompletionLate
    <2>3. ASSUME NEW answer \in {"healthy", "failure", "missing"}, SendProbe(w, answer)
          PROVE  Goal
      BY <1>0, <2>3 DEF SendProbe
    <2>4. ASSUME NEW cost \in Costs, CompleteProbe(w, cost)
          PROVE  Goal
      <3>1. eligible' = eligible /\ inflight' = inflight /\ changes' = changes
        BY <2>4 DEF CompleteProbe
      <3>2. QED
        BY <1>0, <2>4, <3>1
    <2>5. ASSUME NEW cost \in Costs, CompleteUnknown(w, cost)
          PROVE  Goal
      BY <1>0, <2>5 DEF CompleteUnknown
    <2>6. QED
      BY <1>6, <2>1, <2>2, <2>3, <2>4, <2>5 DEF WorkerStep
  <1>7. ASSUME NEW w \in Workers, DeferClaim(w) \/ WorkerStops(w)
        PROVE  Goal
    BY <1>0, <1>7 DEF DeferClaim, WorkerStops
  <1>8. ASSUME NEW c \in Cases, ExpireDispatch(c) \/ LeaseExpires(c)
        PROVE  Goal
    BY <1>0, <1>8 DEF ExpireDispatch, LeaseExpires
  <1>9. ASSUME NEW g \in Generations, ProcessUnpublish(g)
        PROVE  Goal
    BY <1>0, <1>9 DEF ProcessUnpublish
  <1>10. QED
    BY <1>1, <1>2, <1>3, <1>4, <1>5, <1>6, <1>7, <1>8, <1>9 DEF Next

\* Completed cases stay what they proved, and no other becomes one.
SameProofs(c) ==
  /\ case'[c].state = "completed" <=> case[c].state = "completed"
  /\ case[c].state = "completed" => /\ case'[c].key = case[c].key
                                    /\ case'[c].result = case[c].result

\* Without an answer that is counted, nothing new is proven.
LEMMA ProofsStay ==
  ASSUME HealthVerificationTypeOK, CasesOrdered, CaseMoves,
         NEW d \in Cases, ~Counts(d)
  PROVE  SameProofs(d)
  <1>1. CASE Untouched
    BY <1>1 DEF Untouched, SameProofs
  <1>2. ASSUME NEW c \in Cases, Keeps(c) \/ Cancels(c) \/ Dispatches(c)
        PROVE  SameProofs(d)
    BY <1>2 DEF Keeps, Cancels, Dispatches, Rewrites, Unsent, SameProofs
  <1>3. ASSUME NEW c \in Cases, Finishes(c)
        PROVE  SameProofs(d)
    BY <1>3 DEF Finishes, Rewrites, SameProofs
  <1>4. ASSUME NEW k \in RouteKeys, NEW n \in Cases \cup {0}, Enqueues(k, n)
        PROVE  SameProofs(d)
    <2>1. CASE d = n
      <3>1. n # 0 /\ n = Cardinality(UsedCases) + 1 /\ case'[n] = Queued(k)
        BY <1>4, <2>1, RowTypes DEF Enqueues
      <3>2. case[n].state = "none"
        BY <2>1, <3>1, CaseCount, RowTypes
      <3>3. QED
        BY <2>1, <3>1, <3>2 DEF Queued, SameProofs
    <2>2. CASE d # n
      BY <1>4, <2>2 DEF Enqueues, StaleCases, SameProofs
    <2>3. QED
      BY <2>1, <2>2
  <1>5. QED
    BY <1>1, <1>2, <1>3, <1>4 DEF CaseMoves

\* What a route has failed is what its completed cases say.
LEMMA FailedSame ==
  ASSUME NEW k \in RouteKeys,
         \A c \in Cases : SameProofs(c) \/ (case[c].key # k /\ case'[c].key # k)
  PROVE  Failed(k)' = Failed(k)
  <1>1. Proofs(k)' = Proofs(k)
    BY DEF Proofs, SameProofs
  <1>2. \A c \in Proofs(k) : case'[c].result = case[c].result
    BY DEF Proofs, SameProofs
  <1>3. QED
    BY <1>1, <1>2 DEF Failed

\* Failed probes can be counted.
LEMMA FailedCount ==
  ASSUME NEW k \in RouteKeys
  PROVE  /\ IsFiniteSet(Failed(k)) /\ Cardinality(Failed(k)) \in Nat
         /\ IsFiniteSet(Failed(k)') /\ Cardinality(Failed(k)') \in Nat
  <1>1. IsFiniteSet(Cases)
    BY FS_Interval, HealthVerificationAssumption DEF Cases
  <1>2. Failed(k) \subseteq Cases /\ Failed(k)' \subseteq Cases
    BY DEF Failed, Proofs
  <1>3. QED
    BY <1>1, <1>2, FS_Subset, FS_CardinalityType

\* An answer that is counted is of the last case of its route.
LEMMA FailedGrows ==
  ASSUME HealthVerificationTypeOK, CasesOrdered, GatesNameCases, SendersAlone,
         NEW w \in Workers, NEW cost \in Costs, CompleteProbe(w, cost),
         NEW c, c = worker[w].case, NEW k, k = case[c].key
  PROVE  /\ \A j \in RouteKeys : j # k => Failed(j)' = Failed(j)
         /\ worker[w].seen = "failure"
              => Cardinality(Failed(k)') >= Cardinality(Failed(k)) + 1
  <1>1. /\ c \in UsedCases /\ c \in Cases /\ k \in RouteKeys /\ case[c].state = "dispatching"
    BY RowTypes DEF CompleteProbe, SendersAlone
  <1>2. /\ case' = Done(c, "completed", worker[w].seen, cost)
        /\ gate' = Finished(case[c].key, c) /\ accounted' = Settle(c, cost)
        /\ worker[w].seen \in Results /\ Counts(c) /\ cost \in Nat
    BY HealthVerificationAssumption DEF CompleteProbe, Results, Counts
  <1>3. Finishes(c) /\ case'[c].state = "completed" /\ case'[c].result = worker[w].seen
    BY <1>1, <1>2, FinishTypes
  <1>4. case'[c].key = k /\ \A d \in Cases : d # c => case'[d] = case[d]
    BY <1>3 DEF Finishes, Rewrites
  <1>5. \A j \in RouteKeys : j # k => Failed(j)' = Failed(j)
    <2>1. ASSUME NEW j \in RouteKeys, j # k
          PROVE  \A d \in Cases : SameProofs(d) \/ (case[d].key # j /\ case'[d].key # j)
      BY <1>4, <2>1 DEF SameProofs
    <2>2. QED
      BY <2>1, FailedSame
  <1>6. ASSUME worker[w].seen = "failure"
        PROVE  Cardinality(Failed(k)') >= Cardinality(Failed(k)) + 1
    <2>1. \A d \in Proofs(k) : d # c /\ d < c
      <3>1. SUFFICES ASSUME NEW d \in Proofs(k)
                     PROVE  d # c /\ d < c
        OBVIOUS
      <3>2. d \in UsedCases /\ d \in Cases /\ d # c /\ case[d].key = k
        BY <1>1 DEF Proofs, UsedCases
      <3>3. ~(c < d)
        BY <1>1, <3>2 DEF GatesNameCases, Unfinished
      <3>4. c \in Nat /\ d \in Nat
        BY <1>1, <3>2, RowTypes
      <3>5. QED
        BY <3>2, <3>3, <3>4
    <2>2. Proofs(k)' = Proofs(k) \cup {c}
      BY <1>1, <1>3, <1>4, <2>1 DEF Proofs
    <2>3. \A d \in Proofs(k) : case'[d] = case[d]
      BY <1>4, <2>1 DEF Proofs
    <2>4. Failed(k) \cup {c} \subseteq Failed(k)'
      BY <1>3, <1>6, <2>1, <2>2, <2>3 DEF Failed
    <2>5. c \notin Failed(k)
      BY <2>1 DEF Failed
    <2>6. Cardinality(Failed(k) \cup {c}) = Cardinality(Failed(k)) + 1
      BY <1>1, <2>5, FailedCount, FS_AddElement
    <2>7. Cardinality(Failed(k) \cup {c}) <= Cardinality(Failed(k)')
      BY <1>1, <2>4, FailedCount, FS_Subset
    <2>8. QED
      BY <1>1, <2>6, <2>7, FailedCount
  <1>7. QED
    BY <1>5, <1>6

\* How a counted answer rewrites its route.
LEMMA AfterProbeRow ==
  ASSUME HealthVerificationTypeOK, FailuresProven, NEW k \in RouteKeys, NEW failed \in BOOLEAN,
         routeState' = AfterProbe(k, failed)
  PROVE  /\ routeState' \in [RouteKeys -> [failures : 0..2, open : BOOLEAN]]
         /\ \A j \in RouteKeys : j # k => routeState'[j] = routeState[j]
         /\ \/ failed /\ routeState[k].open /\ routeState'[k] = routeState[k]
            \/ /\ failed /\ ~routeState[k].open
               /\ routeState'[k].failures = routeState[k].failures + 1
               /\ routeState'[k].open => routeState[k].failures >= 1
               /\ ~routeState'[k].open => routeState[k].failures = 0
            \/ ~failed /\ routeState'[k].failures = 0 /\ ~routeState'[k].open
  <1> DEFINE Row == [failures : 0..2, open : BOOLEAN]
  <1>1. routeState \in [RouteKeys -> Row] /\ routeState[k].failures \in 0..2
    BY DEF HealthVerificationTypeOK, RoutesTypeOK
  <1>2. CASE ~failed
    <2> DEFINE row == [failures |-> 0, open |-> FALSE]
    <2>1. routeState' = [routeState EXCEPT ![k] = row]
      BY <1>2 DEF AfterProbe
    <2>2. row \in Row /\ row.failures = 0 /\ ~row.open
      OBVIOUS
    <2> HIDE DEF row, Row
    <2>3. routeState' \in [RouteKeys -> Row] /\ routeState'[k] = row
          /\ \A j \in RouteKeys : j # k => routeState'[j] = routeState[j]
      BY <1>1, <2>1, <2>2
    <2>4. QED
      BY <1>2, <2>2, <2>3 DEF Row
  <1>3. CASE failed /\ routeState[k].open
    <2>1. routeState' = routeState
      BY <1>3 DEF AfterProbe
    <2>2. QED
      BY <1>1, <1>3, <2>1
  <1>4. CASE failed /\ ~routeState[k].open
    <2> DEFINE n == routeState[k].failures
               row == [failures |-> n + 1, open |-> n >= 1]
    <2>1. routeState' = [routeState EXCEPT ![k] = row]
      BY <1>4 DEF AfterProbe
    <2>2. n \in 0..1
      BY <1>1, <1>4 DEF FailuresProven
    <2>3. (n >= 1) \in BOOLEAN /\ n + 1 \in 0..2 /\ (~(n >= 1) => n = 0)
      <3> HIDE DEF n
      <3>1. QED
        BY <2>2
    <2>4. row \in Row /\ row.failures = n + 1 /\ row.open = (n >= 1)
      BY <2>3
    <2> HIDE DEF row, Row
    <2>5. routeState' \in [RouteKeys -> Row] /\ routeState'[k] = row
          /\ \A j \in RouteKeys : j # k => routeState'[j] = routeState[j]
      BY <1>1, <2>1, <2>4
    <2>6. /\ routeState'[k].failures = n + 1 /\ (routeState'[k].open => n >= 1)
          /\ (~routeState'[k].open => n = 0)
      BY <2>3, <2>4, <2>5
    <2>7. QED
      BY <1>4, <2>5, <2>6 DEF Row
  <1>5. QED
    BY <1>2, <1>3, <1>4

RoutesInv == RoutesTypeOK /\ FailuresProven

\* A route opens only for what it has failed.
LEMMA RoutesStep ==
  ASSUME HealthVerificationTypeOK, CasesOrdered, GatesNameCases, SendersAlone, FailuresProven,
         [Next]_vars
  PROVE  RoutesInv'
  <1>0. /\ CaseMoves
        /\ eligible' \subseteq Routes /\ inflight' \subseteq RouteKeys
        /\ changes' \in 0..MaxChanges
        /\ routeState \in [RouteKeys -> [failures : 0..2, open : BOOLEAN]]
    BY CasesStep, RoutesMove DEF HealthVerificationTypeOK, RoutesTypeOK
  <1>1. ASSUME NEW w \in Workers, NEW cost \in Costs, CompleteProbe(w, cost)
        PROVE  RoutesInv'
    <2>1. PICK c : c = worker[w].case
      OBVIOUS
    <2>2. PICK k : k = case[c].key
      OBVIOUS
    <2>3. PICK failed \in BOOLEAN : failed = (worker[w].seen = "failure")
      OBVIOUS
    <2>4. c \in UsedCases /\ k \in RouteKeys
      BY <1>1, <2>1, <2>2, RowTypes DEF CompleteProbe, SendersAlone
    <2>5. routeState' = AfterProbe(k, failed)
      BY <1>1, <2>1, <2>2, <2>3 DEF CompleteProbe
    <2>6. /\ \A j \in RouteKeys : j # k => Failed(j)' = Failed(j)
          /\ failed => Cardinality(Failed(k)') >= Cardinality(Failed(k)) + 1
      BY <1>1, <2>1, <2>2, <2>3, FailedGrows
    <2>7. /\ routeState' \in [RouteKeys -> [failures : 0..2, open : BOOLEAN]]
          /\ \A j \in RouteKeys : j # k => routeState'[j] = routeState[j]
      BY <2>4, <2>5, AfterProbeRow
    <2>8. IF routeState'[k].open THEN Cardinality(Failed(k)') >= 2
          ELSE routeState'[k].failures <= 1 /\ routeState'[k].failures <= Cardinality(Failed(k)')
      <3>1. /\ Cardinality(Failed(k)) \in Nat /\ Cardinality(Failed(k)') \in Nat
            /\ routeState[k].failures \in 0..2
        BY <1>0, <2>4, FailedCount
      <3>2. IF routeState[k].open THEN Cardinality(Failed(k)) >= 2
            ELSE routeState[k].failures <= 1 /\ routeState[k].failures <= Cardinality(Failed(k))
        BY <2>4 DEF FailuresProven
      <3>3. CASE failed /\ routeState[k].open /\ routeState'[k] = routeState[k]
        BY <2>6, <3>1, <3>2, <3>3
      <3>4. CASE /\ failed /\ ~routeState[k].open
                 /\ routeState'[k].failures = routeState[k].failures + 1
                 /\ routeState'[k].open => routeState[k].failures >= 1
                 /\ ~routeState'[k].open => routeState[k].failures = 0
        BY <2>6, <3>1, <3>2, <3>4
      <3>5. CASE ~failed /\ routeState'[k].failures = 0 /\ ~routeState'[k].open
        BY <3>1, <3>5
      <3>6. QED
        BY <2>4, <2>5, <3>3, <3>4, <3>5, AfterProbeRow
    <2>9. FailuresProven'
      <3>1. ASSUME NEW j \in RouteKeys
            PROVE  IF routeState'[j].open THEN Cardinality(Failed(j)') >= 2
                   ELSE /\ routeState'[j].failures <= 1
                        /\ routeState'[j].failures <= Cardinality(Failed(j)')
        <4>1. CASE j = k
          BY <2>8, <4>1
        <4>2. CASE j # k
          BY <2>6, <2>7, <4>2 DEF FailuresProven
        <4>3. QED
          BY <4>1, <4>2
      <3>2. QED
        BY <3>1 DEF FailuresProven
    <2>10. QED
      BY <1>0, <2>7, <2>9 DEF RoutesInv, RoutesTypeOK
  <1>2. CASE ~\E w \in Workers, cost \in Costs : CompleteProbe(w, cost)
    <2>1. \A j \in RouteKeys : Failed(j)' = Failed(j)
      <3>1. \A c \in Cases : SameProofs(c)
        BY <1>0, <1>2, ProofsStay DEF Counts
      <3>2. QED
        BY <3>1, FailedSame
    <2>2. CASE routeState' = routeState
      BY <1>0, <2>1, <2>2 DEF RoutesInv, RoutesTypeOK, FailuresProven
    <2>3. ASSUME NEW k \in RouteKeys, ~routeState[k].open,
                 routeState' = [routeState EXCEPT ![k].failures = 0]
          PROVE  RoutesInv'
      <3>1. /\ routeState' \in [RouteKeys -> [failures : 0..2, open : BOOLEAN]]
            /\ routeState'[k].failures = 0 /\ ~routeState'[k].open
            /\ \A j \in RouteKeys : j # k => routeState'[j] = routeState[j]
        BY <1>0, <2>3
      <3>2. FailuresProven'
        <4>1. ASSUME NEW j \in RouteKeys
              PROVE  IF routeState'[j].open THEN Cardinality(Failed(j)') >= 2
                     ELSE /\ routeState'[j].failures <= 1
                          /\ routeState'[j].failures <= Cardinality(Failed(j)')
          <5>1. CASE j = k
            BY <3>1, <5>1, FailedCount
          <5>2. CASE j # k
            BY <2>1, <3>1, <5>2 DEF FailuresProven
          <5>3. QED
            BY <5>1, <5>2
        <4>2. QED
          BY <4>1 DEF FailuresProven
      <3>3. QED
        BY <1>0, <3>1, <3>2 DEF RoutesInv, RoutesTypeOK
    <2>4. QED
      BY <1>2, <2>2, <2>3, RoutesMove
  <1>3. QED
    BY <1>1, <1>2

\* An incident is never forgotten, and neither is an alert; an alert is of a used case.
LEMMA ReportsStay ==
  ASSUME HealthVerificationTypeOK, SendersAlone, AlertsOfCases, [Next]_vars
  PROVE  /\ \A g \in Generations : incident[g] # "none" => incident'[g] # "none"
         /\ routeAlerts \subseteq routeAlerts' /\ routeAlerts' \subseteq UsedCases
  <1> DEFINE Goal == /\ \A g \in Generations : incident[g] # "none" => incident'[g] # "none"
                     /\ routeAlerts \subseteq routeAlerts' /\ routeAlerts' \subseteq UsedCases
  <1>0. /\ incident \in [Generations -> {"none", "open", "unpublished", "recovered"}]
        /\ routeAlerts \subseteq UsedCases
    BY DEF HealthVerificationTypeOK, ModelTypeOK, AlertsOfCases
  <1>1. CASE UNCHANGED modelVars \/ Publish
    BY <1>0, <1>1 DEF modelVars, Publish
  <1>2. ASSUME NEW w \in Workers, NEW cost \in Costs, CompleteProbe(w, cost)
        PROVE  Goal
    <2>1. worker[w].case \in UsedCases
      BY <1>2 DEF CompleteProbe, SendersAlone
    <2>2. PICK c \in UsedCases, g \in Generations :
            Tripped(g) \/ Alerted(c) \/ UNCHANGED modelVars
      BY <1>2, <2>1, ProbeReports
    <2>3. QED
      BY <1>0, <1>1, <2>2 DEF Tripped, Trip, Alerted
  <1>3. ASSUME NEW g \in Generations, ProcessUnpublish(g)
        PROVE  Goal
    BY <1>0, <1>3 DEF ProcessUnpublish
  <1>4. CASE ManualRecover
    <2>1. health.generation \in Generations
      BY DEF HealthVerificationTypeOK, ModelTypeOK
    <2>2. QED
      BY <1>0, <1>4, <2>1 DEF ManualRecover
  <1>5. QED
    BY <1>1, <1>2, <1>3, <1>4, ModelMoves

ReportsInv == OpenRouteReported /\ AlertsOfCases

\* Nobody opens a route without saying so.
LEMMA ReportsStep ==
  ASSUME HealthVerificationTypeOK, CasesOrdered, GatesNameCases, SendersAlone, FailuresProven,
         IncidentsOrdered, OpenRouteReported, AlertsOfCases, [Next]_vars
  PROVE  ReportsInv'
  <1>0. /\ \A g \in Generations : incident[g] # "none" => incident'[g] # "none"
        /\ routeAlerts \subseteq routeAlerts' /\ routeAlerts' \subseteq UsedCases
        /\ \A k \in RouteKeys : k[2] \in Generations
    BY ReportsStay DEF RouteKeys
  <1>1. CaseMoves /\ UsedCases \subseteq UsedCases'
        /\ \A c \in UsedCases : case'[c].key = case[c].key
    <2>1. CaseMoves
      BY CasesStep
    <2>2. QED
      BY <2>1, UsedAfter
  <1>2. AlertsOfCases'
    BY <1>0, <1>1 DEF AlertsOfCases
  <1>3. ASSUME NEW k \in RouteKeys, routeState[k].open
        PROVE  incident'[k[2]] # "none" \/ \E c \in routeAlerts' : case'[c].key = k
    BY <1>0, <1>1, <1>3 DEF OpenRouteReported, AlertsOfCases
  <1>4. ASSUME NEW k \in RouteKeys, ~routeState[k].open, routeState'[k].open
        PROVE  incident'[k[2]] # "none" \/ \E c \in routeAlerts' : case'[c].key = k
    <2>0. routeState \in [RouteKeys -> [failures : 0..2, open : BOOLEAN]]
      BY DEF HealthVerificationTypeOK, RoutesTypeOK
    <2>1. PICK w \in Workers, cost \in Costs : CompleteProbe(w, cost)
      BY <1>4, <2>0, RoutesMove
    <2>2. PICK c : c = worker[w].case
      OBVIOUS
    <2>3. c \in UsedCases
      BY <2>1, <2>2 DEF CompleteProbe, SendersAlone
    <2>4. PICK j : j = case[c].key
      OBVIOUS
    <2>5. PICK failed \in BOOLEAN : failed = (worker[w].seen = "failure")
      OBVIOUS
    <2>6. /\ j \in RouteKeys
          /\ routeState' = AfterProbe(j, failed)
          /\ \/ Tripped(j[2]) \/ Alerted(c) \/ ~failed \/ ~routeState'[j].open \/ health.open
      BY <2>1, <2>2, <2>3, <2>4, <2>5, ProbeReports
    <2>7. j = k /\ failed
      BY <1>4, <2>6, AfterProbeRow
    <2>8. CASE Tripped(k[2])
      <3>1. incident'[k[2]] = "open"
        BY <1>0, <2>8 DEF Tripped, Trip, HealthVerificationTypeOK, ModelTypeOK
      <3>2. QED
        BY <3>1
    <2>9. CASE Alerted(c)
      BY <1>1, <2>3, <2>4, <2>7, <2>9 DEF Alerted
    <2>10. CASE health.open
      <3>1. k[2] <= health.generation /\ k[2] \in Nat /\ health.generation \in Nat
        <4>1. k[2] <= health.generation
          BY <2>3, <2>4, <2>7 DEF CasesOrdered
        <4>2. k[2] \in Generations /\ health.generation \in Generations
          BY <1>0 DEF HealthVerificationTypeOK, ModelTypeOK
        <4>3. QED
          BY <4>1, <4>2 DEF Generations
      <3>2. incident[k[2]] # "none"
        <4>1. CASE k[2] < health.generation
          BY <1>0, <4>1 DEF IncidentsOrdered
        <4>2. CASE k[2] = health.generation
          BY <2>10, <4>2 DEF IncidentsOrdered, TripHasItsJob
        <4>3. QED
          BY <3>1, <4>1, <4>2
      <3>3. QED
        BY <1>0, <3>2
    <2>11. QED
      BY <1>4, <2>6, <2>7, <2>8, <2>9, <2>10
  <1>5. QED
    BY <1>2, <1>3, <1>4 DEF ReportsInv, OpenRouteReported

-------------------------------------------------------------------------------
(* The theorems. *)

\* A published model, closed, with no case.
LEMMA HealthStarts ==
  ASSUME Init
  PROVE  HealthInv
  <1>0. /\ MaxCases \in Nat \ {0} /\ MaxGeneration \in Nat \ {0} /\ Reservation \in Nat \ {0}
        /\ Allocated \in Nat /\ 1 \in Generations
    BY HealthVerificationAssumption DEF Generations
  <1>1. \A c \in Cases : case[c] = NoCase
    BY DEF Init
  <1>2. UsedCases = {}
    BY <1>1 DEF UsedCases, NoCase
  <1>3. NoCase \in CaseType /\ NoCase.state = "none" /\ NoCase.estimate = 0
    BY DEF NoCase, CaseType, States, Results
  <1>4. CasesTypeOK
    <2>1. case \in [Cases -> CaseType] /\ accounted \in Nat
      BY <1>3 DEF Init
    <2>2. [active |-> 0, last |-> 0, cooling |-> FALSE] \in GateType
      BY DEF GateType
    <2>3. gate \in [RouteKeys -> GateType]
      BY <2>2 DEF Init
    <2>4. QED
      BY <1>2, <2>1, <2>3 DEF CasesTypeOK
  <1>5. ModelTypeOK
    BY <1>0 DEF Init, ModelTypeOK
  <1>6. RoutesTypeOK
    <2>1. [failures |-> 0, open |-> FALSE] \in [failures : 0..2, open : BOOLEAN]
      OBVIOUS
    <2>2. changes \in 0..MaxChanges
      BY HealthVerificationAssumption DEF Init
    <2>3. QED
      BY <2>1, <2>2 DEF Init, RoutesTypeOK
  <1>7. WorkersTypeOK
    <2>1. Idle \in WorkerType
      BY DEF Idle, WorkerType
    <2>2. faults \in 0..MaxFaults
      BY HealthVerificationAssumption DEF Init
    <2>3. QED
      BY <2>1, <2>2 DEF Init, WorkersTypeOK
  <1>8. CasesOrdered
    <2>1. Cardinality(UsedCases) = 0 /\ 1..0 = {}
      BY <1>2, FS_EmptySet
    <2>2. QED
      BY <1>2, <2>1 DEF CasesOrdered
  <1>9. GatesNameCases
    <2>1. \A k \in RouteKeys : gate[k].active = 0
      BY DEF Init
    <2>2. QED
      BY <1>1, <1>2, <1>3, <2>1 DEF GatesNameCases, Unfinished
  <1>10. OldCasesGiveWay /\ AlertsOfCases
    BY <1>2 DEF OldCasesGiveWay, AlertsOfCases, Init
  <1>11. ReservedCases
    <2>1. Paid = {}
      BY <1>1, <1>3 DEF Paid
    <2>2. Cardinality(Paid) = 0 /\ Reservation * 0 = 0
      BY <1>0, <2>1, FS_EmptySet
    <2>3. SumFunctionOnSet([c \in Cases |-> case[c].estimate], Cases) = 0
      <3>1. IsFiniteSet(Cases)
        BY <1>0, FS_Interval DEF Cases
      <3>2. \A c \in Cases : [d \in Cases |-> case[d].estimate][c] = 0
        BY <1>1, <1>3
      <3>3. QED
        BY <3>1, <3>2, SumOfZeros
    <2>4. accounted = 0
      BY DEF Init
    <2>5. \A c \in Cases : case[c].state \notin Dispatched /\ case[c].estimate = 0
      BY <1>1, <1>3 DEF Dispatched
    <2>6. QED
      BY <1>0, <2>2, <2>3, <2>4, <2>5 DEF ReservedCases
  <1>12. SendersAlone
    <2>1. \A w \in Workers : worker[w].pc = "idle"
      BY DEF Init, Idle
    <2>2. \A c \in Cases : sent[c] = 0
      BY DEF Init
    <2>3. QED
      BY <2>1, <2>2 DEF SendersAlone
  <1>13. IncidentsOrdered
    <2>1. \A g \in Generations : incident[g] = "none" /\ unpublish[g] = "none"
      BY DEF Init
    <2>2. health.generation = 1 /\ ~health.open
      BY DEF Init
    <2>3. \A g \in Generations : ~(g < 1)
      BY DEF Generations
    <2>4. QED
      BY <1>0, <2>1, <2>2, <2>3 DEF IncidentsOrdered, TripHasItsJob
  <1>14. \A k \in RouteKeys : ~routeState[k].open /\ routeState[k].failures = 0
    BY DEF Init
  <1>15. FailuresProven /\ OpenRouteReported
    BY <1>14, FailedCount DEF FailuresProven, OpenRouteReported
  <1>16. QED
    BY <1>4, <1>5, <1>6, <1>7, <1>8, <1>9, <1>10, <1>11, <1>12, <1>13, <1>15
       DEF HealthInv, HealthVerificationTypeOK

\* No step breaks the invariant.
LEMMA HealthStep ==
  ASSUME HealthInv, [Next]_vars
  PROVE  HealthInv'
  <1>0. /\ HealthVerificationTypeOK /\ CasesOrdered /\ GatesNameCases /\ OldCasesGiveWay
        /\ ReservedCases /\ SendersAlone /\ IncidentsOrdered /\ FailuresProven
        /\ OpenRouteReported /\ AlertsOfCases
    BY DEF HealthInv
  <1>1. CasesTypeOK' /\ CaseMoves
    BY <1>0, CasesStep
  <1>2. ModelTypeOK' /\ IncidentsOrdered'
    BY <1>0, ModelStep DEF ModelInv
  <1>3. WorkersTypeOK' /\ SendersAlone'
    BY <1>0, WorkersStep DEF WorkersInv
  <1>4. RoutesTypeOK' /\ FailuresProven'
    BY <1>0, RoutesStep DEF RoutesInv
  <1>5. OpenRouteReported' /\ AlertsOfCases'
    BY <1>0, ReportsStep DEF ReportsInv
  <1>6. CasesOrdered' /\ GatesNameCases' /\ OldCasesGiveWay' /\ ReservedCases'
    BY <1>0, <1>1, CasesStayOrdered, GatesStayNamed, OldCasesStayBack, ReservationsStay
  <1>7. QED
    BY <1>1, <1>2, <1>3, <1>4, <1>5, <1>6 DEF HealthInv, HealthVerificationTypeOK

\* The invariant holds in every behaviour.
THEOREM HealthAlways == Spec => []HealthInv
  <1>1. Init => HealthInv
    BY HealthStarts
  <1>2. HealthInv /\ [Next]_vars => HealthInv'
    BY HealthStep
  <1>3. QED
    BY <1>1, <1>2, PTL DEF Spec

\* Rows keep their types, and no route counts more than two failures, for any number
\* of routes, nodes, cases and generations.
THEOREM VerificationTypeCorrect == Spec => []HealthVerificationTypeOK
  <1>1. HealthInv => HealthVerificationTypeOK
    BY DEF HealthInv
  <1>2. QED
    BY <1>1, HealthAlways, PTL

\* However many nodes claim, crash and answer late: a case sends one probe at most,
\* one that was reserved; the budget has accounted for every probe exactly, and no
\* dispatch was made beyond it; and a route has one paid case at a time.
THEOREM ProbesArePaidOnce == Spec => []ProbesPaidOnce
  <1>1. ASSUME HealthInv
        PROVE  SingleSpend
    <2>1. ASSUME NEW c \in Cases
          PROVE  sent[c] <= 1 /\ (sent[c] = 1 => case[c].estimate >= Reservation)
      BY <1>1 DEF HealthInv, SendersAlone, ReservedCases
    <2>2. QED
      BY <2>1 DEF SingleSpend
  <1>2. ASSUME HealthInv
        PROVE  BudgetCoversProbes
    BY <1>2 DEF HealthInv, ReservedCases, Paid, BudgetCoversProbes
  <1>3. ASSUME HealthInv
        PROVE  GateNamesActive
    <2>1. HealthVerificationTypeOK /\ GatesNameCases
      BY <1>3 DEF HealthInv
    <2>2. ASSUME NEW c \in Cases, case[c].state \in Unfinished
          PROVE  \E k \in RouteKeys : gate[k].active = c
      BY <2>1, <2>2, RowTypes DEF GatesNameCases, Unfinished
    <2>3. ASSUME NEW c \in Cases, NEW k \in RouteKeys, gate[k].active = c
          PROVE  case[c].state \in Unfinished
      <3>1. c # 0
        BY <2>1, RowTypes
      <3>2. QED
        BY <2>1, <2>3, <3>1 DEF GatesNameCases
    <2>4. QED
      BY <2>2, <2>3 DEF GateNamesActive
  <1>4. HealthInv => ProbesPaidOnce
    BY <1>1, <1>2, <1>3 DEF ProbesPaidOnce
  <1>5. QED
    BY <1>4, HealthAlways, PTL

\* A route is open only while two failed probes of its own generation stand with no
\* healthy one after them, and then an alert or an incident says so.
THEOREM OpenRoutesAreProven == Spec => []OpenRoutesProven
  <1>1. ASSUME HealthInv
        PROVE  OpenNeedsTwoProbes
    <2>1. ASSUME NEW k \in RouteKeys, routeState[k].open
          PROVE  LET proofs == {c \in Cases : case[c].key = k /\ case[c].state = "completed"}
                     healthy == {c \in proofs : case[c].result = "healthy"}
                 IN  Cardinality({c \in proofs : case[c].result = "failure"
                                                 /\ \A h \in healthy : h < c}) >= 2
      <3>1. Cardinality(Failed(k)) >= 2
        BY <1>1, <2>1 DEF HealthInv, FailuresProven
      <3>2. Failed(k) = {c \in Proofs(k) :
                           /\ case[c].result = "failure"
                           /\ \A h \in {d \in Proofs(k) : case[d].result = "healthy"} : h < c}
        BY DEF Failed
      <3>3. QED
        BY <3>1, <3>2 DEF Proofs
    <2>2. QED
      BY <2>1 DEF OpenNeedsTwoProbes
  <1>2. HealthInv => OpenRoutesProven
    BY <1>1 DEF OpenRoutesProven, HealthInv
  <1>3. QED
    BY <1>2, HealthAlways, PTL

\* Once a newer generation has a case for a route, an older one's can neither be
\* claimed nor paid for; and only the incident of the generation in force has a job
\* that may unpublish the model.
THEOREM OlderGenerationsDoGiveWay == Spec => []OlderGenerationsGiveWay
  <1>1. HealthInv => OlderGenerationsGiveWay
    BY DEF HealthInv, IncidentsOrdered, OlderGenerationsGiveWay
  <1>2. QED
    BY <1>1, HealthAlways, PTL

\* Whatever job, late or repeated, takes the model out of the catalog, the model is
\* tripped when it does.
THEOREM OnlyTrippedAreUnpublished == Spec => OnlyTrippedUnpublished
  <1>1. ASSUME [Next]_vars, HealthInv
        PROVE  [published /\ ~published' => health.open]_vars
    <2>1. CASE UNCHANGED modelVars \/ Publish
      BY <2>1 DEF modelVars, Publish
    <2>2. ASSUME NEW w \in Workers, NEW cost \in Costs, CompleteProbe(w, cost)
          PROVE  published' = published
      BY <2>2 DEF CompleteProbe, CountFailure, Trip, modelVars
    <2>3. ASSUME NEW g \in Generations, ProcessUnpublish(g)
          PROVE  published /\ ~published' => health.open
      BY <2>3 DEF ProcessUnpublish, JobIsCurrent
    <2>4. CASE ManualRecover
      BY <2>4 DEF ManualRecover
    <2>5. QED
      BY <1>1, <2>1, <2>2, <2>3, <2>4, ModelMoves
  <1>2. QED
    BY <1>1, HealthAlways, PTL DEF Spec, OnlyTrippedUnpublished

-------------------------------------------------------------------------------
(***************************************************************************)
(* The outbox of alerts.                                                   *)
(***************************************************************************)
-------------------------------------------------------------------------------
(* What a worker holds, and what the rows say of it. *)

InHand == {"send", "ack", "retry"}

\* The item of worker w fits a table of n jobs, those of acc accepted.
ItemFits(w, item, n, acc) ==
  /\ item \in ItemType
  /\ item.job \in 0..n
  /\ item.at # "idle" => item.kind \in 1..4
  /\ item.at \in InHand \cup {"claim"} => item.job \in 1..n /\ item.left # 0
  /\ item.at \in InHand => item.token = w
  /\ item.at = "ack" => item.job \in acc

ItemsFit ==
  /\ workers \in [OutboxWorkers -> ItemType]
  /\ \A w \in OutboxWorkers : ItemFits(w, workers[w], Len(jobs), accepted)

\* The invariant of the table and of the loops.
OutboxInv == RowsOK /\ CountsOK /\ ItemsFit /\ DoneWasAccepted

\* The four kinds, by their place in a tick.
LEMMA KindsAre ==
  /\ Len(Kinds) = 4
  /\ \A k \in 1..4 : Kinds[k] \in JobKinds
  BY DEF Kinds, JobKinds

\* An item that fits a table fits one that has grown.
LEMMA StillFits ==
  ASSUME NEW w, NEW item, NEW n \in Nat, NEW m \in Nat, n <= m,
         NEW acc, NEW acc2, acc \subseteq acc2, ItemFits(w, item, n, acc)
  PROVE  ItemFits(w, item, m, acc2)
  BY DEF ItemFits

\* A step that gives one worker a fitting item and shrinks nothing keeps the items.
LEMMA ItemsMove ==
  ASSUME OutboxInv, Len(jobs') \in Nat, Len(jobs) <= Len(jobs'), accepted \subseteq accepted',
         NEW w \in OutboxWorkers, NEW item, ItemFits(w, item, Len(jobs'), accepted'),
         workers' = [workers EXCEPT ![w] = item]
  PROVE  ItemsFit'
  <1>1. Len(jobs) \in Nat /\ workers \in [OutboxWorkers -> ItemType]
    BY DEF OutboxInv, RowsOK, ItemsFit
  <1>2. workers' \in [OutboxWorkers -> ItemType]
    BY <1>1 DEF ItemFits
  <1>3. ASSUME NEW v \in OutboxWorkers PROVE ItemFits(v, workers'[v], Len(jobs'), accepted')
    <2>1. CASE v = w
      BY <1>1, <2>1
    <2>2. CASE v # w
      <3>1. workers'[v] = workers[v] /\ ItemFits(v, workers[v], Len(jobs), accepted)
        BY <1>1, <2>2 DEF OutboxInv, ItemsFit
      <3>2. QED
        BY <1>1, <3>1, StillFits
    <2>3. QED
      BY <2>1, <2>2
  <1>4. QED
    BY <1>2, <1>3 DEF ItemsFit

\* The same of a step that gives no worker an item.
LEMMA ItemsStay ==
  ASSUME OutboxInv, Len(jobs') \in Nat, Len(jobs) <= Len(jobs'), accepted \subseteq accepted',
         workers' = workers
  PROVE  ItemsFit'
  <1>1. Len(jobs) \in Nat
    BY DEF OutboxInv, RowsOK
  <1>2. ASSUME NEW v \in OutboxWorkers PROVE ItemFits(v, workers'[v], Len(jobs'), accepted')
    <2>1. ItemFits(v, workers[v], Len(jobs), accepted)
      BY DEF OutboxInv, ItemsFit
    <2>2. QED
      BY <1>1, <2>1, StillFits
  <1>3. QED
    BY <1>2 DEF OutboxInv, ItemsFit

\* The same where the table keeps its length.
LEMMA ItemMoves ==
  ASSUME OutboxInv, Len(jobs') = Len(jobs), accepted \subseteq accepted',
         NEW w \in OutboxWorkers, NEW item, ItemFits(w, item, Len(jobs), accepted'),
         workers' = [workers EXCEPT ![w] = item]
  PROVE  ItemsFit'
  <1>1. Len(jobs) \in Nat
    BY DEF OutboxInv, RowsOK
  <1>2. Len(jobs') \in Nat /\ Len(jobs) <= Len(jobs')
    BY <1>1
  <1>3. ItemFits(w, item, Len(jobs'), accepted')
    OBVIOUS
  <1>4. QED
    BY <1>2, <1>3, ItemsMove

\* A node between two ticks fits any table.
LEMMA RestFits ==
  ASSUME NEW w, NEW n \in Nat, NEW acc
  PROVE  ItemFits(w, IdleLoop, n, acc)
  <1>1. IdleLoop \in ItemType
    BY HealthOutboxAssumption, KindsAre DEF IdleLoop, ItemType
  <1>2. QED
    BY <1>1 DEF ItemFits, IdleLoop, InHand

\* So does one that starts on a kind, or goes on with it.
LEMMA PickingFits ==
  ASSUME NEW w, NEW n \in Nat, NEW acc, NEW k \in 1..4, NEW left \in 0..BatchSize
  PROVE  ItemFits(w, Picking(k, left), n, acc)
  <1>1. Picking(k, left) \in ItemType
    BY KindsAre DEF Picking, ItemType
  <1>2. QED
    BY <1>1 DEF ItemFits, Picking, InHand

\* NextKind and NextItem leave such an item.
LEMMA NextFits ==
  ASSUME OutboxInv, NEW w \in OutboxWorkers, workers[w].at # "idle",
         Len(jobs') \in Nat, Len(jobs) <= Len(jobs'), accepted \subseteq accepted',
         \/ NextKind(w)
         \/ NextItem(w) /\ workers[w].at \in InHand
  PROVE  ItemsFit'
  <1> DEFINE k == workers[w].kind
  <1>1. k \in 1..4 /\ workers \in [OutboxWorkers -> ItemType] /\ workers[w].left \in 0..BatchSize
        /\ (workers[w].at \in InHand => workers[w].left # 0)
    BY DEF OutboxInv, ItemsFit, ItemFits, ItemType
  <1>2. CASE NextKind(w)
    <2>1. CASE k = 4
      <3>1. workers' = [workers EXCEPT ![w] = IdleLoop]
        BY <1>1, <1>2, <2>1, KindsAre DEF NextKind
      <3>2. ItemFits(w, IdleLoop, Len(jobs'), accepted')
        BY RestFits
      <3>3. QED
        BY <3>1, <3>2, ItemsMove
    <2>2. CASE k # 4
      <3> DEFINE item == Picking(k + 1, BatchSize)
      <3>1. workers' = [workers EXCEPT ![w] = item]
        BY <1>1, <1>2, <2>2, KindsAre DEF NextKind
      <3>2. k + 1 \in 1..4 /\ BatchSize \in 0..BatchSize
        BY <1>1, <2>2, HealthOutboxAssumption
      <3>3. ItemFits(w, item, Len(jobs'), accepted')
        BY <3>2, PickingFits
      <3> HIDE DEF item
      <3>4. QED
        BY <3>1, <3>3, ItemsMove
    <2>3. QED
      BY <2>1, <2>2
  <1>3. CASE NextItem(w) /\ workers[w].at \in InHand
    <2> DEFINE item == Picking(k, workers[w].left - 1)
    <2>1. workers' = [workers EXCEPT ![w] = item]
      BY <1>3 DEF NextItem
    <2>2. workers[w].left - 1 \in 0..BatchSize
      BY <1>1, <1>3, HealthOutboxAssumption
    <2>3. ItemFits(w, item, Len(jobs'), accepted')
      BY <1>1, <2>2, PickingFits
    <2> HIDE DEF item
    <2>4. QED
      BY <2>1, <2>3, ItemsMove
  <1>4. QED
    BY <1>2, <1>3

-------------------------------------------------------------------------------
(* What a step does to the table. *)

\* Rows new follow the others.
LEMMA Grown ==
  ASSUME RowsOK, NEW new \in Seq(JobType), Enqueue(new)
  PROVE  /\ jobs' \in Seq(JobType) /\ Len(jobs') = Len(jobs) + Len(new)
         /\ Len(jobs) \in Nat /\ Len(new) \in Nat
         /\ \A i \in JobIds : jobs'[i] = jobs[i]
         /\ \A n \in 1..Len(new) : jobs'[Len(jobs) + n] = new[n]
  BY ConcatProperties, LenProperties DEF RowsOK, Enqueue, JobIds

\* Row i becomes row, of the same kind, key and count.
Amends(i, row) ==
  /\ i \in JobIds
  /\ row \in JobType /\ (row.leased => row.status = "leased")
  /\ row.kind = jobs[i].kind /\ row.key = jobs[i].key
  /\ row.occurrences = jobs[i].occurrences /\ (row.recent => jobs[i].recent)
  /\ jobs' = [jobs EXCEPT ![i] = row]

\* One row changes and keeps its kind, key and count, or no row changes.
Amended ==
  /\ Len(jobs') = Len(jobs)
  /\ \A i \in JobIds :
       /\ jobs'[i].kind = jobs[i].kind /\ jobs'[i].key = jobs[i].key
       /\ jobs'[i].occurrences = jobs[i].occurrences /\ (jobs'[i].recent => jobs[i].recent)

\* A replaced row leaves the shape of the table.
LEMMA Replaced ==
  ASSUME RowsOK, NEW i \in JobIds, NEW row \in JobType, row.leased => row.status = "leased",
         jobs' = [jobs EXCEPT ![i] = row]
  PROVE  /\ RowsOK' /\ Len(jobs') = Len(jobs)
         /\ jobs'[i] = row /\ \A j \in JobIds : j # i => jobs'[j] = jobs[j]
  <1>1. /\ jobs' \in Seq(JobType) /\ Len(jobs') = Len(jobs)
        /\ jobs'[i] = row /\ \A j \in JobIds : j # i => jobs'[j] = jobs[j]
    BY ExceptSeq DEF RowsOK, JobIds
  <1>2. QED
    BY <1>1 DEF RowsOK, JobIds

\* An amended row leaves the shapes, and what the other rows say.
LEMMA AmendsRow ==
  ASSUME RowsOK, NEW i, NEW row, Amends(i, row)
  PROVE  /\ RowsOK' /\ Amended
         /\ jobs'[i] = row /\ \A j \in JobIds : j # i => jobs'[j] = jobs[j]
  <1>1. /\ RowsOK' /\ Len(jobs') = Len(jobs)
        /\ jobs'[i] = row /\ \A j \in JobIds : j # i => jobs'[j] = jobs[j]
    BY Replaced DEF Amends
  <1>2. QED
    BY <1>1 DEF Amends, Amended

\* A step that neither adds a job nor counts a failure.
Quiet == Amended /\ failures' = failures /\ trips' = trips /\ audited' = audited

\* A step of the worker or of the clock that amends a row keeps the invariant.
LEMMA AmendingStep ==
  ASSUME OutboxInv, NEW i, NEW row, Amends(i, row), row.status = "done" => i \in accepted',
         accepted \subseteq accepted', accepted' \subseteq JobIds, outboxFaults' \in 0..MaxOutboxFaults,
         failures' = failures, trips' = trips, audited' = audited, ItemsFit'
  PROVE  OutboxInv' /\ Quiet
  <1>1. /\ RowsOK' /\ Amended
        /\ jobs'[i] = row /\ \A j \in JobIds : j # i => jobs'[j] = jobs[j]
    BY AmendsRow DEF OutboxInv
  <1>2. JobIds' = JobIds
    BY <1>1 DEF Amended, JobIds
  <1>3. CountsOK'
    BY <1>2 DEF OutboxInv, CountsOK
  <1>4. DoneWasAccepted'
    BY <1>1, <1>2 DEF OutboxInv, DoneWasAccepted
  <1>5. QED
    BY <1>1, <1>3, <1>4 DEF OutboxInv, Quiet

\* So does one that leaves the table alone.
LEMMA LeavingStep ==
  ASSUME OutboxInv, jobs' = jobs,
         accepted \subseteq accepted', accepted' \subseteq JobIds, outboxFaults' \in 0..MaxOutboxFaults,
         failures' = failures, trips' = trips, audited' = audited, ItemsFit'
  PROVE  OutboxInv' /\ Quiet
  <1>1. JobIds' = JobIds
    BY DEF JobIds
  <1>2. RowsOK' /\ CountsOK' /\ DoneWasAccepted'
    BY <1>1 DEF OutboxInv, RowsOK, CountsOK, DoneWasAccepted
  <1>3. QED
    BY <1>2 DEF OutboxInv, Quiet, Amended

\* New rows, waiting for a worker, keep what the invariant says of the others.
LEMMA AddingStep ==
  ASSUME OutboxInv, NEW new \in Seq(JobType), Enqueue(new),
         \A n \in 1..Len(new) : new[n].status = "pending" /\ ~new[n].leased,
         workers' = workers, accepted' = accepted, outboxFaults' = outboxFaults,
         failures' \in [Customers -> 0..MaxFailures], trips' \in 0..MaxTrips,
         audited' \subseteq Operations
  PROVE  OutboxInv'
  <1>1. /\ jobs' \in Seq(JobType) /\ Len(jobs') = Len(jobs) + Len(new)
        /\ Len(jobs) \in Nat /\ Len(new) \in Nat
        /\ \A i \in JobIds : jobs'[i] = jobs[i]
        /\ \A n \in 1..Len(new) : jobs'[Len(jobs) + n] = new[n]
    BY Grown DEF OutboxInv
  <1>2. ASSUME NEW i \in JobIds'
        PROVE  IF i \in JobIds THEN jobs'[i] = jobs[i]
               ELSE jobs'[i].status = "pending" /\ ~jobs'[i].leased
    <2>1. CASE i \in JobIds
      BY <1>1, <2>1
    <2>2. CASE i \notin JobIds
      <3>1. i - Len(jobs) \in 1..Len(new) /\ i = Len(jobs) + (i - Len(jobs))
        BY <1>1, <2>2 DEF JobIds
      <3>2. jobs'[i] = new[i - Len(jobs)]
        BY <1>1, <3>1
      <3>3. QED
        BY <2>2, <3>1, <3>2
    <2>3. QED
      BY <2>1, <2>2
  <1>3. JobIds \subseteq JobIds'
    BY <1>1 DEF JobIds
  <1>4. RowsOK'
    BY <1>1, <1>2 DEF OutboxInv, RowsOK
  <1>5. CountsOK'
    BY <1>3 DEF OutboxInv, CountsOK
  <1>6. DoneWasAccepted'
    BY <1>2 DEF OutboxInv, DoneWasAccepted
  <1>7. ItemsFit'
    BY <1>1, ItemsStay
  <1>8. QED
    BY <1>4, <1>5, <1>6, <1>7 DEF OutboxInv

-------------------------------------------------------------------------------
(* Every step keeps the invariant; one line each of the step's own. *)

\* What the invariant says of worker w and of the row it holds.
LEMMA ItemOf ==
  ASSUME OutboxInv, NEW w \in OutboxWorkers
  PROVE  /\ workers \in [OutboxWorkers -> ItemType] /\ workers[w] \in ItemType
         /\ ItemFits(w, workers[w], Len(jobs), accepted)
         /\ workers[w].at \in InHand \cup {"claim"} =>
              workers[w].job \in JobIds /\ jobs[workers[w].job] \in JobType
         /\ workers[w].at = "ack" => workers[w].job \in accepted
         /\ Len(jobs) \in Nat /\ accepted \subseteq JobIds /\ outboxFaults \in 0..MaxOutboxFaults
  BY DEF OutboxInv, ItemsFit, ItemFits, RowsOK, CountsOK, JobIds

\* The bound on faults is kept.
LEMMA FaultCounts ==
  ASSUME OutboxInv, OutboxFault \/ outboxFaults' = outboxFaults
  PROVE  outboxFaults' \in 0..MaxOutboxFaults
  BY HealthOutboxAssumption DEF OutboxInv, CountsOK, OutboxFault

\* RunOnce starts a round and touches no row.
LEMMA RunOnceKeeps ==
  ASSUME OutboxInv, NEW w \in OutboxWorkers, RunOnce(w)
  PROVE  OutboxInv' /\ Quiet
  <1>1. /\ jobs' = jobs /\ accepted' = accepted /\ outboxFaults' = outboxFaults
        /\ failures' = failures /\ trips' = trips /\ audited' = audited
        /\ workers' = [workers EXCEPT ![w] = Picking(1, BatchSize)]
    BY DEF RunOnce
  <1>2. Len(jobs) \in Nat /\ 1 \in 1..4 /\ BatchSize \in 0..BatchSize
    BY ItemOf, HealthOutboxAssumption
  <1>3. ItemFits(w, Picking(1, BatchSize), Len(jobs), accepted')
    BY <1>2, PickingFits
  <1>4. ItemsFit'
    BY <1>1, <1>3, ItemMoves
  <1>5. QED
    BY <1>1, <1>4, ItemOf, LeavingStep

\* Picking the next kind of job touches no row.
LEMMA PickKeeps ==
  ASSUME OutboxInv, NEW w \in OutboxWorkers, Pick(w)
  PROVE  OutboxInv' /\ Quiet
  <1>1. /\ jobs' = jobs /\ accepted' = accepted /\ outboxFaults' = outboxFaults
        /\ failures' = failures /\ trips' = trips /\ audited' = audited
        /\ workers[w].at = "pick"
    BY DEF Pick
  <1>2. CASE NextKind(w)
    <2>1. ItemsFit'
      BY <1>1, <1>2, ItemOf, NextFits
    <2>2. QED
      BY <1>1, <2>1, ItemOf, LeavingStep
  <1>3. CASE ~NextKind(w)
    <2>1. workers[w].left # 0
      BY <1>3 DEF Pick
    <2>2. PICK i \in Candidates(w) : workers' = [workers EXCEPT ![w].at = "claim", ![w].job = i]
      BY <1>3 DEF Pick
    <2> DEFINE item == [workers[w] EXCEPT !.at = "claim", !.job = i]
    <2>3. workers' = [workers EXCEPT ![w] = item]
      BY <2>2, ItemOf
    <2>4. i \in JobIds /\ i \in Nat
      BY ItemOf DEF Candidates, JobIds
    <2>5. /\ item \in ItemType /\ item.at = "claim" /\ item.job = i
          /\ item.left = workers[w].left /\ item.kind = workers[w].kind
      BY <2>4, ItemOf DEF ItemType
    <2> HIDE DEF item
    <2>6. workers[w].kind \in 1..4
      BY <1>1, ItemOf DEF ItemFits
    <2>7. ItemFits(w, item, Len(jobs), accepted')
      BY <1>1, <2>1, <2>4, <2>5, <2>6, ItemOf DEF ItemFits, InHand, JobIds
    <2>8. ItemsFit'
      BY <1>1, <2>3, <2>7, ItemMoves
    <2>9. QED
      BY <1>1, <2>8, ItemOf, LeavingStep
  <1>4. QED
    BY <1>2, <1>3

\* What a claim leaves: the row leased to w, and w about to send it.
LEMMA ClaimKeeps ==
  ASSUME OutboxInv, NEW w \in OutboxWorkers, ClaimItem(w)
  PROVE  OutboxInv' /\ Quiet
  <1> DEFINE i == workers[w].job
             row == [jobs[i] EXCEPT !.status = "leased", !.leased = TRUE, !.token = w]
             item == [workers[w] EXCEPT !.at = "send", !.token = w]
  <1>1. /\ accepted' = accepted /\ outboxFaults' = outboxFaults
        /\ failures' = failures /\ trips' = trips /\ audited' = audited
        /\ workers[w].at = "claim"
    BY DEF ClaimItem
  <1>2. i \in JobIds /\ jobs[i] \in JobType
    BY <1>1, ItemOf
  <1>3. CASE ClaimableItem(i)
    <2>1. jobs' = [jobs EXCEPT ![i] = row] /\ workers' = [workers EXCEPT ![w] = item]
      <3>1. jobs \in [JobIds -> JobType]
        BY LenProperties DEF OutboxInv, RowsOK, JobIds
      <3>2. QED
        BY <1>2, <1>3, <3>1, ItemOf DEF ClaimItem
    <2>2. /\ row \in JobType /\ row.kind = jobs[i].kind /\ row.key = jobs[i].key
          /\ row.occurrences = jobs[i].occurrences /\ row.recent = jobs[i].recent
          /\ row.status = "leased" /\ row.leased
      BY <1>2 DEF JobType
    <2>3. /\ item \in ItemType /\ item.at = "send" /\ item.job = i /\ item.token = w
          /\ item.left = workers[w].left /\ item.kind = workers[w].kind
      BY ItemOf DEF ItemType
    <2>4. workers[w].kind \in 1..4 /\ workers[w].left # 0 /\ i \in 1..Len(jobs)
      BY <1>1, <1>2, ItemOf DEF ItemFits, JobIds
    <2> HIDE DEF i, row, item
    <2>5. Amends(i, row)
      BY <1>2, <2>1, <2>2 DEF Amends
    <2>6. Len(jobs') = Len(jobs)
      BY <2>5, AmendsRow DEF OutboxInv, Amended
    <2>7. ItemFits(w, item, Len(jobs), accepted')
      BY <2>3, <2>4, ItemOf DEF ItemFits, InHand
    <2>8. ItemsFit'
      BY <1>1, <2>1, <2>6, <2>7, ItemMoves
    <2>9. QED
      BY <1>1, <2>2, <2>5, <2>8, ItemOf, AmendingStep
  <1>4. CASE ~ClaimableItem(i)
    <2>1. NextKind(w) /\ jobs' = jobs
      BY <1>4 DEF ClaimItem
    <2>2. ItemsFit'
      BY <1>1, <2>1, ItemOf, NextFits
    <2>3. QED
      BY <1>1, <2>1, <2>2, ItemOf, LeavingStep
  <1>5. QED
    BY <1>3, <1>4

\* The item of a worker that goes on to acknowledge, or to give the job back.
LEMMA LoopGoesOn ==
  ASSUME OutboxInv, NEW w \in OutboxWorkers, workers[w].at = "send", NEW at \in {"ack", "retry"},
         Len(jobs') = Len(jobs), accepted \subseteq accepted',
         at = "ack" => workers[w].job \in accepted',
         workers' = [workers EXCEPT ![w].at = at]
  PROVE  ItemsFit'
  <1> DEFINE item == [workers[w] EXCEPT !.at = at]
  <1>1. /\ item \in ItemType /\ item.at = at /\ item.job = workers[w].job
        /\ item.left = workers[w].left /\ item.kind = workers[w].kind
        /\ item.token = workers[w].token
    BY ItemOf DEF ItemType
  <1>2. workers' = [workers EXCEPT ![w] = item]
    BY ItemOf
  <1> HIDE DEF item
  <1>3. ItemFits(w, item, Len(jobs), accepted')
    BY <1>1, ItemOf DEF ItemFits, InHand
  <1>4. QED
    BY <1>2, <1>3, ItemMoves

\* A delivery adds to what the recipient accepted, or ends in a retry.
LEMMA DeliverKeeps ==
  ASSUME OutboxInv, NEW w \in OutboxWorkers, Deliver(w)
  PROVE  OutboxInv' /\ Quiet
  <1> DEFINE i == workers[w].job
  <1>1. /\ jobs' = jobs /\ failures' = failures /\ trips' = trips /\ audited' = audited
        /\ workers[w].at = "send" /\ accepted' \in {accepted, accepted \cup {i}}
        /\ \/ workers' = [workers EXCEPT ![w].at = "ack"] /\ i \in accepted'
           \/ workers' = [workers EXCEPT ![w].at = "retry"]
        /\ OutboxFault \/ outboxFaults' = outboxFaults
    BY DEF Deliver, Refusal
  <1>2. accepted \subseteq accepted' /\ accepted' \subseteq JobIds
    BY <1>1, ItemOf DEF InHand
  <1>3. ItemsFit'
    BY <1>1, <1>2, LoopGoesOn
  <1>4. outboxFaults' \in 0..MaxOutboxFaults
    BY <1>1, FaultCounts
  <1>5. QED
    BY <1>1, <1>2, <1>3, <1>4, LeavingStep

\* Row i with another status, off its lease.
LEMMA LeaseEnds ==
  ASSUME OutboxInv, NEW i \in JobIds, NEW status \in {"pending", "done"}, NEW due \in BOOLEAN,
         jobs' = [jobs EXCEPT ![i] = [jobs[i] EXCEPT !.status = status, !.leased = FALSE,
                                                     !.due = due]]
  PROVE  \E row : Amends(i, row) /\ row.status = status
  <1> DEFINE row == [jobs[i] EXCEPT !.status = status, !.leased = FALSE, !.due = due]
  <1>1. jobs[i] \in JobType
    BY ElementOfSeq DEF OutboxInv, RowsOK, JobIds
  <1>2. /\ row \in JobType /\ row.kind = jobs[i].kind /\ row.key = jobs[i].key
        /\ row.occurrences = jobs[i].occurrences /\ row.recent = jobs[i].recent
        /\ row.status = status /\ ~row.leased
    BY <1>1 DEF JobType
  <1> HIDE DEF row
  <1>3. jobs' = [jobs EXCEPT ![i] = row]
    BY DEF row
  <1>4. QED
    BY <1>2, <1>3 DEF Amends

\* An unpublication is done in the transaction that acknowledges it.
LEMMA ProcessUnpublishKeeps ==
  ASSUME OutboxInv, NEW w \in OutboxWorkers, ProcessUnpublishItem(w)
  PROVE  OutboxInv' /\ Quiet
  <1> DEFINE i == workers[w].job
  <1>1. /\ failures' = failures /\ trips' = trips /\ audited' = audited
        /\ workers[w].at = "send" /\ (OutboxFault \/ outboxFaults' = outboxFaults)
    BY DEF ProcessUnpublishItem
  <1>2. i \in JobIds /\ jobs[i] \in JobType /\ outboxFaults' \in 0..MaxOutboxFaults
    BY <1>1, ItemOf, FaultCounts DEF InHand
  <1>3. CASE UNCHANGED <<jobs, accepted>>
    <2>1. workers' = [workers EXCEPT ![w].at = "retry"] \/ NextItem(w)
      BY DEF ProcessUnpublishItem
    <2>2. jobs' = jobs /\ accepted' = accepted /\ Len(jobs) \in Nat
      BY <1>3, ItemOf
    <2>3. ItemsFit'
      BY <1>1, <2>1, <2>2, LoopGoesOn, NextFits DEF InHand
    <2>4. QED
      BY <1>1, <1>2, <2>2, <2>3, ItemOf, LeavingStep
  <1>4. CASE ~UNCHANGED <<jobs, accepted>>
    <2>1. /\ jobs' = [jobs EXCEPT ![i].status = "done", ![i].leased = FALSE]
          /\ accepted' = accepted \cup {i}
          /\ NextItem(w) \/ workers' = [workers EXCEPT ![w].at = "retry"]
      BY <1>4 DEF ProcessUnpublishItem
    <2>2. jobs' = [jobs EXCEPT ![i] = [jobs[i] EXCEPT !.status = "done", !.leased = FALSE,
                                                      !.due = jobs[i].due]]
      <3>1. jobs \in [JobIds -> JobType]
        BY LenProperties DEF OutboxInv, RowsOK, JobIds
      <3>2. [jobs[i] EXCEPT !.status = "done", !.leased = FALSE, !.due = jobs[i].due]
              = [jobs[i] EXCEPT !.status = "done", !.leased = FALSE]
        BY <1>2 DEF JobType
      <3>3. QED
        BY <1>2, <2>1, <3>1, <3>2
    <2>3. PICK row : Amends(i, row) /\ row.status = "done"
      BY <1>2, <2>2, LeaseEnds DEF JobType
    <2>4. Len(jobs') = Len(jobs) /\ Len(jobs) \in Nat
      BY <2>3, AmendsRow, ItemOf DEF OutboxInv, Amended
    <2>5. accepted \subseteq accepted' /\ accepted' \subseteq JobIds /\ i \in accepted'
      BY <1>2, <2>1, ItemOf
    <2>6. Len(jobs') \in Nat /\ Len(jobs) <= Len(jobs')
      BY <2>4
    <2>7. ItemsFit'
      BY <1>1, <2>1, <2>4, <2>5, <2>6, LoopGoesOn, NextFits DEF InHand
    <2>8. QED
      BY <1>1, <1>2, <2>3, <2>5, <2>7, AmendingStep
  <1>5. QED
    BY <1>3, <1>4

\* Only a worker whose delivery was accepted makes a row done.
LEMMA FinishKeeps ==
  ASSUME OutboxInv, NEW w \in OutboxWorkers, Finish(w)
  PROVE  OutboxInv' /\ Quiet
  <1> DEFINE i == workers[w].job
  <1>1. /\ accepted' = accepted /\ outboxFaults' = outboxFaults
        /\ failures' = failures /\ trips' = trips /\ audited' = audited
        /\ workers[w].at \in InHand /\ workers[w].at # "idle"
    BY DEF Finish, InHand
  <1>2. PICK status \in {"pending", "done"} :
          FinishOutbox(w, status) /\ (status = "done" => workers[w].at = "ack")
    BY DEF Finish
  <1>3. i \in JobIds /\ jobs[i] \in JobType /\ (status = "done" => i \in accepted)
    BY <1>1, <1>2, ItemOf
  <1>4. CASE HoldsItem(w)
    <2>1. /\ NextItem(w)
          /\ jobs' = [jobs EXCEPT ![i].status = status, ![i].leased = FALSE,
                                  ![i].due = status = "done"]
      BY <1>2, <1>4 DEF FinishOutbox
    <2>2. jobs' = [jobs EXCEPT ![i] = [jobs[i] EXCEPT !.status = status, !.leased = FALSE,
                                                      !.due = (status = "done")]]
      <3>1. jobs \in [JobIds -> JobType]
        BY LenProperties DEF OutboxInv, RowsOK, JobIds
      <3>2. QED
        BY <1>3, <2>1, <3>1
    <2>3. (status = "done") \in BOOLEAN
      OBVIOUS
    <2>4. PICK row : Amends(i, row) /\ row.status = status
      BY <1>3, <2>2, <2>3, LeaseEnds
    <2>5. Len(jobs') = Len(jobs) /\ Len(jobs) \in Nat
      BY <2>4, AmendsRow, ItemOf DEF OutboxInv, Amended
    <2>6. Len(jobs') \in Nat /\ Len(jobs) <= Len(jobs')
      BY <2>5
    <2>7. ItemsFit'
      BY <1>1, <2>1, <2>6, NextFits
    <2>8. QED
      BY <1>1, <1>3, <2>4, <2>7, ItemOf, AmendingStep
  <1>5. CASE ~HoldsItem(w)
    <2>1. NextKind(w) /\ jobs' = jobs
      BY <1>2, <1>5 DEF FinishOutbox
    <2>2. ItemsFit'
      BY <1>1, <2>1, ItemOf, NextFits
    <2>3. QED
      BY <1>1, <2>1, <2>2, ItemOf, LeavingStep
  <1>6. QED
    BY <1>4, <1>5

\* A worker that stops forgets what it held.
LEMMA StopKeeps ==
  ASSUME OutboxInv, NEW w \in OutboxWorkers, Stop(w)
  PROVE  OutboxInv' /\ Quiet
  <1>1. /\ jobs' = jobs /\ accepted' = accepted
        /\ failures' = failures /\ trips' = trips /\ audited' = audited
        /\ workers' = [workers EXCEPT ![w] = IdleLoop]
        /\ OutboxFault
    BY DEF Stop
  <1>2. ItemFits(w, IdleLoop, Len(jobs), accepted)
    BY ItemOf, RestFits
  <1>3. ItemsFit'
    BY <1>1, <1>2, ItemMoves
  <1>4. outboxFaults' \in 0..MaxOutboxFaults
    BY <1>1, FaultCounts
  <1>5. QED
    BY <1>1, <1>3, <1>4, ItemOf, LeavingStep

\* Time: a retry falls due, a lease ends, the ten minutes of a shared job pass.
LEMMA ClockKeeps ==
  ASSUME OutboxInv, NEW i \in JobIds, RetryDue(i) \/ ItemLeaseExpires(i) \/ WindowPasses(i)
  PROVE  OutboxInv' /\ Quiet
  <1>1. /\ workers' = workers /\ accepted' = accepted
        /\ failures' = failures /\ trips' = trips /\ audited' = audited
        /\ OutboxFault \/ outboxFaults' = outboxFaults
    BY DEF RetryDue, ItemLeaseExpires, WindowPasses
  <1>2. jobs \in [JobIds -> JobType] /\ jobs[i] \in JobType
        /\ (jobs[i].leased => jobs[i].status = "leased")
    BY LenProperties DEF OutboxInv, RowsOK, JobIds
  <1>3. PICK row \in {[jobs[i] EXCEPT !.due = TRUE], [jobs[i] EXCEPT !.leased = FALSE],
                      [jobs[i] EXCEPT !.recent = FALSE]} : jobs' = [jobs EXCEPT ![i] = row]
    BY <1>2 DEF RetryDue, ItemLeaseExpires, WindowPasses
  <1>4. /\ row \in JobType /\ row.kind = jobs[i].kind /\ row.key = jobs[i].key
        /\ row.occurrences = jobs[i].occurrences /\ (row.recent => jobs[i].recent)
        /\ row.status = jobs[i].status /\ (row.leased => jobs[i].leased)
    BY <1>2 DEF JobType
  <1>5. Amends(i, row)
    BY <1>2, <1>3, <1>4 DEF Amends
  <1>6. row.status = "done" => i \in accepted
    BY <1>4 DEF OutboxInv, DoneWasAccepted
  <1>7. accepted \subseteq JobIds /\ Len(jobs) \in Nat
    BY DEF OutboxInv, CountsOK, RowsOK
  <1>8. Len(jobs') \in Nat /\ Len(jobs) <= Len(jobs')
    BY <1>5, <1>7, AmendsRow DEF OutboxInv, Amended
  <1>9. ItemsFit' /\ outboxFaults' \in 0..MaxOutboxFaults
    BY <1>1, <1>8, ItemsStay, FaultCounts
  <1>10. QED
    BY <1>1, <1>5, <1>6, <1>7, <1>9, AmendingStep

-------------------------------------------------------------------------------
(* What the producers leave: the sums and the sets of the table's rows. *)

\* The jobs of a kind with a key, and the failures table tells of c.
JobsOf(kind, key) == {i \in JobIds : jobs[i].kind = kind /\ jobs[i].key = key}

TermOf(row, c) == IF row.kind = "customer_alert" /\ row.key = c THEN row.occurrences ELSE 0

Told(table, c) ==
  SumFunctionOnSet([i \in 1..Len(table) |-> TermOf(table[i], c)], 1..Len(table))

\* A customer has at most one fresh job, and a test has one exactly when audited.
QueueInv ==
  /\ \A c \in Customers : Told(jobs, c) = failures[c]
  /\ \A c \in Customers : \A i, j \in SharedJob(c) : i = j
  /\ \A op \in Operations : IF op \in audited THEN \E i : JobsOf("alert_test", op) = {i}
                            ELSE JobsOf("alert_test", op) = {}
  /\ Len(jobs) <= SumFunctionOnSet(failures, Customers) + 2 * trips + Cardinality(audited)

\* What a table tells is a number.
LEMMA ToldType ==
  ASSUME NEW table \in Seq(JobType), NEW c
  PROVE  /\ IsFiniteSet(1..Len(table)) /\ Len(table) \in Nat
         /\ \A i \in 1..Len(table) : TermOf(table[i], c) \in Int
         /\ Told(table, c) \in Int
  <1> DEFINE f == [i \in 1..Len(table) |-> TermOf(table[i], c)]
  <1>1. IsFiniteSet(1..Len(table)) /\ Len(table) \in Nat
    BY LenProperties, FS_Interval
  <1>2. ASSUME NEW i \in 1..Len(table) PROVE TermOf(table[i], c) \in Int
    <2>1. table[i] \in JobType
      BY ElementOfSeq
    <2>2. table[i].occurrences \in Int
      BY <2>1 DEF JobType
    <2>3. QED
      BY <2>2 DEF TermOf
  <1>3. \A i \in 1..Len(table) : f[i] \in Int
    BY <1>2
  <1>4. SumFunctionOnSet(f, 1..Len(table)) \in Int
    <2> HIDE DEF f
    <2>1. QED
      BY <1>1, <1>3, SumType
  <1>5. QED
    BY <1>1, <1>2, <1>4 DEF Told

\* A row at the end tells what it counts.
LEMMA ToldMore ==
  ASSUME NEW table \in Seq(JobType), NEW row \in JobType, NEW c
  PROVE  Told(table \o <<row>>, c) = Told(table, c) + TermOf(row, c)
  <1> DEFINE n == Len(table)
             f == [i \in 1..n |-> TermOf(table[i], c)]
             more == table \o <<row>>
             ff == [i \in 1..Len(more) |-> TermOf(more[i], c)]
  <1>1. <<row>> \in Seq(JobType) /\ Len(<<row>>) = 1 /\ <<row>>[1] = row
    OBVIOUS
  <1>2. /\ more \in Seq(JobType) /\ Len(more) = n + 1 /\ n \in Nat
        /\ more[n + 1] = row /\ \A i \in 1..n : more[i] = table[i]
    BY <1>1, ConcatProperties, LenProperties
  <1>3. /\ IsFiniteSet(1..n) /\ \A i \in 1..n : TermOf(table[i], c) \in Int
        /\ \A i \in 1..Len(more) : TermOf(more[i], c) \in Int
    BY <1>2, ToldType
  <1>4. (1..Len(more)) = (1..n) \cup {n + 1} /\ n + 1 \notin 1..n
    BY <1>2
  <1> HIDE DEF more
  <1>5. /\ \A i \in 1..n : f[i] \in Int
        /\ \A i \in 1..n : ff[i] = f[i]
        /\ ff[n + 1] = TermOf(row, c) /\ ff[n + 1] \in Int
    BY <1>2, <1>3, <1>4
  <1> HIDE DEF f, ff
  <1> DEFINE D == 1..n
             d == n + 1
  <1>6. /\ IsFiniteSet(D) /\ d \notin D /\ ff[d] \in Int
        /\ \A i \in D : f[i] \in Int
        /\ \A i \in D : ff[i] = f[i]
    BY <1>3, <1>4, <1>5
  <1> HIDE DEF D, d
  <1>7. SumFunctionOnSet(ff, D \cup {d}) = SumFunctionOnSet(f, D) + ff[d]
    BY <1>6, SumOfMore
  <1>8. QED
    BY <1>4, <1>5, <1>7 DEF Told, f, ff, more, D, d

\* The parts of the queue's invariant, of a table and of the counts beside it.
FreshOf(table, c) ==
  {i \in 1..Len(table) : table[i].kind = "customer_alert" /\ table[i].key = c /\ table[i].recent}

TestsOf(table, op) == {i \in 1..Len(table) : table[i].kind = "alert_test" /\ table[i].key = op}

\* The invariant's sets are those of the whole table.
LEMMA QueueSets ==
  ASSUME NEW c
  PROVE  SharedJob(c) = FreshOf(jobs, c) /\ JobsOf("alert_test", c) = TestsOf(jobs, c)
  BY DEF SharedJob, FreshOf, JobsOf, TestsOf, JobIds

\* A step of the workers or of the clock leaves what the producers left.
LEMMA QuietQueue ==
  ASSUME OutboxInv, QueueInv, Quiet
  PROVE  QueueInv'
  <1>1. /\ Len(jobs') = Len(jobs) /\ failures' = failures /\ trips' = trips
        /\ audited' = audited
        /\ \A i \in 1..Len(jobs) :
             /\ jobs'[i].kind = jobs[i].kind /\ jobs'[i].key = jobs[i].key
             /\ jobs'[i].occurrences = jobs[i].occurrences /\ (jobs'[i].recent => jobs[i].recent)
    BY DEF Quiet, Amended, JobIds
  <1>2. ASSUME NEW c \in Customers PROVE Told(jobs', c) = failures'[c]
    <2> DEFINE f == [i \in 1..Len(jobs) |-> TermOf(jobs[i], c)]
               ff == [i \in 1..Len(jobs') |-> TermOf(jobs'[i], c)]
    <2>1. /\ IsFiniteSet(1..Len(jobs))
          /\ \A i \in 1..Len(jobs) : TermOf(jobs[i], c) \in Int
      BY ToldType DEF OutboxInv, RowsOK
    <2>2. /\ \A i \in 1..Len(jobs) : f[i] \in Int
          /\ \A i \in 1..Len(jobs) : f[i] = ff[i]
      BY <1>1, <2>1 DEF TermOf
    <2> HIDE DEF f, ff
    <2>3. SumFunctionOnSet(f, 1..Len(jobs)) = SumFunctionOnSet(ff, 1..Len(jobs))
      BY <2>1, <2>2, SumAgrees
    <2>4. Told(jobs', c) = Told(jobs, c)
      BY <1>1, <2>3 DEF Told, f, ff
    <2>5. QED
      BY <1>1, <2>4 DEF QueueInv
  <1>3. ASSUME NEW c \in Customers PROVE \A i, j \in SharedJob(c)' : i = j
    <2>1. SharedJob(c)' \subseteq SharedJob(c)
      BY <1>1 DEF SharedJob, JobIds
    <2>2. QED
      BY <2>1 DEF QueueInv
  <1>4. ASSUME NEW op PROVE JobsOf("alert_test", op)' = JobsOf("alert_test", op)
    BY <1>1 DEF JobsOf, JobIds
  <1>5. Len(jobs') <= SumFunctionOnSet(failures', Customers) + 2 * trips' + Cardinality(audited')
    BY <1>1 DEF QueueInv
  <1>6. \A op \in Operations : IF op \in audited' THEN \E i : JobsOf("alert_test", op)' = {i}
                              ELSE JobsOf("alert_test", op)' = {}
    BY <1>1, <1>4 DEF QueueInv
  <1>7. QED
    BY <1>2, <1>3, <1>5, <1>6 DEF QueueInv

\* What one row more changes.
OneMore(table, row, more) ==
  /\ more \in Seq(JobType) /\ Len(table) \in Nat /\ Len(more) = Len(table) + 1
  /\ \A c : Told(more, c) = Told(table, c) + TermOf(row, c)
  /\ \A c : FreshOf(more, c) =
       IF row.kind = "customer_alert" /\ row.key = c /\ row.recent
       THEN FreshOf(table, c) \cup {Len(table) + 1} ELSE FreshOf(table, c)
  /\ \A op : TestsOf(more, op) =
       IF row.kind = "alert_test" /\ row.key = op
       THEN TestsOf(table, op) \cup {Len(table) + 1} ELSE TestsOf(table, op)

\* A row appended to the table adds what it tells and joins its own sets.
LEMMA RowAdded ==
  ASSUME NEW table \in Seq(JobType), NEW row \in JobType
  PROVE  OneMore(table, row, table \o <<row>>)
  <1> DEFINE more == table \o <<row>>
  <1>1. <<row>> \in Seq(JobType) /\ Len(<<row>>) = 1 /\ <<row>>[1] = row
    OBVIOUS
  <1>2. /\ more \in Seq(JobType) /\ Len(more) = Len(table) + 1 /\ Len(table) \in Nat
        /\ more[Len(table) + 1] = row /\ \A i \in 1..Len(table) : more[i] = table[i]
    BY <1>1, ConcatProperties, LenProperties
  <1>3. \A c : Told(more, c) = Told(table, c) + TermOf(row, c)
    BY ToldMore
  <1> HIDE DEF more
  <1>4. ASSUME NEW c
        PROVE  /\ FreshOf(more, c) =
                    IF row.kind = "customer_alert" /\ row.key = c /\ row.recent
                    THEN FreshOf(table, c) \cup {Len(table) + 1} ELSE FreshOf(table, c)
               /\ TestsOf(more, c) =
                    IF row.kind = "alert_test" /\ row.key = c
                    THEN TestsOf(table, c) \cup {Len(table) + 1} ELSE TestsOf(table, c)
    BY <1>2 DEF FreshOf, TestsOf
  <1>5. OneMore(table, row, more)
    BY <1>2, <1>3, <1>4 DEF OneMore
  <1>6. QED
    BY <1>5 DEF more

\* Shape of a new row.
LEMMA NewJob ==
  ASSUME NEW kind \in JobKinds, NEW key \in Customers \cup Operations \cup Nat, NEW n \in Nat
  PROVE  /\ Job(kind, key, n) \in JobType
         /\ Job(kind, key, n).kind = kind /\ Job(kind, key, n).key = key
         /\ Job(kind, key, n).occurrences = n /\ (n > 0 => Job(kind, key, n).recent)
         /\ Job(kind, key, n).status = "pending" /\ ~Job(kind, key, n).leased
  <1>1. (n > 0) \in BOOLEAN
    OBVIOUS
  <1>2. Job(kind, key, n) \in JobType
    BY <1>1, Zenon DEF Job, JobType
  <1>3. QED
    BY <1>2, Zenon DEF Job

\* One more failure of c.
LEMMA FailuresCount ==
  ASSUME OutboxInv, NEW c \in Customers, failures' = [failures EXCEPT ![c] = @ + 1],
         failures[c] < MaxFailures
  PROVE  /\ failures' \in [Customers -> 0..MaxFailures]
         /\ SumFunctionOnSet(failures, Customers) \in Int
         /\ SumFunctionOnSet(failures', Customers) = SumFunctionOnSet(failures, Customers) + 1
  <1>1. failures \in [Customers -> 0..MaxFailures]
    BY DEF OutboxInv, CountsOK
  <1>2. failures' \in [Customers -> 0..MaxFailures]
    BY <1>1, HealthOutboxAssumption
  <1>3. /\ IsFiniteSet(Customers)
        /\ \A d \in Customers : failures[d] \in Int
        /\ \A d \in Customers : failures'[d] \in Int
        /\ \A d \in Customers \ {c} : failures'[d] = failures[d]
        /\ failures'[c] = failures[c] + 1
    BY <1>1, <1>2, HealthOutboxAssumption
  <1> DEFINE g == failures'
  <1>4. /\ \A d \in Customers : g[d] \in Int
        /\ \A d \in Customers \ {c} : g[d] = failures[d]
        /\ g[c] = failures[c] + 1
    BY <1>3
  <1> HIDE DEF g
  <1>5. /\ SumFunctionOnSet(failures, Customers) \in Int
        /\ SumFunctionOnSet(g, Customers)
             = SumFunctionOnSet(failures, Customers) + g[c] - failures[c]
    BY <1>3, <1>4, SumOfChanged
  <1>6. SumFunctionOnSet(g, Customers) = SumFunctionOnSet(failures, Customers) + 1
    BY <1>3, <1>4, <1>5
  <1>7. QED
    BY <1>2, <1>5, <1>6 DEF g

\* A failed request of a customer whom no fresh job tells about yet.
LEMMA FailsAlone ==
  ASSUME OutboxInv, QueueInv, NEW c \in Customers, RequestFails(c), SharedJob(c) = {}
  PROVE  OutboxInv' /\ QueueInv'
  <1> DEFINE row == Job("customer_alert", c, 1)
  <1>1. /\ failures[c] < MaxFailures /\ failures' = [failures EXCEPT ![c] = @ + 1]
        /\ jobs' = jobs \o <<row>>
        /\ workers' = workers /\ trips' = trips /\ audited' = audited
        /\ accepted' = accepted /\ outboxFaults' = outboxFaults
    BY DEF RequestFails, EnqueueCustomerAlert, Enqueue
  <1>2. /\ row \in JobType /\ row.kind = "customer_alert" /\ row.key = c /\ row.recent
        /\ row.occurrences = 1 /\ row.status = "pending" /\ ~row.leased
    <2>1. "customer_alert" \in JobKinds /\ c \in Customers \cup Operations \cup Nat /\ 1 \in Nat
          /\ 1 > 0
      BY DEF JobKinds
    <2> HIDE DEF row
    <2>2. QED
      BY <2>1, NewJob DEF row
  <1> HIDE DEF row
  <1>3. jobs \in Seq(JobType) /\ failures \in [Customers -> 0..MaxFailures]
        /\ trips \in 0..MaxTrips /\ audited \subseteq Operations
    BY DEF OutboxInv, RowsOK, CountsOK
  <1>4. /\ jobs' \in Seq(JobType) /\ Len(jobs) \in Nat /\ Len(jobs') = Len(jobs) + 1
        /\ \A d : Told(jobs', d) = Told(jobs, d) + TermOf(row, d)
        /\ \A d : FreshOf(jobs', d) =
              IF row.kind = "customer_alert" /\ row.key = d /\ row.recent
              THEN FreshOf(jobs, d) \cup {Len(jobs) + 1} ELSE FreshOf(jobs, d)
        /\ \A op : TestsOf(jobs', op) =
              IF row.kind = "alert_test" /\ row.key = op
              THEN TestsOf(jobs, op) \cup {Len(jobs) + 1} ELSE TestsOf(jobs, op)
    <2>1. OneMore(jobs, row, jobs')
      BY <1>1, <1>2, <1>3, RowAdded
    <2>2. QED
      BY <2>1 DEF OneMore
  <1>5. /\ failures' \in [Customers -> 0..MaxFailures]
        /\ SumFunctionOnSet(failures, Customers) \in Int
        /\ SumFunctionOnSet(failures', Customers) = SumFunctionOnSet(failures, Customers) + 1
    BY <1>1, FailuresCount
  <1>6. OutboxInv'
    <2>1. /\ <<row>> \in Seq(JobType) /\ Len(<<row>>) = 1
          /\ \A n \in 1..Len(<<row>>) : <<row>>[n].status = "pending" /\ ~<<row>>[n].leased
      BY <1>2
    <2>2. QED
      BY <1>1, <1>3, <1>5, <2>1, AddingStep DEF Enqueue
  <1>7. ASSUME NEW d \in Customers
        PROVE  Told(jobs', d) = failures'[d]
    <2>1. Told(jobs, d) = failures[d] /\ failures[d] \in Int
      BY <1>3 DEF QueueInv
    <2>2. failures'[d] = IF d = c THEN failures[d] + 1 ELSE failures[d]
      BY <1>1, <1>3
    <2>3. TermOf(row, d) = IF d = c THEN 1 ELSE 0
      BY <1>2 DEF TermOf
    <2>4. Told(jobs', d) = Told(jobs, d) + TermOf(row, d)
      BY <1>4
    <2>5. QED
      BY <2>1, <2>2, <2>3, <2>4
  <1>8. ASSUME NEW d \in Customers, NEW i \in SharedJob(d)', NEW j \in SharedJob(d)'
        PROVE  i = j
    <2>1. SharedJob(d)' = FreshOf(jobs', d) /\ SharedJob(d) = FreshOf(jobs, d)
      BY DEF SharedJob, FreshOf, JobIds
    <2>2. FreshOf(jobs', d) = IF d = c THEN {Len(jobs) + 1} ELSE FreshOf(jobs, d)
      BY <1>2, <1>4, <2>1
    <2>3. QED
      BY <2>1, <2>2 DEF QueueInv
  <1>9. ASSUME NEW op \in Operations
        PROVE  JobsOf("alert_test", op)' = JobsOf("alert_test", op)
    <2>1. /\ JobsOf("alert_test", op)' = TestsOf(jobs', op)
          /\ JobsOf("alert_test", op) = TestsOf(jobs, op)
      BY DEF JobsOf, TestsOf, JobIds
    <2>2. QED
      BY <1>2, <1>4, <2>1
  <1>10. \A op \in Operations : IF op \in audited' THEN \E i : JobsOf("alert_test", op)' = {i}
                               ELSE JobsOf("alert_test", op)' = {}
    BY <1>1, <1>9 DEF QueueInv
  <1>11. Len(jobs') <= SumFunctionOnSet(failures', Customers) + 2 * trips' + Cardinality(audited')
    <2>1. Cardinality(audited) \in Int /\ 2 * trips \in Int
      BY <1>3, HealthOutboxAssumption, FS_Subset, FS_CardinalityType
    <2>2. QED
      BY <1>1, <1>4, <1>5, <2>1 DEF QueueInv
  <1>12. QED
    BY <1>6, <1>7, <1>8, <1>10, <1>11 DEF QueueInv

\* A failed request that a fresh job of the customer takes up.
LEMMA FailsShared ==
  ASSUME OutboxInv, QueueInv, NEW c \in Customers, RequestFails(c), SharedJob(c) # {}
  PROVE  OutboxInv' /\ QueueInv'
  <1>1. /\ failures[c] < MaxFailures /\ failures' = [failures EXCEPT ![c] = @ + 1]
        /\ workers' = workers /\ trips' = trips /\ audited' = audited
        /\ accepted' = accepted /\ outboxFaults' = outboxFaults
    BY DEF RequestFails
  <1>2. PICK i \in SharedJob(c) : jobs' = [jobs EXCEPT ![i].occurrences = @ + 1]
    BY DEF RequestFails, EnqueueCustomerAlert
  <1> DEFINE row == [jobs[i] EXCEPT !.occurrences = @ + 1]
  <1>3. /\ jobs \in Seq(JobType) /\ Len(jobs) \in Nat /\ failures \in [Customers -> 0..MaxFailures]
        /\ trips \in 0..MaxTrips /\ audited \subseteq Operations
        /\ jobs \in [JobIds -> JobType] /\ i \in JobIds /\ i \in 1..Len(jobs)
        /\ jobs[i].kind = "customer_alert" /\ jobs[i].key = c
        /\ (jobs[i].leased => jobs[i].status = "leased")
    BY LenProperties DEF OutboxInv, RowsOK, CountsOK, JobIds, SharedJob
  <1>4. jobs' = [jobs EXCEPT ![i] = row]
    BY <1>2, <1>3
  <1>5. /\ row \in JobType /\ row.kind = "customer_alert" /\ row.key = c
        /\ row.recent = jobs[i].recent /\ row.status = jobs[i].status
        /\ row.leased = jobs[i].leased
        /\ row.occurrences = jobs[i].occurrences + 1 /\ jobs[i].occurrences \in Nat
    <2>1. jobs[i] \in JobType /\ jobs[i].occurrences \in Nat
      BY <1>3 DEF JobType
    <2>2. jobs[i].occurrences + 1 \in Nat
      BY <2>1
    <2>3. QED
      BY <1>3, <2>1, <2>2, Zenon DEF JobType
  <1> HIDE DEF row
  <1>6. /\ RowsOK' /\ Len(jobs') = Len(jobs)
        /\ jobs'[i] = row /\ \A j \in JobIds : j # i => jobs'[j] = jobs[j]
    BY <1>3, <1>4, <1>5, Replaced DEF OutboxInv
  <1>7. /\ failures' \in [Customers -> 0..MaxFailures]
        /\ SumFunctionOnSet(failures, Customers) \in Int
        /\ SumFunctionOnSet(failures', Customers) = SumFunctionOnSet(failures, Customers) + 1
    BY <1>1, FailuresCount
  <1>8. /\ JobIds' = JobIds
        /\ \A j \in JobIds : /\ jobs'[j].kind = jobs[j].kind /\ jobs'[j].key = jobs[j].key
                             /\ jobs'[j].recent = jobs[j].recent
                             /\ jobs'[j].status = jobs[j].status
    BY <1>3, <1>5, <1>6 DEF JobIds
  <1>9. OutboxInv'
    <2>1. CountsOK'
      BY <1>1, <1>7, <1>8 DEF OutboxInv, CountsOK
    <2>2. DoneWasAccepted'
      BY <1>1, <1>8 DEF OutboxInv, DoneWasAccepted
    <2>3. Len(jobs') \in Nat /\ Len(jobs) <= Len(jobs')
      BY <1>3, <1>6
    <2>4. ItemsFit'
      BY <1>1, <2>3, ItemsStay
    <2>5. QED
      BY <1>6, <2>1, <2>2, <2>4 DEF OutboxInv
  <1>10. ASSUME NEW d \in Customers
         PROVE  Told(jobs', d) = failures'[d]
    <2> DEFINE D == 1..Len(jobs)
               f == [j \in D |-> TermOf(jobs[j], d)]
               ff == [j \in 1..Len(jobs') |-> TermOf(jobs'[j], d)]
    <2>1. /\ IsFiniteSet(D) /\ i \in D
          /\ \A j \in D : f[j] \in Int
          /\ \A j \in D : ff[j] \in Int
          /\ \A j \in D \ {i} : ff[j] = f[j]
      <3>1. /\ IsFiniteSet(D)
            /\ \A j \in D : TermOf(jobs[j], d) \in Int
        BY <1>3, ToldType
      <3>2. \A j \in 1..Len(jobs') : TermOf(jobs'[j], d) \in Int
        BY <1>6, ToldType DEF RowsOK
      <3>3. QED
        BY <1>3, <1>6, <3>1, <3>2 DEF JobIds
    <2>2. ff[i] = f[i] + (IF d = c THEN 1 ELSE 0)
      BY <1>3, <1>5, <1>6 DEF TermOf
    <2>3. Told(jobs, d) = SumFunctionOnSet(f, D) /\ Told(jobs', d) = SumFunctionOnSet(ff, D)
      BY <1>6 DEF Told
    <2> HIDE DEF f, ff, D
    <2>4. /\ SumFunctionOnSet(f, D) \in Int
          /\ SumFunctionOnSet(ff, D) = SumFunctionOnSet(f, D) + ff[i] - f[i]
      BY <2>1, SumOfChanged
    <2>5. failures'[d] = IF d = c THEN failures[d] + 1 ELSE failures[d]
      BY <1>1, <1>3
    <2>6. Told(jobs, d) = failures[d] /\ f[i] \in Int /\ ff[i] \in Int
      BY <2>1 DEF QueueInv
    <2>7. QED
      BY <2>2, <2>3, <2>4, <2>5, <2>6
  <1>11. ASSUME NEW d \in Customers, NEW j \in SharedJob(d)', NEW k \in SharedJob(d)'
         PROVE  j = k
    <2>1. SharedJob(d)' = SharedJob(d)
      BY <1>8 DEF SharedJob
    <2>2. QED
      BY <2>1 DEF QueueInv
  <1>12. ASSUME NEW op
         PROVE  JobsOf("alert_test", op)' = JobsOf("alert_test", op)
    BY <1>8 DEF JobsOf
  <1>13. \A op \in Operations : IF op \in audited' THEN \E k : JobsOf("alert_test", op)' = {k}
                               ELSE JobsOf("alert_test", op)' = {}
    BY <1>1, <1>12 DEF QueueInv
  <1>14. Len(jobs') <= SumFunctionOnSet(failures', Customers) + 2 * trips' + Cardinality(audited')
    <2>1. Cardinality(audited) \in Int /\ 2 * trips \in Int
      BY <1>3, HealthOutboxAssumption, FS_Subset, FS_CardinalityType
    <2>2. QED
      BY <1>1, <1>3, <1>6, <1>7, <2>1 DEF QueueInv
  <1>15. QED
    BY <1>9, <1>10, <1>11, <1>13, <1>14 DEF QueueInv

\* Two rows in one step are one after the other.
LEMMA OneByOne ==
  ASSUME NEW table \in Seq(JobType), NEW r1 \in JobType, NEW r2 \in JobType
  PROVE  /\ table \o <<r1, r2>> = (table \o <<r1>>) \o <<r2>>
         /\ <<r1, r2>> \in Seq(JobType) /\ Len(<<r1, r2>>) = 2
  <1>1. /\ <<r1>> \in Seq(JobType) /\ <<r2>> \in Seq(JobType)
        /\ <<r1, r2>> \in Seq(JobType) /\ Len(<<r1, r2>>) = 2
    OBVIOUS
  <1>2. <<r1>> \o <<r2>> = <<r1, r2>>
    <2> DEFINE both == <<r1>> \o <<r2>>
               pair == <<r1, r2>>
    <2>1. /\ both \in Seq(JobType) /\ Len(both) = 2 /\ both[1] = r1 /\ both[2] = r2
      <3>1. Len(<<r1>>) = 1 /\ Len(<<r2>>) = 1 /\ <<r1>>[1] = r1 /\ <<r2>>[1] = r2
        OBVIOUS
      <3>2. QED
        BY <1>1, <3>1, ConcatProperties
    <2>2. pair[1] = r1 /\ pair[2] = r2
      OBVIOUS
    <2>3. pair \in Seq(JobType) /\ Len(pair) = 2
      BY <1>1
    <2> HIDE DEF both, pair
    <2>4. \A i \in 1..Len(both) : both[i] = pair[i]
      <3>1. \A i \in 1..Len(both) : i = 1 \/ i = 2
        BY <2>1
      <3>2. QED
        BY <2>1, <2>2, <3>1
    <2>5. both = pair
      BY <2>1, <2>3, <2>4, SeqEqual
    <2>6. QED
      BY <2>5 DEF both, pair
  <1>3. (table \o <<r1>>) \o <<r2>> = table \o (<<r1>> \o <<r2>>)
    BY <1>1, ConcatAssociative
  <1>4. QED
    BY <1>1, <1>2, <1>3

\* The jobs of a trip tell of no customer and are no test.
LEMMA ModelTripsKeeps ==
  ASSUME OutboxInv, QueueInv, ModelTrips
  PROVE  OutboxInv' /\ QueueInv'
  <1> DEFINE r1 == Job("alert", trips + 1, 0)
             r2 == Job("unpublish", trips + 1, 0)
             middle == jobs \o <<r1>>
  <1>1. /\ trips < MaxTrips /\ trips' = trips + 1 /\ jobs' = jobs \o <<r1, r2>>
        /\ failures' = failures /\ workers' = workers /\ audited' = audited
        /\ accepted' = accepted /\ outboxFaults' = outboxFaults
    BY DEF ModelTrips, Enqueue
  <1>2. /\ jobs \in Seq(JobType) /\ failures \in [Customers -> 0..MaxFailures]
        /\ trips \in 0..MaxTrips /\ audited \subseteq Operations
    BY DEF OutboxInv, RowsOK, CountsOK
  <1>3. /\ r1 \in JobType /\ r1.kind = "alert" /\ r1.status = "pending" /\ ~r1.leased
        /\ r2 \in JobType /\ r2.kind = "unpublish" /\ r2.status = "pending" /\ ~r2.leased
    <2>1. /\ "alert" \in JobKinds /\ "unpublish" \in JobKinds
          /\ trips + 1 \in Customers \cup Operations \cup Nat /\ 0 \in Nat
      BY <1>2, HealthOutboxAssumption DEF JobKinds
    <2>2. r1 \in JobType /\ r1.kind = "alert" /\ r1.status = "pending" /\ ~r1.leased
      BY <2>1, NewJob
    <2>3. r2 \in JobType /\ r2.kind = "unpublish" /\ r2.status = "pending" /\ ~r2.leased
      BY <2>1, NewJob
    <2>4. QED
      BY <2>2, <2>3
  <1> HIDE DEF r1, r2
  <1>4. OneMore(jobs, r1, middle)
    BY <1>2, <1>3, RowAdded
  <1>5. /\ jobs' = middle \o <<r2>>
        /\ <<r1, r2>> \in Seq(JobType) /\ Len(<<r1, r2>>) = 2
    BY <1>1, <1>2, <1>3, OneByOne
  <1> HIDE DEF middle
  <1>6. OneMore(middle, r2, jobs')
    <2>1. middle \in Seq(JobType)
      BY <1>4 DEF OneMore
    <2>2. QED
      BY <1>3, <1>5, <2>1, RowAdded
  <1>7. /\ Len(jobs) \in Nat /\ Len(jobs') = Len(jobs) + 2
        /\ \A c : Told(jobs', c) = Told(jobs, c) + 0 + 0
        /\ \A c : FreshOf(jobs', c) = FreshOf(jobs, c)
        /\ \A op : TestsOf(jobs', op) = TestsOf(jobs, op)
    <2>1. \A c : TermOf(r1, c) = 0 /\ TermOf(r2, c) = 0
      BY <1>3 DEF TermOf
    <2>2. ASSUME NEW c PROVE Told(jobs', c) = Told(jobs, c) + 0 + 0
      <3>1. Told(middle, c) = Told(jobs, c) + 0
        BY <1>4, <2>1 DEF OneMore
      <3>2. Told(jobs', c) = Told(middle, c) + 0
        BY <1>6, <2>1 DEF OneMore
      <3>3. QED
        BY <3>1, <3>2
    <2>3. QED
      BY <1>3, <1>4, <1>6, <2>2 DEF OneMore
  <1>8. OutboxInv'
    <2>1. trips' \in 0..MaxTrips
      BY <1>1, <1>2, HealthOutboxAssumption
    <2>2. \A n \in 1..2 : <<r1, r2>>[n].status = "pending" /\ ~<<r1, r2>>[n].leased
      <3>1. \A n \in 1..2 : n = 1 \/ n = 2
        OBVIOUS
      <3>2. <<r1, r2>>[1] = r1 /\ <<r1, r2>>[2] = r2
        OBVIOUS
      <3>3. QED
        BY <1>3, <3>1, <3>2
    <2>3. QED
      BY <1>1, <1>2, <1>5, <2>1, <2>2, AddingStep DEF Enqueue
  <1>9. ASSUME NEW c \in Customers PROVE Told(jobs', c) = failures'[c]
    <2>1. Told(jobs, c) = failures[c] /\ failures[c] \in Int
      BY <1>2 DEF QueueInv
    <2>2. Told(jobs', c) = Told(jobs, c) + 0 + 0
      BY <1>7
    <2>3. QED
      BY <1>1, <2>1, <2>2
  <1>10. ASSUME NEW c
         PROVE  /\ SharedJob(c)' = SharedJob(c)
                /\ JobsOf("alert_test", c)' = JobsOf("alert_test", c)
    <2>1. /\ SharedJob(c)' = FreshOf(jobs', c) /\ SharedJob(c) = FreshOf(jobs, c)
          /\ JobsOf("alert_test", c)' = TestsOf(jobs', c)
          /\ JobsOf("alert_test", c) = TestsOf(jobs, c)
      BY DEF SharedJob, FreshOf, JobsOf, TestsOf, JobIds
    <2>2. QED
      BY <1>7, <2>1
  <1>11. /\ \A c \in Customers : \A i, j \in SharedJob(c)' : i = j
         /\ \A op \in Operations : IF op \in audited' THEN \E i : JobsOf("alert_test", op)' = {i}
                                  ELSE JobsOf("alert_test", op)' = {}
    BY <1>1, <1>10 DEF QueueInv
  <1>12. Len(jobs') <= SumFunctionOnSet(failures', Customers) + 2 * trips' + Cardinality(audited')
    <2>1. Cardinality(audited) \in Int /\ 2 * (trips + 1) = 2 * trips + 2 /\ 2 * trips \in Int
      BY <1>2, HealthOutboxAssumption, FS_Subset, FS_CardinalityType
    <2>2. SumFunctionOnSet(failures, Customers) \in Int
      BY <1>2, HealthOutboxAssumption, SumType
    <2>3. QED
      BY <1>1, <1>7, <2>1, <2>2 DEF QueueInv
  <1>13. QED
    BY <1>8, <1>9, <1>11, <1>12 DEF QueueInv

\* A test that has no job yet has no audit event either.
LEMMA EnqueueTestKeeps ==
  ASSUME OutboxInv, QueueInv, NEW op \in Operations, EnqueueTestAlert(op)
  PROVE  OutboxInv' /\ QueueInv'
  <1> DEFINE row == Job("alert_test", op, 0)
  <1>1. /\ JobsOf("alert_test", op) = {} /\ jobs' = jobs \o <<row>>
        /\ audited' = audited \cup {op}
        /\ failures' = failures /\ workers' = workers /\ trips' = trips
        /\ accepted' = accepted /\ outboxFaults' = outboxFaults
    BY DEF EnqueueTestAlert, Enqueue, JobsOf
  <1>2. /\ jobs \in Seq(JobType) /\ failures \in [Customers -> 0..MaxFailures]
        /\ trips \in 0..MaxTrips /\ audited \subseteq Operations
    BY DEF OutboxInv, RowsOK, CountsOK
  <1>3. /\ row \in JobType /\ row.kind = "alert_test" /\ row.key = op
        /\ row.status = "pending" /\ ~row.leased
    <2>1. "alert_test" \in JobKinds /\ op \in Customers \cup Operations \cup Nat /\ 0 \in Nat
      BY DEF JobKinds
    <2>2. QED
      BY <2>1, NewJob
  <1> HIDE DEF row
  <1>4. OneMore(jobs, row, jobs')
    BY <1>1, <1>2, <1>3, RowAdded
  <1>5. op \notin audited
    BY <1>1 DEF QueueInv
  <1>6. OutboxInv'
    <2>1. /\ <<row>> \in Seq(JobType) /\ Len(<<row>>) = 1
          /\ \A n \in 1..Len(<<row>>) : <<row>>[n].status = "pending" /\ ~<<row>>[n].leased
      BY <1>3
    <2>2. QED
      BY <1>1, <1>2, <2>1, AddingStep DEF Enqueue
  <1>7. ASSUME NEW c \in Customers PROVE Told(jobs', c) = failures'[c]
    <2>1. TermOf(row, c) = 0
      BY <1>3 DEF TermOf
    <2>2. Told(jobs', c) = Told(jobs, c) + TermOf(row, c)
      BY <1>4 DEF OneMore
    <2>3. Told(jobs, c) = failures[c] /\ failures[c] \in Int
      BY <1>2 DEF QueueInv
    <2>4. QED
      BY <1>1, <2>1, <2>2, <2>3
  <1>8. ASSUME NEW c \in Customers, NEW i \in SharedJob(c)', NEW j \in SharedJob(c)'
        PROVE  i = j
    <2>1. SharedJob(c)' = FreshOf(jobs', c) /\ SharedJob(c) = FreshOf(jobs, c)
      BY DEF SharedJob, FreshOf, JobIds
    <2>2. FreshOf(jobs', c) = FreshOf(jobs, c)
      BY <1>3, <1>4 DEF OneMore
    <2>3. QED
      BY <2>1, <2>2 DEF QueueInv
  <1>9. ASSUME NEW o \in Operations
        PROVE  IF o \in audited' THEN \E i : JobsOf("alert_test", o)' = {i}
               ELSE JobsOf("alert_test", o)' = {}
    <2>1. /\ JobsOf("alert_test", o)' = TestsOf(jobs', o)
          /\ JobsOf("alert_test", o) = TestsOf(jobs, o)
      BY DEF JobsOf, TestsOf, JobIds
    <2>2. CASE o = op
      <3>1. TestsOf(jobs', o) = {Len(jobs) + 1}
        BY <1>1, <1>3, <1>4, <2>1, <2>2 DEF OneMore
      <3>2. QED
        BY <1>1, <2>1, <2>2, <3>1
    <2>3. CASE o # op
      <3>1. TestsOf(jobs', o) = TestsOf(jobs, o)
        BY <1>3, <1>4, <2>3 DEF OneMore
      <3>2. QED
        BY <1>1, <2>1, <2>3, <3>1 DEF QueueInv
    <2>4. QED
      BY <2>2, <2>3
  <1>10. Len(jobs') <= SumFunctionOnSet(failures', Customers) + 2 * trips' + Cardinality(audited')
    <2>1. IsFiniteSet(audited) /\ Cardinality(audited) \in Int /\ 2 * trips \in Int
      BY <1>2, HealthOutboxAssumption, FS_Subset, FS_CardinalityType
    <2>2. Cardinality(audited \cup {op}) = Cardinality(audited) + 1
      BY <1>5, <2>1, FS_AddElement
    <2>3. SumFunctionOnSet(failures, Customers) \in Int
      BY <1>2, HealthOutboxAssumption, SumType
    <2>4. Len(jobs') = Len(jobs) + 1 /\ Len(jobs) \in Nat
      BY <1>4 DEF OneMore
    <2>5. QED
      BY <1>1, <2>1, <2>2, <2>3, <2>4 DEF QueueInv
  <1>11. QED
    BY <1>6, <1>7, <1>8, <1>9, <1>10 DEF QueueInv

-------------------------------------------------------------------------------
(* The theorems. *)

\* A set with one possible element.
LEMMA AtMostOne ==
  ASSUME NEW S, S = {} \/ \E x : S = {x}
  PROVE  Cardinality(S) <= 1
  <1>1. CASE S = {}
    BY <1>1, FS_EmptySet
  <1>2. ASSUME NEW x, S = {x} PROVE Cardinality(S) <= 1
    <2>1. Cardinality({x}) = 1
      BY FS_Singleton
    <2>2. QED
      BY <1>2, <2>1
  <1>3. QED
    BY <1>1, <1>2

\* An empty table has told nothing.
LEMMA QueueInit ==
  ASSUME OutboxInit
  PROVE  OutboxInv /\ QueueInv
  <1>1. jobs = <<>> /\ jobs \in Seq(JobType) /\ Len(jobs) = 0 /\ JobIds = {} /\ (1..Len(jobs)) = {}
    BY EmptySeq DEF OutboxInit, JobIds
  <1>2. RowsOK /\ CountsOK /\ DoneWasAccepted
    BY <1>1, HealthOutboxAssumption DEF OutboxInit, RowsOK, CountsOK, DoneWasAccepted
  <1>3. ItemsFit
    <2>1. \A w \in OutboxWorkers : ItemFits(w, IdleLoop, Len(jobs), accepted)
      BY <1>1, RestFits
    <2>2. QED
      BY <2>1 DEF OutboxInit, ItemsFit, ItemFits
  <1>4. ASSUME NEW c \in Customers PROVE Told(jobs, c) = failures[c]
    <2>1. Told(jobs, c) = 0
      BY <1>1, SumOfNone DEF Told
    <2>2. QED
      BY <2>1 DEF OutboxInit
  <1>5. ASSUME NEW c PROVE SharedJob(c) = {} /\ JobsOf("alert_test", c) = {}
    BY <1>1 DEF SharedJob, JobsOf
  <1>6. Len(jobs) <= SumFunctionOnSet(failures, Customers) + 2 * trips + Cardinality(audited)
    <2>1. SumFunctionOnSet(failures, Customers) = 0
      BY SumOfZeros, HealthOutboxAssumption DEF OutboxInit
    <2>2. Cardinality(audited) = 0 /\ trips = 0
      BY FS_EmptySet DEF OutboxInit
    <2>3. QED
      BY <1>1, <2>1, <2>2
  <1>7. audited = {}
    BY DEF OutboxInit
  <1>8. QED
    BY <1>2, <1>3, <1>4, <1>5, <1>6, <1>7 DEF OutboxInv, QueueInv

\* Producers keep the queue exact; workers and the clock leave it to them.
LEMMA QueueStep ==
  ASSUME OutboxInv, QueueInv, [OutboxNext]_outboxVars
  PROVE  OutboxInv' /\ QueueInv'
  <1>1. CASE UNCHANGED outboxVars
    <2>1. /\ jobs' = jobs /\ workers' = workers /\ failures' = failures /\ trips' = trips
          /\ audited' = audited /\ accepted' = accepted /\ outboxFaults' = outboxFaults
      BY <1>1 DEF outboxVars
    <2>2. ItemsFit' /\ accepted' \subseteq JobIds /\ outboxFaults' \in 0..MaxOutboxFaults
      BY <2>1 DEF OutboxInv, ItemsFit, CountsOK
    <2>3. OutboxInv' /\ Quiet
      BY <2>1, <2>2, LeavingStep
    <2>4. QED
      BY <2>3, QuietQueue
  <1>2. ASSUME NEW c \in Customers, RequestFails(c)
        PROVE  OutboxInv' /\ QueueInv'
    BY <1>2, FailsAlone, FailsShared
  <1>3. CASE ModelTrips
    BY <1>3, ModelTripsKeeps
  <1>4. ASSUME NEW op \in Operations, EnqueueTestAlert(op)
        PROVE  OutboxInv' /\ QueueInv'
    BY <1>4, EnqueueTestKeeps
  <1>5. ASSUME NEW w \in OutboxWorkers, OutboxWorkerStep(w) \/ Stop(w)
        PROVE  OutboxInv' /\ QueueInv'
    <2>1. OutboxInv' /\ Quiet
      BY <1>5, RunOnceKeeps, PickKeeps, ClaimKeeps, DeliverKeeps, ProcessUnpublishKeeps,
         FinishKeeps, StopKeeps DEF OutboxWorkerStep
    <2>2. QED
      BY <2>1, QuietQueue
  <1>6. ASSUME NEW i \in JobIds, RetryDue(i) \/ ItemLeaseExpires(i) \/ WindowPasses(i)
        PROVE  OutboxInv' /\ QueueInv'
    <2>1. OutboxInv' /\ Quiet
      BY <1>6, ClockKeeps
    <2>2. QED
      BY <2>1, QuietQueue
  <1>7. QED
    BY <1>1, <1>2, <1>3, <1>4, <1>5, <1>6 DEF OutboxNext

\* So the invariant holds in every reachable state.
LEMMA QueueAlways ==
  OutboxSpec => [](OutboxInv /\ QueueInv)
  <1>1. OutboxInit => OutboxInv /\ QueueInv
    BY QueueInit
  <1>2. OutboxInv /\ QueueInv /\ [OutboxNext]_outboxVars => (OutboxInv /\ QueueInv)'
    BY QueueStep
  <1>3. QED
    BY <1>1, <1>2, PTL DEF OutboxSpec

\* The rows and the items keep their shapes, and no job has an id beyond MaxJobs: the
\* fairness and the liveness of the outbox (OutboxFairSpec) quantify over every job there is.
THEOREM OutboxTypeCorrect == OutboxSpec => []HealthOutboxTypeOK
  <1>1. OutboxInv /\ QueueInv => HealthOutboxTypeOK
    <2>1. SUFFICES ASSUME OutboxInv, QueueInv PROVE HealthOutboxTypeOK
      OBVIOUS
    <2>2. /\ failures \in [Customers -> 0..MaxFailures] /\ trips \in 0..MaxTrips
          /\ audited \subseteq Operations /\ Len(jobs) \in Nat
      BY <2>1 DEF OutboxInv, CountsOK, RowsOK
    <2>3. /\ SumFunctionOnSet(failures, Customers) <= MaxFailures * Cardinality(Customers)
          /\ SumFunctionOnSet(failures, Customers) \in Int
      <3>1. \A c \in Customers : failures[c] \in Int /\ failures[c] <= MaxFailures
        BY <2>2, HealthOutboxAssumption
      <3>2. QED
        BY <3>1, SumBounded, SumType, HealthOutboxAssumption
    <2>4. /\ Cardinality(audited) <= Cardinality(Operations)
          /\ Cardinality(audited) \in Int /\ Cardinality(Operations) \in Int
          /\ Cardinality(Customers) \in Nat
      BY <2>2, HealthOutboxAssumption, FS_Subset, FS_CardinalityType
    <2>5. 2 * trips <= 2 * MaxTrips /\ 2 * trips \in Int /\ 2 * MaxTrips \in Int
      BY <2>2, HealthOutboxAssumption
    <2>6. MaxFailures * Cardinality(Customers) \in Int
      BY <2>4, HealthOutboxAssumption
    <2>7. Len(jobs) <= MaxJobs
      BY <2>1, <2>2, <2>3, <2>4, <2>5, <2>6 DEF QueueInv, MaxJobs
    <2>8. \A w \in OutboxWorkers : workers[w].job \in 0..Len(jobs)
      BY <2>1 DEF OutboxInv, ItemsFit, ItemFits
    <2>9. QED
      BY <2>1, <2>7, <2>8 DEF OutboxInv, ItemsFit, HealthOutboxTypeOK
  <1>2. QED
    BY <1>1, QueueAlways, PTL

\* Whatever claims, expiries, takeovers and crashes happen, at most one worker holds a
\* lease that a job would take an acknowledgement from, and a job is done only after
\* its recipient accepted it (ClaimOutbox, FinishOutboxWithReceipt).
THEOREM AcknowledgedOnce == OutboxSpec => []AcknowledgedByHolder
  <1>1. OutboxInv => AcknowledgedByHolder
    <2>1. SUFFICES ASSUME OutboxInv, NEW i \in JobIds
                   PROVE  Cardinality({w \in OutboxWorkers : workers[w].job = i
                            /\ workers[w].at \in {"send", "ack", "retry"} /\ HoldsItem(w)}) <= 1
      BY DEF AcknowledgedByHolder, LeaseExclusive, OutboxInv
    <2> DEFINE H == {w \in OutboxWorkers : workers[w].job = i
                       /\ workers[w].at \in {"send", "ack", "retry"} /\ HoldsItem(w)}
    <2>2. \A w \in H : w = jobs[i].token
      BY <2>1 DEF OutboxInv, ItemsFit, ItemFits, InHand, HoldsItem
    <2>3. H = {} \/ H = {jobs[i].token}
      BY <2>2
    <2>4. Cardinality(H) <= 1
      <3> HIDE DEF H
      <3>1. QED
        BY <2>3, AtMostOne
    <2>5. QED
      BY <2>4
  <1>2. QED
    BY <1>1, QueueAlways, PTL

\* However the workers and the clock interleave with the producers, every failed
\* request of a customer is counted by exactly one job, a customer has at most one job
\* in ten minutes, and a delivery test has one job exactly when it has its audit event
\* (enqueueZTAPICustomerAlertTx, EnqueueTestAlert).
THEOREM QueuedOnce == OutboxSpec => []AlertsQueuedOnce
  <1>1. OutboxInv /\ QueueInv => AlertsQueuedOnce
    <2>1. SUFFICES ASSUME OutboxInv, QueueInv PROVE AlertsQueuedOnce
      OBVIOUS
    <2>2. EveryFailureCounted
      <3>1. ASSUME NEW c \in Customers
            PROVE  SumFunctionOnSet([i \in JobIds |-> CountedBy(i, c)], JobIds) = Told(jobs, c)
        BY DEF Told, TermOf, CountedBy, JobIds
      <3>2. QED
        BY <2>1, <3>1 DEF EveryFailureCounted, QueueInv
    <2>3. OneJobPerWindow
      <3>1. ASSUME NEW c \in Customers PROVE Cardinality(SharedJob(c)) <= 1
        <4>1. \A i, j \in SharedJob(c) : i = j
          BY <2>1 DEF QueueInv
        <4>2. SharedJob(c) = {} \/ \E i : SharedJob(c) = {i}
          BY <4>1
        <4>3. QED
          BY <4>2, AtMostOne
      <3>2. QED
        BY <3>1 DEF OneJobPerWindow
    <2>4. OneJobPerTest
      <3>1. ASSUME NEW op \in Operations
            PROVE  Cardinality(JobsOf("alert_test", op)) = IF op \in audited THEN 1 ELSE 0
        BY <2>1, FS_EmptySet, FS_Singleton DEF QueueInv
      <3>2. QED
        BY <3>1 DEF OneJobPerTest, JobsOf
    <2>5. QED
      BY <2>2, <2>3, <2>4 DEF AlertsQueuedOnce
  <1>2. QED
    BY <1>1, QueueAlways, PTL

\* So the outbox tells everything once, and forgets nothing its recipient has not
\* accepted, for any number of customers, nodes, crashes and refusals.
THEOREM OutboxIsSafe == OutboxSpec => []OutboxSafe
  <1>1. AlertsQueuedOnce /\ AcknowledgedByHolder => OutboxSafe
    BY DEF OutboxSafe
  <1>2. QED
    BY <1>1, QueuedOnce, AcknowledgedOnce, PTL
===============================================================================
