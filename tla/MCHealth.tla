------------------------------- MODULE MCHealth -------------------------------
(***************************************************************************)
(* The health of managed models on small instances: the paid verification  *)
(* of failing routes and the outbox of alerts and unpublications, which    *)
(* this module extends and health.cfg gives their constants.               *)
(*                                                                         *)
(* The two have no variable in common in this instance; part, chosen at    *)
(* the start, is the one that moves (see MCPayments).  The parts of route  *)
(* verification have the same constants and are kept to what each is       *)
(* about, one dimension at a time: every behaviour of a part is one of the *)
(* component.                                                              *)
(***************************************************************************)
EXTENDS HealthVerification, HealthOutbox, TLC

CONSTANTS Parts, r1, w1, w2

VARIABLE part
-------------------------------------------------------------------------------
healthVars == <<part, vars, outboxVars>>

Busy == {w \in Workers : worker[w].pc # "idle"}
OneRoute == eligible = {r1} /\ changes = 1   \* the other was disabled at the start
NoDearProbe == \A c \in Cases : case[c].estimate <= Reservation

\* What a part of the instance is kept to.
Within ==
  CASE part = "routes" ->        \* two routes, of which one may open while the other serves
         /\ changes = 0 /\ faults = 0 /\ Cardinality(inflight) <= 1
         /\ Cardinality(Busy) <= 1 /\ NoDearProbe
    [] part = "generations" ->   \* one route, that a recovered model uses again
         OneRoute /\ faults <= 1 /\ Cardinality(Busy) <= 1 /\ NoDearProbe
    [] part = "nodes" ->         \* two nodes on one route, crashes, and dear probes
         OneRoute /\ health.generation = 1 /\ MaxCases \notin UsedCases

HealthInit == part \in Parts /\ Init /\ OutboxInit

HealthNext ==
  /\ UNCHANGED part
  /\ IF part = "outbox" THEN OutboxNext /\ UNCHANGED vars
     ELSE Next /\ Within' /\ UNCHANGED outboxVars

HealthSpec == HealthInit /\ [][HealthNext]_healthVars

\* The nodes are alike.
Nodes == Permutations({w1, w2})
===============================================================================
