---------------------------- MODULE HoldLifecycle ----------------------------
(***************************************************************************)
(* What the billing of managed requests promises about each request, with  *)
(* no rows, attempts, intents, workers or failures: the wallet pays for a  *)
(* request once, when the request is held, and the hold ends once, in a    *)
(* charge of the actual usage or in the return of everything.              *)
(***************************************************************************)
EXTENDS Integers

CONSTANTS Ops, Quota   \* the requests; the amounts a wallet can pay

VARIABLES phase,   \* phase[o]: "none", "held", "charged" or "returned"
          paid     \* paid[o]: what the wallet has paid for o so far

HoldVars == <<phase, paid>>

HoldInit == phase = [o \in Ops |-> "none"] /\ paid = [o \in Ops |-> 0]

Take(o) ==
  /\ phase[o] = "none"
  /\ phase' = [phase EXCEPT ![o] = "held"]
  /\ \E amount \in Quota : paid' = [paid EXCEPT ![o] = amount]

Charge(o) ==
  /\ phase[o] = "held"
  /\ phase' = [phase EXCEPT ![o] = "charged"]
  /\ \E amount \in Quota : paid' = [paid EXCEPT ![o] = amount]

Return(o) ==
  /\ phase[o] = "held"
  /\ phase' = [phase EXCEPT ![o] = "returned"]
  /\ paid' = [paid EXCEPT ![o] = 0]

HoldNext == \E o \in Ops : Take(o) \/ Charge(o) \/ Return(o)

HoldSpec == HoldInit /\ [][HoldNext]_HoldVars
===============================================================================
