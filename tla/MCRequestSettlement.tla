------------------------- MODULE MCRequestSettlement -------------------------
(***************************************************************************)
(* RequestSettlement for TLC: small sets and their symmetry.               *)
(***************************************************************************)
EXTENDS RequestSettlement, TLC

Symmetry == Permutations(Ops) \cup Permutations(Channels)

\* The system without the administrator's edits, for the run that looks at
\* faults: the payments run edits the user between the steps of two requests.
RequestsNext == \E o \in Ops : Handler(o) \/ Worker(o) \/ Operator(o)

RequestsSpec == Init /\ [][RequestsNext]_vars
===============================================================================
