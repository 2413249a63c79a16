------------------------------ MODULE OrderMutex ------------------------------
(***************************************************************************)
(* What LockOrder and UnlockOrder (controller/topup.go) promise: one lock  *)
(* per trade number, held by one handler at a time.  Module OrderLock is   *)
(* the implementation, with its table of counted mutexes.                  *)
(***************************************************************************)
CONSTANTS Callbacks, Trades

VARIABLES phase,   \* "out", "waiting" or "inside", for each handler
          wants    \* the trade number a handler that is not out works on

vars == <<phase, wants>>

Init ==
  /\ phase = [h \in Callbacks |-> "out"]
  /\ wants \in [Callbacks -> Trades]

Ask(h, t) ==
  /\ phase[h] = "out"
  /\ phase' = [phase EXCEPT ![h] = "waiting"]
  /\ wants' = [wants EXCEPT ![h] = t]

Enter(h) ==
  /\ phase[h] = "waiting"
  /\ \A g \in Callbacks : phase[g] = "inside" => wants[g] # wants[h]
  /\ phase' = [phase EXCEPT ![h] = "inside"]
  /\ UNCHANGED wants

Leave(h) ==
  /\ phase[h] = "inside"
  /\ phase' = [phase EXCEPT ![h] = "out"]
  /\ UNCHANGED wants

Next == \E h \in Callbacks : (\E t \in Trades : Ask(h, t)) \/ Enter(h) \/ Leave(h)

Spec == Init /\ [][Next]_vars
===============================================================================
