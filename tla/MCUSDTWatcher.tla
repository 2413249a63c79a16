---------------------------- MODULE MCUSDTWatcher ----------------------------
(* Model-checking instances of USDTWatcher. *)
EXTENDS USDTWatcher, TLC

CONSTANTS w1, w2, a1

\* A standby: both processes ask customers to pay to the same address.
Standby == (w1 :> a1) @@ (w2 :> a1)

Single == (w1 :> a1)

WatcherSymmetry == Permutations(Orders) \cup Permutations(Transfers)
                     \cup Permutations(Txs)
===============================================================================
