----------------------------- MODULE MCUSDTOrders -----------------------------
(* Model-checking instance of USDTOrders. *)
EXTENDS USDTOrders, TLC

OrdersSymmetry == Permutations(Users) \cup Permutations(Orders) \cup Permutations(Transfers)
                    \cup Permutations(Txs)
===============================================================================
