--------------------------- MODULE LedgerArithmetic ---------------------------
(***************************************************************************)
(* The arithmetic of the wallet ledger (model/balance_ledger.go): which    *)
(* signed amounts a balance accepts, and what a balance change does to the *)
(* status of its owner.  The operators are shared by every component that  *)
(* moves wallet quota.                                                     *)
(***************************************************************************)
EXTENDS Integers

CONSTANT MaxQuota   \* maxBalanceLedgerQuota, 2^31 - 1 in the code

ASSUME MaxQuotaAssumption == MaxQuota \in Nat \ {0}

(***************************************************************************)
(* A user's wallet row: the balance, the lifetime usage, the account       *)
(* status, whether the status is a debt suspension, and soft deletion.     *)
(***************************************************************************)
UserType == [quota : -MaxQuota..MaxQuota, used : 0..MaxQuota, status : {"enabled", "disabled"},
             debtSuspended : BOOLEAN, deleted : BOOLEAN]

(***************************************************************************)
(* The ordinary sum: TRUE when it is accepted.  A credit may not pass the  *)
(* maximum; a debit is refused by a balance it would make negative.        *)
(***************************************************************************)
checkedBalanceLedgerSum(balance, delta) ==
  /\ balance >= -MaxQuota /\ balance <= MaxQuota
  /\ delta > 0 => delta <= MaxQuota - balance
  /\ delta < 0 => balance >= 0 /\ delta >= -balance

(***************************************************************************)
(* The settlement sum: a debt is allowed, the limits of the column remain. *)
(***************************************************************************)
checkedSettlementBalanceLedgerSum(balance, delta) ==
  /\ balance >= -MaxQuota /\ balance <= MaxQuota
  /\ delta >= -MaxQuota /\ delta <= MaxQuota
  /\ balance + delta >= -MaxQuota /\ balance + delta <= MaxQuota

(***************************************************************************)
(* The user row after its balance becomes `after`.  A settlement that      *)
(* leaves a debt suspends an enabled user (or keeps one suspended); a      *)
(* balance that is whole again lifts a debt suspension and nothing else.   *)
(* Mut_* definitions are deliberate misreadings used to test properties.   *)
(***************************************************************************)
Mut_RestoresAnyone(u, after, settlement) ==
  [u EXCEPT !.quota = after,
            !.debtSuspended = FALSE,
            !.status = IF after >= 0 THEN "enabled" ELSE "disabled"]

balanceLedgerUserUpdates(u, after, settlement) ==
  IF settlement /\ after < 0
    THEN IF u.status = "enabled" \/ u.debtSuspended
           THEN [u EXCEPT !.quota = after, !.status = "disabled",
                          !.debtSuspended = TRUE]
           ELSE [u EXCEPT !.quota = after]
    ELSE IF after >= 0 /\ u.debtSuspended
           THEN [u EXCEPT !.quota = after, !.status = "enabled",
                          !.debtSuspended = FALSE]
           ELSE [u EXCEPT !.quota = after]
===============================================================================
