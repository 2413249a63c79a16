------------------------------ MODULE MCSupplier ------------------------------
(***************************************************************************)
(* What follows a request that the supplier was asked to serve, on small   *)
(* instances: the charges of its attempts and their reviews, the log of    *)
(* the settlement, the alerts about rows that stay pending, the refunds    *)
(* the supplier proves and the jobs that are polled until they end, which  *)
(* this module extends and supplier.cfg gives their constants.             *)
(*                                                                         *)
(* The parts have no variable in common in this instance; part, chosen at  *)
(* the start, is the one that moves (see MCPayments).                      *)
(***************************************************************************)
EXTENDS AttemptBilling, FinanceAlerts, SettlementLog, SupplierRefund, MediaTask,
        TaskPolling, Integers, TLC

CONSTANTS Parts,
          b1, b2, b3, f1, f2, w1, w2, bill1, bill2,
          text, image,             \* charge dimensions
          p1, p2,                  \* polling processes
          clip, song               \* a video and a song of the older billing

VARIABLE part

\* One request with two attempts and five competing proofs, b3 quoting the
\* bill line of b2 for the other attempt.
RequestOfProof == [p \in Proofs |-> 1]
AttemptOfProof == [p \in Proofs |-> IF p \in {b1, b3, f1} THEN 1 ELSE 2]
KindOfProof == [p \in Proofs |-> IF p \in {f1, f2} THEN "nocharge" ELSE "billed"]
BillOfProof == [p \in Proofs |-> IF p = b1 THEN bill1 ELSE bill2]
WireOfProof == [p \in Proofs |-> IF p \in {b1, b3, f1} THEN w1 ELSE w2]

\* Attempt 2 is the settled one, with three units at half a quota each: floor
\* 1, charged 2 with the rounding.  The token share of its second dimension
\* cannot be split.
Charges ==
  [a \in 1..2 |-> [d \in Dims |->
      IF d = text
      THEN [units |-> 3, num |-> 1, den |-> 2, charged |-> 2, token |-> 2]
      ELSE [units |-> 2, num |-> 1, den |-> 1, charged |-> 2,
            token |-> IF a = 2 THEN 1 ELSE 0]]]
Lines(t, i) == [d \in Dims |-> IF d = text THEN t ELSE i]

\* Two partial proofs of the same units, the rest, and one for the other attempt.
AttemptOfRefund == <<2, 2, 2, 1>>
ModeOfRefund == <<"partial", "partial", "full", "partial">>
UnitsOfRefund == <<Lines(1, 0), Lines(2, 0), Lines(0, 0), Lines(1, 1)>>

\* In "split" one admin handler processes the four proofs; in "race" two
\* workers, one of them the retry loop, process the first two without faults.
SplitStep == batch' = batch /\ worker'[2] = worker[2]
RaceStep == \A k \in {3, 4} : refund'[k] = refund[k] /\ refundFaults' = refundFaults

\* Two processes poll one video, submitted once; in "retried" one polls it, and
\* the submission may be retried on another channel.
Retried == INSTANCE MediaTask WITH
  VideoPollers <- {p1}, MaxAttempts <- 2, MaxMediaFaults <- 2

\* Two processes poll a video of the older billing; in "songs" one polls a song.
ClipStep == taskRow'[song] = taskRow[song] /\ taskJob'[song] = taskJob[song]
SongStep == taskRow'[clip] = taskRow[clip] /\ taskJob'[clip] = taskJob[clip]
Songs == INSTANCE TaskPolling WITH Pollers <- {p1}

ASSUME Retried!MediaAssumption /\ Songs!PollingAssumption
-------------------------------------------------------------------------------
supplierVars == <<part, vars, refundVars, logVars, alertVars, mediaVars, pollingVars>>

SupplierInit ==
  /\ part \in Parts
  /\ Init /\ RefundInit /\ LogInit /\ AlertInit /\ MediaInit /\ PollingInit

SupplierNext ==
  /\ UNCHANGED part
  /\ IF part = "attempts" THEN Next ELSE UNCHANGED vars
  /\ CASE part = "split" -> RefundNext /\ SplitStep
       [] part = "race" -> RefundNext /\ RaceStep
       [] OTHER -> UNCHANGED refundVars
  /\ IF part = "logs" THEN LogNext ELSE UNCHANGED logVars
  /\ IF part = "alerts" THEN AlertNext ELSE UNCHANGED alertVars
  /\ CASE part = "video" -> MediaNext
       [] part = "retried" -> Retried!MediaNext
       [] OTHER -> UNCHANGED mediaVars
  /\ CASE part = "clips" -> PollingNext /\ ClipStep
       [] part = "songs" -> Songs!PollingNext /\ SongStep
       [] OTHER -> UNCHANGED pollingVars

SupplierSpec == SupplierInit /\ [][SupplierNext]_supplierVars
-------------------------------------------------------------------------------
\* A song, refunded before its row is saved, is refunded again only after a
\* fault, with the one process that polls it (updateSunoTasks in
\* service/task_polling.go).
SongsRefundedOncePerCrash == part = "songs" => Songs!SunoRefundedOncePerCrash
===============================================================================
