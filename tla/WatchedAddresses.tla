--------------------------- MODULE WatchedAddresses ---------------------------
(***************************************************************************)
(* The addresses the USDT watcher polls (model/usdt_watched_address.go and *)
(* watchedAddresses of service/usdt_topup_watcher.go): the address of the  *)
(* deployment, and a bounded list of others that operators manage and that *)
(* a deployment extends with the address it replaces.                      *)
(*                                                                         *)
(* The operators' transactions count the enabled rows and write afterwards *)
(* without a lock, so two of them may both see the last free place: a      *)
(* request is admitted in one step and applied in a later one.  Rows that  *)
(* are enabled beyond the cap are not polled.                              *)
(***************************************************************************)
EXTENDS Naturals, Sequences, FiniteSets

CONSTANTS
  TronAddresses,    \* what is a valid TRON address
  MaxEnabled,       \* MaxEnabledUSDTWatchedAddresses, 8 in the code
  MaxOperators,     \* bound on the operators' requests in flight at a time
  MaxDeployFaults   \* bound on database failures during a deployment

WatchedAssumption ==
  MaxEnabled \in Nat \ {0} /\ MaxOperators \in Nat /\ MaxDeployFaults \in Nat

VARIABLES
  rows,       \* the table, in the order of its ids: address and enabled flag
  admitted,   \* operators' requests that passed their checks
  marker,     \* the option ZTAPILastReceivingAddress: {} or one address
  deployed,   \* the receiving address of the running deployment: {} or one
  replaced,   \* addresses a deployment replaced and no operator disabled since
  deployFaults   \* failures so far

addressVars == <<rows, admitted, marker, deployed, replaced, deployFaults>>

\* Types: the address column is unique.
AddressesTypeOK ==
  /\ rows \in Seq([address : TronAddresses, enabled : BOOLEAN])
  /\ \A i, j \in 1..Len(rows) : rows[i].address = rows[j].address => i = j
  /\ admitted \subseteq {"create", "enable"} \X TronAddresses
  /\ Cardinality(marker) <= 1 /\ marker \subseteq TronAddresses
  /\ Cardinality(deployed) <= 1 /\ deployed \subseteq TronAddresses
  /\ replaced \subseteq TronAddresses
  /\ deployFaults \in 0..MaxDeployFaults
-------------------------------------------------------------------------------
Enabled == {i \in 1..Len(rows) : rows[i].enabled}

HasRow(a) == \E i \in 1..Len(rows) : rows[i].address = a

\* ListEnabledUSDTWatchedAddresses: the enabled rows with the lowest ids.
ListEnabled ==
  {rows[i].address : i \in {j \in Enabled :
                              Cardinality({k \in Enabled : k < j}) < MaxEnabled}}

\* watchedAddresses of the running watcher.
Polled == deployed \cup ListEnabled

NewRow(a) == Append(rows, [address |-> a, enabled |-> TRUE])

\* The transactions' count of the enabled rows leaves room for one more.
Mut_LastPlaceTwice == Cardinality(Enabled) <= MaxEnabled

Admissible == Cardinality(Enabled) < MaxEnabled

\* Another operator's request may begin (bound).
MayBegin == Cardinality(admitted) < MaxOperators
-------------------------------------------------------------------------------
(***************************************************************************)
(* CreateUSDTWatchedReceivingAddress and                                   *)
(* SetUSDTWatchedReceivingAddressEnabled, called by operators.             *)
(***************************************************************************)
AdmitCreate(a) ==
  /\ ~HasRow(a) /\ Admissible /\ MayBegin
  /\ admitted' = admitted \cup {<<"create", a>>}
  /\ UNCHANGED <<rows, marker, deployed, replaced, deployFaults>>

\* The unique index refuses a second row for the address.
ApplyCreate(a) ==
  /\ <<"create", a>> \in admitted
  /\ admitted' = admitted \ {<<"create", a>>}
  /\ rows' = IF HasRow(a) THEN rows ELSE NewRow(a)
  /\ UNCHANGED <<marker, deployed, replaced, deployFaults>>

AdmitEnable(i) ==
  /\ ~rows[i].enabled /\ Admissible /\ MayBegin
  /\ admitted' = admitted \cup {<<"enable", rows[i].address>>}
  /\ UNCHANGED <<rows, marker, deployed, replaced, deployFaults>>

ApplyEnable(i) ==
  /\ <<"enable", rows[i].address>> \in admitted
  /\ admitted' = admitted \ {<<"enable", rows[i].address>>}
  /\ rows' = [rows EXCEPT ![i].enabled = TRUE]
  /\ UNCHANGED <<marker, deployed, replaced, deployFaults>>

Disable(i) ==
  /\ rows[i].enabled
  /\ rows' = [rows EXCEPT ![i].enabled = FALSE]
  /\ replaced' = replaced \ {rows[i].address}
  /\ UNCHANGED <<admitted, marker, deployed, deployFaults>>

(***************************************************************************)
(* StartUSDTTopUpWatcher with the receiving address a.  It first runs      *)
(* KeepPreviousReceivingAddressWatched: a row for the marker's address, if *)
(* that has none and there is room, and then the new marker in any case.   *)
(***************************************************************************)
Mut_KeepReenables(previous) ==
  LET i == CHOOSE j \in 1..Len(rows) : rows[j].address = previous
  IN IF HasRow(previous) THEN [rows EXCEPT ![i].enabled = TRUE]
     ELSE IF Admissible THEN NewRow(previous) ELSE rows

KeepPrevious(previous) ==
  IF HasRow(previous) \/ ~Admissible THEN rows ELSE NewRow(previous)

Restarted(a) ==
  /\ deployed' = {a}
  /\ replaced' = (replaced \cup deployed) \ {a}
  /\ UNCHANGED admitted

Deploy(a) ==
  /\ Restarted(a)
  /\ marker' = {a}
  /\ \/ marker \in {{}, {a}} /\ UNCHANGED rows
     \/ \E previous \in marker \ {a} : rows' = KeepPrevious(previous)
  /\ UNCHANGED deployFaults

\* One of its statements fails - reading the marker, creating the row, saving
\* the marker.  That is only logged.
DeployWithFault(a) ==
  /\ deployFaults < MaxDeployFaults /\ deployFaults' = deployFaults + 1
  /\ Restarted(a)
  /\ \/ UNCHANGED <<rows, marker>>
     \/ marker # {a} /\ marker' = {a} /\ UNCHANGED rows
     \/ \E previous \in marker \ {a} : rows' = KeepPrevious(previous) /\ UNCHANGED marker

AddressesInit ==
  /\ rows = <<>>
  /\ admitted = {}
  /\ marker = {}
  /\ deployed = {}
  /\ replaced = {}
  /\ deployFaults = 0

AddressesNext ==
  \/ \E a \in TronAddresses : AdmitCreate(a) \/ ApplyCreate(a)
  \/ \E a \in TronAddresses : Deploy(a) \/ DeployWithFault(a)
  \/ \E i \in 1..Len(rows) : AdmitEnable(i) \/ ApplyEnable(i) \/ Disable(i)

AddressesSpec == AddressesInit /\ [][AddressesNext]_addressVars
-------------------------------------------------------------------------------
(***************************************************************************)
(* Properties.                                                             *)
(***************************************************************************)

\* "Every enabled address is one more upstream query per poll, so the set is
\* capped": what the limit promises of the table.  It does not hold: requests
\* that count before the others write exceed it.
EnabledCapped == Cardinality(Enabled) <= MaxEnabled

\* What is left of the cap: each request that was in flight exceeds it by one row
\* at most, and a deployment that keeps its previous address adds none to that.
\* Whatever operators and deployments do one after the other stays within it.
CapExceededByRacesOnly == Cardinality(Enabled) <= MaxEnabled + MaxOperators

\* An address an operator disabled is polled again only if an operator enables
\* it or a deployment asks customers to pay to it: no restart revives it.
DisabledStaysDisabled ==
  [][\A i \in 1..Len(rows) : ~rows[i].enabled /\ rows'[i].enabled =>
       <<"enable", rows[i].address>> \in admitted]_addressVars

\* "Changing the receiving address must not strand a customer who was already
\* shown the previous one": an address that a deployment replaced is polled
\* until an operator disables it.
PreviousStillWatched == replaced \subseteq Polled
===============================================================================
