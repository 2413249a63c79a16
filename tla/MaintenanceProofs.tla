--------------------------- MODULE MaintenanceProofs ---------------------------
(***************************************************************************)
(* Proofs about what maintenance passes complete on several nodes: the     *)
(* finance alerts, the outbox of the settlement logs, supplier refunds.    *)
(*                                                                         *)
(* FinanceAlerts: the shape of its state, that an alert is delivered twice *)
(* only after a failed call or a crash and is never held by two nodes, and *)
(* that only a settled or released source withdraws it.  The counting      *)
(* argument: whoever could send an alert once more - a pending row, or a   *)
(* row that is being sent and whose holder, if any, has not had it         *)
(* accepted - finds it delivered at most once per fault so far.  It rests  *)
(* on the lease: what a node holds is the live lease of its row, so a row  *)
(* that can be claimed again is held by nobody.                            *)
(*                                                                         *)
(* SettlementLog: an operation has one log in the other database, whatever *)
(* is redelivered, and its outbox row names that one.  Receipts and logs   *)
(* are one to one, and whoever is about to acknowledge read the receipt.   *)
(*                                                                         *)
(* SupplierRefund: the customer has got back exactly the refunds applied   *)
(* and for each dimension what its reversed units cost, and a completed    *)
(* refund had the caches dropped.  Cumulative targets only grow, and what  *)
(* a call read of the row stays older than what it completes.              *)
(*                                                                         *)
(* MediaTask: the reservation, the durable task and the polling rows of a  *)
(* video agree, and an outcome the customer saw stays.  Nobody polls a     *)
(* task that is not bound, what the provider answered once it is finished  *)
(* stays true, and a poll that applies it late finds it recorded.          *)
(*                                                                         *)
(* TaskPolling: a video of the older billing is refunded or repriced once, *)
(* by the poller that moved its row to a final status; a song is refunded  *)
(* again by the one process that polls only after a fault.                 *)
(***************************************************************************)
EXTENDS FinanceAlerts, SettlementLog, SupplierRefund, MediaTask, TaskPolling,
        FiniteSums, SequenceTheorems

-----------------------------------------------------------------------------
(***************************************************************************)
(* Finance alerts                                                          *)
(***************************************************************************)
JobStatus == {"none", "pending", "sending", "sent", "cancelled"}
Jobs == [status : JobStatus, updatedAt : Nat, due : BOOLEAN, expired : BOOLEAN,
         attempts : Nat, lease : Nat]

SourceStates == [status : {"reserved", "pending", "terminal"},
                 reason : Reasons \cup {NoReason},
                 aged : BOOLEAN, updatedAt : Nat, updates : Nat]

Claims == Keys \X Nat

NodeStates == [pc : {"idle", "queue", "claim", "send"}, rows : SUBSET Claims,
               todo : SUBSET Claims, claimed : SUBSET Claims,
               sent : SUBSET (Claims \X BOOLEAN)]

SourceTypes ==
  /\ source \in [Sources -> SourceStates]
  /\ \A s \in Sources : (source[s].status = "pending") = (source[s].reason # NoReason)

AlertTypes ==
  /\ job \in [Keys -> Jobs]
  /\ delivered \in [Keys -> Nat]
  /\ node \in [Nodes -> NodeStates]
  /\ faults \in 0..MaxFaults

\* A node holds the lease of an alert it has claimed and not yet sent, or
\* whose outcome it has not yet stored.
Holds(n, k, l) ==
  \/ <<k, l>> \in node[n].claimed
  \/ \E ok \in BOOLEAN : <<<<k, l>>, ok>> \in node[n].sent

ClaimsAreLive ==
  \A n \in Nodes, k \in Keys, l \in Nat :
    Holds(n, k, l) => job[k].status = "sending" /\ job[k].lease = l /\ ~job[k].expired

HeldByOne ==
  \A m, n \in Nodes, k \in Keys, l \in Nat : Holds(m, k, l) /\ Holds(n, k, l) => m = n

OneAtATime ==
  \A n \in Nodes :
    /\ \A x, y \in node[n].sent : x = y
    /\ \A k \in Keys, l \in Nat, ok \in BOOLEAN :
         <<<<k, l>>, ok>> \in node[n].sent => <<k, l>> \notin node[n].claimed

\* A row has a lease exactly while it is being sent.
LeaseShape(k) ==
  /\ (job[k].lease # 0) = (job[k].status = "sending")
  /\ job[k].lease \in {0, job[k].attempts}
  /\ job[k].expired => job[k].status = "sending"
  /\ job[k].status = "none" => job[k].attempts = 0

\* A node has had the alert accepted and not yet stored that.
Accepted(k) == \E n \in Nodes : <<<<k, job[k].lease>>, TRUE>> \in node[n].sent

Counted(k) ==
  /\ delivered[k] <= job[k].attempts
  /\ delivered[k] <= 1 + faults
  /\ job[k].status = "pending" => delivered[k] <= faults
  /\ job[k].status = "sending" /\ ~Accepted(k) => delivered[k] <= faults
  /\ \A n \in Nodes : <<k, job[k].lease>> \in node[n].claimed
                         => delivered[k] < job[k].attempts

AlertInv ==
  /\ AlertTypes
  /\ ClaimsAreLive /\ HeldByOne /\ OneAtATime
  /\ \A k \in Keys : LeaseShape(k) /\ Counted(k)
-----------------------------------------------------------------------------
(***************************************************************************)
(* The shape of the state                                                  *)
(***************************************************************************)
\* Everything starts well shaped, and nothing is queued or held.
LEMMA AlertInvStarts ==
  ASSUME AlertInit PROVE AlertInv /\ SourceTypes
<1>1. NoJob \in Jobs
  BY DEF NoJob, Jobs, JobStatus
<1>2. Idle \in NodeStates
  BY DEF Idle, NodeStates
<1>3. AlertTypes
  BY <1>1, <1>2, FinanceAlertsAssumption DEF AlertInit, AlertTypes
<1>4. \A n \in Nodes : node[n].claimed = {} /\ node[n].sent = {}
  BY DEF AlertInit, Idle
<1>5. ClaimsAreLive /\ HeldByOne /\ OneAtATime
  BY <1>4 DEF ClaimsAreLive, HeldByOne, OneAtATime, Holds
<1>6. \A k \in Keys : LeaseShape(k) /\ Counted(k)
  BY <1>4 DEF AlertInit, NoJob, LeaseShape, Counted
<1>7. SourceTypes
  BY DEF AlertInit, SourceTypes, SourceStates, NoReason
<1> QED
  BY <1>3, <1>5, <1>6, <1>7 DEF AlertInv

\* A step of a source keeps its shape, leaves the alerts alone, and a
\* terminal source stays terminal.
LEMMA SourceStep ==
  ASSUME SourceTypes, NEW s \in Sources,
         Touch(s) \/ Age(s) \/ ResolveSource(s) \/ \E r \in Reasons : Park(s, r)
  PROVE  /\ SourceTypes'
         /\ \A x \in Sources : source[x].status = "terminal"
                                  => source'[x].status = "terminal"
         /\ UNCHANGED <<job, delivered, node, faults>>
<1>1. source \in [Sources -> SourceStates] /\ source[s] \in SourceStates
  BY DEF SourceTypes
<1>2. ASSUME NEW new \in SourceStates, UpdateSource(s, new),
             (new.status = "pending") = (new.reason # NoReason),
             source[s].status # "terminal"
      PROVE  /\ SourceTypes'
             /\ \A x \in Sources : source[x].status = "terminal"
                                      => source'[x].status = "terminal"
  <2>1. PICK u : /\ u \in {source[s].updatedAt + 1} \cup
                          (IF SameInstant THEN {source[s].updatedAt} ELSE {})
                 /\ source' = [source EXCEPT ![s] =
                                 [new EXCEPT !.updatedAt = u, !.updates = @ + 1]]
    BY <1>2 DEF UpdateSource
  <2>2. u \in Nat
    BY <1>1, <2>1 DEF SourceStates
  <2>3. /\ [new EXCEPT !.updatedAt = u, !.updates = @ + 1] \in SourceStates
        /\ [new EXCEPT !.updatedAt = u, !.updates = @ + 1].status = new.status
        /\ [new EXCEPT !.updatedAt = u, !.updates = @ + 1].reason = new.reason
    <3> DEFINE first == [new EXCEPT !.updatedAt = u]
    <3>1. first \in SourceStates /\ first.status = new.status /\ first.reason = new.reason
      BY <2>2 DEF SourceStates
    <3>2. [new EXCEPT !.updatedAt = u, !.updates = @ + 1] = [first EXCEPT !.updates = @ + 1]
      BY DEF SourceStates
    <3> HIDE DEF first
    <3>3. first.updates + 1 \in Nat
      BY <3>1 DEF SourceStates
    <3>4. /\ [first EXCEPT !.updates = @ + 1] \in SourceStates
          /\ [first EXCEPT !.updates = @ + 1].status = first.status
          /\ [first EXCEPT !.updates = @ + 1].reason = first.reason
      BY <3>1, <3>3 DEF SourceStates
    <3> QED
      BY <3>1, <3>2, <3>4
  <2> HIDE DEF SourceStates
  <2>4. /\ source' \in [Sources -> SourceStates]
        /\ source'[s].status = new.status /\ source'[s].reason = new.reason
        /\ \A x \in Sources \ {s} : source'[x] = source[x]
    BY <1>1, <2>1, <2>3
  <2> QED
    BY <1>2, <2>4 DEF SourceTypes
<1>3. CASE Touch(s)
  BY <1>1, <1>2, <1>3 DEF Touch, UpdateSource, SourceTypes
<1>4. CASE Age(s)
  <2>1. source' = [source EXCEPT ![s].aged = TRUE]
    BY <1>4 DEF Age
  <2>2. /\ source' \in [Sources -> SourceStates]
        /\ \A x \in Sources : /\ source'[x].status = source[x].status
                              /\ source'[x].reason = source[x].reason
    BY <1>1, <2>1 DEF SourceStates
  <2> QED
    BY <1>4, <2>2 DEF Age, SourceTypes
<1>5. CASE ResolveSource(s)
  <2> DEFINE new == [source[s] EXCEPT !.status = "terminal", !.reason = NoReason]
  <2>1. new \in SourceStates /\ new.status = "terminal" /\ new.reason = NoReason
    BY <1>1 DEF SourceStates
  <2>2. /\ UpdateSource(s, new) /\ source[s].status # "terminal"
        /\ UNCHANGED <<job, delivered, node, faults>>
    BY <1>5 DEF ResolveSource, UpdateSource
  <2> HIDE DEF new
  <2> QED
    BY <1>2, <2>1, <2>2
<1>6. ASSUME NEW r \in Reasons, Park(s, r)
      PROVE  /\ SourceTypes'
             /\ \A x \in Sources : source[x].status = "terminal"
                                      => source'[x].status = "terminal"
             /\ UNCHANGED <<job, delivered, node, faults>>
  <2> DEFINE new == [source[s] EXCEPT !.status = "pending", !.reason = r]
  <2>1. new \in SourceStates /\ new.status = "pending" /\ new.reason = r
    BY <1>1 DEF SourceStates
  <2>2. /\ UpdateSource(s, new) /\ source[s].status # "terminal"
        /\ UNCHANGED <<job, delivered, node, faults>>
    BY <1>6 DEF Park, UpdateSource
  <2>3. r # NoReason
    BY FinanceAlertsAssumption
  <2> HIDE DEF new
  <2> QED
    BY <1>2, <2>1, <2>2, <2>3
<1> QED
  BY <1>3, <1>4, <1>5, <1>6
-----------------------------------------------------------------------------
(***************************************************************************)
(* Three kinds of step                                                     *)
(***************************************************************************)
\* The step leaves alone what the claim on a row is about.
RowKept(k) ==
  /\ job'[k].status = job[k].status /\ job'[k].lease = job[k].lease
  /\ job'[k].expired = job[k].expired /\ job'[k].attempts = job[k].attempts

\* A row that can be claimed is held by nobody, and was delivered at most once
\* per fault (the condition of ClaimZTAPIFinanceAlerts).
LEMMA EligibleIsFree ==
  ASSUME AlertInv, NEW k \in Keys, Eligible(k)
  PROVE  /\ \A n \in Nodes, l \in Nat : ~Holds(n, k, l)
         /\ delivered[k] <= faults
         /\ job[k].status # "none"
<1>1. job[k].status = "pending" \/ (job[k].status = "sending" /\ job[k].expired)
  BY Zenon DEF Eligible
<1>2. \A n \in Nodes, l \in Nat : ~Holds(n, k, l)
  BY <1>1 DEF AlertInv, ClaimsAreLive
<1>3. job[k].lease \in Nat
  BY DEF AlertInv, AlertTypes, Jobs
<1>4. ~Accepted(k)
  BY <1>2, <1>3 DEF Accepted, Holds
<1> QED
  BY <1>1, <1>2, <1>4 DEF AlertInv, Counted

\* No row changes, and nodes at most lose claims: an accepted one by a fault.
LEMMA QuietStep ==
  ASSUME AlertInv, AlertTypes', \A k \in Keys : RowKept(k), delivered' = delivered,
         \A n \in Nodes : /\ node'[n].claimed \subseteq node[n].claimed
                          /\ node'[n].sent \subseteq node[n].sent,
         \/ faults' = faults /\ \A n \in Nodes : node'[n].sent = node[n].sent
         \/ faults' = faults + 1
  PROVE  AlertInv'
<1>1. \A n \in Nodes, k \in Keys, l \in Nat : Holds(n, k, l)' => Holds(n, k, l)
  BY DEF Holds
<1>2. ClaimsAreLive'
  BY <1>1 DEF AlertInv, ClaimsAreLive, RowKept
<1>3. HeldByOne'
  BY <1>1 DEF AlertInv, HeldByOne
<1>4. OneAtATime'
  BY DEF AlertInv, OneAtATime
<1>5. ASSUME NEW k \in Keys PROVE LeaseShape(k)' /\ Counted(k)'
  <2>1. LeaseShape(k) /\ Counted(k) /\ RowKept(k)
    BY DEF AlertInv
  <2>2. delivered[k] \in Nat /\ faults \in Nat
    BY DEF AlertInv, AlertTypes
  <2>3. faults' = faults => \A n \in Nodes : node'[n].sent = node[n].sent
    BY <2>2
  <2>4. faults' = faults => (Accepted(k)' <=> Accepted(k))
    BY <2>1, <2>3 DEF Accepted, RowKept
  <2> QED
    BY <2>1, <2>2, <2>4 DEF LeaseShape, Counted, RowKept
<1> QED
  BY <1>2, <1>3, <1>4, <1>5 DEF AlertInv

\* One row that nobody holds changes, and nobody claims it.
LEMMA FreeRowStep ==
  ASSUME AlertInv, AlertTypes', NEW k \in Keys,
         \A n \in Nodes, l \in Nat : ~Holds(n, k, l),
         LeaseShape(k)', \A j \in Keys \ {k} : RowKept(j),
         delivered' = delivered, faults' = faults,
         delivered[k] <= job'[k].attempts,
         delivered[k] <= faults \/ job'[k].status \notin {"pending", "sending"},
         \A n \in Nodes : /\ node'[n].claimed = node[n].claimed
                          /\ node'[n].sent = node[n].sent
  PROVE  AlertInv'
<1>1. \A n \in Nodes, j \in Keys, l \in Nat : Holds(n, j, l)' <=> Holds(n, j, l)
  BY DEF Holds
<1>2. ClaimsAreLive'
  BY <1>1 DEF AlertInv, ClaimsAreLive, RowKept
<1>3. HeldByOne'
  BY <1>1 DEF AlertInv, HeldByOne
<1>4. OneAtATime'
  BY DEF AlertInv, OneAtATime
<1>5. ASSUME NEW j \in Keys \ {k} PROVE LeaseShape(j)' /\ Counted(j)'
  <2>1. LeaseShape(j) /\ Counted(j) /\ RowKept(j)
    BY DEF AlertInv
  <2>2. Accepted(j)' <=> Accepted(j)
    BY <2>1 DEF Accepted, RowKept
  <2> QED
    BY <2>1, <2>2 DEF LeaseShape, Counted, RowKept
<1>6. Counted(k)'
  <2>1. Counted(k) /\ delivered[k] \in Nat /\ faults \in Nat
    BY DEF AlertInv, AlertTypes
  <2>2. job'[k] \in Jobs
    BY DEF AlertTypes
  <2>3. job'[k].lease \in Nat
    BY <2>2 DEF Jobs
  <2>4. \A n \in Nodes : <<k, job'[k].lease>> \notin node'[n].claimed
    BY <1>1, <2>3 DEF Holds
  <2> QED
    BY <2>1, <2>4 DEF Counted
<1> QED
  BY <1>2, <1>3, <1>4, <1>5, <1>6 DEF AlertInv
-----------------------------------------------------------------------------
(***************************************************************************)
(* The actions of a tick                                                   *)
(***************************************************************************)
\* A step that changes no row and no claim but what a node is about to do, or
\* that gives up what a node holds, keeps the invariant.
LEMMA QuietActions ==
  ASSUME AlertInv, SourceTypes, NEW n \in Nodes,
         \/ ScanSources(n) \/ QueueFails(n) \/ SelectCandidates(n) \/ ClaimFails(n)
         \/ StartSending(n) \/ FinishFails(n) \/ EndTick(n) \/ CutOff(n)
  PROVE  AlertInv' /\ UNCHANGED <<source, job>>
<1>1. /\ job \in [Keys -> Jobs] /\ delivered \in [Keys -> Nat]
      /\ node \in [Nodes -> NodeStates] /\ node[n] \in NodeStates /\ faults \in 0..MaxFaults
  BY DEF AlertInv, AlertTypes
<1>2. UNCHANGED <<source, job, delivered>>
  BY DEF ScanSources, QueueFails, SelectCandidates, ClaimFails, StartSending,
         FinishFails, EndTick, CutOff
<1>3. \A k \in Keys : RowKept(k)
  BY <1>2 DEF RowKept
<1>4. ASSUME node' \in [Nodes -> NodeStates], \A m \in Nodes \ {n} : node'[m] = node[m],
             \/ /\ faults' = faults
                /\ node'[n].claimed = node[n].claimed /\ node'[n].sent = node[n].sent
             \/ /\ Fault
                /\ node'[n].claimed \subseteq node[n].claimed
                /\ node'[n].sent \subseteq node[n].sent
      PROVE  AlertInv' /\ UNCHANGED <<source, job>>
  <2>1. faults' \in 0..MaxFaults
    BY <1>1, <1>4, FinanceAlertsAssumption DEF Fault
  <2>2. AlertTypes'
    BY <1>1, <1>2, <1>4, <2>1 DEF AlertTypes
  <2>3. \A m \in Nodes : /\ node'[m].claimed \subseteq node[m].claimed
                         /\ node'[m].sent \subseteq node[m].sent
    BY <1>4
  <2>4. \/ faults' = faults /\ \A m \in Nodes : node'[m].sent = node[m].sent
        \/ faults' = faults + 1
    BY <1>4 DEF Fault
  <2> QED
    BY <1>2, <1>3, <2>2, <2>3, <2>4, QuietStep
<1>5. Idle \in NodeStates /\ Idle.claimed = {} /\ Idle.sent = {}
  BY DEF Idle, NodeStates
<1>6. CASE ScanSources(n)
  <2> DEFINE due == {<<<<s, SourceReason(s)>>, source[s].updatedAt>> :
                        s \in {x \in Sources : SourceReason(x) # NoReason /\ ~Accounted(x)}}
  <2>1. \A s \in Sources : SourceReason(s) \in AllReasons \cup {NoReason}
    BY DEF SourceReason, AllReasons, SourceTypes, SourceStates
  <2>2. \A s \in Sources : source[s].updatedAt \in Nat
    BY DEF SourceTypes, SourceStates
  <2>3. due \in SUBSET Claims
    BY <2>1, <2>2 DEF Claims, Keys
  <2>4. node' = [node EXCEPT ![n].pc = "queue", ![n].rows = due] /\ faults' = faults
    BY <1>6 DEF ScanSources
  <2> HIDE DEF due
  <2>5. /\ node' \in [Nodes -> NodeStates] /\ \A m \in Nodes \ {n} : node'[m] = node[m]
        /\ node'[n].claimed = node[n].claimed /\ node'[n].sent = node[n].sent
    BY <1>1, <2>3, <2>4 DEF NodeStates
  <2> QED
    BY <1>4, <2>4, <2>5
<1>7. CASE QueueFails(n)
  <2>1. node' = [node EXCEPT ![n].rows = {}] /\ Fault
    BY <1>7 DEF QueueFails
  <2>2. /\ node' \in [Nodes -> NodeStates] /\ \A m \in Nodes \ {n} : node'[m] = node[m]
        /\ node'[n].claimed = node[n].claimed /\ node'[n].sent = node[n].sent
    BY <1>1, <2>1 DEF NodeStates
  <2> QED
    BY <1>4, <2>1, <2>2
<1>8. CASE SelectCandidates(n)
  <2> DEFINE seen == {<<k, job[k].lease>> : k \in {x \in Keys : Eligible(x)}}
  <2>1. seen \in SUBSET Claims
    BY <1>1 DEF Claims, Jobs
  <2>2. node' = [node EXCEPT ![n].pc = "claim", ![n].todo = seen] /\ faults' = faults
    BY <1>8 DEF SelectCandidates
  <2> HIDE DEF seen
  <2>3. /\ node' \in [Nodes -> NodeStates] /\ \A m \in Nodes \ {n} : node'[m] = node[m]
        /\ node'[n].claimed = node[n].claimed /\ node'[n].sent = node[n].sent
    BY <1>1, <2>1, <2>2 DEF NodeStates
  <2> QED
    BY <1>4, <2>2, <2>3
<1>9. CASE ClaimFails(n)
  <2>1. /\ \E c \in node[n].todo : node' = [node EXCEPT ![n].todo = @ \ {c}]
        /\ Fault
    BY <1>9 DEF ClaimFails
  <2>2. /\ node' \in [Nodes -> NodeStates] /\ \A m \in Nodes \ {n} : node'[m] = node[m]
        /\ node'[n].claimed = node[n].claimed /\ node'[n].sent = node[n].sent
    BY <1>1, <2>1 DEF NodeStates
  <2> QED
    BY <1>4, <2>1, <2>2
<1>10. CASE StartSending(n)
  <2>1. node' = [node EXCEPT ![n].pc = "send"] /\ faults' = faults
    BY <1>10 DEF StartSending
  <2>2. /\ node' \in [Nodes -> NodeStates] /\ \A m \in Nodes \ {n} : node'[m] = node[m]
        /\ node'[n].claimed = node[n].claimed /\ node'[n].sent = node[n].sent
    BY <1>1, <2>1 DEF NodeStates
  <2> QED
    BY <1>4, <2>1, <2>2
<1>11. CASE FinishFails(n)
  <2>1. node' = [node EXCEPT ![n].sent = {}] /\ Fault
    BY <1>11 DEF FinishFails
  <2>2. /\ node' \in [Nodes -> NodeStates] /\ \A m \in Nodes \ {n} : node'[m] = node[m]
        /\ node'[n].claimed = node[n].claimed /\ node'[n].sent = {}
    BY <1>1, <2>1 DEF NodeStates
  <2> QED
    BY <1>4, <2>1, <2>2
<1>12. CASE EndTick(n)
  <2>1. /\ node' = [node EXCEPT ![n] = Idle] /\ faults' = faults
        /\ node[n].claimed = {} /\ node[n].sent = {}
    BY <1>12 DEF EndTick
  <2>2. /\ node' \in [Nodes -> NodeStates] /\ \A m \in Nodes \ {n} : node'[m] = node[m]
        /\ node'[n] = Idle
    BY <1>1, <1>5, <2>1
  <2> QED
    BY <1>4, <1>5, <2>1, <2>2
<1>13. CASE CutOff(n)
  <2>1. node' = [node EXCEPT ![n] = Idle] /\ Fault
    BY <1>13 DEF CutOff
  <2>2. /\ node' \in [Nodes -> NodeStates] /\ \A m \in Nodes \ {n} : node'[m] = node[m]
        /\ node'[n] = Idle
    BY <1>1, <1>5, <2>1
  <2> QED
    BY <1>4, <1>5, <2>1, <2>2
<1> QED
  BY <1>6, <1>7, <1>8, <1>9, <1>10, <1>11, <1>12, <1>13

\* Queueing an alert starts its row, which nobody can hold yet, or tells a
\* live one the newer revision and leaves its claim alone.
LEMMA QueueStep ==
  ASSUME AlertInv, NEW n \in Nodes, QueueAlert(n)
  PROVE  /\ AlertInv'
         /\ \A k \in Keys : job'[k].status = "cancelled" => job[k].status = "cancelled"
<1>1. /\ job \in [Keys -> Jobs] /\ delivered \in [Keys -> Nat]
      /\ node \in [Nodes -> NodeStates] /\ node[n] \in NodeStates /\ faults \in 0..MaxFaults
  BY DEF AlertInv, AlertTypes
<1>2. UNCHANGED <<source, delivered, faults>>
  BY DEF QueueAlert
<1>3. PICK row \in node[n].rows : /\ job' = [job EXCEPT ![row[1]] = Queued(@, row[2])]
                                  /\ node' = [node EXCEPT ![n].rows = @ \ {row}]
  BY DEF QueueAlert
<1> DEFINE k == row[1]  u == row[2]
<1>4. k \in Keys /\ u \in Nat /\ job[k] \in Jobs
  BY <1>1 DEF NodeStates, Claims
<1>5. job' = [job EXCEPT ![k] = Queued(job[k], u)]
  BY <1>3
<1> HIDE DEF k, u
<1>6. /\ node' \in [Nodes -> NodeStates]
      /\ \A m \in Nodes : node'[m].claimed = node[m].claimed /\ node'[m].sent = node[m].sent
  BY <1>1, <1>3 DEF NodeStates
<1>7. CASE job[k].status = "none"
  <2> DEFINE queued == [NoJob EXCEPT !.status = "pending", !.updatedAt = u, !.due = TRUE]
  <2>1. /\ queued \in Jobs /\ queued.status = "pending" /\ queued.attempts = 0
        /\ queued.lease = 0 /\ queued.expired = FALSE
    BY <1>4 DEF NoJob, Jobs, JobStatus
  <2>2. job' = [job EXCEPT ![k] = queued]
    BY <1>7, <1>5 DEF Queued
  <2> HIDE DEF queued
  <2>3. job' \in [Keys -> Jobs] /\ job'[k] = queued /\ \A j \in Keys \ {k} : job'[j] = job[j]
    BY <1>1, <1>4, <2>1, <2>2
  <2>4. AlertTypes'
    BY <1>1, <1>2, <1>6, <2>3 DEF AlertTypes
  <2>5. \A m \in Nodes, l \in Nat : ~Holds(m, k, l)
    BY <1>4, <1>7 DEF AlertInv, ClaimsAreLive
  <2>6. delivered[k] = 0
    <3>1. job[k].attempts = 0 /\ delivered[k] <= job[k].attempts
      BY <1>4, <1>7 DEF AlertInv, LeaseShape, Counted
    <3> QED
      BY <1>1, <1>4, <3>1
  <2>7. LeaseShape(k)'
    BY <2>1, <2>3 DEF LeaseShape
  <2>8. \A j \in Keys \ {k} : RowKept(j)
    BY <2>3 DEF RowKept
  <2>9. delivered[k] <= job'[k].attempts /\ delivered[k] <= faults
    BY <1>1, <2>1, <2>3, <2>6
  <2>10. AlertInv'
    BY <1>2, <1>4, <1>6, <2>4, <2>5, <2>7, <2>8, <2>9, FreeRowStep
  <2> QED
    BY <2>1, <2>3, <2>10
<1>8. CASE job[k].status # "none"
  <2> DEFINE newer == [job[k] EXCEPT !.updatedAt = IF @ < u THEN u ELSE @]
  <2>1. (IF job[k].updatedAt < u THEN u ELSE job[k].updatedAt) \in Nat
    BY <1>4 DEF Jobs
  <2>2. job' = [job EXCEPT ![k] = newer]
    BY <1>8, <1>5 DEF Queued
  <2>3. /\ newer \in Jobs /\ newer.status = job[k].status
        /\ newer.attempts = job[k].attempts
        /\ newer.lease = job[k].lease /\ newer.expired = job[k].expired
    BY <1>4, <2>1 DEF Jobs
  <2>4. job' \in [Keys -> Jobs] /\ job'[k] = newer /\ \A j \in Keys \ {k} : job'[j] = job[j]
    BY <1>1, <1>4, <2>2, <2>3
  <2>5. AlertTypes'
    BY <1>1, <1>2, <1>6, <2>4 DEF AlertTypes
  <2>6. \A j \in Keys : RowKept(j)
    BY <2>3, <2>4 DEF RowKept
  <2>7. AlertInv'
    BY <1>2, <1>6, <2>5, <2>6, QuietStep
  <2> QED
    BY <2>6, <2>7 DEF RowKept
<1> QED
  BY <1>7, <1>8

\* Claiming an alert withdraws it, puts it off or skips it, and touches only a
\* row nobody holds; or it leases the row, which then has one holder.
LEMMA ClaimStep ==
  ASSUME AlertInv, NEW n \in Nodes, ClaimAlert(n)
  PROVE  /\ AlertInv'
         /\ \A k \in Keys : job'[k].status = "cancelled"
                               => job[k].status = "cancelled" \/ Resolved(k)
<1>1. /\ job \in [Keys -> Jobs] /\ delivered \in [Keys -> Nat]
      /\ node \in [Nodes -> NodeStates] /\ node[n] \in NodeStates /\ faults \in 0..MaxFaults
  BY DEF AlertInv, AlertTypes
<1>2. UNCHANGED <<source, delivered, faults>>
  BY DEF ClaimAlert
<1>3. PICK c \in node[n].todo : \/ CancelAlert(n, c[1], c[2]) \/ TakeLease(n, c[1], c[2])
                                \/ PutOff(n, c[1], c[2]) \/ Skip(n, c[1], c[2])
  BY DEF ClaimAlert
<1> DEFINE k == c[1]  old == c[2]
<1>4. k \in Keys /\ old \in Nat /\ job[k] \in Jobs
  BY <1>1 DEF NodeStates, Claims
<1>5. CancelAlert(n, k, old) \/ TakeLease(n, k, old) \/ PutOff(n, k, old) \/ Skip(n, k, old)
  BY <1>3
<1> HIDE DEF k, old
<1>6. ASSUME node' = [node EXCEPT ![n].todo = @ \ {<<k, old>>}]
      PROVE  /\ node' \in [Nodes -> NodeStates]
             /\ \A m \in Nodes : /\ node'[m].claimed = node[m].claimed
                                 /\ node'[m].sent = node[m].sent
  BY <1>1, <1>6 DEF NodeStates
<1>7. ASSUME Eligible(k), job' \in [Keys -> Jobs], \A j \in Keys \ {k} : job'[j] = job[j],
             job'[k].attempts = job[k].attempts, job'[k].lease = 0, job'[k].expired = FALSE,
             job'[k].status \in {"pending", "cancelled"},
             node' = [node EXCEPT ![n].todo = @ \ {<<k, old>>}]
      PROVE  AlertInv'
  <2>1. AlertTypes'
    BY <1>1, <1>2, <1>6, <1>7 DEF AlertTypes
  <2>2. /\ \A m \in Nodes, l \in Nat : ~Holds(m, k, l)
        /\ delivered[k] <= faults
    BY <1>4, <1>7, EligibleIsFree
  <2>3. LeaseShape(k)'
    BY <1>7 DEF LeaseShape
  <2>4. \A j \in Keys \ {k} : RowKept(j)
    BY <1>7 DEF RowKept
  <2>5. delivered[k] <= job'[k].attempts
    BY <1>4, <1>7 DEF AlertInv, Counted
  <2> QED
    BY <1>2, <1>4, <1>6, <1>7, <2>1, <2>2, <2>3, <2>4, <2>5, FreeRowStep
<1>8. CASE CancelAlert(n, k, old)
  <2>1. /\ job' = [job EXCEPT ![k].status = "cancelled", ![k].lease = 0, ![k].expired = FALSE]
        /\ node' = [node EXCEPT ![n].todo = @ \ {<<k, old>>}]
        /\ Eligible(k) /\ Resolved(k)
    BY <1>8 DEF CancelAlert
  <2>2. /\ job' \in [Keys -> Jobs] /\ \A j \in Keys \ {k} : job'[j] = job[j]
        /\ job'[k].attempts = job[k].attempts /\ job'[k].lease = 0
        /\ job'[k].expired = FALSE /\ job'[k].status = "cancelled"
    BY <1>1, <1>4, <2>1 DEF Jobs, JobStatus
  <2> QED
    BY <1>7, <2>1, <2>2
<1>9. CASE TakeLease(n, k, old)
  <2> DEFINE lease == job[k].attempts + 1
  <2>1. /\ job' = [job EXCEPT ![k].status = "sending", ![k].attempts = @ + 1,
                              ![k].lease = job[k].attempts + 1, ![k].expired = FALSE]
        /\ node' = [node EXCEPT ![n].todo = @ \ {<<k, old>>},
                                ![n].claimed = @ \cup {<<k, lease>>}]
        /\ Eligible(k)
    BY <1>9 DEF TakeLease
  <2>2. job[k].attempts \in Nat /\ lease \in Nat /\ lease # 0
    BY <1>4 DEF Jobs
  <2>3. /\ job' \in [Keys -> Jobs] /\ \A j \in Keys \ {k} : job'[j] = job[j]
        /\ job'[k].attempts = lease /\ job'[k].lease = lease
        /\ job'[k].expired = FALSE /\ job'[k].status = "sending"
    BY <1>1, <1>4, <2>1, <2>2 DEF Jobs, JobStatus
  <2> HIDE DEF lease
  <2>4. <<k, lease>> \in Claims
    BY <1>4, <2>2 DEF Claims
  <2>5. /\ node' \in [Nodes -> NodeStates]
        /\ \A m \in Nodes \ {n} : node'[m] = node[m]
        /\ node'[n].claimed = node[n].claimed \cup {<<k, lease>>}
        /\ node'[n].sent = node[n].sent
    BY <1>1, <2>1, <2>4 DEF NodeStates
  <2>6. AlertTypes'
    BY <1>1, <1>2, <2>3, <2>5 DEF AlertTypes
  <2>7. /\ \A m \in Nodes, l \in Nat : ~Holds(m, k, l)
        /\ delivered[k] <= faults /\ delivered[k] <= job[k].attempts
    BY <1>4, <2>1, EligibleIsFree DEF AlertInv, Counted
  <2>8. ASSUME NEW m \in Nodes, NEW j \in Keys, NEW l \in Nat
        PROVE  Holds(m, j, l)' <=> (Holds(m, j, l) \/ (m = n /\ j = k /\ l = lease))
    <3>1. node'[m].sent = node[m].sent
      BY <2>5
    <3>2. <<j, l>> \in node'[m].claimed
            <=> (<<j, l>> \in node[m].claimed \/ (m = n /\ j = k /\ l = lease))
      BY <2>5
    <3> QED
      BY <3>1, <3>2 DEF Holds
  <2>9. ClaimsAreLive'
    <3> SUFFICES ASSUME NEW m \in Nodes, NEW j \in Keys, NEW l \in Nat, Holds(m, j, l)'
                 PROVE  job'[j].status = "sending" /\ job'[j].lease = l /\ ~job'[j].expired
      BY DEF ClaimsAreLive
    <3>1. CASE j = k
      BY <2>3, <2>7, <2>8, <3>1
    <3>2. CASE j # k
      BY <2>3, <2>8, <3>2 DEF AlertInv, ClaimsAreLive
    <3> QED
      BY <3>1, <3>2
  <2>10. HeldByOne'
    BY <2>7, <2>8 DEF AlertInv, HeldByOne
  <2>11. OneAtATime'
    <3>1. \A ok \in BOOLEAN : <<<<k, lease>>, ok>> \notin node[n].sent
      BY <2>2, <2>7 DEF Holds
    <3> QED
      BY <2>5, <3>1 DEF AlertInv, OneAtATime
  <2>12. ASSUME NEW j \in Keys \ {k} PROVE LeaseShape(j)' /\ Counted(j)'
    <3>1. LeaseShape(j) /\ Counted(j) /\ job'[j] = job[j]
      BY <2>3 DEF AlertInv
    <3>2. Accepted(j)' <=> Accepted(j)
      BY <2>5, <3>1 DEF Accepted
    <3>3. \A m \in Nodes : <<j, job'[j].lease>> \in node'[m].claimed
                              => <<j, job[j].lease>> \in node[m].claimed
      BY <2>5, <3>1
    <3> QED
      BY <1>2, <3>1, <3>2, <3>3 DEF LeaseShape, Counted
  <2>13. LeaseShape(k)'
    BY <2>2, <2>3 DEF LeaseShape
  <2>14. Counted(k)'
    BY <1>1, <1>2, <1>4, <2>2, <2>3, <2>7 DEF Counted, lease
  <2> QED
    BY <2>3, <2>6, <2>9, <2>10, <2>11, <2>12, <2>13, <2>14 DEF AlertInv
<1>10. ASSUME job' = job, node' = [node EXCEPT ![n].todo = @ \ {<<k, old>>}]
       PROVE  AlertInv'
  <2>1. AlertTypes'
    BY <1>1, <1>2, <1>6, <1>10 DEF AlertTypes
  <2>2. \A j \in Keys : RowKept(j)
    BY <1>10 DEF RowKept
  <2> QED
    BY <1>2, <1>6, <1>10, <2>1, <2>2, QuietStep
<1>11. CASE PutOff(n, k, old)
  <2>1. CASE job[k].lease = old
    <3>1. /\ job' = [job EXCEPT ![k].status = "pending", ![k].lease = 0,
                                ![k].due = FALSE, ![k].expired = FALSE]
          /\ node' = [node EXCEPT ![n].todo = @ \ {<<k, old>>}]
          /\ Eligible(k)
      BY <1>11, <2>1 DEF PutOff
    <3>2. /\ job' \in [Keys -> Jobs] /\ \A j \in Keys \ {k} : job'[j] = job[j]
          /\ job'[k].attempts = job[k].attempts /\ job'[k].lease = 0
          /\ job'[k].expired = FALSE /\ job'[k].status = "pending"
      BY <1>1, <1>4, <3>1 DEF Jobs, JobStatus
    <3> QED
      BY <1>7, <3>1, <3>2
  <2>2. CASE job[k].lease # old
    BY <1>10, <1>11, <2>2 DEF PutOff
  <2> QED
    BY <2>1, <2>2
<1>12. CASE Skip(n, k, old)
  BY <1>10, <1>12 DEF Skip
<1> QED
  BY <1>5, <1>8, <1>9, <1>11, <1>12

\* Sending an alert moves it from the claimed ones to the one whose outcome is
\* to be stored.  An accepted message without an answer costs a fault.
LEMMA SendStep ==
  ASSUME AlertInv, NEW n \in Nodes, SendAlert(n) \/ SendFails(n)
  PROVE  AlertInv' /\ UNCHANGED <<source, job>>
<1>1. /\ job \in [Keys -> Jobs] /\ delivered \in [Keys -> Nat]
      /\ node \in [Nodes -> NodeStates] /\ node[n] \in NodeStates /\ faults \in 0..MaxFaults
  BY DEF AlertInv, AlertTypes
<1>2. UNCHANGED <<source, job>> /\ node[n].sent = {}
  BY DEF SendAlert, SendFails
<1>3. PICK c \in node[n].claimed, ok \in BOOLEAN, taken \in BOOLEAN :
        /\ delivered' = IF taken THEN [delivered EXCEPT ![c[1]] = @ + 1] ELSE delivered
        /\ node' = [node EXCEPT ![n].claimed = @ \ {c}, ![n].sent = {<<c, ok>>}]
        /\ IF ok THEN taken /\ faults' = faults ELSE Fault
  <2>1. CASE SendAlert(n)
    <3>1. PICK c \in node[n].claimed :
            /\ delivered' = [delivered EXCEPT ![c[1]] = @ + 1]
            /\ node' = [node EXCEPT ![n].claimed = @ \ {c}, ![n].sent = {<<c, TRUE>>}]
            /\ faults' = faults
      BY <2>1 DEF SendAlert
    <3> QED
      BY <3>1
  <2>2. CASE SendFails(n)
    <3>1. PICK c \in node[n].claimed, taken \in BOOLEAN :
            /\ delivered' = IF taken THEN [delivered EXCEPT ![c[1]] = @ + 1] ELSE delivered
            /\ node' = [node EXCEPT ![n].claimed = @ \ {c}, ![n].sent = {<<c, FALSE>>}]
            /\ Fault
      BY <2>2 DEF SendFails
    <3> QED
      BY <3>1
  <2> QED
    BY <2>1, <2>2
<1> DEFINE k == c[1]  l == c[2]
<1>4. k \in Keys /\ l \in Nat /\ c = <<k, l>> /\ c \in Claims
  BY <1>1 DEF NodeStates, Claims
<1> HIDE DEF k, l
<1>5. faults' \in 0..MaxFaults /\ faults <= faults' /\ (~ok => faults' = faults + 1)
  BY <1>1, <1>3, FinanceAlertsAssumption DEF Fault
<1>6. /\ delivered' \in [Keys -> Nat] /\ delivered'[k] <= delivered[k] + 1
      /\ \A j \in Keys \ {k} : delivered'[j] = delivered[j]
  <2>1. delivered' = IF taken THEN [delivered EXCEPT ![k] = @ + 1] ELSE delivered
    BY <1>3 DEF k
  <2> QED
    BY <1>1, <1>4, <2>1
<1>7. /\ node' \in [Nodes -> NodeStates] /\ \A m \in Nodes \ {n} : node'[m] = node[m]
      /\ node'[n].claimed = node[n].claimed \ {c} /\ node'[n].sent = {<<c, ok>>}
  <2> DEFINE left == node[n].claimed \ {c}  outcome == {<<c, ok>>}
  <2>1. node' = [node EXCEPT ![n].claimed = left, ![n].sent = outcome]
    BY <1>3
  <2>2. left \in SUBSET Claims /\ outcome \in SUBSET (Claims \X BOOLEAN)
    BY <1>1, <1>4 DEF NodeStates
  <2> HIDE DEF left, outcome
  <2>3. /\ node' \in [Nodes -> NodeStates] /\ \A m \in Nodes \ {n} : node'[m] = node[m]
        /\ node'[n].claimed = left /\ node'[n].sent = outcome
    BY <1>1, <2>1, <2>2 DEF NodeStates
  <2> QED
    BY <2>3 DEF left, outcome
<1>8. AlertTypes'
  BY <1>1, <1>2, <1>5, <1>6, <1>7 DEF AlertTypes
<1>9. ASSUME NEW m \in Nodes, NEW j \in Keys, NEW x \in Nat
      PROVE  Holds(m, j, x)' <=> Holds(m, j, x)
  <2>1. CASE m = n
    <3>1. Holds(n, j, x)' <=> (<<j, x>> \in node[n].claimed \ {c} \/ <<j, x>> = c)
      BY <1>7 DEF Holds
    <3>2. Holds(n, j, x) <=> <<j, x>> \in node[n].claimed
      BY <1>2 DEF Holds
    <3> QED
      BY <1>3, <2>1, <3>1, <3>2
  <2>2. CASE m # n
    BY <1>7, <2>2 DEF Holds
  <2> QED
    BY <2>1, <2>2
<1>10. ClaimsAreLive' /\ HeldByOne'
  BY <1>2, <1>9 DEF AlertInv, ClaimsAreLive, HeldByOne
<1>11. OneAtATime'
  BY <1>4, <1>7 DEF AlertInv, OneAtATime
<1>12. \A j \in Keys : LeaseShape(j)'
  BY <1>2 DEF AlertInv, LeaseShape
<1>13. ASSUME NEW j \in Keys \ {k} PROVE Counted(j)'
  <2>1. Counted(j) /\ delivered'[j] = delivered[j] /\ delivered[j] \in Nat
    BY <1>1, <1>6 DEF AlertInv
  <2>2. \A m \in Nodes, y \in BOOLEAN :
          <<<<j, job[j].lease>>, y>> \in node'[m].sent
            <=> <<<<j, job[j].lease>>, y>> \in node[m].sent
    BY <1>2, <1>4, <1>7
  <2>3. Accepted(j)' <=> Accepted(j)
    BY <1>2, <2>2 DEF Accepted
  <2>4. \A m \in Nodes : node'[m].claimed \subseteq node[m].claimed
    BY <1>7
  <2> QED
    BY <1>1, <1>2, <1>5, <2>1, <2>3, <2>4 DEF Counted
<1>14. Counted(k)'
  <2>1. Holds(n, k, l)
    BY <1>3, <1>4 DEF Holds
  <2>2. job[k].status = "sending" /\ job[k].lease = l
    BY <1>4, <2>1 DEF AlertInv, ClaimsAreLive
  <2>3. ASSUME NEW m \in Nodes, m # n PROVE ~Holds(m, k, l)
    BY <1>4, <2>1, <2>3 DEF AlertInv, HeldByOne
  <2>4. ~Accepted(k)
    BY <1>2, <2>2, <2>3 DEF Accepted, Holds
  <2>5. /\ delivered[k] <= faults /\ delivered[k] < job[k].attempts
        /\ delivered[k] \in Nat /\ job[k].attempts \in Nat
    BY <1>1, <1>3, <1>4, <2>2, <2>4 DEF AlertInv, Counted, Jobs
  <2>6. \A m \in Nodes : <<k, l>> \notin node'[m].claimed
    BY <1>4, <1>7, <2>3 DEF Holds
  <2>7. ok => Accepted(k)'
    BY <1>2, <1>3, <1>4, <1>7, <2>2 DEF Accepted
  <2>8. delivered'[k] \in Nat /\ delivered'[k] <= delivered[k] + 1
    BY <1>4, <1>6
  <2>9. delivered'[k] <= job[k].attempts /\ delivered'[k] <= 1 + faults'
    BY <1>1, <1>5, <2>5, <2>8
  <2>10. ~Accepted(k)' => delivered'[k] <= faults'
    BY <1>1, <1>5, <2>5, <2>7, <2>8
  <2> QED
    BY <1>2, <2>2, <2>6, <2>9, <2>10 DEF Counted
<1> QED
  BY <1>2, <1>8, <1>10, <1>11, <1>12, <1>13, <1>14 DEF AlertInv

\* Storing the outcome ends the lease: a sent alert stays sent, and one that
\* was not accepted is pending again with what was delivered before.
LEMMA FinishStep ==
  ASSUME AlertInv, NEW n \in Nodes, FinishZTAPIFinanceAlert(n)
  PROVE  /\ AlertInv'
         /\ source' = source
         /\ \A k \in Keys : job'[k].status = "cancelled" => job[k].status = "cancelled"
<1>1. /\ job \in [Keys -> Jobs] /\ delivered \in [Keys -> Nat]
      /\ node \in [Nodes -> NodeStates] /\ node[n] \in NodeStates /\ faults \in 0..MaxFaults
  BY DEF AlertInv, AlertTypes
<1>2. UNCHANGED <<source, delivered, faults>> /\ node' = [node EXCEPT ![n].sent = {}]
  BY DEF FinishZTAPIFinanceAlert
<1>3. PICK x \in node[n].sent :
        job' = IF job[x[1][1]].status = "sending" /\ job[x[1][1]].lease = x[1][2]
               THEN [job EXCEPT ![x[1][1]] = [@ EXCEPT !.lease = 0, !.expired = FALSE,
                       !.status = IF x[2] THEN "sent" ELSE "pending", !.due = x[2]]]
               ELSE job
  BY DEF FinishZTAPIFinanceAlert
<1> DEFINE k == x[1][1]  l == x[1][2]  ok == x[2]
<1>4. /\ k \in Keys /\ l \in Nat /\ ok \in BOOLEAN /\ x = <<<<k, l>>, ok>>
      /\ job[k] \in Jobs
  BY <1>1 DEF NodeStates, Claims
<1>5. job' = IF job[k].status = "sending" /\ job[k].lease = l
             THEN [job EXCEPT ![k] = [@ EXCEPT !.lease = 0, !.expired = FALSE,
                     !.status = IF ok THEN "sent" ELSE "pending", !.due = ok]]
             ELSE job
  BY <1>3
<1> HIDE DEF k, l, ok
<1>6. Holds(n, k, l)
  BY <1>4 DEF Holds
<1>7. job[k].status = "sending" /\ job[k].lease = l
  BY <1>4, <1>6 DEF AlertInv, ClaimsAreLive
<1>8. ASSUME NEW m \in Nodes, m # n PROVE ~Holds(m, k, l)
  BY <1>4, <1>6, <1>8 DEF AlertInv, HeldByOne
<1> DEFINE told == IF ok THEN "sent" ELSE "pending"
<1>9. /\ job' \in [Keys -> Jobs] /\ \A j \in Keys \ {k} : job'[j] = job[j]
      /\ job'[k].status = told /\ job'[k].lease = 0 /\ job'[k].expired = FALSE
      /\ job'[k].attempts = job[k].attempts
  <2>1. job' = [job EXCEPT ![k] = [@ EXCEPT !.lease = 0, !.expired = FALSE,
                                            !.status = told, !.due = ok]]
    BY <1>5, <1>7
  <2>2. told \in JobStatus
    BY DEF JobStatus
  <2> HIDE DEF told
  <2> QED
    BY <1>1, <1>4, <2>1, <2>2 DEF Jobs
<1>10. /\ node' \in [Nodes -> NodeStates] /\ \A m \in Nodes \ {n} : node'[m] = node[m]
       /\ node'[n].claimed = node[n].claimed /\ node'[n].sent = {}
  BY <1>1, <1>2 DEF NodeStates
<1>11. AlertTypes'
  BY <1>1, <1>2, <1>9, <1>10 DEF AlertTypes
<1>12. ASSUME NEW m \in Nodes, NEW j \in Keys, NEW y \in Nat, Holds(m, j, y)'
       PROVE  Holds(m, j, y) /\ j # k
  <2>1. Holds(m, j, y)
    BY <1>10, <1>12 DEF Holds
  <2>2. ASSUME j = k PROVE FALSE
    <3>1. y = l
      BY <1>4, <1>7, <2>1, <2>2 DEF AlertInv, ClaimsAreLive
    <3>2. m = n
      BY <1>8, <2>1, <2>2, <3>1
    <3>3. <<k, l>> \in node[n].claimed
      BY <1>10, <1>12, <2>2, <3>1, <3>2 DEF Holds
    <3> QED
      BY <1>4, <3>3 DEF AlertInv, OneAtATime
  <2> QED
    BY <2>1, <2>2
<1>13. ClaimsAreLive'
  <2> SUFFICES ASSUME NEW m \in Nodes, NEW j \in Keys, NEW y \in Nat, Holds(m, j, y)'
               PROVE  job'[j].status = "sending" /\ job'[j].lease = y /\ ~job'[j].expired
    BY DEF ClaimsAreLive
  <2> QED
    BY <1>9, <1>12 DEF AlertInv, ClaimsAreLive
<1>14. HeldByOne'
  BY <1>12 DEF AlertInv, HeldByOne
<1>15. OneAtATime'
  BY <1>10 DEF AlertInv, OneAtATime
<1>16. ASSUME NEW j \in Keys \ {k} PROVE LeaseShape(j)' /\ Counted(j)'
  <2>1. LeaseShape(j) /\ Counted(j) /\ job'[j] = job[j]
    BY <1>9 DEF AlertInv
  <2>2. <<<<j, job[j].lease>>, TRUE>> \notin node[n].sent
    BY <1>4 DEF AlertInv, OneAtATime
  <2>3. Accepted(j)' <=> Accepted(j)
    BY <1>10, <2>1, <2>2 DEF Accepted
  <2>4. \A m \in Nodes : node'[m].claimed = node[m].claimed
    BY <1>10
  <2> QED
    BY <1>2, <2>1, <2>3, <2>4 DEF LeaseShape, Counted
<1>17. LeaseShape(k)'
  BY <1>9 DEF LeaseShape
<1>18. Counted(k)'
  <2>1. Counted(k) /\ delivered[k] \in Nat
    BY <1>1, <1>4 DEF AlertInv
  <2>2. ASSUME Accepted(k) PROVE ok
    <3>1. PICK m \in Nodes : <<<<k, l>>, TRUE>> \in node[m].sent
      BY <1>7, <2>2 DEF Accepted
    <3>2. m = n
      BY <1>8, <3>1 DEF Holds
    <3>3. <<<<k, l>>, TRUE>> = x
      BY <3>1, <3>2 DEF AlertInv, OneAtATime
    <3> QED
      BY <3>3 DEF ok
  <2>3. told = "pending" => delivered[k] <= faults
    BY <1>4, <1>7, <2>1, <2>2 DEF Counted
  <2>4. \A m \in Nodes : <<k, job'[k].lease>> \notin node'[m].claimed
    BY <1>4, <1>9, <1>12 DEF Holds
  <2> QED
    BY <1>2, <1>9, <2>1, <2>3, <2>4 DEF Counted
<1>19. \A j \in Keys : job'[j].status = "cancelled" => job[j].status = "cancelled"
  BY <1>9
<1> QED
  BY <1>2, <1>11, <1>13, <1>14, <1>15, <1>16, <1>17, <1>18, <1>19 DEF AlertInv
-----------------------------------------------------------------------------
(***************************************************************************)
(* Time, and the invariant of every behaviour                              *)
(***************************************************************************)
\* A lease expires only when nobody holds it, and a row becomes due with its
\* claim as it was.
LEMMA TimeStep ==
  ASSUME AlertInv, NEW k \in Keys, LeaseExpires(k) \/ BecomesDue(k)
  PROVE  /\ AlertInv'
         /\ source' = source
         /\ \A j \in Keys : job'[j].status = job[j].status
<1>1. /\ job \in [Keys -> Jobs] /\ delivered \in [Keys -> Nat]
      /\ node \in [Nodes -> NodeStates] /\ faults \in 0..MaxFaults
  BY DEF AlertInv, AlertTypes
<1>2. UNCHANGED <<source, delivered, node, faults>>
  BY DEF LeaseExpires, BecomesDue
<1>3. \A n \in Nodes : node'[n].claimed = node[n].claimed /\ node'[n].sent = node[n].sent
  BY <1>2
<1>4. CASE LeaseExpires(k)
  <2>1. /\ job' = [job EXCEPT ![k].expired = TRUE]
        /\ job[k].status = "sending" /\ ~Held(k)
    BY <1>4 DEF LeaseExpires
  <2>2. /\ job' \in [Keys -> Jobs] /\ \A j \in Keys \ {k} : job'[j] = job[j]
        /\ job'[k].status = job[k].status /\ job'[k].lease = job[k].lease
        /\ job'[k].attempts = job[k].attempts
    BY <1>1, <2>1 DEF Jobs
  <2>3. AlertTypes'
    BY <1>1, <1>2, <2>2 DEF AlertTypes
  <2>4. ASSUME NEW n \in Nodes, NEW l \in Nat, Holds(n, k, l) PROVE FALSE
    <3>1. job[k].lease = l
      BY <2>4 DEF AlertInv, ClaimsAreLive
    <3>2. <<k, l>> \in node[n].claimed \cup {x[1] : x \in node[n].sent}
      <4>1. CASE <<k, l>> \in node[n].claimed
        BY <4>1
      <4>2. ASSUME NEW ok \in BOOLEAN, <<<<k, l>>, ok>> \in node[n].sent
            PROVE  <<k, l>> \in {x[1] : x \in node[n].sent}
        <5>1. <<<<k, l>>, ok>>[1] = <<k, l>>
          OBVIOUS
        <5> QED
          BY <4>2, <5>1
      <4> QED
        BY <2>4, <4>1, <4>2 DEF Holds
    <3> QED
      BY <2>1, <3>1, <3>2 DEF Held
  <2>5. delivered[k] <= faults /\ delivered[k] <= job[k].attempts
    <3>1. job[k].lease \in Nat
      BY <1>1 DEF Jobs
    <3>2. ~Accepted(k)
      BY <2>4, <3>1 DEF Accepted, Holds
    <3> QED
      BY <2>1, <3>2 DEF AlertInv, Counted
  <2>6. LeaseShape(k)'
    BY <2>1, <2>2 DEF AlertInv, LeaseShape
  <2>7. \A j \in Keys \ {k} : RowKept(j)
    BY <2>2 DEF RowKept
  <2>8. AlertInv'
    BY <1>2, <1>3, <2>2, <2>3, <2>4, <2>5, <2>6, <2>7, FreeRowStep
  <2> QED
    BY <1>2, <2>2, <2>8
<1>5. CASE BecomesDue(k)
  <2>1. job' = [job EXCEPT ![k].due = TRUE]
    BY <1>5 DEF BecomesDue
  <2>2. job' \in [Keys -> Jobs] /\ \A j \in Keys : RowKept(j)
    BY <1>1, <2>1 DEF Jobs, RowKept
  <2>3. AlertTypes'
    BY <1>1, <1>2, <2>2 DEF AlertTypes
  <2> QED
    BY <1>2, <1>3, <2>2, <2>3, QuietStep DEF RowKept
<1> QED
  BY <1>4, <1>5

\* Every step keeps the invariant, keeps a terminal source terminal, and
\* withdraws an alert only of such a source.
LEMMA AlertsStep ==
  ASSUME AlertInv, SourceTypes, [AlertNext]_alertVars
  PROVE  /\ AlertInv' /\ SourceTypes'
         /\ \A s \in Sources : source[s].status = "terminal"
                                  => source'[s].status = "terminal"
         /\ \A k \in Keys : job'[k].status = "cancelled"
                               => job[k].status = "cancelled" \/ Resolved(k)
<1>1. ASSUME UNCHANGED <<job, delivered, node, faults>> PROVE AlertInv'
  <2>1. AlertTypes'
    BY <1>1 DEF AlertInv, AlertTypes
  <2>2. /\ \A k \in Keys : RowKept(k)
        /\ \A n \in Nodes : /\ node'[n].claimed \subseteq node[n].claimed
                            /\ node'[n].sent \subseteq node[n].sent
        /\ \A n \in Nodes : node'[n].sent = node[n].sent
    BY <1>1 DEF RowKept
  <2> QED
    BY <1>1, <2>1, <2>2, QuietStep
<1>2. CASE UNCHANGED alertVars
  BY <1>1, <1>2 DEF alertVars, SourceTypes
<1>3. ASSUME NEW s \in Sources,
             Touch(s) \/ Age(s) \/ ResolveSource(s) \/ \E r \in Reasons : Park(s, r)
      PROVE  /\ AlertInv' /\ SourceTypes' /\ job' = job
             /\ \A x \in Sources : source[x].status = "terminal"
                                      => source'[x].status = "terminal"
  BY <1>1, <1>3, SourceStep
<1>4. ASSUME NEW n \in Nodes,
             Tick(n) \/ QueueFails(n) \/ ClaimFails(n) \/ SendFails(n)
               \/ FinishFails(n) \/ CutOff(n)
      PROVE  /\ AlertInv' /\ source' = source
             /\ \A k \in Keys : job'[k].status = "cancelled"
                                   => job[k].status = "cancelled" \/ Resolved(k)
  <2>1. CASE QueueAlert(n)
    BY <2>1, QueueStep DEF QueueAlert
  <2>2. CASE ClaimAlert(n)
    BY <2>2, ClaimStep DEF ClaimAlert
  <2>3. CASE SendAlert(n) \/ SendFails(n)
    BY <2>3, SendStep
  <2>4. CASE FinishZTAPIFinanceAlert(n)
    BY <2>4, FinishStep
  <2>5. CASE \/ ScanSources(n) \/ QueueFails(n) \/ SelectCandidates(n) \/ ClaimFails(n)
             \/ StartSending(n) \/ FinishFails(n) \/ EndTick(n) \/ CutOff(n)
    BY <2>5, QuietActions
  <2> QED
    BY <1>4, <2>1, <2>2, <2>3, <2>4, <2>5 DEF Tick
<1>5. ASSUME NEW k \in Keys, LeaseExpires(k) \/ BecomesDue(k)
      PROVE  /\ AlertInv' /\ source' = source
             /\ \A j \in Keys : job'[j].status = job[j].status
  BY <1>5, TimeStep
<1>6. source' = source => SourceTypes'
  BY DEF SourceTypes
<1>7. CASE AlertNext
  BY <1>3, <1>4, <1>5, <1>6, <1>7 DEF AlertNext
<1> QED
  BY <1>2, <1>7 DEF alertVars

\* The invariant holds in every behaviour.
LEMMA AlertsAlways ==
  AlertSpec => [](AlertInv /\ SourceTypes)
<1>1. AlertInit => AlertInv /\ SourceTypes
  BY AlertInvStarts
<1>2. AlertInv /\ SourceTypes /\ [AlertNext]_alertVars => (AlertInv /\ SourceTypes)'
  BY AlertsStep
<1> QED
  BY <1>1, <1>2, PTL DEF AlertSpec

\* Telegram takes an alert at most once more than calls failed or ticks were
\* cut off, and two nodes never hold one alert to send: a lease that can be
\* taken again is held by nobody (ClaimZTAPIFinanceAlerts,
\* FinishZTAPIFinanceAlert).
THEOREM AlertsAreSentOnce == AlertSpec => []SentOnce
<1>1. AlertInv => OneClaimant
  <2> SUFFICES ASSUME AlertInv, NEW m \in Nodes, NEW n \in Nodes, NEW k \in Keys,
                      NEW c \in node[m].claimed, NEW d \in node[n].claimed,
                      c[1] = k, d[1] = k
               PROVE  m = n
    BY DEF OneClaimant
  <2>1. c \in Keys \X Nat /\ d \in Keys \X Nat
    BY DEF AlertInv, AlertTypes, NodeStates, Claims
  <2>2. c = <<k, c[2]>> /\ d = <<k, d[2]>> /\ c[2] \in Nat /\ d[2] \in Nat
    BY <2>1
  <2>3. Holds(m, k, c[2]) /\ Holds(n, k, d[2])
    BY <2>2 DEF Holds
  <2>4. c[2] = d[2]
    BY <2>2, <2>3 DEF AlertInv, ClaimsAreLive
  <2> QED
    BY <2>2, <2>3, <2>4 DEF AlertInv, HeldByOne
<1>2. AlertInv => SentOnce
  BY <1>1 DEF AlertInv, Counted, SentOnce
<1> QED
  BY <1>2, AlertsAlways, PTL

\* An alert is withdrawn only when its source has been seen settled or
\* released, which it then stays (ztapiFinanceValidateSource).
THEOREM WithdrawnIsResolved == AlertSpec => []CancelledIsResolved
<1>1. AlertInit => CancelledIsResolved
  BY DEF AlertInit, NoJob, CancelledIsResolved
<1>2. AlertInv /\ SourceTypes /\ CancelledIsResolved /\ [AlertNext]_alertVars
        => CancelledIsResolved'
  <2> SUFFICES ASSUME AlertInv, SourceTypes, CancelledIsResolved, [AlertNext]_alertVars,
                      NEW k \in Keys, job'[k].status = "cancelled"
               PROVE  Resolved(k)'
    BY DEF CancelledIsResolved
  <2>1. Resolved(k)
    BY AlertsStep DEF CancelledIsResolved
  <2>2. k[1] \in Sources
    BY DEF Keys
  <2> QED
    BY <2>1, <2>2, AlertsStep DEF Resolved
<1> QED
  BY <1>1, <1>2, AlertsAlways, PTL DEF AlertSpec

\* Statuses and leases agree: a row has a lease exactly while it is being
\* sent, a source a reason exactly while it is pending.
THEOREM AlertTypeCorrect == AlertSpec => []FinanceAlertsTypeOK
<1>1. AlertInv /\ SourceTypes => FinanceAlertsTypeOK
  <2> SUFFICES ASSUME AlertInv, SourceTypes PROVE FinanceAlertsTypeOK
    OBVIOUS
  <2>1. ASSUME NEW s \in Sources
        PROVE  /\ source[s].status \in {"reserved", "pending", "terminal"}
               /\ source[s].reason \in Reasons \cup {NoReason}
               /\ (source[s].status = "pending") = (source[s].reason # NoReason)
    BY DEF SourceTypes, SourceStates
  <2>2. ASSUME NEW k \in Keys
        PROVE  /\ job[k].status \in {"none", "pending", "sending", "sent", "cancelled"}
               /\ (job[k].lease # 0) = (job[k].status = "sending")
               /\ job[k].lease \in {0, job[k].attempts}
               /\ delivered[k] <= job[k].attempts
    <3>1. job[k] \in Jobs
      BY DEF AlertInv, AlertTypes
    <3> QED
      BY <3>1 DEF AlertInv, LeaseShape, Counted, Jobs, JobStatus
  <2>3. faults \in 0..MaxFaults
    BY DEF AlertInv, AlertTypes
  <2> QED
    BY <2>1, <2>2, <2>3 DEF FinanceAlertsTypeOK
<1> QED
  BY <1>1, AlertsAlways, PTL

-----------------------------------------------------------------------------
(***************************************************************************)
(* The settlement log                                                      *)
(***************************************************************************)
WorkerStates ==
  [pc : {"idle", "finalize", "select", "deliver", "ack", "failed", "returned"},
   jobs : SUBSET Nat, log : Nat]

LogTypes ==
  /\ logIntent \in [Ops -> {"none", "open", "done"}]
  /\ queue \in Seq(Ops) /\ inserted \in Seq(Ops)
  /\ acked \in [Ops -> Nat] /\ receipt \in [Ops -> Nat]
  /\ logs \subseteq DOMAIN inserted
  /\ channel \in {"present", "deleted"}
  /\ logWorker \in [Workers -> WorkerStates]
  /\ logFaults \in 0..MaxLogFaults

\* A receipt names a log of its operation, and each log is on its receipt.
ReceiptsNameLogs ==
  /\ \A o \in Ops : receipt[o] # 0 => receipt[o] \in DOMAIN inserted
                                      /\ inserted[receipt[o]] = o
  /\ \A i \in DOMAIN inserted : receipt[inserted[i]] = i

AcksAreReceipts == \A o \in Ops : acked[o] # 0 => acked[o] = receipt[o]

\* What a pass still has to do is queued, and what it is about to acknowledge
\* is on the receipt.
PassFits(w) ==
  /\ logWorker[w].jobs \subseteq DOMAIN queue
  /\ logWorker[w].log \in 0..Len(inserted)
  /\ logWorker[w].pc = "ack" => /\ logWorker[w].jobs # {} /\ logWorker[w].log # 0
                                /\ logWorker[w].log = receipt[Job(w)]

LogInv ==
  /\ LogTypes
  /\ ReceiptsNameLogs /\ AcksAreReceipts /\ CompletedIsQueued
  /\ \A w \in Workers : PassFits(w)

\* Nothing is settled, logged or under way at the start.
LEMMA LogInvStarts ==
  ASSUME LogInit PROVE LogInv
<1>1. NoPass \in WorkerStates
  BY DEF NoPass, WorkerStates
<1>2. LogTypes
  BY <1>1, SettlementLogAssumption DEF LogInit, LogTypes
<1>3. Len(inserted) = 0 /\ inserted = <<>> /\ queue = <<>>
  BY DEF LogInit
<1>4. ReceiptsNameLogs /\ AcksAreReceipts /\ CompletedIsQueued
  BY <1>3 DEF LogInit, ReceiptsNameLogs, AcksAreReceipts, CompletedIsQueued
<1>5. \A w \in Workers : PassFits(w)
  BY <1>3 DEF LogInit, NoPass, PassFits
<1> QED
  BY <1>2, <1>4, <1>5 DEF LogInv

\* The next row of a pass is one of its rows, and names an operation.
LEMMA NextRowIsQueued ==
  ASSUME LogTypes, NEW w \in Workers, logWorker[w].jobs \subseteq DOMAIN queue,
         logWorker[w].jobs # {}
  PROVE  Min(logWorker[w].jobs) \in logWorker[w].jobs /\ Job(w) \in Ops
<1> DEFINE rows == logWorker[w].jobs
<1>1. rows \in SUBSET Nat /\ rows # {}
  BY DEF LogTypes, WorkerStates
<1> HIDE DEF rows
<1>2. PICK m \in rows : \A k \in rows : m <= k
  BY <1>1, LeastNatural
<1>3. Min(rows) \in rows
  BY <1>2 DEF Min
<1>4. Min(rows) \in DOMAIN queue
  BY <1>3 DEF rows
<1>5. queue[Min(rows)] \in Ops
  BY <1>4 DEF LogTypes
<1> QED
  BY <1>3, <1>5 DEF rows, Job

\* An operation that is queued joins the others, which keep their places.
LEMMA EnqueueStep ==
  ASSUME LogTypes, CompletedIsQueued, NEW o \in Ops, EnqueueZTAPISettlementLogTx(o),
         logIntent' = [logIntent EXCEPT ![o] = "done"]
  PROVE  /\ queue' \in Seq(Ops) /\ DOMAIN queue \subseteq DOMAIN queue'
         /\ \A i \in DOMAIN queue : queue'[i] = queue[i]
         /\ logIntent' \in [Ops -> {"none", "open", "done"}]
         /\ CompletedIsQueued'
<1>1. queue \in Seq(Ops) /\ queue' = Append(queue, o)
      /\ logIntent \in [Ops -> {"none", "open", "done"}]
  BY DEF LogTypes, EnqueueZTAPISettlementLogTx
<1>2. /\ queue' \in Seq(Ops) /\ DOMAIN queue \subseteq DOMAIN queue'
      /\ \A i \in DOMAIN queue : queue'[i] = queue[i]
      /\ Len(queue) + 1 \in DOMAIN queue' /\ queue'[Len(queue) + 1] = o
  BY <1>1
<1>3. logIntent' \in [Ops -> {"none", "open", "done"}]
  BY <1>1
<1>4. ASSUME NEW x \in Ops, logIntent'[x] = "done" PROVE x \in Range(queue')
  <2>1. CASE x = o
    BY <1>2, <2>1 DEF Range
  <2>2. CASE x # o
    <3>1. x \in Range(queue)
      BY <1>1, <1>4, <2>2 DEF CompletedIsQueued, Settled
    <3> QED
      BY <1>2, <3>1 DEF Range
  <2> QED
    BY <2>1, <2>2
<1> QED
  BY <1>2, <1>3, <1>4 DEF CompletedIsQueued, Settled

\* The outbox only grows, and a receipt once written stays.
TablesGrow ==
  /\ DOMAIN queue \subseteq DOMAIN queue'
  /\ \A i \in DOMAIN queue : queue'[i] = queue[i]
  /\ 0..Len(inserted) \subseteq 0..Len(inserted')
  /\ \A o \in Ops : receipt[o] # 0 => receipt'[o] = receipt[o]

\* A pass that a step does not touch still fits the tables it left.
LEMMA UntouchedPassesFit ==
  ASSUME LogInv, TablesGrow, NEW x \in Workers, logWorker'[x] = logWorker[x]
  PROVE  PassFits(x)'
<1> DEFINE p == logWorker[x]
<1>1. /\ LogTypes /\ PassFits(x)
  BY DEF LogInv
<1>2. /\ p.jobs \subseteq DOMAIN queue' /\ p.log \in 0..Len(inserted')
  BY <1>1 DEF PassFits, TablesGrow
<1>3. ASSUME p.pc = "ack"
      PROVE  p.jobs # {} /\ p.log # 0 /\ p.log = receipt'[queue'[Min(p.jobs)]]
  <2>1. p.jobs # {} /\ p.log # 0 /\ p.log = receipt[Job(x)]
    BY <1>1, <1>3 DEF PassFits
  <2>2. Min(p.jobs) \in p.jobs /\ Job(x) \in Ops
    BY <1>1, <2>1, NextRowIsQueued DEF PassFits
  <2>3. queue'[Min(p.jobs)] = Job(x)
    BY <1>1, <2>2 DEF PassFits, TablesGrow, Job
  <2> QED
    BY <2>1, <2>2, <2>3 DEF TablesGrow
<1> QED
  BY <1>2, <1>3 DEF PassFits, Job

\* A step of one pass that leaves the tables alone and does not make it
\* acknowledge anything.
LEMMA QuietPassStep ==
  ASSUME LogInv, NEW w \in Workers, logWorker' \in [Workers -> WorkerStates],
         \A x \in Workers \ {w} : logWorker'[x] = logWorker[x],
         logWorker'[w].jobs \subseteq DOMAIN queue,
         logWorker'[w].log \in 0..Len(inserted), logWorker'[w].pc # "ack",
         UNCHANGED <<queue, acked, receipt, inserted, logs>>,
         logIntent' \in [Ops -> {"none", "open", "done"}],
         \A o \in Ops : logIntent'[o] = "done" => logIntent[o] = "done",
         channel' = channel, logFaults' \in 0..MaxLogFaults
  PROVE  LogInv'
<1>1. LogTypes /\ LogTypes'
  BY DEF LogInv, LogTypes
<1>2. ReceiptsNameLogs' /\ AcksAreReceipts'
  BY DEF LogInv, ReceiptsNameLogs, AcksAreReceipts
<1>3. CompletedIsQueued'
  BY DEF LogInv, CompletedIsQueued, Settled
<1>4. TablesGrow
  BY <1>1 DEF TablesGrow
<1>5. ASSUME NEW x \in Workers PROVE PassFits(x)'
  <2>1. CASE x = w
    BY <1>1, <2>1 DEF LogTypes, PassFits
  <2>2. CASE x # w
    BY <1>1, <1>4, <2>2, UntouchedPassesFit DEF LogTypes
  <2> QED
    BY <2>1, <2>2
<1> QED
  BY <1>1, <1>2, <1>3, <1>5 DEF LogInv

\* What a pass is, as far as the steps below need to know.
LEMMA PassShape ==
  ASSUME LogInv, NEW w \in Workers
  PROVE  /\ logWorker \in [Workers -> WorkerStates] /\ logWorker[w] \in WorkerStates
         /\ logWorker[w].jobs \subseteq DOMAIN queue
         /\ logWorker[w].log \in 0..Len(inserted) /\ Len(inserted) \in Nat
         /\ logIntent \in [Ops -> {"none", "open", "done"}]
         /\ logFaults \in 0..MaxLogFaults
         /\ LogFault => logFaults' \in 0..MaxLogFaults
BY SettlementLogAssumption DEF LogInv, LogTypes, PassFits, LogFault

\* Starting, failing, giving up or ending a pass changes no table.
LEMMA PassControlStep ==
  ASSUME LogInv, NEW w \in Workers,
         \/ w \in Ops /\ (RecordIntent(w) \/ FinalizeFails(w))
         \/ FinishPass(w) \/ Crash(w)
  PROVE  LogInv'
<1>1. /\ logWorker \in [Workers -> WorkerStates] /\ logWorker[w] \in WorkerStates
      /\ logWorker[w].jobs \subseteq DOMAIN queue
      /\ logWorker[w].log \in 0..Len(inserted) /\ Len(inserted) \in Nat
      /\ logIntent \in [Ops -> {"none", "open", "done"}]
      /\ logFaults \in 0..MaxLogFaults
      /\ LogFault => logFaults' \in 0..MaxLogFaults
  BY PassShape
<1>2. /\ logWorker' \in [Workers -> WorkerStates]
      /\ \A x \in Workers \ {w} : logWorker'[x] = logWorker[x]
      /\ logWorker'[w].jobs \in {logWorker[w].jobs, {}}
      /\ logWorker'[w].log \in {logWorker[w].log, 0}
      /\ logWorker'[w].pc # "ack"
  <2>1. CASE w \in Ops /\ (RecordIntent(w) \/ FinalizeFails(w))
    BY <1>1, <2>1 DEF RecordIntent, FinalizeFails, WorkerStates
  <2>2. CASE FinishPass(w) \/ Crash(w)
    <3>1. PICK p \in {NoPass, [NoPass EXCEPT !.pc = "failed"],
                      [NoPass EXCEPT !.pc = "returned"]} :
             logWorker' = [logWorker EXCEPT ![w] = p]
      BY <2>2 DEF FinishPass, Crash
    <3>2. p \in WorkerStates /\ p.pc # "ack" /\ p.jobs = {} /\ p.log = 0
      BY DEF NoPass, WorkerStates
    <3> QED
      BY <1>1, <3>1, <3>2
  <2> QED
    BY <2>1, <2>2
<1>3. UNCHANGED <<queue, acked, receipt, inserted, logs, channel>>
  BY DEF RecordIntent, FinalizeFails, FinishPass, Crash
<1>4. logFaults' \in 0..MaxLogFaults
  BY <1>1 DEF RecordIntent, FinalizeFails, FinishPass, Crash
<1>5. /\ logIntent' \in [Ops -> {"none", "open", "done"}]
      /\ \A o \in Ops : logIntent'[o] = "done" => logIntent[o] = "done"
  BY <1>1 DEF RecordIntent, FinalizeFails, FinishPass, Crash
<1> QED
  BY <1>1, <1>2, <1>3, <1>4, <1>5, QuietPassStep

\* Reading the oldest rows, or going on with the next one, keeps within the
\* queue.
LEMMA PassReadStep ==
  ASSUME LogInv, NEW w \in Workers,
         SelectJobs(w) \/ DeliverFails(w) \/ AcknowledgeFails(w)
  PROVE  LogInv'
<1>1. /\ logWorker \in [Workers -> WorkerStates] /\ logWorker[w] \in WorkerStates
      /\ logWorker[w].jobs \subseteq DOMAIN queue
      /\ logWorker[w].log \in 0..Len(inserted) /\ Len(inserted) \in Nat
      /\ logIntent \in [Ops -> {"none", "open", "done"}]
      /\ logFaults \in 0..MaxLogFaults
      /\ LogFault => logFaults' \in 0..MaxLogFaults
  BY PassShape
<1>2. DOMAIN queue \in SUBSET Nat
  BY DEF LogInv, LogTypes
<1>3. NextJob(w) \in WorkerStates /\ NextJob(w).jobs \subseteq logWorker[w].jobs
      /\ NextJob(w).log = 0 /\ NextJob(w).pc = "deliver"
  BY <1>1 DEF NextJob, WorkerStates
<1>4. Oldest(Undelivered, Limit(w)) \subseteq DOMAIN queue
  BY DEF Oldest, Undelivered
<1>5. /\ logWorker' \in [Workers -> WorkerStates]
      /\ \A x \in Workers \ {w} : logWorker'[x] = logWorker[x]
      /\ logWorker'[w].jobs \subseteq DOMAIN queue
      /\ logWorker'[w].log \in 0..Len(inserted)
      /\ logWorker'[w].pc # "ack"
  <2>1. CASE SelectJobs(w)
    BY <1>1, <1>2, <1>4, <2>1 DEF SelectJobs, WorkerStates
  <2>2. CASE DeliverFails(w) \/ AcknowledgeFails(w)
    <3>1. logWorker' = [logWorker EXCEPT ![w] = NextJob(w)]
      BY <2>2 DEF DeliverFails, AcknowledgeFails
    <3> QED
      BY <1>1, <1>3, <3>1
  <2> QED
    BY <2>1, <2>2
<1>6. UNCHANGED <<queue, acked, receipt, inserted, logs, channel, logIntent>>
  BY DEF SelectJobs, DeliverFails, AcknowledgeFails
<1>7. logFaults' \in 0..MaxLogFaults
  BY <1>1 DEF SelectJobs, DeliverFails, AcknowledgeFails
<1> QED
  BY <1>1, <1>5, <1>6, <1>7, QuietPassStep

\* A settlement queues its operation, whoever makes it.
LEMMA SettleStep ==
  ASSUME LogInv, NEW o \in Ops, NEW w \in Workers,
         Finalize(o) \/ (w \in Maintainers /\ RetryZTAPISettlementFinalizations(w, o))
  PROVE  LogInv'
<1>1. /\ LogTypes /\ CompletedIsQueued /\ o \in Workers
      /\ logWorker \in [Workers -> WorkerStates] /\ logWorker[o] \in WorkerStates
      /\ logFaults \in 0..MaxLogFaults
      /\ logWorker[o].jobs \subseteq DOMAIN queue
      /\ logWorker[o].log \in 0..Len(inserted)
  BY PassShape DEF LogInv, Workers
<1>2. UNCHANGED <<acked, receipt, inserted, logs, channel, logFaults>>
  BY DEF Finalize, RetryZTAPISettlementFinalizations
<1>3. /\ logWorker' \in [Workers -> WorkerStates]
      /\ \A x \in Workers : \/ logWorker'[x] = logWorker[x]
                            \/ /\ x = o /\ logWorker'[o].pc = "select"
                               /\ logWorker'[o].jobs = logWorker[o].jobs
                               /\ logWorker'[o].log = logWorker[o].log
  BY <1>1 DEF Finalize, RetryZTAPISettlementFinalizations, WorkerStates
<1>4. /\ queue' \in Seq(Ops) /\ DOMAIN queue \subseteq DOMAIN queue'
      /\ \A i \in DOMAIN queue : queue'[i] = queue[i]
      /\ logIntent' \in [Ops -> {"none", "open", "done"}]
      /\ CompletedIsQueued'
  <2>1. CASE UNCHANGED <<logIntent, queue>>
    BY <1>1, <2>1 DEF LogTypes, CompletedIsQueued, Settled
  <2>2. CASE ~UNCHANGED <<logIntent, queue>>
    <3>1. EnqueueZTAPISettlementLogTx(o) /\ logIntent' = [logIntent EXCEPT ![o] = "done"]
      BY <2>2 DEF Finalize, RetryZTAPISettlementFinalizations
    <3> QED
      BY <1>1, <3>1, EnqueueStep
  <2> QED
    BY <2>1, <2>2
<1>5. TablesGrow
  BY <1>2, <1>4 DEF TablesGrow
<1>6. LogTypes'
  BY <1>1, <1>2, <1>3, <1>4 DEF LogTypes
<1>7. ReceiptsNameLogs' /\ AcksAreReceipts'
  BY <1>2 DEF LogInv, ReceiptsNameLogs, AcksAreReceipts
<1>8. ASSUME NEW x \in Workers PROVE PassFits(x)'
  <2>1. CASE logWorker'[x] = logWorker[x]
    BY <1>5, <2>1, UntouchedPassesFit
  <2>2. CASE logWorker'[x] # logWorker[x]
    <3>1. x = o /\ logWorker'[x].pc = "select" /\ logWorker'[x].jobs = logWorker[o].jobs
          /\ logWorker'[x].log = logWorker[o].log
      BY <1>3, <2>2
    <3> QED
      BY <1>1, <1>2, <1>4, <3>1 DEF PassFits
  <2> QED
    BY <2>1, <2>2
<1> QED
  BY <1>4, <1>6, <1>7, <1>8 DEF LogInv
\* The pass that delivered its row may acknowledge the log on the receipt,
\* which is the one it found or the one it has just inserted.
LEMMA DeliverStep ==
  ASSUME LogInv, NEW w \in Workers, DeliverZTAPISettlementLog(w)
  PROVE  LogInv'
<1> DEFINE o == Job(w)
           id == Len(inserted) + 1
<1>1. /\ LogTypes /\ ReceiptsNameLogs /\ AcksAreReceipts /\ CompletedIsQueued
      /\ logWorker \in [Workers -> WorkerStates] /\ logWorker[w] \in WorkerStates
      /\ logWorker[w].jobs \subseteq DOMAIN queue /\ logWorker[w].jobs # {}
  BY PassShape DEF LogInv, DeliverZTAPISettlementLog
<1>2. Min(logWorker[w].jobs) \in logWorker[w].jobs /\ o \in Ops
  BY <1>1, NextRowIsQueued
<1>3. UNCHANGED <<logIntent, queue, acked, channel, logFaults>>
  BY DEF DeliverZTAPISettlementLog
<1>4. PICK l \in Nat :
        /\ logWorker' = [logWorker EXCEPT ![w].pc = "ack", ![w].log = l]
        /\ l # 0
        /\ \/ receipt[o] # 0 /\ l = receipt[o] /\ UNCHANGED <<inserted, logs, receipt>>
           \/ receipt[o] = 0 /\ l = id
              /\ inserted' = Append(inserted, o) /\ logs' = logs \cup {id}
              /\ receipt' = [receipt EXCEPT ![o] = id]
  <2>1. receipt[o] \in Nat /\ id \in Nat /\ id # 0
    BY <1>1, <1>2 DEF LogTypes
  <2>2. CASE receipt[o] > 0
    BY <2>1, <2>2 DEF DeliverZTAPISettlementLog
  <2>3. CASE receipt[o] = 0
    BY <2>1, <2>3 DEF DeliverZTAPISettlementLog
  <2> QED
    BY <2>1, <2>2, <2>3
<1>5. /\ logWorker' \in [Workers -> WorkerStates]
      /\ \A x \in Workers \ {w} : logWorker'[x] = logWorker[x]
      /\ logWorker'[w].pc = "ack" /\ logWorker'[w].log = l
      /\ logWorker'[w].jobs = logWorker[w].jobs
  BY <1>1, <1>4 DEF WorkerStates
<1> HIDE DEF o
<1>6. /\ inserted' \in Seq(Ops) /\ receipt' \in [Ops -> Nat]
      /\ DOMAIN inserted \subseteq DOMAIN inserted' /\ logs' \subseteq DOMAIN inserted'
      /\ 0..Len(inserted) \subseteq 0..Len(inserted')
      /\ \A x \in Ops : receipt[x] # 0 => receipt'[x] = receipt[x]
      /\ receipt'[o] = l /\ l \in 0..Len(inserted')
  <2>0. /\ inserted \in Seq(Ops) /\ receipt \in [Ops -> Nat]
        /\ logs \subseteq DOMAIN inserted /\ id \in Nat
        /\ Len(inserted) \in Nat /\ DOMAIN inserted = 1..Len(inserted)
    BY <1>1 DEF LogTypes
  <2>1. CASE receipt[o] # 0
    <3>1. l = receipt[o] /\ UNCHANGED <<inserted, logs, receipt>>
      BY <1>4, <2>1
    <3>2. receipt[o] \in DOMAIN inserted
      BY <1>1, <1>2, <2>1 DEF ReceiptsNameLogs
    <3>3. receipt[o] \in 0..Len(inserted)
      BY <2>0, <3>2
    <3> QED
      BY <2>0, <3>1, <3>3
  <2>2. CASE receipt[o] = 0
    <3>1. /\ inserted' = Append(inserted, o) /\ logs' = logs \cup {id}
          /\ receipt' = [receipt EXCEPT ![o] = id] /\ l = id
      BY <1>4, <2>2
    <3>2. /\ inserted' \in Seq(Ops) /\ Len(inserted') = id
          /\ DOMAIN inserted' = 1..id
      BY <1>2, <2>0, <3>1
    <3>3. /\ receipt' \in [Ops -> Nat] /\ receipt'[o] = id
          /\ \A x \in Ops \ {o} : receipt'[x] = receipt[x]
      BY <1>2, <2>0, <3>1
    <3>4. /\ DOMAIN inserted \subseteq DOMAIN inserted' /\ logs' \subseteq DOMAIN inserted'
          /\ 0..Len(inserted) \subseteq 0..Len(inserted') /\ l \in 0..Len(inserted')
      BY <2>0, <3>1, <3>2
    <3> QED
      BY <2>2, <3>1, <3>2, <3>3, <3>4
  <2> QED
    BY <2>1, <2>2
<1>7. ReceiptsNameLogs'
  <2>1. CASE receipt[o] # 0
    BY <1>1, <1>4, <2>1 DEF ReceiptsNameLogs
  <2>2. CASE receipt[o] = 0
    <3>1. /\ inserted \in Seq(Ops) /\ receipt \in [Ops -> Nat]
          /\ inserted' = Append(inserted, o) /\ receipt' = [receipt EXCEPT ![o] = id]
      BY <1>1, <1>4, <2>2 DEF LogTypes
    <3>2. \A i \in DOMAIN inserted : inserted[i] \in Ops /\ inserted[i] # o
      BY <1>1, <2>2, <3>1 DEF ReceiptsNameLogs
    <3>3. \A x \in Ops : receipt'[x] # 0 => receipt'[x] \in DOMAIN inserted'
                                            /\ inserted'[receipt'[x]] = x
      BY <1>1, <1>2, <3>1 DEF ReceiptsNameLogs
    <3>4. \A i \in DOMAIN inserted' : receipt'[inserted'[i]] = i
      BY <1>1, <1>2, <3>1, <3>2 DEF ReceiptsNameLogs
    <3> QED
      BY <3>3, <3>4 DEF ReceiptsNameLogs
  <2> QED
    BY <2>1, <2>2
<1>8. LogTypes'
  BY <1>1, <1>3, <1>5, <1>6 DEF LogTypes
<1>9. TablesGrow
  BY <1>3, <1>6 DEF TablesGrow
<1>10. AcksAreReceipts'
  BY <1>1, <1>3, <1>6 DEF AcksAreReceipts
<1>11. CompletedIsQueued'
  BY <1>1, <1>3 DEF CompletedIsQueued, Settled
<1>12. ASSUME NEW x \in Workers PROVE PassFits(x)'
  <2>1. CASE x = w
    BY <1>1, <1>3, <1>4, <1>5, <1>6, <2>1 DEF PassFits, Job, o
  <2>2. CASE x # w
    BY <1>5, <1>9, <2>2, UntouchedPassesFit
  <2> QED
    BY <2>1, <2>2
<1> QED
  BY <1>7, <1>8, <1>10, <1>11, <1>12 DEF LogInv

\* The acknowledgement stores the log that is on the receipt.
LEMMA AcknowledgeStep ==
  ASSUME LogInv, NEW w \in Workers, Acknowledge(w)
  PROVE  LogInv'
<1>1. /\ LogTypes /\ ReceiptsNameLogs /\ AcksAreReceipts /\ CompletedIsQueued
      /\ logWorker \in [Workers -> WorkerStates] /\ logWorker[w] \in WorkerStates
      /\ logWorker[w].jobs \subseteq DOMAIN queue /\ logWorker[w].jobs # {}
      /\ logWorker[w].log = receipt[Job(w)] /\ PassFits(w) /\ logWorker[w].log \in Nat
  BY PassShape DEF LogInv, Acknowledge, PassFits, WorkerStates
<1>2. Job(w) \in Ops
  BY <1>1, NextRowIsQueued
<1>3. UNCHANGED <<logIntent, queue, receipt, inserted, logs, channel, logFaults>>
      /\ logWorker' = [logWorker EXCEPT ![w] = NextJob(w)]
  BY DEF Acknowledge
<1>4. acked' \in [Ops -> Nat] /\ AcksAreReceipts'
  <2>1. acked \in [Ops -> Nat]
    BY <1>1 DEF LogTypes
  <2>2. CASE acked[Job(w)] = 0
    BY <1>1, <1>2, <1>3, <2>1, <2>2 DEF Acknowledge, AcksAreReceipts
  <2>3. CASE acked[Job(w)] # 0
    BY <1>1, <1>2, <1>3, <2>1, <2>3 DEF Acknowledge, AcksAreReceipts
  <2> QED
    BY <2>2, <2>3
<1>5. NextJob(w) \in WorkerStates /\ NextJob(w).jobs \subseteq logWorker[w].jobs
      /\ NextJob(w).log = 0 /\ NextJob(w).pc = "deliver"
  BY <1>1 DEF NextJob, WorkerStates
<1>6. logWorker' \in [Workers -> WorkerStates]
      /\ logWorker'[w] = NextJob(w)
      /\ \A x \in Workers \ {w} : logWorker'[x] = logWorker[x]
  BY <1>1, <1>3, <1>5
<1>7. LogTypes'
  BY <1>1, <1>3, <1>4, <1>6 DEF LogTypes
<1>8. TablesGrow
  BY <1>1, <1>3 DEF TablesGrow
<1>9. ReceiptsNameLogs' /\ CompletedIsQueued'
  BY <1>1, <1>3 DEF ReceiptsNameLogs, CompletedIsQueued, Settled
<1>10. ASSUME NEW x \in Workers PROVE PassFits(x)'
  <2>1. CASE x = w
    <3>1. /\ logWorker'[x].jobs \subseteq DOMAIN queue' /\ logWorker'[x].pc # "ack"
      BY <1>1, <1>3, <1>5, <1>6, <2>1
    <3>2. logWorker'[x].log \in 0..Len(inserted')
      <4>1. logWorker'[x].log = 0 /\ Len(inserted') \in Nat
        BY <1>5, <1>6, <1>7, <2>1 DEF LogTypes
      <4> QED
        BY <4>1
    <3> QED
      BY <3>1, <3>2 DEF PassFits
  <2>2. CASE x # w
    BY <1>6, <1>8, <2>2, UntouchedPassesFit
  <2> QED
    BY <2>1, <2>2
<1> QED
  BY <1>4, <1>7, <1>9, <1>10 DEF LogInv

\* Log retention and the deletion of a channel reach no pass.
LEMMA RetentionStep ==
  ASSUME LogInv, DeleteChannel \/ \E id \in logs : DeleteOldLog(id)
  PROVE  LogInv'
<1>1. /\ UNCHANGED <<logIntent, queue, acked, receipt, inserted, logWorker, logFaults>>
      /\ logs' \subseteq logs /\ channel' \in {channel, "deleted"}
  BY DEF DeleteChannel, DeleteOldLog
<1>2. LogTypes' /\ TablesGrow
  BY <1>1 DEF LogInv, LogTypes, TablesGrow
<1>3. ReceiptsNameLogs' /\ AcksAreReceipts' /\ CompletedIsQueued'
  BY <1>1 DEF LogInv, ReceiptsNameLogs, AcksAreReceipts, CompletedIsQueued, Settled
<1>4. \A x \in Workers : PassFits(x)'
  BY <1>1, <1>2, UntouchedPassesFit
<1> QED
  BY <1>2, <1>3, <1>4 DEF LogInv

\* The invariant of the settlement log.
LEMMA LogAlways == LogSpec => []LogInv
<1>1. ASSUME LogInv, [LogNext]_logVars PROVE LogInv'
  <2>1. CASE LogNext
    <3>1. CASE \E o \in Ops : RecordIntent(o) \/ FinalizeFails(o)
      BY <1>1, <3>1, PassControlStep DEF Workers
    <3>2. CASE \E o \in Ops : Finalize(o)
      BY <1>1, <3>2, SettleStep DEF Workers
    <3>3. CASE \E m \in Maintainers, o \in Ops : RetryZTAPISettlementFinalizations(m, o)
      BY <1>1, <3>3, SettleStep DEF Workers
    <3>4. ASSUME NEW w \in Workers, Pass(w) \/ Crash(w) PROVE LogInv'
      <4>1. CASE SelectJobs(w) \/ DeliverFails(w) \/ AcknowledgeFails(w)
        BY <1>1, <4>1, PassReadStep
      <4>2. CASE DeliverZTAPISettlementLog(w)
        BY <1>1, <4>2, DeliverStep
      <4>3. CASE Acknowledge(w)
        BY <1>1, <4>3, AcknowledgeStep
      <4>4. CASE FinishPass(w) \/ Crash(w)
        BY <1>1, <4>4, PassControlStep
      <4> QED
        BY <3>4, <4>1, <4>2, <4>3, <4>4 DEF Pass
    <3>5. CASE DeleteChannel \/ \E id \in logs : DeleteOldLog(id)
      BY <1>1, <3>5, RetentionStep
    <3> QED
      BY <2>1, <3>1, <3>2, <3>3, <3>4, <3>5 DEF LogNext
  <2>2. CASE UNCHANGED logVars
    <3>1. UNCHANGED <<logIntent, queue, acked, receipt, inserted, logs, channel,
                      logWorker, logFaults>>
      BY <2>2 DEF logVars
    <3>2. LogTypes' /\ TablesGrow
      BY <1>1, <3>1 DEF LogInv, LogTypes, TablesGrow
    <3>3. ReceiptsNameLogs' /\ AcksAreReceipts' /\ CompletedIsQueued'
      BY <1>1, <3>1 DEF LogInv, ReceiptsNameLogs, AcksAreReceipts, CompletedIsQueued,
                        Settled
    <3>4. \A x \in Workers : PassFits(x)'
      BY <1>1, <3>1, <3>2, UntouchedPassesFit
    <3> QED
      BY <3>2, <3>3, <3>4 DEF LogInv
  <2> QED
    BY <1>1, <2>1, <2>2
<1> QED
  BY <1>1, LogInvStarts, PTL DEF LogSpec

\* Whatever is redelivered, crashes between the two databases or is removed by
\* log retention, an operation has at most one log across the databases, and
\* its outbox row names that one (deliverZTAPISettlementLog,
\* ProcessPendingZTAPISettlementLogs).
THEOREM LogsAreWrittenOnce == LogSpec => []LoggedOnce
<1>1. LogInv => LoggedOnce
  <2> SUFFICES ASSUME LogInv PROVE LoggedOnce
    OBVIOUS
  <2>1. ASSUME NEW i \in DOMAIN inserted, NEW j \in DOMAIN inserted,
               inserted[i] = inserted[j]
        PROVE  i = j
    BY <2>1 DEF LogInv, ReceiptsNameLogs
  <2>2. AckNamesItsLog
    BY DEF LogInv, ReceiptsNameLogs, AcksAreReceipts, AckNamesItsLog
  <2> QED
    BY <2>1, <2>2 DEF LoggedOnce
<1> QED
  BY <1>1, LogAlways, PTL

\* A request whose settlement is complete has its log in the outbox: both
\* commit together, whoever settles it (finalizeZTAPIRequestSettlement,
\* EnqueueZTAPISettlementLogTx).
THEOREM SettledIsQueued == LogSpec => []CompletedIsQueued
<1>1. LogInv => CompletedIsQueued
  BY DEF LogInv
<1> QED
  BY <1>1, LogAlways, PTL

\* Type correctness: in particular what a pass still has to do is in the
\* outbox, and every log row that exists was inserted.
THEOREM LogTypeCorrect == LogSpec => []SettlementLogTypeOK
<1>1. LogInv => SettlementLogTypeOK
  <2> SUFFICES ASSUME LogInv PROVE SettlementLogTypeOK
    OBVIOUS
  <2>1. LogTypes /\ \A w \in Workers : PassFits(w)
    BY DEF LogInv
  <2>2. receipt \in [Ops -> 0..Len(inserted)]
    <3>1. /\ receipt \in [Ops -> Nat] /\ Len(inserted) \in Nat
          /\ DOMAIN inserted = 1..Len(inserted)
      BY <2>1 DEF LogTypes
    <3>2. \A o \in Ops : receipt[o] # 0 => receipt[o] \in DOMAIN inserted
      BY DEF LogInv, ReceiptsNameLogs
    <3>3. \A o \in Ops : receipt[o] \in 0..Len(inserted)
      BY <3>1, <3>2
    <3> QED
      BY <3>1, <3>3
  <2>3. acked \in [Ops -> 0..Len(inserted)]
    <3>1. acked \in [Ops -> Nat] /\ Len(inserted) \in Nat
      BY <2>1 DEF LogTypes
    <3>2. \A o \in Ops : acked[o] # 0 => acked[o] = receipt[o]
      BY DEF LogInv, AcksAreReceipts
    <3>3. \A o \in Ops : acked[o] \in 0..Len(inserted)
      BY <2>2, <3>1, <3>2
    <3> QED
      BY <3>1, <3>3
  <2>4. \A w \in Workers :
          /\ logWorker[w].pc \in {"idle", "finalize", "select", "deliver", "ack",
                                   "failed", "returned"}
          /\ logWorker[w].jobs \subseteq DOMAIN queue /\ logWorker[w].log \in 0..Len(inserted)
    BY <2>1 DEF LogTypes, WorkerStates, PassFits
  <2> QED
    BY <2>1, <2>2, <2>3, <2>4 DEF LogTypes, SettlementLogTypeOK
<1> QED
  BY <1>1, LogAlways, PTL

-----------------------------------------------------------------------------
(***************************************************************************)
(* Supplier refunds                                                        *)
(***************************************************************************)
\* Rounding down is what it should be, and keeps the order.
LEMMA FloorBounds ==
  ASSUME NEW n \in Nat, NEW d \in Nat \ {0}
  PROVE  /\ n \div d \in Nat /\ (n \div d) * d <= n /\ n < (n \div d + 1) * d
BY Z3

LEMMA FloorGrows ==
  ASSUME NEW m \in Nat, NEW n \in Nat, NEW d \in Nat \ {0}, m <= n
  PROVE  m \div d <= n \div d
<1>1. /\ m \div d \in Nat /\ (m \div d) * d <= m
      /\ n \div d \in Nat /\ n < (n \div d + 1) * d
  BY FloorBounds
<1> DEFINE p == m \div d
           q == n \div d
<1> HIDE DEF p, q
<1>2. p \in Nat /\ q \in Nat /\ p * d <= m /\ n < (q + 1) * d
  BY <1>1 DEF p, q
<1>3. ASSUME q + 1 <= p PROVE FALSE
  <2>1. (q + 1) * d <= p * d
    BY <1>2, <1>3, Z3
  <2>2. (q + 1) * d \in Nat /\ p * d \in Nat
    BY <1>2, Z3
  <2> QED
    BY <1>2, <2>1, <2>2
<1>4. p <= q
  BY <1>2, <1>3
<1> QED
  BY <1>4 DEF p, q

\* A dimension of a charge, as SupplierRefundAssumption describes it.
ChargeRecords == [units : Nat \ {0}, num : Nat, den : Nat \ {0}, charged : Nat, token : Nat]

SoundCharge(c) ==
  /\ c \in ChargeRecords /\ c.token <= c.charged
  /\ c.charged - ((c.units * c.num) \div c.den) \in {0, 1}

LEMMA ChargesAreSound ==
  ASSUME NEW a \in ChargedAttempts, NEW d \in Dims
  PROVE  SoundCharge(ChargeOf[a][d])
BY SupplierRefundAssumption DEF SoundCharge, ChargeRecords

\* The target for part of the units is the floor of their price: the bound by
\* the allocation never applies.  It is at most the allocation.
LEMMA TargetIsFloor ==
  ASSUME NEW c, SoundCharge(c), NEW u \in Nat, u <= c.units, u # c.units
  PROVE  /\ u * c.num \in Nat
         /\ (u * c.num) \div c.den \in Nat /\ (u * c.num) \div c.den <= c.charged
         /\ ztapiSupplierRefundTarget(c, u) = (u * c.num) \div c.den
<1>1. /\ c.units \in Nat /\ c.num \in Nat /\ c.den \in Nat \ {0} /\ c.charged \in Nat
      /\ c.charged - ((c.units * c.num) \div c.den) \in {0, 1}
  BY DEF SoundCharge, ChargeRecords
<1>2. u * c.num \in Nat /\ c.units * c.num \in Nat /\ u * c.num <= c.units * c.num
  BY <1>1, Z3
<1>3. /\ (u * c.num) \div c.den \in Nat /\ (c.units * c.num) \div c.den \in Nat
      /\ (u * c.num) \div c.den <= (c.units * c.num) \div c.den
  BY <1>1, <1>2, FloorBounds, FloorGrows
<1> DEFINE f == (u * c.num) \div c.den
           g == (c.units * c.num) \div c.den
<1> HIDE DEF f, g
<1>4. f \in Nat /\ g \in Nat /\ f <= g /\ c.charged - g \in {0, 1}
  BY <1>1, <1>3 DEF f, g
<1>5. f <= c.charged /\ ~(f > c.charged)
  BY <1>1, <1>4
<1>6. ztapiSupplierRefundTarget(c, u) = f
  BY <1>5 DEF ztapiSupplierRefundTarget, f
<1> QED
  BY <1>2, <1>4, <1>5, <1>6 DEF f

\* More units reversed never refund less: the check of the plan for a falling
\* total can refuse nothing.
LEMMA TargetGrows ==
  ASSUME NEW c, SoundCharge(c), NEW u \in Nat, NEW v \in Nat, u <= v, v <= c.units
  PROVE  /\ ztapiSupplierRefundTarget(c, u) \in Nat
         /\ ztapiSupplierRefundTarget(c, v) \in Nat
         /\ ztapiSupplierRefundTarget(c, u) <= ztapiSupplierRefundTarget(c, v)
         /\ ztapiSupplierRefundTarget(c, v) <= c.charged
<1>1. c.units \in Nat /\ c.charged \in Nat /\ c.num \in Nat /\ c.den \in Nat \ {0}
  BY DEF SoundCharge, ChargeRecords
<1>2. CASE v # c.units
  <2>1. u <= c.units /\ u # c.units
    BY <1>1, <1>2
  <2>2. /\ (u * c.num) \div c.den \in Nat /\ u * c.num \in Nat
        /\ ztapiSupplierRefundTarget(c, u) = (u * c.num) \div c.den
    BY <2>1, TargetIsFloor
  <2>3. /\ (v * c.num) \div c.den \in Nat /\ v * c.num \in Nat
        /\ (v * c.num) \div c.den <= c.charged
        /\ ztapiSupplierRefundTarget(c, v) = (v * c.num) \div c.den
    BY <1>2, TargetIsFloor
  <2>4. u * c.num <= v * c.num
    BY <1>1, Z3
  <2>5. (u * c.num) \div c.den <= (v * c.num) \div c.den
    BY <1>1, <2>2, <2>3, <2>4, FloorGrows
  <2> QED
    BY <2>2, <2>3, <2>5
<1>3. CASE v = c.units
  <2>1. ztapiSupplierRefundTarget(c, v) = c.charged
    BY <1>3 DEF ztapiSupplierRefundTarget
  <2>2. CASE u = c.units
    BY <1>1, <1>3, <2>1, <2>2
  <2>3. CASE u # c.units
    <3>1. /\ (u * c.num) \div c.den \in Nat /\ (u * c.num) \div c.den <= c.charged
          /\ ztapiSupplierRefundTarget(c, u) = (u * c.num) \div c.den
      BY <1>1, <1>3, <2>3, TargetIsFloor
    <3> QED
      BY <1>1, <2>1, <3>1
  <2> QED
    BY <2>2, <2>3
<1> QED
  BY <1>2, <1>3

Reversals == [units : Nat, quota : Nat, token : Nat]
RefundRows == [status : {"none", "pending", "applied", "completed"},
               quota : Nat, token : Nat, at : Nat]
Calls == [pc : {"idle", "tx", "read", "drop", "clear", "complete"}, refund : Nat,
          rev : Nat, flag : BOOLEAN]

RefundTypes ==
  /\ anchored \subseteq ChargedAttempts
  /\ progress \in [ChargedAttempts -> [Dims -> Reversals]]
  /\ refunded \in [ChargedAttempts -> [quota : Nat, token : Nat]]
  /\ reqRefunded \in Nat /\ wallet \in 0..WalletMax /\ tokenRemain \in Nat
  /\ refund \in [Refunds -> RefundRows] /\ approved \subseteq Refunds
  /\ worker \in [RefundWorkers -> Calls]
  /\ rev \in Nat /\ dropped \in Nat /\ syncPending \in BOOLEAN

\* What was refunded for a dimension follows from the units reversed.
TokenTarget(c, units, quota) ==
  IF c.token = c.charged THEN quota ELSE IF units = c.units THEN c.token ELSE 0

ReversalFits(c, p) ==
  /\ p.units <= c.units
  /\ p.quota = ztapiSupplierRefundTarget(c, p.units)
  /\ p.token = TokenTarget(c, p.units, p.quota)

RefundMoneyInv ==
  /\ \A a \in ChargedAttempts, d \in Dims : ReversalFits(ChargeOf[a][d], progress[a][d])
  /\ BooksAgree

Moved(k) == refund[k].status \in {"applied", "completed"}

RowFits(k) ==
  /\ refund[k].at <= rev
  /\ ~Moved(k) => refund[k].quota = 0 /\ refund[k].token = 0
  /\ Moved(k) => k \in approved
  /\ refund[k].status = "completed" => dropped >= refund[k].at

\* What a call remembers: it read the row after its refund was applied, and it
\* ends with the caches dropped after that unless it saw them pending.
CallFits(w) ==
  /\ worker[w].pc = "tx" => worker[w].refund \in Refunds
  /\ worker[w].pc \in {"read", "drop", "clear", "complete"} /\ worker[w].refund # 0
       => worker[w].refund \in Refunds /\ Moved(worker[w].refund)
  /\ worker[w].pc \in {"drop", "clear"} =>
       /\ worker[w].rev <= rev
       /\ worker[w].refund # 0 => refund[worker[w].refund].at <= worker[w].rev
       /\ ~worker[w].flag => dropped >= worker[w].rev
  /\ worker[w].pc = "clear" => dropped >= worker[w].rev
  /\ worker[w].pc = "complete" => /\ worker[w].refund # 0
                                  /\ dropped >= refund[worker[w].refund].at

RefundCacheInv ==
  /\ dropped <= rev /\ DroppedBeforeCleared
  /\ \A k \in Refunds : RowFits(k)
  /\ \A w \in RefundWorkers : CallFits(w)

RefundInv == RefundTypes /\ RefundMoneyInv /\ RefundCacheInv

\* Nothing is charged, refunded or under way at the start.
LEMMA RefundInvStarts ==
  ASSUME RefundInit PROVE RefundInv
<1>1. /\ NoRefund \in RefundRows /\ IdleCall \in Calls /\ NoProgress \in Reversals
  BY DEF NoRefund, RefundRows, IdleCall, Calls, NoProgress, Reversals
<1>2. /\ progress = [a \in ChargedAttempts |-> [d \in Dims |-> NoProgress]]
      /\ refunded = [a \in ChargedAttempts |-> [quota |-> 0, token |-> 0]]
      /\ refund = [k \in Refunds |-> NoRefund] /\ worker = [w \in RefundWorkers |-> IdleCall]
      /\ anchored = {} /\ approved = {} /\ reqRefunded = 0 /\ tokenRemain = 0
      /\ wallet = StartBalance /\ rev = 0 /\ dropped = 0 /\ syncPending = FALSE
  BY DEF RefundInit
<1>3. RefundTypes
  BY <1>1, <1>2, SupplierRefundAssumption DEF RefundTypes
<1>4. ASSUME NEW a \in ChargedAttempts, NEW d \in Dims
      PROVE  ReversalFits(ChargeOf[a][d], progress[a][d])
  <2> DEFINE c == ChargeOf[a][d]
  <2>1. SoundCharge(c)
    BY ChargesAreSound
  <2>2. progress[a][d].units = 0 /\ progress[a][d].quota = 0 /\ progress[a][d].token = 0
    BY <1>2 DEF NoProgress
  <2> HIDE DEF c
  <2>3. c.units \in Nat \ {0} /\ c.num \in Nat /\ c.den \in Nat \ {0}
    BY <2>1 DEF SoundCharge, ChargeRecords
  <2>4. ztapiSupplierRefundTarget(c, 0) = (0 * c.num) \div c.den
    BY <2>1, <2>3, TargetIsFloor
  <2>5. (0 * c.num) \div c.den = 0
    BY <2>3, Z3
  <2> QED
    BY <2>2, <2>3, <2>4, <2>5 DEF ReversalFits, TokenTarget, c
<1>5. BooksAgree
  <2>1. /\ IsFiniteSet(Refunds) /\ IsFiniteSet(Dims)
        /\ StartBalance \in 0..WalletMax /\ WalletMax \in Nat
    BY SupplierRefundAssumption
  <2>2. /\ SumFunctionOnSet([k \in Refunds |-> refund[k].quota], Refunds) = 0
        /\ SumFunctionOnSet([k \in Refunds |-> refund[k].token], Refunds) = 0
    <3> DEFINE q == [k \in Refunds |-> refund[k].quota]
               t == [k \in Refunds |-> refund[k].token]
    <3>1. \A k \in Refunds : q[k] = 0 /\ t[k] = 0
      BY <1>2 DEF NoRefund
    <3> HIDE DEF q, t
    <3>2. SumFunctionOnSet(q, Refunds) = 0 /\ SumFunctionOnSet(t, Refunds) = 0
      BY <2>1, <3>1, SumOfZeros
    <3> QED
      BY <3>2 DEF q, t
  <2>3. ASSUME NEW a \in ChargedAttempts
        PROVE  /\ refunded[a].quota
                    = SumFunctionOnSet([d \in Dims |-> progress[a][d].quota], Dims)
               /\ refunded[a].quota <= Charged(a) /\ refunded[a].token <= TokenCharged(a)
    <3> DEFINE p == [d \in Dims |-> progress[a][d].quota]
               q == [d \in Dims |-> ChargeOf[a][d].charged]
               t == [d \in Dims |-> ChargeOf[a][d].token]
    <3>1. \A d \in Dims : p[d] = 0
      BY <1>2 DEF NoProgress
    <3>2. \A d \in Dims : q[d] \in Nat /\ t[d] \in Nat
      BY ChargesAreSound DEF SoundCharge, ChargeRecords
    <3>3. /\ SumFunctionOnSet(p, Dims) = 0
      <4> HIDE DEF p
      <4> QED
        BY <2>1, <3>1, SumOfZeros
    <3>4. SumFunctionOnSet(q, Dims) \in Nat /\ SumFunctionOnSet(t, Dims) \in Nat
      <4> HIDE DEF q, t
      <4> QED
        BY <2>1, <3>2, SumOfNaturals
    <3>5. refunded[a].quota = 0 /\ refunded[a].token = 0
      BY <1>2
    <3>6. Charged(a) \in Nat /\ TokenCharged(a) \in Nat
      BY <3>4 DEF Charged, TokenCharged
    <3> QED
      BY <3>3, <3>5, <3>6
  <2>4. wallet = StartBalance /\ tokenRemain = 0 /\ reqRefunded = 0
    BY <1>2
  <2> DEFINE total == SumFunctionOnSet([k \in Refunds |-> refund[k].quota], Refunds)
             tokens == SumFunctionOnSet([k \in Refunds |-> refund[k].token], Refunds)
  <2>5. total = 0 /\ tokens = 0
    BY <2>2
  <2> HIDE DEF total, tokens
  <2>6. wallet = StartBalance + total /\ tokenRemain = tokens /\ reqRefunded = total
    BY <2>1, <2>4, <2>5
  <2> QED
    BY <2>3, <2>6 DEF BooksAgree, total, tokens
<1>6. RefundCacheInv
  <2>1. ASSUME NEW k \in Refunds PROVE RowFits(k)
    <3>1. /\ refund[k].status = "none" /\ refund[k].quota = 0
          /\ refund[k].token = 0 /\ refund[k].at = 0
      BY <1>2 DEF NoRefund
    <3> QED
      BY <1>2, <3>1 DEF RowFits, Moved
  <2>2. ASSUME NEW w \in RefundWorkers PROVE CallFits(w)
    <3>1. worker[w].pc = "idle"
      BY <1>2 DEF IdleCall
    <3> QED
      BY <3>1 DEF CallFits
  <2>3. dropped <= rev /\ DroppedBeforeCleared
    BY <1>2 DEF DroppedBeforeCleared
  <2> QED
    BY <2>1, <2>2, <2>3 DEF RefundCacheInv
<1> QED
  BY <1>3, <1>4, <1>5, <1>6 DEF RefundInv, RefundMoneyInv

\* The plan reverses no more units than were charged, what it would have
\* refunded in all fits those units, and no dimension gets less than before.
LEMMA PlanFits ==
  ASSUME RefundInv, NEW k \in Refunds, PlanOK(k), NEW d \in Dims
  PROVE  LET c == ChargeOf[ReversedAttempt[k]][d]
             p == progress[ReversedAttempt[k]][d]
         IN /\ PlanDim(k, d) \in Reversals /\ ReversalFits(c, PlanDim(k, d))
            /\ PlanDim(k, d).quota - p.quota \in Nat
            /\ PlanDim(k, d).token - p.token \in Nat
<1> DEFINE a == ReversedAttempt[k]
           c == ChargeOf[a][d]
           p == progress[a][d]
           u == PlanUnits(k, d)
           q == ztapiSupplierRefundTarget(c, u)
<1>1. a \in ChargedAttempts /\ UnitsOf[k][d] \in Nat
  BY SupplierRefundAssumption
<1>2. SoundCharge(c) /\ ReversalFits(c, p) /\ p \in Reversals
  BY <1>1, ChargesAreSound DEF RefundInv, RefundMoneyInv, RefundTypes
<1>3. /\ u <= c.units
      /\ ~(/\ c.token \notin {0, c.charged} /\ UnitsOf[k][d] > 0 /\ u # c.units)
  BY DEF PlanOK
<1>4. /\ c.units \in Nat /\ c.token \in Nat /\ c.charged \in Nat /\ c.token <= c.charged
      /\ p.units \in Nat /\ p.quota \in Nat /\ p.token \in Nat
  BY <1>2 DEF SoundCharge, ChargeRecords, Reversals
<1>5. /\ u \in Nat /\ p.units <= u
  BY <1>1, <1>2, <1>4 DEF PlanUnits, ReversalFits
<1>6. PlanDim(k, d).units = u /\ PlanDim(k, d).quota = q
  BY DEF PlanDim
<1>7. PlanDim(k, d) = [units |-> u, quota |-> q, token |-> PlanDim(k, d).token]
  BY DEF PlanDim
<1>8. /\ c.token = c.charged => PlanDim(k, d).token = q
      /\ c.token # c.charged /\ u = c.units => PlanDim(k, d).token = c.token
      /\ c.token # c.charged /\ u # c.units => PlanDim(k, d).token = p.token
  BY DEF PlanDim
<1> HIDE DEF c, p, u, q, a
<1>9. q \in Nat /\ p.quota <= q
  BY <1>2, <1>3, <1>4, <1>5, TargetGrows DEF ReversalFits, q
<1>10. /\ PlanDim(k, d).token = TokenTarget(c, u, q) /\ PlanDim(k, d).token \in Nat
       /\ p.token <= PlanDim(k, d).token
  <2>1. p.token = TokenTarget(c, p.units, p.quota)
    BY <1>2 DEF ReversalFits
  <2>2. CASE c.token = c.charged
    BY <1>8, <1>9, <2>1, <2>2 DEF TokenTarget
  <2>3. CASE c.token # c.charged /\ u = c.units
    BY <1>4, <1>8, <2>1, <2>3 DEF TokenTarget
  <2>4. CASE c.token # c.charged /\ u # c.units
    <3>1. p.units # c.units
      BY <1>3, <1>4, <1>5, <2>4
    <3> QED
      BY <1>4, <1>8, <2>1, <2>4, <3>1 DEF TokenTarget
  <2> QED
    BY <2>2, <2>3, <2>4
<1>11. PlanDim(k, d) \in Reversals
  BY <1>5, <1>7, <1>9, <1>10 DEF Reversals
<1>12. ReversalFits(c, PlanDim(k, d))
  BY <1>3, <1>6, <1>10 DEF ReversalFits, q
<1>13. PlanDim(k, d).quota - p.quota \in Nat /\ PlanDim(k, d).token - p.token \in Nat
  BY <1>4, <1>6, <1>9, <1>10
<1> QED
  BY <1>11, <1>12, <1>13 DEF c, p, a

\* What a plan gives: the sums of what its dimensions gain.
LEMMA PlanSums ==
  ASSUME RefundInv, NEW k \in Refunds, PlanOK(k)
  PROVE  LET p == progress[ReversedAttempt[k]] IN
         /\ Plan(k) \in [Dims -> Reversals] /\ PlanQuota(k) \in Nat /\ PlanToken(k) \in Nat
         /\ SumFunctionOnSet([d \in Dims |-> Plan(k)[d].quota], Dims)
              = SumFunctionOnSet([d \in Dims |-> p[d].quota], Dims) + PlanQuota(k)
<1> DEFINE a == ReversedAttempt[k]
           new == [d \in Dims |-> Plan(k)[d].quota]
           old == [d \in Dims |-> progress[a][d].quota]
           gain == [d \in Dims |-> PlanDim(k, d).quota - progress[a][d].quota]
           tokens == [d \in Dims |-> PlanDim(k, d).token - progress[a][d].token]
<1>1. a \in ChargedAttempts /\ IsFiniteSet(Dims)
  BY SupplierRefundAssumption
<1>2. /\ \A d \in Dims : PlanDim(k, d) \in Reversals /\ progress[a][d] \in Reversals
      /\ \A d \in Dims : gain[d] \in Nat /\ tokens[d] \in Nat
  BY <1>1, PlanFits DEF RefundInv, RefundTypes
<1>3. Plan(k) \in [Dims -> Reversals]
  BY <1>2 DEF Plan
<1>4. \A d \in Dims : new[d] \in Int /\ old[d] \in Int /\ gain[d] = new[d] - old[d]
  BY <1>2 DEF Plan, Reversals
<1>5. /\ PlanQuota(k) = SumFunctionOnSet(gain, Dims)
     /\ PlanToken(k) = SumFunctionOnSet(tokens, Dims)
  BY DEF PlanQuota, PlanToken
<1> HIDE DEF new, old, gain, tokens
<1>6. PlanQuota(k) \in Nat /\ PlanToken(k) \in Nat
  BY <1>1, <1>2, <1>5, SumOfNaturals
<1>7. /\ SumFunctionOnSet(gain, Dims)
           = SumFunctionOnSet(new, Dims) - SumFunctionOnSet(old, Dims)
      /\ SumFunctionOnSet(new, Dims) \in Int /\ SumFunctionOnSet(old, Dims) \in Int
  BY <1>1, <1>4, SumOfDifferences, SumType
<1>8. SumFunctionOnSet(new, Dims) = SumFunctionOnSet(old, Dims) + PlanQuota(k)
  BY <1>5, <1>6, <1>7
<1> QED
  BY <1>3, <1>6, <1>8 DEF new, old, a

\* The transaction credits what the refund's row says.
LEMMA ApplyMoves ==
  ASSUME RefundInv, NEW w \in RefundWorkers, ApplyRefund(w)
  PROVE  RefundMoneyInv' /\ RefundTypes'
<1> DEFINE k == worker[w].refund
           a == ReversedAttempt[k]
           quota == PlanQuota(k)
           token == PlanToken(k)
<1>1. /\ k \in Refunds /\ refund[k].status = "pending" /\ RefundEligible(k) /\ PlanOK(k)
      /\ wallet + quota <= WalletMax
  BY DEF RefundInv, RefundCacheInv, CallFits, ApplyRefund, RefundEligible
<1>2. /\ a \in ChargedAttempts /\ IsFiniteSet(Dims) /\ IsFiniteSet(Refunds)
      /\ StartBalance \in Nat /\ WalletMax \in Nat
  <2>1. /\ ReversedAttempt \in [Refunds -> ChargedAttempts]
        /\ IsFiniteSet(Dims) /\ IsFiniteSet(Refunds)
        /\ StartBalance \in 0..WalletMax /\ WalletMax \in Nat
    BY SupplierRefundAssumption
  <2>2. k \in Refunds
    BY <1>1
  <2> HIDE DEF k
  <2> QED
    BY <2>1, <2>2
<1>3. /\ quota <= Charged(a) - refunded[a].quota
      /\ token <= TokenCharged(a) - refunded[a].token
  BY <1>1 DEF RefundEligible
<1>4. /\ progress' = [progress EXCEPT ![a] = Plan(k)]
      /\ refunded' = [refunded EXCEPT ![a] = [quota |-> refunded[a].quota + quota,
                                              token |-> refunded[a].token + token]]
      /\ wallet' = wallet + quota /\ tokenRemain' = tokenRemain + token
      /\ reqRefunded' = reqRefunded + quota /\ rev' = rev + 1 /\ syncPending' = TRUE
      /\ refund' = [refund EXCEPT ![k] = [status |-> "applied", quota |-> quota,
                                          token |-> token, at |-> rev + 1]]
      /\ worker' = [worker EXCEPT ![w].pc = "read"]
      /\ UNCHANGED <<anchored, deleted, approved, retryQueue, dropped, refundFaults>>
  BY DEF ApplyRefund, CreditRefund
<1>5. /\ Plan(k) \in [Dims -> Reversals] /\ quota \in Nat /\ token \in Nat
      /\ SumFunctionOnSet([d \in Dims |-> Plan(k)[d].quota], Dims)
           = SumFunctionOnSet([d \in Dims |-> progress[a][d].quota], Dims) + quota
  BY <1>1, PlanSums
<1>6. \A d \in Dims : ReversalFits(ChargeOf[a][d], Plan(k)[d])
  BY <1>1, PlanFits DEF Plan
<1>7. RefundTypes
  BY DEF RefundInv
<1>8. refund[k].quota = 0 /\ refund[k].token = 0
  BY <1>1 DEF RefundInv, RefundCacheInv, RowFits, Moved
<1> HIDE DEF k, a, quota, token
<1>9. /\ progress' \in [ChargedAttempts -> [Dims -> Reversals]] /\ progress'[a] = Plan(k)
      /\ \A b \in ChargedAttempts \ {a} : progress'[b] = progress[b]
  BY <1>2, <1>4, <1>5, <1>7 DEF RefundTypes
<1>10. /\ refunded' \in [ChargedAttempts -> [quota : Nat, token : Nat]]
       /\ refunded'[a].quota = refunded[a].quota + quota
       /\ refunded'[a].token = refunded[a].token + token
       /\ \A b \in ChargedAttempts \ {a} : refunded'[b] = refunded[b]
  BY <1>2, <1>4, <1>5, <1>7 DEF RefundTypes
<1>11. /\ refund' \in [Refunds -> RefundRows]
       /\ refund'[k].quota = quota /\ refund'[k].token = token
       /\ \A j \in Refunds \ {k} : refund'[j] = refund[j]
  <2>1. [status |-> "applied", quota |-> quota, token |-> token, at |-> rev + 1] \in RefundRows
    BY <1>5, <1>7 DEF RefundTypes, RefundRows
  <2> QED
    BY <1>1, <1>4, <1>7, <2>1 DEF RefundTypes
<1>12. RefundTypes'
  <2>1. worker' \in [RefundWorkers -> Calls]
    BY <1>4, <1>7 DEF RefundTypes, Calls
  <2>2. wallet' \in 0..WalletMax /\ tokenRemain' \in Nat /\ reqRefunded' \in Nat /\ rev' \in Nat
    BY <1>1, <1>2, <1>4, <1>5, <1>7 DEF RefundTypes
  <2> QED
    BY <1>4, <1>7, <1>9, <1>10, <1>11, <2>1, <2>2 DEF RefundTypes
<1>13. ASSUME NEW b \in ChargedAttempts, NEW d \in Dims
       PROVE  ReversalFits(ChargeOf[b][d], progress'[b][d])
  BY <1>6, <1>9 DEF RefundInv, RefundMoneyInv
<1>14. BooksAgree'
  <2> DEFINE rows == [j \in Refunds |-> refund[j].quota]
             rowsNew == [j \in Refunds |-> refund'[j].quota]
             tokens == [j \in Refunds |-> refund[j].token]
             tokensNew == [j \in Refunds |-> refund'[j].token]
  <2>1. /\ \A j \in Refunds : rows[j] \in Int /\ rowsNew[j] \in Int
        /\ \A j \in Refunds : tokens[j] \in Int /\ tokensNew[j] \in Int
        /\ \A j \in Refunds \ {k} : rowsNew[j] = rows[j] /\ tokensNew[j] = tokens[j]
        /\ rows[k] = 0 /\ rowsNew[k] = quota /\ tokens[k] = 0 /\ tokensNew[k] = token
    BY <1>1, <1>7, <1>8, <1>11 DEF RefundTypes, RefundRows
  <2>2. /\ wallet = StartBalance + SumFunctionOnSet(rows, Refunds)
        /\ tokenRemain = SumFunctionOnSet(tokens, Refunds)
        /\ reqRefunded = SumFunctionOnSet(rows, Refunds)
    BY DEF RefundInv, RefundMoneyInv, BooksAgree
  <2> HIDE DEF rows, rowsNew, tokens, tokensNew
  <2>3. /\ SumFunctionOnSet(rows, Refunds) \in Int
        /\ SumFunctionOnSet(rowsNew, Refunds)
             = SumFunctionOnSet(rows, Refunds) + rowsNew[k] - rows[k]
        /\ SumFunctionOnSet(tokens, Refunds) \in Int
        /\ SumFunctionOnSet(tokensNew, Refunds)
             = SumFunctionOnSet(tokens, Refunds) + tokensNew[k] - tokens[k]
    BY <1>1, <1>2, <2>1, SumOfChanged
  <2>4. /\ wallet' = StartBalance + SumFunctionOnSet(rowsNew, Refunds)
        /\ tokenRemain' = SumFunctionOnSet(tokensNew, Refunds)
        /\ reqRefunded' = SumFunctionOnSet(rowsNew, Refunds)
    BY <1>2, <1>4, <1>5, <2>1, <2>2, <2>3
  <2>5. ASSUME NEW b \in ChargedAttempts
        PROVE  /\ refunded'[b].quota
                    = SumFunctionOnSet([d \in Dims |-> progress'[b][d].quota], Dims)
               /\ refunded'[b].quota <= Charged(b) /\ refunded'[b].token <= TokenCharged(b)
    <3>1. /\ refunded[b].quota = SumFunctionOnSet([d \in Dims |-> progress[b][d].quota], Dims)
          /\ refunded[b].quota <= Charged(b) /\ refunded[b].token <= TokenCharged(b)
      BY DEF RefundInv, RefundMoneyInv, BooksAgree
    <3>2. CASE b # a
      BY <1>9, <1>10, <3>1, <3>2
    <3>3. CASE b = a
      <4>1. Charged(a) \in Int /\ TokenCharged(a) \in Int
        <5> DEFINE q == [d \in Dims |-> ChargeOf[a][d].charged]
                   t == [d \in Dims |-> ChargeOf[a][d].token]
        <5>1. \A d \in Dims : q[d] \in Int /\ t[d] \in Int
          BY <1>2, ChargesAreSound DEF SoundCharge, ChargeRecords
        <5> HIDE DEF q, t
        <5>2. SumFunctionOnSet(q, Dims) \in Int /\ SumFunctionOnSet(t, Dims) \in Int
          BY <1>2, <5>1, SumType
        <5> QED
          BY <5>2 DEF q, t, Charged, TokenCharged
      <4>2. refunded[a].quota \in Nat /\ refunded[a].token \in Nat
        BY <1>2, <1>7 DEF RefundTypes
      <4>3. [d \in Dims |-> progress'[b][d].quota] = [d \in Dims |-> Plan(k)[d].quota]
        BY <1>9, <3>3
      <4>4. refunded'[b].quota = SumFunctionOnSet([d \in Dims |-> progress'[b][d].quota], Dims)
        BY <1>5, <1>10, <3>1, <3>3, <4>3
      <4>5. refunded'[b].quota <= Charged(b) /\ refunded'[b].token <= TokenCharged(b)
        BY <1>3, <1>5, <1>10, <3>3, <4>1, <4>2
      <4> QED
        BY <4>4, <4>5
    <3> QED
      BY <3>2, <3>3
  <2> QED
    BY <2>4, <2>5 DEF BooksAgree, Charged, TokenCharged, rowsNew, tokensNew
<1> QED
  BY <1>12, <1>13, <1>14 DEF RefundMoneyInv

\* A step that leaves the money of every row and charge alone.
MoneyStill ==
  /\ UNCHANGED <<progress, refunded, reqRefunded, wallet, tokenRemain>>
  /\ \A k \in Refunds : /\ refund'[k].quota = refund[k].quota
                        /\ refund'[k].token = refund[k].token

LEMMA MoneyStays ==
  ASSUME RefundMoneyInv, MoneyStill PROVE RefundMoneyInv'
<1>1. /\ [k \in Refunds |-> refund'[k].quota] = [k \in Refunds |-> refund[k].quota]
      /\ [k \in Refunds |-> refund'[k].token] = [k \in Refunds |-> refund[k].token]
      /\ progress' = progress /\ refunded' = refunded /\ reqRefunded' = reqRefunded
      /\ wallet' = wallet /\ tokenRemain' = tokenRemain
  BY DEF MoneyStill
<1>2. BooksAgree'
  BY <1>1 DEF RefundMoneyInv, BooksAgree, Charged, TokenCharged
<1> QED
  BY <1>1, <1>2 DEF RefundMoneyInv

\* Revisions and drops only go forward, and a refund that moved money keeps
\* the revision it did so in.
CachesAdvance ==
  /\ rev <= rev' /\ dropped <= dropped'
  /\ \A k \in Refunds : Moved(k) => Moved(k)' /\ refund'[k].at = refund[k].at

\* A call that a step does not touch remembers what still fits.
LEMMA UntouchedCallsFit ==
  ASSUME RefundInv, RefundTypes', CachesAdvance, NEW x \in RefundWorkers,
         worker'[x] = worker[x]
  PROVE  CallFits(x)'
<1> DEFINE c == worker[x]
<1>1. CallFits(x) /\ c \in Calls /\ rev \in Nat /\ rev' \in Nat /\ dropped \in Nat
      /\ dropped' \in Nat /\ rev <= rev' /\ dropped <= dropped'
      /\ refund \in [Refunds -> RefundRows]
  BY DEF RefundInv, RefundCacheInv, RefundTypes, CachesAdvance
<1>2. c.rev \in Nat /\ c.refund \in Nat /\ \A k \in Refunds : refund[k].at \in Nat
  BY <1>1 DEF Calls, RefundRows
<1>3. c.refund \in Refunds /\ Moved(c.refund)
        => Moved(c.refund)' /\ refund'[c.refund].at = refund[c.refund].at
  BY DEF CachesAdvance
<1>4. c.pc = "complete" => c.refund \in Refunds
  BY <1>1 DEF CallFits
<1>5. /\ c.pc = "tx" => c.refund \in Refunds
      /\ c.pc \in {"read", "drop", "clear", "complete"} /\ c.refund # 0
           => c.refund \in Refunds /\ Moved(c.refund)'
  BY <1>1, <1>3 DEF CallFits
<1>6. c.pc \in {"drop", "clear"} =>
        /\ c.rev <= rev'
        /\ c.refund # 0 => refund'[c.refund].at <= c.rev
        /\ ~c.flag => dropped' >= c.rev
  <2>1. ASSUME c.pc \in {"drop", "clear"} PROVE c.rev <= rev' /\ (~c.flag => dropped' >= c.rev)
    BY <1>1, <1>2, <2>1 DEF CallFits
  <2>2. ASSUME c.pc \in {"drop", "clear"}, c.refund # 0 PROVE refund'[c.refund].at <= c.rev
    BY <1>1, <1>3, <2>2 DEF CallFits
  <2> QED
    BY <2>1, <2>2
<1>7. c.pc = "clear" => dropped' >= c.rev
  BY <1>1, <1>2 DEF CallFits
<1>8. c.pc = "complete" => c.refund # 0 /\ dropped' >= refund'[c.refund].at
  BY <1>1, <1>2, <1>3, <1>4 DEF CallFits
<1> QED
  BY <1>5, <1>6, <1>7, <1>8 DEF CallFits

\* A row that a step does not touch still fits.
LEMMA UntouchedRowsFit ==
  ASSUME RefundInv, RefundTypes', CachesAdvance, approved \subseteq approved',
         NEW k \in Refunds, refund'[k] = refund[k]
  PROVE  RowFits(k)'
<1>1. /\ RowFits(k) /\ refund[k].at \in Nat /\ rev \in Nat /\ rev' \in Nat
      /\ dropped \in Nat /\ dropped' \in Nat /\ rev <= rev' /\ dropped <= dropped'
  BY DEF RefundInv, RefundCacheInv, RefundTypes, RefundRows, CachesAdvance
<1> QED
  BY <1>1 DEF RowFits, Moved

\* What is left to show of a step of call w.
LEMMA CallStep ==
  ASSUME RefundInv, RefundTypes', CachesAdvance, MoneyStill, NEW w \in RefundWorkers,
         \A x \in RefundWorkers \ {w} : worker'[x] = worker[x], CallFits(w)',
         dropped' <= rev', DroppedBeforeCleared', \A k \in Refunds : RowFits(k)'
  PROVE  RefundInv'
<1>1. RefundMoneyInv'
  BY MoneyStays DEF RefundInv
<1>2. \A x \in RefundWorkers : CallFits(x)'
  BY UntouchedCallsFit
<1> QED
  BY <1>1, <1>2 DEF RefundInv, RefundCacheInv

\* The tables that a call may leave alone.
TablesStay ==
  UNCHANGED <<anchored, progress, refunded, reqRefunded, wallet, tokenRemain, refund, rev,
              syncPending, dropped>>

\* A step of a call that changes no table but may add an approval.
LEMMA QuietCallStep ==
  ASSUME RefundInv, TablesStay, approved \subseteq approved', approved' \subseteq Refunds,
         NEW w \in RefundWorkers, NEW c \in Calls, worker' = [worker EXCEPT ![w] = c],
         CallFits(w)'
  PROVE  RefundInv'
<1>1. /\ worker' \in [RefundWorkers -> Calls] /\ RefundTypes
      /\ \A x \in RefundWorkers \ {w} : worker'[x] = worker[x]
  BY DEF RefundInv, RefundTypes
<1>2. RefundTypes'
  BY <1>1 DEF RefundTypes, TablesStay
<1>3. CachesAdvance /\ MoneyStill
  BY <1>1 DEF RefundTypes, TablesStay, CachesAdvance, MoneyStill, Moved
<1>4. \A k \in Refunds : RowFits(k)'
  BY <1>2, <1>3, UntouchedRowsFit DEF TablesStay
<1>5. dropped' <= rev' /\ DroppedBeforeCleared'
  BY DEF RefundInv, RefundCacheInv, DroppedBeforeCleared, TablesStay
<1> QED
  BY <1>1, <1>2, <1>3, <1>4, <1>5, CallStep

\* What a call is, as far as the steps below need to know.
LEMMA CallShape ==
  ASSUME RefundInv, NEW w \in RefundWorkers
  PROVE  /\ worker \in [RefundWorkers -> Calls] /\ worker[w] \in Calls /\ CallFits(w)
         /\ IdleCall \in Calls /\ rev \in Nat /\ dropped \in Nat /\ dropped <= rev
         /\ syncPending \in BOOLEAN /\ approved \subseteq Refunds
         /\ refund \in [Refunds -> RefundRows] /\ \A k \in Refunds : refund[k].at \in Nat
BY DEF RefundInv, RefundTypes, RefundCacheInv, IdleCall, Calls, RefundRows

\* Starting a call on a refund or on the row's caches, and ending one.
LEMMA StartOrEndStep ==
  ASSUME RefundInv, NEW w \in RefundWorkers,
         \/ \E k \in Refunds : \/ ApproveZTAPISupplierRefund(w, k)
                               \/ RetryZTAPISupplierRefunds(w, k)
         \/ RefundNotApplied(w) \/ RefundCrash(w) \/ RetryZTAPISettlementCaches(w)
  PROVE  RefundInv'
<1>1. /\ worker \in [RefundWorkers -> Calls] /\ IdleCall \in Calls /\ rev \in Nat
      /\ approved \subseteq Refunds
  BY CallShape
<1>2. TablesStay
  BY DEF ApproveZTAPISupplierRefund, RetryZTAPISupplierRefunds, RefundNotApplied,
         RefundCrash, RetryZTAPISettlementCaches, TablesStay, money, cache
<1>3. approved \subseteq approved' /\ approved' \subseteq Refunds
  BY <1>1 DEF ApproveZTAPISupplierRefund, RetryZTAPISupplierRefunds, RefundNotApplied,
         RefundCrash, RetryZTAPISettlementCaches
<1>4. ASSUME NEW c \in Calls, worker' = [worker EXCEPT ![w] = c],
             c.pc \in {"idle", "tx", "drop"}, c.pc = "tx" => c.refund \in Refunds,
             c.pc = "drop" => c.refund = 0 /\ c.rev = rev /\ c.flag = TRUE
      PROVE  RefundInv'
  <2>1. worker'[w] = c /\ rev' = rev
    BY <1>1, <1>2, <1>4 DEF TablesStay
  <2>2. CallFits(w)'
    BY <1>1, <1>4, <2>1 DEF CallFits
  <2> QED
    BY <1>2, <1>3, <1>4, <2>2, QuietCallStep
<1>5. CASE RefundNotApplied(w) \/ RefundCrash(w)
  <2>1. worker' = [worker EXCEPT ![w] = IdleCall] /\ IdleCall.pc = "idle"
    BY <1>5 DEF RefundNotApplied, RefundCrash, IdleCall
  <2> QED
    BY <1>1, <1>4, <2>1
<1>6. CASE \E k \in Refunds : \/ ApproveZTAPISupplierRefund(w, k)
                              \/ RetryZTAPISupplierRefunds(w, k)
  <2>1. PICK k \in Refunds : worker' = [worker EXCEPT ![w] =
                                          [IdleCall EXCEPT !.pc = "tx", !.refund = k]]
    BY <1>6 DEF ApproveZTAPISupplierRefund, RetryZTAPISupplierRefunds
  <2> DEFINE c == [IdleCall EXCEPT !.pc = "tx", !.refund = k]
  <2>2. k \in Nat
    BY SupplierRefundAssumption
  <2>3. c \in Calls /\ c.pc = "tx" /\ c.refund = k
    BY <2>2 DEF IdleCall, Calls
  <2> HIDE DEF c
  <2>4. worker' = [worker EXCEPT ![w] = c]
    BY <2>1 DEF c
  <2> QED
    BY <1>4, <2>3, <2>4
<1>7. CASE RetryZTAPISettlementCaches(w)
  <2> DEFINE c == [pc |-> "drop", refund |-> 0, rev |-> rev, flag |-> TRUE]
  <2>1. c \in Calls /\ c.pc = "drop" /\ c.refund = 0 /\ c.rev = rev /\ c.flag = TRUE
    BY <1>1 DEF Calls
  <2>2. worker' = [worker EXCEPT ![w] = c]
    BY <1>7 DEF RetryZTAPISettlementCaches
  <2> HIDE DEF c
  <2> QED
    BY <1>4, <2>1, <2>2
<1> QED
  BY <1>5, <1>6, <1>7

\* Going on to read the row, and reading it.
LEMMA ReadStep ==
  ASSUME RefundInv, NEW w \in RefundWorkers, RefundAlreadyApplied(w) \/ ReadRow(w)
  PROVE  RefundInv'
<1>1. /\ worker \in [RefundWorkers -> Calls] /\ worker[w] \in Calls /\ CallFits(w)
      /\ rev \in Nat /\ dropped \in Nat /\ syncPending \in BOOLEAN
      /\ approved \subseteq Refunds /\ \A k \in Refunds : refund[k].at \in Nat
  BY CallShape
<1>2. /\ TablesStay /\ approved' = approved
  BY DEF RefundAlreadyApplied, ReadRow, TablesStay, money, cache
<1>3. CASE RefundAlreadyApplied(w)
  <2> DEFINE c == [worker[w] EXCEPT !.pc = "read"]
  <2>1. c \in Calls /\ c.pc = "read" /\ c.refund = worker[w].refund
    BY <1>1 DEF Calls
  <2>2. worker' = [worker EXCEPT ![w] = c]
    BY <1>1, <1>3 DEF RefundAlreadyApplied
  <2> HIDE DEF c
  <2>3. worker[w].refund \in Refunds /\ Moved(worker[w].refund)'
    BY <1>1, <1>2, <1>3 DEF RefundAlreadyApplied, CallFits, Moved, TablesStay
  <2>4. worker'[w] = c
    BY <1>1, <2>1, <2>2
  <2>5. CallFits(w)'
    BY <2>1, <2>3, <2>4 DEF CallFits
  <2> QED
    BY <1>1, <1>2, <2>1, <2>2, <2>5, QuietCallStep
<1>4. CASE ReadRow(w)
  <2> DEFINE c == [worker[w] EXCEPT !.pc = "drop", !.rev = rev, !.flag = syncPending]
  <2>1. /\ c \in Calls /\ c.pc = "drop" /\ c.refund = worker[w].refund /\ c.rev = rev
        /\ c.flag = syncPending
    BY <1>1 DEF Calls
  <2>2. worker' = [worker EXCEPT ![w] = c] /\ worker[w].pc = "read"
    BY <1>1, <1>4 DEF ReadRow
  <2> HIDE DEF c
  <2>3. worker'[w] = c
    BY <1>1, <2>1, <2>2
  <2>4. c.refund # 0 => c.refund \in Refunds /\ Moved(c.refund) /\ refund[c.refund].at <= rev
    BY <1>1, <2>1, <2>2 DEF CallFits, RefundInv, RefundCacheInv, RowFits
  <2>5. ~c.flag => dropped >= rev
    BY <1>1, <2>1 DEF RefundInv, RefundCacheInv, DroppedBeforeCleared
  <2>6. /\ rev' = rev /\ dropped' = dropped /\ refund' = refund
        /\ \A k \in Refunds : Moved(k) => Moved(k)'
    BY <1>2 DEF TablesStay, Moved
  <2>7. CallFits(w)'
    BY <1>1, <2>1, <2>3, <2>4, <2>5, <2>6 DEF CallFits
  <2> QED
    BY <1>1, <1>2, <2>1, <2>2, <2>7, QuietCallStep
<1> QED
  BY <1>3, <1>4

\* What follows the sync: the end, or the mark that the refund is completed.
LEMMA SyncedFits ==
  ASSUME RefundInv, NEW w \in RefundWorkers, worker[w].pc \in {"drop", "clear"},
         NEW flag \in BOOLEAN, ~flag => dropped >= worker[w].rev, AfterSync(w, flag),
         UNCHANGED <<refund, dropped>>
  PROVE  /\ Synced(worker[w], flag) \in Calls
         /\ worker' = [worker EXCEPT ![w] = Synced(worker[w], flag)]
         /\ CallFits(w)'
<1> DEFINE c == Synced(worker[w], flag)
<1>1. /\ worker \in [RefundWorkers -> Calls] /\ worker[w] \in Calls /\ CallFits(w)
      /\ IdleCall \in Calls /\ dropped \in Nat /\ worker[w].rev \in Nat
      /\ \A k \in Refunds : refund[k].at \in Nat
  BY CallShape DEF Calls
<1>2. worker' = [worker EXCEPT ![w] = c]
  BY DEF AfterSync
<1>3. CASE flag \/ worker[w].refund = 0
  <2>1. c = IdleCall /\ c.pc = "idle"
    BY <1>3 DEF Synced, IdleCall
  <2> HIDE DEF c
  <2>2. worker'[w] = c
    BY <1>1, <1>2
  <2>3. CallFits(w)'
    BY <2>1, <2>2 DEF CallFits
  <2> QED
    BY <1>1, <1>2, <2>1, <2>3 DEF c
<1>4. CASE ~(flag \/ worker[w].refund = 0)
  <2>1. c = [worker[w] EXCEPT !.pc = "complete"]
    BY <1>4 DEF Synced
  <2>2. c \in Calls /\ c.pc = "complete" /\ c.refund = worker[w].refund
    BY <1>1, <2>1 DEF Calls
  <2> HIDE DEF c
  <2>3. worker'[w] = c
    BY <1>1, <1>2
  <2>4. /\ worker[w].refund \in Refunds /\ Moved(worker[w].refund)
        /\ refund[worker[w].refund].at <= worker[w].rev /\ dropped >= worker[w].rev
    <3>1. worker[w].refund # 0 /\ dropped >= worker[w].rev
      BY <1>4, Zenon
    <3>2. /\ worker[w].refund \in Refunds /\ Moved(worker[w].refund)
          /\ refund[worker[w].refund].at <= worker[w].rev
      BY <1>1, <3>1 DEF CallFits
    <3> QED
      BY <3>1, <3>2
  <2>5. dropped >= refund[worker[w].refund].at
    BY <1>1, <2>4
  <2>6. CallFits(w)'
    BY <1>4, <2>2, <2>3, <2>4, <2>5 DEF CallFits, Moved
  <2> QED
    BY <1>2, <2>2, <2>6 DEF c
<1> QED
  BY <1>3, <1>4

\* The caches are dropped, or cannot be; the row's flag is cleared, or stays.
LEMMA SyncStep ==
  ASSUME RefundInv, NEW w \in RefundWorkers,
         DropCaches(w) \/ DropCachesFails(w) \/ ClearSyncPending(w)
  PROVE  RefundInv'
<1>1. /\ worker \in [RefundWorkers -> Calls] /\ worker[w] \in Calls /\ CallFits(w)
      /\ rev \in Nat /\ dropped \in Nat /\ dropped <= rev /\ syncPending \in BOOLEAN
      /\ worker[w].rev \in Nat /\ worker[w].flag \in BOOLEAN
      /\ approved \subseteq Refunds /\ \A k \in Refunds : refund[k].at \in Nat
  BY CallShape DEF Calls
<1>2. CASE DropCachesFails(w)
  <2>1. /\ worker[w].pc = "drop" /\ AfterSync(w, worker[w].flag)
        /\ TablesStay /\ approved' = approved
    BY <1>2 DEF DropCachesFails, TablesStay, money, cache
  <2>2. ~worker[w].flag => dropped >= worker[w].rev
    BY <1>1, <2>1 DEF CallFits
  <2>3. /\ Synced(worker[w], worker[w].flag) \in Calls
        /\ worker' = [worker EXCEPT ![w] = Synced(worker[w], worker[w].flag)]
        /\ CallFits(w)'
    BY <1>1, <2>1, <2>2, SyncedFits DEF TablesStay
  <2> QED
    BY <1>1, <2>1, <2>3, QuietCallStep
<1>3. CASE DropCaches(w)
  <2> DEFINE c == [worker[w] EXCEPT !.pc = "clear"]
  <2>1. /\ worker[w].pc = "drop" /\ dropped' = rev /\ worker' = [worker EXCEPT ![w] = c]
        /\ UNCHANGED <<anchored, progress, refunded, reqRefunded, wallet, tokenRemain,
                       refund, approved, rev, syncPending>>
    BY <1>1, <1>3 DEF DropCaches, money
  <2>2. /\ c \in Calls /\ c.pc = "clear" /\ c.refund = worker[w].refund
        /\ c.rev = worker[w].rev /\ c.flag = worker[w].flag
    BY <1>1 DEF Calls
  <2> HIDE DEF c
  <2>3. /\ worker' \in [RefundWorkers -> Calls] /\ worker'[w] = c
        /\ \A x \in RefundWorkers \ {w} : worker'[x] = worker[x]
    BY <1>1, <2>1, <2>2
  <2>4. RefundTypes'
    BY <1>1, <2>1, <2>3 DEF RefundInv, RefundTypes
  <2>5. CachesAdvance /\ MoneyStill
    BY <1>1, <2>1 DEF CachesAdvance, MoneyStill, Moved
  <2>6. \A k \in Refunds : RowFits(k)'
    BY <2>1, <2>4, <2>5, UntouchedRowsFit
  <2>7. dropped' <= rev' /\ DroppedBeforeCleared'
    BY <1>1, <2>1 DEF DroppedBeforeCleared
  <2>8. \A k \in Refunds : Moved(k) => Moved(k)'
    BY <2>5 DEF CachesAdvance
  <2>9. CallFits(w)'
    BY <1>1, <2>1, <2>2, <2>3, <2>8 DEF CallFits
  <2> QED
    BY <2>3, <2>4, <2>5, <2>6, <2>7, <2>9, CallStep
<1>4. CASE ClearSyncPending(w)
  <2>1. PICK flag \in BOOLEAN :
           /\ AfterSync(w, flag)
           /\ \/ worker[w].rev = rev /\ flag = FALSE /\ syncPending' = FALSE
              \/ flag = worker[w].flag /\ syncPending' = syncPending
    BY <1>1, <1>4 DEF ClearSyncPending
  <2>2. /\ worker[w].pc = "clear"
        /\ UNCHANGED <<anchored, progress, refunded, reqRefunded, wallet, tokenRemain,
                       refund, approved, rev, dropped>>
    BY <1>4 DEF ClearSyncPending, money
  <2>3. dropped >= worker[w].rev
    BY <1>1, <2>2 DEF CallFits
  <2>4. /\ Synced(worker[w], flag) \in Calls
        /\ worker' = [worker EXCEPT ![w] = Synced(worker[w], flag)]
        /\ CallFits(w)'
    BY <2>1, <2>2, <2>3, SyncedFits
  <2>5. /\ worker' \in [RefundWorkers -> Calls]
        /\ \A x \in RefundWorkers \ {w} : worker'[x] = worker[x]
    BY <1>1, <2>4
  <2>6. RefundTypes'
    BY <1>1, <2>1, <2>2, <2>5 DEF RefundInv, RefundTypes
  <2>7. CachesAdvance /\ MoneyStill
    BY <1>1, <2>2 DEF CachesAdvance, MoneyStill, Moved
  <2>8. \A k \in Refunds : RowFits(k)'
    BY <2>2, <2>6, <2>7, UntouchedRowsFit
  <2>9. dropped' <= rev' /\ DroppedBeforeCleared'
    BY <1>1, <2>1, <2>2, <2>3 DEF DroppedBeforeCleared, RefundInv, RefundCacheInv
  <2> QED
    BY <2>4, <2>5, <2>6, <2>7, <2>8, <2>9, CallStep
<1> QED
  BY <1>2, <1>3, <1>4

\* The refund is marked completed: its caches were dropped after its commit.
LEMMA CompleteStep ==
  ASSUME RefundInv, NEW w \in RefundWorkers, CompleteRefund(w)
  PROVE  RefundInv'
<1> DEFINE k == worker[w].refund
<1>1. /\ worker \in [RefundWorkers -> Calls] /\ CallFits(w) /\ IdleCall \in Calls
      /\ rev \in Nat /\ dropped \in Nat /\ dropped <= rev
      /\ refund \in [Refunds -> RefundRows] /\ \A j \in Refunds : refund[j].at \in Nat
  BY CallShape
<1>2. /\ worker[w].pc = "complete" /\ worker' = [worker EXCEPT ![w] = IdleCall]
      /\ UNCHANGED <<anchored, progress, refunded, reqRefunded, wallet, tokenRemain,
                     approved, rev, syncPending, dropped>>
      /\ refund' = IF refund[k].status = "applied"
                   THEN [refund EXCEPT ![k].status = "completed"] ELSE refund
  BY DEF CompleteRefund, money, cache
<1>3. k \in Refunds /\ Moved(k) /\ dropped >= refund[k].at
  BY <1>1, <1>2 DEF CallFits
<1> HIDE DEF k
<1>4. /\ refund' \in [Refunds -> RefundRows] /\ refund'[k].at = refund[k].at
      /\ refund'[k].quota = refund[k].quota /\ refund'[k].token = refund[k].token
      /\ refund'[k].status = "completed"
      /\ \A j \in Refunds \ {k} : refund'[j] = refund[j]
  <2>1. CASE refund[k].status = "applied"
    BY <1>1, <1>2, <1>3, <2>1 DEF RefundRows
  <2>2. CASE refund[k].status # "applied"
    BY <1>1, <1>2, <1>3, <2>2 DEF Moved
  <2> QED
    BY <2>1, <2>2
<1>5. /\ worker' \in [RefundWorkers -> Calls] /\ worker'[w] = IdleCall
      /\ \A x \in RefundWorkers \ {w} : worker'[x] = worker[x]
  BY <1>1, <1>2
<1>6. RefundTypes'
  BY <1>2, <1>4, <1>5 DEF RefundInv, RefundTypes
<1>7. CachesAdvance /\ MoneyStill
  BY <1>1, <1>2, <1>4 DEF CachesAdvance, MoneyStill, Moved
<1>8. ASSUME NEW j \in Refunds PROVE RowFits(j)'
  <2>1. CASE j = k
    <3>1. RowFits(k)
      BY <1>3 DEF RefundInv, RefundCacheInv
    <3> QED
      BY <1>2, <1>3, <1>4, <2>1, <3>1 DEF RowFits, Moved
  <2>2. CASE j # k
    BY <1>2, <1>4, <1>6, <1>7, <2>2, UntouchedRowsFit
  <2> QED
    BY <2>1, <2>2
<1>9. CallFits(w)'
  BY <1>5 DEF CallFits, IdleCall
<1>10. dropped' <= rev' /\ DroppedBeforeCleared'
  BY <1>1, <1>2 DEF DroppedBeforeCleared, RefundInv, RefundCacheInv
<1> QED
  BY <1>5, <1>6, <1>7, <1>8, <1>9, <1>10, CallStep

\* The refund that moves money is approved, and its revision is the row's.
LEMMA ApplyStep ==
  ASSUME RefundInv, NEW w \in RefundWorkers, ApplyRefund(w)
  PROVE  RefundInv'
<1> DEFINE k == worker[w].refund
<1>1. /\ worker \in [RefundWorkers -> Calls] /\ worker[w] \in Calls /\ CallFits(w)
      /\ rev \in Nat /\ dropped \in Nat /\ dropped <= rev
      /\ refund \in [Refunds -> RefundRows] /\ \A j \in Refunds : refund[j].at \in Nat
  BY CallShape
<1>2. /\ k \in Refunds /\ refund[k].status = "pending" /\ k \in approved
      /\ rev' = rev + 1 /\ syncPending' = TRUE /\ worker' = [worker EXCEPT ![w].pc = "read"]
      /\ refund' = [refund EXCEPT ![k] = [status |-> "applied", quota |-> PlanQuota(k),
                                          token |-> PlanToken(k), at |-> rev + 1]]
      /\ approved' = approved /\ dropped' = dropped
  BY <1>1 DEF ApplyRefund, CreditRefund, RefundEligible, CallFits
<1>3. RefundTypes' /\ RefundMoneyInv'
  BY ApplyMoves
<1> HIDE DEF k
<1>4. /\ refund'[k].status = "applied" /\ refund'[k].at = rev + 1
      /\ \A j \in Refunds \ {k} : refund'[j] = refund[j]
  BY <1>1, <1>2
<1>5. /\ worker'[w].pc = "read" /\ worker'[w].refund = k
      /\ \A x \in RefundWorkers \ {w} : worker'[x] = worker[x]
  BY <1>1, <1>2 DEF Calls, k
<1>6. CachesAdvance
  BY <1>1, <1>2, <1>4 DEF CachesAdvance, Moved
<1>7. ASSUME NEW j \in Refunds PROVE RowFits(j)'
  <2>1. CASE j = k
    BY <1>1, <1>2, <1>4, <2>1 DEF RowFits, Moved
  <2>2. CASE j # k
    BY <1>2, <1>3, <1>4, <1>6, <2>2, UntouchedRowsFit
  <2> QED
    BY <2>1, <2>2
<1>8. ASSUME NEW x \in RefundWorkers PROVE CallFits(x)'
  <2>1. CASE x = w
    BY <1>2, <1>4, <1>5, <2>1 DEF CallFits, Moved
  <2>2. CASE x # w
    BY <1>3, <1>5, <1>6, <2>2, UntouchedCallsFit
  <2> QED
    BY <2>1, <2>2
<1>9. dropped' <= rev' /\ DroppedBeforeCleared'
  BY <1>1, <1>2 DEF DroppedBeforeCleared
<1> QED
  BY <1>3, <1>7, <1>8, <1>9 DEF RefundInv, RefundCacheInv

\* What happens to the request beside its calls: a charge is anchored, the
\* owner is deleted, a proof is submitted, a retry pass reads its rows.
LEMMA RequestStep ==
  ASSUME RefundInv,
         \/ \E a \in ChargedAttempts : RecordZTAPISupplierRefundChargeTx(a)
         \/ DeleteOwner \/ StartRetry
         \/ \E k \in Refunds : SubmitZTAPISupplierRefund(k)
         \/ UNCHANGED refundVars
  PROVE  RefundInv'
<1>1. /\ RefundTypes /\ RefundMoneyInv /\ RefundCacheInv
      /\ rev \in Nat /\ dropped \in Nat /\ dropped <= rev
      /\ refund \in [Refunds -> RefundRows] /\ \A j \in Refunds : refund[j].at \in Nat
  BY DEF RefundInv, RefundTypes, RefundCacheInv, RefundRows
<1>2. /\ UNCHANGED <<progress, refunded, reqRefunded, wallet, tokenRemain, approved, worker,
                     dropped>>
      /\ anchored' \subseteq ChargedAttempts
      /\ \/ rev' = rev /\ syncPending' = syncPending
         \/ rev' = rev + 1 /\ syncPending' = TRUE
  BY <1>1 DEF RecordZTAPISupplierRefundChargeTx, DeleteOwner, StartRetry,
     SubmitZTAPISupplierRefund, refundVars, money, cache, RefundTypes
<1>3. /\ refund' \in [Refunds -> RefundRows]
      /\ \A k \in Refunds : \/ refund'[k] = refund[k]
                            \/ /\ ~Moved(k) /\ refund'[k].status = "pending"
                               /\ refund'[k].quota = refund[k].quota
                               /\ refund'[k].token = refund[k].token
                               /\ refund'[k].at = refund[k].at
  <2>1. CASE refund' = refund
    BY <1>1, <2>1
  <2>2. CASE \E k \in Refunds : SubmitZTAPISupplierRefund(k)
    <3>1. PICK k \in Refunds : /\ refund[k].status = "none"
                               /\ refund' = [refund EXCEPT ![k].status = "pending"]
      BY <2>2, Zenon DEF SubmitZTAPISupplierRefund
    <3> QED
      BY <1>1, <3>1 DEF RefundRows, Moved
  <2> QED
    BY <2>1, <2>2 DEF RecordZTAPISupplierRefundChargeTx, DeleteOwner, StartRetry, refundVars
<1>4. RefundTypes'
  <2>1. rev' \in Nat
    <3>1. rev' \in {rev, rev + 1}
      BY <1>2, Zenon
    <3> QED
      BY <1>1, <3>1
  <2>2. syncPending' \in BOOLEAN
    <3>1. syncPending \in BOOLEAN
      BY <1>1 DEF RefundTypes
    <3>2. syncPending' = syncPending \/ syncPending' = TRUE
      BY <1>2, Zenon
    <3> QED
      BY <3>1, <3>2, Zenon
  <2> QED
    BY <1>1, <1>2, <1>3, <2>1, <2>2 DEF RefundTypes
<1>5. CachesAdvance /\ MoneyStill
  BY <1>1, <1>2, <1>3 DEF CachesAdvance, MoneyStill, Moved
<1>6. ASSUME NEW k \in Refunds PROVE RowFits(k)'
  <2>1. CASE refund'[k] = refund[k]
    BY <1>2, <1>4, <1>5, <2>1, UntouchedRowsFit
  <2>2. CASE refund'[k] # refund[k]
    <3>1. RowFits(k)
      BY <1>1 DEF RefundCacheInv
    <3> QED
      BY <1>1, <1>2, <1>3, <2>2, <3>1 DEF RowFits, Moved
  <2> QED
    BY <2>1, <2>2
<1>7. \A x \in RefundWorkers : CallFits(x)'
  BY <1>2, <1>4, <1>5, UntouchedCallsFit
<1>8. dropped' <= rev' /\ DroppedBeforeCleared'
  BY <1>1, <1>2 DEF DroppedBeforeCleared, RefundCacheInv
<1> QED
  BY <1>1, <1>4, <1>5, <1>6, <1>7, <1>8, MoneyStays DEF RefundInv, RefundCacheInv

\* The invariant of the supplier refunds.
LEMMA RefundsAlways == RefundSpec => []RefundInv
<1>1. ASSUME RefundInv, [RefundNext]_refundVars PROVE RefundInv'
  <2>1. ASSUME NEW w \in RefundWorkers, ProcessZTAPISupplierRefund(w) \/ DropCachesFails(w)
               \/ RefundCrash(w) \/ RetryZTAPISettlementCaches(w)
        PROVE  RefundInv'
    <3>1. CASE ApplyRefund(w)
      BY <1>1, <3>1, ApplyStep
    <3>2. CASE RefundNotApplied(w) \/ RefundCrash(w) \/ RetryZTAPISettlementCaches(w)
      BY <1>1, <3>2, StartOrEndStep
    <3>3. CASE RefundAlreadyApplied(w) \/ ReadRow(w)
      BY <1>1, <3>3, ReadStep
    <3>4. CASE DropCaches(w) \/ DropCachesFails(w) \/ ClearSyncPending(w)
      BY <1>1, <3>4, SyncStep
    <3>5. CASE CompleteRefund(w)
      BY <1>1, <3>5, CompleteStep
    <3> QED
      BY <2>1, <3>1, <3>2, <3>3, <3>4, <3>5 DEF ProcessZTAPISupplierRefund
  <2>2. CASE \E w \in RefundWorkers, k \in Refunds :
               ApproveZTAPISupplierRefund(w, k) \/ RetryZTAPISupplierRefunds(w, k)
    BY <1>1, <2>2, StartOrEndStep
  <2>3. CASE \/ \E a \in ChargedAttempts : RecordZTAPISupplierRefundChargeTx(a)
             \/ DeleteOwner \/ StartRetry
             \/ \E k \in Refunds : SubmitZTAPISupplierRefund(k)
             \/ UNCHANGED refundVars
    BY <1>1, <2>3, RequestStep
  <2> QED
    BY <1>1, <2>1, <2>2, <2>3 DEF RefundNext
<1> QED
  BY <1>1, RefundInvStarts, PTL DEF RefundSpec

\* However many workers process however many proofs, the customer has got back
\* exactly the refunds that were applied, no more than was charged, and for
\* each dimension what its reversed units cost, rounding included once all of
\* them are reversed (ProcessZTAPISupplierRefund, planZTAPISupplierRefund).
THEOREM RefundsAreExact == RefundSpec => []RefundsConserved
<1>1. RefundInv => RefundsConserved
  <2> SUFFICES ASSUME RefundInv PROVE RefundsConserved
    OBVIOUS
  <2>1. ASSUME NEW a \in ChargedAttempts, NEW d \in Dims
        PROVE  LET c == ChargeOf[a][d]
                   p == progress[a][d]
               IN /\ p.units <= c.units
                  /\ p.units = c.units => p.quota = c.charged /\ p.token = c.token
                  /\ p.units # c.units => /\ p.quota * c.den <= p.units * c.num
                                          /\ p.units * c.num < (p.quota + 1) * c.den
    <3> DEFINE c == ChargeOf[a][d]
               p == progress[a][d]
    <3>1. SoundCharge(c) /\ ReversalFits(c, p) /\ p \in Reversals
      BY ChargesAreSound DEF RefundInv, RefundMoneyInv, RefundTypes
    <3> HIDE DEF c, p
    <3>2. p.units <= c.units /\ c.den \in Nat \ {0} /\ p.units \in Nat
      BY <3>1 DEF ReversalFits, SoundCharge, ChargeRecords, Reversals
    <3>3. ASSUME p.units = c.units PROVE p.quota = c.charged /\ p.token = c.token
      BY <3>1, <3>3 DEF ReversalFits, ztapiSupplierRefundTarget, TokenTarget
    <3>4. ASSUME p.units # c.units
          PROVE  p.quota * c.den <= p.units * c.num /\ p.units * c.num < (p.quota + 1) * c.den
      <4>1. p.units * c.num \in Nat /\ p.quota = (p.units * c.num) \div c.den
        BY <3>1, <3>2, <3>4, TargetIsFloor DEF ReversalFits
      <4> QED
        BY <3>2, <4>1, FloorBounds
    <3> QED
      BY <3>2, <3>3, <3>4 DEF c, p
  <2>2. BooksAgree
    BY DEF RefundInv, RefundMoneyInv
  <2> QED
    BY <2>1, <2>2 DEF RefundsConserved, SplitInvariant
<1> QED
  BY <1>1, RefundsAlways, PTL

\* A refund that moved money was approved; a completed one had the caches
\* dropped after its own commit; and no clear of the row's flag hides a commit
\* that it raced with (syncZTAPISettlementCaches, CompleteZTAPISupplierRefund).
THEOREM CompletedAreDropped == RefundSpec => []CompletedIsDropped
<1>1. RefundInv => CompletedIsDropped
  <2> SUFFICES ASSUME RefundInv PROVE CompletedIsDropped
    OBVIOUS
  <2>1. DroppedBeforeCleared /\ \A k \in Refunds : RowFits(k)
    BY DEF RefundInv, RefundCacheInv
  <2> QED
    BY <2>1 DEF CompletedIsDropped, RowFits, Moved
<1> QED
  BY <1>1, RefundsAlways, PTL

-----------------------------------------------------------------------------
(***************************************************************************)
(* Video tasks.  The inductive invariant.                                  *)
(***************************************************************************)

\* Until the submission is bound to the durable task nobody polls it.
Unbound == media.state \in {"absent", "reserved"}

UnboundFits ==
  Unbound => /\ media.charge = "none" /\ pollRows = [r \in Origins |-> "absent"]
             /\ \A p \in VideoPollers : videoPoller[p] = NoPoll

\* Where the handler is, and what it has therefore done.
StageFits ==
  /\ relay \in {"start", "reserved", "prepared", "sent", "accepted"} => Unbound
  /\ relay \in {"bound", "answered"} => ~Unbound
  /\ relay = "start" => hold.status = "none"
  /\ relay # "done" => pollRows["handler"] = "absent"
  /\ relay = "accepted" \/ ~Unbound => providerJob.status # "none"
  /\ relay = "sent" => mediaAttempts # <<>>

\* A settled hold says what the provider's usage costs, and a durable task
\* that knows an outcome has the provider's.
OutcomeFits ==
  /\ hold.status = "settled" =>
       hold = [status |-> "settled", missing |-> "none", usage |-> "confirmed",
               charged |-> MediaCharge]
  /\ media.state \in {"succeeded", "failed"} => media.state = providerJob.status

OutcomeOf(s) == IF s = "SUCCESS" THEN "succeeded" ELSE "failed"

\* What a poll has been told of a finished job is true, a row it has read was
\* unfinished, and once it has applied an outcome the durable task has it.
SeenFits(seen) ==
  /\ seen.answer.status \in {"SUCCESS", "FAILURE"} =>
       /\ providerJob.status = OutcomeOf(seen.answer.status)
       /\ seen.at = "applied" => media.state = OutcomeOf(seen.answer.status)
  /\ seen.answer.usage =>
       seen.evidence = "confirmed" /\ seen.answer.status \in {"SUCCESS", "FAILURE"}
  /\ seen.row # "none" => seen.from \in UnfinishedRows
  /\ seen.row = "none" => seen.answer.status = "UNKNOWN"
  /\ seen.at = "applied" => seen.row # "none"

PollFits(p) == videoPoller[p] # NoPoll => SeenFits(videoPoller[p])

MediaInv ==
  /\ MediaTypeOK /\ RecordsAgree
  /\ UnboundFits /\ StageFits /\ OutcomeFits
  /\ \A p \in VideoPollers : PollFits(p)

\* The initial state satisfies it.
LEMMA MediaStarts ==
  ASSUME MediaAssumption, MediaInit
  PROVE  MediaInv
  <1>1. MediaTypeOK
    <2>1. hold \in HoldType /\ media \in MediaType /\ providerJob \in JobType
      BY DEF MediaInit, HoldType, MediaType, JobType, Evidence
    <2>2. heldQuota \in 0 .. Maximum /\ mediaFaults \in 0 .. MaxMediaFaults
      BY DEF MediaInit, MediaAssumption
    <2>3. pollRows \in [Origins -> RowStates]
      BY DEF MediaInit, RowStates
    <2>4. videoPoller \in [VideoPollers -> {NoPoll} \cup FetchedType \cup PreparedType]
      BY DEF MediaInit
    <2>5. relay \in RelayStages /\ mediaAttempts \in Seq({"sent", "rejected", "accepted"})
      BY DEF MediaInit, RelayStages
    <2>6. QED
      BY <2>1, <2>2, <2>3, <2>4, <2>5 DEF MediaTypeOK
  <1>2. RecordsAgree
    BY DEF MediaInit, RecordsAgree, Origins
  <1>3. UnboundFits /\ StageFits /\ OutcomeFits
    BY DEF MediaInit, UnboundFits, StageFits, OutcomeFits, Unbound, Origins
  <1>4. \A p \in VideoPollers : PollFits(p)
    BY DEF MediaInit, PollFits
  <1>5. QED
    BY <1>1, <1>2, <1>3, <1>4 DEF MediaInv

\* A step that leaves the records alone.
LEMMA QuietMediaStep ==
  ASSUME MediaInv, relay' \in RelayStages,
         mediaAttempts' \in Seq({"sent", "rejected", "accepted"}),
         mediaFaults' \in 0 .. MaxMediaFaults,
         UNCHANGED <<hold, heldQuota, media, pollRows, providerJob, videoPoller>>,
         StageFits'
  PROVE  MediaInv' /\ OutcomeStays
  <1>1. MediaTypeOK'
    BY DEF MediaInv, MediaTypeOK
  <1>2. RecordsAgree' /\ UnboundFits' /\ OutcomeFits'
    BY DEF MediaInv, RecordsAgree, UnboundFits, OutcomeFits, Unbound
  <1>3. \A p \in VideoPollers : PollFits(p)'
    BY DEF MediaInv, PollFits, SeenFits
  <1>4. QED
    BY <1>1, <1>2, <1>3 DEF MediaInv, OutcomeStays

\* What a failed call leaves of the faults.
LEMMA MediaFaultsTyped ==
  ASSUME MediaAssumption, MediaTypeOK, MediaFault \/ UNCHANGED mediaFaults
  PROVE  mediaFaults' \in 0 .. MaxMediaFaults
  BY DEF MediaAssumption, MediaTypeOK, MediaFault

\* What is recorded of an attempt that was sent.
LEMMA OutcomeTyped ==
  ASSUME MediaInv, relay = "sent", NEW answer \in {"rejected", "accepted"}, Outcome(answer)
  PROVE  mediaAttempts' \in Seq({"sent", "rejected", "accepted"})
  <1> DEFINE S == {"sent", "rejected", "accepted"}
  <1>1. mediaAttempts \in Seq(S) /\ mediaAttempts # <<>>
    BY DEF MediaInv, MediaTypeOK, StageFits
  <1>2. Len(mediaAttempts) \in 1 .. Len(mediaAttempts) /\ answer \in S
    BY <1>1
  <1> HIDE DEF S
  <1>3. [mediaAttempts EXCEPT ![Len(mediaAttempts)] = answer] \in Seq(S)
    BY <1>1, <1>2, ExceptSeq
  <1>4. QED
    BY <1>3 DEF Outcome, S

\* The submission handler, but for what it does to the records.
LEMMA QuietHandlerStep ==
  ASSUME MediaAssumption, MediaInv,
         BeginAttempt \/ NotAccepted \/ CommitResponse \/ HandlerCrash
  PROVE  MediaInv' /\ OutcomeStays
  <1> USE DEF MediaInv
  <1>0. UNCHANGED <<hold, heldQuota, media, pollRows, providerJob, videoPoller>>
    BY DEF BeginAttempt, NotAccepted, CommitResponse, HandlerCrash
  <1>1. mediaFaults' \in 0 .. MaxMediaFaults
    BY MediaFaultsTyped DEF BeginAttempt, NotAccepted, CommitResponse, HandlerCrash
  <1>2. CASE BeginAttempt
    <2>1. mediaAttempts' \in Seq({"sent", "rejected", "accepted"})
      BY <1>2 DEF BeginAttempt, MediaTypeOK
    <2>2. relay' = "sent" => mediaAttempts' # <<>>
      BY <1>2 DEF BeginAttempt, MediaTypeOK
    <2>3. relay = "prepared" /\ relay' \in {"sent", "failed"}
      BY <1>2 DEF BeginAttempt
    <2>4. relay' \in RelayStages /\ StageFits'
      BY <1>0, <2>2, <2>3 DEF StageFits, Unbound, RelayStages
    <2>5. QED
      BY <1>0, <1>1, <2>1, <2>4, QuietMediaStep
  <1>3. CASE NotAccepted
    <2>1. mediaAttempts' \in Seq({"sent", "rejected", "accepted"})
      BY <1>3, OutcomeTyped DEF NotAccepted, MediaTypeOK
    <2>2. relay = "sent" /\ relay' \in {"reserved", "failed"}
      BY <1>3 DEF NotAccepted
    <2>3. relay' \in RelayStages /\ StageFits'
      BY <1>0, <2>2 DEF StageFits, Unbound, RelayStages
    <2>4. QED
      BY <1>0, <1>1, <2>1, <2>3, QuietMediaStep
  <1>4. CASE CommitResponse \/ HandlerCrash
    <2>1. mediaAttempts' = mediaAttempts
      BY <1>4 DEF CommitResponse, HandlerCrash
    <2>2. \/ relay = "bound" /\ relay' \in {"answered", "failed"}
          \/ relay # "done" /\ relay' = "done"
      BY <1>4 DEF CommitResponse, HandlerCrash
    <2>3. relay' \in RelayStages /\ StageFits'
      BY <1>0, <2>1, <2>2 DEF StageFits, Unbound, RelayStages
    <2>4. QED
      BY <1>0, <1>1, <2>1, <2>3, QuietMediaStep DEF MediaTypeOK
  <1>5. QED
    BY <1>2, <1>3, <1>4

\* The reservation and the preparation of the durable task, and the binding
\* of the submission to it, before anybody polls.
LEMMA UnboundStep ==
  ASSUME MediaAssumption, MediaInv,
         PreConsume \/ BeginZTAPIMediaTask \/ BindZTAPIMediaTaskSubmission
  PROVE  MediaInv' /\ OutcomeStays
  <1> USE DEF MediaInv
  <1>1. Unbound /\ relay # "done"
    BY DEF StageFits, PreConsume, BeginZTAPIMediaTask, BindZTAPIMediaTaskSubmission
  <1>2. /\ media.charge = "none" /\ pollRows = [r \in Origins |-> "absent"]
        /\ \A p \in VideoPollers : videoPoller[p] = NoPoll
    BY <1>1 DEF UnboundFits
  <1>3. UNCHANGED <<mediaAttempts, pollRows, providerJob, videoPoller>>
    BY DEF PreConsume, BeginZTAPIMediaTask, BindZTAPIMediaTaskSubmission
  <1>4. mediaFaults' \in 0 .. MaxMediaFaults
    BY MediaFaultsTyped DEF PreConsume, BeginZTAPIMediaTask, BindZTAPIMediaTaskSubmission
  <1>5. /\ hold \in HoldType /\ media \in MediaType /\ heldQuota \in 0 .. Maximum
        /\ hold.status # "settled"
    BY <1>2 DEF MediaTypeOK, RecordsAgree
  <1>6. /\ hold' \in HoldType /\ heldQuota' \in 0 .. Maximum
        /\ hold'.status # "settled" /\ (relay' = "start" => hold'.status = "none")
        /\ heldQuota' = IF hold'.status \in {"none", "released"} THEN 0 ELSE Maximum
    <2>1. CASE PreConsume
      BY <1>5, <2>1 DEF PreConsume, HoldType, MediaAssumption
    <2>2. CASE BeginZTAPIMediaTask \/ BindZTAPIMediaTaskSubmission
      BY <1>5, <2>2 DEF BeginZTAPIMediaTask, BindZTAPIMediaTaskSubmission, RecordsAgree
    <2>3. QED
      BY <2>1, <2>2
  <1>7. /\ media' \in MediaType /\ media'.charge = "none"
        /\ media'.state \in {"absent", "reserved", "submitted"}
        /\ media'.state = "submitted" => BindZTAPIMediaTaskSubmission
    <2>1. [media EXCEPT !.state = "reserved"] \in MediaType
      BY <1>5 DEF MediaType
    <2>2. [media EXCEPT !.state = "submitted"] \in MediaType
      BY <1>5 DEF MediaType
    <2>3. \/ media' = media
          \/ media' = [media EXCEPT !.state = "reserved"]
          \/ media' = [media EXCEPT !.state = "submitted"] /\ BindZTAPIMediaTaskSubmission
      BY DEF PreConsume, BeginZTAPIMediaTask, BindZTAPIMediaTaskSubmission
    <2>4. QED
      BY <1>1, <1>2, <1>5, <2>1, <2>2, <2>3 DEF MediaType, Unbound
  <1>8. MediaTypeOK'
    BY <1>3, <1>4, <1>6, <1>7
       DEF MediaTypeOK, RelayStages, PreConsume, BeginZTAPIMediaTask,
           BindZTAPIMediaTaskSubmission
  <1>9. RecordsAgree'
    BY <1>2, <1>3, <1>6, <1>7 DEF RecordsAgree, Origins
  <1>10. UnboundFits'
    BY <1>2, <1>3, <1>7 DEF UnboundFits
  <1>11. StageFits'
    <2>1. CASE BindZTAPIMediaTaskSubmission
      <3>1. \/ relay = "accepted" /\ relay' = "bound" /\ media'.state = "submitted"
            \/ relay' = "failed" /\ media' = media
        BY <1>5, <2>1 DEF BindZTAPIMediaTaskSubmission, MediaType
      <3>2. providerJob.status # "none" /\ pollRows["handler"] = "absent"
        BY <1>1, <2>1 DEF StageFits, BindZTAPIMediaTaskSubmission
      <3>3. QED
        BY <1>3, <1>1, <3>1, <3>2 DEF StageFits, Unbound
    <2>2. CASE PreConsume \/ BeginZTAPIMediaTask
      <3>1. relay' \in {"reserved", "prepared", "failed"} /\ ~BindZTAPIMediaTaskSubmission
        BY <2>2 DEF PreConsume, BeginZTAPIMediaTask, BindZTAPIMediaTaskSubmission
      <3>2. pollRows["handler"] = "absent" /\ media'.state \in {"absent", "reserved"}
        BY <1>1, <1>7, <3>1 DEF StageFits
      <3>3. QED
        BY <1>3, <3>1, <3>2 DEF StageFits, Unbound
    <2>3. QED
      BY <2>1, <2>2
  <1>12. OutcomeFits' /\ \A p \in VideoPollers : PollFits(p)'
    BY <1>2, <1>3, <1>6, <1>7 DEF OutcomeFits, PollFits
  <1>13. QED
    BY <1>2, <1>3, <1>8, <1>9, <1>10, <1>11, <1>12 DEF OutcomeStays

\* The provider accepts: nobody polls yet.
LEMMA AcceptedStep ==
  ASSUME MediaAssumption, MediaInv, processTaskSubmissionResponse
  PROVE  MediaInv' /\ OutcomeStays
  <1> USE DEF MediaInv
  <1>1. /\ relay = "sent" /\ relay' \in {"accepted", "failed"} /\ Outcome("accepted")
        /\ UNCHANGED <<hold, heldQuota, media, pollRows, videoPoller>>
    BY DEF processTaskSubmissionResponse
  <1>2. /\ Unbound /\ media.charge = "none" /\ pollRows = [r \in Origins |-> "absent"]
        /\ \A p \in VideoPollers : videoPoller[p] = NoPoll
    BY <1>1 DEF StageFits, UnboundFits
  <1>3. providerJob' \in JobType /\ providerJob'.status = "running"
    BY DEF processTaskSubmissionResponse, MediaTypeOK, JobType
  <1>4. MediaTypeOK'
    <2>1. mediaAttempts' \in Seq({"sent", "rejected", "accepted"})
      BY <1>1, OutcomeTyped
    <2>2. mediaFaults' \in 0 .. MaxMediaFaults
      BY MediaFaultsTyped DEF processTaskSubmissionResponse
    <2>3. relay' \in RelayStages
      BY <1>1 DEF RelayStages
    <2>4. QED
      BY <1>1, <1>3, <2>1, <2>2, <2>3 DEF MediaTypeOK
  <1>5. RecordsAgree'
    BY <1>1, <1>2 DEF RecordsAgree, Origins
  <1>6. UnboundFits' /\ OutcomeFits' /\ \A p \in VideoPollers : PollFits(p)'
    BY <1>1, <1>2 DEF UnboundFits, OutcomeFits, PollFits, SeenFits, Unbound
  <1>7. StageFits'
    BY <1>1, <1>2, <1>3 DEF StageFits, Unbound
  <1>8. QED
    BY <1>1, <1>4, <1>5, <1>6, <1>7 DEF OutcomeStays

\* The handler's polling row, and the end of the hold it leaves.
LEMMA EndOfHandlerStep ==
  ASSUME MediaAssumption, MediaInv, InsertTask \/ Refund
  PROVE  MediaInv' /\ OutcomeStays
  <1> USE DEF MediaInv
  <1>1. /\ relay \in {"answered", "failed"} /\ relay' = "done"
        /\ UNCHANGED <<mediaAttempts, media, providerJob, videoPoller>>
    BY DEF InsertTask, Refund
  <1>2. mediaFaults' \in 0 .. MaxMediaFaults
    BY MediaFaultsTyped DEF InsertTask, Refund
  <1>3. CASE InsertTask
    <2>1. hold' = hold /\ heldQuota' = heldQuota /\ relay = "answered"
      BY <1>3 DEF InsertTask
    <2>2. ~Unbound /\ pollRows["handler"] = "absent" /\ pollRows \in [Origins -> RowStates]
      BY <2>1 DEF StageFits, MediaTypeOK
    <2>3. \/ pollRows' = [pollRows EXCEPT !["handler"] = "NOT_START"]
          \/ pollRows' = pollRows
      BY <1>3 DEF InsertTask
    <2>4. /\ pollRows' \in [Origins -> RowStates]
          /\ \A r \in Origins :
               \/ pollRows'[r] = pollRows[r]
               \/ pollRows[r] = "absent" /\ pollRows'[r] = "NOT_START"
      BY <2>2, <2>3 DEF Origins, RowStates, UnfinishedRows
    <2>5. MediaTypeOK'
      BY <1>1, <1>2, <2>1, <2>4 DEF MediaTypeOK, RelayStages
    <2>6. RecordsAgree'
      BY <1>1, <2>1, <2>4 DEF RecordsAgree
    <2>7. UnboundFits' /\ StageFits' /\ OutcomeFits' /\ \A p \in VideoPollers : PollFits(p)'
      BY <1>1, <2>1, <2>2 DEF UnboundFits, StageFits, OutcomeFits, PollFits, SeenFits, Unbound
    <2>8. QED
      BY <1>1, <2>1, <2>4, <2>5, <2>6, <2>7 DEF OutcomeStays
  <1>4. CASE Refund
    <2>1. pollRows' = pollRows
      BY <1>4 DEF Refund
    <2>2. \/ UNCHANGED <<hold, heldQuota>>
          \/ /\ hold.status = "reserved" /\ heldQuota' = 0
             /\ hold' = [hold EXCEPT !.status = "released"]
          \/ /\ hold.status = "reserved" /\ heldQuota' = heldQuota
             /\ hold' = [hold EXCEPT !.status = "pending",
                                     !.missing = "upstream_billing_unconfirmed"]
      BY <1>4 DEF Refund
    <2>3. hold \in HoldType /\ heldQuota \in 0 .. Maximum /\ Maximum \in Nat
      BY DEF MediaTypeOK, MediaAssumption
    <2>4. /\ hold' \in HoldType /\ heldQuota' \in 0 .. Maximum
          /\ \/ UNCHANGED <<hold, heldQuota>>
             \/ hold.status = "reserved" /\ hold'.status = "released" /\ heldQuota' = 0
             \/ /\ hold.status = "reserved" /\ hold'.status = "pending"
                /\ heldQuota' = heldQuota
      <3>1. [hold EXCEPT !.status = "released"] \in HoldType
        BY <2>3 DEF HoldType
      <3>2. DEFINE kept == [hold EXCEPT !.status = "pending",
                                        !.missing = "upstream_billing_unconfirmed"]
      <3>3. kept \in HoldType /\ kept.status = "pending"
        BY <2>3 DEF HoldType
      <3>4. 0 \in 0 .. Maximum /\ [hold EXCEPT !.status = "released"].status = "released"
        BY <2>3 DEF HoldType
      <3>5. QED
        BY <2>2, <2>3, <3>1, <3>3, <3>4
    <2>5. MediaTypeOK'
      BY <1>1, <1>2, <2>1, <2>4 DEF MediaTypeOK, RelayStages
    <2>6. RecordsAgree'
      BY <1>1, <2>1, <2>4 DEF RecordsAgree
    <2>7. UnboundFits' /\ StageFits' /\ OutcomeFits' /\ \A p \in VideoPollers : PollFits(p)'
      BY <1>1, <2>1, <2>4 DEF UnboundFits, StageFits, OutcomeFits, PollFits, SeenFits, Unbound
    <2>8. OutcomeStays
      BY <1>1, <2>1, <2>4 DEF OutcomeStays, RecordsAgree
    <2>9. QED
      BY <2>5, <2>6, <2>7, <2>8
  <1>5. QED
    BY <1>3, <1>4

\* The provider ends the job, or reports its usage: what it said before stays
\* true.
LEMMA ProviderStepKeeps ==
  ASSUME MediaAssumption, MediaInv, ProviderStep
  PROVE  MediaInv' /\ OutcomeStays
  <1> USE DEF MediaInv
  <1>1. UNCHANGED <<relay, hold, heldQuota, mediaAttempts, media, pollRows, videoPoller,
                    mediaFaults>>
    BY DEF ProviderStep
  <1>2. /\ providerJob' \in JobType /\ providerJob.status # "none"
        /\ providerJob'.status # "none"
        /\ providerJob.status \in {"succeeded", "failed"} =>
             providerJob'.status = providerJob.status
    <2>1. providerJob \in JobType
      BY DEF MediaTypeOK
    <2>2. CASE providerJob.status = "running"
      <3>1. PICK s \in {"succeeded", "failed"}, u \in BOOLEAN :
              providerJob' = [status |-> s, usage |-> u]
        BY <2>2 DEF ProviderStep
      <3>2. QED
        BY <2>2, <3>1 DEF JobType
    <2>3. CASE providerJob.status \in {"succeeded", "failed"}
      <3>1. providerJob' = [providerJob EXCEPT !.usage = TRUE]
        BY <2>3 DEF ProviderStep
      <3>2. QED
        BY <2>1, <2>3, <3>1 DEF JobType
    <2>4. QED
      BY <2>2, <2>3 DEF ProviderStep
  <1>3. MediaTypeOK'
    BY <1>1, <1>2 DEF MediaTypeOK
  <1>4. media.charge = "known" => media.state \in {"succeeded", "failed"}
    BY DEF RecordsAgree, MediaTypeOK, MediaType, JobType
  <1>5. RecordsAgree'
    BY <1>1, <1>2, <1>4 DEF RecordsAgree
  <1>6. UnboundFits' /\ StageFits' /\ OutcomeFits'
    BY <1>1, <1>2 DEF UnboundFits, StageFits, OutcomeFits, Unbound
  <1>7. \A p \in VideoPollers : PollFits(p)'
    BY <1>1, <1>2 DEF PollFits, SeenFits, OutcomeOf
  <1>8. QED
    BY <1>1, <1>3, <1>5, <1>6, <1>7 DEF OutcomeStays

\* An operator's release finds a hold without a charge.
LEMMA ResolveStep ==
  ASSUME MediaAssumption, MediaInv, ResolveNoCharge
  PROVE  MediaInv' /\ OutcomeStays
  <1> USE DEF MediaInv
  <1>1. /\ hold.status = "pending" /\ hold' = [hold EXCEPT !.status = "released"]
        /\ heldQuota' = 0
        /\ UNCHANGED <<relay, mediaAttempts, media, pollRows, providerJob, videoPoller,
                       mediaFaults>>
    BY DEF ResolveNoCharge
  <1>2. hold' \in HoldType /\ hold'.status = "released" /\ 0 \in 0 .. Maximum
    BY <1>1 DEF MediaTypeOK, HoldType, MediaAssumption
  <1>3. MediaTypeOK'
    BY <1>1, <1>2 DEF MediaTypeOK
  <1>4. RecordsAgree'
    BY <1>1, <1>2 DEF RecordsAgree
  <1>5. UnboundFits' /\ StageFits' /\ OutcomeFits' /\ \A p \in VideoPollers : PollFits(p)'
    BY <1>1, <1>2 DEF UnboundFits, StageFits, OutcomeFits, PollFits, SeenFits, Unbound
  <1>6. OutcomeStays
    BY <1>1 DEF OutcomeStays, RecordsAgree
  <1>7. QED
    BY <1>3, <1>4, <1>5, <1>6

\* What the durable task is told, by what the provider answers.
LEMMA TargetIs ==
  ASSUME NEW answer \in AnswerType
  PROVE  /\ answer.status = "UNKNOWN" => Target(answer) = "unknown"
         /\ answer.status = "IN_PROGRESS" => Target(answer) = "processing"
         /\ answer.status \in {"SUCCESS", "FAILURE"} => Target(answer) = OutcomeOf(answer.status)
         /\ Target(answer) \in {"unknown", "processing", "succeeded", "failed"}
  BY DEF AnswerType, Target, OutcomeOf

\* A poll that fits leaves the others fitting.
LEMMA PollsFit ==
  ASSUME MediaInv, NEW p \in VideoPollers, NEW next,
         videoPoller' = [videoPoller EXCEPT ![p] = next],
         providerJob' = providerJob,
         media.state \in {"succeeded", "failed"} => media'.state = media.state,
         next # NoPoll => SeenFits(next)'
  PROVE  \A q \in VideoPollers : PollFits(q)'
  <1>1. ASSUME NEW q \in VideoPollers
        PROVE  PollFits(q)'
    <2>1. videoPoller \in [VideoPollers -> {NoPoll} \cup FetchedType \cup PreparedType]
      BY DEF MediaInv, MediaTypeOK
    <2>2. CASE q = p
      <3>1. videoPoller'[q] = next
        BY <2>1, <2>2
      <3>2. QED
        BY <3>1 DEF PollFits
    <2>3. CASE q # p
      <3>1. videoPoller'[q] = videoPoller[q] /\ PollFits(q)
        BY <2>1, <2>3 DEF MediaInv
      <3>2. OutcomeOf(videoPoller[q].answer.status) \in {"succeeded", "failed"}
        BY DEF OutcomeOf
      <3>3. QED
        BY <3>1, <3>2 DEF PollFits, SeenFits
    <2>4. QED
      BY <2>2, <2>3
  <1>2. QED
    BY <1>1

\* A step of one poll that leaves the records alone.
LEMMA QuietPollStep ==
  ASSUME MediaAssumption, MediaInv, NEW p \in VideoPollers, ~Unbound,
         NEW next \in {NoPoll} \cup FetchedType \cup PreparedType, PollGoes(p, next),
         next # NoPoll => SeenFits(next),
         UNCHANGED <<relay, hold, heldQuota, mediaAttempts, media, pollRows, providerJob>>,
         MediaFault \/ UNCHANGED mediaFaults
  PROVE  MediaInv' /\ OutcomeStays
  <1> USE DEF MediaInv
  <1>1. videoPoller' = [videoPoller EXCEPT ![p] = next]
    BY DEF PollGoes
  <1>2. mediaFaults' \in 0 .. MaxMediaFaults
    BY MediaFaultsTyped
  <1>3. MediaTypeOK'
    BY <1>1, <1>2 DEF MediaTypeOK
  <1>4. RecordsAgree' /\ StageFits' /\ OutcomeFits' /\ ~Unbound'
    BY DEF RecordsAgree, StageFits, OutcomeFits, Unbound
  <1>5. UnboundFits'
    BY <1>4 DEF UnboundFits
  <1>6. next # NoPoll => SeenFits(next)'
    BY DEF SeenFits
  <1>7. \A q \in VideoPollers : PollFits(q)'
    BY <1>1, <1>6, PollsFit
  <1>8. QED
    BY <1>3, <1>4, <1>5, <1>7 DEF OutcomeStays

\* Where somebody polls, the submission has been bound.
LEMMA PolledIsBound ==
  ASSUME MediaInv, NEW p \in VideoPollers,
         videoPoller[p] # NoPoll \/ \E r \in Origins : pollRows[r] # "absent"
  PROVE  ~Unbound /\ providerJob.status # "none"
  BY DEF MediaInv, UnboundFits, StageFits

\* A poll's sweep, fetch and crash.
LEMMA ReadingPollStep ==
  ASSUME MediaAssumption, MediaInv, NEW p \in VideoPollers,
         SweepTimedOut(p) \/ FetchTask(p) \/ VideoPollCrash(p)
  PROVE  MediaInv' /\ OutcomeStays
  <1>1. CASE SweepTimedOut(p)
    <2> DEFINE next == [at |-> "fetched", row |-> "none", from |-> "none",
                        answer |-> [status |-> "UNKNOWN", usage |-> FALSE],
                        evidence |-> "timeout"]
    <2>1. next \in FetchedType /\ SeenFits(next)
      BY DEF FetchedType, AnswerType, Evidence, SeenFits
    <2>2. ~Unbound
      BY <1>1, PolledIsBound DEF SweepTimedOut, UnfinishedRows
    <2>3. /\ PollGoes(p, next)
          /\ UNCHANGED <<relay, hold, heldQuota, mediaAttempts, media, pollRows, providerJob,
                         mediaFaults>>
      BY <1>1 DEF SweepTimedOut, PollGoes
    <2> HIDE DEF next
    <2>4. QED
      BY <2>1, <2>2, <2>3, QuietPollStep
  <1>2. CASE FetchTask(p)
    <2>1. PICK r \in {o \in Origins : pollRows[o] \in UnfinishedRows}, answer \in Answers :
            PollGoes(p, [at |-> "fetched", row |-> r, from |-> pollRows[r], answer |-> answer,
                         evidence |-> IF answer.usage THEN "confirmed" ELSE "none"])
      BY <1>2 DEF FetchTask, PollGoes
    <2> DEFINE next == [at |-> "fetched", row |-> r, from |-> pollRows[r], answer |-> answer,
                        evidence |-> IF answer.usage THEN "confirmed" ELSE "none"]
    <2>2. ~Unbound /\ providerJob.status # "none"
      BY <2>1, PolledIsBound DEF UnfinishedRows
    <2>3. providerJob \in JobType
      BY DEF MediaInv, MediaTypeOK
    <2>4. /\ answer \in AnswerType
          /\ answer.status \in {"SUCCESS", "FAILURE"} =>
               providerJob.status = OutcomeOf(answer.status)
          /\ answer.usage => answer.status \in {"SUCCESS", "FAILURE"}
      <3>1. /\ providerJob.status \in {"running", "succeeded", "failed"}
            /\ providerJob.usage \in BOOLEAN
        BY <2>2, <2>3 DEF JobType
      <3>2. \/ answer = [status |-> "UNKNOWN", usage |-> FALSE]
            \/ answer = [status |-> "IN_PROGRESS", usage |-> FALSE]
            \/ /\ providerJob.status = "succeeded"
               /\ \E u \in BOOLEAN : answer = [status |-> "SUCCESS", usage |-> u]
            \/ /\ providerJob.status = "failed"
               /\ \E u \in BOOLEAN : answer = [status |-> "FAILURE", usage |-> u]
        <4>1. CASE providerJob.status = "running"
          BY <4>1 DEF Answers
        <4>2. CASE providerJob.status = "succeeded"
          <5>1. [succeeded |-> "SUCCESS", failed |-> "FAILURE"][providerJob.status] = "SUCCESS"
            BY <4>2
          <5>2. QED
            BY <3>1, <4>2, <5>1 DEF Answers
        <4>3. CASE providerJob.status = "failed"
          <5>1. [succeeded |-> "SUCCESS", failed |-> "FAILURE"][providerJob.status] = "FAILURE"
            BY <4>3
          <5>2. QED
            BY <3>1, <4>3, <5>1 DEF Answers
        <4>4. QED
          BY <3>1, <4>1, <4>2, <4>3
      <3>3. PICK u \in BOOLEAN, told \in {"UNKNOWN", "IN_PROGRESS", "SUCCESS", "FAILURE"} :
              /\ answer = [status |-> told, usage |-> u]
              /\ told = "SUCCESS" => providerJob.status = "succeeded"
              /\ told = "FAILURE" => providerJob.status = "failed"
              /\ u => told \in {"SUCCESS", "FAILURE"}
        BY <3>2
      <3>4. answer \in AnswerType /\ answer.status = told /\ answer.usage = u
        BY <3>3 DEF AnswerType
      <3>5. QED
        BY <3>3, <3>4 DEF OutcomeOf
    <2>5. r \in Origins /\ r # "none" /\ pollRows[r] \in UnfinishedRows
      BY DEF Origins
    <2>6. next \in FetchedType
      BY <2>4, <2>5 DEF FetchedType, Evidence
    <2>7. SeenFits(next)
      BY <2>4, <2>5 DEF SeenFits
    <2>8. UNCHANGED <<relay, hold, heldQuota, mediaAttempts, media, pollRows, providerJob,
                      mediaFaults>>
      BY <1>2 DEF FetchTask
    <2>9. PollGoes(p, next)
      BY <2>1
    <2> HIDE DEF next
    <2>10. QED
      BY <2>2, <2>6, <2>7, <2>8, <2>9, QuietPollStep
  <1>3. CASE VideoPollCrash(p)
    <2>1. ~Unbound
      BY <1>3, PolledIsBound DEF VideoPollCrash
    <2>2. QED
      BY <1>3, <2>1, QuietPollStep DEF VideoPollCrash
  <1>4. QED
    BY <1>1, <1>2, <1>3

\* What a poll that is not idle has read.
LEMMA SeenTyped ==
  ASSUME MediaInv, NEW p \in VideoPollers, videoPoller[p] # NoPoll
  PROVE  /\ videoPoller[p] \in FetchedType \cup PreparedType
         /\ videoPoller[p].row \in Origins \cup {"none"}
         /\ videoPoller[p].from \in UnfinishedRows \cup {"none"}
         /\ videoPoller[p].answer \in AnswerType /\ videoPoller[p].evidence \in Evidence
         /\ SeenFits(videoPoller[p]) /\ ~Unbound /\ providerJob.status # "none"
  <1>1. videoPoller[p] \in FetchedType \cup PreparedType
    BY DEF MediaInv, MediaTypeOK
  <1>2. SeenFits(videoPoller[p]) /\ ~Unbound /\ providerJob.status # "none"
    BY PolledIsBound DEF MediaInv, PollFits
  <1>3. QED
    BY <1>1, <1>2 DEF FetchedType, PreparedType

\* ensureZTAPIMediaTaskProcessing and prepareZTAPIMediaTerminal.
LEMMA PrepareStep ==
  ASSUME MediaAssumption, MediaInv, NEW p \in VideoPollers, PrepareTerminal(p)
  PROVE  MediaInv' /\ OutcomeStays
  <1> DEFINE seen == videoPoller[p]
             target == Target(seen.answer)
             observe == [at |-> IF target = "processing" THEN "applied" ELSE "prepared",
                         row |-> seen.row, from |-> seen.from,
                         answer |-> seen.answer, evidence |-> seen.evidence,
                         refresh |-> /\ hold.status = "pending"
                                     /\ hold.missing = "media_charge_unknown"]
  <1>1. seen # NoPoll
    BY DEF PrepareTerminal, NoPoll
  <1>2. observe \in PreparedType
    BY <1>1, SeenTyped DEF PreparedType
  <1>3. SeenFits(observe)
    <2>1. seen.answer \in AnswerType /\ SeenFits(seen)
      BY <1>1, SeenTyped
    <2>2. target = "processing" => seen.answer.status = "IN_PROGRESS"
      BY <2>1, TargetIs DEF OutcomeOf, AnswerType
    <2>3. QED
      BY <2>1, <2>2 DEF SeenFits
  <1>4. UNCHANGED <<relay, hold, heldQuota, mediaAttempts, pollRows, providerJob, mediaFaults>>
    BY DEF PrepareTerminal
  <1>5. \/ PollGoes(p, observe) /\ media' = media
        \/ PollGoes(p, NoPoll) /\ media' = media
        \/ /\ PollGoes(p, observe) /\ media.state = "submitted"
           /\ media' = [media EXCEPT !.state = "processing"]
    BY DEF PrepareTerminal
  <1>6. ~Unbound
    BY <1>1, SeenTyped
  <1> HIDE DEF observe, target, seen
  <1>7. CASE PollGoes(p, observe) /\ media' = media
    BY <1>2, <1>3, <1>4, <1>6, <1>7, QuietPollStep
  <1>8. CASE PollGoes(p, NoPoll) /\ media' = media
    BY <1>4, <1>6, <1>8, QuietPollStep
  <1>9. CASE /\ PollGoes(p, observe) /\ media.state = "submitted"
             /\ media' = [media EXCEPT !.state = "processing"]
    <2> USE DEF MediaInv
    <2>1. media \in MediaType
      BY DEF MediaTypeOK
    <2>2. /\ media' \in MediaType /\ media'.state = "processing"
          /\ media'.charge = media.charge
      BY <1>9, <2>1 DEF MediaType
    <2>3. videoPoller' = [videoPoller EXCEPT ![p] = observe]
      BY <1>9 DEF PollGoes
    <2>4. MediaTypeOK'
      BY <1>2, <1>4, <2>2, <2>3 DEF MediaTypeOK
    <2>5. media.charge # "known"
      BY <1>9 DEF RecordsAgree, MediaTypeOK, JobType
    <2>6. RecordsAgree'
      BY <1>4, <1>9, <2>2, <2>5 DEF RecordsAgree
    <2>7. UnboundFits' /\ StageFits' /\ OutcomeFits'
      BY <1>4, <1>6, <2>2 DEF UnboundFits, StageFits, OutcomeFits, Unbound
    <2>8. PICK o : o = observe
      OBVIOUS
    <2>9. SeenFits(o)'
      <3>1. seen.answer \in AnswerType
        BY <1>1, SeenTyped DEF seen
      <3>2. o.at = "applied" => o.answer.status \notin {"SUCCESS", "FAILURE"}
        BY <2>8, <3>1, TargetIs DEF OutcomeOf, AnswerType, observe, target
      <3>3. QED
        BY <1>3, <1>4, <2>8, <3>2 DEF SeenFits
    <2>10. \A q \in VideoPollers : PollFits(q)'
      <3>1. videoPoller' = [videoPoller EXCEPT ![p] = o]
        BY <2>3, <2>8
      <3>2. QED
        BY <1>4, <1>9, <2>9, <3>1, PollsFit
    <2>11. QED
      BY <1>4, <2>4, <2>5, <2>6, <2>7, <2>10 DEF OutcomeStays
  <1>10. QED
    BY <1>5, <1>7, <1>8, <1>9

\* updateVideoSingleTask's row.
LEMMA UpdateRowStep ==
  ASSUME MediaAssumption, MediaInv, NEW p \in VideoPollers, UpdateRow(p)
  PROVE  MediaInv' /\ OutcomeStays
  <1> USE DEF MediaInv
  <1> DEFINE seen == videoPoller[p]
  <1>1. seen # NoPoll /\ seen.at = "applied"
    BY DEF UpdateRow, NoPoll
  <1>2. /\ seen.row \in Origins /\ seen.from \in UnfinishedRows /\ SeenFits(seen)
        /\ seen.answer \in AnswerType /\ ~Unbound
    BY <1>1, SeenTyped DEF SeenFits
  <1>3. /\ RowAfter(p) \in RowStates
        /\ RowAfter(p) = "SUCCESS" => media.state = "succeeded"
        /\ RowAfter(p) = "FAILURE" => media.state = "failed"
    BY <1>1, <1>2 DEF RowAfter, RowStates, UnfinishedRows, AnswerType, SeenFits, OutcomeOf
  <1>4. /\ UNCHANGED <<relay, hold, heldQuota, mediaAttempts, media, providerJob, mediaFaults>>
        /\ videoPoller' = [videoPoller EXCEPT ![p] = NoPoll]
        /\ pollRows' = [pollRows EXCEPT ![seen.row] =
                          IF @ = seen.from THEN RowAfter(p) ELSE @]
    BY DEF UpdateRow, PollGoes
  <1>5. pollRows \in [Origins -> RowStates]
    BY DEF MediaTypeOK
  <1> HIDE DEF seen
  <1>6. /\ pollRows' \in [Origins -> RowStates]
        /\ \A r \in Origins :
             \/ pollRows'[r] = pollRows[r]
             \/ pollRows[r] \in UnfinishedRows /\ pollRows'[r] = RowAfter(p)
    BY <1>2, <1>3, <1>4, <1>5
  <1>7. MediaTypeOK'
    BY <1>4, <1>6 DEF MediaTypeOK
  <1>8. RecordsAgree'
    BY <1>3, <1>4, <1>6 DEF RecordsAgree
  <1>9. UnboundFits' /\ OutcomeFits'
    BY <1>2, <1>4 DEF UnboundFits, OutcomeFits, Unbound
  <1>10. StageFits'
    BY <1>2, <1>4, <1>6 DEF StageFits, Unbound, UnfinishedRows, Origins
  <1>11. \A q \in VideoPollers : PollFits(q)'
    BY <1>4, PollsFit
  <1>12. QED
    BY <1>4, <1>6, <1>7, <1>8, <1>9, <1>10, <1>11 DEF OutcomeStays, UnfinishedRows

\* EnsureZTAPIMediaLegacyTask's row.
LEMMA RecoverStep ==
  ASSUME MediaAssumption, MediaInv, NEW p \in VideoPollers, RecoverZTAPIMediaLegacyTask(p)
  PROVE  MediaInv' /\ OutcomeStays
  <1> USE DEF MediaInv
  <1>1. /\ UNCHANGED <<relay, hold, heldQuota, mediaAttempts, media, providerJob, videoPoller,
                       mediaFaults>>
        /\ ~Unbound /\ \A r \in Origins : pollRows[r] = "absent"
        /\ \E s \in {"SUBMITTED", "IN_PROGRESS"} :
             pollRows' = [pollRows EXCEPT !["recovered"] = s]
    BY DEF RecoverZTAPIMediaLegacyTask, Unbound
  <1>2. pollRows \in [Origins -> RowStates]
    BY DEF MediaTypeOK
  <1>3. /\ pollRows' \in [Origins -> RowStates] /\ pollRows'["handler"] = "absent"
        /\ \A r \in Origins : pollRows'[r] \notin {"SUCCESS", "FAILURE"}
    BY <1>1, <1>2 DEF RowStates, UnfinishedRows, Origins
  <1>4. MediaTypeOK'
    BY <1>1, <1>3 DEF MediaTypeOK
  <1>5. RecordsAgree'
    BY <1>1, <1>3 DEF RecordsAgree
  <1>6. UnboundFits' /\ StageFits' /\ OutcomeFits' /\ \A q \in VideoPollers : PollFits(q)'
    BY <1>1, <1>3 DEF UnboundFits, StageFits, OutcomeFits, PollFits, SeenFits, Unbound
  <1>7. QED
    BY <1>1, <1>4, <1>5, <1>6 DEF OutcomeStays

\* The transaction that records an outcome or an unknown charge.
LEMMA ApplyMediaStep ==
  ASSUME MediaAssumption, MediaInv, NEW p \in VideoPollers, ApplyTerminal(p)
  PROVE  MediaInv' /\ OutcomeStays
  <1> USE DEF MediaInv
  <1> DEFINE seen == videoPoller[p]
             applied == [seen EXCEPT !.at = "applied"]
             next == IF seen.row = "none" THEN NoPoll ELSE applied
  <1>1. seen # NoPoll /\ seen.at = "prepared"
    BY DEF ApplyTerminal, NoPoll
  <1>2. /\ seen.row \in Origins \cup {"none"} /\ SeenFits(seen) /\ seen.evidence \in Evidence
        /\ seen.answer \in AnswerType /\ ~Unbound /\ seen \in PreparedType
    BY <1>1, SeenTyped DEF FetchedType
  <1>3. CASE ~(HoldAccepts(p) /\ TaskAccepts(p))
    <2>1. /\ PollGoes(p, NoPoll)
          /\ UNCHANGED <<relay, hold, heldQuota, mediaAttempts, media, pollRows, providerJob,
                         mediaFaults>>
      BY <1>3 DEF ApplyTerminal
    <2>2. QED
      BY <1>2, <2>1, QuietPollStep
  <1>4. CASE HoldAccepts(p) /\ TaskAccepts(p)
    <2>1. /\ hold' = HoldAfter(p) /\ media' = Observed(p)
          /\ heldQuota' = IF HoldAfter(p).status = "settled" THEN MediaCharge ELSE heldQuota
          /\ videoPoller' = [videoPoller EXCEPT ![p] = next]
          /\ UNCHANGED <<relay, mediaAttempts, pollRows, providerJob, mediaFaults>>
      BY <1>4 DEF ApplyTerminal, PollGoes
    <2>2. applied \in PreparedType /\ applied.answer = seen.answer
      BY <1>2 DEF PreparedType
    <2>3. /\ applied.row = seen.row /\ applied.from = seen.from
          /\ applied.evidence = seen.evidence /\ applied.at = "applied"
      BY <1>2 DEF PreparedType
    <2>4. /\ hold \in HoldType /\ media \in MediaType /\ providerJob \in JobType
          /\ heldQuota \in 0 .. Maximum /\ MediaCharge \in 0 .. Maximum /\ Maximum \in Nat
      BY DEF MediaTypeOK, MediaAssumption
    <2>5. /\ Observed(p).state = Target(seen.answer) /\ Observed(p).usage = seen.evidence
          /\ Observed(p).charge = IF seen.answer.usage THEN "known" ELSE "unknown"
      BY DEF Observed
    <2>6. /\ Target(seen.answer) \in {"unknown", "processing", "succeeded", "failed"}
          /\ seen.answer.status \in {"SUCCESS", "FAILURE"} =>
               Target(seen.answer) = OutcomeOf(seen.answer.status)
      BY <1>2, TargetIs
    <2>7. media' \in MediaType /\ ~Unbound'
      BY <1>2, <2>1, <2>5, <2>6 DEF MediaType, Observed, Unbound
    <2>8. media.state \in {"succeeded", "failed"} => media'.state = media.state
      <3>1. CASE seen.answer.usage
        BY <1>2, <2>1, <2>5, <2>6, <3>1 DEF SeenFits, OutcomeFits
      <3>2. CASE ~seen.answer.usage
        BY <1>4, <2>1, <2>5, <3>2 DEF TaskAccepts
      <3>3. QED
        BY <3>1, <3>2
    <2>9. /\ hold' \in HoldType /\ heldQuota' \in 0 .. Maximum
          /\ media'.state \in {"succeeded", "failed"} => media'.state = providerJob.status
      <3>1. HoldAfter(p) \in HoldType
        BY <1>2, <2>4 DEF HoldAfter, HoldType, Evidence
      <3>2. Target(seen.answer) \in {"succeeded", "failed"} =>
              seen.answer.status \in {"SUCCESS", "FAILURE"}
        BY <1>2, TargetIs DEF AnswerType
      <3>3. QED
        BY <1>2, <2>1, <2>4, <2>5, <2>6, <3>1, <3>2 DEF SeenFits
    <2>10. ASSUME seen.answer.usage
           PROVE  /\ RecordsAgree' /\ OutcomeFits'
                  /\ media.charge = "known" => media' = media /\ hold' = hold
      <3>1. /\ hold' = [status |-> "settled", missing |-> "none", usage |-> "confirmed",
                        charged |-> MediaCharge]
            /\ heldQuota' = MediaCharge /\ media'.charge = "known"
        BY <2>1, <2>5, <2>10 DEF HoldAfter
      <3>2. /\ seen.answer.status \in {"SUCCESS", "FAILURE"}
            /\ media'.state = providerJob.status
            /\ media'.state \in {"succeeded", "failed"}
        BY <1>2, <2>1, <2>5, <2>6, <2>10 DEF SeenFits, OutcomeOf
      <3>3. RecordsAgree'
        <4>1. \A r \in Origins : /\ pollRows'[r] = "SUCCESS" => media'.state = "succeeded"
                                 /\ pollRows'[r] = "FAILURE" => media'.state = "failed"
          BY <2>1, <2>8 DEF RecordsAgree
        <4>2. QED
          BY <2>1, <3>1, <3>2, <4>1 DEF RecordsAgree
      <3>4. OutcomeFits'
        BY <2>1, <3>1, <3>2 DEF OutcomeFits
      <3>5. media.charge = "known" => media' = media /\ hold' = hold
        <4>1. ASSUME media.charge = "known"
              PROVE  media = Observed(p) /\ hold' = hold
          <5>1. hold.status = "settled" /\ media.state = providerJob.status
            BY <4>1 DEF RecordsAgree
          <5>2. hold' = hold
            BY <3>1, <5>1 DEF OutcomeFits
          <5>3. media.state # "processing"
            BY <2>4, <5>1 DEF JobType
          <5>4. Observed(p).charge = "known"
            BY <2>5, <2>10
          <5>5. QED
            BY <1>4, <4>1, <5>2, <5>3, <5>4 DEF TaskAccepts
        <4>2. QED
          BY <2>1, <4>1
      <3>6. QED
        BY <3>3, <3>4, <3>5
    <2>11. ASSUME ~seen.answer.usage
           PROVE  /\ RecordsAgree' /\ OutcomeFits'
                  /\ media.charge = "known" => media' = media /\ hold' = hold
      <3>1. /\ hold'.status = "pending" /\ heldQuota' = heldQuota
            /\ media'.charge = "unknown" /\ hold.status \in {"reserved", "pending"}
        BY <1>4, <2>1, <2>5, <2>11 DEF HoldAfter, HoldAccepts
      <3>2. media.charge # "known" /\ heldQuota = Maximum
        BY <3>1 DEF RecordsAgree
      <3>3. RecordsAgree'
        <4>1. \A r \in Origins : /\ pollRows'[r] = "SUCCESS" => media'.state = "succeeded"
                                 /\ pollRows'[r] = "FAILURE" => media'.state = "failed"
          BY <2>1, <2>8 DEF RecordsAgree
        <4>2. QED
          BY <2>1, <3>1, <3>2, <4>1 DEF RecordsAgree
      <3>4. OutcomeFits'
        BY <2>1, <2>9, <3>1 DEF OutcomeFits
      <3>5. QED
        BY <3>2, <3>3, <3>4
    <2>12. /\ RecordsAgree' /\ OutcomeFits'
           /\ media.charge = "known" => media' = media /\ hold' = hold
      BY <2>10, <2>11
    <2>13. MediaTypeOK'
      BY <2>1, <2>2, <2>7, <2>9 DEF MediaTypeOK
    <2>14. UnboundFits' /\ StageFits'
      BY <1>2, <2>1, <2>7 DEF UnboundFits, StageFits, Unbound
    <2>15. PICK o : o = next
      OBVIOUS
    <2>16. o # NoPoll => SeenFits(o)'
      <3>1. ASSUME seen.row # "none", o = applied
            PROVE  SeenFits(o)'
        <4>1. seen.answer.status \in {"SUCCESS", "FAILURE"} =>
                media'.state = OutcomeOf(seen.answer.status)
          BY <2>1, <2>5, <2>6
        <4>2. /\ o.answer = seen.answer /\ o.evidence = seen.evidence
              /\ o.row = seen.row /\ o.from = seen.from /\ o.at = "applied"
          BY <2>2, <2>3, <3>1
        <4>3. QED
          BY <1>2, <2>1, <3>1, <4>1, <4>2 DEF SeenFits
      <3>2. QED
        BY <2>15, <3>1
    <2>17. \A q \in VideoPollers : PollFits(q)'
      <3>1. videoPoller' = [videoPoller EXCEPT ![p] = o]
        BY <2>1, <2>15
      <3>2. QED
        BY <2>1, <2>8, <2>16, <3>1, PollsFit
    <2>18. QED
      BY <2>1, <2>12, <2>13, <2>14, <2>17 DEF OutcomeStays
  <1>5. QED
    BY <1>3, <1>4

\* Every step keeps the invariant, and what the customer has been shown.
LEMMA MediaStepKeeps ==
  ASSUME MediaAssumption, MediaInv, MediaNext
  PROVE  MediaInv' /\ OutcomeStays
  <1>1. ASSUME NEW p \in VideoPollers, VideoPoll(p)
        PROVE  MediaInv' /\ OutcomeStays
    BY <1>1, RecoverStep, ReadingPollStep, PrepareStep, ApplyMediaStep, UpdateRowStep
       DEF VideoPoll
  <1>2. CASE Handler
    BY <1>2, QuietHandlerStep, UnboundStep, AcceptedStep, EndOfHandlerStep DEF Handler
  <1>3. QED
    BY <1>1, <1>2, ProviderStepKeeps, ResolveStep DEF MediaNext

\* The invariant holds in every reachable state, and every step keeps what the
\* customer has been shown.
LEMMA MediaAlways ==
  ASSUME MediaAssumption
  PROVE  MediaSpec => []MediaInv /\ [][OutcomeStays]_mediaVars
  <1>1. MediaInit => MediaInv
    BY MediaStarts
  <1>2. MediaInv /\ [MediaNext]_mediaVars => MediaInv' /\ [OutcomeStays]_mediaVars
    <2>1. ASSUME MediaInv, UNCHANGED mediaVars
          PROVE  MediaInv'
      <3>1. MediaTypeOK' /\ RecordsAgree' /\ UnboundFits' /\ StageFits' /\ OutcomeFits'
        BY <2>1 DEF mediaVars, MediaInv, MediaTypeOK, RecordsAgree, UnboundFits, StageFits,
                    OutcomeFits, Unbound
      <3>2. \A p \in VideoPollers : PollFits(p)'
        BY <2>1 DEF mediaVars, MediaInv, PollFits, SeenFits
      <3>3. QED
        BY <3>1, <3>2 DEF MediaInv
    <2>2. QED
      BY <2>1, MediaStepKeeps
  <1>3. QED
    BY <1>1, <1>2, PTL DEF MediaSpec

\* A durable video request, whatever is lost, retried, swept or applied late by
\* however many polling processes: the hold, the wallet, the durable task and
\* the polling rows agree, and what the customer has been shown stays
\* (ApplyZTAPIMediaTaskTerminalObservation, updateVideoSingleTask).
THEOREM VideoRecordsAgree ==
  ASSUME MediaAssumption
  PROVE  MediaSpec => []RecordsAgree /\ VideoTaskOutcome
  <1>1. MediaInv => RecordsAgree
    BY DEF MediaInv
  <1>2. QED
    BY <1>1, MediaAlways, PTL DEF VideoTaskOutcome

\* The records and what polls have read of them keep their types.
THEOREM VideoRecordsStayTyped ==
  ASSUME MediaAssumption
  PROVE  MediaSpec => []MediaTypeOK
  <1>1. MediaInv => MediaTypeOK
    BY DEF MediaInv
  <1>2. QED
    BY <1>1, MediaAlways, PTL

-----------------------------------------------------------------------------
(***************************************************************************)
(* Tasks of the older billing.  The inductive invariant.                   *)
(***************************************************************************)
FundingStages == {"refund", "reprice"}
BilledStages == {"refundKey", "repriceKey"}

\* A poller that has won the row of a task and bills it.
Bills(p, t) == /\ poller[p] # NoTaskPoll /\ poller[p].task = t
               /\ poller[p].at \in FundingStages \cup BilledStages

\* One poller bills a video, which nobody has billed before its row is final.
ClipFits(t) ==
  /\ \A p, q \in Pollers : Bills(p, t) /\ Bills(q, t) => p = q
  /\ taskRow[t] \notin Final => adjusts[t] = 0 /\ \A p \in Pollers : ~Bills(p, t)
  /\ adjusts[t] \in {0, 1} /\ (adjusts[t] = 0 => fundingUsed[t] = Quota)
  /\ fundingUsed[t] \in {Quota, Actual, 0} /\ keyUsed[t] \in {Quota, fundingUsed[t]}
  /\ fundingUsed[t] = 0 => taskRow[t] = "FAILURE"

\* What the poller of a video is about to do is still to be done.
ClipPollFits(seen) ==
  seen.task \notin Suno =>
    /\ ~seen.saves /\ seen.at # "save"
    /\ seen.at \in FundingStages => adjusts[seen.task] = 0
    /\ seen.at = "refund" => taskRow[seen.task] = "FAILURE"
    /\ seen.at \in BilledStages => keyUsed[seen.task] = Quota
    /\ seen.at = "refundKey" => fundingUsed[seen.task] = 0
    /\ seen.at = "repriceKey" => fundingUsed[seen.task] = Actual

\* A song is refunded and never repriced.
SongPollFits(seen) ==
  seen.task \in Suno =>
    /\ seen.at \notin {"reprice", "repriceKey"}
    /\ seen.at \in {"cas", "refund", "refundKey"} => seen.to = "FAILURE"
    /\ seen.at \in {"listed", "save"} => seen.saves

\* The only poller refunds a song once more after each fault: what it is about
\* to refund, or may list again, is refunded at most once per fault so far.
SongFits(p, t) ==
  LET seen == poller[p]
      on == seen # NoTaskPoll /\ seen.task = t
  IN /\ adjusts[t] <= 1 + pollFaults
     /\ on /\ seen.at \in {"listed", "cas", "refund"} => adjusts[t] <= pollFaults
     /\ on /\ seen.at = "save" /\ seen.to # "FAILURE" => adjusts[t] <= pollFaults
     /\ ~on /\ taskRow[t] \notin Final => adjusts[t] <= pollFaults
     /\ on /\ ~seen.saves /\ seen.at \in {"refund", "refundKey"} => taskRow[t] \in Final

PollingInv ==
  /\ PollingTypeOK
  /\ \A t \in Tasks \ Suno : ClipFits(t)
  /\ \A p \in Pollers : poller[p] # NoTaskPoll =>
                         ClipPollFits(poller[p]) /\ SongPollFits(poller[p])
  /\ \A p \in Pollers, t \in Suno : Pollers = {p} => SongFits(p, t)

\* The initial state satisfies it.
LEMMA PollingStarts ==
  ASSUME PollingAssumption, PollingInit
  PROVE  PollingInv
  <1>1. PollingTypeOK
    BY DEF PollingInit, PollingAssumption, PollingTypeOK
  <1>2. \A t \in Tasks \ Suno : ClipFits(t)
    BY DEF PollingInit, PollingAssumption, ClipFits, Bills
  <1>3. \A p \in Pollers : poller[p] = NoTaskPoll
    BY DEF PollingInit
  <1>4. \A p \in Pollers, t \in Suno : SongFits(p, t)
    BY <1>3 DEF PollingInit, PollingAssumption, SongFits
  <1>5. QED
    BY <1>1, <1>2, <1>3, <1>4 DEF PollingInv

\* What a failed call leaves of the faults.
LEMMA PollFaultsTyped ==
  ASSUME PollingAssumption, PollingTypeOK, PollFault \/ UNCHANGED pollFaults
  PROVE  /\ pollFaults \in Nat /\ pollFaults' \in 0 .. MaxPollFaults
         /\ pollFaults' \in Nat /\ pollFaults <= pollFaults'
         /\ PollFault => pollFaults' = pollFaults + 1
  BY DEF PollingAssumption, PollingTypeOK, PollFault

\* A poller's turn, by what it goes on with.
LEMMA PollerAfter ==
  ASSUME PollingInv, NEW p \in Pollers, NEW next, Goes(p, next)
  PROVE  /\ poller'[p] = next
         /\ \A q \in Pollers \ {p} : poller'[q] = poller[q]
         /\ next \in {NoTaskPoll} \cup TaskPollType =>
              poller' \in [Pollers -> {NoTaskPoll} \cup TaskPollType]
  BY DEF PollingInv, PollingTypeOK, Goes

\* What a poller that is not idle has read.
LEMMA SeenTaskTyped ==
  ASSUME PollingInv, NEW p \in Pollers, poller[p] # NoTaskPoll
  PROVE  /\ poller[p] \in TaskPollType /\ poller[p].task \in Tasks
         /\ poller[p].at \in {"listed", "cas", "save", "refund", "reprice", "refundKey",
                             "repriceKey"}
         /\ poller[p].from \in Unfinished /\ poller[p].to \in Unfinished \cup Final
         /\ poller[p].saves \in BOOLEAN
         /\ ClipPollFits(poller[p]) /\ SongPollFits(poller[p])
  <1>1. poller[p] \in TaskPollType
    BY DEF PollingInv, PollingTypeOK
  <1>2. ClipPollFits(poller[p]) /\ SongPollFits(poller[p])
    BY DEF PollingInv
  <1>3. QED
    BY <1>1, <1>2 DEF TaskPollType

\* A turn that changes neither rows nor money and starts billing no video.
LEMMA TurnKeeps ==
  ASSUME PollingAssumption, PollingInv, NEW p \in Pollers,
         NEW next \in {NoTaskPoll} \cup TaskPollType, Goes(p, next),
         UNCHANGED <<taskRow, fundingUsed, keyUsed, adjusts, taskJob>>,
         PollFault \/ UNCHANGED pollFaults,
         next # NoTaskPoll => /\ ClipPollFits(next) /\ SongPollFits(next)
                              /\ next.at \in FundingStages \cup BilledStages =>
                                   next.task \in Suno,
         \A t \in Suno : Pollers = {p} => SongFits(p, t)'
  PROVE  PollingInv'
  <1>1. /\ poller'[p] = next
        /\ \A q \in Pollers \ {p} : poller'[q] = poller[q]
        /\ poller' \in [Pollers -> {NoTaskPoll} \cup TaskPollType]
    BY PollerAfter
  <1>2. PollingTypeOK'
    BY <1>1, PollFaultsTyped DEF PollingInv, PollingTypeOK
  <1>3. ASSUME NEW t \in Tasks \ Suno
        PROVE  ClipFits(t)'
    <2>1. ClipFits(t)
      BY DEF PollingInv
    <2>2. \A q \in Pollers : Bills(q, t)' => Bills(q, t)
      BY <1>1 DEF Bills
    <2>3. QED
      BY <2>1, <2>2 DEF ClipFits
  <1>4. ASSUME NEW q \in Pollers, (poller[q] # NoTaskPoll)'
        PROVE  (ClipPollFits(poller[q]) /\ SongPollFits(poller[q]))'
    <2>1. poller'[q] # NoTaskPoll => ClipPollFits(poller'[q]) /\ SongPollFits(poller'[q])
      BY <1>1 DEF PollingInv
    <2>2. QED
      BY <1>4, <2>1 DEF ClipPollFits, SongPollFits
  <1>5. \A q \in Pollers, t \in Suno : Pollers = {q} => SongFits(q, t)'
    OBVIOUS
  <1>6. QED
    BY <1>2, <1>3, <1>4, <1>5 DEF PollingInv

\* A pass lists an unfinished row, or the sweep takes it.
LEMMA ListStep ==
  ASSUME PollingAssumption, PollingInv, NEW p \in Pollers, NEW t \in Tasks,
         SweepTimedOutTasks(p, t) \/ ListUnfinished(p, t)
  PROVE  PollingInv'
  <1>1. PICK at \in {"listed", "cas"}, to \in Unfinished \cup Final, saves \in BOOLEAN :
          /\ Goes(p, [at |-> at, task |-> t, from |-> taskRow[t], to |-> to, saves |-> saves])
          /\ saves => t \in Suno
          /\ IF at = "cas" THEN to = "FAILURE" ELSE t \in Suno => saves
    <2>1. CASE SweepTimedOutTasks(p, t)
      <3>1. Goes(p, [at |-> "cas", task |-> t, from |-> taskRow[t], to |-> "FAILURE",
                     saves |-> FALSE])
        BY <2>1 DEF SweepTimedOutTasks
      <3>2. "FAILURE" \in Unfinished \cup Final
        BY DEF Final
      <3>3. QED
        BY <3>1, <3>2
    <2>2. CASE ListUnfinished(p, t)
      <3>1. /\ Goes(p, [at |-> "listed", task |-> t, from |-> taskRow[t],
                        to |-> taskRow[t], saves |-> t \in Suno])
            /\ taskRow[t] \in Unfinished
        BY <2>2 DEF ListUnfinished
      <3>2. PICK saves \in BOOLEAN : saves <=> t \in Suno
        OBVIOUS
      <3>3. [at |-> "listed", task |-> t, from |-> taskRow[t], to |-> taskRow[t],
             saves |-> t \in Suno]
              = [at |-> "listed", task |-> t, from |-> taskRow[t], to |-> taskRow[t],
                 saves |-> saves]
        BY <3>2
      <3>4. QED
        BY <3>1, <3>2, <3>3
    <2>3. QED
      BY <2>1, <2>2
  <1>2. /\ poller[p] = NoTaskPoll /\ taskRow[t] \in Unfinished
        /\ UNCHANGED <<taskRow, fundingUsed, keyUsed, adjusts, taskJob, pollFaults>>
    BY DEF SweepTimedOutTasks, ListUnfinished
  <1>3. PICK next : next = [at |-> at, task |-> t, from |-> taskRow[t], to |-> to,
                            saves |-> saves]
    OBVIOUS
  <1>4. next \in TaskPollType
    BY <1>2, <1>3 DEF TaskPollType
  <1>5. ClipPollFits(next) /\ SongPollFits(next)
    BY <1>1, <1>3 DEF ClipPollFits, SongPollFits, FundingStages, BilledStages
  <1>6. ASSUME NEW u \in Suno, Pollers = {p}
        PROVE  SongFits(p, u)'
    <2>1. SongFits(p, u)
      BY <1>6 DEF PollingInv
    <2>2. poller'[p] = next
      BY <1>1, <1>3, PollerAfter
    <2>3. taskRow[t] \notin Final
      BY <1>2 DEF Unfinished, Final
    <2>4. QED
      BY <1>1, <1>2, <1>3, <2>1, <2>2, <2>3 DEF SongFits
  <1>7. next.at \notin FundingStages \cup BilledStages
    BY <1>1, <1>3 DEF FundingStages, BilledStages
  <1>8. QED
    BY <1>1, <1>2, <1>3, <1>4, <1>5, <1>6, <1>7, TurnKeeps

\* What the provider, or a failed call, says of a task that was listed.
LEMMA FetchStep ==
  ASSUME PollingAssumption, PollingInv, NEW p \in Pollers, Fetch(p)
  PROVE  PollingInv'
  <1> DEFINE seen == poller[p]
  <1>1. seen # NoTaskPoll /\ seen.at = "listed"
    BY DEF Fetch, NoTaskPoll
  <1>2. /\ seen \in TaskPollType /\ seen.task \in Tasks
        /\ ClipPollFits(seen) /\ SongPollFits(seen)
    BY <1>1, SeenTaskTyped
  <1>3. PICK at \in {"cas", "refund", "save"}, to \in {"IN_PROGRESS"} \cup Final :
          /\ Goes(p, [seen EXCEPT !.at = at, !.to = to])
          /\ seen.task \notin Suno => at = "cas"
          /\ seen.task \in Suno => IF to = "FAILURE" THEN at = "refund" ELSE at = "save"
    <2>1. taskJob[seen.task] \in {"running"} \cup Final
      BY <1>2 DEF PollingInv, PollingTypeOK
    <2> DEFINE told == IF taskJob[seen.task] = "running" THEN "IN_PROGRESS"
                       ELSE taskJob[seen.task]
               stage == IF seen.task \notin Suno THEN "cas"
                        ELSE IF told = "FAILURE" THEN "refund" ELSE "save"
    <2>2. /\ told \in {"IN_PROGRESS"} \cup Final /\ stage \in {"cas", "refund", "save"}
          /\ "FAILURE" \in {"IN_PROGRESS"} \cup Final
      BY <2>1 DEF Final
    <2>3. \/ Goes(p, [seen EXCEPT !.at = stage, !.to = told])
          \/ seen.task \notin Suno /\ Goes(p, [seen EXCEPT !.at = "cas", !.to = "FAILURE"])
      BY DEF Fetch
    <2>4. QED
      BY <2>2, <2>3
  <1>4. PICK next : next = [seen EXCEPT !.at = at, !.to = to]
    OBVIOUS
  <1>5. /\ next.at = at /\ next.to = to /\ next.task = seen.task /\ next.from = seen.from
        /\ next.saves = seen.saves
    BY <1>2, <1>4 DEF TaskPollType
  <1>6. next \in TaskPollType
    BY <1>2, <1>4 DEF TaskPollType, Unfinished, Final
  <1>7. /\ UNCHANGED <<taskRow, fundingUsed, keyUsed, adjusts, taskJob>>
        /\ PollFault \/ UNCHANGED pollFaults
    BY DEF Fetch
  <1> HIDE DEF seen
  <1>8. ClipPollFits(next) /\ SongPollFits(next)
    BY <1>1, <1>2, <1>3, <1>5
       DEF ClipPollFits, SongPollFits, FundingStages, BilledStages
  <1>9. next.at \in FundingStages \cup BilledStages => next.task \in Suno
    BY <1>3, <1>5 DEF FundingStages, BilledStages
  <1>10. ASSUME NEW u \in Suno, Pollers = {p}
         PROVE  SongFits(p, u)'
    <2>1. SongFits(p, u) /\ u \in Tasks
      BY <1>10 DEF PollingInv, PollingAssumption
    <2>2. poller'[p] = next
      BY <1>3, <1>4, PollerAfter
    <2>3. adjusts[u] \in Nat
      BY <2>1 DEF PollingInv, PollingTypeOK
    <2>4. pollFaults \in Nat /\ pollFaults' \in Nat /\ pollFaults <= pollFaults'
      BY <1>7, PollFaultsTyped DEF PollingInv
    <2>5. seen.task \in Suno => seen.saves
      BY <1>1, <1>2 DEF SongPollFits
    <2>6. QED
      BY <1>1, <1>3, <1>5, <1>7, <2>1, <2>2, <2>3, <2>4, <2>5 DEF SongFits, seen
  <1>11. QED
    BY <1>3, <1>4, <1>6, <1>7, <1>8, <1>9, <1>10, TurnKeeps

\* A crash, a lost compare-and-set and a failed adjustment end the turn, or
\* what is left of it is to save a song.
LEMMA GivenUpStep ==
  ASSUME PollingAssumption, PollingInv, NEW p \in Pollers,
         \/ PollerCrash(p) \/ AdjustFails(p)
         \/ UpdateWithStatus(p) /\ taskRow[poller[p].task] # poller[p].from
  PROVE  PollingInv'
  <1> DEFINE seen == poller[p]
  <1>1. seen # NoTaskPoll
    BY DEF PollerCrash, AdjustFails, UpdateWithStatus, NoTaskPoll
  <1>2. /\ seen \in TaskPollType /\ seen.task \in Tasks
        /\ ClipPollFits(seen) /\ SongPollFits(seen)
    BY <1>1, SeenTaskTyped
  <1>3. \/ Goes(p, NoTaskPoll)
        \/ /\ AdjustFails(p) /\ seen.saves
           /\ Goes(p, [seen EXCEPT !.at = "save"])
    BY DEF PollerCrash, AdjustFails, UpdateWithStatus, Left
  <1>4. /\ UNCHANGED <<taskRow, fundingUsed, keyUsed, adjusts, taskJob>>
        /\ PollFault \/ UNCHANGED pollFaults
    BY DEF PollerCrash, AdjustFails, UpdateWithStatus
  <1>5. PICK next : /\ Goes(p, next)
                    /\ \/ next = NoTaskPoll
                       \/ AdjustFails(p) /\ seen.saves /\ next = [seen EXCEPT !.at = "save"]
    BY <1>3
  <1>6. next # NoTaskPoll =>
          /\ next.at = "save" /\ next.to = seen.to /\ next.task = seen.task
          /\ next.saves = seen.saves /\ next \in TaskPollType
    BY <1>2, <1>5 DEF TaskPollType
  <1>7. next # NoTaskPoll => AdjustFails(p) /\ seen.saves /\ seen.task \in Suno
    BY <1>2, <1>5 DEF ClipPollFits
  <1> HIDE DEF seen
  <1>8. next # NoTaskPoll =>
          /\ ClipPollFits(next) /\ SongPollFits(next)
          /\ next.at \notin FundingStages \cup BilledStages
    BY <1>6, <1>7 DEF ClipPollFits, SongPollFits, FundingStages, BilledStages
  <1>9. ASSUME NEW u \in Suno, Pollers = {p}
        PROVE  SongFits(p, u)'
    <2>1. SongFits(p, u) /\ u \in Tasks
      BY <1>9 DEF PollingInv, PollingAssumption
    <2>2. poller'[p] = next
      BY <1>5, PollerAfter
    <2>3. adjusts[u] \in Nat
      BY <2>1 DEF PollingInv, PollingTypeOK
    <2>4. /\ pollFaults \in Nat /\ pollFaults' \in Nat /\ pollFaults <= pollFaults'
          /\ PollFault => pollFaults' = pollFaults + 1
      BY <1>4, PollFaultsTyped DEF PollingInv
    <2>5. CASE PollFault
      <3>1. adjusts[u] <= pollFaults'
        BY <2>1, <2>3, <2>4, <2>5 DEF SongFits
      <3>2. QED
        BY <1>4, <1>6, <2>2, <2>3, <2>4, <3>1 DEF SongFits
    <2>6. CASE ~PollFault
      <3>1. \/ /\ UpdateWithStatus(p) /\ next = NoTaskPoll /\ seen.at = "cas"
            \/ AdjustFails(p) /\ seen.at = "reprice"
        BY <1>5, <2>6 DEF PollerCrash, AdjustFails, UpdateWithStatus, seen
      <3>2. seen.at = "reprice" => seen.task # u
        BY <1>2 DEF SongPollFits
      <3>3. adjusts[u] <= 1 + pollFaults'
        BY <2>1, <2>3, <2>4 DEF SongFits
      <3>4. taskRow[u] \notin Final /\ (seen.task # u \/ seen.at = "cas") =>
              adjusts[u] <= pollFaults'
        BY <2>1, <2>3, <2>4 DEF SongFits, seen
      <3>5. next # NoTaskPoll => next.task # u
        BY <1>6, <3>1, <3>2 DEF UpdateWithStatus, AdjustFails
      <3>6. QED
        BY <1>4, <2>2, <3>1, <3>2, <3>3, <3>4, <3>5 DEF SongFits
    <2>7. QED
      BY <2>5, <2>6
  <1>10. QED
    BY <1>4, <1>5, <1>6, <1>8, <1>9, TurnKeeps

\* A row that is inserted, or lost, and a job that ends.
LEMMA TaskStep ==
  ASSUME PollingAssumption, PollingInv, NEW t \in Tasks, Insert(t) \/ ProviderEnds(t)
  PROVE  PollingInv'
  <1>1. /\ UNCHANGED <<fundingUsed, keyUsed, adjusts, poller>>
        /\ PollFault \/ UNCHANGED pollFaults
    BY DEF Insert, ProviderEnds
  <1>2. /\ taskRow \in [Tasks -> {"absent", "lost"} \cup Unfinished \cup Final]
        /\ taskJob \in [Tasks -> {"running"} \cup Final]
    BY DEF PollingInv, PollingTypeOK
  <1>3. /\ taskRow' \in [Tasks -> {"absent", "lost"} \cup Unfinished \cup Final]
        /\ \A u \in Tasks :
             \/ taskRow'[u] = taskRow[u]
             \/ taskRow[u] \notin Final /\ taskRow'[u] \notin Final
    <2>1. "SUBMITTED" \in Unfinished \ Final /\ "lost" \notin Final /\ "absent" \notin Final
      BY DEF Unfinished, Final
    <2>2. \/ taskRow' = taskRow
          \/ /\ taskRow[t] = "absent"
             /\ \E s \in {"SUBMITTED", "lost"} : taskRow' = [taskRow EXCEPT ![t] = s]
      BY DEF Insert, ProviderEnds
    <2>3. QED
      BY <1>2, <2>1, <2>2
  <1>4. taskJob' \in [Tasks -> {"running"} \cup Final]
    BY <1>2 DEF Insert, ProviderEnds
  <1>5. PollingTypeOK'
    BY <1>1, <1>3, <1>4, PollFaultsTyped DEF PollingInv, PollingTypeOK
  <1>6. "FAILURE" \in Final
    BY DEF Final
  <1>7. ASSUME NEW u \in Tasks \ Suno
        PROVE  ClipFits(u)'
    <2>1. ClipFits(u)
      BY DEF PollingInv
    <2>2. QED
      BY <1>1, <1>3, <1>6, <2>1 DEF ClipFits, Bills
  <1>8. ASSUME NEW p \in Pollers, (poller[p] # NoTaskPoll)'
        PROVE  (ClipPollFits(poller[p]) /\ SongPollFits(poller[p]))'
    <2>1. ClipPollFits(poller[p]) /\ SongPollFits(poller[p]) /\ poller[p].task \in Tasks
      BY <1>1, <1>8, SeenTaskTyped
    <2>2. QED
      BY <1>1, <1>3, <1>6, <2>1 DEF ClipPollFits, SongPollFits
  <1>9. ASSUME NEW p \in Pollers, NEW u \in Suno, Pollers = {p}
        PROVE  SongFits(p, u)'
    <2>1. SongFits(p, u) /\ u \in Tasks
      BY <1>9 DEF PollingInv, PollingAssumption
    <2>2. adjusts[u] \in Nat
      BY <2>1 DEF PollingInv, PollingTypeOK
    <2>3. pollFaults \in Nat /\ pollFaults' \in Nat /\ pollFaults <= pollFaults'
      BY <1>1, PollFaultsTyped DEF PollingInv
    <2>4. QED
      BY <1>1, <1>3, <2>1, <2>2, <2>3 DEF SongFits
  <1>10. QED
    BY <1>5, <1>7, <1>8, <1>9 DEF PollingInv

\* A turn that writes the row of its task: a failed channel, a won
\* compare-and-set, or a song's save.
LEMMA WriteStep ==
  ASSUME PollingAssumption, PollingInv, NEW p \in Pollers,
         \/ FailChannelTasks(p) \/ SaveSuno(p)
         \/ UpdateWithStatus(p) /\ taskRow[poller[p].task] = poller[p].from
  PROVE  PollingInv'
  <1> DEFINE seen == poller[p]
             t == seen.task
  <1>1. seen # NoTaskPoll
    BY DEF FailChannelTasks, SaveSuno, UpdateWithStatus, NoTaskPoll
  <1>2. /\ seen \in TaskPollType /\ t \in Tasks /\ seen.from \in Unfinished
        /\ seen.to \in Unfinished \cup Final
        /\ ClipPollFits(seen) /\ SongPollFits(seen)
    BY <1>1, SeenTaskTyped
  <1>3. PICK next, s :
          /\ Goes(p, next) /\ taskRow' = [taskRow EXCEPT ![t] = s]
          /\ s \in Unfinished \cup Final
          /\ \/ /\ seen.at = "listed" /\ s = "FAILURE" /\ next = NoTaskPoll /\ PollFault
             \/ seen.at = "save" /\ s = seen.to /\ next = NoTaskPoll
             \/ /\ seen.at = "cas" /\ s = seen.to /\ next = AfterWrite(seen)
                /\ taskRow[t] = seen.from
    BY <1>2 DEF FailChannelTasks, SaveSuno, UpdateWithStatus, Final
  <1>4. /\ UNCHANGED <<fundingUsed, keyUsed, adjusts, taskJob>>
        /\ PollFault \/ UNCHANGED pollFaults
    BY DEF FailChannelTasks, SaveSuno, UpdateWithStatus
  <1>5. next # NoTaskPoll =>
          /\ next \in TaskPollType /\ seen.at = "cas" /\ s = seen.to
          /\ next.task = t /\ next.to = seen.to /\ next.saves = seen.saves
          /\ \/ next.at = "refund" /\ s = "FAILURE"
             \/ next.at = "reprice" /\ s = "SUCCESS"
    BY <1>2, <1>3 DEF AfterWrite, TaskPollType
  <1>6. next = NoTaskPoll /\ seen.at = "cas" => s \notin Final
    BY <1>2, <1>3 DEF AfterWrite, TaskPollType, NoTaskPoll, Final
  <1>7. /\ poller'[p] = next
        /\ \A q \in Pollers \ {p} : poller'[q] = poller[q]
        /\ poller' \in [Pollers -> {NoTaskPoll} \cup TaskPollType]
    BY <1>3, <1>5, PollerAfter
  <1>8. /\ taskRow \in [Tasks -> {"absent", "lost"} \cup Unfinished \cup Final]
        /\ taskRow' \in [Tasks -> {"absent", "lost"} \cup Unfinished \cup Final]
        /\ taskRow'[t] = s /\ \A u \in Tasks \ {t} : taskRow'[u] = taskRow[u]
    BY <1>2, <1>3 DEF PollingInv, PollingTypeOK
  <1>9. PollingTypeOK'
    BY <1>4, <1>7, <1>8, PollFaultsTyped DEF PollingInv, PollingTypeOK
  <1>10. Unfinished \cap Final = {} /\ "FAILURE" \in Final /\ "SUCCESS" \in Final
    BY DEF Unfinished, Final
  <1>11. t \notin Suno => seen.at # "save"
    BY <1>2 DEF ClipPollFits
  <1>12. ASSUME t \notin Suno, s # "FAILURE" \/ next # NoTaskPoll
         PROVE  /\ adjusts[t] = 0 /\ fundingUsed[t] = Quota
                /\ \A q \in Pollers : ~Bills(q, t)
    <2>1. taskRow[t] \notin Final
      BY <1>2, <1>3, <1>10, <1>11, <1>12
    <2>2. QED
      BY <1>2, <1>12, <2>1 DEF PollingInv, ClipFits
  <1> HIDE DEF seen
  <1>13. ASSUME NEW u \in Tasks \ Suno
         PROVE  ClipFits(u)'
    <2>1. ClipFits(u)
      BY DEF PollingInv
    <2>2. \A q \in Pollers \ {p} : Bills(q, u)' <=> Bills(q, u)
      BY <1>7 DEF Bills
    <2>3. Bills(p, u)' => u = t /\ next # NoTaskPoll
      BY <1>5, <1>7 DEF Bills
    <2>4. CASE u # t
      BY <1>4, <1>8, <2>1, <2>2, <2>3, <2>4 DEF ClipFits
    <2>5. CASE u = t
      <3>1. fundingUsed[u] # 0 \/ s = "FAILURE"
        BY <1>12, <2>5 DEF PollingAssumption
      <3>2. CASE next # NoTaskPoll
        BY <1>4, <1>5, <1>8, <1>10, <1>12, <2>1, <2>2, <2>5, <3>1, <3>2 DEF ClipFits
      <3>3. CASE next = NoTaskPoll /\ s = "FAILURE"
        BY <1>4, <1>8, <1>10, <2>1, <2>2, <2>3, <2>5, <3>3 DEF ClipFits
      <3>4. CASE next = NoTaskPoll /\ s # "FAILURE"
        BY <1>4, <1>8, <1>12, <2>1, <2>2, <2>3, <2>5, <3>1, <3>4 DEF ClipFits
      <3>5. QED
        BY <3>2, <3>3, <3>4
    <2>6. QED
      BY <2>4, <2>5
  <1>14. ASSUME NEW q \in Pollers, (poller[q] # NoTaskPoll)'
         PROVE  (ClipPollFits(poller[q]) /\ SongPollFits(poller[q]))'
    <2>1. CASE q = p
      <3>1. poller'[q] = next /\ next # NoTaskPoll
        BY <1>7, <1>14, <2>1
      <3>2. ClipPollFits(next)'
        BY <1>2, <1>4, <1>5, <1>8, <1>12, <3>1
           DEF ClipPollFits, FundingStages, BilledStages, seen
      <3>3. SongPollFits(next)'
        BY <1>2, <1>5, <3>1 DEF SongPollFits, seen
      <3>4. QED
        BY <3>1, <3>2, <3>3 DEF ClipPollFits, SongPollFits
    <2>2. CASE q # p
      <3>1. poller'[q] = poller[q] /\ poller[q] # NoTaskPoll
        BY <1>7, <1>14, <2>2
      <3>2. ClipPollFits(poller[q]) /\ SongPollFits(poller[q]) /\ poller[q].task \in Tasks
        BY <3>1, SeenTaskTyped
      <3>3. poller[q].at = "refund" /\ poller[q].task \notin Suno =>
              taskRow'[poller[q].task] = "FAILURE"
        <4>1. ASSUME poller[q].at = "refund", poller[q].task = t, t \notin Suno
              PROVE  s = "FAILURE"
          BY <1>12, <3>1, <4>1 DEF Bills, FundingStages
        <4>2. QED
          BY <1>8, <3>2, <4>1 DEF ClipPollFits
      <3>4. QED
        BY <1>4, <3>1, <3>2, <3>3 DEF ClipPollFits, SongPollFits
    <2>3. QED
      BY <2>1, <2>2
  <1>15. ASSUME NEW q \in Pollers, NEW u \in Suno, Pollers = {q}
         PROVE  SongFits(q, u)'
    <2>1. q = p /\ SongFits(p, u) /\ u \in Tasks
      BY <1>15 DEF PollingInv, PollingAssumption
    <2>2. adjusts[u] \in Nat
      BY <2>1 DEF PollingInv, PollingTypeOK
    <2>3. /\ pollFaults \in Nat /\ pollFaults' \in Nat /\ pollFaults <= pollFaults'
          /\ PollFault => pollFaults' = pollFaults + 1
      BY <1>4, PollFaultsTyped DEF PollingInv
    <2>4. adjusts[u] <= 1 + pollFaults'
      BY <2>1, <2>2, <2>3 DEF SongFits
    <2>5. CASE u # t
      <3>1. taskRow'[u] = taskRow[u] /\ (next # NoTaskPoll => next.task # u)
        BY <1>5, <1>8, <2>1, <2>5
      <3>2. taskRow[u] \notin Final => adjusts[u] <= pollFaults'
        BY <2>1, <2>2, <2>3, <2>5 DEF SongFits, seen
      <3>3. QED
        BY <1>4, <1>7, <2>1, <2>4, <3>1, <3>2 DEF SongFits
    <2>6. CASE u = t
      <3>1. seen.at \in {"listed", "cas"} => adjusts[u] <= pollFaults
        BY <1>1, <2>1, <2>6 DEF SongFits, seen
      <3>2. seen.at = "save" /\ seen.to # "FAILURE" => adjusts[u] <= pollFaults
        BY <1>1, <2>1, <2>6 DEF SongFits, seen
      <3>3. adjusts[u] <= pollFaults' \/ (s = "FAILURE" /\ next = NoTaskPoll)
        BY <1>3, <2>2, <2>3, <3>1, <3>2, <1>5 DEF seen
      <3>4. next # NoTaskPoll => s \in Final
        BY <1>5, <1>10
      <3>5. next # NoTaskPoll => next.at # "save" /\ next.task = u
        BY <1>5, <2>6
      <3>6. QED
        BY <1>4, <1>7, <1>8, <1>10, <2>1, <2>4, <2>6, <3>3, <3>4, <3>5 DEF SongFits
    <2>7. QED
      BY <2>5, <2>6
  <1>16. QED
    BY <1>9, <1>13, <1>14, <1>15 DEF PollingInv

\* The funding source gives back, or is charged, what the task is worth.
LEMMA AdjustFundingStep ==
  ASSUME PollingAssumption, PollingInv, NEW p \in Pollers, AdjustFunding(p)
  PROVE  PollingInv'
  <1> DEFINE seen == poller[p]
             t == seen.task
  <1>1. seen # NoTaskPoll /\ seen.at \in FundingStages
    BY DEF AdjustFunding, NoTaskPoll, FundingStages
  <1>2. /\ seen \in TaskPollType /\ t \in Tasks
        /\ ClipPollFits(seen) /\ SongPollFits(seen)
    BY <1>1, SeenTaskTyped
  <1>3. PICK at, price :
          /\ Goes(p, [seen EXCEPT !.at = at])
          /\ fundingUsed' = [fundingUsed EXCEPT ![t] = @ + (price - Quota)]
          /\ \/ seen.at = "refund" /\ at = "refundKey" /\ price = 0
             \/ seen.at = "reprice" /\ at = "repriceKey" /\ price = Actual
    <2>1. CASE seen.at = "refund"
      <3>1. Goes(p, [seen EXCEPT !.at = "refundKey"])
        BY <2>1 DEF AdjustFunding
      <3>2. fundingUsed' = [fundingUsed EXCEPT ![t] = @ + (0 - Quota)]
        <4>1. Delta(seen.at) = -Quota /\ -Quota = 0 - Quota
          BY <2>1 DEF Delta, PollingAssumption
        <4>2. QED
          BY <4>1 DEF AdjustFunding
      <3>3. QED
        BY <2>1, <3>1, <3>2
    <2>2. CASE seen.at = "reprice"
      <3>1. Goes(p, [seen EXCEPT !.at = "repriceKey"])
        BY <2>2 DEF AdjustFunding
      <3>2. Delta(seen.at) = Actual - Quota
        BY <2>2 DEF Delta
      <3>3. fundingUsed' = [fundingUsed EXCEPT ![t] = @ + (Actual - Quota)]
        BY <3>2 DEF AdjustFunding
      <3>4. QED
        BY <2>2, <3>1, <3>3
    <2>3. QED
      BY <1>1, <2>1, <2>2 DEF FundingStages
  <1>4. /\ adjusts' = [adjusts EXCEPT ![t] = @ + 1]
        /\ UNCHANGED <<taskRow, keyUsed, taskJob, pollFaults>>
    BY DEF AdjustFunding
  <1>5. PICK next : next = [seen EXCEPT !.at = at]
    OBVIOUS
  <1>6. /\ next \in TaskPollType /\ next.at = at /\ next.task = t
        /\ next.to = seen.to /\ next.saves = seen.saves
        /\ next # NoTaskPoll /\ at \in BilledStages
    BY <1>2, <1>3, <1>5 DEF TaskPollType, BilledStages, NoTaskPoll
  <1>7. /\ poller'[p] = next
        /\ \A q \in Pollers \ {p} : poller'[q] = poller[q]
        /\ poller' \in [Pollers -> {NoTaskPoll} \cup TaskPollType]
    BY <1>3, <1>5, <1>6, PollerAfter
  <1>8. /\ fundingUsed \in [Tasks -> Int] /\ adjusts \in [Tasks -> Nat]
        /\ keyUsed \in [Tasks -> Int] /\ pollFaults \in Nat
        /\ Quota \in Nat \ {0} /\ Actual \in Nat \ {0} /\ price \in Int
    BY <1>3 DEF PollingInv, PollingTypeOK, PollingAssumption
  <1>9. /\ fundingUsed' \in [Tasks -> Int] /\ adjusts' \in [Tasks -> Nat]
        /\ fundingUsed'[t] = fundingUsed[t] + (price - Quota) /\ adjusts'[t] = adjusts[t] + 1
        /\ \A u \in Tasks \ {t} : fundingUsed'[u] = fundingUsed[u] /\ adjusts'[u] = adjusts[u]
    BY <1>2, <1>3, <1>4, <1>8
  <1>10. PollingTypeOK'
    BY <1>4, <1>7, <1>9 DEF PollingInv, PollingTypeOK
  <1>11. ASSUME t \notin Suno
         PROVE  /\ adjusts[t] = 0 /\ adjusts'[t] = 1 /\ fundingUsed'[t] = price
                /\ keyUsed[t] = Quota /\ taskRow[t] \in Final
                /\ seen.at = "refund" => taskRow[t] = "FAILURE"
                /\ \A q \in Pollers \ {p} : ~Bills(q, t)
    <2>1. ClipFits(t) /\ Bills(p, t)
      BY <1>1, <1>2, <1>11 DEF PollingInv, Bills
    <2>2. /\ adjusts[t] = 0 /\ fundingUsed[t] = Quota /\ taskRow[t] \in Final
          /\ seen.at = "refund" => taskRow[t] = "FAILURE"
      BY <1>1, <1>2, <1>11, <2>1 DEF ClipFits, ClipPollFits
    <2>3. keyUsed[t] = Quota /\ \A q \in Pollers \ {p} : ~Bills(q, t)
      BY <2>1, <2>2 DEF ClipFits
    <2>4. adjusts'[t] = 1 /\ fundingUsed'[t] = price
      BY <1>8, <1>9, <2>2
    <2>5. QED
      BY <2>2, <2>3, <2>4
  <1> HIDE DEF seen
  <1>12. ASSUME NEW u \in Tasks \ Suno
         PROVE  ClipFits(u)'
    <2>1. ClipFits(u)
      BY DEF PollingInv
    <2>2. \A q \in Pollers \ {p} : Bills(q, u)' <=> Bills(q, u)
      BY <1>7 DEF Bills
    <2>3. Bills(p, u)' => u = t
      BY <1>6, <1>7 DEF Bills
    <2>4. CASE u # t
      <3>1. /\ fundingUsed'[u] = fundingUsed[u] /\ adjusts'[u] = adjusts[u]
            /\ keyUsed'[u] = keyUsed[u] /\ taskRow'[u] = taskRow[u]
        BY <1>4, <1>9, <2>4
      <3>2. \A q \in Pollers : Bills(q, u)' => Bills(q, u)
        BY <2>2, <2>3, <2>4
      <3>3. QED
        BY <2>1, <3>1, <3>2 DEF ClipFits
    <2>5. CASE u = t
      <3>1. \A q \in Pollers : Bills(q, u)' => q = p
        BY <1>11, <2>2, <2>5
      <3>2. price = 0 => seen.at = "refund"
        BY <1>3, <1>8
      <3>3. price \in {Quota, Actual, 0}
        BY <1>3
      <3>4. QED
        BY <1>4, <1>11, <2>5, <3>1, <3>2, <3>3 DEF ClipFits
    <2>6. QED
      BY <2>4, <2>5
  <1>13. ASSUME NEW q \in Pollers, (poller[q] # NoTaskPoll)'
         PROVE  (ClipPollFits(poller[q]) /\ SongPollFits(poller[q]))'
    <2>1. CASE q = p
      <3>1. poller'[q] = next
        BY <1>7, <2>1
      <3>2. ClipPollFits(next)'
        <4>1. t \notin Suno => ~seen.saves
          BY <1>2 DEF ClipPollFits
        <4>2. QED
          BY <1>3, <1>4, <1>6, <1>11, <4>1
             DEF ClipPollFits, FundingStages, BilledStages
      <3>3. SongPollFits(next)'
        BY <1>2, <1>3, <1>6 DEF SongPollFits
      <3>4. QED
        BY <3>1, <3>2, <3>3 DEF ClipPollFits, SongPollFits
    <2>2. CASE q # p
      <3>1. poller'[q] = poller[q] /\ poller[q] # NoTaskPoll
        BY <1>7, <1>13, <2>2
      <3>2. ClipPollFits(poller[q]) /\ SongPollFits(poller[q]) /\ poller[q].task \in Tasks
        BY <3>1, SeenTaskTyped
      <3>3. poller[q].task = t /\ t \notin Suno =>
              poller[q].at \notin FundingStages \cup BilledStages
        BY <1>11, <2>2, <3>1 DEF Bills
      <3>4. ClipPollFits(poller[q])'
        BY <1>4, <1>9, <3>1, <3>2, <3>3 DEF ClipPollFits, FundingStages, BilledStages
      <3>5. QED
        BY <3>1, <3>2, <3>4 DEF SongPollFits
    <2>3. QED
      BY <2>1, <2>2
  <1>14. ASSUME NEW q \in Pollers, NEW u \in Suno, Pollers = {q}
         PROVE  SongFits(q, u)'
    <2>1. q = p /\ SongFits(p, u) /\ u \in Tasks
      BY <1>14 DEF PollingInv, PollingAssumption
    <2>2. CASE u # t
      BY <1>1, <1>4, <1>6, <1>7, <1>9, <2>1, <2>2 DEF SongFits, seen
    <2>3. CASE u = t
      <3>1. seen.at = "refund" /\ at = "refundKey"
        BY <1>1, <1>2, <1>3, <2>3 DEF SongPollFits
      <3>2. adjusts[u] <= pollFaults /\ (~seen.saves => taskRow[u] \in Final)
        BY <1>1, <2>1, <2>3, <3>1 DEF SongFits, seen
      <3>3. adjusts'[u] <= 1 + pollFaults'
        BY <1>4, <1>8, <1>9, <2>1, <2>3, <3>2
      <3>4. QED
        BY <1>4, <1>6, <1>7, <2>1, <2>3, <3>1, <3>2, <3>3 DEF SongFits
    <2>4. QED
      BY <2>2, <2>3
  <1>15. QED
    BY <1>10, <1>12, <1>13, <1>14 DEF PollingInv

\* The key follows the funding; then a song's poller saves what it has read.
LEMMA AdjustKeyStep ==
  ASSUME PollingAssumption, PollingInv, NEW p \in Pollers, AdjustKey(p)
  PROVE  PollingInv'
  <1> DEFINE seen == poller[p]
             t == seen.task
  <1>1. seen # NoTaskPoll /\ seen.at \in BilledStages
    BY DEF AdjustKey, NoTaskPoll, BilledStages
  <1>2. /\ seen \in TaskPollType /\ t \in Tasks
        /\ ClipPollFits(seen) /\ SongPollFits(seen)
    BY <1>1, SeenTaskTyped
  <1>3. PICK next : /\ Goes(p, next)
                    /\ next = IF seen.saves THEN [seen EXCEPT !.at = "save"] ELSE NoTaskPoll
    BY DEF AdjustKey, Left
  <1>4. /\ ~seen.saves => next = NoTaskPoll
        /\ seen.saves => /\ next \in TaskPollType /\ next.at = "save" /\ next.task = t
                         /\ next.to = seen.to /\ next.saves
    BY <1>2, <1>3 DEF TaskPollType
  <1>5. /\ poller'[p] = next
        /\ \A q \in Pollers \ {p} : poller'[q] = poller[q]
        /\ poller' \in [Pollers -> {NoTaskPoll} \cup TaskPollType]
    BY <1>3, <1>4, PollerAfter
  <1>6. /\ UNCHANGED <<taskRow, fundingUsed, adjusts, taskJob, pollFaults>>
        /\ keyUsed' = [keyUsed EXCEPT ![t] = @ + Delta(seen.at)]
    BY DEF AdjustKey
  <1>7. /\ keyUsed \in [Tasks -> Int] /\ Quota \in Nat \ {0} /\ Actual \in Nat \ {0}
    BY DEF PollingInv, PollingTypeOK, PollingAssumption
  <1>8. /\ Delta(seen.at) \in Int
        /\ seen.at = "refundKey" => Delta(seen.at) = 0 - Quota
        /\ seen.at = "repriceKey" => Delta(seen.at) = Actual - Quota
    BY <1>7 DEF Delta
  <1>9. /\ keyUsed' \in [Tasks -> Int] /\ keyUsed'[t] = keyUsed[t] + Delta(seen.at)
        /\ \A u \in Tasks \ {t} : keyUsed'[u] = keyUsed[u]
    BY <1>2, <1>6, <1>7, <1>8
  <1>10. PollingTypeOK'
    BY <1>5, <1>6, <1>9 DEF PollingInv, PollingTypeOK
  <1> HIDE DEF seen
  <1>11. ASSUME t \notin Suno
         PROVE  /\ keyUsed'[t] = fundingUsed[t] /\ next = NoTaskPoll
                /\ \A q \in Pollers \ {p} : ~Bills(q, t)
    <2>1. ClipFits(t) /\ Bills(p, t)
      BY <1>1, <1>2, <1>11 DEF PollingInv, Bills, seen
    <2>2. next = NoTaskPoll
      BY <1>2, <1>4, <1>11 DEF ClipPollFits
    <2>3. /\ keyUsed[t] = Quota
          /\ \/ seen.at = "refundKey" /\ fundingUsed[t] = 0
             \/ seen.at = "repriceKey" /\ fundingUsed[t] = Actual
      BY <1>1, <1>2, <1>11 DEF ClipPollFits, BilledStages
    <2>4. keyUsed'[t] = fundingUsed[t]
      BY <1>7, <1>8, <1>9, <2>3
    <2>5. QED
      BY <2>1, <2>2, <2>4 DEF ClipFits
  <1>12. ASSUME NEW u \in Tasks \ Suno
         PROVE  ClipFits(u)'
    <2>1. ClipFits(u)
      BY DEF PollingInv
    <2>2. \A q \in Pollers \ {p} : Bills(q, u)' <=> Bills(q, u)
      BY <1>5 DEF Bills
    <2>3. ~Bills(p, u)'
      BY <1>4, <1>5 DEF Bills, FundingStages, BilledStages
    <2>4. \A q \in Pollers : Bills(q, u)' => Bills(q, u)
      BY <2>2, <2>3
    <2>5. keyUsed'[u] \in {Quota, fundingUsed[u]}
      BY <1>9, <1>11, <2>1 DEF ClipFits
    <2>6. QED
      BY <1>6, <2>1, <2>4, <2>5 DEF ClipFits
  <1>13. ASSUME NEW q \in Pollers, (poller[q] # NoTaskPoll)'
         PROVE  (ClipPollFits(poller[q]) /\ SongPollFits(poller[q]))'
    <2>1. CASE q = p
      <3>1. poller'[q] = next /\ next # NoTaskPoll /\ seen.saves
        BY <1>4, <1>5, <1>13, <2>1
      <3>2. t \in Suno
        BY <1>2, <3>1 DEF ClipPollFits
      <3>3. QED
        BY <1>4, <3>1, <3>2 DEF ClipPollFits, SongPollFits
    <2>2. CASE q # p
      <3>1. poller'[q] = poller[q] /\ poller[q] # NoTaskPoll
        BY <1>5, <1>13, <2>2
      <3>2. ClipPollFits(poller[q]) /\ SongPollFits(poller[q]) /\ poller[q].task \in Tasks
        BY <3>1, SeenTaskTyped
      <3>3. poller[q].task = t /\ t \notin Suno =>
              poller[q].at \notin FundingStages \cup BilledStages
        BY <1>11, <2>2, <3>1 DEF Bills
      <3>4. ClipPollFits(poller[q])'
        BY <1>6, <1>9, <3>1, <3>2, <3>3 DEF ClipPollFits, FundingStages, BilledStages
      <3>5. QED
        BY <3>1, <3>2, <3>4 DEF SongPollFits
    <2>3. QED
      BY <2>1, <2>2
  <1>14. ASSUME NEW q \in Pollers, NEW u \in Suno, Pollers = {q}
         PROVE  SongFits(q, u)'
    <2>1. q = p /\ SongFits(p, u)
      BY <1>14 DEF PollingInv
    <2>2. CASE u # t
      BY <1>4, <1>5, <1>6, <2>1, <2>2 DEF SongFits, seen
    <2>3. CASE u = t
      <3>1. seen.at = "refundKey" /\ seen.to = "FAILURE"
        BY <1>1, <1>2, <2>3 DEF SongPollFits, BilledStages
      <3>2. ~seen.saves => taskRow[u] \in Final
        BY <1>1, <2>1, <2>3, <3>1 DEF SongFits, seen
      <3>3. QED
        BY <1>4, <1>5, <1>6, <2>1, <2>3, <3>1, <3>2 DEF SongFits, NoTaskPoll
    <2>4. QED
      BY <2>2, <2>3
  <1>15. QED
    BY <1>10, <1>12, <1>13, <1>14 DEF PollingInv

\* Every step keeps the invariant.
LEMMA PollingStepKeeps ==
  ASSUME PollingAssumption, PollingInv, [PollingNext]_pollingVars
  PROVE  PollingInv'
  <1>1. CASE UNCHANGED pollingVars
    BY <1>1 DEF PollingInv, PollingTypeOK, ClipFits, Bills, ClipPollFits, SongPollFits,
                SongFits, pollingVars
  <1>2. ASSUME NEW t \in Tasks, Insert(t) \/ ProviderEnds(t)
        PROVE  PollingInv'
    BY <1>2, TaskStep
  <1>3. ASSUME NEW p \in Pollers, Poll(p)
        PROVE  PollingInv'
    <2>1. ASSUME NEW t \in Tasks, SweepTimedOutTasks(p, t) \/ ListUnfinished(p, t)
          PROVE  PollingInv'
      BY <2>1, ListStep
    <2>2. CASE Fetch(p)
      BY <2>2, FetchStep
    <2>3. CASE FailChannelTasks(p) \/ SaveSuno(p)
      BY <2>3, WriteStep
    <2>4. CASE UpdateWithStatus(p)
      BY <2>4, WriteStep, GivenUpStep
    <2>5. CASE AdjustFunding(p)
      BY <2>5, AdjustFundingStep
    <2>6. CASE AdjustKey(p)
      BY <2>6, AdjustKeyStep
    <2>7. CASE AdjustFails(p) \/ PollerCrash(p)
      BY <2>7, GivenUpStep
    <2>8. QED
      BY <1>3, <2>1, <2>2, <2>3, <2>4, <2>5, <2>6, <2>7 DEF Poll
  <1>4. QED
    BY <1>1, <1>2, <1>3 DEF PollingNext

\* The invariant bounds what a video, and a song with one poller, is billed.
LEMMA PollingBilledOnce ==
  ASSUME PollingAssumption, PollingInv
  PROVE  TasksBilledOnce
  <1>1. ASSUME NEW t \in Tasks \ Suno
        PROVE  /\ adjusts[t] + Cardinality(Owing(t)) <= 1
               /\ fundingUsed[t] \in {Quota, Actual, 0}
               /\ keyUsed[t] \in {Quota, fundingUsed[t]}
               /\ fundingUsed[t] = 0 \/ (\E p \in Owing(t) : poller[p].at = "refund") =>
                    taskRow[t] = "FAILURE"
    <2>1. ClipFits(t)
      BY DEF PollingInv
    <2>2. \A p \in Owing(t) :
            /\ p \in Pollers /\ Bills(p, t) /\ adjusts[t] = 0
            /\ poller[p].at = "refund" => taskRow[t] = "FAILURE"
      BY DEF Owing, Bills, PollingInv, ClipPollFits, FundingStages
    <2>3. adjusts[t] + Cardinality(Owing(t)) <= 1
      <3>1. CASE Owing(t) = {}
        BY <2>1, <3>1, FS_EmptySet DEF ClipFits
      <3>2. CASE Owing(t) # {}
        <4>1. PICK p : p \in Owing(t)
          BY <3>2
        <4>2. Owing(t) = {p}
          BY <2>1, <2>2, <4>1 DEF ClipFits
        <4>3. Cardinality(Owing(t)) = 1 /\ adjusts[t] = 0
          BY <2>2, <4>1, <4>2, FS_Singleton
        <4>4. QED
          BY <4>3
      <3>3. QED
        BY <3>1, <3>2
    <2>4. QED
      BY <2>1, <2>2, <2>3 DEF ClipFits
  <1>2. ASSUME Cardinality(Pollers) = 1, NEW t \in Suno
        PROVE  adjusts[t] <= 1 + pollFaults
    <2>1. PICK p : Pollers = {p}
      BY <1>2, FS_Singleton DEF PollingAssumption
    <2>2. SongFits(p, t)
      BY <2>1 DEF PollingInv
    <2>3. QED
      BY <2>2 DEF SongFits
  <1>3. QED
    BY <1>1, <1>2 DEF TasksBilledOnce, BilledOnce, SunoRefundedOncePerCrash

\* The invariant of the polled tasks holds in every state.
LEMMA PollingAlways ==
  ASSUME PollingAssumption
  PROVE  PollingSpec => []PollingInv
  <1>1. PollingInit => PollingInv
    BY PollingStarts
  <1>2. PollingInv /\ [PollingNext]_pollingVars => PollingInv'
    BY PollingStepKeeps
  <1>3. QED
    BY <1>1, <1>2, PTL DEF PollingSpec

\* A video task is refunded or repriced once, by the poller that moved its row
\* out of the status it had read, and the key follows the funding; a song is
\* refunded again by the one process that polls only after a fault
\* (UpdateWithStatus and updateSunoTasks in service/task_polling.go).
THEOREM TasksAreBilledOnce ==
  ASSUME PollingAssumption
  PROVE  PollingSpec => []TasksBilledOnce
  <1>1. PollingInv => TasksBilledOnce
    BY PollingBilledOnce
  <1>2. QED
    BY <1>1, PollingAlways, PTL

\* The polled rows keep their types.
THEOREM PolledTasksStayTyped ==
  ASSUME PollingAssumption
  PROVE  PollingSpec => []PollingTypeOK
  <1>1. PollingInv => PollingTypeOK
    BY DEF PollingInv
  <1>2. QED
    BY <1>1, PollingAlways, PTL
================================================================================
