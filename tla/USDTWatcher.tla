----------------------------- MODULE USDTWatcher -----------------------------
(***************************************************************************)
(* The USDT watcher (service/usdt_topup_watcher.go,                        *)
(* model/usdt_topup_watcher.go): the processes that poll the chain and     *)
(* drive the expiry and the settlement of USDTOrders.                      *)
(*                                                                         *)
(* A cycle (pollOnce) is a sequence of separate transactions and of calls  *)
(* to TronGrid, so customers, operators and a second watcher act between   *)
(* any two of its steps.  The second watcher may be a standby that shares  *)
(* the lease, or the next deployment, whose lease has another name because *)
(* it asks customers to pay to another address.                            *)
(***************************************************************************)
EXTENDS USDTOrders

CONSTANTS
  Watchers,        \* the processes that run a watcher
  Deployed,        \* Deployed[w]: the receiving address w is configured with
  Watched,         \* the addresses the administration site added
  PollInterval,    \* config.PollInterval
  LeaseDuration,   \* at least three poll intervals
  Delays,          \* the delays a failure may impose: backoff, jitter, 403
  NoHolder,        \* the holder of a lease whose process is gone
  MaxFaults        \* bound on database failures and crashes

ASSUME WatcherAssumption ==
  /\ Deployed \in [Watchers -> Addresses]
  /\ Watched \subseteq Addresses
  /\ PollInterval \in Nat \ {0} /\ LeaseDuration \in Nat \ {0}
  /\ Delays \subseteq Nat \ {0}
  /\ NoHolder \notin Watchers
  /\ MaxFaults \in Nat

VARIABLES
  watcher,   \* each watcher's program counter and memory
  lease,     \* the leases, named after the receiving addresses
  faults     \* faults so far

watcherVars == <<clock, users, orders, topUps, ledger, chain, watcher, lease, faults>>
-------------------------------------------------------------------------------
WatcherType == [pc : {"wait", "list", "lease", "query", "settle"}, now : Nat, since : Nat,
                queue : SUBSET Transfers, nextPoll : Nat]

\* Types of the watchers and leases, on top of the orders' own.
WatcherTypeOK ==
  /\ OrdersTypeOK
  /\ watcher \in [Watchers -> WatcherType]
  /\ lease \in [Addresses -> [holder : Watchers \cup {NoHolder}, expires : Nat]]
  /\ faults \in 0..MaxFaults

Idle(nextPoll) == [pc |-> "wait", now |-> 0, since |-> 0, queue |-> {},
                   nextPoll |-> nextPoll]

\* The cycle of w is over; the memory it needs until the next one is nextPoll.
Rest(w, nextPoll) == watcher' = [watcher EXCEPT ![w] = Idle(nextPoll)]

\* recordUSDTWatcherFailure.
Fail(w, now) == \E d \in Delays : Rest(w, now + d)

Fault == faults < MaxFaults /\ faults' = faults + 1

\* ListReconcilableUSDTTopUpOrders(now - grace).
Reconcilable(now) ==
  {o \in DOMAIN orders : orders[o].status \in Open /\ orders[o].expires > now - Grace}

Oldest(S) == {o \in S : \A p \in S : orders[o].created <= orders[p].created}
-------------------------------------------------------------------------------
(***************************************************************************)
(* pollOnce.  A cycle may begin at any time: the timer, the recovery       *)
(* interval and Wake all start one, and NextPollAt is looked at inside it. *)
(***************************************************************************)
StartCycle(w) ==
  \E t \in ReadTimes :
    /\ watcher[w].pc = "wait"
    /\ AdvanceUSDTTopUpExpiryStates(t)
    /\ watcher' = [watcher EXCEPT ![w].pc = "list", ![w].now = t]
    /\ UNCHANGED <<lease, faults>>

ListOrders(w) ==
  LET now == watcher[w].now
      found == Reconcilable(now)
  IN /\ watcher[w].pc = "list"
     /\ \/ found = {} /\ Rest(w, 0)
        \/ found # {} /\ now < watcher[w].nextPoll /\ Rest(w, watcher[w].nextPoll)
        \/ /\ found # {} /\ now >= watcher[w].nextPoll
           /\ \E o \in Oldest(found) :
                watcher' = [watcher EXCEPT ![w].pc = "lease",
                                           ![w].since = orders[o].created]
     /\ UNCHANGED <<orderVars, lease, faults>>

\* AcquireUSDTWatcherLease; without it the watcher stands by.
Mut_LeaseStolen(w) ==
  LET a == Deployed[w] IN
  /\ watcher[w].pc = "lease"
  /\ lease' = [lease EXCEPT ![a] = [holder |-> w,
                                    expires |-> watcher[w].now + LeaseDuration]]
  /\ watcher' = [watcher EXCEPT ![w].pc = "query"]
  /\ UNCHANGED <<orderVars, faults>>

AcquireLease(w) ==
  LET a == Deployed[w]
      now == watcher[w].now
  IN /\ watcher[w].pc = "lease"
     /\ IF lease[a].holder # w /\ lease[a].expires > now
          THEN Rest(w, now + PollInterval) /\ UNCHANGED lease
          ELSE /\ lease' = [lease EXCEPT ![a] = [holder |-> w,
                                                 expires |-> now + LeaseDuration]]
               /\ watcher' = [watcher EXCEPT ![w].pc = "query"]
     /\ UNCHANGED <<orderVars, faults>>

\* ListConfirmedIncomingUSDT for every watched address: the confirmed
\* transfers since the oldest order, of which one for each transaction is kept.
Mut_Unconfirmed(w) ==
  {e \in DOMAIN chain : /\ chain[e].to \in {Deployed[w]} \cup Watched
                        /\ chain[e].ts >= watcher[w].since * 1000}

Visible(w) ==
  {e \in DOMAIN chain : /\ chain[e].confirmed
                        /\ chain[e].to \in {Deployed[w]} \cup Watched
                        /\ chain[e].ts >= watcher[w].since * 1000}

SameRow(e, f) == chain[e].tx = chain[f].tx /\ chain[e].to = chain[f].to

QueryChain(w) ==
  /\ watcher[w].pc = "query"
  /\ \E S \in SUBSET Visible(w) :
       /\ \A e \in Visible(w) : \E f \in S : SameRow(e, f)
       /\ \A e, f \in S : SameRow(e, f) => e = f
       /\ watcher' = [watcher EXCEPT ![w].pc = "settle", ![w].queue = S]
  /\ UNCHANGED <<orderVars, lease, faults>>

\* One address that cannot be listed ends the cycle for all of them.
QueryFails(w) ==
  /\ watcher[w].pc = "query"
  /\ Fail(w, watcher[w].now)
  /\ UNCHANGED <<orderVars, lease, faults>>

\* SettleUSDTTopUp for the next transfer, and what the cycle makes of its
\* answer: an error that is neither a mismatch nor an ambiguity ends it.
Done(w, e) == watcher' = [watcher EXCEPT ![w].queue = @ \ {e}]

SettleNext(w, e) ==
  LET x == chain[e] IN
  /\ watcher[w].pc = "settle"
  /\ e \in watcher[w].queue
  /\ \/ Applied(x) /\ Done(w, e)
     \/ (Replayed(x) \/ Unmatched(x)) /\ Done(w, e) /\ UNCHANGED orderVars
     \/ Refused(x) /\ Fail(w, watcher[w].now) /\ UNCHANGED orderVars
  /\ UNCHANGED <<lease, faults>>

\* The transaction commits, but neither that nor the reload reaches us.
SettleUnacknowledged(w, e) ==
  /\ watcher[w].pc = "settle"
  /\ e \in watcher[w].queue
  /\ Applied(chain[e])
  /\ Fail(w, watcher[w].now)
  /\ Fault
  /\ UNCHANGED lease

FinishCycle(w) ==
  /\ watcher[w].pc = "settle"
  /\ watcher[w].queue = {}
  /\ Rest(w, IF Reconcilable(watcher[w].now) = {} THEN 0
             ELSE watcher[w].now + PollInterval)
  /\ UNCHANGED <<orderVars, lease, faults>>

\* Any database call of the cycle may fail.
DatabaseFails(w) ==
  /\ watcher[w].pc # "wait"
  /\ Fail(w, watcher[w].now)
  /\ Fault
  /\ UNCHANGED <<orderVars, lease>>

\* The process dies and another one starts in its place under a new holder id.
CrashWatcher(w) ==
  /\ watcher[w].pc # "wait"
  /\ Rest(w, 0)
  /\ lease' = [a \in Addresses |-> IF lease[a].holder = w
                                     THEN [lease[a] EXCEPT !.holder = NoHolder]
                                     ELSE lease[a]]
  /\ Fault
  /\ UNCHANGED orderVars
-------------------------------------------------------------------------------
WatcherInit ==
  /\ OrdersInit
  /\ watcher = [w \in Watchers |-> Idle(0)]
  /\ lease = [a \in Addresses |-> [holder |-> NoHolder, expires |-> 0]]
  /\ faults = 0

Cycle(w) ==
  \/ StartCycle(w)
  \/ ListOrders(w)
  \/ AcquireLease(w)
  \/ QueryChain(w)
  \/ QueryFails(w)
  \/ \E e \in Transfers : SettleNext(w, e)
  \/ FinishCycle(w)

Breakdown(w) ==
  \/ \E e \in Transfers : SettleUnacknowledged(w, e)
  \/ DatabaseFails(w)
  \/ CrashWatcher(w)

\* New orders carry the address of the process that creates them.
Environment ==
  /\ \/ \E w \in Watchers, u \in Users, o \in Orders, units \in Units, t \in ReadTimes :
          CreateUSDTTopUpOrder(u, o, units, Deployed[w], t)
     \/ \E o \in DOMAIN orders : CancelUSDTTopUpOrder(o)
     \/ World
     \/ Operators
  /\ UNCHANGED <<watcher, lease, faults>>

WatcherNext == Environment \/ \E w \in Watchers : Cycle(w) \/ Breakdown(w)

WatcherSpec == WatcherInit /\ [][WatcherNext]_watcherVars

\* Time passes, and Run starts and continues cycles for as long as its process
\* lives; whether TronGrid ever answers is not assumed.
WatcherFairness ==
  /\ WF_watcherVars(Tick /\ UNCHANGED <<watcher, lease, faults>>)
  /\ \A w \in Watchers : WF_watcherVars(Cycle(w))

FairWatcherSpec == WatcherSpec /\ WatcherFairness
-------------------------------------------------------------------------------
(***************************************************************************)
(* Properties.                                                             *)
(***************************************************************************)

\* The watchers, however they interleave and break down, do to the orders only
\* what USDTOrders allows, so all its properties hold for them.
WatcherImplementsOrders == OrdersSpec

\* No order stays open for ever, even if TronGrid never answers, a cycle is
\* refused at every attempt or the watcher backs off: expiry comes before the
\* steps that can fail.
OrdersClose ==
  \A o \in Orders : (o \in DOMAIN orders /\ orders[o].status \in Open)
                      ~> (o \in DOMAIN orders /\ orders[o].status \notin Open)

\* Two processes of one deployment poll the chain together only when the one
\* that began first has been at it for a whole lease, less the age of the time
\* the other one read.
Polling(w) == watcher[w].pc \in {"query", "settle"}

LeaseExclusive ==
  \A v, w \in Watchers :
    v # w /\ Deployed[v] = Deployed[w] /\ Polling(v) /\ Polling(w) =>
      \/ watcher[v].now + LeaseDuration <= watcher[w].now + MaxLag
      \/ watcher[w].now + LeaseDuration <= watcher[v].now + MaxLag

\* "SettlesAllMatchingPendingOrdersFromOneWalletQuery": a cycle without faults
\* does not end while a transfer it has listed could still be credited.
Creditable(x) ==
  /\ SettledWith(x.tx) = {}
  /\ \E o \in DOMAIN orders : Candidates(x) = {o} /\ CanCredit(o, x.tx)

SettlesAllMatching ==
  [][\A w \in Watchers :
       watcher[w].pc = "settle" /\ watcher'[w].pc = "wait" =>
         \A e \in watcher[w].queue : ~Creditable(chain[e])]_watcherVars
===============================================================================
