------------------------------- MODULE OrderLock -------------------------------
(***************************************************************************)
(* LockOrder and UnlockOrder of controller/topup.go: a table of mutexes by *)
(* trade number (orderLocks), each counting its users, so that the last    *)
(* one to leave takes the entry out.  createLock protects the counts and   *)
(* the insertion and deletion of entries; UnlockOrder looks its entry up   *)
(* without it.  Every provider callback runs between the two.              *)
(***************************************************************************)
EXTENDS Integers, FiniteSets

CONSTANTS Callbacks, Trades,
          Mutexes,      \* refCountedMutex objects; one that nobody refers to is collected
          NoMutex, Nobody

OrderLockAssumption ==
  /\ NoMutex \notin Mutexes
  /\ Nobody \notin Callbacks
  /\ IsFiniteSet(Callbacks)   \* goroutines

VARIABLES createLock,   \* the handler that holds it, or Nobody
          orderLocks,   \* the mutex of a trade number, or NoMutex
          owner,        \* of each mutex: the handler that holds its mu, or Nobody
          refCount,     \* of each mutex
          pc, wants, rcm   \* of each handler: its next step, trade number and mutex

lockVars == <<createLock, orderLocks, owner, refCount, pc, wants, rcm>>

PCs == {"out", "create", "load", "count", "lock", "inside", "unlock", "recreate", "uncount",
        "delete"}

\* Types; a count is a number of handlers.
OrderLockTypeOK ==
  /\ createLock \in Callbacks \cup {Nobody}
  /\ orderLocks \in [Trades -> Mutexes \cup {NoMutex}]
  /\ owner \in [Mutexes -> Callbacks \cup {Nobody}]
  /\ refCount \in [Mutexes -> Nat]
  /\ pc \in [Callbacks -> PCs]
  /\ wants \in [Callbacks -> Trades]
  /\ rcm \in [Callbacks -> Mutexes \cup {NoMutex}]

LockInit ==
  /\ createLock = Nobody
  /\ orderLocks = [t \in Trades |-> NoMutex]
  /\ owner = [m \in Mutexes |-> Nobody]
  /\ refCount = [m \in Mutexes |-> 0]
  /\ pc = [h \in Callbacks |-> "out"]
  /\ wants \in [Callbacks -> Trades]
  /\ rcm = [h \in Callbacks |-> NoMutex]
-------------------------------------------------------------------------------
To(h, step) == pc' = [pc EXCEPT ![h] = step]

\* An object nothing refers to: what "&refCountedMutex{}" may return.
Unused(m) ==
  /\ \A t \in Trades : orderLocks[t] # m
  /\ \A h \in Callbacks : rcm[h] # m

CallLockOrder(h, t) ==
  /\ pc[h] = "out"
  /\ wants' = [wants EXCEPT ![h] = t]
  /\ To(h, "create")
  /\ UNCHANGED <<createLock, orderLocks, owner, refCount, rcm>>

AcquireCreateLock(h, from, to) ==
  /\ pc[h] = from /\ createLock = Nobody
  /\ createLock' = h
  /\ To(h, to)
  /\ UNCHANGED <<orderLocks, owner, refCount, wants, rcm>>

\* Mut_* definitions are deliberate misreadings used to test properties.
Mut_AlwaysStores(h) ==
  /\ pc[h] = "load"
  /\ \E m \in Mutexes :
       /\ Unused(m)
       /\ rcm' = [rcm EXCEPT ![h] = m]
       /\ orderLocks' = [orderLocks EXCEPT ![wants[h]] = m]
       /\ owner' = [owner EXCEPT ![m] = Nobody]
       /\ refCount' = [refCount EXCEPT ![m] = 0]
  /\ To(h, "count")
  /\ UNCHANGED <<createLock, wants>>

LoadOrStore(h) ==
  /\ pc[h] = "load"
  /\ LET found == orderLocks[wants[h]]
     IN \/ /\ found # NoMutex
           /\ rcm' = [rcm EXCEPT ![h] = found]
           /\ UNCHANGED <<orderLocks, owner, refCount>>
        \/ /\ found = NoMutex
           /\ \E m \in Mutexes :
                /\ Unused(m)
                /\ rcm' = [rcm EXCEPT ![h] = m]
                /\ orderLocks' = [orderLocks EXCEPT ![wants[h]] = m]
                /\ owner' = [owner EXCEPT ![m] = Nobody]
                /\ refCount' = [refCount EXCEPT ![m] = 0]
  /\ To(h, "count")
  /\ UNCHANGED <<createLock, wants>>

Count(h) ==
  /\ pc[h] = "count"
  /\ refCount' = [refCount EXCEPT ![rcm[h]] = @ + 1]
  /\ createLock' = Nobody
  /\ To(h, "lock")
  /\ UNCHANGED <<orderLocks, owner, wants, rcm>>

LockMutex(h) ==
  /\ pc[h] = "lock" /\ owner[rcm[h]] = Nobody
  /\ owner' = [owner EXCEPT ![rcm[h]] = h]
  /\ To(h, "inside")
  /\ UNCHANGED <<createLock, orderLocks, refCount, wants, rcm>>

\* UnlockOrder: an entry that is missing ends the call with the mutex held.
LoadEntry(h) ==
  /\ pc[h] = "inside"
  /\ rcm' = [rcm EXCEPT ![h] = orderLocks[wants[h]]]
  /\ To(h, IF orderLocks[wants[h]] = NoMutex THEN "out" ELSE "unlock")
  /\ UNCHANGED <<createLock, orderLocks, owner, refCount, wants>>

UnlockMutex(h) ==
  /\ pc[h] = "unlock"
  /\ owner' = [owner EXCEPT ![rcm[h]] = Nobody]
  /\ To(h, "recreate")
  /\ UNCHANGED <<createLock, orderLocks, refCount, wants, rcm>>

Uncount(h) ==
  /\ pc[h] = "uncount"
  /\ refCount' = [refCount EXCEPT ![rcm[h]] = @ - 1]
  /\ To(h, "delete")
  /\ UNCHANGED <<createLock, orderLocks, owner, wants, rcm>>

LastUser(h) == refCount[rcm[h]] = 0

DeleteEntry(h) ==
  /\ pc[h] = "delete"
  /\ orderLocks' = [orderLocks EXCEPT ![wants[h]] = IF LastUser(h) THEN NoMutex ELSE @]
  /\ rcm' = [rcm EXCEPT ![h] = NoMutex]
  /\ createLock' = Nobody
  /\ To(h, "out")
  /\ UNCHANGED <<owner, refCount, wants>>

LockOrder(h) ==
  \/ AcquireCreateLock(h, "create", "load") \/ LoadOrStore(h) \/ Count(h) \/ LockMutex(h)

UnlockOrder(h) ==
  \/ LoadEntry(h) \/ UnlockMutex(h)
  \/ AcquireCreateLock(h, "recreate", "uncount") \/ Uncount(h) \/ DeleteEntry(h)

LockNext == \E h \in Callbacks :
          (\E t \in Trades : CallLockOrder(h, t)) \/ LockOrder(h) \/ UnlockOrder(h)

LockSpec == LockInit /\ [][LockNext]_lockVars

\* A handler that asked goes on; sync.Mutex hands a lock that is released
\* again and again to its oldest waiter after a millisecond.
LockFairness ==
  \A h \in Callbacks :
    /\ SF_lockVars(AcquireCreateLock(h, "create", "load"))
    /\ SF_lockVars(AcquireCreateLock(h, "recreate", "uncount"))
    /\ SF_lockVars(LockMutex(h))
    /\ WF_lockVars(LoadOrStore(h) \/ Count(h) \/ LoadEntry(h) \/ UnlockMutex(h)
               \/ Uncount(h) \/ DeleteEntry(h))

LockFairSpec == LockSpec /\ LockFairness
-------------------------------------------------------------------------------
Inside == {"inside", "unlock"}

\* LockOrder excludes two callbacks of one order, whatever callbacks of it
\* arrive, wait and leave in between.
OrdersExclusive ==
  \A g, h \in Callbacks :
    g # h /\ pc[g] \in Inside /\ pc[h] \in Inside => wants[g] # wants[h]

\* "the last user deletes the entry": a trade number nobody works on leaves
\* nothing in the table, and one somebody works on keeps its entry.
TableExact ==
  (\A h \in Callbacks : pc[h] \in {"out", "inside"}) =>
    \A t \in Trades :
      orderLocks[t] # NoMutex <=> \E h \in Callbacks : pc[h] = "inside" /\ wants[h] = t

\* What a handler sees of the lock.
phase == [h \in Callbacks |->
            CASE pc[h] \in Inside -> "inside"
              [] pc[h] \in {"create", "load", "count", "lock"} -> "waiting"
              [] OTHER -> "out"]

\* A handler that has released the mutex and asks again first finishes the
\* bookkeeping; seen from outside it is out.
Mutex == INSTANCE OrderMutex

\* The counted table implements one mutex per trade number.
ImplementsMutex == Mutex!Spec

\* Every callback gets its turn.
EveryCallbackRuns == \A h \in Callbacks : pc[h] = "create" ~> pc[h] = "inside"
===============================================================================
