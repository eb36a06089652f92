----------------------------- MODULE AccountPool -----------------------------
(***************************************************************************)
(* The managed-account pool of internal/account, as a monitor: the fields  *)
(* Pool.mu guards, the part of config.Store the pool reads, and one        *)
(* operator per critical section.  Who calls them, and when, is left to    *)
(* the modules that extend this one (AccountPoolClients, ManagedAuth,      *)
(* StreamLease).                                                           *)
(***************************************************************************)
EXTENDS Integers, Sequences, FiniteSets, SequencesExt

CONSTANTS Accounts,            \* account identifiers (email or mobile)
          Requests,            \* goroutines that may wait on the pool
          NoAccount,           \* the empty identifier ""
          DefaultMaxInflight,  \* per-account limit when none is configured
          Unset                \* a runtime setting that is not configured

ASSUME PoolAssumption ==
  /\ NoAccount \notin Accounts
  /\ IsFiniteSet(Accounts)
  /\ IsFiniteSet(Requests)
  /\ DefaultMaxInflight \in Nat \ {0}
  /\ Unset \notin Nat

VARIABLES
  \* config.Store
  accounts,      \* cfg.Accounts: the configured identifiers, in file order
  tokened,       \* the identifiers whose record holds a token
  runtime,       \* the runtime settings, config merged over environment
  \* account.Pool
  queue,         \* round-robin order of the identifiers
  inUse,         \* occupied slots per identifier (0 for a missing key)
  waiters,       \* the open waiter channels, named by the goroutine waiting
  maxInflight,   \* maxInflightPerAccount
  maxQueue,      \* maxQueueSize
  globalMax      \* globalMaxInflight; 0 switches the global check off

storeVars  == <<accounts, tokened, runtime>>
limitVars  == <<maxInflight, maxQueue, globalMax>>
poolVars   == <<queue, inUse, waiters, maxInflight, maxQueue, globalMax>>

Setting == Nat \cup {Unset}
RuntimeSettings == [per: Setting, queue: Setting, global: Setting]
Limits == [per: Nat, queue: Nat, global: Nat]
PoolSnapshots == [ids: Seq(Accounts), queue: Nat, global: Nat]

PoolTypeOK ==
  /\ accounts \in Seq(Accounts)
  /\ tokened \subseteq Accounts
  /\ runtime \in RuntimeSettings
  /\ queue \in Seq(Accounts)
  /\ inUse \in [Accounts -> Nat]
  /\ waiters \in Seq(Requests)
  /\ maxInflight \in Nat /\ maxQueue \in Nat /\ globalMax \in Nat

-----------------------------------------------------------------------------
(* The store's answers.                                                    *)

Configured == ToSet(accounts)      \* FindAccount(id) succeeds for these

Positive(setting) == setting # Unset /\ setting > 0

PerAccount == IF Positive(runtime.per) THEN runtime.per ELSE DefaultMaxInflight

(* The limits for `recommended` slots: a configured queue or global limit, *)
(* or the recommendation itself.  Only the queue limit may be set to 0     *)
(* (from the environment).                                                 *)
EffectiveLimits(recommended) ==
  [per    |-> PerAccount,
   queue  |-> IF runtime.queue # Unset THEN runtime.queue ELSE recommended,
   global |-> IF Positive(runtime.global) THEN runtime.global ELSE recommended]

(* The orders Reset may leave: a stable sort of s that puts the accounts   *)
(* holding a token first (there is exactly one).                           *)
TokenFirst(s) ==
  {q \in [DOMAIN s -> ToSet(s)] :
     \E rank \in [DOMAIN s -> DOMAIN s] :
       \A i, j \in DOMAIN s :
         /\ q[rank[i]] = s[i]
         /\ rank[i] < rank[j] <=>
              \/ s[i] \in tokened /\ s[j] \notin tokened
              \/ (s[i] \in tokened <=> s[j] \in tokened) /\ i < j}

-----------------------------------------------------------------------------
(* Critical sections.                                                      *)

(* The occupied slots as pairs: slot number i of account a.                *)
BusySlots == UNION {{a} \X (1..inUse[a]) : a \in Accounts}

currentInUse == Cardinality(BusySlots)

(* Regression seed: the limit itself is still let in.                      *)
canAcquireID_OffByOne(a) ==
  /\ inUse[a] <= maxInflight
  /\ globalMax > 0 => currentInUse < globalMax

canAcquireID(a) ==
  /\ inUse[a] < maxInflight
  /\ globalMax > 0 => currentInUse < globalMax

Allowed(a, exclude) == a \notin exclude /\ canAcquireID(a) /\ a \in Configured

(* What acquireLocked may hand out: the pinned account, or the first       *)
(* allowed one of the queue.  At most one element; empty when it fails.    *)
Grantable(target, exclude) ==
  IF target # NoAccount
  THEN {a \in {target} : Allowed(a, exclude)}
  ELSE {queue[i] : i \in {j \in DOMAIN queue :
          /\ Allowed(queue[j], exclude)
          /\ \A k \in 1..(j - 1) : ~Allowed(queue[k], exclude)}}

(* bumpQueue: a moves to the end of the round robin (when it is in it).    *)
bumpQueue(a) ==
  IF \E i \in DOMAIN queue : queue[i] = a
  THEN \E i \in DOMAIN queue :
         /\ queue[i] = a
         /\ \A j \in 1..(i - 1) : queue[j] # a
         /\ queue' = Append(RemoveAt(queue, i), a)
  ELSE UNCHANGED queue

acquireLocked(a, target, exclude) ==
  /\ a \in Grantable(target, exclude)
  /\ inUse' = [inUse EXCEPT ![a] = @ + 1]
  /\ bumpQueue(a)
  /\ UNCHANGED <<waiters, limitVars>>

(* Regression seed: the last place of the queue is never used.             *)
canQueueLocked_OffByOne(target, exclude) ==
  /\ target # NoAccount => target \notin exclude /\ target \in Configured
  /\ Len(waiters) + 1 < maxQueue

canQueueLocked(target, exclude) ==
  /\ target # NoAccount => target \notin exclude /\ target \in Configured
  /\ Len(waiters) < maxQueue

(* AcquireWait's last step under the lock: a fresh channel joins the FIFO. *)
enqueueWaiter(r) ==
  /\ waiters' = Append(waiters, r)
  /\ UNCHANGED <<queue, inUse, limitVars>>

(* Close the oldest channel.  The waiter behind it is not told what for.   *)
notifyWaiterLocked == waiters' = IF waiters = <<>> THEN <<>> ELSE Tail(waiters)

(* Regression seed: the oldest channel goes instead of the caller's own.   *)
removeWaiterLocked_Oldest(r) ==
  waiters' = IF waiters = <<>> THEN <<>> ELSE Tail(waiters)

removeWaiterLocked(r) ==
  IF \E i \in DOMAIN waiters : waiters[i] = r
  THEN \E i \in DOMAIN waiters : waiters[i] = r /\ waiters' = RemoveAt(waiters, i)
  ELSE UNCHANGED waiters

(* Regression seeds: no wake-up; the last slot is never given back.        *)
Release_Silent(a) ==
  IF a \in Accounts /\ inUse[a] > 0
  THEN inUse' = [inUse EXCEPT ![a] = @ - 1] /\ UNCHANGED <<queue, waiters, limitVars>>
  ELSE UNCHANGED poolVars

Release_KeepsLast(a) ==
  /\ inUse' = [inUse EXCEPT ![a] = IF @ > 1 THEN @ - 1 ELSE @]
  /\ notifyWaiterLocked
  /\ UNCHANGED <<queue, limitVars>>

(* Release: nothing happens for "" or for an account without busy slots.   *)
Release(a) ==
  IF a \in Accounts /\ inUse[a] > 0
  THEN /\ inUse' = [inUse EXCEPT ![a] = @ - 1]
       /\ notifyWaiterLocked
       /\ UNCHANGED <<queue, limitVars>>
  ELSE UNCHANGED poolVars

(* Reset in two halves.  The first runs without the lock: it snapshots the *)
(* store and already overwrites maxInflightPerAccount.                     *)
ResetSnapshots ==
  LET limits == EffectiveLimits(Len(accounts) * PerAccount)
  IN  {[ids |-> ids, queue |-> limits.queue, global |-> limits.global]
         : ids \in TokenFirst(accounts)}

resetUnlocked ==
  /\ maxInflight' = PerAccount
  /\ UNCHANGED <<queue, inUse, waiters, maxQueue, globalMax>>

(* The second holds the lock and installs the snapshot: every waiter is    *)
(* woken and every slot counter forgotten.                                 *)
resetLocked(snap) ==
  /\ waiters' = <<>>
  /\ queue' = snap.ids
  /\ inUse' = [a \in Accounts |-> 0]
  /\ maxQueue' = snap.queue
  /\ globalMax' = snap.global
  /\ UNCHANGED maxInflight

(* applyRuntimeSettings computes the limits outside the pool's lock ...    *)
SettingsLimits ==
  EffectiveLimits(PerAccount * (IF accounts = <<>> THEN 1 ELSE Len(accounts)))

(* ... and ApplyRuntimeLimits installs them and wakes a single waiter.     *)
ApplyRuntimeLimits(limits) ==
  /\ maxInflight' = limits.per
  /\ maxQueue' = limits.queue
  /\ globalMax' = limits.global
  /\ notifyWaiterLocked
  /\ UNCHANGED <<queue, inUse>>

(* NewPool: the limits and order of a first Reset over the loaded config.  *)
PoolInit(initialAccounts, initialRuntime, initialTokened) ==
  /\ accounts = initialAccounts
  /\ runtime = initialRuntime
  /\ tokened = initialTokened
  /\ inUse = [a \in Accounts |-> 0]
  /\ waiters = <<>>
  /\ maxInflight = PerAccount
  /\ \E snap \in ResetSnapshots :
       /\ queue = snap.ids
       /\ maxQueue = snap.queue
       /\ globalMax = snap.global
=============================================================================
