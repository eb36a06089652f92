-------------------------- MODULE AccountPoolClients --------------------------
(***************************************************************************)
(* The pool under its callers: request goroutines that run AcquireWait and *)
(* later Release what they got, clients that hang up at any moment, and    *)
(* administrators whose handlers change the store and then Reset the pool  *)
(* or apply new limits.  Every request gives back exactly what it was      *)
(* granted, once; what happens when it does not is ManagedAuth's subject.  *)
(***************************************************************************)
EXTENDS AccountPool

CONSTANTS Admins,           \* administrators acting concurrently
          Cancellable,      \* requests whose client may hang up
          Pinnable,         \* accounts a request may pin by header
          Exclusions,       \* sets of accounts a request may exclude
          Managed,          \* accounts administrators add, delete, give tokens
          Settable,         \* runtime settings an administrator may store
          InitialAccounts, InitialRuntime, InitialTokened

ASSUME ClientsAssumption ==
  /\ Cancellable \subseteq Requests
  /\ Pinnable \subseteq Accounts
  /\ Exclusions \subseteq SUBSET Accounts
  /\ Managed \subseteq Accounts
  /\ Settable \subseteq RuntimeSettings
  /\ InitialAccounts \in Seq(Accounts)
  /\ InitialRuntime \in RuntimeSettings
  /\ InitialTokened \subseteq Accounts \cap ToSet(InitialAccounts)

VARIABLES
  pc,         \* where each request stands
  target,     \* AcquireWait's target argument
  tried,      \* AcquireWait's exclude argument
  account,    \* the account a request was granted and has not released
  ctxDone,    \* requests whose context is done
  adminPc,    \* where each administrator's handler stands
  snapshot,   \* what the handler read before it asked for the pool's lock
  forgotten   \* history: a Reset has met slots in use, and forgot them

requestVars == <<pc, target, tried, account, ctxDone>>
adminVars   == <<adminPc, snapshot, forgotten>>
vars == <<storeVars, poolVars, requestVars, adminVars>>

RequestStates == {"idle", "try", "wait", "held", "done", "refused", "cancelled"}
AdminStates == {"idle", "reset", "install", "settings", "apply"}
NoSnapshot == <<>>

Holders(a) == {r \in Requests : account[r] = a}
Active == {r \in Requests : pc[r] \in {"try", "wait", "held"}}
Woken(r) == pc[r] = "wait" /\ r \notin ToSet(waiters)

-----------------------------------------------------------------------------
(* Requests.                                                               *)

Call(r) ==
  /\ pc[r] = "idle"
  /\ \E t \in Pinnable \cup {NoAccount}, x \in Exclusions :
       /\ target' = [target EXCEPT ![r] = t]
       /\ tried' = [tried EXCEPT ![r] = x]
  /\ pc' = [pc EXCEPT ![r] = "try"]
  /\ UNCHANGED <<storeVars, poolVars, account, ctxDone, adminVars>>

HangUp(r) ==
  /\ r \in Cancellable \ ctxDone
  /\ pc[r] \in {"try", "wait"}
  /\ ctxDone' = ctxDone \cup {r}
  /\ UNCHANGED <<storeVars, poolVars, pc, target, tried, account, adminVars>>

(* One turn of AcquireWait's loop, from the context check to the unlock.   *)
TryCancelled(r) ==
  /\ pc[r] = "try" /\ r \in ctxDone
  /\ pc' = [pc EXCEPT ![r] = "cancelled"]
  /\ UNCHANGED <<storeVars, poolVars, target, tried, account, ctxDone, adminVars>>

TryGranted(r) ==
  /\ pc[r] = "try" /\ r \notin ctxDone
  /\ \E a \in Accounts :
       /\ acquireLocked(a, target[r], tried[r])
       /\ account' = [account EXCEPT ![r] = a]
  /\ pc' = [pc EXCEPT ![r] = "held"]
  /\ UNCHANGED <<storeVars, target, tried, ctxDone, adminVars>>

TryQueued(r) ==
  /\ pc[r] = "try" /\ r \notin ctxDone
  /\ Grantable(target[r], tried[r]) = {}
  /\ canQueueLocked(target[r], tried[r])
  /\ enqueueWaiter(r)
  /\ pc' = [pc EXCEPT ![r] = "wait"]
  /\ UNCHANGED <<storeVars, target, tried, account, ctxDone, adminVars>>

TryRefused(r) ==
  /\ pc[r] = "try" /\ r \notin ctxDone
  /\ Grantable(target[r], tried[r]) = {}
  /\ ~canQueueLocked(target[r], tried[r])
  /\ pc' = [pc EXCEPT ![r] = "refused"]
  /\ UNCHANGED <<storeVars, poolVars, target, tried, account, ctxDone, adminVars>>

(* The select of AcquireWait.  With both channels ready either may win.    *)
SelectWoken(r) ==
  /\ Woken(r)
  /\ pc' = [pc EXCEPT ![r] = "try"]
  /\ UNCHANGED <<storeVars, poolVars, target, tried, account, ctxDone, adminVars>>

SelectDone(r) ==
  /\ pc[r] = "wait" /\ r \in ctxDone
  /\ removeWaiterLocked(r)
  /\ pc' = [pc EXCEPT ![r] = "cancelled"]
  /\ UNCHANGED <<storeVars, queue, inUse, limitVars, target, tried, account, ctxDone, adminVars>>

Finish(r) ==
  /\ pc[r] = "held"
  /\ Release(account[r])
  /\ account' = [account EXCEPT ![r] = NoAccount]
  /\ pc' = [pc EXCEPT ![r] = "done"]
  /\ UNCHANGED <<storeVars, target, tried, ctxDone, adminVars>>

-----------------------------------------------------------------------------
(* Administrators.  Each handler first updates the store under its lock;   *)
(* Reset and applyRuntimeSettings then read it in several short critical   *)
(* sections, which are taken as one.                                       *)

AdminAdd(m) ==
  /\ adminPc[m] = "idle"
  /\ \E a \in Managed \ Configured :
       /\ accounts' = Append(accounts, a)
       /\ tokened' = tokened \ {a}
  /\ adminPc' = [adminPc EXCEPT ![m] = "reset"]
  /\ UNCHANGED <<runtime, poolVars, requestVars, snapshot, forgotten>>

(* captureToken and batchUpdateTokens: the account may be new.             *)
AdminCaptureToken(m) ==
  /\ adminPc[m] = "idle"
  /\ \E a \in Managed :
       /\ accounts' = IF a \in Configured THEN accounts ELSE Append(accounts, a)
       /\ tokened' = tokened \cup {a}
  /\ adminPc' = [adminPc EXCEPT ![m] = "reset"]
  /\ UNCHANGED <<runtime, poolVars, requestVars, snapshot, forgotten>>

AdminDelete(m) ==
  /\ adminPc[m] = "idle"
  /\ \E i \in DOMAIN accounts :
       /\ accounts[i] \in Managed
       /\ accounts' = RemoveAt(accounts, i)
       /\ tokened' = tokened \ {accounts[i]}
  /\ adminPc' = [adminPc EXCEPT ![m] = "reset"]
  /\ UNCHANGED <<runtime, poolVars, requestVars, snapshot, forgotten>>

AdminSettings(m) ==
  /\ adminPc[m] = "idle"
  /\ \E s \in Settable \ {runtime} : runtime' = s
  /\ adminPc' = [adminPc EXCEPT ![m] = "settings"]
  /\ UNCHANGED <<accounts, tokened, poolVars, requestVars, snapshot, forgotten>>

AdminResetReads(m) ==
  /\ adminPc[m] = "reset"
  /\ \E snap \in ResetSnapshots : snapshot' = [snapshot EXCEPT ![m] = snap]
  /\ resetUnlocked
  /\ adminPc' = [adminPc EXCEPT ![m] = "install"]
  /\ UNCHANGED <<storeVars, requestVars, forgotten>>

AdminResetInstalls(m) ==
  /\ adminPc[m] = "install"
  /\ resetLocked(snapshot[m])
  /\ forgotten' = (forgotten \/ \E a \in Accounts : inUse[a] > 0)
  /\ snapshot' = [snapshot EXCEPT ![m] = NoSnapshot]
  /\ adminPc' = [adminPc EXCEPT ![m] = "idle"]
  /\ UNCHANGED <<storeVars, requestVars>>

AdminLimitsRead(m) ==
  /\ adminPc[m] = "settings"
  /\ snapshot' = [snapshot EXCEPT ![m] = SettingsLimits]
  /\ adminPc' = [adminPc EXCEPT ![m] = "apply"]
  /\ UNCHANGED <<storeVars, poolVars, requestVars, forgotten>>

AdminLimitsApply(m) ==
  /\ adminPc[m] = "apply"
  /\ ApplyRuntimeLimits(snapshot[m])
  /\ snapshot' = [snapshot EXCEPT ![m] = NoSnapshot]
  /\ adminPc' = [adminPc EXCEPT ![m] = "idle"]
  /\ UNCHANGED <<storeVars, requestVars, forgotten>>

-----------------------------------------------------------------------------
Init ==
  /\ PoolInit(InitialAccounts, InitialRuntime, InitialTokened)
  /\ pc = [r \in Requests |-> "idle"]
  /\ target = [r \in Requests |-> NoAccount]
  /\ tried = [r \in Requests |-> {}]
  /\ account = [r \in Requests |-> NoAccount]
  /\ ctxDone = {}
  /\ adminPc = [m \in Admins |-> "idle"]
  /\ snapshot = [m \in Admins |-> NoSnapshot]
  /\ forgotten = FALSE

(* What a request does on its own once it has called.                      *)
RequestStep(r) ==
  \/ TryCancelled(r) \/ TryGranted(r) \/ TryQueued(r) \/ TryRefused(r)
  \/ SelectWoken(r) \/ SelectDone(r) \/ Finish(r)

AdminUpdate(m) ==
  AdminAdd(m) \/ AdminCaptureToken(m) \/ AdminDelete(m) \/ AdminSettings(m)

AdminStep(m) ==
  \/ AdminResetReads(m) \/ AdminResetInstalls(m)
  \/ AdminLimitsRead(m) \/ AdminLimitsApply(m)

AllEnded ==
  /\ \A r \in Requests : pc[r] \in {"done", "refused", "cancelled"}
  /\ \A m \in Admins : adminPc[m] = "idle"
  /\ UNCHANGED vars

Next ==
  \/ \E r \in Requests : Call(r) \/ HangUp(r) \/ RequestStep(r)
  \/ \E m \in Admins : AdminUpdate(m) \/ AdminStep(m)
  \/ AllEnded

Spec == Init /\ [][Next]_vars

(* A goroutine that can run eventually does; handlers always return.       *)
Fairness == /\ \A r \in Requests : WF_vars(RequestStep(r))
            /\ \A m \in Admins : WF_vars(AdminStep(m))

FairSpec == Spec /\ Fairness

-----------------------------------------------------------------------------
(* Properties.                                                             *)

(* Every variable has its type.                                            *)
TypeOK ==
  /\ PoolTypeOK
  /\ pc \in [Requests -> RequestStates]
  /\ target \in [Requests -> Pinnable \cup {NoAccount}]
  /\ tried \in [Requests -> SUBSET Accounts]
  /\ account \in [Requests -> Accounts \cup {NoAccount}]
  /\ ctxDone \subseteq Requests
  /\ adminPc \in [Admins -> AdminStates]
  /\ forgotten \in BOOLEAN
  /\ DOMAIN snapshot = Admins
  /\ \A m \in Admins : /\ adminPc[m] = "install" => snapshot[m] \in PoolSnapshots
                       /\ adminPc[m] = "apply" => snapshot[m] \in Limits

(* The slot counters are exact: inUse[a] is the number of requests that    *)
(* were granted a and have not released it.  Pool.Acquire*, Pool.Release   *)
(* and ApplyRuntimeLimits keep it in any interleaving, and so does a Reset *)
(* of an idle pool; only a Reset under load ends it.                       *)
SlotsMatchHolders ==
  ~forgotten => \A a \in Accounts : inUse[a] = Cardinality(Holders(a))

(* No slot is ever leaked, not even by a Reset under load: a counter never *)
(* exceeds the number of holders, so once everybody has released, every    *)
(* slot is free again.                                                     *)
InUseNeverOvercounts ==
  \A a \in Accounts : inUse[a] <= Cardinality(Holders(a))

(* Whoever is granted an account finds it, itself included, within the     *)
(* per-account and the global inflight limit in force, counted over the    *)
(* real holders and not over the counters canAcquireIDLocked looks at,     *)
(* unless a Reset has forgotten holders.                                   *)
GrantWithinLimits ==
  [][\A r \in Requests :
       ~forgotten /\ account[r] = NoAccount /\ account'[r] # NoAccount =>
         /\ Cardinality({s \in Requests : account'[s] = account'[r]}) <= maxInflight
         /\ globalMax > 0 =>
              Cardinality({s \in Requests : account'[s] # NoAccount}) <= globalMax]_vars

(* The FIFO holds open channels only, each once: a goroutine that left     *)
(* AcquireWait (removeWaiterLocked) never stays behind to swallow a wake-  *)
(* up.  All variables have their types.                                    *)
NoAbandonedWaiter ==
  /\ TypeOK
  /\ \A i \in DOMAIN waiters : pc[waiters[i]] = "wait"
  /\ \A i, j \in DOMAIN waiters : waiters[i] = waiters[j] => i = j

(* An account that a queued waiter could take is never left idle: some     *)
(* woken or newly arrived request is on its way to take it.  This is what  *)
(* one notifyWaiterLocked per Release has to achieve.                      *)
NoLostWakeup ==
  (\E i \in DOMAIN waiters : Grantable(target[waiters[i]], tried[waiters[i]]) # {})
    => \E r \in Requests : pc[r] = "try" \/ Woken(r)

(* The requests the configured accounts may serve at once.                 *)
ServedAtOnce ==
  LET each == Len(accounts) * maxInflight
  IN  IF globalMax > 0 /\ globalMax < each THEN globalMax ELSE each

(* README.en.md: 429 only when the load exceeds inflight + queue capacity. *)
(* A request that pins and excludes nothing is refused only if the         *)
(* requests in the system outnumber the slots and the queue places.        *)
RefusedOnlyWhenOverloaded ==
  [][\A r \in Requests :
       pc[r] = "try" /\ pc'[r] = "refused" /\ target[r] = NoAccount /\ tried[r] = {} =>
         Cardinality(Active) > maxQueue + ServedAtOnce]_vars

(* Every request that waits is eventually answered: it gets an account, or *)
(* is refused, or its client hung up.                                      *)
WaitersAnswered ==
  \A r \in Requests : pc[r] = "wait" ~> pc[r] \in {"done", "refused", "cancelled"}

(* As long as nobody reconfigures the pool, its callers see SlotLeases     *)
(* with the limits of the initial configuration.                           *)
InitialPer ==
  IF Positive(InitialRuntime.per) THEN InitialRuntime.per ELSE DefaultMaxInflight

InitialGlobal ==
  IF Positive(InitialRuntime.global) THEN InitialRuntime.global
  ELSE Len(InitialAccounts) * InitialPer

Leases == INSTANCE SlotLeases WITH
  lease <- account, PerAccount <- InitialPer, Global <- InitialGlobal

ImplementsSlotLeases == Leases!Spec
=============================================================================
