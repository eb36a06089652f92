--------------------------- MODULE ManagedAuthProofs ---------------------------
(***************************************************************************)
(* Proofs about the account pool and the requests that use it, for any     *)
(* number of requests, accounts and administrators.                        *)
(*                                                                         *)
(* First AccountPoolClients: the types, that no slot is ever leaked, that  *)
(* the counters are exact and the limits hold until a Reset meets slots in *)
(* use, and that without administrators the callers see SlotLeases.        *)
(*                                                                         *)
(* Then ManagedAuth: what a RequestAuth says of its account and its token  *)
(* is what the pool knows, and no slot is leaked, though a request         *)
(* releases by its AccountID field and not by what it owns.                *)
(***************************************************************************)
EXTENDS ManagedAuth, AccountPoolLemmas, WellFoundedInduction

-----------------------------------------------------------------------------
(* Types.                                                                  *)

LEMMA TypeInit == Init => TypeOK
<1> SUFFICES ASSUME Init PROVE TypeOK
  OBVIOUS
<1>1. /\ InitialAccounts \in Seq(Accounts) /\ InitialTokened \in SUBSET Accounts
      /\ InitialRuntime \in RuntimeSettings
  BY ClientsAssumption
<1>2. PoolInit(InitialAccounts, InitialRuntime, InitialTokened)
  BY DEF Init
<1>3. PoolTypeOK
  BY <1>1, <1>2, NewPoolType
<1> QED
  BY <1>3 DEF Init, TypeOK, RequestStates, AdminStates

LEMMA TypeStep == TypeOK /\ [Next]_vars => TypeOK'
<1> SUFFICES ASSUME TypeOK, [Next]_vars PROVE TypeOK'
  OBVIOUS
<1>0. PoolTypeOK
  BY DEF TypeOK
<1> USE DEF RequestStates, AdminStates
<1>1. ASSUME NEW r \in Requests, Call(r) PROVE TypeOK'
  BY <1>1, ClientsAssumption DEF Call, TypeOK, PoolTypeOK, storeVars, poolVars, adminVars
<1>2. ASSUME NEW r \in Requests, HangUp(r) PROVE TypeOK'
  BY <1>2 DEF HangUp, TypeOK, PoolTypeOK, storeVars, poolVars, adminVars
<1>3. ASSUME NEW r \in Requests, TryCancelled(r) PROVE TypeOK'
  BY <1>3 DEF TryCancelled, TypeOK, PoolTypeOK, storeVars, poolVars, adminVars
<1>4. ASSUME NEW r \in Requests, TryGranted(r) PROVE TypeOK'
  <2>1. PICK a \in Accounts : /\ acquireLocked(a, target[r], tried[r])
                              /\ account' = [account EXCEPT ![r] = a]
    BY <1>4 DEF TryGranted
  <2>2. PoolTypeOK'
    BY <1>0, <1>4, <2>1, AcquireType DEF TryGranted
  <2> QED
    BY <1>4, <2>1, <2>2 DEF TryGranted, TypeOK, adminVars
<1>5. ASSUME NEW r \in Requests, TryQueued(r) PROVE TypeOK'
  <2>1. PoolTypeOK'
    BY <1>0, <1>5, OtherSectionsType DEF TryQueued
  <2> QED
    BY <1>5, <2>1 DEF TryQueued, TypeOK, adminVars
<1>6. ASSUME NEW r \in Requests, TryRefused(r) PROVE TypeOK'
  BY <1>6 DEF TryRefused, TypeOK, PoolTypeOK, storeVars, poolVars, adminVars
<1>7. ASSUME NEW r \in Requests, SelectWoken(r) PROVE TypeOK'
  BY <1>7 DEF SelectWoken, TypeOK, PoolTypeOK, storeVars, poolVars, adminVars
<1>8. ASSUME NEW r \in Requests, SelectDone(r) PROVE TypeOK'
  <2>1. PoolTypeOK'
    BY <1>0, <1>8, OtherSectionsType DEF SelectDone
  <2> QED
    BY <1>8, <2>1 DEF SelectDone, TypeOK, adminVars
<1>9. ASSUME NEW r \in Requests, Finish(r) PROVE TypeOK'
  <2>1. PoolTypeOK'
    BY <1>0, <1>9, ReleaseType DEF Finish
  <2> QED
    BY <1>9, <2>1 DEF Finish, TypeOK, adminVars
<1>10. ASSUME NEW m \in Admins, AdminAdd(m) PROVE TypeOK'
  <2>1. accounts' \in Seq(Accounts) /\ tokened' \subseteq Accounts
    BY <1>0, <1>10, ClientsAssumption, AppendProperties DEF AdminAdd, PoolTypeOK
  <2> QED
    BY <1>10, <2>1 DEF AdminAdd, TypeOK, PoolTypeOK, poolVars, requestVars
<1>18. ASSUME NEW m \in Admins, AdminCaptureToken(m) PROVE TypeOK'
  <2>1. accounts' \in Seq(Accounts) /\ tokened' \subseteq Accounts
    BY <1>0, <1>18, ClientsAssumption, AppendProperties DEF AdminCaptureToken, PoolTypeOK
  <2> QED
    BY <1>18, <2>1 DEF AdminCaptureToken, TypeOK, PoolTypeOK, poolVars, requestVars
<1>11. ASSUME NEW m \in Admins, AdminDelete(m) PROVE TypeOK'
  <2>1. accounts' \in Seq(Accounts) /\ tokened' \subseteq Accounts
    BY <1>0, <1>11, RemoveAtType DEF AdminDelete, PoolTypeOK
  <2> QED
    BY <1>11, <2>1 DEF AdminDelete, TypeOK, PoolTypeOK, poolVars, requestVars
<1>12. ASSUME NEW m \in Admins, AdminSettings(m) PROVE TypeOK'
  BY <1>12, ClientsAssumption DEF AdminSettings, TypeOK, PoolTypeOK, poolVars, requestVars
<1>13. ASSUME NEW m \in Admins, AdminResetReads(m) PROVE TypeOK'
  <2>1. PoolTypeOK'
    BY <1>0, <1>13, OtherSectionsType DEF AdminResetReads
  <2>2. PICK snap \in PoolSnapshots : snapshot' = [snapshot EXCEPT ![m] = snap]
    BY <1>0, <1>13, SnapshotType DEF AdminResetReads, PoolTypeOK
  <2> QED
    BY <1>13, <2>1, <2>2 DEF AdminResetReads, TypeOK, requestVars
<1>14. ASSUME NEW m \in Admins, AdminResetInstalls(m) PROVE TypeOK'
  <2>1. snapshot[m] \in PoolSnapshots
    BY <1>14 DEF AdminResetInstalls, TypeOK
  <2>2. PoolTypeOK'
    BY <1>0, <1>14, <2>1, OtherSectionsType DEF AdminResetInstalls
  <2> QED
    BY <1>14, <2>2 DEF AdminResetInstalls, TypeOK, requestVars
<1>15. ASSUME NEW m \in Admins, AdminLimitsRead(m) PROVE TypeOK'
  <2>1. SettingsLimits \in Limits
    BY <1>0, SnapshotType DEF PoolTypeOK
  <2> QED
    BY <1>15, <2>1 DEF AdminLimitsRead, TypeOK, PoolTypeOK, storeVars, poolVars, requestVars
<1>16. ASSUME NEW m \in Admins, AdminLimitsApply(m) PROVE TypeOK'
  <2>1. snapshot[m] \in Limits
    BY <1>16 DEF AdminLimitsApply, TypeOK
  <2>2. PoolTypeOK'
    BY <1>0, <1>16, <2>1, OtherSectionsType DEF AdminLimitsApply
  <2> QED
    BY <1>16, <2>2 DEF AdminLimitsApply, TypeOK, requestVars
<1>17. CASE UNCHANGED vars
  BY <1>17 DEF TypeOK, PoolTypeOK, vars, storeVars, poolVars, requestVars, adminVars
<1> QED
  BY <1>1, <1>2, <1>3, <1>4, <1>5, <1>6, <1>7, <1>8, <1>9, <1>10, <1>11, <1>12,
     <1>13, <1>14, <1>15, <1>16, <1>17, <1>18
  DEF Next, RequestStep, AdminUpdate, AdminStep, AllEnded

(* The pool's fields, the requests and the handlers keep their types.      *)
THEOREM TypeCorrect == Spec => []TypeOK
BY TypeInit, TypeStep, PTL DEF Spec

-----------------------------------------------------------------------------
(* Counting holders.                                                       *)

LEMMA HoldersFinite ==
  ASSUME NEW a
  PROVE  IsFiniteSet(Holders(a)) /\ Cardinality(Holders(a)) \in Nat
BY PoolAssumption, FS_Subset, FS_CardinalityType DEF Holders

(* A grant adds one holder to one account.                                 *)
LEMMA HoldersGain ==
  ASSUME TypeOK, NEW r \in Requests, NEW a \in Accounts, account[r] = NoAccount,
         account' = [account EXCEPT ![r] = a]
  PROVE  /\ Cardinality(Holders(a)') = Cardinality(Holders(a)) + 1
         /\ \A b \in Accounts \ {a} : Holders(b)' = Holders(b)
<1>1. NoAccount \notin Accounts
  BY PoolAssumption
<1>2. Holders(a)' = Holders(a) \cup {r} /\ r \notin Holders(a)
  BY <1>1 DEF Holders, TypeOK
<1>3. \A b \in Accounts \ {a} : Holders(b)' = Holders(b)
  BY <1>1 DEF Holders, TypeOK
<1> QED
  BY <1>2, <1>3, HoldersFinite, FS_AddElement

(* A release removes one.                                                  *)
LEMMA HoldersLose ==
  ASSUME TypeOK, NEW r \in Requests, NEW a \in Accounts, account[r] = a,
         account' = [account EXCEPT ![r] = NoAccount]
  PROVE  /\ Cardinality(Holders(a)') = Cardinality(Holders(a)) - 1
         /\ Cardinality(Holders(a)) >= 1
         /\ \A b \in Accounts \ {a} : Holders(b)' = Holders(b)
<1>1. NoAccount \notin Accounts
  BY PoolAssumption
<1>2. Holders(a)' = Holders(a) \ {r} /\ r \in Holders(a)
  BY <1>1 DEF Holders, TypeOK
<1>3. \A b \in Accounts \ {a} : Holders(b)' = Holders(b)
  BY <1>1 DEF Holders, TypeOK
<1>4. Cardinality(Holders(a)) # 0
  BY <1>2, HoldersFinite, FS_EmptySet
<1>5. Cardinality(Holders(a)) >= 1
  BY <1>4, HoldersFinite
<1>6. Cardinality(Holders(a) \ {r}) = Cardinality(Holders(a)) - 1
  BY <1>2, HoldersFinite, FS_RemoveElement
<1> QED
  BY <1>2, <1>3, <1>5, <1>6

-----------------------------------------------------------------------------
(* No slot is leaked.  The counters alone are not inductive: a release     *)
(* must be known to come from a holder, hence the second conjunct.         *)

HolderInv == \A r \in Requests : pc[r] = "held" <=> account[r] # NoAccount

LeakInv == TypeOK /\ HolderInv /\ InUseNeverOvercounts

LEMMA LeakInit == Init => LeakInv
<1> SUFFICES ASSUME Init PROVE LeakInv
  OBVIOUS
<1>1. TypeOK
  BY TypeInit
<1>2. HolderInv
  BY DEF Init, HolderInv
<1>3. InUseNeverOvercounts
  BY HoldersFinite DEF Init, PoolInit, InUseNeverOvercounts
<1> QED BY <1>1, <1>2, <1>3 DEF LeakInv

LEMMA LeakStep == LeakInv /\ [Next]_vars => LeakInv'
<1> SUFFICES ASSUME LeakInv, [Next]_vars PROVE LeakInv'
  OBVIOUS
<1>0. TypeOK /\ TypeOK' /\ HolderInv /\ InUseNeverOvercounts
  BY TypeStep DEF LeakInv
<1>a. pc \in [Requests -> RequestStates] /\ inUse \in [Accounts -> Nat]
      /\ account \in [Requests -> Accounts \cup {NoAccount}]
  BY <1>0 DEF TypeOK, PoolTypeOK
<1>1. ASSUME NEW r \in Requests, TryGranted(r) PROVE HolderInv' /\ InUseNeverOvercounts'
  <2>1. PICK a \in Accounts : /\ acquireLocked(a, target[r], tried[r])
                              /\ account' = [account EXCEPT ![r] = a]
    BY <1>1 DEF TryGranted
  <2>2. account[r] = NoAccount
    BY <1>0, <1>1 DEF TryGranted, HolderInv
  <2>3. HolderInv'
    BY <1>0, <1>a, <1>1, <2>1, PoolAssumption DEF TryGranted, HolderInv
  <2>4. inUse' = [inUse EXCEPT ![a] = @ + 1]
    BY <2>1 DEF acquireLocked
  <2>5. /\ Cardinality(Holders(a)') = Cardinality(Holders(a)) + 1
        /\ \A b \in Accounts \ {a} : Holders(b)' = Holders(b)
    BY <1>0, <2>1, <2>2, HoldersGain
  <2>6. InUseNeverOvercounts'
    BY <1>0, <1>a, <2>4, <2>5, HoldersFinite DEF InUseNeverOvercounts
  <2> QED BY <2>3, <2>6
<1>2. ASSUME NEW r \in Requests, Finish(r) PROVE HolderInv' /\ InUseNeverOvercounts'
  <2>1. PICK a \in Accounts : a = account[r]
    BY <1>0, <1>a, <1>2 DEF Finish, HolderInv
  <2>2. HolderInv'
    BY <1>0, <1>a, <1>2 DEF Finish, HolderInv
  <2>3. /\ Cardinality(Holders(a)') = Cardinality(Holders(a)) - 1
        /\ Cardinality(Holders(a)) >= 1
        /\ \A b \in Accounts \ {a} : Holders(b)' = Holders(b)
    BY <1>0, <1>2, <2>1, HoldersLose DEF Finish
  <2>4. CASE inUse[a] > 0
    <3>1. inUse' = [inUse EXCEPT ![a] = @ - 1]
      BY <1>2, <2>1, <2>4 DEF Finish, Release
    <3> QED
      BY <1>0, <1>a, <2>1, <2>2, <2>3, <3>1, HoldersFinite DEF InUseNeverOvercounts
  <2>5. CASE ~(inUse[a] > 0)
    <3>1. inUse' = inUse
      BY <1>2, <2>1, <2>5 DEF Finish, Release, poolVars
    <3> QED
      BY <1>0, <1>a, <2>1, <2>2, <2>3, <2>5, <3>1, HoldersFinite DEF InUseNeverOvercounts
  <2> QED BY <2>4, <2>5
<1>3. ASSUME NEW m \in Admins, AdminResetInstalls(m) PROVE HolderInv' /\ InUseNeverOvercounts'
  <2>1. HolderInv' /\ account' = account
    BY <1>0, <1>3 DEF AdminResetInstalls, HolderInv, requestVars
  <2>2. inUse' = [a \in Accounts |-> 0]
    BY <1>3 DEF AdminResetInstalls, resetLocked
  <2> QED
    BY <2>1, <2>2, HoldersFinite DEF InUseNeverOvercounts, Holders
<1>4. ASSUME UNCHANGED <<inUse, account>>,
             \A r \in Requests : pc'[r] = pc[r] \/ (pc[r] # "held" /\ pc'[r] # "held")
      PROVE  HolderInv' /\ InUseNeverOvercounts'
  BY <1>0, <1>4 DEF HolderInv, InUseNeverOvercounts, Holders
<1>5. ASSUME NEW r \in Requests,
             \/ Call(r) \/ HangUp(r) \/ TryCancelled(r) \/ TryQueued(r)
             \/ TryRefused(r) \/ SelectWoken(r) \/ SelectDone(r)
      PROVE  HolderInv' /\ InUseNeverOvercounts'
  <2>1. UNCHANGED <<inUse, account>>
    BY <1>5 DEF Call, HangUp, TryCancelled, TryQueued, TryRefused, SelectWoken,
                SelectDone, enqueueWaiter, poolVars
  <2>2. \A q \in Requests : pc'[q] = pc[q] \/ (pc[q] # "held" /\ pc'[q] # "held")
    BY <1>5, <1>a DEF Call, HangUp, TryCancelled, TryQueued, TryRefused,
                      SelectWoken, Woken, SelectDone
  <2> QED BY <1>4, <2>1, <2>2
<1>6. ASSUME NEW m \in Admins,
             \/ AdminAdd(m) \/ AdminCaptureToken(m) \/ AdminDelete(m)
             \/ AdminSettings(m) \/ AdminResetReads(m)
             \/ AdminLimitsRead(m) \/ AdminLimitsApply(m)
      PROVE  HolderInv' /\ InUseNeverOvercounts'
  <2>1. UNCHANGED <<inUse, account, pc>>
    BY <1>6 DEF AdminAdd, AdminCaptureToken, AdminDelete, AdminSettings, AdminResetReads,
                AdminLimitsRead, AdminLimitsApply, resetUnlocked, ApplyRuntimeLimits, poolVars, requestVars
  <2> QED BY <1>4, <2>1
<1>7. ASSUME UNCHANGED vars PROVE HolderInv' /\ InUseNeverOvercounts'
  BY <1>4, <1>7 DEF vars, poolVars, requestVars
<1>8. HolderInv' /\ InUseNeverOvercounts'
  BY <1>1, <1>2, <1>3, <1>5, <1>6, <1>7
  DEF Next, RequestStep, AdminUpdate, AdminStep, AllEnded
<1> QED BY <1>0, <1>8 DEF LeakInv

(* No slot is leaked, whatever requests, clients and administrators do:    *)
(* Pool.Reset may forget slots that are in use but never invents any.      *)
THEOREM NoSlotLeaked == Spec => []InUseNeverOvercounts
<1>1. LeakInv => InUseNeverOvercounts
  BY DEF LeakInv
<1> QED BY LeakInit, LeakStep, <1>1, PTL DEF Spec

-----------------------------------------------------------------------------
(* Until a Reset meets slots in use the counters are exact.                *)

Leaseholders == {r \in Requests : account[r] # NoAccount}

(* The total canAcquireIDLocked compares with the global limit is exact.   *)
TotalInv == IsFiniteSet(BusySlots) /\ Cardinality(BusySlots) = Cardinality(Leaseholders)

ExactInv == LeakInv /\ SlotsMatchHolders /\ (~forgotten => TotalInv)

LEMMA BusyMember ==
  \A s : s \in BusySlots <=> \E a \in Accounts : \E i \in 1..inUse[a] : s = <<a, i>>
BY DEF BusySlots

LEMMA LeaseholdersFinite == IsFiniteSet(Leaseholders) /\ Cardinality(Leaseholders) \in Nat
BY PoolAssumption, FS_Subset, FS_CardinalityType DEF Leaseholders

(* One more slot of a, one more leaseholder.                               *)
LEMMA TotalGain ==
  ASSUME TypeOK, TotalInv, NEW r \in Requests, NEW a \in Accounts, account[r] = NoAccount,
         account' = [account EXCEPT ![r] = a], inUse' = [inUse EXCEPT ![a] = @ + 1]
  PROVE  TotalInv' /\ Cardinality(Leaseholders') = Cardinality(Leaseholders) + 1
<1>1. inUse \in [Accounts -> Nat] /\ NoAccount \notin Accounts
  BY PoolAssumption DEF TypeOK, PoolTypeOK
<1>2. Leaseholders' = Leaseholders \cup {r} /\ r \notin Leaseholders
  BY <1>1 DEF Leaseholders, TypeOK
<1> DEFINE slot == <<a, inUse[a] + 1>>
<1>3. \A s : s \in BusySlots' <=> s \in BusySlots \/ s = slot
  <2>1. \A b \in Accounts, i \in Int :
          i \in 1..inUse'[b] <=> i \in 1..inUse[b] \/ (b = a /\ i = inUse[a] + 1)
    BY <1>1
  <2>2. \A s : s \in BusySlots' <=> \E b \in Accounts : \E i \in 1..inUse'[b] : s = <<b, i>>
    BY DEF BusySlots
  <2>3. inUse[a] + 1 \in 1..inUse'[a]
    BY <1>1
  <2> QED
    BY <2>1, <2>2, <2>3, BusyMember
<1>4. slot \notin BusySlots
  BY <1>1, BusyMember
<1>5. BusySlots' = BusySlots \cup {slot}
  BY <1>3
<1>6. Cardinality(Leaseholders') = Cardinality(Leaseholders) + 1
  BY <1>2, LeaseholdersFinite, FS_AddElement
<1>7. IsFiniteSet(BusySlots') /\ Cardinality(BusySlots') = Cardinality(BusySlots) + 1
  BY <1>4, <1>5, FS_AddElement DEF TotalInv
<1> QED
  BY <1>6, <1>7 DEF TotalInv

(* One slot of a less, one leaseholder less.                               *)
LEMMA TotalLose ==
  ASSUME TypeOK, TotalInv, NEW r \in Requests, NEW a \in Accounts, account[r] = a, inUse[a] > 0,
         account' = [account EXCEPT ![r] = NoAccount], inUse' = [inUse EXCEPT ![a] = @ - 1]
  PROVE  TotalInv'
<1>1. inUse \in [Accounts -> Nat] /\ NoAccount \notin Accounts
  BY PoolAssumption DEF TypeOK, PoolTypeOK
<1>2. Leaseholders' = Leaseholders \ {r} /\ r \in Leaseholders
  BY <1>1 DEF Leaseholders, TypeOK
<1> DEFINE slot == <<a, inUse[a]>>
<1>3. \A s : s \in BusySlots' <=> s \in BusySlots /\ s # slot
  <2>1. \A b \in Accounts, i \in Int :
          i \in 1..inUse'[b] <=> i \in 1..inUse[b] /\ ~(b = a /\ i = inUse[a])
    BY <1>1
  <2>2. \A s : s \in BusySlots' <=> \E b \in Accounts : \E i \in 1..inUse'[b] : s = <<b, i>>
    BY DEF BusySlots
  <2> QED
    BY <2>1, <2>2, BusyMember
<1>4. slot \in BusySlots
  BY <1>1, BusyMember
<1>5. BusySlots' = BusySlots \ {slot}
  BY <1>3
<1>6. Cardinality(Leaseholders') = Cardinality(Leaseholders) - 1
  BY <1>2, LeaseholdersFinite, FS_RemoveElement
<1>7. IsFiniteSet(BusySlots') /\ Cardinality(BusySlots') = Cardinality(BusySlots) - 1
  BY <1>4, <1>5, FS_RemoveElement DEF TotalInv
<1> QED
  BY <1>6, <1>7 DEF TotalInv

LEMMA ExactInit == Init => ExactInv
<1> SUFFICES ASSUME Init PROVE ExactInv
  OBVIOUS
<1>1. \A a \in Accounts : Holders(a) = {}
  BY PoolAssumption DEF Init, Holders
<1>2. SlotsMatchHolders
  BY <1>1, FS_EmptySet DEF Init, PoolInit, SlotsMatchHolders
<1>3. BusySlots = {} /\ Leaseholders = {}
  <2>1. \A a \in Accounts : 1..inUse[a] = {}
    BY DEF Init, PoolInit
  <2> QED
    BY <2>1, BusyMember DEF Init, Leaseholders
<1>4. TotalInv
  BY <1>3, FS_EmptySet DEF TotalInv
<1> QED
  BY <1>2, <1>4, LeakInit DEF ExactInv

LEMMA ExactStep == ExactInv /\ [Next]_vars => ExactInv'
<1> SUFFICES ASSUME ExactInv, [Next]_vars PROVE ExactInv'
  OBVIOUS
<1>0. LeakInv' /\ TypeOK /\ HolderInv /\ SlotsMatchHolders /\ (~forgotten => TotalInv)
  BY LeakStep DEF ExactInv, LeakInv
<1>a. /\ inUse \in [Accounts -> Nat] /\ account \in [Requests -> Accounts \cup {NoAccount}]
      /\ forgotten \in BOOLEAN /\ forgotten' \in BOOLEAN
  BY <1>0 DEF LeakInv, TypeOK, PoolTypeOK
<1> DEFINE Goal == SlotsMatchHolders /\ (~forgotten => TotalInv)
<1>1. ASSUME NEW r \in Requests, TryGranted(r) PROVE Goal'
  <2>0. forgotten' = forgotten
    BY <1>1 DEF TryGranted, adminVars
  <2> SUFFICES ASSUME ~forgotten PROVE SlotsMatchHolders' /\ TotalInv'
    BY <2>0 DEF SlotsMatchHolders
  <2>1. PICK a \in Accounts : /\ acquireLocked(a, target[r], tried[r])
                              /\ account' = [account EXCEPT ![r] = a]
    BY <1>1 DEF TryGranted
  <2>2. account[r] = NoAccount
    BY <1>0, <1>1 DEF TryGranted, HolderInv
  <2>3. inUse' = [inUse EXCEPT ![a] = @ + 1]
    BY <2>1 DEF acquireLocked
  <2>4. TotalInv'
    BY <1>0, <2>1, <2>2, <2>3, TotalGain
  <2>5. /\ Cardinality(Holders(a)') = Cardinality(Holders(a)) + 1
        /\ \A b \in Accounts \ {a} : Holders(b)' = Holders(b)
    BY <1>0, <2>1, <2>2, HoldersGain
  <2>6. SlotsMatchHolders'
    BY <1>0, <1>a, <2>3, <2>5 DEF SlotsMatchHolders
  <2> QED BY <2>4, <2>6
<1>2. ASSUME NEW r \in Requests, Finish(r) PROVE Goal'
  <2>0. forgotten' = forgotten
    BY <1>2 DEF Finish, adminVars
  <2> SUFFICES ASSUME ~forgotten PROVE SlotsMatchHolders' /\ TotalInv'
    BY <2>0 DEF SlotsMatchHolders
  <2>1. PICK a \in Accounts : a = account[r]
    BY <1>0, <1>a, <1>2 DEF Finish, HolderInv
  <2>2. account' = [account EXCEPT ![r] = NoAccount]
    BY <1>2 DEF Finish
  <2>3. /\ Cardinality(Holders(a)') = Cardinality(Holders(a)) - 1
        /\ Cardinality(Holders(a)) >= 1
        /\ \A b \in Accounts \ {a} : Holders(b)' = Holders(b)
    BY <1>0, <2>1, <2>2, HoldersLose
  <2>4. inUse[a] > 0
    BY <1>0, <1>a, <2>3 DEF SlotsMatchHolders
  <2>5. inUse' = [inUse EXCEPT ![a] = @ - 1]
    BY <1>2, <2>1, <2>4 DEF Finish, Release
  <2>6. TotalInv'
    BY <1>0, <2>1, <2>2, <2>4, <2>5, TotalLose
  <2>7. SlotsMatchHolders'
    BY <1>0, <1>a, <2>3, <2>5, HoldersFinite DEF SlotsMatchHolders
  <2> QED BY <2>6, <2>7
<1>3. ASSUME UNCHANGED <<inUse, account>>, forgotten' = forgotten PROVE Goal'
  BY <1>0, <1>3 DEF SlotsMatchHolders, TotalInv, Holders, BusySlots, Leaseholders
<1>4. ASSUME NEW r \in Requests,
             \/ Call(r) \/ HangUp(r) \/ TryCancelled(r) \/ TryQueued(r)
             \/ TryRefused(r) \/ SelectWoken(r) \/ SelectDone(r)
      PROVE  Goal'
  <2>1. UNCHANGED <<inUse, account, forgotten>>
    BY <1>4 DEF Call, HangUp, TryCancelled, TryQueued, TryRefused, SelectWoken,
                SelectDone, enqueueWaiter, poolVars, adminVars
  <2> QED BY <1>3, <2>1
<1>5. ASSUME NEW m \in Admins,
             \/ AdminAdd(m) \/ AdminCaptureToken(m) \/ AdminDelete(m)
             \/ AdminSettings(m) \/ AdminResetReads(m)
             \/ AdminLimitsRead(m) \/ AdminLimitsApply(m)
      PROVE  Goal'
  <2>1. UNCHANGED <<inUse, account, forgotten>>
    BY <1>5 DEF AdminAdd, AdminCaptureToken, AdminDelete, AdminSettings, AdminResetReads,
                AdminLimitsRead, AdminLimitsApply, resetUnlocked, ApplyRuntimeLimits,
                poolVars, requestVars
  <2> QED BY <1>3, <2>1
<1>6. ASSUME NEW m \in Admins, AdminResetInstalls(m) PROVE Goal'
  (* A Reset that forgets nothing found every counter at zero.             *)
  <2>1. /\ forgotten' = (forgotten \/ \E a \in Accounts : inUse[a] > 0)
        /\ inUse' = [a \in Accounts |-> 0]
        /\ account' = account
    BY <1>6 DEF AdminResetInstalls, resetLocked, requestVars
  <2>2. CASE forgotten'
    BY <2>2 DEF SlotsMatchHolders
  <2>3. CASE ~forgotten'
    <3>1. ~forgotten /\ \A a \in Accounts : ~(inUse[a] > 0)
      BY Zenon, <2>1, <2>3
    <3>2. inUse = [a \in Accounts |-> 0]
      BY <1>a, <3>1
    <3>3. inUse' = inUse /\ account' = account
      BY <2>1, <3>2
    <3>4. forgotten' = forgotten
      BY Zenon, <1>a, <2>3, <3>1
    <3> QED BY <1>3, <3>3, <3>4
  <2> QED BY <2>2, <2>3
<1>7. ASSUME UNCHANGED vars PROVE Goal'
  <2>1. UNCHANGED <<inUse, account, forgotten>>
    BY <1>7 DEF vars, poolVars, requestVars, adminVars
  <2> QED BY <1>3, <2>1
<1>8. Goal'
  BY <1>1, <1>2, <1>4, <1>5, <1>6, <1>7
  DEF Next, RequestStep, AdminUpdate, AdminStep, AllEnded
<1> QED BY <1>0, <1>8 DEF ExactInv

(* inUse counts the holders exactly, whatever happens to limits, accounts, *)
(* queues and contexts, until a Reset meets slots in use.                  *)
THEOREM CountersExact == Spec => []SlotsMatchHolders
<1>1. ExactInv => SlotsMatchHolders
  BY DEF ExactInv
<1> QED BY ExactInit, ExactStep, <1>1, PTL DEF Spec

(* Under the exact counters canAcquireIDLocked compares the limits with    *)
(* the real numbers of holders.                                            *)
LEMMA GrantRespectsLimits ==
  ASSUME ExactInv, ~forgotten, NEW r \in Requests, NEW a \in Accounts, pc[r] = "try",
         acquireLocked(a, target[r], tried[r])
  PROVE  /\ account[r] = NoAccount
         /\ Cardinality(Holders(a)) < maxInflight
         /\ globalMax > 0 => Cardinality(Leaseholders) < globalMax
<1>1. canAcquireID(a)
  BY DEF acquireLocked, Grantable, Allowed
<1>2. account[r] = NoAccount
  BY DEF ExactInv, LeakInv, HolderInv
<1> QED
  BY <1>1, <1>2 DEF canAcquireID, currentInUse, ExactInv, SlotsMatchHolders, TotalInv

LEMMA GrantStepWithinLimits ==
  ASSUME ExactInv, ~forgotten, [Next]_vars, NEW r \in Requests,
         account[r] = NoAccount, account'[r] # NoAccount
  PROVE  /\ Cardinality({s \in Requests : account'[s] = account'[r]}) <= maxInflight
         /\ globalMax > 0 =>
              Cardinality({s \in Requests : account'[s] # NoAccount}) <= globalMax
<1>0. TypeOK /\ HolderInv /\ TotalInv
  BY DEF ExactInv, LeakInv
<1>a. account \in [Requests -> Accounts \cup {NoAccount}] /\ maxInflight \in Nat /\ globalMax \in Nat
  BY <1>0 DEF TypeOK, PoolTypeOK
<1>1. account' # account
  OBVIOUS
<1>2. \A q \in Requests : ~Finish(q)
  BY <1>0, <1>a DEF Finish, HolderInv
<1>3. TryGranted(r)
  BY <1>1, <1>2, <1>a
  DEF Next, RequestStep, AdminUpdate, AdminStep, AllEnded, vars, requestVars, Call, HangUp,
      TryCancelled, TryGranted, TryQueued, TryRefused, SelectWoken, SelectDone, AdminAdd,
      AdminCaptureToken, AdminDelete, AdminSettings, AdminResetReads, AdminResetInstalls, AdminLimitsRead,
      AdminLimitsApply
<1>4. PICK a \in Accounts : /\ acquireLocked(a, target[r], tried[r])
                            /\ account' = [account EXCEPT ![r] = a]
  BY <1>3 DEF TryGranted
<1>5. /\ Cardinality(Holders(a)) < maxInflight
      /\ globalMax > 0 => Cardinality(Leaseholders) < globalMax
  BY <1>3, <1>4, GrantRespectsLimits DEF TryGranted
<1>6. Cardinality(Holders(a)') = Cardinality(Holders(a)) + 1
  BY <1>0, <1>4, HoldersGain
<1>7. Cardinality(Leaseholders') = Cardinality(Leaseholders) + 1
  <2>1. inUse' = [inUse EXCEPT ![a] = @ + 1]
    BY <1>4 DEF acquireLocked
  <2> QED BY <1>0, <1>4, <2>1, TotalGain
<1>8. /\ Holders(a)' = {s \in Requests : account'[s] = account'[r]}
      /\ Leaseholders' = {s \in Requests : account'[s] # NoAccount}
  BY <1>a, <1>4 DEF Holders, Leaseholders
<1> QED
  BY <1>a, <1>5, <1>6, <1>7, <1>8, HoldersFinite, LeaseholdersFinite

(* Nobody is ever granted an account beyond the per-account or the global  *)
(* limit in force, however the limits are changed, unless a Reset has      *)
(* forgotten holders.                                                      *)
THEOREM LimitsHold == Spec => GrantWithinLimits
<1>1. ExactInv /\ [Next]_vars =>
        [\A r \in Requests :
           ~forgotten /\ account[r] = NoAccount /\ account'[r] # NoAccount =>
             /\ Cardinality({s \in Requests : account'[s] = account'[r]}) <= maxInflight
             /\ globalMax > 0 =>
                  Cardinality({s \in Requests : account'[s] # NoAccount}) <= globalMax]_vars
  BY GrantStepWithinLimits
<1> QED BY ExactInit, ExactStep, <1>1, PTL DEF Spec, GrantWithinLimits

-----------------------------------------------------------------------------
(* The pool implements SlotLeases while nobody reconfigures it.            *)

FixedLimits == maxInflight = InitialPer /\ globalMax = InitialGlobal /\ ~forgotten

LEMMA FixedInit == Init => FixedLimits
BY DEF Init, PoolInit, FixedLimits, InitialPer, InitialGlobal, PerAccount, ResetSnapshots,
       EffectiveLimits

LEMMA FixedStep ==
  ASSUME Admins = {}
  PROVE  FixedLimits /\ [Next]_vars => FixedLimits'
<1> SUFFICES ASSUME FixedLimits, [Next]_vars PROVE FixedLimits'
  OBVIOUS
<1>1. UNCHANGED <<maxInflight, globalMax, forgotten>>
  BY DEF Next, RequestStep, AllEnded, vars, poolVars, limitVars, adminVars, Call, HangUp,
         TryCancelled, TryGranted, TryQueued, TryRefused, SelectWoken, SelectDone,
         Finish, acquireLocked, enqueueWaiter, Release
<1> QED BY <1>1 DEF FixedLimits

(* SlotLeases counts with its own instance of the same definition.         *)
LEMMA SameCardinality == \A S : Leases!Cardinality(S) = Cardinality(S)
BY Zenon DEF Leases!Cardinality, Cardinality

LEMMA LeaseStep ==
  ASSUME Admins = {}, ExactInv, FixedLimits, [Next]_vars
  PROVE  [Leases!Next]_account
<1>0. TypeOK /\ HolderInv
  BY DEF ExactInv, LeakInv
<1>1. ASSUME NEW r \in Requests, TryGranted(r) PROVE Leases!Next
  <2>1. PICK a \in Accounts : /\ acquireLocked(a, target[r], tried[r])
                              /\ account' = [account EXCEPT ![r] = a]
    BY <1>1 DEF TryGranted
  <2>2. /\ account[r] = NoAccount
        /\ Cardinality(Holders(a)) < maxInflight
        /\ globalMax > 0 => Cardinality(Leaseholders) < globalMax
    BY <1>1, <2>1, GrantRespectsLimits DEF TryGranted, FixedLimits
  <2>3. Leases!Take(r, a)
    BY <2>1, <2>2, SameCardinality DEF Leases!Take, Leases!LeaseHolders, Leases!Leased, FixedLimits,
                      Holders, Leaseholders
  <2> QED BY <2>3 DEF Leases!Next
<1>2. ASSUME NEW r \in Requests, Finish(r) PROVE Leases!Next
  <2>1. Leases!Give(r)
    BY <1>0, <1>2 DEF Finish, HolderInv, Leases!Give
  <2> QED BY <2>1 DEF Leases!Next
<1>3. ASSUME NEW r \in Requests,
             \/ Call(r) \/ HangUp(r) \/ TryCancelled(r) \/ TryQueued(r)
             \/ TryRefused(r) \/ SelectWoken(r) \/ SelectDone(r)
      PROVE  UNCHANGED account
  BY <1>3 DEF Call, HangUp, TryCancelled, TryQueued, TryRefused, SelectWoken, SelectDone
<1>4. ASSUME UNCHANGED vars PROVE UNCHANGED account
  BY <1>4 DEF vars, requestVars
<1> QED
  BY <1>1, <1>2, <1>3, <1>4 DEF Next, RequestStep, AllEnded

(* AcquireWait and Release over queue, counters, waiters and contexts      *)
(* implement the bounded leases their callers rely on.                     *)
THEOREM PoolImplementsLeases ==
  ASSUME Admins = {}
  PROVE  Spec => ImplementsSlotLeases
<1>1. Init => Leases!Init
  BY DEF Init, Leases!Init
<1> QED
  BY <1>1, ExactInit, ExactStep, FixedInit, FixedStep, LeaseStep, PTL
  DEF Spec, ImplementsSlotLeases, Leases!Spec

-----------------------------------------------------------------------------
(* The FIFO holds open channels only, each once.                           *)

WaiterInv ==
  /\ \A i \in DOMAIN waiters : pc[waiters[i]] = "wait"
  /\ \A i, j \in DOMAIN waiters : waiters[i] = waiters[j] => i = j

(* A wake-up takes the first channel away and leaves the others.           *)
LEMMA NotifyKeeps ==
  ASSUME TypeOK, WaiterInv, notifyWaiterLocked,
         \A r \in Requests : pc[r] = "wait" => pc'[r] = "wait"
  PROVE  WaiterInv'
<1>1. waiters \in Seq(Requests) /\ DOMAIN waiters = 1..Len(waiters) /\ Len(waiters) \in Nat
  BY LenProperties DEF TypeOK, PoolTypeOK
<1>2. \A i \in DOMAIN waiters : waiters[i] \in Requests
  BY <1>1, ElementOfSeq
<1>3. CASE waiters = <<>>
  BY <1>3 DEF notifyWaiterLocked, WaiterInv
<1>4. CASE waiters # <<>>
  <2>1. /\ DOMAIN waiters' = 1..(Len(waiters) - 1)
        /\ \A i \in 1..(Len(waiters) - 1) : waiters'[i] = waiters[i + 1]
    BY <1>1, <1>4, HeadTailProperties, LenProperties DEF notifyWaiterLocked
  <2>2. \A i \in DOMAIN waiters' : i + 1 \in DOMAIN waiters /\ waiters'[i] = waiters[i + 1]
    BY <1>1, <2>1
  <2>3. \A i \in DOMAIN waiters' : pc'[waiters'[i]] = "wait"
    BY <1>2, <2>2 DEF WaiterInv
  <2>4. \A i, j \in DOMAIN waiters' : waiters'[i] = waiters'[j] => i = j
    <3> SUFFICES ASSUME NEW i \in DOMAIN waiters', NEW j \in DOMAIN waiters', waiters'[i] = waiters'[j]
                 PROVE  i = j
      OBVIOUS
    <3>1. i + 1 = j + 1
      BY <2>2 DEF WaiterInv
    <3> QED BY <2>1, <3>1
  <2> QED BY <2>3, <2>4 DEF WaiterInv
<1> QED BY <1>3, <1>4

LEMMA WaiterStep == TypeOK /\ WaiterInv /\ [Next]_vars => WaiterInv'
<1> SUFFICES ASSUME TypeOK, WaiterInv, [Next]_vars PROVE WaiterInv'
  OBVIOUS
<1>0. /\ waiters \in Seq(Requests) /\ DOMAIN waiters = 1..Len(waiters) /\ Len(waiters) \in Nat
      /\ pc \in [Requests -> RequestStates]
  BY LenProperties DEF TypeOK, PoolTypeOK
<1>a. \A i \in DOMAIN waiters : waiters[i] \in Requests
  BY <1>0, ElementOfSeq
<1>1. ASSUME UNCHANGED waiters, \A r \in Requests : pc[r] = "wait" => pc'[r] = "wait" \/ r \notin ToSet(waiters)
      PROVE  WaiterInv'
  BY <1>a, <1>1 DEF WaiterInv, ToSet
<1>2. ASSUME NEW r \in Requests,
             \/ Call(r) \/ HangUp(r) \/ TryCancelled(r) \/ TryGranted(r) \/ TryRefused(r) \/ SelectWoken(r)
      PROVE  WaiterInv'
  <2>1. UNCHANGED waiters
    BY <1>2 DEF Call, HangUp, TryCancelled, TryGranted, TryRefused, SelectWoken, acquireLocked, poolVars
  <2>2. \A q \in Requests : pc[q] = "wait" => pc'[q] = "wait" \/ q \notin ToSet(waiters)
    BY <1>0, <1>2 DEF Call, HangUp, TryCancelled, TryGranted, TryRefused, SelectWoken, Woken
  <2> QED BY <1>1, <2>1, <2>2
<1>3. ASSUME NEW r \in Requests, TryQueued(r) PROVE WaiterInv'
  <2>1. waiters' = Append(waiters, r) /\ pc[r] = "try" /\ pc' = [pc EXCEPT ![r] = "wait"]
    BY <1>3 DEF TryQueued, enqueueWaiter
  <2>2. /\ DOMAIN waiters' = 1..(Len(waiters) + 1)
        /\ \A i \in 1..Len(waiters) : waiters'[i] = waiters[i]
        /\ waiters'[Len(waiters) + 1] = r
    BY <1>0, <2>1, AppendProperties, LenProperties
  <2>3. \A i \in DOMAIN waiters : waiters[i] # r
    BY <2>1 DEF WaiterInv
  <2>4. \A i \in DOMAIN waiters' : pc'[waiters'[i]] = "wait"
    BY <1>0, <1>a, <2>1, <2>2 DEF WaiterInv
  <2>5. \A i, j \in DOMAIN waiters' : waiters'[i] = waiters'[j] => i = j
    BY <1>0, <2>2, <2>3 DEF WaiterInv
  <2> QED BY <2>4, <2>5 DEF WaiterInv
<1>4. ASSUME NEW r \in Requests, SelectDone(r) PROVE WaiterInv'
  <2>1. pc' = [pc EXCEPT ![r] = "cancelled"] /\ removeWaiterLocked(r)
    BY <1>4 DEF SelectDone
  <2>2. CASE \E i \in DOMAIN waiters : waiters[i] = r
    <3>1. PICK i \in DOMAIN waiters : waiters[i] = r /\ waiters' = RemoveAt(waiters, i)
      BY <2>1, <2>2 DEF removeWaiterLocked
    <3>2. /\ DOMAIN waiters' = 1..(Len(waiters) - 1)
          /\ \A j \in 1..(Len(waiters) - 1) : waiters'[j] = IF j < i THEN waiters[j] ELSE waiters[j + 1]
      BY <1>0, <3>1, RemoveAtElements
    <3>3. \A j \in DOMAIN waiters' : \E k \in DOMAIN waiters \ {i} :
             waiters'[j] = waiters[k] /\ k = IF j < i THEN j ELSE j + 1
      BY <1>0, <3>2
    <3>4. \A k \in DOMAIN waiters \ {i} : waiters[k] # r
      BY <3>1 DEF WaiterInv
    <3>5. \A j \in DOMAIN waiters' : pc'[waiters'[j]] = "wait"
      BY <1>0, <1>a, <2>1, <3>3, <3>4 DEF WaiterInv
    <3>6. \A j, k \in DOMAIN waiters' : waiters'[j] = waiters'[k] => j = k
      <4> SUFFICES ASSUME NEW j \in DOMAIN waiters', NEW k \in DOMAIN waiters', waiters'[j] = waiters'[k]
                   PROVE  j = k
        OBVIOUS
      <4>1. (IF j < i THEN j ELSE j + 1) = (IF k < i THEN k ELSE k + 1)
        BY <3>3 DEF WaiterInv
      <4> QED BY <1>0, <3>2, <4>1
    <3> QED BY <3>5, <3>6 DEF WaiterInv
  <2>3. CASE ~\E i \in DOMAIN waiters : waiters[i] = r
    <3>1. UNCHANGED waiters /\ r \notin ToSet(waiters)
      BY <2>1, <2>3 DEF removeWaiterLocked, ToSet
    <3> QED BY <1>0, <1>1, <2>1, <3>1
  <2> QED BY <2>2, <2>3
<1>5. ASSUME NEW r \in Requests, Finish(r) PROVE WaiterInv'
  <2>1. \A q \in Requests : pc[q] = "wait" => pc'[q] = "wait"
    BY <1>0, <1>5 DEF Finish
  <2>2. UNCHANGED waiters \/ notifyWaiterLocked
    BY <1>5 DEF Finish, Release, poolVars
  <2> QED BY <1>1, <2>1, <2>2, NotifyKeeps
<1>6. ASSUME NEW m \in Admins,
             \/ AdminAdd(m) \/ AdminCaptureToken(m) \/ AdminDelete(m) \/ AdminSettings(m)
             \/ AdminResetReads(m) \/ AdminLimitsRead(m)
      PROVE  WaiterInv'
  <2>1. UNCHANGED <<waiters, pc>>
    BY <1>6 DEF AdminAdd, AdminCaptureToken, AdminDelete, AdminSettings, AdminResetReads,
                AdminLimitsRead, resetUnlocked, poolVars, requestVars
  <2> QED BY <2>1 DEF WaiterInv
<1>7. ASSUME NEW m \in Admins, AdminResetInstalls(m) PROVE WaiterInv'
  BY <1>7 DEF AdminResetInstalls, resetLocked, WaiterInv
<1>8. ASSUME NEW m \in Admins, AdminLimitsApply(m) PROVE WaiterInv'
  BY <1>8, NotifyKeeps DEF AdminLimitsApply, ApplyRuntimeLimits, requestVars
<1>9. ASSUME UNCHANGED vars PROVE WaiterInv'
  BY <1>9 DEF vars, poolVars, requestVars, WaiterInv
<1> QED
  BY <1>2, <1>3, <1>4, <1>5, <1>6, <1>7, <1>8, <1>9
  DEF Next, RequestStep, AdminUpdate, AdminStep, AllEnded

(* Nobody who left AcquireWait stays in the FIFO, and nobody is in it       *)
(* twice: removeWaiterLocked takes out a goroutine's own channel, and each *)
(* wake-up reaches somebody who waits.                                     *)
THEOREM WaitersWait == Spec => []NoAbandonedWaiter
<1>1. Init => WaiterInv
  BY DEF Init, PoolInit, WaiterInv
<1>2. TypeOK /\ WaiterInv => NoAbandonedWaiter
  BY DEF WaiterInv, NoAbandonedWaiter
<1> QED BY TypeInit, TypeStep, WaiterStep, <1>1, <1>2, PTL DEF Spec

-----------------------------------------------------------------------------
(* No wake-up is lost, as long as nobody hangs up, pins or excludes an     *)
(* account, or reconfigures the pool.  Then all callers want the same, and *)
(* while some wait, the free slots are no more than the requests that are  *)
(* on their way to take one.                                               *)

(* Some position is the first.                                             *)
LEMMA FirstPosition ==
  ASSUME NEW n \in Nat, NEW T \in SUBSET (1..n), T # {}
  PROVE  \E x \in T : \A y \in T : x <= y
<1> DEFINE Below == {1..x : x \in T}
<1>0. IsFiniteSet(1..n)
  BY FS_Interval
<1>1. IsWellFoundedOn(StrictSubsetOrdering(1..n), SUBSET (1..n))
  BY <1>0, FS_StrictSubsetOrderingWellFounded, FS_FiniteSubsetsOfFinite
<1>2. Below \subseteq SUBSET (1..n) /\ Below # {}
  <2>1. \A x \in T : 1..x \in SUBSET (1..n)
    OBVIOUS
  <2> QED BY <2>1
<1>3. PICK s \in Below : \A y \in Below : ~ (<<y, s>> \in StrictSubsetOrdering(1..n))
  <2> HIDE DEF Below
  <2> QED BY <1>1, <1>2, WFMin
<1>4. PICK x \in T : s = 1..x
  BY <1>3
<1>5. ASSUME NEW y \in T PROVE x <= y
  <2> SUFFICES ASSUME y < x PROVE FALSE
    OBVIOUS
  <2>1. 1..y \subseteq 1..x /\ 1..y # 1..x
    OBVIOUS
  <2>2. 1..y \in SUBSET (1..n) /\ 1..x \in SUBSET (1..n) /\ 1..y \in Below
    OBVIOUS
  <2> DEFINE p == <<1..y, 1..x>>
  <2>3. p \in (SUBSET (1..n)) \X (SUBSET (1..n)) /\ p[1] \subseteq p[2] /\ p[1] # p[2]
    BY <2>1, <2>2
  <2>4. p \in StrictSubsetOrdering(1..n)
    <3> HIDE DEF p
    <3> QED BY <2>3 DEF StrictSubsetOrdering
  <2> QED BY <1>3, <1>4, <2>2, <2>4
<1> QED BY <1>5

(* The round robin reaches every configured account.                       *)
QueueIsWhole == Configured \subseteq ToSet(queue)

(* When acquireLocked finds nothing for a request without wishes, every    *)
(* configured account is full, or all of them together are.                *)
LEMMA NothingToGrant ==
  ASSUME PoolTypeOK, QueueIsWhole, Grantable(NoAccount, {}) = {}
  PROVE  \/ \A a \in Configured : inUse[a] >= maxInflight
         \/ globalMax > 0 /\ ~(currentInUse < globalMax)
<1> DEFINE open == {j \in DOMAIN queue : Allowed(queue[j], {})}
<1>1. DOMAIN queue = 1..Len(queue) /\ Len(queue) \in Nat
  BY LenProperties DEF PoolTypeOK
<1>2. open = {}
  <2> SUFFICES ASSUME open # {} PROVE FALSE
    OBVIOUS
  <2>1. PICK i \in open : \A j \in open : i <= j
    BY <1>1, FirstPosition
  <2>2. \A k \in 1..(i - 1) : ~Allowed(queue[k], {})
    BY <1>1, <2>1
  <2> QED BY <2>1, <2>2 DEF Grantable
<1>3. \A a \in Configured : ~canAcquireID(a)
  BY <1>2 DEF QueueIsWhole, ToSet, Allowed
<1>4. \A a \in Configured : a \in Accounts
  <2>1. accounts \in Seq(Accounts)
    BY DEF PoolTypeOK
  <2> QED BY <2>1, ElementOfSeq, LenProperties DEF Configured, ToSet
<1>5. CASE globalMax > 0 /\ ~(currentInUse < globalMax)
  BY <1>5
<1>6. CASE globalMax > 0 => currentInUse < globalMax
  BY <1>3, <1>4, <1>6 DEF canAcquireID, PoolTypeOK
<1> QED BY <1>5, <1>6

Awake == {r \in Requests : pc[r] = "try" \/ Woken(r)}
FreeSlots == UNION {{a} \X ((inUse[a] + 1)..maxInflight) : a \in Configured}

EnoughAwake ==
  waiters # <<>> =>
    \/ Cardinality(FreeSlots) <= Cardinality(Awake)
    \/ globalMax > 0 /\ globalMax - Cardinality(BusySlots) <= Cardinality(Awake)

Wishless == ctxDone = {} /\ \A r \in Requests : target[r] = NoAccount /\ tried[r] = {}

WakeInv == ExactInv /\ FixedLimits /\ WaiterInv /\ QueueIsWhole /\ Wishless /\ EnoughAwake

LEMMA AwakeFinite == IsFiniteSet(Awake) /\ Cardinality(Awake) \in Nat
BY PoolAssumption, FS_Subset, FS_CardinalityType DEF Awake

LEMMA ConfiguredFinite ==
  ASSUME PoolTypeOK
  PROVE  Configured \subseteq Accounts /\ IsFiniteSet(Configured)
<1>1. Configured \subseteq Accounts
  BY ElementOfSeq, LenProperties DEF Configured, ToSet, PoolTypeOK
<1> QED BY <1>1, PoolAssumption, FS_Subset

LEMMA FreeMember ==
  \A s : s \in FreeSlots <=> \E a \in Configured : \E i \in (inUse[a] + 1)..maxInflight : s = <<a, i>>
BY DEF FreeSlots

LEMMA FreeFinite ==
  ASSUME PoolTypeOK
  PROVE  IsFiniteSet(FreeSlots) /\ Cardinality(FreeSlots) \in Nat
<1>1. IsFiniteSet(1..maxInflight)
  BY FS_Interval DEF PoolTypeOK
<1>2. IsFiniteSet(Configured \X (1..maxInflight))
  BY <1>1, ConfiguredFinite, FS_Product
<1>3. \A a \in Configured : inUse[a] \in Nat
  BY ConfiguredFinite DEF PoolTypeOK
<1>4. FreeSlots \subseteq Configured \X (1..maxInflight)
  <2> SUFFICES ASSUME NEW s \in FreeSlots PROVE s \in Configured \X (1..maxInflight)
    OBVIOUS
  <2>1. PICK a \in Configured : \E i \in (inUse[a] + 1)..maxInflight : s = <<a, i>>
    BY FreeMember
  <2>2. PICK i \in (inUse[a] + 1)..maxInflight : s = <<a, i>>
    BY <2>1
  <2> QED BY <1>3, <2>2
<1> QED BY <1>2, <1>4, FS_Subset, FS_CardinalityType

(* A grant takes one of the free slots, a release frees one at most.       *)
LEMMA FreeLess ==
  ASSUME PoolTypeOK, NEW a \in Configured, inUse[a] < maxInflight,
         inUse' = [inUse EXCEPT ![a] = @ + 1], UNCHANGED <<accounts, maxInflight>>
  PROVE  Cardinality(FreeSlots') = Cardinality(FreeSlots) - 1
<1> DEFINE slot == <<a, inUse[a] + 1>>
<1>1. Configured' = Configured /\ Configured \subseteq Accounts
  BY ConfiguredFinite DEF Configured
<1>2. inUse \in [Accounts -> Nat] /\ maxInflight \in Nat
  BY DEF PoolTypeOK
<1>3. \A s : s \in FreeSlots' <=> s \in FreeSlots /\ s # slot
  <2>1. \A b \in Configured, i \in Int :
          i \in (inUse'[b] + 1)..maxInflight' <=> i \in (inUse[b] + 1)..maxInflight /\ ~(b = a /\ i = inUse[a] + 1)
    BY <1>1, <1>2
  <2>2. \A s : s \in FreeSlots' <=>
                 \E b \in Configured : \E i \in (inUse'[b] + 1)..maxInflight' : s = <<b, i>>
    BY <1>1 DEF FreeSlots
  <2> QED BY <2>1, <2>2, FreeMember
<1>4. slot \in FreeSlots
  BY <1>1, <1>2, FreeMember
<1>5. FreeSlots' = FreeSlots \ {slot}
  BY <1>3
<1> QED BY <1>4, <1>5, FreeFinite, FS_RemoveElement

LEMMA FreeMore ==
  ASSUME PoolTypeOK, NEW a \in Accounts, inUse[a] > 0,
         inUse' = [inUse EXCEPT ![a] = @ - 1], UNCHANGED <<accounts, maxInflight>>
  PROVE  Cardinality(FreeSlots') \in Nat /\ Cardinality(FreeSlots') <= Cardinality(FreeSlots) + 1
<1> DEFINE slot == <<a, inUse[a]>>
<1>1. Configured' = Configured /\ Configured \subseteq Accounts
  BY ConfiguredFinite DEF Configured
<1>2. inUse \in [Accounts -> Nat] /\ maxInflight \in Nat
  BY DEF PoolTypeOK
<1>3. FreeSlots' \subseteq FreeSlots \cup {slot}
  <2>1. \A b \in Configured, i \in Int :
          i \in (inUse'[b] + 1)..maxInflight' => i \in (inUse[b] + 1)..maxInflight \/ (b = a /\ i = inUse[a])
    BY <1>1, <1>2
  <2>2. \A s : s \in FreeSlots' <=>
                 \E b \in Configured : \E i \in (inUse'[b] + 1)..maxInflight' : s = <<b, i>>
    BY <1>1 DEF FreeSlots
  <2> QED BY <2>1, <2>2, FreeMember
<1>4. IsFiniteSet(FreeSlots \cup {slot}) /\ Cardinality(FreeSlots \cup {slot}) <= Cardinality(FreeSlots) + 1
  <2> HIDE DEF slot
  <2>0. IsFiniteSet(FreeSlots) /\ Cardinality(FreeSlots) \in Nat
    BY FreeFinite
  <2>1. CASE slot \in FreeSlots
    <3>1. FreeSlots \cup {slot} = FreeSlots
      BY <2>1
    <3>2. Cardinality(FreeSlots) <= Cardinality(FreeSlots) + 1
      BY <2>0
    <3> QED BY <2>0, <3>1, <3>2
  <2>2. CASE slot \notin FreeSlots
    <3>1. /\ IsFiniteSet(FreeSlots \cup {slot})
          /\ Cardinality(FreeSlots \cup {slot}) = Cardinality(FreeSlots) + 1
      BY <2>0, <2>2, FS_AddElement
    <3> QED BY <2>0, <3>1
  <2> QED BY <2>1, <2>2
<1>5. Cardinality(FreeSlots') <= Cardinality(FreeSlots \cup {slot}) /\ IsFiniteSet(FreeSlots')
  BY <1>3, <1>4, FS_Subset
<1> QED BY <1>4, <1>5, FreeFinite, FS_CardinalityType

(* When nothing can be granted, nobody need be awake.                      *)
LEMMA NobodyNeeded ==
  ASSUME PoolTypeOK, TotalInv, QueueIsWhole, Grantable(NoAccount, {}) = {}
  PROVE  \/ Cardinality(FreeSlots) = 0
         \/ globalMax > 0 /\ globalMax - Cardinality(BusySlots) <= 0
<1>1. CASE \A a \in Configured : inUse[a] >= maxInflight
  <2>1. \A a \in Configured : inUse[a] \in Nat /\ maxInflight \in Nat
    BY ConfiguredFinite DEF PoolTypeOK
  <2>2. FreeSlots = {}
    BY <1>1, <2>1, FreeMember
  <2> QED BY <2>2, FS_EmptySet
<1>2. CASE globalMax > 0 /\ ~(currentInUse < globalMax)
  <2>1. Cardinality(BusySlots) \in Nat /\ globalMax \in Nat
    BY LeaseholdersFinite DEF TotalInv, PoolTypeOK
  <2> QED BY <1>2, <2>1 DEF currentInUse
<1> QED BY <1>1, <1>2, NothingToGrant

LEMMA WakeInit ==
  ASSUME Cancellable = {}, Pinnable = {}, Exclusions \subseteq {{}}
  PROVE  Init => WakeInv
<1> SUFFICES ASSUME Init PROVE WakeInv
  OBVIOUS
<1>1. WaiterInv /\ Wishless /\ EnoughAwake
  BY DEF Init, PoolInit, WaiterInv, Wishless, EnoughAwake
<1>2. QueueIsWhole
  <2>1. queue \in TokenFirst(accounts)
    BY DEF Init, PoolInit, ResetSnapshots
  <2>2. PICK rank \in [DOMAIN accounts -> DOMAIN accounts] :
           \A i \in DOMAIN accounts : queue[rank[i]] = accounts[i]
    BY <2>1 DEF TokenFirst
  <2>3. DOMAIN queue = DOMAIN accounts
    BY <2>1 DEF TokenFirst
  <2> QED BY <2>2, <2>3 DEF QueueIsWhole, Configured, ToSet
<1> QED BY <1>1, <1>2, ExactInit, FixedInit DEF WakeInv

(* The round robin loses nobody when an account moves to its end.          *)
LEMMA QueueStaysWhole ==
  ASSUME PoolTypeOK, QueueIsWhole, NEW a \in Accounts, bumpQueue(a), UNCHANGED accounts
  PROVE  QueueIsWhole'
<1>1. Configured' = Configured
  BY DEF Configured
<1>2. CASE \E i \in DOMAIN queue : queue[i] = a
  <2>1. PICK i \in DOMAIN queue : queue[i] = a /\ queue' = Append(RemoveAt(queue, i), a)
    BY <1>2 DEF bumpQueue
  <2>2. queue \in Seq(Accounts) /\ Len(queue) \in Nat /\ DOMAIN queue = 1..Len(queue)
    BY LenProperties DEF PoolTypeOK
  <2> DEFINE rest == RemoveAt(queue, i)
  <2>3. /\ rest \in Seq(Accounts) /\ Len(rest) = Len(queue) - 1 /\ queue' = Append(rest, a)
        /\ \A j \in 1..(Len(queue) - 1) : rest[j] = IF j < i THEN queue[j] ELSE queue[j + 1]
    <3>1. rest \in Seq(Accounts)
      <4>1. queue \in Seq(Accounts) /\ i \in DOMAIN queue
        BY <2>2
      <4> QED  BY <4>1, RemoveAtType, Zenon
    <3>2. /\ Len(rest) = Len(queue) - 1
          /\ \A j \in 1..(Len(queue) - 1) : rest[j] = IF j < i THEN queue[j] ELSE queue[j + 1]
      BY <2>2, RemoveAtElements, Zenon
    <3>3. queue' = Append(rest, a)
      BY <2>1
    <3> HIDE DEF rest
    <3> QED  BY <3>1, <3>2, <3>3
  <2> HIDE DEF rest
  <2>4. /\ DOMAIN queue' = 1..Len(queue)
        /\ \A j \in 1..(Len(queue) - 1) : queue'[j] = rest[j]
        /\ queue'[Len(queue)] = a
    <3>1. /\ Append(rest, a) \in Seq(Accounts) /\ Len(Append(rest, a)) = Len(rest) + 1
          /\ \A j \in 1..Len(rest) : Append(rest, a)[j] = rest[j]
          /\ Append(rest, a)[Len(rest) + 1] = a
      BY <2>3, AppendProperties
    <3>2. Len(rest) + 1 = Len(queue) /\ 1..Len(rest) = 1..(Len(queue) - 1)
      BY <2>2, <2>3
    <3>3. DOMAIN Append(rest, a) = 1..Len(queue)
      BY <3>1, <3>2, LenProperties
    <3> QED BY <2>3, <3>1, <3>2, <3>3
  <2>5. ASSUME NEW k \in DOMAIN queue PROVE \E j \in DOMAIN queue' : queue'[j] = queue[k]
    <3>1. CASE k < i
      <4>1. k \in 1..(Len(queue) - 1) /\ k \in 1..Len(queue)
        BY <2>2, <3>1
      <4>2. rest[k] = queue[k]
        BY <2>3, <3>1, <4>1
      <4> QED BY <2>4, <4>1, <4>2
    <3>2. CASE k = i
      <4>1. Len(queue) \in 1..Len(queue)
        BY <2>2
      <4>2. queue[k] = a
        BY <2>1, <3>2
      <4> QED BY <2>4, <4>1, <4>2
    <3>3. CASE k > i
      <4>1. /\ k - 1 \in 1..(Len(queue) - 1) /\ k - 1 \in DOMAIN queue'
            /\ ~(k - 1 < i) /\ (k - 1) + 1 = k
        BY <2>2, <2>4, <3>3
      <4>2. rest[k - 1] = queue[k]
        BY <2>3, <4>1
      <4> QED BY <2>4, <4>1, <4>2
    <3> QED BY <2>2, <3>1, <3>2, <3>3
  <2> QED BY <1>1, <2>5 DEF QueueIsWhole, ToSet
<1>3. CASE ~\E i \in DOMAIN queue : queue[i] = a
  BY <1>1, <1>3 DEF bumpQueue, QueueIsWhole
<1> QED BY <1>2, <1>3

LEMMA WakeStep ==
  ASSUME Admins = {}, Cancellable = {}, Pinnable = {}, Exclusions \subseteq {{}},
         WakeInv, [Next]_vars
  PROVE  WakeInv'
<1>0. /\ ExactInv /\ TypeOK /\ PoolTypeOK /\ FixedLimits /\ WaiterInv /\ QueueIsWhole /\ Wishless
      /\ EnoughAwake /\ TotalInv /\ HolderInv /\ SlotsMatchHolders
  BY DEF WakeInv, ExactInv, LeakInv, TypeOK, FixedLimits
<1>a. ExactInv' /\ FixedLimits' /\ WaiterInv' /\ TotalInv' /\ TypeOK'
  BY <1>0, ExactStep, FixedStep, WaiterStep DEF ExactInv, LeakInv, FixedLimits
<1>b. /\ pc \in [Requests -> RequestStates] /\ account \in [Requests -> Accounts \cup {NoAccount}]
      /\ inUse \in [Accounts -> Nat] /\ maxInflight \in Nat /\ globalMax \in Nat
      /\ target \in [Requests -> Pinnable \cup {NoAccount}] /\ tried \in [Requests -> SUBSET Accounts]
      /\ waiters \in Seq(Requests)
  BY <1>0 DEF TypeOK, PoolTypeOK
<1>c. \A i \in DOMAIN waiters : waiters[i] \in Requests
  BY <1>b, ElementOfSeq, LenProperties
<1>d. /\ Cardinality(BusySlots) \in Nat /\ Cardinality(FreeSlots) \in Nat /\ Cardinality(Awake) \in Nat
      /\ Cardinality(Awake') \in Nat /\ Cardinality(BusySlots') \in Nat
      /\ IsFiniteSet(Awake) /\ IsFiniteSet(Awake')
  <2>1. IsFiniteSet(Awake') /\ Cardinality(Awake') \in Nat
    BY PoolAssumption, FS_Subset, FS_CardinalityType DEF Awake
  <2>2. Cardinality(BusySlots') \in Nat
    BY <1>a, FS_CardinalityType DEF TotalInv
  <2> QED BY <1>0, <2>1, <2>2, AwakeFinite, FreeFinite, FS_CardinalityType DEF TotalInv
<1> DEFINE Goal == QueueIsWhole /\ Wishless /\ EnoughAwake
<1>1. ASSUME NEW r \in Requests, Call(r) PROVE Goal'
  <2>1. UNCHANGED <<accounts, queue, inUse, maxInflight, globalMax, waiters, ctxDone>>
    BY <1>1 DEF Call, storeVars, poolVars
  <2>2. Wishless'
    BY <1>0, <1>1, <1>b, <2>1 DEF Call, Wishless
  <2>3. Awake \subseteq Awake'
    BY <1>1, <1>b, <2>1 DEF Call, Awake, Woken
  <2>4. Cardinality(Awake) <= Cardinality(Awake')
    BY <1>d, <2>3, FS_Subset
  <2>5. BusySlots' = BusySlots /\ FreeSlots' = FreeSlots
    BY <2>1 DEF BusySlots, FreeSlots, Configured
  <2>6. EnoughAwake'
    BY <1>0, <1>b, <1>d, <2>1, <2>4, <2>5 DEF EnoughAwake
  <2>7. QueueIsWhole'
    BY <1>0, <2>1 DEF QueueIsWhole, Configured
  <2> QED BY <2>2, <2>6, <2>7
<1>2. ASSUME NEW r \in Requests, TryGranted(r) PROVE Goal'
  <2>1. PICK a \in Accounts : acquireLocked(a, target[r], tried[r])
    BY <1>2 DEF TryGranted
  <2>2. /\ inUse' = [inUse EXCEPT ![a] = @ + 1] /\ bumpQueue(a) /\ a \in Configured /\ canAcquireID(a)
        /\ UNCHANGED <<accounts, maxInflight, globalMax, waiters, target, tried, ctxDone>>
    BY <1>2, <2>1 DEF TryGranted, acquireLocked, Grantable, Allowed, storeVars, limitVars
  <2>3. QueueIsWhole' /\ Wishless'
    BY <1>0, <2>2, QueueStaysWhole DEF Wishless
  <2>4. Cardinality(FreeSlots') = Cardinality(FreeSlots) - 1
    BY <1>0, <2>2, FreeLess DEF canAcquireID
  <2>5. Cardinality(BusySlots') = Cardinality(BusySlots) + 1
    <3>1. account[r] = NoAccount /\ \E b \in Accounts : account' = [account EXCEPT ![r] = b] /\ inUse' = [inUse EXCEPT ![b] = @ + 1]
      BY <1>0, <1>2 DEF TryGranted, HolderInv, acquireLocked
    <3>2. Cardinality(Leaseholders') = Cardinality(Leaseholders) + 1
      BY <1>0, <3>1, TotalGain
    <3> QED BY <1>0, <1>a, <3>2 DEF TotalInv
  <2>6. r \in Awake /\ Awake' = Awake \ {r}
    BY <1>2, <1>b, <2>2 DEF TryGranted, Awake, Woken
  <2>7. Cardinality(Awake') = Cardinality(Awake) - 1
    BY <1>d, <2>6, FS_RemoveElement
  <2>8. EnoughAwake'
    BY <1>0, <1>b, <1>d, <2>2, <2>4, <2>5, <2>7 DEF EnoughAwake
  <2> QED BY <2>3, <2>8
(* Nothing to grant: nobody need be awake, whether r waits or is refused.   *)
<1>3. ASSUME NEW r \in Requests, TryQueued(r) \/ TryRefused(r) PROVE Goal'
  <2>1. UNCHANGED <<accounts, queue, inUse, maxInflight, globalMax, target, tried, ctxDone>>
    BY <1>3 DEF TryQueued, TryRefused, enqueueWaiter, storeVars, poolVars, limitVars
  <2>2. QueueIsWhole' /\ Wishless'
    BY <1>0, <2>1 DEF QueueIsWhole, Configured, Wishless
  <2>3. Grantable(NoAccount, {}) = {}
    BY <1>0, <1>3 DEF TryQueued, TryRefused, Wishless
  <2>4. BusySlots' = BusySlots /\ FreeSlots' = FreeSlots
    BY <2>1 DEF BusySlots, FreeSlots, Configured
  <2>5. EnoughAwake'
    BY <1>0, <1>b, <1>d, <2>1, <2>3, <2>4, NobodyNeeded DEF EnoughAwake
  <2> QED BY <2>2, <2>5
<1>4. ASSUME NEW r \in Requests, SelectWoken(r) PROVE Goal'
  <2>1. UNCHANGED <<accounts, queue, inUse, maxInflight, globalMax, waiters, target, tried, ctxDone>>
    BY <1>4 DEF SelectWoken, storeVars, poolVars
  <2>2. QueueIsWhole' /\ Wishless'
    BY <1>0, <2>1 DEF QueueIsWhole, Configured, Wishless
  <2>3. Awake' = Awake
    BY <1>4, <1>b, <2>1 DEF SelectWoken, Awake, Woken
  <2>4. BusySlots' = BusySlots /\ FreeSlots' = FreeSlots
    BY <2>1 DEF BusySlots, FreeSlots, Configured
  <2> QED BY <1>0, <2>1, <2>2, <2>3, <2>4 DEF EnoughAwake
<1>5. ASSUME NEW r \in Requests, Finish(r) PROVE Goal'
  <2> DEFINE a == account[r]
  <2>1. a \in Accounts /\ inUse[a] > 0
    <3>1. a \in Accounts
      BY <1>0, <1>5, <1>b DEF Finish, HolderInv
    <3>2. inUse[a] = Cardinality(Holders(a)) /\ r \in Holders(a)
      BY <1>0, <3>1 DEF SlotsMatchHolders, FixedLimits, Holders
    <3>3. Cardinality(Holders(a)) # 0
      BY <3>2, HoldersFinite, FS_EmptySet
    <3> QED BY <1>b, <3>1, <3>2, <3>3
  <2>2. /\ inUse' = [inUse EXCEPT ![a] = @ - 1] /\ notifyWaiterLocked
        /\ UNCHANGED <<accounts, queue, maxInflight, globalMax, target, tried, ctxDone>>
        /\ account' = [account EXCEPT ![r] = NoAccount] /\ pc[r] = "held" /\ pc' = [pc EXCEPT ![r] = "done"]
    BY <1>5, <2>1 DEF Finish, Release, storeVars, limitVars
  <2>3. QueueIsWhole' /\ Wishless'
    BY <1>0, <2>2 DEF QueueIsWhole, Configured, Wishless
  <2>4. Cardinality(FreeSlots') \in Nat /\ Cardinality(FreeSlots') <= Cardinality(FreeSlots) + 1
    <3> HIDE DEF a
    <3> QED BY <1>0, <2>1, <2>2, FreeMore
  <2>5. Cardinality(BusySlots') = Cardinality(BusySlots) - 1
    <3>1. r \in Leaseholders /\ Leaseholders' = Leaseholders \ {r}
      BY <1>b, <2>1, <2>2, PoolAssumption DEF Leaseholders
    <3>2. Cardinality(Leaseholders') = Cardinality(Leaseholders) - 1
      BY <3>1, LeaseholdersFinite, FS_RemoveElement
    <3> QED BY <1>0, <1>a, <3>2 DEF TotalInv
  <2>6. waiters' # <<>> => waiters # <<>> /\ Cardinality(Awake') >= Cardinality(Awake) + 1
    <3> SUFFICES ASSUME waiters' # <<>> PROVE waiters # <<>> /\ Cardinality(Awake') >= Cardinality(Awake) + 1
      OBVIOUS
    <3>1. waiters # <<>> /\ waiters' = Tail(waiters)
      BY <2>2 DEF notifyWaiterLocked
    <3> DEFINE w == waiters[1]
    <3>2. /\ Len(waiters) \in Nat \ {0} /\ DOMAIN waiters = 1..Len(waiters) /\ 1 \in DOMAIN waiters
          /\ DOMAIN waiters' = 1..(Len(waiters) - 1)
          /\ \A i \in 1..(Len(waiters) - 1) : waiters'[i] = waiters[i + 1]
      BY <1>b, <3>1, EmptySeq, HeadTailProperties, LenProperties
    <3>3. w \in Requests /\ pc[w] = "wait"
      BY <1>0, <1>c, <3>2 DEF WaiterInv
    <3>4. \A i \in DOMAIN waiters' : waiters'[i] # w
      <4> SUFFICES ASSUME NEW i \in DOMAIN waiters', waiters'[i] = w PROVE FALSE
        OBVIOUS
      <4>1. i + 1 \in DOMAIN waiters /\ waiters[i + 1] = waiters[1] /\ i + 1 # 1
        BY <3>2
      <4> QED BY <1>0, <3>2, <4>1 DEF WaiterInv
    <3>5. ToSet(waiters') \subseteq ToSet(waiters) /\ w \in ToSet(waiters) /\ w \notin ToSet(waiters')
      <4>1. \A i \in DOMAIN waiters' : i + 1 \in DOMAIN waiters /\ waiters'[i] = waiters[i + 1]
        BY <3>2
      <4> QED BY <3>2, <3>4, <4>1 DEF ToSet
    <3>6. w \notin Awake /\ Awake \cup {w} \subseteq Awake'
      BY <1>b, <2>2, <3>3, <3>5 DEF Awake, Woken
    <3> HIDE DEF w
    <3>7. IsFiniteSet(Awake \cup {w}) /\ Cardinality(Awake \cup {w}) = Cardinality(Awake) + 1
      BY <1>d, <3>6, FS_AddElement
    <3>8. Cardinality(Awake \cup {w}) <= Cardinality(Awake')
      BY <1>d, <3>6, FS_Subset
    <3> QED BY <1>d, <3>1, <3>7, <3>8
  <2>7. EnoughAwake'
    <3> HIDE DEF a
    <3> QED BY <1>0, <1>b, <1>d, <2>2, <2>4, <2>5, <2>6 DEF EnoughAwake
  <2> QED BY <2>3, <2>7
<1>6. ASSUME NEW r \in Requests, HangUp(r) \/ TryCancelled(r) \/ SelectDone(r) PROVE Goal'
  BY <1>0, <1>6 DEF HangUp, TryCancelled, SelectDone, Wishless
<1>7. ASSUME UNCHANGED vars PROVE Goal'
  <2>1. /\ UNCHANGED <<accounts, queue, inUse, maxInflight, globalMax, waiters, target, tried, ctxDone>>
        /\ UNCHANGED pc
    BY <1>7 DEF vars, storeVars, poolVars, requestVars
  <2> QED BY <1>0, <2>1 DEF QueueIsWhole, Configured, Wishless, EnoughAwake, FreeSlots, BusySlots, Awake, Woken
<1>8. Goal'
  BY <1>1, <1>2, <1>3, <1>4, <1>5, <1>6, <1>7 DEF Next, RequestStep, AllEnded
<1> QED BY <1>a, <1>8 DEF WakeInv

(* One notifyWaiterLocked per Release is enough while no client hangs up,   *)
(* pins or excludes an account and no limit changes: a slot that somebody  *)
(* in the FIFO could take always has a request on its way to it.           *)
THEOREM NoWakeupIsLost ==
  ASSUME Admins = {}, Cancellable = {}, Pinnable = {}, Exclusions \subseteq {{}}
  PROVE  Spec => []NoLostWakeup
<1>1. WakeInv /\ [Next]_vars => WakeInv'
  BY WakeStep
<1>2. WakeInv => NoLostWakeup
  <2> SUFFICES ASSUME WakeInv, NEW i \in DOMAIN waiters, Grantable(target[waiters[i]], tried[waiters[i]]) # {}
               PROVE  \E r \in Requests : pc[r] = "try" \/ Woken(r)
    BY DEF NoLostWakeup
  <2>0. /\ PoolTypeOK /\ Wishless /\ EnoughAwake
        /\ Cardinality(BusySlots) \in Nat /\ Cardinality(FreeSlots) \in Nat
    BY FreeFinite, LeaseholdersFinite DEF WakeInv, ExactInv, LeakInv, TypeOK, FixedLimits, TotalInv
  <2>1. waiters \in Seq(Requests) /\ waiters # <<>> /\ waiters[i] \in Requests
    BY <2>0, ElementOfSeq, LenProperties, EmptySeq DEF PoolTypeOK
  <2>2. PICK a : a \in Configured /\ canAcquireID(a)
    BY DEF Grantable, Allowed
  <2>3. <<a, inUse[a] + 1>> \in FreeSlots
    <3>1. inUse[a] \in Nat /\ maxInflight \in Nat
      BY <2>0, <2>2, ConfiguredFinite DEF PoolTypeOK
    <3> QED BY <2>2, <3>1, FreeMember DEF canAcquireID
  <2>4. Cardinality(FreeSlots) # 0
    BY <2>0, <2>3, FreeFinite, FS_EmptySet
  <2>5. globalMax > 0 => globalMax - Cardinality(BusySlots) > 0
    BY <2>0, <2>2 DEF canAcquireID, currentInUse, PoolTypeOK
  <2>6. Cardinality(Awake) # 0
    BY <2>0, <2>1, <2>4, <2>5, AwakeFinite DEF EnoughAwake, PoolTypeOK
  <2>7. Awake # {}
    BY <2>6, FS_EmptySet
  <2> QED BY <2>7 DEF Awake
<1> QED BY WakeInit, <1>1, <1>2, PTL DEF Spec

-----------------------------------------------------------------------------
(* Who is refused finds every slot and every place of the queue taken.     *)

(* A sequence without repetitions has as many members as positions.        *)
LEMMA DistinctCount ==
  ASSUME NEW S, NEW s \in Seq(S), \A i, j \in DOMAIN s : s[i] = s[j] => i = j
  PROVE  IsFiniteSet(ToSet(s)) /\ Cardinality(ToSet(s)) = Len(s)
<1>1. Len(s) \in Nat /\ DOMAIN s = 1..Len(s) /\ s \in [1..Len(s) -> S]
  BY LenProperties
<1>2. s \in [1..Len(s) -> ToSet(s)]
  BY <1>1 DEF ToSet
<1>3. s \in Bijection(1..Len(s), ToSet(s))
  BY <1>1, <1>2 DEF Bijection, Injection, Surjection, IsInjective, ToSet
<1>4. ExistsBijection(1..Len(s), ToSet(s))
  BY <1>3 DEF ExistsBijection
<1>5. IsFiniteSet(1..Len(s)) /\ Cardinality(1..Len(s)) = Len(s)
  BY <1>1, FS_Interval
<1> QED BY <1>4, <1>5, FS_Bijection

RefuseInv == ExactInv /\ FixedLimits /\ WaiterInv /\ QueueIsWhole /\ accounts = InitialAccounts

LEMMA RefuseStep ==
  ASSUME Admins = {}, RefuseInv, [Next]_vars
  PROVE  RefuseInv'
<1>0. ExactInv /\ FixedLimits /\ TypeOK /\ PoolTypeOK /\ WaiterInv /\ QueueIsWhole
  BY DEF RefuseInv, ExactInv, LeakInv, TypeOK
<1>1. ExactInv' /\ FixedLimits' /\ WaiterInv'
  BY <1>0, ExactStep, FixedStep, WaiterStep
<1>2. UNCHANGED accounts /\ (UNCHANGED queue \/ \E a \in Accounts : bumpQueue(a))
  BY DEF Next, RequestStep, AllEnded, vars, poolVars, storeVars, Call, HangUp,
         TryCancelled, TryGranted, TryQueued, TryRefused, SelectWoken, SelectDone,
         Finish, acquireLocked, enqueueWaiter, Release
<1>3. CASE UNCHANGED queue
  <2>1. QueueIsWhole'
    BY <1>0, <1>2, <1>3 DEF QueueIsWhole, Configured
  <2> QED BY <1>1, <1>2, <2>1 DEF RefuseInv
<1>4. CASE \E a \in Accounts : bumpQueue(a)
  <2>1. QueueIsWhole'
    BY <1>0, <1>2, <1>4, QueueStaysWhole
  <2> QED BY <1>1, <1>2, <2>1 DEF RefuseInv
<1> QED BY <1>2, <1>3, <1>4

(* Everybody who has a slot, a place, or is being refused.                 *)
LEMMA RefusedMeansFull ==
  ASSUME RefuseInv, \A i, j \in DOMAIN InitialAccounts : InitialAccounts[i] = InitialAccounts[j] => i = j,
         NEW r \in Requests, pc[r] = "try", Grantable(NoAccount, {}) = {}, ~canQueueLocked(NoAccount, {})
  PROVE  Cardinality(Active) > maxQueue + ServedAtOnce
<1>0. /\ TypeOK /\ PoolTypeOK /\ HolderInv /\ TotalInv /\ WaiterInv /\ QueueIsWhole
      /\ waiters \in Seq(Requests) /\ accounts \in Seq(Accounts)
      /\ maxInflight \in Nat /\ globalMax \in Nat /\ maxQueue \in Nat /\ inUse \in [Accounts -> Nat]
  BY DEF RefuseInv, ExactInv, LeakInv, FixedLimits, TypeOK, PoolTypeOK
<1>1. Len(waiters) \in Nat /\ Len(waiters) >= maxQueue
  BY <1>0, LenProperties DEF canQueueLocked
<1>2. IsFiniteSet(ToSet(waiters)) /\ Cardinality(ToSet(waiters)) = Len(waiters)
  BY <1>0, DistinctCount DEF WaiterInv
<1>3. IsFiniteSet(Configured) /\ Cardinality(Configured) = Len(accounts) /\ Len(accounts) \in Nat
  BY <1>0, DistinctCount, LenProperties DEF Configured, RefuseInv
<1>4. Cardinality(Leaseholders) \in Nat /\ Cardinality(Leaseholders) >= ServedAtOnce /\ ServedAtOnce \in Nat
  <2>1. Len(accounts) * maxInflight \in Nat
    BY <1>0, <1>3
  <2>2. CASE \A a \in Configured : inUse[a] >= maxInflight
    <3>1. Configured \X (1..maxInflight) \subseteq BusySlots
      <4> SUFFICES ASSUME NEW a \in Configured, NEW i \in 1..maxInflight PROVE <<a, i>> \in BusySlots
        OBVIOUS
      <4>1. a \in Accounts /\ i \in 1..inUse[a]
        BY <1>0, <2>2, ConfiguredFinite
      <4> QED BY <4>1, BusyMember
    <3>2. IsFiniteSet(1..maxInflight) /\ Cardinality(1..maxInflight) = maxInflight
      BY <1>0, FS_Interval
    <3>3. Cardinality(Configured \X (1..maxInflight)) = Len(accounts) * maxInflight
      <4>1. Cardinality(Configured \X (1..maxInflight)) = Cardinality(Configured) * Cardinality(1..maxInflight)
        BY <1>3, <3>2, FS_Product
      <4> QED BY <1>3, <3>2, <4>1, Zenon
    <3>4. IsFiniteSet(BusySlots) /\ Cardinality(BusySlots) = Cardinality(Leaseholders)
      BY <1>0 DEF TotalInv
    <3>5. Cardinality(Configured \X (1..maxInflight)) <= Cardinality(BusySlots)
      BY <3>1, <3>4, FS_Subset
    <3> QED BY <1>0, <2>1, <3>3, <3>4, <3>5, LeaseholdersFinite DEF ServedAtOnce
  <2>3. CASE globalMax > 0 /\ ~(currentInUse < globalMax)
    BY <1>0, <2>1, <2>3, LeaseholdersFinite DEF TotalInv, ServedAtOnce, currentInUse
  <2> QED BY <1>0, <2>2, <2>3, NothingToGrant
<1>5. ToSet(waiters) \cap Leaseholders = {} /\ r \notin ToSet(waiters) \cup Leaseholders
  <2>1. \A q \in ToSet(waiters) : pc[q] = "wait"
    BY <1>0 DEF WaiterInv, ToSet
  <2>2. \A q \in Leaseholders : pc[q] = "held"
    BY <1>0 DEF HolderInv, Leaseholders
  <2> QED BY <2>1, <2>2
<1> DEFINE Both == ToSet(waiters) \cup Leaseholders
<1>6. IsFiniteSet(Both) /\ Cardinality(Both) = Len(waiters) + Cardinality(Leaseholders)
  <2>1. /\ IsFiniteSet(Both)
        /\ Cardinality(Both) = Cardinality(ToSet(waiters)) + Cardinality(Leaseholders)
                                - Cardinality(ToSet(waiters) \cap Leaseholders)
    BY <1>2, LeaseholdersFinite, FS_Union
  <2>2. Cardinality(ToSet(waiters) \cap Leaseholders) = 0
    BY <1>5, FS_EmptySet
  <2> HIDE DEF Both
  <2> QED BY <1>1, <1>2, <1>4, <2>1, <2>2
<1>7. Both \cup {r} \subseteq Active
  <2>1. \A q \in ToSet(waiters) : q \in Requests /\ pc[q] = "wait"
    BY <1>0, ElementOfSeq, LenProperties DEF WaiterInv, ToSet
  <2>2. \A q \in Leaseholders : q \in Requests /\ pc[q] = "held"
    BY <1>0 DEF HolderInv, Leaseholders
  <2> QED BY <2>1, <2>2 DEF Active
<1> HIDE DEF Both
<1>8. IsFiniteSet(Active)
  BY PoolAssumption, FS_Subset DEF Active
<1>9. IsFiniteSet(Both \cup {r}) /\ Cardinality(Both \cup {r}) = Cardinality(Both) + 1
  BY <1>5, <1>6, FS_AddElement DEF Both
<1>10. Cardinality(Both \cup {r}) <= Cardinality(Active) /\ Cardinality(Active) \in Nat
  BY <1>7, <1>8, FS_Subset, FS_CardinalityType
<1> QED BY <1>0, <1>1, <1>4, <1>6, <1>9, <1>10

(* Without administrators, and with a configuration that names no account  *)
(* twice, AcquireWait answers 429 to a request without wishes only when    *)
(* slots and queue are full; hang-ups and pinned requests change nothing.  *)
THEOREM RefusalMeansOverload ==
  ASSUME Admins = {}, \A i, j \in DOMAIN InitialAccounts : InitialAccounts[i] = InitialAccounts[j] => i = j
  PROVE  Spec => RefusedOnlyWhenOverloaded
<1>1. Init => RefuseInv
  <2> SUFFICES ASSUME Init PROVE RefuseInv
    OBVIOUS
  <2>1. queue \in TokenFirst(accounts) /\ accounts = InitialAccounts /\ WaiterInv
    BY DEF Init, PoolInit, ResetSnapshots, WaiterInv
  <2>2. PICK rank \in [DOMAIN accounts -> DOMAIN accounts] :
           \A i \in DOMAIN accounts : queue[rank[i]] = accounts[i]
    BY <2>1 DEF TokenFirst
  <2>3. DOMAIN queue = DOMAIN accounts
    BY <2>1 DEF TokenFirst
  <2>4. QueueIsWhole
    BY <2>2, <2>3 DEF QueueIsWhole, Configured, ToSet
  <2> QED BY <2>1, <2>4, ExactInit, FixedInit DEF RefuseInv
<1>2. RefuseInv /\ [Next]_vars => RefuseInv'
  BY RefuseStep
<1>3. RefuseInv /\ [Next]_vars =>
        [\A r \in Requests :
           pc[r] = "try" /\ pc'[r] = "refused" /\ target[r] = NoAccount /\ tried[r] = {} =>
             Cardinality(Active) > maxQueue + ServedAtOnce]_vars
  <2> SUFFICES ASSUME RefuseInv, Next, NEW r \in Requests, pc[r] = "try", pc'[r] = "refused",
                      target[r] = NoAccount, tried[r] = {}
               PROVE  Cardinality(Active) > maxQueue + ServedAtOnce
    OBVIOUS
  <2>1. pc \in [Requests -> RequestStates]
    BY DEF RefuseInv, ExactInv, LeakInv, TypeOK
  <2>2. TryRefused(r)
    BY <2>1 DEF Next, RequestStep, AllEnded, vars, requestVars, Call, HangUp, TryCancelled, TryGranted,
                TryQueued, TryRefused, SelectWoken, SelectDone, Finish
  <2>3. Grantable(NoAccount, {}) = {} /\ ~canQueueLocked(NoAccount, {})
    BY <2>2 DEF TryRefused
  <2> QED BY <2>3, RefusedMeansFull
<1> QED BY <1>1, <1>2, <1>3, PTL DEF Spec, RefusedOnlyWhenOverloaded

-----------------------------------------------------------------------------
(* Managed authentication.                                                 *)

(* Between two of its calls, a request owns no slot or one of the account  *)
(* it names.  While it is looking for another account it owns none and has *)
(* tried the one it still names, so that a switch that fails leaves a      *)
(* RequestAuth that is known to be given up.                               *)
Owns(r) ==
    /\ account[r] \in {NoAccount, accountID[r]}
    /\ phase[r] \in {"none", "acquire", "over"} => account[r] = NoAccount
    /\ phase[r] \in {"ensure", "login"} => account[r] = accountID[r]
    /\ phase[r] = "acquire" => accountID[r] \in tried[r]
    /\ phase[r] \in {"serving", "refresh"} /\ accountID[r] \notin tried[r] =>
         account[r] = accountID[r] /\ deepSeekToken[r] = accountID[r]
    /\ phase[r] \in {"acquire", "serving", "refresh"} \/ switching[r] = TRUE =>
         deepSeekToken[r] \in Accounts

AuthInv == TypeOK /\ AuthTypeOK /\ InUseNeverOvercounts /\ \A r \in Requests : Owns(r)

LEMMA AuthInvInit == AuthInitial => AuthInv
<1> SUFFICES ASSUME AuthInitial PROVE AuthInv
  OBVIOUS
<1>1. TypeOK /\ InUseNeverOvercounts
  BY LeakInit DEF AuthInitial, LeakInv
<1>2. AuthTypeOK
  BY DEF AuthInitial, AuthInit, Init, AuthTypeOK, Phases
<1>3. \A r \in Requests : Owns(r)
  BY DEF AuthInitial, AuthInit, Init, Owns
<1> QED BY <1>1, <1>2, <1>3 DEF AuthInv

-----------------------------------------------------------------------------
(* The pool's part.                                                        *)

(* A grant counts one slot and one holder more, whoever asks for it.       *)
LEMMA GrantKeepsCount ==
  ASSUME TypeOK, InUseNeverOvercounts, NEW r \in Requests, NEW a \in Accounts, NEW t, NEW x,
         account[r] = NoAccount, acquireLocked(a, t, x), account' = [account EXCEPT ![r] = a],
         UNCHANGED storeVars
  PROVE  InUseNeverOvercounts' /\ PoolTypeOK'
<1>1. PoolTypeOK /\ inUse \in [Accounts -> Nat]
  BY DEF TypeOK, PoolTypeOK
<1>2. inUse' = [inUse EXCEPT ![a] = @ + 1]
  BY DEF acquireLocked
<1>3. /\ Cardinality(Holders(a)') = Cardinality(Holders(a)) + 1
      /\ \A b \in Accounts \ {a} : Holders(b)' = Holders(b)
  BY HoldersGain
<1>4. ASSUME NEW b \in Accounts PROVE inUse'[b] <= Cardinality(Holders(b)')
  <2>1. inUse[b] <= Cardinality(Holders(b)) /\ inUse[b] \in Nat /\ Cardinality(Holders(b)) \in Nat
    BY <1>1, HoldersFinite DEF InUseNeverOvercounts
  <2>2. CASE b = a
    BY <1>1, <1>2, <1>3, <2>1, <2>2
  <2>3. CASE b # a
    BY <1>1, <1>2, <1>3, <2>1, <2>3
  <2> QED BY <2>2, <2>3
<1>5. InUseNeverOvercounts'
  BY <1>4 DEF InUseNeverOvercounts, Holders
<1> QED BY <1>1, <1>5, AcquireType

(* A release by name takes one slot of the count, and a holder only if it  *)
(* was the caller who held it.                                             *)
LEMMA ReleaseKeepsCount ==
  ASSUME TypeOK, InUseNeverOvercounts, NEW r \in Requests, NEW a \in Accounts, accountID[r] = a,
         account[r] \in {NoAccount, a}, ReleaseOwn(r), UNCHANGED storeVars
  PROVE  /\ InUseNeverOvercounts' /\ PoolTypeOK'
         /\ account' = [account EXCEPT ![r] = NoAccount]
<1>0. PoolTypeOK /\ inUse \in [Accounts -> Nat] /\ account \in [Requests -> Accounts \cup {NoAccount}]
  BY DEF TypeOK, PoolTypeOK
<1>1. Release(a)
  BY DEF ReleaseOwn
<1>2. inUse' = IF inUse[a] > 0 THEN [inUse EXCEPT ![a] = @ - 1] ELSE inUse
  BY <1>1 DEF Release, poolVars
<1>a. /\ inUse'[a] = IF inUse[a] > 0 THEN inUse[a] - 1 ELSE inUse[a]
      /\ \A b \in Accounts \ {a} : inUse'[b] = inUse[b]
  BY <1>0, <1>2
<1>b. account' = IF account[r] = a THEN [account EXCEPT ![r] = NoAccount] ELSE account
  BY DEF ReleaseOwn
<1>3. account' = [account EXCEPT ![r] = NoAccount]
  <2>1. CASE account[r] = a
    BY <1>b, <2>1
  <2>2. CASE account[r] # a
    BY <1>0, <1>b, <2>2
  <2> QED BY <2>1, <2>2
<1>4. \A b \in Accounts : inUse'[b] <= Cardinality(Holders(b)')
  <2>0. \A b \in Accounts : /\ inUse[b] <= Cardinality(Holders(b))
                            /\ inUse[b] \in Nat /\ Cardinality(Holders(b)) \in Nat
    BY <1>0, HoldersFinite DEF InUseNeverOvercounts
  <2>1. CASE account[r] = a
    <3>1. /\ Cardinality(Holders(a)') = Cardinality(Holders(a)) - 1
          /\ Cardinality(Holders(a)) >= 1
          /\ \A b \in Accounts \ {a} : Holders(b)' = Holders(b)
      BY <1>3, <2>1, HoldersLose
    <3>2. inUse'[a] <= Cardinality(Holders(a)')
      BY <1>a, <2>0, <3>1
    <3>3. \A b \in Accounts \ {a} : inUse'[b] <= Cardinality(Holders(b)')
      BY <1>a, <2>0, <3>1
    <3> QED BY <3>2, <3>3
  <2>2. CASE account[r] = NoAccount
    <3>1. account' = account
      BY <1>0, <1>3, <2>2
    <3>2. \A b \in Accounts : Holders(b)' = Holders(b)
      BY <3>1 DEF Holders
    <3>3. inUse'[a] <= Cardinality(Holders(a)')
      BY <1>a, <2>0, <3>2
    <3>4. \A b \in Accounts \ {a} : inUse'[b] <= Cardinality(Holders(b)')
      BY <1>a, <2>0, <3>2
    <3> QED BY <3>3, <3>4
  <2> QED BY <2>1, <2>2
<1>5. InUseNeverOvercounts'
  BY <1>4 DEF InUseNeverOvercounts, Holders
<1> QED BY <1>0, <1>1, <1>3, <1>5, ReleaseType

-----------------------------------------------------------------------------
(* One step of AuthNext.                                                   *)

AuthTypes ==
  /\ phase \in [Requests -> Phases]
  /\ accountID \in [Requests -> Accounts \cup {NoAccount}]
  /\ recordToken \in [Requests -> BOOLEAN]
  /\ deepSeekToken \in [Requests -> Accounts \cup {NoAccount}]
  /\ switching \in [Requests -> BOOLEAN]
  /\ refreshMarks \subseteq Accounts

(* What AuthTypeOK and Owns say of one request.                            *)
Sound(r) ==
  /\ Owns(r)
  /\ pc[r] = "held" <=> phase[r] \notin {"none", "over"}
  /\ phase[r] # "none" => accountID[r] \in Accounts

(* The fields of one request, its pool fields included.                    *)
Fields(r) == <<pc[r], tried[r], account[r], phase[r], accountID[r], deepSeekToken[r], switching[r]>>

LEMMA OneRequest ==
  ASSUME AuthInv, NEW r \in Requests, TypeOK', InUseNeverOvercounts', AuthTypes', Sound(r)',
         \A s \in Requests \ {r} : Fields(s)' = Fields(s)
  PROVE  AuthInv'
<1>1. ASSUME NEW s \in Requests PROVE Sound(s)'
  <2>1. CASE s = r
    BY <2>1
  <2>2. CASE s # r
    BY <1>1, <2>2 DEF AuthInv, AuthTypeOK, Sound, Owns, Fields
  <2> QED BY <2>1, <2>2
<1>2. \A s \in Requests : Owns(s)'
  BY <1>1 DEF Sound
<1>3. AuthTypeOK'
  BY <1>1 DEF AuthTypeOK, AuthTypes, Sound, Owns
<1> QED BY <1>2, <1>3 DEF AuthInv

LEMMA AuthFacts ==
  ASSUME AuthInv
  PROVE  /\ TypeOK /\ InUseNeverOvercounts /\ AuthTypes
         /\ \A r \in Requests : Sound(r)
         /\ pc \in [Requests -> RequestStates] /\ tried \in [Requests -> SUBSET Accounts]
         /\ account \in [Requests -> Accounts \cup {NoAccount}]
         /\ NoAccount \notin Accounts
BY PoolAssumption DEF AuthInv, AuthTypeOK, AuthTypes, Sound, TypeOK

(* The steps that leave the pool and its callers' fields alone.            *)
LEMMA QuietStep ==
  ASSUME AuthInv, NEW r \in Requests,
         \/ EnsureLogin(r) \/ EnsureKept(r) \/ SwitchFailed(r) \/ RefreshFailed(r)
         \/ LoginDone(r) \/ RefreshToken(r) \/ RefreshDone(r)
  PROVE  AuthInv'
<1>0. /\ TypeOK /\ InUseNeverOvercounts /\ AuthTypes /\ Sound(r)
      /\ pc \in [Requests -> RequestStates] /\ tried \in [Requests -> SUBSET Accounts]
  BY AuthFacts
<1>1. UNCHANGED <<accounts, runtime, poolVars, requestVars, adminVars>> /\ tokened' \subseteq Accounts
  BY <1>0 DEF EnsureLogin, EnsureKept, SwitchFailed, RefreshFailed, LoginDone, RefreshToken, RefreshDone,
              vars, storeVars, Sound, Owns, TypeOK, PoolTypeOK, AuthTypes
<1>2. TypeOK' /\ InUseNeverOvercounts'
  BY <1>0, <1>1 DEF TypeOK, PoolTypeOK, InUseNeverOvercounts, Holders, poolVars, requestVars, adminVars
<1>3. AuthTypes'
  BY <1>0 DEF AuthTypes, Sound, Phases,
     EnsureLogin, EnsureKept, SwitchFailed, RefreshFailed, LoginDone, RefreshToken, RefreshDone, LoggedIn
<1>4. Sound(r)'
  BY <1>0, <1>1 DEF AuthTypes, Sound, Owns, requestVars,
     EnsureLogin, EnsureKept, SwitchFailed, RefreshFailed, LoginDone, RefreshToken, RefreshDone, LoggedIn
<1>5. \A s \in Requests \ {r} : Fields(s)' = Fields(s)
  BY <1>0, <1>1 DEF AuthTypes, Fields, requestVars,
     EnsureLogin, EnsureKept, SwitchFailed, RefreshFailed, LoginDone, RefreshToken, RefreshDone, LoggedIn
<1> QED BY <1>2, <1>3, <1>4, <1>5, OneRequest

(* An account is granted, by Determine or by SwitchAccount.                *)
LEMMA GrantStep ==
  ASSUME AuthInv, NEW r \in Requests, Acquired(r) \/ SwitchAcquired(r)
  PROVE  AuthInv'
<1>0. /\ TypeOK /\ InUseNeverOvercounts /\ AuthTypes /\ Sound(r)
      /\ pc \in [Requests -> RequestStates] /\ tried \in [Requests -> SUBSET Accounts]
      /\ account \in [Requests -> Accounts \cup {NoAccount}] /\ NoAccount \notin Accounts
  BY AuthFacts
<1>1. PICK a \in Accounts : /\ acquireLocked(a, NoAccount, tried[r]) \/ acquireLocked(a, target[r], tried[r])
                            /\ account' = [account EXCEPT ![r] = a]
  BY DEF Acquired, TryGranted, SwitchAcquired
<1>2. UNCHANGED <<storeVars, target, tried, ctxDone, adminVars>>
  BY DEF Acquired, TryGranted, SwitchAcquired
<1>3. account[r] = NoAccount /\ phase[r] \in {"none", "over", "acquire"}
  BY <1>0 DEF Acquired, TryGranted, SwitchAcquired, Sound, Owns
<1>4. PoolTypeOK' /\ InUseNeverOvercounts'
  BY <1>0, <1>1, <1>2, <1>3, GrantKeepsCount
<1>5. pc' = [pc EXCEPT ![r] = "held"]
  BY <1>0 DEF Acquired, TryGranted, SwitchAcquired, Sound
<1>6. TypeOK'
  BY <1>0, <1>1, <1>2, <1>4, <1>5 DEF TypeOK, adminVars, RequestStates
<1>7. account'[r] = a
  BY <1>0, <1>1
<1>8. TakeRecord(r, a)
  <2>1. CASE Acquired(r)
    BY <1>7, <2>1 DEF Acquired
  <2>2. CASE SwitchAcquired(r)
    <3>1. PICK b \in Accounts : account' = [account EXCEPT ![r] = b] /\ TakeRecord(r, b)
      BY <2>2 DEF SwitchAcquired
    <3> QED BY <1>0, <1>7, <3>1
  <2> QED BY <2>1, <2>2
<1>9. /\ UNCHANGED <<deepSeekToken, refreshMarks>>
      /\ switching' = switching \/ switching' = [switching EXCEPT ![r] = FALSE]
  BY DEF Acquired, SwitchAcquired
<1>10. /\ phase' = [phase EXCEPT ![r] = "ensure"] /\ accountID' = [accountID EXCEPT ![r] = a]
       /\ recordToken' \in [Requests -> BOOLEAN]
  BY <1>0, <1>8 DEF TakeRecord, AuthTypes
<1>11. AuthTypes'
  BY <1>0, <1>9, <1>10 DEF AuthTypes, Phases
<1>12. Sound(r)'
  BY <1>0, <1>2, <1>5, <1>7, <1>9, <1>10 DEF AuthTypes, Sound, Owns
<1>13. \A s \in Requests \ {r} : Fields(s)' = Fields(s)
  BY <1>0, <1>1, <1>2, <1>5, <1>9, <1>10 DEF AuthTypes, Fields
<1> QED BY <1>4, <1>6, <1>11, <1>12, <1>13, OneRequest

(* An account is given back: after a failed login, before a switch, or     *)
(* when the handler returns.                                               *)
LEMMA ReleaseStep ==
  ASSUME AuthInv, NEW r \in Requests,
         LoginFailed(r) \/ LoginUnsaved(r) \/ SwitchAccount(r) \/ Return(r)
  PROVE  AuthInv'
<1>0. /\ TypeOK /\ InUseNeverOvercounts /\ AuthTypes /\ Sound(r)
      /\ pc \in [Requests -> RequestStates] /\ tried \in [Requests -> SUBSET Accounts]
      /\ account \in [Requests -> Accounts \cup {NoAccount}] /\ NoAccount \notin Accounts
  BY AuthFacts
<1>1. phase[r] \in {"login", "serving"} /\ ReleaseOwn(r) /\ UNCHANGED <<storeVars, target, ctxDone, adminVars, accountID>>
  BY DEF LoginFailed, LoginUnsaved, EnsureFailed, SwitchAccount, Return
<1>2. PICK a \in Accounts : accountID[r] = a
  BY <1>0, <1>1 DEF Sound
<1>3. account[r] \in {NoAccount, a}
  BY <1>0, <1>2 DEF Sound, Owns
<1>4. InUseNeverOvercounts' /\ PoolTypeOK' /\ account' = [account EXCEPT ![r] = NoAccount]
  BY <1>0, <1>1, <1>2, <1>3, ReleaseKeepsCount
<1>5. /\ tried' = [tried EXCEPT ![r] = @ \cup {a}] \/ (tried' = tried /\ phase'[r] = "over")
      /\ phase' \in [Requests -> Phases]
      /\ \A s \in Requests \ {r} : phase'[s] = phase[s]
      /\ phase'[r] \in {"acquire", "none", "over"}
      /\ phase'[r] = "none" => switching[r] = FALSE
      /\ phase[r] = "login" /\ phase'[r] = "acquire" => switching[r] = TRUE
      /\ pc' \in [Requests -> RequestStates]
      /\ \A s \in Requests \ {r} : pc'[s] = pc[s]
      /\ pc'[r] = "held" <=> phase'[r] = "acquire"
  <2>1. CASE LoginFailed(r) \/ LoginUnsaved(r)
    <3>1. /\ phase[r] = "login" /\ EnsureFailed(r)
      BY <2>1 DEF LoginFailed, LoginUnsaved
    <3>2. pc[r] = "held"
      BY <1>0, <3>1 DEF Sound
    <3>3. tried' = [tried EXCEPT ![r] = @ \cup {a}]
      BY <1>2, <3>1 DEF EnsureFailed
    <3>4. CASE switching[r] = TRUE
      <4>1. phase' = [phase EXCEPT ![r] = "acquire"] /\ pc' = pc
        BY <3>1, <3>4, Zenon DEF EnsureFailed
      <4> QED BY <1>0, <3>2, <3>3, <3>4, <4>1 DEF AuthTypes, Phases
    <3>5. CASE switching[r] = FALSE
      <4>1. phase' = [phase EXCEPT ![r] = "none"]
        BY <3>1, <3>5, Zenon DEF EnsureFailed
      <4>2. \E q \in {"refused", "try"} : pc' = [pc EXCEPT ![r] = q]
        BY <3>1, <3>5 DEF EnsureFailed
      <4> QED BY <1>0, <3>3, <3>5, <4>1, <4>2 DEF AuthTypes, Phases, RequestStates
    <3> QED BY <1>0, <3>4, <3>5 DEF AuthTypes
  <2>2. CASE SwitchAccount(r)
    <3>1. pc[r] = "held"
      BY <1>0, <2>2 DEF Sound, SwitchAccount
    <3> QED BY <1>0, <1>2, <2>2, <3>1 DEF SwitchAccount, AuthTypes, Phases
  <2>3. CASE Return(r)
    BY <1>0, <2>3 DEF Return, AuthTypes, Phases, RequestStates
  <2> QED BY <2>1, <2>2, <2>3
<1>6. TypeOK'
  <2>1. tried' \in [Requests -> SUBSET Accounts]
    BY <1>0, <1>2, <1>5
  <2>2. account' \in [Requests -> Accounts \cup {NoAccount}]
    BY <1>0, <1>4
  <2> QED BY <1>0, <1>1, <1>4, <1>5, <2>1, <2>2 DEF TypeOK, adminVars
<1>7. /\ AuthTypes'
      /\ \A s \in Requests \ {r} : /\ deepSeekToken'[s] = deepSeekToken[s]
                                   /\ switching'[s] = switching[s]
      /\ phase'[r] = "acquire" => deepSeekToken'[r] \in Accounts
      /\ deepSeekToken'[r] = deepSeekToken[r] \/ deepSeekToken'[r] = a
      /\ switching'[r] = switching[r] \/ phase'[r] = "acquire"
  <2>1. CASE LoginFailed(r)
    BY <1>0, <1>1, <1>5, <2>1 DEF LoginFailed, AuthTypes, Sound, Owns
  <2>2. CASE LoginUnsaved(r)
    BY <1>0, <1>1, <1>2, <1>5, <2>2 DEF LoginUnsaved, LoggedIn, AuthTypes
  <2>3. CASE SwitchAccount(r)
    BY <1>0, <1>1, <1>5, <2>3 DEF SwitchAccount, AuthTypes, Sound, Owns
  <2>4. CASE Return(r)
    BY <1>0, <1>1, <1>5, <2>4 DEF Return, AuthTypes, Sound, Owns
  <2> QED BY <2>1, <2>2, <2>3, <2>4
<1>8. Sound(r)'
  <2>1. account'[r] = NoAccount /\ accountID'[r] = a
    BY <1>0, <1>1, <1>2, <1>4
  <2>2. phase'[r] = "acquire" => accountID'[r] \in tried'[r]
    BY <1>0, <1>5, <2>1
  <2>3. switching'[r] = TRUE => deepSeekToken'[r] \in Accounts
    BY <1>0, <1>7 DEF Sound, Owns
  <2> QED BY <1>5, <1>7, <2>1, <2>2, <2>3 DEF Sound, Owns
<1>9. \A s \in Requests \ {r} : Fields(s)' = Fields(s)
  BY <1>0, <1>1, <1>4, <1>5, <1>7 DEF Fields
<1> QED BY <1>4, <1>6, <1>7, <1>8, <1>9, OneRequest

(* The pool's and the administrators' own steps.                           *)
LEMMA OtherStep ==
  ASSUME AuthInv, UNCHANGED <<account, tried, authVars>>, TypeOK', InUseNeverOvercounts',
         \A r \in Requests : pc'[r] = pc[r] \/ (pc[r] # "held" /\ pc'[r] # "held")
  PROVE  AuthInv'
<1>1. AuthTypes' /\ UNCHANGED <<account, tried, phase, accountID, deepSeekToken, switching>>
  BY AuthFacts DEF AuthTypes, authVars
<1>2. ASSUME NEW r \in Requests PROVE Sound(r)'
  BY <1>1, <1>2, AuthFacts DEF Sound, Owns
<1>3. AuthTypeOK'
  BY <1>1, <1>2 DEF AuthTypeOK, AuthTypes, Sound, Owns
<1> QED BY <1>2, <1>3 DEF AuthInv, Sound

LEMMA AuthStep == AuthInv /\ [AuthNext]_allVars => AuthInv'
<1> SUFFICES ASSUME AuthInv, [AuthNext]_allVars PROVE AuthInv'
  OBVIOUS
<1>0. /\ TypeOK /\ InUseNeverOvercounts /\ AuthTypes
      /\ pc \in [Requests -> RequestStates] /\ tried \in [Requests -> SUBSET Accounts]
  BY AuthFacts
<1>1. ASSUME NEW r \in Requests, Determine(r) PROVE AuthInv'
  <2>1. /\ UNCHANGED <<storeVars, poolVars, tried, account, ctxDone, adminVars, authVars>>
        /\ pc[r] = "idle"
        /\ \E q \in {"refused", "try"} : pc' = [pc EXCEPT ![r] = q]
        /\ \E t \in Pinnable \cup {NoAccount} : target' = [target EXCEPT ![r] = t]
    BY <1>1 DEF Determine
  <2>2. \A s \in Requests : pc'[s] = pc[s] \/ (pc[s] # "held" /\ pc'[s] # "held")
    BY <1>0, <2>1
  <2>3. TypeOK'
    BY <1>0, <2>1 DEF TypeOK, PoolTypeOK, RequestStates, storeVars, poolVars, adminVars
  <2>4. InUseNeverOvercounts'
    BY <1>0, <2>1 DEF InUseNeverOvercounts, Holders, poolVars
  <2> QED BY <2>1, <2>2, <2>3, <2>4, OtherStep
<1>2. ASSUME NEW r \in Requests, AcquireWaitStep(r) \/ HangUpServed(r) \/ (HangUp(r) /\ UNCHANGED authVars)
      PROVE  AuthInv'
  <2>1. UNCHANGED <<inUse, account, tried, authVars>>
    BY <1>2 DEF AcquireWaitStep, HangUp, HangUpServed, TryCancelled, TryQueued, TryRefused, SelectWoken,
                SelectDone, enqueueWaiter, poolVars
  <2>2. \A s \in Requests : pc'[s] = pc[s] \/ (pc[s] # "held" /\ pc'[s] # "held")
    BY <1>0, <1>2 DEF AcquireWaitStep, HangUp, HangUpServed, TryCancelled, TryQueued, TryRefused,
                      SelectWoken, Woken, SelectDone
  <2>3. TypeOK'
    <3>1. CASE HangUpServed(r)
      BY <1>0, <3>1, ClientsAssumption DEF HangUpServed, TypeOK, PoolTypeOK, storeVars, poolVars, adminVars
    <3>2. CASE ~HangUpServed(r)
      BY <1>0, <1>2, <3>2, TypeStep DEF AcquireWaitStep, Next, RequestStep
    <3> QED BY <3>1, <3>2
  <2>4. InUseNeverOvercounts'
    BY <1>0, <2>1 DEF InUseNeverOvercounts, Holders
  <2> QED BY <2>1, <2>2, <2>3, <2>4, OtherStep
<1>3. ASSUME NEW m \in Admins, AdminUpdate(m) \/ AdminStep(m), UNCHANGED authVars PROVE AuthInv'
  <2>1. TypeOK'
    BY <1>0, <1>3, TypeStep DEF Next
  <2>2. UNCHANGED requestVars
    BY <1>3 DEF AdminUpdate, AdminStep, AdminAdd, AdminCaptureToken, AdminDelete, AdminSettings,
                AdminResetReads, AdminResetInstalls, AdminLimitsRead, AdminLimitsApply
  <2>3. inUse' = inUse \/ inUse' = [a \in Accounts |-> 0]
    BY <1>3 DEF AdminUpdate, AdminStep, AdminAdd, AdminCaptureToken, AdminDelete, AdminSettings,
                AdminResetReads, AdminResetInstalls, AdminLimitsRead, AdminLimitsApply,
                resetUnlocked, resetLocked, ApplyRuntimeLimits, poolVars
  <2>4. InUseNeverOvercounts'
    <3>1. \A a \in Accounts : Holders(a)' = Holders(a) /\ 0 <= Cardinality(Holders(a))
      BY <2>2, HoldersFinite DEF Holders, requestVars
    <3> QED BY <1>0, <2>3, <3>1 DEF InUseNeverOvercounts
  <2> QED BY <1>3, <2>1, <2>2, <2>4, OtherStep DEF requestVars
<1>4. ASSUME UNCHANGED allVars PROVE AuthInv'
  <2>1. TypeOK'
    BY <1>0, <1>4, TypeStep DEF allVars
  <2>2. UNCHANGED <<inUse, account, tried, pc, authVars>>
    BY <1>4 DEF allVars, vars, poolVars, requestVars
  <2>3. InUseNeverOvercounts'
    BY <1>0, <2>2 DEF InUseNeverOvercounts, Holders
  <2> QED BY <2>1, <2>2, <2>3, OtherStep
<1>5. ASSUME AllEnded, UNCHANGED authVars PROVE AuthInv'
  BY <1>4, <1>5 DEF AllEnded, allVars
<1> QED
  BY <1>1, <1>2, <1>3, <1>4, <1>5, QuietStep, GrantStep, ReleaseStep
  DEF AuthNext, DetermineStep, ServeStep

(* Whoever is served on an account it has not given up owns a slot of that *)
(* very account and speaks with its token, for any number of requests,     *)
(* accounts and administrators.                                            *)
THEOREM RequestsOwnWhatTheyUse == AuthSpec => []ServedOnOwnSlot
<1>1. AuthInv => ServedOnOwnSlot
  BY DEF AuthInv, Owns, ServedOnOwnSlot
<1> QED BY AuthInvInit, AuthStep, <1>1, PTL DEF AuthSpec

(* Releasing by the AccountID field instead of by what is owned, and       *)
(* carrying on after a switch that failed, never leak a slot either.       *)
THEOREM NoSlotLeakedByName == AuthSpec => []InUseNeverOvercounts
<1>1. AuthInv => InUseNeverOvercounts
  BY DEF AuthInv
<1> QED BY AuthInvInit, AuthStep, <1>1, PTL DEF AuthSpec

-----------------------------------------------------------------------------
(* Who gives up has tried every account, and who waits has not.            *)

Distinct(s) == \A i, j \in DOMAIN s : s[i] = s[j] => i = j

(* The store names no account twice, a request that has not begun has      *)
(* tried none, and one that is still looking has not tried them all.       *)
LookingInv ==
  /\ Distinct(accounts)
  /\ \A r \in Requests :
       /\ pc[r] = "idle" => tried[r] = {}
       /\ pc[r] \in {"try", "wait"} /\ target[r] = NoAccount => tried[r] # Accounts

LEMMA DistinctAppend ==
  ASSUME NEW S, NEW s \in Seq(S), Distinct(s), NEW a \in S, a \notin ToSet(s)
  PROVE  Distinct(Append(s, a))
<1>1. /\ Len(s) \in Nat /\ DOMAIN s = 1..Len(s)
      /\ DOMAIN Append(s, a) = 1..(Len(s) + 1)
      /\ \A i \in 1..Len(s) : Append(s, a)[i] = s[i]
      /\ Append(s, a)[Len(s) + 1] = a
  BY LenProperties, AppendProperties
<1>2. \A i \in 1..Len(s) : s[i] # a
  BY <1>1 DEF ToSet
<1> QED BY <1>1, <1>2 DEF Distinct

LEMMA DistinctRemove ==
  ASSUME NEW S, NEW s \in Seq(S), Distinct(s), NEW i \in DOMAIN s
  PROVE  Distinct(RemoveAt(s, i))
<1>1. /\ Len(s) \in Nat /\ DOMAIN s = 1..Len(s)
      /\ DOMAIN RemoveAt(s, i) = 1..(Len(s) - 1)
      /\ \A j \in 1..(Len(s) - 1) : RemoveAt(s, i)[j] = IF j < i THEN s[j] ELSE s[j + 1]
  BY LenProperties, RemoveAtElements
<1> SUFFICES ASSUME NEW j \in 1..(Len(s) - 1), NEW k \in 1..(Len(s) - 1),
                    RemoveAt(s, i)[j] = RemoveAt(s, i)[k]
             PROVE  j = k
  BY <1>1 DEF Distinct
<1>2. \A m, n \in 1..Len(s) : s[m] = s[n] => m = n
  BY <1>1 DEF Distinct
<1>3. PICK m \in 1..Len(s) : m = IF j < i THEN j ELSE j + 1
  BY <1>1
<1>4. PICK n \in 1..Len(s) : n = IF k < i THEN k ELSE k + 1
  BY <1>1
<1>5. s[m] = s[n]
  BY <1>1, <1>3, <1>4
<1> QED BY <1>1, <1>2, <1>3, <1>4, <1>5

(* Without repetitions, as many tried as configured leaves none untried    *)
(* when everything is configured, and fewer leaves one in any case.        *)
LEMMA TriedCount ==
  ASSUME TypeOK, Distinct(accounts), NEW x \in SUBSET Accounts
  PROVE  /\ ~(Cardinality(x) >= Len(accounts)) => x # Accounts
         /\ Cardinality(x) >= Len(accounts) /\ Accounts \subseteq Configured => x = Accounts
<1>1. accounts \in Seq(Accounts) /\ Configured \subseteq Accounts
  BY ConfiguredFinite DEF TypeOK, PoolTypeOK
<1>2. Cardinality(Configured) = Len(accounts)
  BY <1>1, DistinctCount DEF Distinct, Configured
<1>3. Cardinality(Configured) <= Cardinality(Accounts) /\ Cardinality(Accounts) \in Nat
  BY <1>1, PoolAssumption, FS_Subset, FS_CardinalityType
<1>4. Cardinality(x) \in Nat /\ Cardinality(Configured) \in Nat
  BY <1>1, PoolAssumption, FS_Subset, FS_CardinalityType
<1>5. Cardinality(x) = Cardinality(Accounts) => x = Accounts
  BY PoolAssumption, FS_Subset
<1>6. Cardinality(x) <= Cardinality(Accounts)
  BY PoolAssumption, FS_Subset
<1>7. Accounts \subseteq Configured => Configured = Accounts
  BY <1>1
<1> QED BY <1>2, <1>3, <1>4, <1>5, <1>6, <1>7

(* Only a failed login ends a managed request without an answer.           *)
LEMMA GivesUpStep ==
  ASSUME AuthInv, LookingInv, [AuthNext]_allVars, NEW r \in Requests,
         phase[r] = "login", pc'[r] = "refused"
  PROVE  EnsureFailed(r) /\ UNCHANGED target
<1>0. pc[r] = "held" /\ pc \in [Requests -> RequestStates]
  BY AuthFacts DEF Sound
<1>1. ASSUME NEW s \in Requests,
             \/ Determine(s) \/ DetermineStep(s) \/ ServeStep(s)
             \/ SwitchAccount(s) \/ RefreshToken(s) \/ HangUpServed(s) \/ HangUp(s)
      PROVE  s = r /\ (LoginFailed(r) \/ LoginUnsaved(r))
  <2>1. CASE LoginFailed(s) \/ LoginUnsaved(s)
    <3>1. pc' = pc \/ \E q \in {"refused", "try"} : pc' = [pc EXCEPT ![s] = q]
      BY <2>1 DEF LoginFailed, LoginUnsaved, EnsureFailed
    <3> QED BY <1>0, <2>1, <3>1
  <2>2. CASE Determine(s)
    <3>1. pc[s] = "idle" /\ \E q \in {"refused", "try"} : pc' = [pc EXCEPT ![s] = q]
      BY <2>2 DEF Determine
    <3> QED BY <1>0, <3>1
  <2>3. CASE AcquireWaitStep(s) \/ Acquired(s) \/ HangUp(s)
    BY <1>0, <2>3 DEF AcquireWaitStep, Acquired, HangUp, TryCancelled, TryGranted, TryQueued, TryRefused,
                      SelectWoken, Woken, SelectDone
  <2>4. CASE Return(s)
    BY <1>0, <2>4 DEF Return
  <2>5. CASE \/ EnsureLogin(s) \/ EnsureKept(s) \/ LoginDone(s) \/ SwitchAcquired(s) \/ SwitchFailed(s)
             \/ RefreshDone(s) \/ RefreshFailed(s) \/ SwitchAccount(s) \/ RefreshToken(s) \/ HangUpServed(s)
    <3>1. pc' = pc
      BY <2>5 DEF EnsureLogin, EnsureKept, LoginDone, SwitchAcquired, SwitchFailed, RefreshDone,
                  RefreshFailed, SwitchAccount, RefreshToken, HangUpServed, requestVars, vars
    <3> QED BY <1>0, <3>1
  <2> QED BY <1>1, <2>1, <2>2, <2>3, <2>4, <2>5 DEF DetermineStep, ServeStep
<1>2. ASSUME UNCHANGED requestVars PROVE FALSE
  BY <1>0, <1>2 DEF requestVars
<1>3. ASSUME NEW m \in Admins, AdminUpdate(m) \/ AdminStep(m) PROVE FALSE
  BY <1>2, <1>3 DEF AdminUpdate, AdminStep, AdminAdd, AdminCaptureToken, AdminDelete, AdminSettings,
                    AdminResetReads, AdminResetInstalls, AdminLimitsRead, AdminLimitsApply
<1>4. LoginFailed(r) \/ LoginUnsaved(r)
  BY <1>1, <1>2, <1>3 DEF AuthNext, AllEnded, allVars, vars
<1> QED BY <1>4 DEF LoginFailed, LoginUnsaved

LEMMA LookingStep == AuthInv /\ LookingInv /\ [AuthNext]_allVars => LookingInv'
<1> SUFFICES ASSUME AuthInv, LookingInv, [AuthNext]_allVars PROVE LookingInv'
  OBVIOUS
<1>0. /\ TypeOK /\ Distinct(accounts) /\ \A r \in Requests : Sound(r)
      /\ pc \in [Requests -> RequestStates] /\ tried \in [Requests -> SUBSET Accounts]
      /\ target \in [Requests -> Pinnable \cup {NoAccount}]
      /\ \A r \in Requests :
           /\ pc[r] = "idle" => tried[r] = {}
           /\ pc[r] \in {"try", "wait"} /\ target[r] = NoAccount => tried[r] # Accounts
  BY AuthFacts DEF LookingInv, TypeOK
<1>1. ASSUME NEW r \in Requests, Determine(r) PROVE LookingInv'
  <2>1. PICK t \in Pinnable \cup {NoAccount} :
          /\ target' = [target EXCEPT ![r] = t]
          /\ pc' = [pc EXCEPT ![r] = IF TriedAll(t, {}) THEN "refused" ELSE "try"]
    BY <1>1 DEF Determine
  <2>2. tried[r] = {} /\ UNCHANGED <<accounts, tried>>
    BY <1>0, <1>1 DEF Determine, storeVars
  <2>3. pc'[r] # "idle" /\ (pc'[r] \in {"try", "wait"} /\ target'[r] = NoAccount => tried[r] # Accounts)
    <3>1. ~(Cardinality({}) >= Len(accounts)) => {} # Accounts
      BY <1>0, TriedCount
    <3> QED BY <1>0, <2>1, <2>2, <3>1 DEF TriedAll
  <2> QED BY <1>0, <2>1, <2>2, <2>3 DEF LookingInv
<1>2. ASSUME NEW r \in Requests, AcquireWaitStep(r) \/ Acquired(r) \/ HangUp(r) PROVE LookingInv'
  <2>1. /\ UNCHANGED <<accounts, target, tried>>
        /\ \A s \in Requests : \/ pc'[s] = pc[s]
                               \/ pc[s] \in {"try", "wait"} /\ pc'[s] # "idle"
    BY <1>0, <1>2 DEF AcquireWaitStep, Acquired, HangUp, TryCancelled, TryGranted, TryQueued, TryRefused,
                      SelectWoken, Woken, SelectDone, storeVars
  <2> QED BY <1>0, <2>1 DEF LookingInv
<1>3. ASSUME NEW r \in Requests, LoginFailed(r) \/ LoginUnsaved(r) PROVE LookingInv'
  <2>1. EnsureFailed(r) /\ UNCHANGED <<accounts, target>> /\ phase[r] = "login"
    BY <1>3 DEF LoginFailed, LoginUnsaved, storeVars
  <2>2. pc[r] = "held" /\ accountID[r] \in Accounts
    BY <1>0, <2>1 DEF Sound
  <2>3. PICK x \in SUBSET Accounts : x = tried[r] \cup {accountID[r]}
    BY <1>0, <2>2
  <2>4. tried' = [tried EXCEPT ![r] = x]
    BY <2>1, <2>3 DEF EnsureFailed
  <2>5. \/ pc' = pc
        \/ pc' = [pc EXCEPT ![r] = "refused"]
        \/ pc' = [pc EXCEPT ![r] = "try"] /\ ~TriedAll(target[r], x)
    BY <2>1, <2>3 DEF EnsureFailed
  <2>6. pc'[r] # "idle" /\ (pc'[r] \in {"try", "wait"} /\ target[r] = NoAccount => x # Accounts)
    BY <1>0, <2>2, <2>5, TriedCount DEF TriedAll
  <2> QED BY <1>0, <2>1, <2>4, <2>5, <2>6 DEF LookingInv
<1>4. ASSUME NEW r \in Requests, SwitchAccount(r) PROVE LookingInv'
  <2>1. pc[r] = "held" /\ UNCHANGED <<accounts, pc, target>> /\ \A s \in Requests \ {r} : tried'[s] = tried[s]
    BY <1>0, <1>4 DEF SwitchAccount, Sound, storeVars
  <2> QED BY <1>0, <2>1 DEF LookingInv
<1>5. ASSUME NEW r \in Requests,
             \/ EnsureLogin(r) \/ EnsureKept(r) \/ LoginDone(r) \/ SwitchAcquired(r) \/ SwitchFailed(r)
             \/ RefreshDone(r) \/ RefreshFailed(r) \/ RefreshToken(r) \/ HangUpServed(r) \/ Return(r)
      PROVE  LookingInv'
  <2>1. UNCHANGED <<accounts, target, tried>> /\ \A s \in Requests : pc'[s] \in {pc[s], "done"}
    BY <1>0, <1>5 DEF EnsureLogin, EnsureKept, LoginDone, SwitchAcquired, SwitchFailed, RefreshDone,
                      RefreshFailed, RefreshToken, HangUpServed, Return, requestVars, vars, storeVars
  <2> QED BY <1>0, <2>1 DEF LookingInv
<1>6. ASSUME UNCHANGED <<pc, target, tried>>, Distinct(accounts') PROVE LookingInv'
  BY <1>0, <1>6 DEF LookingInv
<1>7. ASSUME NEW m \in Admins, AdminUpdate(m) \/ AdminStep(m) PROVE LookingInv'
  <2>0. accounts \in Seq(Accounts)
    BY <1>0 DEF TypeOK, PoolTypeOK
  <2>1. UNCHANGED requestVars
    BY <1>7 DEF AdminUpdate, AdminStep, AdminAdd, AdminCaptureToken, AdminDelete, AdminSettings,
                AdminResetReads, AdminResetInstalls, AdminLimitsRead, AdminLimitsApply
  <2>2. CASE AdminAdd(m) \/ AdminCaptureToken(m)
    <3>1. \/ accounts' = accounts
          \/ \E a \in Accounts : a \notin ToSet(accounts) /\ accounts' = Append(accounts, a)
      BY <2>2, ClientsAssumption DEF AdminAdd, AdminCaptureToken, Configured
    <3>2. Distinct(accounts')
      <4>1. ASSUME NEW a \in Accounts, a \notin ToSet(accounts) PROVE Distinct(Append(accounts, a))
        BY <1>0, <2>0, <4>1, DistinctAppend
      <4> QED BY <1>0, <3>1, <4>1
    <3> QED BY <1>6, <2>1, <3>2 DEF requestVars
  <2>3. CASE AdminDelete(m)
    <3>1. \E i \in DOMAIN accounts : accounts' = RemoveAt(accounts, i)
      BY <2>3 DEF AdminDelete
    <3>2. Distinct(accounts')
      BY <1>0, <2>0, <3>1, DistinctRemove
    <3> QED BY <1>6, <2>1, <3>2 DEF requestVars
  <2>4. CASE AdminSettings(m) \/ AdminStep(m)
    <3>1. accounts' = accounts
      BY <2>4 DEF AdminSettings, AdminStep, AdminResetReads, AdminResetInstalls, AdminLimitsRead,
                  AdminLimitsApply, storeVars
    <3> QED BY <1>0, <1>6, <2>1, <3>1 DEF requestVars
  <2> QED BY <1>7, <2>2, <2>3, <2>4 DEF AdminUpdate
<1>8. ASSUME UNCHANGED vars PROVE LookingInv'
  BY <1>0, <1>6, <1>8 DEF vars, storeVars, requestVars
<1> QED
  BY <1>1, <1>2, <1>3, <1>4, <1>5, <1>7, <1>8 DEF AuthNext, DetermineStep, ServeStep, AllEnded, allVars

(* A request is told that no account can serve it only after a login was   *)
(* tried on every configured account, and none waits for an account when   *)
(* it has tried them all.  The configuration names every account and none  *)
(* twice.                                                                  *)
THEOREM GivesUpAfterAll ==
  ASSUME ToSet(InitialAccounts) = Accounts, Distinct(InitialAccounts)
  PROVE  AuthSpec => GivesUpExactlyAfterAll
<1>1. AuthInitial => LookingInv
  <2> SUFFICES ASSUME AuthInitial PROVE LookingInv
    OBVIOUS
  <2>1. accounts = InitialAccounts /\ \A r \in Requests : pc[r] = "idle" /\ tried[r] = {}
    BY DEF AuthInitial, Init, PoolInit
  <2> QED BY <2>1 DEF LookingInv
<1>2. ASSUME AuthInv, LookingInv, [AuthNext]_allVars, NEW r \in Requests, target[r] = NoAccount
      PROVE  /\ phase[r] = "login" /\ pc'[r] = "refused" /\ Undisturbed => Configured \subseteq tried'[r]
             /\ pc'[r] = "wait" /\ Undisturbed' => ~(Configured' \subseteq tried'[r])
  <2>1. AuthInv' /\ LookingInv' /\ TypeOK /\ TypeOK'
    BY <1>2, AuthStep, LookingStep DEF AuthInv
  <2>2. ASSUME phase[r] = "login", pc'[r] = "refused", Undisturbed PROVE Configured \subseteq tried'[r]
    <3>1. EnsureFailed(r)
      BY <1>2, <2>2, GivesUpStep
    <3>2. /\ pc[r] = "held" /\ accountID[r] \in Accounts /\ tried \in [Requests -> SUBSET Accounts]
          /\ pc \in [Requests -> RequestStates]
      BY <1>2, <2>2, AuthFacts DEF Sound
    <3>3. PICK x \in SUBSET Accounts : x = tried[r] \cup {accountID[r]}
      BY <3>2
    <3>4. tried'[r] = x
      BY <3>1, <3>2, <3>3 DEF EnsureFailed
    <3>5. TriedAll(target[r], x)
      BY <1>2, <2>2, <3>1, <3>2, <3>3 DEF EnsureFailed
    <3>6. Accounts \subseteq Configured /\ Configured \subseteq Accounts
      BY <2>1, <2>2, ConfiguredFinite DEF Undisturbed, TypeOK
    <3> QED BY <1>2, <2>1, <3>4, <3>5, <3>6, TriedCount DEF TriedAll, LookingInv
  <2>3. ASSUME pc'[r] = "wait", Undisturbed' PROVE ~(Configured' \subseteq tried'[r])
    <3>1. target'[r] = NoAccount
      <4>1. target' = target \/ \E s \in Requests : Determine(s)
        BY <1>2 DEF AuthNext, DetermineStep, ServeStep, AllEnded, allVars, vars, requestVars,
             Acquired, AcquireWaitStep, EnsureLogin, EnsureKept, LoginDone, LoginFailed, LoginUnsaved,
             SwitchAcquired, SwitchFailed, RefreshDone, RefreshFailed, Return, SwitchAccount, RefreshToken,
             HangUpServed, HangUp, TryCancelled, TryGranted, TryQueued, TryRefused, SelectWoken, SelectDone,
             AdminUpdate, AdminStep, AdminAdd, AdminCaptureToken, AdminDelete, AdminSettings,
             AdminResetReads, AdminResetInstalls, AdminLimitsRead, AdminLimitsApply
      <4>2. CASE target' = target
        BY <1>2, <4>2
      <4>3. ASSUME NEW s \in Requests, Determine(s) PROVE target'[r] = NoAccount
        <5>1. /\ \E t : target' = [target EXCEPT ![s] = t]
              /\ \E q \in {"refused", "try"} : pc' = [pc EXCEPT ![s] = q]
          BY <4>3 DEF Determine
        <5>2. pc \in [Requests -> RequestStates] /\ target \in [Requests -> Pinnable \cup {NoAccount}]
          BY <2>1 DEF TypeOK
        <5>3. r # s
          BY <2>3, <5>1, <5>2
        <5> QED BY <1>2, <5>1, <5>2, <5>3
      <4> QED BY <4>1, <4>2, <4>3
    <3>2. tried'[r] # Accounts /\ tried'[r] \subseteq Accounts
      BY <2>1, <2>3, <3>1 DEF LookingInv, TypeOK
    <3>3. Accounts \subseteq Configured'
      BY <2>3 DEF Undisturbed
    <3> QED BY <3>2, <3>3
  <2> QED BY <2>2, <2>3
<1>3. AuthInv /\ LookingInv /\ [AuthNext]_allVars =>
        [\A r \in Requests : target[r] = NoAccount =>
           /\ phase[r] = "login" /\ pc'[r] = "refused" /\ Undisturbed
                => Configured \subseteq tried'[r]
           /\ pc'[r] = "wait" /\ Undisturbed' => ~(Configured' \subseteq tried'[r])]_allVars
  BY <1>2
<1> QED
  BY AuthInvInit, AuthStep, LookingStep, <1>1, <1>3, PTL DEF AuthSpec, GivesUpExactlyAfterAll
=============================================================================
