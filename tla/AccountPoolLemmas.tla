-------------------------- MODULE AccountPoolLemmas --------------------------
(***************************************************************************)
(* What the account pool's critical sections keep, whoever enters them:    *)
(* the lemmas that the proofs about AccountPoolClients, ManagedAuth and    *)
(* StreamLease have in common.                                             *)
(***************************************************************************)
EXTENDS AccountPool, FiniteSetTheorems, SequenceTheorems, TLAPS

-----------------------------------------------------------------------------
(* Sequences and limits.                                                   *)

(* Removing one element leaves a sequence over the same set.               *)
LEMMA RemoveAtType ==
  ASSUME NEW S, NEW s \in Seq(S), NEW i \in DOMAIN s
  PROVE  RemoveAt(s, i) \in Seq(S)
<1>1. Len(s) \in Nat /\ i \in 1..Len(s)
  BY LenProperties
<1>2. SubSeq(s, 1, i - 1) \in Seq(S)
  BY <1>1, SubSeqProperties, ElementOfSeq
<1>3. SubSeq(s, i + 1, Len(s)) \in Seq(S)
  BY <1>1, SubSeqProperties, ElementOfSeq
<1> QED
  BY <1>2, <1>3, ConcatProperties DEF RemoveAt

(* Reset's sorted order is a sequence of accounts.                         *)
LEMMA TokenFirstType ==
  ASSUME accounts \in Seq(Accounts), NEW q \in TokenFirst(accounts)
  PROVE  q \in Seq(Accounts)
<1>1. DOMAIN accounts = 1..Len(accounts) /\ Len(accounts) \in Nat
  BY LenProperties
<1>2. ToSet(accounts) \subseteq Accounts
  BY <1>1, ElementOfSeq DEF ToSet
<1>3. q \in [1..Len(accounts) -> Accounts]
  BY <1>1, <1>2 DEF TokenFirst
<1> QED
  BY <1>1, <1>3, SeqDef

(* The limits the store computes are natural numbers.                      *)
LEMMA LimitsType ==
  ASSUME runtime \in RuntimeSettings
  PROVE  /\ PerAccount \in Nat
         /\ \A n \in Nat : EffectiveLimits(n) \in Limits
<1>1. /\ runtime.per \in Nat \cup {Unset}
      /\ runtime.queue \in Nat \cup {Unset}
      /\ runtime.global \in Nat \cup {Unset}
  BY DEF RuntimeSettings, Setting
<1>2. PerAccount \in Nat
  BY <1>1, PoolAssumption DEF PerAccount, Positive
<1> QED
  BY <1>1, <1>2 DEF EffectiveLimits, Limits, Positive

(* What Reset snapshots, and what the settings handler computes.           *)
LEMMA SnapshotType ==
  ASSUME accounts \in Seq(Accounts), runtime \in RuntimeSettings
  PROVE  /\ ResetSnapshots \subseteq PoolSnapshots
         /\ SettingsLimits \in Limits
<1>1. Len(accounts) \in Nat /\ PerAccount \in Nat
  BY LenProperties, LimitsType
<1>2. \A m, n \in Nat : m * n \in Nat
  OBVIOUS
<1>3. EffectiveLimits(Len(accounts) * PerAccount) \in Limits
  BY <1>1, <1>2, LimitsType
<1>4. \A q \in TokenFirst(accounts) : q \in Seq(Accounts)
  BY TokenFirstType
<1>5. ResetSnapshots \subseteq PoolSnapshots
  BY <1>3, <1>4 DEF ResetSnapshots, PoolSnapshots, Limits
<1>6. SettingsLimits \in Limits
  <2>1. CASE accounts = <<>>
    BY <2>1, <1>1, LimitsType DEF SettingsLimits
  <2>2. CASE accounts # <<>>
    BY <2>2, <1>1, <1>2, LimitsType DEF SettingsLimits
  <2> QED BY <2>1, <2>2
<1> QED BY <1>5, <1>6

-----------------------------------------------------------------------------
(* Each critical section keeps the pool's types.                           *)

LEMMA NotifyType ==
  ASSUME waiters \in Seq(Requests), notifyWaiterLocked
  PROVE  waiters' \in Seq(Requests)
BY HeadTailProperties, EmptySeq DEF notifyWaiterLocked

LEMMA ReleaseType ==
  ASSUME PoolTypeOK, NEW a, Release(a), UNCHANGED storeVars
  PROVE  PoolTypeOK'
<1>1. CASE a \in Accounts /\ inUse[a] > 0
  <2>1. inUse' \in [Accounts -> Nat]
    BY <1>1 DEF Release, PoolTypeOK
  <2>2. waiters' \in Seq(Requests)
    BY <1>1, NotifyType DEF Release, PoolTypeOK
  <2> QED
    BY <1>1, <2>1, <2>2 DEF Release, PoolTypeOK, storeVars, limitVars
<1>2. CASE ~(a \in Accounts /\ inUse[a] > 0)
  BY <1>2 DEF Release, PoolTypeOK, storeVars, poolVars
<1> QED BY <1>1, <1>2

LEMMA AcquireType ==
  ASSUME PoolTypeOK, NEW a \in Accounts, NEW t, NEW x,
         acquireLocked(a, t, x), UNCHANGED storeVars
  PROVE  PoolTypeOK'
<1>1. inUse' \in [Accounts -> Nat]
  BY DEF acquireLocked, PoolTypeOK
<1>2. queue' \in Seq(Accounts)
  <2>1. \A i \in DOMAIN queue : Append(RemoveAt(queue, i), a) \in Seq(Accounts)
    BY RemoveAtType, AppendProperties DEF PoolTypeOK
  <2> QED
    BY <2>1 DEF acquireLocked, bumpQueue, PoolTypeOK
<1> QED
  BY <1>1, <1>2 DEF acquireLocked, PoolTypeOK, storeVars, limitVars

LEMMA OtherSectionsType ==
  ASSUME PoolTypeOK, UNCHANGED storeVars
  PROVE  /\ \A r \in Requests : enqueueWaiter(r) => PoolTypeOK'
         /\ \A r \in Requests :
              removeWaiterLocked(r) /\ UNCHANGED <<queue, inUse, limitVars>> => PoolTypeOK'
         /\ resetUnlocked => PoolTypeOK'
         /\ \A snap \in PoolSnapshots : resetLocked(snap) => PoolTypeOK'
         /\ \A l \in Limits : ApplyRuntimeLimits(l) => PoolTypeOK'
<1>1. ASSUME NEW r \in Requests, enqueueWaiter(r) PROVE PoolTypeOK'
  BY <1>1, AppendProperties DEF enqueueWaiter, PoolTypeOK, storeVars, limitVars
<1>2. ASSUME NEW r \in Requests, removeWaiterLocked(r), UNCHANGED <<queue, inUse, limitVars>>
      PROVE  PoolTypeOK'
  BY <1>2, RemoveAtType DEF removeWaiterLocked, PoolTypeOK, storeVars, limitVars
<1>3. ASSUME resetUnlocked PROVE PoolTypeOK'
  BY <1>3, LimitsType DEF resetUnlocked, PoolTypeOK, storeVars
<1>4. ASSUME NEW snap \in PoolSnapshots, resetLocked(snap) PROVE PoolTypeOK'
  <2>1. waiters' \in Seq(Requests)
    BY <1>4, EmptySeq DEF resetLocked
  <2> QED
    BY <1>4, <2>1 DEF resetLocked, PoolSnapshots, PoolTypeOK, storeVars
<1>5. ASSUME NEW l \in Limits, ApplyRuntimeLimits(l) PROVE PoolTypeOK'
  <2>1. waiters' \in Seq(Requests)
    BY <1>5, NotifyType DEF ApplyRuntimeLimits, PoolTypeOK
  <2> QED
    BY <1>5, <2>1 DEF ApplyRuntimeLimits, Limits, PoolTypeOK, storeVars
<1> QED BY <1>1, <1>2, <1>3, <1>4, <1>5

-----------------------------------------------------------------------------
(* NewPool leaves a pool of the right types.                               *)
LEMMA NewPoolType ==
  ASSUME NEW first \in Seq(Accounts), NEW setting \in RuntimeSettings,
         NEW owners \in SUBSET Accounts, PoolInit(first, setting, owners)
  PROVE  PoolTypeOK
<1>1. accounts \in Seq(Accounts) /\ runtime \in RuntimeSettings /\ tokened \subseteq Accounts
  BY DEF PoolInit
<1>2. inUse \in [Accounts -> Nat] /\ waiters \in Seq(Requests)
  BY EmptySeq DEF PoolInit
<1>3. maxInflight \in Nat
  BY <1>1, LimitsType DEF PoolInit
<1>4. ResetSnapshots \subseteq PoolSnapshots
  BY <1>1, SnapshotType
<1>5. queue \in Seq(Accounts) /\ maxQueue \in Nat /\ globalMax \in Nat
  BY <1>4 DEF PoolInit, PoolSnapshots
<1> QED BY <1>1, <1>2, <1>3, <1>5 DEF PoolTypeOK

-----------------------------------------------------------------------------
(* The FIFO and the round robin.                                          *)

(* What is left of a sequence keeps its order.                             *)
LEMMA RemoveAtElements ==
  ASSUME NEW S, NEW s \in Seq(S), NEW i \in DOMAIN s
  PROVE  /\ Len(RemoveAt(s, i)) = Len(s) - 1
         /\ DOMAIN RemoveAt(s, i) = 1..(Len(s) - 1)
         /\ \A j \in 1..(Len(s) - 1) : RemoveAt(s, i)[j] = IF j < i THEN s[j] ELSE s[j + 1]
<1>1. Len(s) \in Nat /\ i \in 1..Len(s) /\ DOMAIN s = 1..Len(s)
  BY LenProperties
<1> DEFINE before == SubSeq(s, 1, i - 1)
           after == SubSeq(s, i + 1, Len(s))
<1>2. /\ before \in Seq(S) /\ Len(before) = i - 1
      /\ \A j \in 1..(i - 1) : before[j] = s[j]
  <2>1. \A j \in 1..(i - 1) : s[j] \in S
    BY <1>1, ElementOfSeq
  <2> QED BY <1>1, <2>1, SubSeqProperties
<1>3. /\ after \in Seq(S) /\ Len(after) = Len(s) - i
      /\ \A j \in 1..(Len(s) - i) : after[j] = s[i + j]
  <2>1. \A j \in (i + 1)..Len(s) : s[j] \in S
    BY <1>1, ElementOfSeq
  <2> QED BY <1>1, <2>1, SubSeqProperties
<1>4. RemoveAt(s, i) = before \o after
  BY DEF RemoveAt
<1> HIDE DEF before, after
<1>5. /\ Len(before \o after) = Len(before) + Len(after) /\ before \o after \in Seq(S)
      /\ \A j \in 1..(Len(before) + Len(after)) :
           (before \o after)[j] = IF j <= Len(before) THEN before[j] ELSE after[j - Len(before)]
  BY <1>2, <1>3, ConcatProperties
<1>a. Len(before) + Len(after) = Len(s) - 1
  BY <1>1, <1>2, <1>3
<1>6. ASSUME NEW j \in 1..(Len(s) - 1)
      PROVE  (before \o after)[j] = IF j < i THEN s[j] ELSE s[j + 1]
  <2>0. j \in Int /\ 1 <= j /\ j <= Len(s) - 1 /\ i \in Int
    BY <1>1
  <2>1. CASE j < i
    <3>1. j \in 1..(i - 1) /\ j <= Len(before)
      BY <1>1, <1>2, <2>0, <2>1
    <3> QED BY <1>2, <1>5, <1>a, <2>1, <3>1
  <2>2. CASE ~(j < i)
    <3>1. ~(j <= Len(before)) /\ j - Len(before) \in 1..(Len(s) - i) /\ i + (j - Len(before)) = j + 1
      BY <1>1, <1>2, <2>0, <2>2
    <3>2. after[j - Len(before)] = s[j + 1]
      BY <1>3, <3>1
    <3> QED BY <1>5, <1>a, <2>2, <3>1, <3>2
  <2> QED BY <2>1, <2>2
<1>7. Len(before \o after) = Len(s) - 1
  BY <1>5, <1>a
<1> QED BY <1>4, <1>5, <1>6, <1>7, LenProperties
=============================================================================
