--------------------------- MODULE AdminConfigProofs ---------------------------
(***************************************************************************)
(* Proofs about AdminConfig, for any handlers, requests, deployments and    *)
(* files: a configuration keeps all its fields through every edit, load and *)
(* save; the mark of the publication the provider took last tells whether   *)
(* the store is in sync; the forms and indexes of its keys and accounts     *)
(* stay consistent; a restart serves what was saved; a quiet server's pool  *)
(* follows the store; and an edit takes nothing with it that it was not     *)
(* asked to.                                                                *)
(***************************************************************************)
EXTENDS AdminConfig, FiniteSetTheorems, SequenceTheorems, TLAPS

(***************************************************************************)
(* Operations on configurations keep their fields.                          *)
(***************************************************************************)
(* Making the two forms of the keys agree after an edit.                    *)
LEMMA ReconcileKeepsFields ==
  ASSUME NEW c, NEW base
  PROVE  /\ DOMAIN ReconcileCredentials(c, base) = DOMAIN c
         /\ "sync" \in DOMAIN c => ReconcileCredentials(c, base).sync = c.sync
BY DEF ReconcileCredentials

(* Normalising the keys of a configuration that was read or edited.         *)
LEMMA NormalizeKeepsFields ==
  ASSUME NEW c
  PROVE  /\ DOMAIN NormalizeCredentials(c) = DOMAIN c
         /\ "sync" \in DOMAIN c => NormalizeCredentials(c).sync = c.sync
BY DEF NormalizeCredentials

(* Reading a configuration without its tokens, or without the accounts that *)
(* have no name.                                                            *)
LEMMA ReadersKeepFields ==
  ASSUME NEW c
  PROVE  /\ DOMAIN Unmarshal(c) = DOMAIN c
         /\ DOMAIN ClearAccountTokens(c) = DOMAIN c
         /\ DOMAIN DropInvalidAccounts(c) = DOMAIN c
<1>1. DOMAIN Unmarshal(c) = DOMAIN c
  BY NormalizeKeepsFields DEF Unmarshal
<1>2. DOMAIN ClearAccountTokens(c) = DOMAIN c
  BY DEF ClearAccountTokens
<1>3. DOMAIN DropInvalidAccounts(c) = DOMAIN c
  BY DEF DropInvalidAccounts
<1> QED  BY <1>1, <1>2, <1>3

(* Tokens go into the accounts only.                                        *)
LEMMA SetTokensKeepsFields ==
  ASSUME NEW c, NEW tokens
  PROVE  /\ DOMAIN SetTokens(c, tokens) = DOMAIN c
         /\ "sync" \in DOMAIN c => SetTokens(c, tokens).sync = c.sync
BY DEF SetTokens

(* What the reader makes of a text is a configuration.                      *)
LEMMA ReadIsConfig ==
  ASSUME NEW c, IsReadConfig(c)
  PROVE  IsConfig(c)
BY DEF IsReadConfig, IsConfig

(* The outcome of an edit that is not refused.                              *)
LEMMA FirstOfOne ==
  ASSUME NEW next, NEW d, next = <<d>>
  PROVE  next[1] = d
OBVIOUS

(* Every edit the handlers make is of a configuration and gives one, with   *)
(* the mark of the last publication as it was.                              *)
LEMMA EditsKeepFields ==
  ASSUME NEW c, NEW old, NEW r \in Requests, r.op \in EditOps, IsConfig(c),
         Mutate(c, r, old) # Refuse
  PROVE  IsConfig(Mutate(c, r, old)[1]) /\ Mutate(c, r, old)[1].sync = c.sync
<1> DEFINE next == Mutate(c, r, old)
<1>0. "sync" \in DOMAIN c /\ "accounts" \in DOMAIN c
  BY DEF IsConfig, EmptyConfig
<1> USE <1>0 DEF Accept, Refuse, RefuseUnless
<1>1. CASE r.op = "addKey"
  <2>1. next = AddKey(c, r)  BY <1>1 DEF Mutate
  <2> QED  BY <2>1 DEF AddKey, IsConfig
<1>2. CASE r.op = "updateKey"
  <2>1. next = UpdateKey(c, r)  BY <1>2 DEF Mutate
  <2> QED  BY <2>1 DEF UpdateKey, IsConfig
<1>3. CASE r.op = "deleteKey"
  <2>1. next = DeleteKey(c, r)  BY <1>3 DEF Mutate
  <2> QED  BY <2>1 DEF DeleteKey, IsConfig
<1>4. CASE r.op = "updateConfig"
  <2>1. next = UpdateConfig(c, r, old)  BY <1>4 DEF Mutate
  <2>2. PICK apiKeys, keys, accounts :
           next = <<[c EXCEPT !.apiKeys = apiKeys, !.keys = keys, !.accounts = accounts]>>
    BY <2>1, Zenon DEF UpdateConfig
  <2>3. next[1] = [c EXCEPT !.apiKeys = apiKeys, !.keys = keys, !.accounts = accounts]
    BY <2>2, FirstOfOne
  <2> QED  BY <2>3 DEF IsConfig
<1>5. CASE r.op = "batchImport"
  <2>1. next = BatchImport(c, r)  BY <1>5 DEF Mutate
  <2>2. PICK apiKeys, accounts :
           next = <<[c EXCEPT !.apiKeys = apiKeys, !.accounts = accounts]>>
    BY <2>1, Zenon DEF BatchImport
  <2>3. next[1] = [c EXCEPT !.apiKeys = apiKeys, !.accounts = accounts]
    BY <2>2, FirstOfOne
  <2> QED  BY <2>3 DEF IsConfig
<1>6. CASE r.op = "configImport"
  <2>1. next = ConfigImport(c, r)  BY <1>6 DEF Mutate
  <2>2. IsConfig(r.config)  BY <1>6, InputsAssumption, ReadIsConfig
  <2> QED  BY <2>1, <2>2, ReadersKeepFields DEF ConfigImport, IsConfig
<1>7. CASE r.op = "addAccount"
  <2>1. next = AddAccount(c, r)  BY <1>7 DEF Mutate
  <2>2. PICK ok, accounts : next = RefuseUnless(ok, [c EXCEPT !.accounts = accounts])
    BY <2>1, Zenon DEF AddAccount
  <2> QED  BY <2>2 DEF IsConfig
<1>8. CASE r.op = "updateAccount"
  <2>1. next = UpdateAccount(c, r)  BY <1>8 DEF Mutate
  <2> QED  BY <2>1 DEF UpdateAccount, IsConfig
<1>9. CASE r.op = "deleteAccount"
  <2>1. next = DeleteAccount(c, r)  BY <1>9 DEF Mutate
  <2> QED  BY <2>1 DEF DeleteAccount, IsConfig
<1>10. CASE r.op = "captureToken"
  <2>1. next = CaptureToken(c, r)  BY <1>10 DEF Mutate
  <2> QED  BY <2>1, SetTokensKeepsFields DEF CaptureToken, IsConfig
<1>11. CASE r.op = "batchUpdateTokens"
  <2>1. next = BatchUpdateTokens(c, r)  BY <1>11 DEF Mutate
  <2> QED  BY <2>1, SetTokensKeepsFields DEF BatchUpdateTokens, IsConfig
<1>12. CASE r.op = "addProxy"
  <2>1. next = AddProxy(c, r)  BY <1>12 DEF Mutate
  <2> QED  BY <2>1 DEF AddProxy, IsConfig
<1>13. CASE r.op = "updateProxy"
  <2>1. next = UpdateProxy(c, r)  BY <1>13 DEF Mutate
  <2>2. PICK ok, proxy, i : next = RefuseUnless(ok, [c EXCEPT !.proxies[i] = proxy])
    BY <2>1, Zenon DEF UpdateProxy
  <2> QED  BY <2>2 DEF IsConfig
<1>14. CASE r.op = "deleteProxy"
  <2>1. next = DeleteProxy(c, r)  BY <1>14 DEF Mutate
  <2> QED  BY <2>1 DEF DeleteProxy, IsConfig
<1>15. CASE r.op = "updateAccountProxy"
  <2>1. next = UpdateAccountProxy(c, r)  BY <1>15 DEF Mutate
  <2>2. PICK ok, i, proxy : next = RefuseUnless(ok, [c EXCEPT !.accounts[i].proxy = proxy])
    BY <2>1, Zenon DEF UpdateAccountProxy
  <2> QED  BY <2>2 DEF IsConfig
<1>16. CASE r.op = "updateSettings"
  <2>1. next = UpdateSettings(c, r)  BY <1>16 DEF Mutate
  <2>2. PICK per, global : next = <<[c EXCEPT !.per = per, !.global = global]>>
    BY <2>1, Zenon DEF UpdateSettings, MergedRuntime
  <2>3. next[1] = [c EXCEPT !.per = per, !.global = global]
    BY <2>2, FirstOfOne
  <2> QED  BY <2>3 DEF IsConfig
<1>17. CASE r.op = "updatePassword"
  <2>1. next = UpdateSettingsPassword(c, r)  BY <1>17 DEF Mutate
  <2> QED  BY <2>1 DEF UpdateSettingsPassword, IsConfig
<1> QED
  BY <1>1, <1>2, <1>3, <1>4, <1>5, <1>6, <1>7, <1>8, <1>9, <1>10, <1>11, <1>12, <1>13,
     <1>14, <1>15, <1>16, <1>17 DEF EditOps

(***************************************************************************)
(* The store.                                                               *)
(***************************************************************************)
StoreFields == {"cfg", "keyMap", "accMap", "accTest", "fromEnv"}
IsStore(s) == DOMAIN s = StoreFields /\ IsConfig(s.cfg)

(* Building the indexes leaves the configuration alone.                     *)
LEMMA RebuildKeepsConfig ==
  ASSUME NEW s, DOMAIN s = StoreFields
  PROVE  /\ DOMAIN RebuildIndexes(s) = StoreFields
         /\ RebuildIndexes(s).cfg = s.cfg
<1>1. PICK keyMap, accMap, accTest :
        RebuildIndexes(s) = [s EXCEPT !.keyMap = keyMap, !.accMap = accMap, !.accTest = accTest]
  BY Zenon DEF RebuildIndexes
<1> QED  BY <1>1 DEF StoreFields

(* A save keeps the configuration in memory, and what it leaves in the file *)
(* is a configuration if what it found there was one.                       *)
LEMMA SaveKeepsConfig ==
  ASSUME NEW s, NEW write, IsStore(s), IsConfig(file.cfg), SaveLocked(s, write)
  PROVE  /\ IsStore(store') /\ store'.cfg = s.cfg
         /\ IsConfig(file'.cfg)
<1>1. IsStore(store') /\ store'.cfg = s.cfg
  <2>1. PICK fromEnv : store' = [s EXCEPT !.fromEnv = fromEnv]
    BY Zenon DEF SaveLocked
  <2> QED  BY <2>1 DEF IsStore, StoreFields
<1>2. file' \in {file, Written(s.cfg), TornFile}
  BY DEF SaveLocked
<1>3. IsConfig(Written(s.cfg).cfg) /\ IsConfig(TornFile.cfg)
  BY DEF Written, TornFile, IsStore, IsConfig
<1> QED  BY <1>1, <1>2, <1>3

(* An update stores the configuration it was given, with its keys in order  *)
(* and the mark of the last publication as it was given.                    *)
LEMMA UpdateKeepsFields ==
  ASSUME NEW next, NEW write, IsConfig(next), IsStore(store), IsConfig(file.cfg),
         Update(next, write)
  PROVE  /\ IsStore(store') /\ IsConfig(file'.cfg)
         /\ store'.cfg.sync = next.sync
<1> DEFINE c == NormalizeCredentials(ReconcileCredentials(next, store.cfg))
           s == [store EXCEPT !.cfg = c]
<1>1. IsConfig(c) /\ c.sync = next.sync
  <2>1. "sync" \in DOMAIN next  BY DEF IsConfig, EmptyConfig
  <2> QED  BY <2>1, ReconcileKeepsFields, NormalizeKeepsFields DEF IsConfig
<1>2. SaveLocked(RebuildIndexes(s), write)
  BY DEF Update
<1> HIDE DEF c
<1>3. DOMAIN s = StoreFields /\ s.cfg = c
  BY DEF IsStore, StoreFields
<1> HIDE DEF s
<1>4. DOMAIN RebuildIndexes(s) = StoreFields /\ RebuildIndexes(s).cfg = c
  BY <1>3, RebuildKeepsConfig
<1>5. IsStore(RebuildIndexes(s))
  BY <1>1, <1>4 DEF IsStore
<1> QED  BY <1>1, <1>2, <1>4, <1>5, SaveKeepsConfig

(* A token goes into the accounts only.                                     *)
LEMMA TokenKeepsFields ==
  ASSUME NEW id, NEW token, NEW write, IsStore(store), IsConfig(file.cfg),
         UpdateAccountToken(id, token, write)
  PROVE  IsStore(store') /\ IsConfig(file'.cfg) /\ store'.cfg.sync = store.cfg.sync
<1>1. CASE UNCHANGED <<store, file, saved>>
  BY <1>1 DEF IsStore
<1>2. CASE ~UNCHANGED <<store, file, saved>>
  <2>1. PICK i, accMap :
           SaveLocked([store EXCEPT !.cfg.accounts[i].token = token, !.accMap = accMap], write)
    BY <1>2, Zenon DEF UpdateAccountToken
  <2> DEFINE s == [store EXCEPT !.cfg.accounts[i].token = token, !.accMap = accMap]
  <2>2. DOMAIN s = StoreFields /\ DOMAIN s.cfg = DOMAIN store.cfg /\ s.cfg.sync = store.cfg.sync
    BY DEF IsStore, StoreFields, IsConfig, EmptyConfig
  <2> HIDE DEF s
  <2>3. IsStore(s)  BY <2>2 DEF IsStore, IsConfig
  <2>4. SaveLocked(s, write)  BY <2>1 DEF s
  <2> QED  BY <2>2, <2>3, <2>4, SaveKeepsConfig
<1> QED  BY <1>1, <1>2

(* A test result goes into its index only.                                  *)
LEMMA StatusKeepsFields ==
  ASSUME NEW id, NEW status, IsStore(store), UpdateAccountTestStatus(id, status)
  PROVE  IsStore(store') /\ file' = file /\ store'.cfg = store.cfg
<1>1. PICK accTest : store' \in {store, [store EXCEPT !.accTest = accTest]}
  BY Zenon DEF UpdateAccountTestStatus
<1> QED  BY <1>1 DEF IsStore, StoreFields, UpdateAccountTestStatus

(* Whatever there is to load, a configuration is loaded.                    *)
LEMMA LoadGivesConfig ==
  ASSUME NEW found, IsConfig(found.cfg), deploy \in Deployments, NEW l \in LoadConfig(found)
  PROVE  /\ IsConfig(l.cfg) /\ IsConfig(l.file.cfg)
         /\ IsStore(NewStore(l)) /\ NewStore(l).cfg = l.cfg
<1>1. \A c : IsConfig(c) => IsConfig(NormalizeCredentials(c))
  BY NormalizeKeepsFields DEF IsConfig
<1>2. IsConfig(FromFile(found)) /\ IsConfig(FromEnv) /\ IsConfig(EmptyConfig)
  BY InputsAssumption, ReadIsConfig, ReadersKeepFields DEF FromFile, FromEnv, IsConfig
<1>3. PICK c, fromEnv, left, error :
        /\ l = Loaded(c, fromEnv, left, error)
        /\ \/ c \in {FromFile(found), FromEnv, EmptyConfig}
           \/ deploy.legacy # <<>> /\ c = FromFile(Written(deploy.legacy[1]))
        /\ left \in {found, Written(FromEnv), TornFile}
  BY DEF LoadConfig, LoadWithoutEnv, LoadFromEnv
<1>8. IsConfig(c)
  BY <1>2, <1>3, InputsAssumption, ReadIsConfig, ReadersKeepFields DEF FromFile, Written, IsConfig
<1>4. l.cfg = NormalizeCredentials(c) /\ l.file = left
  BY <1>3 DEF Loaded
<1>5. IsConfig(left.cfg)
  BY <1>2, <1>3 DEF Written, TornFile
<1>6. IsConfig(l.cfg) /\ IsConfig(l.file.cfg)
  BY <1>1, <1>4, <1>5, <1>8
<1>7. IsStore(NewStore(l)) /\ NewStore(l).cfg = l.cfg
  BY <1>6, RebuildKeepsConfig DEF NewStore, IsStore, StoreFields
<1> QED  BY <1>6, <1>7

(***************************************************************************)
(* The inductive invariant: what is stored is a configuration; a handler    *)
(* whose publication was taken holds what the provider has, unless another  *)
(* was taken since; and the mark that counts is of what the provider has.   *)
(***************************************************************************)
Shapes ==
  /\ IsStore(store) /\ IsConfig(file.cfg) /\ deploy \in Deployments
  /\ DOMAIN pc = Handlers /\ DOMAIN req = Handlers /\ DOMAIN held = Handlers
  /\ \A p \in Handlers : pc[p] = "edit" => req[p] \in Requests /\ req[p].op \in EditOps

Marks ==
  /\ \A p \in Handlers : Answered(p) /\ p \notin overtaken => remote = held[p]
  /\ marked => store.cfg.sync = <<SyncHashForJSON(remote[1])>>
  /\ marked \in BOOLEAN /\ overtaken \subseteq Handlers

PublishInv == Shapes /\ Marks

(* A server starts with a configuration and with nothing under way.         *)
LEMMA PublishInit == Init => PublishInv
<1> SUFFICES ASSUME Init PROVE PublishInv
  OBVIOUS
<1>1. PICK found \in Files : \E l \in LoadConfig(found) : store = NewStore(l) /\ file = l.file
  BY DEF Init
<1>2. IsConfig(found.cfg) /\ deploy \in Deployments
  BY InputsAssumption, ReadIsConfig DEF Init
<1>3. IsStore(store) /\ IsConfig(file.cfg)
  BY <1>1, <1>2, LoadGivesConfig
<1>4. /\ pc = [p \in Handlers |-> "idle"]
      /\ DOMAIN pc = Handlers /\ DOMAIN req = Handlers /\ DOMAIN held = Handlers
  BY DEF Init, AllIdle
<1>5. Shapes
  BY <1>2, <1>3, <1>4 DEF Shapes
<1>6. Marks
  BY <1>4 DEF Marks, Answered, Init
<1> QED  BY <1>5, <1>6 DEF PublishInv

(* A handler that goes on to a step of no edit keeps what the store holds a *)
(* configuration if the step did.                                           *)
LEMMA ShapesStep ==
  ASSUME Shapes, NEW p \in Handlers, NEW step, NEW h, step # "edit",
         IsStore(store'), IsConfig(file'.cfg), deploy' = deploy,
         GoTo(p, step, h) \/ Reply(p)
  PROVE  Shapes'
<1>1. /\ DOMAIN pc' = Handlers /\ DOMAIN req' = Handlers /\ DOMAIN held' = Handlers
      /\ pc'[p] # "edit"
      /\ \A q \in Handlers \ {p} : pc'[q] = pc[q] /\ req'[q] = req[q]
  BY DEF Shapes, GoTo, Reply
<1>2. \A q \in Handlers : pc'[q] = "edit" => req'[q] \in Requests /\ req'[q].op \in EditOps
  BY <1>1 DEF Shapes
<1>3. deploy' \in Deployments
  BY DEF Shapes
<1> QED  BY <1>1, <1>2, <1>3 DEF Shapes

(* A handler that goes on, with its own publication still unanswered or     *)
(* over or with what it held, leaves the marks as they are if the step      *)
(* published nothing and kept the mark in the store.                        *)
LEMMA MarksStep ==
  ASSUME Shapes, Marks, NEW p \in Handlers, NEW step, NEW h,
         step \notin {"credentials", "mark"} \/ (Answered(p) /\ h = held[p]),
         UNCHANGED publication, store'.cfg.sync = store.cfg.sync,
         GoTo(p, step, h) \/ Reply(p)
  PROVE  Marks'
<1>1. /\ pc'[p] \in {step, "idle"}
      /\ pc'[p] = step => held'[p] = h \/ step = "idle"
      /\ \A q \in Handlers \ {p} : pc'[q] = pc[q] /\ held'[q] = held[q]
  BY DEF Shapes, GoTo, Reply
<1>2. remote' = remote /\ overtaken' = overtaken /\ marked' = marked
  BY DEF publication
<1>3. ASSUME NEW q \in Handlers, Answered(q)', q \notin overtaken' PROVE remote' = held'[q]
  BY <1>1, <1>2, <1>3 DEF Marks, Answered
<1> QED  BY <1>2, <1>3 DEF Marks

(* The names of the steps are different.                                    *)
LEMMA OtherSteps ==
  ASSUME NEW step \in {"accounts", "call", "callAgain", "limits", "install", "status",
                       "relogin", "validate", "upsert", "edit", "login", "idle"}
  PROVE  step \notin {"credentials", "mark"}
OBVIOUS

(* Every step keeps the invariant.                                          *)
LEMMA PublishStep == PublishInv /\ [Next]_vars => PublishInv'
<1> SUFFICES ASSUME Shapes, Marks, [Next]_vars PROVE Shapes' /\ Marks'
  BY DEF PublishInv
<1>0. IsStore(store) /\ IsConfig(file.cfg)
  BY DEF Shapes
<1>1. ASSUME NEW p \in Handlers, NEW r \in Requests, Receive(p, r)
      PROVE  Shapes' /\ Marks'
  <2>2. /\ store' = store /\ file' = file /\ deploy' = deploy /\ UNCHANGED publication
        /\ pc[p] = "idle"
    BY <1>1 DEF Receive, storeVars
  <2>3. PICK step, h :
          /\ pc' = [pc EXCEPT ![p] = step]
          /\ req' = [req EXCEPT ![p] = r]
          /\ held' = [held EXCEPT ![p] = h]
          /\ \/ step = "edit" /\ r.op \in EditOps
             \/ step \in {"login", "validate"}
    <3>1. CASE ReceiveEdit(p, r)
      BY <3>1, Zenon DEF ReceiveEdit
    <3>2. CASE TestSingleAccount(p, r) \/ DeleteAllSessions(p, r)
      BY <3>2, Zenon DEF TestSingleAccount, DeleteAllSessions, WithAccount
    <3>3. CASE ReceiveSync(p, r)
      BY <3>3, Zenon DEF ReceiveSync
    <3> QED  BY <1>1, <3>1, <3>2, <3>3 DEF Receive
  <2>4. /\ DOMAIN pc' = Handlers /\ DOMAIN req' = Handlers /\ DOMAIN held' = Handlers
        /\ pc'[p] = step /\ req'[p] = r
        /\ \A q \in Handlers \ {p} : pc'[q] = pc[q] /\ req'[q] = req[q] /\ held'[q] = held[q]
    BY <2>3 DEF Shapes
  <2>5. Shapes'
    <3>1. \A q \in Handlers : pc'[q] = "edit" => req'[q] \in Requests /\ req'[q].op \in EditOps
      BY <2>3, <2>4 DEF Shapes
    <3> QED  BY <2>2, <2>4, <3>1 DEF Shapes
  <2>6. remote' = remote /\ overtaken' = overtaken /\ marked' = marked
    BY <2>2 DEF publication
  <2>7. pc'[p] \notin {"credentials", "mark"}
    BY <2>3, <2>4
  <2>8. ASSUME NEW q \in Handlers, Answered(q)', q \notin overtaken' PROVE remote' = held'[q]
    BY <2>4, <2>6, <2>7, <2>8 DEF Marks, Answered
  <2>9. Marks'
    BY <2>2, <2>6, <2>8 DEF Marks
  <2> QED  BY <2>5, <2>9
<1>2. ASSUME NEW p \in Handlers, NEW write \in Writes, Edit(p, write)
      PROVE  Shapes' /\ Marks'
  <2>1. deploy' = deploy /\ UNCHANGED publication
    BY <1>2 DEF Edit
  <2>2. GoTo(p, "accounts", <<>>) \/ Reply(p)
    BY <1>2, Zenon DEF Edit
  <2>3. IsStore(store') /\ IsConfig(file'.cfg) /\ store'.cfg.sync = store.cfg.sync
    <3> DEFINE next == Mutate(store.cfg, req[p], held[p][1])
    <3>1. CASE next = Refuse
      <4>1. store' = store /\ file' = file  BY <1>2, <3>1, Zenon DEF Edit
      <4> QED  BY <4>1, <1>0 DEF IsStore
    <3>2. CASE next # Refuse
      <4>1. Update(next[1], write)  BY <1>2, <3>2, Zenon DEF Edit
      <4>2. req[p] \in Requests /\ req[p].op \in EditOps  BY <1>2 DEF Edit, Shapes
      <4>3. IsConfig(store.cfg)  BY <1>0 DEF IsStore
      <4>4. IsConfig(next[1]) /\ next[1].sync = store.cfg.sync
        BY <4>2, <4>3, <3>2, EditsKeepFields
      <4> HIDE DEF next
      <4> QED  BY <1>0, <4>1, <4>4, UpdateKeepsFields
    <3> QED  BY <3>1, <3>2
  <2> QED  BY <2>1, <2>2, <2>3, ShapesStep, MarksStep, OtherSteps
<1>3. ASSUME NEW p \in Handlers, NEW write \in Writes, LoginSucceeds(p, write)
      PROVE  Shapes' /\ Marks'
  <2>1. deploy' = deploy /\ UNCHANGED publication
    BY <1>3 DEF LoginSucceeds
  <2>2. PICK step \in {"call", "callAgain"} : GoTo(p, step, held[p])
    BY <1>3 DEF LoginSucceeds
  <2>3. UpdateAccountToken(Identifier(held[p][1]), req[p].token, write)
    BY <1>3 DEF LoginSucceeds
  <2>4. IsStore(store') /\ IsConfig(file'.cfg) /\ store'.cfg.sync = store.cfg.sync
    BY <1>0, <2>3, TokenKeepsFields
  <2>5. step # "edit" /\ step \notin {"credentials", "mark"}
    OBVIOUS
  <2> QED  BY <2>1, <2>2, <2>4, <2>5, ShapesStep, MarksStep
<1>4. ASSUME NEW p \in Handlers, NEW write \in Writes, ValidateAccount(p, write)
      PROVE  Shapes' /\ Marks'
  <2>1. deploy' = deploy /\ UNCHANGED publication /\ GoTo(p, "validate", Tail(held[p]))
    BY <1>4 DEF ValidateAccount
  <2>2. UpdateAccountToken(Identifier(held[p][1]), req[p].token, write)
          \/ UNCHANGED <<store, file, saved>>
    BY <1>4, Zenon DEF ValidateAccount
  <2>3. IsStore(store') /\ IsConfig(file'.cfg) /\ store'.cfg.sync = store.cfg.sync
    BY <1>0, <2>2, TokenKeepsFields DEF IsStore
  <2> QED  BY <2>1, <2>3, ShapesStep, MarksStep, OtherSteps
<1>5. ASSUME NEW p \in Handlers, NEW write \in Writes, SaveCredentials(p, write)
      PROVE  Shapes' /\ Marks'
  <2>1. /\ deploy' = deploy /\ UNCHANGED publication
        /\ Answered(p) /\ GoTo(p, "mark", held[p])
    BY <1>5 DEF SaveCredentials, Answered
  <2> DEFINE next == SaveLocalVercelCredentials(store.cfg, req[p])[1]
  <2>2. Update(next, write)
    BY <1>5 DEF SaveCredentials
  <2>3. IsConfig(next) /\ next.sync = store.cfg.sync
    BY <1>0 DEF IsStore, IsConfig, EmptyConfig, SaveLocalVercelCredentials, Accept
  <2> HIDE DEF next
  <2>4. IsStore(store') /\ IsConfig(file'.cfg) /\ store'.cfg.sync = store.cfg.sync
    BY <1>0, <2>2, <2>3, UpdateKeepsFields
  <2> QED  BY <2>1, <2>4, ShapesStep, MarksStep
<1>6. ASSUME NEW p \in Handlers, NEW write \in Writes, MarkSynced(p, write)
      PROVE  Shapes' /\ Marks'
  <2>1. /\ deploy' = deploy /\ remote' = remote /\ overtaken' = overtaken /\ Reply(p)
        /\ marked' = (p \notin overtaken) /\ Answered(p)
    BY <1>6 DEF MarkSynced, Answered
  <2> DEFINE next == [store.cfg EXCEPT !.sync = <<SyncHashForJSON(held[p][1])>>]
  <2>2. Update(next, write)
    BY <1>6 DEF MarkSynced, SetVercelSync, Accept
  <2>3. IsConfig(next) /\ next.sync = <<SyncHashForJSON(held[p][1])>>
    BY <1>0 DEF IsStore, IsConfig, EmptyConfig
  <2> HIDE DEF next
  <2>4. /\ IsStore(store') /\ IsConfig(file'.cfg)
        /\ store'.cfg.sync = <<SyncHashForJSON(held[p][1])>>
    BY <1>0, <2>2, <2>3, UpdateKeepsFields
  <2>5. Shapes'
    BY <2>1, <2>4, ShapesStep
  <2>6. marked' => store'.cfg.sync = <<SyncHashForJSON(remote'[1])>>
    <3> SUFFICES ASSUME marked' PROVE store'.cfg.sync = <<SyncHashForJSON(remote[1])>>
      BY <2>1
    <3>1. remote = held[p]  BY <2>1 DEF Marks
    <3> QED  BY <2>4, <3>1
  <2>7. /\ pc'[p] = "idle"
        /\ \A q \in Handlers \ {p} : pc'[q] = pc[q] /\ held'[q] = held[q]
    BY <2>1 DEF Reply, Shapes
  <2>8. ASSUME NEW q \in Handlers, Answered(q)', q \notin overtaken' PROVE remote' = held'[q]
    BY <2>1, <2>7, <2>8 DEF Marks, Answered
  <2>9. Marks'
    BY <2>1, <2>6, <2>8 DEF Marks
  <2> QED  BY <2>5, <2>9
<1>7. ASSUME NEW p \in Handlers,
             \/ ReadAccounts(p) \/ ReadLimits(p) \/ Install(p)
             \/ LoginFails(p) \/ CallFails(p) \/ CallSucceeds(p)
      PROVE  Shapes' /\ Marks'
  <2>1. store' = store /\ file' = file /\ deploy' = deploy /\ UNCHANGED publication
    BY <1>7 DEF ReadAccounts, ReadLimits, Install, LoginFails, CallFails, CallSucceeds, storeVars
  <2> DEFINE Moves(step) == \E h : GoTo(p, step, h)
  <2>2. Moves("limits") \/ Moves("install") \/ Moves("status") \/ Moves("relogin") \/ Reply(p)
    <3>1. CASE ReadAccounts(p)  BY <3>1, Zenon DEF ReadAccounts
    <3>2. CASE ReadLimits(p)  BY <3>2, Zenon DEF ReadLimits
    <3>3. CASE Install(p)  BY <3>3, Zenon DEF Install
    <3>4. CASE LoginFails(p)  BY <3>4, Zenon DEF LoginFails, Finish
    <3>5. CASE CallFails(p)  BY <3>5, Zenon DEF CallFails, Finish
    <3>6. CASE CallSucceeds(p)  BY <3>6, Zenon DEF CallSucceeds, Finish
    <3> QED  BY <1>7, <3>1, <3>2, <3>3, <3>4, <3>5, <3>6
  <2>5. PICK step, h : /\ step \in {"limits", "install", "status", "relogin"}
                       /\ GoTo(p, step, h) \/ Reply(p)
    BY <2>2
  <2>3. step # "edit" /\ step \notin {"credentials", "mark"}
    BY <2>5
  <2>4. IsStore(store') /\ IsConfig(file'.cfg) /\ store'.cfg.sync = store.cfg.sync
    BY <1>0, <2>1 DEF IsStore
  <2> QED  BY <2>1, <2>3, <2>4, <2>5, ShapesStep, MarksStep
<1>8. ASSUME NEW p \in Handlers, RecordStatus(p)
      PROVE  Shapes' /\ Marks'
  <2>1. deploy' = deploy /\ UNCHANGED publication /\ Reply(p)
    BY <1>8 DEF RecordStatus
  <2>2. UpdateAccountTestStatus(Identifier(held[p][1]), held[p][2])
    BY <1>8 DEF RecordStatus
  <2>3. IsStore(store') /\ IsConfig(file'.cfg) /\ store'.cfg = store.cfg
    BY <1>0, <2>2, StatusKeepsFields
  <2>4. "idle" # "edit" /\ "idle" \notin {"credentials", "mark"}
    OBVIOUS
  <2> QED  BY <2>1, <2>3, <2>4, ShapesStep, MarksStep
<1>9. ASSUME NEW p \in Handlers, ExportSyncConfig(p)
      PROVE  Shapes' /\ Marks'
  <2>1. store' = store /\ file' = file /\ deploy' = deploy /\ UNCHANGED publication
    BY <1>9 DEF ExportSyncConfig, storeVars
  <2>2. PICK h : GoTo(p, "upsert", h)
    BY <1>9, Zenon DEF ExportSyncConfig
  <2>3. IsStore(store') /\ IsConfig(file'.cfg)
    BY <1>0, <2>1 DEF IsStore
  <2> QED  BY <2>1, <2>2, <2>3, ShapesStep, MarksStep, OtherSteps
<1>10. ASSUME NEW p \in Handlers, NEW taken \in BOOLEAN, NEW answered \in BOOLEAN,
              UpsertVercelEnv(p, taken, answered)
       PROVE  Shapes' /\ Marks'
  <2>1. store' = store /\ file' = file /\ deploy' = deploy /\ pc[p] = "upsert"
    BY <1>10 DEF UpsertVercelEnv, storeVars
  <2>2. IsStore(store') /\ IsConfig(file'.cfg)
    BY <1>0, <2>1 DEF IsStore
  <2>3. PICK step \in {"credentials", "idle"} :
          /\ GoTo(p, step, held[p]) \/ Reply(p)
          /\ step = "credentials" => taken /\ GoTo(p, step, held[p])
          /\ step = "idle" => Reply(p)
    BY <1>10 DEF UpsertVercelEnv
  <2>4. Shapes'
    BY <2>1, <2>2, <2>3, ShapesStep
  <2>5. /\ pc'[p] = step /\ (step = "credentials" => held'[p] = held[p])
        /\ \A q \in Handlers \ {p} : pc'[q] = pc[q] /\ held'[q] = held[q]
    BY <2>3 DEF GoTo, Reply, Shapes
  <2>6. CASE taken
    <3>1. /\ remote' = held[p] /\ marked' = FALSE
          /\ overtaken' = (overtaken \cup {q \in Handlers : Answered(q)}) \ {p}
      BY <1>10, <2>6, Zenon DEF UpsertVercelEnv
    <3>2. ASSUME NEW q \in Handlers, Answered(q)', q \notin overtaken' PROVE remote' = held'[q]
      BY <2>5, <3>1, <3>2 DEF Answered
    <3> QED  BY <2>4, <3>1, <3>2 DEF Marks
  <2>7. CASE ~taken
    <3>1. remote' = remote /\ overtaken' = overtaken /\ marked' = marked
      BY <1>10, <2>7 DEF UpsertVercelEnv, publication
    <3>2. pc'[p] = "idle"
      BY <2>3, <2>5, <2>7
    <3>3. ASSUME NEW q \in Handlers, Answered(q)', q \notin overtaken' PROVE remote' = held'[q]
      BY <2>5, <3>1, <3>2, <3>3 DEF Marks, Answered
    <3> QED  BY <2>1, <2>4, <3>1, <3>3 DEF Marks
  <2> QED  BY <2>6, <2>7
<1>11. ASSUME NEW cut \in BOOLEAN, Crash(cut)
       PROVE  Shapes' /\ Marks'
  <2>1. /\ store' = store /\ deploy' = deploy /\ file' \in {file, TornFile}
        /\ DOMAIN pc' = Handlers /\ DOMAIN req' = Handlers /\ DOMAIN held' = Handlers
        /\ \A p \in Handlers : pc'[p] = "idle"
        /\ remote' = remote /\ overtaken' = overtaken /\ marked' = marked
    BY <1>11 DEF Crash, publication
  <2>2. IsStore(store') /\ IsConfig(file'.cfg)
    BY <1>0, <2>1 DEF IsStore, TornFile, IsConfig
  <2>3. Shapes'
    BY <2>1, <2>2 DEF Shapes
  <2> QED  BY <2>1, <2>3 DEF Marks, Answered
<1>12. ASSUME Restart
       PROVE  Shapes' /\ Marks'
  <2>1. UNCHANGED <<deploy, pc, req, held, remote, overtaken>>
    BY <1>12 DEF Restart, handlerVars
  <2>2. PICK l \in LoadConfig(file) : store' = NewStore(l) /\ file' = l.file
    BY <1>12 DEF Restart, Started
  <2>3. IsStore(store') /\ IsConfig(file'.cfg)
    BY <1>0, <2>2, LoadGivesConfig DEF Shapes
  <2>4. Shapes'
    BY <2>1, <2>3 DEF Shapes
  <2>5. marked' = (marked /\ store'.cfg.sync = store.cfg.sync)
    BY <1>12, Zenon DEF Restart
  <2>6. ASSUME NEW q \in Handlers, Answered(q)', q \notin overtaken' PROVE remote' = held'[q]
    BY <2>1, <2>6 DEF Marks, Answered
  <2>7. marked' \in BOOLEAN /\ (marked' => store'.cfg.sync = <<SyncHashForJSON(remote'[1])>>)
    BY <2>1, <2>5 DEF Marks
  <2>8. Marks'
    BY <2>1, <2>6, <2>7 DEF Marks
  <2> QED  BY <2>4, <2>8
<1>13. ASSUME UNCHANGED vars PROVE Shapes' /\ Marks'
  BY <1>13 DEF vars, storeVars, handlerVars, publication, Shapes, Marks, Answered, IsStore
<1> QED
  BY <1>1, <1>2, <1>3, <1>4, <1>5, <1>6, <1>7, <1>8, <1>9, <1>10, <1>11, <1>12, <1>13, Zenon
  DEF Next

(* The invariant holds throughout.                                          *)
LEMMA PublishInvariant == Spec => []PublishInv
BY PublishInit, PublishStep, PTL DEF Spec

(***************************************************************************)
(* The theorem.                                                             *)
(***************************************************************************)
(* The configuration counts as in sync exactly while it is what the         *)
(* provider has, whatever is edited, imported or published in between and   *)
(* whichever writes fail, as long as the text that the provider took last   *)
(* is marked; of publications that overlap the last one taken must be the   *)
(* last one marked.                                                         *)
THEOREM PublicationsAreMarkedTruthfully == Spec => []MarkTellsTheTruth
<1>1. PublishInv => MarkTellsTheTruth
  BY DEF PublishInv, Marks, MarkTellsTheTruth, Synced
<1> QED  BY <1>1, PublishInvariant, PTL

(***************************************************************************)
(* Lists.  A configuration's lists are filtered, merged and edited by       *)
(* position.                                                                *)
(***************************************************************************)

(* The ranks of the members of a finite set of positions are 1 up to their  *)
(* number, in their order.                                                  *)
LEMMA RankOrders ==
  ASSUME NEW K, IsFiniteSet(K), \A k \in K : k \in Int
  PROVE  /\ Cardinality(K) \in Nat
         /\ \A i \in K : Rank(K, i) \in 1 .. Cardinality(K)
         /\ \A i, j \in K : i < j => Rank(K, i) < Rank(K, j)
         /\ \A n \in 1 .. Cardinality(K) : \E i \in K : Rank(K, i) = n
<1> DEFINE Upto(i) == {j \in K : j <= i}
           r == [i \in K |-> Cardinality(Upto(i))]
<1>1. Cardinality(K) \in Nat
  BY FS_CardinalityType
<1>2. \A i \in K : IsFiniteSet(Upto(i)) /\ Cardinality(Upto(i)) \in Nat
                     /\ Cardinality(Upto(i)) <= Cardinality(K) /\ Cardinality(Upto(i)) # 0
  <2> TAKE i \in K
  <2>1. Upto(i) \in SUBSET K /\ i \in Upto(i) /\ Upto(i) # {}
    OBVIOUS
  <2> HIDE DEF Upto
  <2> QED  BY <1>1, <2>1, FS_Subset, FS_CardinalityType, FS_EmptySet
<1>3. \A i, j \in K : i < j => Cardinality(Upto(i)) < Cardinality(Upto(j))
  <2> SUFFICES ASSUME NEW i \in K, NEW j \in K, i < j
               PROVE  Cardinality(Upto(i)) < Cardinality(Upto(j))
    OBVIOUS
  <2>1. Upto(i) \in SUBSET Upto(j) /\ j \in Upto(j) /\ j \notin Upto(i)
    OBVIOUS
  <2> HIDE DEF Upto
  <2>2. IsFiniteSet(Upto(j)) /\ Upto(i) # Upto(j)
    BY <1>2, <2>1
  <2>3. Cardinality(Upto(i)) <= Cardinality(Upto(j)) /\ Cardinality(Upto(i)) # Cardinality(Upto(j))
    BY <2>1, <2>2, FS_Subset
  <2>4. Cardinality(Upto(i)) \in Nat /\ Cardinality(Upto(j)) \in Nat
    BY <1>2
  <2> QED  BY <2>3, <2>4
<1> HIDE DEF Upto
<1>4. IsFiniteSet(1 .. Cardinality(K)) /\ Cardinality(1 .. Cardinality(K)) = Cardinality(K)
  BY <1>1, FS_Interval
<1>5. r \in Injection(K, 1 .. Cardinality(K))
  <2>1. r \in [K -> 1 .. Cardinality(K)]
    BY <1>1, <1>2
  <2>2. ASSUME NEW i \in K, NEW j \in K, r[i] = r[j] PROVE i = j
    BY <1>2, <1>3, <2>2
  <2> QED  BY <2>1, <2>2 DEF Injection, IsInjective
<1>6. r \in Surjection(K, 1 .. Cardinality(K))
  BY <1>4, <1>5, FS_Injection
<1>7. \A n \in 1 .. Cardinality(K) : \E i \in K : Cardinality(Upto(i)) = n
  BY <1>6 DEF Surjection
<1>8. \A i \in K : Rank(K, i) = Cardinality(Upto(i))
  BY DEF Rank, Upto
<1>9. \A i \in K : Rank(K, i) \in 1 .. Cardinality(K)
  BY <1>1, <1>2, <1>8
<1> QED  BY <1>1, <1>3, <1>7, <1>8, <1>9

(* pos lists the members of K in their order, each once.                    *)
InOrder(pos, K) ==
  /\ pos \in [1 .. Cardinality(K) -> K]
  /\ \A m, n \in 1 .. Cardinality(K) : m < n => pos[m] < pos[n]
  /\ \A i \in K : \E n \in 1 .. Cardinality(K) : pos[n] = i

(* The positions that are kept can be listed in order, and the items at     *)
(* them are the items of that listing.                                      *)
LEMMA PositionsInOrder ==
  ASSUME NEW K, IsFiniteSet(K), \A k \in K : k \in Int
  PROVE  /\ Cardinality(K) \in Nat
         /\ \E pos : /\ InOrder(pos, K)
                     /\ \A items : AtPositions(items, K) = [n \in 1 .. Cardinality(K) |-> items[pos[n]]]
<1> DEFINE pos == [n \in 1 .. Cardinality(K) |-> CHOOSE i \in K : Rank(K, i) = n]
<1>1. Cardinality(K) \in Nat
  BY RankOrders
<1>2. \A n \in 1 .. Cardinality(K) : pos[n] \in K /\ Rank(K, pos[n]) = n
  BY RankOrders
<1>3. \A i \in K : pos[Rank(K, i)] = i
  <2> SUFFICES ASSUME NEW i \in K, pos[Rank(K, i)] # i PROVE FALSE
    OBVIOUS
  <2> DEFINE j == pos[Rank(K, i)]
  <2>1. Rank(K, i) \in 1 .. Cardinality(K)  BY RankOrders
  <2>2. j \in K /\ Rank(K, j) = Rank(K, i)  BY <1>2, <2>1
  <2> HIDE DEF j
  <2>3. i \in Int /\ j \in Int /\ i # j  BY <2>2 DEF j
  <2>4. i < j \/ j < i  BY <2>3
  <2>5. Rank(K, i) < Rank(K, j) \/ Rank(K, j) < Rank(K, i)  BY <2>2, <2>4, RankOrders
  <2> QED  BY <2>1, <2>2, <2>5
<1>4. \A m, n \in 1 .. Cardinality(K) : m < n => pos[m] < pos[n]
  <2> SUFFICES ASSUME NEW m \in 1 .. Cardinality(K), NEW n \in 1 .. Cardinality(K), m < n
               PROVE  pos[m] < pos[n]
    OBVIOUS
  <2>1. pos[m] \in K /\ pos[n] \in K /\ Rank(K, pos[m]) = m /\ Rank(K, pos[n]) = n
    BY <1>2
  <2> HIDE DEF pos
  <2>2. pos[m] \in Int /\ pos[n] \in Int /\ m \in Nat /\ n \in Nat  BY <1>1, <2>1
  <2>3. CASE pos[n] < pos[m]
    <3>1. Rank(K, pos[n]) < Rank(K, pos[m])  BY <2>1, <2>3, RankOrders
    <3> QED  BY <2>1, <2>2, <3>1
  <2>4. CASE pos[n] = pos[m]
    BY <2>1, <2>2, <2>4
  <2> QED  BY <2>2, <2>3, <2>4
<1>5. pos \in [1 .. Cardinality(K) -> K]
  BY <1>2
<1>6. \A items : AtPositions(items, K) = [n \in 1 .. Cardinality(K) |-> items[pos[n]]]
  BY DEF AtPositions
<1>7. \A i \in K : \E n \in 1 .. Cardinality(K) : pos[n] = i
  BY <1>3, RankOrders
<1> HIDE DEF pos
<1>8. InOrder(pos, K)
  BY <1>4, <1>5, <1>7 DEF InOrder
<1> QED  BY <1>1, <1>6, <1>8

(* A list is a function on 1 up to its length.                              *)
LEMMA ListShape ==
  ASSUME NEW s, IsList(s)
  PROVE  /\ Len(s) \in Nat /\ DOMAIN s = 1 .. Len(s)
         /\ s = [i \in 1 .. Len(s) |-> s[i]]
         /\ \A i \in DOMAIN s : i \in Int
<1>1. Len(s) \in Nat /\ DOMAIN s = 1 .. Len(s)
  BY LenProperties DEF IsList
<1>2. s \in [1 .. Len(s) -> ToSet(s)]
  BY <1>1, LenProperties DEF IsList
<1> QED  BY <1>1, <1>2

(* A function on 1 .. n is a list of length n.                              *)
LEMMA MakeList ==
  ASSUME NEW n \in Nat, NEW s, s = [i \in 1 .. n |-> s[i]]
  PROVE  IsList(s) /\ Len(s) = n /\ DOMAIN s = 1 .. n
<1>1. s \in [1 .. n -> ToSet(s)]
  <2>1. DOMAIN s = 1 .. n  OBVIOUS
  <2>2. \A i \in 1 .. n : s[i] \in ToSet(s)  BY <2>1 DEF ToSet
  <2> QED  BY <2>2
<1>2. s \in Seq(ToSet(s))
  BY <1>1, SeqDef
<1>3. Len(s) \in Nat /\ 1 .. Len(s) = 1 .. n
  BY <1>1, <1>2, LenProperties
<1>4. Len(s) = n
  BY <1>3
<1> QED  BY <1>2, <1>3, <1>4 DEF IsList

(* Lists of the same length with the same items are equal.                  *)
LEMMA SameList ==
  ASSUME NEW s, NEW t, IsList(s), IsList(t), Len(s) = Len(t),
         \A i \in 1 .. Len(s) : s[i] = t[i]
  PROVE  s = t
<1>1. s = [i \in 1 .. Len(s) |-> s[i]] /\ t = [i \in 1 .. Len(t) |-> t[i]]
  BY ListShape
<1> QED  BY <1>1

(* The items of a concatenation are those of its parts, and nothing else.   *)
LEMMA ListConcat ==
  ASSUME NEW s, NEW t, IsList(s), IsList(t)
  PROVE  /\ IsList(s \o t) /\ Len(s \o t) = Len(s) + Len(t)
         /\ \A i \in 1 .. Len(s) : (s \o t)[i] = s[i]
         /\ \A i \in 1 .. Len(t) : (s \o t)[Len(s) + i] = t[i]
         /\ \A i \in 1 .. Len(s) + Len(t) :
              i \in 1 .. Len(s) \/ \E j \in 1 .. Len(t) : i = Len(s) + j
<1> DEFINE S == ToSet(s) \cup ToSet(t)
<1>1. Len(s) \in Nat /\ Len(t) \in Nat
  BY ListShape
<1>2. s \in Seq(S) /\ t \in Seq(S)
  <2>1. ToSet(s) \subseteq S /\ ToSet(t) \subseteq S  OBVIOUS
  <2> HIDE DEF S
  <2> QED  BY <2>1, SeqMonotonic DEF IsList
<1> HIDE DEF S
<1>3. /\ s \o t \in Seq(S) /\ Len(s \o t) = Len(s) + Len(t)
      /\ \A i \in 1 .. Len(s) + Len(t) :
            (s \o t)[i] = IF i <= Len(s) THEN s[i] ELSE t[i - Len(s)]
  BY <1>2, ConcatProperties
<1>4. DOMAIN (s \o t) = 1 .. Len(s) + Len(t) /\ s \o t \in [DOMAIN (s \o t) -> S]
  BY <1>3, LenProperties
<1>5. IsList(s \o t)
  <2>1. s \o t = [i \in 1 .. Len(s) + Len(t) |-> (s \o t)[i]]
    BY <1>4
  <2>2. Len(s) + Len(t) \in Nat  BY <1>1
  <2> QED  BY <2>1, <2>2, MakeList
<1>6. \A i \in 1 .. Len(s) : (s \o t)[i] = s[i]
  BY <1>1, <1>3
<1>7. ASSUME NEW i \in 1 .. Len(t) PROVE (s \o t)[Len(s) + i] = t[i]
  <2>1. Len(s) + i \in 1 .. Len(s) + Len(t) /\ ~ (Len(s) + i <= Len(s)) /\ Len(s) + i - Len(s) = i
    BY <1>1
  <2> QED  BY <1>3, <2>1
<1>8. ASSUME NEW i \in 1 .. Len(s) + Len(t)
      PROVE  i \in 1 .. Len(s) \/ \E j \in 1 .. Len(t) : i = Len(s) + j
  <2>1. CASE i <= Len(s)  BY <1>1, <2>1
  <2>2. CASE ~ (i <= Len(s))
    <3>1. i - Len(s) \in 1 .. Len(t) /\ i = Len(s) + (i - Len(s))  BY <1>1, <2>2
    <3> QED  BY <3>1
  <2> QED  BY <2>1, <2>2
<1> QED  BY <1>3, <1>5, <1>6, <1>7, <1>8

(* Appending adds one item at the end.                                      *)
LEMMA ListAppend ==
  ASSUME NEW s, NEW x, IsList(s)
  PROVE  /\ IsList(Append(s, x)) /\ Len(Append(s, x)) = Len(s) + 1
         /\ \A i \in 1 .. Len(s) : Append(s, x)[i] = s[i]
         /\ Append(s, x)[Len(s) + 1] = x
<1> DEFINE S == ToSet(s) \cup {x}
<1>1. Len(s) \in Nat
  BY ListShape
<1>2. s \in Seq(S)
  <2>1. ToSet(s) \subseteq S  OBVIOUS
  <2> HIDE DEF S
  <2> QED  BY <2>1, SeqMonotonic DEF IsList
<1>3. x \in S  OBVIOUS
<1> HIDE DEF S
<1>4. /\ Append(s, x) \in Seq(S) /\ Len(Append(s, x)) = Len(s) + 1
      /\ \A i \in 1 .. Len(s) : Append(s, x)[i] = s[i]
      /\ Append(s, x)[Len(s) + 1] = x
  BY <1>2, <1>3, AppendProperties
<1>5. Append(s, x) = [i \in 1 .. Len(s) + 1 |-> Append(s, x)[i]]
  BY <1>4, LenProperties
<1>6. Len(s) + 1 \in Nat
  BY <1>1
<1> QED  BY <1>4, <1>5, <1>6, MakeList

(* Removing an item moves those after it one place down.                    *)
LEMMA ListRemoveAt ==
  ASSUME NEW s, IsList(s), NEW i \in DOMAIN s
  PROVE  /\ IsList(RemoveAt(s, i)) /\ Len(RemoveAt(s, i)) = Len(s) - 1
         /\ \A j \in 1 .. Len(s) - 1 : RemoveAt(s, i)[j] = s[IF j < i THEN j ELSE j + 1]
<1>1. Len(s) \in Nat /\ i \in 1 .. Len(s) /\ DOMAIN s = 1 .. Len(s)
  BY ListShape
<1> DEFINE before == SubSeq(s, 1, i - 1)
           after == SubSeq(s, i + 1, Len(s))
<1>2. \A j \in 1 .. Len(s) : s[j] \in ToSet(s)
  BY <1>1 DEF ToSet
<1>3. /\ before \in Seq(ToSet(s)) /\ Len(before) = i - 1
      /\ \A j \in 1 .. i - 1 : before[j] = s[j]
  <2>1. \A j \in 1 .. (i - 1) : s[j] \in ToSet(s)
    BY <1>2, <1>1
  <2> QED  BY <1>1, <2>1, SubSeqProperties DEF IsList
<1>4. /\ after \in Seq(ToSet(s)) /\ Len(after) = Len(s) - i
      /\ \A j \in 1 .. Len(s) - i : after[j] = s[i + j]
  <2>1. \A j \in (i + 1) .. Len(s) : s[j] \in ToSet(s)
    BY <1>2, <1>1
  <2> QED  BY <1>1, <2>1, SubSeqProperties DEF IsList
<1>5. RemoveAt(s, i) = before \o after
  BY DEF RemoveAt
<1> HIDE DEF before, after
<1>6. IsList(before) /\ IsList(after)
  BY <1>1, <1>3, <1>4, LenProperties, MakeList
<1>7. /\ IsList(before \o after) /\ Len(before \o after) = Len(s) - 1
      /\ \A j \in 1 .. i - 1 : (before \o after)[j] = s[j]
      /\ \A j \in 1 .. Len(s) - i : (before \o after)[i - 1 + j] = s[i + j]
  <2>1. /\ IsList(before \o after) /\ Len(before \o after) = Len(before) + Len(after)
        /\ \A j \in 1 .. Len(before) : (before \o after)[j] = before[j]
        /\ \A j \in 1 .. Len(after) : (before \o after)[Len(before) + j] = after[j]
    BY <1>6, ListConcat
  <2>2. Len(before) = i - 1 /\ Len(after) = Len(s) - i /\ i - 1 + (Len(s) - i) = Len(s) - 1
    BY <1>1, <1>3, <1>4
  <2> QED  BY <1>3, <1>4, <2>1, <2>2
<1>8. ASSUME NEW j \in 1 .. Len(s) - 1
      PROVE  (before \o after)[j] = s[IF j < i THEN j ELSE j + 1]
  <2>1. CASE j < i
    BY <1>1, <1>7, <2>1
  <2>2. CASE ~ (j < i)
    <3>1. j - (i - 1) \in 1 .. Len(s) - i /\ i - 1 + (j - (i - 1)) = j /\ i + (j - (i - 1)) = j + 1
      BY <1>1, <2>2
    <3> QED  BY <1>7, <2>2, <3>1
  <2> QED  BY <2>1, <2>2
<1> QED  BY <1>5, <1>7, <1>8

(* Any positions of a list are a finite set of numbers.                     *)
LEMMA PositionsAreFinite ==
  ASSUME NEW s, IsList(s), NEW K \in SUBSET (DOMAIN s)
  PROVE  IsFiniteSet(K) /\ \A k \in K : k \in Int
<1>1. Len(s) \in Nat /\ DOMAIN s = 1 .. Len(s)
  BY ListShape
<1>2. IsFiniteSet(1 .. Len(s))
  BY <1>1, FS_Interval
<1> QED  BY <1>1, <1>2, FS_Subset

(* The items at some of a list's positions are a list of them in their      *)
(* order.                                                                   *)
LEMMA Selection ==
  ASSUME NEW s, IsList(s), NEW K \in SUBSET (DOMAIN s)
  PROVE  /\ IsList(AtPositions(s, K)) /\ Len(AtPositions(s, K)) = Cardinality(K)
         /\ DOMAIN AtPositions(s, K) = 1 .. Cardinality(K)
         /\ \E pos : /\ InOrder(pos, K)
                     /\ \A n \in 1 .. Cardinality(K) : AtPositions(s, K)[n] = s[pos[n]]
<1> DEFINE t == AtPositions(s, K)
<1>1. IsFiniteSet(K) /\ \A k \in K : k \in Int
  BY PositionsAreFinite
<1>2. Cardinality(K) \in Nat
  BY <1>1, PositionsInOrder
<1>3. PICK pos : /\ InOrder(pos, K)
                 /\ t = [n \in 1 .. Cardinality(K) |-> s[pos[n]]]
  BY <1>1, PositionsInOrder
<1> HIDE DEF t
<1>4. DOMAIN t = 1 .. Cardinality(K) /\ \A n \in DOMAIN t : t[n] = s[pos[n]]
  BY <1>3
<1>5. t = [n \in 1 .. Cardinality(K) |-> t[n]]
  BY <1>3
<1>6. IsList(t) /\ Len(t) = Cardinality(K)
  BY <1>2, <1>5, MakeList
<1> QED  BY <1>3, <1>4, <1>6 DEF t

(* The items at all the positions of a list are the list.                   *)
LEMMA SelectAll ==
  ASSUME NEW s, IsList(s)
  PROVE  AtPositions(s, DOMAIN s) = s
<1>1. Len(s) \in Nat /\ DOMAIN s = 1 .. Len(s)
  BY ListShape
<1>2. Cardinality(1 .. Len(s)) = Len(s)
  <2>1. Len(s) \in Int /\ ~ (1 > Len(s) /\ Len(s) # 0) /\ Len(s) - 1 + 1 = Len(s)
    BY <1>1
  <2> HIDE <1>1
  <2>2. Cardinality(1 .. Len(s)) = IF 1 > Len(s) THEN 0 ELSE Len(s) - 1 + 1
    BY <2>1, FS_Interval
  <2> QED  BY <2>1, <2>2
<1>3. ASSUME NEW i \in 1 .. Len(s) PROVE Rank(1 .. Len(s), i) = i
  <2>1. Len(s) \in Int /\ i \in Int /\ i <= Len(s) /\ 1 <= i
    BY <1>1
  <2>2. {j \in 1 .. Len(s) : j <= i} = 1 .. i
    BY <2>1
  <2>3. Cardinality(1 .. i) = i
    BY FS_Interval
  <2> QED  BY <2>2, <2>3 DEF Rank
<1>4. \A n \in 1 .. Len(s) : (CHOOSE i \in 1 .. Len(s) : Rank(1 .. Len(s), i) = n) = n
  BY <1>3
<1>5. AtPositions(s, DOMAIN s)
        = [n \in 1 .. Cardinality(1 .. Len(s)) |->
              s[CHOOSE i \in 1 .. Len(s) : Rank(1 .. Len(s), i) = n]]
  BY <1>1 DEF AtPositions
<1>6. AtPositions(s, DOMAIN s) = [n \in 1 .. Len(s) |-> s[n]]
  BY <1>2, <1>4, <1>5
<1> QED  BY <1>6, ListShape

(* Min of some positions of a list is the first of them.                    *)
LEMMA FirstPosition ==
  ASSUME NEW s, IsList(s), NEW K \in SUBSET (DOMAIN s), K # {}
  PROVE  /\ Min(K) \in K
         /\ \A k \in K : Min(K) <= k
<1>1. /\ IsFiniteSet(K) /\ \A k \in K : k \in Int
  BY PositionsAreFinite
<1>2. /\ Cardinality(K) \in Nat
      /\ \E i \in K : TRUE
      /\ \A i \in K : Rank(K, i) \in 1 .. Cardinality(K)
      /\ \A i, j \in K : i < j => Rank(K, i) < Rank(K, j)
      /\ \A n \in 1 .. Cardinality(K) : \E i \in K : Rank(K, i) = n
  BY <1>1, RankOrders
<1>3. 1 \in 1 .. Cardinality(K)
  BY <1>2
<1>4. PICK x \in K : Rank(K, x) = 1
  BY <1>2, <1>3
<1>5. \A k \in K : x <= k
  <2> SUFFICES ASSUME NEW k \in K, k < x PROVE FALSE
    BY <1>1
  <2>1. Rank(K, k) < 1 /\ Rank(K, k) \in 1 .. Cardinality(K)
    BY <1>2, <1>4
  <2> QED  BY <1>2, <2>1
<1> QED  BY <1>5 DEF Min

(* Max of some positions of a list is the last of them.                     *)
LEMMA LastPosition ==
  ASSUME NEW s, IsList(s), NEW K \in SUBSET (DOMAIN s), K # {}
  PROVE  /\ Max(K) \in K
         /\ \A k \in K : k <= Max(K)
<1>1. /\ IsFiniteSet(K) /\ \A k \in K : k \in Int
  BY PositionsAreFinite
<1>2. /\ Cardinality(K) \in Nat
      /\ \E i \in K : TRUE
      /\ \A i \in K : Rank(K, i) \in 1 .. Cardinality(K)
      /\ \A i, j \in K : i < j => Rank(K, i) < Rank(K, j)
      /\ \A n \in 1 .. Cardinality(K) : \E i \in K : Rank(K, i) = n
  BY <1>1, RankOrders
<1>3. Cardinality(K) \in 1 .. Cardinality(K)
  BY <1>2
<1>4. PICK x \in K : Rank(K, x) = Cardinality(K)
  BY <1>2, <1>3
<1>5. \A k \in K : k <= x
  <2> SUFFICES ASSUME NEW k \in K, x < k PROVE FALSE
    BY <1>1
  <2>1. Cardinality(K) < Rank(K, k) /\ Rank(K, k) \in 1 .. Cardinality(K)
    BY <1>2, <1>4
  <2> QED  BY <1>2, <2>1
<1> QED  BY <1>5 DEF Max

(***************************************************************************)
(* Keys: the first of each, and the two forms that must agree.              *)
(***************************************************************************)

(* pos tells where in items each item of t was: the first with its key,     *)
(* each key once, and no key of an item left out.                           *)
AreFirsts(pos, t, items, keys, none) ==
  /\ \A n \in DOMAIN t : /\ pos[n] \in DOMAIN items /\ t[n] = items[pos[n]]
                         /\ keys[pos[n]] # none
                         /\ \A j \in 1 .. pos[n] - 1 : keys[j] # keys[pos[n]]
  /\ \A m, n \in DOMAIN t : keys[pos[m]] = keys[pos[n]] => m = n
  /\ \A i \in DOMAIN items : keys[i] # none => \E n \in DOMAIN t : keys[pos[n]] = keys[i]

(* The list of the first items of each key is one.                          *)
LEMMA FirstsShape ==
  ASSUME NEW items, NEW keys, NEW none, IsList(items)
  PROVE  /\ IsList(Firsts(items, keys, none))
         /\ \E pos : AreFirsts(pos, Firsts(items, keys, none), items, keys, none)
<1> DEFINE K == {i \in DOMAIN items : keys[i] # none /\ \A j \in 1 .. i - 1 : keys[j] # keys[i]}
           t == AtPositions(items, K)
<1>1. Firsts(items, keys, none) = t
  BY DEF Firsts
<1>2. Len(items) \in Nat /\ DOMAIN items = 1 .. Len(items)
  BY ListShape
<1>3. K \in SUBSET (DOMAIN items)
  OBVIOUS
<1>4. \A i \in DOMAIN items : i \in K <=> keys[i] # none /\ \A j \in 1 .. i - 1 : keys[j] # keys[i]
  OBVIOUS
<1> HIDE DEF K
<1>5. IsList(t) /\ DOMAIN t = 1 .. Cardinality(K)
  BY <1>3, Selection
<1>6. PICK pos : /\ InOrder(pos, K)
                 /\ \A n \in 1 .. Cardinality(K) : t[n] = items[pos[n]]
  BY <1>3, Selection
<1>7. /\ \A n \in DOMAIN t : pos[n] \in K
      /\ \A m, n \in DOMAIN t : m < n => pos[m] < pos[n]
      /\ \A i \in K : \E n \in DOMAIN t : pos[n] = i
  BY <1>5, <1>6 DEF InOrder
<1>8. \A n \in DOMAIN t : t[n] = items[pos[n]]
  BY <1>5, <1>6
<1> HIDE DEF t
<1>9. \A n \in DOMAIN t : /\ pos[n] \in DOMAIN items /\ keys[pos[n]] # none
                          /\ \A j \in 1 .. pos[n] - 1 : keys[j] # keys[pos[n]]
  BY <1>3, <1>4, <1>7
<1>10. ASSUME NEW m \in DOMAIN t, NEW n \in DOMAIN t, keys[pos[m]] = keys[pos[n]] PROVE m = n
  <2>1. m \in Int /\ n \in Int
    BY <1>5, ListShape
  <2>2. ASSUME NEW a \in DOMAIN t, NEW b \in DOMAIN t, a < b PROVE keys[pos[a]] # keys[pos[b]]
    <3>1. pos[a] \in 1 .. Len(items) /\ pos[b] \in 1 .. Len(items) /\ pos[a] < pos[b]
      BY <1>2, <1>7, <1>9, <2>2
    <3>2. pos[a] \in 1 .. pos[b] - 1
      BY <1>2, <3>1
    <3> QED  BY <1>9, <3>2
  <2>3. ~ (m < n) /\ ~ (n < m)
    BY <1>10, <2>2
  <2> QED  BY <2>1, <2>3
<1>11. ASSUME NEW i \in DOMAIN items, keys[i] # none
       PROVE  \E n \in DOMAIN t : keys[pos[n]] = keys[i]
  <2> DEFINE same == {j \in DOMAIN items : keys[j] = keys[i]}
  <2>1. same \in SUBSET (DOMAIN items) /\ same # {}
    OBVIOUS
  <2>2. \A j \in DOMAIN items : keys[j] = keys[i] => j \in same
    OBVIOUS
  <2>3. \A j \in same : j \in DOMAIN items /\ keys[j] = keys[i]
    OBVIOUS
  <2> HIDE DEF same
  <2>4. Min(same) \in same /\ \A j \in same : Min(same) <= j
    BY <2>1, FirstPosition
  <2> DEFINE f == Min(same)
  <2>5. f \in DOMAIN items /\ keys[f] = keys[i]
    BY <2>3, <2>4
  <2>6. ASSUME NEW j \in 1 .. f - 1, keys[j] = keys[f] PROVE FALSE
    <3>1. f \in 1 .. Len(items)
      BY <1>2, <2>5
    <3>2. j \in 1 .. Len(items) /\ ~ (f <= j)
      BY <1>2, <3>1
    <3>3. j \in same
      BY <1>2, <2>2, <2>5, <2>6, <3>2
    <3> QED  BY <2>4, <3>2, <3>3
  <2>7. f \in K
    BY <1>4, <1>11, <2>5, <2>6
  <2>8. PICK n \in DOMAIN t : pos[n] = f
    BY <1>7, <2>7
  <2> QED  BY <2>5, <2>8
<1>12. AreFirsts(pos, t, items, keys, none)
  BY <1>8, <1>9, <1>10, <1>11 DEF AreFirsts
<1> QED  BY <1>1, <1>5, <1>12

(* A list whose items have different keys is the list of its firsts.        *)
LEMMA FirstsOfDistinct ==
  ASSUME NEW items, NEW keys, NEW none, IsList(items),
         \A i \in DOMAIN items : keys[i] # none,
         \A i, j \in DOMAIN items : keys[i] = keys[j] => i = j
  PROVE  Firsts(items, keys, none) = items
<1>1. Len(items) \in Nat /\ DOMAIN items = 1 .. Len(items)
  BY ListShape
<1>2. ASSUME NEW i \in DOMAIN items, NEW j \in 1 .. i - 1 PROVE keys[j] # keys[i]
  <2>1. j \in 1 .. Len(items) /\ j # i
    BY <1>1
  <2> QED  BY <1>1, <2>1
<1>3. {i \in DOMAIN items : keys[i] # none /\ \A j \in 1 .. i - 1 : keys[j] # keys[i]} = DOMAIN items
  BY <1>2
<1> QED  BY <1>3, SelectAll DEF Firsts

(* Normalised keys are the keys that are not empty, each once.              *)
LEMMA NormalKeys ==
  ASSUME NEW keys, IsList(keys)
  PROVE  /\ IsList(NormalizeKeys(keys))
         /\ IsInjective(NormalizeKeys(keys))
         /\ ToSet(NormalizeKeys(keys)) = ToSet(keys) \ {""}
<1> DEFINE t == NormalizeKeys(keys)
<1>1. t = Firsts(keys, keys, "")
  BY DEF NormalizeKeys
<1> HIDE DEF t
<1>2. IsList(t)
  BY <1>1, FirstsShape
<1>3. PICK pos : AreFirsts(pos, t, keys, keys, "")
  BY <1>1, FirstsShape
<1>4. IsInjective(t)
  BY <1>3 DEF AreFirsts, IsInjective
<1>5. ToSet(t) = ToSet(keys) \ {""}
  <2>1. ASSUME NEW n \in DOMAIN t PROVE t[n] \in ToSet(keys) \ {""}
    BY <1>3 DEF AreFirsts, ToSet
  <2>2. ASSUME NEW i \in DOMAIN keys, keys[i] # "" PROVE \E n \in DOMAIN t : t[n] = keys[i]
    <3>1. PICK n \in DOMAIN t : keys[pos[n]] = keys[i]
      BY <1>3, <2>2 DEF AreFirsts
    <3>2. t[n] = keys[pos[n]]
      BY <1>3 DEF AreFirsts
    <3> QED  BY <3>1, <3>2
  <2> QED  BY <2>1, <2>2, ZenonT(60) DEF ToSet
<1> QED  BY <1>2, <1>4, <1>5 DEF t

(* Normalised structured keys are the first records of each key.            *)
LEMMA NormalItems ==
  ASSUME NEW items, IsList(items)
  PROVE  /\ IsList(NormalizeAPIKeys(items))
         /\ \E pos : AreFirsts(pos, NormalizeAPIKeys(items), items, ApiKeysToStrings(items), "")
BY FirstsShape DEF NormalizeAPIKeys

(* Structured keys, none empty and none twice.                              *)
DistinctKeys(items) ==
  /\ IsList(items)
  /\ \A i \in DOMAIN items : items[i].key # ""
  /\ \A i, j \in DOMAIN items : items[i].key = items[j].key => i = j

(* The two forms of a configuration's keys are the same keys, each once.    *)
KeysInOrder(c) == DistinctKeys(c.apiKeys) /\ c.keys = ApiKeysToStrings(c.apiKeys)

(* The plain keys of a list of structured ones are one each, in order.      *)
LEMMA StringsShape ==
  ASSUME NEW items, IsList(items)
  PROVE  /\ IsList(ApiKeysToStrings(items)) /\ Len(ApiKeysToStrings(items)) = Len(items)
         /\ DOMAIN ApiKeysToStrings(items) = DOMAIN items
         /\ \A i \in DOMAIN items : ApiKeysToStrings(items)[i] = items[i].key
<1> DEFINE t == ApiKeysToStrings(items)
<1>1. Len(items) \in Nat /\ DOMAIN items = 1 .. Len(items)
  BY ListShape
<1>2. t = [i \in 1 .. Len(items) |-> items[i].key]
  BY <1>1 DEF ApiKeysToStrings
<1> HIDE DEF t
<1>3. t = [i \in 1 .. Len(items) |-> t[i]]
  BY <1>2
<1>4. IsList(t) /\ Len(t) = Len(items)
  BY <1>1, <1>3, MakeList
<1> QED  BY <1>1, <1>2, <1>4 DEF t

(* The empty tuple is a list.                                               *)
LEMMA EmptyIsList == IsList(<<>>) /\ Len(<<>>) = 0
<1>1. <<>> \in Seq(ToSet(<<>>))  OBVIOUS
<1> QED  BY <1>1 DEF IsList

(* Normalising structured keys leaves each key that is not empty, once.     *)
LEMMA NormalItemsAreDistinct ==
  ASSUME NEW items, IsList(items)
  PROVE  /\ DistinctKeys(NormalizeAPIKeys(items))
         /\ ToSet(ApiKeysToStrings(NormalizeAPIKeys(items))) = ToSet(ApiKeysToStrings(items)) \ {""}
<1> DEFINE t == NormalizeAPIKeys(items)
           keys == ApiKeysToStrings(items)
<1>1. DOMAIN keys = DOMAIN items /\ \A i \in DOMAIN items : keys[i] = items[i].key
  BY StringsShape
<1>2. IsList(t)
  BY NormalItems
<1>3. DOMAIN ApiKeysToStrings(t) = DOMAIN t /\ \A n \in DOMAIN t : ApiKeysToStrings(t)[n] = t[n].key
  BY <1>2, StringsShape
<1>4. PICK pos : AreFirsts(pos, t, items, keys, "")
  BY NormalItems
<1> HIDE DEF t, keys
<1>5. \A n \in DOMAIN t : t[n].key = keys[pos[n]] /\ pos[n] \in DOMAIN items /\ t[n].key # ""
  <2> TAKE n \in DOMAIN t
  <2>1. pos[n] \in DOMAIN items /\ t[n] = items[pos[n]] /\ keys[pos[n]] # ""
    BY <1>4 DEF AreFirsts
  <2> QED  BY <1>1, <2>1
<1>6. DistinctKeys(t)
  <2>1. \A i, j \in DOMAIN t : t[i].key = t[j].key => i = j
    BY <1>4, <1>5 DEF AreFirsts
  <2> QED  BY <1>2, <1>5, <2>1 DEF DistinctKeys
<1>7. ToSet(ApiKeysToStrings(t)) = ToSet(keys) \ {""}
  <2>1. ASSUME NEW n \in DOMAIN t PROVE ApiKeysToStrings(t)[n] \in ToSet(keys) \ {""}
    <3>1. ApiKeysToStrings(t)[n] = keys[pos[n]] /\ keys[pos[n]] # "" /\ pos[n] \in DOMAIN keys
      BY <1>1, <1>3, <1>5
    <3> QED  BY <3>1 DEF ToSet
  <2>2. ASSUME NEW i \in DOMAIN keys, keys[i] # ""
        PROVE  \E n \in DOMAIN ApiKeysToStrings(t) : ApiKeysToStrings(t)[n] = keys[i]
    <3>1. PICK n \in DOMAIN t : keys[pos[n]] = keys[i]
      BY <1>1, <1>4, <2>2 DEF AreFirsts
    <3>2. n \in DOMAIN ApiKeysToStrings(t) /\ ApiKeysToStrings(t)[n] = keys[pos[n]]
      BY <1>3, <1>5
    <3> QED  BY <3>1, <3>2
  <2>3. \A x \in ToSet(ApiKeysToStrings(t)) : x \in ToSet(keys) \ {""}
    BY <1>3, <2>1 DEF ToSet
  <2>4. \A x \in ToSet(keys) : x # "" => x \in ToSet(ApiKeysToStrings(t))
    BY <2>2 DEF ToSet
  <2> QED  BY <2>3, <2>4
<1> QED  BY <1>6, <1>7 DEF t, keys

(* Keys that are each there once are normal already, in both forms.         *)
LEMMA DistinctItemsStay ==
  ASSUME NEW items, DistinctKeys(items)
  PROVE  /\ NormalizeAPIKeys(items) = items
         /\ NormalizeKeys(ApiKeysToStrings(items)) = ApiKeysToStrings(items)
         /\ IsInjective(ApiKeysToStrings(items))
<1> DEFINE keys == ApiKeysToStrings(items)
<1>1. IsList(items) /\ IsList(keys) /\ DOMAIN keys = DOMAIN items
      /\ \A i \in DOMAIN items : keys[i] = items[i].key
  BY StringsShape DEF DistinctKeys
<1>2. /\ \A i \in DOMAIN items : keys[i] # ""
      /\ \A i, j \in DOMAIN items : keys[i] = keys[j] => i = j
  BY <1>1 DEF DistinctKeys
<1> HIDE DEF keys
<1>3. Firsts(items, keys, "") = items
  BY <1>1, <1>2, FirstsOfDistinct
<1>4. Firsts(keys, keys, "") = keys
  BY <1>1, <1>2, FirstsOfDistinct
<1>5. IsInjective(keys)
  BY <1>1, <1>2 DEF IsInjective
<1> QED  BY <1>3, <1>4, <1>5 DEF keys, NormalizeAPIKeys, NormalizeKeys

(* Structured keys made of plain ones have the normalised plain ones as     *)
(* keys.                                                                    *)
LEMMA FromStringsInOrder ==
  ASSUME NEW keys, NEW known, IsList(keys), IsList(known)
  PROVE  /\ DistinctKeys(ApiKeysFromStrings(keys, known))
         /\ ApiKeysToStrings(ApiKeysFromStrings(keys, known)) = NormalizeKeys(keys)
<1> DEFINE K == NormalizeKeys(keys)
           t == ApiKeysFromStrings(keys, known)
           Meta(k) == {i \in DOMAIN known : known[i].key = k}
<1>1. IsList(K) /\ IsInjective(K) /\ ToSet(K) = ToSet(keys) \ {""}
  BY NormalKeys
<1>2. t = [i \in DOMAIN K |-> IF Meta(K[i]) = {} THEN Plain(K[i]) ELSE known[Min(Meta(K[i]))]]
  BY DEF ApiKeysFromStrings
<1> HIDE DEF K, t
<1>3. Len(K) \in Nat /\ DOMAIN K = 1 .. Len(K)
  BY <1>1, ListShape
<1>4. ASSUME NEW k PROVE (IF Meta(k) = {} THEN Plain(k) ELSE known[Min(Meta(k))]).key = k
  <2>1. CASE Meta(k) = {}
    BY <2>1 DEF Plain
  <2>2. CASE Meta(k) # {}
    <3>1. Meta(k) \in SUBSET (DOMAIN known) /\ \A i \in Meta(k) : known[i].key = k
      OBVIOUS
    <3> HIDE DEF Meta
    <3>2. Min(Meta(k)) \in Meta(k)
      BY <2>2, <3>1, FirstPosition
    <3> QED  BY <2>2, <3>1, <3>2
  <2> QED  BY <2>1, <2>2
<1> HIDE DEF Meta
<1>5. DOMAIN t = DOMAIN K /\ \A i \in DOMAIN K : t[i].key = K[i]
  BY <1>2, <1>4
<1>6. t = [i \in 1 .. Len(K) |-> t[i]]
  BY <1>2, <1>3
<1>7. IsList(t)
  BY <1>3, <1>6, MakeList
<1>8. DistinctKeys(t)
  <2>1. \A i \in DOMAIN K : K[i] # ""
    BY <1>1 DEF ToSet
  <2> QED  BY <1>1, <1>5, <1>7, <2>1 DEF DistinctKeys, IsInjective
<1>9. ApiKeysToStrings(t) = K
  <2>1. ApiKeysToStrings(t) = [i \in DOMAIN K |-> K[i]]
    BY <1>5 DEF ApiKeysToStrings
  <2> QED  BY <1>1, <1>3, <2>1, ListShape
<1> QED  BY <1>8, <1>9 DEF t, K

(* Normalising a configuration's keys makes its two forms agree and changes *)
(* nothing else.                                                            *)
LEMMA NormalizeOrdersKeys ==
  ASSUME NEW c, IsConfig(c), IsList(c.keys), IsList(c.apiKeys)
  PROVE  /\ KeysInOrder(NormalizeCredentials(c))
         /\ \A f \in DOMAIN c \ {"keys", "apiKeys"} : NormalizeCredentials(c)[f] = c[f]
<1> DEFINE normal == NormalizeAPIKeys(c.apiKeys)
           items == IF normal # <<>> THEN normal ELSE ApiKeysFromStrings(c.keys, <<>>)
<1>1. DistinctKeys(items)
  BY NormalItemsAreDistinct, FromStringsInOrder, EmptyIsList
<1>2. NormalizeCredentials(c) = [c EXCEPT !.apiKeys = items, !.keys = ApiKeysToStrings(items)]
  BY DEF NormalizeCredentials
<1>3. "keys" \in DOMAIN c /\ "apiKeys" \in DOMAIN c
  BY DEF IsConfig, EmptyConfig
<1> HIDE DEF items
<1> QED  BY <1>1, <1>2, <1>3 DEF KeysInOrder

(* So does making the two forms agree after an edit.                        *)
LEMMA ReconcileKeepsLists ==
  ASSUME NEW c, NEW base, IsConfig(c), IsList(c.keys), IsList(c.apiKeys), IsList(base.apiKeys)
  PROVE  /\ KeysInOrder(ReconcileCredentials(c, base))
         /\ \A f \in DOMAIN c \ {"keys", "apiKeys"} : ReconcileCredentials(c, base)[f] = c[f]
<1> DEFINE keysChanged == NormalizeKeys(c.keys) # NormalizeKeys(base.keys)
           apiKeysChanged == NormalizeAPIKeys(c.apiKeys) # NormalizeAPIKeys(base.apiKeys)
           items == IF keysChanged /\ ~apiKeysChanged
                    THEN ApiKeysFromStrings(c.keys, NormalizeAPIKeys(base.apiKeys))
                    ELSE NormalizeAPIKeys(c.apiKeys)
<1>1. DistinctKeys(NormalizeAPIKeys(c.apiKeys)) /\ IsList(NormalizeAPIKeys(base.apiKeys))
  BY NormalItemsAreDistinct DEF DistinctKeys
<1>2. DistinctKeys(items)
  BY <1>1, FromStringsInOrder
<1>3. ReconcileCredentials(c, base) = [c EXCEPT !.apiKeys = items, !.keys = ApiKeysToStrings(items)]
  BY DEF ReconcileCredentials
<1>4. "keys" \in DOMAIN c /\ "apiKeys" \in DOMAIN c
  BY DEF IsConfig, EmptyConfig
<1> HIDE DEF items
<1> QED  BY <1>2, <1>3, <1>4 DEF KeysInOrder

(* A configuration whose keys agree is normal already.                      *)
LEMMA NormalizeIsStable ==
  ASSUME NEW c, c = [f \in DOMAIN EmptyConfig |-> c[f]], KeysInOrder(c)
  PROVE  NormalizeCredentials(c) = c
<1>1. DOMAIN c = DOMAIN EmptyConfig /\ "keys" \in DOMAIN c /\ "apiKeys" \in DOMAIN c
  BY DEF EmptyConfig
<1>2. NormalizeAPIKeys(c.apiKeys) = c.apiKeys /\ NormalizeKeys(c.keys) = c.keys
  BY DistinctItemsStay DEF KeysInOrder
<1>3. (IF NormalizeAPIKeys(c.apiKeys) # <<>> THEN NormalizeAPIKeys(c.apiKeys)
       ELSE ApiKeysFromStrings(c.keys, <<>>)) = c.apiKeys
  <2>1. CASE c.apiKeys # <<>>
    BY <1>2, <2>1
  <2>2. CASE c.apiKeys = <<>>
    <3>1. c.keys = <<>>
      BY <2>2 DEF KeysInOrder, ApiKeysToStrings
    <3>2. ApiKeysFromStrings(<<>>, <<>>) = <<>>
      <4>1. NormalizeKeys(<<>>) = <<>>  BY <1>2, <3>1
      <4> QED  BY <4>1 DEF ApiKeysFromStrings
    <3> QED  BY <1>2, <2>2, <3>1, <3>2
  <2> QED  BY <2>1, <2>2
<1>4. NormalizeCredentials(c) = [c EXCEPT !.apiKeys = c.apiKeys, !.keys = c.keys]
  BY <1>3 DEF NormalizeCredentials, KeysInOrder
<1> QED  BY <1>1, <1>4

(***************************************************************************)
(* Accounts: their stored form and their identifiers.                       *)
(***************************************************************************)

(* A list of accounts, each with an identifier, which is its own unless     *)
(* several had it when they were loaded.                                    *)
KeptAccounts(s) ==
  /\ IsList(s)
  /\ \A i \in DOMAIN s : IsAccount(s[i]) /\ Identifier(s[i]) # NoID
  /\ \A i, j \in DOMAIN s :
        Identifier(s[i]) = Identifier(s[j]) => i = j \/ Identifier(s[i]) \in twice

(* Normalising a mobile number twice is normalising it once.                *)
LEMMA MobileIsNormalOnce ==
  ASSUME NEW m
  PROVE  NormalizeMobileForStorage(NormalizeMobileForStorage(m)) = NormalizeMobileForStorage(m)
<1>1. CASE m.number = ""
  BY <1>1 DEF NormalizeMobileForStorage, NoMobile
<1>2. CASE m.number # ""
  BY <1>2 DEF NormalizeMobileForStorage, NoMobile
<1> QED  BY <1>1, <1>2

(* The stored form of an account names the same account.                    *)
LEMMA NormalAccounts ==
  ASSUME NEW a, IsAccount(a)
  PROVE  /\ IsAccount(NormalizeAccountForStorage(a))
         /\ Identifier(NormalizeAccountForStorage(a)) = Identifier(a)
         /\ NormalizeAccountForStorage(a).password = a.password
<1> DEFINE b == NormalizeAccountForStorage(a)
<1>1. b = [a EXCEPT !.mobile = NormalizeMobileForStorage(a.mobile)]
  BY DEF NormalizeAccountForStorage
<1>2. DOMAIN a = AccountFields /\ {"mobile", "email", "password"} \subseteq DOMAIN a
  BY DEF IsAccount, AccountFields
<1> HIDE DEF b
<1>3. /\ b.mobile = NormalizeMobileForStorage(a.mobile) /\ b.email = a.email
      /\ b.password = a.password
  BY <1>1, <1>2
<1>4. IsAccount(b)
  BY <1>1, <1>2 DEF IsAccount
<1>5. Identifier(b) = Identifier(a)
  BY <1>3, MobileIsNormalOnce DEF Identifier, MobileID
<1> QED  BY <1>3, <1>4, <1>5 DEF b

(* An account's identifier and aliases depend on its e-mail and mobile      *)
(* number only.                                                             *)
LEMMA SameName ==
  ASSUME NEW a, NEW b, a.email = b.email, a.mobile = b.mobile
  PROVE  Identifier(a) = Identifier(b) /\ AliasesOf(a) = AliasesOf(b)
BY DEF Identifier, AliasesOf

(* An account made of a request's has its name and password.                *)
LEMMA SentAccounts ==
  ASSUME NEW a
  PROVE  /\ IsAccount(ToAccount(a)) /\ Identifier(ToAccount(a)) = Identifier(a)
         /\ ToAccount(a).password = a.password
<1>1. IsAccount(ToAccount(a))
  BY DEF ToAccount, IsAccount, AccountFields
<1>2. ToAccount(a).mobile = NormalizeMobileForStorage(a.mobile) /\ ToAccount(a).email = a.email
      /\ ToAccount(a).password = a.password
  BY DEF ToAccount
<1>3. Identifier(ToAccount(a)) = Identifier(a)
  BY <1>2, MobileIsNormalOnce DEF Identifier, MobileID
<1> QED  BY <1>1, <1>2, <1>3

(* An account made for a captured token is named by the e-mail.             *)
LEMMA TokenAccounts ==
  ASSUME NEW email, NEW token
  PROVE  /\ IsAccount(TokenAccount(email, token))
         /\ email # "" => /\ Identifier(TokenAccount(email, token)) = EmailID(email)
                          /\ EmailID(email) # NoID
<1>1. IsAccount(TokenAccount(email, token))
  BY DEF TokenAccount, IsAccount, AccountFields
<1>2. TokenAccount(email, token).mobile = NoMobile /\ TokenAccount(email, token).email = email
  BY DEF TokenAccount
<1> QED  BY <1>1, <1>2 DEF Identifier, EmailID, NoID

(* An account that answers to another's identifier has it among its         *)
(* aliases.                                                                 *)
LEMMA NamesAreAliases ==
  ASSUME NEW a, NEW b, MatchesIdentifier(a, Identifier(b))
  PROVE  Identifier(b) \in AliasesOf(a)
<1> DEFINE id == Identifier(b)
<1>1. id # NoID
  BY DEF MatchesIdentifier
<1>2. CASE a.email # "" /\ a.email = id.email
  <2>1. id.email # ""  BY <1>2
  <2>2. id = EmailID(id.email)
    BY <2>1 DEF Identifier, EmailID, MobileID
  <2> QED  BY <1>1, <1>2, <2>2 DEF AliasesOf
<1>3. CASE MobileID(id.mobile) # NoID /\ MobileID(id.mobile) = MobileID(a.mobile)
  <2>1. id = MobileID(id.mobile)
    <3>1. CASE b.email # ""
      <4>1. id.mobile = NoMobile  BY <3>1 DEF Identifier, EmailID
      <4>2. MobileID(NoMobile) = NoID
        BY DEF MobileID, NoID, EmailID, NormalizeMobileForStorage, NoMobile
      <4> QED  BY <1>3, <4>1, <4>2
    <3>2. CASE b.email = ""
      <4>1. id = [email |-> "", mobile |-> NormalizeMobileForStorage(b.mobile)]
        BY <3>2 DEF Identifier, MobileID
      <4> HIDE DEF id
      <4>2. id.mobile = NormalizeMobileForStorage(b.mobile)
        BY <4>1
      <4>3. NormalizeMobileForStorage(id.mobile) = NormalizeMobileForStorage(b.mobile)
        BY <4>2, MobileIsNormalOnce
      <4> QED  BY <4>1, <4>3 DEF MobileID
    <3> QED  BY <3>1, <3>2
  <2> QED  BY <1>1, <1>3, <2>1 DEF AliasesOf
<1>4. CASE Identifier(a) = id
  BY <1>1, <1>4 DEF AliasesOf
<1> QED  BY <1>2, <1>3, <1>4 DEF MatchesIdentifier

(* An account answers to its own identifier.                                *)
LEMMA OwnNameMatches ==
  ASSUME NEW a, Identifier(a) # NoID
  PROVE  MatchesIdentifier(a, Identifier(a)) /\ Identifier(a) \in AliasesOf(a)
BY DEF MatchesIdentifier, AliasesOf

(* Accounts whose names stay are kept as well as they were.                 *)
LEMMA KeptWithoutNewNames ==
  ASSUME NEW s, NEW t, KeptAccounts(s), IsList(t), Len(t) = Len(s),
         \A i \in DOMAIN s : /\ IsAccount(t[i])
                             /\ t[i].email = s[i].email /\ t[i].mobile = s[i].mobile
  PROVE  /\ KeptAccounts(t) /\ DOMAIN t = DOMAIN s
         /\ \A i \in DOMAIN s : Identifier(t[i]) = Identifier(s[i])
<1>1. DOMAIN t = DOMAIN s
  BY ListShape DEF KeptAccounts
<1>2. \A i \in DOMAIN s : Identifier(t[i]) = Identifier(s[i])
  BY SameName
<1> QED  BY <1>1, <1>2 DEF KeptAccounts

(* Lists of kept accounts that share no identifier are kept together.       *)
LEMMA KeptConcat ==
  ASSUME NEW s, NEW t, KeptAccounts(s), KeptAccounts(t),
         \A i \in DOMAIN s, j \in DOMAIN t : Identifier(s[i]) # Identifier(t[j])
  PROVE  KeptAccounts(s \o t)
<1> DEFINE u == s \o t
<1>1. /\ IsList(u) /\ Len(u) = Len(s) + Len(t)
      /\ \A i \in 1 .. Len(s) : u[i] = s[i]
      /\ \A i \in 1 .. Len(t) : u[Len(s) + i] = t[i]
      /\ \A i \in 1 .. Len(s) + Len(t) :
            i \in 1 .. Len(s) \/ \E j \in 1 .. Len(t) : i = Len(s) + j
  BY ListConcat DEF KeptAccounts
<1> HIDE DEF u
<1>2. /\ DOMAIN s = 1 .. Len(s) /\ DOMAIN t = 1 .. Len(t) /\ DOMAIN u = 1 .. Len(s) + Len(t)
      /\ Len(s) \in Nat /\ Len(t) \in Nat
  BY <1>1, ListShape DEF KeptAccounts
<1>3. ASSUME NEW i \in DOMAIN u
      PROVE  \/ i \in DOMAIN s /\ u[i] = s[i]
             \/ \E j \in DOMAIN t : i = Len(s) + j /\ u[i] = t[j]
  BY <1>1, <1>2, SMTT(30)
<1>4. \A i \in DOMAIN u : IsAccount(u[i]) /\ Identifier(u[i]) # NoID
  BY <1>3 DEF KeptAccounts
<1>5. ASSUME NEW i \in DOMAIN u, NEW j \in DOMAIN u, Identifier(u[i]) = Identifier(u[j])
      PROVE  i = j \/ Identifier(u[i]) \in twice
  <2>1. CASE i \in DOMAIN s /\ u[i] = s[i]
    <3>1. CASE j \in DOMAIN s /\ u[j] = s[j]
      BY <1>5, <2>1, <3>1 DEF KeptAccounts
    <3>2. CASE \E k \in DOMAIN t : j = Len(s) + k /\ u[j] = t[k]
      BY <1>5, <2>1, <3>2
    <3> QED  BY <1>3, <3>1, <3>2
  <2>2. CASE \E k \in DOMAIN t : i = Len(s) + k /\ u[i] = t[k]
    <3>1. PICK k \in DOMAIN t : i = Len(s) + k /\ u[i] = t[k]  BY <2>2
    <3>2. CASE j \in DOMAIN s /\ u[j] = s[j]
      BY <1>5, <3>1, <3>2
    <3>3. CASE \E l \in DOMAIN t : j = Len(s) + l /\ u[j] = t[l]
      <4>1. PICK l \in DOMAIN t : j = Len(s) + l /\ u[j] = t[l]  BY <3>3
      <4>2. k = l \/ Identifier(u[i]) \in twice  BY <1>5, <3>1, <4>1 DEF KeptAccounts
      <4> QED  BY <3>1, <4>1, <4>2
    <3> QED  BY <1>3, <3>2, <3>3
  <2> QED  BY <1>3, <2>1, <2>2
<1> QED  BY <1>1, <1>4, <1>5 DEF KeptAccounts, u

(* The first accounts of each key are kept when no two keys share an        *)
(* identifier.                                                              *)
LEMMA KeptFirsts ==
  ASSUME NEW s, NEW keys, NEW none, IsList(s),
         \A i \in DOMAIN s : keys[i] # none => IsAccount(s[i]) /\ Identifier(s[i]) # NoID,
         \A i, j \in DOMAIN s :
            keys[i] # none /\ keys[j] # none /\ Identifier(s[i]) = Identifier(s[j]) => keys[i] = keys[j]
  PROVE  /\ KeptAccounts(Firsts(s, keys, none))
         /\ \A n \in DOMAIN Firsts(s, keys, none) : \E i \in DOMAIN s :
               keys[i] # none /\ Firsts(s, keys, none)[n] = s[i]
<1> DEFINE t == Firsts(s, keys, none)
<1>1. IsList(t) /\ \E pos : AreFirsts(pos, t, s, keys, none)
  BY FirstsShape
<1>2. PICK pos : AreFirsts(pos, t, s, keys, none)
  BY <1>1
<1> HIDE DEF t
<1>3. \A n \in DOMAIN t : pos[n] \in DOMAIN s /\ t[n] = s[pos[n]] /\ keys[pos[n]] # none
  BY <1>2 DEF AreFirsts
<1>4. \A m, n \in DOMAIN t : keys[pos[m]] = keys[pos[n]] => m = n
  BY <1>2 DEF AreFirsts
<1>5. \A n \in DOMAIN t : IsAccount(t[n]) /\ Identifier(t[n]) # NoID
  BY <1>3
<1>6. \A m, n \in DOMAIN t : Identifier(t[m]) = Identifier(t[n]) => m = n
  <2> SUFFICES ASSUME NEW m \in DOMAIN t, NEW n \in DOMAIN t, Identifier(t[m]) = Identifier(t[n])
               PROVE  m = n
    OBVIOUS
  <2>1. keys[pos[m]] = keys[pos[n]]
    BY <1>3
  <2> QED  BY <1>4, <2>1
<1>7. KeptAccounts(t)
  BY <1>1, <1>5, <1>6 DEF KeptAccounts, t
<1>8. \A n \in DOMAIN t : \E i \in DOMAIN s : keys[i] # none /\ t[n] = s[i]
  BY <1>3
<1> QED  BY <1>7, <1>8 DEF t

(* A configuration whose accounts have names, as loading gives it, and one  *)
(* as the store may hold it.                                                *)
IsNamed(c) ==
  /\ IsReadConfig(c)
  /\ \A i \in DOMAIN c.accounts : Identifier(c.accounts[i]) # NoID
IsStored(c) == IsReadConfig(c) /\ KeptAccounts(c.accounts)

(* A stored one has names, and what was loaded is stored while the names    *)
(* that are shared in it are the excepted ones.                             *)
LEMMA StoredIsNamed ==
  ASSUME NEW c
  PROVE  /\ IsStored(c) => IsNamed(c)
         /\ IsNamed(c) /\ twice = NamedTwice(c.accounts) => IsStored(c)
<1>1. IsStored(c) => IsNamed(c)
  BY DEF IsStored, IsNamed, KeptAccounts
<1>2. ASSUME IsNamed(c), twice = NamedTwice(c.accounts) PROVE IsStored(c)
  <2>1. \A i, j \in DOMAIN c.accounts :
           Identifier(c.accounts[i]) = Identifier(c.accounts[j]) =>
               i = j \/ Identifier(c.accounts[i]) \in twice
    BY <1>2 DEF NamedTwice
  <2> QED  BY <1>2, <2>1 DEF IsNamed, IsStored, IsReadConfig, KeptAccounts
<1> QED  BY <1>1, <1>2

(* The same accounts by name, in the same places.                           *)
SameAccounts(c, d) ==
  /\ Len(d.accounts) = Len(c.accounts)
  /\ \A i \in DOMAIN c.accounts : Identifier(d.accounts[i]) = Identifier(c.accounts[i])

(* The same limits for the pool.                                            *)
SameLimits(c, d) == d.per = c.per /\ d.global = c.global

(* A stored configuration with one field changed to a value fit for it is   *)
(* stored, and only that field is another.                                  *)
LEMMA ChangedField ==
  ASSUME NEW c, IsStored(c), NEW f \in DOMAIN EmptyConfig, NEW x,
         f \in {"keys", "apiKeys", "proxies"} => IsList(x),
         f \in {"per", "global"} => x \in Nat,
         f = "accounts" => KeptAccounts(x)
  PROVE  /\ IsStored([c EXCEPT ![f] = x])
         /\ [c EXCEPT ![f] = x][f] = x
         /\ \A g \in DOMAIN EmptyConfig \ {f} : [c EXCEPT ![f] = x][g] = c[g]
<1> DEFINE d == [c EXCEPT ![f] = x]
<1>1. DOMAIN c = DOMAIN EmptyConfig
  BY DEF IsStored, IsReadConfig
<1>2. d[f] = x /\ \A g \in DOMAIN EmptyConfig \ {f} : d[g] = c[g]
  BY <1>1
<1>3. d = [g \in DOMAIN EmptyConfig |-> d[g]]
  BY <1>1
<1> HIDE DEF d
<1>4. {"keys", "apiKeys", "proxies", "accounts", "per", "global"} \subseteq DOMAIN EmptyConfig
  BY DEF EmptyConfig
<1>5. IsList(d.keys) /\ IsList(d.apiKeys) /\ IsList(d.proxies) /\ d.per \in Nat /\ d.global \in Nat
  BY <1>2, <1>4 DEF IsStored, IsReadConfig
<1>6. KeptAccounts(d.accounts)
  BY <1>2, <1>4 DEF IsStored, IsReadConfig
<1>7. IsList(d.accounts) /\ \A i \in DOMAIN d.accounts : IsAccount(d.accounts[i])
  BY <1>6 DEF KeptAccounts
<1>8. IsStored(d)
  BY <1>3, <1>5, <1>6, <1>7 DEF IsStored, IsReadConfig
<1> QED  BY <1>2, <1>8 DEF d

(* Other kept accounts leave a stored configuration stored, with its        *)
(* limits.                                                                  *)
LEMMA ChangedAccounts ==
  ASSUME NEW c, IsStored(c), NEW x, KeptAccounts(x)
  PROVE  /\ IsStored([c EXCEPT !.accounts = x]) /\ SameLimits(c, [c EXCEPT !.accounts = x])
         /\ [c EXCEPT !.accounts = x].accounts = x
BY ChangedField DEF SameLimits, EmptyConfig

(* Another field than accounts and limits can change without touching       *)
(* those.                                                                   *)
LEMMA ChangedOther ==
  ASSUME NEW c, IsStored(c), NEW x, NEW f \in DOMAIN EmptyConfig \ {"accounts", "per", "global"},
         f \in {"keys", "apiKeys", "proxies"} => IsList(x)
  PROVE  /\ IsStored([c EXCEPT ![f] = x]) /\ SameLimits(c, [c EXCEPT ![f] = x])
         /\ SameAccounts(c, [c EXCEPT ![f] = x])
<1>1. /\ IsStored([c EXCEPT ![f] = x])
      /\ \A g \in DOMAIN EmptyConfig \ {f} : [c EXCEPT ![f] = x][g] = c[g]
  BY ChangedField
<1>2. {"per", "global", "accounts"} \subseteq DOMAIN EmptyConfig
  BY DEF EmptyConfig
<1> QED  BY <1>1, <1>2 DEF SameLimits, SameAccounts

(* Changing items of a list leaves a list of the same length.               *)
LEMMA ChangedLists ==
  ASSUME NEW s, IsList(s)
  PROVE  /\ \A i, x : IsList([s EXCEPT ![i] = x]) /\ Len([s EXCEPT ![i] = x]) = Len(s)
         /\ \A t : t = [i \in DOMAIN s |-> t[i]] => IsList(t) /\ Len(t) = Len(s)
<1>1. Len(s) \in Nat /\ DOMAIN s = 1 .. Len(s)
  BY ListShape
<1>2. ASSUME NEW t, t = [i \in DOMAIN s |-> t[i]] PROVE IsList(t) /\ Len(t) = Len(s)
  BY <1>1, <1>2, MakeList
<1>3. ASSUME NEW i, NEW x PROVE IsList([s EXCEPT ![i] = x]) /\ Len([s EXCEPT ![i] = x]) = Len(s)
  <2> DEFINE t == [s EXCEPT ![i] = x]
  <2>1. t = [j \in DOMAIN s |-> t[j]]
    OBVIOUS
  <2> HIDE DEF t
  <2>2. IsList(t) /\ Len(t) = Len(s)
    BY <1>2, <2>1
  <2> QED  BY <2>2 DEF t
<1> QED  BY <1>2, <1>3

(* Changing anything of an account but its e-mail and number changes no     *)
(* name.                                                                    *)
LEMMA ChangedAccountField ==
  ASSUME NEW s, KeptAccounts(s), NEW i, NEW f \in AccountFields \ {"email", "mobile"}, NEW x
  PROVE  /\ KeptAccounts([s EXCEPT ![i][f] = x])
         /\ Len([s EXCEPT ![i][f] = x]) = Len(s)
         /\ \A j \in DOMAIN s : Identifier([s EXCEPT ![i][f] = x][j]) = Identifier(s[j])
<1> DEFINE t == [s EXCEPT ![i][f] = x]
<1>1. IsList(s)  BY DEF KeptAccounts
<1>2. t = [j \in DOMAIN s |-> IF j = i THEN [s[j] EXCEPT ![f] = x] ELSE s[j]]
  <2>1. s = [j \in 1 .. Len(s) |-> s[j]]  BY <1>1, ListShape
  <2> QED  BY <2>1
<1> HIDE DEF t
<1>3. t = [j \in DOMAIN s |-> t[j]]
  BY <1>2
<1>4. IsList(t) /\ Len(t) = Len(s)
  BY <1>1, <1>3, ChangedLists
<1>5. ASSUME NEW j \in DOMAIN s
      PROVE  IsAccount(t[j]) /\ t[j].email = s[j].email /\ t[j].mobile = s[j].mobile
  <2>1. IsAccount(s[j]) /\ DOMAIN s[j] = AccountFields
    BY DEF KeptAccounts, IsAccount
  <2>2. t[j] = IF j = i THEN [s[j] EXCEPT ![f] = x] ELSE s[j]
    BY <1>2
  <2>3. f # "email" /\ f # "mobile" /\ "email" \in AccountFields /\ "mobile" \in AccountFields
    BY DEF AccountFields
  <2> QED  BY <2>1, <2>2, <2>3 DEF IsAccount
<1>6. KeptAccounts(t) /\ Len(t) = Len(s) /\ \A j \in DOMAIN s : Identifier(t[j]) = Identifier(s[j])
  BY <1>4, <1>5, KeptWithoutNewNames
<1> QED  BY <1>6 DEF t

(* A function on the positions of a list is a list of the same length.      *)
LEMMA MadeList ==
  ASSUME NEW s, IsList(s), NEW t, t = [i \in DOMAIN s |-> t[i]]
  PROVE  IsList(t) /\ Len(t) = Len(s) /\ DOMAIN t = DOMAIN s
BY ChangedLists

(* What normalizeAndDedupeAccounts makes of accounts is kept.               *)
LEMMA DedupedAreKept ==
  ASSUME NEW s, IsList(s), \A i \in DOMAIN s : IsAccount(s[i])
  PROVE  KeptAccounts(NormalizeAndDedupeAccounts(s))
<1> DEFINE normal == [i \in DOMAIN s |-> NormalizeAccountForStorage(s[i])]
           keys == [i \in DOMAIN normal |-> AccountDedupeKey(normal[i])]
<1>1. DOMAIN normal = DOMAIN s /\ \A i \in DOMAIN s : normal[i] = NormalizeAccountForStorage(s[i])
  OBVIOUS
<1>2. normal = [i \in DOMAIN s |-> normal[i]]
  OBVIOUS
<1>3. NormalizeAndDedupeAccounts(s) = Firsts(normal, keys, NoID)
  BY DEF NormalizeAndDedupeAccounts
<1>4. \A i \in DOMAIN normal : keys[i] = Identifier(normal[i])
  BY DEF AccountDedupeKey
<1> HIDE DEF normal, keys
<1>5. IsList(normal)
  BY <1>2, MadeList
<1>6. \A i \in DOMAIN normal : IsAccount(normal[i])
  BY <1>1, NormalAccounts
<1> QED  BY <1>3, <1>4, <1>5, <1>6, KeptFirsts

(* Kept accounts stay so with the new ones an import appends.               *)
LEMMA MergedAreKept ==
  ASSUME NEW s, NEW t, KeptAccounts(s), IsList(t), \A i \in DOMAIN t : IsAccount(t[i])
  PROVE  KeptAccounts(MergeAccounts(s, t))
<1> DEFINE taken == {AccountDedupeKey(NormalizeAccountForStorage(s[i])) : i \in DOMAIN s}
           NewKey(acc) == IF AccountDedupeKey(acc) \in taken THEN NoID ELSE AccountDedupeKey(acc)
           keys == [i \in DOMAIN t |-> NewKey(t[i])]
<1>1. MergeAccounts(s, t) = s \o Firsts(t, keys, NoID)
  BY DEF MergeAccounts
<1>2. \A i \in DOMAIN s : Identifier(s[i]) \in taken
  BY NormalAccounts DEF AccountDedupeKey, KeptAccounts
<1>3. \A i \in DOMAIN t : keys[i] = IF Identifier(t[i]) \in taken THEN NoID ELSE Identifier(t[i])
  BY DEF AccountDedupeKey
<1> HIDE DEF taken, keys
<1>4. /\ KeptAccounts(Firsts(t, keys, NoID))
      /\ \A n \in DOMAIN Firsts(t, keys, NoID) : \E i \in DOMAIN t :
            keys[i] # NoID /\ Firsts(t, keys, NoID)[n] = t[i]
  <2>1. \A i \in DOMAIN t : keys[i] # NoID => IsAccount(t[i]) /\ Identifier(t[i]) # NoID
    BY <1>3
  <2>2. \A i, j \in DOMAIN t :
           keys[i] # NoID /\ keys[j] # NoID /\ Identifier(t[i]) = Identifier(t[j]) => keys[i] = keys[j]
    BY <1>3
  <2> QED  BY <2>1, <2>2, KeptFirsts
<1>5. \A n \in DOMAIN Firsts(t, keys, NoID) : Identifier(Firsts(t, keys, NoID)[n]) \notin taken
  BY <1>3, <1>4
<1>6. \A i \in DOMAIN s, n \in DOMAIN Firsts(t, keys, NoID) :
        Identifier(s[i]) # Identifier(Firsts(t, keys, NoID)[n])
  BY <1>2, <1>5
<1> QED  BY <1>1, <1>4, <1>6, KeptConcat

(* The accounts of a request become a list of accounts.                     *)
LEMMA SentAreKept ==
  ASSUME NEW s, IsList(s)
  PROVE  /\ IsList([i \in DOMAIN s |-> ToAccount(s[i])])
         /\ DOMAIN [i \in DOMAIN s |-> ToAccount(s[i])] = DOMAIN s
         /\ \A i \in DOMAIN s : IsAccount([j \in DOMAIN s |-> ToAccount(s[j])][i])
<1> DEFINE t == [i \in DOMAIN s |-> ToAccount(s[i])]
<1>1. t = [i \in DOMAIN s |-> t[i]] /\ \A i \in DOMAIN s : t[i] = ToAccount(s[i])
  OBVIOUS
<1> HIDE DEF t
<1>2. IsList(t) /\ DOMAIN t = DOMAIN s /\ \A i \in DOMAIN s : IsAccount(t[i])
  BY <1>1, MadeList, SentAccounts
<1> QED  BY <1>2 DEF t

(* Kept accounts stay so when one is removed.                               *)
LEMMA RemovedAreKept ==
  ASSUME NEW s, KeptAccounts(s), NEW i \in DOMAIN s
  PROVE  KeptAccounts(RemoveAt(s, i))
<1> DEFINE t == RemoveAt(s, i)
           From(j) == IF j < i THEN j ELSE j + 1
<1>1. /\ IsList(t) /\ Len(t) = Len(s) - 1
      /\ \A j \in 1 .. Len(s) - 1 : t[j] = s[From(j)]
  BY ListRemoveAt DEF KeptAccounts
<1>2. DOMAIN s = 1 .. Len(s) /\ Len(s) \in Nat /\ DOMAIN t = 1 .. Len(s) - 1
  BY <1>1, ListShape DEF KeptAccounts
<1>3. /\ \A j \in DOMAIN t : From(j) \in DOMAIN s
      /\ \A j, k \in DOMAIN t : From(j) = From(k) => j = k
  BY <1>2
<1>4. \A j \in DOMAIN t : t[j] = s[From(j)]
  BY <1>1, <1>2
<1> HIDE DEF From, t
<1>5. KeptAccounts(t)
  BY <1>1, <1>3, <1>4 DEF KeptAccounts
<1> QED  BY <1>5 DEF t

(* The account an admin names is one of the configuration's.                *)
LEMMA FoundAccount ==
  ASSUME NEW c, IsList(c.accounts), NEW id, FirstMatch(c, id) # 0
  PROVE  FirstMatch(c, id) \in DOMAIN c.accounts
<1> DEFINE found == {i \in DOMAIN c.accounts : MatchesIdentifier(c.accounts[i], id)}
<1>1. FirstMatch(c, id) = Min(found) /\ found # {} /\ found \in SUBSET (DOMAIN c.accounts)
  BY DEF FirstMatch
<1> HIDE DEF found
<1>2. Min(found) \in found
  BY <1>1, FirstPosition
<1> QED  BY <1>1, <1>2

(* An account that addAccount accepts is appended, and no other has its     *)
(* identifier.                                                              *)
LEMMA AddedIsKept ==
  ASSUME NEW c, IsStored(c), NEW r, AddAccount(c, r) # Refuse
  PROVE  /\ AddAccount(c, r) = <<[c EXCEPT !.accounts = Append(c.accounts, ToAccount(r.account))]>>
         /\ KeptAccounts(Append(c.accounts, ToAccount(r.account)))
<1> DEFINE acc == ToAccount(r.account)
           s == c.accounts
           t == Append(s, acc)
<1>1. IsAccount(acc)
  BY SentAccounts
<1>2. /\ AddAccount(c, r) = <<[c EXCEPT !.accounts = t]>>
      /\ Identifier(acc) # NoID
      /\ \A i \in DOMAIN s :
            /\ acc.email # "" => s[i].email # acc.email
            /\ MobileID(acc.mobile) # NoID => MobileID(s[i].mobile) # MobileID(acc.mobile)
  <2> HIDE DEF acc
  <2> QED  BY DEF AddAccount, RefuseUnless, Accept, Refuse, acc
<1>3. KeptAccounts(s)
  BY DEF IsStored
<1> HIDE DEF acc, s
<1>4. \A i \in DOMAIN s : Identifier(s[i]) # Identifier(acc)
  <2> SUFFICES ASSUME NEW i \in DOMAIN s, Identifier(s[i]) = Identifier(acc) PROVE FALSE
    OBVIOUS
  <2>1. CASE acc.email # ""
    BY <1>2, <2>1 DEF Identifier, EmailID, MobileID
  <2>2. CASE acc.email = ""
    <3>1. Identifier(acc) = MobileID(acc.mobile)
      BY <2>2 DEF Identifier
    <3>2. s[i].email = ""
      BY <3>1 DEF Identifier, EmailID, MobileID
    <3>3. Identifier(s[i]) = MobileID(s[i].mobile)
      BY <3>2 DEF Identifier
    <3> QED  BY <1>2, <3>1, <3>3
  <2> QED  BY <2>1, <2>2
<1>5. /\ IsList(t) /\ Len(t) = Len(s) + 1
      /\ \A i \in 1 .. Len(s) : t[i] = s[i]
      /\ t[Len(s) + 1] = acc
  BY <1>3, ListAppend DEF KeptAccounts
<1>6. DOMAIN s = 1 .. Len(s) /\ Len(s) \in Nat /\ DOMAIN t = 1 .. Len(s) + 1
  BY <1>3, <1>5, ListShape DEF KeptAccounts
<1> HIDE DEF t
<1>7. \A i \in DOMAIN t : (i \in DOMAIN s /\ t[i] = s[i]) \/ (i = Len(s) + 1 /\ t[i] = acc)
  BY <1>5, <1>6
<1>8. KeptAccounts(t)
  BY <1>1, <1>2, <1>3, <1>4, <1>5, <1>7 DEF KeptAccounts
<1> QED  BY <1>2, <1>8 DEF t, s, acc

(***************************************************************************)
(* Edits keep a configuration that can be stored.                           *)
(***************************************************************************)

(* Captured tokens change accounts only and leave them kept.                *)
LEMMA TokensAreKept ==
  ASSUME NEW c, IsStored(c), NEW tokens, IsList(tokens)
  PROVE  \E x : KeptAccounts(x) /\ SetTokens(c, tokens) = [c EXCEPT !.accounts = x]
<1> DEFINE Owner(email) == {i \in DOMAIN c.accounts : c.accounts[i].email = email}
           For(email) == {n \in DOMAIN tokens : tokens[n].email = email}
           Token(email) == tokens[Max(For(email))].token
           known == [i \in DOMAIN c.accounts |->
                     LET acc == c.accounts[i]
                     IN  IF For(acc.email) # {} /\ i = Min(Owner(acc.email))
                         THEN [acc EXCEPT !.token = Token(acc.email), !.password = ""] ELSE acc]
           fresh == [n \in DOMAIN tokens |-> TokenAccount(tokens[n].email, Token(tokens[n].email))]
           new == [n \in DOMAIN tokens |-> IF Owner(tokens[n].email) = {} THEN tokens[n].email ELSE ""]
           s == c.accounts
           t == Firsts(fresh, new, "")
<1>1. SetTokens(c, tokens) = [c EXCEPT !.accounts = known \o t]
  BY DEF SetTokens
<1>2. KeptAccounts(s)
  BY DEF IsStored
<1>3. known = [i \in DOMAIN s |-> known[i]]
  OBVIOUS
<1>4. \A i \in DOMAIN s : known[i] = s[i]
         \/ \E token : known[i] = [s[i] EXCEPT !.token = token, !.password = ""]
  OBVIOUS
<1>5. fresh = [n \in DOMAIN tokens |-> fresh[n]] /\ DOMAIN fresh = DOMAIN tokens
  OBVIOUS
<1>6. \A n \in DOMAIN tokens : \E token : fresh[n] = TokenAccount(tokens[n].email, token)
  OBVIOUS
<1>7. \A n \in DOMAIN tokens : new[n] # "" =>
         /\ new[n] = tokens[n].email
         /\ \A i \in DOMAIN s : s[i].email # new[n]
  OBVIOUS
<1> HIDE DEF known, fresh, new, s
<1>8. IsList(known) /\ Len(known) = Len(s) /\ DOMAIN known = DOMAIN s
  BY <1>2, <1>3, MadeList DEF KeptAccounts
<1>9. \A i \in DOMAIN s : /\ IsAccount(known[i])
                          /\ known[i].email = s[i].email /\ known[i].mobile = s[i].mobile
  <2> TAKE i \in DOMAIN s
  <2>1. IsAccount(s[i]) /\ DOMAIN s[i] = AccountFields
    BY <1>2 DEF KeptAccounts, IsAccount
  <2>2. {"token", "password", "email", "mobile"} \subseteq AccountFields
    BY DEF AccountFields
  <2> QED  BY <1>4, <2>1, <2>2 DEF IsAccount
<1>10. KeptAccounts(known) /\ \A i \in DOMAIN s : Identifier(known[i]) = Identifier(s[i])
  BY <1>2, <1>8, <1>9, KeptWithoutNewNames
<1>11. IsList(fresh)
  BY <1>5, MadeList
<1>12. \A n \in DOMAIN tokens : new[n] # "" =>
          /\ IsAccount(fresh[n]) /\ Identifier(fresh[n]) = EmailID(new[n])
          /\ EmailID(new[n]) # NoID
  BY <1>6, <1>7, TokenAccounts
<1>13. \A m, n : EmailID(m) = EmailID(n) => m = n
  BY DEF EmailID
<1>14. /\ KeptAccounts(t)
       /\ \A n \in DOMAIN t : \E i \in DOMAIN fresh : new[i] # "" /\ t[n] = fresh[i]
  <2> DEFINE none == ""
  <2>1. \A i \in DOMAIN fresh : new[i] # none => IsAccount(fresh[i]) /\ Identifier(fresh[i]) # NoID
    BY <1>5, <1>12
  <2>2. ASSUME NEW i \in DOMAIN fresh, NEW j \in DOMAIN fresh, new[i] # none, new[j] # none,
               Identifier(fresh[i]) = Identifier(fresh[j])
        PROVE  new[i] = new[j]
    <3>1. EmailID(new[i]) = EmailID(new[j])
      BY <1>5, <1>12, <2>2
    <3> QED  BY <1>13, <3>1
  <2>3. \A i, j \in DOMAIN fresh :
           new[i] # none /\ new[j] # none /\ Identifier(fresh[i]) = Identifier(fresh[j]) => new[i] = new[j]
    BY <2>2
  <2> HIDE DEF none
  <2>4. /\ KeptAccounts(Firsts(fresh, new, none))
        /\ \A n \in DOMAIN Firsts(fresh, new, none) : \E i \in DOMAIN fresh :
              new[i] # none /\ Firsts(fresh, new, none)[n] = fresh[i]
    BY <1>11, <2>1, <2>3, KeptFirsts
  <2> QED  BY <2>4 DEF none
<1> HIDE DEF t
<1>15. \A i \in DOMAIN known, n \in DOMAIN t : Identifier(known[i]) # Identifier(t[n])
  <2> SUFFICES ASSUME NEW i \in DOMAIN s, NEW n \in DOMAIN t, Identifier(known[i]) = Identifier(t[n])
               PROVE  FALSE
    BY <1>8
  <2>1. PICK j \in DOMAIN tokens : new[j] # "" /\ t[n] = fresh[j]
    BY <1>5, <1>14
  <2>2. Identifier(s[i]) = EmailID(new[j])
    BY <1>10, <1>12, <2>1
  <2>3. s[i].email = new[j]
    BY <2>1, <2>2 DEF Identifier, EmailID, MobileID
  <2> QED  BY <1>7, <2>1, <2>3
<1> QED  BY <1>1, <1>10, <1>14, <1>15, KeptConcat

(* Accounts stay kept, by the same names, when only passwords change.       *)
LEMMA PasswordsChangeNoName ==
  ASSUME NEW s, KeptAccounts(s), NEW t,
         t = [i \in DOMAIN s |-> t[i]],
         \A i \in DOMAIN s : \E x : t[i] = [s[i] EXCEPT !.password = x]
  PROVE  KeptAccounts(t) /\ \A i \in DOMAIN s : Identifier(t[i]) = Identifier(s[i])
<1>1. IsList(t) /\ Len(t) = Len(s)
  BY MadeList DEF KeptAccounts
<1>2. ASSUME NEW i \in DOMAIN s
      PROVE  /\ IsAccount(t[i])
             /\ t[i].email = s[i].email /\ t[i].mobile = s[i].mobile
  <2>1. IsAccount(s[i]) /\ DOMAIN s[i] = AccountFields
    BY DEF KeptAccounts, IsAccount
  <2>2. {"token", "password", "email", "mobile"} \subseteq AccountFields
    BY DEF AccountFields
  <2> QED  BY <2>1, <2>2 DEF IsAccount
<1> QED  BY <1>1, <1>2, KeptWithoutNewNames

(* The accounts an editor sends, with the passwords it left out, are kept.  *)
LEMMA UpdateKeepsAccounts ==
  ASSUME NEW r, IsList(r.accounts), NEW old
  PROVE  LET sent == NormalizeAndDedupeAccounts([i \in DOMAIN r.accounts |-> ToAccount(r.accounts[i])])
         IN  KeptAccounts([i \in DOMAIN sent |->
                [sent[i] EXCEPT !.password = IF @ = "" THEN KnownPassword(old, sent[i]) ELSE @]])
<1> DEFINE came == [i \in DOMAIN r.accounts |-> ToAccount(r.accounts[i])]
           sent == NormalizeAndDedupeAccounts(came)
           kept == [i \in DOMAIN sent |->
                [sent[i] EXCEPT !.password = IF @ = "" THEN KnownPassword(old, sent[i]) ELSE @]]
<1>1. IsList(came) /\ \A i \in DOMAIN came : IsAccount(came[i])
  BY SentAreKept
<1> HIDE DEF came
<1>2. KeptAccounts(sent)
  BY <1>1, DedupedAreKept
<1>3. kept = [i \in DOMAIN sent |-> kept[i]]
  OBVIOUS
<1>4. \A i \in DOMAIN sent : \E x : kept[i] = [sent[i] EXCEPT !.password = x]
  OBVIOUS
<1> HIDE DEF sent, kept
<1>5. KeptAccounts(kept)
  BY <1>2, <1>3, <1>4, PasswordsChangeNoName
<1> QED  BY <1>5 DEF kept, sent, came

(* The steps of reading a configuration give one in the reader's form.      *)
LEMMA ReadersGiveReadable ==
  ASSUME NEW c, IsReadConfig(c)
  PROVE  /\ IsReadConfig(NormalizeCredentials(c)) /\ IsReadConfig(ClearAccountTokens(c))
         /\ IsReadConfig(DropInvalidAccounts(c)) /\ IsReadConfig(Unmarshal(c))
<1> DEFINE fields == {"keys", "apiKeys", "accounts", "proxies", "per", "global"}
<1>1. /\ DOMAIN c = DOMAIN EmptyConfig /\ IsConfig(c) /\ fields \subseteq DOMAIN c
      /\ DOMAIN EmptyConfig = {"keys", "apiKeys", "accounts", "proxies", "per", "global",
                               "password", "vercel", "sync"}
  BY DEF IsReadConfig, IsConfig, EmptyConfig
<1>2. IsReadConfig(NormalizeCredentials(c))
  <2> DEFINE d == NormalizeCredentials(c)
  <2>1. /\ KeysInOrder(d) /\ \A f \in DOMAIN c \ {"keys", "apiKeys"} : d[f] = c[f]
    BY <1>1, NormalizeOrdersKeys DEF IsReadConfig
  <2>2. d = [f \in DOMAIN EmptyConfig |-> d[f]]
    BY <1>1 DEF NormalizeCredentials
  <2> HIDE DEF d
  <2>3. IsList(d.apiKeys) /\ IsList(d.keys)
    BY <2>1, StringsShape DEF KeysInOrder, DistinctKeys
  <2>4. d.accounts = c.accounts /\ d.proxies = c.proxies /\ d.per = c.per /\ d.global = c.global
    BY <1>1, <2>1
  <2>5. IsReadConfig(d)
    BY <2>2, <2>3, <2>4 DEF IsReadConfig
  <2> QED  BY <2>5 DEF d
<1>3. ASSUME NEW x, IsList(x), \A i \in DOMAIN x : IsAccount(x[i])
      PROVE  IsReadConfig([c EXCEPT !.accounts = x])
  <2> DEFINE d == [c EXCEPT !.accounts = x]
  <2>1. d = [f \in DOMAIN EmptyConfig |-> d[f]] /\ d.accounts = x
        /\ \A f \in DOMAIN EmptyConfig \ {"accounts"} : d[f] = c[f]
    BY <1>1
  <2> HIDE DEF d
  <2>2. d.keys = c.keys /\ d.apiKeys = c.apiKeys /\ d.proxies = c.proxies
        /\ d.per = c.per /\ d.global = c.global
    BY <1>1, <2>1
  <2>3. IsReadConfig(d)
    BY <1>3, <2>1, <2>2 DEF IsReadConfig
  <2> QED  BY <2>3 DEF d
<1>4. IsReadConfig(ClearAccountTokens(c))
  <2> DEFINE x == [i \in DOMAIN c.accounts |-> [c.accounts[i] EXCEPT !.token = ""]]
  <2>1. ClearAccountTokens(c) = [c EXCEPT !.accounts = x]
    BY DEF ClearAccountTokens
  <2>2. x = [i \in DOMAIN c.accounts |-> x[i]] /\ DOMAIN x = DOMAIN c.accounts
    OBVIOUS
  <2>3. \A i \in DOMAIN x : IsAccount(x[i])
    BY DEF IsReadConfig, IsAccount
  <2> HIDE DEF x
  <2>4. IsList(x)
    BY <2>2, MadeList DEF IsReadConfig
  <2> QED  BY <1>3, <2>1, <2>3, <2>4
<1>5. IsReadConfig(DropInvalidAccounts(c))
  <2> DEFINE K == {i \in DOMAIN c.accounts : Identifier(c.accounts[i]) # NoID}
             x == AtPositions(c.accounts, K)
  <2>1. DropInvalidAccounts(c) = [c EXCEPT !.accounts = x]
    BY DEF DropInvalidAccounts
  <2>2. K \in SUBSET (DOMAIN c.accounts) /\ IsList(c.accounts)
    BY DEF IsReadConfig
  <2> HIDE DEF K
  <2>3. /\ IsList(x) /\ DOMAIN x = 1 .. Cardinality(K)
        /\ \E pos : InOrder(pos, K) /\ \A n \in 1 .. Cardinality(K) : x[n] = c.accounts[pos[n]]
    BY <2>2, Selection
  <2> HIDE DEF x
  <2>4. PICK pos : InOrder(pos, K) /\ \A n \in 1 .. Cardinality(K) : x[n] = c.accounts[pos[n]]
    BY <2>3
  <2>5. \A n \in 1 .. Cardinality(K) : pos[n] \in K
    BY <2>4 DEF InOrder
  <2>6. \A i \in DOMAIN x : IsAccount(x[i])
    BY <2>2, <2>3, <2>4, <2>5 DEF IsReadConfig
  <2> QED  BY <1>3, <2>1, <2>3, <2>6
<1> QED  BY <1>2, <1>4, <1>5 DEF Unmarshal

(* Merged keys are a list.                                                  *)
LEMMA MergedKeysAreList ==
  ASSUME NEW s, NEW t, IsList(s), IsList(t)
  PROVE  IsList(MergeAPIKeys(s, t))
<1> DEFINE items == NormalizeAPIKeys(s) \o t
           merged == NormalizeAPIKeys(items)
           x == [n \in DOMAIN merged |-> MergeAPIKeyRecord(items, merged[n])]
<1>1. MergeAPIKeys(s, t) = x
  BY DEF MergeAPIKeys
<1>2. IsList(items)
  BY NormalItems, ListConcat
<1> HIDE DEF items
<1>3. IsList(merged)
  BY <1>2, NormalItems
<1>4. x = [n \in DOMAIN merged |-> x[n]]
  OBVIOUS
<1> HIDE DEF merged, x
<1> QED  BY <1>1, <1>3, <1>4, MadeList

(* An import that is accepted leaves a stored configuration.                *)
LEMMA ImportKeepsStored ==
  ASSUME NEW c, IsStored(c), NEW r, IsReadConfig(r.config), ConfigImport(c, r) # Refuse
  PROVE  IsStored(ConfigImport(c, r)[1])
<1> DEFINE incoming == ClearAccountTokens(Unmarshal(r.config))
           sent == [i \in DOMAIN incoming.accounts |->
                       NormalizeAccountForStorage(incoming.accounts[i])]
           Pick(new, cur, none) == IF new # none THEN new ELSE cur
           next == IF r.replace
                THEN [incoming EXCEPT !.accounts = NormalizeAndDedupeAccounts(@), !.sync = c.sync]
                ELSE [c EXCEPT !.apiKeys = MergeAPIKeys(@, incoming.apiKeys),
                               !.accounts = MergeAccounts(@, sent),
                               !.vercel = Pick(incoming.vercel, @, ""),
                               !.password = Pick(incoming.password, @, ""),
                               !.per = Pick(incoming.per, @, 0),
                               !.global = Pick(incoming.global, @, 0)]
<1>1. ConfigImport(c, r)[1] = next
  <2>1. ConfigImport(c, r) = RefuseUnless(ValidateConfig(next), next)
    BY Zenon DEF ConfigImport
  <2> HIDE DEF next
  <2> QED  BY <2>1 DEF RefuseUnless, Accept, Refuse
<1>2. IsReadConfig(incoming)
  BY ReadersGiveReadable
<1> HIDE DEF incoming
<1>3. DOMAIN incoming = DOMAIN EmptyConfig /\ DOMAIN c = DOMAIN EmptyConfig
  BY <1>2 DEF IsReadConfig, IsStored
<1>4. DOMAIN EmptyConfig = {"keys", "apiKeys", "accounts", "proxies", "per", "global",
                            "password", "vercel", "sync"}
  BY DEF EmptyConfig
<1>5. CASE r.replace
  <2>1. KeptAccounts(NormalizeAndDedupeAccounts(incoming.accounts))
    BY <1>2, DedupedAreKept DEF IsReadConfig
  <2>2. /\ next = [f \in DOMAIN EmptyConfig |-> next[f]]
        /\ next.accounts = NormalizeAndDedupeAccounts(incoming.accounts)
        /\ next.keys = incoming.keys /\ next.apiKeys = incoming.apiKeys
        /\ next.proxies = incoming.proxies
        /\ next.per = incoming.per /\ next.global = incoming.global
    BY <1>3, <1>4, <1>5
  <2> HIDE DEF next
  <2>3. IsStored(next)
    BY <1>2, <2>1, <2>2 DEF IsStored, IsReadConfig, KeptAccounts
  <2> QED  BY <1>1, <2>3
<1>6. CASE ~r.replace
  <2>1. sent = [i \in DOMAIN incoming.accounts |-> sent[i]]
        /\ \A i \in DOMAIN incoming.accounts :
              sent[i] = NormalizeAccountForStorage(incoming.accounts[i])
    OBVIOUS
  <2>2. /\ next = [f \in DOMAIN EmptyConfig |-> next[f]]
        /\ next.accounts = MergeAccounts(c.accounts, sent)
        /\ next.keys = c.keys /\ next.apiKeys = MergeAPIKeys(c.apiKeys, incoming.apiKeys)
        /\ next.proxies = c.proxies
        /\ next.per \in {incoming.per, c.per} /\ next.global \in {incoming.global, c.global}
    <3> HIDE DEF sent
    <3> QED  BY <1>3, <1>4, <1>6
  <2> HIDE DEF next, sent
  <2>3. IsList(sent) /\ \A i \in DOMAIN sent : IsAccount(sent[i])
    <3>1. IsList(incoming.accounts) /\ \A i \in DOMAIN incoming.accounts : IsAccount(incoming.accounts[i])
      BY <1>2 DEF IsReadConfig
    <3>2. IsList(sent) /\ DOMAIN sent = DOMAIN incoming.accounts
      BY <2>1, <3>1, MadeList
    <3>3. \A i \in DOMAIN incoming.accounts : IsAccount(sent[i])
      BY <2>1, <3>1, NormalAccounts
    <3> QED  BY <3>2, <3>3
  <2>4. KeptAccounts(MergeAccounts(c.accounts, sent))
    BY <2>3, MergedAreKept DEF IsStored
  <2>5. IsList(MergeAPIKeys(c.apiKeys, incoming.apiKeys))
    BY <1>2, MergedKeysAreList DEF IsStored, IsReadConfig
  <2>6. IsStored(next)
    BY <1>2, <2>2, <2>4, <2>5 DEF IsStored, IsReadConfig, KeptAccounts
  <2> QED  BY <1>1, <2>6
<1> QED  BY <1>5, <1>6

(* What an edit of c to d must keep: d is stored; the accounts are the same *)
(* by name unless the edit resets the pool, and the limits unless it        *)
(* refreshes it.                                                            *)
EditKeeps(c, op, d) ==
  /\ IsStored(d)
  /\ ~ResetsPool(op) => SameAccounts(c, d)
  /\ AfterEdit(op) = "done" => SameLimits(c, d)

(* Neither the accounts by name nor the limits are others.                  *)
Unmoved(c, d) == SameLimits(c, d) /\ SameAccounts(c, d)

(* New limits leave a stored configuration stored, with its accounts.       *)
LEMMA ChangedLimits ==
  ASSUME NEW c, IsStored(c), NEW x \in Nat
  PROVE  /\ IsStored([c EXCEPT !.per = x]) /\ [c EXCEPT !.per = x].accounts = c.accounts
         /\ IsStored([c EXCEPT !.global = x]) /\ [c EXCEPT !.global = x].accounts = c.accounts
<1>1. IsStored([c EXCEPT !.per = x]) /\ [c EXCEPT !.per = x].accounts = c.accounts
  BY ChangedField DEF EmptyConfig
<1>2. IsStored([c EXCEPT !.global = x]) /\ [c EXCEPT !.global = x].accounts = c.accounts
  BY ChangedField DEF EmptyConfig
<1> QED  BY <1>1, <1>2

(* Every edit of the admin handlers leaves a stored configuration, and one  *)
(* that neither resets nor refreshes the pool changes nothing the pool has  *)
(* of it.                                                                   *)
LEMMA EditsKeepStored ==
  ASSUME NEW c, IsStored(c), NEW old, NEW r \in Requests, r.op \in EditOps,
         Mutate(c, r, old) # Refuse
  PROVE  EditKeeps(c, r.op, Mutate(c, r, old)[1])
<1> SUFFICES ASSUME NEW next, next = Mutate(c, r, old) PROVE EditKeeps(c, r.op, next[1])
  OBVIOUS
<1> USE DEF Accept, Refuse, RefuseUnless, ResetsPool, AfterEdit, EditKeeps
<1>1. /\ DOMAIN c = DOMAIN EmptyConfig /\ IsList(c.keys) /\ IsList(c.apiKeys)
      /\ IsList(c.accounts) /\ IsList(c.proxies) /\ KeptAccounts(c.accounts)
      /\ {"keys", "apiKeys", "proxies", "password"} \subseteq DOMAIN EmptyConfig \ {"accounts", "per", "global"}
  BY DEF IsStored, IsReadConfig, EmptyConfig
<1>2. /\ \A x : IsList(x) => IsStored([c EXCEPT !.apiKeys = x]) /\ Unmoved(c, [c EXCEPT !.apiKeys = x])
      /\ \A x : IsList(x) => IsStored([c EXCEPT !.proxies = x]) /\ Unmoved(c, [c EXCEPT !.proxies = x])
      /\ \A x : IsStored([c EXCEPT !.password = x]) /\ Unmoved(c, [c EXCEPT !.password = x])
  <2>1. ASSUME NEW x, IsList(x)
        PROVE  IsStored([c EXCEPT !.apiKeys = x]) /\ Unmoved(c, [c EXCEPT !.apiKeys = x])
    BY <1>1, <2>1, ChangedOther DEF Unmoved
  <2>2. ASSUME NEW x, IsList(x)
        PROVE  IsStored([c EXCEPT !.proxies = x]) /\ Unmoved(c, [c EXCEPT !.proxies = x])
    BY <1>1, <2>2, ChangedOther DEF Unmoved
  <2>3. ASSUME NEW x
        PROVE  IsStored([c EXCEPT !.password = x]) /\ Unmoved(c, [c EXCEPT !.password = x])
    BY <1>1, <2>3, ChangedOther DEF Unmoved
  <2> QED  BY <2>1, <2>2, <2>3
<1>3. ASSUME NEW d, IsStored(d), Unmoved(c, d), next[1] = d PROVE EditKeeps(c, r.op, next[1])
  BY <1>3 DEF Unmoved
<1>4. ASSUME NEW i, NEW f \in AccountFields \ {"email", "mobile"}, NEW x
      PROVE  LET d == [c EXCEPT !.accounts = [c.accounts EXCEPT ![i][f] = x]]
             IN  IsStored(d) /\ Unmoved(c, d)
  <2> DEFINE a == [c.accounts EXCEPT ![i][f] = x]
             d == [c EXCEPT !.accounts = a]
  <2>1. /\ KeptAccounts(a) /\ Len(a) = Len(c.accounts)
        /\ \A j \in DOMAIN c.accounts : Identifier(a[j]) = Identifier(c.accounts[j])
    BY <1>1, ChangedAccountField, SMTT(30)
  <2> HIDE DEF a
  <2>2. IsStored(d) /\ SameLimits(c, d) /\ d.accounts = a
    BY <2>1, ChangedAccounts
  <2> HIDE DEF d
  <2>3. SameAccounts(c, d)
    BY <2>1, <2>2 DEF SameAccounts
  <2> QED  BY <2>2, <2>3 DEF d, a, Unmoved
<1>5. CASE r.op = "addKey"
  <2>1. next = AddKey(c, r)  BY <1>5 DEF Mutate
  <2>2. next = <<[c EXCEPT !.apiKeys = Append(c.apiKeys, [key |-> r.key, name |-> r.name])]>>
    BY <2>1 DEF AddKey
  <2>3. IsList(Append(c.apiKeys, [key |-> r.key, name |-> r.name]))
    BY <1>1, ListAppend
  <2> DEFINE x == Append(c.apiKeys, [key |-> r.key, name |-> r.name])
             d == [c EXCEPT !.apiKeys = x]
  <2>4. next[1] = d
    BY <2>2
  <2> HIDE DEF x
  <2>5. IsStored(d) /\ Unmoved(c, d)
    BY <1>2, <2>3, Zenon DEF x
  <2> HIDE DEF d
  <2> QED  BY <1>3, <2>4, <2>5
<1>6. CASE r.op = "updateKey"
  <2>1. next = UpdateKey(c, r)  BY <1>6 DEF Mutate
  <2>2. PICK i : next = <<[c EXCEPT !.apiKeys[i].name = r.name]>>
    BY <2>1 DEF UpdateKey
  <2> DEFINE x == [c.apiKeys EXCEPT ![i].name = r.name]
  <2>3. next = <<[c EXCEPT !.apiKeys = x]>>
    BY <2>2
  <2>4. x = [j \in DOMAIN c.apiKeys |-> x[j]]
    OBVIOUS
  <2> HIDE DEF x
  <2>5. IsList(x)
    BY <1>1, <2>4, MadeList
  <2> DEFINE d == [c EXCEPT !.apiKeys = x]
  <2>6. next[1] = d
    BY <2>3
  <2>7. IsStored(d) /\ Unmoved(c, d)
    BY <1>2, <2>5, Zenon
  <2> HIDE DEF d
  <2> QED  BY <1>3, <2>6, <2>7
<1>7. CASE r.op = "deleteKey"
  <2>1. next = DeleteKey(c, r)  BY <1>7 DEF Mutate
  <2> DEFINE i == KeyIndex(c, r.key)
             found == {j \in DOMAIN c.apiKeys : c.apiKeys[j].key = r.key}
  <2>2. next = <<[c EXCEPT !.apiKeys = RemoveAt(c.apiKeys, i)]>> /\ i # 0
    BY <2>1 DEF DeleteKey
  <2>3. i = Min(found) /\ found # {} /\ found \in SUBSET (DOMAIN c.apiKeys)
    BY <2>2 DEF KeyIndex
  <2> HIDE DEF found, i
  <2>4. i \in DOMAIN c.apiKeys
    BY <1>1, <2>3, FirstPosition
  <2>5. IsList(RemoveAt(c.apiKeys, i))
    BY <1>1, <2>4, ListRemoveAt
  <2> DEFINE d == [c EXCEPT !.apiKeys = RemoveAt(c.apiKeys, i)]
  <2>6. next[1] = d
    BY <2>2
  <2>7. IsStored(d) /\ Unmoved(c, d)
    BY <1>2, <2>5, Zenon
  <2> HIDE DEF d
  <2> QED  BY <1>3, <2>6, <2>7
<1>8. CASE r.op = "updateConfig"
  <2>1. next = UpdateConfig(c, r, old)  BY <1>8 DEF Mutate
  <2> DEFINE sent == NormalizeAndDedupeAccounts([i \in DOMAIN r.accounts |-> ToAccount(r.accounts[i])])
             kept == [i \in DOMAIN sent |->
                [sent[i] EXCEPT !.password = IF @ = "" THEN KnownPassword(old, sent[i]) ELSE @]]
             x == IF r.form = "structured" THEN NormalizeAPIKeys(r.structured) ELSE c.apiKeys
             y == IF r.form = "legacy" THEN r.keys ELSE c.keys
             z == IF r.form = "accounts" THEN kept ELSE c.accounts
  <2>2. next = <<[c EXCEPT !.apiKeys = x, !.keys = y, !.accounts = z]>>
    <3> HIDE DEF kept
    <3>1. next = <<[c EXCEPT !.apiKeys = IF r.form = "structured" THEN NormalizeAPIKeys(r.structured) ELSE @,
                             !.keys = IF r.form = "legacy" THEN r.keys ELSE @,
                             !.accounts = IF r.form = "accounts" THEN kept ELSE @]>>
      BY <2>1, Zenon DEF UpdateConfig, kept
    <3> QED  BY <3>1
  <2>3. IsList(r.keys) /\ IsList(r.structured) /\ IsList(r.accounts)
    BY <1>8, InputsAssumption
  <2>4. IsList(x) /\ IsList(y)
    BY <1>1, <2>3, NormalItems
  <2>5. KeptAccounts(z)
    BY <1>1, <2>3, UpdateKeepsAccounts
  <2> HIDE DEF sent, kept, x, y, z
  <2>6. IsStored([c EXCEPT !.apiKeys = x])
    BY <1>2, <2>4, Zenon
  <2> DEFINE c1 == [c EXCEPT !.apiKeys = x]
             c2 == [c1 EXCEPT !.keys = y]
  <2>7. "keys" \in DOMAIN EmptyConfig \ {"accounts", "per", "global"}
    BY <1>1
  <2>8. [c EXCEPT !.apiKeys = x, !.keys = y, !.accounts = z] = [c2 EXCEPT !.accounts = z]
    OBVIOUS
  <2> HIDE DEF c1
  <2>9. IsStored(c2)
    BY <2>4, <2>6, <2>7, ChangedOther DEF c1
  <2> HIDE DEF c2
  <2>10. IsStored([c2 EXCEPT !.accounts = z])
    BY <2>5, <2>9, ChangedAccounts
  <2> QED  BY <1>8, <2>2, <2>8, <2>10
<1>9. CASE r.op = "batchImport"
  <2>1. next = BatchImport(c, r)  BY <1>9 DEF Mutate
  <2> DEFINE sent == [i \in DOMAIN r.accounts |-> ToAccount(r.accounts[i])]
             plain == [i \in DOMAIN r.keys |-> Plain(r.keys[i])]
             x == MergeAPIKeys(MergeAPIKeys(c.apiKeys, r.structured), plain)
             z == MergeAccounts(c.accounts, sent)
  <2>2. next = <<[c EXCEPT !.apiKeys = x, !.accounts = z]>>
    BY <2>1 DEF BatchImport
  <2>3. IsList(r.keys) /\ IsList(r.structured) /\ IsList(r.accounts)
    BY <1>9, InputsAssumption
  <2>4. KeptAccounts(z)
    BY <1>1, <2>3, SentAreKept, MergedAreKept
  <2>5. plain = [i \in DOMAIN r.keys |-> plain[i]]
    OBVIOUS
  <2> HIDE DEF plain, sent
  <2>6. IsList(plain)
    BY <2>3, <2>5, MadeList
  <2>7. IsList(x)
    BY <1>1, <2>3, <2>6, MergedKeysAreList
  <2> DEFINE c1 == [c EXCEPT !.apiKeys = x]
  <2> HIDE DEF x, z
  <2>8. IsStored(c1)
    BY <1>2, <2>7, Zenon
  <2>9. [c EXCEPT !.apiKeys = x, !.accounts = z] = [c1 EXCEPT !.accounts = z]
    OBVIOUS
  <2> HIDE DEF c1
  <2>10. IsStored([c1 EXCEPT !.accounts = z])
    BY <2>4, <2>8, ChangedAccounts
  <2> QED  BY <1>9, <2>2, <2>9, <2>10
<1>10. CASE r.op = "configImport"
  <2>1. next = ConfigImport(c, r)  BY <1>10 DEF Mutate
  <2>2. IsReadConfig(r.config)  BY <1>10, InputsAssumption
  <2>3. IsStored(next[1])
    BY <2>1, <2>2, ImportKeepsStored
  <2> QED  BY <1>10, <2>3
<1>11. CASE r.op = "addAccount"
  <2>1. next = AddAccount(c, r)  BY <1>11 DEF Mutate
  <2> DEFINE x == Append(c.accounts, ToAccount(r.account))
  <2>2. next = <<[c EXCEPT !.accounts = x]>> /\ KeptAccounts(x)
    BY <2>1, AddedIsKept
  <2> HIDE DEF x
  <2>3. next[1] = [c EXCEPT !.accounts = x]
    BY <2>2
  <2>4. IsStored(next[1])
    BY <2>2, <2>3, ChangedAccounts
  <2> QED  BY <1>11, <2>4
<1>12. CASE r.op = "updateAccount"
  <2>1. next = UpdateAccount(c, r)  BY <1>12 DEF Mutate
  <2>2. PICK i : next = <<[c EXCEPT !.accounts[i].name = r.name]>>
    BY <2>1 DEF UpdateAccount
  <2>3. next[1] = [c EXCEPT !.accounts = [c.accounts EXCEPT ![i].name = r.name]]
    BY <2>2
  <2>4. "name" \in AccountFields \ {"email", "mobile"}
    BY DEF AccountFields
  <2> DEFINE a == [c.accounts EXCEPT ![i]["name"] = r.name]
             d == [c EXCEPT !.accounts = a]
  <2>5. next[1] = d
    BY <2>3
  <2>6. IsStored(d) /\ Unmoved(c, d)
    BY <1>4, <2>4
  <2> HIDE DEF d
  <2> QED  BY <1>3, <2>5, <2>6
<1>13. CASE r.op = "deleteAccount"
  <2>1. next = DeleteAccount(c, r)  BY <1>13 DEF Mutate
  <2> DEFINE i == FirstMatch(c, r.id)
  <2>2. next = <<[c EXCEPT !.accounts = RemoveAt(c.accounts, i)]>> /\ i # 0
    BY <2>1 DEF DeleteAccount
  <2>3. KeptAccounts(RemoveAt(c.accounts, i))
    BY <1>1, <2>2, FoundAccount, RemovedAreKept
  <2> HIDE DEF i
  <2>4. next[1] = [c EXCEPT !.accounts = RemoveAt(c.accounts, i)]
    BY <2>2
  <2>5. IsStored(next[1])
    BY <2>3, <2>4, ChangedAccounts
  <2> QED  BY <1>13, <2>5
<1>14. CASE r.op = "captureToken"
  <2>1. next = CaptureToken(c, r)  BY <1>14 DEF Mutate
  <2> DEFINE tokens == <<[email |-> r.email, token |-> r.token]>>
  <2>2. next[1] = SetTokens(c, tokens)
    BY <2>1 DEF CaptureToken
  <2>3. IsList(tokens)
    BY DEF IsList, ToSet
  <2> HIDE DEF tokens
  <2>4. IsStored(next[1])
    BY <2>2, <2>3, TokensAreKept, ChangedAccounts
  <2> QED  BY <1>14, <2>4
<1>15. CASE r.op = "batchUpdateTokens"
  <2>1. next = BatchUpdateTokens(c, r)  BY <1>15 DEF Mutate
  <2>2. next[1] = SetTokens(c, r.tokens) /\ IsList(r.tokens)
    BY <1>15, <2>1, InputsAssumption DEF BatchUpdateTokens
  <2>3. IsStored(next[1])
    BY <2>2, TokensAreKept, ChangedAccounts
  <2> QED  BY <1>15, <2>3
<1>16. CASE r.op = "addProxy"
  <2>1. next = AddProxy(c, r)  BY <1>16 DEF Mutate
  <2>2. next = <<[c EXCEPT !.proxies = Append(c.proxies, r.proxy)]>>
    BY <2>1 DEF AddProxy
  <2>3. IsList(Append(c.proxies, r.proxy))
    BY <1>1, ListAppend
  <2> DEFINE d == [c EXCEPT !.proxies = Append(c.proxies, r.proxy)]
  <2>4. next[1] = d
    BY <2>2
  <2>5. IsStored(d) /\ Unmoved(c, d)
    BY <1>2, <2>3, Zenon
  <2> HIDE DEF d
  <2> QED  BY <1>3, <2>4, <2>5
<1>17. CASE r.op = "updateProxy"
  <2>1. next = UpdateProxy(c, r)  BY <1>17 DEF Mutate
  <2>2. PICK proxy, i, same, to :
           /\ to = [c EXCEPT !.proxies[i] = proxy]
           /\ next = IF same = {} THEN Refuse ELSE RefuseUnless(ValidateProxyMutation(to), to)
    BY <2>1, Zenon DEF UpdateProxy
  <2> DEFINE x == [c.proxies EXCEPT ![i] = proxy]
  <2>3. next[1] = [c EXCEPT !.proxies = x]
    BY <2>2
  <2>4. IsList(x)
    BY <1>1, ChangedLists
  <2> HIDE DEF x
  <2> DEFINE d == [c EXCEPT !.proxies = x]
  <2>5. next[1] = d
    BY <2>3
  <2>6. IsStored(d) /\ Unmoved(c, d)
    BY <1>2, <2>4, Zenon
  <2> HIDE DEF d
  <2> QED  BY <1>3, <2>5, <2>6
<1>18. CASE r.op = "deleteProxy"
  <2>1. next = DeleteProxy(c, r)  BY <1>18 DEF Mutate
  <2> DEFINE same == {i \in DOMAIN c.proxies : c.proxies[i].id = r.proxyID}
             x == RemoveAt(c.proxies, Min(same))
             z == [i \in DOMAIN c.accounts |->
                     IF c.accounts[i].proxy = r.proxyID THEN [c.accounts[i] EXCEPT !.proxy = ""]
                     ELSE c.accounts[i]]
             c1 == [c EXCEPT !.proxies = x]
             d == [c1 EXCEPT !.accounts = z]
  <2>2. next[1] = d /\ same # {}
    <3>1. next = IF same = {} THEN Refuse
                 ELSE RefuseUnless(ValidateProxyMutation([c EXCEPT !.proxies = x, !.accounts = z]),
                                   [c EXCEPT !.proxies = x, !.accounts = z])
      BY <2>1 DEF DeleteProxy
    <3>2. [c EXCEPT !.proxies = x, !.accounts = z] = d
      <4> HIDE DEF x, z
      <4> QED  OBVIOUS
    <3> HIDE DEF x, z, d, same
    <3> QED  BY <3>1, <3>2
  <2>3. same \in SUBSET (DOMAIN c.proxies)
    OBVIOUS
  <2>4. z = [i \in DOMAIN c.accounts |-> z[i]]
    OBVIOUS
  <2>5. \A i \in DOMAIN c.accounts :
           z[i] = c.accounts[i] \/ z[i] = [c.accounts[i] EXCEPT !.proxy = ""]
    OBVIOUS
  <2> HIDE DEF z, same
  <2>6. Min(same) \in DOMAIN c.proxies
    BY <1>1, <2>2, <2>3, FirstPosition
  <2>7. IsList(x)
    BY <1>1, <2>6, ListRemoveAt
  <2> HIDE DEF x
  <2>8. IsStored(c1) /\ SameLimits(c, c1) /\ SameAccounts(c, c1)
    BY <1>2, <2>7, Zenon DEF Unmoved
  <2>9. IsList(z) /\ Len(z) = Len(c.accounts)
    BY <1>1, <2>4, MadeList
  <2>10. \A i \in DOMAIN c.accounts :
           /\ IsAccount(z[i])
           /\ z[i].email = c.accounts[i].email /\ z[i].mobile = c.accounts[i].mobile
    <3> TAKE i \in DOMAIN c.accounts
    <3>1. IsAccount(c.accounts[i]) /\ DOMAIN c.accounts[i] = AccountFields
      BY <1>1 DEF KeptAccounts, IsAccount
    <3>2. {"proxy", "email", "mobile"} \subseteq AccountFields
      BY DEF AccountFields
    <3> QED  BY <2>5, <3>1, <3>2 DEF IsAccount
  <2>11. /\ KeptAccounts(z)
         /\ \A i \in DOMAIN c.accounts : Identifier(z[i]) = Identifier(c.accounts[i])
    BY <1>1, <2>9, <2>10, KeptWithoutNewNames
  <2> HIDE DEF c1
  <2>12. IsStored(d) /\ SameLimits(c1, d) /\ d.accounts = z
    BY <2>8, <2>11, ChangedAccounts
  <2> HIDE DEF d
  <2>13. SameAccounts(c, d) /\ SameLimits(c, d)
    BY <2>8, <2>9, <2>11, <2>12 DEF SameAccounts, SameLimits
  <2> QED  BY <1>18, <2>2, <2>12, <2>13
<1>19. CASE r.op = "updateAccountProxy"
  <2>1. next = UpdateAccountProxy(c, r)  BY <1>19 DEF Mutate
  <2>2. PICK i : next = <<[c EXCEPT !.accounts[i].proxy = r.proxyID]>>
    BY <2>1 DEF UpdateAccountProxy
  <2>3. next[1] = [c EXCEPT !.accounts = [c.accounts EXCEPT ![i].proxy = r.proxyID]]
    BY <2>2
  <2>4. "proxy" \in AccountFields \ {"email", "mobile"}
    BY DEF AccountFields
  <2> DEFINE a == [c.accounts EXCEPT ![i]["proxy"] = r.proxyID]
             d == [c EXCEPT !.accounts = a]
  <2>5. next[1] = d
    BY <2>3
  <2>6. IsStored(d) /\ Unmoved(c, d)
    BY <1>4, <2>4
  <2> HIDE DEF d
  <2> QED  BY <1>3, <2>5, <2>6
<1>20. CASE r.op = "updateSettings"
  <2>1. next = UpdateSettings(c, r)  BY <1>20 DEF Mutate
  <2> DEFINE x == IF r.per > 0 THEN r.per ELSE c.per
             y == IF r.global > 0 THEN r.global ELSE c.global
             c1 == [c EXCEPT !.per = x]
             d == [c1 EXCEPT !.global = y]
  <2>2. next[1] = d
    <3>1. next[1] = [c EXCEPT !.per = x, !.global = y]
      BY <2>1 DEF UpdateSettings, MergedRuntime
    <3> HIDE DEF x, y
    <3> QED  BY <3>1
  <2>3. x \in Nat /\ y \in Nat
    BY <1>20, InputsAssumption DEF IsStored, IsReadConfig
  <2> HIDE DEF x, y
  <2>4. {"per", "global", "accounts"} \subseteq DOMAIN EmptyConfig
    BY DEF EmptyConfig
  <2>5. IsStored(c1) /\ c1.accounts = c.accounts
    BY <2>3, ChangedLimits
  <2> HIDE DEF c1
  <2>6. IsStored(d) /\ d.accounts = c.accounts
    BY <2>3, <2>5, ChangedLimits
  <2> HIDE DEF d
  <2> QED  BY <1>20, <2>2, <2>6 DEF SameAccounts
<1>21. CASE r.op = "updatePassword"
  <2>1. next = UpdateSettingsPassword(c, r)  BY <1>21 DEF Mutate
  <2>2. next = <<[c EXCEPT !.password = r.password]>>
    BY <2>1 DEF UpdateSettingsPassword
  <2> DEFINE d == [c EXCEPT !.password = r.password]
  <2>3. next[1] = d
    BY <2>2
  <2>4. IsStored(d) /\ Unmoved(c, d)
    BY <1>2, Zenon
  <2> HIDE DEF d
  <2> QED  BY <1>3, <2>3, <2>4
<1> QED
  BY <1>5, <1>6, <1>7, <1>8, <1>9, <1>10, <1>11, <1>12, <1>13, <1>14, <1>15, <1>16, <1>17,
     <1>18, <1>19, <1>20, <1>21 DEF EditOps

(***************************************************************************)
(* The store: its indexes, saving, tokens and test results.                 *)
(***************************************************************************)

(* The index leads from every account's identifier to an account that has   *)
(* it, and from no name to an account it does not name.                     *)
Indexed(s) ==
  /\ \A i \in DOMAIN s.cfg.accounts :
        LET id == Identifier(s.cfg.accounts[i])
        IN  /\ id \in DOMAIN s.accMap
            /\ Identifier(s.cfg.accounts[s.accMap[id]]) = id
  /\ \A id \in DOMAIN s.accMap :
        /\ s.accMap[id] \in DOMAIN s.cfg.accounts
        /\ MatchesIdentifier(s.cfg.accounts[s.accMap[id]], id)

(* Test results are of names of accounts that exist, or of such a name in   *)
(* lower case.                                                              *)
TestedAreKnown(s) ==
  \A id \in DOMAIN s.accTest :
      \E i \in DOMAIN s.cfg.accounts :
          \/ id \in AliasesOf(s.cfg.accounts[i])
          \/ id = LowerID(Identifier(s.cfg.accounts[i]))

(* A store whose two forms of the keys and whose indexes agree with its     *)
(* configuration; every operation leaves one that is stored besides.        *)
Agrees(s) ==
  /\ IsStore(s) /\ KeysInOrder(s.cfg)
  /\ s.keyMap = ToSet(s.cfg.keys)
  /\ Indexed(s) /\ TestedAreKnown(s)
IsKept(s) == Agrees(s) /\ IsStored(s.cfg)

(* A store that is kept stays so while the excepted names are the same.     *)
LEMMA KeptWhileSame ==
  ASSUME IsKept(store'), twice' = twice
  PROVE  IsKept(store)'
BY DEF IsKept, IsStored, KeptAccounts

(* One that has just been loaded is kept, with the names several of its     *)
(* accounts have excepted.                                                  *)
LEMMA LoadedIsKept ==
  ASSUME Agrees(store'), IsNamed(store'.cfg), twice' = NamedTwice(store'.cfg.accounts)
  PROVE  IsKept(store)'
<1> DEFINE accounts == store'.cfg.accounts
<1>1. \A i, j \in DOMAIN accounts :
         Identifier(accounts[i]) = Identifier(accounts[j]) =>
             i = j \/ Identifier(accounts[i]) \in twice'
  BY DEF NamedTwice
<1>2. /\ IsReadConfig(store'.cfg) /\ IsList(accounts)
      /\ \A i \in DOMAIN accounts : IsAccount(accounts[i]) /\ Identifier(accounts[i]) # NoID
  BY DEF IsNamed, IsReadConfig
<1> QED  BY <1>1, <1>2 DEF IsKept, IsStored, KeptAccounts

(* Rebuilding the indexes of any store whose accounts have names makes      *)
(* them agree with it.                                                      *)
LEMMA RebuiltAgrees ==
  ASSUME NEW s, DOMAIN s = StoreFields, IsNamed(s.cfg), KeysInOrder(s.cfg)
  PROVE  Agrees(RebuildIndexes(s)) /\ RebuildIndexes(s).cfg = s.cfg
         /\ RebuildIndexes(s).fromEnv = s.fromEnv
<1> DEFINE t == RebuildIndexes(s)
           accounts == s.cfg.accounts
           map == AccMapOf(accounts)
           test == AccTestOf(accounts, s.accTest)
           keys == ToSet(s.cfg.keys)
<1>1. t = [s EXCEPT !.keyMap = keys, !.accMap = map, !.accTest = test]
  BY DEF RebuildIndexes
<1> HIDE DEF map, test, keys, t
<1>2. /\ DOMAIN t = StoreFields /\ t.cfg = s.cfg /\ t.fromEnv = s.fromEnv
      /\ t.keyMap = keys /\ t.accMap = map /\ t.accTest = test
  BY <1>1 DEF StoreFields
<1>3. IsList(accounts) /\ \A i \in DOMAIN accounts : Identifier(accounts[i]) # NoID
  BY DEF IsNamed, IsReadConfig
<1> HIDE DEF accounts
<1>4. \A i \in DOMAIN accounts : Identifier(accounts[i]) \in DOMAIN map
  BY <1>3 DEF map, AccMapOf
<1>5. ASSUME NEW id \in DOMAIN map
      PROVE  map[id] \in DOMAIN accounts /\ Identifier(accounts[map[id]]) = id
  <2> DEFINE same == {i \in DOMAIN accounts : Identifier(accounts[i]) = id}
  <2>1. same # {} /\ map[id] = Max(same)
    BY DEF map, AccMapOf
  <2>2. same \in SUBSET (DOMAIN accounts)
    OBVIOUS
  <2> HIDE DEF same
  <2>3. map[id] \in same
    BY <1>3, <2>1, <2>2, LastPosition
  <2> QED  BY <2>3 DEF same
<1>6. \A id \in DOMAIN map : MatchesIdentifier(accounts[map[id]], id)
  BY <1>3, <1>5, OwnNameMatches
<1>7. Indexed(t)
  BY <1>2, <1>4, <1>5, <1>6 DEF Indexed, accounts
<1>8. \A id \in DOMAIN test : \E i \in DOMAIN accounts : id \in AliasesOf(accounts[i])
  BY DEF test, AccTestOf
<1>9. TestedAreKnown(t)
  BY <1>2, <1>8 DEF TestedAreKnown, accounts
<1>10. IsStore(t)
  BY <1>2 DEF IsStore, IsNamed, IsReadConfig, IsConfig
<1> QED  BY <1>2, <1>7, <1>9, <1>10 DEF Agrees, keys, t

(* The index finds, by the name of an account it has, one of that name.     *)
LEMMA FoundByName ==
  ASSUME NEW s, Indexed(s), NEW id, FindAccountIndex(s, id) # 0
  PROVE  /\ id \in DOMAIN s.accMap /\ FindAccountIndex(s, id) = s.accMap[id]
         /\ FindAccountIndex(s, id) \in DOMAIN s.cfg.accounts
         /\ MatchesIdentifier(s.cfg.accounts[FindAccountIndex(s, id)], id)
<1> DEFINE i == FindAccountIndex(s, id)
           named == {j \in DOMAIN s.cfg.accounts : Identifier(s.cfg.accounts[j]) = id}
<1>1. CASE id \in DOMAIN s.accMap
  <2>1. i = s.accMap[id]
    BY <1>1 DEF FindAccountIndex, Indexed
  <2> HIDE DEF i
  <2> QED  BY <1>1, <2>1 DEF Indexed, i
<1>2. CASE id \notin DOMAIN s.accMap
  <2>1. named = {}
    BY <1>2 DEF Indexed
  <2>2. i = 0
    BY <1>2, <2>1 DEF FindAccountIndex
  <2> QED  BY <2>2
<1> QED  BY <1>1, <1>2

(* A kept store is consistent.                                              *)
LEMMA KeptIsConsistent ==
  ASSUME IsKept(store)
  PROVE  KeysAgree /\ IdentifiersUnique /\ IndexResolves /\ StatusOnlyForKnown
<1>1. KeysAgree
  BY DistinctItemsStay DEF IsKept, Agrees, KeysInOrder, KeysAgree
<1>2. IdentifiersUnique
  BY DEF IsKept, IsStored, KeptAccounts, IdentifiersUnique
<1>3. IndexResolves
  BY DEF IsKept, Agrees, Indexed, IndexResolves, FindAccountIndex
<1>4. StatusOnlyForKnown
  BY DEF IsKept, Agrees, TestedAreKnown, StatusOnlyForKnown
<1> QED  BY <1>1, <1>2, <1>3, <1>4

(* What a save may leave: a file that is written holds the configuration of *)
(* the store and counts as saved; a file left alone goes with nothing new   *)
(* saved, unless the store skips writing.                                   *)
Saves ==
  /\ store'.fromEnv \in BOOLEAN
  /\ store'.fromEnv => store.fromEnv
  /\ \/ file' = file /\ saved' = saved
     \/ file' = TornFile
     \/ file' = Written(store'.cfg) /\ saved' = store'.cfg
     \/ file' = file /\ SkipsWrite(store)

(* Saving, whether the write succeeds, is refused or is cut short, keeps    *)
(* the store.                                                               *)
LEMMA SaveKeepsKept ==
  ASSUME NEW s, NEW write \in Writes, IsKept(s), s.fromEnv = store.fromEnv, SaveLocked(s, write)
  PROVE  IsKept(store') /\ store'.cfg = s.cfg /\ Saves
<1>1. PICK fromEnv : /\ store' = [s EXCEPT !.fromEnv = fromEnv]
                     /\ fromEnv \in BOOLEAN /\ (fromEnv => s.fromEnv)
  <2> DEFINE b == s.fromEnv /\ (write # "ok" \/ SkipsWrite(s))
  <2>1. store' = [s EXCEPT !.fromEnv = b]
    BY DEF SaveLocked
  <2>2. b \in BOOLEAN /\ (b => s.fromEnv)
    OBVIOUS
  <2> HIDE DEF b
  <2> QED  BY <2>1, <2>2
<1>2. /\ DOMAIN store' = StoreFields /\ store'.cfg = s.cfg /\ store'.keyMap = s.keyMap
      /\ store'.accMap = s.accMap /\ store'.accTest = s.accTest /\ store'.fromEnv = fromEnv
  BY <1>1 DEF IsKept, Agrees, IsStore, StoreFields
<1>3. \/ file' = file /\ saved' = saved
      \/ file' = TornFile
      \/ file' = Written(s.cfg) /\ saved' = s.cfg
      \/ file' = file /\ SkipsWrite(s)
  BY DEF SaveLocked, Writes
<1>4. SkipsWrite(s) => SkipsWrite(store)
  BY DEF SkipsWrite
<1>5. IsKept(store')
  BY <1>2 DEF IsKept, Agrees, IsStore, Indexed, TestedAreKnown
<1> QED  BY <1>1, <1>2, <1>3, <1>4, <1>5 DEF Saves

(* An update to a stored configuration keeps the store and takes over the   *)
(* accounts, proxies and limits of it.                                      *)
LEMMA UpdateKeepsKept ==
  ASSUME NEW next, NEW write \in Writes, IsStored(next), IsKept(store), Update(next, write)
  PROVE  /\ IsKept(store') /\ Saves
         /\ SameAccounts(next, store'.cfg) /\ SameLimits(next, store'.cfg)
         /\ store'.cfg.accounts = next.accounts /\ store'.cfg.proxies = next.proxies
<1> DEFINE c == ReconcileCredentials(next, store.cfg)
           d == NormalizeCredentials(c)
           s == [store EXCEPT !.cfg = d]
<1>1. DOMAIN EmptyConfig = {"keys", "apiKeys", "accounts", "proxies", "per", "global",
                            "password", "vercel", "sync"}
  BY DEF EmptyConfig
<1>2. IsConfig(next) /\ IsList(next.keys) /\ IsList(next.apiKeys) /\ IsList(store.cfg.apiKeys)
  BY DEF IsStored, IsReadConfig, IsKept, IsConfig
<1>3. KeysInOrder(c) /\ (\A f \in DOMAIN next \ {"keys", "apiKeys"} : c[f] = next[f])
      /\ DOMAIN c = DOMAIN next
  BY <1>2, ReconcileKeepsLists, ReconcileKeepsFields
<1> HIDE DEF c
<1>4. IsConfig(c) /\ IsList(c.keys) /\ IsList(c.apiKeys)
  BY <1>2, <1>3, StringsShape DEF KeysInOrder, DistinctKeys, IsConfig
<1>5. KeysInOrder(d) /\ (\A f \in DOMAIN c \ {"keys", "apiKeys"} : d[f] = c[f])
      /\ DOMAIN d = DOMAIN c
  BY <1>4, NormalizeOrdersKeys, NormalizeKeepsFields
<1>6. d = [f \in DOMAIN EmptyConfig |-> d[f]]
  <2>1. d = [f \in DOMAIN c |-> d[f]]
    BY DEF NormalizeCredentials
  <2> QED  BY <1>2, <1>3, <2>1 DEF IsConfig
<1> HIDE DEF d
<1>7. /\ d.accounts = next.accounts /\ d.proxies = next.proxies
      /\ d.per = next.per /\ d.global = next.global
  BY <1>1, <1>2, <1>3, <1>4, <1>5 DEF IsConfig
<1>8. IsList(d.keys) /\ IsList(d.apiKeys)
  BY <1>5, StringsShape DEF KeysInOrder, DistinctKeys
<1>9. IsStored(d)
  BY <1>6, <1>7, <1>8 DEF IsStored, IsReadConfig
<1>10. DOMAIN s = StoreFields /\ s.cfg = d /\ s.fromEnv = store.fromEnv
  BY DEF IsKept, Agrees, IsStore, StoreFields
<1>11. SaveLocked(RebuildIndexes(s), write)
  BY DEF Update, d, c
<1> HIDE DEF s
<1>12. /\ IsKept(RebuildIndexes(s)) /\ RebuildIndexes(s).cfg = d
       /\ RebuildIndexes(s).fromEnv = store.fromEnv
  BY <1>5, <1>9, <1>10, RebuiltAgrees, StoredIsNamed DEF IsKept
<1>13. IsKept(store') /\ Saves /\ store'.cfg = d
  BY <1>11, <1>12, SaveKeepsKept
<1> QED  BY <1>7, <1>13 DEF SameAccounts, SameLimits

(* Accounts stay kept, by the same names, when only tokens change.          *)
LEMMA ChangedToken ==
  ASSUME NEW s, KeptAccounts(s), NEW t,
         t = [j \in DOMAIN s |-> t[j]],
         \A j \in DOMAIN s : t[j] = s[j] \/ \E x : t[j] = [s[j] EXCEPT !.token = x]
  PROVE  /\ KeptAccounts(t) /\ Len(t) = Len(s)
         /\ \A j \in DOMAIN s : Identifier(t[j]) = Identifier(s[j])
<1>1. IsList(s)
  BY DEF KeptAccounts
<1>2. IsList(t) /\ Len(t) = Len(s)
  BY <1>1, ChangedLists
<1>3. ASSUME NEW j \in DOMAIN s
      PROVE  IsAccount(t[j]) /\ t[j].email = s[j].email /\ t[j].mobile = s[j].mobile
  <2>1. IsAccount(s[j]) /\ DOMAIN s[j] = AccountFields
    BY DEF KeptAccounts, IsAccount
  <2>2. {"token", "email", "mobile"} \subseteq AccountFields
    BY DEF AccountFields
  <2> QED  BY <2>1, <2>2 DEF IsAccount
<1> QED  BY <1>2, <1>3, KeptWithoutNewNames

(* A new token keeps the store, the accounts by name and the limits.        *)
LEMMA TokenKeepsKept ==
  ASSUME IsKept(store), store.fromEnv \in BOOLEAN, NEW id, NEW token, NEW write \in Writes,
         UpdateAccountToken(id, token, write)
  PROVE  /\ IsKept(store') /\ Saves
         /\ SameAccounts(store.cfg, store'.cfg) /\ SameLimits(store.cfg, store'.cfg)
<1>1. CASE UNCHANGED <<store, file, saved>>
  BY <1>1 DEF SameAccounts, SameLimits, Saves
<1>2. CASE ~UNCHANGED <<store, file, saved>>
  <2> DEFINE i == FindAccountIndex(store, id)
             a == store.cfg.accounts
             b == [a EXCEPT ![i].token = token]
             c == [store.cfg EXCEPT !.accounts = b]
             map == Over([n \in {id, Identifier(a[i])} |-> i], store.accMap)
             s == [store EXCEPT !.cfg = c, !.accMap = map]
  <2>1. i # 0 /\ SaveLocked(s, write)
    <3>1. i # 0 /\ SaveLocked([store EXCEPT !.cfg.accounts[i].token = token, !.accMap = map], write)
      BY <1>2 DEF UpdateAccountToken
    <3>2. [store EXCEPT !.cfg.accounts[i].token = token, !.accMap = map] = s
      <4> HIDE DEF map, i
      <4> QED  OBVIOUS
    <3> HIDE DEF s, i, map
    <3> QED  BY <3>1, <3>2
  <2>2. IsStored(store.cfg) /\ KeptAccounts(a) /\ Indexed(store)
    BY DEF IsKept, Agrees, IsStored
  <2>3. /\ i \in DOMAIN a /\ MatchesIdentifier(a[i], id)
        /\ id \in DOMAIN store.accMap /\ store.accMap[id] = i
    BY <2>1, <2>2, FoundByName, Zenon
  <2> HIDE DEF i
  <2>4. Identifier(a[i]) \in DOMAIN store.accMap
    BY <2>2, <2>3 DEF Indexed
  <2>5. /\ KeptAccounts(b) /\ Len(b) = Len(a)
        /\ \A j \in DOMAIN a : Identifier(b[j]) = Identifier(a[j])
    <3>1. /\ b = [j \in DOMAIN a |-> b[j]]
          /\ \A j \in DOMAIN a : b[j] = a[j] \/ \E x : b[j] = [a[j] EXCEPT !.token = x]
      OBVIOUS
    <3> HIDE DEF b
    <3> QED  BY <2>2, <3>1, ChangedToken
  <2>6. DOMAIN b = DOMAIN a
    OBVIOUS
  <2>7. \A j \in DOMAIN a : b[j].email = a[j].email /\ b[j].mobile = a[j].mobile
    OBVIOUS
  <2> HIDE DEF b
  <2>8. IsStored(c) /\ SameLimits(store.cfg, c) /\ c.accounts = b
    BY <2>2, <2>5, ChangedAccounts
  <2>9. c.keys = store.cfg.keys /\ c.apiKeys = store.cfg.apiKeys
    OBVIOUS
  <2> HIDE DEF c, map
  <2>10. /\ DOMAIN s = StoreFields /\ s.cfg = c /\ s.accMap = map /\ s.keyMap = store.keyMap
         /\ s.accTest = store.accTest /\ s.fromEnv = store.fromEnv
    BY DEF IsKept, Agrees, IsStore, StoreFields
  <2> HIDE DEF s
  <2>11. /\ DOMAIN map = DOMAIN store.accMap
         /\ \A n \in DOMAIN map : map[n] = IF n \in {id, Identifier(a[i])} THEN i ELSE store.accMap[n]
    BY <2>3, <2>4 DEF map, Over
  <2>12. ASSUME NEW j \in DOMAIN a
         PROVE  /\ Identifier(b[j]) \in DOMAIN map
                /\ map[Identifier(b[j])] \in DOMAIN a
                /\ Identifier(b[map[Identifier(b[j])]]) = Identifier(b[j])
    <3> DEFINE n == Identifier(a[j])
    <3>1. /\ n \in DOMAIN store.accMap /\ store.accMap[n] \in DOMAIN a
          /\ Identifier(a[store.accMap[n]]) = n
      BY <2>2 DEF Indexed
    <3>2. map[n] \in DOMAIN a /\ Identifier(a[map[n]]) = n
      BY <2>3, <2>11, <3>1
    <3> QED  BY <2>5, <2>11, <3>1, <3>2
  <2>13. \A n \in DOMAIN map : map[n] \in DOMAIN a /\ MatchesIdentifier(a[map[n]], n)
    <3> TAKE n \in DOMAIN map
    <3>1. CASE n = Identifier(a[i])
      <4>1. Identifier(a[i]) # NoID
        BY <2>2, <2>3 DEF KeptAccounts
      <4> QED  BY <2>3, <2>11, <3>1, <4>1, OwnNameMatches
    <3>2. CASE n # Identifier(a[i])
      BY <2>2, <2>3, <2>11, <3>2 DEF Indexed
    <3> QED  BY <3>1, <3>2
  <2>14. \A n \in DOMAIN map : MatchesIdentifier(b[map[n]], n)
    <3> TAKE n \in DOMAIN map
    <3> DEFINE j == map[n]
    <3>1. j \in DOMAIN a /\ MatchesIdentifier(a[j], n)
      BY <2>13
    <3> HIDE DEF j
    <3>2. b[j].email = a[j].email /\ b[j].mobile = a[j].mobile /\ Identifier(b[j]) = Identifier(a[j])
      BY <2>5, <2>7, <3>1
    <3>3. MatchesIdentifier(b[j], n)
      BY <3>1, <3>2 DEF MatchesIdentifier
    <3> QED  BY <3>3 DEF j
  <2>15. Indexed(s)
    BY <2>6, <2>8, <2>10, <2>12, <2>13, <2>14 DEF Indexed
  <2>16. TestedAreKnown(s)
    <3> SUFFICES ASSUME NEW n \in DOMAIN store.accTest
                 PROVE  \E j \in DOMAIN b : n \in AliasesOf(b[j]) \/ n = LowerID(Identifier(b[j]))
      BY <2>8, <2>10 DEF TestedAreKnown
    <3>1. PICK j \in DOMAIN a : n \in AliasesOf(a[j]) \/ n = LowerID(Identifier(a[j]))
      BY DEF IsKept, Agrees, TestedAreKnown
    <3>2. AliasesOf(b[j]) = AliasesOf(a[j]) /\ Identifier(b[j]) = Identifier(a[j])
      BY <2>7, SameName
    <3> QED  BY <2>6, <3>1, <3>2
  <2>17. IsKept(s)
    BY <2>8, <2>9, <2>10, <2>15, <2>16 DEF IsKept, Agrees, IsStore, KeysInOrder, IsStored, IsReadConfig, IsConfig
  <2>18. IsKept(store') /\ Saves /\ store'.cfg = c
    BY <2>1, <2>10, <2>17, SaveKeepsKept
  <2> QED  BY <2>5, <2>8, <2>18 DEF SameAccounts
<1> QED  BY <1>1, <1>2

(* The name a test was asked for is, in lower case, an alias of the account *)
(* that is found by it, or that account's own name in lower case: a number  *)
(* has no capitals, and an e-mail is the account's name.                    *)
LEMMA LoweredName ==
  ASSUME NEW a, NEW x, MatchesIdentifier(a, Identifier(x))
  PROVE  \/ LowerID(Identifier(x)) \in AliasesOf(a)
         \/ LowerID(Identifier(x)) = LowerID(Identifier(a))
<1> DEFINE id == Identifier(x)
<1>1. id \in AliasesOf(a)
  BY NamesAreAliases
<1>2. CASE id = Identifier(a)
  BY <1>2
<1>3. CASE id = EmailID(a.email) /\ a.email # ""
  BY <1>3 DEF Identifier
<1>4. CASE id = MobileID(a.mobile)
  <2> HIDE DEF id
  <2>1. id.email = ""
    BY <1>4 DEF MobileID
  <2>2. LowerID(id) = id
    BY <2>1, LowerCaseAssumption DEF LowerID
  <2> QED  BY <1>1, <2>2 DEF id
<1> QED  BY <1>1, <1>2, <1>3, <1>4 DEF AliasesOf, NoID

(* Recording a test result keeps the store and changes no configuration.    *)
LEMMA StatusKeepsKept ==
  ASSUME IsKept(store), store.fromEnv \in BOOLEAN, NEW x, NEW status,
         UpdateAccountTestStatus(Identifier(x), status)
  PROVE  IsKept(store') /\ Saves /\ store'.cfg = store.cfg
<1> DEFINE id == Identifier(x)
           i == FindAccountIndex(store, id)
           a == store.cfg.accounts
           tests == SetAccountTestStatus(store.accTest, a[i], status, id)
<1>1. file' = file /\ saved' = saved
  BY DEF UpdateAccountTestStatus
<1>2. CASE i = 0
  <2>1. store' = store
    BY <1>2 DEF UpdateAccountTestStatus
  <2> QED  BY <1>1, <2>1 DEF Saves
<1>3. CASE i # 0
  <2>1. store' = [store EXCEPT !.accTest = tests]
    BY <1>3 DEF UpdateAccountTestStatus
  <2>2. i \in DOMAIN a /\ MatchesIdentifier(a[i], id)
    BY <1>3, FoundByName, Zenon DEF IsKept, Agrees
  <2>3. LowerID(id) \in AliasesOf(a[i]) \/ LowerID(id) = LowerID(Identifier(a[i]))
    BY <2>2, LoweredName
  <2> HIDE DEF i, id
  <2>4. \A n \in DOMAIN tests : \/ n \in DOMAIN store.accTest
                               \/ n \in AliasesOf(a[i]) \/ n = LowerID(Identifier(a[i]))
    BY <2>3 DEF SetAccountTestStatus, Over
  <2> HIDE DEF tests
  <2>5. /\ DOMAIN store' = StoreFields /\ store'.cfg = store.cfg /\ store'.keyMap = store.keyMap
        /\ store'.accMap = store.accMap /\ store'.accTest = tests /\ store'.fromEnv = store.fromEnv
    BY <2>1 DEF IsKept, Agrees, IsStore, StoreFields
  <2>6. TestedAreKnown(store')
    BY <2>2, <2>4, <2>5 DEF IsKept, Agrees, TestedAreKnown
  <2>7. IsKept(store')
    BY <2>5, <2>6 DEF IsKept, Agrees, IsStore, Indexed
  <2> QED  BY <1>1, <2>5, <2>7 DEF Saves
<1> QED  BY <1>2, <1>3

(***************************************************************************)
(* Loading.                                                                 *)
(***************************************************************************)

(* The empty configuration has no accounts.                                 *)
LEMMA EmptyIsNamed == IsNamed(EmptyConfig)
<1>1. IsReadConfig(EmptyConfig)
  <2>1. EmptyConfig = [f \in DOMAIN EmptyConfig |-> EmptyConfig[f]]
    BY DEF EmptyConfig
  <2>2. /\ EmptyConfig.keys = <<>> /\ EmptyConfig.apiKeys = <<>> /\ EmptyConfig.proxies = <<>>
        /\ EmptyConfig.accounts = <<>> /\ EmptyConfig.per = 0 /\ EmptyConfig.global = 0
    BY DEF EmptyConfig
  <2>3. DOMAIN <<>> = {}
    OBVIOUS
  <2> QED  BY <2>1, <2>2, <2>3, EmptyIsList DEF IsReadConfig
<1>2. DOMAIN EmptyConfig.accounts = {}
  BY DEF EmptyConfig
<1> QED  BY <1>1, <1>2 DEF IsNamed

(* Without the accounts that have no name, those that are left have one.    *)
LEMMA DroppedIsNamed ==
  ASSUME NEW c, IsReadConfig(c)
  PROVE  IsNamed(DropInvalidAccounts(c))
<1> DEFINE a == c.accounts
           K == {i \in DOMAIN a : Identifier(a[i]) # NoID}
           b == AtPositions(a, K)
           d == DropInvalidAccounts(c)
<1>1. IsReadConfig(d)
  BY ReadersGiveReadable
<1>2. DOMAIN c = DOMAIN EmptyConfig
  BY DEF IsReadConfig
<1>3. d.accounts = b
  BY <1>2 DEF DropInvalidAccounts, EmptyConfig
<1>4. IsList(a) /\ K \in SUBSET (DOMAIN a)
  BY DEF IsReadConfig
<1>5. \A i \in K : Identifier(a[i]) # NoID
  OBVIOUS
<1> HIDE DEF K, d
<1>6. /\ IsList(b) /\ DOMAIN b = 1 .. Cardinality(K)
      /\ \E pos : InOrder(pos, K) /\ \A n \in 1 .. Cardinality(K) : b[n] = a[pos[n]]
  BY <1>4, Selection
<1> HIDE DEF b
<1>7. PICK pos : InOrder(pos, K) /\ \A n \in 1 .. Cardinality(K) : b[n] = a[pos[n]]
  BY <1>6
<1>8. \A n \in DOMAIN b : pos[n] \in K /\ b[n] = a[pos[n]]
  BY <1>6, <1>7 DEF InOrder
<1>9. \A n \in DOMAIN b : Identifier(b[n]) # NoID
  BY <1>5, <1>8
<1> QED  BY <1>1, <1>3, <1>9 DEF IsNamed, d

(* Normalising the keys changes no account and puts the keys in order.      *)
LEMMA NormalizedIsNamed ==
  ASSUME NEW c, IsNamed(c)
  PROVE  IsNamed(NormalizeCredentials(c)) /\ KeysInOrder(NormalizeCredentials(c))
<1>1. IsConfig(c) /\ IsList(c.keys) /\ IsList(c.apiKeys) /\ IsReadConfig(c)
  BY DEF IsNamed, IsReadConfig, IsConfig
<1>2. /\ KeysInOrder(NormalizeCredentials(c))
      /\ \A f \in DOMAIN c \ {"keys", "apiKeys"} : NormalizeCredentials(c)[f] = c[f]
  BY <1>1, NormalizeOrdersKeys
<1>3. NormalizeCredentials(c).accounts = c.accounts
  BY <1>1, <1>2 DEF IsConfig, EmptyConfig
<1>4. IsReadConfig(NormalizeCredentials(c))
  BY <1>1, ReadersGiveReadable
<1> QED  BY <1>2, <1>3, <1>4 DEF IsNamed

(* Reading leaves the keys in order, and so does whatever changes only      *)
(* accounts.                                                                *)
LEMMA ReadersOrderKeys ==
  ASSUME NEW c, IsReadConfig(c)
  PROVE  /\ KeysInOrder(Unmarshal(c))
         /\ KeysInOrder(c) => /\ KeysInOrder(ClearAccountTokens(c))
                              /\ KeysInOrder(DropInvalidAccounts(c))
<1>1. IsConfig(c) /\ IsList(c.keys) /\ IsList(c.apiKeys)
  BY DEF IsReadConfig, IsConfig
<1>2. KeysInOrder(Unmarshal(c))
  BY <1>1, NormalizeOrdersKeys DEF Unmarshal
<1>3. /\ ClearAccountTokens(c).keys = c.keys /\ ClearAccountTokens(c).apiKeys = c.apiKeys
      /\ DropInvalidAccounts(c).keys = c.keys /\ DropInvalidAccounts(c).apiKeys = c.apiKeys
  BY <1>1 DEF ClearAccountTokens, DropInvalidAccounts, IsConfig, EmptyConfig
<1> QED  BY <1>2, <1>3 DEF KeysInOrder

(* However the configuration is loaded, its accounts have names, the        *)
(* indexes made of it agree with it, and the file is left as it was,        *)
(* written with a configuration, or cut short.                              *)
LEMMA LoadAgrees ==
  ASSUME NEW found, IsReadConfig(found.cfg), deploy \in Deployments,
         NEW l \in LoadConfig(found)
  PROVE  /\ Agrees(NewStore(l)) /\ NewStore(l).cfg = l.cfg
         /\ NewStore(l).fromEnv = l.fromEnv /\ l.fromEnv \in BOOLEAN
         /\ IsReadConfig(l.file.cfg) /\ l.file \in {found, Written(l.file.cfg), TornFile}
         /\ IsNamed(l.cfg) /\ KeysInOrder(l.cfg)
<1>1. ASSUME NEW f, IsReadConfig(f.cfg) PROVE IsNamed(FromFile(f))
  BY <1>1, ReadersGiveReadable, DroppedIsNamed DEF FromFile
<1>2. /\ IsReadConfig(deploy.envConfig) /\ deploy.vercel \in BOOLEAN
      /\ deploy.legacy # <<>> => IsReadConfig(deploy.legacy[1])
  BY InputsAssumption
<1>3. IsNamed(FromEnv)
  BY <1>2, ReadersGiveReadable, DroppedIsNamed DEF FromEnv
<1>4. deploy.legacy # <<>> => IsNamed(FromFile(Written(deploy.legacy[1])))
  <2>1. Written(deploy.legacy[1]).cfg = deploy.legacy[1]
    BY DEF Written
  <2> QED  BY <1>1, <1>2, <2>1
<1>5. PICK c, fromEnv, left, error :
        /\ l = Loaded(c, fromEnv, left, error)
        /\ \/ c \in {FromFile(found), FromEnv, EmptyConfig}
           \/ deploy.legacy # <<>> /\ c = FromFile(Written(deploy.legacy[1]))
        /\ left \in {found, Written(FromEnv), TornFile}
        /\ fromEnv \in {TRUE, FALSE, deploy.vercel}
  BY DEF LoadConfig, LoadWithoutEnv, LoadFromEnv
<1>6. l.cfg = NormalizeCredentials(c) /\ l.file = left /\ l.fromEnv = fromEnv
  BY <1>5 DEF Loaded
<1>7. IsNamed(c)
  BY <1>1, <1>3, <1>4, <1>5, EmptyIsNamed
<1>8. IsNamed(l.cfg) /\ KeysInOrder(l.cfg)
  BY <1>6, <1>7, NormalizedIsNamed
<1>9. IsReadConfig(left.cfg) /\ left \in {found, Written(left.cfg), TornFile}
  BY <1>3, <1>5, EmptyIsNamed DEF Written, TornFile, IsNamed
<1> DEFINE s == [cfg |-> l.cfg, keyMap |-> {}, accMap |-> <<>>, accTest |-> <<>>,
                 fromEnv |-> l.fromEnv]
<1>10. DOMAIN s = StoreFields /\ s.cfg = l.cfg /\ s.fromEnv = l.fromEnv
  BY DEF StoreFields
<1>11. NewStore(l) = RebuildIndexes(s)
  BY DEF NewStore
<1> HIDE DEF s
<1>12. /\ Agrees(NewStore(l)) /\ NewStore(l).cfg = l.cfg /\ NewStore(l).fromEnv = l.fromEnv
  BY <1>8, <1>10, <1>11, RebuiltAgrees
<1>13. l.fromEnv \in BOOLEAN
  BY <1>2, <1>5, <1>6
<1> QED  BY <1>6, <1>8, <1>9, <1>12, <1>13

(***************************************************************************)
(* Steps: the store stays consistent.                                       *)
(***************************************************************************)

(* A step of the store that changes nothing the pool has of it.             *)
Quiet ==
  /\ IsKept(store') /\ Saves /\ deploy' = deploy /\ twice' = twice
  /\ SameAccounts(store.cfg, store'.cfg) /\ SameLimits(store.cfg, store'.cfg)

(* A step that leaves the store alone is one.                               *)
LEMMA NothingIsQuiet ==
  ASSUME IsKept(store), store.fromEnv \in BOOLEAN, UNCHANGED storeVars, twice' = twice
  PROVE  Quiet
<1>1. store' = store /\ file' = file /\ saved' = saved /\ deploy' = deploy
  BY DEF storeVars
<1> QED  BY <1>1 DEF Quiet, Saves, SameAccounts, SameLimits

(* So are new tokens, test results, saved credentials and the sync mark.    *)
LEMMA QuietSteps ==
  ASSUME IsKept(store), store.fromEnv \in BOOLEAN, NEW p, NEW write \in Writes,
         \/ LoginSucceeds(p, write) \/ ValidateAccount(p, write)
         \/ SaveCredentials(p, write) \/ MarkSynced(p, write) \/ RecordStatus(p)
  PROVE  Quiet
<1>1. IsStored(store.cfg) /\ DOMAIN store.cfg = DOMAIN EmptyConfig
  BY DEF IsKept, IsStored, IsReadConfig
<1>2. ASSUME NEW next, IsStored(next), next.accounts = store.cfg.accounts,
             next.per = store.cfg.per, next.global = store.cfg.global,
             Update(next, write), deploy' = deploy, twice' = twice
      PROVE  Quiet
  <2>1. /\ IsKept(store') /\ Saves
        /\ SameAccounts(next, store'.cfg) /\ SameLimits(next, store'.cfg)
    BY <1>2, UpdateKeepsKept
  <2> QED  BY <1>2, <2>1 DEF Quiet, SameAccounts, SameLimits
<1>3. ASSUME NEW id, NEW token, UpdateAccountToken(id, token, write), deploy' = deploy, twice' = twice
      PROVE  Quiet
  BY <1>3, TokenKeepsKept DEF Quiet
<1>4. CASE LoginSucceeds(p, write)
  BY <1>3, <1>4 DEF LoginSucceeds
<1>5. CASE ValidateAccount(p, write)
  <2>1. deploy' = deploy /\ twice' = twice
    BY <1>5 DEF ValidateAccount
  <2>2. UpdateAccountToken(Identifier(held[p][1]), req[p].token, write)
          \/ UNCHANGED <<store, file, saved>>
    BY <1>5, Zenon DEF ValidateAccount
  <2> QED  BY <1>3, <2>1, <2>2, NothingIsQuiet DEF storeVars
<1>6. CASE SaveCredentials(p, write)
  <2> DEFINE next == [store.cfg EXCEPT !.vercel = IF req[p].credentials = "" THEN @
                                                  ELSE req[p].credentials]
  <2>1. Update(next, write) /\ deploy' = deploy /\ twice' = twice
    BY <1>6 DEF SaveCredentials, SaveLocalVercelCredentials, Accept
  <2>2. IsStored(next)
    <3>1. next = [f \in DOMAIN EmptyConfig |-> next[f]]
      BY <1>1
    <3>2. /\ next.keys = store.cfg.keys /\ next.apiKeys = store.cfg.apiKeys
          /\ next.proxies = store.cfg.proxies /\ next.accounts = store.cfg.accounts
          /\ next.per = store.cfg.per /\ next.global = store.cfg.global
      BY <1>1
    <3> HIDE DEF next
    <3> QED  BY <1>1, <3>1, <3>2 DEF IsStored, IsReadConfig
  <2>3. /\ next.accounts = store.cfg.accounts
        /\ next.per = store.cfg.per /\ next.global = store.cfg.global
    BY <1>1
  <2> HIDE DEF next
  <2> QED  BY <1>2, <2>1, <2>2, <2>3
<1>7. CASE MarkSynced(p, write)
  <2> DEFINE next == [store.cfg EXCEPT !.sync = <<SyncHashForJSON(held[p][1])>>]
  <2>1. Update(next, write) /\ deploy' = deploy /\ twice' = twice
    BY <1>7 DEF MarkSynced, SetVercelSync, Accept
  <2>2. IsStored(next)
    <3>1. next = [f \in DOMAIN EmptyConfig |-> next[f]]
      BY <1>1
    <3>2. /\ next.keys = store.cfg.keys /\ next.apiKeys = store.cfg.apiKeys
          /\ next.proxies = store.cfg.proxies /\ next.accounts = store.cfg.accounts
          /\ next.per = store.cfg.per /\ next.global = store.cfg.global
      BY <1>1
    <3> HIDE DEF next
    <3> QED  BY <1>1, <3>1, <3>2 DEF IsStored, IsReadConfig
  <2>3. /\ next.accounts = store.cfg.accounts
        /\ next.per = store.cfg.per /\ next.global = store.cfg.global
    BY <1>1
  <2> HIDE DEF next
  <2> QED  BY <1>2, <2>1, <2>2, <2>3
<1>8. CASE RecordStatus(p)
  <2>1. /\ UpdateAccountTestStatus(Identifier(held[p][1]), held[p][2])
        /\ deploy' = deploy /\ twice' = twice
    BY <1>8 DEF RecordStatus
  <2>2. IsKept(store') /\ Saves /\ store'.cfg = store.cfg
    BY <2>1, StatusKeepsKept
  <2> QED  BY <2>1, <2>2 DEF Quiet, SameAccounts, SameLimits
<1> QED  BY <1>4, <1>5, <1>6, <1>7, <1>8

(* An edit keeps the store, and what the pool has of it unless it refreshes *)
(* the pool.                                                                *)
LEMMA EditStep ==
  ASSUME Shapes, IsKept(store), store.fromEnv \in BOOLEAN,
         NEW p \in Handlers, NEW write \in Writes, Edit(p, write)
  PROVE  /\ IsKept(store') /\ Saves /\ deploy' = deploy /\ twice' = twice
         /\ ~ResetsPool(req[p].op) => SameAccounts(store.cfg, store'.cfg)
         /\ AfterEdit(req[p].op) = "done" => SameLimits(store.cfg, store'.cfg)
<1> DEFINE next == Mutate(store.cfg, req[p], held[p][1])
<1>1. deploy' = deploy /\ twice' = twice
  BY DEF Edit
<1>2. CASE next = Refuse
  <2>1. UNCHANGED <<store, file, saved>>
    BY <1>2, Zenon DEF Edit
  <2> QED  BY <1>1, <2>1, NothingIsQuiet DEF Quiet, storeVars
<1>3. CASE next # Refuse
  <2>1. Update(next[1], write)
    BY <1>3, Zenon DEF Edit
  <2>2. req[p] \in Requests /\ req[p].op \in EditOps
    BY DEF Edit, Shapes
  <2>3. IsStored(store.cfg)
    BY DEF IsKept
  <2>4. EditKeeps(store.cfg, req[p].op, next[1])
    BY <1>3, <2>2, <2>3, EditsKeepStored
  <2> HIDE DEF next
  <2>5. IsStored(next[1])
    BY <2>4 DEF EditKeeps
  <2>6. /\ IsKept(store') /\ Saves /\ store'.cfg.accounts = next[1].accounts
        /\ SameLimits(next[1], store'.cfg)
    BY <2>1, <2>5, UpdateKeepsKept
  <2> QED  BY <1>1, <2>4, <2>6 DEF EditKeeps, SameAccounts, SameLimits
<1> QED  BY <1>2, <1>3

(* The flags and the counters have their ranges, and nothing is under way   *)
(* in a process that is down.                                               *)
Bounded ==
  /\ up \in BOOLEAN /\ crossed \in BOOLEAN
  /\ received \in 0 .. MaxRequests
  /\ failures \in 0 .. MaxFailures /\ crashes \in 0 .. MaxCrashes
  /\ ~up => \A p \in Handlers : pc[p] = "idle"

(* The store is kept, and what a restart may find can be loaded.            *)
StoreKept ==
  /\ IsKept(store) /\ store.fromEnv \in BOOLEAN
  /\ IsReadConfig(file.cfg)
  /\ file.state \in {"missing", "torn", "written"}

(* The inductive invariant behind the consistency of the store: requests    *)
(* and what handlers hold have their shapes (PublishInv), the store is      *)
(* kept, and the file can be loaded.                                        *)
StoreInv == PublishInv /\ Bounded /\ StoreKept

(* The invariant holds of a process that has just started.                  *)
LEMMA StoreInit == Init => StoreInv
<1> SUFFICES ASSUME Init PROVE StoreInv
  OBVIOUS
<1>1. PublishInv
  BY PublishInit
<1>2. PICK found \in Files : \E l \in LoadConfig(found) :
              store = NewStore(l) /\ file = l.file /\ twice = NamedTwice(l.cfg.accounts)
  BY DEF Init
<1>3. PICK l \in LoadConfig(found) :
              store = NewStore(l) /\ file = l.file /\ twice = NamedTwice(l.cfg.accounts)
  BY <1>2
<1>4. /\ deploy \in Deployments /\ IsReadConfig(found.cfg)
      /\ found.state \in {"missing", "torn", "written"}
  BY InputsAssumption DEF Init
<1>5. /\ IsKept(store) /\ store.fromEnv \in BOOLEAN /\ IsReadConfig(file.cfg)
      /\ file \in {found, Written(file.cfg), TornFile}
  BY <1>3, <1>4, LoadAgrees, StoredIsNamed DEF IsKept
<1>6. StoreKept
  BY <1>4, <1>5 DEF StoreKept, Written, TornFile
<1>7. /\ up = TRUE /\ crossed = FALSE
      /\ received = 0 /\ failures = 0 /\ crashes = 0
  BY DEF Init
<1>8. /\ received \in 0 .. MaxRequests
      /\ failures \in 0 .. MaxFailures /\ crashes \in 0 .. MaxCrashes
  BY BoundsAssumption, <1>7
<1>9. Bounded
  BY <1>7, <1>8, Zenon DEF Bounded
<1> QED  BY <1>1, <1>6, <1>9 DEF StoreInv

(* Every step keeps the flags and counters in range.                        *)
LEMMA BoundedStep ==
  ASSUME Shapes, Bounded, [Next]_vars
  PROVE  Bounded'
<1> USE BoundsAssumption DEF Bounded
<1>1. ASSUME NEW p \in Handlers, NEW r \in Requests, Receive(p, r) PROVE Bounded'
  BY <1>1 DEF Receive
<1>2. ASSUME NEW p \in Handlers, pc[p] # "idle", up' = up, crashes' = crashes, received' = received,
             crossed' \in BOOLEAN, failures' \in 0 .. MaxFailures
      PROVE  Bounded'
  BY <1>2
<1>3. ASSUME NEW write \in Writes, CanWrite(write), Fails(write)
      PROVE  failures' \in 0 .. MaxFailures
  BY <1>3 DEF CanWrite, Fails, Writes
<1>4. ASSUME NEW p \in Handlers, NEW write \in Writes, Edit(p, write) PROVE Bounded'
  <2>1. crossed' \in BOOLEAN
    BY <1>4, Zenon DEF Edit, Cross
  <2>2. /\ pc[p] # "idle" /\ up' = up /\ crashes' = crashes /\ received' = received
        /\ CanWrite(write) /\ Fails(write)
    BY <1>4 DEF Edit
  <2> QED  BY <1>2, <1>3, <2>1, <2>2
<1>5. ASSUME NEW p \in Handlers, NEW write \in Writes,
             \/ LoginSucceeds(p, write) \/ ValidateAccount(p, write)
             \/ SaveCredentials(p, write) \/ MarkSynced(p, write)
      PROVE  Bounded'
  <2>1. /\ pc[p] # "idle" /\ up' = up /\ crashes' = crashes /\ received' = received
        /\ crossed' = crossed /\ CanWrite(write)
        /\ Fails(write) \/ failures' = failures
    BY <1>5 DEF LoginSucceeds, ValidateAccount, SaveCredentials, MarkSynced
  <2> QED  BY <1>2, <1>3, <2>1
<1>6. ASSUME NEW p \in Handlers,
             \/ ReadAccounts(p) \/ ReadLimits(p) \/ Install(p) \/ LoginFails(p) \/ CallFails(p)
             \/ CallSucceeds(p) \/ RecordStatus(p) \/ ExportSyncConfig(p)
      PROVE  Bounded'
  <2>1. pc[p] # "idle" /\ up' = up /\ crossed' = crossed /\ UNCHANGED budget
    BY <1>6 DEF ReadAccounts, ReadLimits, Install, LoginFails, CallFails, CallSucceeds,
                RecordStatus, ExportSyncConfig
  <2> QED  BY <1>2, <2>1 DEF budget
<1>7. ASSUME NEW p \in Handlers, NEW taken \in BOOLEAN, NEW answered \in BOOLEAN,
             UpsertVercelEnv(p, taken, answered)
      PROVE  Bounded'
  <2>1. pc[p] # "idle" /\ up' = up /\ crossed' = crossed /\ UNCHANGED budget
    BY <1>7 DEF UpsertVercelEnv
  <2> QED  BY <1>2, <2>1 DEF budget
<1>8. ASSUME NEW cut \in BOOLEAN, Crash(cut) PROVE Bounded'
  <2>1. /\ crashes < MaxCrashes /\ crashes' = crashes + 1 /\ up' = FALSE
        /\ pc' = [p \in Handlers |-> "idle"]
        /\ UNCHANGED <<crossed, received, failures>>
    BY <1>8 DEF Crash
  <2>2. \A p \in Handlers : pc'[p] = "idle"
    BY <2>1
  <2>3. crashes' \in 0 .. MaxCrashes
    BY <2>1
  <2> QED  BY <2>1, <2>2, <2>3, Zenon
<1>9. ASSUME Restart PROVE Bounded'
  <2>1. UNCHANGED <<pc, budget>> /\ crossed' = FALSE /\ ~up
    BY <1>9 DEF Restart, handlerVars
  <2>2. up' \in BOOLEAN
    BY <1>9 DEF Restart, Started
  <2> QED  BY <2>1, <2>2 DEF budget
<1>10. ASSUME UNCHANGED vars PROVE Bounded'
  BY <1>10 DEF vars, handlerVars, budget
<1> QED
  BY <1>1, <1>4, <1>5, <1>6, <1>7, <1>8, <1>9, <1>10, Zenon DEF Next

(* A step that saves, or leaves the file alone, leaves what a restart can   *)
(* load.                                                                    *)
LEMMA KeptStep ==
  ASSUME StoreKept, IsKept(store'), Saves, twice' = twice
  PROVE  StoreKept'
<1>1. IsKept(store)'
  BY KeptWhileSame
<1>2. IsReadConfig(store'.cfg) /\ IsReadConfig(EmptyConfig)
  BY EmptyIsNamed DEF IsKept, IsStored, IsNamed
<1>3. file' \in {file, TornFile, Written(store'.cfg)} /\ store'.fromEnv \in BOOLEAN
  BY DEF Saves
<1>4. IsReadConfig(file'.cfg) /\ file'.state \in {"missing", "torn", "written"}
  BY <1>2, <1>3 DEF StoreKept, TornFile, Written
<1> QED  BY <1>1, <1>3, <1>4 DEF StoreKept

(* Every step keeps the invariant.                                          *)
LEMMA StoreStep == StoreInv /\ [Next]_vars => StoreInv'
<1> SUFFICES ASSUME StoreInv, [Next]_vars PROVE StoreInv'
  OBVIOUS
<1> USE DEF StoreInv
<1>1. PublishInv' /\ Bounded' /\ Shapes /\ IsKept(store) /\ store.fromEnv \in BOOLEAN
  BY PublishStep, BoundedStep DEF PublishInv, StoreKept
<1>2. ASSUME Quiet PROVE StoreKept'
  BY <1>2, KeptStep DEF Quiet
<1>3. ASSUME NEW p \in Handlers, NEW r \in Requests, Receive(p, r) PROVE StoreKept'
  BY <1>1, <1>2, <1>3, NothingIsQuiet DEF Receive
<1>4. ASSUME NEW p \in Handlers, NEW write \in Writes, Edit(p, write) PROVE StoreKept'
  BY <1>1, <1>4, EditStep, KeptStep
<1>5. ASSUME NEW p \in Handlers, NEW write \in Writes,
             \/ LoginSucceeds(p, write) \/ ValidateAccount(p, write)
             \/ SaveCredentials(p, write) \/ MarkSynced(p, write)
      PROVE  StoreKept'
  BY <1>1, <1>2, <1>5, QuietSteps
<1>6. ASSUME NEW p \in Handlers, RecordStatus(p) PROVE StoreKept'
  <2>1. "ok" \in Writes  BY DEF Writes
  <2> QED  BY <1>1, <1>2, <1>6, <2>1, QuietSteps
<1>7. ASSUME NEW p \in Handlers,
             \/ ReadAccounts(p) \/ ReadLimits(p) \/ Install(p) \/ LoginFails(p) \/ CallFails(p)
             \/ CallSucceeds(p) \/ ExportSyncConfig(p)
      PROVE  StoreKept'
  <2>1. UNCHANGED storeVars /\ twice' = twice
    BY <1>7 DEF ReadAccounts, ReadLimits, Install, LoginFails, CallFails, CallSucceeds,
                ExportSyncConfig
  <2> QED  BY <1>1, <1>2, <2>1, NothingIsQuiet
<1>8. ASSUME NEW p \in Handlers, NEW taken \in BOOLEAN, NEW answered \in BOOLEAN,
             UpsertVercelEnv(p, taken, answered)
      PROVE  StoreKept'
  BY <1>1, <1>2, <1>8, NothingIsQuiet DEF UpsertVercelEnv
<1>9. ASSUME NEW cut \in BOOLEAN, Crash(cut) PROVE StoreKept'
  <2>1. store' = store /\ twice' = twice /\ file' \in {file, TornFile}
    BY <1>9 DEF Crash
  <2>2. IsReadConfig(TornFile.cfg) /\ TornFile.state = "torn"
    BY EmptyIsNamed DEF TornFile, IsNamed
  <2>3. IsKept(store)'
    BY <1>1, <2>1, KeptWhileSame
  <2> QED  BY <2>1, <2>2, <2>3 DEF StoreKept
<1>10. ASSUME Restart PROVE StoreKept'
  <2>1. PICK l \in LoadConfig(file) :
             store' = NewStore(l) /\ file' = l.file /\ twice' = NamedTwice(l.cfg.accounts)
    BY <1>10 DEF Restart, Started
  <2>2. deploy \in Deployments
    BY <1>1 DEF Shapes
  <2>3. /\ Agrees(NewStore(l)) /\ NewStore(l).fromEnv \in BOOLEAN /\ IsReadConfig(l.file.cfg)
        /\ l.file \in {file, Written(l.file.cfg), TornFile}
        /\ IsNamed(l.cfg) /\ NewStore(l).cfg = l.cfg
    BY <2>2, LoadAgrees DEF StoreKept
  <2>4. l.file.state \in {"missing", "torn", "written"}
    BY <2>3 DEF StoreKept, Written, TornFile
  <2>5. IsKept(store)'
    BY <2>1, <2>3, LoadedIsKept
  <2> QED  BY <2>1, <2>3, <2>4, <2>5 DEF StoreKept
<1>11. ASSUME UNCHANGED vars PROVE StoreKept'
  BY <1>1, <1>2, <1>11, NothingIsQuiet DEF vars
<1> QED
  BY <1>1, <1>3, <1>4, <1>5, <1>6, <1>7, <1>8, <1>9, <1>10, <1>11, Zenon DEF Next

(* It holds in every reachable state.                                       *)
LEMMA StoreInvariant == Spec => []StoreInv
BY StoreInit, StoreStep, PTL DEF Spec

(* After any edits, token updates, tests, publications, failed writes,      *)
(* crashes and restarts, the plain keys, the structured keys and the key    *)
(* set agree, no two accounts share an identifier that was not shared when  *)
(* they were loaded, the index finds every account's name and no other, and *)
(* test results are of accounts that exist.                                 *)
THEOREM StoreStaysConsistent == Spec => []StoreIsConsistent
<1>1. ASSUME StoreInv PROVE StoreIsConsistent
  <2>1. IsKept(store) /\ Bounded /\ StoreKept
    BY <1>1 DEF StoreInv, StoreKept
  <2>2. KeysAgree /\ IdentifiersUnique /\ IndexResolves /\ StatusOnlyForKnown
    BY <2>1, KeptIsConsistent
  <2>3. store.cfg.per \in Nat /\ store.cfg.global \in Nat
        /\ \A i \in DOMAIN store.cfg.accounts :
              IsAccount(store.cfg.accounts[i]) /\ Identifier(store.cfg.accounts[i]) # NoID
    BY <2>1 DEF IsKept, IsStored, IsReadConfig, KeptAccounts
  <2>4. marked \in BOOLEAN /\ overtaken \subseteq Handlers
    BY <1>1 DEF StoreInv, PublishInv, Shapes, Marks
  <2>5. TypeOK
    BY <2>1, <2>3, <2>4 DEF TypeOK, Bounded, StoreKept
  <2> QED  BY <2>2, <2>5 DEF StoreIsConsistent
<1> QED  BY <1>1, StoreInvariant, PTL

(***************************************************************************)
(* A restart serves what was saved.                                         *)
(***************************************************************************)

(* What a process serves of a configuration it finds in the file.           *)
Served(c) == NormalizeCredentials(DropInvalidAccounts(Unmarshal(c)))

(* The deployments in which a written file decides what is served.          *)
Stays == ~deploy.vercel /\ (deploy.env = "none" \/ deploy.writeback)

(* Where the file decides, an intact file serves exactly what was saved     *)
(* last; and a process without a variable never counts as served from it,   *)
(* so it does not skip a write.                                             *)
SavedInv ==
  /\ ~deploy.vercel /\ deploy.env = "none" => ~store.fromEnv
  /\ Stays /\ file.state = "written" => Served(file.cfg) = saved

(* A configuration a store holds is served as it is.                        *)
LEMMA StoredIsServed ==
  ASSUME NEW c, IsNamed(c), KeysInOrder(c)
  PROVE  Served(c) = c /\ NormalizeCredentials(c) = c
<1>1. c = [f \in DOMAIN EmptyConfig |-> c[f]] /\ IsList(c.accounts)
  BY DEF IsNamed, IsReadConfig
<1>2. NormalizeCredentials(c) = c
  BY <1>1, NormalizeIsStable
<1>3. {i \in DOMAIN c.accounts : Identifier(c.accounts[i]) # NoID} = DOMAIN c.accounts
  BY DEF IsNamed
<1>4. AtPositions(c.accounts, DOMAIN c.accounts) = c.accounts
  BY <1>1, SelectAll
<1>5. DropInvalidAccounts(c) = [c EXCEPT !.accounts = c.accounts]
  BY <1>3, <1>4 DEF DropInvalidAccounts
<1>6. DropInvalidAccounts(c) = c
  BY <1>1, <1>5
<1> QED  BY <1>2, <1>6 DEF Served, Unmarshal

(* A torn file that nothing else stands in for.                             *)
NothingElse == deploy.env = "broken" \/ (deploy.env = "none" /\ deploy.legacy = <<>>)

(* What loading gives: the file where it decides, and an error for a torn   *)
(* file when nothing else holds a configuration.                            *)
LEMMA LoadServes ==
  ASSUME NEW found, IsReadConfig(found.cfg), deploy \in Deployments,
         NEW l \in LoadConfig(found)
  PROVE  /\ ~deploy.vercel /\ deploy.env = "none" => ~l.fromEnv
         /\ Stays /\ l.file.state = "written" => Served(l.file.cfg) = l.cfg
         /\ Stays /\ found.state = "written" => l.cfg = Served(found.cfg)
         /\ found.state = "torn" /\ NothingElse /\ ~deploy.vercel => l.error
<1>1. Served(FromEnv) = NormalizeCredentials(FromEnv)
  <2>1. IsReadConfig(deploy.envConfig)
    BY InputsAssumption
  <2>2. IsNamed(FromEnv) /\ KeysInOrder(FromEnv)
    BY <2>1, ReadersGiveReadable, ReadersOrderKeys, DroppedIsNamed DEF FromEnv
  <2> QED  BY <2>2, StoredIsServed
<1>2. NormalizeCredentials(FromFile(found)) = Served(found.cfg)
  BY DEF FromFile, Served
<1>3. ASSUME NEW c, NEW fromEnv, NEW left, NEW error, l = Loaded(c, fromEnv, left, error)
      PROVE  /\ l.cfg = NormalizeCredentials(c) /\ l.fromEnv = fromEnv /\ l.file = left
             /\ error => l.error
  BY <1>3 DEF Loaded
<1>4. CASE deploy.env = "none" /\ ~deploy.vercel
  <2>1. l \in LoadWithoutEnv(found)
    BY <1>4 DEF LoadConfig
  <2>2. CASE found.state = "written"
    <3>1. l = Loaded(FromFile(found), deploy.vercel, found, FALSE)
      BY <2>1, <2>2 DEF LoadWithoutEnv
    <3>2. l.cfg = Served(found.cfg) /\ l.fromEnv = deploy.vercel /\ l.file = found
      BY <1>2, <1>3, <3>1
    <3> QED  BY <1>4, <2>2, <3>2
  <2>3. CASE found.state # "written" /\ deploy.legacy # <<>>
    <3>1. l = Loaded(FromFile(Written(deploy.legacy[1])), FALSE, found, FALSE)
      BY <2>1, <2>3 DEF LoadWithoutEnv
    <3>2. ~l.fromEnv /\ l.file = found
      BY <1>3, <3>1
    <3> QED  BY <1>4, <2>3, <3>2 DEF NothingElse
  <2>4. CASE found.state # "written" /\ deploy.legacy = <<>>
    <3>1. \E error \in {TRUE, found.state # "missing"} : l = Loaded(EmptyConfig, FALSE, found, error)
      BY <1>4, <2>1, <2>4 DEF LoadWithoutEnv
    <3>2. ~l.fromEnv /\ l.file = found /\ (found.state = "torn" => l.error)
      BY <1>3, <3>1
    <3> QED  BY <1>4, <2>4, <3>2 DEF NothingElse
  <2> QED  BY <2>2, <2>3, <2>4
<1>5. CASE deploy.env = "set" /\ Stays
  <2>1. \/ found.state = "written" /\ l = Loaded(FromFile(found), FALSE, found, FALSE)
        \/ found.state # "written" /\ l = Loaded(FromEnv, FALSE, Written(FromEnv), FALSE)
        \/ found.state # "written" /\ l = Loaded(FromEnv, TRUE, found, FALSE)
        \/ found.state # "written" /\ l = Loaded(FromEnv, TRUE, TornFile, FALSE)
    BY <1>5 DEF LoadConfig, LoadFromEnv, Stays
  <2>2. /\ Written(FromEnv).cfg = FromEnv /\ TornFile.state = "torn"
    BY DEF Written, TornFile
  <2>3. CASE l = Loaded(FromFile(found), FALSE, found, FALSE)
    <3>1. l.cfg = NormalizeCredentials(FromFile(found)) /\ l.file = found
      BY <1>3, <2>3
    <3> QED  BY <1>2, <1>5, <2>1, <3>1 DEF NothingElse
  <2>4. CASE found.state # "written" /\ l = Loaded(FromEnv, FALSE, Written(FromEnv), FALSE)
    <3>1. l.cfg = NormalizeCredentials(FromEnv) /\ l.file = Written(FromEnv)
      BY <1>3, <2>4
    <3> QED  BY <1>1, <1>5, <2>2, <2>4, <3>1 DEF NothingElse
  <2>5. CASE found.state # "written" /\ l.file \in {found, TornFile}
    BY <1>5, <2>2, <2>5 DEF NothingElse
  <2> QED  BY <1>3, <1>5, <2>1, <2>3, <2>4, <2>5 DEF NothingElse
<1>6. CASE deploy.env \notin {"none", "set"}
  <2>1. \/ found.state = "written" /\ l = Loaded(FromFile(found), FALSE, found, FALSE)
        \/ (Stays => found.state # "written") /\ l = Loaded(EmptyConfig, TRUE, found, TRUE)
    BY <1>6 DEF LoadConfig, Stays
  <2>2. CASE l = Loaded(FromFile(found), FALSE, found, FALSE) /\ found.state = "written"
    <3>1. l.cfg = NormalizeCredentials(FromFile(found)) /\ l.file = found
      BY <1>3, <2>2
    <3> QED  BY <1>2, <1>6, <2>2, <3>1
  <2>3. CASE (Stays => found.state # "written") /\ l = Loaded(EmptyConfig, TRUE, found, TRUE)
    <3>1. l.file = found /\ l.error
      BY <1>3, <2>3
    <3> QED  BY <1>6, <2>3, <3>1
  <2> QED  BY <2>1, <2>2, <2>3
<1>7. CASE deploy.env = "none" /\ deploy.vercel
  BY <1>7 DEF Stays
<1> QED  BY <1>4, <1>5, <1>6, <1>7 DEF Stays, NothingElse

(* The file of a process that has just started serves what it serves.       *)
LEMMA SavedInit == Init => SavedInv
<1> SUFFICES ASSUME Init PROVE SavedInv
  OBVIOUS
<1>1. PICK found \in Files : \E l \in LoadConfig(found) :
         store = NewStore(l) /\ file = l.file /\ saved = l.cfg
  BY DEF Init
<1>2. PICK l \in LoadConfig(found) : store = NewStore(l) /\ file = l.file /\ saved = l.cfg
  BY <1>1
<1>3. deploy \in Deployments /\ IsReadConfig(found.cfg)
  BY InputsAssumption DEF Init
<1> QED  BY <1>2, <1>3, LoadAgrees, LoadServes DEF SavedInv

(* So it does after a save, a failed one included.                          *)
LEMMA SavesKeepSaved ==
  ASSUME SavedInv, IsKept(store'), Saves, deploy' = deploy
  PROVE  SavedInv'
<1>1. Served(store'.cfg) = store'.cfg
  BY StoredIsServed, StoredIsNamed DEF IsKept, Agrees
<1>2. Stays => ~SkipsWrite(store)
  BY DEF SavedInv, Stays, SkipsWrite
<1>3. Stays' = Stays
  BY DEF Stays
<1>4. CASE file' = file /\ saved' = saved
  BY <1>3, <1>4 DEF SavedInv, Saves
<1>5. CASE file' = TornFile
  BY <1>5 DEF SavedInv, Saves, TornFile
<1>6. CASE file' = Written(store'.cfg) /\ saved' = store'.cfg
  BY <1>1, <1>6 DEF SavedInv, Saves, Written
<1>7. CASE SkipsWrite(store)
  BY <1>2, <1>3, <1>7 DEF SavedInv, Saves
<1> QED  BY <1>4, <1>5, <1>6, <1>7 DEF Saves

(* Every step keeps it: edits, crashes in the middle of a write and         *)
(* restarts.                                                                *)
LEMMA SavedStep == StoreInv /\ SavedInv /\ [Next]_vars => SavedInv'
<1> SUFFICES ASSUME StoreInv, SavedInv, [Next]_vars PROVE SavedInv'
  OBVIOUS
<1>1. /\ PublishInv /\ Bounded /\ StoreKept /\ Shapes
      /\ IsKept(store) /\ store.fromEnv \in BOOLEAN
  BY DEF StoreInv, StoreKept, PublishInv
<1>2. ASSUME Quiet PROVE SavedInv'
  BY <1>2, SavesKeepSaved DEF Quiet
<1>3. ASSUME UNCHANGED storeVars PROVE SavedInv'
  BY <1>3 DEF SavedInv, Stays, storeVars
<1>4. ASSUME NEW p \in Handlers, NEW r \in Requests, Receive(p, r) PROVE SavedInv'
  BY <1>3, <1>4 DEF Receive
<1>5. ASSUME NEW p \in Handlers, NEW write \in Writes, Edit(p, write) PROVE SavedInv'
  BY <1>1, <1>5, EditStep, SavesKeepSaved
<1>6. ASSUME NEW p \in Handlers, NEW write \in Writes,
             \/ LoginSucceeds(p, write) \/ ValidateAccount(p, write)
             \/ SaveCredentials(p, write) \/ MarkSynced(p, write)
      PROVE  SavedInv'
  BY <1>1, <1>2, <1>6, QuietSteps
<1>7. ASSUME NEW p \in Handlers, RecordStatus(p) PROVE SavedInv'
  <2>1. "ok" \in Writes  BY DEF Writes
  <2> QED  BY <1>1, <1>2, <1>7, <2>1, QuietSteps
<1>8. ASSUME NEW p \in Handlers,
             \/ ReadAccounts(p) \/ ReadLimits(p) \/ Install(p) \/ LoginFails(p) \/ CallFails(p)
             \/ CallSucceeds(p) \/ ExportSyncConfig(p)
      PROVE  SavedInv'
  BY <1>3, <1>8 DEF ReadAccounts, ReadLimits, Install, LoginFails, CallFails, CallSucceeds,
                    ExportSyncConfig
<1>9. ASSUME NEW p \in Handlers, NEW taken \in BOOLEAN, NEW answered \in BOOLEAN,
             UpsertVercelEnv(p, taken, answered)
      PROVE  SavedInv'
  BY <1>3, <1>9 DEF UpsertVercelEnv
<1>10. ASSUME NEW cut \in BOOLEAN, Crash(cut) PROVE SavedInv'
  <2>1. store' = store /\ deploy' = deploy /\ saved' = saved /\ file' \in {file, TornFile}
    BY <1>10 DEF Crash
  <2> QED  BY <2>1 DEF SavedInv, Stays, TornFile
<1>11. ASSUME Restart PROVE SavedInv'
  <2>1. PICK l \in LoadConfig(file) : store' = NewStore(l) /\ file' = l.file /\ saved' = l.cfg
    BY <1>11 DEF Restart, Started
  <2>2. deploy' = deploy /\ deploy \in Deployments
    BY <1>1, <1>11 DEF Restart, Shapes
  <2>3. NewStore(l).fromEnv = l.fromEnv
    BY <1>1, <2>2, LoadAgrees DEF StoreKept
  <2>4. /\ ~deploy.vercel /\ deploy.env = "none" => ~l.fromEnv
        /\ Stays /\ l.file.state = "written" => Served(l.file.cfg) = l.cfg
    BY <1>1, <2>2, LoadServes DEF StoreKept
  <2> QED  BY <2>1, <2>2, <2>3, <2>4 DEF SavedInv, Stays
<1>12. ASSUME UNCHANGED vars PROVE SavedInv'
  BY <1>3, <1>12 DEF vars
<1> QED
  BY <1>4, <1>5, <1>6, <1>7, <1>8, <1>9, <1>10, <1>11, <1>12, Zenon DEF Next

(* It holds in every reachable state, with the store's invariant.           *)
LEMMA SavedInvariant == Spec => [](StoreInv /\ SavedInv)
<1>1. StoreInv /\ SavedInv /\ [Next]_vars => (StoreInv /\ SavedInv)'
  BY StoreStep, SavedStep
<1> QED  BY StoreInit, SavedInit, <1>1, PTL DEF Spec

(* A process that is down can only start again.                             *)
LEMMA DownStep ==
  ASSUME Bounded, ~up, Next
  PROVE  Restart
<1>1. \A p \in Handlers : pc[p] = "idle"
  BY DEF Bounded
<1>2. ASSUME NEW p \in Handlers, NEW r \in Requests, Receive(p, r) PROVE FALSE
  BY <1>2 DEF Receive
<1>3. ASSUME NEW p \in Handlers, NEW write \in Writes,
             \/ Edit(p, write) \/ LoginSucceeds(p, write) \/ ValidateAccount(p, write)
             \/ SaveCredentials(p, write) \/ MarkSynced(p, write)
      PROVE  FALSE
  BY <1>1, <1>3 DEF Edit, LoginSucceeds, ValidateAccount, SaveCredentials, MarkSynced
<1>4. ASSUME NEW p \in Handlers,
             \/ ReadAccounts(p) \/ ReadLimits(p) \/ Install(p) \/ LoginFails(p) \/ CallFails(p)
             \/ CallSucceeds(p) \/ RecordStatus(p) \/ ExportSyncConfig(p)
      PROVE  FALSE
  BY <1>1, <1>4 DEF ReadAccounts, ReadLimits, Install, LoginFails, CallFails, CallSucceeds,
                    RecordStatus, ExportSyncConfig
<1>5. ASSUME NEW p \in Handlers, NEW taken \in BOOLEAN, NEW answered \in BOOLEAN,
             UpsertVercelEnv(p, taken, answered)
      PROVE  FALSE
  BY <1>1, <1>5 DEF UpsertVercelEnv
<1>6. ASSUME NEW cut \in BOOLEAN, Crash(cut) PROVE FALSE
  BY <1>6 DEF Crash
<1> QED  BY <1>2, <1>3, <1>4, <1>5, <1>6, Zenon DEF Next

(* A restart that finds an intact file, where the file decides, serves what *)
(* was saved last, whatever crashed in between; one that finds a torn file  *)
(* and no other source, neither a variable nor an older image's file,       *)
(* serves nothing.                                                          *)
THEOREM RestartsServeWhatWasSaved == Spec => RestartRestores
<1>1. ASSUME StoreInv, SavedInv, [Next]_vars
      PROVE  [~up =>
                /\ /\ up' /\ file.state = "written" /\ ~deploy.vercel
                   /\ deploy.env = "none" \/ deploy.writeback
                   => store'.cfg = saved
                /\ /\ file.state = "torn" /\ ~deploy.vercel
                   /\ deploy.env = "broken" \/ (deploy.env = "none" /\ deploy.legacy = <<>>)
                   => ~up']_vars
  <2> SUFFICES ASSUME Next, ~up
               PROVE  /\ /\ up' /\ file.state = "written" /\ ~deploy.vercel
                         /\ deploy.env = "none" \/ deploy.writeback
                         => store'.cfg = saved
                      /\ file.state = "torn" /\ ~deploy.vercel /\ NothingElse => ~up'
    BY <1>1 DEF NothingElse
  <2>1. Restart
    BY <1>1, DownStep DEF StoreInv
  <2>2. PICK l \in LoadConfig(file) : store' = NewStore(l) /\ up' = ~l.error
    BY <2>1 DEF Restart, Started
  <2>3. deploy \in Deployments /\ IsReadConfig(file.cfg)
    BY <1>1 DEF StoreInv, StoreKept, PublishInv, Shapes
  <2>4. NewStore(l).cfg = l.cfg
    BY <2>3, LoadAgrees
  <2>5. /\ Stays /\ file.state = "written" => l.cfg = Served(file.cfg)
        /\ file.state = "torn" /\ NothingElse /\ ~deploy.vercel => l.error
    BY <2>3, LoadServes
  <2> QED  BY <1>1, <2>2, <2>4, <2>5 DEF SavedInv, Stays
<1> QED  BY <1>1, SavedInvariant, PTL DEF Spec, RestartRestores

(***************************************************************************)
(* The pool follows the store.                                              *)
(***************************************************************************)

(* The identifiers of the accounts.                                         *)
Names(c) == {Identifier(c.accounts[i]) : i \in DOMAIN c.accounts}

(* The ids are those of the configuration's accounts, as many as there are. *)
HasIDs(ids, c) == ToSet(ids) = Names(c) /\ Len(ids) = Len(c.accounts)

(* The pool has the limits a refresh from the configuration gives it;       *)
(* without accounts the global one depends on which refresh it was.         *)
HasLimits(p, c) ==
  /\ p.per = RuntimeAccountMaxInflight(c)
  /\ Len(c.accounts) # 0 =>
       p.global = IF c.global > 0 THEN c.global
                  ELSE Len(c.accounts) * RuntimeAccountMaxInflight(c)

(* The fields of the pool.                                                  *)
IsPool(p) == DOMAIN p = {"ids", "per", "global"}

(* The pool's queue of a configuration has its accounts, tokens first.      *)
LEMMA PoolHasAccounts ==
  ASSUME NEW c, IsNamed(c)
  PROVE  IsList(PoolIDs(c)) /\ HasIDs(PoolIDs(c), c)
<1> DEFINE a == c.accounts
           K == {i \in DOMAIN a : (a[i].token # "") = TRUE /\ Identifier(a[i]) # NoID}
           L == {i \in DOMAIN a : (a[i].token # "") = FALSE /\ Identifier(a[i]) # NoID}
           s == AtPositions(a, K)
           t == AtPositions(a, L)
           u == s \o t
           ids == [i \in DOMAIN u |-> Identifier(u[i])]
<1>1. PoolIDs(c) = ids
  BY DEF PoolIDs
<1>2. IsList(a) /\ \A i \in DOMAIN a : Identifier(a[i]) # NoID
  BY DEF IsNamed, IsReadConfig
<1>3. K \in SUBSET (DOMAIN a) /\ L \in SUBSET (DOMAIN a) /\ K \cap L = {} /\ K \cup L = DOMAIN a
  BY <1>2
<1> HIDE DEF a, K, L
<1>4. /\ IsFiniteSet(K) /\ IsFiniteSet(L)
      /\ \A k \in K \cup L : k \in Int
  BY <1>2, <1>3, PositionsAreFinite
<1>5. DOMAIN a = 1 .. Len(a) /\ Len(a) \in Nat
  BY <1>2, ListShape
<1>6. Cardinality(K) + Cardinality(L) = Len(a) /\ Cardinality(K) \in Nat /\ Cardinality(L) \in Nat
  <2>1. Cardinality(K \cup L) = Cardinality(K) + Cardinality(L) - Cardinality(K \cap L)
    BY <1>4, FS_Union
  <2>2. Cardinality(1 .. Len(a)) = Len(a)
    <3> DEFINE n == Len(a)
    <3>1. n \in Int /\ 1 \in Int /\ n >= 0
      BY <1>5
    <3> HIDE DEF n
    <3>2. Cardinality(1 .. n) = IF 1 > n THEN 0 ELSE n - 1 + 1
      BY <3>1, FS_Interval
    <3>3. Cardinality(1 .. n) = n
      BY <3>1, <3>2
    <3> QED  BY <3>3 DEF n
  <2>3. Cardinality(K \cap L) = 0
    BY <1>3, FS_EmptySet
  <2>4. Cardinality(K) \in Nat /\ Cardinality(L) \in Nat
    BY <1>4, FS_CardinalityType
  <2>5. Cardinality(K \cup L) = Len(a)
    BY <1>3, <1>5, <2>2
  <2> QED  BY <2>1, <2>3, <2>4, <2>5
<1>7. /\ IsList(s) /\ Len(s) = Cardinality(K)
      /\ \E pos : InOrder(pos, K) /\ \A n \in 1 .. Cardinality(K) : s[n] = a[pos[n]]
  BY <1>2, <1>3, Selection
<1>8. /\ IsList(t) /\ Len(t) = Cardinality(L)
      /\ \E pos : InOrder(pos, L) /\ \A n \in 1 .. Cardinality(L) : t[n] = a[pos[n]]
  BY <1>2, <1>3, Selection
<1> HIDE DEF s, t
<1>9. PICK f : InOrder(f, K) /\ \A n \in 1 .. Cardinality(K) : s[n] = a[f[n]]
  BY <1>7
<1>10. PICK g : InOrder(g, L) /\ \A n \in 1 .. Cardinality(L) : t[n] = a[g[n]]
  BY <1>8
<1>11. /\ IsList(u) /\ Len(u) = Len(s) + Len(t)
       /\ \A i \in 1 .. Len(s) : u[i] = s[i]
       /\ \A i \in 1 .. Len(t) : u[Len(s) + i] = t[i]
       /\ \A i \in 1 .. Len(s) + Len(t) :
            i \in 1 .. Len(s) \/ \E j \in 1 .. Len(t) : i = Len(s) + j
  BY <1>7, <1>8, ListConcat
<1> HIDE DEF u
<1>12. /\ IsList(u) /\ Len(u) = Len(a)
       /\ \A i \in 1 .. Len(s) : u[i] = s[i]
       /\ \A i \in 1 .. Len(t) : u[Len(s) + i] = t[i]
       /\ \A i \in 1 .. Len(u) : i \in 1 .. Len(s) \/ \E j \in 1 .. Len(t) : i = Len(s) + j
  BY <1>6, <1>7, <1>8, <1>11
<1>13. DOMAIN u = 1 .. Len(u)
  BY <1>12, ListShape
<1>14. \A i \in 1 .. Len(u) : \E k \in DOMAIN a : u[i] = a[k]
  <2> TAKE i \in 1 .. Len(u)
  <2>1. CASE i \in 1 .. Len(s)
    <3>1. f[i] \in K /\ u[i] = a[f[i]]
      BY <1>7, <1>9, <1>12, <2>1 DEF InOrder
    <3> QED  BY <1>3, <3>1
  <2>2. CASE \E j \in 1 .. Len(t) : i = Len(s) + j
    <3>1. PICK j \in 1 .. Len(t) : i = Len(s) + j
      BY <2>2
    <3>2. g[j] \in L /\ u[i] = a[g[j]]
      BY <1>8, <1>10, <1>12, <3>1 DEF InOrder
    <3> QED  BY <1>3, <3>2
  <2> QED  BY <1>12, <2>1, <2>2
<1>15. \A k \in DOMAIN a : \E i \in 1 .. Len(u) : u[i] = a[k]
  <2> TAKE k \in DOMAIN a
  <2>1. CASE k \in K
    <3>1. PICK n \in 1 .. Cardinality(K) : f[n] = k
      BY <1>9, <2>1 DEF InOrder
    <3>2. u[n] = a[k] /\ n \in 1 .. Len(u)
      BY <1>6, <1>7, <1>9, <1>12, <3>1
    <3> QED  BY <3>2
  <2>2. CASE k \in L
    <3>1. PICK n \in 1 .. Cardinality(L) : g[n] = k
      BY <1>10, <2>2 DEF InOrder
    <3>2. u[Len(s) + n] = a[k] /\ Len(s) + n \in 1 .. Len(u)
      BY <1>6, <1>7, <1>8, <1>10, <1>12, <3>1
    <3> QED  BY <3>2
  <2> QED  BY <1>3, <2>1, <2>2
<1>16. /\ ids = [i \in 1 .. Len(a) |-> ids[i]]
       /\ \A i \in 1 .. Len(a) : ids[i] = Identifier(u[i])
  BY <1>12, <1>13
<1> HIDE DEF ids
<1>17. IsList(ids) /\ Len(ids) = Len(a) /\ DOMAIN ids = 1 .. Len(a)
  BY <1>5, <1>16, MakeList
<1>18. ToSet(ids) = Names(c)
  <2>1. \A i \in DOMAIN ids : \E k \in DOMAIN a : ids[i] = Identifier(a[k])
    BY <1>12, <1>14, <1>16, <1>17
  <2>2. \A k \in DOMAIN a : \E i \in DOMAIN ids : ids[i] = Identifier(a[k])
    BY <1>12, <1>15, <1>16, <1>17
  <2>3. Names(c) = {Identifier(a[k]) : k \in DOMAIN a}
    BY DEF Names, a
  <2> QED  BY <2>1, <2>2, <2>3 DEF ToSet
<1> QED  BY <1>1, <1>17, <1>18 DEF HasIDs, a

(* The same accounts by name are the same names.                            *)
LEMMA SameNames ==
  ASSUME NEW c, NEW d, IsReadConfig(c), IsReadConfig(d), SameAccounts(c, d)
  PROVE  Names(d) = Names(c) /\ Len(d.accounts) = Len(c.accounts)
<1>1. IsList(c.accounts) /\ IsList(d.accounts)
  BY DEF IsReadConfig
<1>2. DOMAIN d.accounts = DOMAIN c.accounts /\ Len(d.accounts) = Len(c.accounts)
  BY <1>1, ListShape DEF SameAccounts
<1> QED  BY <1>2 DEF SameAccounts, Names

(* A pool reset and new limits give the pool of the configuration.          *)
LEMMA ResetFits ==
  ASSUME NEW c, IsReadConfig(c), NEW ids, HasIDs(ids, c)
  PROVE  /\ IsPool(ResetPool(ids, c)) /\ ResetPool(ids, c).ids = ids
         /\ HasLimits(ResetPool(ids, c), c)
         /\ IsPool(ApplyRuntimeSettings(ids, c)) /\ ApplyRuntimeSettings(ids, c).ids = ids
         /\ HasLimits(ApplyRuntimeSettings(ids, c), c)
<1>1. Len(c.accounts) \in Nat /\ Len(ids) = Len(c.accounts)
  BY ListShape DEF IsReadConfig, HasIDs
<1>2. Len(c.accounts) # 0 => Max({1, Len(ids)}) = Len(ids)
  BY <1>1 DEF Max
<1> HIDE DEF RuntimeAccountMaxInflight
<1> QED  BY <1>1, <1>2 DEF IsPool, HasLimits, ResetPool, ApplyRuntimeSettings, PoolWith

(* A handler whose edit is saved and which has not refreshed the pool yet.  *)
Pending(p) == pc[p] \in {"accounts", "limits", "install"}

(* Only edits that refresh the pool are pending, and what one is about to   *)
(* install is a pool.                                                       *)
Refreshes ==
  /\ \A p \in Handlers : Pending(p) => ResetsPool(req[p].op) \/ req[p].op = "updateSettings"
  /\ \A p \in Handlers : pc[p] = "install" => IsPool(held[p][1])

(* What was read for the pool is still what the store holds, and the pool   *)
(* has the accounts unless a reset is pending, and the limits unless a      *)
(* refresh is.                                                              *)
Follows ==
  /\ \A p \in Handlers : pc[p] = "limits" => HasIDs(held[p][1], store.cfg)
  /\ \A p \in Handlers : pc[p] = "install" =>
        HasIDs(held[p][1].ids, store.cfg) /\ HasLimits(held[p][1], store.cfg)
  /\ (\A p \in Handlers : Pending(p) => ~ResetsPool(req[p].op)) => HasIDs(pool.ids, store.cfg)
  /\ (\A p \in Handlers : ~Pending(p)) => HasLimits(pool, store.cfg)

(* The inductive invariant behind the pool's contents: with nothing failed  *)
(* and no change crossing a refresh, every refresh under way will install   *)
(* what the store holds.                                                    *)
PoolInv == Refreshes /\ (up /\ failures = 0 /\ ~crossed => Follows)

(* A quiet step changes neither which ids nor which limits are right.       *)
LEMMA QuietFollows ==
  ASSUME IsKept(store), Quiet
  PROVE  /\ IsNamed(store.cfg) /\ IsNamed(store'.cfg)
         /\ \A ids : HasIDs(ids, store'.cfg) <=> HasIDs(ids, store.cfg)
         /\ \A p : HasLimits(p, store'.cfg) <=> HasLimits(p, store.cfg)
<1>1. /\ IsNamed(store.cfg) /\ IsNamed(store'.cfg)
      /\ IsReadConfig(store.cfg) /\ IsReadConfig(store'.cfg)
      /\ SameAccounts(store.cfg, store'.cfg) /\ SameLimits(store.cfg, store'.cfg)
  BY StoredIsNamed DEF IsKept, IsNamed, Quiet
<1>2. Names(store'.cfg) = Names(store.cfg) /\ Len(store'.cfg.accounts) = Len(store.cfg.accounts)
  BY <1>1, SameNames
<1> QED  BY <1>1, <1>2 DEF HasIDs, HasLimits, SameLimits, RuntimeAccountMaxInflight

(* The pool of a process that has just started is right.                    *)
LEMMA IdleIsFresh ==
  ASSUME NEW c, IsNamed(c)
  PROVE  /\ HasIDs(ResetPool(PoolIDs(c), c).ids, c)
         /\ HasLimits(ResetPool(PoolIDs(c), c), c)
BY PoolHasAccounts, ResetFits DEF IsNamed

(* Only one handler moved.                                                  *)
Only(p) ==
  \A q \in Handlers \ {p} : pc'[q] = pc[q] /\ req'[q] = req[q] /\ held'[q] = held[q]

(* A handler's step moves it alone.                                         *)
LEMMA StepsAreAlone ==
  ASSUME Shapes, NEW p \in Handlers, NEW step, NEW h, GoTo(p, step, h) \/ Reply(p)
  PROVE  /\ Only(p)
         /\ \/ pc'[p] = step /\ held'[p] = h /\ req' = req
            \/ pc'[p] = "idle"
BY DEF Shapes, GoTo, Reply, Only

(* A handler that is not refreshing the pool, and changes nothing of the    *)
(* store that the pool has, keeps the invariant.                            *)
LEMMA BesidesPool ==
  ASSUME Shapes, IsKept(store), failures \in Nat, PoolInv, NEW p \in Handlers, Only(p), Quiet,
         ~Pending(p), pc'[p] \notin {"accounts", "limits", "install"},
         pool' = pool, up' = up, crossed' = crossed, failures' = 0 => failures = 0
  PROVE  PoolInv'
<1>1. Refreshes'
  BY DEF PoolInv, Refreshes, Pending, Only
<1>2. /\ \A ids : HasIDs(ids, store'.cfg) <=> HasIDs(ids, store.cfg)
      /\ \A q : HasLimits(q, store'.cfg) <=> HasLimits(q, store.cfg)
  BY QuietFollows
<1>3. ASSUME Follows PROVE Follows'
  <2>1. /\ \A q \in Handlers : pc'[q] = "limits" => HasIDs(held'[q][1], store'.cfg)
        /\ \A q \in Handlers : pc'[q] = "install" =>
             HasIDs(held'[q][1].ids, store'.cfg) /\ HasLimits(held'[q][1], store'.cfg)
    BY <1>2, <1>3, Zenon DEF Follows, Only
  <2>2. (\A q \in Handlers : Pending(q)' => ~ResetsPool(req'[q].op))
           => \A q \in Handlers : Pending(q) => ~ResetsPool(req[q].op)
    BY DEF Pending, Only
  <2>3. (\A q \in Handlers : ~Pending(q)') => \A q \in Handlers : ~Pending(q)
    BY DEF Pending, Only
  <2> QED  BY <1>2, <1>3, <2>1, <2>2, <2>3, Zenon DEF Follows
<1> QED  BY <1>1, <1>3 DEF PoolInv

(* The invariant holds of a process that has just started.                  *)
LEMMA PoolInit == Init => PoolInv
<1> SUFFICES ASSUME Init PROVE PoolInv
  OBVIOUS
<1>1. PICK found \in Files : \E l \in LoadConfig(found) :
         store = NewStore(l) /\ pool = ResetPool(PoolIDs(l.cfg), l.cfg)
  BY DEF Init
<1>2. PICK l \in LoadConfig(found) :
         store = NewStore(l) /\ pool = ResetPool(PoolIDs(l.cfg), l.cfg)
  BY <1>1
<1>3. deploy \in Deployments /\ IsReadConfig(found.cfg)
  BY InputsAssumption DEF Init
<1>4. store.cfg = l.cfg /\ IsNamed(store.cfg)
  BY <1>2, <1>3, LoadAgrees
<1>5. HasIDs(pool.ids, store.cfg) /\ HasLimits(pool, store.cfg)
  BY <1>2, <1>4, IdleIsFresh
<1>6. \A p \in Handlers : pc[p] = "idle"
  BY DEF Init, AllIdle
<1> QED  BY <1>5, <1>6 DEF PoolInv, Refreshes, Follows, Pending

(* An edit keeps it: it becomes pending if the pool needs it, and crosses   *)
(* any refresh that is under way.                                           *)
LEMMA PoolEdit ==
  ASSUME StoreInv, PoolInv, NEW p \in Handlers, NEW write \in Writes, Edit(p, write)
  PROVE  PoolInv'
<1> DEFINE next == Mutate(store.cfg, req[p], held[p][1])
<1>1. /\ Shapes /\ IsKept(store) /\ store.fromEnv \in BOOLEAN /\ failures \in Nat
  BY BoundsAssumption DEF StoreInv, PublishInv, StoreKept, Bounded
<1>2. /\ pc[p] = "edit" /\ up' = up /\ pool' = pool /\ deploy' = deploy
      /\ twice' = twice /\ Fails(write)
  BY DEF Edit
<1>3. /\ IsKept(store') /\ Saves
      /\ ~ResetsPool(req[p].op) => SameAccounts(store.cfg, store'.cfg)
      /\ AfterEdit(req[p].op) = "done" => SameLimits(store.cfg, store'.cfg)
  BY <1>1, EditStep
<1>4. failures' = 0 => write = "ok" /\ failures = 0
  BY <1>1, <1>2 DEF Fails
<1>5. CASE next = Refuse
  <2>1. Reply(p) /\ UNCHANGED storeVars /\ crossed' = crossed
    BY <1>2, <1>5, Zenon DEF Edit, storeVars
  <2>2. Quiet
    BY <1>1, <1>2, <2>1, NothingIsQuiet
  <2>3. Only(p) /\ pc'[p] = "idle"
    BY <1>1, <2>1 DEF Shapes, Reply, Only
  <2>4. ~Pending(p) /\ pc'[p] \notin {"accounts", "limits", "install"}
    BY <1>2, <2>3 DEF Pending
  <2> QED  BY <1>1, <1>2, <1>4, <2>1, <2>2, <2>3, <2>4, BesidesPool
<1>6. CASE next # Refuse
  <2>1. /\ Cross
        /\ \/ write = "ok" /\ AfterEdit(req[p].op) # "done" /\ GoTo(p, "accounts", <<>>)
           \/ ~(write = "ok" /\ AfterEdit(req[p].op) # "done") /\ Reply(p)
    BY <1>6, Zenon DEF Edit
  <2>2. Only(p)
    BY <1>1, <2>1, StepsAreAlone
  <2>3. \/ /\ write = "ok" /\ AfterEdit(req[p].op) # "done"
           /\ pc'[p] = "accounts" /\ req'[p] = req[p]
        \/ ~(write = "ok" /\ AfterEdit(req[p].op) # "done") /\ pc'[p] = "idle"
    BY <1>1, <2>1 DEF GoTo, Reply, Shapes
  <2>4. Refreshes'
    <3>1. AfterEdit(req[p].op) # "done" => ResetsPool(req[p].op) \/ req[p].op = "updateSettings"
      BY DEF AfterEdit
    <3>2. \A q \in Handlers \ {p} : Pending(q)' => ResetsPool(req'[q].op) \/ req'[q].op = "updateSettings"
      BY <2>2 DEF PoolInv, Refreshes, Pending, Only
    <3>3. Pending(p)' => ResetsPool(req'[p].op) \/ req'[p].op = "updateSettings"
      BY <2>3, <3>1 DEF Pending
    <3>4. \A q \in Handlers : pc'[q] = "install" => IsPool(held'[q][1])
      BY <2>2, <2>3 DEF PoolInv, Refreshes, Only
    <3> QED  BY <3>2, <3>3, <3>4 DEF Refreshes
  <2>5. ASSUME up', failures' = 0, ~crossed' PROVE Follows'
    <3>1. ~crossed /\ \A q \in Handlers : ~Refreshing(q)
      BY <2>1, <2>5, Zenon DEF Cross
    <3>2. Follows /\ write = "ok"
      BY <1>2, <1>4, <2>5, <3>1 DEF PoolInv
    <3>3. \A q \in Handlers : pc'[q] \notin {"limits", "install"}
      BY <2>2, <2>3, <3>1 DEF Only, Refreshing
    <3>4. IsReadConfig(store.cfg) /\ IsReadConfig(store'.cfg)
      BY <1>1, <1>3 DEF IsKept, IsStored
    <3>5. ASSUME \A q \in Handlers : Pending(q)' => ~ResetsPool(req'[q].op)
          PROVE  HasIDs(pool'.ids, store'.cfg)
      <4>1. ~ResetsPool(req[p].op)
        <5>1. ResetsPool(req[p].op) => AfterEdit(req[p].op) # "done"
          BY DEF AfterEdit
        <5> QED  BY <2>3, <3>2, <3>5, <5>1 DEF Pending
      <4>2. Names(store'.cfg) = Names(store.cfg) /\ Len(store'.cfg.accounts) = Len(store.cfg.accounts)
        BY <1>3, <3>4, <4>1, SameNames
      <4>3. \A q \in Handlers : Pending(q) => ~ResetsPool(req[q].op)
        BY <1>2, <2>2, <3>5 DEF Pending, Only
      <4>4. HasIDs(pool.ids, store.cfg)
        BY <3>2, <4>3 DEF Follows
      <4> QED  BY <1>2, <4>2, <4>4 DEF HasIDs
    <3>6. ASSUME \A q \in Handlers : ~Pending(q)'
          PROVE  HasLimits(pool', store'.cfg)
      <4>1. AfterEdit(req[p].op) = "done"
        BY <2>3, <3>2, <3>6 DEF Pending
      <4>2. ~ResetsPool(req[p].op)
        BY <4>1 DEF AfterEdit
      <4>3. Names(store'.cfg) = Names(store.cfg) /\ Len(store'.cfg.accounts) = Len(store.cfg.accounts)
        BY <1>3, <3>4, <4>2, SameNames
      <4>4. \A q \in Handlers : ~Pending(q)
        BY <1>2, <2>2, <3>6 DEF Pending, Only
      <4>5. HasLimits(pool, store.cfg) /\ SameLimits(store.cfg, store'.cfg)
        BY <1>3, <3>2, <4>1, <4>4 DEF Follows
      <4> QED  BY <1>2, <4>3, <4>5 DEF HasLimits, SameLimits, RuntimeAccountMaxInflight
    <3> QED  BY <3>3, <3>5, <3>6, Zenon DEF Follows
  <2> QED  BY <2>4, <2>5 DEF PoolInv
<1> QED  BY <1>5, <1>6

(* The steps of a refresh keep it.                                          *)
LEMMA PoolRefreshes ==
  ASSUME StoreInv, PoolInv, NEW p \in Handlers, ReadAccounts(p) \/ ReadLimits(p) \/ Install(p)
  PROVE  PoolInv'
<1>1. Shapes /\ IsNamed(store.cfg) /\ IsReadConfig(store.cfg)
  BY StoredIsNamed DEF StoreInv, PublishInv, StoreKept, IsKept, IsNamed
<1>2. store' = store /\ up' = up /\ crossed' = crossed /\ failures' = failures
  BY DEF ReadAccounts, ReadLimits, Install, storeVars, budget
<1>3. CASE ReadAccounts(p)
  <2>1. /\ pc[p] = "accounts" /\ pool' = pool /\ Only(p)
        /\ pc'[p] = "limits" /\ held'[p][1] = PoolIDs(store.cfg) /\ req' = req
    BY <1>1, <1>3 DEF ReadAccounts, GoTo, Shapes, Only
  <2>2. HasIDs(held'[p][1], store.cfg)
    BY <1>1, <2>1, PoolHasAccounts
  <2>3. Refreshes'
    BY <2>1 DEF PoolInv, Refreshes, Pending, Only
  <2>4. Follows => Follows'
    <3>1. \A q \in Handlers : Pending(q)' <=> Pending(q)
      BY <2>1 DEF Pending, Only
    <3>2. \A q \in Handlers \ {p} : pc'[q] = pc[q] /\ held'[q] = held[q]
      BY <2>1 DEF Only
    <3> QED  BY <1>2, <2>1, <2>2, <3>1, <3>2 DEF Follows
  <2> QED  BY <1>2, <2>3, <2>4 DEF PoolInv
<1>4. CASE ReadLimits(p)
  <2>1. /\ pc[p] = "limits" /\ pool' = pool /\ Only(p) /\ req' = req
        /\ pc'[p] = "install"
        /\ held'[p][1] \in {ResetPool(held[p][1], store.cfg),
                            ApplyRuntimeSettings(held[p][1], store.cfg)}
    BY <1>1, <1>4 DEF ReadLimits, GoTo, Shapes, Only
  <2>2. Refreshes'
    <3>1. IsPool(held'[p][1])
      BY <2>1 DEF ResetPool, ApplyRuntimeSettings, PoolWith, IsPool
    <3> QED  BY <2>1, <3>1 DEF PoolInv, Refreshes, Pending, Only
  <2>3. Follows => Follows'
    <3> SUFFICES ASSUME Follows PROVE Follows'
      OBVIOUS
    <3>1. \A q \in Handlers : Pending(q)' <=> Pending(q)
      BY <2>1 DEF Pending, Only
    <3>2. \A q \in Handlers \ {p} : pc'[q] = pc[q] /\ held'[q] = held[q]
      BY <2>1 DEF Only
    <3>3. HasIDs(held[p][1], store.cfg)
      BY <2>1 DEF Follows
    <3>4. HasIDs(held'[p][1].ids, store.cfg) /\ HasLimits(held'[p][1], store.cfg)
      BY <1>1, <2>1, <3>3, ResetFits
    <3> QED  BY <1>2, <2>1, <3>1, <3>2, <3>4 DEF Follows
  <2> QED  BY <1>2, <2>2, <2>3 DEF PoolInv
<1>5. CASE Install(p)
  <2>1. /\ pc[p] = "install" /\ Only(p) /\ pc'[p] = "idle"
        /\ pool' = IF ResetsPool(req[p].op) THEN held[p][1]
                   ELSE [held[p][1] EXCEPT !.ids = pool.ids]
    BY <1>1, <1>5 DEF Install, Reply, Shapes, Only
  <2>2. IsPool(held[p][1])
    BY <2>1 DEF PoolInv, Refreshes
  <2>3. Refreshes'
    BY <2>1 DEF PoolInv, Refreshes, Pending, Only
  <2>4. Follows => Follows'
    <3> SUFFICES ASSUME Follows PROVE Follows'
      OBVIOUS
    <3>1. HasIDs(held[p][1].ids, store.cfg) /\ HasLimits(held[p][1], store.cfg)
      BY <2>1 DEF Follows
    <3>2. /\ pool'.per = held[p][1].per /\ pool'.global = held[p][1].global
          /\ pool'.ids = IF ResetsPool(req[p].op) THEN held[p][1].ids ELSE pool.ids
      <4> HIDE DEF ResetsPool
      <4> QED  BY <2>1, <2>2 DEF IsPool
    <3>3. HasLimits(pool', store'.cfg)
      BY <1>2, <3>1, <3>2 DEF HasLimits
    <3>4. (\A q \in Handlers : Pending(q)' => ~ResetsPool(req'[q].op))
             => HasIDs(pool'.ids, store'.cfg)
      <4> SUFFICES ASSUME \A q \in Handlers : Pending(q)' => ~ResetsPool(req'[q].op)
                   PROVE  HasIDs(pool'.ids, store.cfg)
        BY <1>2
      <4>1. CASE ResetsPool(req[p].op)
        BY <3>1, <3>2, <4>1
      <4>2. CASE ~ResetsPool(req[p].op)
        <5>1. \A q \in Handlers : Pending(q) => ~ResetsPool(req[q].op)
          BY <2>1, <4>2 DEF Pending, Only
        <5> QED  BY <3>2, <4>2, <5>1 DEF Follows
      <4> QED  BY <4>1, <4>2
    <3>5. /\ \A q \in Handlers : pc'[q] = "limits" => HasIDs(held'[q][1], store'.cfg)
          /\ \A q \in Handlers : pc'[q] = "install" =>
               HasIDs(held'[q][1].ids, store'.cfg) /\ HasLimits(held'[q][1], store'.cfg)
      BY <1>2, <2>1 DEF Follows, Only
    <3> QED  BY <3>3, <3>4, <3>5 DEF Follows
  <2> QED  BY <1>2, <2>3, <2>4 DEF PoolInv
<1> QED  BY <1>3, <1>4, <1>5

(* So do the steps of handlers that do not refresh the pool.                *)
LEMMA PoolOthers ==
  ASSUME StoreInv, PoolInv, NEW p \in Handlers, Only(p), ~Pending(p),
         pc'[p] \notin {"accounts", "limits", "install"}, Quiet,
         pool' = pool, up' = up, crossed' = crossed,
         failures' = failures \/ \E write \in Writes : Fails(write)
  PROVE  PoolInv'
<1>1. Shapes /\ IsKept(store) /\ failures \in Nat
  BY BoundsAssumption DEF StoreInv, PublishInv, StoreKept, Bounded
<1>2. failures' = 0 => failures = 0
  BY <1>1 DEF Fails
<1> QED  BY <1>1, <1>2, BesidesPool

(* Every step keeps the invariant.                                          *)
LEMMA PoolStep == StoreInv /\ PoolInv /\ [Next]_vars => PoolInv'
<1> SUFFICES ASSUME StoreInv, PoolInv, [Next]_vars PROVE PoolInv'
  OBVIOUS
<1>1. /\ Shapes /\ IsKept(store) /\ store.fromEnv \in BOOLEAN
  BY DEF StoreInv, StoreKept, PublishInv
<1>2. ASSUME UNCHANGED storeVars, twice' = twice PROVE Quiet
  BY <1>1, <1>2, NothingIsQuiet
<1>3. ASSUME NEW p \in Handlers, NEW step, NEW h, GoTo(p, step, h) \/ Reply(p),
             ~Pending(p), step \notin {"accounts", "limits", "install"}, Quiet,
             pool' = pool, up' = up, crossed' = crossed,
             failures' = failures \/ \E write \in Writes : Fails(write)
      PROVE  PoolInv'
  <2>1. Only(p) /\ pc'[p] \notin {"accounts", "limits", "install"}
    BY <1>1, <1>3, StepsAreAlone
  <2> QED  BY <1>3, <2>1, PoolOthers
<1>4. ASSUME NEW p \in Handlers, NEW r \in Requests, Receive(p, r) PROVE PoolInv'
  <2>1. /\ pc[p] = "idle" /\ UNCHANGED <<storeVars, twice, up, pool, crossed, failures>>
        /\ ReceiveEdit(p, r) \/ TestSingleAccount(p, r) \/ DeleteAllSessions(p, r) \/ ReceiveSync(p, r)
    BY <1>4 DEF Receive
  <2>2. Only(p) /\ pc'[p] \in {"edit", "login", "validate"}
    BY <1>1, <2>1 DEF ReceiveEdit, TestSingleAccount, DeleteAllSessions, WithAccount, ReceiveSync,
                      Shapes, Only
  <2> QED  BY <1>2, <2>1, <2>2, PoolOthers DEF Pending
<1>5. ASSUME NEW p \in Handlers, NEW write \in Writes, Edit(p, write) PROVE PoolInv'
  BY <1>5, PoolEdit
<1>6. ASSUME NEW p \in Handlers, NEW write \in Writes,
             \/ LoginSucceeds(p, write) \/ ValidateAccount(p, write)
             \/ SaveCredentials(p, write) \/ MarkSynced(p, write)
      PROVE  PoolInv'
  <2>1. Quiet
    BY <1>1, <1>6, QuietSteps
  <2>2. /\ UNCHANGED <<up, pool, crossed>>
        /\ pc[p] \notin {"accounts", "limits", "install"}
        /\ Fails(write) \/ failures' = failures
        /\ \/ GoTo(p, IF pc[p] = "login" THEN "call" ELSE "callAgain", held[p])
           \/ GoTo(p, "validate", Tail(held[p]))
           \/ GoTo(p, "mark", held[p])
           \/ Reply(p)
    BY <1>6 DEF LoginSucceeds, ValidateAccount, SaveCredentials, MarkSynced
  <2> QED  BY <1>3, <2>1, <2>2 DEF Pending
<1>7. ASSUME NEW p \in Handlers, ReadAccounts(p) \/ ReadLimits(p) \/ Install(p) PROVE PoolInv'
  BY <1>7, PoolRefreshes
<1>8. ASSUME NEW p \in Handlers, LoginFails(p) \/ CallFails(p) \/ CallSucceeds(p) PROVE PoolInv'
  <2>1. /\ UNCHANGED <<storeVars, twice, up, pool, crossed, failures>>
        /\ pc[p] \notin {"accounts", "limits", "install"}
        /\ \/ \E status : GoTo(p, "status", Append(held[p], status))
           \/ GoTo(p, "relogin", held[p])
           \/ Reply(p)
    BY <1>8 DEF LoginFails, CallFails, CallSucceeds, Finish, budget
  <2> QED  BY <1>2, <1>3, <2>1 DEF Pending
<1>9. ASSUME NEW p \in Handlers, RecordStatus(p) PROVE PoolInv'
  <2>1. "ok" \in Writes
    BY DEF Writes
  <2>2. Quiet
    BY <1>1, <1>9, <2>1, QuietSteps
  <2>3. UNCHANGED <<up, pool, crossed, failures>> /\ pc[p] = "status" /\ Reply(p)
    BY <1>9 DEF RecordStatus, budget
  <2> QED  BY <1>3, <2>2, <2>3 DEF Pending
<1>10. ASSUME NEW p \in Handlers, ExportSyncConfig(p) PROVE PoolInv'
  <2>1. /\ UNCHANGED <<storeVars, twice, up, pool, crossed, failures>> /\ pc[p] = "validate"
        /\ \E h : GoTo(p, "upsert", h)
    BY <1>10 DEF ExportSyncConfig, budget
  <2> QED  BY <1>2, <1>3, <2>1 DEF Pending
<1>11. ASSUME NEW p \in Handlers, NEW taken \in BOOLEAN, NEW answered \in BOOLEAN,
              UpsertVercelEnv(p, taken, answered)
       PROVE  PoolInv'
  <2>1. /\ UNCHANGED <<storeVars, twice, up, pool, crossed, failures>> /\ pc[p] = "upsert"
        /\ GoTo(p, "credentials", held[p]) \/ Reply(p)
    BY <1>11 DEF UpsertVercelEnv, budget
  <2> QED  BY <1>2, <1>3, <2>1 DEF Pending
<1>12. ASSUME NEW cut \in BOOLEAN, Crash(cut) PROVE PoolInv'
  <2>1. up' = FALSE /\ \A p \in Handlers : pc'[p] = "idle"
    BY <1>12 DEF Crash
  <2>2. Refreshes'
    BY <2>1 DEF Refreshes, Pending
  <2> QED  BY <2>1, <2>2 DEF PoolInv
<1>13. ASSUME Restart PROVE PoolInv'
  <2>1. PICK l \in LoadConfig(file) :
           store' = NewStore(l) /\ pool' = ResetPool(PoolIDs(l.cfg), l.cfg)
    BY <1>13 DEF Restart, Started
  <2>2. deploy \in Deployments /\ IsReadConfig(file.cfg)
    BY DEF StoreInv, PublishInv, Shapes, StoreKept
  <2>3. store'.cfg = l.cfg /\ IsNamed(l.cfg)
    BY <2>1, <2>2, LoadAgrees
  <2>4. HasIDs(pool'.ids, store'.cfg) /\ HasLimits(pool', store'.cfg)
    BY <2>1, <2>3, IdleIsFresh
  <2>5. pc' = pc /\ \A p \in Handlers : pc[p] = "idle"
    BY <1>13 DEF Restart, handlerVars, StoreInv, Bounded
  <2>6. Refreshes' /\ Follows'
    BY <2>4, <2>5 DEF Refreshes, Follows, Pending
  <2> QED  BY <2>6 DEF PoolInv
<1>14. ASSUME UNCHANGED vars PROVE PoolInv'
  BY <1>14 DEF vars, storeVars, handlerVars, budget, PoolInv, Refreshes, Follows, Pending
<1> QED
  BY <1>4, <1>5, <1>6, <1>7, <1>8, <1>9, <1>10, <1>11, <1>12, <1>13, <1>14, Zenon DEF Next

(* It holds in every reachable state, with the store's invariant.           *)
LEMMA PoolInvariant == Spec => [](StoreInv /\ PoolInv)
<1>1. StoreInv /\ PoolInv /\ [Next]_vars => (StoreInv /\ PoolInv)'
  BY StoreStep, PoolStep
<1> QED  BY StoreInit, PoolInit, <1>1, PTL DEF Spec

(* With every edit saved and none made while a refresh was under way, the   *)
(* pool of a server with no request under way has the accounts and the      *)
(* limits of the store.                                                     *)
THEOREM QuietPoolFollowsStore == Spec => []PoolFollowsStore
<1>1. ASSUME StoreInv, PoolInv PROVE PoolFollowsStore
  <2> DEFINE c == store.cfg
             ids == PoolIDs(c)
             p == ResetPool(ids, c)
  <2>1. IsNamed(c) /\ IsReadConfig(c)
    BY <1>1, StoredIsNamed DEF StoreInv, StoreKept, IsKept, IsNamed
  <2> SUFFICES ASSUME up, AllIdle, failures = 0, ~crossed
               PROVE  /\ ToSet(pool.ids) = ToSet(p.ids) /\ Len(pool.ids) = Len(p.ids)
                      /\ pool.per = p.per
                      /\ p.ids # <<>> => pool.global = p.global
    BY DEF PoolFollowsStore
  <2>2. \A q \in Handlers : pc[q] = "idle"
    BY DEF AllIdle
  <2>3. HasIDs(pool.ids, c) /\ HasLimits(pool, c)
    BY <1>1, <2>2 DEF PoolInv, Follows, Pending
  <2>4. IsList(ids) /\ HasIDs(ids, c)
    BY <2>1, PoolHasAccounts
  <2>5. p.ids = ids /\ HasLimits(p, c)
    BY <2>1, <2>4, ResetFits
  <2>6. ids # <<>> => Len(c.accounts) # 0
    BY <2>4, EmptyIsList, SameList DEF HasIDs
  <2> HIDE DEF p, ids, c
  <2> QED  BY <2>3, <2>4, <2>5, <2>6 DEF HasIDs, HasLimits
<1> QED  BY <1>1, PoolInvariant, PTL

(***************************************************************************)
(* What an edit does: keys, passwords and proxies.                          *)
(***************************************************************************)

(* A handler leaves its edit by making it, in no other way.                 *)
LEMMA EditedStep ==
  ASSUME StoreInv, [Next]_vars, NEW p \in Handlers, pc[p] = "edit", pc'[p] # "edit", up'
  PROVE  \E write \in Writes : Edit(p, write)
<1>1. Shapes
  BY DEF StoreInv, PublishInv
<1>2. up
  BY DEF StoreInv, Bounded
<1>3. ASSUME NEW q \in Handlers, q # p, NEW step, NEW h, GoTo(q, step, h) \/ Reply(q) PROVE FALSE
  BY <1>1, <1>3, StepsAreAlone DEF Only
<1>4. ASSUME NEW q \in Handlers, NEW r \in Requests, Receive(q, r) PROVE FALSE
  <2>1. pc[q] = "idle" /\ \E step : pc' = [pc EXCEPT ![q] = step]
    BY <1>4 DEF Receive, ReceiveEdit, TestSingleAccount, DeleteAllSessions, WithAccount, ReceiveSync
  <2> QED  BY <1>1, <2>1 DEF Shapes
<1>5. ASSUME NEW q \in Handlers, NEW write \in Writes, Edit(q, write) PROVE p = q
  <2>1. Reply(q) \/ GoTo(q, "accounts", <<>>)
    BY <1>5, Zenon DEF Edit
  <2> QED  BY <1>3, <2>1
<1>6. ASSUME NEW q \in Handlers, NEW write \in Writes,
             \/ LoginSucceeds(q, write) \/ ValidateAccount(q, write)
             \/ SaveCredentials(q, write) \/ MarkSynced(q, write)
      PROVE  FALSE
  <2>1. /\ pc[q] # "edit"
        /\ \/ GoTo(q, IF pc[q] = "login" THEN "call" ELSE "callAgain", held[q])
           \/ GoTo(q, "validate", Tail(held[q]))
           \/ GoTo(q, "mark", held[q])
           \/ Reply(q)
    BY <1>6 DEF LoginSucceeds, ValidateAccount, SaveCredentials, MarkSynced
  <2> QED  BY <1>3, <2>1
<1>7. ASSUME NEW q \in Handlers,
             \/ ReadAccounts(q) \/ ReadLimits(q) \/ Install(q) \/ LoginFails(q) \/ CallFails(q)
             \/ CallSucceeds(q) \/ RecordStatus(q) \/ ExportSyncConfig(q)
      PROVE  FALSE
  <2>1. pc[q] # "edit" /\ (Reply(q) \/ \E step, h : GoTo(q, step, h))
    BY <1>7, Zenon DEF ReadAccounts, ReadLimits, Install, LoginFails, CallFails, CallSucceeds,
                RecordStatus, ExportSyncConfig, Finish
  <2> QED  BY <1>3, <2>1
<1>8. ASSUME NEW q \in Handlers, NEW taken \in BOOLEAN, NEW answered \in BOOLEAN,
             UpsertVercelEnv(q, taken, answered)
      PROVE  FALSE
  <2>1. pc[q] # "edit" /\ (GoTo(q, "credentials", held[q]) \/ Reply(q))
    BY <1>8 DEF UpsertVercelEnv
  <2> QED  BY <1>3, <2>1
<1>9. ASSUME NEW cut \in BOOLEAN, Crash(cut) PROVE FALSE
  BY <1>9 DEF Crash
<1>10. ASSUME Restart PROVE FALSE
  BY <1>2, <1>10 DEF Restart
<1>11. ASSUME UNCHANGED vars PROVE FALSE
  BY <1>11 DEF vars, handlerVars
<1> QED
  BY <1>4, <1>5, <1>6, <1>7, <1>8, <1>9, <1>10, <1>11, Zenon DEF Next

(* What an edit leaves: nothing changed, or the configuration it made, with *)
(* its two forms of the keys made the same.                                 *)
LEMMA EditResult ==
  ASSUME StoreInv, NEW p \in Handlers, NEW write \in Writes, Edit(p, write),
         NEW next, next = Mutate(store.cfg, req[p], held[p][1])
  PROVE  /\ IsKept(store) /\ IsKept(store') /\ req[p] \in Requests /\ req[p].op \in EditOps
         /\ next = Refuse => store' = store
         /\ next # Refuse =>
               /\ IsStored(next[1])
               /\ store'.cfg = ReconcileCredentials(next[1], store.cfg)
               /\ store'.cfg.accounts = next[1].accounts
               /\ store'.cfg.proxies = next[1].proxies
<1>1. /\ Shapes /\ IsKept(store) /\ store.fromEnv \in BOOLEAN /\ IsStored(store.cfg)
      /\ pc[p] = "edit"
  BY DEF StoreInv, PublishInv, StoreKept, IsKept, Edit
<1>2. IsKept(store')
  BY <1>1, EditStep
<1>3. req[p] \in Requests /\ req[p].op \in EditOps
  BY <1>1 DEF Shapes
<1>4. CASE next = Refuse
  <2>1. store' = store
    BY <1>4, Zenon DEF Edit
  <2> QED  BY <1>1, <1>2, <1>3, <1>4, <2>1
<1>5. CASE next # Refuse
  <2>1. Update(next[1], write)
    BY <1>5, Zenon DEF Edit
  <2>2. IsStored(next[1])
    BY <1>1, <1>3, <1>5, EditsKeepStored DEF EditKeeps
  <2>3. store'.cfg.accounts = next[1].accounts /\ store'.cfg.proxies = next[1].proxies
    BY <1>1, <2>1, <2>2, UpdateKeepsKept, SMTT(30)
  <2> DEFINE d == next[1]
             c == ReconcileCredentials(d, store.cfg)
             n == NormalizeCredentials(c)
             s == [store EXCEPT !.cfg = n]
  <2>4. IsConfig(d) /\ IsList(d.keys) /\ IsList(d.apiKeys) /\ IsList(store.cfg.apiKeys)
    BY <1>1, <2>2 DEF IsStored, IsReadConfig, IsConfig
  <2>5. KeysInOrder(c) /\ DOMAIN c = DOMAIN d
    BY <2>4, ReconcileKeepsLists, ReconcileKeepsFields
  <2>6. c = [f \in DOMAIN EmptyConfig |-> c[f]]
    <3>1. c = [f \in DOMAIN d |-> c[f]]
      BY DEF ReconcileCredentials
    <3> QED  BY <2>4, <3>1, SMTT(30) DEF IsConfig
  <2>7. SaveLocked(RebuildIndexes(s), write)
    BY <2>1 DEF Update
  <2> HIDE DEF c
  <2>8. n = c
    BY <2>5, <2>6, NormalizeIsStable
  <2>9. DOMAIN s = StoreFields /\ s.cfg = n
    BY <1>1 DEF IsKept, Agrees, IsStore, StoreFields
  <2> HIDE DEF s, n
  <2>10. RebuildIndexes(s).cfg = n /\ DOMAIN RebuildIndexes(s) = StoreFields
    BY <2>9, RebuildKeepsConfig
  <2>11. store'.cfg = RebuildIndexes(s).cfg
    <3> DEFINE t == RebuildIndexes(s)
               b == t.fromEnv /\ (write # "ok" \/ SkipsWrite(t))
    <3>1. store' = [t EXCEPT !.fromEnv = b]
      BY <2>7 DEF SaveLocked
    <3> HIDE DEF t, b
    <3> QED  BY <3>1 DEF t
  <2> QED  BY <1>1, <1>2, <1>3, <1>5, <2>2, <2>3, <2>8, <2>10, <2>11 DEF c
<1> QED  BY <1>4, <1>5

(* The plain keys of structured ones are the keys of their records.         *)
LEMMA KeysOf ==
  ASSUME NEW items, IsList(items)
  PROVE  \A k : k \in ToSet(ApiKeysToStrings(items)) <=> \E i \in DOMAIN items : items[i].key = k
<1>1. /\ DOMAIN ApiKeysToStrings(items) = DOMAIN items
      /\ \A i \in DOMAIN items : ApiKeysToStrings(items)[i] = items[i].key
  BY StringsShape
<1> DEFINE strings == ApiKeysToStrings(items)
<1> HIDE DEF strings
<1>2. /\ DOMAIN strings = DOMAIN items
      /\ \A i \in DOMAIN items : strings[i] = items[i].key
  BY <1>1 DEF strings
<1>3. \A k : k \in ToSet(strings) <=> \E i \in DOMAIN items : items[i].key = k
  BY <1>2 DEF ToSet
<1> QED  BY <1>3 DEF strings

(* With each key once, a key's name is that of its record, and a key that   *)
(* is not there has none.                                                   *)
LEMMA NameOfDistinct ==
  ASSUME NEW items, DistinctKeys(items)
  PROVE  /\ \A i \in DOMAIN items : NameOf(items, items[i].key) = items[i].name
         /\ \A k : k \notin ToSet(ApiKeysToStrings(items)) => NameOf(items, k) = ""
<1>1. ASSUME NEW i \in DOMAIN items PROVE NameOf(items, items[i].key) = items[i].name
  <2>1. {j \in DOMAIN items : items[j].key = items[i].key} = {i}
    BY DEF DistinctKeys
  <2>2. i \in Int
    BY ListShape DEF DistinctKeys
  <2>3. Min({i}) = i
    BY <2>2 DEF Min
  <2> QED  BY <2>1, <2>3 DEF NameOf
<1>2. ASSUME NEW k, k \notin ToSet(ApiKeysToStrings(items)) PROVE NameOf(items, k) = ""
  <2>1. \A j \in DOMAIN items : items[j].key # k
    BY <1>2, KeysOf DEF DistinctKeys
  <2>2. {j \in DOMAIN items : items[j].key = k} = {}
    BY <2>1
  <2> QED  BY <2>2 DEF NameOf
<1> QED  BY <1>1, <1>2

(* Structured keys made of plain ones keep the names that are known.        *)
LEMMA FromStringsNames ==
  ASSUME NEW keys, NEW known, IsList(keys), DistinctKeys(known)
  PROVE  \A k \in ToSet(NormalizeKeys(keys)) :
            NameOf(ApiKeysFromStrings(keys, known), k) = NameOf(known, k)
<1> DEFINE K == NormalizeKeys(keys)
           items == ApiKeysFromStrings(keys, known)
<1>1. /\ DistinctKeys(items) /\ ApiKeysToStrings(items) = K
  BY FromStringsInOrder DEF DistinctKeys
<1>2. DOMAIN items = DOMAIN K
  BY DEF ApiKeysFromStrings
<1>3. ASSUME NEW i \in DOMAIN K PROVE items[i].name = NameOf(known, K[i])
  <2> DEFINE meta == {j \in DOMAIN known : known[j].key = K[i]}
  <2>1. items[i] = IF meta = {} THEN Plain(K[i]) ELSE known[Min(meta)]
    BY DEF ApiKeysFromStrings
  <2>2. NameOf(known, K[i]) = IF meta = {} THEN "" ELSE known[Min(meta)].name
    BY DEF NameOf
  <2> HIDE DEF meta, items
  <2>3. CASE meta = {}
    <3>1. items[i] = Plain(K[i]) /\ NameOf(known, K[i]) = ""
      BY <2>1, <2>2, <2>3
    <3>2. Plain(K[i]).name = ""
      BY DEF Plain
    <3> QED  BY <3>1, <3>2
  <2>4. CASE meta # {}
    BY <2>1, <2>2, <2>4
  <2> QED  BY <2>3, <2>4
<1> HIDE DEF K, items
<1>4. ASSUME NEW i \in DOMAIN K PROVE items[i].key = K[i]
  BY <1>1, <1>2, <1>4, StringsShape DEF DistinctKeys
<1>5. ASSUME NEW i \in DOMAIN K PROVE NameOf(items, K[i]) = NameOf(known, K[i])
  <2>1. NameOf(items, items[i].key) = items[i].name
    BY <1>1, <1>2, NameOfDistinct
  <2> QED  BY <1>3, <1>4, <2>1
<1> QED  BY <1>5 DEF ToSet, K, items

(* Merged keys are the keys of both lists that are not empty, each once.    *)
LEMMA MergedKeys ==
  ASSUME NEW s, NEW t, IsList(s), IsList(t)
  PROVE  /\ DistinctKeys(MergeAPIKeys(s, t))
         /\ ToSet(ApiKeysToStrings(MergeAPIKeys(s, t)))
              = (ToSet(ApiKeysToStrings(s)) \cup ToSet(ApiKeysToStrings(t))) \ {""}
<1> DEFINE u == NormalizeAPIKeys(s)
           items == u \o t
           merged == NormalizeAPIKeys(items)
           M == MergeAPIKeys(s, t)
<1>1. IsList(M)
  BY MergedKeysAreList
<1>2. DOMAIN M = DOMAIN merged /\ \A n \in DOMAIN merged : M[n] = MergeAPIKeyRecord(items, merged[n])
  BY DEF MergeAPIKeys
<1> HIDE DEF M
<1>3. IsList(u) /\ ToSet(ApiKeysToStrings(u)) = ToSet(ApiKeysToStrings(s)) \ {""}
  BY NormalItemsAreDistinct DEF DistinctKeys
<1> HIDE DEF u
<1>4. IsList(u) /\ IsList(t)
  BY <1>3
<1>5. /\ IsList(items) /\ Len(items) = Len(u) + Len(t)
      /\ \A i \in 1 .. Len(u) : items[i] = u[i]
      /\ \A i \in 1 .. Len(t) : items[Len(u) + i] = t[i]
      /\ \A i \in 1 .. Len(u) + Len(t) :
           i \in 1 .. Len(u) \/ \E j \in 1 .. Len(t) : i = Len(u) + j
  BY <1>4, ListConcat
<1> HIDE DEF items
<1>6. /\ DistinctKeys(merged)
      /\ ToSet(ApiKeysToStrings(merged)) = ToSet(ApiKeysToStrings(items)) \ {""}
  BY <1>5, NormalItemsAreDistinct
<1> HIDE DEF merged
<1>7. \A n \in DOMAIN merged : M[n].key = merged[n].key
  <2> TAKE n \in DOMAIN merged
  <2> DEFINE named == {i \in DOMAIN items : items[i].key = merged[n].key /\ items[i].name # ""}
  <2>1. M[n] = IF named = {} THEN merged[n] ELSE items[Min(named)]
    BY <1>2 DEF MergeAPIKeyRecord
  <2>2. named # {} => Min(named) \in named
    <3>1. named \in SUBSET (DOMAIN items)
      OBVIOUS
    <3> HIDE DEF named
    <3> QED  BY <1>5, <3>1, FirstPosition
  <2> QED  BY <2>1, <2>2
<1>8. DistinctKeys(M)
  BY <1>1, <1>2, <1>6, <1>7 DEF DistinctKeys
<1>9. ApiKeysToStrings(M) = ApiKeysToStrings(merged)
  BY <1>2, <1>7 DEF ApiKeysToStrings
<1>10. ToSet(ApiKeysToStrings(items)) = ToSet(ApiKeysToStrings(u)) \cup ToSet(ApiKeysToStrings(t))
  <2>1. /\ Len(u) \in Nat /\ DOMAIN u = 1 .. Len(u)
        /\ Len(t) \in Nat /\ DOMAIN t = 1 .. Len(t)
        /\ DOMAIN items = 1 .. Len(u) + Len(t)
    BY <1>3, <1>5, ListShape
  <2>2. \A i \in 1 .. Len(u) + Len(t) :
           \/ \E j \in 1 .. Len(u) : items[i].key = u[j].key
           \/ \E j \in 1 .. Len(t) : items[i].key = t[j].key
    BY <1>5, <2>1
  <2>3. \A j \in 1 .. Len(u) : \E i \in 1 .. Len(u) + Len(t) : items[i].key = u[j].key
    BY <1>5, <2>1
  <2>4. \A j \in 1 .. Len(t) : \E i \in 1 .. Len(u) + Len(t) : items[i].key = t[j].key
    <3> TAKE j \in 1 .. Len(t)
    <3>1. Len(u) + j \in 1 .. Len(u) + Len(t) /\ items[Len(u) + j] = t[j]
      BY <1>5, <2>1
    <3> QED  BY <3>1
  <2>5. /\ \A k : k \in ToSet(ApiKeysToStrings(u)) <=> \E i \in 1 .. Len(u) : u[i].key = k
        /\ \A k : k \in ToSet(ApiKeysToStrings(t)) <=> \E i \in 1 .. Len(t) : t[i].key = k
        /\ \A k : k \in ToSet(ApiKeysToStrings(items))
                     <=> \E i \in 1 .. Len(u) + Len(t) : items[i].key = k
    <3>1. /\ \A k : k \in ToSet(ApiKeysToStrings(u)) <=> \E i \in DOMAIN u : u[i].key = k
          /\ \A k : k \in ToSet(ApiKeysToStrings(t)) <=> \E i \in DOMAIN t : t[i].key = k
          /\ \A k : k \in ToSet(ApiKeysToStrings(items)) <=> \E i \in DOMAIN items : items[i].key = k
      BY <1>5, <1>4, KeysOf
    <3> QED  BY <2>1, <3>1, Zenon
  <2> QED  BY <2>2, <2>3, <2>4, <2>5, ZenonT(60)
<1> QED  BY <1>3, <1>6, <1>8, <1>9, <1>10 DEF M

(* The item is in the list.                                                 *)
Holds(items, item) == \E n \in DOMAIN items : items[n] = item

(* A key that has a name keeps its record when others are merged into its   *)
(* list.                                                                    *)
LEMMA MergedNames ==
  ASSUME NEW s, NEW t, DistinctKeys(s), IsList(t), NEW i \in DOMAIN s, s[i].name # ""
  PROVE  Holds(MergeAPIKeys(s, t), s[i])
<1> DEFINE items == s \o t
           merged == NormalizeAPIKeys(items)
           M == MergeAPIKeys(s, t)
           k == s[i].key
           named == {j \in DOMAIN items : items[j].key = k /\ items[j].name # ""}
<1>1. NormalizeAPIKeys(s) = s /\ IsList(s)
  BY DistinctItemsStay DEF DistinctKeys
<1>2. DOMAIN M = DOMAIN merged /\ \A n \in DOMAIN merged : M[n] = MergeAPIKeyRecord(items, merged[n])
  BY <1>1 DEF MergeAPIKeys
<1> HIDE DEF M
<1>3. /\ IsList(items) /\ Len(items) = Len(s) + Len(t)
      /\ \A j \in 1 .. Len(s) : items[j] = s[j]
  BY <1>1, ListConcat
<1>4. /\ Len(s) \in Nat /\ Len(t) \in Nat /\ DOMAIN s = 1 .. Len(s)
      /\ DOMAIN items = 1 .. Len(s) + Len(t)
  BY <1>1, <1>3, ListShape
<1> HIDE DEF items
<1>5. i \in DOMAIN items /\ items[i] = s[i]
  <2> DEFINE m == Len(s)
             n == Len(t)
  <2>1. m \in Nat /\ n \in Nat /\ i \in 1 .. m
    BY <1>4
  <2> HIDE DEF m, n
  <2>2. i \in 1 .. m + n
    BY ONLY <2>1
  <2> QED  BY <1>3, <1>4, <2>1, <2>2 DEF m, n
<1>6. i \in named /\ named \in SUBSET (DOMAIN items)
  BY <1>5
<1>7. Min(named) \in named /\ Min(named) <= i
  <2> HIDE DEF named
  <2> QED  BY <1>3, <1>6, FirstPosition
<1>8. Min(named) \in DOMAIN s
  <2> DEFINE m == Len(s)
             n == Len(t)
             j == Min(named)
  <2>1. m \in Nat /\ n \in Nat /\ i \in 1 .. m
    BY <1>4
  <2>2. j \in DOMAIN items
    BY <1>7
  <2>3. j \in 1 .. m + n
    BY <1>4, <2>2
  <2>4. j <= i
    BY <1>7
  <2> HIDE DEF m, n, j
  <2>5. j \in 1 .. m
    BY ONLY <2>1, <2>3, <2>4
  <2> QED  BY <1>4, <2>5 DEF m, j
<1>9. items[Min(named)] = s[i]
  <2>1. items[Min(named)] = s[Min(named)] /\ items[Min(named)].key = k
    BY <1>3, <1>4, <1>7, <1>8
  <2> HIDE DEF named
  <2> QED  BY <1>8, <2>1 DEF DistinctKeys
<1>10. k \in ToSet(ApiKeysToStrings(items)) \ {""}
  <2>1. k # ""
    BY DEF DistinctKeys
  <2> QED  BY <1>3, <1>5, <2>1, KeysOf
<1>11. DistinctKeys(merged) /\ k \in ToSet(ApiKeysToStrings(merged))
  BY <1>3, <1>10, NormalItemsAreDistinct
<1> HIDE DEF merged
<1>12. PICK n \in DOMAIN merged : merged[n].key = k
  <2> HIDE DEF k
  <2> QED  BY <1>11, KeysOf DEF DistinctKeys
<1>13. M[n] = s[i]
  <2>1. M[n] = IF named = {} THEN merged[n] ELSE items[Min(named)]
    BY <1>2, <1>12 DEF MergeAPIKeyRecord
  <2>2. named # {}
    BY <1>6
  <2> HIDE DEF named
  <2> QED  BY <1>9, <2>1, <2>2
<1> QED  BY <1>2, <1>12, <1>13 DEF M, Holds

(* The edited form wins: structured keys are taken as they are, and plain   *)
(* ones alone keep what the base knows of them.                             *)
LEMMA ReconciledKeys ==
  ASSUME NEW d, IsConfig(d), NEW c, KeysInOrder(c), NEW e, e = ReconcileCredentials(d, c)
  PROVE  /\ e.keys = ApiKeysToStrings(e.apiKeys)
         /\ NormalizeKeys(d.keys) = c.keys => e.apiKeys = NormalizeAPIKeys(d.apiKeys)
         /\ NormalizeKeys(d.keys) # c.keys /\ NormalizeAPIKeys(d.apiKeys) = c.apiKeys =>
              e.apiKeys = ApiKeysFromStrings(d.keys, c.apiKeys)
<1>1. NormalizeKeys(c.keys) = c.keys /\ NormalizeAPIKeys(c.apiKeys) = c.apiKeys
  BY DistinctItemsStay DEF KeysInOrder
<1> DEFINE items == IF NormalizeKeys(d.keys) # NormalizeKeys(c.keys)
                       /\ ~(NormalizeAPIKeys(d.apiKeys) # NormalizeAPIKeys(c.apiKeys))
                    THEN ApiKeysFromStrings(d.keys, NormalizeAPIKeys(c.apiKeys))
                    ELSE NormalizeAPIKeys(d.apiKeys)
<1>2. e = [d EXCEPT !.apiKeys = items, !.keys = ApiKeysToStrings(items)]
  BY DEF ReconcileCredentials
<1>3. {"apiKeys", "keys"} \subseteq DOMAIN d
  BY DEF IsConfig, EmptyConfig
<1>4. /\ NormalizeKeys(d.keys) = c.keys => items = NormalizeAPIKeys(d.apiKeys)
      /\ NormalizeKeys(d.keys) # c.keys /\ NormalizeAPIKeys(d.apiKeys) = c.apiKeys =>
              items = ApiKeysFromStrings(d.keys, c.apiKeys)
  BY <1>1
<1> HIDE DEF items
<1>5. e.apiKeys = items /\ e.keys = ApiKeysToStrings(items)
  BY <1>2, <1>3
<1> QED  BY <1>4, <1>5

(* Plain keys sent by the editor become the keys, with the names they had.  *)
LEMMA SentKeysReplace ==
  ASSUME NEW c, IsStored(c), KeysInOrder(c), NEW r, IsList(r.keys), r.form = "legacy", NEW old,
         NEW next, next = UpdateConfig(c, r, old), NEW e, e = ReconcileCredentials(next[1], c)
  PROVE  /\ e.keys = NormalizeKeys(r.keys)
         /\ \A k \in ToSet(e.keys) : NameOf(e.apiKeys, k) = NameOf(c.apiKeys, k)
<1> DEFINE d == next[1]
           K == NormalizeKeys(r.keys)
<1>1. /\ c = [f \in DOMAIN EmptyConfig |-> c[f]]
      /\ {"apiKeys", "keys", "accounts"} \subseteq DOMAIN EmptyConfig
  BY DEF IsStored, IsReadConfig, EmptyConfig
<1>2. d.apiKeys = c.apiKeys /\ d.keys = r.keys /\ IsConfig(d)
  <2>1. \E x, y : d = [c EXCEPT !.apiKeys = y, !.keys = r.keys, !.accounts = x]
                  /\ y = c.apiKeys
    BY <1>1 DEF UpdateConfig, Accept
  <2> HIDE DEF d
  <2>2. PICK x, y : d = [c EXCEPT !.apiKeys = y, !.keys = r.keys, !.accounts = x] /\ y = c.apiKeys
    BY <2>1
  <2> QED  BY <1>1, <2>2 DEF IsConfig
<1> HIDE DEF d
<1>3. DistinctKeys(c.apiKeys) /\ c.keys = ApiKeysToStrings(c.apiKeys)
  BY DEF KeysInOrder
<1>4. NormalizeAPIKeys(d.apiKeys) = c.apiKeys
  BY <1>2, <1>3, DistinctItemsStay
<1>5. CASE K = c.keys
  <2>1. e.apiKeys = c.apiKeys /\ e.keys = c.keys
    BY <1>2, <1>3, <1>4, <1>5, ReconciledKeys DEF d
  <2> QED  BY <1>5, <2>1
<1>6. CASE K # c.keys
  <2>1. e.apiKeys = ApiKeysFromStrings(r.keys, c.apiKeys) /\ e.keys = ApiKeysToStrings(e.apiKeys)
    BY <1>2, <1>3, <1>4, <1>6, ReconciledKeys DEF d
  <2>2. e.keys = K
    BY <1>3, <2>1, FromStringsInOrder DEF DistinctKeys
  <2>3. \A k \in ToSet(K) : NameOf(e.apiKeys, k) = NameOf(c.apiKeys, k)
    BY <1>3, <2>1, FromStringsNames
  <2> QED  BY <2>2, <2>3
<1> QED  BY <1>5, <1>6

(* Records made of plain keys have those keys.                              *)
LEMMA PlainKeys ==
  ASSUME NEW keys, IsList(keys)
  PROVE  /\ IsList([i \in DOMAIN keys |-> Plain(keys[i])])
         /\ ToSet(ApiKeysToStrings([i \in DOMAIN keys |-> Plain(keys[i])])) = ToSet(keys)
<1> DEFINE t == [i \in DOMAIN keys |-> Plain(keys[i])]
<1>1. /\ t = [i \in DOMAIN keys |-> t[i]]
      /\ \A i \in DOMAIN keys : t[i].key = keys[i]
  BY DEF Plain
<1> HIDE DEF t
<1>2. IsList(t) /\ DOMAIN t = DOMAIN keys
  BY <1>1, MadeList
<1>3. \A k : k \in ToSet(ApiKeysToStrings(t)) <=> \E i \in DOMAIN t : t[i].key = k
  BY <1>2, KeysOf
<1>4. \A k : k \in ToSet(keys) <=> \E i \in DOMAIN keys : keys[i] = k
  BY DEF ToSet
<1>5. ToSet(ApiKeysToStrings(t)) = ToSet(keys)
  BY <1>1, <1>2, <1>3, <1>4
<1> QED  BY <1>2, <1>5 DEF t

(* No key has lost the name it had.                                         *)
NamesStay(c, e) ==
  \A k \in ToSet(c.keys) :
      NameOf(c.apiKeys, k) # "" => NameOf(e.apiKeys, k) = NameOf(c.apiKeys, k)

(* An import leaves the keys there were and those it brings, and names      *)
(* stay.                                                                    *)
LEMMA ImportAddsKeys ==
  ASSUME NEW c, IsStored(c), KeysInOrder(c), NEW r, IsList(r.keys), IsList(r.structured),
         NEW e, e = ReconcileCredentials(BatchImport(c, r)[1], c)
  PROVE  /\ (ToSet(c.keys) \cup ToSet(r.keys) \cup ToSet(ApiKeysToStrings(r.structured))) \ {""}
               = ToSet(e.keys)
         /\ NamesStay(c, e)
<1> DEFINE d == BatchImport(c, r)[1]
           t == [i \in DOMAIN r.keys |-> Plain(r.keys[i])]
           L == MergeAPIKeys(c.apiKeys, r.structured)
           M == MergeAPIKeys(L, t)
<1>1. /\ c = [f \in DOMAIN EmptyConfig |-> c[f]]
      /\ {"apiKeys", "keys", "accounts"} \subseteq DOMAIN EmptyConfig
  BY DEF IsStored, IsReadConfig, EmptyConfig
<1>2. d.apiKeys = M /\ d.keys = c.keys /\ IsConfig(d)
  <2>1. \E x : d = [c EXCEPT !.apiKeys = M, !.accounts = x]
    BY <1>1 DEF BatchImport, Accept
  <2> HIDE DEF d, M
  <2>2. PICK x : d = [c EXCEPT !.apiKeys = M, !.accounts = x]
    BY <2>1
  <2> QED  BY <1>1, <2>2, SMTT(30) DEF IsConfig
<1> HIDE DEF d
<1>3. DistinctKeys(c.apiKeys) /\ IsList(c.apiKeys) /\ c.keys = ApiKeysToStrings(c.apiKeys)
  BY DEF KeysInOrder, DistinctKeys
<1>4. /\ IsList(t) /\ ToSet(ApiKeysToStrings(t)) = ToSet(r.keys)
  BY PlainKeys
<1> HIDE DEF t
<1>5. /\ DistinctKeys(L) /\ IsList(L)
      /\ ToSet(ApiKeysToStrings(L)) = (ToSet(c.keys) \cup ToSet(ApiKeysToStrings(r.structured))) \ {""}
  BY <1>3, MergedKeys DEF DistinctKeys
<1>6. ASSUME NEW i \in DOMAIN c.apiKeys, c.apiKeys[i].name # ""
      PROVE  Holds(L, c.apiKeys[i])
  <2>1. DistinctKeys(c.apiKeys) /\ IsList(r.structured)
    BY <1>3
  <2> QED  BY <1>6, <2>1, MergedNames
<1> HIDE DEF L
<1>7. /\ DistinctKeys(M)
      /\ ToSet(ApiKeysToStrings(M)) = (ToSet(ApiKeysToStrings(L)) \cup ToSet(r.keys)) \ {""}
  BY <1>4, <1>5, MergedKeys
<1>8. ASSUME NEW n \in DOMAIN L, L[n].name # ""
      PROVE  Holds(M, L[n])
  <2>1. DistinctKeys(L) /\ IsList(t)
    BY <1>4, <1>5
  <2> QED  BY <1>8, <2>1, MergedNames
<1> HIDE DEF M
<1>9. e.apiKeys = M /\ e.keys = ApiKeysToStrings(M)
  <2>1. NormalizeKeys(d.keys) = c.keys
    BY <1>2, <1>3, DistinctItemsStay
  <2>2. e.keys = ApiKeysToStrings(e.apiKeys) /\ e.apiKeys = NormalizeAPIKeys(d.apiKeys)
    BY <1>2, <2>1, ReconciledKeys DEF d
  <2>3. NormalizeAPIKeys(M) = M
    BY <1>7, DistinctItemsStay
  <2> QED  BY <1>2, <2>2, <2>3
<1>10. (ToSet(c.keys) \cup ToSet(r.keys) \cup ToSet(ApiKeysToStrings(r.structured))) \ {""}
         = ToSet(e.keys)
  BY <1>5, <1>7, <1>9
<1>11. ASSUME NEW k \in ToSet(c.keys), NameOf(c.apiKeys, k) # ""
       PROVE  NameOf(e.apiKeys, k) = NameOf(c.apiKeys, k)
  <2>1. PICK i \in DOMAIN c.apiKeys : c.apiKeys[i].key = k
    BY <1>3, KeysOf
  <2>2. c.apiKeys[i].name = NameOf(c.apiKeys, k)
    BY <1>3, <2>1, NameOfDistinct
  <2>3. PICK n \in DOMAIN L : L[n] = c.apiKeys[i]
    BY <1>6, <1>11, <2>2 DEF Holds
  <2>4. PICK m \in DOMAIN M : M[m] = L[n]
    BY <1>8, <1>11, <2>2, <2>3 DEF Holds
  <2>5. NameOf(M, M[m].key) = M[m].name
    BY <1>7, NameOfDistinct
  <2> QED  BY <1>9, <2>1, <2>2, <2>3, <2>4, <2>5
<1> QED  BY <1>10, <1>11 DEF NamesStay

(* Every step that edits the keys does what KeyEditTakesEffect says.        *)
LEMMA KeyEditsTakeEffect ==
  ASSUME StoreInv, [Next]_vars, NEW p \in Handlers
  PROVE  KeyEditTakesEffect(p)
<1>1. ASSUME NEW op, Edited(p, op), op \in {"updateConfig", "batchImport"}
      PROVE  /\ IsStored(store.cfg) /\ KeysInOrder(store.cfg)
             /\ IsList(req[p].keys) /\ IsList(req[p].structured)
             /\ Mutate(store.cfg, req[p], held[p][1]) # Refuse
             /\ store'.cfg = ReconcileCredentials(
                                Mutate(store.cfg, req[p], held[p][1])[1], store.cfg)
  <2>1. PICK write \in Writes : Edit(p, write)
    BY <1>1, EditedStep DEF Edited
  <2>2. Mutate(store.cfg, req[p], held[p][1]) # Refuse
    BY <1>1 DEF Edited, Mutate, UpdateConfig, BatchImport, Accept, Refuse
  <2>3. /\ IsKept(store) /\ req[p] \in Requests
        /\ store'.cfg = ReconcileCredentials(Mutate(store.cfg, req[p], held[p][1])[1], store.cfg)
    BY <2>1, <2>2, EditResult
  <2> QED  BY <1>1, <2>2, <2>3, InputsAssumption DEF IsKept, Agrees, Edited
<1>2. ASSUME Edited(p, "updateConfig"), req[p].form = "legacy"
      PROVE  /\ store'.cfg.keys = NormalizeKeys(req[p].keys)
             /\ \A k \in ToSet(store'.cfg.keys) :
                   NameOf(store'.cfg.apiKeys, k) = NameOf(store.cfg.apiKeys, k)
  <2>1. Mutate(store.cfg, req[p], held[p][1]) = UpdateConfig(store.cfg, req[p], held[p][1])
    BY <1>2 DEF Mutate, Edited
  <2> QED  BY <1>1, <1>2, <2>1, SentKeysReplace
<1>3. ASSUME Edited(p, "batchImport")
      PROVE  /\ (ToSet(store.cfg.keys) \cup ToSet(req[p].keys)
                    \cup ToSet(ApiKeysToStrings(req[p].structured))) \ {""} = ToSet(store'.cfg.keys)
             /\ \A k \in ToSet(store.cfg.keys) :
                   NameOf(store.cfg.apiKeys, k) # "" =>
                       NameOf(store'.cfg.apiKeys, k) = NameOf(store.cfg.apiKeys, k)
  <2> DEFINE c == store.cfg
             r == req[p]
             e == store'.cfg
  <2>1. Mutate(c, r, held[p][1]) = BatchImport(c, r)
    BY <1>3 DEF Mutate, Edited
  <2>2. /\ IsStored(c) /\ KeysInOrder(c) /\ IsList(r.keys) /\ IsList(r.structured)
        /\ e = ReconcileCredentials(BatchImport(c, r)[1], c)
    BY <1>1, <1>3, <2>1
  <2> SUFFICES
        /\ (ToSet(c.keys) \cup ToSet(r.keys) \cup ToSet(ApiKeysToStrings(r.structured))) \ {""}
              = ToSet(e.keys)
        /\ NamesStay(c, e)
    BY DEF NamesStay
  <2> HIDE DEF c, r, e
  <2> QED  BY <2>2, ImportAddsKeys
<1> QED  BY <1>2, <1>3, Zenon DEF KeyEditTakesEffect

(* What is sent first of an account decides its password.                   *)
DecidedBy(r, m, old, after) ==
  /\ m \in DOMAIN r.accounts
  /\ Identifier(r.accounts[m]) = Identifier(after)
  /\ \A l \in 1 .. m - 1 : Identifier(r.accounts[l]) # Identifier(r.accounts[m])
  /\ r.accounts[m].password = "" => after.password = KnownPassword(old, after)

(* Every account an update leaves is decided by the first one sent of its   *)
(* identifier.                                                              *)
LEMMA SentPasswords ==
  ASSUME NEW c, NEW r, IsList(r.accounts), NEW old, DOMAIN c = DOMAIN EmptyConfig,
         r.form = "accounts", NEW j \in DOMAIN UpdateConfig(c, r, old)[1].accounts
  PROVE  \E m : DecidedBy(r, m, old, UpdateConfig(c, r, old)[1].accounts[j])
<1> DEFINE t == [i \in DOMAIN r.accounts |-> ToAccount(r.accounts[i])]
           normal == [i \in DOMAIN t |-> NormalizeAccountForStorage(t[i])]
           keys == [i \in DOMAIN normal |-> AccountDedupeKey(normal[i])]
           sent == Firsts(normal, keys, NoID)
           kept == [i \in DOMAIN sent |->
                      [sent[i] EXCEPT !.password = IF @ = "" THEN KnownPassword(old, sent[i]) ELSE @]]
<1>1. UpdateConfig(c, r, old)[1].accounts = kept
  BY DEF UpdateConfig, Accept, EmptyConfig, NormalizeAndDedupeAccounts
<1>2. /\ DOMAIN t = DOMAIN r.accounts /\ IsList(t)
      /\ \A i \in DOMAIN r.accounts : IsAccount(t[i]) /\ t[i] = ToAccount(r.accounts[i])
  BY SentAreKept
<1> HIDE DEF t
<1>3. /\ normal = [i \in DOMAIN t |-> normal[i]]
      /\ \A i \in DOMAIN r.accounts :
            /\ IsAccount(normal[i]) /\ Identifier(normal[i]) = Identifier(t[i])
            /\ normal[i].password = t[i].password
  BY <1>2, NormalAccounts
<1> HIDE DEF normal
<1>4. IsList(normal) /\ DOMAIN normal = DOMAIN r.accounts
  BY <1>2, <1>3, MadeList
<1>5. \A i \in DOMAIN r.accounts : keys[i] = Identifier(r.accounts[i])
  BY <1>2, <1>3, <1>4, SentAccounts DEF AccountDedupeKey
<1> HIDE DEF keys
<1>6. PICK pos : AreFirsts(pos, sent, normal, keys, NoID)
  BY <1>4, FirstsShape
<1>7. DOMAIN kept = DOMAIN sent
  OBVIOUS
<1>8. j \in DOMAIN sent
  BY <1>1, <1>7
<1> HIDE DEF sent
<1> DEFINE m == pos[j]
<1>9. /\ m \in DOMAIN r.accounts /\ sent[j] = normal[m]
      /\ \A l \in 1 .. m - 1 : keys[l] # keys[m]
  BY <1>4, <1>6, <1>8 DEF AreFirsts
<1> HIDE DEF m
<1>10. \A l \in 1 .. m - 1 : Identifier(r.accounts[l]) # Identifier(r.accounts[m])
  <2>1. \A l \in 1 .. m - 1 : l \in DOMAIN r.accounts
    <3>1. Len(r.accounts) \in Nat /\ DOMAIN r.accounts = 1 .. Len(r.accounts)
      BY ListShape
    <3> QED  BY <1>9, <3>1
  <2> QED  BY <1>5, <1>9, <2>1
<1>11. IsAccount(sent[j]) /\ t[m] = ToAccount(r.accounts[m])
       /\ Identifier(sent[j]) = Identifier(t[m]) /\ sent[j].password = t[m].password
  BY <1>2, <1>3, <1>9
<1>12. /\ Identifier(sent[j]) = Identifier(r.accounts[m])
       /\ sent[j].password = r.accounts[m].password
       /\ {"password", "email", "mobile"} \subseteq DOMAIN sent[j]
  BY <1>11, SentAccounts DEF IsAccount, AccountFields
<1>13. kept[j] = [sent[j] EXCEPT !.password =
                    IF sent[j].password = "" THEN KnownPassword(old, sent[j]) ELSE sent[j].password]
  BY <1>8
<1> HIDE DEF kept
<1>14. /\ sent[j].password = "" => kept[j].password = KnownPassword(old, sent[j])
       /\ kept[j].email = sent[j].email /\ kept[j].mobile = sent[j].mobile
  BY <1>12, <1>13
<1>15. Identifier(kept[j]) = Identifier(sent[j])
  BY <1>14, SameName
<1>16. KnownPassword(old, kept[j]) = KnownPassword(old, sent[j])
  BY <1>15 DEF KnownPassword, AccountDedupeKey
<1> QED  BY <1>1, <1>9, <1>10, <1>12, <1>14, <1>15, <1>16 DEF DecidedBy

(* The configuration that an edit holds since its request came in was the   *)
(* store's: its accounts are records.                                       *)
Snapshots ==
  \A p \in Handlers : pc[p] = "edit" =>
      \A i \in DOMAIN held[p][1].accounts : IsAccount(held[p][1].accounts[i])

LEMMA SnapshotStep == StoreInv /\ Snapshots /\ [Next]_vars => Snapshots'
<1> SUFFICES ASSUME StoreInv, Snapshots, [Next]_vars PROVE Snapshots'
  OBVIOUS
<1>1. Shapes /\ IsReadConfig(store.cfg)
  BY DEF StoreInv, PublishInv, StoreKept, IsKept, IsStored
<1>2. ASSUME NEW p \in Handlers, NEW step, NEW h, GoTo(p, step, h) \/ Reply(p), step # "edit"
      PROVE  Snapshots'
  BY <1>1, <1>2, StepsAreAlone DEF Snapshots, Only
<1>3. ASSUME NEW p \in Handlers, NEW r \in Requests, Receive(p, r) PROVE Snapshots'
  <2>1. /\ ReceiveEdit(p, r) \/ TestSingleAccount(p, r) \/ DeleteAllSessions(p, r)
              \/ ReceiveSync(p, r)
    BY <1>3 DEF Receive
  <2>2. CASE ReceiveEdit(p, r)
    <3>1. held'[p] = <<store.cfg>> /\ Only(p)
      BY <1>1, <2>2 DEF ReceiveEdit, Shapes, Only
    <3> QED  BY <1>1, <3>1 DEF Snapshots, Only, IsReadConfig
  <2>3. CASE ~ReceiveEdit(p, r)
    <3>1. pc'[p] # "edit" /\ Only(p)
      BY <1>1, <2>1, <2>3 DEF TestSingleAccount, DeleteAllSessions, WithAccount, ReceiveSync,
                              Shapes, Only
    <3> QED  BY <3>1 DEF Snapshots, Only
  <2> QED  BY <2>2, <2>3
<1>4. ASSUME NEW p \in Handlers, NEW write \in Writes, Edit(p, write) PROVE Snapshots'
  <2>1. \E h : GoTo(p, "accounts", h) \/ Reply(p)
    BY <1>4, Zenon DEF Edit
  <2> QED  BY <1>2, <2>1
<1>5. ASSUME NEW p \in Handlers, NEW write \in Writes,
             \/ LoginSucceeds(p, write) \/ ValidateAccount(p, write)
             \/ SaveCredentials(p, write) \/ MarkSynced(p, write)
      PROVE  Snapshots'
  <2>1. \/ GoTo(p, IF pc[p] = "login" THEN "call" ELSE "callAgain", held[p])
        \/ GoTo(p, "validate", Tail(held[p]))
        \/ GoTo(p, "mark", held[p])
        \/ Reply(p)
    BY <1>5 DEF LoginSucceeds, ValidateAccount, SaveCredentials, MarkSynced
  <2> QED  BY <1>2, <2>1
<1>6. ASSUME NEW p \in Handlers,
             \/ ReadAccounts(p) \/ ReadLimits(p) \/ Install(p) \/ LoginFails(p) \/ CallFails(p)
             \/ CallSucceeds(p) \/ RecordStatus(p) \/ ExportSyncConfig(p)
      PROVE  Snapshots'
  <2>1. ASSUME NEW status, Finish(p, status) PROVE Snapshots'
    BY <1>2, <2>1 DEF Finish
  <2>2. CASE ReadAccounts(p)
    BY <1>2, <2>2 DEF ReadAccounts
  <2>3. CASE ReadLimits(p)
    BY <1>2, <2>3, Zenon DEF ReadLimits
  <2>4. CASE Install(p)
    BY <1>2, <2>4 DEF Install
  <2>5. CASE LoginFails(p) \/ CallFails(p) \/ CallSucceeds(p)
    BY <1>2, <2>1, <2>5 DEF LoginFails, CallFails, CallSucceeds
  <2>6. CASE RecordStatus(p)
    BY <1>2, <2>6 DEF RecordStatus
  <2>7. CASE ExportSyncConfig(p)
    BY <1>2, <2>7, Zenon DEF ExportSyncConfig
  <2> QED  BY <1>6, <2>2, <2>3, <2>4, <2>5, <2>6, <2>7
<1>7. ASSUME NEW p \in Handlers, NEW taken \in BOOLEAN, NEW answered \in BOOLEAN,
             UpsertVercelEnv(p, taken, answered)
      PROVE  Snapshots'
  <2>1. GoTo(p, "credentials", held[p]) \/ Reply(p)
    BY <1>7 DEF UpsertVercelEnv
  <2> QED  BY <1>2, <2>1
<1>8. ASSUME NEW cut \in BOOLEAN, Crash(cut) PROVE Snapshots'
  BY <1>8 DEF Crash, Snapshots
<1>9. ASSUME Restart PROVE Snapshots'
  BY <1>9 DEF Restart, handlerVars, Snapshots
<1>10. ASSUME UNCHANGED vars PROVE Snapshots'
  BY <1>10 DEF vars, handlerVars, Snapshots
<1> QED  BY <1>3, <1>4, <1>5, <1>6, <1>7, <1>8, <1>9, <1>10, Zenon DEF Next

LEMMA SnapshotInvariant == Spec => [](StoreInv /\ Snapshots)
<1>1. Init => Snapshots
  BY DEF Init, AllIdle, Snapshots
<1>2. StoreInv /\ Snapshots /\ [Next]_vars => (StoreInv /\ Snapshots)'
  BY StoreStep, SnapshotStep
<1> QED  BY StoreInit, <1>1, <1>2, PTL DEF Spec

(* The password an update keeps is the one its snapshot has for the name.   *)
LEMMA KnownIsInSnapshot ==
  ASSUME NEW old, \A i \in DOMAIN old.accounts : IsAccount(old.accounts[i]), NEW a
  PROVE  KnownPassword(old, a) = PasswordIn(old, Identifier(a))
<1>1. \A i \in DOMAIN old.accounts :
        AccountDedupeKey(NormalizeAccountForStorage(old.accounts[i])) = Identifier(old.accounts[i])
  BY NormalAccounts DEF AccountDedupeKey
<1>2. {i \in DOMAIN old.accounts :
          AccountDedupeKey(NormalizeAccountForStorage(old.accounts[i])) = AccountDedupeKey(a)}
        = {i \in DOMAIN old.accounts : Identifier(old.accounts[i]) = Identifier(a)}
  BY <1>1 DEF AccountDedupeKey
<1> QED  BY <1>2, Zenon DEF KnownPassword, PasswordIn

(* Every step that replaces the accounts takes the passwords it was not     *)
(* sent from its snapshot.                                                  *)
LEMMA PasswordsStay ==
  ASSUME StoreInv, Snapshots, [Next]_vars, NEW p \in Handlers
  PROVE  PasswordsAreKept(p)
<1> DEFINE c == store.cfg
           r == req[p]
           old == held[p][1]
           next == UpdateConfig(c, r, old)
           sent(a) == {k \in DOMAIN req[p].accounts : Identifier(req[p].accounts[k]) = Identifier(a)}
<1> SUFFICES ASSUME Edited(p, "updateConfig"), r.form = "accounts",
                    NEW j \in DOMAIN store'.cfg.accounts
             PROVE  LET after == store'.cfg.accounts[j]
                    IN  /\ sent(after) # {}
                        /\ req[p].accounts[Min(sent(after))].password = "" =>
                              after.password = PasswordIn(old, Identifier(after))
  BY Zenon DEF PasswordsAreKept
<1>1. PICK write \in Writes : Edit(p, write)
  BY EditedStep DEF Edited
<1>2. r.op = "updateConfig" /\ next = Mutate(c, r, old) /\ next # Refuse
  BY DEF Edited, Mutate, UpdateConfig, Accept, Refuse
<1> HIDE DEF next
<1>3. /\ IsKept(store) /\ r \in Requests /\ store'.cfg.accounts = next[1].accounts
  BY <1>1, <1>2, EditResult
<1>4. /\ IsList(r.accounts) /\ DOMAIN c = DOMAIN EmptyConfig
  BY <1>2, <1>3, InputsAssumption DEF IsKept, IsStored, IsReadConfig
<1> DEFINE after == next[1].accounts[j]
<1>5. PICK m : DecidedBy(r, m, old, after)
  <2>1. j \in DOMAIN UpdateConfig(c, r, old)[1].accounts
    BY <1>3 DEF next
  <2>2. /\ IsList(r.accounts) /\ DOMAIN c = DOMAIN EmptyConfig /\ r.form = "accounts"
    BY <1>4
  <2> HIDE DEF c, r, old
  <2> QED  BY <2>1, <2>2, SentPasswords DEF next
<1>6. /\ m \in DOMAIN r.accounts
      /\ Identifier(r.accounts[m]) = Identifier(after)
      /\ \A l \in 1 .. m - 1 : Identifier(r.accounts[l]) # Identifier(r.accounts[m])
      /\ r.accounts[m].password = "" => after.password = KnownPassword(old, after)
  BY <1>5 DEF DecidedBy
<1> DEFINE S == sent(after)
<1>7. m \in S /\ S \in SUBSET (DOMAIN r.accounts)
  BY <1>6
<1>8. Min(S) \in S /\ Min(S) <= m
  <2> HIDE DEF S
  <2> QED  BY <1>4, <1>7, FirstPosition
<1>9. Min(S) = m
  <2>1. /\ DOMAIN r.accounts = 1 .. Len(r.accounts) /\ Len(r.accounts) \in Nat
    BY <1>4, ListShape
  <2>2. Min(S) \in DOMAIN r.accounts
        /\ Identifier(r.accounts[Min(S)]) = Identifier(r.accounts[m])
    BY <1>6, <1>8
  <2> HIDE DEF S
  <2>3. Min(S) \notin 1 .. m - 1
    BY <1>6, <2>2
  <2> DEFINE n == Len(r.accounts)
             k == Min(S)
  <2>4. n \in Nat /\ k <= m /\ k \notin 1 .. m - 1
    BY <1>8, <2>1, <2>3
  <2>5. m \in 1 .. n
    BY <1>6, <2>1
  <2>6. k \in 1 .. n
    BY <2>1, <2>2
  <2> HIDE DEF n, k
  <2>7. k = m
    BY ONLY <2>4, <2>5, <2>6
  <2> QED  BY <2>7 DEF k
<1>10. KnownPassword(old, after) = PasswordIn(old, Identifier(after))
  <2>1. \A i \in DOMAIN old.accounts : IsAccount(old.accounts[i])
    BY DEF Snapshots, Edited
  <2> HIDE DEF old, after
  <2> QED  BY <2>1, KnownIsInSnapshot
<1>11. /\ S # {}
       /\ r.accounts[Min(S)].password = "" => after.password = PasswordIn(old, Identifier(after))
  BY <1>6, <1>7, <1>9, <1>10
<1> QED  BY <1>3, <1>11

(* Where an item of a list without its i-th item was in the list.           *)
Skip(i, j) == IF j < i THEN j ELSE j + 1

(* A list without its i-th item has the others, each in one place.          *)
LEMMA RemovedItems ==
  ASSUME NEW s, IsList(s), NEW i \in DOMAIN s
  PROVE  /\ \A j \in DOMAIN RemoveAt(s, i) :
              /\ Skip(i, j) \in DOMAIN s /\ Skip(i, j) # i
              /\ RemoveAt(s, i)[j] = s[Skip(i, j)]
         /\ \A j, k \in DOMAIN RemoveAt(s, i) : Skip(i, j) = Skip(i, k) => j = k
         /\ \A k \in DOMAIN s : k # i => Holds(RemoveAt(s, i), s[k])
<1> DEFINE t == RemoveAt(s, i)
           n == Len(s)
<1>1. IsList(t) /\ Len(t) = n - 1 /\ \A j \in 1 .. n - 1 : t[j] = s[IF j < i THEN j ELSE j + 1]
  BY ListRemoveAt
<1>2. n \in Nat /\ DOMAIN s = 1 .. n /\ i \in 1 .. n
  BY ListShape
<1> HIDE DEF t
<1>3. DOMAIN t = 1 .. n - 1
  BY <1>1, ListShape
<1> HIDE DEF n
<1>4. \A j \in 1 .. n - 1 : IF j < i THEN j \in 1 .. n /\ j # i ELSE j + 1 \in 1 .. n /\ j + 1 # i
  BY ONLY <1>2
<1>5. \A j, k \in 1 .. n - 1 : (IF j < i THEN j ELSE j + 1) = (IF k < i THEN k ELSE k + 1) => j = k
  BY ONLY <1>2
<1>6. ASSUME NEW k \in DOMAIN s, k # i PROVE Holds(t, s[k])
  <2> DEFINE j == IF k < i THEN k ELSE k - 1
  <2>1. k \in 1 .. n
    BY <1>2
  <2>2. j \in 1 .. n - 1 /\ (IF j < i THEN j ELSE j + 1) = k
    BY ONLY <1>2, <1>6, <2>1
  <2> HIDE DEF j
  <2> QED  BY <1>1, <1>3, <2>2 DEF Holds
<1> QED  BY <1>1, <1>2, <1>3, <1>4, <1>5, <1>6 DEF t, Skip

(* An edit of the proxies that is not refused passed validateProxyMutation. *)
LEMMA RefusedOrValid ==
  ASSUME NEW d, d # Refuse, \E n : d = RefuseUnless(ValidateProxyMutation(n), n)
  PROVE  ValidateProxyMutation(d[1])
<1>1. PICK n : d = RefuseUnless(ValidateProxyMutation(n), n)
  OBVIOUS
<1>2. ValidateProxyMutation(n) /\ d = <<n>>
  BY <1>1 DEF RefuseUnless, Accept, Refuse
<1> QED  BY <1>2

(* The edits that change proxies or the accounts' use of them.              *)
ProxyOps == {"addProxy", "updateProxy", "deleteProxy", "updateAccountProxy"}

(* Every such edit that is made leaves a valid configuration.               *)
LEMMA ProxyEditsAreValid ==
  ASSUME NEW c, NEW r, NEW old, r.op \in ProxyOps, Mutate(c, r, old) # Refuse
  PROVE  ValidateProxyMutation(Mutate(c, r, old)[1])
<1>1. CASE r.op = "addProxy"
  <2>1. Mutate(c, r, old) = AddProxy(c, r)
    BY <1>1 DEF Mutate
  <2>2. \E next : AddProxy(c, r) = RefuseUnless(ValidateProxyMutation(next), next)
    BY DEF AddProxy
  <2> QED  BY <2>1, <2>2, RefusedOrValid
<1>2. CASE r.op = "updateProxy"
  <2>1. Mutate(c, r, old) = UpdateProxy(c, r)
    BY <1>2 DEF Mutate
  <2>2. UpdateProxy(c, r) # Refuse =>
          \E next : UpdateProxy(c, r) = RefuseUnless(ValidateProxyMutation(next), next)
    BY DEF UpdateProxy
  <2> QED  BY <2>1, <2>2, RefusedOrValid
<1>3. CASE r.op = "deleteProxy"
  <2>1. Mutate(c, r, old) = DeleteProxy(c, r)
    BY <1>3 DEF Mutate
  <2>2. DeleteProxy(c, r) # Refuse =>
          \E next : DeleteProxy(c, r) = RefuseUnless(ValidateProxyMutation(next), next)
    BY DEF DeleteProxy
  <2> QED  BY <2>1, <2>2, RefusedOrValid
<1>4. CASE r.op = "updateAccountProxy"
  <2>1. Mutate(c, r, old) = UpdateAccountProxy(c, r)
    BY <1>4 DEF Mutate
  <2>2. UpdateAccountProxy(c, r) # Refuse =>
          \E next : UpdateAccountProxy(c, r) = RefuseUnless(ValidateProxyMutation(next), next)
    BY DEF UpdateAccountProxy
  <2> QED  BY <2>1, <2>2, RefusedOrValid
<1> QED  BY <1>1, <1>2, <1>3, <1>4 DEF ProxyOps

(* A proxy of a valid configuration can be deleted, whichever accounts use  *)
(* it.                                                                      *)
LEMMA ProxyIsDeleted ==
  ASSUME NEW c, IsStored(c), ValidateProxyMutation(c), NEW r, HasProxy(c, r.proxyID)
  PROVE  DeleteProxy(c, r) # Refuse /\ ~HasProxy(DeleteProxy(c, r)[1], r.proxyID)
<1> DEFINE same == {i \in DOMAIN c.proxies : c.proxies[i].id = r.proxyID}
           m == Min(same)
           proxies == RemoveAt(c.proxies, m)
           accounts == [i \in DOMAIN c.accounts |->
                          IF c.accounts[i].proxy = r.proxyID
                          THEN [c.accounts[i] EXCEPT !.proxy = ""] ELSE c.accounts[i]]
           next == [c EXCEPT !.proxies = proxies, !.accounts = accounts]
<1>1. same # {} /\ same \in SUBSET (DOMAIN c.proxies)
  BY DEF HasProxy
<1>2. DeleteProxy(c, r) = RefuseUnless(ValidateProxyMutation(next), next)
  BY <1>1 DEF DeleteProxy
<1>3. /\ IsList(c.proxies) /\ IsList(c.accounts) /\ {"proxies", "accounts"} \subseteq DOMAIN c
      /\ \A i \in DOMAIN c.accounts : IsAccount(c.accounts[i])
  BY DEF IsStored, IsReadConfig, EmptyConfig
<1>4. m \in same
  <2> HIDE DEF same
  <2> QED  BY <1>1, <1>3, FirstPosition
<1>5. m \in DOMAIN c.proxies /\ c.proxies[m].id = r.proxyID
  BY <1>4
<1>6. /\ \A i \in DOMAIN c.proxies : c.proxies[i].wellFormed
      /\ \A i, j \in DOMAIN c.proxies : c.proxies[i].id = c.proxies[j].id => i = j
      /\ \A i \in DOMAIN c.accounts : c.accounts[i].proxy # "" => HasProxy(c, c.accounts[i].proxy)
  BY DEF ValidateProxyMutation, ValidateProxyConfig, ValidateAccountProxyReferences
<1>7. next.proxies = proxies /\ next.accounts = accounts
  BY <1>3
<1>8. DOMAIN accounts = DOMAIN c.accounts
  OBVIOUS
<1>9. \A i \in DOMAIN c.accounts :
        accounts[i].proxy = IF c.accounts[i].proxy = r.proxyID THEN "" ELSE c.accounts[i].proxy
  <2> TAKE i \in DOMAIN c.accounts
  <2>1. "proxy" \in DOMAIN c.accounts[i]
    BY <1>3 DEF IsAccount, AccountFields
  <2> QED  BY <2>1
<1> HIDE DEF accounts, next, same
<1> HIDE DEF m
<1>10. /\ \A j \in DOMAIN proxies :
              Skip(m, j) \in DOMAIN c.proxies /\ Skip(m, j) # m /\ proxies[j] = c.proxies[Skip(m, j)]
       /\ \A j, k \in DOMAIN proxies : Skip(m, j) = Skip(m, k) => j = k
       /\ \A k \in DOMAIN c.proxies : k # m => Holds(proxies, c.proxies[k])
  <2>1. IsList(c.proxies) /\ m \in DOMAIN c.proxies
    BY <1>3, <1>5
  <2> DEFINE list == c.proxies
  <2>2. IsList(list) /\ m \in DOMAIN list
    BY <2>1
  <2> HIDE DEF list
  <2>3. /\ \A j \in DOMAIN RemoveAt(list, m) :
              /\ Skip(m, j) \in DOMAIN list /\ Skip(m, j) # m
              /\ RemoveAt(list, m)[j] = list[Skip(m, j)]
        /\ \A j, k \in DOMAIN RemoveAt(list, m) : Skip(m, j) = Skip(m, k) => j = k
        /\ \A k \in DOMAIN list : k # m => Holds(RemoveAt(list, m), list[k])
    BY <2>2, RemovedItems
  <2> QED  BY <2>3 DEF list
<1> HIDE DEF proxies
<1>11. ValidateProxyConfig(proxies)
  BY <1>6, <1>10 DEF ValidateProxyConfig
<1>12. ~HasProxy(next, r.proxyID)
  <2>1. \A j \in DOMAIN proxies : proxies[j].id # r.proxyID
    <3> TAKE j \in DOMAIN proxies
    <3> DEFINE k == Skip(m, j)
    <3>1. k \in DOMAIN c.proxies /\ k # m /\ proxies[j] = c.proxies[k]
      BY <1>10
    <3> HIDE DEF k
    <3> QED  BY <1>5, <1>6, <3>1
  <2> QED  BY <1>7, <2>1 DEF HasProxy
<1>13. ASSUME NEW i \in DOMAIN c.accounts, accounts[i].proxy # ""
       PROVE  HasProxy(next, accounts[i].proxy)
  <2>1. c.accounts[i].proxy # r.proxyID /\ accounts[i].proxy = c.accounts[i].proxy
    BY <1>9, <1>13
  <2>2. PICK k \in DOMAIN c.proxies : c.proxies[k].id = c.accounts[i].proxy
    BY <1>6, <1>13, <2>1 DEF HasProxy
  <2>3. Holds(proxies, c.proxies[k])
    BY <1>5, <1>10, <2>1, <2>2
  <2>4. PICK j \in DOMAIN proxies : proxies[j] = c.proxies[k]
    BY <2>3 DEF Holds
  <2> QED  BY <1>7, <2>1, <2>2, <2>4 DEF HasProxy
<1>14. ValidateProxyMutation(next)
  BY <1>7, <1>8, <1>11, <1>13 DEF ValidateProxyMutation, ValidateAccountProxyReferences
<1> QED  BY <1>2, <1>12, <1>14 DEF RefuseUnless, Accept, Refuse

(* Every step that edits proxies keeps the references right.                *)
LEMMA ProxyReferencesStay ==
  ASSUME StoreInv, [Next]_vars, NEW p \in Handlers
  PROVE  ProxyReferencesAreKept(p)
<1> DEFINE next == Mutate(store.cfg, req[p], held[p][1])
<1>1. ASSUME NEW op \in ProxyOps, Edited(p, op)
      PROVE  /\ req[p].op = op /\ IsStored(store.cfg)
             /\ next = Refuse => store' = store
             /\ next # Refuse => /\ store'.cfg.accounts = next[1].accounts
                                 /\ store'.cfg.proxies = next[1].proxies
                                 /\ ValidateProxyMutation(next[1])
  <2>1. PICK write \in Writes : Edit(p, write)
    BY <1>1, EditedStep DEF Edited
  <2>2. req[p].op = op
    BY <1>1 DEF Edited
  <2>3. next # Refuse => ValidateProxyMutation(next[1])
    BY <1>1, <2>2, ProxyEditsAreValid
  <2> HIDE DEF next
  <2>4. /\ IsKept(store)
        /\ next = Refuse => store' = store
        /\ next # Refuse => /\ store'.cfg.accounts = next[1].accounts
                            /\ store'.cfg.proxies = next[1].proxies
    BY <2>1, EditResult DEF next
  <2> QED  BY <2>2, <2>3, <2>4 DEF IsKept
<1>2. ASSUME NEW op \in ProxyOps, Edited(p, op), store'.cfg # store.cfg
      PROVE  ValidateAccountProxyReferences(store'.cfg)
  <2> HIDE DEF next
  <2>1. next # Refuse
    BY <1>1, <1>2
  <2>2. /\ store'.cfg.accounts = next[1].accounts /\ store'.cfg.proxies = next[1].proxies
        /\ ValidateAccountProxyReferences(next[1])
    BY <1>1, <1>2, <2>1 DEF ValidateProxyMutation
  <2> QED  BY <2>2 DEF ValidateAccountProxyReferences, HasProxy
<1>3. ASSUME Edited(p, "deleteProxy"), ValidateProxyMutation(store.cfg)
      PROVE  ~HasProxy(store'.cfg, req[p].proxyID)
  <2>1. "deleteProxy" \in ProxyOps
    BY DEF ProxyOps
  <2>2. next = DeleteProxy(store.cfg, req[p])
    BY <1>1, <1>3, <2>1 DEF Mutate
  <2>3. IsStored(store.cfg)
    BY <1>1, <1>3, <2>1
  <2>4. CASE HasProxy(store.cfg, req[p].proxyID)
    <3>1. next # Refuse /\ ~HasProxy(next[1], req[p].proxyID)
      BY <1>3, <2>2, <2>3, <2>4, ProxyIsDeleted
    <3> HIDE DEF next
    <3>2. store'.cfg.proxies = next[1].proxies
      BY <1>1, <1>3, <2>1, <3>1
    <3> QED  BY <3>1, <3>2 DEF HasProxy
  <2>5. CASE ~HasProxy(store.cfg, req[p].proxyID)
    <3>1. {i \in DOMAIN store.cfg.proxies : store.cfg.proxies[i].id = req[p].proxyID} = {}
      BY <2>5 DEF HasProxy
    <3>2. next = Refuse
      BY <2>2, <3>1 DEF DeleteProxy
    <3> HIDE DEF next
    <3>3. store' = store
      BY <1>1, <1>3, <2>1, <3>2
    <3> QED  BY <2>5, <3>3
  <2> QED  BY <2>4, <2>5
<1> QED  BY <1>2, <1>3, Zenon DEF ProxyReferencesAreKept, ProxyOps

(* In every behaviour each edit of keys and proxies does what it was asked  *)
(* to the configuration it finds: keys sent replace keys and keep their     *)
(* names, an import loses no key, and no account is left with a proxy that  *)
(* is gone.  Accounts that are replaced keep the passwords that were not    *)
(* sent, as they were when the request came in.                             *)
THEOREM EditsKeepTheRestHold == Spec => EditsKeepTheRest
<1>1. StoreInv /\ Snapshots /\ [Next]_vars =>
        [\A p \in Handlers :
            KeyEditTakesEffect(p) /\ PasswordsAreKept(p) /\ ProxyReferencesAreKept(p)]_vars
  BY KeyEditsTakeEffect, PasswordsStay, ProxyReferencesStay
<1> QED  BY <1>1, SnapshotInvariant, PTL DEF Spec, EditsKeepTheRest

================================================================================
