------------------------------ MODULE AdminConfig ------------------------------
(***************************************************************************)
(* The admin handlers over the configuration store: what each request       *)
(* reads, the edit it hands to the store, and what it does afterwards to    *)
(* the account pool or at the hosting provider.  Handlers run concurrently; *)
(* the store and the pool are locked call by call, so between two calls of  *)
(* one handler anything may happen, and what was read may be old.  Writes   *)
(* fail, the process stops and starts again.                                *)
(***************************************************************************)
EXTENDS ConfigStore, AdminEdits

CONSTANTS Handlers,      \* the request handlers that run at the same time
          Requests,      \* the requests they may receive
          Deployments,   \* how the process may be deployed
          Files,         \* the configuration files there may be at first
          DefaultPer,    \* account_max_inflight when nothing sets it
          MaxRequests, MaxFailures, MaxCrashes   \* bounds of the instance

(* Requests, the environment variable and the file hold configurations in   *)
(* the form the reader makes of them: every field is there, and the lists   *)
(* are lists.                                                               *)
IsConfig(c) == DOMAIN c = DOMAIN EmptyConfig
IsList(s) == s \in Seq(ToSet(s))
AccountFields == {"name", "email", "mobile", "password", "token", "proxy"}
IsAccount(a) == a = [f \in AccountFields |-> a[f]]
IsReadConfig(c) ==
    /\ c = [f \in DOMAIN EmptyConfig |-> c[f]]
    /\ IsList(c.keys) /\ IsList(c.apiKeys) /\ IsList(c.proxies) /\ IsList(c.accounts)
    /\ \A i \in DOMAIN c.accounts : IsAccount(c.accounts[i])
    /\ c.per \in Nat /\ c.global \in Nat
ASSUME InputsAssumption ==
    /\ \A r \in Requests :
          /\ "op" \in DOMAIN r
          /\ r.op \in {"updateConfig", "batchImport"} =>
                IsList(r.keys) /\ IsList(r.structured) /\ IsList(r.accounts)
          /\ r.op = "configImport" => IsReadConfig(r.config)
          /\ r.op = "batchUpdateTokens" => IsList(r.tokens)
          /\ r.op = "updateSettings" => r.per \in Nat /\ r.global \in Nat
    /\ \A d \in Deployments :
          /\ IsReadConfig(d.envConfig) /\ d.vercel \in BOOLEAN
          /\ d.legacy # <<>> => IsReadConfig(d.legacy[1]) /\ ~d.pathSet
    /\ \A f \in Files : IsReadConfig(f.cfg) /\ f.state \in {"missing", "torn", "written"}
ASSUME BoundsAssumption ==
    MaxRequests \in Nat /\ MaxFailures \in Nat /\ MaxCrashes \in Nat

VARIABLES up,         \* the process runs
          pc, req,    \* where each handler is, and its request
          held,       \* what it read and still uses
          pool,       \* the account pool: [ids, per, global]
          remote,     \* what this server published at the provider: <<>> or <<c>>
          overtaken,  \* ghost: publications after whose upsert another one was taken
          marked,     \* ghost: the mark is of the publication taken last
          twice,      \* ghost: the names that several accounts had when loaded
          crossed,    \* ghost: a change was made while a pool refresh was under way
          received, failures, crashes

handlerVars == <<pc, req, held>>
budget == <<received, failures, crashes>>
publication == <<remote, overtaken, marked>>
vars == <<storeVars, up, handlerVars, pool, publication, twice, crossed, budget>>

Idle == [op |-> "none"]

RuntimeAccountMaxInflight(c) == IF c.per > 0 THEN c.per ELSE DefaultPer
PoolWith(ids, recommended, c) ==
    [ids |-> ids, per |-> RuntimeAccountMaxInflight(c),
     global |-> IF c.global > 0 THEN c.global ELSE recommended]
ResetPool(ids, c) == PoolWith(ids, Len(ids) * RuntimeAccountMaxInflight(c), c)
(* New limits recommend one account's worth when there is no account.       *)
ApplyRuntimeSettings(ids, c) ==
    PoolWith(ids, Max({1, Len(ids)}) * RuntimeAccountMaxInflight(c), c)

(* The accounts as the pool queues them: those with a token first.          *)
PoolIDs(c) ==
    LET With(has) == AtPositions(c.accounts, {i \in DOMAIN c.accounts :
                         (c.accounts[i].token # "") = has /\ Identifier(c.accounts[i]) # NoID})
        accs == With(TRUE) \o With(FALSE)
    IN  [i \in DOMAIN accs |-> Identifier(accs[i])]

Reply(p) ==
    /\ pc' = [pc EXCEPT ![p] = "idle"]
    /\ req' = [req EXCEPT ![p] = Idle]
    /\ held' = [held EXCEPT ![p] = <<>>]
GoTo(p, step, h) ==
    /\ pc' = [pc EXCEPT ![p] = step]
    /\ held' = [held EXCEPT ![p] = h]
    /\ UNCHANGED req

(* A handler that has read the store for the pool and not yet told it.      *)
Refreshing(p) == pc[p] \in {"limits", "install"}
Cross == crossed' = (crossed \/ \E p \in Handlers : Refreshing(p))
Fails(write) == failures' = failures + (IF write = "ok" THEN 0 ELSE 1)
CanWrite(write) == write = "ok" \/ failures < MaxFailures

(***************************************************************************)
(* One handler.                                                             *)
(***************************************************************************)
(* An edit: what it reads before it takes the lock, and its early refusal.  *)
ReceiveEdit(p, r) ==
    /\ r.op \in EditOps
    /\ r.op = "updateSettings" => /\ ParseSettingsUpdateRequest(r)
                                  /\ ValidateRuntimeConfig(MergedRuntime(store.cfg, r))
    /\ req' = [req EXCEPT ![p] = r]
    /\ pc' = [pc EXCEPT ![p] = "edit"]
    /\ held' = [held EXCEPT ![p] = <<store.cfg>>]

(* Work at the provider with the account as it is now: log in, call, and if *)
(* the call fails log in and call once more.                                *)
WithAccount(p, r) ==
    LET i == FindAccountByIdentifier(r.id)
    IN  /\ i # 0
        /\ req' = [req EXCEPT ![p] = r]
        /\ pc' = [pc EXCEPT ![p] = "login"]
        /\ held' = [held EXCEPT ![p] = <<store.cfg.accounts[i]>>]
TestSingleAccount(p, r) == r.op = "testAccount" /\ WithAccount(p, r)
DeleteAllSessions(p, r) == r.op = "deleteAllSessions" /\ WithAccount(p, r)

(* A publication needs credentials, its own or the saved ones, and then     *)
(* logs in the accounts without a token.                                    *)
ReceiveSync(p, r) ==
    /\ r.op = "syncVercel"
    /\ r.credentials # "" \/ store.cfg.vercel # ""
    /\ req' = [req EXCEPT ![p] = r]
    /\ pc' = [pc EXCEPT ![p] = "validate"]
    /\ held' = [held EXCEPT ![p] = SelectSeq(store.cfg.accounts, LAMBDA a : a.token = "")]

Receive(p, r) ==
    /\ up /\ pc[p] = "idle" /\ received < MaxRequests
    /\ received' = received + 1
    /\ \/ ReceiveEdit(p, r) \/ TestSingleAccount(p, r) \/ DeleteAllSessions(p, r)
       \/ ReceiveSync(p, r)
    /\ UNCHANGED <<storeVars, up, pool, publication, twice, crossed, failures, crashes>>

AfterEdit(op) ==
    IF ResetsPool(op) \/ op = "updateSettings" THEN "accounts" ELSE "done"

Edit(p, write) ==
    LET next == Mutate(store.cfg, req[p], held[p][1])
    IN  /\ pc[p] = "edit" /\ CanWrite(write)
        /\ IF next = Refuse
           THEN /\ write = "ok"
                /\ Reply(p)
                /\ UNCHANGED <<store, file, saved, crossed>>
           ELSE /\ Update(next[1], write)
                /\ Cross
                /\ IF write = "ok" /\ AfterEdit(req[p].op) # "done"
                   THEN GoTo(p, "accounts", <<>>) ELSE Reply(p)
        /\ Fails(write)
        /\ UNCHANGED <<deploy, up, pool, publication, twice, received, crashes>>

(* Pool.Reset, or for new limits applyRuntimeSettings: the accounts are     *)
(* read, then the limits, and then the pool takes them.                     *)
ReadAccounts(p) ==
    /\ pc[p] = "accounts"
    /\ GoTo(p, "limits", <<PoolIDs(store.cfg)>>)
    /\ UNCHANGED <<storeVars, up, pool, publication, twice, crossed, budget>>
ReadLimits(p) ==
    /\ pc[p] = "limits"
    /\ GoTo(p, "install", <<IF ResetsPool(req[p].op) THEN ResetPool(held[p][1], store.cfg)
                            ELSE ApplyRuntimeSettings(held[p][1], store.cfg)>>)
    /\ UNCHANGED <<storeVars, up, pool, publication, twice, crossed, budget>>
Install(p) ==
    /\ pc[p] = "install"
    /\ pool' = IF ResetsPool(req[p].op) THEN held[p][1]
               ELSE [held[p][1] EXCEPT !.ids = pool.ids]
    /\ Reply(p)
    /\ UNCHANGED <<storeVars, up, publication, twice, crossed, budget>>

(* The login of an account test or clean-up: a token that cannot be saved   *)
(* is only warned about.  A failed first call logs in once more.            *)
LoginSucceeds(p, write) ==
    /\ pc[p] \in {"login", "relogin"} /\ CanWrite(write)
    /\ UpdateAccountToken(Identifier(held[p][1]), req[p].token, write)
    /\ GoTo(p, IF pc[p] = "login" THEN "call" ELSE "callAgain", held[p])
    /\ FindAccountIndex(store, Identifier(held[p][1])) = 0 => write = "ok"
    /\ Fails(write)
    /\ UNCHANGED <<deploy, up, pool, publication, twice, crossed, received, crashes>>
Finish(p, status) ==
    IF req[p].op = "testAccount" THEN GoTo(p, "status", Append(held[p], status)) ELSE Reply(p)
LoginFails(p) ==
    /\ pc[p] \in {"login", "relogin"}
    /\ Finish(p, "failed")
    /\ UNCHANGED <<storeVars, up, pool, publication, twice, crossed, budget>>
CallFails(p) ==
    /\ pc[p] \in {"call", "callAgain"}
    /\ IF pc[p] = "call" THEN GoTo(p, "relogin", held[p]) ELSE Finish(p, "failed")
    /\ UNCHANGED <<storeVars, up, pool, publication, twice, crossed, budget>>
CallSucceeds(p) ==
    /\ pc[p] \in {"call", "callAgain"}
    /\ \E status \in {"ok", "failed"} : Finish(p, status)
    /\ UNCHANGED <<storeVars, up, pool, publication, twice, crossed, budget>>
RecordStatus(p) ==
    /\ pc[p] = "status"
    /\ UpdateAccountTestStatus(Identifier(held[p][1]), held[p][2])
    /\ Reply(p)
    /\ UNCHANGED <<deploy, up, pool, publication, twice, crossed, budget>>

(***************************************************************************)
(* Publishing the configuration at the provider.                            *)
(***************************************************************************)
ValidateAccount(p, write) ==
    /\ pc[p] = "validate" /\ held[p] # <<>> /\ CanWrite(write)
    /\ \/ /\ UpdateAccountToken(Identifier(held[p][1]), req[p].token, write)
          /\ FindAccountIndex(store, Identifier(held[p][1])) = 0 => write = "ok"
          /\ Fails(write)
       \/ /\ write = "ok"
          /\ UNCHANGED <<store, file, saved, failures>>
    /\ GoTo(p, "validate", Tail(held[p]))
    /\ UNCHANGED <<deploy, up, pool, publication, twice, crossed, received, crashes>>
ExportSyncConfig(p) ==
    /\ pc[p] = "validate" /\ held[p] = <<>>
    /\ GoTo(p, "upsert", <<EncodeVercelSyncConfig(
                             IF req[p].override = <<>> THEN store.cfg
                             ELSE Unmarshal(req[p].override[1]))>>)
    /\ UNCHANGED <<storeVars, up, pool, publication, twice, crossed, budget>>
(* The provider has taken a handler's text, which it has not marked yet.    *)
Answered(p) == pc[p] \in {"credentials", "mark"}

(* The provider refuses, or takes the text and its answer comes or is lost. *)
(* Nothing keeps two publications apart.                                    *)
UpsertVercelEnv(p, taken, answered) ==
    /\ pc[p] = "upsert"
    /\ IF taken
       THEN /\ remote' = held[p]
            /\ overtaken' = (overtaken \cup {q \in Handlers : Answered(q)}) \ {p}
            /\ marked' = FALSE
       ELSE UNCHANGED publication
    /\ IF taken /\ answered THEN GoTo(p, "credentials", held[p]) ELSE Reply(p)
    /\ UNCHANGED <<storeVars, up, pool, twice, crossed, budget>>
SaveCredentials(p, write) ==
    /\ pc[p] = "credentials" /\ CanWrite(write)
    /\ Update(SaveLocalVercelCredentials(store.cfg, req[p])[1], write)
    /\ GoTo(p, "mark", held[p])
    /\ Fails(write)
    /\ UNCHANGED <<deploy, up, pool, publication, twice, crossed, received, crashes>>
MarkSynced(p, write) ==
    /\ pc[p] = "mark" /\ CanWrite(write)
    /\ Update(SetVercelSync(store.cfg, held[p][1])[1], write)
    /\ marked' = (p \notin overtaken)
    /\ Reply(p)
    /\ Fails(write)
    /\ UNCHANGED <<deploy, up, pool, remote, overtaken, twice, crossed, received, crashes>>

(***************************************************************************)
(* The process.                                                             *)
(***************************************************************************)
AllIdle == /\ pc = [p \in Handlers |-> "idle"]
           /\ req = [p \in Handlers |-> Idle]
           /\ held = [p \in Handlers |-> <<>>]

NamedTwice(accounts) ==
    {Identifier(accounts[i]) : i \in {i \in DOMAIN accounts :
        \E j \in DOMAIN accounts : j # i /\ Identifier(accounts[j]) = Identifier(accounts[i])}}

(* Serving starts only with a configuration that loads without an error.    *)
Started(l) ==
    /\ store' = NewStore(l)
    /\ file' = l.file
    /\ saved' = l.cfg
    /\ twice' = NamedTwice(l.cfg.accounts)
    /\ up' = ~l.error
    /\ pool' = ResetPool(PoolIDs(l.cfg), l.cfg)

Init ==
    /\ deploy \in Deployments
    /\ \E found \in Files : \E l \in LoadConfig(found) :
          /\ ~l.error
          /\ store = NewStore(l)
          /\ file = l.file
          /\ saved = l.cfg
          /\ twice = NamedTwice(l.cfg.accounts)
          /\ pool = ResetPool(PoolIDs(l.cfg), l.cfg)
    /\ up = TRUE
    /\ AllIdle
    /\ remote = <<>> /\ overtaken = {} /\ marked = FALSE
    /\ crossed = FALSE
    /\ received = 0 /\ failures = 0 /\ crashes = 0

Writing(p) == pc[p] \in {"edit", "login", "relogin", "validate", "credentials", "mark"}
Crash(cut) ==
    /\ up /\ crashes < MaxCrashes
    /\ cut => ~SkipsWrite(store) /\ \E p \in Handlers : Writing(p)
    /\ crashes' = crashes + 1
    /\ up' = FALSE
    /\ file' = IF cut THEN TornFile ELSE file
    /\ pc' = [p \in Handlers |-> "idle"]
    /\ req' = [p \in Handlers |-> Idle]
    /\ held' = [p \in Handlers |-> <<>>]
    /\ UNCHANGED <<deploy, store, saved, pool, publication, twice, crossed, received, failures>>
Restart ==
    /\ ~up
    /\ \E l \in LoadConfig(file) : Started(l)
    /\ crossed' = FALSE
    /\ marked' = (marked /\ store'.cfg.sync = store.cfg.sync)
    /\ UNCHANGED <<deploy, handlerVars, remote, overtaken, budget>>

Next ==
    \/ \E p \in Handlers, r \in Requests : Receive(p, r)
    \/ \E p \in Handlers, write \in Writes :
          \/ Edit(p, write)
          \/ LoginSucceeds(p, write)
          \/ ValidateAccount(p, write)
          \/ SaveCredentials(p, write)
          \/ MarkSynced(p, write)
    \/ \E p \in Handlers :
          \/ ReadAccounts(p) \/ ReadLimits(p) \/ Install(p)
          \/ LoginFails(p) \/ CallFails(p) \/ CallSucceeds(p) \/ RecordStatus(p)
          \/ ExportSyncConfig(p)
    \/ \E p \in Handlers, taken, answered \in BOOLEAN : UpsertVercelEnv(p, taken, answered)
    \/ \E cut \in BOOLEAN : Crash(cut)
    \/ Restart
Spec == Init /\ [][Next]_vars

(***************************************************************************)
(* Properties.                                                              *)
(***************************************************************************)
(* The state has its shape, accounts have all their fields and a name.      *)
TypeOK ==
    /\ store.cfg.per \in Nat /\ store.cfg.global \in Nat
    /\ \A i \in DOMAIN store.cfg.accounts :
          IsAccount(store.cfg.accounts[i]) /\ Identifier(store.cfg.accounts[i]) # NoID
    /\ store.fromEnv \in BOOLEAN /\ up \in BOOLEAN /\ crossed \in BOOLEAN
    /\ file.state \in {"missing", "torn", "written"}
    /\ marked \in BOOLEAN /\ overtaken \subseteq Handlers
    /\ received \in 0 .. MaxRequests
    /\ failures \in 0 .. MaxFailures /\ crashes \in 0 .. MaxCrashes

(* The plain keys, the structured keys and the set requests are checked     *)
(* against are the same keys, each once, whichever form an edit used.       *)
KeysAgree ==
    /\ store.cfg.keys = ApiKeysToStrings(store.cfg.apiKeys)
    /\ IsInjective(store.cfg.keys)
    /\ store.keyMap = ToSet(store.cfg.keys)

(* No edit and no import gives two accounts one name, however a number is   *)
(* spelled and whichever way the accounts came in: two that share one had   *)
(* it in the file or variable already, which loading does not mend.         *)
IdentifiersUnique ==
    \A i, j \in DOMAIN store.cfg.accounts :
        Identifier(store.cfg.accounts[i]) = Identifier(store.cfg.accounts[j]) =>
            i = j \/ Identifier(store.cfg.accounts[i]) \in twice

(* An account's name finds an account of that name, and so itself if it is  *)
(* the only one, and no other name in the index leads to another account,   *)
(* after accounts moved, went and got new tokens.                           *)
IndexResolves ==
    /\ \A i \in DOMAIN store.cfg.accounts :
          LET id == Identifier(store.cfg.accounts[i])
          IN  /\ FindAccountIndex(store, id) \in DOMAIN store.cfg.accounts
              /\ Identifier(store.cfg.accounts[FindAccountIndex(store, id)]) = id
    /\ \A id \in DOMAIN store.accMap :
          /\ store.accMap[id] \in DOMAIN store.cfg.accounts
          /\ MatchesIdentifier(store.cfg.accounts[store.accMap[id]], id)

(* A test result is only kept for an account that exists, though its test   *)
(* ends after the account was deleted or replaced: under one of its names,  *)
(* or under its e-mail in lower case (which may be another account's).      *)
StatusOnlyForKnown ==
    \A id \in DOMAIN store.accTest :
        \E i \in DOMAIN store.cfg.accounts :
            \/ id \in AliasesOf(store.cfg.accounts[i])
            \/ id = LowerID(Identifier(store.cfg.accounts[i]))

(* With every edit saved and none made while a refresh was under way, a     *)
(* quiet server's pool has the accounts and the limits of the store.        *)
PoolFollowsStore ==
    up /\ AllIdle /\ failures = 0 /\ ~crossed =>
        LET p == ResetPool(PoolIDs(store.cfg), store.cfg)
        IN  /\ ToSet(pool.ids) = ToSet(p.ids) /\ Len(pool.ids) = Len(p.ids)
            /\ pool.per = p.per
            /\ p.ids # <<>> => pool.global = p.global

(* After any edits, failures and restarts, the forms in which the store     *)
(* holds its keys and accounts say the same, and its indexes find what is   *)
(* there and nothing else.                                                  *)
StoreIsConsistent ==
    /\ TypeOK
    /\ KeysAgree
    /\ IdentifiersUnique
    /\ IndexResolves
    /\ StatusOnlyForKnown

Edited(p, op) == pc[p] = "edit" /\ req[p].op = op /\ pc'[p] # "edit" /\ up'
NameOf(items, key) ==
    LET same == {i \in DOMAIN items : items[i].key = key}
    IN  IF same = {} THEN "" ELSE items[Min(same)].name

(* A list of plain keys replaces the keys but not what is known of those    *)
(* that stay, and an import adds keys without losing one or its name.       *)
KeyEditTakesEffect(p) ==
    /\ Edited(p, "updateConfig") /\ req[p].form = "legacy" =>
          /\ store'.cfg.keys = NormalizeKeys(req[p].keys)
          /\ \A k \in ToSet(store'.cfg.keys) :
                NameOf(store'.cfg.apiKeys, k) = NameOf(store.cfg.apiKeys, k)
    /\ Edited(p, "batchImport") =>
          /\ (ToSet(store.cfg.keys) \cup ToSet(req[p].keys)
                 \cup ToSet(ApiKeysToStrings(req[p].structured))) \ {""} = ToSet(store'.cfg.keys)
          /\ \A k \in ToSet(store.cfg.keys) :
                NameOf(store.cfg.apiKeys, k) # "" =>
                    NameOf(store'.cfg.apiKeys, k) = NameOf(store.cfg.apiKeys, k)

PasswordIn(c, id) ==
    LET same == {i \in DOMAIN c.accounts : Identifier(c.accounts[i]) = id}
    IN  IF same = {} THEN "" ELSE c.accounts[Max(same)].password

(* An account whose password is not sent when the accounts are replaced     *)
(* gets the one that this very account had when the request came in, by     *)
(* whatever spelling it is named.  What others did to its password since is *)
(* undone: one that a captured token cleared is back, and an account added  *)
(* or given a password meanwhile has none.                                  *)
PasswordsAreKept(p) ==
    Edited(p, "updateConfig") /\ req[p].form = "accounts" =>
        \A j \in DOMAIN store'.cfg.accounts :
            LET after == store'.cfg.accounts[j]
                sent == {k \in DOMAIN req[p].accounts :
                           Identifier(req[p].accounts[k]) = Identifier(after)}
            IN  /\ sent # {}
                /\ req[p].accounts[Min(sent)].password = "" =>
                      after.password = PasswordIn(held[p][1], Identifier(after))

(* A proxy edit leaves no account with a proxy that is gone, and a proxy    *)
(* that accounts use can be deleted: they are released from it.             *)
ProxyReferencesAreKept(p) ==
    /\ (\E op \in {"addProxy", "updateProxy", "deleteProxy", "updateAccountProxy"} :
            Edited(p, op)) /\ store'.cfg # store.cfg =>
          ValidateAccountProxyReferences(store'.cfg)
    /\ Edited(p, "deleteProxy") /\ ValidateProxyMutation(store.cfg) =>
          ~HasProxy(store'.cfg, req[p].proxyID)

(* An edit of keys or proxies does what it was asked to the configuration   *)
(* it finds, not to the one its page was drawn from, and takes nothing else *)
(* with it; one that replaces the accounts takes the passwords that were    *)
(* not sent from the configuration it found when it came in.                *)
EditsKeepTheRest ==
    [][\A p \in Handlers :
        KeyEditTakesEffect(p) /\ PasswordsAreKept(p) /\ ProxyReferencesAreKept(p)]_vars

(* A restart that finds an intact file serves what was saved last, whatever *)
(* the environment variable holds; one that finds a file cut short, and has *)
(* neither a variable nor the file of an older image to turn to, serves     *)
(* nothing rather than an empty configuration.                              *)
RestartRestores ==
    [][~up =>
        /\ /\ up' /\ file.state = "written" /\ ~deploy.vercel
           /\ deploy.env = "none" \/ deploy.writeback
           => store'.cfg = saved
        /\ /\ file.state = "torn" /\ ~deploy.vercel
           /\ deploy.env = "broken" \/ (deploy.env = "none" /\ deploy.legacy = <<>>)
           => ~up']_vars

(* The configuration counts as in sync exactly while it is what the         *)
(* provider has: through edits made before, during and after a publication, *)
(* configurations that the caller sends instead, imports and lost writes.   *)
(* It need not be from when the provider takes a text until that is marked  *)
(* (for ever, if its answer is lost or the server stops), when another      *)
(* publication was taken before this one's mark, which then tells of the    *)
(* wrong one, and after a restart that does not find the mark.              *)
MarkTellsTheTruth ==
    up /\ marked =>
        (Synced(store.cfg) <=> SyncHashForJSON(remote[1]) = ComputeSyncHash(store.cfg))
===============================================================================
