------------------------------ MODULE ConfigStore ------------------------------
(***************************************************************************)
(* The configuration store (internal/config): the configuration in memory   *)
(* with its lookup indexes, and the file or environment variable it comes   *)
(* from and is saved to.  Every operation holds the store's lock, so each   *)
(* is one step; which of them a request runs, and in which order, is the    *)
(* business of AdminConfig.                                                 *)
(***************************************************************************)
EXTENDS ConfigData

(* How the process is deployed:                                             *)
(*   env        what the configuration variable holds: "none", "broken" or  *)
(*              "set", and then envConfig                                   *)
(*   writeback  environment write-back is on                                *)
(*   vercel     the process runs on Vercel                                  *)
(*   pathSet    the configuration path is given explicitly                  *)
(*   legacy     what an older container image left in /app/config.json, if  *)
(*              the program runs in such a container and finds one          *)
VARIABLES deploy,
          store,   \* [cfg, keyMap, accMap, accTest, fromEnv]
          file,    \* [state |-> "missing", "torn" or "written", cfg]
          saved    \* ghost: the configuration of the last save that succeeded

storeVars == <<deploy, store, file, saved>>

Written(c) == [state |-> "written", cfg |-> c]
NoFile     == [state |-> "missing", cfg |-> EmptyConfig]
TornFile   == [state |-> "torn", cfg |-> EmptyConfig]

(***************************************************************************)
(* Indexes.                                                                 *)
(***************************************************************************)
AliasesOf(acc) == {Identifier(acc), EmailID(acc.email), MobileID(acc.mobile)} \ {NoID}

(* What an index tells, with what is new in it.                             *)
Over(new, old) ==
    [id \in DOMAIN new \cup DOMAIN old |-> IF id \in DOMAIN new THEN new[id] ELSE old[id]]

(* The name the caller used counts in lower case only, which an e-mail with *)
(* capitals is not.                                                         *)
SetAccountTestStatus(tests, acc, status, hint) ==
    Over([id \in (AliasesOf(acc) \cup {LowerID(hint)}) \ {NoID} |-> status], tests)

FindAccountIndex(s, id) ==
    LET named == {i \in DOMAIN s.cfg.accounts : Identifier(s.cfg.accounts[i]) = id}
    IN  IF id \in DOMAIN s.accMap /\ s.accMap[id] \in DOMAIN s.cfg.accounts THEN s.accMap[id]
        ELSE IF named # {} /\ id # NoID THEN Min(named)
        ELSE 0

AccMapOf(accounts) ==
    LET ids == {Identifier(accounts[i]) : i \in DOMAIN accounts} \ {NoID}
    IN  [id \in ids |-> Max({i \in DOMAIN accounts : Identifier(accounts[i]) = id})]
AccTestOf(accounts, tests) ==
    LET tested == {i \in DOMAIN accounts : Identifier(accounts[i]) \in DOMAIN tests}
        Named(id) == {i \in tested : id \in AliasesOf(accounts[i])}
    IN  [id \in UNION {AliasesOf(accounts[i]) : i \in tested} |->
            tests[Identifier(accounts[Max(Named(id))])]]

RebuildIndexes_KeepsAccounts(s) ==
    [s EXCEPT !.keyMap = ToSet(s.cfg.keys),
              !.accMap = Over(@, AccMapOf(s.cfg.accounts)),
              !.accTest = AccTestOf(s.cfg.accounts, s.accTest)]
RebuildIndexes(s) ==
    [s EXCEPT !.keyMap = ToSet(s.cfg.keys),
              !.accMap = AccMapOf(s.cfg.accounts),
              !.accTest = AccTestOf(s.cfg.accounts, s.accTest)]

(***************************************************************************)
(* Saving.  A write that fails leaves the file alone, or cut short when it  *)
(* failed after the file was truncated; the memory is changed before.       *)
(***************************************************************************)
SkipsWrite(s) == s.fromEnv /\ (deploy.vercel \/ ~deploy.writeback)

Writes == {"ok", "refused", "torn"}
SaveLocked(s, write) ==
    /\ SkipsWrite(s) => write = "ok"
    /\ store' = [s EXCEPT !.fromEnv = @ /\ (write # "ok" \/ SkipsWrite(s))]
    /\ file' = IF SkipsWrite(s) \/ write = "refused" THEN file
               ELSE IF write = "ok" THEN Written(s.cfg) ELSE TornFile
    /\ saved' = IF write = "ok" THEN s.cfg ELSE saved

(* Update with a mutator's result: the configuration it made.               *)
Update(next, write) ==
    LET c == NormalizeCredentials(ReconcileCredentials(next, store.cfg))
    IN  SaveLocked(RebuildIndexes([store EXCEPT !.cfg = c]), write)

(* The account keeps its place; every name it is known by points there.     *)
UpdateAccountToken(id, token, write) ==
    LET i == FindAccountIndex(store, id)
        acc == store.cfg.accounts[i]
    IN  IF i = 0 THEN UNCHANGED <<store, file, saved>>
        ELSE SaveLocked([store EXCEPT
                           !.cfg.accounts[i].token = token,
                           !.accMap = Over([a \in {id, Identifier(acc)} |-> i], @)],
                        write)

UpdateAccountTestStatus(id, status) ==
    LET i == FindAccountIndex(store, id)
    IN  /\ store' = IF i = 0 THEN store
                    ELSE [store EXCEPT !.accTest =
                             SetAccountTestStatus(@, store.cfg.accounts[i], status, id)]
        /\ UNCHANGED <<file, saved>>

(* Single accounts: by the store's index, else by any spelling of a name.   *)
FindAccountByIdentifier(id) ==
    LET i == FindAccountIndex(store, id)
        matching == {j \in DOMAIN store.cfg.accounts : MatchesIdentifier(store.cfg.accounts[j], id)}
    IN  IF i # 0 THEN i ELSE IF matching = {} THEN 0 ELSE Min(matching)

(***************************************************************************)
(* Loading, with the file as it is found.  Each outcome is a configuration, *)
(* whether it counts as coming from the environment, the file as it is      *)
(* left, and whether it is an error; an invalid one always is.              *)
(***************************************************************************)
Loaded(c, fromEnv, left, error) ==
    [cfg |-> NormalizeCredentials(c), fromEnv |-> fromEnv, file |-> left,
     error |-> error \/ ~ValidateConfig(NormalizeCredentials(c))]

FromFile(found) == DropInvalidAccounts(Unmarshal(found.cfg))
FromEnv  == DropInvalidAccounts(ClearAccountTokens(Unmarshal(deploy.envConfig)))

LoadFromEnv_EnvFirst(found) == {Loaded(FromEnv, ~deploy.writeback \/ deploy.vercel, found, FALSE)}
LoadFromEnv(found) ==
    IF deploy.vercel \/ ~deploy.writeback THEN {Loaded(FromEnv, TRUE, found, FALSE)}
    ELSE IF found.state = "written" THEN {Loaded(FromFile(found), FALSE, found, FALSE)}
    ELSE IF found.state = "missing" /\ ValidateConfig(FromEnv)
    THEN {Loaded(FromEnv, FALSE, Written(FromEnv), FALSE),
          Loaded(FromEnv, TRUE, found, FALSE), Loaded(FromEnv, TRUE, TornFile, FALSE)}
    ELSE {Loaded(FromEnv, TRUE, found, FALSE)}

LoadWithoutEnv(found) ==
    CASE found.state = "written" -> {Loaded(FromFile(found), deploy.vercel, found, FALSE)}
      [] found.state # "written" /\ deploy.legacy # <<>> ->
            {Loaded(FromFile(Written(deploy.legacy[1])), FALSE, found, FALSE)}
      [] found.state # "written" /\ deploy.legacy = <<>> /\ deploy.vercel ->
            {Loaded(EmptyConfig, TRUE, found, FALSE)}
      [] found.state = "missing" /\ deploy.legacy = <<>> /\ deploy.pathSet /\ ~deploy.vercel ->
            {Loaded(EmptyConfig, FALSE, found, FALSE)}
      [] OTHER -> {Loaded(EmptyConfig, FALSE, found, TRUE)}

LoadConfig(found) ==
    CASE deploy.env = "none" -> LoadWithoutEnv(found)
      [] deploy.env = "set" -> LoadFromEnv(found)
      [] OTHER -> {IF ~deploy.vercel /\ deploy.writeback /\ found.state = "written"
                   THEN Loaded(FromFile(found), FALSE, found, FALSE)
                   ELSE Loaded(EmptyConfig, TRUE, found, TRUE)}

NewStore(loaded) ==
    RebuildIndexes([cfg |-> loaded.cfg, keyMap |-> {}, accMap |-> <<>>, accTest |-> <<>>,
                    fromEnv |-> loaded.fromEnv])
=============================================================================
