------------------------------ MODULE AdminEdits ------------------------------
(***************************************************************************)
(* The edits of the admin handlers (internal/httpapi/admin): the            *)
(* configuration each one makes of the current one under the store's lock,  *)
(* as <<next>>, or <<>> when it refuses.                                    *)
(***************************************************************************)
EXTENDS ConfigData

Accept(c) == <<c>>
Refuse == <<>>
RefuseUnless(ok, c) == IF ok THEN Accept(c) ELSE Refuse
FirstMatch(c, id) ==
    LET found == {i \in DOMAIN c.accounts : MatchesIdentifier(c.accounts[i], id)}
    IN  IF found = {} THEN 0 ELSE Min(found)
KeyIndex(c, key) ==
    LET found == {i \in DOMAIN c.apiKeys : c.apiKeys[i].key = key}
    IN  IF found = {} THEN 0 ELSE Min(found)
ToAccount(a) ==
    [name |-> a.name, email |-> a.email, mobile |-> NormalizeMobileForStorage(a.mobile),
     password |-> a.password, token |-> "", proxy |-> a.proxy]
TokenAccount(email, token) ==
    [name |-> "", email |-> email, mobile |-> NoMobile, password |-> "", token |-> token, proxy |-> ""]

AddKey(c, r) ==
    RefuseUnless(KeyIndex(c, r.key) = 0,
                 [c EXCEPT !.apiKeys = Append(@, [key |-> r.key, name |-> r.name])])
UpdateKey(c, r) ==
    LET i == KeyIndex(c, r.key)
    IN  IF i = 0 THEN Refuse ELSE Accept([c EXCEPT !.apiKeys[i].name = r.name])
DeleteKey(c, r) ==
    LET i == KeyIndex(c, r.key)
    IN  IF i = 0 THEN Refuse ELSE Accept([c EXCEPT !.apiKeys = RemoveAt(@, i)])

(* The whole configuration as the editor sends it.  Tokens are not part of  *)
(* it; an account without a password keeps the one it had when the request  *)
(* came in.                                                                 *)
KnownPassword(old, acc) ==
    LET same == {i \in DOMAIN old.accounts :
                    AccountDedupeKey(NormalizeAccountForStorage(old.accounts[i]))
                        = AccountDedupeKey(acc)}
    IN  IF same = {} THEN "" ELSE old.accounts[Max(same)].password
UpdateConfig_DropsPasswords(c, r, old) ==
    Accept([c EXCEPT !.accounts = NormalizeAndDedupeAccounts(
                                     [i \in DOMAIN r.accounts |-> ToAccount(r.accounts[i])])])
UpdateConfig(c, r, old) ==
    LET sent == NormalizeAndDedupeAccounts([i \in DOMAIN r.accounts |-> ToAccount(r.accounts[i])])
        kept == [i \in DOMAIN sent |->
                    [sent[i] EXCEPT !.password = IF @ = "" THEN KnownPassword(old, sent[i]) ELSE @]]
    IN  Accept([c EXCEPT !.apiKeys = IF r.form = "structured" THEN NormalizeAPIKeys(r.structured) ELSE @,
                         !.keys = IF r.form = "legacy" THEN r.keys ELSE @,
                         !.accounts = IF r.form = "accounts" THEN kept ELSE @])

(* Accounts that are new, appended in the order they come.                  *)
MergeAccounts(existing, incoming) ==
    LET taken == {AccountDedupeKey(NormalizeAccountForStorage(existing[i])) :
                     i \in DOMAIN existing}
        NewKey(acc) == IF AccountDedupeKey(acc) \in taken THEN NoID ELSE AccountDedupeKey(acc)
    IN  existing \o Firsts(incoming, [i \in DOMAIN incoming |-> NewKey(incoming[i])], NoID)

BatchImport(c, r) ==
    Accept([c EXCEPT !.apiKeys = MergeAPIKeys(MergeAPIKeys(@, r.structured),
                                              [i \in DOMAIN r.keys |-> Plain(r.keys[i])]),
                     !.accounts = MergeAccounts(@, [i \in DOMAIN r.accounts |->
                                                       ToAccount(r.accounts[i])])])

ConfigImport(c, r) ==
    LET incoming == ClearAccountTokens(Unmarshal(r.config))
        sent == [i \in DOMAIN incoming.accounts |->
                    NormalizeAccountForStorage(incoming.accounts[i])]
        Pick(new, cur, none) == IF new # none THEN new ELSE cur
        next == IF r.replace
                THEN [incoming EXCEPT !.accounts = NormalizeAndDedupeAccounts(@), !.sync = c.sync]
                ELSE [c EXCEPT !.apiKeys = MergeAPIKeys(@, incoming.apiKeys),
                               !.accounts = MergeAccounts(@, sent),
                               !.vercel = Pick(incoming.vercel, @, ""),
                               !.password = Pick(incoming.password, @, ""),
                               !.per = Pick(incoming.per, @, 0),
                               !.global = Pick(incoming.global, @, 0)]
    IN  RefuseUnless(ValidateConfig(next), next)

AddAccount(c, r) ==
    LET acc == ToAccount(r.account)
        taken == \E i \in DOMAIN c.accounts :
                    \/ acc.email # "" /\ c.accounts[i].email = acc.email
                    \/ /\ MobileID(acc.mobile) # NoID
                       /\ MobileID(c.accounts[i].mobile) = MobileID(acc.mobile)
    IN  RefuseUnless(/\ Identifier(acc) # NoID
                     /\ acc.proxy # "" => HasProxy(c, acc.proxy)
                     /\ ~taken,
                     [c EXCEPT !.accounts = Append(@, acc)])
UpdateAccount(c, r) ==
    LET i == FirstMatch(c, r.id)
    IN  IF i = 0 THEN Refuse ELSE Accept([c EXCEPT !.accounts[i].name = r.name])
DeleteAccount(c, r) ==
    LET i == FirstMatch(c, r.id)
    IN  IF i = 0 THEN Refuse ELSE Accept([c EXCEPT !.accounts = RemoveAt(@, i)])

(* Tokens captured elsewhere: the first account with the e-mail gives up    *)
(* its password for the last of them; e-mails that have none get one.       *)
SetTokens(c, tokens) ==
    LET Owner(email) == {i \in DOMAIN c.accounts : c.accounts[i].email = email}
        For(email) == {n \in DOMAIN tokens : tokens[n].email = email}
        Token(email) == tokens[Max(For(email))].token
        known == [i \in DOMAIN c.accounts |->
                     LET acc == c.accounts[i]
                     IN  IF For(acc.email) # {} /\ i = Min(Owner(acc.email))
                         THEN [acc EXCEPT !.token = Token(acc.email), !.password = ""] ELSE acc]
        fresh == [n \in DOMAIN tokens |-> TokenAccount(tokens[n].email, Token(tokens[n].email))]
        new == [n \in DOMAIN tokens |-> IF Owner(tokens[n].email) = {} THEN tokens[n].email ELSE ""]
    IN  [c EXCEPT !.accounts = known \o Firsts(fresh, new, "")]
CaptureToken(c, r) == Accept(SetTokens(c, <<[email |-> r.email, token |-> r.token]>>))
BatchUpdateTokens(c, r) == Accept(SetTokens(c, r.tokens))

ValidateProxyMutation(c) == ValidateProxyConfig(c.proxies) /\ ValidateAccountProxyReferences(c)
AddProxy(c, r) ==
    LET next == [c EXCEPT !.proxies = Append(@, r.proxy)]
    IN  RefuseUnless(ValidateProxyMutation(next), next)
UpdateProxy(c, r) ==
    LET same == {i \in DOMAIN c.proxies : c.proxies[i].id = r.proxy.id}
        i == Min(same)
        password == IF r.proxy.password = "" THEN c.proxies[i].password ELSE r.proxy.password
        next == [c EXCEPT !.proxies[i] = [r.proxy EXCEPT !.password = password]]
    IN  IF same = {} THEN Refuse ELSE RefuseUnless(ValidateProxyMutation(next), next)
DeleteProxy(c, r) ==
    LET same == {i \in DOMAIN c.proxies : c.proxies[i].id = r.proxyID}
        next == [c EXCEPT !.proxies = RemoveAt(@, Min(same)),
                          !.accounts = [i \in DOMAIN @ |->
                             IF @[i].proxy = r.proxyID THEN [@[i] EXCEPT !.proxy = ""] ELSE @[i]]]
    IN  IF same = {} THEN Refuse ELSE RefuseUnless(ValidateProxyMutation(next), next)
UpdateAccountProxy(c, r) ==
    LET i == FirstMatch(c, r.id)
        next == [c EXCEPT !.accounts[i].proxy = r.proxyID]
    IN  IF i = 0 \/ (r.proxyID # "" /\ ~HasProxy(c, r.proxyID)) THEN Refuse
        ELSE RefuseUnless(ValidateProxyMutation(next), next)

(* A request whose own limits contradict each other is refused.             *)
ParseSettingsUpdateRequest(r) == r.per > 0 /\ r.global > 0 => r.global >= r.per
MergedRuntime(c, r) ==
    [c EXCEPT !.per = IF r.per > 0 THEN r.per ELSE @,
              !.global = IF r.global > 0 THEN r.global ELSE @]
UpdateSettings(c, r) == Accept(MergedRuntime(c, r))
UpdateSettingsPassword(c, r) == Accept([c EXCEPT !.password = r.password])
(* Credentials that were preconfigured stay as they are by then.            *)
SaveLocalVercelCredentials(c, r) ==
    Accept([c EXCEPT !.vercel = IF r.credentials = "" THEN @ ELSE r.credentials])
SetVercelSync_Current(c, exported) == Accept([c EXCEPT !.sync = <<ComputeSyncHash(c)>>])
SetVercelSync(c, exported) == Accept([c EXCEPT !.sync = <<SyncHashForJSON(exported)>>])
(* What vercelStatus answers.                                               *)
Synced(c) == c.sync = <<ComputeSyncHash(c)>>

Mutate(c, r, old) ==
    CASE r.op = "addKey" -> AddKey(c, r)
      [] r.op = "updateKey" -> UpdateKey(c, r)
      [] r.op = "deleteKey" -> DeleteKey(c, r)
      [] r.op = "updateConfig" -> UpdateConfig(c, r, old)
      [] r.op = "batchImport" -> BatchImport(c, r)
      [] r.op = "configImport" -> ConfigImport(c, r)
      [] r.op = "addAccount" -> AddAccount(c, r)
      [] r.op = "updateAccount" -> UpdateAccount(c, r)
      [] r.op = "deleteAccount" -> DeleteAccount(c, r)
      [] r.op = "captureToken" -> CaptureToken(c, r)
      [] r.op = "batchUpdateTokens" -> BatchUpdateTokens(c, r)
      [] r.op = "addProxy" -> AddProxy(c, r)
      [] r.op = "updateProxy" -> UpdateProxy(c, r)
      [] r.op = "deleteProxy" -> DeleteProxy(c, r)
      [] r.op = "updateAccountProxy" -> UpdateAccountProxy(c, r)
      [] r.op = "updateSettings" -> UpdateSettings(c, r)
      [] r.op = "updatePassword" -> UpdateSettingsPassword(c, r)

EditOps == {"addKey", "updateKey", "deleteKey", "updateConfig", "batchImport", "configImport",
            "addAccount", "updateAccount", "deleteAccount", "captureToken",
            "batchUpdateTokens", "addProxy", "updateProxy", "deleteProxy", "updateAccountProxy", "updateSettings",
            "updatePassword"}
(* The handlers that refresh the pool once their edit is saved.             *)
ResetsPool_NotImport(op) ==
    op \in {"updateConfig", "addAccount", "deleteAccount", "captureToken",
            "batchUpdateTokens", "updateAccountProxy"}
ResetsPool(op) ==
    op \in {"updateConfig", "batchImport", "configImport", "addAccount", "deleteAccount",
            "captureToken", "batchUpdateTokens", "updateAccountProxy"}
===============================================================================
