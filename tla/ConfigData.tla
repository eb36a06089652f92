------------------------------ MODULE ConfigData ------------------------------
(***************************************************************************)
(* The configuration as data (internal/config and admin/shared): accounts   *)
(* and the identifiers that name them, API keys in their legacy and their   *)
(* structured form, proxies, runtime limits, and the pure functions that    *)
(* normalise, merge, reconcile and validate them.                           *)
(*                                                                          *)
(* Texts are values that compare equal or not, trimmed; "" is the empty     *)
(* text and 0 the unset number.  A mobile number keeps what its             *)
(* normalisation looks at: a leading plus, the country code, the rest.      *)
(***************************************************************************)
EXTENDS Naturals, Sequences, FiniteSets, SequencesExt

CONSTANTS MainlandNumbers,  \* the numbers that are mainland China mobiles
          MaxPerAccount,    \* runtime.account_max_inflight goes up to this (256 in the code)
          LowerCase         \* the e-mails that have capitals, with their lower case

ASSUME LowerCaseAssumption == "" \notin DOMAIN LowerCase

NoMobile == [plus |-> FALSE, cc |-> "", number |-> ""]

(* The stored form of a number: always with a plus, mainland ones with 86.  *)
NormalizeMobileForStorage(m) ==
    IF m.number = "" THEN NoMobile
    ELSE [plus |-> TRUE,
          cc |-> IF ~m.plus /\ m.cc = "" /\ m.number \in MainlandNumbers THEN "86" ELSE m.cc,
          number |-> m.number]

(* What names an account: an e-mail, or else a normalised mobile number.    *)
EmailID(e)  == [email |-> e, mobile |-> NoMobile]
MobileID(m) == [email |-> "", mobile |-> NormalizeMobileForStorage(m)]
NoID == EmailID("")
Identifier(acc) == IF acc.email # "" THEN EmailID(acc.email) ELSE MobileID(acc.mobile)
AccountDedupeKey(acc) == Identifier(acc)
LowerID(id) ==
    IF id.email \in DOMAIN LowerCase THEN [id EXCEPT !.email = LowerCase[@]] ELSE id

(* The identifier an admin types may be an e-mail or any spelling of the    *)
(* account's number, the number of an account with an e-mail too.           *)
MatchesIdentifier(acc, id) ==
    /\ id # NoID
    /\ \/ acc.email # "" /\ acc.email = id.email
       \/ MobileID(id.mobile) # NoID /\ MobileID(id.mobile) = MobileID(acc.mobile)
       \/ Identifier(acc) = id

NormalizeAccountForStorage(acc) ==
    [acc EXCEPT !.mobile = NormalizeMobileForStorage(@)]

(* The items at some of a list's positions, in their order.                 *)
Rank(K, i) == Cardinality({j \in K : j <= i})
AtPositions(items, K) ==
    [n \in 1 .. Cardinality(K) |-> items[CHOOSE i \in K : Rank(K, i) = n]]

(* The first item of each key, those without a key left out.                *)
Firsts(items, keys, none) ==
    AtPositions(items, {i \in DOMAIN items :
                           keys[i] # none /\ \A j \in 1 .. i - 1 : keys[j] # keys[i]})

NormalizeAndDedupeAccounts(accounts) ==
    LET normal == [i \in DOMAIN accounts |-> NormalizeAccountForStorage(accounts[i])]
    IN  Firsts(normal, [i \in DOMAIN normal |-> AccountDedupeKey(normal[i])], NoID)

(***************************************************************************)
(* API keys.                                                                *)
(***************************************************************************)
ApiKeysToStrings(items) == [i \in DOMAIN items |-> items[i].key]
NormalizeKeys(keys) == Firsts(keys, keys, "")
NormalizeAPIKeys(items) == Firsts(items, ApiKeysToStrings(items), "")
Plain(key) == [key |-> key, name |-> ""]

(* Structured keys for plain ones, with what is already known of them.      *)
ApiKeysFromStrings(keys, known) ==
    LET K == NormalizeKeys(keys)
        Meta(k) == {i \in DOMAIN known : known[i].key = k}
    IN  [i \in DOMAIN K |-> IF Meta(K[i]) = {} THEN Plain(K[i]) ELSE known[Min(Meta(K[i]))]]

(* A record of a key gives way to the first one of that key with a name.    *)
MergeAPIKeyRecord(items, item) ==
    LET named == {i \in DOMAIN items : items[i].key = item.key /\ items[i].name # ""}
    IN  IF named = {} THEN item ELSE items[Min(named)]

MergeAPIKeys(existing, incoming) ==
    LET items == NormalizeAPIKeys(existing) \o incoming
        merged == NormalizeAPIKeys(items)
    IN  [n \in DOMAIN merged |-> MergeAPIKeyRecord(items, merged[n])]

(* The two forms after an edit: the form that was edited wins.              *)
ReconcileCredentials(c, base) ==
    LET keysChanged == NormalizeKeys(c.keys) # NormalizeKeys(base.keys)
        apiKeysChanged == NormalizeAPIKeys(c.apiKeys) # NormalizeAPIKeys(base.apiKeys)
        items == IF keysChanged /\ ~apiKeysChanged
                 THEN ApiKeysFromStrings(c.keys, NormalizeAPIKeys(base.apiKeys))
                 ELSE NormalizeAPIKeys(c.apiKeys)
    IN  [c EXCEPT !.apiKeys = items, !.keys = ApiKeysToStrings(items)]

NormalizeCredentials(c) ==
    LET items == IF NormalizeAPIKeys(c.apiKeys) # <<>> THEN NormalizeAPIKeys(c.apiKeys)
                 ELSE ApiKeysFromStrings(c.keys, <<>>)
    IN  [c EXCEPT !.apiKeys = items, !.keys = ApiKeysToStrings(items)]

(***************************************************************************)
(* Whole configurations.                                                    *)
(***************************************************************************)
EmptyConfig ==
    [keys |-> <<>>, apiKeys |-> <<>>, accounts |-> <<>>, proxies |-> <<>>,
     per |-> 0, global |-> 0, password |-> "", vercel |-> "", sync |-> <<>>]

ClearAccountTokens(c) ==
    [c EXCEPT !.accounts = [i \in DOMAIN @ |-> [@[i] EXCEPT !.token = ""]]]
DropInvalidAccounts(c) ==
    [c EXCEPT !.accounts = AtPositions(@, {i \in DOMAIN @ : Identifier(@[i]) # NoID})]

(* What reading a written configuration gives.                              *)
Unmarshal(c) == NormalizeCredentials(c)

HasProxy(c, id) == \E i \in DOMAIN c.proxies : c.proxies[i].id = id
ValidateProxyConfig(proxies) ==
    /\ \A i \in DOMAIN proxies : proxies[i].wellFormed
    /\ \A i, j \in DOMAIN proxies : proxies[i].id = proxies[j].id => i = j
ValidateAccountProxyReferences(c) ==
    \A i \in DOMAIN c.accounts : c.accounts[i].proxy # "" => HasProxy(c, c.accounts[i].proxy)
ValidateRuntimeConfig(c) ==
    /\ c.per \in 0 .. MaxPerAccount
    /\ c.per > 0 /\ c.global > 0 => c.global >= c.per
ValidateConfig(c) ==
    /\ ValidateProxyConfig(c.proxies)
    /\ ValidateRuntimeConfig(c)
    /\ ValidateAccountProxyReferences(c)

(* What is published to the hosting provider, and what its hash tells       *)
(* apart (the hash of a text read back and written again).                  *)
EncodeVercelSyncConfig(c) ==
    [ClearAccountTokens(DropInvalidAccounts(c)) EXCEPT !.vercel = "", !.sync = <<>>]
SyncHashForJSON(c) ==
    [ClearAccountTokens(Unmarshal(c)) EXCEPT !.vercel = "", !.sync = <<>>]
ComputeSyncHash(c) == [ClearAccountTokens(c) EXCEPT !.vercel = "", !.sync = <<>>]
=============================================================================
