---------------------------- MODULE MCAdminConfig ----------------------------
(***************************************************************************)
(* Small instances of the configuration store and its admin handlers: four  *)
(* accounts, three of them with the same mobile number, one proxy, two or   *)
(* three keys, and at least one request of each kind the handlers tell      *)
(* apart.                                                                   *)
(***************************************************************************)
EXTENDS AdminConfig

Typed(plus, cc, number) == [plus |-> plus, cc |-> cc, number |-> number]
Plus86 == Typed(TRUE, "86", "a")
Bare   == Typed(FALSE, "", "a")
Key(k, n) == [key |-> k, name |-> n]
Account(e, m, pw, t, x) ==
    [name |-> "", email |-> e, mobile |-> m, password |-> pw, token |-> t, proxy |-> x]
Proxy(id, pw, ok) == [id |-> id, password |-> pw, wellFormed |-> ok]

(* As a hand may have written it: an e-mail with a capital, a number        *)
(* without its plus, as in the example configuration, and it comes twice.   *)
Base ==
    [EmptyConfig EXCEPT
        !.keys = <<"k1", "k2">>, !.apiKeys = <<Key("k1", "n"), Key("k2", "")>>,
        !.accounts = <<Account("e", NoMobile, "p", "", "x"), Account("F", Plus86, "", "t", ""),
                       Account("", Bare, "q", "t", ""), Account("", Plus86, "r", "t", "")>>,
        !.proxies = <<Proxy("x", "s", TRUE)>>, !.per = 1, !.global = 2]
PublishedBase == [Base EXCEPT !.sync = <<ComputeSyncHash(Base)>>, !.vercel = "v"]
Other ==
    [EmptyConfig EXCEPT
        !.keys = <<"k2">>, !.accounts = <<Account("", Bare, "q", "t", "")>>, !.per = 2]

Deployed(env, writeback, vercel, pathSet) ==
    [env |-> env, envConfig |-> IF env = "set" THEN Other ELSE EmptyConfig,
     writeback |-> writeback, vercel |-> vercel, pathSet |-> pathSet,
     legacy |-> IF env = "none" /\ ~vercel /\ ~pathSet THEN <<Other>> ELSE <<>>]
AllDeployments ==
    {Deployed("none", FALSE, FALSE, TRUE), Deployed("none", FALSE, FALSE, FALSE),
     Deployed("set", TRUE, FALSE, TRUE), Deployed("set", FALSE, FALSE, TRUE),
     Deployed("broken", TRUE, FALSE, TRUE), Deployed("none", FALSE, TRUE, FALSE)}
AllFiles == {NoFile, Written(PublishedBase)}
Capitals == [e \in {"F"} |-> "f"]

KeyRequests ==
    {[op |-> "addKey", key |-> "k3", name |-> "n"],
     [op |-> "updateKey", key |-> "k2", name |-> "n"],
     [op |-> "deleteKey", key |-> "k1"]}
Sent(form, keys, structured, accounts) ==
    [op |-> "updateConfig", form |-> form, keys |-> keys, structured |-> structured,
     accounts |-> accounts]
ConfigRequests ==
    {Sent("legacy", <<"k3", "k1", "k3">>, <<>>, <<>>), Sent("legacy", <<>>, <<>>, <<>>),
     Sent("structured", <<>>, <<Key("k2", ""), Key("k3", "n")>>, <<>>),
     Sent("accounts", <<>>, <<>>,
          <<Account("", Bare, "q", "", "y"), Account("e", NoMobile, "", "", "x"),
            Account("e", NoMobile, "q", "", "")>>),
     [op |-> "batchImport", structured |-> <<Key("k2", "n"), Key("k1", "m")>>, keys |-> <<"k3">>,
      accounts |-> <<Account("", Typed(FALSE, "86", "a"), "q", "", ""),
                     Account("", Bare, "r", "", "")>>],
     [op |-> "configImport", replace |-> FALSE,
      config |-> [Other EXCEPT !.keys = <<"k2", "k3">>, !.vercel = "w"]],
     [op |-> "configImport", replace |-> TRUE, config |-> Other],
     [op |-> "updateSettings", per |-> 2, global |-> 0],
     [op |-> "updateSettings", per |-> 2, global |-> 1],
     [op |-> "updatePassword", password |-> "h"]}
AccountRequests ==
    {[op |-> "addAccount", account |-> Account("g", NoMobile, "q", "", "x")],
     [op |-> "addAccount", account |-> Account("", Bare, "q", "", "")],
     [op |-> "updateAccount", id |-> EmailID("e"), name |-> "n"],
     [op |-> "deleteAccount", id |-> EmailID("e")],
     [op |-> "deleteAccount", id |-> [email |-> "", mobile |-> Bare]],
     [op |-> "captureToken", email |-> "e", token |-> "t"],
     [op |-> "batchUpdateTokens",
      tokens |-> <<[email |-> "f", token |-> "u"], [email |-> "g", token |-> "u"]>>],
     [op |-> "testAccount", id |-> EmailID("F"), token |-> "u"],
     [op |-> "deleteAllSessions", id |-> [email |-> "", mobile |-> Bare], token |-> "u"]}
ProxyRequests ==
    {[op |-> "addProxy", proxy |-> Proxy("y", "", TRUE)],
     [op |-> "addProxy", proxy |-> Proxy("x", "", FALSE)],
     [op |-> "updateProxy", proxy |-> Proxy("x", "", TRUE)],
     [op |-> "deleteProxy", proxyID |-> "x"],
     [op |-> "updateAccountProxy", id |-> EmailID("F"), proxyID |-> "x"]}
SyncRequests ==
    {[op |-> "syncVercel", credentials |-> "", token |-> "u", override |-> <<>>],
     [op |-> "syncVercel", credentials |-> "w", token |-> "u", override |-> <<Other>>]}
AllRequests == KeyRequests \cup ConfigRequests \cup AccountRequests \cup ProxyRequests
                 \cup SyncRequests
=============================================================================
