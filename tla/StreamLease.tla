------------------------------ MODULE StreamLease ------------------------------
(***************************************************************************)
(* Streaming on Vercel.  A Node function (internal/js/chat-stream) relays  *)
(* the upstream stream; the account it uses is held for it by the Go side  *)
(* (internal/httpapi/openai/chat/vercel_stream.go) as a lease in a table.  *)
(* Node reaches Go by four HTTP calls: prepare (take an account, create    *)
(* the lease), pow, switch (another account) and release.  Each call is a  *)
(* goroutine here that runs on when Node has given up on the answer;       *)
(* pow and switch work on the lease's RequestAuth after the table's mutex  *)
(* was unlocked.  A stream is a member of Requests and names its lease;    *)
(* the pool's configuration is fixed and one Go process serves every call. *)
(* Logins are ManagedAuth's and always succeed here.                       *)
(***************************************************************************)
EXTENDS AccountPool

CONSTANTS Switching,   \* streams for which upstream asks for another account
          Faulty,      \* streams whose Node function may die or lose a call
          Expiring,    \* streams whose lease may outlive its TTL
          InitialAccounts, InitialRuntimes

ASSUME LeaseAssumption ==
  /\ Switching \subseteq Requests /\ Faulty \subseteq Requests
  /\ Expiring \subseteq Requests
  /\ InitialAccounts \in Seq(Accounts)
  /\ InitialRuntimes \subseteq RuntimeSettings

VARIABLES
  node,        \* the Node function: which call it awaits, if any
  switched,    \* accountSwitchAttempted
  leases,      \* the keys of h.streamLeases
  expired,     \* leases whose ExpiresAt has passed
  goPc,        \* where each handler stands
  batch,       \* the handler's popped leases it still has to release
  got,         \* the account SwitchAccount acquired, not yet in a.AccountID
  accountID,   \* lease.Auth.AccountID
  tried,       \* lease.Auth.TriedAccounts
  ctxDone,     \* prepare calls Node has given up on
  owned,       \* ghost: the slots taken for each stream and not given back
  overtaken    \* history: leases taken from the table while a pow or switch
               \* handler was at work on them

nodeVars  == <<node, switched>>
tableVars == <<leases, expired, overtaken>>
authVars  == <<accountID, tried, owned>>
goVars    == <<goPc, batch, got, ctxDone>>
vars == <<storeVars, poolVars, nodeVars, tableVars, authVars, goVars>>

Kinds == {"prepare", "pow", "switch", "release"}
Handlers == Requests \X Kinds
NodeStates == {"idle", "stream", "ending", "closed"} \cup Kinds
HandlerStates == {"none", "sweep", "determine", "wait", "upstream", "lookup", "switch",
                  "acquire", "reacquire", "assign", "pop", "release", "reply"}

(* Who is going to give back the slot of stream s.                         *)
Keepers(s) ==
  {h \in Handlers : s \in batch[h]}
    \cup {h \in {<<s, "prepare">>} : goPc[h] = "upstream"}
    \cup {h \in {<<s, "release">>} : goPc[h] = "release"}
    \cup {h \in {<<s, "table">>} : s \in leases}

OwnedSlots(s) ==
  {slot \in Accounts \X (1..Cardinality(Handlers)) : slot[2] <= owned[s][slot[1]]}

Ready(h) == batch[h] = {}

(* A handler has looked up the lease of s and is not done with it.         *)
AtWork(s) ==
  \E kind \in {"pow", "switch"} :
    goPc[<<s, kind>>] \in {"switch", "acquire", "reacquire", "assign", "upstream"}

-----------------------------------------------------------------------------
(* Building blocks.                                                        *)

(* What Node does after an answer: stream on, release, or nothing more.    *)
AfterAnswer == [prepare |-> [ok |-> "stream", failed |-> "closed"],
              pow     |-> [ok |-> "stream", failed |-> "stream"],
              switch  |-> [ok |-> "stream", failed |-> "ending"],
              release |-> [ok |-> "closed", failed |-> "closed"]]

(* The handler answers, and Node takes the answer if it still waits.       *)
Respond(s, kind, outcome) ==
  /\ goPc' = [goPc EXCEPT ![<<s, kind>>] = "none"]
  /\ node' = IF node[s] = kind THEN [node EXCEPT ![s] = AfterAnswer[kind][outcome]] ELSE node
  /\ UNCHANGED switched

(* Resolver.Release(a): by whatever AccountID the RequestAuth has now.     *)
AuthRelease(s) ==
  LET a == accountID[s]
  IN  /\ Release(a)
      /\ owned' = IF owned[s][a] > 0 THEN [owned EXCEPT ![s][a] = @ - 1] ELSE owned

(* popExpiredLeasesLocked, by handler h.                                   *)
PopExpired(h, added, removed) ==
  /\ batch' = [batch EXCEPT ![h] = leases \cap expired]
  /\ leases' = ((leases \ expired) \cup added) \ removed
  /\ overtaken' = overtaken \cup {s \in leases : s \in expired \cup removed /\ AtWork(s)}
  /\ UNCHANGED expired

GoTo(h, state) == goPc' = [goPc EXCEPT ![h] = state]

-----------------------------------------------------------------------------
(* The Node function.                                                      *)

NodePrepare(s) ==
  /\ node[s] = "idle"
  /\ node' = [node EXCEPT ![s] = "prepare"]
  /\ GoTo(<<s, "prepare">>, "sweep")
  /\ UNCHANGED <<storeVars, poolVars, switched, tableVars, authVars, batch, got, ctxDone>>

(* An orphaned pow call ends before the next one starts.                   *)
NodePow(s) ==
  /\ node[s] = "stream" /\ goPc[<<s, "pow">>] = "none"
  /\ node' = [node EXCEPT ![s] = "pow"]
  /\ GoTo(<<s, "pow">>, "lookup")
  /\ UNCHANGED <<storeVars, poolVars, switched, tableVars, authVars, batch, got, ctxDone>>

NodeSwitch(s) ==
  /\ s \in Switching /\ node[s] = "stream" /\ ~switched[s]
  /\ node' = [node EXCEPT ![s] = "switch"]
  /\ switched' = [switched EXCEPT ![s] = TRUE]
  /\ GoTo(<<s, "switch">>, "sweep")
  /\ UNCHANGED <<storeVars, poolVars, tableVars, authVars, batch, got, ctxDone>>

NodeRelease(s) ==
  /\ node[s] \in {"stream", "ending"}
  /\ node' = [node EXCEPT ![s] = "release"]
  /\ GoTo(<<s, "release">>, "sweep")
  /\ UNCHANGED <<storeVars, poolVars, switched, tableVars, authVars, batch, got, ctxDone>>

(* A call fails for Node (network, or the 1.5 s limit of a release) while  *)
(* its handler runs on: a pow is done without, a switch ends the stream,   *)
(* and a prepare leaves Node without the lease's identifier.               *)
CallLost(s) ==
  /\ s \in Faulty /\ node[s] \in Kinds
  /\ node' = [node EXCEPT ![s] = CASE @ = "pow" -> "stream"
                                   [] @ = "switch" -> "ending"
                                   [] OTHER -> "closed"]
  /\ ctxDone' = IF node[s] = "prepare" THEN ctxDone \cup {s} ELSE ctxDone
  /\ UNCHANGED <<storeVars, poolVars, switched, tableVars, authVars, goPc, batch, got>>

(* The function is stopped, or its release never reaches Go.               *)
NodeDies(s) ==
  /\ s \in Faulty /\ node[s] \in {"stream", "ending"}
  /\ node' = [node EXCEPT ![s] = "closed"]
  /\ UNCHANGED <<storeVars, poolVars, switched, tableVars, authVars, goVars>>

Expire(s) ==
  /\ s \in (leases \cap Expiring) \ expired
  /\ expired' = expired \cup {s}
  /\ UNCHANGED <<storeVars, poolVars, nodeVars, leases, overtaken, authVars, goVars>>

-----------------------------------------------------------------------------
(* sweepExpiredStreamLeases, at the start of three of the handlers; the    *)
(* popped leases are released one by one, after the unlock.                *)

AfterSweep == [prepare |-> "determine", switch |-> "lookup", release |-> "pop"]

Sweep(h) ==
  /\ goPc[h] = "sweep"
  /\ PopExpired(h, {}, {})
  /\ GoTo(h, AfterSweep[h[2]])
  /\ UNCHANGED <<storeVars, poolVars, nodeVars, authVars, got, ctxDone>>

DropExpired(h) ==
  /\ \E s \in batch[h] : /\ AuthRelease(s)
                         /\ batch' = [batch EXCEPT ![h] = @ \ {s}]
  /\ UNCHANGED <<storeVars, nodeVars, tableVars, accountID, tried, goPc, got, ctxDone>>

-----------------------------------------------------------------------------
(* handleVercelStreamPrepare: Determine's AcquireWait, then the upstream   *)
(* calls, then holdStreamLease.                                            *)

PrepareGranted(s) ==
  /\ goPc[<<s, "prepare">>] = "determine" /\ Ready(<<s, "prepare">>) /\ s \notin ctxDone
  /\ \E a \in Accounts :
       /\ acquireLocked(a, NoAccount, {})
       /\ accountID' = [accountID EXCEPT ![s] = a]
       /\ owned' = [owned EXCEPT ![s][a] = @ + 1]
  /\ GoTo(<<s, "prepare">>, "upstream")
  /\ UNCHANGED <<storeVars, nodeVars, tableVars, tried, batch, got, ctxDone>>

PrepareQueued(s) ==
  /\ goPc[<<s, "prepare">>] = "determine" /\ Ready(<<s, "prepare">>) /\ s \notin ctxDone
  /\ Grantable(NoAccount, {}) = {}
  /\ canQueueLocked(NoAccount, {})
  /\ enqueueWaiter(s)
  /\ GoTo(<<s, "prepare">>, "wait")
  /\ UNCHANGED <<storeVars, nodeVars, tableVars, authVars, batch, got, ctxDone>>

PrepareWoken(s) ==
  /\ goPc[<<s, "prepare">>] = "wait" /\ s \notin ToSet(waiters)
  /\ GoTo(<<s, "prepare">>, "determine")
  /\ UNCHANGED <<storeVars, poolVars, nodeVars, tableVars, authVars, batch, got, ctxDone>>

PrepareRefused(s) ==
  /\ Ready(<<s, "prepare">>)
  /\ \/ /\ goPc[<<s, "prepare">>] = "determine" /\ s \notin ctxDone
        /\ Grantable(NoAccount, {}) = {} /\ ~canQueueLocked(NoAccount, {})
        /\ UNCHANGED poolVars
     \/ /\ goPc[<<s, "prepare">>] \in {"determine", "wait"} /\ s \in ctxDone
        /\ removeWaiterLocked(s) /\ UNCHANGED <<queue, inUse, limitVars>>
  /\ Respond(s, "prepare", "failed")
  /\ UNCHANGED <<storeVars, tableVars, authVars, batch, got, ctxDone>>

(* A bad request, or upstream refuses a session or the proof of work.      *)
PrepareFails(s) ==
  /\ goPc[<<s, "prepare">>] = "upstream"
  /\ AuthRelease(s)
  /\ Respond(s, "prepare", "failed")
  /\ UNCHANGED <<storeVars, tableVars, accountID, tried, batch, got, ctxDone>>

holdStreamLease(s) ==
  /\ goPc[<<s, "prepare">>] = "upstream"
  /\ PopExpired(<<s, "prepare">>, {s}, {})
  /\ GoTo(<<s, "prepare">>, "reply")
  /\ UNCHANGED <<storeVars, poolVars, nodeVars, authVars, got, ctxDone>>

Reply(h) ==
  /\ goPc[h] = "reply" /\ Ready(h)
  /\ Respond(h[1], h[2], "ok")
  /\ UNCHANGED <<storeVars, poolVars, tableVars, authVars, batch, got, ctxDone>>

-----------------------------------------------------------------------------
(* handleVercelStreamPow and handleVercelStreamSwitch: the lease is looked *)
(* up under the mutex, its RequestAuth used without.                       *)

lookupStreamLease(s, kind) ==
  /\ goPc[<<s, kind>>] = "lookup" /\ Ready(<<s, kind>>)
  /\ IF s \in leases \ expired
     THEN /\ GoTo(<<s, kind>>, IF kind = "switch" THEN "switch" ELSE "upstream")
          /\ UNCHANGED nodeVars
     ELSE Respond(s, kind, "failed")
  /\ UNCHANGED <<storeVars, poolVars, tableVars, authVars, batch, got, ctxDone>>

(* Resolver.SwitchAccount: called by the switch handler, and by the upload *)
(* of files, CreateSession and GetPow of any handler when upstream refuses *)
(* the account: prepare's own, before there is a lease, included.          *)
SwitchGivesBack(s, kind) ==
  /\ \/ goPc[<<s, kind>>] = "switch" /\ GoTo(<<s, kind>>, "acquire")
     \/ /\ s \in Switching /\ goPc[<<s, kind>>] = "upstream"
        /\ GoTo(<<s, kind>>, "reacquire")
  /\ tried' = [tried EXCEPT ![s] = @ \cup {accountID[s]}]
  /\ AuthRelease(s)
  /\ UNCHANGED <<storeVars, nodeVars, tableVars, accountID, batch, got, ctxDone>>

SwitchAcquires(s, kind) ==
  /\ goPc[<<s, kind>>] \in {"acquire", "reacquire"}
  /\ \E a \in Accounts :
       /\ acquireLocked(a, NoAccount, tried[s])
       /\ got' = [got EXCEPT ![<<s, kind>>] = a]
       /\ owned' = [owned EXCEPT ![s][a] = @ + 1]
  /\ GoTo(<<s, kind>>, "assign")
  /\ UNCHANGED <<storeVars, nodeVars, tableVars, accountID, tried, batch, ctxDone>>

(* Regression seed: the new account is acquired and not recorded.          *)
SwitchAssigns_Forgets(s, kind) ==
  /\ goPc[<<s, kind>>] = "assign"
  /\ got' = [got EXCEPT ![<<s, kind>>] = NoAccount]
  /\ GoTo(<<s, kind>>, "upstream")
  /\ UNCHANGED <<storeVars, poolVars, nodeVars, tableVars, authVars, batch, ctxDone>>

SwitchAssigns(s, kind) ==
  /\ goPc[<<s, kind>>] = "assign"
  /\ accountID' = [accountID EXCEPT ![s] = got[<<s, kind>>]]
  /\ got' = [got EXCEPT ![<<s, kind>>] = NoAccount]
  /\ GoTo(<<s, kind>>, "upstream")
  /\ UNCHANGED <<storeVars, poolVars, nodeVars, tableVars, tried, owned, batch, ctxDone>>

SwitchFindsNone(s, kind) ==
  /\ Grantable(NoAccount, tried[s]) = {}
  /\ \/ goPc[<<s, kind>>] = "acquire" /\ Respond(s, kind, "failed")
     \/ /\ goPc[<<s, kind>>] = "reacquire" /\ GoTo(<<s, kind>>, "upstream")
        /\ UNCHANGED nodeVars
  /\ UNCHANGED <<storeVars, poolVars, tableVars, authVars, batch, got, ctxDone>>

(* The upstream calls end, well or not.  updateStreamLeaseState replaces   *)
(* the lease's session, and nothing when the lease is gone.                *)
UpstreamEnds(s, kind) ==
  /\ kind \in {"pow", "switch"} /\ goPc[<<s, kind>>] = "upstream"
  /\ \E outcome \in {"ok", "failed"} : Respond(s, kind, outcome)
  /\ UNCHANGED <<storeVars, poolVars, tableVars, authVars, batch, got, ctxDone>>

-----------------------------------------------------------------------------
(* handleVercelStreamRelease.                                              *)

(* Regression seed: the lease is read and stays in the table.              *)
releaseStreamLease_Keeps(s) ==
  /\ goPc[<<s, "release">>] = "pop" /\ Ready(<<s, "release">>)
  /\ PopExpired(<<s, "release">>, {}, {})
  /\ GoTo(<<s, "release">>, IF s \in leases \ expired THEN "release" ELSE "reply")
  /\ UNCHANGED <<storeVars, poolVars, nodeVars, authVars, got, ctxDone>>

releaseStreamLease(s) ==
  /\ goPc[<<s, "release">>] = "pop" /\ Ready(<<s, "release">>)
  /\ PopExpired(<<s, "release">>, {}, {s})
  /\ GoTo(<<s, "release">>, IF s \in leases \ expired THEN "release" ELSE "reply")
  /\ UNCHANGED <<storeVars, poolVars, nodeVars, authVars, got, ctxDone>>

(* After the remote session's deletion, the deferred Resolver.Release.     *)
ReleaseLeased(s) ==
  /\ goPc[<<s, "release">>] = "release" /\ Ready(<<s, "release">>)
  /\ AuthRelease(s)
  /\ Respond(s, "release", "ok")
  /\ UNCHANGED <<storeVars, tableVars, accountID, tried, batch, got, ctxDone>>

-----------------------------------------------------------------------------
Init ==
  /\ \E runtime0 \in InitialRuntimes : PoolInit(InitialAccounts, runtime0, {})
  /\ node = [s \in Requests |-> "idle"]
  /\ switched = [s \in Requests |-> FALSE]
  /\ leases = {} /\ expired = {} /\ overtaken = {} /\ ctxDone = {}
  /\ goPc = [h \in Handlers |-> "none"]
  /\ batch = [h \in Handlers |-> {}]
  /\ got = [h \in Handlers |-> NoAccount]
  /\ accountID = [s \in Requests |-> NoAccount]
  /\ tried = [s \in Requests |-> {}]
  /\ owned = [s \in Requests |-> [a \in Accounts |-> 0]]

Idle == \A h \in Handlers : goPc[h] = "none"

HandlerStep(s, kind) ==
  \/ Sweep(<<s, kind>>) \/ DropExpired(<<s, kind>>) \/ Reply(<<s, kind>>)
  \/ kind = "prepare" /\ (PrepareGranted(s) \/ PrepareQueued(s) \/ PrepareWoken(s)
                          \/ PrepareRefused(s) \/ PrepareFails(s) \/ holdStreamLease(s))
  \/ lookupStreamLease(s, kind)
  \/ SwitchGivesBack(s, kind) \/ SwitchAcquires(s, kind) \/ SwitchAssigns(s, kind)
  \/ SwitchFindsNone(s, kind) \/ UpstreamEnds(s, kind)
  \/ kind = "release" /\ (releaseStreamLease(s) \/ ReleaseLeased(s))

AllClosed ==
  /\ \A s \in Requests : node[s] = "closed"
  /\ Idle
  /\ UNCHANGED vars

Next ==
  \/ \E s \in Requests :
       \/ NodePrepare(s) \/ NodePow(s) \/ NodeSwitch(s) \/ NodeRelease(s)
       \/ CallLost(s) \/ NodeDies(s) \/ Expire(s)
       \/ \E kind \in Kinds : HandlerStep(s, kind)
  \/ AllClosed

Spec == Init /\ [][Next]_vars

(* Handlers run to their end; upstream refuses an account, and a stream    *)
(* asks again, a bounded number of times; time passes.  New streams are    *)
(* not promised.                                                           *)
Fairness ==
  /\ \A s \in Requests : SF_vars(NodeRelease(s))
  /\ \A s \in Requests, kind \in Kinds : WF_vars(HandlerStep(s, kind))
  /\ \A s \in Switching : /\ \A kind \in {"pow", "switch"} : SF_vars(UpstreamEnds(s, kind))
                          /\ SF_vars(PrepareFails(s) \/ holdStreamLease(s))
  /\ \A s \in Expiring : WF_vars(Expire(s))

FairSpec == Spec /\ Fairness

-----------------------------------------------------------------------------
(* Properties.                                                             *)

(* Every variable has its type, and Node waits only for a call that some   *)
(* handler is working on.                                                  *)
TypeOK ==
  /\ PoolTypeOK
  /\ node \in [Requests -> NodeStates]
  /\ switched \in [Requests -> BOOLEAN]
  /\ leases \subseteq Requests /\ expired \subseteq Requests /\ overtaken \subseteq Requests
  /\ ctxDone \subseteq Requests
  /\ goPc \in [Handlers -> HandlerStates]
  /\ batch \in [Handlers -> SUBSET Requests]
  /\ got \in [Handlers -> Accounts \cup {NoAccount}]
  /\ accountID \in [Requests -> Accounts \cup {NoAccount}]
  /\ tried \in [Requests -> SUBSET Accounts]
  /\ owned \in [Requests -> [Accounts -> Nat]]
  /\ \A s \in Requests : node[s] \in Kinds => goPc[<<s, node[s]>>] # "none"

(* While no account is switched, every slot taken for a stream has exactly *)
(* one keeper (the prepare handler, the table, a sweep, the release        *)
(* handler), whatever calls are lost or race, and the counters agree.      *)
OneKeeperPerSlot ==
  /\ TypeOK
  /\ \A s \in Requests : Cardinality(Keepers(s)) = Cardinality(OwnedSlots(s))
  /\ \A a \in Accounts :
       inUse[a] = Cardinality({s \in Requests : owned[s][a] > 0})

(* A lease that Node will not release: only a later call sweeps it.        *)
Abandoned(s) == s \in leases /\ node[s] = "closed" /\ goPc[<<s, "release">>] = "none"

(* A lease that is gone, with every slot that was taken for its stream.    *)
(* The exception is the code's: SwitchAccount works outside the mutex of   *)
(* the table, and the slot it acquires after the lease was taken from the  *)
(* table is given back by nobody.                                          *)
Over(s) == s \notin leases /\ (s \in overtaken \/ \A a \in Accounts : owned[s][a] = 0)

(* Every stream that asks for an account is answered, unless the slots it  *)
(* needs are kept by an abandoned lease or by an overtaken one.            *)
PreparesAnswered ==
  \A s \in Requests :
    node[s] = "prepare" ~> \/ node[s] # "prepare"
                           \/ overtaken # {}
                           \/ \E t \in Requests : Abandoned(t)

(* Every lease that Node lives to release ends, and the slots taken for    *)
(* the stream, those of accounts switched to included, become free.        *)
ReleasedLeasesEnd == \A s \in Requests : s \in leases ~> Over(s) \/ Abandoned(s)

(* http_internal.js: cleanup on the Go side prevents permanent leaks.  A   *)
(* lease that outlived its TTL, released by Node or not, ends by the first *)
(* call that sweeps, while switches and releases race with the sweep.      *)
SweptLeasesEnd ==
  \A s \in Requests :
    (s \in leases \cap expired /\ \E h \in Handlers : goPc[h] = "sweep") ~> Over(s)

(* Both ways of a lease to its end.                                        *)
LeasesEnd == ReleasedLeasesEnd /\ SweptLeasesEnd
=============================================================================
