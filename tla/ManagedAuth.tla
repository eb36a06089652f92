------------------------------ MODULE ManagedAuth ------------------------------
(***************************************************************************)
(* internal/auth: the Resolver on top of the account pool.  A managed      *)
(* request is determined (an account is acquired and its token ensured),   *)
(* served, may switch to another account or have its token refreshed while *)
(* it is served, and gives its account back by the handler's deferred      *)
(* Release.  The pool's own steps are those of AccountPoolClients, whose   *)
(* `account` is kept here as the slot a request really owns; `accountID`   *)
(* is the RequestAuth field the code releases by.                          *)
(* Requests with a token of their own never touch the pool and are left    *)
(* out.                                                                    *)
(***************************************************************************)
EXTENDS AccountPoolClients

CONSTANTS LoginFails,      \* accounts whose login upstream may fail
          RefreshDue       \* accounts whose refresh interval may expire

ASSUME AuthAssumption == LoginFails \subseteq Accounts /\ RefreshDue \subseteq Accounts

VARIABLES
  phase,          \* what the request's goroutine is doing with its RequestAuth
  accountID,      \* RequestAuth.AccountID
  recordToken,    \* whether RequestAuth.Account.Token is set
  deepSeekToken,  \* the account RequestAuth.DeepSeekToken was issued for
  switching,      \* ensureManagedToken was called by SwitchAccount
  refreshMarks    \* Resolver.tokenRefreshedAt has an entry for these

authVars == <<phase, accountID, recordToken, deepSeekToken, switching, refreshMarks>>
allVars == <<vars, authVars>>

Phases == {"none", "ensure", "login", "serving", "acquire", "refresh", "over"}

(* The RequestAuth of every request has its type, and a request that is    *)
(* served has an account and a token to speak with.                        *)
AuthTypeOK ==
  /\ phase \in [Requests -> Phases]
  /\ accountID \in [Requests -> Accounts \cup {NoAccount}]
  /\ recordToken \in [Requests -> BOOLEAN]
  /\ deepSeekToken \in [Requests -> Accounts \cup {NoAccount}]
  /\ switching \in [Requests -> BOOLEAN]
  /\ refreshMarks \subseteq Accounts
  /\ \A r \in Requests :
       /\ pc[r] = "held" <=> phase[r] \notin {"none", "over"}
       /\ phase[r] # "none" => accountID[r] \in Accounts
       /\ phase[r] = "serving" => deepSeekToken[r] \in Accounts

AuthInit ==
  /\ phase = [r \in Requests |-> "none"]
  /\ accountID = [r \in Requests |-> NoAccount]
  /\ recordToken = [r \in Requests |-> FALSE]
  /\ deepSeekToken = [r \in Requests |-> NoAccount]
  /\ switching = [r \in Requests |-> FALSE]
  /\ refreshMarks = {}

-----------------------------------------------------------------------------
(* Building blocks.                                                        *)

(* Regression seed: the loop gives up one account too early.               *)
TriedAll_OffByOne(t, tried_r) == t = NoAccount /\ Cardinality(tried_r) + 1 >= Len(accounts)

(* acquireManagedRequestAuth gives up when as many accounts were tried as  *)
(* the store now holds.                                                    *)
TriedAll(t, tried_r) == t = NoAccount /\ Cardinality(tried_r) >= Len(accounts)

(* Resolver.Release and every Pool.Release(a.AccountID): the pool releases *)
(* a slot of accountID[r], whether or not r still owns one.                *)
ReleaseOwn(r) ==
  /\ Release(accountID[r])
  /\ account' = IF account[r] = accountID[r] THEN [account EXCEPT ![r] = NoAccount]
                ELSE account

(* The acquired record: its identifier and a copy of its stored token.     *)
TakeRecord(r, a) ==
  /\ accountID' = [accountID EXCEPT ![r] = a]
  /\ recordToken' = [recordToken EXCEPT ![r] = a \in tokened]
  /\ phase' = [phase EXCEPT ![r] = "ensure"]

-----------------------------------------------------------------------------
(* Determine: AcquireWait, then ensureManagedToken, until one succeeds.    *)

Determine(r) ==
  /\ pc[r] = "idle"
  /\ \E t \in Pinnable \cup {NoAccount} :
       /\ target' = [target EXCEPT ![r] = t]
       /\ pc' = [pc EXCEPT ![r] = IF TriedAll(t, {}) THEN "refused" ELSE "try"]
  /\ UNCHANGED <<storeVars, poolVars, tried, account, ctxDone, adminVars, authVars>>

Acquired(r) ==
  /\ TryGranted(r)
  /\ TakeRecord(r, account'[r])
  /\ switching' = [switching EXCEPT ![r] = FALSE]
  /\ UNCHANGED <<deepSeekToken, refreshMarks>>

(* The other outcomes of AcquireWait leave the RequestAuth unborn.         *)
AcquireWaitStep(r) ==
  /\ \/ TryCancelled(r) \/ TryQueued(r) \/ TryRefused(r)
     \/ SelectWoken(r) \/ SelectDone(r)
  /\ UNCHANGED authVars

(* ensureManagedToken: log in without a token, or when shouldForceRefresh  *)
(* finds a mark older than the interval; the first look only sets the mark.*)
EnsureLogin(r) ==
  /\ phase[r] = "ensure"
  /\ \/ ~recordToken[r]
     \/ accountID[r] \in RefreshDue \cap refreshMarks
  /\ phase' = [phase EXCEPT ![r] = "login"]
  /\ UNCHANGED <<vars, accountID, recordToken, deepSeekToken, switching, refreshMarks>>

(* Regression seed: the stored token is not copied into the request.       *)
EnsureKept_OldToken(r) ==
  /\ phase[r] = "ensure" /\ recordToken[r]
  /\ refreshMarks' = refreshMarks \cup ({accountID[r]} \cap RefreshDue)
  /\ phase' = [phase EXCEPT ![r] = "serving"]
  /\ UNCHANGED <<vars, accountID, recordToken, deepSeekToken, switching>>

EnsureKept(r) ==
  /\ phase[r] = "ensure" /\ recordToken[r]
  /\ deepSeekToken' = [deepSeekToken EXCEPT ![r] = accountID[r]]
  /\ refreshMarks' = refreshMarks \cup ({accountID[r]} \cap RefreshDue)
  /\ phase' = [phase EXCEPT ![r] = "serving"]
  /\ UNCHANGED <<vars, accountID, recordToken, switching>>

(* loginAndPersist succeeds: the token goes into the RequestAuth, the mark *)
(* is set and the store updated; an account deleted meanwhile makes the    *)
(* update fail.                                                            *)
LoggedIn(r) ==
  /\ recordToken' = [recordToken EXCEPT ![r] = TRUE]
  /\ deepSeekToken' = [deepSeekToken EXCEPT ![r] = accountID[r]]
  /\ refreshMarks' = refreshMarks \cup {accountID[r]}

(* A login fails upstream, or because the request's context is done.       *)
UpstreamFails(r) == accountID[r] \in LoginFails \/ r \in ctxDone

LoginDone(r) ==
  /\ phase[r] = "login" /\ accountID[r] \in Configured
  /\ LoggedIn(r)
  /\ tokened' = tokened \cup {accountID[r]}
  /\ phase' = [phase EXCEPT ![r] = "serving"]
  /\ UNCHANGED <<accounts, runtime, poolVars, requestVars, adminVars, accountID, switching>>

(* Regression seed: the account is marked as tried and kept.               *)
EnsureFailed_KeepsSlot(r) ==
  /\ tried' = [tried EXCEPT ![r] = @ \cup {accountID[r]}]
  /\ account' = [account EXCEPT ![r] = NoAccount]
  /\ phase' = [phase EXCEPT ![r] = IF switching[r] THEN "acquire" ELSE "none"]
  /\ pc' = [pc EXCEPT ![r] = IF switching[r] THEN @ ELSE "try"]
  /\ UNCHANGED poolVars

(* Either way the account is given back and remembered as tried.  Determine*)
(* starts over (a pinned request fails), SwitchAccount takes the next one. *)
EnsureFailed(r) ==
  LET tried_r == tried[r] \cup {accountID[r]}
  IN  /\ tried' = [tried EXCEPT ![r] = tried_r]
      /\ ReleaseOwn(r)
      /\ IF switching[r]
         THEN /\ phase' = [phase EXCEPT ![r] = "acquire"]
              /\ UNCHANGED pc
         ELSE /\ phase' = [phase EXCEPT ![r] = "none"]
              /\ pc' = [pc EXCEPT ![r] =
                   IF target[r] # NoAccount \/ TriedAll(target[r], tried_r)
                   THEN "refused" ELSE "try"]

LoginFailed(r) ==
  /\ phase[r] = "login" /\ UpstreamFails(r)
  /\ EnsureFailed(r)
  /\ UNCHANGED <<storeVars, target, ctxDone, adminVars,
                 accountID, recordToken, deepSeekToken, switching, refreshMarks>>

LoginUnsaved(r) ==
  /\ phase[r] = "login" /\ accountID[r] \notin Configured
  /\ LoggedIn(r)
  /\ EnsureFailed(r)
  /\ UNCHANGED <<storeVars, target, ctxDone, adminVars, accountID, switching>>

-----------------------------------------------------------------------------
(* While the request is served.                                            *)

(* SwitchAccount gives the current account back before it looks for        *)
(* another one ...                                                         *)
SwitchAccount(r) ==
  /\ phase[r] = "serving" /\ target[r] = NoAccount
  /\ tried' = [tried EXCEPT ![r] = @ \cup {accountID[r]}]
  /\ ReleaseOwn(r)
  /\ phase' = [phase EXCEPT ![r] = "acquire"]
  /\ switching' = [switching EXCEPT ![r] = TRUE]
  /\ UNCHANGED <<storeVars, pc, target, ctxDone, adminVars,
                 accountID, recordToken, deepSeekToken, refreshMarks>>

SwitchAcquired(r) ==
  /\ phase[r] = "acquire"
  /\ \E a \in Accounts :
       /\ acquireLocked(a, NoAccount, tried[r])
       /\ account' = [account EXCEPT ![r] = a]
       /\ TakeRecord(r, a)
  /\ UNCHANGED <<storeVars, pc, target, tried, ctxDone, adminVars,
                 deepSeekToken, switching, refreshMarks>>

(* ... and returns false, with the AccountID of an account it has already  *)
(* given back, when there is none.  The callers carry on.                  *)
SwitchFailed(r) ==
  /\ phase[r] = "acquire"
  /\ Grantable(NoAccount, tried[r]) = {}
  /\ phase' = [phase EXCEPT ![r] = "serving"]
  /\ UNCHANGED <<vars, accountID, recordToken, deepSeekToken, switching, refreshMarks>>

(* RefreshToken clears the stored token, then logs in again.               *)
RefreshToken(r) ==
  /\ phase[r] = "serving"
  /\ tokened' = tokened \ {accountID[r]}
  /\ recordToken' = [recordToken EXCEPT ![r] = FALSE]
  /\ phase' = [phase EXCEPT ![r] = "refresh"]
  /\ UNCHANGED <<accounts, runtime, poolVars, requestVars, adminVars,
                 accountID, deepSeekToken, switching, refreshMarks>>

RefreshDone(r) ==
  /\ phase[r] = "refresh"
  /\ LoggedIn(r)
  /\ tokened' = IF accountID[r] \in Configured THEN tokened \cup {accountID[r]} ELSE tokened
  /\ phase' = [phase EXCEPT ![r] = "serving"]
  /\ UNCHANGED <<accounts, runtime, poolVars, requestVars, adminVars, accountID, switching>>

RefreshFailed(r) ==
  /\ phase[r] = "refresh" /\ UpstreamFails(r)
  /\ phase' = [phase EXCEPT ![r] = "serving"]
  /\ UNCHANGED <<vars, accountID, recordToken, deepSeekToken, switching, refreshMarks>>

(* The client hangs up while it is served; nothing looks at the context    *)
(* but the upstream calls.                                                 *)
HangUpServed(r) ==
  /\ r \in Cancellable \ ctxDone
  /\ pc[r] = "held"
  /\ ctxDone' = ctxDone \cup {r}
  /\ UNCHANGED <<storeVars, poolVars, pc, target, tried, account, adminVars, authVars>>

(* The handler returns: its deferred Resolver.Release runs.                *)
Return(r) ==
  /\ phase[r] = "serving"
  /\ ReleaseOwn(r)
  /\ pc' = [pc EXCEPT ![r] = "done"]
  /\ phase' = [phase EXCEPT ![r] = "over"]
  /\ UNCHANGED <<storeVars, target, tried, ctxDone, adminVars,
                 accountID, recordToken, deepSeekToken, switching, refreshMarks>>

-----------------------------------------------------------------------------
AuthInitial == Init /\ AuthInit

(* What the goroutine does on its own, as opposed to what upstream or the  *)
(* client make it do.                                                      *)
DetermineStep(r) ==
  \/ Acquired(r) \/ AcquireWaitStep(r)
  \/ EnsureLogin(r) \/ EnsureKept(r) \/ LoginDone(r) \/ LoginFailed(r) \/ LoginUnsaved(r)

ServeStep(r) ==
  \/ SwitchAcquired(r) \/ SwitchFailed(r)
  \/ RefreshDone(r) \/ RefreshFailed(r)
  \/ Return(r)

AuthNext ==
  \/ \E r \in Requests :
       \/ Determine(r) \/ DetermineStep(r) \/ ServeStep(r)
       \/ SwitchAccount(r) \/ RefreshToken(r)
       \/ HangUpServed(r)
       \/ HangUp(r) /\ UNCHANGED authVars
  \/ \E m \in Admins : (AdminUpdate(m) \/ AdminStep(m)) /\ UNCHANGED authVars
  \/ AllEnded /\ UNCHANGED authVars

AuthSpec == AuthInitial /\ [][AuthNext]_allVars

-----------------------------------------------------------------------------
(* Properties.                                                             *)

(* A request that is served on an account it has not yet given up owns a   *)
(* slot of that very account and speaks with that account's token: through *)
(* failed logins, switches, forced refreshes and reconfigurations the      *)
(* RequestAuth's fields never get out of step with the pool.  (An account  *)
(* given up by SwitchAccount is in TriedAccounts.)                         *)
ServedOnOwnSlot ==
  /\ AuthTypeOK
  /\ \A r \in Requests :
       phase[r] = "serving" /\ accountID[r] \notin tried[r] =>
         account[r] = accountID[r] /\ deepSeekToken[r] = accountID[r]

(* No client has hung up, no administrator is at work, and no account is   *)
(* missing.                                                                *)
Undisturbed ==
  /\ ctxDone = {}
  /\ \A m \in Admins : adminPc[m] = "idle"
  /\ ToSet(InitialAccounts) \subseteq Configured

(* ErrNoAccount or a login error answers an unpinned request only after a  *)
(* login was tried on every configured account, and none waits in the pool *)
(* for an account that cannot come because it has tried them all.          *)
(* (Accounts are counted: one deleted meanwhile counts for one that was    *)
(* never tried, and a request that has tried all but one waits for ever    *)
(* when that one is deleted, hence Undisturbed.)                           *)
GivesUpExactlyAfterAll ==
  [][\A r \in Requests : target[r] = NoAccount =>
       /\ phase[r] = "login" /\ pc'[r] = "refused" /\ Undisturbed
            => Configured \subseteq tried'[r]
       /\ pc'[r] = "wait" /\ Undisturbed' => ~(Configured' \subseteq tried'[r])]_allVars
=============================================================================
