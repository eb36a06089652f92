----------------------------- MODULE Completion -----------------------------
(***************************************************************************)
(* One chat request on its way through internal/completionruntime and      *)
(* internal/deepseek/client: the context files, the remote session, the    *)
(* proof of work and the completion call, each with its own retries,       *)
(* token refresh and account switches; then the answer, the one synthetic  *)
(* retry of an empty one and the one fresh start on another account; and   *)
(* the automatic deletion of the remote session at the end.                *)
(*                                                                         *)
(* ManagedAuth models SwitchAccount and RefreshToken themselves.  Here the *)
(* first gives any account that was not tried, or none, and the second     *)
(* succeeds or fails.                                                      *)
(***************************************************************************)
EXTENDS Naturals, Sequences, FiniteSets, SequencesExt

CONSTANTS
    Accounts,
    Direct,          \* the caller's own token, outside the pool
    Answers,         \* what upstream may answer to a completion call
    MaxAttempts,     \* attempts of one client operation (3 in the code)
    RetryMax,        \* EmptyOutputRetryMaxAttempts
    MaxPolls,        \* fileReadyPollAttempts
    InputFiles,      \* context files this request uploads: <<>> to <<history, tools>>
    AutoDeleteMode   \* auto_delete.mode

\* An answer's status, 500 for every error but a rate limit, and what its body
\* holds.
AnswerType == [status : {"ok", "429", "500"}, text : BOOLEAN, thinking : BOOLEAN,
               tools : BOOLEAN, filtered : BOOLEAN, id : BOOLEAN]

ASSUME CompletionAssumption ==
    /\ Direct \notin Accounts
    /\ Answers \subseteq AnswerType /\ Answers # {}
    /\ InputFiles \in Seq(STRING \ {"client"})
    /\ \A i, j \in DOMAIN InputFiles : InputFiles[i] = InputFiles[j] => i = j
    /\ {MaxAttempts, RetryMax, MaxPolls} \subseteq Nat \ {0}
    /\ AutoDeleteMode \in {"none", "single", "all"}

VARIABLES
    caller,    \* RequestAuth: its account, TriedAccounts, the context
    program,   \* which start is under way: the first, the retry, the switch
    plan,      \* the operations it still has to do
    op,        \* attempts, refreshed and clients of the operation under way
    upload,    \* UploadFile around it: its file, attempts, clients, polls
    sessions,  \* the remote sessions created, each with its account
    draft,     \* the StartResult being put together
    payload,   \* the StartResult whose call was answered
    answer,    \* the last response
    seen,      \* what the attempts have produced so far
    attempts, switched, \* synthetic retries made; a switch was tried
    request,   \* stream: true in it; a tool_choice that requires a call
    calls,     \* every completion call that was answered
    wire,      \* the last request sent: token and proxied client used
    outcomes,  \* how the caller was answered
    deleted    \* what the automatic deletion asked for

vars == <<caller, program, plan, op, upload, sessions, draft, payload, answer, seen,
          attempts, switched, request, calls, wire, outcomes, deleted>>

Managed == caller.account # Direct
Stream == request.stream
Required == request.required

ClientRef == [name |-> "client", by |-> "client"]

NoStart == [session |-> 0, pow |-> Direct, refs |-> {ClientRef}]
NoOutput == [text |-> FALSE, thinking |-> FALSE, tools |-> FALSE]
NoDeletion == [sessions |-> {}, token |-> Direct]

FreshOp(account) == [attempts |-> 0, refreshed |-> FALSE, clients |-> account]
FreshUpload == [left |-> InputFiles, attempts |-> 0, refreshed |-> FALSE,
                clients |-> Direct, polls |-> 0]

\* UploadFile for each context file: proof of work, the upload, the wait.
UploadPlan == [i \in 1 .. 3 * Len(InputFiles) |->
                 <<"poll", "uploadpow", "upload">>[1 + (i % 3)]]

\* What a file was made of goes up again for another account.
ReuploadPlan == UploadPlan

\* The two ways to start on another account: the stream's path has its session
\* and pow before it uploads again.
StreamSwitchPlan == <<"session", "pow">> \o ReuploadPlan \o <<"call">>
CollectedSwitchPlan == ReuploadPlan \o <<"session", "pow", "call">>

\* StartCompletion, the retry, and a start on another account.
PlanOf(p) ==
    CASE p = "retry"  -> <<"pow", "call">>
      [] p = "start"  -> UploadPlan \o <<"session", "pow", "call">>
      [] p = "switch" -> IF Stream THEN StreamSwitchPlan ELSE CollectedSwitchPlan

Init ==
    /\ caller \in [account : Accounts \cup {Direct}, tried : {{}}, cancelled : {FALSE}]
    /\ request \in [stream : BOOLEAN, required : BOOLEAN]
    /\ program = "start" /\ plan = PlanOf("start")
    /\ op = FreshOp(caller.account) /\ upload = FreshUpload
    /\ sessions = <<>> /\ draft = NoStart /\ payload = NoStart
    /\ answer = CHOOSE a \in Answers : TRUE
    /\ seen = NoOutput
    /\ attempts = 0 /\ switched = FALSE
    /\ calls = <<>> /\ outcomes = <<>>
    /\ wire = [kind |-> "none", token |-> Direct, clients |-> Direct]
    /\ deleted = NoDeletion

At(stage) == plan # <<>> /\ Head(plan) = stage

\* The caller is answered; what is left is the handler's deferred calls.
End(outcome) ==
    /\ outcomes' = Append(outcomes, outcome)
    /\ plan' = <<"delete">>

-----------------------------------------------------------------------------
(* SwitchAccount, and what an operation does about a failed attempt. *)

SwitchOutcomes(c) ==
    IF c.account = Direct THEN {}
    ELSE LET tried == c.tried \cup {c.account}
         IN  {[c EXCEPT !.account = a, !.tried = tried] : a \in Accounts \ tried}

\* Without another account SwitchAccount has still given the old one back.
SwitchFailed(c) == IF c.account = Direct THEN c
                   ELSE [c EXCEPT !.tried = @ \cup {c.account}]

Counted(o) == [o EXCEPT !.attempts = @ + 1]

\* Mutant: a refreshed token is not remembered.
Recoveries_RefreshesForever(c, o, reply, counts) ==
    IF reply = "broken" THEN {<<c, Counted(o)>>}
    ELSE (IF reply = "auth" /\ c.account # Direct THEN {<<c, o>>} ELSE {})
         \cup {<<d, [Counted(o) EXCEPT !.refreshed = FALSE]>> : d \in SwitchOutcomes(c)}
         \cup {<<SwitchFailed(c), Counted(o)>>}

\* A broken connection only counts.  A refusal that looks like a bad token
\* logs in again, once, for free (but UploadFile counts it); else a managed
\* request moves on to another account, and has its refresh back.
Recoveries(c, o, reply, counts) ==
    IF reply = "broken" THEN {<<c, Counted(o)>>}
    ELSE (IF reply = "auth" /\ c.account # Direct /\ ~ o.refreshed
          THEN {<<c, [(IF counts THEN Counted(o) ELSE o) EXCEPT !.refreshed = TRUE]>>}
          ELSE {})
         \cup {<<d, [Counted(o) EXCEPT !.refreshed = FALSE]>> : d \in SwitchOutcomes(c)}
         \cup {<<SwitchFailed(c), Counted(o)>>}

\* A connection breaks, or the answer looks like a bad token, or it does not.
Replies == IF caller.cancelled THEN {"broken"} ELSE {"broken", "auth", "refused"}

\* The operation at the head of the plan has not succeeded after its last
\* attempt: a retry falls back to the old proof of work, all else fails.
GiveUp(stage) ==
    IF stage = "pow" /\ program = "retry"
    THEN /\ plan' = Tail(plan) /\ op' = FreshOp(caller'.account)
         /\ UNCHANGED outcomes
    ELSE /\ End(IF stage \in {"session", "pow"} THEN "unauthorized" ELSE "upload_failed")
         /\ UNCHANGED op

\* One more attempt of CreateSession or GetPowForTarget fails.
AttemptFails(stage) ==
    /\ At(stage)
    /\ wire' = [kind |-> stage, token |-> caller.account, clients |-> op.clients]
    /\ \E reply \in Replies : \E r \in Recoveries(caller, op, reply, FALSE) :
         /\ caller' = r[1]
         /\ IF r[2].attempts < MaxAttempts
            THEN op' = r[2] /\ UNCHANGED <<plan, outcomes>>
            ELSE GiveUp(stage)
    /\ UNCHANGED <<program, upload, sessions, draft, payload, answer, seen, attempts,
                   switched, request, calls, deleted>>

CreateSessionFails == AttemptFails("session")
GetPowFails == AttemptFails("pow")
UploadPowFails == AttemptFails("uploadpow")

Succeeds(stage) ==
    /\ At(stage) /\ ~ caller.cancelled
    /\ wire' = [kind |-> stage, token |-> caller.account, clients |-> op.clients]
    /\ plan' = Tail(plan) /\ op' = FreshOp(caller.account)
    /\ UNCHANGED <<caller, program, payload, answer, seen, attempts, switched, request,
                   calls, outcomes, deleted>>

CreateSession ==
    /\ Succeeds("session")
    /\ sessions' = Append(sessions, caller.account)
    /\ draft' = [draft EXCEPT !.session = Len(sessions')]
    /\ UNCHANGED upload

GetPow ==
    /\ Succeeds("pow")
    /\ draft' = [draft EXCEPT !.pow = caller.account]
    /\ UNCHANGED <<sessions, upload>>

-----------------------------------------------------------------------------
(* UploadFile. *)

\* Mutant: the clients chosen before the proof of work are kept.
UploadPow_KeepsClients ==
    /\ Succeeds("uploadpow")
    /\ upload' = [upload EXCEPT !.clients = op.clients]
    /\ UNCHANGED <<sessions, draft>>

\* The proof of work may have moved the request to another account, so the
\* clients are chosen again.
UploadPow ==
    /\ Succeeds("uploadpow")
    /\ upload' = [upload EXCEPT !.clients = caller.account]
    /\ UNCHANGED <<sessions, draft>>

UploadRequest == wire' = [kind |-> "upload", token |-> caller.account,
                          clients |-> upload.clients]

UploadOp == [attempts |-> upload.attempts, refreshed |-> upload.refreshed,
             clients |-> upload.clients]

\* The connection fails: no second attempt.
UploadBreaks ==
    /\ At("upload") /\ UploadRequest
    /\ End("upload_failed")
    /\ UNCHANGED <<caller, program, op, upload, sessions, draft, payload, answer, seen,
                   attempts, switched, request, calls, deleted>>

\* An unreadable or refusing reply (the former only counts): a new proof of
\* work before the next attempt.
UploadRefused ==
    /\ At("upload") /\ ~ caller.cancelled /\ UploadRequest
    /\ \E reply \in Replies : \E r \in Recoveries(caller, UploadOp, reply, TRUE) :
         /\ caller' = r[1]
         /\ IF r[2].attempts < MaxAttempts
            THEN /\ upload' = [upload EXCEPT !.attempts = r[2].attempts,
                                             !.refreshed = r[2].refreshed]
                 /\ plan' = <<"uploadpow">> \o plan
                 /\ op' = FreshOp(r[1].account)
                 /\ UNCHANGED outcomes
            ELSE GiveUp("upload") /\ UNCHANGED upload
    /\ UNCHANGED <<program, sessions, draft, payload, answer, seen, attempts, switched,
                   request, calls, deleted>>

UploadAccepted ==
    /\ At("upload") /\ ~ caller.cancelled /\ UploadRequest
    /\ plan' = Tail(plan)
    /\ UNCHANGED <<caller, program, op, upload, sessions, draft, payload, answer, seen,
                   attempts, switched, request, calls, outcomes, deleted>>

\* prependUniqueRefFileIDs and replaceGeneratedCurrentInputRefs.
ReplaceGeneratedRefs(refs, ref) == {r \in refs : r.name # ref.name} \cup {ref}

\* waitForUploadedFile: the file is ready, ...
FileReady ==
    /\ At("poll")
    /\ draft' = [draft EXCEPT !.refs =
                   ReplaceGeneratedRefs(@, [name |-> Head(upload.left), by |-> program])]
    /\ upload' = [FreshUpload EXCEPT !.left =
                   IF Len(upload.left) = 1 THEN InputFiles ELSE Tail(upload.left)]
    /\ plan' = Tail(plan) /\ op' = FreshOp(caller.account)
    /\ UNCHANGED <<caller, program, sessions, payload, answer, seen, attempts, switched,
                   request, calls, wire, outcomes, deleted>>

\* ... or not yet, or never.
FileNotReady ==
    /\ At("poll")
    /\ IF upload.polls + 1 < MaxPolls /\ ~ caller.cancelled
       THEN upload' = [upload EXCEPT !.polls = @ + 1] /\ UNCHANGED <<plan, outcomes>>
       ELSE End("upload_failed") /\ UNCHANGED upload
    /\ UNCHANGED <<caller, program, op, sessions, draft, payload, answer, seen, attempts,
                   switched, request, calls, wire, deleted>>

-----------------------------------------------------------------------------
(* CallCompletion: one attempt, with clients chosen at the call. *)

\* The session whose message the call follows: a retry quotes the response
\* id of the answer it retries, if that had one.
ParentFor == IF program = "retry" /\ answer.id THEN payload.session ELSE 0

CompletionRequest ==
    wire' = [kind |-> "call", token |-> caller.account, clients |-> caller.account]

CallFails ==
    /\ At("call") /\ CompletionRequest
    /\ End("failed")
    /\ UNCHANGED <<caller, program, op, upload, sessions, draft, payload, answer, seen,
                   attempts, switched, request, calls, deleted>>

CallAnswered ==
    /\ At("call") /\ ~ caller.cancelled /\ CompletionRequest
    /\ payload' = draft
    /\ calls' = Append(calls, [program |-> program, account |-> caller.account,
                               session |-> draft.session, refs |-> draft.refs,
                               parent |-> ParentFor, suffix |-> program = "retry"])
    /\ \E a \in Answers : answer' = a
    /\ plan' = <<"consume">>
    /\ UNCHANGED <<caller, program, op, upload, sessions, draft, seen, attempts, switched,
                   request, outcomes, deleted>>

-----------------------------------------------------------------------------
(* What is made of the answer (internal/assistantturn). *)

EmptyAnswer == [status |-> "ok", text |-> FALSE, thinking |-> FALSE, tools |-> FALSE,
                filtered |-> FALSE, id |-> FALSE]

\* The turn after this answer.  A stream has already sent what earlier
\* attempts produced; otherwise only their thinking is kept.  The stream of
\* a switch is read whatever its status: an error has no events.
Turn ==
    LET a == IF answer.status = "ok" THEN answer ELSE EmptyAnswer
        text == a.text \/ (Stream /\ seen.text)
    IN  [text     |-> text,
         thinking |-> a.thinking \/ seen.thinking,
         tools    |-> a.tools \/ seen.tools,
         filtered |-> a.filtered /\ (Stream => ~ text)]

\* ValidateTurn and UpstreamEmptyOutputDetail.
TurnError(turn) ==
    IF turn.tools THEN "ok"
    ELSE IF Required THEN "tool_choice"
    ELSE IF turn.text THEN "ok"
    ELSE IF turn.filtered THEN "content_filter"
    ELSE IF turn.thinking THEN "upstream_empty_output"
    ELSE "upstream_unavailable"

\* Mutant: a filtered answer is retried.
ShouldRetryEmptyOutput_Filtered(turn) ==
    attempts < RetryMax /\ ~ turn.tools /\ ~ turn.text

ShouldRetryEmptyOutput(turn) ==
    attempts < RetryMax /\ ~ turn.filtered /\ ~ turn.tools /\ ~ turn.text

CanSwitch == Managed /\ ~ switched

BeginRetry ==
    /\ attempts' = attempts + 1
    /\ program' = "retry" /\ plan' = PlanOf("retry")
    /\ op' = FreshOp(caller.account)
    /\ UNCHANGED <<caller, switched, draft, upload, outcomes>>

\* Mutant: the switch is not remembered.
BeginSwitch_Again(outcome) ==
    /\ UNCHANGED switched
    /\ \/ \E c \in SwitchOutcomes(caller) :
            /\ caller' = c
            /\ program' = "switch" /\ plan' = PlanOf("switch")
            /\ op' = FreshOp(c.account)
            /\ UNCHANGED outcomes
       \/ /\ caller' = SwitchFailed(caller)
          /\ End(outcome)
          /\ UNCHANGED <<program, op>>
    /\ UNCHANGED <<attempts, draft, upload>>

\* canRetryOnAlternateAccount: one try, whether or not there is an account.
BeginSwitch(outcome) ==
    /\ switched' = TRUE
    /\ \/ \E c \in SwitchOutcomes(caller) :
            /\ caller' = c
            /\ program' = "switch" /\ plan' = PlanOf("switch")
            /\ op' = FreshOp(c.account)
            /\ UNCHANGED outcomes
       \/ /\ caller' = SwitchFailed(caller)
          /\ End(outcome)
          /\ UNCHANGED <<program, op>>
    /\ UNCHANGED <<attempts, draft, upload>>

Answered(outcome) ==
    /\ End(outcome)
    /\ UNCHANGED <<caller, program, op, attempts, switched, draft, upload>>

\* collectAttempt: a status that is an error is one, whatever the body says.
CollectAttempt(turn) == IF answer.status # "ok" THEN answer.status ELSE TurnError(turn)

\* ExecuteNonStreamStartedWithRetry.
ConsumeCollected ==
    /\ ~ Stream /\ At("consume")
    /\ LET turn  == Turn
           error == CollectAttempt(turn)
       IN  IF answer.status = "ok" /\ ShouldRetryEmptyOutput(turn)
           THEN /\ BeginRetry
                /\ seen' = [NoOutput EXCEPT !.thinking = turn.thinking]
           ELSE IF error \in {"429", "upstream_empty_output"} /\ CanSwitch
           THEN /\ BeginSwitch(error)
                /\ seen' = NoOutput
           ELSE /\ Answered(error)
                /\ seen' = [NoOutput EXCEPT !.thinking = turn.thinking]
    /\ UNCHANGED <<sessions, payload, answer, request, calls, wire, deleted>>

MayDefer(turn) == (attempts < RetryMax \/ CanSwitch) /\ ~ turn.filtered

\* ExecuteStreamWithRetry with the hooks of the chat handler: finalize
\* answers the caller unless the turn fails and may still be retried.
ConsumeStream ==
    /\ Stream /\ At("consume")
    /\ LET turn  == Turn
           error == TurnError(turn)
       IN  /\ seen' = [text |-> turn.text, thinking |-> turn.thinking, tools |-> turn.tools]
           /\ IF answer.status # "ok" /\ program # "switch" THEN Answered(answer.status)
              ELSE IF error = "ok" \/ ~ MayDefer(turn) THEN Answered(error)
              ELSE IF attempts < RetryMax THEN BeginRetry
              ELSE BeginSwitch(error)
    /\ UNCHANGED <<sessions, payload, answer, request, calls, wire, deleted>>

\* The consuming loop of a stream sees that the caller has gone.
ConsumeCancelled ==
    /\ Stream /\ At("consume") /\ caller.cancelled
    /\ answer.status = "ok" \/ program = "switch"
    /\ Answered("cancelled")
    /\ UNCHANGED <<sessions, payload, answer, seen, request, calls, wire, deleted>>

-----------------------------------------------------------------------------
(* autoDeleteRemoteSession, deferred by the chat handler: the session of    *)
(* the last start that was answered, or of the first one, with the token    *)
(* that the request holds by now.                                           *)

SessionRef == IF calls # <<>> THEN payload.session ELSE draft.session

AutoDelete ==
    /\ At("delete")
    /\ plan' = <<>>
    /\ deleted' = CASE AutoDeleteMode = "none" -> NoDeletion
                    [] AutoDeleteMode = "single" ->
                         [sessions |-> {SessionRef} \ {0}, token |-> caller.account]
                    [] AutoDeleteMode = "all" ->
                         [sessions |-> {s \in DOMAIN sessions : sessions[s] = caller.account},
                          token |-> caller.account]
    /\ UNCHANGED <<caller, program, op, upload, sessions, draft, payload, answer, seen,
                   attempts, switched, request, calls, wire, outcomes>>

Cancel ==
    /\ plan # <<>> /\ ~ caller.cancelled
    /\ caller' = [caller EXCEPT !.cancelled = TRUE]
    /\ UNCHANGED <<program, plan, op, upload, sessions, draft, payload, answer, seen,
                   attempts, switched, request, calls, wire, outcomes, deleted>>

Handle ==
    \/ CreateSessionFails \/ CreateSession
    \/ GetPowFails \/ GetPow
    \/ UploadPowFails \/ UploadPow
    \/ UploadBreaks \/ UploadRefused \/ UploadAccepted
    \/ FileReady \/ FileNotReady
    \/ CallFails \/ CallAnswered
    \/ ConsumeCollected \/ ConsumeStream \/ ConsumeCancelled
    \/ AutoDelete

Next == Handle \/ Cancel

\* Every request to upstream has its own timeout or ends with the context.
Spec == Init /\ [][Next]_vars /\ WF_vars(Handle)

-----------------------------------------------------------------------------
(* Properties. *)

TypeOK ==
    /\ caller \in [account : Accounts \cup {Direct}, tried : SUBSET Accounts,
                   cancelled : BOOLEAN]
    /\ program \in {"start", "retry", "switch"}
    /\ Range(plan) \subseteq {"uploadpow", "upload", "poll", "session", "pow", "call",
                             "consume", "delete"}
    /\ op \in [attempts : 0 .. MaxAttempts, refreshed : BOOLEAN,
               clients : Accounts \cup {Direct}]
    /\ Range(sessions) \subseteq Accounts \cup {Direct}
    /\ draft.session \in 0 .. Len(sessions)
    /\ answer \in Answers
    /\ attempts \in 0 .. RetryMax

\* Whatever fails on the way, in whichever of the starts, the request is
\* answered once, and before the handler's deferred calls run.
AnsweredOnce ==
    /\ Len(outcomes) <= 1
    /\ plan = <<>> \/ At("delete") => Len(outcomes) = 1

\* Upstream sees at most the first call, one synthetic retry for it and one
\* fresh start on another account, however the three alternate.
BoundedCalls ==
    \A p \in {"start", "retry", "switch"} :
        Cardinality({i \in DOMAIN calls : calls[i].program = p})
            <= IF p = "retry" THEN RetryMax ELSE 1

\* A retry goes to the session of the answer it retries and follows that
\* answer's message when it had an id; a fresh start has neither parent nor
\* suffix, and a session of its own.
RetryContinuesItsSession ==
    \A i \in DOMAIN calls :
        IF calls[i].program = "retry"
        THEN /\ calls[i].suffix
             /\ i > 1 /\ calls[i].session = calls[i-1].session
             /\ calls[i].parent \in {0, calls[i].session}
        ELSE /\ ~ calls[i].suffix /\ calls[i].parent = 0
             /\ \A j \in 1 .. i - 1 : calls[j].session # calls[i].session

\* The references of a call are the client's own and one for each context
\* file; after a switch these are the files that were uploaded for it.
RefsReplacedNotAdded ==
    \A i \in DOMAIN calls :
        /\ ClientRef \in calls[i].refs
        /\ Cardinality(calls[i].refs) = 1 + Len(InputFiles)
        /\ calls[i].program = "switch" =>
              \A r \in calls[i].refs \ {ClientRef} : r.by = "switch"

\* docs/prompt-compatibility.md: only an empty answer that no filter cut
\* short is asked for again.  (A stream whose required tool call is missing
\* is, though it has shown its text.)
OnlyEmptyAnswersRetried ==
    [][Len(calls') > Len(calls) /\ calls # <<>> /\ answer.status = "ok" =>
         /\ ~ answer.tools
         /\ answer.text => Stream /\ Required
         /\ answer.filtered => answer.text \/ (Stream /\ seen.text)]_vars

\* The two outcomes that blame the account: reasoning without an answer, on
\* every path, and the 429 of upstream itself for a collected answer.  (The
\* 429 that answers a streamed call, or its retry, is passed on as it comes:
\* ExecuteStreamWithRetry looks at the turn, not at the first status.)
BlamesTheAccount(outcome) ==
    outcome = "upstream_empty_output" \/ (outcome = "429" /\ ~ Stream)

\* The same page: a managed caller is told that the account is to blame only
\* after the request has looked for another account, ...
RateLimitSwitchedFirst ==
    \A o \in Range(outcomes) : BlamesTheAccount(o) /\ Managed => switched

\* ... and nobody that there was no output before one synthetic retry.
RetriedBeforeGivingUp ==
    \A o \in Range(outcomes) :
        o \in {"upstream_empty_output", "upstream_unavailable"} => attempts = RetryMax

\* However retries, the switch and failures alternate, the request has one
\* outcome, after no more calls and no fewer tries than documented.
OneOutcome ==
    /\ TypeOK
    /\ AnsweredOnce
    /\ BoundedCalls
    /\ RateLimitSwitchedFirst
    /\ RetriedBeforeGivingUp

\* A file goes to an account, and a completion call is made for it, through
\* the proxy of that account, though getting the proof of work may have
\* changed the account.  (CreateSession and GetPow keep their first clients.)
UploadsAndCallsUseOwnProxy ==
    wire.kind \in {"upload", "call"} => wire.clients = wire.token

\* README: "single" deletes the session that this request used.  It is the
\* one of the last answered call, also after failed switches.
DeletesTheServedSession ==
    plan = <<>> /\ AutoDeleteMode = "single" /\ calls # <<>> =>
        deleted.sessions = {Last(calls).session}

\* What a call sends belongs together after any retries and switches: the
\* session, its parent message and the files are those of the attempt, the
\* proxy is the account's, and the session that served is cleaned up.
StaysWithItsAccount ==
    /\ RetryContinuesItsSession
    /\ RefsReplacedNotAdded
    /\ UploadsAndCallsUseOwnProxy
    /\ DeletesTheServedSession

\* Retries, refreshes, polls and switches all end.
RequestEnds == <>(plan = <<>>)
=============================================================================
