---------------------------- MODULE AutoContinue ----------------------------
(***************************************************************************)
(* When an answer that upstream broke off is continued                     *)
(* (internal/deepseek/client/client_continue.go): what the client reads    *)
(* from the events that pass through, besides their content.               *)
(***************************************************************************)
EXTENDS SSEParse

\* continueState without the session, which never changes.
FreshContinueState == [id |-> 0, status |-> "", finished |-> FALSE]

SetStatus(s, status) ==
    IF status = "" THEN s
    ELSE [s EXCEPT !.status = status,
                   !.finished = @ \/ status \in {"FINISHED", "CONTENT_FILTER"}]

ContinueStatusPaths ==
    {"status", "response/status", "quasi_status", "response/quasi_status"}

AutoContinuePaths == {"auto_continue", "response/auto_continue"}

\* A patch of a status path or of the auto_continue flag.
ObservePatch(s, p, v) ==
    CASE p \in ContinueStatusPaths /\ v.kind = "str" /\ v.text # <<>> ->
            SetStatus(s, v.text[1])
      [] p \in AutoContinuePaths /\ v.auto -> [s EXCEPT !.status = "AUTO_CONTINUE"]
      [] OTHER -> s

ObserveDirectPatch(s, chunk) == ObservePatch(s, chunk.p, chunk.v)

\* The patches of a batch; those under "response" may name their path
\* without it, and both spellings are the same four paths.
ObserveBatchPatches(s, chunk) ==
    IF chunk.v.kind # "list" THEN s
    ELSE FoldLeft(LAMBDA st, it : ObservePatch(st, it.p, it.v), s, chunk.v.items)

ObserveResponseObject(s, v) ==
    IF v.kind # "obj" THEN s
    ELSE LET identified == IF v.id > 0 THEN [s EXCEPT !.id = v.id] ELSE s
             judged     == SetStatus(identified, v.status)
         IN  IF v.auto THEN [judged EXCEPT !.status = "AUTO_CONTINUE"] ELSE judged

\* observe: the signals of one event, the flag of a response object last.
Observe(s, chunk) ==
    LET identified == IF chunk.id > 0 THEN [s EXCEPT !.id = chunk.id] ELSE s
        patched    == ObserveBatchPatches(ObserveDirectPatch(identified, chunk), chunk)
    IN  ObserveResponseObject(patched, chunk.v)

\* Plain WIP is no reason: every answer begins with it.
ShouldContinue(s) ==
    ~ s.finished /\ s.id > 0 /\ s.status \in {"INCOMPLETE", "AUTO_CONTINUE"}

PrepareForNextRound(s) == [s EXCEPT !.finished = FALSE, !.status = ""]
=============================================================================
