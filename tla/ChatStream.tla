----------------------------- MODULE ChatStream -----------------------------
(***************************************************************************)
(* The stream of OpenAI Chat Completions                                   *)
(* (internal/httpapi/openai/chat/chat_stream_runtime.go and                *)
(* empty_retry_runtime.go).                                                *)
(*                                                                         *)
(* A call's number is told together with the id that it gets.              *)
(***************************************************************************)
EXTENDS AnswerTurn

NewChatStream ==
    [acc |-> NoParts, sieve |-> EmptySieve, wire |-> <<>>,
     emitted |-> FALSE, ids |-> <<>>, lastID |-> 0]

\* formatFinalStreamToolCallsWithStableIDs: a call that has no id gets one.
SendToolCalls(s, calls) ==
    LET fresh == [i \in 1 .. Len(calls) - Len(s.ids) |-> s.lastID + i]
        ids   == s.ids \o fresh
        told  == [i \in DOMAIN calls |-> [n |-> calls[i], id |-> ids[i]]]
    IN  [Send(s, <<"calls", told>>)
            EXCEPT !.emitted = TRUE, !.ids = ids, !.lastID = @ + Len(fresh)]

\* resetStreamToolCallState
ResetToolCallState(s) == [s EXCEPT !.ids = <<>>]

-----------------------------------------------------------------------------
(* chatDeltaBatch: neighbouring deltas of one field become one chunk. *)

Batch(s) == [s |-> s, field |-> "", parts |-> <<>>]

Flush(batch) ==
    IF batch.parts = <<>> THEN batch
    ELSE Batch(Send(batch.s, <<batch.field, batch.parts>>))

AppendTo(batch, field, parts) ==
    IF parts = <<>> THEN batch
    ELSE LET b == IF batch.field = field THEN batch ELSE Flush(batch)
         IN  [b EXCEPT !.field = field, !.parts = @ \o parts]

\* What the sieve lets out.
ChatLetOut(batch, out) ==
    LET told == IF out.calls = <<>> THEN batch
                ELSE Batch(ResetToolCallState(SendToolCalls(Flush(batch).s, out.calls)))
    IN  AppendTo(told, "content", out.text)

-----------------------------------------------------------------------------
(* onParsed: a part of a line.  A line begins with an empty batch, which it *)
(* flushes at its end.                                                     *)

ChatPart(batch, part, tools, thinking) ==
    LET b     == [batch EXCEPT !.s.acc = Apply(@, part, thinking)]
        chunk == ProcessChunk(b.s.sieve, part)
    IN  IF part.kind \in Thinking THEN AppendTo(b, "reasoning", Shown(part, thinking))
        ELSE IF ~ tools THEN AppendTo(b, "content", Shown(part, thinking))
        ELSE ChatLetOut([b EXCEPT !.s.sieve = chunk.sieve], chunk)

-----------------------------------------------------------------------------
(* The end of an attempt *)

ChatFailed(s, code) == Send(Send(s, <<"error", code>>), <<"[DONE]">>)

Failed(s, code) ==
    [s |-> ChatFailed(s, code), over |-> TRUE, history |-> <<"error">>, stored |-> <<>>]

\* What the sieve still holds, or the calls that no event has told.
ChatRest(s, turn, tools) ==
    IF turn.calls # <<>> /\ ~ s.emitted THEN SendToolCalls(s, turn.calls)
    ELSE IF ~ tools THEN s
    ELSE [Flush(ChatLetOut(Batch(s), FlushSieve(s.sieve))).s EXCEPT !.sieve = EmptySieve]

ChatFinalize(s, req, filtered, defer) ==
    LET turn    == BuildTurn(s.acc, filtered, req.required, s.emitted)
        rest    == ChatRest(s, turn, req.tools)
        outcome == FinalizeTurn(turn, rest.emitted)
    IN  IF outcome.error = "none"
        THEN [s |-> Send(Send(rest, <<"finish", outcome.finish>>), <<"[DONE]">>),
              over |-> TRUE, history |-> <<"success">>, stored |-> <<>>]
        ELSE IF defer THEN Deferred(rest) ELSE Failed(rest, outcome.error)

\* A filter, or an error that upstream reports, ends the answer; text that
\* was shown before a filter stands.
ChatFiltered(s, how) ==
    \/ how = "failed"
    \/ how = "filtered" /\ BlankSoFar(s.acc)

\* Mutant: a filtered attempt is tried again.
ChatAttemptEnds_Retries(s, req, how, defer) ==
    ChatFinalize(s, req, ChatFiltered(s, how), defer)

ChatAttemptEnds(s, req, how, defer) ==
    ChatFinalize(s, req, ChatFiltered(s, how), defer /\ ~ ChatFiltered(s, how))

\* Mutant: a failed retry is not recorded.
ChatRetryFailed_Unrecorded(s) ==
    [s |-> ChatFailed(s, "error"), over |-> TRUE, history |-> <<>>, stored |-> <<>>]

ChatRetryFailed(s) == Failed(s, "error")

\* markContextCancelled: nothing is written to a caller who is gone.
ChatCancelled(s) ==
    [s |-> s, over |-> TRUE, history |-> <<"stopped">>, stored |-> <<>>]
=============================================================================
