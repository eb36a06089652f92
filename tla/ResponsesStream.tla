-------------------------- MODULE ResponsesStream --------------------------
(***************************************************************************)
(* The stream of OpenAI Responses                                          *)
(* (internal/httpapi/openai/responses/responses_stream_runtime_*.go and    *)
(* empty_retry_runtime.go).                                                *)
(*                                                                         *)
(* The answer is a list of output items, one message and one item for each *)
(* call, that are added, filled and done one event at a time and listed    *)
(* again in response.completed.  An item's id is made together with its    *)
(* output index, so the index stands for both.                             *)
(***************************************************************************)
EXTENDS AnswerTurn

None == 0

NewResponsesStream ==
    [acc |-> NoParts, sieve |-> EmptySieve, wire |-> <<<<"created">>>>, emitted |-> FALSE,
     message |-> [out |-> None, added |-> FALSE, part |-> FALSE, text |-> <<>>],
     functions |-> <<>>,  \* output indices of the block's calls
     lastOut |-> None]

-----------------------------------------------------------------------------
(* Output items *)

EnsureMessageOutput(s) ==
    IF s.message.out # None THEN s
    ELSE [s EXCEPT !.lastOut = @ + 1, !.message.out = s.lastOut + 1]

\* Mutant: the item is added again for every part.
EnsureMessageAdded_Always(s) ==
    LET t == EnsureMessageOutput(s)
    IN  [Send(t, <<"item.added", t.message.out>>) EXCEPT !.message.added = TRUE]

EnsureMessageAdded(s) ==
    IF s.message.added THEN s
    ELSE LET t == EnsureMessageOutput(s)
         IN  [Send(t, <<"item.added", t.message.out>>) EXCEPT !.message.added = TRUE]

EnsurePartAdded(s) ==
    IF s.message.part THEN s
    ELSE LET t == EnsureMessageAdded(s)
         IN  [Send(t, <<"part.added", t.message.out>>) EXCEPT !.message.part = TRUE]

EmitText(s, parts) ==
    IF parts = <<>> THEN s
    ELSE LET t == EnsurePartAdded(s)
         IN  [Send(t, <<"text", t.message.out, parts>>) EXCEPT !.message.text = @ \o parts]

\* The part may be opened again; the item stays added.
CloseMessage(s) ==
    IF ~ s.message.added THEN s
    ELSE LET out == s.message.out
             t   == IF s.message.part
                    THEN Send(Send(s, <<"text.done", out, s.message.text>>), <<"part.done", out>>)
                    ELSE s
         IN  [Send(t, <<"item.done", out>>) EXCEPT !.message.part = FALSE]

\* emitFunctionCallDoneEvents: the call at position i of its block.
EmitCall(s, i, call) ==
    IF i <= Len(s.functions) THEN s
    ELSE LET out == s.lastOut + 1
         IN  [Send(Send(Send(s, <<"item.added", out>>), <<"args.done", out, call>>),
                   <<"item.done", out>>)
                 EXCEPT !.lastOut = out, !.functions = Append(@, out), !.emitted = TRUE]

EmitCallAt(s, at) == EmitCall(s, at[1], at[2])
EmitCalls(s, calls) == FoldLeft(EmitCallAt, s, [i \in DOMAIN calls |-> <<i, calls[i]>>])

\* resetStreamToolCallState
ResetFunctions(s) == [s EXCEPT !.functions = <<>>]

\* What the sieve lets out.
ResponsesLetOut(s, out) ==
    EmitText(IF out.calls = <<>> THEN s ELSE ResetFunctions(EmitCalls(s, out.calls)), out.text)

-----------------------------------------------------------------------------
(* onParsed: a part of a line.  responsesDeltaBatch joins neighbours; it   *)
(* begins a line empty and is flushed at its end.                          *)

Pending(s) == [s |-> s, field |-> "", parts |-> <<>>]

FlushPending(batch) ==
    IF batch.parts = <<>> THEN batch
    ELSE Pending(IF batch.field = "text" THEN EmitText(batch.s, batch.parts)
                 ELSE Send(batch.s, <<"reasoning", batch.parts>>))

AppendPending(batch, field, parts) ==
    IF parts = <<>> THEN batch
    ELSE LET b == IF batch.field = field THEN batch ELSE FlushPending(batch)
         IN  [b EXCEPT !.field = field, !.parts = @ \o parts]

ResponsesPart(batch, part, tools, thinking) ==
    LET b     == [batch EXCEPT !.s.acc = Apply(@, part, thinking)]
        t     == FlushPending(b).s
        chunk == ProcessChunk(t.sieve, part)
    IN  IF part.kind \in Thinking THEN AppendPending(b, "reasoning", Shown(part, thinking))
        ELSE IF ~ tools THEN AppendPending(b, "text", Shown(part, thinking))
        ELSE Pending(ResponsesLetOut([t EXCEPT !.sieve = chunk.sieve], chunk))

-----------------------------------------------------------------------------
(* The end of an attempt *)

\* buildCompletedResponseObject: the message, the reasoning when there are
\* calls but no message, and the calls, each at the index it has or gets.
CompletedItems(s, turn) ==
    LET bare    == ~ s.message.added /\ turn.calls # <<>> /\ turn.thinking # <<>>
        t       == IF bare THEN EnsureMessageOutput(s) ELSE s
        message == IF s.message.added \/ bare THEN <<t.message.out>> ELSE <<>>
        OutOf(i) == IF i <= Len(t.functions) THEN t.functions[i]
                    ELSE t.lastOut + i - Len(t.functions)
        calls   == [i \in DOMAIN turn.calls |-> [out |-> OutOf(i), call |-> turn.calls[i]]]
    IN  [message |-> message, calls |-> calls, text |-> s.message.text]

FailResponse(s, code) ==
    [s |-> Send(Send(s, <<"failed", code>>), <<"[DONE]">>), over |-> TRUE,
     history |-> <<"error">>, stored |-> <<<<"failed", code>>>>]

CompleteResponse(s, turn) ==
    LET completed == <<"completed", CompletedItems(s, turn)>>
    IN  [s |-> Send(Send(s, completed), <<"[DONE]">>), over |-> TRUE,
         history |-> <<"success">>, stored |-> <<completed>>]

\* The sieve is flushed and the message closed before it is known whether
\* the attempt fails.
ResponsesFinalize(s, req, filtered, defer) ==
    LET flushed == IF req.tools
                   THEN [ResponsesLetOut(s, FlushSieve(s.sieve)) EXCEPT !.sieve = EmptySieve]
                   ELSE s
        turn    == BuildTurn(s.acc, filtered, req.required, flushed.emitted)
        told    == IF flushed.emitted THEN flushed ELSE EmitCalls(flushed, turn.calls)
        closed  == CloseMessage(told)
        outcome == FinalizeTurn(turn, closed.emitted)
    IN  IF outcome.error = "none" THEN CompleteResponse(closed, turn)
        ELSE IF defer THEN Deferred(closed)
        ELSE FailResponse(closed, outcome.error)

\* A filter or an error of upstream is a filtered answer, whatever was shown.
ResponsesAttemptEnds(s, req, how, defer) ==
    LET filtered == how \in {"filtered", "failed"}
    IN  ResponsesFinalize(s, req, filtered, defer /\ ~ filtered)

ResponsesRetryFailed(s) == FailResponse(s, "error")

\* markContextCancelled: neither the recording session nor the store hears.
ResponsesCancelled(s) == [s |-> s, over |-> TRUE, history |-> <<>>, stored |-> <<>>]
=============================================================================
