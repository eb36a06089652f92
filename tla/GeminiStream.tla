---------------------------- MODULE GeminiStream ----------------------------
(***************************************************************************)
(* The stream of Gemini generateContent                                    *)
(* (internal/httpapi/gemini/handler_stream_runtime.go).  With tools the    *)
(* whole answer is one chunk at the end.                                   *)
(***************************************************************************)
EXTENDS AnswerTurn

NewGeminiStream ==
    [acc |-> NoParts, wire |-> <<>>, filtered |-> FALSE]

GeminiPart(stream, part, tools, thinking) ==
    LET s     == [stream EXCEPT !.acc = Apply(@, part, thinking)]
        shown == Shown(part, thinking)
    IN  IF tools \/ shown = <<>> THEN s
        ELSE Send(s, <<IF part.kind \in Thinking THEN "thought" ELSE "text", shown>>)

\* buildGeminiPartsFromTurn: calls take the place of the text.
PartsFromTurn(turn) ==
    [thought |-> turn.thinking,
     calls   |-> turn.calls,
     text    |-> IF turn.calls = <<>> THEN Numbers(turn.text) ELSE <<>>]

GeminiError(s, code) == Send(s, <<"error", code>>)

GeminiSucceeds(s, turn, tools) ==
    LET told == IF tools THEN Send(s, <<"parts", PartsFromTurn(turn)>>) ELSE s
    IN  [s |-> Send(told, <<"finish", "STOP">>), over |-> TRUE,
         history |-> <<"success">>, stored |-> <<>>]

GeminiFinalize(s, req, defer) ==
    LET turn    == BuildTurn(s.acc, s.filtered, FALSE, FALSE)
        outcome == FinalizeTurn(turn, FALSE)
    IN  IF outcome.error = "none" THEN GeminiSucceeds(s, turn, req.tools)
        ELSE IF defer THEN Deferred(s)
        ELSE [s |-> GeminiError(s, outcome.error), over |-> TRUE,
              history |-> <<"error">>, stored |-> <<>>]

\* A filter is remembered, over all attempts; an error of upstream is not.
GeminiAttemptEnds(s, req, how, defer) ==
    GeminiFinalize([s EXCEPT !.filtered = @ \/ how = "filtered"], req, defer)

\* The recording session is not told.
GeminiRetryFailed(s) ==
    [s |-> GeminiError(s, "error"), over |-> TRUE, history |-> <<>>, stored |-> <<>>]

\* A caller who is gone is a stream that has ended.
GeminiCancelled(s, req, defer) == GeminiFinalize(s, req, defer)
=============================================================================
