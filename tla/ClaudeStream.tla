---------------------------- MODULE ClaudeStream ----------------------------
(***************************************************************************)
(* The stream of Claude Messages                                           *)
(* (internal/httpapi/claude/stream_runtime_*.go and the streaming half of  *)
(* handler_messages.go).  The answer is a row of content blocks, each      *)
(* started, filled and stopped under its index.                            *)
(***************************************************************************)
EXTENDS AnswerTurn

Closed == -1

NewClaudeStream ==
    [acc |-> NoParts, sieve |-> EmptySieve, wire |-> <<<<"message_start">>>>,
     emitted |-> FALSE, next |-> 0, thinking |-> Closed, text |-> Closed,
     textEmitted |-> FALSE]

-----------------------------------------------------------------------------
(* Content blocks *)

CloseThinkingBlock(s) ==
    IF s.thinking = Closed THEN s
    ELSE [Send(s, <<"stop", s.thinking>>) EXCEPT !.thinking = Closed]

CloseTextBlock(s) ==
    IF s.text = Closed THEN s
    ELSE [Send(s, <<"stop", s.text>>) EXCEPT !.text = Closed]

SendThinking(s, parts) ==
    LET t == IF s.thinking # Closed THEN s
             ELSE [Send(s, <<"start", s.next, "thinking">>)
                      EXCEPT !.thinking = s.next, !.next = @ + 1]
    IN  Send(t, <<"delta", t.thinking, parts>>)

SendText(s, parts) ==
    LET t == IF s.text # Closed THEN s
             ELSE [Send(s, <<"start", s.next, "text">>) EXCEPT !.text = s.next, !.next = @ + 1]
    IN  [Send(t, <<"delta", t.text, parts>>) EXCEPT !.textEmitted = TRUE]

SendToolUse(s, call) ==
    [Send(Send(Send(s, <<"start", s.next, "tool_use">>), <<"delta", s.next, <<call>>>>),
          <<"stop", s.next>>)
        EXCEPT !.next = @ + 1]

SendToolUses(s, calls) == FoldLeft(SendToolUse, s, calls)

\* Calls close the text before them, but not the thinking.
ClaudeCalls(s, calls) ==
    [SendToolUses(CloseTextBlock(s), calls) EXCEPT !.emitted = TRUE]

-----------------------------------------------------------------------------
(* onParsed: a part of a line.  A part of which nothing is visible, a      *)
(* complete tool block too, does not get to the sieve.                     *)

\* What the sieve lets out.
ClaudeLetOut(s, out) ==
    LET told == IF out.calls = <<>> THEN s ELSE ClaudeCalls(s, out.calls)
    IN  IF out.text = <<>> THEN told ELSE SendText(CloseThinkingBlock(told), out.text)

ClaudePart(stream, part, tools, thinking) ==
    LET s     == [stream EXCEPT !.acc = Apply(@, part, thinking)]
        shown == Shown(part, thinking)
        chunk == ProcessChunk(s.sieve, part)
    IN  CASE shown = <<>> -> s
          [] shown # <<>> /\ part.kind \in Thinking -> SendThinking(CloseTextBlock(s), shown)
          [] shown # <<>> /\ part.kind \notin Thinking /\ ~ tools ->
                SendText(CloseThinkingBlock(s), shown)
          [] OTHER -> ClaudeLetOut([s EXCEPT !.sieve = chunk.sieve], chunk)

-----------------------------------------------------------------------------
(* The end of an attempt *)

\* At the end text is let out beside a thinking block that is still open.
ClaudeFlush(s, out) ==
    LET told == IF out.calls = <<>> THEN s ELSE ClaudeCalls(s, out.calls)
    IN  IF out.text = <<>> THEN told ELSE SendText(told, out.text)

ClaudeError(s, code) ==
    [s |-> Send(s, <<"error", code>>), over |-> TRUE, history |-> <<"error">>, stored |-> <<>>]

\* What no event has told yet: the calls, or else the text.
ClaudeRest(s, turn, tools) ==
    CASE ~ tools \/ s.emitted -> s
      [] tools /\ ~ s.emitted /\ turn.calls # <<>> -> SendToolUses(s, turn.calls)
      [] tools /\ ~ s.emitted /\ turn.calls = <<>> /\ turn.text # <<>> /\ ~ s.textEmitted ->
            CloseTextBlock(SendText(s, Numbers(turn.text)))
      [] OTHER -> s

ClaudeSucceeds(s, turn, tools) ==
    LET rest   == ClaudeRest(CloseThinkingBlock(s), turn, tools)
        reason == IF turn.calls # <<>> \/ s.emitted THEN "tool_use" ELSE "end_turn"
    IN  [s |-> Send(Send(rest, <<"message_delta", reason>>), <<"message_stop">>),
         over |-> TRUE, history |-> <<"success">>, stored |-> <<>>]

ClaudeFinalize(s, req, defer) ==
    LET flushed == IF req.tools
                   THEN [ClaudeFlush(s, FlushSieve(s.sieve)) EXCEPT !.sieve = EmptySieve]
                   ELSE s
        closed  == CloseTextBlock(flushed)
        turn    == BuildTurn(closed.acc, FALSE, FALSE, closed.emitted)
        outcome == FinalizeTurn(turn, closed.emitted)
    IN  IF outcome.error = "none" THEN ClaudeSucceeds(closed, turn, req.tools)
        ELSE IF defer THEN Deferred(closed)
        ELSE ClaudeError(CloseThinkingBlock(closed), outcome.error)

\* A filter is the end of the answer like any other.
ClaudeAttemptEnds(s, req, how, defer) ==
    IF how \in {"failed", "broken"} THEN ClaudeError(s, how)
    ELSE ClaudeFinalize(s, req, defer)

\* The recording session is not told.
ClaudeRetryFailed(s) ==
    [s |-> Send(s, <<"error", "error">>), over |-> TRUE, history |-> <<>>, stored |-> <<>>]

\* A caller who is gone is a stream that has ended.
ClaudeCancelled(s, req, defer) == ClaudeFinalize(s, req, defer)
=============================================================================
