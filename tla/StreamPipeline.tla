--------------------------- MODULE StreamPipeline ---------------------------
(***************************************************************************)
(* The way of a streamed answer from upstream to the handler: the          *)
(* continuation pump that splices continued rounds onto one pipe           *)
(* (internal/deepseek/client/client_continue.go), the reader and the       *)
(* coalescing line pump (internal/sse/stream.go), the consuming loop       *)
(* (internal/stream/engine.go) and what its handlers gather                *)
(* (internal/httpapi/openai/shared/stream_accumulator.go).                 *)
(*                                                                         *)
(* Four goroutines, joined by a pipe that holds nothing (a write waits for *)
(* its reader) and by two bounded channels, and stopped by the body's      *)
(* Close and by the request's context.                                     *)
(***************************************************************************)
EXTENDS AutoContinue, TLC

CONSTANTS
    Kinds,            \* what upstream may send; MakeLine says what each is
    MaxLines,         \* bound: lines that upstream sends in all rounds
    MaxRounds,        \* defaultAutoContinueLimit
    ScanCap, OutCap,  \* parsedLineBufferSize
    MinChars,         \* text that is sent on without waiting
    MaxKeepAliveNoInput, \* ticks without content before the engine gives up
    IdleTicks,        \* ticks after the last content before it gives up
    ThinkingEnabled,
    MayFail,          \* upstream's connections may break
    MayCancel         \* the caller may go away

ASSUME PipelineAssumption ==
    /\ {MaxLines, MaxRounds, MinSnapshot, IdleTicks} \subseteq Nat
    /\ {ScanCap, OutCap, MinChars, MaxKeepAliveNoInput} \subseteq Nat \ {0}
    /\ {ThinkingEnabled, MayFail, MayCancel} \subseteq BOOLEAN

VARIABLES
    sent,     \* every line that upstream has sent, over all rounds
    ac,       \* pumpAutoContinue
    pipe,     \* the io.Pipe between it and the reader
    reader,   \* the reading goroutine of the line pump
    scan,     \* scanCh, and what scanDone holds
    pump,     \* the parsing goroutine of the line pump
    out,      \* the channel of results, and what done holds
    engine,   \* ConsumeSSE with the handler's hooks
    request,  \* the handler: consuming, body closed, returned; and its context
    joined    \* history: a line repeated text that the line pump still held

vars == <<sent, ac, pipe, reader, scan, pump, out, engine, request, joined>>

-----------------------------------------------------------------------------
(* What upstream sends.  A token is a new one for every line. *)

Token(n) == <<"a", "b", "c", "d", "e", "f">>[n]

\* All answer text that was sent so far: a continuation may replay it.
SentText(lines) ==
    CollectStream(SelectSeq(lines, LAMBDA l : l.kind # "done"), ThinkingEnabled).text

MakeLine(kind, lines) ==
    LET new == <<Token(Len(lines) + 1)>>
    IN CASE kind = "opening"    -> Event("", "", Obj(<<>>, <<Fragment("THINK", new)>>,
                                          Len(lines) + 1, "WIP", FALSE))
         [] kind = "thought"    -> Event("response/thinking_content", "", Str(new))
         [] kind = "text"       -> Event("response/content", "", Str(new))
         [] kind = "more"       -> Event("", "", Str(new))
         [] kind = "unthink"    -> Event("", "", Str(new \o <<"</think>">> \o new))
         [] kind = "newline"    -> Event("response/content", "", Str(new \o <<"\n">>))
         [] kind = "answer"     -> Event("response/fragments", "APPEND",
                                      List(<<Fragment("RESPONSE", new)>>))
         [] kind = "incomplete" -> Event("response", "BATCH",
                                      List(<<Item("quasi_status", "SET", Str(<<"INCOMPLETE">>),
                                             "", <<>>)>>))
         [] kind = "finished"   -> Event("response/status", "", Str(<<"FINISHED">>))
         [] kind = "filtered"   -> [Event("", "", Nothing) EXCEPT !.code = "content_filter"]
         [] kind = "failed"     -> [Event("", "", Nothing) EXCEPT !.error = TRUE]
         [] kind = "replay"     -> Event("", "", Obj(<<>>,
                                      <<Fragment("RESPONSE", SentText(lines) \o new)>>,
                                      Len(lines) + 1, "WIP", FALSE))
         [] kind = "junk"       -> NoEvent
         [] kind = "done"       -> DoneLine

\* An answer opens first, nothing follows a round's [DONE], nothing but
\* [DONE] the end of the answer, and a replay comes first in a round that
\* continues an earlier one.
MaySend(kind) ==
    /\ ~ ac.hadDone
    /\ ac.over => kind = "done"
    /\ kind = "opening" <=> sent = <<>>
    /\ kind = "replay" => ac.rounds > 0 /\ ac.fresh /\ SentText(sent) # <<>>

-----------------------------------------------------------------------------
(* Initial states *)

Init ==
    /\ sent = <<>>
    /\ ac = [pc |-> "read", hadDone |-> FALSE, rounds |-> 0,
             over |-> FALSE, late |-> FALSE, fresh |-> TRUE, state |-> FreshContinueState]
    /\ pipe = [data |-> <<>>, writer |-> "open", reader |-> "open"]
    /\ reader = [pc |-> "read"]
    /\ scan = [lines |-> <<>>, closed |-> FALSE, result |-> <<>>]
    /\ pump = [pc |-> "select", type |-> InitialType(ThinkingEnabled), text |-> <<>>,
               thinking |-> <<>>, detection |-> <<>>, id |-> 0, timer |-> FALSE,
               draining |-> FALSE, sending |-> <<>>, error |-> FALSE]
    /\ out = [results |-> <<>>, closed |-> FALSE, error |-> FALSE]
    /\ engine = [reason |-> "none", error |-> FALSE, hasContent |-> FALSE,
                 keepAlives |-> 0, idle |-> 0, id |-> 0, delivered |-> <<>>,
                 rawText |-> <<>>, rawThinking |-> <<>>, rawDetection |-> <<>>]
    /\ request = [pc |-> "consuming", cancelled |-> FALSE]
    /\ joined = FALSE

-----------------------------------------------------------------------------
(* pumpAutoContinue *)

CloseWriter(error) ==
    /\ ac' = [ac EXCEPT !.pc = "end"]
    /\ pipe' = [pipe EXCEPT !.writer = IF error THEN "failed" ELSE "closed"]

AtAC(pc) == ac.pc = pc /\ pipe.data = <<>>

\* streamBodyWithContinueState reads a line: [DONE] is held back, other
\* events are observed and written to the pipe, where a write waits until
\* the reader has taken it.  The context is looked at before every line.
StreamLine(kind, line) ==
    /\ sent' = Append(sent, line)
    /\ ac' = CASE line.kind = "done" -> [ac EXCEPT !.late = FALSE, !.hadDone = TRUE]
               [] line.kind = "data" ->
                    [ac EXCEPT !.late = FALSE, !.state = Observe(@, line), !.fresh = FALSE,
                               !.over = kind \in {"finished", "filtered", "failed"}]
               [] OTHER -> [ac EXCEPT !.late = FALSE]
    /\ pipe' = IF line.kind = "done" THEN pipe ELSE [pipe EXCEPT !.data = <<line>>]

AutoContinueRead(kind) ==
    /\ AtAC("read") /\ (request.cancelled => ac.late) /\ pipe.reader = "open"
    /\ Len(sent) < MaxLines /\ MaySend(kind)
    /\ StreamLine(kind, MakeLine(kind, sent))
    /\ UNCHANGED <<reader, scan, pump, out, engine, request, joined>>

\* A write that waits, or is begun with the next line that comes, fails
\* once the body is closed.
AutoContinueWriteFails ==
    /\ pipe.reader = "closed" /\ (pipe.data # <<>> \/ ac.pc = "read") /\ ac.pc # "end"
    /\ ac' = [ac EXCEPT !.pc = "end"]
    /\ pipe' = [pipe EXCEPT !.writer = "failed", !.data = <<>>]
    /\ UNCHANGED <<sent, reader, scan, pump, out, engine, request, joined>>

\* The round's body ends.  hadDone is of the round that ended.
AutoContinueRoundEnds ==
    /\ AtAC("read")
    /\ IF ShouldContinue(ac.state) /\ ac.rounds < MaxRounds
       THEN /\ ac' = [ac EXCEPT !.pc = "open", !.rounds = @ + 1]
            /\ UNCHANGED pipe
       ELSE IF ac.hadDone
       THEN /\ ac' = [ac EXCEPT !.pc = "ended"]
            /\ pipe' = [pipe EXCEPT !.data = <<DoneLine>>]
       ELSE CloseWriter(FALSE)
    /\ UNCHANGED <<sent, reader, scan, pump, out, engine, request, joined>>

\* The last [DONE] has been written.
AutoContinueEnds ==
    /\ AtAC("ended")
    /\ CloseWriter(FALSE)
    /\ UNCHANGED <<sent, reader, scan, pump, out, engine, request, joined>>

\* callContinue succeeds.
AutoContinueOpen ==
    /\ AtAC("open") /\ ~ request.cancelled
    /\ ac' = [ac EXCEPT !.pc = "read", !.hadDone = FALSE, !.fresh = TRUE,
                        !.state = PrepareForNextRound(@)]
    /\ UNCHANGED <<sent, pipe, reader, scan, pump, out, engine, request, joined>>

\* The connection breaks, the continue call fails, or the context is done.
AutoContinueFails ==
    /\ AtAC("read") \/ AtAC("open")
    /\ MayFail \/ request.cancelled
    /\ CloseWriter(TRUE)
    /\ UNCHANGED <<sent, reader, scan, pump, out, engine, request, joined>>

AutoContinueStep ==
    \/ (pipe.data # <<>> /\ AutoContinueWriteFails) \/ AutoContinueEnds
    \/ (request.cancelled /\ AutoContinueFails)

-----------------------------------------------------------------------------
(* The reading goroutine of startParsedLinePumpWithConfig *)

\* scanCh is closed, and scanDone told.
ReaderEnds(error) ==
    /\ scan' = [scan EXCEPT !.closed = TRUE, !.result = <<error>>]
    /\ reader' = [reader EXCEPT !.pc = "end"]

\* ReadBytes takes the next line; the select between scanCh and the context
\* passes it on when there is room, or drops it when the context is done.
\* (A line that waits for room is left in the pipe's slot.)
ReaderLine ==
    /\ reader.pc = "read" /\ pipe.reader = "open" /\ pipe.data # <<>>
    /\ \/ /\ Len(scan.lines) < ScanCap
          /\ scan' = [scan EXCEPT !.lines = Append(@, pipe.data[1])]
          /\ UNCHANGED reader
       \/ /\ request.cancelled
          /\ ReaderEnds(TRUE)
    /\ pipe' = [pipe EXCEPT !.data = <<>>]
    /\ UNCHANGED <<sent, ac, pump, out, engine, request, joined>>

\* ReadBytes meets the end of the pipe, or the closed body.
ReaderEOF ==
    /\ reader.pc = "read"
    /\ pipe.reader = "closed" \/ (pipe.data = <<>> /\ pipe.writer # "open")
    /\ ReaderEnds(pipe.reader = "closed" \/ pipe.writer = "failed")
    /\ UNCHANGED <<sent, ac, pipe, pump, out, engine, request, joined>>

ReaderStep == ReaderLine \/ ReaderEOF

-----------------------------------------------------------------------------
(* The line pump.  Results wait in "sending" for the channel. *)

Buffered(p) == p.text # <<>> \/ p.thinking # <<>> \/ p.detection # <<>>

\* Mutant: the answer before the thinking that came first.
FlushBuffer_TextFirst(p) ==
    IF Buffered(p)
    THEN [p EXCEPT !.thinking = <<>>, !.text = <<>>, !.detection = <<>>, !.id = 0,
                   !.timer = FALSE, !.sending = Append(@,
            [Ignored(p.type) EXCEPT !.parsed = TRUE, !.id = p.id,
                !.parts = AddPart(AddPart(<<>>, p.text, "text"), p.thinking, "thinking"),
                !.detection = AddPart(<<>>, p.detection, "thinking")])]
    ELSE [p EXCEPT !.timer = FALSE]

\* flushBuffer(true): thinking before text, and one part of the detection's.
FlushBuffer(p) ==
    LET parts   == AddPart(AddPart(<<>>, p.thinking, "thinking"), p.text, "text")
        flushed == [Ignored(p.type) EXCEPT !.parsed = TRUE, !.parts = parts, !.id = p.id,
                       !.detection = AddPart(<<>>, p.detection, "thinking")]
    IN  IF Buffered(p)
        THEN [p EXCEPT !.thinking = <<>>, !.text = <<>>, !.detection = <<>>, !.id = 0,
                       !.timer = FALSE, !.sending = Append(@, flushed)]
        ELSE [p EXCEPT !.timer = FALSE]

\* Thinking never overtakes text, and a line break is sent on at once.
BufferPart(p, part) ==
    IF part.type = "thinking"
    THEN LET q == IF p.text = <<>> THEN p ELSE FlushBuffer(p)
         IN  [q EXCEPT !.thinking = @ \o part.text]
    ELSE LET q == [p EXCEPT !.text = @ \o part.text]
         IN  IF Contains(part.text, "\n") THEN FlushBuffer(q) ELSE q

BufferDetection(p, parts) ==
    [p EXCEPT !.detection = FoldLeft(LAMBDA acc, part : acc \o part.text, @, parts)]

\* A stop flushes, and is sent on with the message id that is still held;
\* an error or a filtered answer is sent on as it was parsed.
SendStop(held, result) ==
    LET stopped == [Ignored(held.type) EXCEPT !.parsed = TRUE, !.stop = TRUE, !.id = held.id]
    IN  IF result.error \/ result.filtered
        THEN [held EXCEPT !.sending = Append(@, result)]
        ELSE [held EXCEPT !.sending = Append(@, stopped), !.id = 0]

ProcessStop(p, result) == SendStop(FlushBuffer(p), result)

SetTimer(p) == [p EXCEPT !.timer = @ \/ Buffered(p)]

FlushLong(p) == IF Len(p.text) >= MinChars THEN FlushBuffer(p) ELSE p

ProcessContent(p, result) ==
    SetTimer(FlushLong(FoldLeft(BufferPart, BufferDetection(p, result.detection), result.parts)))

ProcessResult(p, result) ==
    LET noted == [p EXCEPT !.type = result.type, !.id = IF result.id > 0 THEN result.id ELSE @]
    IN IF result.stop THEN ProcessStop(noted, result)
       ELSE IF ~ result.parsed THEN noted
       ELSE ProcessContent(noted, result)

ProcessLine(p, line) ==
    ProcessResult(p, ParseDeepSeekContentLine(line, ThinkingEnabled, p.type))

Sending(p) == [p EXCEPT !.pc = IF p.sending = <<>> THEN @ ELSE "send"]

PumpCloses(p) ==
    /\ pump' = [p EXCEPT !.pc = "end"]
    /\ out' = [out EXCEPT !.closed = TRUE, !.error = p.error]

\* The line's content repeats text that waits in the pump's buffer.
RepeatsHeld(p, line) ==
    LET parts == ParseDeepSeekContentLine(line, ThinkingEnabled, p.type).parts
    IN  \E i \in 1 .. Len(parts) :
            parts[i].type = "text" /\ Range(parts[i].text) \cap Range(p.text) # {}

\* A line, while the reader goes on or, once it has ended, from the rest.
PumpLine ==
    /\ pump.pc = "select" /\ scan.lines # <<>>
    /\ pump' = Sending(ProcessLine(pump, Head(scan.lines)))
    /\ scan' = [scan EXCEPT !.lines = Tail(@)]
    /\ joined' = (joined \/ RepeatsHeld(pump, Head(scan.lines)))
    /\ UNCHANGED <<sent, ac, pipe, reader, out, engine, request>>

\* scanDone is received before the lines are: they are still taken.
PumpReaderEnded ==
    /\ pump.pc = "select" /\ ~ pump.draining /\ scan.result # <<>>
    /\ pump' = [pump EXCEPT !.draining = TRUE, !.error = @ \/ scan.result[1]]
    /\ UNCHANGED <<sent, ac, pipe, reader, scan, out, engine, request, joined>>

\* The last flush; then done is told, and the channel closed.
PumpEnds(p) ==
    LET flushed == FlushBuffer(p)
    IN  IF flushed.sending # <<>>
        THEN pump' = [flushed EXCEPT !.pc = "lastsend"] /\ UNCHANGED out
        ELSE PumpCloses(flushed)

\* Mutant: what scanDone holds is not looked at.
PumpNoMoreLines_NoError ==
    /\ pump.pc = "select" /\ scan.closed /\ scan.lines = <<>>
    /\ PumpEnds(pump)
    /\ UNCHANGED <<sent, ac, pipe, reader, scan, engine, request, joined>>

\* scanCh is closed and empty; unless it is being drained scanDone is awaited.
PumpNoMoreLines ==
    /\ pump.pc = "select" /\ scan.closed /\ scan.lines = <<>>
    /\ PumpEnds([pump EXCEPT !.error = @ \/ scan.result[1]])
    /\ UNCHANGED <<sent, ac, pipe, reader, scan, engine, request, joined>>

PumpMaxWait ==
    /\ pump.pc = "select" /\ ~ pump.draining /\ pump.timer
    /\ pump' = Sending(FlushBuffer(pump))
    /\ UNCHANGED <<sent, ac, pipe, reader, scan, out, engine, request, joined>>

PumpContextDone ==
    /\ pump.pc = "select" /\ ~ pump.draining /\ request.cancelled
    /\ PumpEnds([pump EXCEPT !.error = TRUE])
    /\ UNCHANGED <<sent, ac, pipe, reader, scan, engine, request, joined>>

\* A send waits for room, or drops the result when the context is done; a
\* stop that is dropped ends the pump.
PumpSend ==
    /\ pump.pc = "send"
    /\ LET rest == [pump EXCEPT !.sending = Tail(@),
                        !.pc = IF Len(pump.sending) = 1 THEN "select" ELSE @]
       IN  \/ /\ Len(out.results) < OutCap
              /\ out' = [out EXCEPT !.results = Append(@, Head(pump.sending))]
              /\ pump' = rest
           \/ /\ request.cancelled
              /\ LET failed == [rest EXCEPT !.error = TRUE]
                 IN  IF Head(pump.sending).stop THEN PumpEnds(failed)
                     ELSE pump' = failed /\ UNCHANGED out
    /\ UNCHANGED <<sent, ac, pipe, reader, scan, engine, request, joined>>

PumpSendLast ==
    /\ pump.pc = "lastsend"
    /\ LET rest == [pump EXCEPT !.sending = <<>>, !.pc = "end"]
       IN  \/ /\ Len(out.results) < OutCap
              /\ out' = [results |-> Append(out.results, Head(pump.sending)),
                          closed |-> TRUE, error |-> pump.error]
              /\ pump' = rest
           \/ /\ request.cancelled
              /\ PumpCloses([rest EXCEPT !.error = TRUE])
    /\ UNCHANGED <<sent, ac, pipe, reader, scan, engine, request, joined>>

PumpStep ==
    \/ PumpLine \/ PumpReaderEnded \/ PumpNoMoreLines \/ PumpMaxWait
    \/ PumpContextDone \/ PumpSend \/ PumpSendLast

-----------------------------------------------------------------------------
(* ConsumeSSE *)

Consuming == engine.reason = "none"

Finalize(reason, error) ==
    engine' = [engine EXCEPT !.reason = reason, !.error = error]

\* Flattened: every token with its type, as the handler sees them.
Flatten(parts) ==
    FlattenSeq([i \in 1 .. Len(parts) |->
        [j \in 1 .. Len(parts[i].text) |-> <<parts[i].text[j], parts[i].type>>]])

\* Mutant: what a continuation repeats is gathered again.
Accumulate_NoTrim(e, result) ==
    FoldLeft(LAMBDA acc, p : IF p.type = "thinking" THEN [acc EXCEPT !.rawThinking = @ \o p.text]
                             ELSE [acc EXCEPT !.rawText = @ \o p.text],
             e, result.parts)

\* StreamAccumulator.Apply, the raw texts.
Accumulate(e, result) ==
    LET AddRaw(acc, p) ==
            IF p.type = "thinking"
            THEN [acc EXCEPT !.rawThinking = @ \o TrimContinuationOverlap(@, p.text)]
            ELSE [acc EXCEPT !.rawText = @ \o TrimContinuationOverlap(@, p.text)]
        noted == [e EXCEPT !.rawDetection = FoldLeft(
                     LAMBDA t, p : t \o TrimContinuationOverlap(t, p.text), @, result.detection)]
    IN  FoldLeft(AddRaw, noted, result.parts)

ContentSeen(e, f) == e.rawText # f.rawText \/ e.rawThinking # f.rawThinking

\* OnParsed: the id is kept, a stop ends the stream, content is gathered.
OnParsed(result) ==
    LET noted == [engine EXCEPT !.id = IF result.id > 0 THEN result.id ELSE @]
        added == Accumulate([noted EXCEPT !.delivered = @ \o Flatten(result.parts)], result)
        empty == engine.rawText = <<>>
    IN  IF result.error \/ (result.filtered /\ empty)
        THEN [noted EXCEPT !.reason = "content_filter"]
        ELSE IF result.stop THEN [noted EXCEPT !.reason = "handler_requested"]
        ELSE IF ContentSeen(noted, added)
        THEN [added EXCEPT !.hasContent = TRUE, !.keepAlives = 0, !.idle = 0]
        ELSE added

EngineParsed ==
    /\ Consuming /\ ~ request.cancelled /\ out.results # <<>>
    /\ engine' = OnParsed(Head(out.results))
    /\ out' = [out EXCEPT !.results = Tail(@)]
    /\ UNCHANGED <<sent, ac, pipe, reader, scan, pump, request, joined>>

\* The channel is closed and empty: done has the pump's error.
EngineCompleted ==
    /\ Consuming /\ ~ request.cancelled /\ out.results = <<>> /\ out.closed
    /\ Finalize("upstream_completed", out.error)
    /\ UNCHANGED <<sent, ac, pipe, reader, scan, pump, out, request, joined>>

\* Mutant: a keep-alive restarts the count that ends a silent stream.
EngineTick_Restarts ==
    /\ Consuming /\ ~ request.cancelled
    /\ engine' = [engine EXCEPT !.keepAlives = 1 - @]
    /\ UNCHANGED <<sent, ac, pipe, reader, scan, pump, out, request, joined>>

EngineTick ==
    /\ Consuming /\ ~ request.cancelled
    /\ IF ~ engine.hasContent
       THEN IF engine.keepAlives + 1 >= MaxKeepAliveNoInput
            THEN Finalize("no_content_timeout", FALSE)
            ELSE engine' = [engine EXCEPT !.keepAlives = @ + 1]
       ELSE IF engine.idle >= IdleTicks
       THEN Finalize("idle_timeout", FALSE)
       ELSE engine' = [engine EXCEPT !.idle = @ + 1]
    /\ UNCHANGED <<sent, ac, pipe, reader, scan, pump, out, request, joined>>

EngineContextDone ==
    /\ Consuming /\ request.cancelled
    /\ Finalize("context_cancelled", FALSE)
    /\ UNCHANGED <<sent, ac, pipe, reader, scan, pump, out, request, joined>>

EngineStep == EngineParsed \/ EngineCompleted \/ EngineTick \/ EngineContextDone

-----------------------------------------------------------------------------
(* The handler *)

\* The attempt is over: its body is closed.
CloseBody ==
    /\ request.pc = "consuming" /\ ~ Consuming
    /\ pipe' = [pipe EXCEPT !.reader = "closed"]
    /\ request' = [request EXCEPT !.pc = "closed"]
    /\ UNCHANGED <<sent, ac, reader, scan, pump, out, engine, joined>>

\* The context is done.  A line that is being waited for may still come.
Cancel == ac' = [ac EXCEPT !.late = AtAC("read")]

\* The handler returns, and the server cancels the request's context.
HandlerReturns ==
    /\ request.pc = "closed"
    /\ request' = [pc |-> "returned", cancelled |-> TRUE]
    /\ IF request.cancelled THEN UNCHANGED ac ELSE Cancel
    /\ UNCHANGED <<sent, pipe, reader, scan, pump, out, engine, joined>>

CallerGoesAway ==
    /\ MayCancel /\ Consuming /\ ~ request.cancelled
    /\ request' = [request EXCEPT !.cancelled = TRUE]
    /\ Cancel
    /\ UNCHANGED <<sent, pipe, reader, scan, pump, out, engine, joined>>

HandlerStep == CloseBody \/ HandlerReturns

-----------------------------------------------------------------------------
AllEnded ==
    /\ ac.pc = "end" /\ reader.pc = "end" /\ pump.pc = "end"
    /\ request.pc = "returned"

Done == AllEnded /\ UNCHANGED vars

UpstreamStep ==
    \/ \E kind \in Kinds : AutoContinueRead(kind)
    \/ AutoContinueRoundEnds \/ AutoContinueOpen \/ AutoContinueFails

Next ==
    \/ UpstreamStep \/ AutoContinueStep \/ ReaderStep \/ PumpStep
    \/ EngineStep \/ HandlerStep \/ CallerGoesAway \/ Done

\* When the steps of the program's own goroutines can be taken.
AutoContinueCan ==
    \/ pipe.reader = "closed" /\ pipe.data # <<>> /\ ac.pc # "end"
    \/ AtAC("ended")
    \/ request.cancelled /\ (AtAC("read") \/ AtAC("open"))

ReaderCan ==
    /\ reader.pc = "read"
    /\ \/ pipe.reader = "closed"
       \/ pipe.data = <<>> /\ pipe.writer # "open"
       \/ pipe.data # <<>> /\ (Len(scan.lines) < ScanCap \/ request.cancelled)

PumpCan ==
    \/ /\ pump.pc = "select"
       /\ \/ scan.lines # <<>> \/ scan.closed
          \/ ~ pump.draining /\ (pump.timer \/ request.cancelled)
    \/ pump.pc \in {"send", "lastsend"} /\ (Len(out.results) < OutCap \/ request.cancelled)

\* Weak fairness of every goroutine of the program; upstream may hang for
\* ever, and the caller need never go away.  (Written out with the guards
\* above, which say when the steps are enabled.)  The ticker ticks.
Fairness ==
    /\ <>[]AutoContinueCan => []<><<AutoContinueStep>>_vars
    /\ <>[]ReaderCan => []<><<ReaderStep>>_vars
    /\ <>[]PumpCan => []<><<PumpStep>>_vars
    /\ <>[](Consuming /\ ~ request.cancelled) => []<><<EngineTick>>_vars
    /\ <>[]Consuming => []<><<EngineStep>>_vars
    /\ WF_vars(HandlerStep)

Spec == Init /\ [][Next]_vars /\ Fairness

-----------------------------------------------------------------------------
(* Properties *)

\* What the events sent so far say, parsed one by one, up to a stop.
ReceivedResult(r, result) ==
    [type |-> result.type, stopped |-> result.stop,
     content |-> r.content \o Flatten(result.parts),
     id |-> IF result.id > 0 THEN result.id ELSE r.id]

Received ==
    LET Step(r, line) ==
            IF r.stopped \/ line.kind = "done" THEN r
            ELSE ReceivedResult(r, ParseDeepSeekContentLine(line, ThinkingEnabled, r.type))
    IN  FoldLeft(Step, [type |-> InitialType(ThinkingEnabled), stopped |-> FALSE,
                        content |-> <<>>, id |-> 0], sent)

\* The stream came to its own end, and nothing broke on the way.
EndedWell ==
    \/ engine.reason \in {"handler_requested", "content_filter"}
    \/ engine.reason = "upstream_completed" /\ ~ engine.error

TypeOK ==
    /\ Len(sent) <= MaxLines /\ Len(scan.lines) <= ScanCap /\ Len(out.results) <= OutCap
    /\ ac.pc \in {"read", "open", "ended", "end"} /\ ac.rounds \in 0 .. MaxRounds
    /\ pipe.writer \in {"open", "closed", "failed"} /\ pipe.reader \in {"open", "closed"}
    /\ reader.pc \in {"read", "end"}
    /\ pump.pc \in {"select", "send", "lastsend", "end"}
    /\ pump.type \in {"text", "thinking"}
    /\ engine.reason \in {"none", "content_filter", "handler_requested", "upstream_completed",
                          "no_content_timeout", "idle_timeout", "context_cancelled"}
    /\ request.pc \in {"consuming", "closed", "returned"} /\ request.cancelled \in BOOLEAN

DeliveredOf(content) ==
    /\ IsPrefix(engine.delivered, content)
    /\ EndedWell => engine.delivered = content

\* The handler sees the content in the order it was sent, with the types the
\* parser gives it, none twice and none left out in between: coalescing in
\* the pump, the two channels and the splicing of rounds change nothing.
\* An answer that ended by itself is complete: what was still buffered when
\* the stop, the last [DONE] or the end of the stream came was sent on first.
DeliveredInOrder == TypeOK /\ DeliveredOf(Received.content)

IsGathered(whole) ==
    /\ engine.rawText = whole.text
    /\ engine.rawThinking = whole.thinking
    /\ engine.rawDetection = whole.detection

DeliveredAs(type) ==
    LET ofType == SelectSeq(engine.delivered, LAMBDA p : p[2] = type)
    IN  [i \in 1 .. Len(ofType) |-> ofType[i][1]]

\* A streamed answer is the one that CollectStream gathers from the same
\* events, after both have removed what a continuation repeated.  The one
\* exception: a continuation may arrive while the pump still holds the end of
\* the text before it (a slow consumer blocks the pump).  The two are then
\* coalesced, the overlap is no prefix any more, and the handler keeps the
\* repeated text; but it keeps all that was sent, and its thinking is exact.
StreamingMatchesCollect ==
    EndedWell =>
        LET whole == CollectStream(SelectSeq(sent, LAMBDA l : l.kind # "done"), ThinkingEnabled)
        IN  IsGathered(IF joined THEN [whole EXCEPT !.text = DeliveredAs("text")] ELSE whole)

\* At a stop the handler knows the id of the last message, which a retry
\* names as its parent.
StopKeepsMessageID == engine.reason = "handler_requested" => engine.id = Received.id

\* The [DONE] of a round that is continued is never seen downstream: one that
\* is, is the last line of all.
DoneIsLast ==
    \A i \in 1 .. Len(scan.lines) :
        scan.lines[i].kind = "done" => i = Len(scan.lines) /\ ac.pc \in {"ended", "end"}

\* A stream that broke off, or whose continuation failed, does not look like
\* one that ended: the pump's error reaches the engine with the end.
BreakIsReported ==
    engine.reason = "upstream_completed" /\ ~ engine.error => pipe.writer = "closed"

\* The handler is told the end as it was, however rounds, buffers and channels
\* lie between: a break is one, the end of a round is none, and a stop comes
\* with the id of the message that it ends.
EndIsToldAsItWas == StopKeepsMessageID /\ DoneIsLast /\ BreakIsReported

\* Whatever upstream and the caller do, the handler returns, and the three
\* goroutines of the stream end with it.
EveryGoroutineEnds == <>AllEnded
=============================================================================
