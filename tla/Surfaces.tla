------------------------------ MODULE Surfaces ------------------------------
(***************************************************************************)
(* One streamed answer on any of the four surfaces: the attempts, the      *)
(* retry and the account switch of ExecuteStreamWithRetry                  *)
(* (internal/completionruntime/stream_retry.go) around the surface's       *)
(* stream.  What the calls to upstream do is Completion's subject; here    *)
(* they succeed or fail, and upstream's lines are what matters.            *)
(***************************************************************************)
EXTENDS ChatStream, ResponsesStream, ClaudeStream, GeminiStream

CONSTANTS
    SurfaceNames, \* the surfaces that are asked
    Kinds,        \* kinds of parts that upstream sends
    MaxParts,     \* bound: parts over all attempts
    MaxLine,      \* bound: parts that the pump joins into one line
    RetryMax      \* EmptyOutputRetryMaxAttempts

ASSUME SurfacesAssumption ==
    /\ SurfaceNames \subseteq {"chat", "responses", "claude", "gemini"}
    /\ Kinds \subseteq {"thought", "plan", "text", "space", "held", "block", "head", "tail"}
    /\ {MaxParts, MaxLine, RetryMax} \subseteq Nat

VARIABLES
    req,     \* the request: its surface, whether it has tools, must call one,
             \* shows thinking, and is served by a managed account
    stream,  \* the surface's stream
    call,    \* ExecuteStreamWithRetry
    history, \* what the recording session was told at the end
    stored   \* responses put into the response store

vars == <<req, stream, call, history, stored>>

Requests ==
    {r \in [surface : SurfaceNames, tools : BOOLEAN, required : BOOLEAN,
            thinking : BOOLEAN, managed : BOOLEAN] :
        r.required => r.tools /\ r.surface \in {"chat", "responses"}}

NewStream(surface) ==
    CASE surface = "chat"      -> NewChatStream
      [] surface = "responses" -> NewResponsesStream
      [] surface = "claude"    -> NewClaudeStream
      [] surface = "gemini"    -> NewGeminiStream

Init ==
    /\ req \in Requests
    /\ stream = NewStream(req.surface)
    /\ call = [pc |-> "consuming", attempts |-> 0, switched |-> FALSE, from |-> 0,
               cancelled |-> FALSE, end |-> "none", parts |-> 0]
    /\ history = <<>> /\ stored = <<>>

-----------------------------------------------------------------------------
(* What upstream sends *)

\* A block's tail follows its head, in one attempt; after a head that was
\* left open no block is complete.
CanFollow(text, kind) ==
    LET open == Len(text) > call.from /\ Last(text).kind = "head"
        left == \E i \in 1 .. call.from : i = call.from /\ text[i].kind = "head"
    IN  /\ open => kind \in Thinking \cup {"tail"}
        /\ kind = "tail" => open
        /\ left => kind \notin {"head", "block"}

TextAfter(text, part) == IF part.kind \in Thinking THEN text ELSE Append(text, part)

\* The parts of a line: a thinking part comes only first, as the pump joins
\* text with text.
Lines ==
    {line \in UNION {[1 .. k -> Kinds] : k \in 1 .. MaxLine} :
        \A i \in 2 .. Len(line) : line[i] \notin Thinking}

Numbered(line) == [i \in DOMAIN line |-> Part(line[i], call.parts + i)]

Legal(line) ==
    \A i \in DOMAIN line :
        CanFollow(FoldLeft(TextAfter, stream.acc.text, SubSeq(Numbered(line), 1, i - 1)),
                  line[i])

OnPart(s, part) ==
    CASE req.surface = "chat"      -> ChatPart(s, part, req.tools, req.thinking)
      [] req.surface = "responses" -> ResponsesPart(s, part, req.tools, req.thinking)
      [] req.surface = "claude"    -> ClaudePart(s, part, req.tools, req.thinking)
      [] req.surface = "gemini"    -> GeminiPart(s, part, req.tools, req.thinking)

\* The OpenAI surfaces gather the deltas of a line in a batch.
LineBegins ==
    CASE req.surface = "chat"      -> Batch(stream)
      [] req.surface = "responses" -> Pending(stream)
      [] OTHER                     -> stream
LineEnds(s) ==
    CASE req.surface = "chat"      -> Flush(s).s
      [] req.surface = "responses" -> FlushPending(s).s
      [] OTHER                     -> s

OnParsed(parts) == LineEnds(FoldLeft(OnPart, LineBegins, parts))

ParsedLine(line) ==
    /\ call.pc = "consuming"
    /\ call.parts + Len(line) <= MaxParts
    /\ Legal(line)
    /\ stream' = OnParsed(Numbered(line))
    /\ call' = [call EXCEPT !.parts = @ + Len(line)]
    /\ UNCHANGED <<req, history, stored>>

-----------------------------------------------------------------------------
(* The end of an attempt *)

\* An attempt without output may be followed by another one.
AllowDefer ==
    \/ call.attempts < RetryMax
    \/ ~ call.switched /\ req.managed

EndOf(how, defer) ==
    CASE req.surface = "chat"      -> ChatAttemptEnds(stream, req, how, defer)
      [] req.surface = "responses" -> ResponsesAttemptEnds(stream, req, how, defer)
      [] req.surface = "claude"    -> ClaudeAttemptEnds(stream, req, how, defer)
      [] req.surface = "gemini"    -> GeminiAttemptEnds(stream, req, how, defer)

CancelOf(defer) ==
    CASE req.surface = "chat"      -> ChatCancelled(stream)
      [] req.surface = "responses" -> ResponsesCancelled(stream)
      [] req.surface = "claude"    -> ClaudeCancelled(stream, req, defer)
      [] req.surface = "gemini"    -> GeminiCancelled(stream, req, defer)

RetryFailedOf ==
    CASE req.surface = "chat"      -> ChatRetryFailed(stream)
      [] req.surface = "responses" -> ResponsesRetryFailed(stream)
      [] req.surface = "claude"    -> ClaudeRetryFailed(stream)
      [] req.surface = "gemini"    -> GeminiRetryFailed(stream)

Conclude(end, c) ==
    /\ stream' = end.s
    /\ history' = history \o end.history
    /\ stored' = stored \o end.stored
    /\ call' = [c EXCEPT !.pc = IF end.over THEN "returned" ELSE "deferred"]
    /\ UNCHANGED req

\* Upstream is done, breaks off, reports an error or filters its answer; a
\* stream that stays silent for too long counts as done.
AttemptEnds(how) ==
    /\ call.pc = "consuming"
    /\ Conclude(EndOf(how, AllowDefer), [call EXCEPT !.end = how])

ContextDone ==
    /\ call.pc = "consuming"
    /\ Conclude(CancelOf(AllowDefer), [call EXCEPT !.cancelled = TRUE])

LeaveBetweenAttempts ==
    /\ call.pc = "deferred" /\ ~ call.cancelled
    /\ call' = [call EXCEPT !.cancelled = TRUE]
    /\ UNCHANGED <<req, stream, history, stored>>

-----------------------------------------------------------------------------
(* The next attempt *)

NextAttempt(c) ==
    /\ ~ call.cancelled
    /\ call' = [c EXCEPT !.pc = "consuming", !.from = Len(stream.acc.text)]
    /\ UNCHANGED <<req, stream, history, stored>>

FailedAttempt(c) == Conclude(RetryFailedOf, c)

Retry ==
    /\ call.pc = "deferred" /\ call.attempts < RetryMax
    /\ LET c == [call EXCEPT !.attempts = @ + 1]
       IN  NextAttempt(c) \/ FailedAttempt(c)

Switch ==
    /\ call.pc = "deferred" /\ call.attempts >= RetryMax
    /\ req.managed /\ ~ call.switched
    /\ LET c == [call EXCEPT !.switched = TRUE]
       IN  NextAttempt(c) \/ FailedAttempt(c)

\* No account is left to switch to: the Finalize hook.
NoAccountLeft ==
    /\ call.pc = "deferred" /\ call.attempts >= RetryMax
    /\ Conclude(EndOf("closed", FALSE), call)

Next ==
    \/ \E line \in Lines : ParsedLine(line)
    \/ \E how \in {"closed", "broken", "filtered", "failed"} : AttemptEnds(how)
    \/ ContextDone
    \/ LeaveBetweenAttempts
    \/ Retry
    \/ Switch
    \/ NoAccountLeft

Spec == Init /\ [][Next]_vars

-----------------------------------------------------------------------------
(* What the caller was told *)

\* The places of some events on the wire.
At(names) == {k \in DOMAIN stream.wire : stream.wire[k][1] \in names}

Gather(Told(_)) == FoldLeft(LAMBDA told, event : told \o Told(event), <<>>, stream.wire)

\* The type of the content block of a delta.
IsDeltaOf(event, type) ==
    event[1] = "delta" /\ \E k \in At({"start"}) : stream.wire[k] = <<"start", event[2], type>>

TextToldBy(event) ==
    IF event[1] \in {"content", "text"} \/ IsDeltaOf(event, "text") THEN Last(event)
    ELSE IF event[1] = "parts" THEN event[2].text ELSE <<>>

ThinkingToldBy(event) ==
    IF event[1] \in {"reasoning", "thought"} \/ IsDeltaOf(event, "thinking") THEN Last(event)
    ELSE IF event[1] = "parts" THEN event[2].thought ELSE <<>>

CallsToldBy(event) ==
    CASE event[1] = "calls"     -> [i \in DOMAIN event[2] |-> event[2][i].n]
      [] event[1] = "args.done" -> <<event[3]>>
      [] event[1] = "parts"     -> event[2].calls
      [] event[1] = "delta" /\ IsDeltaOf(event, "tool_use") -> event[3]
      [] OTHER                  -> <<>>

TextTold == Gather(TextToldBy)
ThinkingTold == Gather(ThinkingToldBy)
CallsTold == Gather(CallsToldBy)

\* The events that end an answer, and those that end it well.
Ends == At({"finish", "completed", "message_stop", "failed", "error"})
TheEnd == stream.wire[CHOOSE k \in Ends : TRUE]
Succeeded == At({"finish", "completed", "message_stop"}) # {}

OpenAI == {"chat", "responses"}

\* The answer by what was received.  Without tools a block's halves are shown
\* as they come.  Gemini tells no text beside calls and no calls to a caller
\* without tools; nor does Claude, which tells blocks that arrived whole only
\* when it told no other.
AnswerCalls ==
    LET all  == DetectAssistantToolCalls(stream.acc)
        cut  == Numbers(OfKinds(stream.acc.text, {"tail"}))
    IN  CASE req.surface \in OpenAI -> all
          [] req.surface = "gemini" -> IF req.tools THEN all ELSE <<>>
          [] req.surface = "claude" ->
                IF ~ req.tools THEN <<>> ELSE IF cut # <<>> THEN cut ELSE all

AnswerText ==
    IF ~ req.tools
    THEN Numbers(SelectSeq(stream.acc.text, LAMBDA part : part.kind # "block"))
    ELSE IF req.surface = "gemini" /\ AnswerCalls # <<>> THEN <<>>
    ELSE Numbers(VisibleText(stream.acc.text))

-----------------------------------------------------------------------------
(* Properties *)

\* The types of the state; thinking is kept apart from the text.
TypeOK ==
    /\ req \in Requests
    /\ call.pc \in {"consuming", "deferred", "returned"}
    /\ call.attempts \in 0 .. RetryMax /\ call.switched \in BOOLEAN
    /\ call.parts \in 0 .. MaxParts /\ call.from \in 0 .. call.parts
    /\ ToSet(history) \subseteq {"success", "error", "stopped"}
    /\ {part.kind : part \in ToSet(stream.acc.text)} \subseteq Kinds \ Thinking

\* An answer ends with exactly one event that says so, after which nothing
\* but [DONE] is written, over the retry, the switch and every hook that may
\* end it.  A caller who leaves an OpenAI stream is told nothing more.
EndsOnce ==
    /\ Ends # {} => call.pc = "returned"
    /\ call.pc = "returned" => Ends # {} \/ (call.cancelled /\ req.surface \in OpenAI)
    /\ \A k \in Ends :
          IF req.surface \in OpenAI
          THEN k + 1 = Len(stream.wire) /\ stream.wire[k + 1] = <<"[DONE]">>
          ELSE k = Len(stream.wire)

\* What was sent is the answer so far, each part and each call once and in
\* order; a successful end leaves nothing out, and says that there are calls
\* just when there are.
SentIsTheAnswer ==
    /\ IsPrefix(TextTold, AnswerText)
    /\ IsPrefix(CallsTold, AnswerCalls)
    /\ IsPrefix(ThinkingTold, stream.acc.thinking)
    /\ Succeeded =>
          /\ TextTold = AnswerText
          /\ CallsTold = AnswerCalls
          /\ ThinkingTold = stream.acc.thinking
          /\ TheEnd[1] = "finish" /\ req.surface = "chat" =>
                (TheEnd[2] = "tool_calls") <=> (CallsTold # <<>>)
          /\ req.surface = "claude" /\ CallsTold # <<>> =>
                <<"message_delta", "tool_use">> = stream.wire[Len(stream.wire) - 1]
          /\ TheEnd[1] = "completed" =>
                /\ [i \in DOMAIN TheEnd[2].calls |-> TheEnd[2].calls[i].call] = CallsTold
                /\ TheEnd[2].text = TextTold

\* Text that is told after a call came after it: what the sieve and the
\* batches keep back is let out before the calls that follow it.
CallsFollowTheirText ==
    \A j, k \in DOMAIN stream.wire : j < k =>
        \A n \in ToSet(CallsToldBy(stream.wire[j])),
           text \in ToSet(TextToldBy(stream.wire[k])) : n < text

\* A caller who must get a call gets one or is told of the violation.
RequiredIsKept ==
    req.required /\ Succeeded => CallsTold # <<>>

\* What the caller is told is the answer, in its order, with what it asked for:
\* over sieve, batches, blocks and attempts nothing is lost, repeated or moved.
AnswerIsTold == SentIsTheAnswer /\ CallsFollowTheirText /\ RequiredIsKept

\* Claude's content blocks are numbered without a gap, written to and stopped
\* only while they are open, and all stopped before message_stop.
BlocksAreClosed ==
    LET starts == At({"start"})
        Open(i, k) ==
            /\ \E j \in starts : j < k /\ stream.wire[j][2] = i
            /\ \A j \in At({"stop"}) : j < k => stream.wire[j][2] # i
    IN  req.surface = "claude" =>
          /\ \A k \in starts : stream.wire[k][2] = Cardinality({j \in starts : j < k})
          /\ \A k \in At({"delta", "stop"}) : Open(stream.wire[k][2], k)
          /\ \A k \in At({"message_stop"}), j \in starts : ~ Open(stream.wire[j][2], k)

\* An output item of a response is added once and before anything is said of
\* it, text is written into a part that is open, and every item is done
\* before the response is completed.
ItemsAreAdded ==
    LET wire  == stream.wire
        About == {"part.added", "text", "text.done", "part.done", "item.done", "args.done"}
        Before(k, event) == \E j \in 1 .. k - 1 : wire[j] = event
        PartIsOpen(k) ==
            \E j \in At({"part.added"}) :
                /\ j < k /\ wire[j][2] = wire[k][2]
                /\ \A i \in At({"part.done"}) : i < k /\ wire[i][2] = wire[k][2] => i < j
    IN  req.surface = "responses" =>
          /\ \A j, k \in At({"item.added"}) : wire[j] = wire[k] => j = k
          /\ \A k \in At(About) : Before(k, <<"item.added", wire[k][2]>>)
          /\ \A k \in At({"text", "text.done", "part.done"}) : PartIsOpen(k)
          /\ \A k \in At({"part.added"}) : ~ PartIsOpen(k)
          /\ \A k \in At({"completed"}), j \in At({"item.added"}) :
                Before(k, <<"item.done", wire[j][2]>>)

\* No two calls of a chat answer have the same id, in whatever blocks and
\* events they came.
OwnCallIDs ==
    req.surface = "chat" =>
        \A j, k \in At({"calls"}) :
            \A a \in DOMAIN stream.wire[j][2], b \in DOMAIN stream.wire[k][2] :
                stream.wire[j][2][a].id = stream.wire[k][2][b].id => j = k /\ a = b

\* Each surface keeps the framing its clients parse by, across attempts.
FramingIsKept == BlocksAreClosed /\ ItemsAreAdded /\ OwnCallIDs

\* The recording session is closed at most once and with the end that the
\* caller was told of.  A failed retry of a Claude or Gemini answer and an
\* abandoned response leave it open.
RecordedAsTold ==
    LET told == IF Ends = {} THEN "stopped" ELSE IF Succeeded THEN "success" ELSE "error"
        forgotten ==
            \/ req.surface = "responses" /\ Ends = {}
            \/ req.surface \in {"claude", "gemini"} /\ TheEnd = <<"error", "error">>
    IN  history = IF call.pc # "returned" \/ forgotten THEN <<>> ELSE <<told>>

\* What can be fetched later is what the caller was told at the end, also
\* when it failed.
StoredAsTold ==
    stored = IF At({"completed", "failed"}) = {} THEN <<>> ELSE <<TheEnd>>

\* An answer has one end, and the caller, the history and the store agree on
\* it, whichever hook of whichever surface and attempt brought it about.
EndIsRecorded == TypeOK /\ EndsOnce /\ RecordedAsTold /\ StoredAsTold

\* An OpenAI answer that was filtered before anything was shown is not asked
\* for again.
FilteredIsFinal ==
    call.pc = "deferred" /\ req.surface \in OpenAI /\ call.end = "filtered" =>
        ~ BlankText(stream.acc.text)

\* Another attempt follows only when the caller has seen nothing but thinking
\* and blanks; a missing call is asked for again whatever was shown.
RetriedUnseen ==
    call.pc = "deferred" =>
        \A k \in DOMAIN stream.wire :
            /\ CallsToldBy(stream.wire[k]) = <<>>
            /\ req.required \/ \A n \in ToSet(TextToldBy(stream.wire[k])) :
                  Part("space", n) \in ToSet(stream.acc.text)

\* Another attempt neither repeats what was shown nor asks a filter again.
RetriedOnlyIfEmpty == FilteredIsFinal /\ RetriedUnseen
=============================================================================
