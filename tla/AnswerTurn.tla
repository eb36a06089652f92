----------------------------- MODULE AnswerTurn -----------------------------
(***************************************************************************)
(* What the streaming handlers of all surfaces share: the accumulator      *)
(* (internal/httpapi/openai/shared/stream_accumulator.go), the tool sieve  *)
(* by what it lets out when (internal/toolstream; ToolSieve has the whole  *)
(* of it), and the turn that the answer amounts to                         *)
(* (internal/assistantturn/turn.go).                                       *)
(*                                                                         *)
(* A part of an answer is abstracted to its kind and a number:             *)
(*   thought, plan   thinking; a plan holds a complete tool block          *)
(*   text, space     visible text, blank text                              *)
(*   held            text that may begin a tag, which the sieve keeps back *)
(*   block           a complete tool block within one part                 *)
(*   head, tail      a tool block cut in two                               *)
(* The calls of a block are one call, with the number of the part that     *)
(* completes the block.                                                    *)
(*                                                                         *)
(* A stream's state is a record: what was received (acc), the sieve, the   *)
(* events written so far (wire), and what the protocol's framing needs.    *)
(* An attempt ends with a record of the stream, whether its last event is  *)
(* written (over), and what the recording session and the response store   *)
(* were told.                                                              *)
(***************************************************************************)
EXTENDS SequencesExt, FiniteSets, Integers

Part(kind, n) == [kind |-> kind, n |-> n]
Numbers(parts) == [i \in DOMAIN parts |-> parts[i].n]

\* The items at some of a list's positions, in their order.
Rank(K, i) == Cardinality({j \in K : j <= i})
AtPositions(items, K) ==
    [n \in 1 .. Cardinality(K) |-> items[CHOOSE i \in K : Rank(K, i) = n]]

OfKinds(parts, kinds) == AtPositions(parts, {i \in DOMAIN parts : parts[i].kind \in kinds})

Thinking == {"thought", "plan"}

\* CleanVisibleOutput leaves nothing of a complete block.
Shown(part, thinkingEnabled) ==
    CASE part.kind \in {"block", "plan"} -> <<>>
      [] part.kind = "thought" /\ ~ thinkingEnabled -> <<>>
      [] OTHER -> <<part.n>>

-----------------------------------------------------------------------------
(* The accumulator: StreamAccumulator.Apply.  Thinking is shown only when  *)
(* it is enabled, and always kept for detection.                           *)

NoParts == [text |-> <<>>, thinking |-> <<>>, detection |-> <<>>]

Apply(acc, part, thinkingEnabled) ==
    IF part.kind \in Thinking
    THEN [acc EXCEPT !.detection = Append(@, part),
                     !.thinking = @ \o Shown(part, thinkingEnabled)]
    ELSE [acc EXCEPT !.text = Append(@, part)]

\* The visible text so far, before blocks cut in two are put together.
BlankSoFar(acc) == OfKinds(acc.text, {"text", "held", "head", "tail"}) = <<>>

-----------------------------------------------------------------------------
(* The sieve.  What a chunk or the end lets out are calls and, after them, *)
(* text; each may be empty.                                                *)

EmptySieve == [pending |-> <<>>, held |-> <<>>, capture |-> <<>>]

\* Mutant: the calls wait until the answer is over.
Reported_AtEnd(sieve) == <<>>

\* The calls that a chunk completes are reported when the next one comes.
Reported(sieve) == sieve.pending

Released(sieve, part) ==
    sieve.held \o IF part.kind \in {"text", "space"} THEN <<part.n>> ELSE <<>>

Kept(sieve, part) ==
    [pending |-> IF part.kind \in {"block", "tail"} THEN <<part.n>> ELSE <<>>,
     held    |-> IF part.kind = "held" THEN <<part.n>> ELSE <<>>,
     capture |-> IF part.kind = "head" THEN <<part.n>> ELSE <<>>]

ProcessChunk(sieve, part) ==
    [sieve |-> Kept(sieve, part), calls |-> Reported(sieve), text |-> Released(sieve, part)]

\* At the end what was kept back is text.
FlushSieve(sieve) == [calls |-> sieve.pending, text |-> sieve.capture \o sieve.held]

-----------------------------------------------------------------------------
(* The turn *)

\* The calls that the parser finds in the whole text.
ParsedCalls(parts) == Numbers(OfKinds(parts, {"block", "tail", "plan"}))

\* What is visible once complete blocks are stripped: a head stays when its
\* tail never came.
VisibleText(text) ==
    LET Unclosed(i) == i = Len(text) \/ text[i + 1].kind # "tail"
        kept == {i \in DOMAIN text : \/ text[i].kind \in {"text", "space", "held"}
                                     \/ text[i].kind = "head" /\ Unclosed(i)}
    IN  AtPositions(text, kept)

BlankText(text) == OfKinds(VisibleText(text), {"text", "held", "head"}) = <<>>

\* Blocks in the thinking count when the text is blank.
DetectAssistantToolCalls(acc) ==
    IF ParsedCalls(acc.text) # <<>> \/ ~ BlankText(acc.text)
    THEN ParsedCalls(acc.text)
    ELSE ParsedCalls(acc.detection)

EmptyOutputCode(acc, filtered) ==
    IF filtered THEN "content_filter"
    ELSE IF acc.thinking # <<>> THEN "upstream_empty_output" ELSE "upstream_unavailable"

ValidateTurn(calls, acc, filtered, required) ==
    IF required /\ calls = <<>> THEN "tool_choice_violation"
    ELSE IF calls # <<>> \/ ~ BlankText(acc.text) THEN "none"
    ELSE EmptyOutputCode(acc, filtered)

\* BuildTurnFromStreamSnapshot: calls that were sent already spare the check.
BuildTurn(acc, filtered, required, emitted) ==
    LET calls == DetectAssistantToolCalls(acc)
    IN  [calls |-> calls, text |-> VisibleText(acc.text), thinking |-> acc.thinking,
         error |-> IF emitted THEN "none" ELSE ValidateTurn(calls, acc, filtered, required),
         stop  |-> IF calls # <<>> \/ emitted THEN "tool_calls"
                   ELSE IF filtered THEN "content_filter" ELSE "stop"]

FinalizeTurn(turn, emitted) ==
    LET hasCalls == turn.calls # <<>> \/ emitted
    IN  [error |-> IF hasCalls THEN "none" ELSE turn.error,
         finish |-> IF hasCalls THEN "tool_calls" ELSE turn.stop]

Send(s, event) == [s EXCEPT !.wire = Append(@, event)]

\* Nothing is said of an attempt that another one is to follow.
Deferred(s) == [s |-> s, over |-> FALSE, history |-> <<>>, stored |-> <<>>]
=============================================================================
