------------------------------ MODULE SSEParse ------------------------------
(***************************************************************************)
(* What one line of the upstream event stream means                        *)
(* (internal/sse/parser.go, line.go, content_filter_leak.go, dedupe.go and *)
(* consumer.go), as operators.                                             *)
(*                                                                         *)
(* A text is a sequence of tokens; the tokens that the parser looks for    *)
(* ("<think>", "</think>", "CONTENT_FILTER", "FINISHED", " ", "\n") are    *)
(* strings of their own and every other token is opaque.  A JSON value is  *)
(* a record tagged by its kind: a string, a list of items, or an object    *)
(* that may carry a text of its own and a wrapped "response".              *)
(***************************************************************************)
EXTENDS Naturals, Sequences, SequencesExt

CONSTANT MinSnapshot  \* minContinuationSnapshotLen, in tokens

Nothing == [kind |-> "none", text |-> <<>>, items |-> <<>>,
            id |-> 0, status |-> "", auto |-> FALSE]

Str(t) == [Nothing EXCEPT !.kind = "str", !.text = t]

List(items) == [Nothing EXCEPT !.kind = "list", !.items = items]

Obj(text, fragments, id, status, auto) ==
    [kind |-> "obj", text |-> text, items |-> fragments,
     id |-> id, status |-> status, auto |-> auto]

\* An entry of a list: a patch (a path and a value), or a fragment.
Item(p, o, v, type, content) ==
    [p |-> p, o |-> o, v |-> v, type |-> type, content |-> content]

Fragment(type, content) == Item("", "", Nothing, type, content)

\* A line: "junk" is a line that is no event (a comment, broken JSON),
\* "done" is the [DONE] sentinel, "data" is an event.
NoEvent == [kind |-> "junk", p |-> "", o |-> "", v |-> Nothing,
            id |-> 0, code |-> "", error |-> FALSE]
DoneLine == [NoEvent EXCEPT !.kind = "done"]
Event(p, o, v) == [NoEvent EXCEPT !.kind = "data", !.p = p, !.o = o, !.v = v]

Part(text, type) == [text |-> text, type |-> type]

-----------------------------------------------------------------------------
(* Paths *)

StatusPaths == {"status", "response/status"}

FragmentStatusPaths == {"response/fragments/1/status", "response/fragments/-1/status"}

ShouldSkipPath(p) ==
    p \in FragmentStatusPaths \cup
          {"quasi_status", "response/quasi_status", "response/search_status"}

\* Every path that contains "status".
StatusLikePaths ==
    StatusPaths \cup FragmentStatusPaths \cup
    {"quasi_status", "response/quasi_status", "response/search_status"}

FragmentContentPaths == {"response/fragments/1/content", "response/fragments/-1/content"}

IsThinking(type) == type \in {"THINK", "THINKING"}

-----------------------------------------------------------------------------
(* Parts of a line *)

AddPart(parts, text, type) ==
    IF text = <<>> THEN parts ELSE Append(parts, Part(text, type))

\* A fragment sets the current type, unless its own type is not known.
AddFragment(st, f, otherType) ==
    CASE IsThinking(f.type) ->
            [type |-> "thinking", parts |-> AddPart(st.parts, f.content, "thinking")]
      [] f.type = "RESPONSE" ->
            [type |-> "text", parts |-> AddPart(st.parts, f.content, "text")]
      [] OTHER -> [st EXCEPT !.parts = AddPart(@, f.content, otherType)]

TypeFromExplicitPath(p, thinkingEnabled, type) ==
    CASE p = "response/content" -> "text"
      [] p = "response/thinking_content" /\ (~ thinkingEnabled \/ type # "text") -> "thinking"
      [] OTHER -> type

CollectDirectFragments(chunk, type) ==
    IF chunk.p = "response/fragments" /\ chunk.o = "APPEND" /\ chunk.v.kind = "list"
    THEN FoldLeft(LAMBDA st, f : AddFragment(st, f, "text"),
                  [type |-> type, parts |-> <<>>], chunk.v.items)
    ELSE [type |-> type, parts |-> <<>>]

\* A batch of patches under "response" that appends fragments moves the type.
TypeFromNestedResponse(chunk, type) ==
    IF chunk.p # "response" \/ chunk.v.kind # "list" THEN type
    ELSE LET Fragments == SelectSeq(chunk.v.items,
                LAMBDA it : it.p = "fragments" /\ it.o = "APPEND" /\ it.v.kind = "list")
         IN  FoldLeft(LAMBDA t, f : CASE IsThinking(f.type) -> "thinking"
                                      [] f.type = "RESPONSE" -> "text"
                                      [] OTHER -> t,
                      type, FlattenSeq([i \in 1 .. Len(Fragments) |-> Fragments[i].v.items]))

ResolvePartType(p, thinkingEnabled, type) ==
    CASE p = "response/thinking_content" ->
            IF thinkingEnabled /\ type = "text" THEN "text" ELSE "thinking"
      [] p \in FragmentContentPaths \cup {""} -> type
      [] OTHER -> "text"

IsFinished(v) == v.kind = "str" /\ v.text = <<"FINISHED">>

\* The parts of one entry of a list value.
ItemParts(it, defaultType) ==
    LET itemType == CASE it.p = "response/thinking_content" -> "thinking"
                      [] it.p \in FragmentContentPaths \cup
                             {"response/content", "response", "fragments"} -> "text"
                      [] OTHER -> defaultType
        Typed(f, other) == CASE IsThinking(f.type) -> "thinking"
                             [] f.type = "RESPONSE" -> "text"
                             [] OTHER -> other
    IN IF it.v.kind = "none" \/ it.p \in StatusPaths \/ ShouldSkipPath(it.p) THEN <<>>
       ELSE IF it.content # <<>> THEN <<Part(it.content, Typed(it, defaultType))>>
       ELSE IF it.v.kind = "str" /\ ~ IsFinished(it.v) THEN AddPart(<<>>, it.v.text, itemType)
       ELSE IF it.v.kind = "list"
       THEN FoldLeft(LAMBDA acc, f : AddPart(acc, f.content, Typed(f, itemType)),
                     <<>>, it.v.items)
       ELSE <<>>

ExtractContentRecursive(items, defaultType) ==
    FoldLeft(LAMBDA acc, it : acc \o ItemParts(it, defaultType), <<>>, items)

ListFinished(items) ==
    \E i \in 1 .. Len(items) : items[i].p \in StatusPaths /\ IsFinished(items[i].v)

\* What the value of a chunk adds to the parts collected so far.
AppendChunkValue(chunk, partType, st) ==
    CASE chunk.v.kind = "str" ->
            IF chunk.p \in StatusPaths THEN st
            ELSE [st EXCEPT !.parts = AddPart(@, chunk.v.text, partType)]
      [] chunk.v.kind = "list" ->
            [st EXCEPT !.parts = @ \o ExtractContentRecursive(chunk.v.items, partType)]
      [] chunk.v.kind \notin {"str", "list"} /\ chunk.v.text # <<>>
            /\ chunk.p \in {"", "response/content", "response/thinking_content"} ->
            [st EXCEPT !.parts = AddPart(@, chunk.v.text, partType)]
      [] OTHER -> FoldLeft(LAMBDA s, f : AddFragment(s, f, partType), st, chunk.v.items)

ValueFinished(chunk) ==
    \/ chunk.v.kind = "str" /\ chunk.v.text = <<"FINISHED">> /\ chunk.p \in {"", "status"}
    \/ chunk.v.kind = "list" /\ ListFinished(chunk.v.items)

-----------------------------------------------------------------------------
(* Upstream keeps calling the answer thinking after a </think>. *)

StripThinkTags(text) ==
    SelectSeq(text, LAMBDA t : t \notin {"<think>", "</think>"})

SplitStep(st, p) ==
    LET close == SelectInSeq(p.text, LAMBDA t : t = "</think>")
    IN CASE st.over \/ p.type # "thinking" ->
              [st EXCEPT !.parts = AddPart(@, StripThinkTags(p.text),
                            IF p.type = "thinking" THEN "text" ELSE p.type)]
         [] ~ st.over /\ p.type = "thinking" /\ close = 0 -> [st EXCEPT !.parts = Append(@, p)]
         [] OTHER ->
              [over |-> TRUE,
               parts |-> AddPart(AddPart(st.parts, SubSeq(p.text, 1, close - 1), "thinking"),
                           StripThinkTags(SubSeq(p.text, close + 1, Len(p.text))), "text")]

SplitThinkingParts(parts) ==
    FoldLeft(SplitStep, [over |-> FALSE, parts |-> <<>>], parts)

-----------------------------------------------------------------------------
(* A chunk *)

NoContent(type) == [parts |-> <<>>, detection |-> <<>>, finished |-> FALSE, type |-> type]

ContentOf(split, thinkingEnabled, type) ==
    [parts     |-> IF thinkingEnabled THEN split.parts
                   ELSE SelectSeq(split.parts, LAMBDA p : p.type # "thinking"),
     detection |-> SelectSeq(split.parts, LAMBDA p : p.type = "thinking"),
     finished  |-> FALSE,
     type      |-> IF split.over THEN "text" ELSE type]

SplitContent(all, thinkingEnabled) ==
    ContentOf(SplitThinkingParts(all.parts), thinkingEnabled, all.type)

\* direct: the fragments and the type that the path itself gives.
ParseValue(chunk, direct, thinkingEnabled) ==
    IF ValueFinished(chunk) THEN [NoContent(direct.type) EXCEPT !.finished = TRUE]
    ELSE SplitContent(
            AppendChunkValue(chunk, ResolvePartType(chunk.p, thinkingEnabled, direct.type), direct),
            thinkingEnabled)

ParseSSEChunk(chunk, thinkingEnabled, current) ==
    IF chunk.v.kind = "none" \/ ShouldSkipPath(chunk.p) THEN NoContent(current)
    ELSE IF chunk.p \in StatusPaths /\ chunk.v.kind = "str"
    THEN [NoContent(current) EXCEPT !.finished = IsFinished(chunk.v)]
    ELSE LET explicit == TypeFromExplicitPath(chunk.p, thinkingEnabled, current)
         IN  ParseValue(chunk, [CollectDirectFragments(chunk, explicit) EXCEPT
                                  !.type = TypeFromNestedResponse(chunk, @)], thinkingEnabled)

\* A leaked CONTENT_FILTER marker ends its part; a part with nothing but
\* blanks before the marker is dropped.
FilterLeakedParts(parts) ==
    LET Cut(p)    == SelectInSeq(p.text, LAMBDA t : t = "CONTENT_FILTER")
        LastInk(p) == SelectLastInSubSeq(p.text, 1, Cut(p) - 1, LAMBDA t : t # " ")
        Clean(p)  == IF Cut(p) = 0 THEN p ELSE [p EXCEPT !.text = SubSeq(@, 1, LastInk(p))]
        Keep(p)   == Cut(p) = 0 \/ Clean(p).text # <<>>
        kept      == SelectSeq(parts, Keep)
    IN  [i \in 1 .. Len(kept) |-> Clean(kept[i])]

IsFilterStatus(p, v) ==
    p \in StatusLikePaths /\ v.kind = "str" /\ v.text = <<"CONTENT_FILTER">>

HasContentFilterStatus(chunk) ==
    \/ chunk.code = "content_filter"
    \/ IsFilterStatus(chunk.p, chunk.v)
    \/ \E i \in 1 .. Len(chunk.v.items) :
          IsFilterStatus(chunk.v.items[i].p, chunk.v.items[i].v)

\* response_message_id, or the message_id of a wrapped response.
ObserveResponseMessageID(chunk) == IF chunk.v.id > 0 THEN chunk.v.id ELSE chunk.id

-----------------------------------------------------------------------------
(* A line *)

Ignored(type) == [parsed |-> FALSE, stop |-> FALSE, filtered |-> FALSE, error |-> FALSE,
                  parts |-> <<>>, detection |-> <<>>, type |-> type, id |-> 0]

ContentLine(line, chunk) ==
    [Ignored(chunk.type) EXCEPT
       !.parsed = TRUE, !.stop = chunk.finished,
       !.parts = FilterLeakedParts(chunk.parts),
       !.detection = FilterLeakedParts(chunk.detection),
       !.id = ObserveResponseMessageID(line)]

ParseDeepSeekContentLine(line, thinkingEnabled, current) ==
    LET Stopped == [Ignored(current) EXCEPT !.parsed = TRUE, !.stop = TRUE]
    IN CASE line.kind = "junk" -> Ignored(current)
         [] line.kind = "done" -> Stopped
         [] line.error -> [Stopped EXCEPT !.error = TRUE]
         [] ~ line.error /\ line.kind = "data" /\ HasContentFilterStatus(line) ->
              [Stopped EXCEPT !.filtered = TRUE]
         [] OTHER -> ContentLine(line, ParseSSEChunk(line, thinkingEnabled, current))

-----------------------------------------------------------------------------
(* A continuation may replay what was already received. *)

TrimContinuationOverlap(existing, incoming) ==
    CASE existing = <<>> \/ Len(incoming) < MinSnapshot -> incoming
      [] Len(incoming) > Len(existing) /\ IsPrefix(existing, incoming) ->
            SubSeq(incoming, Len(existing) + 1, Len(incoming))
      [] Len(incoming) < Len(existing) /\ IsPrefix(incoming, existing) -> <<>>
      [] OTHER -> incoming

-----------------------------------------------------------------------------
(* The whole stream at once: CollectStream, for answers that are not       *)
(* streamed.                                                               *)

InitialType(thinkingEnabled) == IF thinkingEnabled THEN "thinking" ELSE "text"

Collector(thinkingEnabled) ==
    [text |-> <<>>, thinking |-> <<>>, detection |-> <<>>, filtered |-> FALSE, id |-> 0,
     type |-> InitialType(thinkingEnabled), stopped |-> FALSE, over |-> FALSE]

CollectPart(c, p) ==
    IF p.type = "thinking"
    THEN [c EXCEPT !.thinking = @ \o TrimContinuationOverlap(@, p.text)]
    ELSE [c EXCEPT !.text = @ \o TrimContinuationOverlap(@, p.text)]

CollectResult(c, line, result) ==
    LET id     == IF line.kind = "data" /\ ObserveResponseMessageID(line) > 0
                  THEN ObserveResponseMessageID(line) ELSE c.id
        seen   == [c EXCEPT !.id = id]
        typed  == [seen EXCEPT !.type = result.type]
    IN CASE c.over -> c
         [] line.kind = "done" -> [c EXCEPT !.over = TRUE]
         [] c.stopped -> seen
         [] ~ result.parsed -> typed
         [] result.stop ->
              [typed EXCEPT !.stopped = TRUE, !.filtered = c.filtered \/ result.filtered]
         [] OTHER ->
              FoldLeft(LAMBDA s, p :
                         [s EXCEPT !.detection = @ \o TrimContinuationOverlap(@, p.text)],
                       FoldLeft(CollectPart, typed, result.parts), result.detection)

CollectLine(c, line, thinkingEnabled) ==
    CollectResult(c, line, ParseDeepSeekContentLine(line, thinkingEnabled, c.type))

CollectStream(lines, thinkingEnabled) ==
    FoldLeft(LAMBDA c, line : CollectLine(c, line, thinkingEnabled),
             Collector(thinkingEnabled), lines)
=============================================================================
