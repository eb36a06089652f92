------------------------------ MODULE ToolMarkup ------------------------------
(***************************************************************************)
(* How the gateway finds tool calls in the model's text                    *)
(* (internal/toolcall).  A text is a sequence of tokens:                   *)
(*   "w"       anything that is not markup        "n"  a line break        *)
(*   "t"       one backtick                       "{"  a JSON object       *)
(*   "["  "]"  the opening and the closing of a CDATA section              *)
(*   "<" t     a tag, in two halves: what a chunk may cut.  t is "tc" for  *)
(*             the tool_calls wrapper, "pa" for a parameter, a name of     *)
(*             Invokes for an invoke tag that names a tool, and "/tc",     *)
(*             "/pa", "/in" for the closing tags.                          *)
(* What the scanner of tags accepts beside the canonical spelling (DSML    *)
(* prefixes, full-width and look-alike characters, odd separators) is      *)
(* inside a token; tilde fences, which work as backtick fences do, are     *)
(* left out.                                                               *)
(***************************************************************************)
EXTENDS Naturals, Sequences, FiniteSets, FiniteSetsExt, SequencesExt

CONSTANT Invokes   \* the opening invoke tags, one per tool name

Opening(t)  == t \in Invokes \cup {"tc", "pa"}
TagTokens   == Invokes \cup {"tc", "pa", "/tc", "/pa", "/in"}
IsTag(s, i) == i < Len(s) /\ s[i] = "<" /\ s[i + 1] \in TagTokens

From(s, i)  == SubSeq(s, i, Len(s))
UpTo(s, i)  == SubSeq(s, 1, i)
Blank(s)    == \A i \in DOMAIN s : s[i] = "n"
Words(s)    == { i \in DOMAIN s : s[i] # "n" }
TrimSpace(s) == IF Blank(s) THEN <<>> ELSE SubSeq(s, Min(Words(s)), Max(Words(s)))

Earliest(S) == IF S = {} THEN 0 ELSE Min(S)
Latest(S)   == IF S = {} THEN 0 ELSE Max(S)

(* What the first attempt finds, or else the second.                       *)
FirstFound(a, b) == IF a # <<>> THEN a ELSE b

-----------------------------------------------------------------------------
(* Backticks: runs, the lines that open and close a fence, code spans.     *)

Run(s, i) == LET ends == { j \in i..Len(s) : s[j] # "t" }
             IN  (IF ends = {} THEN Len(s) + 1 ELSE Min(ends)) - i
RunStarts(s) == { i \in DOMAIN s : s[i] = "t" /\ (i = 1 \/ s[i - 1] # "t") }

(* Where the code span that the run at i opens ends, 0 when nothing closes *)
(* it.  i may be inside a run: the rest of the run is what must be matched.*)
SpanEndAfter(s, i, run) ==
    LET closes == { j \in RunStarts(s) : j >= i + run /\ Run(s, j) = run }
    IN  IF closes = {} THEN 0 ELSE Min(closes) + run
CodeSpanEnd(s, i) == SpanEndAfter(s, i, Run(s, i))

LineEnd(s, i) == LET ends == { j \in i..Len(s) : s[j] = "n" }
                 IN  IF ends = {} THEN Len(s) ELSE Min(ends)

FenceOpen(line) == IF line # <<>> /\ Run(line, 1) >= 3 THEN Run(line, 1) ELSE 0
FenceClose(line, marker) ==
    line # <<>> /\ Run(line, 1) >= marker /\ Blank(From(line, Run(line, 1) + 1))

(* The fence the lines of s, from i on, leave open; 0 for none.            *)
RECURSIVE OpenFence(_, _, _)
OpenFence(s, i, marker) ==
    IF i > Len(s) THEN marker
    ELSE LET line == SubSeq(s, i, LineEnd(s, i)) IN
         OpenFence(s, LineEnd(s, i) + 1,
                   IF marker = 0 THEN FenceOpen(line)
                   ELSE IF FenceClose(line, marker) THEN 0 ELSE marker)

-----------------------------------------------------------------------------
(* CDATA: a section ends at the first closing that is outside the Markdown *)
(* fences it holds and that a closing tag follows, or else at the first    *)
(* outside a fence.                                                        *)

CDATAEndsStructure(s, after) ==
    \E i \in after..Len(s) : /\ Blank(SubSeq(s, after, i - 1))
                             /\ IsTag(s, i) /\ ~Opening(s[i + 1])

PreferredEnd(s, ends) ==
    LET good == { i \in ends : CDATAEndsStructure(s, i + 1) }
    IN  Earliest(IF good # {} THEN good ELSE ends)
CDATAEnd(s, from) ==
    PreferredEnd(s, { i \in from..Len(s) :
                        s[i] = "]" /\ OpenFence(SubSeq(s, from, i - 1), 1, 0) = 0 })

(* A CDATA section that nothing closes loses its opening.                  *)
SanitizeLooseCDATA(s) ==
    LET loose == { i \in DOMAIN s : s[i] = "[" /\ CDATAEnd(s, i + 1) = 0 }
    IN  IF loose = {} THEN s ELSE RemoveAt(s, Min(loose))

-----------------------------------------------------------------------------
(* Tags outside CDATA and, when spans says so, outside code spans.  An     *)
(* unclosed CDATA section hides everything after it.                       *)

AfterSection(s, end) == (IF end = 0 THEN Len(s) ELSE end) + 1
AfterSpan(i, end)    == IF end = 0 THEN i + 1 ELSE end
NextPlace(s, i, spans) ==
    CASE s[i] = "["          -> AfterSection(s, CDATAEnd(s, i + 1))
      [] s[i] = "t" /\ spans -> AfterSpan(i, CodeSpanEnd(s, i))
      [] IsTag(s, i)         -> i + 2
      [] OTHER               -> i + 1

RECURSIVE TagsFrom(_, _, _)
TagsFrom(s, i, spans) ==
    IF i > Len(s) THEN {}
    ELSE (IF IsTag(s, i) THEN {i} ELSE {}) \cup TagsFrom(s, NextPlace(s, i, spans), spans)

Tags(s) == TagsFrom(s, 1, TRUE)

Named(s, tags, names) == { i \in tags : s[i + 1] \in names }

(* The closing tag that balances the opening one at k, 0 for none.         *)
MatchingClose(s, tags, k, opens, close) ==
    Earliest({ c \in Named(s, tags, {close}) :
              /\ c > k
              /\ Cardinality({ o \in Named(s, tags, opens) : k <= o /\ o < c })
                 = Cardinality({ d \in Named(s, tags, {close}) : k < d /\ d <= c }) })

Wrapper(s, tags, k) == MatchingClose(s, tags, k, {"tc"}, "/tc")

-----------------------------------------------------------------------------
(* The elements of one kind, outermost first and in order, as [tag, body]. *)

RECURSIVE ElementsFrom(_, _, _, _, _)
ElementsFrom(s, tags, opens, close, from) ==
    LET k == Earliest({ i \in Named(s, tags, opens) : i >= from }) IN
    IF k = 0 THEN <<>>
    ELSE LET c == MatchingClose(s, tags, k, opens, close) IN
         IF c = 0 THEN ElementsFrom(s, tags, opens, close, k + 2)
         ELSE << [tag |-> s[k + 1], body |-> SubSeq(s, k + 2, c - 1)] >>
              \o ElementsFrom(s, tags, opens, close, c + 2)

Elements(s, opens, close) == ElementsFrom(s, TagsFrom(s, 1, FALSE), opens, close, 1)

(* An invoke element is a call when its body is a JSON object, holds a     *)
(* parameter, or is blank.                                                 *)
HoldsCall(inner) == \/ inner = <<>>
                    \/ inner[1] = "{"
                    \/ Elements(inner, {"pa"}, "/pa") # <<>>
IsCall(e) == HoldsCall(TrimSpace(e.body))

Bodies(elements) == [ i \in DOMAIN elements |-> elements[i].body ]
TagNames(elements) == [ i \in DOMAIN elements |-> elements[i].tag ]
WrapperBodies(s) == Bodies(ElementsFrom(s, Tags(s), {"tc"}, "/tc", 1))

(* A text whose wrapper lost its opening tag gets it back.                 *)
WithOpening(s, tags) ==
    LET k == Earliest(Named(s, tags, Invokes))
        c == Latest(Named(s, tags, {"/tc"}))
    IN  IF Named(s, tags, {"tc"}) # {} \/ k = 0 \/ c <= k THEN s
        ELSE UpTo(s, k - 1) \o <<"<", "tc">> \o From(s, k)
RepairMissingOpening(s) == WithOpening(s, Tags(s))

(* The names of the tools that the wrappers of s call, in order.           *)
CallsIn(bodies) ==
    FlattenSeq([ i \in DOMAIN bodies |->
                   TagNames(SelectSeq(Elements(bodies[i], Invokes, "/in"), IsCall)) ])
CallsOf(s) ==
    CallsIn(FirstFound(WrapperBodies(s), WrapperBodies(RepairMissingOpening(s))))

-----------------------------------------------------------------------------
(* Removing fenced blocks, line by line; a line inside CDATA is kept.  An  *)
(* unclosed fence removes the rest.  cd = [in, marker] is the state of the *)
(* CDATA section.                                                          *)

RECURSIVE CDATAInLine(_, _, _)
CDATAInLine(line, pos, marker) ==
    LET e == Earliest({ i \in pos..Len(line) : line[i] = "]" })
        o == Earliest({ i \in (e + 1)..Len(line) : line[i] = "[" })
    IN  IF pos > Len(line) \/ e = 0 \/ marker # 0 THEN [in |-> TRUE, marker |-> marker]
        ELSE IF ~CDATAEndsStructure(line, e + 1) /\ ~Blank(From(line, e + 1))
             THEN CDATAInLine(line, e + 1, marker)
        ELSE IF o = 0 THEN [in |-> FALSE, marker |-> 0]
        ELSE CDATAInLine(line, o + 1, FenceOpen(From(line, o + 1)))

AfterLine(cd, line) ==
    LET pos  == IF cd.in THEN 1 ELSE Earliest({ i \in DOMAIN line : line[i] = "[" }) + 1
        body == From(line, pos)
    IN  CDATAInLine(line, pos,
            IF cd.marker = 0 THEN FenceOpen(body)
            ELSE IF FenceClose(body, cd.marker) THEN 0 ELSE cd.marker)

CDATABeforeFence(line) ==
    LET c == Earliest({ i \in DOMAIN line : line[i] = "[" })
        f == Earliest({ i \in RunStarts(line) : Run(line, i) >= 3 })
    IN  c # 0 /\ (f = 0 \/ c < f)

RECURSIVE StripFrom(_, _, _, _, _)
StripFrom(s, i, fence, cd, kept) ==
    LET line == SubSeq(s, i, LineEnd(s, i))
        Next(f, c, k) == StripFrom(s, LineEnd(s, i) + 1, f, c, k)
    IN  IF i > Len(s) THEN (IF fence.marker = 0 THEN kept ELSE UpTo(kept, fence.before))
        ELSE IF cd.in \/ CDATABeforeFence(line) THEN Next(fence, AfterLine(cd, line), kept \o line)
        ELSE IF fence.marker # 0
             THEN Next(IF FenceClose(line, fence.marker) THEN [marker |-> 0, before |-> 0]
                       ELSE fence, cd, kept)
        ELSE IF FenceOpen(line) # 0
             THEN Next([marker |-> FenceOpen(line), before |-> Len(kept)], cd, kept)
        ELSE Next(fence, cd, kept \o line)

StripFencedCodeBlocks(s) ==
    StripFrom(s, 1, [marker |-> 0, before |-> 0], [in |-> FALSE, marker |-> 0], <<>>)

(* The calls a whole text makes (parseToolCallsDetailedXMLOnly).           *)
CallsOrRepaired(trimmed) ==
    FirstFound(CallsOf(trimmed), CallsOf(SanitizeLooseCDATA(trimmed)))
ParseToolCalls(s) ==
    CallsOrRepaired(TrimSpace(StripFencedCodeBlocks(TrimSpace(s))))
=============================================================================
