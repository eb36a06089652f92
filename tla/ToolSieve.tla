------------------------------ MODULE ToolSieve -------------------------------
(***************************************************************************)
(* The stream sieve (internal/toolstream): the text of an answer arrives   *)
(* in chunks that cut it anywhere, even inside a tag; the sieve releases   *)
(* text to the client and turns tool_calls blocks into calls as soon as    *)
(* they are complete.  What it has released or turned into calls, what it  *)
(* holds and what it has not received are consecutive parts of the text,   *)
(* so its buffers are two positions.                                       *)
(*                                                                         *)
(*   text      the whole answer                                            *)
(*   fed       tokens received             rel    tokens no longer held    *)
(*   capturing held text starts with a tag eaten  tokens turned into calls *)
(*   stack, ticks, bol    fences open, backticks pending, at line start    *)
(*   span      the run of backticks that opened the code span, 0 for none  *)
(*   calls     calls found and not yet reported (pendingToolCalls)         *)
(*   told      calls reported              done   the stream was flushed   *)
(*                                                                         *)
(* Ghosts record where the sieve decides before it can know, or reads a    *)
(* part of the text as if it were the whole:                               *)
(*   bets    tags taken for markup though a run of backticks before them   *)
(*           is still open (the last return of findToolSegmentStart)       *)
(*   lost    calls that were found and replaced before they were reported  *)
(*   slips   what else it missed, by kind (see Slip)                       *)
(***************************************************************************)
EXTENDS ToolMarkup

CONSTANTS
    Texts,        \* the answers considered
    MaxChunk(_)   \* how many tokens of this text a chunk may have

ASSUME MaxChunkAssumption == \A t \in Texts : MaxChunk(t) \in Nat \ {0}

VARIABLES text, st, done
vars == <<text, st, done>>

Empty == [ fed |-> 0, rel |-> 0, capturing |-> FALSE, eaten |-> {}, stack |-> <<>>,
           ticks |-> 0, bol |-> TRUE, span |-> 0, calls |-> <<>>, told |-> <<>>,
           bets |-> {}, lost |-> <<>>, slips |-> {} ]

Held(s) == SubSeq(text, s.rel + 1, s.fed)

-----------------------------------------------------------------------------
(* The Markdown state.                                                     *)

ApplyFenceMarker(stack, marker) ==
    IF stack # <<>> /\ marker >= stack[Len(stack)] THEN Front(stack)
    ELSE Append(stack, marker)

FlushTicks(f) ==
    IF f.ticks = 0 THEN f
    ELSE [f EXCEPT !.stack = IF f.bol /\ f.ticks >= 3
                             THEN ApplyFenceMarker(@, f.ticks) ELSE @,
                   !.ticks = 0, !.bol = FALSE]

CodeFence(f, s) ==
    LET step(g, c) == IF c = "t" THEN [g EXCEPT !.ticks = @ + 1]
                      ELSE [FlushTicks(g) EXCEPT !.bol = (c = "n")]
    IN  FoldLeft(step, f, s)

InsideCodeFence(f, s) == CodeFence(f, s).stack # <<>>

(* Is i the first of its line, as far as s tells?                          *)
FenceLineStart(s, i) == i = 1 \/ s[i - 1] = "n"

(* The code span that s, after the text noted so far, leaves open; prior   *)
(* says that it was open before s.                                         *)
RECURSIVE SpanFrom(_, _, _, _)
SpanFrom(f, s, i, sp) ==
    LET starts == { j \in RunStarts(s) : j >= i }
        k == Min(starts)
        r == Run(s, k)
        after == IF sp.ticks # 0
                 THEN IF r = sp.ticks THEN [ticks |-> 0, prior |-> FALSE] ELSE sp
                 ELSE IF (r >= 3 /\ FenceLineStart(s, k)) \/ InsideCodeFence(f, UpTo(s, k - 1))
                 THEN sp
                 ELSE [ticks |-> r, prior |-> FALSE]
    IN  IF starts = {} THEN sp ELSE SpanFrom(f, s, k + r, after)

MarkdownCodeSpan(f, s) == SpanFrom(f, s, 1, [ticks |-> f.span, prior |-> f.span # 0])

SpanCloses(s, ticks) == \E i \in RunStarts(s) : Run(s, i) = ticks

(* "break": a break that would start a line, or end a run, is not noted.   *)
(* "run": a run of backticks is released in two parts.                     *)
(* "tag": a wrapper of the text received is released as text because in    *)
(*        what is held, read alone, a code span seems to hide it.          *)
(* "half": the first half of a tag goes out with a capture.                *)
Slip(f, kind, when) == IF when THEN [f EXCEPT !.slips = @ \cup {kind}] ELSE f

(* A bug: the fences are not followed.                                     *)
NoteText_NoFences(f, s) ==
    IF Blank(s) THEN f ELSE [f EXCEPT !.span = MarkdownCodeSpan(f, s).ticks]

(* Text that is not blank moves the Markdown state.                        *)
NoteText(f, s) ==
    IF Blank(s) THEN Slip(f, "break", CodeFence(f, s) # f)
    ELSE [CodeFence(f, s) EXCEPT !.span = MarkdownCodeSpan(f, s).ticks]

CutsRun(i) == IsPrefix(<<"t", "t">>, From(text, i))
HidesWrapper(f, n) ==
    \E p \in Named(text, Tags(UpTo(text, f.fed)), {"tc"}) :
        p \in (f.rel + 1)..(f.rel + n) /\ p - f.rel \notin Tags(Held(f))
Release(f, n) ==
    LET noted == NoteText(f, SubSeq(text, f.rel + 1, f.rel + n))
    IN  [Slip(Slip(noted, "run", n > 0 /\ CutsRun(f.rel + n)), "tag", HidesWrapper(f, n))
           EXCEPT !.rel = f.rel + n]

-----------------------------------------------------------------------------
(* Where a tool segment starts in the held text: [at |-> 0] for nowhere,   *)
(* [hold |-> TRUE] when a code span that is still open may hide it.        *)

RECURSIVE SegmentStartFrom(_, _, _)
SegmentStartFrom(f, s, tags) ==
    LET k == Min(tags)
        before == UpTo(s, k - 1)
        sp == MarkdownCodeSpan(f, before)
        skip == SegmentStartFrom(f, s, tags \ {k})
    IN  IF tags = {} THEN [at |-> 0, hold |-> FALSE]
        ELSE IF InsideCodeFence(f, before) THEN skip
        ELSE IF sp.ticks = 0 THEN [at |-> k, hold |-> FALSE]
        ELSE IF SpanCloses(From(s, k), sp.ticks) THEN skip
        ELSE [at |-> k, hold |-> sp.prior]

SegmentStart(f, s) == SegmentStartFrom(f, s, Tags(s))

(* A tag cut at the end of the held text is kept back.                     *)
PartialTag(s) == s # <<>> /\ s[Len(s)] = "<"

(* A bug: text is kept back when any of it is a tag cut at its end.        *)
SafeLen_HoldsAll(f, s) == IF PartialTag(s) THEN 0 ELSE Len(s)

(* How many tokens of the held text can be released as text.               *)
SafeLen(f, s) ==
    LET before == Front(s) IN
    IF ~PartialTag(s) \/ InsideCodeFence(f, before) THEN Len(s)
    ELSE IF MarkdownCodeSpan(f, before).prior THEN 0
    ELSE Len(before)

(* The prefix a capture leaves opened a code span that nothing closes: the *)
(* backtick was only text.                                                 *)
ResetsSpan(f, before, after) ==
    LET sp == MarkdownCodeSpan(f, before)
    IN  sp.ticks > 0 /\ ~sp.prior /\ ~SpanCloses(after, sp.ticks)

-----------------------------------------------------------------------------
(* What a capture becomes: pre tokens of text, then the block up to upto   *)
(* when it makes calls.                                                    *)

NotReady == [ready |-> FALSE, pre |-> 0, calls |-> <<>>, upto |-> 0]
Executed(pre, calls, upto) == [ready |-> TRUE, pre |-> pre, calls |-> calls, upto |-> upto]
AsText(upto) == [ready |-> TRUE, pre |-> upto, calls |-> <<>>, upto |-> upto]

(* A fence opened just before the block and closed just after it goes with *)
(* the block.                                                              *)
TrimWrappingFence(s, r) ==
    LET pre   == UpTo(s, r.pre)
        words == Words(pre)
        open  == Max(words) - 2
        fences == { i \in RunStarts(pre) : Run(pre, i) >= 3 }
        suffix == From(s, r.upto + 1)
        close == Min(Words(suffix))
    IN  IF /\ r.calls # <<>> /\ words # {} /\ Words(suffix) # {}
           /\ open >= 1 /\ SubSeq(pre, open, open + 2) = <<"t", "t", "t">>
           /\ Cardinality(fences) % 2 = 1
           /\ Run(suffix, close) >= 3
        THEN [r EXCEPT !.pre = open - 1, !.upto = r.upto + close + 2]
        ELSE r

Block(from, to, calls) ==
    IF calls = <<>> THEN AsText(to) ELSE Executed(from - 1, calls, to)

(* Of the blocks that wrappers complete the first that makes calls, or     *)
(* else the first one, unless a wrapper is still open.                     *)
ChooseBlock(blocks, allComplete) ==
    LET good == { k \in DOMAIN blocks : blocks[k].calls # <<>> }
    IN  IF good # {} THEN blocks[Min(good)]
        ELSE IF allComplete THEN blocks[Min(DOMAIN blocks)]
        ELSE NotReady

ConsumeWrapper(s, tags) ==
    LET opens    == Named(s, tags, {"tc"})
        complete == { k \in opens : Wrapper(s, tags, k) # 0 }
        end(k)   == Wrapper(s, tags, k) + 1
    IN  ChooseBlock([ k \in complete |-> Block(k, end(k), ParseToolCalls(SubSeq(s, k, end(k)))) ],
                    opens = complete)

(* A block whose wrapper lost its opening tag.                             *)
ConsumeBareInvoke(s, tags) ==
    LET k == Earliest(Named(s, tags, Invokes))
        c == Earliest({ i \in Named(s, tags, {"/tc"}) : i > k })
    IN  IF k = 0 \/ c = 0 THEN NotReady
        ELSE Block(k, c + 1, ParseToolCalls(<<"<", "tc">> \o SubSeq(s, k, c + 1)))

ConsumeTags(s, tags) ==
    TrimWrappingFence(s, IF Named(s, tags, {"tc"}) # {} THEN ConsumeWrapper(s, tags)
                         ELSE ConsumeBareInvoke(s, tags))
ConsumeXML(s) == ConsumeTags(s, Tags(s))

HasOpenWrapper(s, tags) == \E k \in Named(s, tags, {"tc"}) : Wrapper(s, tags, k) = 0

(* An invoke without its wrapper is kept while it may still become a block.*)
KeepBareInvoke(s, tags) ==
    LET k == Earliest(Named(s, tags, Invokes))
        o == Earliest(Named(s, tags, {"tc"}))
        closes == { i \in Named(s, tags, {"/in"}) : i > k }
        body == TrimSpace(From(s, k + 2))
    IN  /\ k # 0 /\ (o = 0 \/ o > k)
        /\ \/ \E c \in Named(s, tags, {"/tc"}) : c > k
           \/ body = <<>>
           \/ closes # {} /\ Blank(From(s, Min(closes) + 2))
           \/ closes = {} /\ (body[1] = "{" \/ (IsTag(body, 1) /\ body[2] = "pa"))

CaptureOr(s, tags, block) ==
    IF block.ready THEN block
    ELSE IF HasOpenWrapper(s, tags) \/ KeepBareInvoke(s, tags) THEN NotReady
    ELSE AsText(Len(s))
ConsumeToolCapture(s) == CaptureOr(s, Tags(s), ConsumeXML(s))

-----------------------------------------------------------------------------
(* The loop over the held text, until it has to wait for more.             *)

(* The calls of a block replace those found before in the same chunk.      *)
Found(f, calls) == [f EXCEPT !.calls = calls, !.lost = @ \o f.calls]

OpenRun(f, s) == MarkdownCodeSpan(f, s).ticks > 0 \/ InsideCodeFence(f, s)
Bet(f, open, at) == IF open THEN [f EXCEPT !.bets = @ \cup {at}] ELSE f

Consumed(f, r) ==
    LET g == Release([f EXCEPT !.capturing = FALSE], r.pre)
        eaten == (f.rel + r.pre + 1)..(f.rel + r.upto)
        bet == Bet(g, OpenRun(Empty, UpTo(Held(f), r.pre)), f.rel + r.pre + 1)
    IN  IF r.calls = <<>> THEN g
        ELSE [Found(bet, r.calls) EXCEPT !.rel = f.rel + r.upto, !.eaten = @ \cup eaten]

Capture(f, s, k) ==
    [Bet(Release(f, k - 1), OpenRun(f, UpTo(s, k - 1)), f.rel + k) EXCEPT
       !.span = IF k > 1 /\ ResetsSpan(f, UpTo(s, k - 1), From(s, k)) THEN 0 ELSE @,
       !.capturing = TRUE]

RECURSIVE Drain(_)
DrainCapture(f, r) ==
    IF r.ready THEN Drain(Consumed(Slip(f, "half", r = AsText(Len(Held(f))) /\ PartialTag(Held(f))), r))
    ELSE f
DrainSafe(f, n)    == IF n = 0 THEN f ELSE Drain(Release(f, n))
DrainText(f, s, seg) ==
    IF seg.hold THEN f
    ELSE IF seg.at # 0 THEN Drain(Capture(f, s, seg.at))
    ELSE DrainSafe(f, SafeLen(f, s))
Drain(f) ==
    IF Held(f) = <<>> THEN f
    ELSE IF f.capturing THEN DrainCapture(f, ConsumeToolCapture(Held(f)))
    ELSE DrainText(f, Held(f), SegmentStart(f, Held(f)))

Report(f) == [f EXCEPT !.told = @ \o f.calls, !.calls = <<>>]

ProcessChunk(f, n) == Drain(Report([f EXCEPT !.fed = @ + n]))

-----------------------------------------------------------------------------
(* The end of the stream.                                                  *)

(* A bug: what the open span hid stays hidden.                             *)
Rescan_Never(f) == f

(* An open code span at the end is text: what it hid is looked at again.   *)
Rescan(f) == IF Held(f) # <<>> /\ ~f.capturing /\ f.span > 0
             THEN Drain(Report([f EXCEPT !.span = 0])) ELSE f

(* A capture that never became calls, tried once more without its loose    *)
(* CDATA, is released as text.                                             *)
ReleaseAll(f) == [Release(f, Len(Held(f))) EXCEPT !.capturing = FALSE]

LooseCDATA(s, clean) == Min({ i \in 1..Len(s) : i > Len(clean) \/ s[i] # clean[i] })
ConsumedClean(f, s, clean, c) ==
    IF clean = s \/ c.calls = <<>> THEN f
    ELSE Consumed(f, [c EXCEPT !.upto = IF @ >= LooseCDATA(s, clean) THEN @ + 1 ELSE @])
RetryClean(f, s, clean) == ConsumedClean(f, s, clean, ConsumeXML(clean))

ConsumedOrRetried(f, s, r) ==
    IF r.ready THEN Consumed(f, r) ELSE RetryClean(f, s, SanitizeLooseCDATA(s))

FlushCapture(f) ==
    IF ~f.capturing THEN f
    ELSE ReleaseAll(ConsumedOrRetried(f, Held(f), ConsumeToolCapture(Held(f))))

FlushAll(f) == Report(ReleaseAll(FlushCapture(Report(Rescan(ProcessChunk(f, 0))))))

-----------------------------------------------------------------------------
Init == text \in Texts /\ st = Empty /\ done = FALSE

(* A chunk of n tokens arrives.                                            *)
Chunk(n) ==
    /\ ~done /\ n <= MaxChunk(text)
    /\ st' = ProcessChunk(st, n)
    /\ UNCHANGED <<text, done>>

(* The answer is over.                                                     *)
Flush ==
    /\ ~done /\ st.fed = Len(text)
    /\ st' = FlushAll(st) /\ done' = TRUE
    /\ UNCHANGED text

Next == Flush \/ \E n \in 1..(Len(text) - st.fed) : Chunk(n)
Spec == Init /\ [][Next]_vars

-----------------------------------------------------------------------------
(* The buffers are parts of the text, in order, and the end of the stream  *)
(* leaves nothing in them: no text held, no call found and not reported    *)
(* (State, Flush).                                                         *)
TypeOK ==
    /\ text \in Texts /\ done \in BOOLEAN
    /\ 0 <= st.rel /\ st.rel <= st.fed /\ st.fed <= Len(text)
    /\ st.eaten \subseteq 1..st.rel
    /\ \A s \in {st.calls, st.told} : \A i \in DOMAIN s : s[i] \in Invokes
    /\ done => st.rel = Len(text) /\ ~st.capturing /\ st.calls = <<>>

(* The calls of the blocks that left the text, in their order.             *)
EatenCalls == SelectSeq([ i \in DOMAIN text |-> IF i \in st.eaten THEN text[i] ELSE "w" ],
                        LAMBDA t : t \in Invokes)

(* The tags of the text that no fence and no code span encloses.           *)
InFence(p) ==
    LET breaks == { i \in 1..(p - 1) : text[i] = "n" }
    IN  OpenFence(UpTo(text, Latest(breaks)), 1, 0) # 0
Visible == { p \in Tags(text) : ~InFence(p) }

(* Whatever the chunks, the blocks that leave the text while it streams    *)
(* are those whose calls the parser finds in the whole text, unless the    *)
(* sieve bet on a backtick that turned out to open an example, or slipped: *)
(* a streamed request and a collected one make the same calls              *)
(* (ProcessChunk, parseToolCalls...).  A block leaves the text exactly     *)
(* when its calls are reported, it is neither swallowed nor both called    *)
(* and shown, but for the calls that another block of the same chunk       *)
(* replaced: these and no others are missing (tool_sieve_core.go:42).      *)
StreamedCallsAreParsed ==
    done =>
      /\ st.bets \subseteq Visible /\ st.slips = {} => EatenCalls = ParseToolCalls(text)
      /\ Len(st.told) + Len(st.lost) = Len(EatenCalls)
      /\ st.lost = <<>> => st.told = EatenCalls

(* An example stays text: the first wrapper that is turned into calls      *)
(* though a fence or a code span of the whole text encloses it is one for  *)
(* which the sieve had bet that a run of backticks is only text            *)
(* (findToolSegmentStart), or a break or a part of a run went unnoted      *)
(* (tool_sieve_state.go:51).                                               *)
ExecutedExamples == { j \in st.eaten : IsTag(text, j) /\ text[j + 1] = "tc" } \ Visible
ExamplesStayText ==
    ExecutedExamples = {}
      \/ (\E p \in st.bets \ Visible : p <= Min(ExecutedExamples))
      \/ st.slips \cap {"break", "run"} # {}

(* Text is held only while it may be markup: it starts with a tag or with  *)
(* the start of one, or an open code span hides it                         *)
(* (splitSafeContentForToolDetection).                                     *)
HeldOnlyForMarkup ==
    TypeOK /\ (Held(st) # <<>> => Held(st)[1] = "<" \/ st.span > 0)
=============================================================================
