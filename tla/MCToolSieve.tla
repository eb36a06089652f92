---------------------------- MODULE MCToolSieve -----------------------------
(***************************************************************************)
(* Answers of up to three pieces, a piece a line or more, and every way to *)
(* cut them: in a tag, in a run of backticks, at a break, several blocks   *)
(* in a chunk.  A long answer comes in chunks of a few tokens.             *)
(***************************************************************************)
EXTENDS ToolSieve

MCInvokes == {"a", "b"}

Open    == <<"<", "tc">>
Close   == <<"<", "/tc">>
Param(value) == <<"<", "pa">> \o value \o <<"<", "/pa">>
Invoke(x, body) == <<"<", x>> \o body \o <<"<", "/in">>
Tools(x, body) == Open \o Invoke(x, body) \o Close
Prose   == <<"w">>
Break   == <<"n">>
Tick    == <<"t">>
Fence   == <<"t", "t", "t">>
\* examples of calls, fenced and inline, and the name of a tag
Shown   == Tools("a", <<>>)
Fenced  == Fence \o Break \o Shown \o Break \o Fence
Inline  == Prose \o Tick \o Shown \o Tick
Mention == Prose \o Tick \o Open \o Tick \o Prose
Call    == Tools("b", <<>>)

Pieces == {Prose, Call, Call \o Call, Prose \o Call \o Prose, Fenced, Inline, Mention,
           Open \o Prose, Open \o Prose \o Close, Tick \o Prose}

\* a parameter that quotes a fenced example with its own closings
Quoted(close) == <<"[", "n">> \o Fence \o Break \o <<"]">> \o <<"<", "/pa", "<", "/in">>
                   \o Close \o Break \o Fence \o Break \o close
Nested  == Open \o Call \o Prose \o Close
Long    == { p \o q \o r : p \in {<<>>, Prose, Prose \o Break},
               q \in {Tools("b", Param(Prose)), Tools("b", <<"{">>), Nested,
                      Tools("b", Param(Quoted(<<"]">>))), Tools("b", Param(Quoted(<<>>)))},
               r \in {<<>>, Prose, Break \o Open} }
\* a block that lost its opening, with no other wrapper in the text
Bare(value) == Invoke("b", Param(value)) \o Close
Repaired == { p \o Bare(v) \o r : p \in {<<>>, Prose, Prose \o Break},
                v \in {Prose, Quoted(<<"]">>)}, r \in {<<>>, Prose} }

Whole == 28
Three == { t \in { p \o Break \o q \o Break \o r : p, q, r \in Pieces } : Len(t) <= Whole }
MCTexts == Pieces \cup { p \o Break \o q : p, q \in Pieces } \cup Three \cup Long \cup Repaired

MCMaxChunk(t) == IF Len(t) <= Whole THEN Whole ELSE 8
=============================================================================
