--------------------------- MODULE MCCompletion ---------------------------
(* Completion for TLC: the answers that the runtime tells apart, with and   *)
(* without streaming.                                                       *)
EXTENDS Completion

Says(text, thinking, tools, filtered, id) ==
    [status |-> "ok", text |-> text, thinking |-> thinking, tools |-> tools,
     filtered |-> filtered, id |-> id]

Refuses(status) == [EmptyAnswer EXCEPT !.status = status]

MCAnswers ==
    {Says(TRUE, FALSE, FALSE, FALSE, TRUE),     \* text
     Says(FALSE, TRUE, FALSE, FALSE, TRUE),     \* thinking only
     Says(FALSE, FALSE, FALSE, FALSE, FALSE),   \* nothing at all
     Says(FALSE, TRUE, FALSE, TRUE, TRUE),      \* filtered after thinking
     Says(TRUE, FALSE, TRUE, FALSE, TRUE),      \* a tool call after text
     Refuses("429"), Refuses("500")}

MCInputFiles == <<"history", "tools">>
=============================================================================
