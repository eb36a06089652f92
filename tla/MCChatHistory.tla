--------------------------- MODULE MCChatHistory ---------------------------
(* Instances of ChatHistory for TLC: the limits 0, 1 and 2 stand for       *)
(* 0, 10, 20 and 50, so that three entries already overflow them.          *)
EXTENDS ChatHistory

SmallLimits == {0, 1, 2}
=============================================================================
