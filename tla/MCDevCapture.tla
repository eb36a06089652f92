---------------------------- MODULE MCDevCapture ----------------------------
(***************************************************************************)
(* A small instance of the captures and samples: chat and admin requests    *)
(* are interchangeable.                                                     *)
(***************************************************************************)
EXTENDS DevCapture

Symmetry == Permutations(Savers) \cup Permutations(Chats)
=============================================================================
