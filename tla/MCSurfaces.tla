---------------------------- MODULE MCSurfaces ----------------------------
(* Surfaces for TLC: every surface, with short answers of all kinds. *)
EXTENDS Surfaces
=============================================================================
