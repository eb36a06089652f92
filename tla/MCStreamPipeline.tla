-------------------------- MODULE MCStreamPipeline --------------------------
(* StreamPipeline for TLC: short streams of the events that matter. *)
EXTENDS StreamPipeline
=============================================================================
