-------------------------- MODULE MCWritePipeline --------------------------
(***************************************************************************)
(* WritePipeline for TLC: the users are model values, given in the .cfg.   *)
(***************************************************************************)
EXTENDS WritePipeline

CONSTANTS u, v
=============================================================================
