------------------------------- MODULE MCChat -------------------------------
(***************************************************************************)
(* Instances of Chat for TLC.                                              *)
(***************************************************************************)
EXTENDS Chat

CONSTANTS u, v

(* The users are alike: the instances in which v sends first are mirrors.  *)
FirstIsFromU == sent # <<>> => sent[1] = u
=============================================================================
