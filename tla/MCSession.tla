----------------------------- MODULE MCSession -----------------------------
(***************************************************************************)
(* Session for TLC: users and slots are model values, given in the .cfg.   *)
(***************************************************************************)
EXTENDS Session

CONSTANTS ann, bob, s1, s2
=============================================================================
