--------------------------- MODULE MCBatchDelete ---------------------------
(***************************************************************************)
(* BatchDelete for TLC: its constants are numbers, given in the .cfg.      *)
(***************************************************************************)
EXTENDS BatchDelete
=============================================================================
