--------------------------- MODULE MCSearchQuery ---------------------------
(***************************************************************************)
(* An instance of SearchQuery for TLC.                                     *)
(***************************************************************************)
EXTENDS SearchQuery

MCFields == {"birthday", "university", "location"}
MCOperators == {"=", "!=", ">"}

(* Blank is 8 and NaN 9; the numbers below them also stand for the texts   *)
(* of string fields.                                                       *)
MCValues == {1, 2, 8, 9}
=============================================================================
