----------------------------- MODULE MCPostEdit -----------------------------
(***************************************************************************)
(* PostEdit for TLC: the texts are model values, given in the .cfg, and    *)
(* none of them is special.                                                *)
(***************************************************************************)
EXTENDS PostEdit, TLC

Symmetry == Permutations(Texts)
=============================================================================
