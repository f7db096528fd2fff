------------------------------- MODULE MCLikes -------------------------------
(***************************************************************************)
(* Likes for TLC: the users are model values, given in the .cfg; what the  *)
(* document may hold follows from them.                                    *)
(***************************************************************************)
EXTENDS Likes, TLC

CONSTANTS u, v

MCDocs == [text: 0 .. MaxEdits, likes: SUBSET Users]
Symmetry == Permutations(Users)
=============================================================================
