----------------------------- MODULE MCPosting -----------------------------
(***************************************************************************)
(* Instances of Posting for TLC.                                           *)
(***************************************************************************)
EXTENDS Posting, TLC

CONSTANTS u1, u2, p1, p2, p3, c1, c2

MCTwoImages == [p \in Posts |-> 2]
MCOneImage == [p \in Posts |-> 1]
MCTwoAndOne == [p \in Posts |-> IF p = p1 THEN 2 ELSE 1]

(* No search, or one that hides a single post.                             *)
MCNoSearch == {Posts}
MCSearches == {Posts} \union {Posts \ {p} : p \in Posts}

FeedSymmetry == Permutations(Users) \union Permutations(Calls)
=============================================================================
