----------------------------- MODULE PostBoard -----------------------------
(***************************************************************************)
(* What the app promises about the collection Posts: a post appears in it  *)
(* in one step, with every picture its author chose in the order they were *)
(* chosen, and can be removed.  As long as its write may still reach the   *)
(* service, it may appear again, as it was; after that a removal is for    *)
(* good.                                                                   *)
(***************************************************************************)
EXTENDS Naturals, Sequences

CONSTANTS
  Users,       \* accounts
  Posts,       \* post ids (the UUID a Post gets in the form)
  ImageCount,  \* how many pictures the author of each post chose
  NoDoc        \* there is no document under this id

VARIABLES
  board,       \* the documents of the collection
  written,     \* what the author of each post wrote, once they have
  settled      \* posts no write of which is under way any more

vars == <<board, written, settled>>

Blob == [folder: Users, post: Posts, image: Nat]

(* The pictures are exactly the chosen ones, in the chosen order. *)
Whole(p, pictures) ==
  /\ pictures \in Seq(Blob)
  /\ Len(pictures) = ImageCount[p]
  /\ \A i \in 1 .. Len(pictures) : pictures[i].post = p /\ pictures[i].image = i

Init ==
  /\ board = [p \in Posts |-> NoDoc]
  /\ written = [p \in Posts |-> NoDoc]
  /\ settled = {}

(* What is written is whole, and is written once.                          *)
Author(p) ==
  /\ written[p] = NoDoc
  /\ written'[p] # NoDoc
  /\ written'[p].posterId \in Users
  /\ Whole(p, written'[p].pictures)
  /\ written' = [written EXCEPT ![p] = written'[p]]

Write(p) ==
  /\ Author(p)
  /\ UNCHANGED <<board, settled>>

Publish(p) ==
  /\ written[p] # NoDoc
  /\ p \notin settled
  /\ board' = [board EXCEPT ![p] = written[p]]
  /\ UNCHANGED <<written, settled>>

Settle(p) ==
  /\ written[p] # NoDoc
  /\ settled' = settled \union {p}
  /\ UNCHANGED <<board, written>>

(* Another device does it all.                                             *)
PublishElsewhere(p) ==
  /\ Author(p)
  /\ board' = [board EXCEPT ![p] = written'[p]]
  /\ settled' \in {settled, settled \union {p}}

Remove(p) ==
  /\ board[p] # NoDoc
  /\ board' = [board EXCEPT ![p] = NoDoc]
  /\ UNCHANGED <<written, settled>>

Next == \E p \in Posts :
  Write(p) \/ Publish(p) \/ Settle(p) \/ PublishElsewhere(p) \/ Remove(p)

Spec == Init /\ [][Next]_vars
=============================================================================
