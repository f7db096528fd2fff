----------------------------- MODULE CommitQueue -----------------------------
(***************************************************************************)
(* The queue of writes as Comments takes it: the service deals with the    *)
(* writes of a user oldest first, each once, and either carries it out or  *)
(* refuses it.  When the app hears of that is not told here; see           *)
(* WriteQueue for the verdicts.                                            *)
(***************************************************************************)
EXTENDS Naturals, Sequences

CONSTANTS
  Users,   \* accounts
  Writes   \* names of writes, numbers in the order of handing over

VARIABLES
  owner,    \* who handed over each write, in order
  waiting,  \* writes the service has not dealt with
  stored    \* writes it has carried out

vars == <<owner, waiting, stored>>

Init ==
  /\ owner = <<>>
  /\ waiting = {}
  /\ stored = {}

HandOver(u) ==
  /\ Len(owner) + 1 \in Writes
  /\ owner' = Append(owner, u)
  /\ waiting' = waiting \union {Len(owner) + 1}
  /\ UNCHANGED stored

Oldest(w) == \A x \in waiting : owner[x] = owner[w] => w <= x

Leaves(w) ==
  /\ Oldest(w)
  /\ waiting' = waiting \ {w}
  /\ UNCHANGED owner

Commit(w) == Leaves(w) /\ stored' = stored \union {w}
Refuse(w) == Leaves(w) /\ UNCHANGED stored

Next ==
  \/ \E u \in Users : HandOver(u)
  \/ \E w \in waiting : Commit(w) \/ Refuse(w)

Spec == Init /\ [][Next]_vars
=============================================================================
