----------------------------- MODULE WriteQueue -----------------------------
(***************************************************************************)
(* What an app may expect of Firestore's writes: each user has a queue     *)
(* that survives everything.  Its writes take effect in the order they     *)
(* were handed over, and leave from the front with a verdict: a write that *)
(* is said to be accepted has taken effect.  A write may take effect long  *)
(* before it leaves, or, if it was refused, even after.                    *)
(***************************************************************************)
EXTENDS Naturals, Sequences

CONSTANTS
  Users,    \* accounts, the anonymous one included
  Writes,   \* names of writes
  Verdicts  \* "nothing" yet, "ok", "refused"

VARIABLES
  owner,    \* who handed over each write, in order
  pending,  \* per user, the writes without a verdict
  applied,  \* writes that have taken effect
  told      \* per write, what its completion handler was called with

vars == <<owner, pending, applied, told>>

Init ==
  /\ owner = <<>>
  /\ pending = [u \in Users |-> <<>>]
  /\ applied = {}
  /\ told = [w \in Writes |-> "nothing"]

HandOver(u) ==
  /\ Len(owner) + 1 \in Writes
  /\ owner' = Append(owner, u)
  /\ pending' = [pending EXCEPT ![u] = Append(@, Len(owner) + 1)]
  /\ UNCHANGED <<applied, told>>

(* No pending write overtakes an earlier one of its user.                  *)
Apply(w) ==
  /\ w \in DOMAIN owner
  /\ \A u \in Users : \A i \in DOMAIN pending[u] :
        pending[u][i] = w => \A j \in 1 .. i - 1 : pending[u][j] \in applied
  /\ applied' = applied \union {w}
  /\ UNCHANGED <<owner, pending, told>>

(* The handler is not called if the app has been restarted since.          *)
Resolve(u, verdict) ==
  /\ pending[u] # <<>>
  /\ verdict \in Verdicts \ {"nothing"}
  /\ verdict = "ok" => Head(pending[u]) \in applied
  /\ pending' = [pending EXCEPT ![u] = Tail(@)]
  /\ told' \in {told, [told EXCEPT ![Head(pending[u])] = verdict]}
  /\ told[Head(pending[u])] = "nothing"
  /\ UNCHANGED <<owner, applied>>

Next ==
  \/ \E u \in Users : HandOver(u) \/ \E v \in Verdicts : Resolve(u, v)
  \/ \E w \in Writes : Apply(w)

Spec == Init /\ [][Next]_vars
=============================================================================
