---------------------------- MODULE BatchDelete ----------------------------
(***************************************************************************)
(* StorageService.deleteImages: a list of pictures deleted one after the   *)
(* other by recursion through BatchUploader.delete.  The service answers a *)
(* deletion once, but BatchUploader.delete calls completion(false) and     *)
(* then completion(true) after an error, so that the recursion forks.      *)
(***************************************************************************)
EXTENDS Naturals, Sequences, SequencesExt, Functions

CONSTANTS
  N,         \* pictures to delete, PostVM.imagesToDelete
  MaxErrors  \* bound: errors the service returns for a picture it has

ASSUME BatchAssumption == N \in Nat /\ MaxErrors \in Nat

Urls == 1 .. N

VARIABLES
  currentUser, \* whether FirebaseManager has one
  started,   \* deleteImages has started its recursion
  stored,    \* pictures Storage still has
  pending,   \* per picture, deletions sent and not answered
  successes, \* what the recursive closure collected
  reports,   \* the lists completion was called with
  errors     \* history: errors for pictures Storage had

vars == <<currentUser, started, stored, pending, successes, reports, errors>>

TypeOK ==
  /\ {currentUser, started} \subseteq BOOLEAN
  /\ stored \subseteq Urls
  /\ pending \in [Urls -> Nat]
  /\ successes \in Seq(BOOLEAN)
  /\ reports \in Seq(Seq(BOOLEAN))
  /\ errors \in 0 .. MaxErrors

(* imagesToDelete is never emptied: an earlier save of the same form may   *)
(* have deleted some of the pictures already.                              *)
Init ==
  /\ currentUser \in BOOLEAN
  /\ started = FALSE
  /\ stored \in SUBSET Urls
  /\ pending = [i \in Urls |-> 0]
  /\ successes = <<>>
  /\ reports = <<>>
  /\ errors = 0

(* Login and logout; a recursion under way does not ask who is there.      *)
SessionChanges ==
  /\ currentUser' = ~currentUser
  /\ UNCHANGED <<started, stored, pending, successes, reports, errors>>

(* deleteImageHelper(index: 0); an empty list is reported at once.  Without*)
(* a current user it returns, and calls nobody.                            *)
DeleteImages ==
  /\ ~started
  /\ currentUser
  /\ started' = TRUE
  /\ pending' = [i \in Urls |-> IF i = 1 THEN 1 ELSE 0]
  /\ reports' = IF N = 0 THEN <<successes>> ELSE <<>>
  /\ UNCHANGED <<currentUser, stored, successes, errors>>

(* The answer for picture i calls completion with each of results, and     *)
(* each time the next deletion is sent or, after the last, finalCompletion *)
(* is called.                                                              *)
DeleteImageHelper(i, results) ==
  /\ successes' = successes \o results
  /\ pending' = [j \in Urls |-> CASE j = i     -> pending[j] - 1
                                  [] j = i + 1 -> pending[j] + Len(results)
                                  [] OTHER     -> pending[j]]
  /\ reports' = IF i < N THEN reports
                ELSE reports \o [k \in DOMAIN results |-> successes \o SubSeq(results, 1, k)]

Deleted(i) ==
  /\ pending[i] > 0
  /\ i \in stored
  /\ stored' = stored \ {i}
  /\ DeleteImageHelper(i, <<TRUE>>)
  /\ UNCHANGED <<currentUser, started, errors>>

(* Mutants of Fails: nobody is told; only the success is told.             *)
TellsNobody(i) ==
  /\ pending[i] > 0
  /\ i \in stored => errors < MaxErrors
  /\ errors' = IF i \in stored THEN errors + 1 ELSE errors
  /\ pending' = [pending EXCEPT ![i] = @ - 1]
  /\ UNCHANGED <<currentUser, started, stored, successes, reports>>

TellsSuccess(i) ==
  /\ pending[i] > 0
  /\ i \in stored => errors < MaxErrors
  /\ errors' = IF i \in stored THEN errors + 1 ELSE errors
  /\ DeleteImageHelper(i, <<TRUE>>)
  /\ UNCHANGED <<currentUser, started, stored>>

(* The service has no such picture, or another error.                      *)
Fails(i) ==
  /\ pending[i] > 0
  /\ i \in stored => errors < MaxErrors
  /\ errors' = IF i \in stored THEN errors + 1 ELSE errors
  /\ DeleteImageHelper(i, <<FALSE, TRUE>>)
  /\ UNCHANGED <<currentUser, started, stored>>

Quiet == started /\ \A i \in Urls : pending[i] = 0
Done == Quiet /\ UNCHANGED vars

Next == SessionChanges \/ DeleteImages \/ (\E i \in Urls : Deleted(i) \/ Fails(i)) \/ Done

(* The service answers every request.                                      *)
Spec == Init /\ [][Next]_vars /\ WF_vars(\E i \in Urls : Deleted(i) \/ Fails(i))

-----------------------------------------------------------------------------
(* When all is quiet and a picture is still in Storage, the last report    *)
(* holds a failure: the forks never hide that something went wrong.        *)
LeftoversReported ==
  Quiet /\ stored # {} => FALSE \in Range(Last(reports))

(* However often it forks, the recursion reports in the end and stops.     *)
Stops == started ~> (Quiet /\ reports # <<>>)

(* The invariant it rests on.  While the chain runs something is pending;  *)
(* after that the last report is all that was collected.                   *)
ReportOK ==
  IF started
  THEN (\E i \in Urls : pending[i] > 0) \/ (reports # <<>> /\ Last(reports) = successes)
  ELSE pending = [i \in Urls |-> 0] /\ successes = <<>> /\ reports = <<>>

(* The chain is still to come by a picture that is there, or has failed.   *)
AheadOK ==
  started => \A i \in stored :
    (\E j \in 1 .. i : pending[j] > 0) \/ FALSE \in Range(successes)

BatchInv == TypeOK /\ ReportOK /\ AheadOK
=============================================================================
