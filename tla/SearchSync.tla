----------------------------- MODULE SearchSync -----------------------------
(***************************************************************************)
(* The functions that keep the search index up to date with one document   *)
(* of Posts: onPostCreated, onPostModified and onPostDeleted of index.ts.  *)
(* Each change of the document fires one of them with what the document is *)
(* then.  They run in no order, more than once, and not again if they      *)
(* fail.  What changes the document is left to the module that uses this.  *)
(***************************************************************************)
EXTENDS Naturals, Sequences, SequencesExt

CONSTANTS
  Docs,      \* contents the document may have
  NoDoc,     \* there is no document
  NoEntry,   \* nothing is indexed under its id
  MaxAstray  \* bound: functions that run a second time or fail

ASSUME SyncAssumption ==
  /\ NoDoc \notin Docs
  /\ NoEntry \notin [data: Docs, stamped: BOOLEAN]
  /\ MaxAstray \in Nat

VARIABLES
  firestore,  \* the document
  versions,   \* history: what each change made of it
  events,     \* the numbers of the changes whose function is still to run
  done,       \* the numbers of those whose function has run
  index,      \* the entry of the search index
  creates,    \* whether the index creates what it is told to update
  overtaken,  \* history: the functions that ran after that of a later change
  reruns,     \* how many functions ran a second time
  lost        \* how many functions failed

syncVars == <<firestore, versions, events, done, index, creates, overtaken, reruns, lost>>

Entry == [data: Docs, stamped: BOOLEAN]
Kinds == {"created", "modified", "deleted"}

SyncTypeOK ==
  /\ firestore \in Docs \union {NoDoc}
  /\ versions \in Seq(Docs \union {NoDoc})
  /\ events \subseteq DOMAIN versions
  /\ done \subseteq DOMAIN versions
  /\ index \in Entry \union {NoEntry}
  /\ creates \in BOOLEAN
  /\ overtaken \subseteq Kinds \X Kinds
  /\ reruns \in 0 .. MaxAstray
  /\ lost \in 0 .. MaxAstray

(* The document has just been created with contents d.                     *)
(* partialUpdateObjects is called without createIfNotExists; what the index*)
(* then does depends on the version of its client.                         *)
SyncInit(d) ==
  /\ firestore = d
  /\ versions = <<d>>
  /\ events = {1}
  /\ done = {}
  /\ index = NoEntry
  /\ creates \in BOOLEAN
  /\ overtaken = {}
  /\ reruns = 0
  /\ lost = 0

(* What the service does when the document becomes d.  A write that        *)
(* changes nothing fires nothing.  The id of a deleted post is never used  *)
(* again: it is a UUID made with the post.                                 *)
Becomes(d) ==
  /\ firestore' = d
  /\ IF d = firestore
     THEN UNCHANGED <<versions, events>>
     ELSE /\ versions' = Append(versions, d)
          /\ events' = events \union {Len(versions) + 1}
  /\ UNCHANGED <<done, index, creates, overtaken, reruns, lost>>

-----------------------------------------------------------------------------
KindOf(n) == IF versions[n] = NoDoc THEN "deleted"
             ELSE IF n = 1 THEN "created" ELSE "modified"

(* saveObject replaces the entry; creationTimestamp is computed here only. *)
onPostCreated(n) == index' = [data |-> versions[n], stamped |-> TRUE]

onPostDeleted(n) == index' = NoEntry

(* Mutant of onPostModified: saveObject here too.                          *)
SavesModified(n) == index' = [data |-> versions[n], stamped |-> FALSE]

(* partialUpdateObjects writes all fields of the document and keeps others.*)
onPostModified(n) ==
  index' = IF index # NoEntry THEN [index EXCEPT !.data = versions[n]]
           ELSE IF creates THEN [data |-> versions[n], stamped |-> FALSE]
           ELSE NoEntry

Handler(n) ==
  CASE KindOf(n) = "created"  -> onPostCreated(n)
    [] KindOf(n) = "modified" -> onPostModified(n)
    [] KindOf(n) = "deleted"  -> onPostDeleted(n)

Runs(n) ==
  /\ Handler(n)
  /\ done' = done \union {n}
  /\ overtaken' = overtaken \union {<<KindOf(n), KindOf(m)>> : m \in {k \in done : k > n}}

Trigger(n) ==
  /\ n \in events
  /\ events' = events \ {n}
  /\ Runs(n)
  /\ UNCHANGED <<firestore, versions, creates, reruns, lost>>

TriggerAgain(n) ==
  /\ n \in done
  /\ reruns + lost < MaxAstray
  /\ reruns' = reruns + 1
  /\ Runs(n)
  /\ UNCHANGED <<firestore, versions, events, creates, lost>>

(* The promise is rejected; functions are not retried unless configured.   *)
TriggerFails(n) ==
  /\ n \in events
  /\ reruns + lost < MaxAstray
  /\ lost' = lost + 1
  /\ events' = events \ {n}
  /\ UNCHANGED <<firestore, versions, done, index, creates, overtaken, reruns>>

SyncNext ==
  \/ \E n \in events : Trigger(n) \/ TriggerFails(n)
  \/ \E n \in done : TriggerAgain(n)

-----------------------------------------------------------------------------
(* If no function failed and none ran after that of a later change, the    *)
(* index holds the document, whole and dated, as soon as all have run: it  *)
(* does not matter how often they ran, or how late.                        *)
MirrorsInOrder ==
  events = {} /\ lost = 0 /\ overtaken = {} =>
    index = IF firestore = NoDoc THEN NoEntry ELSE [data |-> firestore, stamped |-> TRUE]

(* A post that was deleted can still be found when all functions have run, *)
(* only if one failed, or the one for its creation ran after the one for   *)
(* its deletion; late changes revive it only in an index that creates what *)
(* it is told to update.                                                   *)
GhostsAreLateCreations ==
  events = {} /\ lost = 0 /\ firestore = NoDoc /\ index # NoEntry =>
    \/ <<"created", "deleted">> \in overtaken
    \/ creates /\ <<"modified", "deleted">> \in overtaken
-----------------------------------------------------------------------------
(* The invariant these two rest on.  A deleted document stays deleted, and *)
(* while no function fails each change is awaited or dealt with.           *)
HistoryOK ==
  /\ versions # <<>> /\ versions[1] # NoDoc
  /\ firestore = versions[Len(versions)]
  /\ \A n \in DOMAIN versions : versions[n] = NoDoc => n = Len(versions)
  /\ lost = 0 => events \union done = DOMAIN versions

(* Once the function of the deletion has run, an entry means that another  *)
(* one came after it.                                                      *)
GhostsOK ==
  \A n \in done : versions[n] = NoDoc /\ index # NoEntry =>
    \/ <<"created", "deleted">> \in overtaken
    \/ creates /\ <<"modified", "deleted">> \in overtaken

(* In order, the index holds what the last change dealt with has made.     *)
Indexed(n) == index = IF versions[n] = NoDoc THEN NoEntry
                      ELSE [data |-> versions[n], stamped |-> TRUE]

IndexOK ==
  overtaken = {} /\ 1 \in done =>
    \E n \in done : Indexed(n) /\ \A m \in done : m <= n

SyncInv == SyncTypeOK /\ HistoryOK /\ GhostsOK /\ IndexOK
=============================================================================
