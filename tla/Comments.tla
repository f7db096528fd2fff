------------------------------ MODULE Comments ------------------------------
(***************************************************************************)
(* The comments of one post: several users write them, one of them, Me,    *)
(* also has them on the screen.                                            *)
(*                                                                         *)
(* CommentInput, CommentInputVM  -> SendComment                            *)
(* CommentService.addComment     -> NameFound, NameFails                   *)
(* CommentView                   -> Appear, Disappear                      *)
(* CommentService.loadComment    -> Snapshot                               *)
(* the write pipeline of Firestore on each device -> queue                 *)
(*                                                                         *)
(* A comment is named by its place in the order of the field "date", which *)
(* postComment sets when the author's name has been found.                 *)
(***************************************************************************)
EXTENDS Naturals, Sequences, SequencesExt, Functions, FiniteSets

CONSTANTS
  Users,        \* the authors, each on a device of their own
  Me,           \* the user who looks at the comments
  MaxComments,  \* bound: comments sent in all
  MaxRejects,   \* bound: writes the service refuses
  MaxCrashes    \* bound: how often an app dies

ASSUME CommentsAssumption ==
  /\ Me \in Users
  /\ MaxComments \in Nat /\ MaxRejects \in Nat /\ MaxCrashes \in Nat

VARIABLES
  typed,    \* comments sent by the input field so far
  lookups,  \* per user, comments that wait for their author's name
  author,   \* the author of each dated comment
  queue,    \* per device, the writes not yet acknowledged, oldest first
  stored,   \* the documents of comments/{post}/comments
  open,     \* CommentView is on the screen and its listener registered
  comments, \* CommentService.comments
  seen,     \* the documents the listener has reported so far
  refused,  \* history: comments the service refused
  crashes   \* history: apps that died

vars == <<typed, lookups, author, queue, stored, open, comments, seen, refused, crashes>>
writeVars == <<typed, lookups, author, queue>>
screenVars == <<open, comments, seen>>
historyVars == <<refused, crashes>>

Comment == DOMAIN author

TypeOK ==
  /\ typed \in Nat
  /\ lookups \in [Users -> Nat]
  /\ author \in Seq(Users)
  /\ queue \in [Users -> Seq(Comment)]
  /\ stored \subseteq Comment
  /\ open \in BOOLEAN
  /\ comments \in Seq(Comment)
  /\ seen \subseteq Comment
  /\ refused \subseteq Comment
  /\ crashes \in Nat

Init ==
  /\ typed = 0
  /\ lookups = [u \in Users |-> 0]
  /\ author = <<>>
  /\ queue = [u \in Users |-> <<>>]
  /\ stored = {}
  /\ open = FALSE
  /\ comments = <<>>
  /\ seen = {}
  /\ refused = {}
  /\ crashes = 0

-----------------------------------------------------------------------------
(***************************************************************************)
(* Writing.                                                                *)
(***************************************************************************)

(* sendComment, then addComment up to getNameFromId.                       *)
SendComment(u) ==
  /\ u = Me => open
  /\ typed < MaxComments
  /\ typed' = typed + 1
  /\ lookups' = [lookups EXCEPT ![u] = @ + 1]
  /\ UNCHANGED <<author, queue, stored, screenVars, historyVars>>

(* Mutant of NameFound: only a comment list on the screen sends it.        *)
WhileShown(u) ==
  /\ lookups[u] > 0
  /\ lookups' = [lookups EXCEPT ![u] = @ - 1]
  /\ author' = Append(author, u)
  /\ queue' = IF u # Me \/ open THEN [queue EXCEPT ![u] = Append(@, Len(author) + 1)]
              ELSE queue
  /\ UNCHANGED <<typed, stored, screenVars, historyVars>>

(* getNameFromId answers: postComment dates the comment and hands it to    *)
(* the write pipeline, whether or not its view is still there.             *)
NameFound(u) ==
  /\ lookups[u] > 0
  /\ lookups' = [lookups EXCEPT ![u] = @ - 1]
  /\ author' = Append(author, u)
  /\ queue' = [queue EXCEPT ![u] = Append(@, Len(author) + 1)]
  /\ UNCHANGED <<typed, stored, screenVars, historyVars>>

(* Or an error is printed and the comment is gone.                         *)
NameFails(u) ==
  /\ lookups[u] > 0
  /\ lookups' = [lookups EXCEPT ![u] = @ - 1]
  /\ UNCHANGED <<typed, author, queue, stored, screenVars, historyVars>>

(* The service applies the oldest write of a device, or refuses it.        *)
Commit(u) ==
  /\ queue[u] # <<>>
  /\ queue' = [queue EXCEPT ![u] = Tail(@)]
  /\ stored' = stored \union {Head(queue[u])}
  /\ UNCHANGED <<typed, lookups, author, screenVars, historyVars>>

Reject(u) ==
  /\ queue[u] # <<>>
  /\ Cardinality(refused) < MaxRejects
  /\ queue' = [queue EXCEPT ![u] = Tail(@)]
  /\ refused' = refused \union {Head(queue[u])}
  /\ UNCHANGED <<typed, lookups, author, stored, screenVars, crashes>>

-----------------------------------------------------------------------------
(***************************************************************************)
(* The screen.                                                             *)
(***************************************************************************)

(* Mutant of Appear: the list is not emptied.                              *)
KeepsList ==
  /\ ~open
  /\ open' = TRUE
  /\ seen' = {}
  /\ UNCHANGED <<comments, writeVars, stored, historyVars>>

(* loadComment: an empty list and a new listener.                          *)
Appear ==
  /\ ~open
  /\ open' = TRUE
  /\ comments' = <<>>
  /\ seen' = {}
  /\ UNCHANGED <<writeVars, stored, historyVars>>

(* The listener is removed; the list stays as it is.                       *)
Disappear ==
  /\ open
  /\ open' = FALSE
  /\ UNCHANGED <<comments, seen, writeVars, stored, historyVars>>

(* What the query yields on Me's device: the documents of the server and   *)
(* the device's own pending writes.                                        *)
Local == stored \union Range(queue[Me])

Ascending(s) == \A i, j \in DOMAIN s : i < j => s[i] < s[j]

(* Mutant of Added: the query has no order.                                *)
Unordered == SetToSeqs(Local \ seen)

(* The documents a snapshot reports as added, ordered by date.             *)
Added == {s \in SetToSeqs(Local \ seen) : Ascending(s)}

(* newComment is called for each of them: it appends unless the list is    *)
(* empty, and an empty list stays empty.                                   *)
newComment(list, added) == IF list = <<>> THEN list ELSE list \o added

(* Mutant of onSuccess: the list is not looked at.                         *)
Replaces(list, added) == added

(* onSuccess gets all of them: it takes them if the list is still empty.   *)
onSuccess(list, added) == IF list = <<>> THEN added ELSE list

Snapshot ==
  /\ open
  /\ Local # seen
  /\ \E added \in Added : comments' = onSuccess(newComment(comments, added), added)
  /\ seen' = Local
  /\ UNCHANGED <<open, writeVars, stored, historyVars>>

(* An app dies.  Its pipeline is on disk, its closures are not.            *)
Crash(u) ==
  /\ crashes < MaxCrashes
  /\ crashes' = crashes + 1
  /\ lookups' = [lookups EXCEPT ![u] = 0]
  /\ open' = (u # Me /\ open)
  /\ comments' = IF u = Me THEN <<>> ELSE comments
  /\ seen' = IF u = Me THEN {} ELSE seen
  /\ UNCHANGED <<typed, author, queue, stored, refused>>

Next ==
  \/ \E u \in Users : \/ SendComment(u) \/ NameFound(u) \/ NameFails(u)
                      \/ Commit(u) \/ Reject(u) \/ Crash(u)
  \/ Appear \/ Disappear \/ Snapshot

Spec == Init /\ [][Next]_vars

(* Lookups, pipelines and the listener do not stop; users may.             *)
FairSpec ==
  /\ Spec
  /\ \A u \in Users : WF_vars(NameFound(u) \/ NameFails(u)) /\ WF_vars(Commit(u) \/ Reject(u))
  /\ WF_vars(Snapshot)

-----------------------------------------------------------------------------
(* The two closures of loadComment look at the list, which they change, to *)
(* decide which of them fills it.  Together they list every comment of an  *)
(* up-to-date snapshot once; what is listed beyond them are comments of Me *)
(* that the service refused.                                               *)
EachListedOnce ==
  open /\ seen = Local =>
    /\ IsInjective(comments)
    /\ Local \subseteq Range(comments)
    /\ \A c \in Range(comments) \ Local : author[c] = Me /\ c \in refused

(* The comments of one author are listed in the order of their dates,      *)
(* although the list ignores where the listener says a document belongs:   *)
(* no write of a device overtakes another.                                 *)
AuthorOrder ==
  \A i, j \in DOMAIN comments :
    i < j /\ author[comments[i]] = author[comments[j]] => comments[i] < comments[j]

(* The pipelines do what WritePipeline is shown to do: the service carries *)
(* out or refuses the oldest comment that is left of an author, once, and  *)
(* neither a view that is closed nor an app that dies takes one away.      *)
Commits == INSTANCE CommitQueue WITH
  Writes <- Nat,
  owner <- author,
  waiting <- UNION {Range(queue[u]) : u \in Users}

UsesCommitQueue == Commits!Spec

(* A comment that got its date is stored or refused in the end, even if    *)
(* its view is closed or its app dies.                                     *)
CommentEnds == \A n \in 1 .. MaxComments : (n \in Comment) ~> (n \in stored \union refused)

(* A list that stays on the screen comes to show every stored comment.     *)
StoredIsListed ==
  \A n \in 1 .. MaxComments : <>[]open => ((n \in stored) ~> [](n \in Range(comments)))

-----------------------------------------------------------------------------
(***************************************************************************)
(* What the proof of AuthorOrder rests on.                                 *)
(***************************************************************************)

(* A pipeline holds its user's comments, oldest first, and nothing of that *)
(* user that is stored is newer than what waits.                           *)
QueueOK(u) ==
  /\ Ascending(queue[u])
  /\ \A i \in DOMAIN queue[u] :
       /\ author[queue[u][i]] = u
       /\ \A c \in stored : author[c] = u => c < queue[u][i]

(* What others wrote is listed only when it is stored; and what is still   *)
(* to be reported is newer than what is listed of the same author.         *)
ListOK ==
  \A i \in DOMAIN comments :
    /\ author[comments[i]] # Me => comments[i] \in stored
    /\ \A c \in Local \ seen : author[c] = author[comments[i]] /\ open => comments[i] < c

OrderInv == TypeOK /\ (\A u \in Users : QueueOK(u)) /\ ListOK /\ AuthorOrder

-----------------------------------------------------------------------------
(***************************************************************************)
(* What the proof of EachListedOnce rests on, besides.                     *)
(***************************************************************************)

(* Nothing is listed twice, what the listener has reported is listed, what *)
(* it is still to report is not, and what has left its query was refused.  *)
ListedOK ==
  /\ IsInjective(comments)
  /\ seen \subseteq Range(comments)
  /\ Range(comments) \intersect (Local \ seen) = {}
  /\ \A c \in Range(comments) \ Local : author[c] = Me /\ c \in refused

ListedInv == OrderInv /\ ListedOK
=============================================================================
