-------------------------------- MODULE Likes --------------------------------
(***************************************************************************)
(* A post that several users like and unlike, each on a device of their    *)
(* own, while its poster edits and deletes it and the search index follows.*)
(*                                                                         *)
(* PostView, FeedView  -> TapLike, TapUnlike, Rebuild, Reload              *)
(* PostVM              -> post[u], the copy a row shows                    *)
(* FirestoreService.likePost, unlikePost -> queue[u], acks[u], reads[u]    *)
(***************************************************************************)
EXTENDS SearchSync

CONSTANTS
  Users,      \* users who see the post
  MaxTaps,    \* bound: likes and unlikes in all
  MaxEdits,   \* bound: edits by the poster
  MaxErrors   \* bound: reads that fail

ASSUME LikesAssumption ==
  /\ MaxTaps \in Nat /\ MaxEdits \in Nat /\ MaxErrors \in Nat
  /\ Docs = [text: 0 .. MaxEdits, likes: SUBSET Users]

VARIABLES
  post,     \* per device, PostVM.post
  feed,     \* per device, the feed's copy, which rows are built from
  queue,    \* per device, the updates in its write pipeline
  acks,     \* per device, acknowledged updates whose closure has not run
  asked,    \* per device, calls of getDocument not yet evaluated
  reads,    \* per device, what getDocument yielded, closures not run
  stale,    \* history: devices whose row was rebuilt or a read of which failed
  taps,     \* likes and unlikes so far
  errors    \* reads that failed

vars == <<syncVars, post, feed, queue, acks, asked, reads, stale, taps, errors>>
shownVars == <<post, feed, stale>>

(* live: the row it was tapped in is still on the screen.                  *)
Update == [likes: BOOLEAN, live: BOOLEAN]

TypeOK ==
  /\ SyncTypeOK
  /\ post \in [Users -> Docs] /\ feed \in [Users -> Docs]
  /\ queue \in [Users -> Seq(Update)]
  /\ acks \in [Users -> Nat] /\ asked \in [Users -> Nat]
  /\ reads \in [Users -> Seq(Docs \union {NoDoc})]
  /\ stale \subseteq Users
  /\ taps \in 0 .. MaxTaps /\ errors \in 0 .. MaxErrors

Fresh == [text |-> 0, likes |-> {}]

(* The post has been published and every device has loaded it.             *)
Init ==
  /\ SyncInit(Fresh)
  /\ post = [u \in Users |-> Fresh]
  /\ feed = [u \in Users |-> Fresh]
  /\ queue = [u \in Users |-> <<>>]
  /\ acks = [u \in Users |-> 0]
  /\ asked = [u \in Users |-> 0]
  /\ reads = [u \in Users |-> <<>>]
  /\ stale = {}
  /\ taps = 0
  /\ errors = 0

-----------------------------------------------------------------------------
(***************************************************************************)
(* The device.                                                             *)
(***************************************************************************)
(* The heart is filled and calls unlikePost if the copy has the user's     *)
(* like; the copy itself is not changed.                                   *)
Tap(u, likes) ==
  /\ taps < MaxTaps
  /\ (u \in post[u].likes) = ~likes
  /\ taps' = taps + 1
  /\ queue' = [queue EXCEPT ![u] = Append(@, [likes |-> likes, live |-> TRUE])]
  /\ UNCHANGED <<syncVars, shownVars, acks, asked, reads, errors>>

TapLike(u) == Tap(u, TRUE)
TapUnlike(u) == Tap(u, FALSE)

(* Mutant of After: "likes" is set to a list, as other fields are.         *)
Overwrites(doc, u, update) ==
  IF doc = NoDoc THEN NoDoc
  ELSE [doc EXCEPT !.likes = IF update.likes THEN {u} ELSE {}]

(* arrayUnion and arrayRemove.                                             *)
After(doc, u, update) ==
  IF doc = NoDoc THEN NoDoc
  ELSE [doc EXCEPT !.likes = IF update.likes THEN @ \union {u} ELSE @ \ {u}]

(* What u's device sees: the document, and its own updates over it.  They *)
(* are all about u's own like, so the last of them decides.                *)
View(u) == IF queue[u] = <<>> THEN firestore ELSE After(firestore, u, Last(queue[u]))

(* The service applies the next update; of a post that is gone it is       *)
(* refused, and the closure prints an error.                               *)
Commit(u) ==
  LET update == Head(queue[u]) IN
  /\ queue[u] # <<>>
  /\ queue' = [queue EXCEPT ![u] = Tail(@)]
  /\ Becomes(After(firestore, u, update))
  /\ acks' = [acks EXCEPT ![u] = IF update.live /\ firestore # NoDoc THEN @ + 1 ELSE @]
  /\ UNCHANGED <<shownVars, asked, reads, taps, errors>>

(* The update's closure: the document is read back.                        *)
Acknowledged(u) ==
  /\ acks[u] > 0
  /\ acks' = [acks EXCEPT ![u] = @ - 1]
  /\ asked' = [asked EXCEPT ![u] = @ + 1]
  /\ UNCHANGED <<syncVars, shownVars, queue, reads, taps, errors>>

ReadEvaluated(u) ==
  /\ asked[u] > 0
  /\ asked' = [asked EXCEPT ![u] = @ - 1]
  /\ reads' = [reads EXCEPT ![u] = Append(@, View(u))]
  /\ UNCHANGED <<syncVars, shownVars, queue, acks, taps, errors>>

ReadFails(u) ==
  /\ asked[u] > 0
  /\ errors < MaxErrors
  /\ errors' = errors + 1
  /\ asked' = [asked EXCEPT ![u] = @ - 1]
  /\ stale' = stale \union {u}
  /\ UNCHANGED <<syncVars, post, feed, queue, acks, reads, taps>>

(* The read's closure.  A document that is gone does not change the copy.  *)
ReadReply(u) ==
  LET doc == Head(reads[u]) IN
  /\ reads[u] # <<>>
  /\ reads' = [reads EXCEPT ![u] = Tail(@)]
  /\ post' = IF doc = NoDoc THEN post ELSE [post EXCEPT ![u] = doc]
  /\ UNCHANGED <<syncVars, feed, stale, queue, acks, asked, taps, errors>>

(* A device has nothing under way.                                         *)
Settled(u) == queue[u] = <<>> /\ acks[u] = 0 /\ asked[u] = 0 /\ reads[u] = <<>>

(* A new PostVM takes the row; closures of the old one change it no more.  *)
NewRow(u, doc) ==
  /\ post' = [post EXCEPT ![u] = doc]
  /\ queue' = [queue EXCEPT ![u] = [i \in DOMAIN @ |-> [@[i] EXCEPT !.live = FALSE]]]
  /\ acks' = [acks EXCEPT ![u] = 0]
  /\ asked' = [asked EXCEPT ![u] = 0]
  /\ reads' = [reads EXCEPT ![u] = <<>>]
  /\ UNCHANGED <<syncVars, taps, errors>>

(* The feed's body runs again, for whatever reason, and makes its rows from*)
(* what it loaded last.  With nothing under way and the row like the feed  *)
(* that changes nothing, and is a stuttering step.                         *)
Rebuild(u) ==
  /\ post[u] # feed[u] \/ ~Settled(u)
  /\ NewRow(u, feed[u])
  /\ stale' = stale \union {u}
  /\ UNCHANGED feed

(* loadPosts; the list is empty until it is answered.                      *)
Reload(u) ==
  /\ View(u) # NoDoc
  /\ NewRow(u, View(u))
  /\ feed' = [feed EXCEPT ![u] = View(u)]
  /\ stale' = stale \ {u}

-----------------------------------------------------------------------------
(***************************************************************************)
(* The poster's writes, as the service applies them.                       *)
(***************************************************************************)
Edit ==
  /\ firestore # NoDoc /\ firestore.text < MaxEdits
  /\ Becomes([firestore EXCEPT !.text = @ + 1])
  /\ UNCHANGED <<shownVars, queue, acks, asked, reads, taps, errors>>

Delete ==
  /\ firestore # NoDoc
  /\ Becomes(NoDoc)
  /\ UNCHANGED <<shownVars, queue, acks, asked, reads, taps, errors>>

Next ==
  \/ \E u \in Users :
       \/ TapLike(u) \/ TapUnlike(u) \/ Rebuild(u) \/ Reload(u)
       \/ Commit(u) \/ Acknowledged(u)
       \/ ReadEvaluated(u) \/ ReadFails(u) \/ ReadReply(u)
  \/ Edit
  \/ Delete
  \/ SyncNext /\ UNCHANGED <<shownVars, queue, acks, asked, reads, taps, errors>>

Spec == Init /\ [][Next]_vars

-----------------------------------------------------------------------------
(* Once a device has nothing under way, its heart shows whether the        *)
(* document has its user's like, however often it was tapped meanwhile and *)
(* whatever others did to the document; unless a read failed or the feed   *)
(* rebuilt the row from its old copy.                                      *)
HeartSettles ==
  \A u \in Users \ stale :
    Settled(u) /\ firestore # NoDoc => (u \in post[u].likes <=> u \in firestore.likes)

(* The invariant it rests on: the newest copy a device has or is about to  *)
(* be handed shows the like as the device sees it, unless an update of the *)
(* row is still to be committed or read back.                              *)
Newest(u) == IF reads[u] = <<>> THEN post[u] ELSE Last(reads[u])

ReadBack(u) ==
  /\ \A i \in DOMAIN queue[u] : ~queue[u][i].live
  /\ acks[u] = 0 /\ asked[u] = 0

HeartOK(u) ==
  /\ \A i \in DOMAIN reads[u] : reads[u][i] # NoDoc
  /\ u \notin stale /\ ReadBack(u) => (u \in Newest(u).likes <=> u \in View(u).likes)

HeartsOK == firestore # NoDoc => \A u \in Users : HeartOK(u)

LikesInv == TypeOK /\ SyncInv /\ HeartsOK
=============================================================================
