------------------------------ MODULE Posting ------------------------------
(***************************************************************************)
(* The life of a post on one device: the form's submission, the recursive  *)
(* upload of its pictures, its write to Firestore, and the feed that shows *)
(* it, reloads and deletes it.                                             *)
(*                                                                         *)
(* PostFormModal, FeedView      -> Submit, ReloadFeed, SwipeDelete         *)
(* FeedVM, FirestoreService     -> posts, calls and their replies          *)
(* StorageService/BatchUploader -> job: the upload chain of a submission   *)
(* Firestore, Firebase Storage  -> firestore, storage (external services)  *)
(*                                                                         *)
(* Every closure runs on the main queue, so a handler is one step; between *)
(* a call and its callback anything else may happen.                       *)
(***************************************************************************)
EXTENDS Naturals, FiniteSets, Sequences, SequencesExt, Functions

CONSTANTS
  Users,       \* accounts
  Posts,       \* post ids
  ImageCount,  \* pictures chosen in the form, per post
  Calls,       \* slots for outstanding feed calls: bounds how many overlap
  LateUsers,   \* accounts a late login may be for: bounds overlapping logins
  LossyPosts,  \* posts whose writes lost connections carry: bounds resending
  Searches,    \* what a filter or the search text may select: sets of posts
  NoUser,      \* FirebaseManager.shared.currentUser = nil
  NoDoc        \* no such document

ASSUME ConstantsAssumption ==
  /\ ImageCount \in [Posts -> Nat \ {0}]   \* imagesError: at least one image
  /\ IsFiniteSet(Posts)
  /\ LateUsers \subseteq Users
  /\ LossyPosts \subseteq Posts
  /\ Searches \subseteq SUBSET Posts
  /\ NoDoc \notin [posterId: Users, pictures: Seq([folder: Users, post: Posts, image: Nat])]
  /\ NoUser \notin Users

VARIABLES
  currentUser, \* FirebaseManager.shared.currentUser: lost when the app dies
  authUser,    \* Auth.auth().currentUser: restored when the app is launched
  viewer,      \* the user the tabs on the screen were opened for
  job,         \* per post, how far its submission got
  storage,     \* pictures in Firebase Storage
  firestore,   \* the documents of the collection Posts
  posts,       \* FeedVM.posts
  calls,       \* the feed's outstanding Firestore calls
  overlapped   \* history: in this feed's life an operation was started
               \* before the previous one had answered

vars == <<currentUser, authUser, viewer, job, storage, firestore, posts, calls, overlapped>>
sessionVars == <<currentUser, authUser, viewer>>
serverVars == <<storage, firestore>>
feedVars == <<posts, calls, overlapped>>

(***************************************************************************)
(* Data.  A picture's URL stands for the blob it names: the path is a      *)
(* fresh UUID below a folder named after the uploading account.            *)
(***************************************************************************)
Blob == [folder: Users, post: Posts, image: Nat]
Doc == [posterId: Users, pictures: Seq(Blob)]

(* The stages of a submission.  put, url: waiting for putData, downloadURL *)
(* of picture Len(urls) + 1; queued: setData is in the write pipeline;     *)
(* applied: there still, since it took effect but was not answered.        *)
Stages == {"idle", "put", "url", "queued", "applied", "stored", "rejected", "stalled"}
InFlight == {"put", "url"}
InPipeline == {"queued", "applied"}
Written == InPipeline \union {"stored", "rejected"}

(* account: the user the outstanding upload or write was made under.       *)
(* live: the feed that submitted the post is still on the screen.          *)
(* lost: a connection was lost while the write was in the pipeline.        *)
Job == [stage: Stages, poster: Users \union {NoUser},
        account: Users \union {NoUser}, urls: Seq(Blob), live: BOOLEAN, lost: BOOLEAN]
IdleJob == [stage |-> "idle", poster |-> NoUser, account |-> NoUser,
            urls |-> <<>>, live |-> FALSE, lost |-> FALSE]

Call == [op: {"free", "load", "delete"}, stage: {"sent", "ok", "failed"},
         post: Posts \union {NoDoc}, index: Nat,
         account: Users \union {NoUser}, result: Seq(Posts), live: BOOLEAN]
FreeCall == [op |-> "free", stage |-> "sent", post |-> NoDoc, index |-> 0,
             account |-> NoUser, result |-> <<>>, live |-> FALSE]

TypeOK ==
  /\ currentUser \in Users \union {NoUser}
  /\ authUser \in Users \union {NoUser}
  /\ viewer \in Users \union {NoUser}
  /\ job \in [Posts -> Job]
  /\ storage \subseteq Blob
  /\ firestore \in [Posts -> Doc \union {NoDoc}]
  /\ posts \in Seq(Posts)
  /\ calls \in [Calls -> Call]
  /\ overlapped \in BOOLEAN

Init ==
  /\ currentUser = NoUser
  /\ authUser = NoUser
  /\ viewer = NoUser
  /\ job = [p \in Posts |-> IdleJob]
  /\ storage = {}
  /\ firestore = [p \in Posts |-> NoDoc]
  /\ posts = <<>>
  /\ calls = [c \in Calls |-> FreeCall]
  /\ overlapped = FALSE

-----------------------------------------------------------------------------
(***************************************************************************)
(* Sessions, as the feed sees them.  The login that shows the tabs makes a *)
(* new FeedVM, whose init loads the posts; signing out drops it, but a     *)
(* callback may still hold it.  The login form does not wait for an answer *)
(* before it sends the next attempt: one that is answered after the tabs   *)
(* appeared changes the users under them, first Auth's, then the app's.    *)
(***************************************************************************)
FreshCall(op, u) == [FreeCall EXCEPT !.op = op, !.account = u, !.live = TRUE]

SignIn(u, c) ==
  /\ currentUser = NoUser
  /\ calls[c].op = "free"
  /\ currentUser' = u
  /\ authUser' = u
  /\ viewer' = u
  /\ posts' = <<>>
  /\ calls' = [calls EXCEPT ![c] = FreshCall("load", u)]
  /\ overlapped' = FALSE
  /\ UNCHANGED <<job, serverVars>>

LateSignIn(u) ==
  /\ authUser' = u
  /\ UNCHANGED <<currentUser, viewer, job, serverVars, feedVars>>

LateLogin(u) ==
  /\ currentUser # NoUser
  /\ currentUser' = u
  /\ UNCHANGED <<authUser, viewer, job, serverVars, feedVars>>

(* The feed leaves the screen: its loads answer to nobody any more, its    *)
(* deletes are in the write pipeline and stay there.                       *)
DropFeed ==
  /\ currentUser' = NoUser
  /\ viewer' = NoUser
  /\ posts' = <<>>
  /\ calls' = [c \in Calls |-> IF calls[c].op = "delete"
                               THEN [calls[c] EXCEPT !.live = FALSE] ELSE FreeCall]
  /\ overlapped' = FALSE

SignOut ==
  /\ currentUser # NoUser
  /\ authUser' = NoUser
  /\ job' = [p \in Posts |-> [job[p] EXCEPT !.live = FALSE]]
  /\ DropFeed
  /\ UNCHANGED serverVars

(* The app dies.  Upload chains live in closures and die with it; the      *)
(* write pipeline is on disk.                                              *)
Relaunch ==
  /\ job' = [p \in Posts |->
               [job[p] EXCEPT !.live = FALSE,
                              !.stage = IF @ \in InFlight THEN "stalled" ELSE @]]
  /\ DropFeed
  /\ UNCHANGED <<authUser, serverVars>>

Crash == Relaunch

-----------------------------------------------------------------------------
(***************************************************************************)
(* Submitting a post.                                                      *)
(***************************************************************************)

(* The feed waits for something: what the user starts now overlaps it.     *)
Busy == \/ \E c \in Calls : calls[c].op # "free" /\ calls[c].live
        \/ \E p \in Posts : job[p].stage \in InFlight /\ job[p].live

Stalled(j) == [j EXCEPT !.stage = "stalled"]

(* FirestoreService.addPost: the post is handed to the write pipeline and  *)
(* completion is called at once.                                           *)
AddPost(j) == IF currentUser = NoUser THEN Stalled(j)
              ELSE [j EXCEPT !.stage = "queued", !.account = authUser]

(* Mutant of AddImageHelper: stops one picture short.                      *)
StopsShort(p, j) ==
  IF Len(j.urls) + 1 >= ImageCount[p] THEN {AddPost(j)}
  ELSE {[j EXCEPT !.stage = "put", !.account = u] : u \in {currentUser} \ {NoUser}}

(* addImageHelper, and addPost as its final closure: the ways the          *)
(* submission j of p may continue.  It stalls where upload returns without *)
(* calling back: no JPEG data, nobody signed in.                           *)
AddImageHelper(p, j) ==
  IF Len(j.urls) = ImageCount[p] THEN {AddPost(j)}
  ELSE {Stalled(j)} \union
       {[j EXCEPT !.stage = "put", !.account = u] : u \in {currentUser} \ {NoUser}}

(* Mutant of Submit: the form can be sent again, as the same post.         *)
SubmitsAgain(p) ==
  /\ currentUser # NoUser
  /\ job[p].stage \notin InFlight
  /\ \E j \in AddImageHelper(p, [IdleJob EXCEPT !.poster = currentUser, !.live = TRUE]) :
        job' = [job EXCEPT ![p] = j]
  /\ overlapped' = (overlapped \/ Busy)
  /\ UNCHANGED <<sessionVars, serverVars, posts, calls>>

Submit(p) ==
  /\ currentUser # NoUser
  /\ job[p].stage = "idle"
  /\ \E j \in AddImageHelper(p, [IdleJob EXCEPT !.poster = currentUser, !.live = TRUE]) :
        job' = [job EXCEPT ![p] = j]
  /\ overlapped' = (overlapped \/ Busy)
  /\ UNCHANGED <<sessionVars, serverVars, posts, calls>>

(* The picture being uploaded.                                             *)
NextBlob(p) == [folder |-> job[p].account, post |-> p, image |-> Len(job[p].urls) + 1]

PutDone(p) ==
  /\ job[p].stage = "put"
  /\ storage' = storage \union {NextBlob(p)}
  /\ job' = [job EXCEPT ![p].stage = "url"]
  /\ UNCHANGED <<sessionVars, firestore, feedVars>>

(* Mutant of UploadFails: the chain starts over, whoever is signed in.     *)
Restarts(p) ==
  /\ job[p].stage \in InFlight
  /\ currentUser # NoUser
  /\ job' = [job EXCEPT ![p].stage = "put", ![p].urls = <<>>, ![p].account = currentUser]
  /\ UNCHANGED <<sessionVars, serverVars, feedVars>>

(* Mutant of UploadFails: one more try, without end.                       *)
Retries(p) ==
  /\ job[p].stage = "url"
  /\ job' = [job EXCEPT ![p].stage = "put"]
  /\ UNCHANGED <<sessionVars, serverVars, feedVars>>

(* An error is printed and nobody is called back.                          *)
UploadFails(p) ==
  /\ job[p].stage \in InFlight
  /\ job' = [job EXCEPT ![p] = Stalled(@)]
  /\ UNCHANGED <<sessionVars, serverVars, feedVars>>

UrlReady(p) ==
  /\ job[p].stage = "url"
  /\ \E j \in AddImageHelper(p, [job[p] EXCEPT !.urls = Append(@, NextBlob(p))]) :
       /\ job' = [job EXCEPT ![p] = j]
       /\ posts' = IF j.stage = "queued" /\ j.live THEN <<p>> \o posts ELSE posts
  /\ UNCHANGED <<sessionVars, serverVars, calls, overlapped>>

(* The document a submission's setData writes.                             *)
Post(p) == [posterId |-> job[p].poster, pictures |-> job[p].urls]

(* The pipeline of the account signed in holds a write of p.               *)
Serving(p) == job[p].stage \in InPipeline /\ job[p].account = authUser

(* Firestore applies a queued write of the account signed in, and the      *)
(* client hears of it; or it refuses the write, which may be one sent      *)
(* again that took effect before.                                          *)
Commit(p) ==
  /\ Serving(p)
  /\ job[p].stage = "queued"
  /\ firestore' = [firestore EXCEPT ![p] = Post(p)]
  /\ job' = [job EXCEPT ![p].stage = "applied"]
  /\ UNCHANGED <<sessionVars, storage, feedVars>>

Acknowledge(p) ==
  /\ Serving(p)
  /\ job[p].stage = "applied"
  /\ job' = [job EXCEPT ![p].stage = "stored"]
  /\ UNCHANGED <<sessionVars, serverVars, feedVars>>

Reject(p) ==
  /\ Serving(p)
  /\ job[p].stage = "applied" => job[p].lost
  /\ job' = [job EXCEPT ![p].stage = "rejected"]
  /\ UNCHANGED <<sessionVars, serverVars, feedVars>>

(* The write stream ends: with an error, with the app or with the account. *)
ConnectionLost ==
  /\ \E p \in LossyPosts : Serving(p)
  /\ job' = [p \in Posts |-> [job[p] EXCEPT !.lost = @ \/ (p \in LossyPosts /\ Serving(p))]]
  /\ UNCHANGED <<sessionVars, serverVars, feedVars>>

(* The next connection is sent the whole pipeline again, and what the lost *)
(* one carried may arrive later still: a write takes effect once more,     *)
(* whatever was answered to it and happened to the document meanwhile.     *)
TakesEffectAgain(p) ==
  /\ job[p].lost
  /\ firestore' = [firestore EXCEPT ![p] = Post(p)]
  /\ job' = [job EXCEPT ![p].stage = IF @ = "queued" THEN "applied" ELSE @]
  /\ UNCHANGED <<sessionVars, storage, feedVars>>

-----------------------------------------------------------------------------
(***************************************************************************)
(* Other devices run the same app: they publish and remove whole posts,    *)
(* and lose their connections.                                             *)
(***************************************************************************)
RemoteBlobs(u, p) == [i \in 1 .. ImageCount[p] |-> [folder |-> u, post |-> p, image |-> i]]

RemotePublish(u, p) ==
  /\ job[p].stage = "idle"
  /\ storage' = storage \union {RemoteBlobs(u, p)[i] : i \in 1 .. ImageCount[p]}
  /\ \E lost \in {l \in BOOLEAN : l => p \in LossyPosts} :
       job' = [job EXCEPT ![p].stage = "stored", ![p].poster = u,
                          ![p].urls = RemoteBlobs(u, p), ![p].lost = lost]
  /\ firestore' = [firestore EXCEPT ![p] = [posterId |-> u, pictures |-> RemoteBlobs(u, p)]]
  /\ UNCHANGED <<sessionVars, feedVars>>

RemoteDelete(p) ==
  /\ firestore[p] # NoDoc
  /\ firestore' = [firestore EXCEPT ![p] = NoDoc]
  /\ UNCHANGED <<sessionVars, storage, job, feedVars>>

-----------------------------------------------------------------------------
(***************************************************************************)
(* The feed.                                                               *)
(***************************************************************************)

(* What a query sees: the server's documents under the local writes of the *)
(* account signed in that are still in the pipeline.                       *)
LocalView ==
  ({p \in Posts : firestore[p] # NoDoc}
     \union {p \in Posts : Serving(p)})
  \ {calls[c].post : c \in {d \in Calls : /\ calls[d].op = "delete"
                                          /\ calls[d].stage = "sent"
                                          /\ calls[d].account = authUser}}

(* Mutant of ReloadFeed: the list is not emptied first.                    *)
KeepsRows(c) ==
  /\ currentUser # NoUser
  /\ calls[c].op = "free"
  /\ UNCHANGED <<sessionVars, job, serverVars, posts>>
  /\ calls' = [calls EXCEPT ![c] = FreshCall("load", authUser)]
  /\ overlapped' = (overlapped \/ Busy)

(* The refresh button and the filter form.                                 *)
ReloadFeed(c) ==
  /\ currentUser # NoUser
  /\ calls[c].op = "free"
  /\ UNCHANGED <<sessionVars, job, serverVars>>
  /\ posts' = <<>>
  /\ calls' = [calls EXCEPT ![c] = FreshCall("load", authUser)]
  /\ overlapped' = (overlapped \/ Busy)

LoadRead(c) ==
  /\ calls[c].op = "load"
  /\ calls[c].stage = "sent"
  /\ \E M \in Searches : \E found \in SetToSeqs(LocalView \intersect M) :
        calls' = [calls EXCEPT ![c].stage = "ok", ![c].result = found]
  /\ UNCHANGED <<sessionVars, job, serverVars, posts, overlapped>>

LoadReply(c) ==
  /\ calls[c].op = "load"
  /\ calls[c].stage = "ok"
  /\ posts' = posts \o calls[c].result
  /\ calls' = [calls EXCEPT ![c] = FreeCall]
  /\ UNCHANGED <<sessionVars, job, serverVars, overlapped>>

LoadFails(c) ==
  /\ calls[c].op = "load"
  /\ calls[c].stage = "sent"
  /\ calls' = [calls EXCEPT ![c] = FreeCall]
  /\ UNCHANGED <<sessionVars, job, serverVars, posts, overlapped>>

(* FeedView.searchedPosts when the search text matches the posts M.        *)
Searched(M) == SelectSeq(posts, LAMBDA p : p \in M)

(* Mutant of SwipeDelete: deletes the row's own post at the row's offset.  *)
RowOffset(c, i, M) ==
  /\ currentUser # NoUser
  /\ calls[c].op = "free"
  /\ i \in DOMAIN Searched(M)
  /\ job[Searched(M)[i]].poster = currentUser
  /\ UNCHANGED <<sessionVars, job, serverVars, posts>>
  /\ calls' = [calls EXCEPT ![c] = [FreshCall("delete", authUser) EXCEPT !.post = Searched(M)[i], !.index = i]]
  /\ overlapped' = (overlapped \/ Busy)

(* Row i of the searched list is swiped.  It let itself be swiped because  *)
(* its poster was signed in when it was drawn, which may be before a late  *)
(* login.  delete(at:) takes the row's offset for one of the whole list;   *)
(* FeedVM.deletePost then notes where the post there is, and the service   *)
(* ignores the call unless that post is the current user's.                *)
SwipeDelete(c, i, M) ==
  /\ currentUser # NoUser
  /\ calls[c].op = "free"
  /\ i \in DOMAIN Searched(M)
  /\ job[Searched(M)[i]].poster \in {viewer, currentUser}
  /\ job[posts[i]].poster = currentUser
  /\ UNCHANGED <<sessionVars, job, serverVars, posts>>
  /\ \E index \in 1 .. i :
       /\ posts[index] = posts[i]
       /\ \A k \in 1 .. index - 1 : posts[k] # posts[i]
       /\ calls' = [calls EXCEPT ![c] = [FreshCall("delete", authUser) EXCEPT !.post = posts[i], !.index = index]]
  /\ overlapped' = (overlapped \/ Busy)

(* The pipeline is answered in order, and the rules let only the poster of *)
(* an existing document delete it.                                         *)
DeleteCommit(c) ==
  /\ calls[c].op = "delete"
  /\ calls[c].stage = "sent"
  /\ calls[c].account = authUser
  /\ ~Serving(calls[c].post)
  /\ firestore[calls[c].post] # NoDoc
  /\ firestore[calls[c].post].posterId = authUser
  /\ firestore' = [firestore EXCEPT ![calls[c].post] = NoDoc]
  /\ calls' = [calls EXCEPT ![c].stage = "ok"]
  /\ UNCHANGED <<sessionVars, job, storage, posts, overlapped>>

DeleteFails(c) ==
  /\ calls[c].op = "delete"
  /\ calls[c].stage = "sent"
  /\ calls[c].account = authUser
  /\ ~Serving(calls[c].post)
  /\ calls' = [calls EXCEPT ![c].stage = "failed"]
  /\ UNCHANGED <<sessionVars, job, serverVars, posts, overlapped>>

(* Mutant of DeleteReply: an error is never reported.                      *)
SilentError(c) ==
  /\ calls[c].op = "delete"
  /\ calls[c].stage = "ok"
  /\ calls[c].index \in DOMAIN posts
  /\ posts' = RemoveAt(posts, calls[c].index)
  /\ calls' = [calls EXCEPT ![c] = FreeCall]
  /\ UNCHANGED <<sessionVars, job, serverVars, overlapped>>

(* deletePost answers completion(false) and then completion(true) after an *)
(* error: the feed removes the row at the index it noted, in both cases,   *)
(* and traps when there is no such row any more.                           *)
DeleteReply(c) ==
  /\ calls[c].op = "delete"
  /\ calls[c].stage \in {"ok", "failed"}
  /\ calls[c].live => calls[c].index \in DOMAIN posts
  /\ posts' = IF calls[c].live THEN RemoveAt(posts, calls[c].index) ELSE posts
  /\ calls' = [calls EXCEPT ![c] = FreeCall]
  /\ UNCHANGED <<sessionVars, job, serverVars, overlapped>>

DeleteTraps(c) ==
  /\ calls[c].op = "delete"
  /\ calls[c].stage \in {"ok", "failed"}
  /\ calls[c].live
  /\ calls[c].index \notin DOMAIN posts
  /\ Relaunch

-----------------------------------------------------------------------------
(* What the services do by themselves, and what users do.                  *)
Upload(p) == PutDone(p) \/ UploadFails(p) \/ UrlReady(p)
Write(p) == Commit(p) \/ Acknowledge(p) \/ Reject(p)
Answer(c) == \/ LoadRead(c) \/ LoadReply(c) \/ LoadFails(c)
             \/ DeleteCommit(c) \/ DeleteFails(c) \/ DeleteReply(c) \/ DeleteTraps(c)

Next ==
  \/ \E u \in Users, c \in Calls : SignIn(u, c)
  \/ \E u \in LateUsers : LateSignIn(u) \/ LateLogin(u)
  \/ SignOut
  \/ Crash
  \/ ConnectionLost
  \/ \E p \in Posts : Submit(p) \/ Upload(p) \/ Write(p) \/ TakesEffectAgain(p) \/ RemoteDelete(p)
  \/ \E u \in Users, p \in Posts : RemotePublish(u, p)
  \/ \E c \in Calls : ReloadFeed(c) \/ Answer(c)
  \/ \E c \in Calls, i \in DOMAIN posts, M \in Searches : SwipeDelete(c, i, M)

Spec == Init /\ [][Next]_vars

(* The SDKs answer every upload and query in the end, with an error if     *)
(* need be; the pipeline answers while its account is signed in.  Nothing  *)
(* is assumed of users, and nothing of crashes.                            *)
Fairness ==
  /\ \A p \in Posts : WF_vars(Upload(p)) /\ WF_vars(Write(p))
  /\ \A c \in Calls : WF_vars(Answer(c))

FairSpec == Spec /\ Fairness

-----------------------------------------------------------------------------
(***************************************************************************)
(* Properties.                                                             *)
(***************************************************************************)

(* Whatever chain of callbacks, logouts and crashes led to it, a document  *)
(* of Posts carries every chosen picture, in the chosen order, each one    *)
(* present in Storage, and the poster of the form it came from:            *)
(* addImageHelper calls finalCompletion only after the last URL.           *)
PublishedWhole ==
  \A p \in Posts : firestore[p] # NoDoc =>
    /\ firestore[p].posterId = job[p].poster
    /\ Len(firestore[p].pictures) = ImageCount[p]
    /\ \A i \in 1 .. ImageCount[p] :
         /\ firestore[p].pictures[i] \in storage
         /\ firestore[p].pictures[i].post = p
         /\ firestore[p].pictures[i].image = i

(* A submission that reached its end left no picture in Storage that the   *)
(* post does not show: only submissions cut short leak uploads.            *)
NoOrphanAfterSuccess ==
  \A b \in storage : job[b.post].stage \in {"queued", "applied", "stored"}
                       => b \in Range(job[b.post].urls)

(* FeedVM.deletePost notes an index and uses it when the server answers.   *)
(* As long as the user waits for each answer before starting something     *)
(* else in the feed, that index still names the swiped post.               *)
FreshIndex ==
  ~overlapped =>
    \A c \in Calls : calls[c].op = "delete" /\ calls[c].live =>
      /\ calls[c].index \in DOMAIN posts
      /\ posts[calls[c].index] = calls[c].post

(* The same discipline keeps a post from being listed twice, although a    *)
(* load appends to what is there and a submission inserts its own post.    *)
NoDuplicates == ~overlapped => IsInjective(posts)

(* The collection Posts evolves as PostBoard says: what a submission wrote *)
(* appears whole, the same each time, and once its write is answered on    *)
(* the only connection that carried it, its removal is for good.           *)
Board == INSTANCE PostBoard WITH
  board <- firestore,
  written <- [p \in Posts |-> IF job[p].stage \in Written THEN Post(p) ELSE NoDoc],
  settled <- {p \in Posts : job[p].stage = "stored" /\ ~job[p].lost}
ImplementsBoard == Board!Spec

(* With the same account signed in from some moment on, every submission   *)
(* comes to an end: published, refused or dropped by one of the silent     *)
(* returns of upload; only what was queued under another account waits.    *)
SubmissionEnds ==
  \A p \in Posts, u \in Users : <>[](authUser = u) =>
    ((job[p].stage \in InFlight)
       ~> \/ job[p].stage \in {"stored", "rejected", "stalled"}
          \/ (job[p].stage \in InPipeline /\ job[p].account # u))

(* The feed gets over every load, and over every delete of the account     *)
(* that stays signed in, unless it leaves the screen first.                *)
CallsEnd ==
  \A c \in Calls, u \in Users : <>[](authUser = u) =>
    ((calls[c].live /\ (calls[c].op = "delete" => calls[c].account = u))
       ~> ~calls[c].live)

-----------------------------------------------------------------------------
(***************************************************************************)
(* What the proofs of these properties rest on.                            *)
(***************************************************************************)

(* A chain has every URL it asked for so far, in order, and is queued when *)
(* it has them all; a document is what its submission queued.              *)
ChainOK(p) ==
  /\ job[p].stage # "idle" => job[p].poster \in Users
  /\ job[p].stage \in InFlight => /\ job[p].account \in Users
                                  /\ Len(job[p].urls) < ImageCount[p]
  /\ job[p].stage = "url" => NextBlob(p) \in storage
  /\ job[p].stage \in Written => Len(job[p].urls) = ImageCount[p]
  /\ job[p].lost => job[p].stage \in Written
  /\ \A i \in 1 .. Len(job[p].urls) :
       /\ job[p].urls[i] \in storage
       /\ job[p].urls[i].post = p
       /\ job[p].urls[i].image = i
  /\ firestore[p] # NoDoc =>
       /\ job[p].stage \in {"applied", "stored", "rejected"}
       /\ firestore[p] = Post(p)

ChainInv == TypeOK /\ \A p \in Posts : ChainOK(p)

(* Only a feed on the screen has something live.  Without overlap it is    *)
(* one thing at a time: a call or submissions.                             *)
LiveInFlight(p) == job[p].live /\ job[p].stage \in InFlight

FeedInv ==
  /\ currentUser = NoUser => /\ \A c \in Calls : ~calls[c].live
                             /\ \A p \in Posts : ~job[p].live
  /\ \A c \in Calls : /\ calls[c].op = "free" => ~calls[c].live
                      /\ calls[c].op = "load" => calls[c].live
  /\ ~overlapped => \A c \in Calls : calls[c].live =>
       /\ \A d \in Calls : calls[d].live => d = c
       /\ \A p \in Posts : ~LiveInFlight(p)
  /\ FreshIndex

(* What Storage holds of a post: the URLs the chain has, and, while it     *)
(* asks for the next URL, the picture it belongs to; nothing before the    *)
(* form is sent.  Only a chain cut short may have left more.               *)
OrphanOK(p) ==
  \A b \in storage : b.post = p =>
    /\ job[p].stage # "idle"
    /\ job[p].stage \in {"put", "queued", "applied", "stored"} => b \in Range(job[p].urls)
    /\ job[p].stage = "url" => b \in Range(job[p].urls) \union {NextBlob(p)}

OrphanInv == \A p \in Posts : OrphanOK(p)

(* What is listed, or about to be, has been handed to the pipeline; and    *)
(* without overlap a load answers to an empty list.                        *)
HandedOver == {p \in Posts : job[p].stage \in Written}

RowsInv ==
  /\ Range(posts) \subseteq HandedOver
  /\ \A c \in Calls : calls[c].op = "load" =>
       /\ IsInjective(calls[c].result)
       /\ Range(calls[c].result) \subseteq HandedOver
       /\ ~overlapped => posts = <<>>
  /\ NoDuplicates
=============================================================================
