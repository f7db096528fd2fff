------------------------------ MODULE PostEdit ------------------------------
(***************************************************************************)
(* The edit form of a post: the poster changes the text, removes pictures  *)
(* and adds some, and saves, several times.                                *)
(*                                                                         *)
(* PostVM, PostEditModal        -> post, form                              *)
(* FeedVM.posts                 -> feed, the copy rows are built from      *)
(* StorageService.addImages     -> uploads, a chain for each save          *)
(* StorageService.deleteImages  -> deletions, a forking chain for each save*)
(* FirestoreService.modifyPost  -> queue, foreign, asked, reads            *)
(* FirebaseManager, Auth        -> currentUser, authUser: a login answered *)
(*                                 late changes them under the open form   *)
(***************************************************************************)
EXTENDS Naturals, Sequences, SequencesExt, Functions

CONSTANTS
  Texts,      \* what the field "text" may hold, for all the plain fields
  Same,       \* the update leaves "text" alone
  N,          \* pictures of the post as published
  MaxSaves,   \* bound: taps on Save
  MaxAdded,   \* bound: pictures added in one form
  MaxPictures, \* bound: pictures a form may list with those
  MaxFaults   \* bound: errors, logouts, crashes and steps of late logins

ASSUME EditAssumption ==
  /\ Texts # {} /\ Same \notin Texts
  /\ {N, MaxSaves, MaxAdded, MaxPictures, MaxFaults} \subseteq Nat

(* A picture is named after the save that uploaded it; 0 published it.     *)
Pictures == [save: 0 .. MaxSaves, nr: 1 .. N + MaxAdded]
Added(s, n) == [i \in 1 .. n |-> [save |-> s, nr |-> i]]
Docs == [text: Texts, pictures: Seq(Pictures)]

Forms == [text: Texts, editImages: Seq(Pictures), imagesToDelete: Seq(Pictures),
          additionalImages: 0 .. MaxAdded]
Updates == [text: Texts \union {Same}, pictures: Seq(Pictures), live: BOOLEAN]
(* urls of the images are uploaded; newImages and text are what the closure*)
(* of addImages captured.  live: its row is still on the screen.           *)
Uploads == [save: 1 .. MaxSaves, images: 1 .. MaxAdded, urls: 0 .. MaxAdded,
            newImages: Seq(Pictures), text: Texts \union {Same}, live: BOOLEAN]
(* Per picture of urls, the deletions sent and not answered.               *)
Deletions == [save: 1 .. MaxSaves, urls: Seq(Pictures), pending: Seq(Nat)]

(* The poster, and whoever else logs in on the device.                     *)
Accounts == {"poster", "other"}

VARIABLES
  currentUser, \* FirebaseManager.shared.currentUser, or "nobody"
  authUser,   \* Auth's user, whose pipeline is served, or "nobody"
  firestore,  \* the document
  stored,     \* pictures in Storage
  post,       \* PostVM.post
  feed,       \* the feed's copy
  editable,   \* the row was built for the poster: it has the form
  form,       \* the editable fields of PostVM
  saves,      \* saves so far
  uploads,    \* chains of uploads under way
  deletions,  \* chains of deletions under way
  queue,      \* updates in the poster's write pipeline
  foreign,    \* updates in that of the other account
  asked,      \* acknowledged updates whose read has not been evaluated
  reads,      \* what getDocument yielded, closures not run
  outdated,   \* history: the row was not built from what the post will be
  misled,     \* history: such a row was saved
  lost,       \* history: the update of a save was refused, or dropped beside
              \* its deletions, or went into the pipeline of the other account
  overlapped, \* history: a save before the last one was through
  saved,      \* history: what the last save said the post should be
  added,      \* history: a save added pictures
  faults      \* errors, logouts, crashes and steps of late logins so far

session == <<currentUser, authUser>>
row == <<post, form, editable>>
chains == <<uploads, deletions>>
pipelines == <<queue, foreign>>
answers == <<asked, reads>>
history == <<misled, overlapped, saved, added>>
vars == <<session, firestore, stored, row, feed, saves, chains, pipelines,
          answers, outdated, history, lost, faults>>

TypeOK ==
  /\ {currentUser, authUser} \subseteq Accounts \union {"nobody"}
  /\ {firestore, post, feed, saved} \subseteq Docs
  /\ stored \subseteq Pictures
  /\ form \in Forms
  /\ saves \in 0 .. MaxSaves
  /\ uploads \subseteq Uploads /\ deletions \subseteq Deletions
  /\ queue \in Seq(Updates) /\ foreign \in Seq(Updates)
  /\ asked \in Nat /\ reads \in Seq(Docs)
  /\ {editable, outdated, misled, lost, overlapped, added} \subseteq BOOLEAN
  /\ faults \in 0 .. MaxFaults

(* PostVM.init.                                                            *)
NewForm(doc) == [text |-> doc.text, editImages |-> doc.pictures,
                 imagesToDelete |-> <<>>, additionalImages |-> 0]

(* The post has been published and loaded.                                 *)
Init ==
  /\ currentUser = "poster" /\ authUser = "poster"
  /\ firestore \in [text: Texts, pictures: {Added(0, N)}]
  /\ stored = Range(firestore.pictures)
  /\ post = firestore /\ feed = firestore /\ saved = firestore
  /\ form = NewForm(firestore) /\ editable = TRUE
  /\ saves = 0
  /\ uploads = {} /\ deletions = {}
  /\ queue = <<>> /\ foreign = <<>> /\ asked = 0 /\ reads = <<>>
  /\ outdated = FALSE /\ misled = FALSE /\ lost = FALSE
  /\ overlapped = FALSE /\ added = FALSE
  /\ faults = 0

-----------------------------------------------------------------------------
(***************************************************************************)
(* The form.                                                               *)
(***************************************************************************)
(* An open form stays open when the user changes under it.  Bounded by     *)
(* MaxSaves: what is never saved changes nothing.                          *)
CanEdit == currentUser # "nobody" /\ editable /\ saves < MaxSaves

FormOnly == UNCHANGED <<session, firestore, stored, post, editable, feed, saves, chains,
                        pipelines, answers, outdated, history, lost, faults>>

EditText(t) ==
  /\ CanEdit /\ t # form.text
  /\ form' = [form EXCEPT !.text = t]
  /\ FormOnly

(* Mutant of DeleteImages: the list is set, not appended to.               *)
ForgetsEarlier(selected) ==
  /\ CanEdit
  /\ \E retain \in SetToSeqs(Range(form.editImages) \ selected),
        gone \in SetToSeqs(selected) :
       form' = [form EXCEPT !.editImages = retain, !.imagesToDelete = gone]
  /\ FormOnly

(* The pictures tapped and the button under them.  What is kept passes     *)
(* through a Set and comes back in any order.                              *)
DeleteImages(selected) ==
  /\ CanEdit
  /\ \E retain \in SetToSeqs(Range(form.editImages) \ selected),
        gone \in SetToSeqs(selected) :
       form' = [form EXCEPT !.editImages = retain, !.imagesToDelete = @ \o gone]
  /\ FormOnly

(* There is no way to take one out again.                                  *)
AddImage ==
  /\ CanEdit /\ form.additionalImages < MaxAdded
  /\ Len(form.editImages) + form.additionalImages < MaxPictures
  /\ form' = [form EXCEPT !.additionalImages = @ + 1]
  /\ FormOnly

(* The guards of modifyPost look at currentUser; where updateData puts the *)
(* update is a matter of Auth's user.                                      *)
InOwnName == currentUser = "poster" /\ authUser = "poster"
InAnothersName == currentUser = "poster" /\ authUser # "poster"

ModifyPost(pictures, text, live) ==
  LET update == [text |-> text, pictures |-> pictures, live |-> live] IN
  /\ queue' = IF InOwnName THEN Append(queue, update) ELSE queue
  /\ foreign' = IF InAnothersName THEN Append(foreign, update) ELSE foreign

(* Mutant of NewUpload: adds to the pictures of the copy, not of the form. *)
AddsToCopy(s, newImages, text) ==
  [save |-> s, images |-> form.additionalImages, urls |-> 0,
   newImages |-> post.pictures, text |-> text, live |-> TRUE]

NewUpload(s, newImages, text) ==
  [save |-> s, images |-> form.additionalImages, urls |-> 0,
   newImages |-> newImages, text |-> text, live |-> TRUE]

NewDeletion(s, urls) ==
  IF urls = <<>> THEN {}
  ELSE {[save |-> s, urls |-> urls, pending |-> [i \in DOMAIN urls |-> IF i = 1 THEN 1 ELSE 0]]}

(* Mutant of EditedText: compares with the feed's copy.                    *)
ComparesWithFeed == IF feed.text # form.text THEN form.text ELSE Same

(* Of the plain fields, only what differs from the copy is written.        *)
EditedText == IF post.text # form.text THEN form.text ELSE Same

(* Every answer to earlier saves has come.                                 *)
Answered == uploads = {} /\ queue = <<>> /\ foreign = <<>> /\ asked = 0 /\ reads = <<>>

(* editPostAndImages: with additional images it returns before anything is *)
(* deleted, and writes the post when they are uploaded.  deleteImages and  *)
(* addImages ask for some user, modifyPost for the poster.                 *)
Save ==
  /\ CanEdit
  /\ saves' = saves + 1
  /\ IF form.additionalImages > 0
     THEN /\ uploads' = uploads \union {NewUpload(saves', form.editImages, EditedText)}
          /\ UNCHANGED <<deletions, pipelines, lost>>
     ELSE /\ ModifyPost(form.editImages, EditedText, TRUE)
          /\ lost' = (lost \/ ~InOwnName)
          /\ deletions' = deletions \union NewDeletion(saves', form.imagesToDelete)
          /\ UNCHANGED uploads
  /\ misled' = (misled \/ outdated)
  /\ overlapped' = (overlapped \/ ~Answered)
  /\ added' = (added \/ form.additionalImages > 0)
  /\ saved' = [text |-> form.text,
               pictures |-> form.editImages \o Added(saves', form.additionalImages)]
  /\ UNCHANGED <<session, firestore, stored, row, feed, answers, outdated, faults>>

-----------------------------------------------------------------------------
(***************************************************************************)
(* Storage.                                                                *)
(***************************************************************************)
NextPicture(c) == [save |-> c.save, nr |-> c.urls + 1]

(* addImageHelper after putData and downloadURL: the next image, which     *)
(* needs a user, or the closure of editPostAndImages.                      *)
UploadDone(c) ==
  /\ stored' = stored \union {NextPicture(c)}
  /\ IF c.urls + 1 < c.images
     THEN /\ uploads' = (uploads \ {c}) \union
                        (IF currentUser # "nobody" THEN {[c EXCEPT !.urls = @ + 1]} ELSE {})
          /\ UNCHANGED <<pipelines, lost>>
     ELSE /\ uploads' = uploads \ {c}
          /\ ModifyPost(c.newImages \o Added(c.save, c.images), c.text, c.live)
          /\ lost' = (lost \/ InAnothersName)
  /\ UNCHANGED <<session, firestore, row, feed, saves, deletions, answers,
                 outdated, history, faults>>

(* An error of putData, or of downloadURL: the picture is there.           *)
UploadFails(c) ==
  /\ faults < MaxFaults
  /\ faults' = faults + 1
  /\ stored' \in {stored, stored \union {NextPicture(c)}}
  /\ uploads' = uploads \ {c}
  /\ UNCHANGED <<session, firestore, row, feed, saves, deletions, pipelines,
                 answers, outdated, history, lost>>

(* deleteImageHelper, its completion called so often for picture i.        *)
DeleteImageHelper(d, i, calls) ==
  LET pending == [j \in DOMAIN d.urls |-> CASE j = i     -> d.pending[j] - 1
                                            [] j = i + 1 -> d.pending[j] + calls
                                            [] OTHER     -> d.pending[j]]
  IN deletions' = (deletions \ {d}) \union
                  (IF Range(pending) = {0} THEN {} ELSE {[d EXCEPT !.pending = pending]})

PictureDeleted(d, i) ==
  /\ d.pending[i] > 0 /\ d.urls[i] \in stored
  /\ stored' = stored \ {d.urls[i]}
  /\ DeleteImageHelper(d, i, 1)
  /\ UNCHANGED <<session, firestore, row, feed, saves, uploads, pipelines,
                 answers, outdated, history, lost, faults>>

(* After an error BatchUploader.delete calls its completion twice.  That   *)
(* the picture is gone already is no fault.                                *)
DeletionFails(d, i) ==
  /\ d.pending[i] > 0
  /\ IF d.urls[i] \in stored
     THEN faults < MaxFaults /\ faults' = faults + 1
     ELSE UNCHANGED faults
  /\ DeleteImageHelper(d, i, 2)
  /\ UNCHANGED <<session, firestore, stored, row, feed, saves, uploads,
                 pipelines, answers, outdated, history, lost>>

-----------------------------------------------------------------------------
(***************************************************************************)
(* Firestore.                                                              *)
(***************************************************************************)
After(doc, update) ==
  [text |-> IF update.text = Same THEN doc.text ELSE update.text,
   pictures |-> update.pictures]

(* What a device sees that has these updates in the pipeline it serves.    *)
Pictured(pipeline) ==
  IF pipeline = <<>> THEN firestore.pictures ELSE Last(pipeline).pictures

View(pipeline) ==
  LET last == SelectLastInSeq(pipeline, LAMBDA update : update.text # Same)
  IN [text |-> IF last = 0 THEN firestore.text ELSE pipeline[last].text,
      pictures |-> Pictured(pipeline)]

Pipeline(user) == CASE user = "poster" -> queue
                    [] user = "other"  -> foreign
                    [] user = "nobody" -> <<>>

Seen(user) == View(Pipeline(user))

(* What the post will be when the poster's updates have been applied.      *)
Listed == Pictured(queue)
Eventual == View(queue)

Served == Pipeline(authUser)

Dequeue ==
  \/ authUser = "poster" /\ queue' = Tail(queue) /\ UNCHANGED foreign
  \/ authUser = "other" /\ foreign' = Tail(foreign) /\ UNCHANGED queue

(* The update is applied; its closure reads the document back.             *)
Commit ==
  /\ Served # <<>>
  /\ firestore' = After(firestore, Head(Served))
  /\ Dequeue
  /\ asked' = IF Head(Served).live THEN asked + 1 ELSE asked
  /\ UNCHANGED <<session, stored, row, feed, saves, chains, reads,
                 outdated, history, lost, faults>>

(* It is refused: the closure returns, and what was deleted is deleted.    *)
Refuse ==
  /\ Served # <<>> /\ faults < MaxFaults
  /\ faults' = faults + 1
  /\ Dequeue
  /\ lost' = TRUE
  /\ UNCHANGED <<session, firestore, stored, row, feed, saves, chains, answers,
                 outdated, history>>

ReadEvaluated ==
  /\ asked > 0
  /\ asked' = asked - 1
  /\ reads' = Append(reads, Seen(authUser))
  /\ UNCHANGED <<session, firestore, stored, row, feed, saves, chains,
                 pipelines, outdated, history, lost, faults>>

(* The row keeps its old copy.                                             *)
ReadFails ==
  /\ asked > 0 /\ faults < MaxFaults
  /\ faults' = faults + 1
  /\ asked' = asked - 1
  /\ outdated' = TRUE
  /\ UNCHANGED <<session, firestore, stored, row, feed, saves, chains,
                 pipelines, reads, history, lost>>

(* The closure changes the copy and not the form.                          *)
ReadReply ==
  /\ reads # <<>>
  /\ post' = Head(reads)
  /\ reads' = Tail(reads)
  /\ UNCHANGED <<session, firestore, stored, form, editable, feed, saves, chains,
                 pipelines, asked, outdated, history, lost, faults>>

-----------------------------------------------------------------------------
(***************************************************************************)
(* The row, the session and the process.                                   *)
(***************************************************************************)
(* Closures of a PostVM without a row go on, and change nothing any more.  *)
Detached == {[c EXCEPT !.live = FALSE] : c \in uploads}
Detach(pipeline) == [i \in DOMAIN pipeline |-> [pipeline[i] EXCEPT !.live = FALSE]]

(* A new PostVM takes the row, which shows this user the form or not.      *)
NewRow(doc, user) ==
  /\ post' = doc
  /\ form' = NewForm(doc)
  /\ editable' = (user = "poster")
  /\ queue' = Detach(queue) /\ foreign' = Detach(foreign)
  /\ asked' = 0
  /\ reads' = <<>>
  /\ outdated' = (doc # Eventual \/ uploads # {})

(* The body of FeedView runs again; the form, if open, is gone.            *)
Rebuild ==
  /\ currentUser # "nobody"
  /\ NewRow(feed, currentUser)
  /\ uploads' = Detached
  /\ UNCHANGED <<session, firestore, stored, feed, saves, deletions, history, lost, faults>>

(* loadPosts; the list is empty until it is answered.                      *)
Reload ==
  /\ currentUser # "nobody"
  /\ feed' = Seen(authUser)
  /\ NewRow(feed', currentUser)
  /\ uploads' = Detached
  /\ UNCHANGED <<session, firestore, stored, saves, deletions, history, lost, faults>>

(* The tabs leave the screen.                                              *)
SignOut ==
  /\ currentUser # "nobody" /\ faults < MaxFaults
  /\ faults' = faults + 1
  /\ currentUser' = "nobody" /\ authUser' = "nobody"
  /\ NewRow(feed, "nobody")
  /\ uploads' = Detached
  /\ UNCHANGED <<firestore, stored, feed, saves, deletions, history, lost>>

(* The login that shows the tabs, whose feed loads the post.               *)
SignIn(user) ==
  /\ currentUser = "nobody"
  /\ currentUser' = user /\ authUser' = user
  /\ feed' = Seen(user)
  /\ NewRow(feed', user)
  /\ uploads' = Detached
  /\ UNCHANGED <<firestore, stored, saves, deletions, history, lost, faults>>

(* A login answered when the tabs are there: first Auth's user changes,    *)
(* then, if nothing failed, the app's.                                     *)
LateSignIn(user) ==
  /\ authUser # user /\ faults < MaxFaults
  /\ faults' = faults + 1
  /\ authUser' = user
  /\ UNCHANGED <<currentUser, firestore, stored, row, feed, saves, chains,
                 pipelines, answers, outdated, history, lost>>

LateLogin(user) ==
  /\ currentUser \notin {user, "nobody"} /\ faults < MaxFaults
  /\ faults' = faults + 1
  /\ currentUser' = user
  /\ UNCHANGED <<authUser, firestore, stored, row, feed, saves, chains,
                 pipelines, answers, outdated, history, lost>>

(* The pipelines and Auth's user are on disk, the chains are not.          *)
Crash ==
  /\ faults < MaxFaults
  /\ faults' = faults + 1
  /\ currentUser' = "nobody"
  /\ NewRow(feed, "nobody")
  /\ uploads' = {} /\ deletions' = {}
  /\ UNCHANGED <<authUser, firestore, stored, feed, saves, history, lost>>

Next ==
  \/ \E t \in Texts : EditText(t)
  \/ \E selected \in SUBSET Range(form.editImages) : DeleteImages(selected)
  \/ AddImage \/ Save
  \/ \E c \in uploads : UploadDone(c) \/ UploadFails(c)
  \/ \E d \in deletions : \E i \in DOMAIN d.urls : PictureDeleted(d, i) \/ DeletionFails(d, i)
  \/ Commit \/ Refuse \/ ReadEvaluated \/ ReadFails \/ ReadReply
  \/ Rebuild \/ Reload \/ SignOut \/ Crash
  \/ \E user \in Accounts : SignIn(user) \/ LateSignIn(user) \/ LateLogin(user)

Spec == Init /\ [][Next]_vars

-----------------------------------------------------------------------------
Settled == Answered /\ deletions = {}

(* The post never comes to list a picture that is deleted or being deleted *)
(* and gone, however saves, uploads, errors, logouts and crashes fall:     *)
(* editPostAndImages deletes only what no write after it lists.  Save for  *)
(* two ways, in which it does.  A save is made from a row that was built   *)
(* from an old copy or beside an unfinished upload.  Or the deletions,     *)
(* which wait for no answer, run without the update beside them: it is     *)
(* refused, or a login answered late has made another account the app's    *)
(* user, for whom modifyPost drops it, or Auth's, in whose pipeline it     *)
(* waits beside the poster's.                                              *)
ListedAreStored == ~misled /\ ~lost => Range(Listed) \subseteq stored

(* Pictures the post no longer lists do not stay in Storage, even when the *)
(* rows were out of date; unless something failed, or a save added         *)
(* pictures: then editPostAndImages returns before deleteImages, and the   *)
(* next save of the form uploads the same pictures again.                  *)
NothingLeftBehind ==
  Settled /\ faults = 0 /\ ~added => stored \subseteq Range(firestore.pictures)

(* When every answer has come, the post is what the last save said, though *)
(* modifyPost writes only the fields that differ from a copy; unless saves *)
(* overlapped, the row was out of date, or something failed.               *)
LastSaveStands ==
  Answered /\ saves > 0 /\ ~overlapped /\ ~misled /\ faults = 0 => firestore = saved

-----------------------------------------------------------------------------
(***************************************************************************)
(* What ListedAreStored rests on.                                          *)
(***************************************************************************)
UpToNow(pictures) == \A p \in Range(pictures) : p.save <= saves
Apart(d, pictures) == Range(d.urls) \cap Range(pictures) = {}

(* No picture is named after a save to come, and each chain is of a save   *)
(* of its own.                                                             *)
NamesOK ==
  /\ UpToNow(firestore.pictures) /\ UpToNow(feed.pictures)
  /\ \A pipeline \in {queue, foreign} : \A i \in DOMAIN pipeline : UpToNow(pipeline[i].pictures)
  /\ UpToNow(form.editImages) /\ UpToNow(form.imagesToDelete)
  /\ \A d \in deletions : Len(d.pending) = Len(d.urls) /\ UpToNow(d.urls)
  /\ \A c \in uploads : c.save <= saves /\ c.urls < c.images /\ UpToNow(c.newImages)

(* What may be listed next is stored and not being deleted: what the chain *)
(* of uploads c will list,                                                 *)
UploadOK(c) ==
  /\ Range(c.newImages) \cup {[save |-> c.save, nr |-> i] : i \in 1 .. c.urls} \subseteq stored
  /\ \A d \in deletions : Apart(d, c.newImages) /\ \A p \in Range(d.urls) : p.save # c.save

(* and what the form lists.  That a form never loses its additional images *)
(* is why no save of it deletes anything beside an upload of its own.      *)
FormOK ==
  /\ Range(form.editImages) \subseteq stored
  /\ \A d \in deletions : Apart(d, form.editImages)
  /\ Range(form.editImages) \cap Range(form.imagesToDelete) = {}
  /\ uploads # {} => form.additionalImages > 0

ListsOK ==
  ~misled /\ ~lost =>
    /\ Range(Listed) \subseteq stored
    /\ \A d \in deletions : Apart(d, Listed)
    /\ \A c \in uploads : UploadOK(c)
    /\ ~outdated => FormOK

(* Only late logins bring in the other account.                            *)
AccountsOK ==
  /\ faults = 0 => InOwnName
  /\ ~lost => foreign = <<>>

EditInv == TypeOK /\ NamesOK /\ ListsOK /\ AccountsOK

-----------------------------------------------------------------------------
(***************************************************************************)
(* What NothingLeftBehind rests on.                                        *)
(***************************************************************************)
(* The pictures a chain of deletions still gets to: those at which a       *)
(* deletion is pending, and all behind them.                               *)
Due == UNION {{d.urls[j] : j \in {j \in DOMAIN d.urls : \E i \in 1 .. j : d.pending[i] > 0}}
              : d \in deletions}

(* The other stored pictures are listed, in the pipeline as in the feed,   *)
(* and the form lists them or is about to delete them.                     *)
LeftInv ==
  faults = 0 /\ ~added =>
    /\ uploads = {}
    /\ stored \ Due \subseteq Range(Listed)
    /\ stored \ Due \subseteq Range(feed.pictures)
    /\ stored \ Due \subseteq Range(form.editImages) \union Range(form.imagesToDelete)

-----------------------------------------------------------------------------
(***************************************************************************)
(* What LastSaveStands rests on: the stages of a save, of which there is   *)
(* one at a time.  Each says that the last save will stand, and what the   *)
(* row, unless it is out of date, has of it.                               *)
(***************************************************************************)
Unasked == asked = 0 /\ reads = <<>>

(* The update a chain of uploads will write.                               *)
Update(c) == [text |-> c.text, pictures |-> c.newImages \o Added(c.save, c.images), live |-> c.live]

Uploading ==
  /\ queue = <<>> /\ Unasked
  /\ \E c \in uploads : /\ uploads = {c} /\ After(firestore, Update(c)) = saved
                        /\ ~outdated => c.live

Writing ==
  /\ uploads = {} /\ Unasked
  /\ Len(queue) = 1 /\ After(firestore, Head(queue)) = saved
  /\ ~outdated => Head(queue).live \/ post = saved

Written == uploads = {} /\ queue = <<>> /\ firestore = saved
Asking == Written /\ asked = 1 /\ reads = <<>>
Read == Written /\ asked = 0 /\ reads = <<firestore>>
Through == Written /\ Unasked /\ (~outdated => post = firestore)

StandsInv ==
  ~overlapped /\ ~misled /\ faults = 0 =>
    InOwnName /\ (Uploading \/ Writing \/ Asking \/ Read \/ Through)
=============================================================================
