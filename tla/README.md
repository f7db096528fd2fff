# A verification of subtle

subtle is an iOS app (Swift, SwiftUI) on Firebase: users publish posts with
pictures, browse and filter a feed, like and comment posts, and chat with their
authors. Next to the app there are cloud functions (TypeScript) that keep a
search index up to date and answer search requests, and the access rules of
the database. This directory holds TLA+ models of it, what TLC checks of them
and what is proved with TLAPS.

Paths below are relative to `src/subtle/subtle/` unless they begin with
`firebase/` or `Pods/`; the latter stands for
`src/subtle/Pods/FirebaseFirestore/Firestore/core/src/`.

## 1. The system

The app has no server of its own. Its view models call services; the services
call the Firebase SDK and hand it closures. All closures run on the main queue,
so a handler is never interrupted. Between a call and its closure anything may
happen: another tap, another answer, a login or logout, the end of the process.

| part | state | operations | talks to |
|---|---|---|---|
| Feed and posting: `FeedVM`, `FeedView`, `PostFormModal` | `posts`, search text, the submissions in flight (closures) | submit, load, filter, search, delete | `FirestoreService`, `StorageService` |
| `StorageService`, `BatchUploader` | none; recursion through closures | `addImages`, `deleteImages` | Firebase Storage |
| `FirestoreService` | none | one query or write per function | Firestore |
| Session: `AuthService`, `AuthVM`, `FirebaseManager` | `currentUser` (memory), Auth's user (on disk), `loggedIn` | login, register, logout | everything reads `currentUser` |
| Conversation: `ChatLogVM`, `ChatLogView` | `chatText`, `chatMessages`, listener | `handleSend`, `persistRecentMessage`, `fetchMessages` | Firestore, on two devices |
| Chat list: `ChatListVM` | `recentMessages`, names | `fetchRecentMessages` | Firestore listener |
| Post: `PostVM`, `PostEditModal`, `PostView` | a copy of the post, the edit form, `imagesToDelete` | edit, like, unlike, delete pictures | Firestore, Storage |
| Comments: `CommentService`, `CommentInputVM` | `comments`, listener | `loadComment`, `addComment` | Firestore listener |
| Profile: `ProfileVM` | `posts` | `loadMyPosts`, `deletePost` | as the feed |
| `LocationService` | `queryFragment`, `status`, `searchResults` | debounced search | MapKit |
| Search function: `firebase/functions/src/utils.ts`, `index.ts` | none | validate, construct, search | Algolia |
| Index triggers: `firebase/functions/src/index.ts` | the index (external) | `onPostCreated`, `onPostModified`, `onPostDeleted` | Firestore events, Algolia |
| Rules: `firebase/firestore.rules` | none | who may read, write, delete | Firestore |
| College API, forms, appearance | form fields | validation, one HTTP request | |
| Firestore's write pipeline (vendored SDK): `Pods/core/sync_engine.cc`, `Pods/local/`, `Pods/remote/` | mutation queues on disk, `write_pipeline_`, the write stream | `WriteMutations`, reconnection, user change | every write of the app goes through it |

What is hard in it, and what makes each part correct:

* **Posting.** The pictures are uploaded one after the other by a recursion of
  closures; the post is written when the last has its URL. A post must be
  published whole or not at all, and always the same. The write is queued on
  disk, may be applied much later, and is sent again when a connection was lost:
  nothing else may bring a post back that was removed.
* **Feed.** Loads append to a list that was emptied when they were sent, a
  submission inserts its own row, and a delete uses an index noted before
  the answer. The index must still be right, and no post may be listed twice.
* **Deletion of pictures.** A failing deletion calls its completion twice and
  the recursion forks. It must stop, and failures must show in a report.
* **Conversation.** A message is two documents written by one device into two
  logs, plus two recent messages written when the first is acknowledged. Each is
  a call of its own, and the app may end between two of them. Logs must agree,
  recents must name logged messages, screens must show the logs.
* **Search.** What passes validation must be something the search service can
  read, and a query built by string concatenation must mean what the filters
  say, whatever the precedence of the service.
* **Session.** `currentUser` and Auth's user can differ; answers of an earlier
  login may arrive late; an interrupted registration leaves half an account.
* **Editing.** Each row of the feed has a copy of its post and a form of its
  own. Saves start chains of uploads or deletions and write only what differs
  from the copy, which may be out of date. Deletions do not wait for the update
  beside them, and ask for another user than it. The post must not list a picture
  that is deleted, Storage must not keep what nobody lists, and the post must
  become what was saved last.
* **Comments, likes, location.** Late answers on stale copies.
* **Triggers.** At least once, in no order: the index must still mirror the
  collection when it can.
* **Write pipeline.** A response does not say which write it answers, batch ids
  are reused, connections die with writes under way, users change in the
  middle. No write may be lost, none overtaken by a later one of its user, and
  no handler told of the wrong outcome.

The list with lines is in `PROJECT.json`, under `hazards`.

## 2. The modules

| module | what it is |
|---|---|
| `PostBoard` | abstract specification of the collection Posts, with what was written and what is settled |
| `Posting` | one device: submissions, write pipeline, feed, session as far as posts depend on it, and other devices |
| `PostingProofs` | theorems about `Posting` |
| `BatchDelete` | `deleteImages` and its forking recursion |
| `BatchDeleteProofs` | theorems about `BatchDelete` |
| `Chat` | a conversation on two devices |
| `ChatProofs` | theorems about `Chat` |
| `Comments` | the comments of a post: one screen, several authors |
| `CommentsProofs` | theorems about `Comments` |
| `SearchQuery` | the search function, up to the meaning of the query it hands to Algolia |
| `Session` | login, registration and logout on one device, attempts overlapping |
| `SessionProofs` | theorems about `Session` |
| `PostEdit` | the edit form of one post, its chains and the rows it is built from |
| `PostEditProofs` | theorems about `PostEdit` |
| `SearchSync` | the index triggers, for one document changed by somebody |
| `Likes` | extends `SearchSync`: several devices like and unlike the document, its poster edits and deletes it |
| `FunctionsProofs` | theorems about `Likes`, the part of `SearchSync` it extends, and `SearchQuery` |
| `WriteQueue` | abstract specification of a persisted queue of writes per user, with the verdicts handlers get |
| `CommitQueue` | the same queue as a user of it sees it: what the service carries out or refuses, in which order |
| `WritePipeline` | Firestore's path of a write, from the call to its handler |
| `WritePipelineProofs` | theorems about `WritePipeline`, among them that it implements `WriteQueue` and `CommitQueue` |
| `MCPosting`, `MCBatchDelete`, `MCChat`, `MCComments`, `MCSearchQuery`, `MCSession`, `MCPostEdit`, `MCLikes`, `MCWritePipeline` | instances for TLC |

The models of the app treat the write pipeline as a queue; `WritePipeline`
shows from the SDK's code that it is one, and `Comments` that what it takes for
granted is no more than that. A write that is sent again matters to `Posting`,
where others remove what it wrote, and is part of it. `Posting` has of the session what
posts depend on; `Session` has all of it. `PostEdit` contains the recursion of
`BatchDelete`, several chains at a time, and `BatchDelete` looks at one chain
and its reports.

Operators named in a comment as "Mutant of" another are plausible mistakes.
Next does not use them; replacing the operator by its mutant makes the property
listed with it in `PROJECT.json` fail, which shows that the run can tell the
difference.

### Posting

| code | model |
|---|---|
| `FirebaseManager.shared.currentUser`, Auth's user, the user the tabs were opened for | `currentUser`, `authUser`, `viewer` |
| `FeedVM.posts` | `posts` |
| closures of `addImages`, `upload`, `addPost` for a post | `job[p]`: stage, poster, account of the outstanding upload or write, URLs so far, whether the feed that submitted it is still there, whether a connection was lost while its write was in the pipeline |
| closures of `loadPosts`, `loadFilteredPosts`, `deletePost` | `calls[c]` |
| documents of Posts, pictures in Storage | `firestore`, `storage` |
| `PostFormModal` submit button, `formCompletion` | `Submit` |
| `putData`, `downloadURL` and their errors | `PutDone`, `UrlReady`, `UploadFails` |
| `addImageHelper`, and `addPost` at its end | `AddImageHelper`, `AddPost`: a step of `Submit` or `UrlReady`, never one of its own |
| Firestore applies, answers or refuses a queued write | `Commit`, `Acknowledge`, `Reject`, `DeleteCommit`, `DeleteFails` |
| the write stream closes; after the next handshake `RemoteStore` sends the whole pipeline again | `ConnectionLost`, `TakesEffectAgain` |
| refresh button, filter form | `ReloadFeed` |
| query evaluated; its closure; its error | `LoadRead`, `LoadReply`, `LoadFails` |
| `FeedView.delete(at:)`, then `FeedVM.deletePost`, then the guards of `FirestoreService.deletePost` | `SwipeDelete` |
| its closure: once after success, twice after an error | `DeleteReply`; `DeleteTraps` when the index no longer exists |
| login, a login answered late, logout, end of the process | `SignIn`, `LateSignIn`, `LateLogin`, `SignOut`, `Crash` |

`overlapped` is a history variable: in the life of this feed an operation was
started while another was unanswered. Two properties speak of it.

A picture is a record of the folder it lies in, its post and its number. A post
is an id; its texts are left out. What a filter or a search text selects is any
set of posts in `Searches`.

What is said of Firebase, from how the code uses it:

* writes are kept on disk per account: they survive a crash and wait for their
  account after a logout;
* a write that took effect is in the pipeline until it is answered, and takes
  effect again when it is sent again, or when a lost connection delivers it
  late: at any time from then on, as `WritePipeline` allows;
* queries see the client's own pending writes;
* an upload or a query ends in an answer or an error;
* the rules let only the poster of an existing document delete it.

`PostBoard` therefore promises that a removal is for good only for settled
posts: their write was answered, and no connection was lost while it waited.
`LossyPosts` bounds the posts whose writes lose a connection.

Not modelled: the limit of 100 posts per load, and loads answered from a stale
cache while offline. Other logins that overlap are over-approximated: any
account in `LateUsers` may replace Auth's user or the app's at any moment.

### BatchDelete

`pending[i]` counts the deletions of picture i sent and not answered: several,
once the recursion has forked. `reports` holds the arguments of each call of
the final completion. Init lets any of the pictures be gone already, since
`PostVM.imagesToDelete` is never emptied and a second save sends it again.
`errors` counts, and `MaxErrors` bounds, errors for pictures that do exist.
Without a current user `deleteImages` returns and calls nobody; the recursion,
once started, does not ask again.

### Chat

`queue[u]` is the persisted pipeline of u's device, `acks[u]` the acknowledged
writes whose closure has not run, `logs` and `recents` the documents on the
server, `view[u]` and `seen[u]` the list on u's screen and what the listener
has told it; a snapshot appends what was added, in order of time (`Added`).
Messages are numbered in the order of their field `time`: the clocks of the two
devices agree. A crash keeps the pipeline and loses the
closures. `refused` remembers rejected writes.

Each `setData` is a transaction of its own on disk. The handlers run without
interruption, so `Send` and `Acknowledged` make both calls in a step, but the
process may end between them: `CrashWhileSending` hands over the sender's copy
and not the receiver's, `CrashWhileAcknowledging` the sender's recent message
and not the receiver's. `cut` remembers the messages of the former: the
receiver never gets them, although the sender sees them as sent. No callback is
left for a cut message, so it never becomes a recent message.

A document of a log is written by one `setData` with one content, so that it
takes effect again makes no difference. A recent message that takes effect
again in the order of the pipeline is followed by the later ones; one that a
lost connection delivers after them is left out.

The listener's own metadata of acknowledged writes and decoding errors are left
out; both users have the conversation with each other only.

### Comments

| code | model |
|---|---|
| `CommentService.comments` and the listener | `comments`, `open`, `seen` |
| `CommentInputVM.sendComment`, `addComment` up to `getNameFromId` | `SendComment` |
| the answer of `getNameFromId`, then `postComment` | `NameFound`; `NameFails` after an error |
| `CommentView.onAppear` with `loadComment`; `onDisappear` | `Appear`, `Disappear` |
| a snapshot: `newComment` for each added document, then `onSuccess` | `newComment`, `onSuccess` in `Snapshot` |

A comment is its place in the order of the field `date`, which `postComment`
sets. `Me` is the user at the screen; other devices only write. Users stay
signed in: the guard of `addComment` on Auth's user holds.

### SearchQuery

A request is a sequence of records [field, op, value], which is what
`validateFilters` asks for when it compares the lengths of the three lists. A
query is a sequence of groups; `reduce` puts every group but the first in
parentheses. `tight` is the operator the search service applies first where
there are no parentheses. Its grammar is not in this repository, so Init
chooses and the properties hold for both. Texts are numbers too: equality is
all a string field needs. Requests without any filter are the empty sequence.
`lists` says whether the three lists are there and of one length: a request that
lacks one is valid and has no filters, and lists of different lengths are
answered with 400.

`Number` is JavaScript's conversion as far as `isNaN` looks at it: a blank or
empty text is 0. The value `Blank` stands for these texts, and for any other the
conversion accepts and the service has no number for; the query is made from
the text and not from the number, so such a filter has a field and an operator
and nothing behind them (`Unfinished`). `Readable` says that a query has none.

`AddFilter` makes up the request. `Handle` is `validateFilters`, with its 400;
each `Iterate` is one turn of `constructQuery`'s loop, which puts a filter into
`numericQueries` or into the group of its field in `stringQueryMap`; `Search` is
`reduce` over the groups and the answer. The function awaits nothing between
the turns, so requests do not interleave, and one is enough to follow. The loop
is taken turn by turn because the theorems about it need its invariant.

### Session

| code | model |
|---|---|
| Auth's user, `FirebaseManager.currentUser`, `AuthVM.loggedIn` | `authUser`, `currentUser`, `loggedIn` |
| the closures of one `login` or `register` | `attempts[s]`, with the stage they have reached |
| the buttons, which stay enabled while an attempt is unanswered | `TapLogin`, `TapSignUp` in any free slot |
| `createUser`; `signIn`, which sets Auth's user before the closure runs | `AccountCreated`, `AuthAnswers`, `AuthRefuses`, `AuthFails` |
| `register`'s closure: the document is written, the tabs appear | `RegisterReply` |
| `getDocument` in `login`, its evaluation, its closure | `DocumentRead`, `ReadFails`, `LoginReply` |
| Firestore sends a document of Users; the rule | `ProfileWrite` |
| `logout`; end of the process and relaunch | `Logout`, `Crash` |

`data(as:)` of a document that does not exist is nil without an error
(`DocumentSnapshot+ReadDecodable.swift` of FirebaseFirestoreSwift), so a login
to an account without a document opens the tabs with `currentUser` nil.
`NamelessTabs` says when that happens. `Posting` starts from users who have
documents and does not have this case.

### PostEdit

| code | model |
|---|---|
| `PostVM.post`, the copy in `FeedVM.posts` | `post`, `feed` |
| `editImages`, `imagesToDelete`, `additionalImages`, the text fields | `form` |
| the closures of one `addImages`, one `deleteImages` | elements of `uploads`, `deletions` |
| `updateData` waiting; its closure's `getDocument`; that one's closure | `queue`, `asked`, `reads` |
| selecting pictures and the delete button under them | `DeleteImages` |
| `editPostAndImages` with its early return, `modifyPost` | `Save`, with `ModifyPost`, `NewUpload`, `NewDeletion` |
| `addImageHelper`, `deleteImageHelper` after each answer | `UploadDone`, `UploadFails`, `PictureDeleted`, `DeletionFails` |
| the update is applied, or refused | `Commit`, `Refuse` |
| a row made again from the feed's copy; a load | `Rebuild`, `Reload` |
| login, logout, end of the process | `SignIn`, `SignOut`, `Crash` |
| a login answered under the tabs: Auth's user, then the app's | `LateSignIn`, `LateLogin` |

The plain fields are one text: `modifyPost` treats them alike. A picture is
named after the save that uploaded it. `putData` and `downloadURL` are one
step. What the form selects passes through a `Set`, so the kept pictures come
back in any order. Form edits are allowed while saves are left: an edit that is
never saved changes nothing else. `additionalImages` is never cleared by the
code, and so neither here; `MaxPictures` bounds what a form may come to list.

A save asks for a user in three ways. `modifyPost` wants `currentUser` to be the
poster, `deleteImages` and `addImages` want some `currentUser`, and `updateData`
puts the update into the pipeline of Auth's user. Logged out all three fail. With
another account they do not agree: after a late login the form is still on the
screen, `modifyPost` drops the update and the pictures are deleted all the same
(`InOwnName` and `InAnothersName` say where an update goes; `foreign` is the other
account's pipeline).

Left out: deleting the post meanwhile, the list of universities, other devices
of the poster, and an update that a lost connection delivers after later ones.
An update sent again in the order of the pipeline sets the same fields again
before any later update does, and makes no difference.

`ListedAreStored` has two exceptions, in which the post lists pictures that are
deleted by the code as it is:

* `misled`: `FeedView` builds rows from the copy of the last load, so a row built
  again after a save shows the old pictures, and saving it lists them once more
  although Storage has lost them; or the row was built beside an unfinished
  upload.
* `lost`: the deletions ran without their update. They start before it is
  answered, so a refused update comes too late for them; and after a late login
  the update is dropped, or waits in another account's pipeline beside the
  poster's own.

Two exceptions in `NothingLeftBehind` and `LastSaveStands` are the code's too: a
save with added pictures returns before `deleteImages` and uploads the same
pictures again at each save; and while an answer is out, a change back to the old
text equals the copy and is not written.

### SearchSync and Likes

`versions` numbers what the document became; each change but a null one puts
its number in `events`, and a function runs with that version (`Trigger`),
again (`TriggerAgain`) or fails for good (`TriggerFails`). `overtaken` records
which kind of function ran after that of a later change of which kind: the
properties say which overtaking does harm. Whether `partialUpdateObjects`
creates a missing entry when the call does not say so depends on Algolia's
client, which is not in the repository: Init chooses.

In `Likes`, `Tap` follows the copy on the screen, `Commit` is `arrayUnion` or
`arrayRemove` on the server, and the answer is read back by `getDocument`
(`Acknowledged`, `ReadEvaluated`, `ReadReply`). Answers of `getDocument` come in
the order of their evaluation, as all closures go through one queue.
`View(u)` is the document with u's pending updates over it; they all set u's
own like, so the last of them decides. `stale`
holds the devices whose row was rebuilt from the old copy, or whose read
failed; `Reload` repairs both. Sent again in order, the updates of one user end
as they did; one that a lost connection delivers after a later one is left out.

### WritePipeline

| code | model |
|---|---|
| mutations table of LevelDB, by user and batch id | `disk` |
| `LevelDbMutationQueue::next_batch_id_` | `nextBatchId` |
| `SyncEngine::mutation_callbacks_`, `current_user_` | `callbacks`, `currentUser` |
| `RemoteStore::write_pipeline_`, `WriteStream` with `Stream` and its connection | `remote` |
| `SyncEngine::WriteMutations` | `WriteMutations` |
| `FillWritePipeline`, `AddToWritePipeline`, `StartWriteStream` | `FillWritePipeline`, the last step of most actions |
| stream open, handshake answered | `CredentialsArrive`, `OnWriteStreamHandshakeComplete` |
| `OnWriteStreamMutationResult`, `HandleWriteError`, `OnWriteStreamClose` | the same names |
| idleness timer, backoff timer | `IdleTimeout`, `BackoffElapses` |
| `HandleCredentialChange`, also for a restart of the network; relaunch | `HandleCredentialChange`, `Crash` |
| the service | `AnswersHandshake`, `Serves`, `ServesLate` |

All of this SDK code runs on one worker queue, so a handler is a step. `dead`
holds what earlier connections had sent: the service may still apply it, late,
or never. Assumed of the service: it serves a connection in order, a refusal
ends the connection, and its status arrives after the responses before it.
Left out: stream tokens, a network disabled by the app, the watch stream and
listens, caches of documents, and transactions, which do not use this path.

## 3. What is checked

| run | bounds | properties |
|---|---|---|
| `publish` | 2 users, 2 posts with 2 and 1 pictures, 1 feed call, a late login of one user, lost connections for one post | `PublishedWhole`, `NoOrphanAfterSuccess`, `ImplementsBoard` |
| `feed` | 2 users, 2 posts with 1 picture, 2 overlapping calls, searches that hide a post, lost connections, no late login | `FreshIndex`, `NoDuplicates` |
| `live` | 2 users, 1 post with 2 pictures, 1 call, any late login, lost connections, fairness | `SubmissionEnds`, `CallsEnd` |
| `batch_delete` | 4 pictures, 2 errors besides missing pictures, fairness | `LeftoversReported`, `Stops` |
| `chat` | 3 messages, the first from u, 1 refused write, 1 crash, also between two calls, fairness | `BothLogsComplete`, `RecentsAreLogged`, `OneSidedRecents`, `PerSenderOrder`, `ViewIsLog`, `Delivered` |
| `comments` | 2 users, 4 comments, 1 refused write, 1 crash, fairness | `EachListedOnce`, `AuthorOrder`, `CommentEnds`, `StoredIsListed` |
| `search` | 3 filters, 3 fields, 3 operators, 2 values, a blank and one that is no number | `ReadableUnlessBlank`, `FiltersAreJoinedWithAnd`, `AlternativesStayTogether` |
| `search_same_field` | the same | violated: `SameFieldsJoinedWithOr` |
| `session` | 2 users, 2 overlapping attempts, 1 error, 1 crash, fairness | `AppUserIsAuthUser`, `NamelessTabs`, `RegistrationIsWhole`, `ProfileStored` |
| `edit` | 2 texts, 2 pictures, 2 saves, 2 added pictures, 3 listed in a form that adds, 2 faults: errors, refusals, logouts, late logins or crashes | `ListedAreStored`, `NothingLeftBehind`, `LastSaveStands` |
| `sync` | 2 users, 2 taps, 1 edit, 1 failed read, 1 function that fails or runs again | `MirrorsInOrder`, `GhostsAreLateCreations`, `HeartSettles` |
| `pipeline` | 2 users, 3 writes, a pipeline of 2, 1 refusal, 3 lost connections, user changes or crashes, fairness | `AnswersMeetTheirWrites`, `NotStoppedWhileNeeded`, `ToldTheTruth`, `NothingLost`, `ExactlyOnceUndisturbed`, `ImplementsQueue`, `ImplementsCommits`, `Resolved` |

Why the bounds are enough to be interesting. Two pictures give a chain a middle,
in which logins, logouts, crashes and errors strike; the second post gives a
second chain, or a row before or after the one being deleted. Two calls overlap,
which is all that `overlapped` distinguishes. Four pictures with two errors let
a fork fork again and end in different places. Three messages are the least with
two of one sender and one of the other in between. Three or four comments leave
two of one author around one of another, some listed and some not. Three filters
are the least with two on one field and another beside them, in any order. Two
attempts are all that `overlapped` distinguishes, and a third would find nothing
the second did not leave. Two saves are the least of which one is a second save;
a second picture makes chains of two, which fork, and lets a form delete in two
steps; two faults allow a crash between two errors, or another account as Auth's
user and as the app's. In `publish` one of the posts loses connections, at any
moment and as often as it likes, next to one that does not. Two taps are a like
and its unlike, or two users' likes. In `pipeline` a table holds more than the
pipeline takes, so that filling it stops and goes on; three faults are a user
who leaves and comes back, with a crash or a lost connection in between. There
is no operation for which a larger table is different. Symmetry is used in runs
without liveness only, over users, call slots and texts that no constant tells
apart. In `chat`, which has liveness, the constraint `FirstIsFromU` leaves out
the mirror images instead: the first message never changes, so no behaviour that
begins with u's is cut short.

Deadlock is checked in all runs but those of `Chat`, `Likes` and
`WritePipeline`; `BatchDelete` has an explicit final step. A conversation whose
users have sent their messages and closed their apps is over, and so is a
document that is deleted once all functions have run, or a pipeline whose writes
are resolved when the bound on faults is used up.

Type invariants are proved, those of `Session`, `BatchDelete` and `SearchQuery` as
part of an invariant, and not repeated in the runs, and
neither is `UsesCommitQueue` of `Comments`, which TLC found to hold on the bounds
of `comments`.

What the violated run shows (see `findings`): two filters on one numeric field
are joined with AND, against the comment of `constructQuery`.

Facts about the code that no document denies, and that the models contain:

* A delete the service refuses still takes the row out of the feed:
  `FirestoreService.deletePost` calls `completion(false)`, then `completion(true)`.
* The same shape in `BatchUploader.delete` makes the recursion fork: everything
  after the failing picture is deleted twice and reported twice.
* When both users write at once, the recent message can stay an older one.
* A registration cut short leaves an account that cannot be registered again
  and opens tabs without a user.
* A post can come back into the search index after its deletion, when its
  functions run out of order (`GhostsAreLateCreations` says exactly when).
* A write can be refused and still take effect: it was sent on a connection
  that was lost, sent again on the next and refused there, and then the first
  connection delivers it. The client has dropped it by then and told its handler
  of the error. `Belated` in `WritePipeline` is that step, `ImplementsCommits`
  says that it is the only one of its kind. `Posting` contains it; the other
  models of the app leave it out: a comment they call refused stays refused.
* A post that another device removed can come back: its write had taken effect,
  the connection was lost before the answer, and the next connection sends it
  again (`TakesEffectAgain`). `ImplementsBoard` says that only the post's own
  write does this, with the same content, and not once it was answered over the
  only connection that carried it.
* A numeric field with a blank value is a valid filter for
  `validateSingleFilter`, since `Number("")` is 0, and the query made of it ends
  after the operator (`ReadableUnlessBlank`).
* A crash between the two calls of `handleSend` leaves a message in the sender's
  log that its receiver never gets.
* A save whose update is refused, or is dropped because another account's login
  was answered late, has its pictures deleted all the same.

The README of the functions gives an example request with the operator `==`,
which `stringOperators` does not know: it is answered with 400, in the model as
in the code.

### Fairness

`Posting`: weak fairness of what the services do for each upload, each queued
write and each feed call; the SDKs bound their retries and report an error when
they give up. A queued write needs its account signed in, which is why the
liveness properties assume an account that stays. No user action is fair and no
crash is. `Chat` and `Comments`: weak fairness of the pipelines, callbacks and
listeners. `BatchDelete`: the service answers each deletion. `Session`: each
attempt's requests and closures, and the sending of waiting documents.
`WritePipeline`: timers and handlers of the worker queue run, and the service
answers the connection that is open (`StreamStep`, `ServiceStep`); nothing makes
a dead connection deliver. `Likes` and `PostEdit` have safety properties only:
what settles there does so by the queues above.

## 4. What is proved

`PostingProofs`, for any sets of users, posts (finite) and calls, any positive
numbers of pictures, any late logins and searches (`ConstantsAssumption`):

| theorem | statement |
|---|---|
| `ChainInvariance` | `Spec => []ChainInv` |
| `TypeCorrectness` | `Spec => []TypeOK` |
| `PublishedWholeTheorem` | `Spec => []PublishedWhole` |
| `Refinement` | `Spec => ImplementsBoard` |
| `FreshIndexTheorem` | `Spec => []FreshIndex` |
| `NoOrphanTheorem` | `Spec => []NoOrphanAfterSuccess` |
| `NoDuplicatesTheorem` | `Spec => []NoDuplicates` |

`PublishedWhole` is not inductive: it says nothing of a submission before it is
committed. `ChainOK(p)` adds that the URLs collected so far are those of the
first pictures, in order and stored, that a chain waiting for a URL has just
stored that picture, that a queued, stored or refused submission has all of
its pictures, and that an existing document belongs to a stored submission and
is what was queued. Each action has a lemma; `ChainFrame` and `ChainLocal` carry
the invariant over the posts an action does not touch.

The refinement maps `board` to `firestore`, `written` to what the submissions
handed to the pipeline, and `settled` to the posts whose write was answered
without a lost connection. A submission that reaches the pipeline is `Write`,
`Commit` and `TakesEffectAgain` are `Publish`, an `Acknowledge` without a lost
connection is `Settle`, `RemotePublish` is `PublishElsewhere`, `DeleteCommit` and
`RemoteDelete` are `Remove`, all else stutters. That a post always appears as it was
written, and not after it is settled, rests on `ChainInv`: a submission in the
pipeline or past it keeps its poster and pictures and never goes back, and
what may take effect again has lost a connection.

`FreshIndex` needs `FeedInv`: only a feed on the screen has anything live, and
without overlap a live call is alone, with no live submission beside it; so
between `SwipeDelete` and its answer nothing touches `posts`. The proofs split
on whether an action starts an operation, progresses one, answers one or drops
the feed.

`NoOrphanAfterSuccess` speaks of finished submissions; `OrphanInv` says of each
stage what Storage may hold of the post, and rests on `ChainInv` for what the
URLs of that stage are. `NoDuplicates` needs `RowsInv` on top of `FeedInv`: what
is listed or carried by a load was handed to the pipeline before, so a
submission that is about to be listed is not listed yet, and without overlap a
load answers to the empty list it began with.

`CommentsProofs`, for any users, any `Me` among them, and any bounds
(`CommentsAssumption`):

| theorem | statement |
|---|---|
| `CommentsTypeCorrectness` | `Spec => []TypeOK` |
| `OrderInvariance` | `Spec => []OrderInv` |
| `AuthorOrderTheorem` | `Spec => []AuthorOrder` |
| `ListedInvariance` | `Spec => []ListedInv` |
| `EachListedOnceTheorem` | `Spec => []EachListedOnce` |
| `CommitQueueTheorem` | `Spec => UsesCommitQueue` |

`AuthorOrder` speaks of the list alone; that the next snapshot keeps it depends on
what may still arrive. `QueueOK` says that a pipeline is in order and newer than
what its user has stored, `ListOK` that what is not yet reported is newer than
what is listed of the same author, and that comments of others are listed only
when stored. `ListGrows` shows that the two closures of `loadComment`, which
both look at the list one of them changes, amount to one append. `EachListedOnce`
speaks of an up-to-date list; `ListedOK` says of any list that it holds what was
reported, nothing that is still to be, and besides only refused comments of `Me`.

`UsesCommitQueue` is what `Comments` assumes of the SDK, put as a refinement of
`CommitQueue`: `NameFound` is `HandOver`, `Commit` and `Reject` take the oldest
waiting write of its user. That the head of a pipeline is the oldest and waits
nowhere else is `QueueOK`. The other half is `CommitsRefinement` below: the SDK's
code implements `CommitQueue`, with the exception named there.

`ChatProofs`, for any two users and any bounds (`ChatAssumption`):

| theorem | statement |
|---|---|
| `ChatTypeCorrectness` | `Spec => []TypeOK` |
| `LoggedInvariance` | `Spec => []LoggedInv` |
| `BothLogsCompleteTheorem` | `Spec => []BothLogsComplete` |
| `RecentsAreLoggedTheorem` | `Spec => []RecentsAreLogged` |
| `ViewInvariance` | `Spec => []ViewInv` |
| `PerSenderOrderTheorem` | `Spec => []PerSenderOrder` |
| `ViewIsLogTheorem` | `Spec => []ViewIsLog` |
| `OneSidedInvariance` | `Spec => []OneSidedInv` |
| `OneSidedRecentsTheorem` | `Spec => []OneSidedRecents` |

Three invariants, each for one question. `LoggedInv` follows a message through
the pipelines: a copy waits or is answered, unless it was never handed over
(`CopiesOK`), and a recent message waits behind the copies for both logs
(`RecentsOK`), so it is written only when they are answered. That needs `CutOK`: no
callback and no recent message is about a message whose sending was cut.
`ViewInv` is about the screens: copies for one log leave a
device in order and what waits is newer than what has arrived (`QueueOK`), so
what the listener is still to report is newer than what is listed of the same
sender (`ListOK`). `OneSidedInv` adds, for a conversation one side writes
undisturbed, that of the three places a message passes on its way to `recents`
the further one holds the older messages (`StagesOK`), and that the newest
message is either there or still on its way (`NewestOK`).

`SessionProofs`, for any users, slots and bounds (`SessionAssumption`):

| theorem | statement |
|---|---|
| `SessionInvariance` | `Spec => []SessionInv` |
| `AppUserTheorem` | `Spec => []AppUserIsAuthUser` |
| `NamelessTabsTheorem` | `Spec => []NamelessTabs` |
| `RegistrationTheorem` | `Spec => []RegistrationIsWhole` |

`AppUserIsAuthUser` says nothing of an attempt on its way. `AttemptOK` adds that
without overlap there is one attempt, never under the tabs, and that from
Auth's answer on Auth's user is the attempt's; `NoDocument` carries over from
"missing" to the tabs, since nobody can write that document meanwhile.

`PostEditProofs`, for any texts, numbers of pictures, saves, additions and
faults (`EditAssumption`):

| theorem | statement |
|---|---|
| `EditInvariance` | `Spec => []EditInv` |
| `EditTypeCorrectness` | `Spec => []TypeOK` |
| `ListedAreStoredTheorem` | `Spec => []ListedAreStored` |
| `NothingLeftBehindTheorem` | `Spec => []NothingLeftBehind` |
| `LastSaveStandsTheorem` | `Spec => []LastSaveStands` |

A deletion chain may hit whatever the post will list, so the invariant has to
say what may be listed next: the last update of the queue, what each chain of
uploads will list, what the form lists. `ListsOK` keeps all of these stored and
apart from every deletion chain, as long as no save was misled and no update
lost. It needs `NamesOK`, by which pictures uploaded later differ from all earlier
ones, also those in the other account's pipeline, `AccountsOK`, by which that
pipeline holds an update of the post only after one was lost, and the fact that
a form with additional images never deletes. For `NothingLeftBehind`, `LeftInv` sets aside the
pictures a chain still gets to (`Due`) and says of the others that post, feed
and form know them. For `LastSaveStands`, `StandsInv` lists the stages of a
save, of which there is one at a time, and says at each that the last save will
stand.

`FunctionsProofs`, for any users, taps, edits and failures (`SyncAssumption`,
`LikesAssumption`):

| theorem | statement |
|---|---|
| `LikesInvariance` | `Spec => []LikesInv` |
| `LikesTypeCorrectness` | `Spec => []TypeOK` |
| `HeartSettlesTheorem` | `Spec => []HeartSettles` |
| `MirrorsInOrderTheorem` | `Spec => []MirrorsInOrder` |
| `GhostsAreLateCreationsTheorem` | `Spec => []GhostsAreLateCreations` |

The three properties speak of a device or an index that has come to rest.
`HeartOK(u)` says before that: the newest copy handed or about to be handed to
u's row agrees with `View(u)`, unless an update of that row is still to be
committed or read back; updates of a replaced row change nothing u sees.
`SyncInv` says that a deletion is the last version and that, without a failure,
each change is awaited or dealt with (`HistoryOK`); in order, the index holds
what the latest change dealt with has made (`IndexOK`); once the deletion has
been dealt with, an entry betrays a function that came after it (`GhostsOK`).
The steps of the functions are proved from `SyncInv` alone, whatever changes
the document.

In the same module, of the search function, for any fields, operators, values and
number of filters (`SearchAssumption`):

| theorem | statement |
|---|---|
| `QueryInvariance` | `QuerySpec => []QueryInv` |
| `ReadableTheorem` | `QuerySpec => []ReadableUnlessBlank` |
| `JoinedWithAndTheorem` | `QuerySpec => []FiltersAreJoinedWithAnd` |
| `AlternativesTheorem` | `QuerySpec => []AlternativesStayTogether` |

`ReadableUnlessBlank` is an equivalence: without a blank value the query is
readable, and with one it is not, because the loop leaves no filter out. The
other two properties compare what a readable query selects with what the request
says, whichever operator binds tighter. `NumericOK` and `StringsOK` say of the loop at
any turn that each filter passed is in one place, that nothing else is there,
that a group is about one field and a field has one group, and that a group has
two filters only if the request repeats its field. So a query without repeated
string fields has groups of one filter only, and where each field's group stays
within parentheses, a group holds of a post exactly if one of that field's
filters does.

`BatchDeleteProofs`, for any number of pictures and of errors
(`BatchAssumption`):

| theorem | statement |
|---|---|
| `BatchInvariance` | `Spec => []BatchInv` |
| `LeftoversReportedTheorem` | `Spec => []LeftoversReported` |

`ReportOK` says that the last report is all that was collected once nothing is
pending; `AheadOK` that a picture still there has a deletion pending at it or at
one before it, or that a failure was recorded. A fork does no harm to either.

`WritePipelineProofs`, for any users, any number of writes, refusals and faults
and any capacity (`PipelineAssumption`):

| theorem | statement |
|---|---|
| `PipelineInvariance` | `Spec => []PipelineInv` |
| `PipelineTypeCorrectness` | `Spec => []TypeOK` |
| `AnswersTheorem` | `Spec => []AnswersMeetTheirWrites` |
| `NotStoppedTheorem` | `Spec => []NotStoppedWhileNeeded` |
| `ToldTheTruthTheorem` | `Spec => []ToldTheTruth` |
| `NothingLostTheorem` | `Spec => []NothingLost` |

The invariant: tables are sorted and below `nextBatchId`; the pipeline is the
front of the current user's table; what is answered and what is sent follow
the pipeline; a kept handler belongs to a batch still on disk, which is why
an id is not reused under a living handler. `FillKeeps` proves the operator at
the end of most actions once, and `RestartKeeps`, `ClosedKeeps` build on it.

In the same module, that the pipeline is a queue:

| theorem | statement |
|---|---|
| `QueueInvariance` | `Spec => []QueueInv` |
| `QueueRefinement` | `Spec => ImplementsQueue` |
| `CommitsRefinement` | `Spec => ImplementsCommits` |
| `ExactlyOnceTheorem` | `Spec => []ExactlyOnceUndisturbed` |

`WriteMutations` is `HandOver`, `OnWriteStreamMutationResult` and
`HandleWriteError` are `Resolve`, `Serves` and `ServesLate` are `Apply` the first
time a write takes effect, and all else stutters: a resent write that takes
effect again, and a reused batch id, are invisible to the queue. `PipelineInv`
does not say in which order the writes of a table were handed over, nor what the
requests of a lost connection may still do. `InOrderOK` and `NoVerdictYet` say
the first; `LateInOrder` says that whatever precedes a request of a lost
connection, of the same user and still on disk, has taken effect or is ahead of
it on that connection. `ServedOK` says that before any fault there is no lost
connection, and what was served and is still on disk has its response under way.

`CommitsRefinement` uses the same two invariants. In `CommitQueue` a write waits
while it is on disk and has not taken effect. `Serves` and `ServesLate` are
`Commit` the first time a waiting write takes effect: `LateInOrder` makes it the
oldest. `HandleWriteError` is `Refuse`, unless the write took effect before, when
it stutters; a result always does, since its write no longer waits. What takes
effect without waiting has been refused, by `NothingLost`, and `ServedOK` says
that this needs a fault: that step is `Belated`.

All these invariants were found with TLC on the instances above before they
were proved.

Only model-checked: the liveness properties `SubmissionEnds`, `CallsEnd`, `Stops`,
`Delivered`, `CommentEnds`, `StoredIsListed`, `ProfileStored` and `Resolved`, as
TLAPS has no ENABLED rules here. Every other property of a passing run is a
theorem. The provers have no induction over a sequence, so what a
recursion over one returns cannot be proved. Where it matters to a theorem, the
model states the result instead, `View` of `Likes` by the last update, `Added` of
`Chat` as the ordered sequences of what is new, or takes the recursion step by
step, as `SearchQuery` does.

## 5. What is not modelled, and the plan

Next, in this order:

1. `ChatList`: several conversations, the list's order and its name cache, on
   top of `Chat`; the profile's list next to the feed's.
2. `LocationService` (late answers), `AgeFilter` (the birthday window as an
   operator against its definition), validation of forms.
3. Firestore's watch stream and listens, which `Chat` and `Comments` assume to
   report documents in order.
4. Proofs: that the pipelines of `Chat` are an instance of `CommitQueue` too, which
   needs its writes numbered across messages; and the models of the app other
   than `Posting` over a queue in which a lost connection delivers a write late.

Left out for good: the college API (one request, pure I/O), appearance
(`Theme`, `Onboarding`, `HomeView`, `TagView`, `ImagePicker`, `Extensions`), and the
layout of the search answer. Of the vendored pods, by far the largest part of
the repository, only the write path of Firestore is modelled: gRPC, BoringSSL,
abseil, LevelDB and the like are libraries whose behaviour the app depends on
through that path alone.
