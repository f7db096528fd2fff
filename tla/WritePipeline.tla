--------------------------- MODULE WritePipeline ---------------------------
(***************************************************************************)
(* How a write of the app reaches Firestore: SyncEngine, LocalStore with   *)
(* its LevelDbMutationQueue, and RemoteStore with its WriteStream.  All of *)
(* it runs on one worker queue, so a handler is one step.                  *)
(*                                                                         *)
(* Writes wait on disk in a queue per user.  The first of the current      *)
(* user's are copied to write_pipeline_ and sent on a stream; a response   *)
(* does not say which write it answers, it is taken to answer the first of *)
(* the pipeline.  When a stream dies the pipeline is sent again on the     *)
(* next, and what was under way may still arrive.                          *)
(***************************************************************************)
EXTENDS Integers, Sequences, FiniteSets, SequencesExt

CONSTANTS
  Users,              \* accounts, the anonymous one included
  MaxWrites,          \* bound: writes handed over
  kMaxPendingWrites,  \* capacity of the pipeline
  MaxRefusals,        \* bound: writes the service refuses
  MaxFaults           \* bound: connections lost, users changed, crashes

ASSUME PipelineAssumption ==
  /\ MaxWrites \in Nat /\ MaxRefusals \in Nat /\ MaxFaults \in Nat
  /\ kMaxPendingWrites \in Nat \ {0}

VARIABLES
  owner,         \* history: who handed over each write, in order
  disk,          \* per user, the table of mutation batches, by batch id
  nextBatchId,   \* next_batch_id_ of the mutation queue in use
  currentUser,   \* current_user_
  callbacks,     \* mutation_callbacks_, with the write each belongs to
  remote,        \* write_pipeline_ and write_stream_ with its connection
  dead,          \* what earlier connections had sent and may still deliver
  applied,       \* history: writes in the order they first took effect
  again,         \* history: writes that took effect more than once
  refused,       \* history: writes the service refused at least once
  told,          \* what the completion handler of each write was called with
  faults         \* how many faults there were

vars == <<owner, disk, nextBatchId, currentUser, callbacks, remote, dead,
          applied, again, refused, told, faults>>
serverVars == <<applied, again, refused>>

Writes == 1 .. MaxWrites
Batch == [id: Nat, write: Writes]
Response == [write: Writes, ok: BOOLEAN]  \* the client does not see which write
Requests == Seq(Writes) \ {<<>>}          \* what a connection left

(* state: as in stream.h.  handshake: not begun, under way in either       *)
(* direction, complete.  idle: the idleness timer runs.  up, down: requests*)
(* and responses on the current connection.                                *)
Remote == [pipeline: Seq(Batch),
           state: {"initial", "starting", "open", "backoff", "error"},
           handshake: {"no", "sent", "answered", "done"},
           idle: BOOLEAN, up: Seq(Writes), down: Seq(Response)]

TypeOK ==
  /\ owner \in Seq(Users) /\ Len(owner) <= MaxWrites
  /\ disk \in [Users -> Seq(Batch)]
  /\ nextBatchId \in Nat
  /\ currentUser \in Users
  /\ callbacks \in [Users -> SUBSET Batch]
  /\ remote \in Remote /\ Len(remote.pipeline) <= kMaxPendingWrites
  /\ dead \in Seq(Requests)
  /\ applied \in Seq(Writes)
  /\ again \subseteq Writes
  /\ refused \subseteq Writes
  /\ told \in [Writes -> {"nothing", "ok", "refused"}]
  /\ faults \in Nat

NewRemote == [pipeline |-> <<>>, state |-> "initial", handshake |-> "no",
              idle |-> FALSE, up |-> <<>>, down |-> <<>>]

Init ==
  /\ owner = <<>>
  /\ disk = [u \in Users |-> <<>>]
  /\ nextBatchId = 1
  /\ currentUser \in Users
  /\ callbacks = [u \in Users |-> {}]
  /\ remote = NewRemote
  /\ dead = <<>>
  /\ applied = <<>>
  /\ again = {}
  /\ refused = {}
  /\ told = [w \in Writes |-> "nothing"]
  /\ faults = 0

-----------------------------------------------------------------------------
(***************************************************************************)
(* RemoteStore and WriteStream, as operators on the record remote.         *)
(***************************************************************************)
IsOpen(r) == r.state = "open"
IsStarted(r) == r.state \in {"starting", "backoff", "open"}

ShouldStartWriteStream(r) == ~IsStarted(r) /\ r.pipeline # <<>>

(* Stream::Start; after an error it begins with BackoffAndTryRestarting.   *)
StartWriteStream(r) ==
  [r EXCEPT !.state = IF @ = "error" THEN "backoff" ELSE "starting"]

StartIfNeeded(r) == IF ShouldStartWriteStream(r) THEN StartWriteStream(r) ELSE r

WritesOf(batches) == [i \in DOMAIN batches |-> batches[i].write]

(* NextMutationBatchAfterBatchId, as a position: the batches of the table q*)
(* beyond it have ids larger than id.                                      *)
PositionOf(q, id) ==
  CHOOSE n \in 0 .. Len(q) : \A i \in DOMAIN q : q[i].id > id <=> i > n

LastBatchIdRetrieved(r) == IF r.pipeline = <<>> THEN -1 ELSE Last(r.pipeline).id

(* What FillWritePipeline takes from the table q of the current user.      *)
NextBatches(r, q) ==
  LET n == PositionOf(q, LastBatchIdRetrieved(r))
      room == kMaxPendingWrites - Len(r.pipeline)
  IN SubSeq(q, n + 1, IF n + room < Len(q) THEN n + room ELSE Len(q))

(* Mutant of FillWritePipeline: a write does not stop the idleness timer.  *)
KeepsTimer(r, q) ==
  LET more == NextBatches(r, q)
      ready == IsOpen(r) /\ r.handshake = "done"
  IN StartIfNeeded(
       [r EXCEPT !.pipeline = @ \o more,
                 !.up = IF ready THEN @ \o WritesOf(more) ELSE @,
                 !.idle = IF r.pipeline \o more = <<>> THEN @ \/ IsOpen(r) ELSE @])

(* Each batch taken is sent at once if the stream is ready, which stops    *)
(* the idleness timer; MarkIdle starts it if there is nothing to do.       *)
FillWritePipeline(r, q) ==
  LET more == NextBatches(r, q)
      ready == IsOpen(r) /\ r.handshake = "done"
  IN StartIfNeeded(
       [r EXCEPT !.pipeline = @ \o more,
                 !.up = IF ready THEN @ \o WritesOf(more) ELSE @,
                 !.idle = IF r.pipeline \o more = <<>> THEN @ \/ IsOpen(r)
                          ELSE @ /\ ~(ready /\ more # <<>>)])

(* Mutant of Closed: responses of the old connection are kept.             *)
KeepsResponses(r, state) ==
  [r EXCEPT !.state = state, !.handshake = "no", !.idle = FALSE, !.up = <<>>]

(* Stream::Close: nothing of this connection reaches the client any more.  *)
Closed(r, state) ==
  [r EXCEPT !.state = state, !.handshake = "no", !.idle = FALSE,
            !.up = <<>>, !.down = <<>>]

(* Mutant of RestartNetwork: the pipeline is not cleared.                  *)
KeepsPipeline(r, q) == FillWritePipeline(Closed(r, "initial"), q)

(* DisableNetworkInternal and EnableNetwork, in RestartNetwork and at the  *)
(* start: the pipeline is emptied and filled from the table q.             *)
RestartNetwork(r, q) ==
  FillWritePipeline([Closed(r, "initial") EXCEPT !.pipeline = <<>>], q)

(* The requests of a connection that is given up may still arrive, if the  *)
(* service has not ended it by refusing a write.                           *)
Serving(r) == \A i \in DOMAIN r.down : r.down[i].ok
Abandon(r) == IF r.up # <<>> /\ Serving(r) THEN Append(dead, r.up) ELSE dead

-----------------------------------------------------------------------------
(***************************************************************************)
(* The app and the mutation queue.                                         *)
(***************************************************************************)

(* All the keys of the mutations table, whoever they belong to.            *)
BatchIds(d) == UNION {{d[u][i].id : i \in DOMAIN d[u]} : u \in Users}

(* Mutant of LoadNextBatchIdFromDb: only the current user's batches count. *)
CountsOwnOnly(d) == 1 + Len(d[currentUser])

(* next_batch_id_ is not stored: ids of batches that are gone are reused.  *)
LoadNextBatchIdFromDb(d) == 1 + Max({0} \union BatchIds(d))

(* The new key is the last of its table.  insert keeps the callback that   *)
(* is there if the key is taken.                                           *)
WriteMutations ==
  LET b == [id |-> nextBatchId, write |-> Len(owner) + 1] IN
  /\ Len(owner) < MaxWrites
  /\ owner' = Append(owner, currentUser)
  /\ disk' = [disk EXCEPT ![currentUser] = Append(@, b)]
  /\ nextBatchId' = nextBatchId + 1
  /\ callbacks' = [callbacks EXCEPT ![currentUser] =
                     IF \E c \in @ : c.id = b.id THEN @ ELSE @ \union {b}]
  /\ remote' = FillWritePipeline(remote, disk'[currentUser])
  /\ UNCHANGED <<currentUser, dead, serverVars, told, faults>>

(* RemoveMutationBatch: the row of this id.                                *)
WithoutBatch(q, id) ==
  IF \E i \in DOMAIN q : q[i].id = id
  THEN RemoveAt(q, CHOOSE i \in DOMAIN q : q[i].id = id) ELSE q

(* NotifyUser: the callback of this id, if there is one.                   *)
NotifyUser(id, verdict) ==
  LET mine == {c \in callbacks[currentUser] : c.id = id} IN
  /\ told' = [w \in Writes |-> IF \E c \in mine : c.write = w THEN verdict ELSE told[w]]
  /\ callbacks' = [callbacks EXCEPT ![currentUser] = @ \ mine]

-----------------------------------------------------------------------------
(***************************************************************************)
(* The stream.                                                             *)
(***************************************************************************)
Fault == faults < MaxFaults /\ faults' = faults + 1

(* ResumeStartWithCredentials: the stream opens and sends its handshake.   *)
CredentialsArrive ==
  /\ remote.state = "starting"
  /\ remote' = [remote EXCEPT !.state = "open", !.handshake = "sent", !.idle = FALSE]
  /\ UNCHANGED <<owner, disk, nextBatchId, currentUser, callbacks, dead,
                 serverVars, told, faults>>

BackoffElapses ==
  /\ remote.state = "backoff"
  /\ remote' = StartWriteStream([remote EXCEPT !.state = "initial"])
  /\ UNCHANGED <<owner, disk, nextBatchId, currentUser, callbacks, dead,
                 serverVars, told, faults>>

(* Mutant of OnWriteStreamOpen's answer: sends the pipeline at once and    *)
(* again when the handshake completes.                                     *)
SendsTwice ==
  /\ remote.handshake = "answered"
  /\ remote' = [remote EXCEPT !.handshake = "done", !.idle = FALSE,
                 !.up = WritesOf(remote.pipeline) \o WritesOf(remote.pipeline)]
  /\ UNCHANGED <<owner, disk, nextBatchId, currentUser, callbacks, dead,
                 serverVars, told, faults>>

(* The whole pipeline is sent, also what another connection sent before.   *)
OnWriteStreamHandshakeComplete ==
  /\ remote.handshake = "answered"
  /\ remote' = [remote EXCEPT !.handshake = "done",
                 !.up = WritesOf(remote.pipeline),
                 !.idle = @ /\ remote.pipeline = <<>>]
  /\ UNCHANGED <<owner, disk, nextBatchId, currentUser, callbacks, dead,
                 serverVars, told, faults>>

(* A result belongs to the first write of the pipeline.                    *)
OnWriteStreamMutationResult ==
  LET b == Head(remote.pipeline) IN
  /\ remote.down # <<>> /\ Head(remote.down).ok
  /\ remote.pipeline # <<>>
  /\ NotifyUser(b.id, "ok")
  /\ disk' = [disk EXCEPT ![currentUser] = WithoutBatch(@, b.id)]
  /\ remote' = FillWritePipeline([remote EXCEPT !.pipeline = Tail(@), !.down = Tail(@)],
                                 disk'[currentUser])
  /\ UNCHANGED <<owner, nextBatchId, currentUser, dead, serverVars, faults>>

(* Mutant of HandleWriteError: the write that failed is the last one sent. *)
BlamesTheLast ==
  LET b == Last(remote.pipeline) IN
  /\ remote.down # <<>> /\ ~Head(remote.down).ok
  /\ remote.pipeline # <<>>
  /\ NotifyUser(b.id, "refused")
  /\ disk' = [disk EXCEPT ![currentUser] = WithoutBatch(@, b.id)]
  /\ remote' = FillWritePipeline([Closed(remote, "initial") EXCEPT !.pipeline = Front(@)],
                                 disk'[currentUser])
  /\ UNCHANGED <<owner, nextBatchId, currentUser, dead, serverVars, faults>>

(* Mutant of HandleWriteError: the rest of the pipeline waits for the next *)
(* write of the app.                                                       *)
WaitsForNextWrite ==
  LET b == Head(remote.pipeline) IN
  /\ remote.down # <<>> /\ ~Head(remote.down).ok
  /\ remote.pipeline # <<>>
  /\ NotifyUser(b.id, "refused")
  /\ disk' = [disk EXCEPT ![currentUser] = WithoutBatch(@, b.id)]
  /\ remote' = [Closed(remote, "initial") EXCEPT !.pipeline = Tail(@)]
  /\ UNCHANGED <<owner, nextBatchId, currentUser, dead, serverVars, faults>>

(* The stream ends with a permanent error: the first write of the pipeline *)
(* was at fault.  InhibitBackoff makes the stream start again at once.     *)
HandleWriteError ==
  LET b == Head(remote.pipeline) IN
  /\ remote.down # <<>> /\ ~Head(remote.down).ok
  /\ remote.pipeline # <<>>
  /\ NotifyUser(b.id, "refused")
  /\ disk' = [disk EXCEPT ![currentUser] = WithoutBatch(@, b.id)]
  /\ remote' = FillWritePipeline([Closed(remote, "initial") EXCEPT !.pipeline = Tail(@)],
                                 disk'[currentUser])
  /\ UNCHANGED <<owner, nextBatchId, currentUser, dead, serverVars, faults>>

(* The stream ends with any other error, or gets no credentials, or fails  *)
(* in the handshake: it is tried again later.                              *)
OnWriteStreamClose ==
  /\ Fault
  /\ remote.state \in {"starting", "open"}
  /\ remote' = StartIfNeeded(Closed(remote, "error"))
  /\ dead' = Abandon(remote)
  /\ UNCHANGED <<owner, disk, nextBatchId, currentUser, callbacks, serverVars, told>>

(* The idleness timer fires: Stop.                                         *)
IdleTimeout ==
  /\ remote.idle
  /\ remote' = Closed(remote, "initial")
  /\ UNCHANGED <<owner, disk, nextBatchId, currentUser, callbacks, dead,
                 serverVars, told, faults>>

(* The user changes, or, with the same user, the network is reachable      *)
(* again.  Callbacks of the other user stay where they are.                *)
HandleCredentialChange(u) ==
  /\ Fault
  /\ currentUser' = u
  /\ nextBatchId' = IF u # currentUser THEN LoadNextBatchIdFromDb(disk) ELSE nextBatchId
  /\ remote' = RestartNetwork(remote, disk[u])
  /\ dead' = Abandon(remote)
  /\ UNCHANGED <<owner, disk, callbacks, serverVars, told>>

(* The app dies and is launched again: Initialize.                         *)
Crash ==
  /\ Fault
  /\ nextBatchId' = LoadNextBatchIdFromDb(disk)
  /\ callbacks' = [u \in Users |-> {}]
  /\ remote' = RestartNetwork(NewRemote, disk[currentUser])
  /\ dead' = Abandon(remote)
  /\ UNCHANGED <<owner, disk, currentUser, serverVars, told>>

-----------------------------------------------------------------------------
(***************************************************************************)
(* The service (external): it serves each connection in order until it     *)
(* refuses a write, which ends the connection.                             *)
(***************************************************************************)
TakesEffect(w) ==
  /\ applied' = IF Contains(applied, w) THEN applied ELSE Append(applied, w)
  /\ again' = IF Contains(applied, w) THEN again \union {w} ELSE again
  /\ UNCHANGED refused

IsRefused(w) ==
  /\ Cardinality(refused) < MaxRefusals
  /\ refused' = refused \union {w}
  /\ UNCHANGED <<applied, again>>

AnswersHandshake ==
  /\ remote.handshake = "sent"
  /\ remote' = [remote EXCEPT !.handshake = "answered"]
  /\ UNCHANGED <<owner, disk, nextBatchId, currentUser, callbacks, dead,
                 serverVars, told, faults>>

Serves(ok) ==
  LET w == Head(remote.up) IN
  /\ remote.up # <<>>
  /\ Serving(remote)
  /\ IF ok THEN TakesEffect(w) ELSE IsRefused(w)
  /\ remote' = [remote EXCEPT !.up = Tail(@),
                              !.down = Append(@, [write |-> w, ok |-> ok])]
  /\ UNCHANGED <<owner, disk, nextBatchId, currentUser, callbacks, dead, told, faults>>

(* What an earlier connection still delivers.  It may also be lost: no     *)
(* fairness makes this happen.                                             *)
ServesLate(c, ok) ==
  LET w == Head(dead[c])
      rest == IF ok THEN Tail(dead[c]) ELSE <<>>
  IN
  /\ IF ok THEN TakesEffect(w) ELSE IsRefused(w)
  /\ dead' = IF rest = <<>> THEN RemoveAt(dead, c) ELSE [dead EXCEPT ![c] = rest]
  /\ UNCHANGED <<owner, disk, nextBatchId, currentUser, callbacks, remote, told, faults>>

-----------------------------------------------------------------------------
StreamStep ==
  \/ CredentialsArrive
  \/ BackoffElapses
  \/ OnWriteStreamHandshakeComplete
  \/ OnWriteStreamMutationResult
  \/ HandleWriteError

ServiceStep == AnswersHandshake \/ Serves(TRUE) \/ Serves(FALSE)

Next ==
  \/ WriteMutations
  \/ StreamStep
  \/ ServiceStep
  \/ OnWriteStreamClose
  \/ IdleTimeout
  \/ \E u \in Users : HandleCredentialChange(u)
  \/ Crash
  \/ \E c \in DOMAIN dead, ok \in BOOLEAN : ServesLate(c, ok)

(* Timers and handlers of the worker queue run, and the service answers.   *)
Spec == Init /\ [][Next]_vars /\ WF_vars(StreamStep) /\ WF_vars(ServiceStep)

-----------------------------------------------------------------------------
OnDisk(w) == \E u \in Users : \E i \in DOMAIN disk[u] : disk[u][i].write = w

(* A response carries no batch id: the client takes it to answer the first *)
(* write of the pipeline.  It always does, also after reconnections, user  *)
(* changes and restarts, and what is sent but not answered follows it.     *)
AnswersMeetTheirWrites ==
  remote.handshake = "done" =>
    [i \in DOMAIN remote.down |-> remote.down[i].write] \o remote.up
      = WritesOf(remote.pipeline)

(* The assertion of OnWriteStreamClose, "Write stream was stopped          *)
(* gracefully while still needed": the idleness timer never runs while     *)
(* something is in the pipeline, whatever starts and stops it.             *)
NotStoppedWhileNeeded == remote.idle => IsOpen(remote) /\ remote.pipeline = <<>>

(* A completion handler told of success belongs to a write that has taken  *)
(* effect, and one told of an error to a write the service has refused,    *)
(* although ids are reused and handlers outlive a change of the user.      *)
ToldTheTruth ==
  \A w \in Writes : /\ told[w] = "ok" => Contains(applied, w)
                    /\ told[w] = "refused" => w \in refused

(* A write handed over is on disk until the service has dealt with it,     *)
(* whatever connections, users and the app itself do meanwhile.            *)
NothingLost ==
  \A w \in DOMAIN owner : OnDisk(w) \/ Contains(applied, w) \/ w \in refused

(* Unless a connection, the user or the app is lost, every write takes     *)
(* effect once, and never when the app is told that it was refused.        *)
ExactlyOnceUndisturbed ==
  faults = 0 => again = {} /\ \A w \in refused : ~Contains(applied, w)

(* If its user is signed in for good, a write leaves the table in the end. *)
Resolved ==
  \A w \in Writes :
    <>[](w \in DOMAIN owner /\ owner[w] = currentUser) => <>(w \in DOMAIN owner /\ ~OnDisk(w))

(* The queue the models of the app rely on.                                *)
Queue == INSTANCE WriteQueue WITH
  Verdicts <- {"nothing", "ok", "refused"},
  pending <- [u \in Users |-> WritesOf(disk[u])],
  applied <- {applied[i] : i \in DOMAIN applied}

ImplementsQueue == Queue!Spec

(* What the service has not dealt with, and the queue of it that Comments  *)
(* uses.                                                                   *)
Waiting == {w \in Writes : OnDisk(w) /\ ~Contains(applied, w)}

Commits == INSTANCE CommitQueue WITH
  waiting <- Waiting,
  stored <- {applied[i] : i \in DOMAIN applied}

(* What a lost connection still had under way takes effect after the       *)
(* service refused the same write sent again.                              *)
Belated ==
  /\ faults' > 0
  /\ UNCHANGED <<owner, Waiting>>
  /\ \E w \in refused : ~OnDisk(w) /\ applied' = Append(applied, w)

(* The service carries out or refuses the oldest write that is left of a   *)
(* user, and that is the end of it, whatever is sent again, unless a lost  *)
(* connection still delivers a write the client dropped as refused.        *)
ImplementsCommits == Commits!Init /\ [][Commits!Next \/ Belated]_Commits!vars

-----------------------------------------------------------------------------
(***************************************************************************)
(* Why the invariants hold: the tables are sorted by batch id, the pipeline*)
(* is the front of the current user's table, what is under way follows it, *)
(* and every handler that is kept belongs to a batch that is still there.  *)
(***************************************************************************)
Sorted(q) == \A i, j \in DOMAIN q : i < j => q[i].id < q[j].id

TablesOK ==
  /\ nextBatchId > 0
  /\ \A u \in Users : /\ Sorted(disk[u])
                      /\ \A i \in DOMAIN disk[u] : disk[u][i].id \in 1 .. nextBatchId - 1

IsFront(p, q) == Len(p) <= Len(q) /\ \A i \in DOMAIN p : p[i] = q[i]

Follows(r) ==
  /\ Len(r.down) + Len(r.up) = Len(r.pipeline)
  /\ \A i \in DOMAIN r.down : r.down[i].write = r.pipeline[i].write
  /\ \A i \in DOMAIN r.up : r.up[i] = r.pipeline[Len(r.down) + i].write

RemoteOK(r, q) ==
  /\ IsFront(r.pipeline, q) /\ Len(r.pipeline) <= kMaxPendingWrites
  /\ r.state = "open" <=> r.handshake # "no"
  /\ IF r.handshake = "done" THEN Follows(r) ELSE r.up = <<>> /\ r.down = <<>>
  /\ IsStarted(r) /\ r.handshake # "done" => r.pipeline # <<>>
  /\ r.idle => IsOpen(r) /\ r.pipeline = <<>>

VerdictsOK ==
  \A i \in DOMAIN remote.down :
    IF remote.down[i].ok THEN Contains(applied, remote.down[i].write)
                         ELSE remote.down[i].write \in refused

CallbacksOK ==
  \A u \in Users : \A c \in callbacks[u] : \E i \in DOMAIN disk[u] : disk[u][i] = c

PipelineInv ==
  /\ TypeOK
  /\ TablesOK
  /\ RemoteOK(remote, disk[currentUser])
  /\ VerdictsOK
  /\ CallbacksOK
  /\ ToldTheTruth
  /\ NothingLost

-----------------------------------------------------------------------------
(***************************************************************************)
(* Why it implements the queue and disturbs nothing by itself: tables hold *)
(* writes in the order they were handed over, with no verdict yet; what an *)
(* earlier connection may deliver next has nothing unserved before it; and *)
(* without faults what was served and is still on disk is being answered.  *)
(***************************************************************************)
InOrderOK ==
  \A u \in Users : \A i \in DOMAIN disk[u] :
    /\ disk[u][i].write \in DOMAIN owner /\ owner[disk[u][i].write] = u
    /\ \A j \in 1 .. i - 1 : disk[u][j].write < disk[u][i].write

NoVerdictYet == \A w \in Writes : told[w] # "nothing" => w \in DOMAIN owner /\ ~OnDisk(w)

(* Writes on disk that w must not overtake.                                *)
Before(w) == {x \in Writes : x < w /\ OnDisk(x) /\ owner[x] = owner[w]}

LateInOrder ==
  \A c \in DOMAIN dead : \A k \in DOMAIN dead[c] :
    /\ dead[c][k] \in DOMAIN owner
    /\ \A x \in Before(dead[c][k]) : Contains(applied, x) \/ \E l \in 1 .. k - 1 : dead[c][l] = x

Served(w) == Contains(applied, w) \/ w \in refused
Answering(w) == \E i \in DOMAIN remote.down : remote.down[i].write = w

ServedOK ==
  /\ \A w \in Writes : Served(w) => w \in DOMAIN owner
  /\ \A i \in DOMAIN remote.down : ~remote.down[i].ok => i = Len(remote.down)
  /\ faults = 0 => /\ dead = <<>> /\ again = {}
                   /\ \A w \in refused : ~Contains(applied, w)
                   /\ \A w \in Writes : Served(w) /\ OnDisk(w) => Answering(w)

QueueInv == InOrderOK /\ NoVerdictYet /\ LateInOrder /\ ServedOK
=============================================================================
