-------------------------------- MODULE Chat --------------------------------
(***************************************************************************)
(* A conversation between two users, each on a device of their own.        *)
(*                                                                         *)
(* ChatLogView      -> Type, Send (its button), Open                       *)
(* ChatLogVM        -> draft, view, acks; handleSend, persistRecentMessage *)
(* the write pipeline of Firestore on each device -> queue                 *)
(* Messages/{user}/{peer}          -> logs[user]                           *)
(* Recents/{user}/Messages/{peer}  -> recents[user]                        *)
(*                                                                         *)
(* A message is named by its number in the order of creation, which is the *)
(* order of its field "time".                                              *)
(***************************************************************************)
EXTENDS Naturals, Sequences, SequencesExt, Functions, FiniteSets

CONSTANTS
  Users,        \* the two users of the conversation
  MaxMessages,  \* bound: messages sent in all
  MaxRejects,   \* bound: writes the service refuses
  MaxCrashes    \* bound: how often an app dies

ASSUME ChatAssumption ==
  /\ IsFiniteSet(Users) /\ Cardinality(Users) = 2
  /\ MaxMessages \in Nat /\ MaxRejects \in Nat /\ MaxCrashes \in Nat

VARIABLES
  sent,     \* the sender of each message
  draft,    \* chatText is not empty: the send button is shown
  queue,    \* per device, the writes not yet acknowledged, oldest first
  acks,     \* per device, acknowledged messages whose callback has not run
  logs,     \* messages stored in each user's log of the conversation
  recents,  \* each user's recent message of the conversation, 0 for none
  view,     \* ChatLogVM.chatMessages
  seen,     \* the documents the listener has reported so far
  refused,  \* history: writes the service refused
  crashes,  \* history: apps that died
  cut       \* history: messages whose sending a crash cut in two

vars == <<sent, draft, queue, acks, logs, recents, view, seen, refused, crashes, cut>>
screenVars == <<view, seen>>
serverVars == <<logs, recents>>

Message == 1 .. MaxMessages
Write == [into: {"log", "recent"}, of: Users, message: Message, callback: BOOLEAN]
Peer(u) == CHOOSE w \in Users : w # u

TypeOK ==
  /\ sent \in Seq(Users) /\ Len(sent) <= MaxMessages
  /\ draft \in [Users -> BOOLEAN]
  /\ queue \in [Users -> Seq(Write)]
  /\ acks \in [Users -> Seq(Message)]
  /\ logs \in [Users -> SUBSET Message]
  /\ recents \in [Users -> 0 .. MaxMessages]
  /\ view \in [Users -> Seq(Message)]
  /\ seen \in [Users -> SUBSET Message]
  /\ refused \subseteq Write
  /\ crashes \in 0 .. MaxCrashes
  /\ cut \subseteq Message

Init ==
  /\ sent = <<>>
  /\ draft = [u \in Users |-> FALSE]
  /\ queue = [u \in Users |-> <<>>]
  /\ acks = [u \in Users |-> <<>>]
  /\ logs = [u \in Users |-> {}]
  /\ recents = [u \in Users |-> 0]
  /\ view = [u \in Users |-> <<>>]
  /\ seen = [u \in Users |-> {}]
  /\ refused = {}
  /\ crashes = 0
  /\ cut = {}

-----------------------------------------------------------------------------
Type(u) ==
  /\ ~draft[u]
  /\ draft' = [draft EXCEPT ![u] = TRUE]
  /\ UNCHANGED <<sent, queue, acks, serverVars, screenVars, refused, crashes, cut>>

(* Mutant of LogWrites: both copies go to the sender's log.                *)
OneLogTwice(u, m) ==
  << [into |-> "log", of |-> u, message |-> m, callback |-> TRUE],
     [into |-> "log", of |-> u, message |-> m, callback |-> FALSE] >>

LogWrites(u, m) ==
  << [into |-> "log", of |-> u, message |-> m, callback |-> TRUE],
     [into |-> "log", of |-> Peer(u), message |-> m, callback |-> FALSE] >>

RecentWrites(u, m) ==
  << [into |-> "recent", of |-> u, message |-> m, callback |-> FALSE],
     [into |-> "recent", of |-> Peer(u), message |-> m, callback |-> FALSE] >>

(* Mutant of Send: the recent message is written with the message.         *)
SendsRecentAtOnce(u) ==
  LET m == Len(sent) + 1 IN
  /\ draft[u]
  /\ m \in Message
  /\ sent' = Append(sent, u)
  /\ queue' = [queue EXCEPT ![u] = @ \o RecentWrites(u, m) \o LogWrites(u, m)]
  /\ UNCHANGED <<draft, acks, serverVars, screenVars, refused, crashes, cut>>

(* handleSend: both copies are handed to the write pipeline, one after the *)
(* other.  chatText stays until the callback, so the same text can be sent *)
(* again.                                                                  *)
Send(u) ==
  LET m == Len(sent) + 1 IN
  /\ draft[u]
  /\ m \in Message
  /\ sent' = Append(sent, u)
  /\ queue' = [queue EXCEPT ![u] = @ \o LogWrites(u, m)]
  /\ UNCHANGED <<draft, acks, serverVars, screenVars, refused, crashes, cut>>

(* The service applies the oldest write of a device.                       *)
Commit(u) ==
  /\ queue[u] # <<>>
  /\ LET w == Head(queue[u]) IN
     /\ queue' = [queue EXCEPT ![u] = Tail(@)]
     /\ logs' = IF w.into = "log" THEN [logs EXCEPT ![w.of] = @ \union {w.message}] ELSE logs
     /\ recents' = IF w.into = "recent" THEN [recents EXCEPT ![w.of] = w.message] ELSE recents
     /\ acks' = IF w.callback THEN [acks EXCEPT ![u] = Append(@, w.message)] ELSE acks
  /\ UNCHANGED <<sent, draft, screenVars, refused, crashes, cut>>

(* Or it refuses it: the closure prints the error and returns.             *)
Reject(u) ==
  /\ queue[u] # <<>>
  /\ Cardinality(refused) < MaxRejects
  /\ queue' = [queue EXCEPT ![u] = Tail(@)]
  /\ refused' = refused \union {Head(queue[u])}
  /\ UNCHANGED <<sent, draft, acks, serverVars, screenVars, crashes, cut>>

(* Mutant of Acknowledged: an emptied text field counts as nothing sent.   *)
DropsRecent(u) ==
  /\ acks[u] # <<>>
  /\ queue' = [queue EXCEPT ![u] = @ \o (IF draft[u] THEN RecentWrites(u, Head(acks[u])) ELSE <<>>)]
  /\ acks' = [acks EXCEPT ![u] = Tail(@)]
  /\ draft' = [draft EXCEPT ![u] = FALSE]
  /\ UNCHANGED <<sent, serverVars, screenVars, refused, crashes, cut>>

(* The callback of the sender's copy: persistRecentMessage, and the text   *)
(* field is emptied, whatever has been typed in the meantime.              *)
Acknowledged(u) ==
  /\ acks[u] # <<>>
  /\ queue' = [queue EXCEPT ![u] = @ \o RecentWrites(u, Head(acks[u]))]
  /\ acks' = [acks EXCEPT ![u] = Tail(@)]
  /\ draft' = [draft EXCEPT ![u] = FALSE]
  /\ UNCHANGED <<sent, serverVars, screenVars, refused, crashes, cut>>

-----------------------------------------------------------------------------
(***************************************************************************)
(* The screen.                                                             *)
(***************************************************************************)

(* What the query of u's log yields on u's device: the server's documents  *)
(* and the device's own writes, acknowledged or not.                       *)
Local(u) == logs[u] \union {queue[u][i].message :
              i \in {k \in DOMAIN queue[u] : queue[u][k].into = "log" /\ queue[u][k].of = u}}

Ascending(s) == \A i, j \in DOMAIN s : i < j => s[i] < s[j]

(* Mutant of Added: every snapshot is taken as a whole.                    *)
AddsAll(u) == {s \in SetToSeqs(Local(u)) : Ascending(s)}

(* The documents of type added of a snapshot, ordered by time.             *)
Added(u) == {s \in SetToSeqs(Local(u) \ seen[u]) : Ascending(s)}

(* Mutant of Snapshot: new documents go to the top of the list.            *)
InsertsFirst(u) ==
  /\ Local(u) # seen[u]
  /\ seen' = [seen EXCEPT ![u] = Local(u)]
  /\ \E added \in Added(u) : view' = [view EXCEPT ![u] = added \o @]
  /\ UNCHANGED <<sent, draft, queue, acks, serverVars, refused, crashes, cut>>

(* The listener reports what changed; only what was added is looked at,    *)
(* and it goes to the end of the list.                                     *)
Snapshot(u) ==
  /\ Local(u) # seen[u]
  /\ seen' = [seen EXCEPT ![u] = Local(u)]
  /\ \E added \in Added(u) : view' = [view EXCEPT ![u] = @ \o added]
  /\ UNCHANGED <<sent, draft, queue, acks, serverVars, refused, crashes, cut>>

(* fetchMessages of a new ChatLogVM: an empty list, a new listener.        *)
Open(u) ==
  /\ view[u] # <<>>
  /\ view' = [view EXCEPT ![u] = <<>>]
  /\ seen' = [seen EXCEPT ![u] = {}]
  /\ UNCHANGED <<sent, draft, queue, acks, serverVars, refused, crashes, cut>>

(* The app dies.  What it had handed to the pipeline is on disk, the       *)
(* callbacks are not.                                                      *)
Dies(u, handed) ==
  /\ crashes < MaxCrashes
  /\ crashes' = crashes + 1
  /\ queue' = [queue EXCEPT ![u] = [i \in DOMAIN handed |-> [handed[i] EXCEPT !.callback = FALSE]]]
  /\ acks' = [acks EXCEPT ![u] = <<>>]
  /\ draft' = [draft EXCEPT ![u] = FALSE]
  /\ view' = [view EXCEPT ![u] = <<>>]
  /\ seen' = [seen EXCEPT ![u] = {}]
  /\ UNCHANGED <<serverVars, refused>>

Crash(u) ==
  /\ Dies(u, queue[u])
  /\ UNCHANGED <<sent, cut>>

(* It dies in handleSend: the sender's copy is on disk, and setData has    *)
(* not been called for the receiver's.                                     *)
CrashWhileSending(u) ==
  LET m == Len(sent) + 1 IN
  /\ draft[u]
  /\ m \in Message
  /\ sent' = Append(sent, u)
  /\ Dies(u, Append(queue[u], LogWrites(u, m)[1]))
  /\ cut' = cut \union {m}

(* Or in persistRecentMessage, between its two calls.                      *)
CrashWhileAcknowledging(u) ==
  /\ acks[u] # <<>>
  /\ Dies(u, Append(queue[u], RecentWrites(u, Head(acks[u]))[1]))
  /\ UNCHANGED <<sent, cut>>

Next == \E u \in Users : \/ Type(u) \/ Send(u) \/ Open(u)
                         \/ Crash(u) \/ CrashWhileSending(u) \/ CrashWhileAcknowledging(u)
                         \/ Commit(u) \/ Reject(u) \/ Acknowledged(u) \/ Snapshot(u)

Spec == Init /\ [][Next]_vars

(* Pipelines, callbacks and listeners do not stop; users may.              *)
FairSpec ==
  Spec /\ \A u \in Users : /\ WF_vars(Commit(u) \/ Reject(u))
                           /\ WF_vars(Acknowledged(u))
                           /\ WF_vars(Snapshot(u))

-----------------------------------------------------------------------------
(* A write of message m into what w has of the conversation was refused.   *)
Refused(into, w, m) ==
  \E r \in refused : r.into = into /\ r.of = w /\ r.message = m

(* The receiver's copy of m was never handed over.                         *)
Cut(w, m) == m \in cut /\ w # sent[m]

(* When both pipelines are empty each log has all that was ever sent: the  *)
(* sender's but for copies the service refused, the receiver's but for     *)
(* those and the messages in whose sending an app died between the two     *)
(* calls, although the two copies are written independently of each other. *)
BothLogsComplete ==
  (\A u \in Users : queue[u] = <<>>) =>
    \A w \in Users : \A m \in DOMAIN sent :
      m \in logs[w] \/ Refused("log", w, m) \/ Cut(w, m)

(* The recent message of a conversation is one its sender has in the log,  *)
(* and so has its receiver unless that copy was refused: whoever follows   *)
(* the chat list into the chat finds the message there.  A message whose   *)
(* sending was cut is in one log only, and it never is a recent message.   *)
RecentsAreLogged ==
  \A w \in Users : recents[w] # 0 =>
    /\ recents[w] \in logs[sent[recents[w]]]
    /\ recents[w] \in logs[w] \/ Refused("log", w, recents[w])

(* While only one side writes, nothing is refused and no app dies, the     *)
(* recent message is the latest of the log once all is written: repeated   *)
(* sends overtake each other neither in the pipeline nor in the callbacks. *)
OneSidedRecents ==
  (/\ \A u \in Users : queue[u] = <<>> /\ acks[u] = <<>>
   /\ refused = {} /\ crashes = 0
   /\ \A i, j \in DOMAIN sent : sent[i] = sent[j])
  => \A w \in Users : recents[w] = Len(sent)

(* The messages of one sender are listed in the order they were sent, on   *)
(* both screens, although the list ignores where the listener says a new   *)
(* document belongs.                                                       *)
PerSenderOrder ==
  \A u \in Users : \A i, j \in DOMAIN view[u] :
    i < j /\ sent[view[u][i]] = sent[view[u][j]] => view[u][i] < view[u][j]

(* A screen that is up to date lists every logged message once; what it    *)
(* lists beyond them are its user's own messages that were refused.        *)
ViewIsLog ==
  \A u \in Users : queue[u] = <<>> /\ seen[u] = Local(u) =>
    /\ IsInjective(view[u])
    /\ logs[u] \subseteq Range(view[u])
    /\ \A m \in Range(view[u]) \ logs[u] : sent[m] = u /\ Refused("log", u, m)

(* Whatever is sent reaches both logs, if it is not refused and its        *)
(* sending was not cut: again and again nothing is missing, and what is    *)
(* logged stays.                                                           *)
Delivered ==
  []<>(\A m \in DOMAIN sent : \A w \in Users :
         m \in logs[w] \/ Refused("log", w, m) \/ Cut(w, m))

-----------------------------------------------------------------------------
(***************************************************************************)
(* What the proofs rest on.                                                *)
(***************************************************************************)

(* What waits in a pipeline or a callback, and what is logged, was sent;   *)
(* only its sender's device writes it, and only the sender's own copy is   *)
(* called back for, once it is in the log.                                 *)
OwnOK ==
  /\ \A u \in Users : \A i \in DOMAIN queue[u] :
       /\ queue[u][i].message \in DOMAIN sent /\ sent[queue[u][i].message] = u
       /\ queue[u][i].callback => queue[u][i].into = "log" /\ queue[u][i].of = u
  /\ \A u \in Users : \A i \in DOMAIN acks[u] :
       acks[u][i] \in logs[u] /\ sent[acks[u][i]] = u
  /\ \A u \in Users : logs[u] \subseteq DOMAIN sent

Settled(w, m) == m \in logs[w] \/ Refused("log", w, m)

(* The i-th write of u's pipeline is the copy of m for w's log.            *)
CopyAt(u, i, w, m) ==
  queue[u][i].into = "log" /\ queue[u][i].of = w /\ queue[u][i].message = m

Waits(u, w, m) == \E i \in DOMAIN queue[u] : CopyAt(u, i, w, m)
WaitsBefore(u, n, w, m) == \E i \in DOMAIN queue[u] : i < n /\ CopyAt(u, i, w, m)

(* A message whose sending was cut is not called back for, and is on its   *)
(* way to no recent message.                                               *)
CutOK ==
  /\ cut \subseteq DOMAIN sent
  /\ \A u \in Users : \A i \in DOMAIN queue[u] :
       queue[u][i].callback \/ queue[u][i].into = "recent" => queue[u][i].message \notin cut
  /\ \A u \in Users : \A i \in DOMAIN acks[u] : acks[u][i] \notin cut

(* No copy is lost: it waits, or the service has answered, or it was never *)
(* handed over.                                                            *)
CopiesOK ==
  \A u, w \in Users : \A m \in DOMAIN sent :
    sent[m] = u => Settled(w, m) \/ Waits(u, w, m) \/ Cut(w, m)

(* A recent message waits behind the copies of the message for both logs,  *)
(* and is written when they are answered.                                  *)
RecentsOK ==
  \A w \in Users : \A m \in Message :
    /\ recents[w] = m => /\ m \in DOMAIN sent /\ m \in logs[sent[m]]
                         /\ Settled(w, m)
    /\ \A u \in Users : \A i \in DOMAIN queue[u] :
         queue[u][i].into = "recent" /\ queue[u][i].message = m =>
           m \in logs[u] /\ (Settled(w, m) \/ WaitsBefore(u, i, w, m))

LoggedInv == TypeOK /\ OwnOK /\ CutOK /\ CopiesOK /\ RecentsOK

(* The copies for one log leave a device in the order they were sent, and  *)
(* those that have arrived are older than those that wait.                 *)
QueueOK(u) ==
  \A i \in DOMAIN queue[u] : queue[u][i].into = "log" =>
    /\ \A j \in DOMAIN queue[u] :
         /\ i < j /\ queue[u][j].into = "log" /\ queue[u][j].of = queue[u][i].of
         => queue[u][i].message < queue[u][j].message
    /\ \A c \in logs[queue[u][i].of] : sent[c] = u => c < queue[u][i].message

(* What the other has sent is listed only when it is logged; and what is   *)
(* still to be reported is newer than what is listed of the same sender.   *)
ListOK(u) ==
  \A i \in DOMAIN view[u] :
    /\ view[u][i] \in DOMAIN sent
    /\ sent[view[u][i]] # u => view[u][i] \in logs[u]
    /\ \A c \in Local(u) \ seen[u] : sent[c] = sent[view[u][i]] => view[u][i] < c

(* Nothing is listed twice, what the listener has reported is listed, what *)
(* it is still to report is not, and what has left its query was refused.  *)
ListedOK(u) ==
  /\ IsInjective(view[u])
  /\ seen[u] \subseteq Range(view[u])
  /\ Range(view[u]) \intersect (Local(u) \ seen[u]) = {}
  /\ \A m \in Range(view[u]) \ Local(u) : sent[m] = u /\ Refused("log", u, m)

ViewInv ==
  /\ LoggedInv
  /\ \A u \in Users : QueueOK(u) /\ ListOK(u) /\ ListedOK(u)
  /\ PerSenderOrder

(* On its way to a recent message, a message is in the pipeline as a copy  *)
(* with a callback, then acknowledged, then in the pipeline again: the     *)
(* further it has got, the older it is.                                    *)
StagesOK(u) ==
  /\ \A i, j \in DOMAIN queue[u] :
       LET x == queue[u][i]
           y == queue[u][j] IN
       /\ i < j /\ x.into = "recent" /\ y.into = "recent" /\ x.of = y.of => x.message < y.message
       /\ i < j /\ x.callback /\ y.callback => x.message < y.message
       /\ x.into = "recent" /\ y.callback => x.message < y.message
  /\ \A k \in DOMAIN acks[u] :
       /\ \A l \in DOMAIN acks[u] : k < l => acks[u][k] < acks[u][l]
       /\ \A i \in DOMAIN queue[u] :
            /\ queue[u][i].into = "recent" => queue[u][i].message < acks[u][k]
            /\ queue[u][i].callback => acks[u][k] < queue[u][i].message

(* While u alone writes, w's recent message is older than all that is on   *)
(* its way, and if it is not the newest message, that is on its way.       *)
NewestOK(u, w) ==
  /\ \A i \in DOMAIN queue[u] :
       (queue[u][i].into = "recent" /\ queue[u][i].of = w) \/ queue[u][i].callback
       => recents[w] < queue[u][i].message
  /\ \A k \in DOMAIN acks[u] : recents[w] < acks[u][k]
  /\ \/ recents[w] = Len(sent)
     \/ \E k \in DOMAIN acks[u] : acks[u][k] = Len(sent)
     \/ \E i \in DOMAIN queue[u] :
          /\ queue[u][i].message = Len(sent)
          /\ (queue[u][i].into = "recent" /\ queue[u][i].of = w) \/ queue[u][i].callback

Calm == refused = {} /\ crashes = 0

OneSidedInv ==
  /\ LoggedInv
  /\ \A u \in Users : StagesOK(u)
  /\ \A u, w \in Users :
       Calm /\ (\A m \in DOMAIN sent : sent[m] = u) => NewestOK(u, w)
=============================================================================
