----------------------------- MODULE ChatProofs -----------------------------
(***************************************************************************)
(* Proofs about Chat, for every number of messages, refusals and crashes.  *)
(***************************************************************************)
EXTENDS Chat, FiniteSetTheorems, TLAPS

-----------------------------------------------------------------------------
(* There is nobody else in a conversation than a user and their peer.      *)
LEMMA PeerFacts ==
  ASSUME NEW u \in Users
  PROVE  Peer(u) \in Users /\ Peer(u) # u /\ \A w \in Users : w = u \/ w = Peer(u)
<1>1. Cardinality(Users \ {u}) = 1 /\ IsFiniteSet(Users \ {u})
  BY ChatAssumption, FS_RemoveElement
<1>2. Users \ {u} # {}
  BY <1>1, FS_EmptySet
<1>3. PICK v \in Users : v # u
  BY <1>2
<1>4. Cardinality((Users \ {u}) \ {v}) = 0 /\ IsFiniteSet((Users \ {u}) \ {v})
  BY <1>1, <1>3, FS_RemoveElement
<1>5. (Users \ {u}) \ {v} = {}
  BY <1>4, FS_EmptySet
<1>6. \A w \in Users : w # u => w = v
  BY <1>5
<1>7. Peer(u) \in Users /\ Peer(u) # u
  BY <1>3 DEF Peer
<1> QED BY <1>6, <1>7

(* A pipeline, split into its oldest write and the rest.                   *)
LEMMA TailFacts ==
  ASSUME NEW S, NEW s \in Seq(S), s # <<>>
  PROVE  /\ Head(s) \in S
         /\ Tail(s) \in Seq(S)
         /\ Len(s) \in Nat /\ Len(Tail(s)) = Len(s) - 1
         /\ 1 \in DOMAIN s /\ Head(s) = s[1]
         /\ \A i \in DOMAIN s : i \in Nat /\ 1 <= i /\ i <= Len(s)
         /\ \A i \in DOMAIN Tail(s) : i \in Nat /\ 1 <= i /\ i + 1 \in DOMAIN s /\ Tail(s)[i] = s[i + 1]
         /\ \A i \in DOMAIN s : i = 1 \/ (i - 1 \in DOMAIN Tail(s) /\ Tail(s)[i - 1] = s[i])
OBVIOUS

LEMMA AppendFacts ==
  ASSUME NEW S, NEW s \in Seq(S), NEW e \in S
  PROVE  /\ Append(s, e) \in Seq(S)
         /\ \A i \in DOMAIN Append(s, e) :
              \/ i \in DOMAIN s /\ Append(s, e)[i] = s[i]
              \/ i = Len(s) + 1 /\ Append(s, e)[i] = e
         /\ \A i \in DOMAIN s : i \in DOMAIN Append(s, e) /\ Append(s, e)[i] = s[i] /\ i < Len(s) + 1 /\ i \in Nat
         /\ Len(s) + 1 \in DOMAIN Append(s, e) /\ Append(s, e)[Len(s) + 1] = e
         /\ Len(Append(s, e)) = Len(s) + 1 /\ Len(s) \in Nat
OBVIOUS

(* A pipeline with two more writes.                                        *)
LEMMA TwoMoreFacts ==
  ASSUME NEW S, NEW s \in Seq(S), NEW a \in S, NEW b \in S
  PROVE  LET t == s \o <<a, b>>
             n == Len(s) IN
         /\ t \in Seq(S)
         /\ n \in Nat /\ Len(t) = n + 2
         /\ \A i \in DOMAIN s : i \in Nat /\ i <= n /\ i \in DOMAIN t /\ t[i] = s[i]
         /\ n + 1 \in DOMAIN t /\ t[n + 1] = a
         /\ n + 2 \in DOMAIN t /\ t[n + 2] = b
         /\ \A i \in DOMAIN t : \/ i \in DOMAIN s /\ t[i] = s[i]
                                \/ i = n + 1 /\ t[i] = a
                                \/ i = n + 2 /\ t[i] = b
<1> DEFINE t == s \o <<a, b>>
<1>1. <<a, b>> \in Seq(S) /\ Len(<<a, b>>) = 2 /\ <<a, b>>[1] = a /\ <<a, b>>[2] = b
  OBVIOUS
<1>2. t \in Seq(S) /\ Len(s) \in Nat /\ Len(t) = Len(s) + 2
  BY <1>1
<1>3. \A i \in DOMAIN s : i \in Nat /\ i <= Len(s) /\ i \in DOMAIN t /\ t[i] = s[i]
  BY <1>1
<1>4. Len(s) + 1 \in DOMAIN t /\ t[Len(s) + 1] = a /\ Len(s) + 2 \in DOMAIN t /\ t[Len(s) + 2] = b
  BY <1>1
<1>5. \A i \in DOMAIN t : i \in DOMAIN s \/ i = Len(s) + 1 \/ i = Len(s) + 2
  BY <1>2
<1> QED BY <1>2, <1>3, <1>4, <1>5

(* Two lists, one after the other.                                         *)
LEMMA ConcatFacts ==
  ASSUME NEW S, NEW s \in Seq(S), NEW t \in Seq(S)
  PROVE  /\ s \o t \in Seq(S)
         /\ \A i \in DOMAIN (s \o t) :
              \/ i \in DOMAIN s /\ (s \o t)[i] = s[i]
              \/ /\ i - Len(s) \in DOMAIN t /\ (s \o t)[i] = t[i - Len(s)]
                 /\ \A j \in DOMAIN s : j < i
OBVIOUS

LEMMA SeqMonotone ==
  ASSUME NEW S, NEW T, S \subseteq T, NEW s \in Seq(S)
  PROVE  s \in Seq(T)
OBVIOUS

-----------------------------------------------------------------------------
(***************************************************************************)
(* What the steps do to the pipelines.                                     *)
(***************************************************************************)
LEMMA TypeFacts ==
  ASSUME TypeOK, NEW u \in Users
  PROVE  /\ queue[u] \in Seq(Write) /\ acks[u] \in Seq(Message) /\ view[u] \in Seq(Message)
         /\ logs[u] \subseteq Message /\ seen[u] \subseteq Message /\ recents[u] \in Nat
         /\ Message \subseteq Nat
         /\ sent \in Seq(Users) /\ Len(sent) \in Nat /\ DOMAIN sent = 1 .. Len(sent)
         /\ DOMAIN sent \subseteq Message
         /\ \A i \in DOMAIN queue[u] : queue[u][i] \in Write
         /\ \A k \in DOMAIN acks[u] : acks[u][k] \in Message
         /\ \A i \in DOMAIN view[u] : view[u][i] \in Message
<1>1. /\ queue[u] \in Seq(Write) /\ acks[u] \in Seq(Message) /\ view[u] \in Seq(Message)
      /\ logs[u] \subseteq Message /\ seen[u] \subseteq Message /\ recents[u] \in 0 .. MaxMessages
      /\ sent \in Seq(Users) /\ Len(sent) <= MaxMessages
  BY DEF TypeOK
<1>2. Message \subseteq Nat /\ recents[u] \in Nat
  BY <1>1, ChatAssumption DEF Message
<1>3. Len(sent) \in Nat /\ DOMAIN sent = 1 .. Len(sent) /\ DOMAIN sent \subseteq Message
  BY <1>1, ChatAssumption DEF Message
<1>4. /\ \A i \in DOMAIN queue[u] : queue[u][i] \in Write
      /\ \A k \in DOMAIN acks[u] : acks[u][k] \in Message
      /\ \A i \in DOMAIN view[u] : view[u][i] \in Message
  BY <1>1
<1> QED BY <1>1, <1>2, <1>3, <1>4

LEMMA WriteFacts ==
  ASSUME NEW x \in Write
  PROVE  /\ x.into \in {"log", "recent"} /\ x.of \in Users /\ x.message \in Message
         /\ x.callback \in BOOLEAN
         /\ x = [into |-> x.into, of |-> x.of, message |-> x.message, callback |-> x.callback]
BY DEF Write

LEMMA SendFacts ==
  ASSUME TypeOK, NEW u \in Users, Send(u)
  PROVE  LET m == Len(sent) + 1
             n == Len(queue[u])
             own == [into |-> "log", of |-> u, message |-> m, callback |-> TRUE]
             other == [into |-> "log", of |-> Peer(u), message |-> m, callback |-> FALSE]
         IN /\ m \in Message /\ sent' = Append(sent, u) /\ sent' \in Seq(Users)
            /\ Len(sent') = m /\ DOMAIN sent' = DOMAIN sent \union {m} /\ sent'[m] = u
            /\ \A c \in DOMAIN sent : c \in Nat /\ sent'[c] = sent[c] /\ c < m
            /\ \A v \in Users : v # u => queue'[v] = queue[v]
            /\ queue' \in [Users -> Seq(Write)]
            /\ n \in Nat /\ Len(queue'[u]) = n + 2
            /\ \A i \in DOMAIN queue[u] : i \in Nat /\ i <= n /\ i \in DOMAIN queue'[u] /\ queue'[u][i] = queue[u][i]
            /\ n + 1 \in DOMAIN queue'[u] /\ queue'[u][n + 1] = own
            /\ n + 2 \in DOMAIN queue'[u] /\ queue'[u][n + 2] = other
            /\ \A i \in DOMAIN queue'[u] : \/ i \in DOMAIN queue[u] /\ queue'[u][i] = queue[u][i]
                                           \/ i = n + 1 /\ queue'[u][i] = own
                                           \/ i = n + 2 /\ queue'[u][i] = other
<1> DEFINE m == Len(sent) + 1
           own == [into |-> "log", of |-> u, message |-> m, callback |-> TRUE]
           other == [into |-> "log", of |-> Peer(u), message |-> m, callback |-> FALSE]
<1>1. m \in Message /\ sent' = Append(sent, u) /\ sent \in Seq(Users) /\ queue[u] \in Seq(Write)
  BY DEF Send, TypeOK
<1>2. own \in Write /\ other \in Write
  BY <1>1, PeerFacts DEF Write
<1>3. queue'[u] = queue[u] \o <<own, other>> /\ \A v \in Users : v # u => queue'[v] = queue[v]
  BY DEF Send, TypeOK, LogWrites
<1>4. /\ sent' \in Seq(Users) /\ Len(sent') = m /\ DOMAIN sent' = DOMAIN sent \union {m} /\ sent'[m] = u
      /\ \A c \in DOMAIN sent : c \in Nat /\ sent'[c] = sent[c] /\ c < m
  BY <1>1
<1>5. queue' = [queue EXCEPT ![u] = queue[u] \o <<own, other>>]
  BY DEF Send, LogWrites
<1> HIDE DEF own, other, m
<1>6. queue' \in [Users -> Seq(Write)]
  BY <1>1, <1>2, <1>5 DEF TypeOK
<1>7. /\ Len(queue[u]) \in Nat /\ Len(queue'[u]) = Len(queue[u]) + 2
      /\ \A i \in DOMAIN queue[u] : i \in Nat /\ i <= Len(queue[u]) /\ i \in DOMAIN queue'[u] /\ queue'[u][i] = queue[u][i]
      /\ Len(queue[u]) + 1 \in DOMAIN queue'[u] /\ queue'[u][Len(queue[u]) + 1] = own
      /\ Len(queue[u]) + 2 \in DOMAIN queue'[u] /\ queue'[u][Len(queue[u]) + 2] = other
      /\ \A i \in DOMAIN queue'[u] : \/ i \in DOMAIN queue[u] /\ queue'[u][i] = queue[u][i]
                                     \/ i = Len(queue[u]) + 1 /\ queue'[u][i] = own
                                     \/ i = Len(queue[u]) + 2 /\ queue'[u][i] = other
  <2>1. queue[u] \in Seq(Write) /\ own \in Write /\ other \in Write
    BY <1>1, <1>2, <1>3
  <2> QED BY <1>1, <1>2, <1>3, <2>1, TwoMoreFacts
<1> QED BY <1>1, <1>3, <1>4, <1>6, <1>7 DEF own, other, m

LEMMA AckFacts ==
  ASSUME TypeOK, NEW u \in Users, Acknowledged(u)
  PROVE  LET m == Head(acks[u])
             n == Len(queue[u])
             own == [into |-> "recent", of |-> u, message |-> m, callback |-> FALSE]
             other == [into |-> "recent", of |-> Peer(u), message |-> m, callback |-> FALSE]
         IN /\ m \in Message /\ 1 \in DOMAIN acks[u] /\ acks[u][1] = m
            /\ acks'[u] = Tail(acks[u]) /\ acks' \in [Users -> Seq(Message)]
            /\ \A v \in Users : v # u => queue'[v] = queue[v] /\ acks'[v] = acks[v]
            /\ \A k \in DOMAIN acks'[u] : k \in Nat /\ 1 <= k /\ k + 1 \in DOMAIN acks[u] /\ acks'[u][k] = acks[u][k + 1]
            /\ \A k \in DOMAIN acks[u] : k = 1 \/ (k - 1 \in DOMAIN acks'[u] /\ acks'[u][k - 1] = acks[u][k])
            /\ queue' \in [Users -> Seq(Write)]
            /\ n \in Nat /\ Len(queue'[u]) = n + 2
            /\ \A i \in DOMAIN queue[u] : i \in Nat /\ i <= n /\ i \in DOMAIN queue'[u] /\ queue'[u][i] = queue[u][i]
            /\ n + 1 \in DOMAIN queue'[u] /\ queue'[u][n + 1] = own
            /\ n + 2 \in DOMAIN queue'[u] /\ queue'[u][n + 2] = other
            /\ \A i \in DOMAIN queue'[u] : \/ i \in DOMAIN queue[u] /\ queue'[u][i] = queue[u][i]
                                           \/ i = n + 1 /\ queue'[u][i] = own
                                           \/ i = n + 2 /\ queue'[u][i] = other
<1> DEFINE m == Head(acks[u])
           own == [into |-> "recent", of |-> u, message |-> m, callback |-> FALSE]
           other == [into |-> "recent", of |-> Peer(u), message |-> m, callback |-> FALSE]
<1>1. acks[u] \in Seq(Message) /\ acks[u] # <<>> /\ queue[u] \in Seq(Write)
  BY DEF Acknowledged, TypeOK
<1>2. /\ m \in Message /\ 1 \in DOMAIN acks[u] /\ acks[u][1] = m /\ Tail(acks[u]) \in Seq(Message)
      /\ \A k \in DOMAIN Tail(acks[u]) : k \in Nat /\ 1 <= k /\ k + 1 \in DOMAIN acks[u] /\ Tail(acks[u])[k] = acks[u][k + 1]
      /\ \A k \in DOMAIN acks[u] : k = 1 \/ (k - 1 \in DOMAIN Tail(acks[u]) /\ Tail(acks[u])[k - 1] = acks[u][k])
  BY <1>1, TailFacts
<1>3. own \in Write /\ other \in Write
  BY <1>2, PeerFacts DEF Write
<1>4. /\ queue'[u] = queue[u] \o <<own, other>> /\ acks'[u] = Tail(acks[u])
      /\ \A v \in Users : v # u => queue'[v] = queue[v] /\ acks'[v] = acks[v]
  BY DEF Acknowledged, TypeOK, RecentWrites
<1>5. queue' = [queue EXCEPT ![u] = queue[u] \o <<own, other>>]
  BY DEF Acknowledged, RecentWrites
<1> HIDE DEF own, other, m
<1>6. queue' \in [Users -> Seq(Write)]
  BY <1>1, <1>3, <1>5 DEF TypeOK
<1>7. acks' \in [Users -> Seq(Message)]
  BY <1>2 DEF Acknowledged, TypeOK
<1>8. /\ Len(queue[u]) \in Nat /\ Len(queue'[u]) = Len(queue[u]) + 2
      /\ \A i \in DOMAIN queue[u] : i \in Nat /\ i <= Len(queue[u]) /\ i \in DOMAIN queue'[u] /\ queue'[u][i] = queue[u][i]
      /\ Len(queue[u]) + 1 \in DOMAIN queue'[u] /\ queue'[u][Len(queue[u]) + 1] = own
      /\ Len(queue[u]) + 2 \in DOMAIN queue'[u] /\ queue'[u][Len(queue[u]) + 2] = other
      /\ \A i \in DOMAIN queue'[u] : \/ i \in DOMAIN queue[u] /\ queue'[u][i] = queue[u][i]
                                     \/ i = Len(queue[u]) + 1 /\ queue'[u][i] = own
                                     \/ i = Len(queue[u]) + 2 /\ queue'[u][i] = other
  <2>1. queue[u] \in Seq(Write) /\ own \in Write /\ other \in Write
    BY <1>1, <1>3, <1>4
  <2> QED BY <1>1, <1>3, <1>4, <2>1, TwoMoreFacts
<1> QED BY <1>2, <1>4, <1>6, <1>7, <1>8 DEF own, other, m

(* The oldest write leaves the pipeline.                                   *)
LEMMA AnsweredFacts ==
  ASSUME TypeOK, NEW u \in Users, Commit(u) \/ Reject(u)
  PROVE  /\ queue[u][1] \in Write /\ Head(queue[u]) \in Write /\ 1 \in DOMAIN queue[u] /\ Head(queue[u]) = queue[u][1]
         /\ queue'[u] = Tail(queue[u]) /\ queue' \in [Users -> Seq(Write)]
         /\ \A v \in Users : v # u => queue'[v] = queue[v]
         /\ Len(queue[u]) \in Nat /\ Len(queue'[u]) = Len(queue[u]) - 1
         /\ \A i \in DOMAIN queue[u] : i \in Nat /\ 1 <= i /\ i <= Len(queue[u])
         /\ \A i \in DOMAIN queue'[u] : i \in Nat /\ 1 <= i /\ i + 1 \in DOMAIN queue[u] /\ queue'[u][i] = queue[u][i + 1]
         /\ \A i \in DOMAIN queue[u] : i = 1 \/ (i - 1 \in DOMAIN queue'[u] /\ queue'[u][i - 1] = queue[u][i])
<1>1. queue[u] \in Seq(Write) /\ queue[u] # <<>>
  BY DEF TypeOK, Commit, Reject
<1>2. queue' = [queue EXCEPT ![u] = Tail(queue[u])]
  BY DEF Commit, Reject
<1>3. queue'[u] = Tail(queue[u]) /\ \A v \in Users : v # u => queue'[v] = queue[v]
  BY <1>2 DEF TypeOK
<1>4. Tail(queue[u]) \in Seq(Write)
  BY <1>1, TailFacts
<1>5. queue' \in [Users -> Seq(Write)]
  BY <1>2, <1>4 DEF TypeOK
<1> QED BY <1>1, <1>3, <1>5, TailFacts

LEMMA CommitFrame ==
  ASSUME TypeOK, NEW u \in Users, Commit(u)
  PROVE  UNCHANGED <<sent, draft, view, seen, refused, crashes, cut>>
BY DEF Commit, screenVars

LEMMA CommitLogs ==
  ASSUME TypeOK, NEW u \in Users, Commit(u), NEW w \in Users
  PROVE  logs'[w] = IF queue[u][1].into = "log" /\ queue[u][1].of = w
                    THEN logs[w] \union {queue[u][1].message} ELSE logs[w]
<1>1. Head(queue[u]) = queue[u][1]
  BY AnsweredFacts
<1>2. logs' = IF queue[u][1].into = "log"
              THEN [logs EXCEPT ![queue[u][1].of] = @ \union {queue[u][1].message}] ELSE logs
  BY <1>1 DEF Commit
<1> QED BY <1>2 DEF TypeOK

LEMMA CommitRecents ==
  ASSUME TypeOK, NEW u \in Users, Commit(u), NEW w \in Users
  PROVE  recents'[w] = IF queue[u][1].into = "recent" /\ queue[u][1].of = w
                       THEN queue[u][1].message ELSE recents[w]
<1>1. Head(queue[u]) = queue[u][1]
  BY AnsweredFacts
<1>2. recents' = IF queue[u][1].into = "recent"
                 THEN [recents EXCEPT ![queue[u][1].of] = queue[u][1].message] ELSE recents
  BY <1>1 DEF Commit
<1> QED BY <1>2 DEF TypeOK

LEMMA CommitAcks ==
  ASSUME TypeOK, NEW u \in Users, Commit(u)
  PROVE  /\ \A v \in Users : v # u => acks'[v] = acks[v]
         /\ acks'[u] = IF queue[u][1].callback THEN Append(acks[u], queue[u][1].message) ELSE acks[u]
<1>1. Head(queue[u]) = queue[u][1]
  BY AnsweredFacts
<1>2. acks' = IF queue[u][1].callback THEN [acks EXCEPT ![u] = Append(@, queue[u][1].message)] ELSE acks
  BY <1>1 DEF Commit
<1> QED BY <1>2 DEF TypeOK

(* What a dead app leaves is what it had handed over, but for callbacks.   *)
LEMMA DiesFacts ==
  ASSUME TypeOK, NEW u \in Users, NEW s \in Seq(Write), Dies(u, s)
  PROVE  /\ queue' \in [Users -> Seq(Write)]
         /\ \A v \in Users : v # u => /\ queue'[v] = queue[v] /\ acks'[v] = acks[v]
                                      /\ view'[v] = view[v] /\ seen'[v] = seen[v]
         /\ Len(queue'[u]) = Len(s) /\ DOMAIN queue'[u] = DOMAIN s
         /\ \A i \in DOMAIN s : /\ queue'[u][i].into = s[i].into
                                /\ queue'[u][i].of = s[i].of
                                /\ queue'[u][i].message = s[i].message
                                /\ queue'[u][i].callback = FALSE
         /\ acks'[u] = <<>> /\ view'[u] = <<>> /\ seen'[u] = {}
         /\ UNCHANGED <<logs, recents, refused>>
<1> DEFINE q == [i \in DOMAIN s |-> [s[i] EXCEPT !.callback = FALSE]]
<1>1. Len(s) \in Nat /\ DOMAIN s = 1 .. Len(s)
  OBVIOUS
<1>2. \A i \in DOMAIN s : s[i] \in Write
  BY <1>1
<1>3. \A i \in DOMAIN s : /\ q[i] \in Write
                          /\ q[i].into = s[i].into
                          /\ q[i].of = s[i].of
                          /\ q[i].message = s[i].message
                          /\ q[i].callback = FALSE
  BY <1>2 DEF Write
<1>4. queue' = [queue EXCEPT ![u] = q]
  BY DEF Dies
<1>5. DOMAIN q = 1 .. Len(s)
  BY <1>1
<1> HIDE DEF q
<1>6. q \in Seq(Write) /\ Len(q) = Len(s)
  <2>1. q \in [1 .. Len(s) -> Write]
    BY <1>1, <1>3, <1>5 DEF q
  <2> QED BY <1>1, <2>1
<1>7. queue'[u] = q /\ queue' \in [Users -> Seq(Write)]
  BY <1>4, <1>6 DEF TypeOK
<1>8. \A v \in Users : v # u => /\ queue'[v] = queue[v] /\ acks'[v] = acks[v]
                                /\ view'[v] = view[v] /\ seen'[v] = seen[v]
  BY <1>4 DEF Dies, TypeOK
<1>9. acks'[u] = <<>> /\ view'[u] = <<>> /\ seen'[u] = {} /\ UNCHANGED <<logs, recents, refused>>
  BY DEF Dies, TypeOK, serverVars
<1> QED BY <1>1, <1>3, <1>5, <1>6, <1>7, <1>8, <1>9

(* The pipeline of a dead app is the same but for its callbacks.           *)
LEMMA CrashFacts ==
  ASSUME TypeOK, NEW u \in Users, Crash(u)
  PROVE  /\ queue' \in [Users -> Seq(Write)]
         /\ \A v \in Users : v # u => /\ queue'[v] = queue[v] /\ acks'[v] = acks[v]
                                      /\ view'[v] = view[v] /\ seen'[v] = seen[v]
         /\ Len(queue'[u]) = Len(queue[u]) /\ DOMAIN queue'[u] = DOMAIN queue[u]
         /\ \A i \in DOMAIN queue[u] : /\ queue'[u][i].into = queue[u][i].into
                                       /\ queue'[u][i].of = queue[u][i].of
                                       /\ queue'[u][i].message = queue[u][i].message
                                       /\ queue'[u][i].callback = FALSE
         /\ acks'[u] = <<>> /\ view'[u] = <<>> /\ seen'[u] = {}
         /\ UNCHANGED <<sent, logs, recents, refused, cut>>
<1>1. queue[u] \in Seq(Write) /\ Dies(u, queue[u]) /\ UNCHANGED <<sent, cut>>
  BY DEF Crash, TypeOK
<1> QED BY <1>1, DiesFacts

(* Or there is one write more: the first of the two an app was handing     *)
(* over when it died.                                                      *)
LEMMA HandedFacts ==
  ASSUME TypeOK, NEW u \in Users, NEW x \in Write, Dies(u, Append(queue[u], x))
  PROVE  LET n == Len(queue[u]) IN
         /\ queue' \in [Users -> Seq(Write)] /\ n \in Nat
         /\ \A v \in Users : v # u => /\ queue'[v] = queue[v] /\ acks'[v] = acks[v]
                                      /\ view'[v] = view[v] /\ seen'[v] = seen[v]
         /\ \A i \in DOMAIN queue[u] : /\ i \in DOMAIN queue'[u] /\ i \in Nat /\ i < n + 1
                                       /\ queue'[u][i].into = queue[u][i].into
                                       /\ queue'[u][i].of = queue[u][i].of
                                       /\ queue'[u][i].message = queue[u][i].message
         /\ n + 1 \in DOMAIN queue'[u]
         /\ queue'[u][n + 1].into = x.into /\ queue'[u][n + 1].of = x.of
         /\ queue'[u][n + 1].message = x.message
         /\ \A i \in DOMAIN queue'[u] : /\ queue'[u][i].callback = FALSE
                                        /\ i \in DOMAIN queue[u] \/ i = n + 1
         /\ acks'[u] = <<>> /\ view'[u] = <<>> /\ seen'[u] = {}
         /\ UNCHANGED <<logs, recents, refused>>
<1> DEFINE s == Append(queue[u], x)
           n == Len(queue[u])
<1>1. queue[u] \in Seq(Write)
  BY DEF TypeOK
<1>2. /\ s \in Seq(Write) /\ n \in Nat
      /\ \A i \in DOMAIN s : (i \in DOMAIN queue[u] /\ s[i] = queue[u][i]) \/ (i = n + 1 /\ s[i] = x)
      /\ \A i \in DOMAIN queue[u] : i \in DOMAIN s /\ s[i] = queue[u][i] /\ i < n + 1 /\ i \in Nat
      /\ n + 1 \in DOMAIN s /\ s[n + 1] = x
  BY <1>1, AppendFacts
<1>3. Dies(u, s)
  OBVIOUS
<1> HIDE DEF s
<1>4. /\ queue' \in [Users -> Seq(Write)]
      /\ \A v \in Users : v # u => /\ queue'[v] = queue[v] /\ acks'[v] = acks[v]
                                   /\ view'[v] = view[v] /\ seen'[v] = seen[v]
      /\ DOMAIN queue'[u] = DOMAIN s
      /\ acks'[u] = <<>> /\ view'[u] = <<>> /\ seen'[u] = {}
      /\ UNCHANGED <<logs, recents, refused>>
  BY <1>2, <1>3, DiesFacts
<1>5. \A i \in DOMAIN s : /\ queue'[u][i].into = s[i].into
                          /\ queue'[u][i].of = s[i].of
                          /\ queue'[u][i].message = s[i].message
                          /\ queue'[u][i].callback = FALSE
  BY <1>2, <1>3, DiesFacts
<1> HIDE DEF n
<1>6. ASSUME NEW i \in DOMAIN queue[u]
      PROVE  /\ i \in DOMAIN queue'[u] /\ i \in Nat /\ i < n + 1
             /\ queue'[u][i].into = queue[u][i].into /\ queue'[u][i].of = queue[u][i].of
             /\ queue'[u][i].message = queue[u][i].message
  BY <1>2, <1>4, <1>5
<1>7. /\ n + 1 \in DOMAIN queue'[u] /\ queue'[u][n + 1].into = x.into
      /\ queue'[u][n + 1].of = x.of /\ queue'[u][n + 1].message = x.message
  BY <1>2, <1>4, <1>5
<1>8. \A i \in DOMAIN queue'[u] : /\ queue'[u][i].callback = FALSE
                                  /\ i \in DOMAIN queue[u] \/ i = n + 1
  BY <1>2, <1>4, <1>5
<1> QED BY <1>2, <1>4, <1>6, <1>7, <1>8 DEF n

LEMMA CutSendFacts ==
  ASSUME TypeOK, NEW u \in Users, CrashWhileSending(u)
  PROVE  LET m == Len(sent) + 1
             x == LogWrites(u, m)[1] IN
         /\ m \in Message /\ m \notin DOMAIN sent /\ sent' \in Seq(Users) /\ Len(sent') = m
         /\ DOMAIN sent' = DOMAIN sent \union {m} /\ sent'[m] = u
         /\ \A c \in DOMAIN sent : c \in Nat /\ sent'[c] = sent[c] /\ c < m
         /\ cut' = cut \union {m}
         /\ x \in Write /\ x.into = "log" /\ x.of = u /\ x.message = m
         /\ Dies(u, Append(queue[u], x))
<1> DEFINE m == Len(sent) + 1
           x == LogWrites(u, m)[1]
<1>1. m \in Message /\ sent' = Append(sent, u) /\ sent \in Seq(Users) /\ cut' = cut \union {m}
  BY DEF CrashWhileSending, TypeOK
<1>2. Dies(u, Append(queue[u], x))
  BY DEF CrashWhileSending
<1>3. x = [into |-> "log", of |-> u, message |-> m, callback |-> TRUE]
  BY DEF LogWrites
<1> HIDE DEF m, x
<1>4. x \in Write /\ x.into = "log" /\ x.of = u /\ x.message = m
  BY <1>1, <1>3 DEF Write
<1> USE DEF m
<1>5. /\ sent' \in Seq(Users) /\ Len(sent') = m /\ DOMAIN sent' = DOMAIN sent \union {m} /\ sent'[m] = u
      /\ m \notin DOMAIN sent
      /\ \A c \in DOMAIN sent : c \in Nat /\ sent'[c] = sent[c] /\ c < m
  BY <1>1
<1> QED BY <1>1, <1>2, <1>4, <1>5 DEF x

LEMMA CutAckFacts ==
  ASSUME TypeOK, NEW u \in Users, CrashWhileAcknowledging(u)
  PROVE  LET m == Head(acks[u])
             x == RecentWrites(u, m)[1] IN
         /\ m \in Message /\ 1 \in DOMAIN acks[u] /\ acks[u][1] = m
         /\ x \in Write /\ x.into = "recent" /\ x.of = u /\ x.message = m
         /\ Dies(u, Append(queue[u], x)) /\ UNCHANGED <<sent, cut>>
<1> DEFINE m == Head(acks[u])
           x == RecentWrites(u, m)[1]
<1>1. acks[u] \in Seq(Message) /\ acks[u] # <<>>
  BY DEF CrashWhileAcknowledging, TypeOK
<1>2. m \in Message /\ 1 \in DOMAIN acks[u] /\ acks[u][1] = m
  BY <1>1, TailFacts
<1>3. x = [into |-> "recent", of |-> u, message |-> m, callback |-> FALSE]
  BY DEF RecentWrites
<1> HIDE DEF m
<1>4. x \in Write /\ x.into = "recent" /\ x.of = u /\ x.message = m
  BY <1>2, <1>3 DEF Write
<1>5. Dies(u, Append(queue[u], x)) /\ UNCHANGED <<sent, cut>>
  BY DEF CrashWhileAcknowledging, m
<1> QED BY <1>2, <1>4, <1>5 DEF m
-----------------------------------------------------------------------------
(***************************************************************************)
(* Types.                                                                  *)
(***************************************************************************)

(* The query yields messages; finitely many are still to be reported.      *)
LEMMA LocalType ==
  ASSUME TypeOK, NEW u \in Users
  PROVE  Local(u) \subseteq Message /\ IsFiniteSet(Local(u) \ seen[u])
<1>1. Local(u) \subseteq Message
  <2>1. \A i \in DOMAIN queue[u] : queue[u][i].message \in Message
    BY TypeFacts, WriteFacts
  <2> QED BY <2>1, TypeFacts DEF Local
<1>2. IsFiniteSet(Message)
  BY ChatAssumption, FS_Interval DEF Message
<1> QED BY <1>1, <1>2, FS_Subset

LEMMA ListingType ==
  ASSUME NEW S, IsFiniteSet(S), NEW s \in SetToSeqs(S)
  PROVE  s \in Seq(S) /\ \A i \in DOMAIN s : s[i] \in S
<1>1. Cardinality(S) \in Nat
  BY FS_CardinalityType
<1>2. s \in [1 .. Cardinality(S) -> S]
  BY DEF SetToSeqs
<1> QED BY <1>1, <1>2

LEMMA SnapshotFacts ==
  ASSUME TypeOK, NEW u \in Users, Snapshot(u)
  PROVE  /\ \E added \in Added(u) : /\ added \in Seq(Message)
                                    /\ \A i \in DOMAIN added : added[i] \in Local(u) \ seen[u]
                                    /\ view'[u] = view[u] \o added
         /\ seen'[u] = Local(u) /\ Local(u)' = Local(u)
         /\ view' \in [Users -> Seq(Message)] /\ seen' \in [Users -> SUBSET Message]
         /\ \A v \in Users : v # u => view'[v] = view[v] /\ seen'[v] = seen[v]
         /\ UNCHANGED <<sent, draft, queue, acks, logs, recents, refused, crashes, cut>>
<1>1. PICK added \in Added(u) : view' = [view EXCEPT ![u] = view[u] \o added]
  BY DEF Snapshot
<1>2. added \in Seq(Local(u) \ seen[u]) /\ \A i \in DOMAIN added : added[i] \in Local(u) \ seen[u]
  BY LocalType, ListingType DEF Added
<1>3. Local(u) \ seen[u] \subseteq Message
  BY LocalType
<1>4. added \in Seq(Message)
  BY <1>2, <1>3, SeqMonotone
<1>5. view[u] \in Seq(Message) /\ view[u] \o added \in Seq(Message)
  BY <1>4 DEF TypeOK
<1>6. /\ view'[u] = view[u] \o added /\ view' \in [Users -> Seq(Message)]
      /\ \A v \in Users : v # u => view'[v] = view[v]
  BY <1>1, <1>5 DEF TypeOK
<1>7. /\ seen'[u] = Local(u) /\ seen' \in [Users -> SUBSET Message]
      /\ \A v \in Users : v # u => seen'[v] = seen[v]
      /\ UNCHANGED <<sent, draft, queue, acks, logs, recents, refused, crashes, cut>>
  BY LocalType DEF Snapshot, TypeOK, serverVars
<1>8. Local(u)' = Local(u)
  BY <1>7 DEF Local
<1> QED BY <1>2, <1>4, <1>6, <1>7, <1>8

LEMMA TypeInit == Init => TypeOK
BY ChatAssumption DEF Init, TypeOK

LEMMA TypeSend == ASSUME TypeOK, NEW u \in Users, Send(u) PROVE TypeOK'
<1>1. /\ sent' \in Seq(Users) /\ Len(sent') \in Message
      /\ queue' \in [Users -> Seq(Write)]
  BY SendFacts
<1>2. Len(sent') <= MaxMessages
  BY <1>1, ChatAssumption DEF Message
<1> QED BY <1>1, <1>2 DEF TypeOK, Send, serverVars, screenVars, Message, Write

LEMMA TypeCommit == ASSUME TypeOK, NEW u \in Users, Commit(u) PROVE TypeOK'
<1>1. /\ Head(queue[u]) \in Write
      /\ queue' \in [Users -> Seq(Write)]
  BY AnsweredFacts
<1>2. Head(queue[u]).of \in Users /\ Head(queue[u]).message \in Message
  BY <1>1, WriteFacts
<1>3. logs' \in [Users -> SUBSET Message]
  BY <1>2 DEF Commit, TypeOK
<1>4. recents' \in [Users -> 0 .. MaxMessages]
  <2>1. Head(queue[u]).message \in 0 .. MaxMessages
    BY <1>2, ChatAssumption DEF Message
  <2> QED BY <1>2, <2>1 DEF Commit, TypeOK
<1>5. acks' \in [Users -> Seq(Message)]
  <2>1. Append(acks[u], Head(queue[u]).message) \in Seq(Message)
    BY <1>2, TypeFacts, AppendFacts
  <2> QED BY <2>1 DEF Commit, TypeOK
<1> QED BY <1>1, <1>3, <1>4, <1>5 DEF TypeOK, Commit, screenVars, Message, Write

LEMMA TypeReject == ASSUME TypeOK, NEW u \in Users, Reject(u) PROVE TypeOK'
<1>1. Head(queue[u]) \in Write /\ queue' \in [Users -> Seq(Write)]
  BY AnsweredFacts
<1>2. refused' \subseteq Write
  BY <1>1 DEF Reject, TypeOK
<1> QED BY <1>1, <1>2 DEF TypeOK, Reject, serverVars, screenVars, Message, Write

LEMMA TypeAcknowledged == ASSUME TypeOK, NEW u \in Users, Acknowledged(u) PROVE TypeOK'
<1>1. queue' \in [Users -> Seq(Write)] /\ acks' \in [Users -> Seq(Message)]
  BY AckFacts
<1> QED BY <1>1 DEF TypeOK, Acknowledged, serverVars, screenVars, Message, Write

LEMMA TypeScreen ==
  ASSUME TypeOK, NEW u \in Users, Type(u) \/ Open(u) \/ Snapshot(u)
  PROVE  TypeOK'
<1>1. CASE Type(u)
  BY <1>1 DEF TypeOK, Type, serverVars, screenVars, Message, Write
<1>2. CASE Open(u)
  <2>1. view' \in [Users -> Seq(Message)] /\ seen' \in [Users -> SUBSET Message]
    BY <1>2 DEF TypeOK, Open
  <2> QED BY <1>2, <2>1 DEF TypeOK, Open, serverVars, Message, Write
<1>3. CASE Snapshot(u)
  BY <1>3, SnapshotFacts DEF TypeOK, Message, Write
<1> QED BY <1>1, <1>2, <1>3

LEMMA TypeDies ==
  ASSUME TypeOK, NEW u \in Users, NEW s \in Seq(Write), Dies(u, s),
         sent' \in Seq(Users), Len(sent') <= MaxMessages, cut' \subseteq Message
  PROVE  TypeOK'
<1>1. queue' \in [Users -> Seq(Write)]
  BY DiesFacts
<1>2. /\ acks' \in [Users -> Seq(Message)] /\ draft' \in [Users -> BOOLEAN]
      /\ view' \in [Users -> Seq(Message)] /\ seen' \in [Users -> SUBSET Message]
  BY DEF TypeOK, Dies
<1>3. crashes' \in 0 .. MaxCrashes
  BY ChatAssumption DEF TypeOK, Dies
<1>4. /\ logs' \in [Users -> SUBSET Message] /\ recents' \in [Users -> 0 .. MaxMessages]
      /\ refused' \subseteq Write
  BY DEF TypeOK, Dies, serverVars
<1>5. Message' = Message /\ Write' = Write
  BY DEF Message, Write
<1> QED BY <1>1, <1>2, <1>3, <1>4, <1>5 DEF TypeOK

LEMMA TypeCrash ==
  ASSUME TypeOK, NEW u \in Users, Crash(u) \/ CrashWhileSending(u) \/ CrashWhileAcknowledging(u)
  PROVE  TypeOK'
<1>1. queue[u] \in Seq(Write) /\ sent \in Seq(Users) /\ Len(sent) <= MaxMessages /\ cut \subseteq Message
  BY DEF TypeOK
<1>2. CASE Crash(u)
  <2>1. Dies(u, queue[u]) /\ UNCHANGED <<sent, cut>>
    BY <1>2 DEF Crash
  <2> QED BY <1>1, <2>1, TypeDies
<1>3. CASE CrashWhileSending(u)
  <2>1. PICK x \in Write : Dies(u, Append(queue[u], x))
    BY <1>3, CutSendFacts
  <2>2. /\ sent' \in Seq(Users) /\ Len(sent') \in Message
        /\ cut' = cut \union {Len(sent) + 1} /\ Len(sent) + 1 \in Message
    BY <1>3, CutSendFacts
  <2>3. Len(sent') <= MaxMessages
    BY <2>2, ChatAssumption DEF Message
  <2>4. Append(queue[u], x) \in Seq(Write)
    BY <1>1, AppendFacts
  <2> QED BY <1>1, <2>1, <2>2, <2>3, <2>4, TypeDies
<1>4. CASE CrashWhileAcknowledging(u)
  <2>1. PICK x \in Write : Dies(u, Append(queue[u], x))
    BY <1>4, CutAckFacts
  <2>2. Append(queue[u], x) \in Seq(Write) /\ UNCHANGED <<sent, cut>>
    BY <1>1, <1>4, AppendFacts, CutAckFacts
  <2> QED BY <1>1, <2>1, <2>2, TypeDies
<1> QED BY <1>2, <1>3, <1>4

LEMMA TypeStep == TypeOK /\ [Next]_vars => TypeOK'
<1>1. ASSUME TypeOK, UNCHANGED vars PROVE TypeOK'
  BY <1>1 DEF TypeOK, vars, Message, Write
<1> QED BY <1>1, TypeSend, TypeCommit, TypeReject, TypeAcknowledged, TypeScreen, TypeCrash DEF Next

(* Every variable keeps its type: what waits in the pipelines and the      *)
(* callbacks, is logged and is listed are numbered messages.               *)
THEOREM ChatTypeCorrectness == Spec => []TypeOK
<1> QED BY TypeInit, TypeStep, PTL DEF Spec
-----------------------------------------------------------------------------
(***************************************************************************)
(* The copies of a message.                                                *)
(***************************************************************************)
LEMMA SettledStays ==
  ASSUME NEW w \in Users, NEW m, Settled(w, m), logs[w] \subseteq logs'[w], refused \subseteq refused'
  PROVE  Settled(w, m)'
BY DEF Settled, Refused

(* A cut message stays cut.                                                *)
LEMMA CutStays ==
  ASSUME \A m \in DOMAIN sent : sent'[m] = sent[m], cut \subseteq cut',
         NEW w \in Users, NEW m \in DOMAIN sent, Cut(w, m)
  PROVE  Cut(w, m)'
BY DEF Cut

(* A copy stays where it is while its pipeline grows.                      *)
LEMMA CopyStays ==
  ASSUME NEW u \in Users, \A i \in DOMAIN queue[u] : i \in DOMAIN queue'[u] /\ queue'[u][i] = queue[u][i],
         NEW w \in Users, NEW m
  PROVE  /\ Waits(u, w, m) => Waits(u, w, m)'
         /\ \A n \in Nat : WaitsBefore(u, n, w, m) => WaitsBefore(u, n, w, m)'
BY DEF Waits, WaitsBefore, CopyAt

LEMMA LoggedInit == Init => OwnOK /\ CutOK /\ CopiesOK /\ RecentsOK
<1> SUFFICES ASSUME Init PROVE OwnOK /\ CutOK /\ CopiesOK /\ RecentsOK
  OBVIOUS
<1>1. /\ DOMAIN sent = {}
      /\ \A u \in Users : DOMAIN queue[u] = {} /\ DOMAIN acks[u] = {} /\ logs[u] = {} /\ recents[u] = 0
  BY DEF Init
<1>3. cut = {}
  BY DEF Init
<1>2. 0 \notin Message
  BY DEF Message
<1> QED BY <1>1, <1>2, <1>3 DEF OwnOK, CutOK, CopiesOK, RecentsOK

(* A step that writes nothing.                                             *)
LEMMA LoggedFrame ==
  ASSUME LoggedInv, UNCHANGED <<sent, queue, acks, logs, recents, refused, cut>>
  PROVE  OwnOK' /\ CutOK' /\ CopiesOK' /\ RecentsOK'
<1>1. OwnOK'
  BY DEF LoggedInv, OwnOK
<1>2. CopiesOK'
  BY DEF LoggedInv, CopiesOK, Waits, CopyAt, Settled, Refused, Cut
<1>3. RecentsOK'
  BY DEF LoggedInv, RecentsOK, WaitsBefore, CopyAt, Settled, Refused, Message
<1>4. CutOK'
  BY DEF LoggedInv, CutOK
<1> QED BY <1>1, <1>2, <1>3, <1>4

LEMMA LoggedSend ==
  ASSUME LoggedInv, NEW u \in Users, Send(u)
  PROVE  OwnOK' /\ CutOK' /\ CopiesOK' /\ RecentsOK'
<1> DEFINE m == Len(sent) + 1
           n == Len(queue[u])
<1>1. TypeOK /\ OwnOK /\ CutOK /\ CopiesOK /\ RecentsOK /\ UNCHANGED <<acks, logs, recents, refused, cut>>
  BY DEF LoggedInv, Send, serverVars
<1>2. /\ DOMAIN sent' = DOMAIN sent \union {m} /\ sent'[m] = u
      /\ \A c \in DOMAIN sent : c \in Nat /\ sent'[c] = sent[c] /\ c < m
  BY <1>1, SendFacts
<1>3. /\ \A v \in Users : v # u => queue'[v] = queue[v]
      /\ \A i \in DOMAIN queue[u] : i \in Nat /\ i \in DOMAIN queue'[u] /\ queue'[u][i] = queue[u][i]
  BY <1>1, SendFacts
<1>4. /\ n + 1 \in DOMAIN queue'[u]
      /\ queue'[u][n + 1] = [into |-> "log", of |-> u, message |-> m, callback |-> TRUE]
      /\ n + 2 \in DOMAIN queue'[u]
      /\ queue'[u][n + 2] = [into |-> "log", of |-> Peer(u), message |-> m, callback |-> FALSE]
      /\ \A i \in DOMAIN queue'[u] : \/ i \in DOMAIN queue[u] /\ queue'[u][i] = queue[u][i]
                                     \/ i = n + 1 \/ i = n + 2
  <2>1. /\ n + 1 \in DOMAIN queue'[u]
        /\ queue'[u][n + 1] = [into |-> "log", of |-> u, message |-> m, callback |-> TRUE]
        /\ n + 2 \in DOMAIN queue'[u]
        /\ queue'[u][n + 2] = [into |-> "log", of |-> Peer(u), message |-> m, callback |-> FALSE]
    BY <1>1, SendFacts
  <2>2. \A i \in DOMAIN queue'[u] : \/ i \in DOMAIN queue[u] /\ queue'[u][i] = queue[u][i]
                                    \/ i = n + 1 \/ i = n + 2
    BY <1>1, SendFacts
  <2> QED BY <2>1, <2>2
<1> HIDE DEF m, n
<1>5. \A i \in DOMAIN queue'[u] :
        \/ i \in DOMAIN queue[u] /\ queue'[u][i] = queue[u][i]
        \/ /\ queue'[u][i].into = "log" /\ queue'[u][i].message = m
           /\ queue'[u][i].callback => queue'[u][i].of = u
  BY <1>4
<1>6. OwnOK'
  <2>1. ASSUME NEW v \in Users, NEW i \in DOMAIN queue'[v]
        PROVE  /\ queue'[v][i].message \in DOMAIN sent' /\ sent'[queue'[v][i].message] = v
               /\ queue'[v][i].callback => queue'[v][i].into = "log" /\ queue'[v][i].of = v
    <3>1. CASE i \in DOMAIN queue[v] /\ queue'[v][i] = queue[v][i]
      BY <1>1, <1>2, <3>1 DEF OwnOK
    <3>2. CASE v = u /\ queue'[u][i].into = "log" /\ queue'[u][i].message = m
               /\ (queue'[u][i].callback => queue'[u][i].of = u)
      BY <1>2, <3>2
    <3> QED BY <1>3, <1>5, <3>1, <3>2
  <2>2. \A v \in Users : \A i \in DOMAIN acks[v] : sent'[acks[v][i]] = v
    BY <1>1, <1>2 DEF OwnOK
  <2>3. \A v \in Users : logs[v] \subseteq DOMAIN sent'
    BY <1>1, <1>2 DEF OwnOK
  <2> QED BY <1>1, <2>1, <2>2, <2>3 DEF OwnOK
<1>7. ASSUME NEW v \in Users, NEW w \in Users, NEW c
      PROVE  /\ Waits(v, w, c) => Waits(v, w, c)'
             /\ \A k \in Nat : WaitsBefore(v, k, w, c) => WaitsBefore(v, k, w, c)'
  BY <1>3, CopyStays
<1>8. ASSUME NEW w \in Users, NEW c, Settled(w, c) PROVE Settled(w, c)'
  BY <1>1, <1>8, SettledStays
<1>9. CopiesOK'
  <2> SUFFICES ASSUME NEW v \in Users, NEW w \in Users, NEW c \in DOMAIN sent', sent'[c] = v
               PROVE  Settled(w, c)' \/ Waits(v, w, c)' \/ Cut(w, c)'
    BY DEF CopiesOK
  <2>1. CASE c = m
    <3>1. v = u
      BY <1>2, <2>1
    <3>2. CASE w = u
      BY <1>4, <2>1, <3>1, <3>2 DEF Waits, CopyAt
    <3>3. CASE w = Peer(u)
      BY <1>4, <2>1, <3>1, <3>3 DEF Waits, CopyAt
    <3> QED BY <3>2, <3>3, PeerFacts
  <2>2. CASE c \in DOMAIN sent
    <3>1. sent[c] = v
      BY <1>2, <2>2
    <3>2. Settled(w, c) \/ Waits(v, w, c) \/ Cut(w, c)
      BY <1>1, <2>2, <3>1 DEF CopiesOK
    <3>3. Cut(w, c) => Cut(w, c)'
      BY <1>1, <1>2, <2>2, CutStays
    <3> QED BY <1>7, <1>8, <3>2, <3>3
  <2> QED BY <1>2, <2>1, <2>2
<1>10. RecentsOK'
  <2> SUFFICES ASSUME NEW w \in Users, NEW c \in Message
               PROVE  /\ recents[w] = c => c \in DOMAIN sent' /\ c \in logs[sent'[c]] /\ Settled(w, c)'
                      /\ \A v \in Users : \A i \in DOMAIN queue'[v] :
                           queue'[v][i].into = "recent" /\ queue'[v][i].message = c =>
                             c \in logs[v] /\ (Settled(w, c)' \/ WaitsBefore(v, i, w, c)')
    BY <1>1 DEF RecentsOK, Message
  <2>1. ASSUME recents[w] = c
        PROVE  c \in DOMAIN sent' /\ c \in logs[sent'[c]] /\ Settled(w, c)'
    BY <1>1, <1>2, <1>8, <2>1 DEF RecentsOK
  <2>2. ASSUME NEW v \in Users, NEW i \in DOMAIN queue'[v], queue'[v][i].into = "recent", queue'[v][i].message = c
        PROVE  c \in logs[v] /\ (Settled(w, c)' \/ WaitsBefore(v, i, w, c)')
    <3>1. i \in DOMAIN queue[v] /\ queue'[v][i] = queue[v][i]
      BY <1>3, <1>5, <2>2
    <3>2. i \in Nat
      BY <1>1, <3>1 DEF TypeOK
    <3>3. c \in logs[v] /\ (Settled(w, c) \/ WaitsBefore(v, i, w, c))
      BY <1>1, <2>2, <3>1 DEF RecentsOK
    <3> QED BY <1>7, <1>8, <3>2, <3>3
  <2> QED BY <2>1, <2>2
<1>11. CutOK'
  <2>1. m \notin cut
    BY <1>1, <1>2 DEF CutOK
  <2>2. ASSUME NEW v \in Users, NEW i \in DOMAIN queue'[v], queue'[v][i].callback \/ queue'[v][i].into = "recent"
        PROVE  queue'[v][i].message \notin cut
    <3>1. CASE i \in DOMAIN queue[v] /\ queue'[v][i] = queue[v][i]
      BY <1>1, <2>2, <3>1 DEF CutOK
    <3>2. CASE queue'[v][i].message = m
      BY <2>1, <3>2
    <3> QED BY <1>3, <1>5, <3>1, <3>2
  <2> QED BY <1>1, <1>2, <2>2 DEF CutOK
<1> QED BY <1>6, <1>9, <1>10, <1>11

LEMMA AnsweredGrows ==
  ASSUME TypeOK, NEW u \in Users, Commit(u) \/ Reject(u)
  PROVE  /\ \A w \in Users : logs[w] \subseteq logs'[w]
         /\ refused \subseteq refused' /\ sent' = sent
<1>1. CASE Commit(u)
  BY <1>1, CommitFrame, CommitLogs, CommitRecents, CommitAcks
<1>2. CASE Reject(u)
  BY <1>2 DEF Reject, serverVars
<1> QED BY <1>1, <1>2

(* The copy that leaves its pipeline is answered; the others move up.      *)
LEMMA HeadAnswered ==
  ASSUME TypeOK, NEW u \in Users, Commit(u) \/ Reject(u), NEW w \in Users, NEW m, CopyAt(u, 1, w, m)
  PROVE  Settled(w, m)'
<1>1. CASE Commit(u)
  <2>1. m \in logs'[w]
    BY <1>1, CommitFrame, CommitLogs, CommitRecents, CommitAcks DEF CopyAt
  <2> QED BY <2>1 DEF Settled
<1>2. CASE Reject(u)
  <2>1. queue[u][1] \in refused'
    BY <1>2, AnsweredFacts DEF Reject
  <2> QED BY <2>1 DEF CopyAt, Settled, Refused
<1> QED BY <1>1, <1>2

LEMMA CopyAnswered ==
  ASSUME TypeOK, NEW u \in Users, Commit(u) \/ Reject(u), NEW v \in Users, NEW w \in Users, NEW m
  PROVE  /\ Waits(v, w, m) => Settled(w, m)' \/ Waits(v, w, m)'
         /\ \A n \in Nat : WaitsBefore(v, n, w, m) =>
              Settled(w, m)' \/ WaitsBefore(v, IF v = u THEN n - 1 ELSE n, w, m)'
<1>1. CASE v # u
  BY <1>1, AnsweredFacts DEF Waits, WaitsBefore, CopyAt
<1>2. CASE v = u
  <2>1. ASSUME NEW i \in DOMAIN queue[u], CopyAt(u, i, w, m), i # 1
        PROVE  i \in Nat /\ i - 1 \in DOMAIN queue'[u] /\ CopyAt(u, i - 1, w, m)'
    BY <2>1, AnsweredFacts DEF CopyAt
  <2>2. ASSUME Waits(u, w, m) PROVE Settled(w, m)' \/ Waits(u, w, m)'
    BY <2>1, <2>2, HeadAnswered DEF Waits
  <2>3. ASSUME NEW n \in Nat, WaitsBefore(u, n, w, m) PROVE Settled(w, m)' \/ WaitsBefore(u, n - 1, w, m)'
    <3>1. PICK i \in DOMAIN queue[u] : i < n /\ CopyAt(u, i, w, m)
      BY <2>3 DEF WaitsBefore
    <3>2. CASE i = 1
      BY <3>1, <3>2, HeadAnswered
    <3>3. CASE i # 1
      <4>1. i - 1 < n - 1 /\ i - 1 \in DOMAIN queue'[u] /\ CopyAt(u, i - 1, w, m)'
        BY <2>1, <3>1, <3>3
      <4> QED BY <4>1 DEF WaitsBefore
    <3> QED BY <3>2, <3>3
  <2> QED BY <1>2, <2>2, <2>3
<1> QED BY <1>1, <1>2

LEMMA OwnAnswered ==
  ASSUME LoggedInv, NEW u \in Users, Commit(u) \/ Reject(u)
  PROVE  OwnOK'
<1> DEFINE h == queue[u][1]
<1>1. TypeOK /\ OwnOK
  BY DEF LoggedInv
<1>2. sent' = sent /\ \A w \in Users : logs[w] \subseteq logs'[w]
  BY <1>1, AnsweredGrows
<1>3. /\ h.message \in DOMAIN sent /\ sent[h.message] = u /\ h.message \in Message
      /\ h.callback => h.into = "log" /\ h.of = u
  <2>1. 1 \in DOMAIN queue[u] /\ h \in Write
    BY <1>1, AnsweredFacts
  <2> QED BY <1>1, <2>1, WriteFacts DEF OwnOK
<1>4. ASSUME NEW v \in Users, NEW i \in DOMAIN queue'[v]
      PROVE  /\ queue'[v][i].message \in DOMAIN sent' /\ sent'[queue'[v][i].message] = v
             /\ queue'[v][i].callback => queue'[v][i].into = "log" /\ queue'[v][i].of = v
  <2>1. \E j \in DOMAIN queue[v] : queue'[v][i] = queue[v][j]
    BY <1>1, AnsweredFacts
  <2> QED BY <1>1, <1>2, <2>1 DEF OwnOK
<1>5. ASSUME NEW v \in Users, NEW i \in DOMAIN acks'[v]
      PROVE  acks'[v][i] \in logs'[v] /\ sent'[acks'[v][i]] = v
  <2>1. CASE i \in DOMAIN acks[v] /\ acks'[v][i] = acks[v][i]
    BY <1>1, <1>2, <2>1 DEF OwnOK
  <2>2. CASE v = u /\ Commit(u) /\ h.callback /\ acks'[u][i] = h.message
    <3>1. h.message \in logs'[u]
      <4>1. h.into = "log" /\ h.of = u
        BY <1>3, <2>2
      <4> QED BY <1>1, <2>2, <4>1, CommitLogs
    <3> QED BY <1>2, <1>3, <2>2, <3>1
  <2>3. CASE Commit(u)
    <3>1. CASE v = u /\ h.callback
      <4>1. acks'[u] = Append(acks[u], h.message) /\ acks[u] \in Seq(Message)
        BY <1>1, <2>3, <3>1, CommitFrame, CommitLogs, CommitRecents, CommitAcks, TypeFacts
      <4> QED BY <1>3, <2>1, <2>2, <2>3, <3>1, <4>1, AppendFacts
    <3>2. CASE v # u \/ ~h.callback
      <4>1. acks'[v] = acks[v]
        BY <1>1, <2>3, <3>2, CommitFrame, CommitLogs, CommitRecents, CommitAcks
      <4> QED BY <2>1, <4>1
    <3> QED BY <3>1, <3>2
  <2>4. CASE Reject(u)
    BY <2>1, <2>4 DEF Reject
  <2> QED BY <2>3, <2>4
<1>6. ASSUME NEW w \in Users PROVE logs'[w] \subseteq DOMAIN sent'
  <2>1. logs'[w] \subseteq logs[w] \union {h.message}
    <3>1. CASE Commit(u)
      BY <1>1, <3>1, CommitFrame, CommitLogs, CommitRecents, CommitAcks
    <3>2. CASE Reject(u)
      BY <3>2 DEF Reject, serverVars
    <3> QED BY <3>1, <3>2
  <2> QED BY <1>1, <1>2, <1>3, <2>1 DEF OwnOK
<1> QED BY <1>4, <1>5, <1>6 DEF OwnOK

(* A recent message that leaves its pipeline has no copy before it.        *)
LEMMA LoggedAnswered ==
  ASSUME LoggedInv, NEW u \in Users, Commit(u) \/ Reject(u)
  PROVE  OwnOK' /\ CutOK' /\ CopiesOK' /\ RecentsOK'
<1> DEFINE h == queue[u][1]
<1>1. TypeOK /\ OwnOK /\ CutOK /\ CopiesOK /\ RecentsOK
  BY DEF LoggedInv
<1>2. sent' = sent /\ refused \subseteq refused' /\ \A w \in Users : logs[w] \subseteq logs'[w]
  BY <1>1, AnsweredGrows
<1>3. ASSUME NEW w \in Users, NEW c, Settled(w, c) PROVE Settled(w, c)'
  BY <1>2, <1>3, SettledStays
<1>8. cut' = cut
  BY DEF Commit, Reject
<1>4. CopiesOK'
  <2> SUFFICES ASSUME NEW v \in Users, NEW w \in Users, NEW c \in DOMAIN sent, sent[c] = v
               PROVE  Settled(w, c)' \/ Waits(v, w, c)' \/ Cut(w, c)'
    BY <1>2 DEF CopiesOK
  <2>1. Settled(w, c) \/ Waits(v, w, c) \/ Cut(w, c)
    BY <1>1 DEF CopiesOK
  <2>2. Cut(w, c) => Cut(w, c)'
    BY <1>2, <1>8 DEF Cut
  <2> QED BY <1>1, <1>3, <2>1, <2>2, CopyAnswered
<1>5. ASSUME NEW w \in Users, NEW c \in Message, NEW v \in Users, NEW i \in DOMAIN queue'[v],
             queue'[v][i].into = "recent", queue'[v][i].message = c
      PROVE  c \in logs'[v] /\ (Settled(w, c)' \/ WaitsBefore(v, i, w, c)')
  <2> DEFINE j == IF v = u THEN i + 1 ELSE i
  <2>1. /\ j \in DOMAIN queue[v] /\ queue'[v][i] = queue[v][j] /\ j \in Nat
        /\ i = IF v = u THEN j - 1 ELSE j
    <3>1. queue[v] \in Seq(Write)
      BY <1>1 DEF TypeOK
    <3> QED BY <1>1, <3>1, AnsweredFacts
  <2>2. c \in logs[v] /\ (Settled(w, c) \/ WaitsBefore(v, j, w, c))
    BY <1>1, <1>5, <2>1 DEF RecentsOK
  <2> HIDE DEF j
  <2>3. Settled(w, c)' \/ WaitsBefore(v, i, w, c)'
    BY <1>1, <1>3, <2>1, <2>2, CopyAnswered
  <2> QED BY <1>2, <2>2, <2>3
<1>6. ASSUME NEW w \in Users, NEW c \in Message, recents'[w] = c
      PROVE  c \in DOMAIN sent /\ c \in logs'[sent[c]] /\ Settled(w, c)'
  <2>1. CASE recents[w] = c
    <3>1. c \in DOMAIN sent /\ c \in logs[sent[c]] /\ Settled(w, c)
      BY <1>1, <2>1 DEF RecentsOK
    <3>2. sent[c] \in Users
      BY <1>1, <3>1 DEF TypeOK
    <3> QED BY <1>2, <1>3, <3>1, <3>2
  <2>2. CASE h.into = "recent" /\ h.message = c
    <3>1. 1 \in DOMAIN queue[u] /\ \A i \in DOMAIN queue[u] : i \in Nat /\ 1 <= i
      BY <1>1, AnsweredFacts
    <3>2. c \in DOMAIN sent /\ sent[c] = u
      BY <1>1, <2>2, <3>1 DEF OwnOK
    <3>3. c \in logs[u] /\ (Settled(w, c) \/ WaitsBefore(u, 1, w, c))
      BY <1>1, <2>2, <3>1 DEF RecentsOK
    <3>4. ~WaitsBefore(u, 1, w, c)
      BY <3>1 DEF WaitsBefore
    <3> QED BY <1>2, <1>3, <3>2, <3>3, <3>4
  <2>3. CASE Commit(u)
    BY <1>1, <1>6, <2>1, <2>2, <2>3, CommitFrame, CommitLogs, CommitRecents, CommitAcks
  <2>4. CASE Reject(u)
    BY <1>6, <2>1, <2>4 DEF Reject, serverVars
  <2> QED BY <2>3, <2>4
<1>7. RecentsOK'
  BY <1>2, <1>5, <1>6 DEF RecentsOK, Message
<1>9. CutOK'
  <2>1. ASSUME NEW v \in Users, NEW i \in DOMAIN queue'[v] PROVE \E j \in DOMAIN queue[v] : queue'[v][i] = queue[v][j]
    BY <1>1, AnsweredFacts
  <2>2. ASSUME NEW v \in Users, NEW k \in DOMAIN acks'[v] PROVE acks'[v][k] \notin cut
    <3>1. CASE k \in DOMAIN acks[v] /\ acks'[v][k] = acks[v][k]
      BY <1>1, <3>1 DEF CutOK
    <3>2. CASE Commit(u) /\ v = u /\ h.callback
      <4>1. acks'[u] = Append(acks[u], h.message) /\ acks[u] \in Seq(Message)
        BY <1>1, <3>2, CommitAcks, TypeFacts
      <4>2. 1 \in DOMAIN queue[u] /\ h \in Write
        BY <1>1, AnsweredFacts
      <4>3. h.message \notin cut /\ h.message \in Message
        BY <1>1, <3>2, <4>2, WriteFacts DEF CutOK
      <4> QED BY <2>2, <3>1, <3>2, <4>1, <4>3, AppendFacts
    <3>3. CASE acks'[v] = acks[v]
      BY <2>2, <3>1, <3>3
    <3>4. acks'[v] = acks[v] \/ (Commit(u) /\ v = u /\ h.callback)
      <4>1. CASE Commit(u)
        BY <1>1, <4>1, CommitAcks
      <4>2. CASE Reject(u)
        BY <4>2 DEF Reject
      <4> QED BY <4>1, <4>2
    <3> QED BY <3>2, <3>3, <3>4
  <2>3. ASSUME NEW v \in Users, NEW i \in DOMAIN queue'[v], queue'[v][i].callback \/ queue'[v][i].into = "recent"
        PROVE  queue'[v][i].message \notin cut
    BY <1>1, <2>1, <2>3 DEF CutOK
  <2> QED BY <1>1, <1>2, <1>8, <2>2, <2>3 DEF CutOK
<1> QED BY <1>4, <1>7, <1>9, OwnAnswered

LEMMA LoggedAcknowledged ==
  ASSUME LoggedInv, NEW u \in Users, Acknowledged(u)
  PROVE  OwnOK' /\ CutOK' /\ CopiesOK' /\ RecentsOK'
<1> DEFINE m == Head(acks[u])
           n == Len(queue[u])
<1>1. TypeOK /\ OwnOK /\ CutOK /\ CopiesOK /\ RecentsOK /\ UNCHANGED <<sent, logs, recents, refused, cut>>
  BY DEF LoggedInv, Acknowledged, serverVars
<1>2. /\ \A v \in Users : v # u => queue'[v] = queue[v]
      /\ \A i \in DOMAIN queue[u] : i \in Nat /\ i <= n /\ i \in DOMAIN queue'[u] /\ queue'[u][i] = queue[u][i]
      /\ n \in Nat
  BY <1>1, AckFacts
<1>3. /\ queue'[u][n + 1].message = m /\ ~queue'[u][n + 1].callback
      /\ queue'[u][n + 2].message = m /\ ~queue'[u][n + 2].callback
      /\ \A i \in DOMAIN queue'[u] : \/ i \in DOMAIN queue[u] /\ queue'[u][i] = queue[u][i]
                                     \/ i = n + 1 \/ i = n + 2
  <2>1. /\ queue'[u][n + 1].message = m /\ ~queue'[u][n + 1].callback
        /\ queue'[u][n + 2].message = m /\ ~queue'[u][n + 2].callback
    <3>1. /\ queue'[u][n + 1] = [into |-> "recent", of |-> u, message |-> m, callback |-> FALSE]
          /\ queue'[u][n + 2] = [into |-> "recent", of |-> Peer(u), message |-> m, callback |-> FALSE]
      BY <1>1, AckFacts
    <3> QED BY <3>1
  <2>2. \A i \in DOMAIN queue'[u] : \/ i \in DOMAIN queue[u] /\ queue'[u][i] = queue[u][i]
                                    \/ i = n + 1 \/ i = n + 2
    BY <1>1, AckFacts
  <2> QED BY <2>1, <2>2
<1>4. m \in logs[u] /\ sent[m] = u /\ m \in DOMAIN sent /\ m \notin cut
  <2>1. 1 \in DOMAIN acks[u] /\ acks[u][1] = m
    BY <1>1, AckFacts
  <2> QED BY <1>1, <2>1 DEF OwnOK, CutOK
<1>5. \A v \in Users : \A k \in DOMAIN acks'[v] : \E l \in DOMAIN acks[v] : acks'[v][k] = acks[v][l]
  BY <1>1, AckFacts
<1> HIDE DEF m, n
<1>6. OwnOK'
  <2>1. ASSUME NEW v \in Users, NEW i \in DOMAIN queue'[v]
        PROVE  /\ queue'[v][i].message \in DOMAIN sent /\ sent[queue'[v][i].message] = v
               /\ queue'[v][i].callback => queue'[v][i].into = "log" /\ queue'[v][i].of = v
    <3>1. CASE i \in DOMAIN queue[v] /\ queue'[v][i] = queue[v][i]
      BY <1>1, <3>1 DEF OwnOK
    <3>2. CASE v = u /\ queue'[u][i].message = m /\ ~queue'[u][i].callback
      BY <1>4, <3>2
    <3> QED BY <1>2, <1>3, <3>1, <3>2
  <2> QED BY <1>1, <1>5, <2>1 DEF OwnOK
<1>7. ASSUME NEW v \in Users, NEW w \in Users, NEW c
      PROVE  /\ Waits(v, w, c) => Waits(v, w, c)'
             /\ \A k \in Nat : WaitsBefore(v, k, w, c) => WaitsBefore(v, k, w, c)'
  BY <1>2, CopyStays
<1>8. ASSUME NEW w \in Users, NEW c, Settled(w, c) PROVE Settled(w, c)'
  BY <1>1, <1>8, SettledStays
<1>9. CopiesOK'
  <2> SUFFICES ASSUME NEW v \in Users, NEW w \in Users, NEW c \in DOMAIN sent, sent[c] = v
               PROVE  Settled(w, c)' \/ Waits(v, w, c)' \/ Cut(w, c)'
    BY <1>1 DEF CopiesOK
  <2>1. Settled(w, c) \/ Waits(v, w, c) \/ Cut(w, c)
    BY <1>1 DEF CopiesOK
  <2>2. Cut(w, c) => Cut(w, c)'
    BY <1>1 DEF Cut
  <2> QED BY <1>7, <1>8, <2>1, <2>2
<1>10. ASSUME NEW w \in Users, NEW c \in Message, NEW v \in Users, NEW i \in DOMAIN queue'[v],
              queue'[v][i].into = "recent", queue'[v][i].message = c
       PROVE  c \in logs[v] /\ (Settled(w, c)' \/ WaitsBefore(v, i, w, c)')
  <2>1. CASE i \in DOMAIN queue[v] /\ queue'[v][i] = queue[v][i]
    <3>1. i \in Nat
      BY <1>1, <2>1 DEF TypeOK
    <3>2. c \in logs[v] /\ (Settled(w, c) \/ WaitsBefore(v, i, w, c))
      BY <1>1, <1>10, <2>1 DEF RecentsOK
    <3> QED BY <1>7, <1>8, <3>1, <3>2
  <2>2. CASE v = u /\ (i = n + 1 \/ i = n + 2)
    <3>1. c = m
      BY <1>3, <1>10, <2>2
    <3>2. Settled(w, c) \/ Waits(u, w, c)
      BY <1>1, <1>4, <3>1 DEF CopiesOK, Cut
    <3>3. Waits(u, w, c) => WaitsBefore(u, i, w, c)'
      <4>1. ASSUME NEW k \in DOMAIN queue[u], CopyAt(u, k, w, c)
            PROVE  k \in DOMAIN queue'[u] /\ k < i /\ CopyAt(u, k, w, c)'
        <5>1. k \in DOMAIN queue'[u] /\ queue'[u][k] = queue[u][k] /\ k \in Nat /\ k <= n
          BY <1>2
        <5>2. k < i
          BY <1>2, <2>2, <5>1
        <5>3. CopyAt(u, k, w, c)'
          BY <4>1, <5>1 DEF CopyAt
        <5> QED BY <5>1, <5>2, <5>3
      <4> QED BY <4>1 DEF Waits, WaitsBefore
    <3> QED BY <1>4, <1>8, <2>2, <3>1, <3>2, <3>3 DEF WaitsBefore, CopyAt
  <2> QED BY <1>2, <1>3, <2>1, <2>2
<1>11. RecentsOK'
  BY <1>1, <1>8, <1>10 DEF RecentsOK, Message
<1>12. CutOK'
  <2>1. ASSUME NEW v \in Users, NEW i \in DOMAIN queue'[v], queue'[v][i].callback \/ queue'[v][i].into = "recent"
        PROVE  queue'[v][i].message \notin cut
    <3>1. CASE i \in DOMAIN queue[v] /\ queue'[v][i] = queue[v][i]
      BY <1>1, <2>1, <3>1 DEF CutOK
    <3>2. CASE queue'[v][i].message = m
      BY <1>4, <3>2
    <3> QED BY <1>2, <1>3, <3>1, <3>2
  <2>2. \A v \in Users : \A k \in DOMAIN acks'[v] : acks'[v][k] \notin cut
    BY <1>1, <1>5 DEF CutOK
  <2> QED BY <1>1, <2>1, <2>2 DEF CutOK
<1> QED BY <1>6, <1>9, <1>11, <1>12

LEMMA LoggedCrash ==
  ASSUME LoggedInv, NEW u \in Users, Crash(u)
  PROVE  OwnOK' /\ CutOK' /\ CopiesOK' /\ RecentsOK'
<1>1. TypeOK /\ OwnOK /\ CutOK /\ CopiesOK /\ RecentsOK /\ UNCHANGED <<sent, logs, recents, refused, cut>>
  BY CrashFacts DEF LoggedInv
<1>2. ASSUME NEW v \in Users
      PROVE  /\ DOMAIN queue'[v] = DOMAIN queue[v]
             /\ \A i \in DOMAIN queue[v] : /\ queue'[v][i].into = queue[v][i].into
                                           /\ queue'[v][i].of = queue[v][i].of
                                           /\ queue'[v][i].message = queue[v][i].message
                                           /\ queue'[v][i].callback => queue[v][i].callback
             /\ acks'[v] = acks[v] \/ DOMAIN acks'[v] = {}
  <2>1. CASE v = u
    <3>1. /\ DOMAIN queue'[u] = DOMAIN queue[u] /\ acks'[u] = <<>>
          /\ \A i \in DOMAIN queue[u] : /\ queue'[u][i].into = queue[u][i].into
                                        /\ queue'[u][i].of = queue[u][i].of
                                        /\ queue'[u][i].message = queue[u][i].message
                                        /\ queue'[u][i].callback = FALSE
      BY <1>1, CrashFacts
    <3> QED BY <2>1, <3>1
  <2>2. CASE v # u
    <3>1. queue'[v] = queue[v] /\ acks'[v] = acks[v]
      BY <1>1, <2>2, CrashFacts
    <3> QED BY <3>1
  <2> QED BY <2>1, <2>2
<1>3. OwnOK'
  BY <1>1, <1>2 DEF OwnOK
<1>4. ASSUME NEW v \in Users, NEW w \in Users, NEW c
      PROVE  /\ Waits(v, w, c) => Waits(v, w, c)'
             /\ \A k \in Nat : WaitsBefore(v, k, w, c) => WaitsBefore(v, k, w, c)'
  BY <1>2 DEF Waits, WaitsBefore, CopyAt
<1>5. ASSUME NEW w \in Users, NEW c, Settled(w, c) PROVE Settled(w, c)'
  BY <1>1, <1>5, SettledStays
<1>6. CopiesOK'
  <2> SUFFICES ASSUME NEW v \in Users, NEW w \in Users, NEW c \in DOMAIN sent, sent[c] = v
               PROVE  Settled(w, c)' \/ Waits(v, w, c)' \/ Cut(w, c)'
    BY <1>1 DEF CopiesOK
  <2>1. Settled(w, c) \/ Waits(v, w, c) \/ Cut(w, c)
    BY <1>1 DEF CopiesOK
  <2>2. Cut(w, c) => Cut(w, c)'
    BY <1>1 DEF Cut
  <2> QED BY <1>4, <1>5, <2>1, <2>2
<1>7. ASSUME NEW w \in Users, NEW c \in Message, NEW v \in Users, NEW i \in DOMAIN queue'[v],
             queue'[v][i].into = "recent", queue'[v][i].message = c
      PROVE  c \in logs[v] /\ (Settled(w, c)' \/ WaitsBefore(v, i, w, c)')
  <2>1. i \in DOMAIN queue[v] /\ queue[v][i].into = "recent" /\ queue[v][i].message = c
    BY <1>2, <1>7
  <2>2. i \in Nat
    BY <1>1, <2>1 DEF TypeOK
  <2>3. c \in logs[v] /\ (Settled(w, c) \/ WaitsBefore(v, i, w, c))
    BY <1>1, <2>1 DEF RecentsOK
  <2> QED BY <1>4, <1>5, <2>2, <2>3
<1>8. RecentsOK'
  BY <1>1, <1>5, <1>7 DEF RecentsOK, Message
<1>9. CutOK'
  BY <1>1, <1>2 DEF CutOK
<1> QED BY <1>3, <1>6, <1>8, <1>9

(* The first copy is behind the older writes; the second will never be.    *)
LEMMA LoggedCutSend ==
  ASSUME LoggedInv, NEW u \in Users, CrashWhileSending(u)
  PROVE  OwnOK' /\ CutOK' /\ CopiesOK' /\ RecentsOK'
<1> DEFINE m == Len(sent) + 1
           n == Len(queue[u])
<1>1. TypeOK /\ OwnOK /\ CutOK /\ CopiesOK /\ RecentsOK
  BY DEF LoggedInv
<1>2. PICK x \in Write : /\ x.into = "log" /\ x.of = u /\ x.message = m
                         /\ Dies(u, Append(queue[u], x))
  BY <1>1, CutSendFacts
<1>3. /\ m \in Message /\ m \notin DOMAIN sent
      /\ DOMAIN sent' = DOMAIN sent \union {m} /\ sent'[m] = u
      /\ \A c \in DOMAIN sent : sent'[c] = sent[c]
      /\ cut' = cut \union {m}
  BY <1>1, CutSendFacts
<1> HIDE DEF m
<1>4. /\ \A v \in Users : v # u => queue'[v] = queue[v] /\ acks'[v] = acks[v]
      /\ acks'[u] = <<>> /\ UNCHANGED <<logs, recents, refused>>
  BY <1>1, <1>2, HandedFacts
<1>5. /\ \A i \in DOMAIN queue[u] : /\ i \in DOMAIN queue'[u]
                                    /\ queue'[u][i].into = queue[u][i].into
                                    /\ queue'[u][i].of = queue[u][i].of
                                    /\ queue'[u][i].message = queue[u][i].message
      /\ \A i \in DOMAIN queue'[u] : /\ queue'[u][i].callback = FALSE
                                     /\ i \in DOMAIN queue[u] \/ i = n + 1
  BY <1>1, <1>2, HandedFacts
<1>6. /\ n + 1 \in DOMAIN queue'[u] /\ queue'[u][n + 1].into = "log"
      /\ queue'[u][n + 1].of = u /\ queue'[u][n + 1].message = m
  BY <1>1, <1>2, HandedFacts
<1> HIDE DEF n
<1>7. ASSUME NEW v \in Users, NEW i \in DOMAIN queue'[v]
      PROVE  \/ /\ i \in DOMAIN queue[v] /\ queue'[v][i].into = queue[v][i].into
                /\ queue'[v][i].of = queue[v][i].of /\ queue'[v][i].message = queue[v][i].message
                /\ queue'[v][i].callback => queue[v][i].callback
             \/ /\ v = u /\ queue'[v][i].into = "log" /\ queue'[v][i].message = m
                /\ ~queue'[v][i].callback
  <2>1. CASE v = u
    BY <1>5, <1>6, <2>1
  <2>2. CASE v # u
    BY <1>4, <2>2
  <2> QED BY <2>1, <2>2
<1>8. OwnOK'
  <2>1. ASSUME NEW v \in Users, NEW i \in DOMAIN queue'[v]
        PROVE  /\ queue'[v][i].message \in DOMAIN sent' /\ sent'[queue'[v][i].message] = v
               /\ queue'[v][i].callback => queue'[v][i].into = "log" /\ queue'[v][i].of = v
    <3>1. CASE /\ i \in DOMAIN queue[v] /\ queue'[v][i].into = queue[v][i].into
               /\ queue'[v][i].of = queue[v][i].of /\ queue'[v][i].message = queue[v][i].message
               /\ queue'[v][i].callback => queue[v][i].callback
      BY <1>1, <1>3, <3>1 DEF OwnOK
    <3>2. CASE v = u /\ queue'[v][i].message = m /\ ~queue'[v][i].callback
      BY <1>3, <3>2
    <3> QED BY <1>7, <3>1, <3>2
  <2>2. ASSUME NEW v \in Users, NEW i \in DOMAIN acks'[v]
        PROVE  acks'[v][i] \in logs[v] /\ sent'[acks'[v][i]] = v
    <3>1. v # u /\ acks'[v] = acks[v]
      BY <1>4
    <3> QED BY <1>1, <1>3, <3>1 DEF OwnOK
  <2>3. \A v \in Users : logs[v] \subseteq DOMAIN sent'
    BY <1>1, <1>3 DEF OwnOK
  <2> QED BY <1>4, <2>1, <2>2, <2>3 DEF OwnOK
<1>9. CutOK'
  <2>1. cut' \subseteq DOMAIN sent'
    BY <1>1, <1>3 DEF CutOK
  <2>2. ASSUME NEW v \in Users, NEW i \in DOMAIN queue'[v], queue'[v][i].callback \/ queue'[v][i].into = "recent"
        PROVE  queue'[v][i].message \notin cut'
    <3>1. /\ i \in DOMAIN queue[v] /\ queue'[v][i].message = queue[v][i].message
          /\ queue[v][i].callback \/ queue[v][i].into = "recent"
      BY <1>7, <2>2
    <3> QED BY <1>1, <1>3, <3>1 DEF CutOK, OwnOK
  <2>3. ASSUME NEW v \in Users, NEW i \in DOMAIN acks'[v] PROVE acks'[v][i] \notin cut'
    <3>1. v # u /\ acks'[v] = acks[v]
      BY <1>4
    <3>2. acks[v][i] \in DOMAIN sent /\ acks[v][i] \notin cut
      BY <1>1, <3>1 DEF OwnOK, CutOK
    <3> QED BY <1>3, <3>1, <3>2
  <2> QED BY <2>1, <2>2, <2>3 DEF CutOK
<1>10. ASSUME NEW v \in Users, NEW w \in Users, NEW c
       PROVE  /\ Waits(v, w, c) => Waits(v, w, c)'
              /\ \A k \in Nat : WaitsBefore(v, k, w, c) => WaitsBefore(v, k, w, c)'
  <2>1. ASSUME NEW k \in DOMAIN queue[v], CopyAt(v, k, w, c) PROVE k \in DOMAIN queue'[v] /\ CopyAt(v, k, w, c)'
    <3>1. CASE v = u
      BY <1>5, <2>1, <3>1 DEF CopyAt
    <3>2. CASE v # u
      BY <1>4, <2>1, <3>2 DEF CopyAt
    <3> QED BY <3>1, <3>2
  <2> QED BY <2>1 DEF Waits, WaitsBefore
<1>11. ASSUME NEW w \in Users, NEW c, Settled(w, c) PROVE Settled(w, c)'
  BY <1>4, <1>11, SettledStays
<1>12. CopiesOK'
  <2> SUFFICES ASSUME NEW v \in Users, NEW w \in Users, NEW c \in DOMAIN sent', sent'[c] = v
               PROVE  Settled(w, c)' \/ Waits(v, w, c)' \/ Cut(w, c)'
    BY DEF CopiesOK
  <2>1. CASE c = m
    <3>1. CASE w = u
      BY <1>3, <1>6, <2>1, <3>1 DEF Waits, CopyAt
    <3>2. CASE w # u
      BY <1>3, <2>1, <3>2 DEF Cut
    <3> QED BY <3>1, <3>2
  <2>2. CASE c \in DOMAIN sent
    <3>1. Settled(w, c) \/ Waits(v, w, c) \/ Cut(w, c)
      BY <1>1, <1>3, <2>2 DEF CopiesOK
    <3>2. Cut(w, c) => Cut(w, c)'
      BY <1>3, <2>2 DEF Cut
    <3> QED BY <1>10, <1>11, <3>1, <3>2
  <2> QED BY <1>3, <2>1, <2>2
<1>13. ASSUME NEW w \in Users, NEW c \in Message, NEW v \in Users, NEW i \in DOMAIN queue'[v],
              queue'[v][i].into = "recent", queue'[v][i].message = c
       PROVE  c \in logs[v] /\ (Settled(w, c)' \/ WaitsBefore(v, i, w, c)')
  <2>1. i \in DOMAIN queue[v] /\ queue[v][i].into = "recent" /\ queue[v][i].message = c
    BY <1>7, <1>13
  <2>2. i \in Nat
    BY <1>1, <2>1 DEF TypeOK
  <2>3. c \in logs[v] /\ (Settled(w, c) \/ WaitsBefore(v, i, w, c))
    BY <1>1, <2>1 DEF RecentsOK
  <2> QED BY <1>10, <1>11, <2>2, <2>3
<1>14. ASSUME NEW w \in Users, NEW c \in Message, recents'[w] = c
       PROVE  c \in DOMAIN sent' /\ c \in logs[sent'[c]] /\ Settled(w, c)'
  <2>1. c \in DOMAIN sent /\ c \in logs[sent[c]] /\ Settled(w, c)
    BY <1>1, <1>4, <1>14 DEF RecentsOK
  <2> QED BY <1>3, <1>11, <2>1
<1>15. RecentsOK'
  BY <1>4, <1>13, <1>14 DEF RecentsOK, Message
<1> QED BY <1>8, <1>9, <1>12, <1>15

LEMMA LoggedCutAck ==
  ASSUME LoggedInv, NEW u \in Users, CrashWhileAcknowledging(u)
  PROVE  OwnOK' /\ CutOK' /\ CopiesOK' /\ RecentsOK'
<1> DEFINE m == Head(acks[u])
           n == Len(queue[u])
<1>1. TypeOK /\ OwnOK /\ CutOK /\ CopiesOK /\ RecentsOK
  BY DEF LoggedInv
<1>2. PICK x \in Write : /\ x.into = "recent" /\ x.of = u /\ x.message = m
                         /\ Dies(u, Append(queue[u], x))
  BY <1>1, CutAckFacts
<1>3. UNCHANGED <<sent, cut>> /\ 1 \in DOMAIN acks[u] /\ acks[u][1] = m
  BY <1>1, CutAckFacts
<1> HIDE DEF m
<1>4. /\ \A v \in Users : v # u => queue'[v] = queue[v] /\ acks'[v] = acks[v]
      /\ acks'[u] = <<>> /\ UNCHANGED <<logs, recents, refused>> /\ n \in Nat
  BY <1>1, <1>2, HandedFacts
<1>5. /\ \A i \in DOMAIN queue[u] : /\ i \in DOMAIN queue'[u] /\ i \in Nat /\ i < n + 1
                                    /\ queue'[u][i].into = queue[u][i].into
                                    /\ queue'[u][i].of = queue[u][i].of
                                    /\ queue'[u][i].message = queue[u][i].message
      /\ \A i \in DOMAIN queue'[u] : /\ queue'[u][i].callback = FALSE
                                     /\ i \in DOMAIN queue[u] \/ i = n + 1
  BY <1>1, <1>2, HandedFacts
<1>6. queue'[u][n + 1].message = m
  BY <1>1, <1>2, HandedFacts
<1> HIDE DEF n
<1>7. m \in logs[u] /\ sent[m] = u /\ m \in DOMAIN sent /\ m \notin cut
  BY <1>1, <1>3 DEF OwnOK, CutOK
<1>8. ASSUME NEW v \in Users, NEW i \in DOMAIN queue'[v]
      PROVE  \/ /\ i \in DOMAIN queue[v] /\ queue'[v][i].into = queue[v][i].into
                /\ queue'[v][i].of = queue[v][i].of /\ queue'[v][i].message = queue[v][i].message
                /\ queue'[v][i].callback => queue[v][i].callback
             \/ v = u /\ i = n + 1 /\ queue'[v][i].message = m /\ ~queue'[v][i].callback
  <2>1. CASE v = u
    BY <1>5, <1>6, <2>1
  <2>2. CASE v # u
    BY <1>4, <2>2
  <2> QED BY <2>1, <2>2
<1>9. \A v \in Users : \A k \in DOMAIN acks'[v] : k \in DOMAIN acks[v] /\ acks'[v][k] = acks[v][k]
  BY <1>4
<1>10. OwnOK'
  <2>1. ASSUME NEW v \in Users, NEW i \in DOMAIN queue'[v]
        PROVE  /\ queue'[v][i].message \in DOMAIN sent /\ sent[queue'[v][i].message] = v
               /\ queue'[v][i].callback => queue'[v][i].into = "log" /\ queue'[v][i].of = v
    BY <1>1, <1>7, <1>8 DEF OwnOK
  <2>2. ASSUME NEW v \in Users, NEW i \in DOMAIN acks'[v]
        PROVE  acks'[v][i] \in logs[v] /\ sent[acks'[v][i]] = v
    BY <1>1, <1>9 DEF OwnOK
  <2> QED BY <1>1, <1>3, <1>4, <2>1, <2>2 DEF OwnOK
<1>11. CutOK'
  <2>1. ASSUME NEW v \in Users, NEW i \in DOMAIN queue'[v], queue'[v][i].callback \/ queue'[v][i].into = "recent"
        PROVE  queue'[v][i].message \notin cut
    BY <1>1, <1>7, <1>8, <2>1 DEF CutOK
  <2>2. ASSUME NEW v \in Users, NEW i \in DOMAIN acks'[v] PROVE acks'[v][i] \notin cut
    BY <1>1, <1>9 DEF CutOK
  <2> QED BY <1>1, <1>3, <2>1, <2>2 DEF CutOK
<1>12. ASSUME NEW v \in Users, NEW w \in Users, NEW c
       PROVE  /\ Waits(v, w, c) => Waits(v, w, c)'
              /\ \A k \in Nat : WaitsBefore(v, k, w, c) => WaitsBefore(v, k, w, c)'
  <2>1. ASSUME NEW k \in DOMAIN queue[v], CopyAt(v, k, w, c) PROVE k \in DOMAIN queue'[v] /\ CopyAt(v, k, w, c)'
    <3>1. CASE v = u
      BY <1>5, <2>1, <3>1 DEF CopyAt
    <3>2. CASE v # u
      BY <1>4, <2>1, <3>2 DEF CopyAt
    <3> QED BY <3>1, <3>2
  <2> QED BY <2>1 DEF Waits, WaitsBefore
<1>13. ASSUME NEW w \in Users, NEW c, Settled(w, c) PROVE Settled(w, c)'
  BY <1>4, <1>13, SettledStays
<1>14. CopiesOK'
  <2> SUFFICES ASSUME NEW v \in Users, NEW w \in Users, NEW c \in DOMAIN sent, sent[c] = v
               PROVE  Settled(w, c)' \/ Waits(v, w, c)' \/ Cut(w, c)'
    BY <1>3 DEF CopiesOK
  <2>1. Settled(w, c) \/ Waits(v, w, c) \/ Cut(w, c)
    BY <1>1 DEF CopiesOK
  <2>2. Cut(w, c) => Cut(w, c)'
    BY <1>3 DEF Cut
  <2> QED BY <1>12, <1>13, <2>1, <2>2
<1>15. ASSUME NEW w \in Users, NEW c \in Message, NEW v \in Users, NEW i \in DOMAIN queue'[v],
              queue'[v][i].into = "recent", queue'[v][i].message = c
       PROVE  c \in logs[v] /\ (Settled(w, c)' \/ WaitsBefore(v, i, w, c)')
  <2>1. CASE i \in DOMAIN queue[v] /\ queue[v][i].into = "recent" /\ queue[v][i].message = c
    <3>1. i \in Nat
      BY <1>1, <2>1 DEF TypeOK
    <3>2. c \in logs[v] /\ (Settled(w, c) \/ WaitsBefore(v, i, w, c))
      BY <1>1, <2>1 DEF RecentsOK
    <3> QED BY <1>12, <1>13, <3>1, <3>2
  <2>2. CASE v = u /\ i = n + 1 /\ c = m
    <3>1. Settled(w, c) \/ Waits(u, w, c)
      BY <1>1, <1>7, <2>2 DEF CopiesOK, Cut
    <3>2. ASSUME NEW k \in DOMAIN queue[u], CopyAt(u, k, w, c)
          PROVE  k \in DOMAIN queue'[u] /\ k < i /\ CopyAt(u, k, w, c)'
      <4>1. k \in DOMAIN queue'[u] /\ k < i
        BY <1>5, <2>2
      <4>2. CopyAt(u, k, w, c)'
        BY <1>5, <3>2 DEF CopyAt
      <4> QED BY <4>1, <4>2
    <3>3. Waits(u, w, c) => WaitsBefore(u, i, w, c)'
      BY <3>2 DEF Waits, WaitsBefore
    <3>4. Settled(w, c)' \/ WaitsBefore(u, i, w, c)'
      BY <1>13, <3>1, <3>3
    <3>5. WaitsBefore(u, i, w, c)' => WaitsBefore(v, i, w, c)'
      BY <2>2 DEF WaitsBefore, CopyAt
    <3> QED BY <1>7, <2>2, <3>4, <3>5
  <2> QED BY <1>8, <1>15, <2>1, <2>2
<1>16. RecentsOK'
  BY <1>1, <1>3, <1>4, <1>13, <1>15 DEF RecentsOK, Message
<1> QED BY <1>10, <1>11, <1>14, <1>16

LEMMA LoggedStep == LoggedInv /\ [Next]_vars => LoggedInv'
<1> SUFFICES ASSUME LoggedInv, [Next]_vars PROVE LoggedInv'
  OBVIOUS
<1>1. TypeOK'
  BY TypeStep DEF LoggedInv
<1>2. ASSUME NEW u \in Users, Send(u) PROVE LoggedInv'
  BY <1>1, <1>2, LoggedSend DEF LoggedInv
<1>3. ASSUME NEW u \in Users, Commit(u) \/ Reject(u) PROVE LoggedInv'
  BY <1>1, <1>3, LoggedAnswered DEF LoggedInv
<1>4. ASSUME NEW u \in Users, Acknowledged(u) PROVE LoggedInv'
  BY <1>1, <1>4, LoggedAcknowledged DEF LoggedInv
<1>5. ASSUME NEW u \in Users, Crash(u) \/ CrashWhileSending(u) \/ CrashWhileAcknowledging(u)
      PROVE  LoggedInv'
  BY <1>1, <1>5, LoggedCrash, LoggedCutSend, LoggedCutAck DEF LoggedInv
<1>6. ASSUME NEW u \in Users, Type(u) \/ Open(u) \/ Snapshot(u) PROVE LoggedInv'
  BY <1>1, <1>6, LoggedFrame DEF LoggedInv, Type, Open, Snapshot, serverVars
<1>7. CASE UNCHANGED vars
  BY <1>1, <1>7, LoggedFrame DEF LoggedInv, vars
<1> QED BY <1>2, <1>3, <1>4, <1>5, <1>6, <1>7 DEF Next

(* The inductive invariant of the writes of handleSend: each copy of a     *)
(* message waits in its sender's pipeline or is answered, unless a crash   *)
(* came before it was handed over; and a recent message is behind both     *)
(* copies of a message that no crash cut in two.                           *)
THEOREM LoggedInvariance == Spec => []LoggedInv
<1>1. Init => LoggedInv
  BY TypeInit, LoggedInit DEF LoggedInv
<1> QED BY <1>1, LoggedStep, PTL DEF Spec

(* When the pipelines are empty, both users have all that was ever sent in *)
(* their logs, save the copies the service refused and the receiver's copy *)
(* of a message in whose sending an app died: nothing else loses one of    *)
(* the two writes of a message.                                            *)
THEOREM BothLogsCompleteTheorem == Spec => []BothLogsComplete
<1>1. LoggedInv => BothLogsComplete
  <2> SUFFICES ASSUME LoggedInv, \A u \in Users : queue[u] = <<>>,
                      NEW w \in Users, NEW m \in DOMAIN sent
               PROVE  Settled(w, m) \/ Cut(w, m)
    BY DEF BothLogsComplete, Settled
  <2>1. sent[m] \in Users /\ DOMAIN queue[sent[m]] = {}
    BY DEF LoggedInv, TypeOK
  <2> QED BY <2>1 DEF LoggedInv, CopiesOK, Waits
<1> QED BY <1>1, LoggedInvariance, PTL

(* A recent message is in its sender's log, and in that of the user whose  *)
(* recent message it is, unless that copy was refused: the recent message  *)
(* is written only when the sender's copy is acknowledged, behind the      *)
(* other copy.                                                             *)
THEOREM RecentsAreLoggedTheorem == Spec => []RecentsAreLogged
<1>1. LoggedInv => RecentsAreLogged
  <2>1. LoggedInv => \A w \in Users : recents[w] # 0 => recents[w] \in Message
    BY ChatAssumption DEF LoggedInv, TypeOK, Message
  <2> QED BY <2>1 DEF LoggedInv, RecentsOK, RecentsAreLogged, Settled
<1> QED BY <1>1, LoggedInvariance, PTL
-----------------------------------------------------------------------------
(***************************************************************************)
(* The list of a screen and its query.                                     *)
(***************************************************************************)
LEMMA LocalWaits ==
  ASSUME NEW u \in Users
  PROVE  \A c : c \in Local(u) <=> c \in logs[u] \/ Waits(u, u, c)
BY DEF Local, Waits, CopyAt

LEMMA LocalSent == ASSUME LoggedInv, NEW u \in Users PROVE Local(u) \subseteq DOMAIN sent
<1>1. OwnOK
  BY DEF LoggedInv
<1>2. \A c : Waits(u, u, c) => c \in DOMAIN sent
  BY <1>1 DEF OwnOK, Waits, CopyAt
<1>3. logs[u] \subseteq DOMAIN sent
  BY <1>1 DEF OwnOK
<1> QED BY <1>2, <1>3, LocalWaits

LEMMA ViewInit == Init => (\A u \in Users : QueueOK(u) /\ ListOK(u) /\ ListedOK(u)) /\ PerSenderOrder
<1> SUFFICES ASSUME Init
             PROVE  (\A u \in Users : QueueOK(u) /\ ListOK(u) /\ ListedOK(u)) /\ PerSenderOrder
  OBVIOUS
<1>1. ASSUME NEW u \in Users
      PROVE  DOMAIN queue[u] = {} /\ DOMAIN view[u] = {} /\ Range(view[u]) = {} /\ seen[u] = {}
  <2>1. queue[u] = <<>> /\ view[u] = <<>> /\ seen[u] = {}
    BY DEF Init
  <2> QED BY <2>1 DEF Range
<1>2. \A u \in Users : QueueOK(u) /\ ListOK(u) /\ ListedOK(u)
  BY <1>1 DEF QueueOK, ListOK, ListedOK, IsInjective
<1>3. PerSenderOrder
  BY <1>1 DEF PerSenderOrder
<1> QED BY <1>2, <1>3

(* A step that neither logs nor lists anything; a list may be emptied, and *)
(* recent messages may be queued.                                          *)
LEMMA ViewQuiet ==
  ASSUME ViewInv, UNCHANGED <<sent, logs, refused>>,
         \A v \in Users : \A i \in DOMAIN queue'[v] : queue'[v][i].into = "log" =>
           /\ i \in DOMAIN queue[v] /\ queue[v][i].into = "log"
           /\ queue[v][i].of = queue'[v][i].of /\ queue[v][i].message = queue'[v][i].message,
         \A v \in Users : \A i \in DOMAIN queue[v] :
           /\ i \in DOMAIN queue'[v] /\ queue'[v][i].into = queue[v][i].into
           /\ queue[v][i].of = queue'[v][i].of /\ queue[v][i].message = queue'[v][i].message,
         \A v \in Users : \/ view'[v] = view[v] /\ seen'[v] = seen[v]
                          \/ view'[v] = <<>> /\ seen'[v] = {}
  PROVE  (\A u \in Users : QueueOK(u) /\ ListOK(u) /\ ListedOK(u))' /\ PerSenderOrder'
<1>1. (\A u \in Users : QueueOK(u) /\ ListOK(u) /\ ListedOK(u)) /\ PerSenderOrder
  BY DEF ViewInv
<1>2. ASSUME NEW u \in Users PROVE QueueOK(u)'
  BY <1>1 DEF QueueOK
<1>3. ASSUME NEW u \in Users PROVE Local(u)' = Local(u)
  BY DEF Local
<1>4. ASSUME NEW u \in Users PROVE ListOK(u)' /\ ListedOK(u)'
  <2>1. CASE view'[u] = view[u] /\ seen'[u] = seen[u]
    BY <1>1, <1>3, <2>1 DEF ListOK, ListedOK, Refused
  <2>2. CASE view'[u] = <<>> /\ seen'[u] = {}
    <3>1. DOMAIN view'[u] = {} /\ Range(view'[u]) = {}
      BY <2>2 DEF Range
    <3> QED BY <2>2, <3>1 DEF ListOK, ListedOK, IsInjective
  <2> QED BY <2>1, <2>2
<1>5. PerSenderOrder'
  <2> SUFFICES ASSUME NEW u \in Users, NEW i \in DOMAIN view'[u], NEW j \in DOMAIN view'[u],
                      i < j, sent[view'[u][i]] = sent[view'[u][j]]
               PROVE  view'[u][i] < view'[u][j]
    BY DEF PerSenderOrder
  <2>1. view'[u] = view[u]
    OBVIOUS
  <2> QED BY <1>1, <2>1 DEF PerSenderOrder
<1> QED BY <1>2, <1>4, <1>5

(* A new message is the newest in its pipeline, and not listed yet.        *)
LEMMA ViewSend ==
  ASSUME ViewInv, NEW u \in Users, Send(u)
  PROVE  (\A v \in Users : QueueOK(v) /\ ListOK(v) /\ ListedOK(v))' /\ PerSenderOrder'
<1> DEFINE m == Len(sent) + 1
           n == Len(queue[u])
<1>1. /\ LoggedInv /\ TypeOK /\ OwnOK
      /\ (\A v \in Users : QueueOK(v) /\ ListOK(v) /\ ListedOK(v)) /\ PerSenderOrder
      /\ UNCHANGED <<view, seen, logs, refused>>
  BY DEF ViewInv, LoggedInv, Send, serverVars, screenVars
<1>2. /\ DOMAIN sent' = DOMAIN sent \union {m} /\ sent'[m] = u /\ m \notin DOMAIN sent /\ m \in Nat
      /\ \A c \in DOMAIN sent : c \in Nat /\ sent'[c] = sent[c] /\ c < m
  <2>1. /\ DOMAIN sent' = DOMAIN sent \union {m} /\ sent'[m] = u
        /\ \A c \in DOMAIN sent : c \in Nat /\ sent'[c] = sent[c] /\ c < m
    BY <1>1, SendFacts
  <2> QED BY <1>1, <2>1, TypeFacts
<1>3. /\ \A v \in Users : v # u => queue'[v] = queue[v]
      /\ \A i \in DOMAIN queue[u] : i \in Nat /\ i <= n /\ i \in DOMAIN queue'[u] /\ queue'[u][i] = queue[u][i]
      /\ n \in Nat
  BY <1>1, SendFacts
<1>4. /\ n + 1 \in DOMAIN queue'[u]
      /\ queue'[u][n + 1] = [into |-> "log", of |-> u, message |-> m, callback |-> TRUE]
      /\ n + 2 \in DOMAIN queue'[u]
      /\ queue'[u][n + 2] = [into |-> "log", of |-> Peer(u), message |-> m, callback |-> FALSE]
  BY <1>1, SendFacts
<1>5. \A i \in DOMAIN queue'[u] : \/ i \in DOMAIN queue[u] /\ queue'[u][i] = queue[u][i]
                                  \/ i = n + 1 \/ i = n + 2
  BY <1>1, SendFacts
<1>6. \A v \in Users : \A i \in DOMAIN queue[v] : queue[v][i].message \in DOMAIN sent
  BY <1>1 DEF OwnOK
<1>7. \A v \in Users : logs[v] \subseteq DOMAIN sent /\ Local(v) \subseteq DOMAIN sent
  BY <1>1, LocalSent DEF OwnOK
<1> HIDE DEF m, n
<1>8. ASSUME NEW v \in Users, v # u PROVE QueueOK(v)'
  <2>1. QueueOK(v) /\ queue'[v] = queue[v]
    BY <1>1, <1>3, <1>8
  <2>2. ASSUME NEW i \in DOMAIN queue[v], queue[v][i].into = "log"
        PROVE  \A c \in logs[queue[v][i].of] : sent'[c] = v => c < queue[v][i].message
    <3>1. queue[v][i].of \in Users
      BY <1>1, TypeFacts, WriteFacts
    <3> QED BY <1>2, <1>7, <2>1, <2>2, <3>1 DEF QueueOK
  <2> QED BY <1>1, <2>1, <2>2 DEF QueueOK
<1>9. QueueOK(u)'
  <2> SUFFICES ASSUME NEW i \in DOMAIN queue'[u], queue'[u][i].into = "log"
               PROVE  /\ \A j \in DOMAIN queue'[u] :
                           i < j /\ queue'[u][j].into = "log" /\ queue'[u][j].of = queue'[u][i].of
                           => queue'[u][i].message < queue'[u][j].message
                      /\ \A c \in logs[queue'[u][i].of] : sent'[c] = u => c < queue'[u][i].message
    BY <1>1 DEF QueueOK
  <2>1. QueueOK(u)
    BY <1>1
  <2>2. CASE i \in DOMAIN queue[u] /\ queue'[u][i] = queue[u][i]
    <3>1. queue[u][i].of \in Users /\ queue[u][i].message < m
      BY <1>1, <1>2, <1>6, <2>2, TypeFacts, WriteFacts
    <3>2. \A c \in logs[queue[u][i].of] : sent'[c] = u => c < queue[u][i].message
      BY <1>2, <1>7, <2>1, <2>2, <3>1 DEF QueueOK
    <3>3. ASSUME NEW j \in DOMAIN queue'[u], i < j,
                 queue'[u][j].into = "log", queue'[u][j].of = queue'[u][i].of
          PROVE  queue[u][i].message < queue'[u][j].message
      <4>1. CASE j \in DOMAIN queue[u] /\ queue'[u][j] = queue[u][j]
        BY <2>1, <2>2, <3>3, <4>1 DEF QueueOK
      <4>2. CASE j = n + 1 \/ j = n + 2
        <5>1. queue'[u][j].message = m
          BY <1>4, <4>2
        <5> QED BY <3>1, <5>1
      <4> QED BY <1>5, <4>1, <4>2
    <3> QED BY <2>2, <3>2, <3>3
  <2>3. CASE i = n + 1 \/ i = n + 2
    <3>1. queue'[u][i].message = m /\ queue'[u][i].of \in Users
      BY <1>4, <2>3, PeerFacts
    <3>2. ASSUME NEW j \in DOMAIN queue'[u], i < j PROVE queue'[u][j].of # queue'[u][i].of
      <4>1. i = n + 1 /\ j = n + 2
        <5>1. j \in DOMAIN queue[u] => j <= n /\ j \in Nat
          BY <1>3
        <5> QED BY <1>3, <1>5, <2>3, <3>2, <5>1
      <4> QED BY <1>4, <4>1, PeerFacts
    <3> QED BY <1>2, <1>7, <3>1, <3>2
  <2> QED BY <1>5, <2>2, <2>3
<1>10. ASSUME NEW v \in Users
       PROVE  Local(v) \subseteq Local(v)' /\ Local(v)' \subseteq Local(v) \union {m}
  <2>1. CASE v # u
    BY <1>1, <1>3, <2>1 DEF Local
  <2>2. CASE v = u
    <3>1. \A c : Waits(u, u, c) => Waits(u, u, c)'
      BY <1>3 DEF Waits, CopyAt
    <3>2. ASSUME NEW c, Waits(u, u, c)', c # m PROVE Waits(u, u, c)
      <4>1. PICK i \in DOMAIN queue'[u] : CopyAt(u, i, u, c)'
        BY <3>2 DEF Waits
      <4>2. i \in DOMAIN queue[u] /\ queue'[u][i] = queue[u][i]
        <5>1. ~(i = n + 1 \/ i = n + 2)
          BY <1>4, <3>2, <4>1 DEF CopyAt
        <5> QED BY <1>5, <5>1
      <4> QED BY <4>1, <4>2 DEF Waits, CopyAt
    <3>3. \A c : c \in Local(u)' <=> c \in logs[u] \/ Waits(u, u, c)'
      BY <1>1 DEF Local, Waits, CopyAt
    <3> QED BY <2>2, <3>1, <3>2, <3>3, LocalWaits
  <2> QED BY <2>1, <2>2
<1>11. ASSUME NEW v \in Users
       PROVE  m \notin Range(view[v]) /\ \A i \in DOMAIN view[v] : view[v][i] \in DOMAIN sent
  BY <1>1, <1>2 DEF ListOK, Range
<1>12. ASSUME NEW v \in Users PROVE ListOK(v)'
  <2> SUFFICES ASSUME NEW i \in DOMAIN view[v]
               PROVE  /\ view[v][i] \in DOMAIN sent'
                      /\ sent'[view[v][i]] # v => view[v][i] \in logs[v]
                      /\ \A c \in Local(v)' \ seen[v] : sent'[c] = sent'[view[v][i]] => view[v][i] < c
    BY <1>1 DEF ListOK
  <2>1. view[v][i] \in DOMAIN sent /\ sent'[view[v][i]] = sent[view[v][i]] /\ view[v][i] < m
    BY <1>2, <1>11
  <2>2. sent[view[v][i]] # v => view[v][i] \in logs[v]
    BY <1>1 DEF ListOK
  <2>3. ASSUME NEW c \in Local(v)' \ seen[v], sent'[c] = sent'[view[v][i]] PROVE view[v][i] < c
    <3>1. CASE c = m
      BY <2>1, <3>1
    <3>2. CASE c \in Local(v)
      <4>1. c \in DOMAIN sent
        BY <1>7, <3>2
      <4>2. sent'[c] = sent[c]
        BY <1>2, <4>1
      <4> QED BY <1>1, <2>1, <2>3, <3>2, <4>2 DEF ListOK
    <3> QED BY <1>10, <3>1, <3>2
  <2> QED BY <1>2, <2>1, <2>2, <2>3
<1>13. ASSUME NEW v \in Users PROVE ListedOK(v)'
  <2>1. ListedOK(v)
    BY <1>1
  <2>2. \A c \in Range(view[v]) : sent'[c] = sent[c]
    BY <1>2, <1>11 DEF Range
  <2>3. Range(view[v]) \intersect (Local(v)' \ seen[v]) = {}
    BY <1>10, <1>11, <2>1 DEF ListedOK
  <2>4. \A c \in Range(view[v]) \ Local(v)' : sent'[c] = v /\ Refused("log", v, c)'
    BY <1>1, <1>10, <2>1, <2>2 DEF ListedOK, Refused
  <2> QED BY <1>1, <2>1, <2>3, <2>4 DEF ListedOK
<1>14. PerSenderOrder'
  <2> SUFFICES ASSUME NEW v \in Users, NEW i \in DOMAIN view[v], NEW j \in DOMAIN view[v],
                      i < j, sent'[view[v][i]] = sent'[view[v][j]]
               PROVE  view[v][i] < view[v][j]
    BY <1>1 DEF PerSenderOrder
  <2>1. sent[view[v][i]] = sent[view[v][j]]
    BY <1>2, <1>11
  <2> QED BY <1>1, <2>1 DEF PerSenderOrder
<1> QED BY <1>8, <1>9, <1>12, <1>13, <1>14

(* The query changes with the oldest write of u: another's screen gets it, *)
(* if it is the copy for their log; u's own screen loses a refused one.    *)
LEMMA LocalAnswered ==
  ASSUME TypeOK, NEW u \in Users, Commit(u) \/ Reject(u), NEW v \in Users
  PROVE  /\ \A c \in Local(v)' : c \in Local(v) \/ (v # u /\ CopyAt(u, 1, v, c))
         /\ \A c \in Local(v) : c \in Local(v)' \/ (v = u /\ CopyAt(u, 1, u, c))
         /\ \A c \in logs'[v] : c \in logs[v] \/ CopyAt(u, 1, v, c)
<1>1. ASSUME NEW c, c \in logs'[v] PROVE c \in logs[v] \/ CopyAt(u, 1, v, c)
  <2>1. CASE Commit(u)
    BY <1>1, <2>1, CommitLogs DEF CopyAt
  <2>2. CASE Reject(u)
    BY <1>1, <2>2 DEF Reject, serverVars
  <2> QED BY <2>1, <2>2
<1>2. logs[v] \subseteq logs'[v]
  BY AnsweredGrows
<1>3. CASE v # u
  <2>1. queue'[v] = queue[v]
    BY <1>3, AnsweredFacts
  <2> QED BY <1>1, <1>2, <1>3, <2>1 DEF Local
<1>4. CASE v = u
  <2>1. \A c : c \in Local(u)' <=> c \in logs'[u] \/ Waits(u, u, c)'
    BY DEF Local, Waits, CopyAt
  <2>2. ASSUME NEW c, Waits(u, u, c)' PROVE Waits(u, u, c)
    <3>1. PICK i \in DOMAIN queue'[u] : CopyAt(u, i, u, c)'
      BY <2>2 DEF Waits
    <3>2. i + 1 \in DOMAIN queue[u] /\ queue'[u][i] = queue[u][i + 1]
      BY AnsweredFacts
    <3> QED BY <3>1, <3>2 DEF Waits, CopyAt
  <2>3. ASSUME NEW c, Waits(u, u, c) PROVE Waits(u, u, c)' \/ CopyAt(u, 1, u, c)
    <3>1. PICK i \in DOMAIN queue[u] : CopyAt(u, i, u, c)
      BY <2>3 DEF Waits
    <3>2. i = 1 \/ (i - 1 \in DOMAIN queue'[u] /\ queue'[u][i - 1] = queue[u][i])
      BY AnsweredFacts
    <3> QED BY <3>1, <3>2 DEF Waits, CopyAt
  <2>4. \A c : CopyAt(u, 1, u, c) => Waits(u, u, c)
    BY AnsweredFacts DEF Waits
  <2> QED BY <1>1, <1>2, <1>4, <2>1, <2>2, <2>3, <2>4, LocalWaits
<1> QED BY <1>3, <1>4

LEMMA ViewAnswered ==
  ASSUME ViewInv, NEW u \in Users, Commit(u) \/ Reject(u)
  PROVE  (\A v \in Users : QueueOK(v) /\ ListOK(v) /\ ListedOK(v))' /\ PerSenderOrder'
<1>1. /\ LoggedInv /\ TypeOK /\ OwnOK
      /\ (\A v \in Users : QueueOK(v) /\ ListOK(v) /\ ListedOK(v)) /\ PerSenderOrder
  BY DEF ViewInv, LoggedInv
<1>2. UNCHANGED <<sent, view, seen>> /\ refused \subseteq refused'
  <2>1. UNCHANGED <<view, seen>>
    BY <1>1, CommitFrame DEF Reject, screenVars
  <2> QED BY <1>1, <2>1, AnsweredGrows
<1>3. ASSUME NEW w, NEW c, CopyAt(u, 1, w, c) PROVE c \in DOMAIN sent /\ c \in Nat /\ sent[c] = u
  <2>1. 1 \in DOMAIN queue[u]
    BY <1>1, AnsweredFacts
  <2>2. c \in DOMAIN sent /\ sent[c] = u
    BY <1>1, <1>3, <2>1 DEF CopyAt, OwnOK
  <2> QED BY <1>1, <2>2, TypeFacts
<1>4. ASSUME NEW w, NEW c, CopyAt(u, 1, w, c), NEW d \in logs[w], sent[d] = u PROVE d < c
  <2>1. 1 \in DOMAIN queue[u]
    BY <1>1, AnsweredFacts
  <2>2. queue[u][1].into = "log" /\ queue[u][1].of = w /\ queue[u][1].message = c
    BY <1>4 DEF CopyAt
  <2> QED BY <1>1, <1>4, <2>1, <2>2 DEF QueueOK
<1>5. ASSUME NEW v \in Users PROVE QueueOK(v)'
  <2> SUFFICES ASSUME NEW i \in DOMAIN queue'[v], queue'[v][i].into = "log"
               PROVE  /\ \A j \in DOMAIN queue'[v] :
                           i < j /\ queue'[v][j].into = "log" /\ queue'[v][j].of = queue'[v][i].of
                           => queue'[v][i].message < queue'[v][j].message
                      /\ \A c \in logs'[queue'[v][i].of] : sent[c] = v => c < queue'[v][i].message
    BY <1>2 DEF QueueOK
  <2>1. QueueOK(v)
    BY <1>1
  <2>2. CASE v # u
    <3>1. queue'[v] = queue[v] /\ queue[v][i].of \in Users
      <4>1. queue'[v] = queue[v]
        BY <1>1, <2>2, AnsweredFacts
      <4> QED BY <1>1, <4>1, TypeFacts, WriteFacts
    <3>2. \A c \in logs'[queue[v][i].of] : sent[c] = v => c \in logs[queue[v][i].of]
      BY <1>1, <1>3, <2>2, <3>1, LocalAnswered
    <3> QED BY <2>1, <3>1, <3>2 DEF QueueOK
  <2>3. CASE v = u
    <3>1. \A j \in DOMAIN queue'[u] : j \in Nat /\ 1 < j + 1 /\ j + 1 \in DOMAIN queue[u] /\ queue'[u][j] = queue[u][j + 1]
      BY <1>1, AnsweredFacts
    <3>2. 1 \in DOMAIN queue[u] /\ queue[u][i + 1].of \in Users
      BY <1>1, <2>3, <3>1, AnsweredFacts, TypeFacts, WriteFacts
    <3>3. \A j \in DOMAIN queue'[u] :
            i < j /\ queue'[u][j].into = "log" /\ queue'[u][j].of = queue'[u][i].of
            => queue'[u][i].message < queue'[u][j].message
      <4> SUFFICES ASSUME NEW j \in DOMAIN queue'[u],
                          i < j, queue'[u][j].into = "log", queue'[u][j].of = queue'[u][i].of
                   PROVE  queue'[u][i].message < queue'[u][j].message
        OBVIOUS
      <4>1. i + 1 < j + 1
        BY <2>3, <3>1
      <4> QED BY <2>1, <2>3, <3>1, <4>1 DEF QueueOK
    <3>4. ASSUME NEW c \in logs'[queue[u][i + 1].of], sent[c] = u PROVE c < queue[u][i + 1].message
      <4>1. CASE c \in logs[queue[u][i + 1].of]
        BY <2>1, <2>3, <3>1, <3>4, <4>1 DEF QueueOK
      <4>2. CASE CopyAt(u, 1, queue[u][i + 1].of, c)
        BY <2>1, <2>3, <3>1, <3>2, <4>2 DEF QueueOK, CopyAt
      <4> QED BY <1>1, <3>2, <3>4, <4>1, <4>2, LocalAnswered
    <3> QED BY <2>3, <3>1, <3>3, <3>4
  <2> QED BY <2>2, <2>3
<1>6. ASSUME NEW v \in Users, NEW i \in DOMAIN view[v], v # u, sent[view[v][i]] = u, NEW c, CopyAt(u, 1, v, c)
      PROVE  view[v][i] < c
  <2>1. view[v][i] \in logs[v]
    BY <1>1, <1>6 DEF ListOK
  <2> QED BY <1>4, <1>6, <2>1
<1>7. ASSUME NEW v \in Users PROVE ListOK(v)'
  <2> SUFFICES ASSUME NEW i \in DOMAIN view[v]
               PROVE  /\ view[v][i] \in DOMAIN sent
                      /\ sent[view[v][i]] # v => view[v][i] \in logs'[v]
                      /\ \A c \in Local(v)' \ seen[v] : sent[c] = sent[view[v][i]] => view[v][i] < c
    BY <1>2 DEF ListOK
  <2>1. ListOK(v) /\ logs[v] \subseteq logs'[v]
    BY <1>1, AnsweredGrows
  <2>2. ASSUME NEW c \in Local(v)' \ seen[v], sent[c] = sent[view[v][i]] PROVE view[v][i] < c
    <3>1. CASE c \in Local(v)
      BY <2>1, <2>2, <3>1 DEF ListOK
    <3>2. CASE v # u /\ CopyAt(u, 1, v, c)
      BY <1>3, <1>6, <2>2, <3>2
    <3> QED BY <1>1, <3>1, <3>2, LocalAnswered
  <2> QED BY <2>1, <2>2 DEF ListOK
<1>8. ASSUME NEW v \in Users PROVE ListedOK(v)'
  <2>1. ListedOK(v)
    BY <1>1
  <2>2. ASSUME NEW c \in Range(view[v]), c \in Local(v)' \ seen[v] PROVE FALSE
    <3>1. CASE c \in Local(v)
      BY <2>1, <2>2, <3>1 DEF ListedOK
    <3>2. CASE v # u /\ CopyAt(u, 1, v, c)
      <4>1. PICK i \in DOMAIN view[v] : view[v][i] = c
        BY DEF Range
      <4>2. sent[c] = u /\ c \in Nat
        BY <1>3, <3>2
      <4>3. c < c
        BY <1>6, <3>2, <4>1, <4>2
      <4> QED BY <4>2, <4>3
    <3> QED BY <1>1, <2>2, <3>1, <3>2, LocalAnswered
  <2>3. ASSUME NEW c \in Range(view[v]), c \notin Local(v)' PROVE sent[c] = v /\ Refused("log", v, c)'
    <3>1. CASE c \notin Local(v)
      BY <1>2, <2>1, <3>1 DEF ListedOK, Refused
    <3>2. CASE v = u /\ CopyAt(u, 1, u, c)
      <4>1. Settled(u, c)' /\ sent[c] = u
        BY <1>1, <1>3, <3>2, HeadAnswered
      <4>2. c \notin logs'[u]
        BY <2>3, <3>2 DEF Local
      <4> QED BY <3>2, <4>1, <4>2 DEF Settled
    <3> QED BY <1>1, <2>3, <3>1, <3>2, LocalAnswered
  <2> QED BY <1>2, <2>1, <2>2, <2>3 DEF ListedOK
<1>9. PerSenderOrder'
  BY <1>1, <1>2 DEF PerSenderOrder
<1> QED BY <1>5, <1>7, <1>8, <1>9
(* A listing of a finite set names every element of it, and each of them   *)
(* once.                                                                   *)
LEMMA ListingFacts ==
  ASSUME NEW S, IsFiniteSet(S), NEW s \in SetToSeqs(S)
  PROVE  Range(s) = S /\ IsInjective(s)
<1> DEFINE n == Cardinality(S)
<1>1. n \in Nat /\ s \in [1 .. n -> S] /\ \A i, j \in 1 .. n : i # j => s[i] # s[j]
  BY FS_CardinalityType DEF SetToSeqs
<1> HIDE DEF n
<1>2. IsInjective(s) /\ s \in Injection(1 .. n, S)
  BY <1>1 DEF IsInjective, Injection
<1>3. Cardinality(1 .. n) = Cardinality(S)
  BY <1>1, FS_Interval DEF n
<1>4. s \in Surjection(1 .. n, S)
  BY <1>2, <1>3, FS_Injection
<1>5. \A x \in S : \E i \in 1 .. n : s[i] = x
  BY <1>4 DEF Surjection
<1> QED BY <1>1, <1>2, <1>5 DEF Range

(* One list after another that shares nothing with it.                     *)
LEMMA JoinFacts ==
  ASSUME NEW S, NEW s \in Seq(S), NEW t \in Seq(S)
  PROVE  /\ Range(s \o t) = Range(s) \union Range(t)
         /\ IsInjective(s) /\ IsInjective(t) /\ Range(s) \intersect Range(t) = {}
              => IsInjective(s \o t)
<1>1. /\ \A i \in DOMAIN (s \o t) :
           \/ i \in DOMAIN s /\ (s \o t)[i] = s[i]
           \/ i - Len(s) \in DOMAIN t /\ (s \o t)[i] = t[i - Len(s)]
      /\ \A i \in DOMAIN s : i \in DOMAIN (s \o t) /\ (s \o t)[i] = s[i]
      /\ \A i \in DOMAIN t : i + Len(s) \in DOMAIN (s \o t) /\ (s \o t)[i + Len(s)] = t[i]
      /\ DOMAIN (s \o t) \subseteq Nat /\ Len(s) \in Nat
  OBVIOUS
<1>2. Range(s \o t) = Range(s) \union Range(t)
  <2>1. Range(s \o t) \subseteq Range(s) \union Range(t)
    BY <1>1 DEF Range
  <2>2. Range(s) \subseteq Range(s \o t)
    BY <1>1 DEF Range
  <2>3. \A i \in DOMAIN t : t[i] \in {(s \o t)[j] : j \in DOMAIN (s \o t)}
    BY <1>1
  <2>4. Range(t) \subseteq Range(s \o t)
    BY <2>3 DEF Range
  <2> QED BY <2>1, <2>2, <2>4
<1>3. ASSUME IsInjective(s), IsInjective(t), Range(s) \intersect Range(t) = {}
      PROVE  IsInjective(s \o t)
  <2> SUFFICES ASSUME NEW i \in DOMAIN (s \o t), NEW j \in DOMAIN (s \o t),
                      (s \o t)[i] = (s \o t)[j]
               PROVE  i = j
    BY DEF IsInjective
  <2>1. \A k \in DOMAIN s, l \in DOMAIN t : s[k] # t[l]
    BY <1>3 DEF Range
  <2>2. CASE i \in DOMAIN s /\ (s \o t)[i] = s[i]
    <3>1. j \in DOMAIN s /\ (s \o t)[j] = s[j]
      BY <1>1, <2>1, <2>2
    <3> QED BY <1>3, <2>2, <3>1 DEF IsInjective
  <2>3. CASE i - Len(s) \in DOMAIN t /\ (s \o t)[i] = t[i - Len(s)]
    <3>1. j - Len(s) \in DOMAIN t /\ (s \o t)[j] = t[j - Len(s)]
      BY <1>1, <2>1, <2>3
    <3>2. i - Len(s) = j - Len(s)
      BY <1>3, <2>3, <3>1 DEF IsInjective
    <3> QED BY <1>1, <3>2
  <2> QED BY <1>1, <2>2, <2>3
<1> QED BY <1>2, <1>3

(* What a snapshot adds is in order, newer than what is listed of the same *)
(* sender, and not listed yet.                                             *)
LEMMA ViewSnapshot ==
  ASSUME ViewInv, NEW u \in Users, Snapshot(u)
  PROVE  (\A v \in Users : QueueOK(v) /\ ListOK(v) /\ ListedOK(v))' /\ PerSenderOrder'
<1>1. /\ LoggedInv /\ TypeOK
      /\ (\A v \in Users : QueueOK(v) /\ ListOK(v) /\ ListedOK(v)) /\ PerSenderOrder
  BY DEF ViewInv, LoggedInv
<1>2. /\ UNCHANGED <<sent, queue, logs, refused>>
      /\ \A v \in Users : v # u => view'[v] = view[v] /\ seen'[v] = seen[v]
      /\ seen'[u] = Local(u)
  BY <1>1, SnapshotFacts
<1>3. PICK added \in Added(u) : /\ added \in Seq(Message)
                                /\ \A i \in DOMAIN added : added[i] \in Local(u) \ seen[u]
                                /\ view'[u] = view[u] \o added
  BY <1>1, SnapshotFacts
<1>4. view[u] \in Seq(Message) /\ Len(view[u]) \in Nat
  BY <1>1 DEF TypeOK
<1>5. \A i \in DOMAIN view'[u] :
        \/ i \in DOMAIN view[u] /\ view'[u][i] = view[u][i]
        \/ /\ i - Len(view[u]) \in DOMAIN added /\ view'[u][i] = added[i - Len(view[u])]
           /\ \A j \in DOMAIN view[u] : j < i
  BY <1>3, <1>4, ConcatFacts
<1>6. \A v \in Users : QueueOK(v)' /\ Local(v)' = Local(v)
  BY <1>1, <1>2 DEF QueueOK, Local
<1>7. ASSUME NEW v \in Users, v # u PROVE ListOK(v)' /\ ListedOK(v)'
  BY <1>1, <1>2, <1>6, <1>7 DEF ListOK, ListedOK, Refused
<1>8. \A c \in Local(u) : c \in DOMAIN sent /\ (sent[c] # u => c \in logs[u])
  <2>1. \A c : Waits(u, u, c) => sent[c] = u
    BY <1>1 DEF LoggedInv, OwnOK, Waits, CopyAt
  <2> QED BY <1>1, <2>1, LocalSent, LocalWaits
<1>9. ListOK(u)'
  BY <1>1, <1>2, <1>3, <1>5, <1>6, <1>8 DEF ListOK
<1>10. ListedOK(u)'
  <2>1. Range(added) = Local(u) \ seen[u] /\ IsInjective(added)
    BY <1>1, LocalType, ListingFacts DEF Added
  <2>2. IsInjective(view[u]) /\ Range(view[u]) \intersect Range(added) = {} /\ seen[u] \subseteq Range(view[u])
    BY <1>1, <2>1 DEF ListedOK
  <2>3. Range(view'[u]) = Range(view[u]) \union (Local(u) \ seen[u]) /\ IsInjective(view'[u])
    BY <1>3, <1>4, <2>1, <2>2, JoinFacts
  <2>4. \A c \in Range(view'[u]) \ Local(u) : sent[c] = u /\ Refused("log", u, c)'
    BY <1>1, <1>2, <2>3 DEF ListedOK, Refused
  <2> QED BY <1>2, <1>6, <2>2, <2>3, <2>4 DEF ListedOK
<1>11. PerSenderOrder'
  <2> SUFFICES ASSUME NEW v \in Users, NEW i \in DOMAIN view'[v], NEW j \in DOMAIN view'[v],
                      i < j, sent[view'[v][i]] = sent[view'[v][j]]
               PROVE  view'[v][i] < view'[v][j]
    BY <1>2 DEF PerSenderOrder
  <2>1. CASE v # u
    BY <1>1, <1>2, <2>1 DEF PerSenderOrder
  <2>2. CASE v = u
    <3>1. i \in Nat /\ j \in Nat
      <4>1. view'[u] \in Seq(Message)
        BY <1>3, <1>4
      <4> QED BY <2>2, <4>1
    <3>2. CASE /\ i \in DOMAIN view[u] /\ view'[u][i] = view[u][i]
               /\ j \in DOMAIN view[u] /\ view'[u][j] = view[u][j]
      BY <1>1, <2>2, <3>2 DEF PerSenderOrder
    <3>3. CASE /\ i \in DOMAIN view[u] /\ view'[u][i] = view[u][i]
               /\ j - Len(view[u]) \in DOMAIN added /\ view'[u][j] = added[j - Len(view[u])]
      <4>1. added[j - Len(view[u])] \in Local(u) \ seen[u]
        BY <1>3, <3>3
      <4> QED BY <1>1, <2>2, <3>3, <4>1 DEF ListOK
    <3>4. CASE /\ i - Len(view[u]) \in DOMAIN added /\ view'[u][i] = added[i - Len(view[u])]
               /\ j - Len(view[u]) \in DOMAIN added /\ view'[u][j] = added[j - Len(view[u])]
      <4>1. i - Len(view[u]) < j - Len(view[u])
        BY <1>4, <3>1
      <4>2. Ascending(added)
        BY DEF Added
      <4> QED BY <2>2, <3>4, <4>1, <4>2 DEF Ascending
    <3> QED BY <1>5, <2>2, <3>1, <3>2, <3>3, <3>4
  <2> QED BY <2>1, <2>2
<1> QED BY <1>6, <1>7, <1>9, <1>10, <1>11

(* Nothing is listed on the screen of a dead app; the message it was       *)
(* sending is the newest in its pipeline, and not in the other's query.    *)
LEMMA ViewCutSend ==
  ASSUME ViewInv, NEW u \in Users, CrashWhileSending(u)
  PROVE  (\A v \in Users : QueueOK(v) /\ ListOK(v) /\ ListedOK(v))' /\ PerSenderOrder'
<1> DEFINE m == Len(sent) + 1
           n == Len(queue[u])
<1>1. /\ TypeOK /\ OwnOK
      /\ (\A v \in Users : QueueOK(v) /\ ListOK(v) /\ ListedOK(v)) /\ PerSenderOrder
  BY DEF ViewInv, LoggedInv
<1>2. PICK x \in Write : /\ x.into = "log" /\ x.of = u /\ x.message = m
                         /\ Dies(u, Append(queue[u], x))
  BY <1>1, CutSendFacts
<1>3. /\ DOMAIN sent' = DOMAIN sent \union {m} /\ sent'[m] = u
      /\ \A c \in DOMAIN sent : c \in Nat /\ sent'[c] = sent[c] /\ c < m
  BY <1>1, CutSendFacts
<1>4. /\ \A v \in Users : v # u => queue'[v] = queue[v] /\ view'[v] = view[v] /\ seen'[v] = seen[v]
      /\ view'[u] = <<>> /\ seen'[u] = {} /\ UNCHANGED <<logs, refused>> /\ n \in Nat
  BY <1>1, <1>2, HandedFacts
<1>5. /\ \A i \in DOMAIN queue[u] : /\ i < n + 1 /\ i \in Nat
                                    /\ queue'[u][i].into = queue[u][i].into
                                    /\ queue'[u][i].of = queue[u][i].of
                                    /\ queue'[u][i].message = queue[u][i].message
      /\ \A i \in DOMAIN queue'[u] : i \in DOMAIN queue[u] \/ i = n + 1
  BY <1>1, <1>2, HandedFacts
<1>6. /\ n + 1 \in DOMAIN queue'[u] /\ queue'[u][n + 1].into = "log"
      /\ queue'[u][n + 1].of = u /\ queue'[u][n + 1].message = m
  BY <1>1, <1>2, HandedFacts
<1> HIDE DEF n, m
<1>7. \A i \in DOMAIN queue[u] : queue[u][i].message < m
  BY <1>1, <1>3 DEF OwnOK
<1>8. \A w \in Users : \A c \in logs[w] : c \in DOMAIN sent /\ c < m /\ sent'[c] = sent[c]
  BY <1>1, <1>3 DEF OwnOK
<1>9. QueueOK(u)'
  <2>1. ASSUME NEW i \in DOMAIN queue'[u], NEW j \in DOMAIN queue'[u],
               i < j, queue'[u][i].into = "log", queue'[u][j].into = "log", queue'[u][j].of = queue'[u][i].of
        PROVE  queue'[u][i].message < queue'[u][j].message
    <3>1. i \in DOMAIN queue[u]
      BY <1>4, <1>5, <2>1
    <3>2. CASE j \in DOMAIN queue[u]
      BY <1>1, <1>5, <2>1, <3>1, <3>2 DEF QueueOK
    <3>3. CASE j = n + 1
      BY <1>5, <1>6, <1>7, <3>1, <3>3
    <3> QED BY <1>5, <3>2, <3>3
  <2>2. ASSUME NEW i \in DOMAIN queue'[u], queue'[u][i].into = "log",
               NEW c \in logs[queue'[u][i].of], sent'[c] = u
        PROVE  c < queue'[u][i].message
    <3>1. CASE i \in DOMAIN queue[u]
      <4>1. /\ queue[u][i].into = "log" /\ queue[u][i].of = queue'[u][i].of
            /\ queue[u][i].message = queue'[u][i].message
        BY <1>5, <2>2, <3>1
      <4>2. queue[u][i].of \in Users
        BY <1>1, <3>1, TypeFacts, WriteFacts
      <4>3. sent[c] = u
        BY <1>8, <2>2, <4>1, <4>2
      <4> QED BY <1>1, <2>2, <3>1, <4>1, <4>3 DEF QueueOK
    <3>2. CASE i = n + 1
      BY <1>6, <1>8, <2>2, <3>2
    <3> QED BY <1>5, <3>1, <3>2
  <2> QED BY <1>4, <2>1, <2>2 DEF QueueOK
<1>10. ASSUME NEW v \in Users, v # u PROVE QueueOK(v)' /\ Local(v)' = Local(v)
  <2>1. queue'[v] = queue[v] /\ logs' = logs
    BY <1>4, <1>10
  <2>2. Local(v)' = Local(v)
    BY <2>1 DEF Local
  <2>3. ASSUME NEW i \in DOMAIN queue[v], queue[v][i].into = "log",
               NEW c \in logs[queue[v][i].of], sent'[c] = v
        PROVE  c < queue[v][i].message
    <3>1. queue[v][i].of \in Users
      BY <1>1, TypeFacts, WriteFacts
    <3>2. sent[c] = v
      BY <1>8, <2>3, <3>1
    <3> QED BY <1>1, <2>3, <3>2 DEF QueueOK
  <2>4. QueueOK(v)'
    BY <1>1, <2>1, <2>3 DEF QueueOK
  <2> QED BY <2>2, <2>4
<1>11. ASSUME NEW v \in Users PROVE ListOK(v)' /\ ListedOK(v)'
  <2>1. CASE v = u
    <3>1. DOMAIN view'[u] = {} /\ Range(view'[u]) = {} /\ seen'[u] = {}
      BY <1>4 DEF Range
    <3> QED BY <2>1, <3>1 DEF ListOK, ListedOK, IsInjective
  <2>2. CASE v # u
    <3>1. Local(v)' = Local(v) /\ view'[v] = view[v] /\ seen'[v] = seen[v] /\ UNCHANGED <<logs, refused>>
      BY <1>4, <1>10, <2>2
    <3>2. Local(v) \subseteq DOMAIN sent
      BY LocalSent DEF ViewInv
    <3>3. ListOK(v)'
      BY <1>1, <1>3, <3>1, <3>2 DEF ListOK
    <3>4. ASSUME NEW c \in Range(view[v]) \ Local(v) PROVE sent'[c] = v /\ Refused("log", v, c)'
      <4>1. sent[c] = v /\ Refused("log", v, c)
        BY <1>1 DEF ListedOK
      <4>2. c \in DOMAIN sent
        BY <1>1 DEF ListOK, Range
      <4> QED BY <1>3, <3>1, <4>1, <4>2 DEF Refused
    <3>5. ListedOK(v)'
      BY <1>1, <3>1, <3>4 DEF ListedOK
    <3> QED BY <3>3, <3>5
  <2> QED BY <2>1, <2>2
<1>12. PerSenderOrder'
  <2> SUFFICES ASSUME NEW v \in Users, NEW i \in DOMAIN view'[v], NEW j \in DOMAIN view'[v],
                      i < j, sent'[view'[v][i]] = sent'[view'[v][j]]
               PROVE  view'[v][i] < view'[v][j]
    BY DEF PerSenderOrder
  <2>1. v # u
    BY <1>4
  <2>2. view'[v] = view[v] /\ view[v][i] \in DOMAIN sent /\ view[v][j] \in DOMAIN sent
    BY <1>1, <1>4, <2>1 DEF ListOK
  <2> QED BY <1>1, <1>3, <2>2 DEF PerSenderOrder
<1> QED BY <1>9, <1>10, <1>11, <1>12

LEMMA ViewCutAck ==
  ASSUME ViewInv, NEW u \in Users, CrashWhileAcknowledging(u)
  PROVE  (\A v \in Users : QueueOK(v) /\ ListOK(v) /\ ListedOK(v))' /\ PerSenderOrder'
<1> DEFINE n == Len(queue[u])
<1>1. TypeOK
  BY DEF ViewInv, LoggedInv
<1>2. PICK x \in Write : x.into = "recent" /\ Dies(u, Append(queue[u], x))
  BY <1>1, CutAckFacts
<1>3. sent' = sent
  BY <1>1, CutAckFacts
<1>4. /\ \A v \in Users : v # u => queue'[v] = queue[v] /\ view'[v] = view[v] /\ seen'[v] = seen[v]
      /\ view'[u] = <<>> /\ seen'[u] = {} /\ UNCHANGED <<logs, refused>>
  BY <1>1, <1>2, HandedFacts
<1>5. /\ \A i \in DOMAIN queue[u] : /\ i \in DOMAIN queue'[u]
                                    /\ queue'[u][i].into = queue[u][i].into
                                    /\ queue'[u][i].of = queue[u][i].of
                                    /\ queue'[u][i].message = queue[u][i].message
      /\ \A i \in DOMAIN queue'[u] : i \in DOMAIN queue[u] \/ i = n + 1
  BY <1>1, <1>2, HandedFacts
<1>6. queue'[u][n + 1].into = "recent"
  BY <1>1, <1>2, HandedFacts
<1> HIDE DEF n
<1>7. ASSUME NEW v \in Users, NEW i \in DOMAIN queue'[v], queue'[v][i].into = "log"
      PROVE  /\ i \in DOMAIN queue[v] /\ queue[v][i].into = "log"
             /\ queue[v][i].of = queue'[v][i].of /\ queue[v][i].message = queue'[v][i].message
  BY <1>4, <1>5, <1>6, <1>7
<1>8. ASSUME NEW v \in Users, NEW i \in DOMAIN queue[v]
      PROVE  /\ i \in DOMAIN queue'[v] /\ queue'[v][i].into = queue[v][i].into
             /\ queue[v][i].of = queue'[v][i].of /\ queue[v][i].message = queue'[v][i].message
  BY <1>4, <1>5
<1>9. \A v \in Users : \/ view'[v] = view[v] /\ seen'[v] = seen[v]
                       \/ view'[v] = <<>> /\ seen'[v] = {}
  BY <1>4
<1> QED BY <1>3, <1>4, <1>7, <1>8, <1>9, ViewQuiet

LEMMA ViewStep == ViewInv /\ [Next]_vars => ViewInv'
<1> SUFFICES ASSUME ViewInv, [Next]_vars
             PROVE  (\A v \in Users : QueueOK(v) /\ ListOK(v) /\ ListedOK(v))' /\ PerSenderOrder'
  BY LoggedStep DEF ViewInv
<1>1. TypeOK /\ OwnOK
  BY DEF ViewInv, LoggedInv
<1>2. ASSUME NEW u \in Users, Send(u)
      PROVE  (\A v \in Users : QueueOK(v) /\ ListOK(v) /\ ListedOK(v))' /\ PerSenderOrder'
  BY <1>2, ViewSend
<1>3. ASSUME NEW u \in Users, Commit(u) \/ Reject(u)
      PROVE  (\A v \in Users : QueueOK(v) /\ ListOK(v) /\ ListedOK(v))' /\ PerSenderOrder'
  BY <1>3, ViewAnswered
<1>4. ASSUME NEW u \in Users, Snapshot(u)
      PROVE  (\A v \in Users : QueueOK(v) /\ ListOK(v) /\ ListedOK(v))' /\ PerSenderOrder'
  BY <1>4, ViewSnapshot
<1>5. ASSUME NEW u \in Users, Acknowledged(u)
      PROVE  (\A v \in Users : QueueOK(v) /\ ListOK(v) /\ ListedOK(v))' /\ PerSenderOrder'
  <2>1. UNCHANGED <<sent, logs, refused, view, seen>>
    BY <1>5 DEF Acknowledged, serverVars, screenVars
  <2>2. \A v \in Users : \A i \in DOMAIN queue[v] : i \in DOMAIN queue'[v] /\ queue'[v][i] = queue[v][i]
    BY <1>1, <1>5, AckFacts
  <2>3. ASSUME NEW v \in Users, NEW i \in DOMAIN queue'[v], queue'[v][i].into = "log"
        PROVE  i \in DOMAIN queue[v] /\ queue'[v][i] = queue[v][i]
    <3>1. CASE v # u
      BY <1>1, <1>5, <3>1, AckFacts
    <3>2. CASE v = u
      <4>1. i \in DOMAIN queue[u] \/ i = Len(queue[u]) + 1 \/ i = Len(queue[u]) + 2
        BY <1>1, <1>5, <3>2, AckFacts
      <4>2. /\ queue'[u][Len(queue[u]) + 1] =
                 [into |-> "recent", of |-> u, message |-> Head(acks[u]), callback |-> FALSE]
            /\ queue'[u][Len(queue[u]) + 2] =
                 [into |-> "recent", of |-> Peer(u), message |-> Head(acks[u]), callback |-> FALSE]
        BY <1>1, <1>5, AckFacts
      <4>3. queue'[u][Len(queue[u]) + 1].into = "recent" /\ queue'[u][Len(queue[u]) + 2].into = "recent"
        BY <4>2
      <4> QED BY <2>2, <2>3, <3>2, <4>1, <4>3
    <3> QED BY <3>1, <3>2
  <2> QED BY <2>1, <2>2, <2>3, ViewQuiet
<1>6. ASSUME NEW u \in Users, Crash(u)
      PROVE  (\A v \in Users : QueueOK(v) /\ ListOK(v) /\ ListedOK(v))' /\ PerSenderOrder'
  <2>1. UNCHANGED <<sent, logs, refused>>
    BY <1>1, <1>6, CrashFacts
  <2>2. ASSUME NEW v \in Users
        PROVE  /\ DOMAIN queue'[v] = DOMAIN queue[v]
               /\ \A i \in DOMAIN queue[v] : /\ queue'[v][i].into = queue[v][i].into
                                             /\ queue'[v][i].of = queue[v][i].of
                                             /\ queue'[v][i].message = queue[v][i].message
    <3>1. CASE v = u
      BY <1>1, <1>6, <3>1, CrashFacts
    <3>2. CASE v # u
      BY <1>1, <1>6, <3>2, CrashFacts
    <3> QED BY <3>1, <3>2
  <2>3. \A v \in Users : \/ view'[v] = view[v] /\ seen'[v] = seen[v]
                         \/ view'[v] = <<>> /\ seen'[v] = {}
    <3> TAKE v \in Users
    <3>1. CASE v = u
      BY <1>1, <1>6, <3>1, CrashFacts
    <3>2. CASE v # u
      BY <1>1, <1>6, <3>2, CrashFacts
    <3> QED BY <3>1, <3>2
  <2> QED BY <2>1, <2>2, <2>3, ViewQuiet
<1>7. ASSUME NEW u \in Users, Type(u) \/ Open(u)
      PROVE  (\A v \in Users : QueueOK(v) /\ ListOK(v) /\ ListedOK(v))' /\ PerSenderOrder'
  <2>1. UNCHANGED <<sent, logs, refused, queue>>
    BY <1>7 DEF Type, Open, serverVars
  <2>2. \A v \in Users : \/ view'[v] = view[v] /\ seen'[v] = seen[v]
                         \/ view'[v] = <<>> /\ seen'[v] = {}
    BY <1>1, <1>7 DEF Type, Open, screenVars, TypeOK
  <2> QED BY <2>1, <2>2, ViewQuiet
<1>8. CASE UNCHANGED vars
  BY <1>8, ViewQuiet DEF vars
<1>9. ASSUME NEW u \in Users, CrashWhileSending(u)
      PROVE  (\A v \in Users : QueueOK(v) /\ ListOK(v) /\ ListedOK(v))' /\ PerSenderOrder'
  BY <1>9, ViewCutSend
<1>10. ASSUME NEW u \in Users, CrashWhileAcknowledging(u)
       PROVE  (\A v \in Users : QueueOK(v) /\ ListOK(v) /\ ListedOK(v))' /\ PerSenderOrder'
  BY <1>10, ViewCutAck
<1> QED BY <1>2, <1>3, <1>4, <1>5, <1>6, <1>7, <1>8, <1>9, <1>10 DEF Next

(* The inductive invariant of createChatLogListener and fetchMessages: what*)
(* is still to be reported is newer than what is listed of its sender, and *)
(* the list holds the query once.                                          *)
THEOREM ViewInvariance == Spec => []ViewInv
<1>1. Init => ViewInv
  BY TypeInit, LoggedInit, ViewInit DEF ViewInv, LoggedInv
<1> QED BY <1>1, ViewStep, PTL DEF Spec

(* The messages of one sender are listed in the order they were sent, on   *)
(* both screens: the list appends whatever the listener reports, and it is *)
(* the pipeline that keeps the order.                                      *)
THEOREM PerSenderOrderTheorem == Spec => []PerSenderOrder
<1>1. ViewInv => PerSenderOrder
  BY DEF ViewInv
<1> QED BY <1>1, ViewInvariance, PTL

(* A screen that is up to date lists every logged message once, and beyond *)
(* them only its user's own messages that were refused.                    *)
THEOREM ViewIsLogTheorem == Spec => []ViewIsLog
<1>1. ViewInv => ViewIsLog
  <2> SUFFICES ASSUME ViewInv, NEW u \in Users, queue[u] = <<>>, seen[u] = Local(u)
               PROVE  /\ IsInjective(view[u])
                      /\ logs[u] \subseteq Range(view[u])
                      /\ \A m \in Range(view[u]) \ logs[u] : sent[m] = u /\ Refused("log", u, m)
    BY DEF ViewIsLog
  <2>1. DOMAIN queue[u] = {}
    OBVIOUS
  <2>2. Local(u) = logs[u]
    BY <2>1 DEF Local
  <2> QED BY <2>2 DEF ViewInv, ListedOK
<1> QED BY <1>1, ViewInvariance, PTL
-----------------------------------------------------------------------------
(***************************************************************************)
(* The recent message of a conversation in which one side writes.          *)
(***************************************************************************)
LEMMA StagesInit == Init => \A u \in Users : StagesOK(u)
<1> SUFFICES ASSUME Init, NEW u \in Users PROVE StagesOK(u)
  OBVIOUS
<1>1. DOMAIN queue[u] = {} /\ DOMAIN acks[u] = {}
  BY DEF Init
<1> QED BY <1>1 DEF StagesOK

(* The pipeline as it was, but for lost callbacks, and the acknowledged    *)
(* messages as they were, or none.                                         *)
LEMMA StagesFrame ==
  ASSUME NEW u \in Users, StagesOK(u),
         \A i \in DOMAIN queue'[u] : /\ i \in DOMAIN queue[u]
                                     /\ queue'[u][i].into = queue[u][i].into
                                     /\ queue'[u][i].of = queue[u][i].of
                                     /\ queue'[u][i].message = queue[u][i].message
                                     /\ queue'[u][i].callback => queue[u][i].callback,
         acks'[u] = acks[u] \/ DOMAIN acks'[u] = {}
  PROVE  StagesOK(u)'
BY DEF StagesOK

LEMMA StagesSend ==
  ASSUME LoggedInv, NEW u \in Users, StagesOK(u), Send(u)
  PROVE  StagesOK(u)'
<1> DEFINE m == Len(sent) + 1
           n == Len(queue[u])
<1>1. TypeOK /\ OwnOK /\ acks' = acks
  BY DEF LoggedInv, Send
<1>2. \A c \in DOMAIN sent : c < m
  BY <1>1, SendFacts
<1>3. /\ \A i \in DOMAIN queue[u] : i \in Nat /\ i <= n
      /\ n \in Nat
  BY <1>1, SendFacts
<1>4. /\ queue'[u][n + 1] = [into |-> "log", of |-> u, message |-> m, callback |-> TRUE]
      /\ queue'[u][n + 2] = [into |-> "log", of |-> Peer(u), message |-> m, callback |-> FALSE]
  BY <1>1, SendFacts
<1>5. \A i \in DOMAIN queue'[u] : \/ i \in DOMAIN queue[u] /\ queue'[u][i] = queue[u][i]
                                  \/ i = n + 1 \/ i = n + 2
  BY <1>1, SendFacts
<1>6. /\ \A i \in DOMAIN queue[u] : queue[u][i].message < m
      /\ \A k \in DOMAIN acks[u] : acks[u][k] < m
  <2>1. \A i \in DOMAIN queue[u] : queue[u][i].message \in DOMAIN sent
    BY <1>1 DEF OwnOK
  <2>2. \A k \in DOMAIN acks[u] : acks[u][k] \in DOMAIN sent
    BY <1>1 DEF OwnOK
  <2> QED BY <1>2, <2>1, <2>2
<1> HIDE DEF m, n
<1>7. \A i \in DOMAIN queue'[u] :
        \/ i \in DOMAIN queue[u] /\ queue'[u][i] = queue[u][i]
        \/ /\ i = n + 1
           /\ queue'[u][i].into = "log" /\ queue'[u][i].message = m
        \/ queue'[u][i].into = "log" /\ ~queue'[u][i].callback
  BY <1>4, <1>5
<1>8. ASSUME NEW i \in DOMAIN queue'[u], NEW j \in DOMAIN queue'[u]
      PROVE  /\ i < j /\ queue'[u][i].into = "recent" /\ queue'[u][j].into = "recent"
                  /\ queue'[u][i].of = queue'[u][j].of => queue'[u][i].message < queue'[u][j].message
             /\ i < j /\ queue'[u][i].callback /\ queue'[u][j].callback
                  => queue'[u][i].message < queue'[u][j].message
             /\ queue'[u][i].into = "recent" /\ queue'[u][j].callback
                  => queue'[u][i].message < queue'[u][j].message
  <2>1. CASE i \in DOMAIN queue[u] /\ queue'[u][i] = queue[u][i] /\ j \in DOMAIN queue[u] /\ queue'[u][j] = queue[u][j]
    BY <2>1 DEF StagesOK
  <2>2. CASE /\ i \in DOMAIN queue[u] /\ queue'[u][i] = queue[u][i]
             /\ queue'[u][j].into = "log" /\ queue'[u][j].message = m
    BY <1>6, <2>2
  <2>3. CASE i = n + 1 /\ queue'[u][i].into = "log"
    <3>1. i < j => j = n + 2
      BY <1>3, <1>5, <2>3
    <3>2. i < j => ~queue'[u][j].callback
      BY <1>4, <3>1
    <3> QED BY <2>3, <3>2
  <2>4. CASE queue'[u][i].into = "log" /\ ~queue'[u][i].callback
    BY <2>4
  <2>5. CASE queue'[u][j].into = "log" /\ ~queue'[u][j].callback
    BY <2>5
  <2> QED BY <1>7, <2>1, <2>2, <2>3, <2>4, <2>5
<1>9. ASSUME NEW k \in DOMAIN acks[u], NEW i \in DOMAIN queue'[u]
      PROVE  /\ queue'[u][i].into = "recent" => queue'[u][i].message < acks[u][k]
             /\ queue'[u][i].callback => acks[u][k] < queue'[u][i].message
  BY <1>6, <1>7 DEF StagesOK
<1> QED BY <1>1, <1>8, <1>9 DEF StagesOK

(* The copy that is acknowledged joins the callbacks as their newest.      *)
LEMMA StagesAnswered ==
  ASSUME LoggedInv, NEW u \in Users, StagesOK(u), Commit(u) \/ Reject(u)
  PROVE  StagesOK(u)'
<1> DEFINE h == queue[u][1]
<1>1. TypeOK /\ OwnOK
  BY DEF LoggedInv
<1>2. /\ 1 \in DOMAIN queue[u]
      /\ \A i \in DOMAIN queue'[u] : i \in Nat /\ 1 < i + 1 /\ i + 1 \in DOMAIN queue[u] /\ queue'[u][i] = queue[u][i + 1]
  BY <1>1, AnsweredFacts
<1>3. \A i, j \in DOMAIN queue'[u] :
        LET x == queue'[u][i]
            y == queue'[u][j] IN
        /\ i < j /\ x.into = "recent" /\ y.into = "recent" /\ x.of = y.of => x.message < y.message
        /\ i < j /\ x.callback /\ y.callback => x.message < y.message
        /\ x.into = "recent" /\ y.callback => x.message < y.message
  <2> TAKE i, j \in DOMAIN queue'[u]
  <2>1. i < j => i + 1 < j + 1
    BY <1>2
  <2> QED BY <1>2, <2>1 DEF StagesOK
<1>4. CASE acks'[u] = acks[u]
  <2>1. \A k \in DOMAIN acks[u] : \A i \in DOMAIN queue'[u] :
          /\ queue'[u][i].into = "recent" => queue'[u][i].message < acks[u][k]
          /\ queue'[u][i].callback => acks[u][k] < queue'[u][i].message
    BY <1>2 DEF StagesOK
  <2>2. \A k, l \in DOMAIN acks[u] : k < l => acks[u][k] < acks[u][l]
    BY DEF StagesOK
  <2> QED BY <1>3, <1>4, <2>1, <2>2 DEF StagesOK
<1>5. CASE acks'[u] = Append(acks[u], h.message) /\ h.callback
  <2>1. \A k \in DOMAIN acks'[u] : \/ k \in DOMAIN acks[u] /\ acks'[u][k] = acks[u][k]
                                   \/ k = Len(acks[u]) + 1 /\ acks'[u][k] = h.message
    <3>1. h.message \in Message /\ acks[u] \in Seq(Message)
      BY <1>1, <1>2, TypeFacts, WriteFacts
    <3> QED BY <1>5, <3>1, AppendFacts
  <2>2. \A k \in DOMAIN acks[u] : k \in Nat /\ k <= Len(acks[u]) /\ Len(acks[u]) \in Nat
    BY <1>1 DEF TypeOK
  <2>3. \A k \in DOMAIN acks[u] : acks[u][k] < h.message
    BY <1>2, <1>5 DEF StagesOK
  <2>4. \A i \in DOMAIN queue'[u] :
          /\ queue'[u][i].into = "recent" => queue'[u][i].message < h.message
          /\ queue'[u][i].callback => h.message < queue'[u][i].message
    BY <1>2, <1>5 DEF StagesOK
  <2>5. \A k, l \in DOMAIN acks'[u] : k < l => acks'[u][k] < acks'[u][l]
    <3> TAKE k, l \in DOMAIN acks'[u]
    <3>1. CASE /\ k \in DOMAIN acks[u] /\ acks'[u][k] = acks[u][k]
               /\ l \in DOMAIN acks[u] /\ acks'[u][l] = acks[u][l]
      BY <3>1 DEF StagesOK
    <3>2. CASE /\ k \in DOMAIN acks[u] /\ acks'[u][k] = acks[u][k]
               /\ acks'[u][l] = h.message
      BY <2>3, <3>2
    <3>3. CASE k = Len(acks[u]) + 1
      <4>1. ~(k < l)
        <5>1. Len(acks[u]) \in Nat
          BY <1>1 DEF TypeOK
        <5> QED BY <2>1, <2>2, <3>3, <5>1
      <4> QED BY <4>1
    <3> QED BY <2>1, <3>1, <3>2, <3>3
  <2>6. ASSUME NEW k \in DOMAIN acks'[u], NEW i \in DOMAIN queue'[u]
        PROVE  /\ queue'[u][i].into = "recent" => queue'[u][i].message < acks'[u][k]
               /\ queue'[u][i].callback => acks'[u][k] < queue'[u][i].message
    <3>1. CASE k \in DOMAIN acks[u] /\ acks'[u][k] = acks[u][k]
      BY <1>2, <3>1 DEF StagesOK
    <3>2. CASE acks'[u][k] = h.message
      BY <2>4, <3>2
    <3> QED BY <2>1, <3>1, <3>2
  <2> QED BY <1>3, <2>5, <2>6 DEF StagesOK
<1>6. CASE Commit(u)
  BY <1>1, <1>4, <1>5, <1>6, CommitAcks
<1>7. CASE Reject(u)
  BY <1>4, <1>7 DEF Reject
<1> QED BY <1>6, <1>7

(* The oldest acknowledged message is newer than the recent messages that  *)
(* wait, and older than the copies that do.                                *)
LEMMA StagesAcknowledged ==
  ASSUME LoggedInv, NEW u \in Users, StagesOK(u), Acknowledged(u)
  PROVE  StagesOK(u)'
<1> DEFINE m == acks[u][1]
           n == Len(queue[u])
<1>1. TypeOK
  BY DEF LoggedInv
<1>2. /\ 1 \in DOMAIN acks[u] /\ Head(acks[u]) = m
      /\ \A k \in DOMAIN acks'[u] : k \in Nat /\ 1 < k + 1 /\ k + 1 \in DOMAIN acks[u] /\ acks'[u][k] = acks[u][k + 1]
  <2>1. 1 \in DOMAIN acks[u] /\ acks[u][1] = Head(acks[u])
    BY <1>1, AckFacts
  <2>2. \A k \in DOMAIN acks'[u] : k \in Nat /\ 1 <= k /\ k + 1 \in DOMAIN acks[u] /\ acks'[u][k] = acks[u][k + 1]
    BY <1>1, AckFacts
  <2> QED BY <2>1, <2>2
<1>3. /\ \A i \in DOMAIN queue[u] : i \in Nat /\ i <= n
      /\ n \in Nat
  BY <1>1, AckFacts
<1>4. /\ queue'[u][n + 1] = [into |-> "recent", of |-> u, message |-> m, callback |-> FALSE]
      /\ queue'[u][n + 2] = [into |-> "recent", of |-> Peer(u), message |-> m, callback |-> FALSE]
  BY <1>1, <1>2, AckFacts
<1>5. \A i \in DOMAIN queue'[u] : \/ i \in DOMAIN queue[u] /\ queue'[u][i] = queue[u][i]
                                  \/ i = n + 1 \/ i = n + 2
  BY <1>1, AckFacts
<1>6. \A i \in DOMAIN queue[u] : /\ queue[u][i].into = "recent" => queue[u][i].message < m
                                 /\ queue[u][i].callback => m < queue[u][i].message
  BY <1>2 DEF StagesOK
<1> HIDE DEF m, n
<1>7. \A i \in DOMAIN queue'[u] :
        \/ i \in DOMAIN queue[u] /\ queue'[u][i] = queue[u][i]
        \/ /\ i = n + 1 \/ i = n + 2
           /\ queue'[u][i].into = "recent" /\ queue'[u][i].message = m /\ ~queue'[u][i].callback
  BY <1>4, <1>5
<1>8. ASSUME NEW i \in DOMAIN queue'[u], NEW j \in DOMAIN queue'[u]
      PROVE  /\ i < j /\ queue'[u][i].into = "recent" /\ queue'[u][j].into = "recent"
                  /\ queue'[u][i].of = queue'[u][j].of => queue'[u][i].message < queue'[u][j].message
             /\ i < j /\ queue'[u][i].callback /\ queue'[u][j].callback
                  => queue'[u][i].message < queue'[u][j].message
             /\ queue'[u][i].into = "recent" /\ queue'[u][j].callback
                  => queue'[u][i].message < queue'[u][j].message
  <2>1. CASE i \in DOMAIN queue[u] /\ queue'[u][i] = queue[u][i] /\ j \in DOMAIN queue[u] /\ queue'[u][j] = queue[u][j]
    BY <2>1 DEF StagesOK
  <2>2. CASE /\ i \in DOMAIN queue[u] /\ queue'[u][i] = queue[u][i]
             /\ queue'[u][j].message = m /\ ~queue'[u][j].callback
    BY <1>6, <2>2
  <2>3. CASE /\ i = n + 1 \/ i = n + 2
             /\ queue'[u][i].into = "recent" /\ queue'[u][i].message = m /\ ~queue'[u][i].callback
    <3>1. i < j => i = n + 1 /\ j = n + 2
      BY <1>3, <1>5, <2>3
    <3>2. i < j => queue'[u][i].of # queue'[u][j].of
      BY <1>4, <3>1, PeerFacts
    <3>3. queue'[u][j].callback => j \in DOMAIN queue[u] /\ queue'[u][j] = queue[u][j]
      BY <1>7
    <3> QED BY <1>6, <2>3, <3>2, <3>3
  <2> QED BY <1>7, <2>1, <2>2, <2>3
<1>9. ASSUME NEW k \in DOMAIN acks'[u]
      PROVE  /\ m < acks'[u][k]
             /\ \A l \in DOMAIN acks'[u] : k < l => acks'[u][k] < acks'[u][l]
             /\ \A i \in DOMAIN queue[u] :
                  /\ queue[u][i].into = "recent" => queue[u][i].message < acks'[u][k]
                  /\ queue[u][i].callback => acks'[u][k] < queue[u][i].message
  <2>1. \A l \in DOMAIN acks'[u] : k < l => k + 1 < l + 1
    BY <1>2
  <2> QED BY <1>2, <2>1 DEF StagesOK, m
<1>10. ASSUME NEW k \in DOMAIN acks'[u], NEW i \in DOMAIN queue'[u]
       PROVE  /\ queue'[u][i].into = "recent" => queue'[u][i].message < acks'[u][k]
              /\ queue'[u][i].callback => acks'[u][k] < queue'[u][i].message
  BY <1>7, <1>9
<1> QED BY <1>8, <1>9, <1>10 DEF StagesOK

(* Nothing in the pipeline of a dead app is called back for; a recent      *)
(* message it was writing is newer than those that wait.                   *)
LEMMA StagesCut ==
  ASSUME LoggedInv, NEW u \in Users, StagesOK(u), CrashWhileSending(u) \/ CrashWhileAcknowledging(u)
  PROVE  StagesOK(u)'
<1> DEFINE n == Len(queue[u])
<1>1. TypeOK
  BY DEF LoggedInv
<1>2. PICK x \in Write :
        /\ Dies(u, Append(queue[u], x))
        /\ x.into = "recent" => \A i \in DOMAIN queue[u] : queue[u][i].into = "recent" => queue[u][i].message < x.message
  <2>1. CASE CrashWhileSending(u)
    <3>1. PICK x \in Write : x.into = "log" /\ Dies(u, Append(queue[u], x))
      BY <1>1, <2>1, CutSendFacts
    <3>2. x.into # "recent"
      BY <3>1
    <3> QED BY <3>1, <3>2
  <2>2. CASE CrashWhileAcknowledging(u)
    <3>1. PICK x \in Write : 1 \in DOMAIN acks[u] /\ x.message = acks[u][1] /\ Dies(u, Append(queue[u], x))
      BY <1>1, <2>2, CutAckFacts
    <3>2. \A i \in DOMAIN queue[u] : queue[u][i].into = "recent" => queue[u][i].message < acks[u][1]
      BY <3>1 DEF StagesOK
    <3> QED BY <3>1, <3>2
  <2> QED BY <2>1, <2>2
<1>3. /\ \A i \in DOMAIN queue[u] : /\ i < n + 1
                                    /\ queue'[u][i].into = queue[u][i].into
                                    /\ queue'[u][i].of = queue[u][i].of
                                    /\ queue'[u][i].message = queue[u][i].message
      /\ \A i \in DOMAIN queue'[u] : /\ queue'[u][i].callback = FALSE
                                     /\ i \in DOMAIN queue[u] \/ i = n + 1
  BY <1>1, <1>2, HandedFacts
<1>4. /\ queue'[u][n + 1].into = x.into /\ queue'[u][n + 1].message = x.message
      /\ acks'[u] = <<>> /\ n \in Nat /\ \A i \in DOMAIN queue[u] : i \in Nat
  BY <1>1, <1>2, HandedFacts
<1> HIDE DEF n
<1>5. ASSUME NEW i \in DOMAIN queue'[u], NEW j \in DOMAIN queue'[u], i < j,
             queue'[u][i].into = "recent", queue'[u][j].into = "recent", queue'[u][i].of = queue'[u][j].of
      PROVE  queue'[u][i].message < queue'[u][j].message
  <2>1. i \in DOMAIN queue[u]
    BY <1>3, <1>4, <1>5
  <2>2. CASE j \in DOMAIN queue[u]
    BY <1>3, <1>5, <2>1, <2>2 DEF StagesOK
  <2>3. CASE j = n + 1
    <3>1. x.into = "recent" /\ queue[u][i].into = "recent"
      BY <1>3, <1>4, <1>5, <2>1, <2>3
    <3>2. queue[u][i].message < x.message
      BY <1>2, <2>1, <3>1
    <3> QED BY <1>3, <1>4, <2>1, <2>3, <3>2
  <2> QED BY <1>3, <2>2, <2>3
<1>6. DOMAIN acks'[u] = {}
  BY <1>4
<1> QED BY <1>3, <1>5, <1>6 DEF StagesOK

LEMMA StagesStep ==
  ASSUME LoggedInv, \A u \in Users : StagesOK(u), [Next]_vars
  PROVE  \A u \in Users : StagesOK(u)'
<1>1. TypeOK
  BY DEF LoggedInv
<1> TAKE v \in Users
<1> USE StagesFrame
<1>2. ASSUME NEW u \in Users, Send(u) PROVE StagesOK(v)'
  <2>1. v # u => queue'[v] = queue[v] /\ acks' = acks
    BY <1>1, <1>2, SendFacts DEF Send
  <2> QED BY <1>2, <2>1, StagesSend
<1>3. ASSUME NEW u \in Users, Commit(u) \/ Reject(u) PROVE StagesOK(v)'
  <2>1. v # u => queue'[v] = queue[v] /\ acks'[v] = acks[v]
    <3>1. v # u => queue'[v] = queue[v]
      BY <1>1, <1>3, AnsweredFacts
    <3>2. v # u => acks'[v] = acks[v]
      BY <1>1, <1>3, CommitAcks DEF Reject
    <3> QED BY <3>1, <3>2
  <2> QED BY <1>3, <2>1, StagesAnswered
<1>4. ASSUME NEW u \in Users, Acknowledged(u) PROVE StagesOK(v)'
  <2>1. v # u => queue'[v] = queue[v] /\ acks'[v] = acks[v]
    BY <1>1, <1>4, AckFacts
  <2> QED BY <1>4, <2>1, StagesAcknowledged
<1>5. ASSUME NEW u \in Users, Crash(u) PROVE StagesOK(v)'
  <2>1. CASE v = u
    <3>1. DOMAIN acks'[u] = {}
      <4>1. acks'[u] = <<>>
        BY <1>1, <1>5, CrashFacts
      <4> QED BY <4>1
    <3>2. \A i \in DOMAIN queue'[u] : /\ i \in DOMAIN queue[u]
                                      /\ queue'[u][i].into = queue[u][i].into
                                      /\ queue'[u][i].of = queue[u][i].of
                                      /\ queue'[u][i].message = queue[u][i].message
                                      /\ queue'[u][i].callback => queue[u][i].callback
      BY <1>1, <1>5, CrashFacts
    <3> QED BY <2>1, <3>1, <3>2
  <2>2. CASE v # u
    <3>1. queue'[v] = queue[v] /\ acks'[v] = acks[v]
      BY <1>1, <1>5, <2>2, CrashFacts
    <3> QED BY <3>1
  <2> QED BY <2>1, <2>2
<1>8. ASSUME NEW u \in Users, CrashWhileSending(u) \/ CrashWhileAcknowledging(u) PROVE StagesOK(v)'
  <2>1. CASE v = u
    BY <1>8, <2>1, StagesCut
  <2>2. CASE v # u
    <3>1. PICK x \in Write : Dies(u, Append(queue[u], x))
      BY <1>1, <1>8, CutSendFacts, CutAckFacts
    <3>2. queue'[v] = queue[v] /\ acks'[v] = acks[v]
      BY <1>1, <2>2, <3>1, HandedFacts
    <3> QED BY <3>2
  <2> QED BY <2>1, <2>2
<1>6. ASSUME NEW u \in Users, Type(u) \/ Open(u) \/ Snapshot(u) PROVE StagesOK(v)'
  <2>1. queue' = queue /\ acks' = acks
    BY <1>6 DEF Type, Open, Snapshot
  <2> QED BY <2>1
<1>7. CASE UNCHANGED vars
  BY <1>7 DEF vars
<1> QED BY <1>2, <1>3, <1>4, <1>5, <1>6, <1>7, <1>8 DEF Next
(* All that is sent is u's, so all that is written is.                     *)
LEMMA OneWriter ==
  ASSUME LoggedInv, NEW u \in Users, \A m \in DOMAIN sent : sent[m] = u, NEW v \in Users, v # u
  PROVE  queue[v] = <<>> /\ acks[v] = <<>>
<1>1. TypeOK /\ OwnOK
  BY DEF LoggedInv
<1>2. DOMAIN queue[v] = {}
  BY <1>1 DEF OwnOK
<1>3. DOMAIN acks[v] = {}
  BY <1>1 DEF OwnOK
<1>4. queue[v] \in Seq(Write) /\ acks[v] \in Seq(Message)
  BY <1>1 DEF TypeOK
<1> QED BY <1>2, <1>3, <1>4

LEMMA NewestSend ==
  ASSUME LoggedInv, NEW u \in Users, NEW w \in Users, NewestOK(u, w), Send(u)
  PROVE  NewestOK(u, w)'
<1> DEFINE m == Len(sent) + 1
           n == Len(queue[u])
<1>1. TypeOK /\ OwnOK /\ RecentsOK /\ acks' = acks /\ recents' = recents
  BY DEF LoggedInv, Send, serverVars
<1>2. (\A c \in DOMAIN sent : c < m) /\ m \in Nat /\ 0 < m /\ Len(sent') = m
  <2>1. (\A c \in DOMAIN sent : c < m) /\ Len(sent') = m
    BY <1>1, SendFacts
  <2>2. Len(sent) \in Nat
    BY <1>1, TypeFacts
  <2> QED BY <2>1, <2>2
<1>3. /\ n + 1 \in DOMAIN queue'[u]
      /\ queue'[u][n + 1] = [into |-> "log", of |-> u, message |-> m, callback |-> TRUE]
      /\ n + 2 \in DOMAIN queue'[u]
      /\ queue'[u][n + 2] = [into |-> "log", of |-> Peer(u), message |-> m, callback |-> FALSE]
  BY <1>1, SendFacts
<1>4. \A i \in DOMAIN queue'[u] : \/ i \in DOMAIN queue[u] /\ queue'[u][i] = queue[u][i]
                                  \/ i = n + 1 \/ i = n + 2
  BY <1>1, SendFacts
<1> HIDE DEF n
<1>5. recents[w] < m
  <2>1. recents[w] = 0 \/ recents[w] \in Message
    BY <1>1, ChatAssumption DEF TypeOK, Message
  <2> QED BY <1>1, <1>2, <2>1 DEF RecentsOK
<1>6. ASSUME NEW i \in DOMAIN queue'[u],
             (queue'[u][i].into = "recent" /\ queue'[u][i].of = w) \/ queue'[u][i].callback
      PROVE  recents[w] < queue'[u][i].message
  <2>1. CASE i \in DOMAIN queue[u] /\ queue'[u][i] = queue[u][i]
    BY <1>6, <2>1 DEF NewestOK
  <2>2. CASE i = n + 1 \/ i = n + 2
    <3>1. queue'[u][i].message = m
      BY <1>3, <2>2
    <3> QED BY <1>5, <3>1
  <2> QED BY <1>4, <2>1, <2>2
<1>7. \A k \in DOMAIN acks[u] : recents[w] < acks[u][k]
  BY DEF NewestOK
<1>8. queue'[u][n + 1].message = m /\ queue'[u][n + 1].callback
  BY <1>3
<1> QED BY <1>1, <1>2, <1>3, <1>6, <1>7, <1>8 DEF NewestOK

LEMMA NewestCommit ==
  ASSUME LoggedInv, NEW u \in Users, NEW w \in Users, StagesOK(u), NewestOK(u, w), Commit(u)
  PROVE  NewestOK(u, w)'
<1> DEFINE h == queue[u][1]
<1>1. TypeOK /\ OwnOK /\ sent' = sent
  BY CommitFrame DEF LoggedInv
<1>2. /\ 1 \in DOMAIN queue[u]
      /\ \A i \in DOMAIN queue'[u] : i \in Nat /\ 1 < i + 1 /\ i + 1 \in DOMAIN queue[u] /\ queue'[u][i] = queue[u][i + 1]
      /\ \A i \in DOMAIN queue[u] : i = 1 \/ (i - 1 \in DOMAIN queue'[u] /\ queue'[u][i - 1] = queue[u][i])
  BY <1>1, AnsweredFacts
<1>3. h.message \in Message /\ acks[u] \in Seq(Message) /\ h.into \in {"log", "recent"}
  BY <1>1, <1>2, TypeFacts, WriteFacts
<1>4. h.callback => h.into = "log"
  BY <1>1, <1>2 DEF OwnOK
<1>5. recents'[w] = IF h.into = "recent" /\ h.of = w THEN h.message ELSE recents[w]
  BY <1>1, CommitRecents
<1>6. acks'[u] = IF h.callback THEN Append(acks[u], h.message) ELSE acks[u]
  BY <1>1, CommitAcks
<1>7. /\ h.callback => /\ \A k \in DOMAIN acks'[u] : \/ k \in DOMAIN acks[u] /\ acks'[u][k] = acks[u][k]
                                                     \/ acks'[u][k] = h.message
                       /\ \E k \in DOMAIN acks'[u] : acks'[u][k] = h.message
      /\ ~h.callback => acks'[u] = acks[u]
      /\ \A k \in DOMAIN acks[u] : k \in DOMAIN acks'[u] /\ acks'[u][k] = acks[u][k]
  <2>1. CASE h.callback
    <3>1. acks'[u] = Append(acks[u], h.message)
      BY <1>6, <2>1
    <3> QED BY <1>3, <2>1, <3>1, AppendFacts
  <2>2. CASE ~h.callback
    BY <1>6, <2>2
  <2> QED BY <2>1, <2>2
<1> HIDE DEF h
<1>8. CASE h.into = "recent" /\ h.of = w
  <2>1. recents'[w] = h.message /\ ~h.callback /\ acks'[u] = acks[u]
    BY <1>4, <1>5, <1>7, <1>8
  <2>2. ASSUME NEW i \in DOMAIN queue'[u],
               (queue'[u][i].into = "recent" /\ queue'[u][i].of = w) \/ queue'[u][i].callback
        PROVE  h.message < queue'[u][i].message
    BY <1>2, <1>8, <2>2 DEF StagesOK, h
  <2>3. \A k \in DOMAIN acks[u] : h.message < acks[u][k]
    BY <1>2, <1>8 DEF StagesOK, h
  <2>4. \/ h.message = Len(sent)
        \/ \E k \in DOMAIN acks[u] : acks[u][k] = Len(sent)
        \/ \E i \in DOMAIN queue'[u] :
             /\ queue'[u][i].message = Len(sent)
             /\ (queue'[u][i].into = "recent" /\ queue'[u][i].of = w) \/ queue'[u][i].callback
    <3>1. CASE recents[w] = Len(sent)
      <4>1. Len(sent) < h.message
        BY <1>2, <1>8, <3>1 DEF NewestOK, h
      <4>2. h.message \in DOMAIN sent
        BY <1>1, <1>2 DEF OwnOK, h
      <4>3. h.message <= Len(sent) /\ h.message \in Nat /\ Len(sent) \in Nat
        BY <1>1, <4>2, TypeFacts
      <4> QED BY <4>1, <4>3
    <3>2. ASSUME NEW i \in DOMAIN queue[u], queue[u][i].message = Len(sent),
                 (queue[u][i].into = "recent" /\ queue[u][i].of = w) \/ queue[u][i].callback
          PROVE  \/ h.message = Len(sent)
                 \/ \E j \in DOMAIN queue'[u] :
                      /\ queue'[u][j].message = Len(sent)
                      /\ (queue'[u][j].into = "recent" /\ queue'[u][j].of = w) \/ queue'[u][j].callback
      BY <1>2, <3>2 DEF h
    <3> QED BY <3>1, <3>2 DEF NewestOK
  <2> QED BY <1>1, <2>1, <2>2, <2>3, <2>4 DEF NewestOK
<1>9. CASE ~(h.into = "recent" /\ h.of = w)
  <2>1. recents'[w] = recents[w]
    BY <1>5, <1>9
  <2>2. ASSUME NEW i \in DOMAIN queue'[u],
               (queue'[u][i].into = "recent" /\ queue'[u][i].of = w) \/ queue'[u][i].callback
        PROVE  recents[w] < queue'[u][i].message
    BY <1>2, <2>2 DEF NewestOK
  <2>3. \A k \in DOMAIN acks'[u] : recents[w] < acks'[u][k]
    <3>1. h.callback => recents[w] < h.message
      BY <1>2 DEF NewestOK, h
    <3> QED BY <1>7, <3>1 DEF NewestOK
  <2>4. \/ recents[w] = Len(sent)
        \/ \E k \in DOMAIN acks'[u] : acks'[u][k] = Len(sent)
        \/ \E i \in DOMAIN queue'[u] :
             /\ queue'[u][i].message = Len(sent)
             /\ (queue'[u][i].into = "recent" /\ queue'[u][i].of = w) \/ queue'[u][i].callback
    <3>1. CASE \E k \in DOMAIN acks[u] : acks[u][k] = Len(sent)
      BY <1>7, <3>1
    <3>2. ASSUME NEW i \in DOMAIN queue[u], queue[u][i].message = Len(sent),
                 (queue[u][i].into = "recent" /\ queue[u][i].of = w) \/ queue[u][i].callback
          PROVE  \/ \E k \in DOMAIN acks'[u] : acks'[u][k] = Len(sent)
                 \/ \E j \in DOMAIN queue'[u] :
                      /\ queue'[u][j].message = Len(sent)
                      /\ (queue'[u][j].into = "recent" /\ queue'[u][j].of = w) \/ queue'[u][j].callback
      <4>1. CASE i = 1
        <5>1. h.callback /\ h.message = Len(sent)
          BY <1>9, <3>2, <4>1 DEF h
        <5> QED BY <1>7, <5>1
      <4>2. CASE i # 1
        BY <1>2, <3>2, <4>2
      <4> QED BY <4>1, <4>2
    <3> QED BY <3>1, <3>2 DEF NewestOK
  <2> QED BY <1>1, <2>1, <2>2, <2>3, <2>4 DEF NewestOK
<1> QED BY <1>8, <1>9

LEMMA NewestAcknowledged ==
  ASSUME LoggedInv, NEW u \in Users, NEW w \in Users, StagesOK(u), NewestOK(u, w), Acknowledged(u)
  PROVE  NewestOK(u, w)'
<1> DEFINE m == acks[u][1]
           n == Len(queue[u])
<1>1. TypeOK /\ sent' = sent /\ recents' = recents
  BY DEF LoggedInv, Acknowledged, serverVars
<1>2. /\ 1 \in DOMAIN acks[u] /\ Head(acks[u]) = m
      /\ \A k \in DOMAIN acks'[u] : k + 1 \in DOMAIN acks[u] /\ acks'[u][k] = acks[u][k + 1]
      /\ \A k \in DOMAIN acks[u] : k = 1 \/ (k - 1 \in DOMAIN acks'[u] /\ acks'[u][k - 1] = acks[u][k])
  BY <1>1, AckFacts
<1>3. /\ n + 1 \in DOMAIN queue'[u]
      /\ queue'[u][n + 1] = [into |-> "recent", of |-> u, message |-> m, callback |-> FALSE]
      /\ n + 2 \in DOMAIN queue'[u]
      /\ queue'[u][n + 2] = [into |-> "recent", of |-> Peer(u), message |-> m, callback |-> FALSE]
  BY <1>1, <1>2, AckFacts
<1>4. /\ \A i \in DOMAIN queue'[u] : \/ i \in DOMAIN queue[u] /\ queue'[u][i] = queue[u][i]
                                     \/ i = n + 1 \/ i = n + 2
      /\ \A i \in DOMAIN queue[u] : i \in DOMAIN queue'[u] /\ queue'[u][i] = queue[u][i]
  BY <1>1, AckFacts
<1>5. recents[w] < m
  BY <1>2 DEF NewestOK
<1> HIDE DEF n, m
<1>6. ASSUME NEW i \in DOMAIN queue'[u],
             (queue'[u][i].into = "recent" /\ queue'[u][i].of = w) \/ queue'[u][i].callback
      PROVE  recents[w] < queue'[u][i].message
  <2>1. CASE i \in DOMAIN queue[u] /\ queue'[u][i] = queue[u][i]
    BY <1>6, <2>1 DEF NewestOK
  <2>2. CASE i = n + 1 \/ i = n + 2
    <3>1. queue'[u][i].message = m
      BY <1>3, <2>2
    <3> QED BY <1>5, <3>1
  <2> QED BY <1>4, <2>1, <2>2
<1>7. \A k \in DOMAIN acks'[u] : recents[w] < acks'[u][k]
  BY <1>2 DEF NewestOK
<1>8. \E i \in DOMAIN queue'[u] :
        queue'[u][i].message = m /\ queue'[u][i].into = "recent" /\ queue'[u][i].of = w
  <2>1. /\ queue'[u][n + 1].message = m /\ queue'[u][n + 1].into = "recent" /\ queue'[u][n + 1].of = u
        /\ queue'[u][n + 2].message = m /\ queue'[u][n + 2].into = "recent" /\ queue'[u][n + 2].of = Peer(u)
    BY <1>3
  <2> QED BY <1>3, <2>1, PeerFacts
<1>9. \/ recents[w] = Len(sent)
      \/ \E k \in DOMAIN acks'[u] : acks'[u][k] = Len(sent)
      \/ \E i \in DOMAIN queue'[u] :
           /\ queue'[u][i].message = Len(sent)
           /\ (queue'[u][i].into = "recent" /\ queue'[u][i].of = w) \/ queue'[u][i].callback
  <2>1. ASSUME NEW k \in DOMAIN acks[u], acks[u][k] = Len(sent)
        PROVE  \/ \E l \in DOMAIN acks'[u] : acks'[u][l] = Len(sent)
               \/ \E i \in DOMAIN queue'[u] :
                    /\ queue'[u][i].message = Len(sent)
                    /\ queue'[u][i].into = "recent" /\ queue'[u][i].of = w
    BY <1>2, <1>8, <2>1 DEF m
  <2>2. ASSUME NEW i \in DOMAIN queue[u], queue[u][i].message = Len(sent),
               (queue[u][i].into = "recent" /\ queue[u][i].of = w) \/ queue[u][i].callback
        PROVE  \E j \in DOMAIN queue'[u] :
                 /\ queue'[u][j].message = Len(sent)
                 /\ (queue'[u][j].into = "recent" /\ queue'[u][j].of = w) \/ queue'[u][j].callback
    BY <1>4, <2>2
  <2> QED BY <2>1, <2>2 DEF NewestOK
<1> QED BY <1>1, <1>6, <1>7, <1>9 DEF NewestOK

LEMMA OneSidedStep ==
  ASSUME OneSidedInv, [Next]_vars
  PROVE  OneSidedInv'
<1>1. LoggedInv /\ TypeOK /\ (\A u \in Users : StagesOK(u)) /\ LoggedInv' /\ (\A u \in Users : StagesOK(u)')
  BY LoggedStep, StagesStep DEF OneSidedInv, LoggedInv
<1> SUFFICES ASSUME NEW u \in Users, NEW w \in Users, Calm', \A m \in DOMAIN sent' : sent'[m] = u
             PROVE  NewestOK(u, w)'
  BY <1>1 DEF OneSidedInv
<1>2. ASSUME Calm, \A m \in DOMAIN sent : sent[m] = u PROVE NewestOK(u, w)
  BY <1>2 DEF OneSidedInv
<1>3. ASSUME NEW v \in Users, Send(v) PROVE NewestOK(u, w)'
  <2>1. /\ DOMAIN sent \subseteq DOMAIN sent' /\ \A m \in DOMAIN sent : sent'[m] = sent[m]
        /\ Len(sent) + 1 \in DOMAIN sent' /\ sent'[Len(sent) + 1] = v
    BY <1>1, <1>3, SendFacts
  <2>2. v = u /\ Calm /\ \A m \in DOMAIN sent : sent[m] = u
    BY <1>3, <2>1 DEF Calm, Send
  <2> QED BY <1>1, <1>2, <1>3, <2>2, NewestSend
<1>4. ASSUME NEW v \in Users, Commit(v) PROVE NewestOK(u, w)'
  <2>1. Calm /\ \A m \in DOMAIN sent : sent[m] = u
    BY <1>1, <1>4, CommitFrame DEF Calm
  <2>2. v = u
    BY <1>1, <1>4, <2>1, OneWriter DEF Commit
  <2> QED BY <1>1, <1>2, <1>4, <2>1, <2>2, NewestCommit
<1>5. ASSUME NEW v \in Users, Reject(v) PROVE NewestOK(u, w)'
  BY <1>5 DEF Calm, Reject
<1>6. ASSUME NEW v \in Users, Acknowledged(v) PROVE NewestOK(u, w)'
  <2>1. Calm /\ \A m \in DOMAIN sent : sent[m] = u
    BY <1>6 DEF Calm, Acknowledged
  <2>2. v = u
    BY <1>1, <1>6, <2>1, OneWriter DEF Acknowledged
  <2> QED BY <1>1, <1>2, <1>6, <2>1, <2>2, NewestAcknowledged
<1>7. ASSUME NEW v \in Users, Crash(v) \/ CrashWhileSending(v) \/ CrashWhileAcknowledging(v)
      PROVE  NewestOK(u, w)'
  <2>1. crashes' # 0
    <3>1. crashes' = crashes + 1
      BY <1>7, Zenon DEF Crash, CrashWhileSending, CrashWhileAcknowledging, Dies
    <3>2. crashes \in Nat
      BY <1>1, ChatAssumption DEF TypeOK
    <3> QED BY <3>1, <3>2
  <2> QED BY <2>1 DEF Calm
<1>8. ASSUME UNCHANGED <<sent, queue, acks, recents, refused, crashes>> PROVE NewestOK(u, w)'
  BY <1>2, <1>8 DEF Calm, NewestOK
<1>9. ASSUME NEW v \in Users, Type(v) \/ Open(v) \/ Snapshot(v) PROVE NewestOK(u, w)'
  BY <1>8, <1>9 DEF Type, Open, Snapshot, serverVars
<1>10. CASE UNCHANGED vars
  BY <1>8, <1>10 DEF vars
<1> QED BY <1>3, <1>4, <1>5, <1>6, <1>7, <1>9, <1>10 DEF Next

LEMMA OneSidedInit == Init => OneSidedInv
<1> SUFFICES ASSUME Init PROVE OneSidedInv
  OBVIOUS
<1>1. LoggedInv /\ \A u \in Users : StagesOK(u)
  BY TypeInit, LoggedInit, StagesInit DEF LoggedInv
<1>2. ASSUME NEW u \in Users, NEW w \in Users PROVE NewestOK(u, w)
  <2>1. DOMAIN queue[u] = {} /\ DOMAIN acks[u] = {} /\ recents[w] = 0 /\ Len(sent) = 0
    BY DEF Init
  <2> QED BY <2>1 DEF NewestOK
<1> QED BY <1>1, <1>2 DEF OneSidedInv

(* The inductive invariant of the three writes of sendMessage while only   *)
(* one side sends: they reach the service in their order, and the newest   *)
(* recent message waits or is what both sides have.                        *)
THEOREM OneSidedInvariance == Spec => []OneSidedInv
<1> QED BY OneSidedInit, OneSidedStep, PTL DEF Spec

(* While only one side writes, nothing is refused and no app dies, the     *)
(* recent message of both users is the latest of the log once all is       *)
(* written, however often the same text is sent before its callback.       *)
THEOREM OneSidedRecentsTheorem == Spec => []OneSidedRecents
<1>1. OneSidedInv => OneSidedRecents
  <2> SUFFICES ASSUME OneSidedInv,
                      \A u \in Users : queue[u] = <<>> /\ acks[u] = <<>>, refused = {}, crashes = 0,
                      \A i, j \in DOMAIN sent : sent[i] = sent[j],
                      NEW w \in Users
               PROVE  recents[w] = Len(sent)
    BY DEF OneSidedRecents
  <2>1. TypeOK
    BY DEF OneSidedInv, LoggedInv
  <2>2. \E u \in Users : \A m \in DOMAIN sent : sent[m] = u
    <3>1. CASE DOMAIN sent = {}
      BY <3>1
    <3>2. CASE DOMAIN sent # {}
      <4>1. PICK i \in DOMAIN sent : TRUE
        BY <3>2
      <4>2. sent[i] \in Users
        BY <2>1 DEF TypeOK
      <4> QED BY <4>2
    <3> QED BY <3>1, <3>2
  <2>3. PICK u \in Users : \A m \in DOMAIN sent : sent[m] = u
    BY <2>2
  <2>4. NewestOK(u, w)
    BY <2>3 DEF OneSidedInv, Calm
  <2>5. DOMAIN queue[u] = {} /\ DOMAIN acks[u] = {}
    OBVIOUS
  <2> QED BY <2>4, <2>5 DEF NewestOK
<1> QED BY <1>1, OneSidedInvariance, PTL
=============================================================================
