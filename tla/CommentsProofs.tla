--------------------------- MODULE CommentsProofs ---------------------------
(***************************************************************************)
(* Proofs about Comments, for every number of users, comments, refusals    *)
(* and crashes.                                                            *)
(***************************************************************************)
EXTENDS Comments, FiniteSetTheorems, SequenceTheorems, TLAPS

-----------------------------------------------------------------------------
(* A pipeline, split into its oldest write and the rest.                   *)
LEMMA TailFacts ==
  ASSUME NEW S, NEW s \in Seq(S), s # <<>>
  PROVE  /\ Head(s) \in S
         /\ Tail(s) \in Seq(S)
         /\ 1 \in DOMAIN s
         /\ Head(s) = s[1]
         /\ \A i \in DOMAIN Tail(s) : i + 1 \in DOMAIN s /\ Tail(s)[i] = s[i + 1]
         /\ Range(s) = {Head(s)} \union Range(Tail(s))
<1>1. /\ Head(s) \in S
      /\ Tail(s) \in Seq(S)
      /\ 1 \in DOMAIN s
      /\ Head(s) = s[1]
      /\ \A i \in DOMAIN Tail(s) : i + 1 \in DOMAIN s /\ Tail(s)[i] = s[i + 1]
  OBVIOUS
<1>2. \A i \in DOMAIN s : i = 1 \/ (i - 1 \in DOMAIN Tail(s) /\ Tail(s)[i - 1] = s[i])
  OBVIOUS
<1>3. Range(s) \subseteq {Head(s)} \union Range(Tail(s))
  BY <1>1, <1>2 DEF Range
<1>4. {Head(s)} \union Range(Tail(s)) \subseteq Range(s)
  BY <1>1 DEF Range
<1> QED BY <1>1, <1>3, <1>4

(* A pipeline with one more write.                                         *)
LEMMA AppendFacts ==
  ASSUME NEW S, NEW s \in Seq(S), NEW e \in S
  PROVE  /\ Append(s, e) \in Seq(S)
         /\ \A i \in DOMAIN Append(s, e) :
              \/ i \in DOMAIN s /\ Append(s, e)[i] = s[i]
              \/ i = Len(s) + 1 /\ Append(s, e)[i] = e
         /\ \A i \in DOMAIN s : i \in DOMAIN Append(s, e) /\ Append(s, e)[i] = s[i] /\ i < Len(s) + 1
         /\ Range(Append(s, e)) = Range(s) \union {e}
<1>1. /\ Append(s, e) \in Seq(S)
      /\ \A i \in DOMAIN Append(s, e) :
           \/ i \in DOMAIN s /\ Append(s, e)[i] = s[i]
           \/ i = Len(s) + 1 /\ Append(s, e)[i] = e
      /\ \A i \in DOMAIN s : i \in DOMAIN Append(s, e) /\ Append(s, e)[i] = s[i] /\ i < Len(s) + 1
      /\ Len(s) + 1 \in DOMAIN Append(s, e) /\ Append(s, e)[Len(s) + 1] = e
  OBVIOUS
<1>2. Range(Append(s, e)) \subseteq Range(s) \union {e}
  BY <1>1 DEF Range
<1>3. Range(s) \union {e} \subseteq Range(Append(s, e))
  BY <1>1 DEF Range
<1> QED BY <1>1, <1>2, <1>3

(* Two lists, one after the other.                                         *)
LEMMA ConcatFacts ==
  ASSUME NEW S, NEW s \in Seq(S), NEW t \in Seq(S)
  PROVE  /\ s \o t \in Seq(S)
         /\ \A i \in DOMAIN (s \o t) :
              \/ i \in DOMAIN s /\ (s \o t)[i] = s[i]
              \/ /\ i - Len(s) \in DOMAIN t /\ (s \o t)[i] = t[i - Len(s)]
                 /\ \A j \in DOMAIN s : j < i
OBVIOUS

LEMMA SeqMonotone ==
  ASSUME NEW S, NEW T, S \subseteq T, NEW s \in Seq(S)
  PROVE  s \in Seq(T)
OBVIOUS

(* The two closures of loadComment amount to one append.                   *)
LEMMA ListGrows ==
  ASSUME NEW S, NEW list \in Seq(S), NEW added \in Seq(S)
  PROVE  onSuccess(newComment(list, added), added) = list \o added
<1>1. CASE list = <<>>
  BY <1>1 DEF onSuccess, newComment
<1>2. CASE list # <<>>
  <2>1. list \o added # <<>>
    BY <1>2
  <2> QED BY <1>2, <2>1 DEF onSuccess, newComment
<1> QED BY <1>1, <1>2

LEMMA CommentSet == TypeOK => Comment = 1 .. Len(author) /\ Len(author) \in Nat
BY DEF TypeOK, Comment

(* The query yields dated comments; finitely many are still to be reported. *)
LEMMA LocalType == TypeOK => Local \subseteq Comment /\ IsFiniteSet(Local \ seen)
<1> SUFFICES ASSUME TypeOK PROVE Local \subseteq Comment /\ IsFiniteSet(Local \ seen)
  OBVIOUS
<1>1. queue[Me] \in Seq(Comment)
  BY CommentsAssumption DEF TypeOK
<1>2. Range(queue[Me]) \subseteq Comment
  BY <1>1 DEF Range
<1>3. Local \subseteq Comment
  BY <1>2 DEF Local, TypeOK
<1>4. IsFiniteSet(Comment)
  BY CommentSet, FS_Interval, TypeOK
<1> QED BY <1>3, <1>4, FS_Subset

LEMMA ListingType ==
  ASSUME NEW S, IsFiniteSet(S), NEW s \in SetToSeqs(S)
  PROVE  s \in Seq(S) /\ \A i \in DOMAIN s : s[i] \in S
<1>1. Cardinality(S) \in Nat
  BY FS_CardinalityType
<1>2. s \in [1 .. Cardinality(S) -> S]
  BY DEF SetToSeqs
<1> QED BY <1>1, <1>2

LEMMA AddedType ==
  ASSUME TypeOK, NEW s \in Added
  PROVE  s \in Seq(Comment) /\ \A i \in DOMAIN s : s[i] \in Local \ seen
<1>1. s \in Seq(Local \ seen) /\ \A i \in DOMAIN s : s[i] \in Local \ seen
  BY LocalType, ListingType DEF Added
<1>2. Local \ seen \subseteq Comment
  BY LocalType
<1> QED BY <1>1, <1>2, SeqMonotone

(* A comment gets its number.                                              *)
LEMMA NumberFacts ==
  ASSUME TypeOK, NEW u \in Users, author' = Append(author, u)
  PROVE  /\ author' \in Seq(Users)
         /\ Comment \subseteq Comment'
         /\ Len(author) + 1 \in Comment'
         /\ author'[Len(author) + 1] = u
         /\ \A c \in Comment : author'[c] = author[c] /\ c < Len(author) + 1
BY SMTT(30) DEF TypeOK, Comment

-----------------------------------------------------------------------------
(***************************************************************************)
(* Types.                                                                  *)
(***************************************************************************)
LEMMA TypeInit == Init => TypeOK
<1> SUFFICES ASSUME Init PROVE TypeOK
  OBVIOUS
<1>1. <<>> \in Seq(Comment) /\ {} \subseteq Comment
  OBVIOUS
<1>2. author \in Seq(Users) /\ comments \in Seq(Comment)
  BY <1>1 DEF Init
<1>3. queue \in [Users -> Seq(Comment)]
  BY <1>1 DEF Init
<1>4. typed \in Nat /\ lookups \in [Users -> Nat] /\ open \in BOOLEAN /\ crashes \in Nat
  BY DEF Init
<1>5. stored \subseteq Comment /\ seen \subseteq Comment /\ refused \subseteq Comment
  BY <1>1 DEF Init
<1> QED BY <1>2, <1>3, <1>4, <1>5 DEF TypeOK

LEMMA TypeNameFound == ASSUME TypeOK, NEW u \in Users, NameFound(u) PROVE TypeOK'
<1> USE DEF NameFound
<1>1. author' = Append(author, u)
  OBVIOUS
<1>2. author' \in Seq(Users) /\ Comment \subseteq Comment' /\ Len(author) + 1 \in Comment'
  BY <1>1, NumberFacts
<1>3. queue' \in [Users -> Seq(Comment')]
  <2>1. \A v \in Users : queue[v] \in Seq(Comment')
    BY <1>2, SeqMonotone DEF TypeOK
  <2>2. Append(queue[u], Len(author) + 1) \in Seq(Comment')
    BY <1>2, <2>1
  <2> QED BY <2>1, <2>2 DEF TypeOK
<1>4. lookups' \in [Users -> Nat]
  BY DEF TypeOK
<1>5. comments' \in Seq(Comment')
  BY <1>2, SeqMonotone DEF TypeOK, screenVars
<1>6. typed' \in Nat /\ open' \in BOOLEAN /\ crashes' \in Nat
  BY DEF TypeOK, screenVars, historyVars
<1>7. stored' \subseteq Comment' /\ seen' \subseteq Comment' /\ refused' \subseteq Comment'
  BY <1>2 DEF TypeOK, screenVars, historyVars
<1> QED BY <1>2, <1>3, <1>4, <1>5, <1>6, <1>7 DEF TypeOK

LEMMA TypeAnswered ==
  ASSUME TypeOK, NEW u \in Users, Commit(u) \/ Reject(u)
  PROVE  TypeOK'
<1>1. queue[u] \in Seq(Comment) /\ queue[u] # <<>>
  BY DEF TypeOK, Commit, Reject
<1>2. Head(queue[u]) \in Comment /\ Tail(queue[u]) \in Seq(Comment)
  BY <1>1, TailFacts
<1>3. author' = author /\ Comment' = Comment
  BY DEF Commit, Reject, Comment
<1>4. queue' \in [Users -> Seq(Comment')]
  BY <1>2, <1>3 DEF TypeOK, Commit, Reject
<1> QED BY <1>2, <1>3, <1>4 DEF TypeOK, Commit, Reject, screenVars, historyVars

LEMMA SnapshotList ==
  ASSUME TypeOK, Snapshot
  PROVE  \E added \in Added : added \in Seq(Comment) /\ comments' = comments \o added
<1>1. PICK added \in Added : comments' = onSuccess(newComment(comments, added), added)
  BY DEF Snapshot
<1>2. added \in Seq(Comment) /\ comments \in Seq(Comment)
  BY AddedType DEF TypeOK
<1>3. onSuccess(newComment(comments, added), added) = comments \o added
  BY <1>2, ListGrows
<1> QED BY <1>1, <1>2, <1>3

LEMMA TypeSnapshot == ASSUME TypeOK, Snapshot PROVE TypeOK'
<1>1. PICK added \in Added : added \in Seq(Comment) /\ comments' = comments \o added
  BY SnapshotList
<1>2. comments \in Seq(Comment)
  BY DEF TypeOK
<1>3. comments' \in Seq(Comment)
  BY <1>1, <1>2
<1>4. author' = author /\ Comment' = Comment /\ seen' \subseteq Comment
  BY LocalType DEF Snapshot, writeVars, Comment
<1> QED BY <1>3, <1>4 DEF TypeOK, Snapshot, writeVars, historyVars

(* The steps that leave the author of each comment and the writes alone.   *)
LEMMA TypeQuiet ==
  ASSUME TypeOK,
         \/ \E u \in Users : SendComment(u) \/ NameFails(u) \/ Crash(u)
         \/ Appear \/ Disappear \/ UNCHANGED vars
  PROVE  TypeOK'
<1>1. author' = author /\ Comment' = Comment
  BY DEF SendComment, NameFails, Crash, Appear, Disappear, vars, writeVars, Comment
<1>2. ASSUME NEW u \in Users, SendComment(u) PROVE TypeOK'
  BY <1>1, <1>2 DEF TypeOK, SendComment, screenVars, historyVars
<1>3. ASSUME NEW u \in Users, NameFails(u) PROVE TypeOK'
  BY <1>1, <1>3 DEF TypeOK, NameFails, screenVars, historyVars
<1>4. ASSUME NEW u \in Users, Crash(u) PROVE TypeOK'
  BY <1>1, <1>4 DEF TypeOK, Crash
<1>5. CASE Appear
  BY <1>1, <1>5 DEF TypeOK, Appear, writeVars, historyVars
<1>6. CASE Disappear
  BY <1>1, <1>6 DEF TypeOK, Disappear, writeVars, historyVars
<1>7. CASE UNCHANGED vars
  BY <1>1, <1>7 DEF TypeOK, vars
<1> QED BY <1>2, <1>3, <1>4, <1>5, <1>6, <1>7

LEMMA TypeStep == TypeOK /\ [Next]_vars => TypeOK'
BY TypeNameFound, TypeAnswered, TypeSnapshot, TypeQuiet DEF Next

(* Every variable keeps its type: what is queued, stored, listed and       *)
(* reported are comments that have been dated.                             *)
THEOREM CommentsTypeCorrectness == Spec => []TypeOK
<1> QED BY TypeInit, TypeStep, PTL DEF Spec

-----------------------------------------------------------------------------
(***************************************************************************)
(* The order of the list.                                                  *)
(***************************************************************************)
LEMMA OrderInit == Init => OrderInv
<1> SUFFICES ASSUME Init PROVE OrderInv
  OBVIOUS
<1>1. comments = <<>> /\ DOMAIN comments = {} /\ stored = {}
  BY DEF Init
<1>2. ASSUME NEW u \in Users PROVE QueueOK(u)
  <2>1. queue[u] = <<>> /\ DOMAIN queue[u] = {}
    BY DEF Init
  <2> QED BY <2>1 DEF QueueOK, Ascending
<1>3. ListOK /\ AuthorOrder
  BY <1>1 DEF ListOK, AuthorOrder
<1> QED BY <1>2, <1>3, TypeInit DEF OrderInv

(* A step that neither writes nor lists anything.                          *)
LEMMA OrderFrame ==
  ASSUME OrderInv, TypeOK', UNCHANGED <<author, queue, stored, comments, seen>>,
         open' => open
  PROVE  OrderInv'
BY DEF OrderInv, QueueOK, ListOK, AuthorOrder, Local

(* A step that empties the list and writes nothing.                        *)
LEMMA OrderEmptied ==
  ASSUME OrderInv, TypeOK', UNCHANGED <<author, queue, stored>>, comments' = <<>>
  PROVE  OrderInv'
<1>1. DOMAIN comments' = {}
  OBVIOUS
<1>2. ListOK' /\ AuthorOrder'
  BY <1>1 DEF ListOK, AuthorOrder
<1>3. \A u \in Users : QueueOK(u)'
  BY DEF OrderInv, QueueOK
<1> QED BY <1>2, <1>3 DEF OrderInv

(* The new comment has the highest number: it goes to the end of its       *)
(* author's pipeline, and is newer than all that is listed.                *)
LEMMA OrderNameFound ==
  ASSUME OrderInv, TypeOK', NEW u \in Users, NameFound(u)
  PROVE  OrderInv'
<1> DEFINE new == Len(author) + 1
<1>1. TypeOK /\ UNCHANGED <<stored, open, comments, seen>> /\ author' = Append(author, u)
  BY DEF OrderInv, NameFound, screenVars
<1>2. /\ author'[new] = u
      /\ \A c \in Comment : author'[c] = author[c] /\ c < new /\ c \in Nat
  BY <1>1, NumberFacts, CommentSet
<1>3. /\ \A v \in Users : queue[v] \in Seq(Comment) /\ (v # u => queue'[v] = queue[v])
      /\ queue'[u] = Append(queue[u], new)
  BY <1>1 DEF TypeOK, NameFound
<1>4. /\ \A v \in Users : \A i \in DOMAIN queue[v] : queue[v][i] \in Comment
      /\ \A i \in DOMAIN comments : comments[i] \in Comment
      /\ stored \subseteq Comment
  BY <1>1, <1>3 DEF TypeOK
<1>5. ASSUME NEW v \in Users, v # u PROVE QueueOK(v)'
  <2>1. QueueOK(v) /\ queue'[v] = queue[v]
    BY <1>3, <1>5 DEF OrderInv
  <2> QED BY <1>1, <1>2, <1>4, <2>1 DEF QueueOK
<1>6. QueueOK(u)'
  <2>1. QueueOK(u)
    BY DEF OrderInv
  <2>2. \A i \in DOMAIN queue'[u] :
          \/ i \in DOMAIN queue[u] /\ queue'[u][i] = queue[u][i]
          \/ i = Len(queue[u]) + 1 /\ queue'[u][i] = new
    BY <1>3
  <2>3. \A i \in DOMAIN queue[u] : i \in 1 .. Len(queue[u]) /\ Len(queue[u]) \in Nat
    BY <1>3
  <2>4. DOMAIN queue'[u] = 1 .. Len(queue[u]) + 1 /\ Len(queue[u]) \in Nat
    BY <1>3
  <2>5. Ascending(queue[u])'
    BY <1>2, <1>4, <2>1, <2>2, <2>3, <2>4 DEF QueueOK, Ascending
  <2>6. ASSUME NEW i \in DOMAIN queue'[u]
        PROVE  /\ author'[queue'[u][i]] = u
               /\ \A c \in stored' : author'[c] = u => c < queue'[u][i]
    <3>1. CASE i \in DOMAIN queue[u] /\ queue'[u][i] = queue[u][i]
      BY <1>1, <1>2, <1>4, <2>1, <3>1 DEF QueueOK
    <3>2. CASE queue'[u][i] = new
      BY <1>1, <1>2, <1>4, <3>2
    <3> QED BY <2>2, <3>1, <3>2
  <2> QED BY <2>5, <2>6 DEF QueueOK
<1>7. Local' \subseteq Local \union {new}
  <2>1. queue'[Me] = queue[Me] \/ queue'[Me] = Append(queue[Me], new)
    BY <1>3, CommentsAssumption
  <2>2. Range(queue'[Me]) \subseteq Range(queue[Me]) \union {new}
    <3>1. queue[Me] \in Seq(Nat) /\ new \in Nat
      BY <1>1, <1>2, <1>3, CommentSet, CommentsAssumption, SeqMonotone
    <3>2. CASE queue'[Me] = Append(queue[Me], new)
      <4>1. Range(Append(queue[Me], new)) = Range(queue[Me]) \union {new}
        BY <3>1, AppendFacts
      <4> QED BY <3>2, <4>1
    <3> QED BY <2>1, <3>2
  <2> QED BY <1>1, <2>2 DEF Local
<1>8. ListOK'
  <2> SUFFICES ASSUME NEW i \in DOMAIN comments
               PROVE  /\ author'[comments[i]] # Me => comments[i] \in stored
                      /\ \A c \in Local' \ seen :
                           author'[c] = author'[comments[i]] /\ open => comments[i] < c
    BY <1>1 DEF ListOK
  <2>1. comments[i] \in Comment /\ author'[comments[i]] = author[comments[i]]
    BY <1>2, <1>4
  <2>2. author'[comments[i]] # Me => comments[i] \in stored
    BY <2>1 DEF OrderInv, ListOK
  <2>3. ASSUME NEW c \in Local' \ seen, author'[c] = author'[comments[i]], open
        PROVE  comments[i] < c
    <3>1. CASE c = new
      BY <1>2, <2>1, <3>1
    <3>2. CASE c \in Local
      <4>1. c \in Comment
        BY <1>1, <3>2, LocalType
      <4> QED BY <1>2, <2>1, <2>3, <3>2, <4>1 DEF OrderInv, ListOK
    <3> QED BY <1>7, <2>3, <3>1, <3>2
  <2> QED BY <2>2, <2>3
<1>9. AuthorOrder'
  <2> SUFFICES ASSUME NEW i \in DOMAIN comments, NEW j \in DOMAIN comments,
                      i < j, author'[comments[i]] = author'[comments[j]]
               PROVE  comments[i] < comments[j]
    BY <1>1 DEF AuthorOrder
  <2>1. author[comments[i]] = author[comments[j]]
    BY <1>2, <1>4
  <2> QED BY <2>1 DEF OrderInv, AuthorOrder
<1> QED BY <1>5, <1>6, <1>8, <1>9 DEF OrderInv

(* The oldest write leaves its pipeline: what waits behind it is newer.    *)
LEMMA OrderAnswered ==
  ASSUME OrderInv, TypeOK', NEW u \in Users, Commit(u) \/ Reject(u)
  PROVE  OrderInv'
<1> DEFINE h == Head(queue[u])
<1>1. /\ TypeOK /\ queue[u] # <<>> /\ queue[u] \in Seq(Comment)
      /\ UNCHANGED <<author, open, comments, seen>>
      /\ queue' = [queue EXCEPT ![u] = Tail(queue[u])]
  BY DEF OrderInv, TypeOK, Commit, Reject, screenVars
<1>2. /\ h \in Comment
      /\ Tail(queue[u]) \in Seq(Comment)
      /\ 1 \in DOMAIN queue[u]
      /\ h = queue[u][1]
      /\ \A i \in DOMAIN Tail(queue[u]) :
           i + 1 \in DOMAIN queue[u] /\ Tail(queue[u])[i] = queue[u][i + 1]
      /\ Range(queue[u]) = {h} \union Range(Tail(queue[u]))
  BY <1>1, TailFacts
<1>3. /\ QueueOK(u)
      /\ author[h] = u
      /\ \A c \in stored : author[c] = u => c < h
  BY <1>2 DEF OrderInv, QueueOK
<1>4. stored' = stored \union {h} \/ stored' = stored
  BY DEF Commit, Reject
<1>5. /\ queue'[u] = Tail(queue[u])
      /\ \A v \in Users : v # u => queue'[v] = queue[v]
  BY <1>1 DEF TypeOK
<1>6. ASSUME NEW v \in Users, v # u PROVE QueueOK(v)'
  <2>1. QueueOK(v) /\ queue'[v] = queue[v]
    BY <1>5, <1>6 DEF OrderInv
  <2> QED BY <1>1, <1>3, <1>4, <1>6, <2>1 DEF QueueOK
<1>7. QueueOK(u)'
  <2>1. DOMAIN Tail(queue[u]) \subseteq Nat \ {0}
    BY <1>2
  <2>2. \A i \in DOMAIN Tail(queue[u]) : h < Tail(queue[u])[i]
    BY <1>2, <1>3, <2>1 DEF QueueOK, Ascending
  <2>3. Ascending(queue[u])'
    BY <1>2, <1>3, <1>5, <2>1 DEF QueueOK, Ascending
  <2>4. ASSUME NEW i \in DOMAIN queue'[u]
        PROVE  /\ author'[queue'[u][i]] = u
               /\ \A c \in stored' : author'[c] = u => c < queue'[u][i]
    <3>1. i + 1 \in DOMAIN queue[u] /\ queue'[u][i] = queue[u][i + 1] /\ h < queue'[u][i]
      BY <1>2, <1>5, <2>2
    <3>2. author'[queue'[u][i]] = u
      BY <1>1, <1>3, <3>1 DEF QueueOK
    <3>3. ASSUME NEW c \in stored', author'[c] = u PROVE c < queue'[u][i]
      <4>1. CASE c = h
        BY <3>1, <4>1
      <4>2. CASE c \in stored
        BY <1>1, <1>3, <3>1, <3>3, <4>2 DEF QueueOK
      <4> QED BY <1>4, <3>3, <4>1, <4>2
    <3> QED BY <3>2, <3>3
  <2> QED BY <2>3, <2>4 DEF QueueOK
<1>8. CASE u = Me
  <2>1. Local' \subseteq Local
    BY <1>2, <1>4, <1>5, <1>8 DEF Local
  <2>2. ListOK' /\ AuthorOrder'
    BY <1>1, <1>4, <2>1 DEF OrderInv, ListOK, AuthorOrder
  <2> QED BY <1>6, <1>7, <2>2 DEF OrderInv
<1>9. CASE u # Me
  <2>1. Local' \subseteq Local \union {h}
    BY <1>4, <1>5, <1>9, CommentsAssumption DEF Local
  <2>2. \A i \in DOMAIN comments : author[comments[i]] = u => comments[i] < h
    BY <1>3, <1>9 DEF OrderInv, ListOK
  <2>3. ListOK' /\ AuthorOrder'
    BY <1>1, <1>3, <1>4, <2>1, <2>2 DEF OrderInv, ListOK, AuthorOrder
  <2> QED BY <1>6, <1>7, <2>3 DEF OrderInv
<1> QED BY <1>8, <1>9

(* What a snapshot adds is in order, and newer than what is listed.        *)
LEMMA OrderSnapshot ==
  ASSUME OrderInv, TypeOK', Snapshot
  PROVE  OrderInv'
<1>1. /\ TypeOK /\ open
      /\ UNCHANGED <<author, queue, stored, open>> /\ seen' = Local /\ Local' = Local
  BY DEF OrderInv, Snapshot, writeVars, Local
<1>2. PICK added \in Added : added \in Seq(Comment) /\ comments' = comments \o added
  BY <1>1, SnapshotList
<1>3. (\A i \in DOMAIN added : added[i] \in Local \ seen) /\ Ascending(added)
  BY <1>1, AddedType DEF Added
<1>4. comments \in Seq(Comment) /\ Len(comments) \in Nat
  BY <1>1 DEF TypeOK
<1>5. \A i \in DOMAIN comments' :
        \/ i \in DOMAIN comments /\ comments'[i] = comments[i]
        \/ /\ i - Len(comments) \in DOMAIN added /\ comments'[i] = added[i - Len(comments)]
           /\ \A j \in DOMAIN comments : j < i
  BY <1>2, <1>4, ConcatFacts
<1>6. \A c \in Local : author[c] # Me => c \in stored
  <2>1. QueueOK(Me)
    BY CommentsAssumption DEF OrderInv
  <2> QED BY <2>1 DEF QueueOK, Local, Range
<1>7. ListOK'
  BY <1>1, <1>3, <1>5, <1>6 DEF OrderInv, ListOK
<1>8. AuthorOrder'
  <2> SUFFICES ASSUME NEW i \in DOMAIN comments', NEW j \in DOMAIN comments',
                      i < j, author[comments'[i]] = author[comments'[j]]
               PROVE  comments'[i] < comments'[j]
    BY <1>1 DEF AuthorOrder
  <2>1. i \in Nat /\ j \in Nat
    BY <1>2, <1>4
  <2>2. CASE i \in DOMAIN comments /\ comments'[i] = comments[i] /\ j \in DOMAIN comments /\ comments'[j] = comments[j]
    BY <2>2 DEF OrderInv, AuthorOrder
  <2>3. CASE /\ i \in DOMAIN comments /\ comments'[i] = comments[i]
             /\ j - Len(comments) \in DOMAIN added /\ comments'[j] = added[j - Len(comments)]
    BY <1>1, <1>3, <2>3 DEF OrderInv, ListOK
  <2>4. CASE /\ i - Len(comments) \in DOMAIN added /\ comments'[i] = added[i - Len(comments)]
             /\ j - Len(comments) \in DOMAIN added /\ comments'[j] = added[j - Len(comments)]
    <3>1. i - Len(comments) < j - Len(comments)
      BY <1>4, <2>1
    <3> QED BY <1>3, <2>4, <3>1 DEF Ascending
  <2> QED BY <1>5, <2>1, <2>2, <2>3, <2>4
<1>9. \A u \in Users : QueueOK(u)'
  BY <1>1 DEF OrderInv, QueueOK
<1> QED BY <1>7, <1>8, <1>9 DEF OrderInv

LEMMA OrderStep == OrderInv /\ [Next]_vars => OrderInv'
<1> SUFFICES ASSUME OrderInv, [Next]_vars PROVE OrderInv'
  OBVIOUS
<1>1. TypeOK'
  BY TypeStep DEF OrderInv
<1>2. ASSUME NEW u \in Users, SendComment(u) \/ NameFails(u) PROVE OrderInv'
  BY <1>1, <1>2, OrderFrame DEF SendComment, NameFails, screenVars
<1>3. ASSUME NEW u \in Users, NameFound(u) PROVE OrderInv'
  BY <1>1, <1>3, OrderNameFound
<1>4. ASSUME NEW u \in Users, Commit(u) \/ Reject(u) PROVE OrderInv'
  BY <1>1, <1>4, OrderAnswered
<1>5. ASSUME NEW u \in Users, Crash(u) PROVE OrderInv'
  <2>1. CASE u = Me
    BY <1>1, <1>5, <2>1, OrderEmptied DEF Crash
  <2>2. CASE u # Me
    BY <1>1, <1>5, <2>2, OrderFrame DEF Crash
  <2> QED BY <2>1, <2>2
<1>6. CASE Appear
  BY <1>1, <1>6, OrderEmptied DEF Appear, writeVars
<1>7. CASE Disappear
  BY <1>1, <1>7, OrderFrame DEF Disappear, writeVars
<1>8. CASE Snapshot
  BY <1>1, <1>8, OrderSnapshot
<1>9. CASE UNCHANGED vars
  BY <1>1, <1>9, OrderFrame DEF vars
<1> QED BY <1>2, <1>3, <1>4, <1>5, <1>6, <1>7, <1>8, <1>9 DEF Next

(* The inductive invariant of the order of the comment list, from          *)
(* addComment to the closures of loadComment.                              *)
THEOREM OrderInvariance == Spec => []OrderInv
<1> QED BY OrderInit, OrderStep, PTL DEF Spec

(* The comments of one author are listed in the order of their dates,      *)
(* whoever else writes, whatever is refused and whichever app dies.        *)
THEOREM AuthorOrderTheorem == Spec => []AuthorOrder
<1>1. OrderInv => AuthorOrder
  BY DEF OrderInv
<1> QED BY <1>1, OrderInvariance, PTL

-----------------------------------------------------------------------------
(***************************************************************************)
(* The list and the query.                                                 *)
(***************************************************************************)

(* A listing of a finite set names every element of it, and each of them   *)
(* once.                                                                   *)
LEMMA ListingFacts ==
  ASSUME NEW S, IsFiniteSet(S), NEW s \in SetToSeqs(S)
  PROVE  Range(s) = S /\ IsInjective(s)
<1> DEFINE n == Cardinality(S)
<1>1. n \in Nat /\ s \in [1 .. n -> S] /\ \A i, j \in 1 .. n : i # j => s[i] # s[j]
  BY FS_CardinalityType DEF SetToSeqs
<1> HIDE DEF n
<1>2. IsInjective(s) /\ s \in Injection(1 .. n, S)
  BY <1>1 DEF IsInjective, Injection
<1>3. Cardinality(1 .. n) = Cardinality(S)
  BY <1>1, FS_Interval DEF n
<1>4. s \in Surjection(1 .. n, S)
  BY <1>2, <1>3, FS_Injection
<1>5. \A x \in S : \E i \in 1 .. n : s[i] = x
  BY <1>4 DEF Surjection
<1> QED BY <1>1, <1>2, <1>5 DEF Range

(* One list after another that shares nothing with it.                     *)
LEMMA JoinFacts ==
  ASSUME NEW S, NEW s \in Seq(S), NEW t \in Seq(S)
  PROVE  /\ Range(s \o t) = Range(s) \union Range(t)
         /\ IsInjective(s) /\ IsInjective(t) /\ Range(s) \intersect Range(t) = {}
              => IsInjective(s \o t)
<1>1. /\ \A i \in DOMAIN (s \o t) :
           \/ i \in DOMAIN s /\ (s \o t)[i] = s[i]
           \/ i - Len(s) \in DOMAIN t /\ (s \o t)[i] = t[i - Len(s)]
      /\ \A i \in DOMAIN s : i \in DOMAIN (s \o t) /\ (s \o t)[i] = s[i]
      /\ \A i \in DOMAIN t : i + Len(s) \in DOMAIN (s \o t) /\ (s \o t)[i + Len(s)] = t[i]
      /\ DOMAIN (s \o t) \subseteq Nat /\ Len(s) \in Nat
  OBVIOUS
<1>2. Range(s \o t) = Range(s) \union Range(t)
  <2>1. Range(s \o t) \subseteq Range(s) \union Range(t)
    BY <1>1 DEF Range
  <2>2. Range(s) \subseteq Range(s \o t)
    BY <1>1 DEF Range
  <2>3. \A i \in DOMAIN t : t[i] \in {(s \o t)[j] : j \in DOMAIN (s \o t)}
    BY <1>1
  <2>4. Range(t) \subseteq Range(s \o t)
    BY <2>3 DEF Range
  <2> QED BY <2>1, <2>2, <2>4
<1>3. ASSUME IsInjective(s), IsInjective(t), Range(s) \intersect Range(t) = {}
      PROVE  IsInjective(s \o t)
  <2> SUFFICES ASSUME NEW i \in DOMAIN (s \o t), NEW j \in DOMAIN (s \o t),
                      (s \o t)[i] = (s \o t)[j]
               PROVE  i = j
    BY DEF IsInjective
  <2>1. \A k \in DOMAIN s, l \in DOMAIN t : s[k] # t[l]
    BY <1>3 DEF Range
  <2>2. CASE i \in DOMAIN s /\ (s \o t)[i] = s[i]
    <3>1. j \in DOMAIN s /\ (s \o t)[j] = s[j]
      BY <1>1, <2>1, <2>2
    <3> QED BY <1>3, <2>2, <3>1 DEF IsInjective
  <2>3. CASE i - Len(s) \in DOMAIN t /\ (s \o t)[i] = t[i - Len(s)]
    <3>1. j - Len(s) \in DOMAIN t /\ (s \o t)[j] = t[j - Len(s)]
      BY <1>1, <2>1, <2>3
    <3>2. i - Len(s) = j - Len(s)
      BY <1>3, <2>3, <3>1 DEF IsInjective
    <3> QED BY <1>1, <3>2
  <2> QED BY <1>1, <2>2, <2>3
<1> QED BY <1>2, <1>3

LEMMA ListedInit == Init => ListedOK
<1> SUFFICES ASSUME Init PROVE ListedOK
  OBVIOUS
<1>1. comments = <<>> /\ DOMAIN comments = {} /\ seen = {}
  BY DEF Init
<1> QED BY <1>1 DEF ListedOK, IsInjective, Range

(* A step that writes and lists nothing.                                   *)
LEMMA ListedFrame ==
  ASSUME ListedOK, UNCHANGED <<author, queue, stored, comments, seen, refused>>
  PROVE  ListedOK'
BY DEF ListedOK, Local

LEMMA ListedEmptied ==
  ASSUME comments' = <<>>, seen' = {}
  PROVE  ListedOK'
<1>1. DOMAIN comments' = {} /\ Range(comments') = {}
  BY DEF Range
<1> QED BY <1>1 DEF ListedOK, IsInjective

(* A new comment is not listed yet.                                        *)
LEMMA ListedNameFound ==
  ASSUME ListedInv, NEW u \in Users, NameFound(u)
  PROVE  ListedOK'
<1> DEFINE new == Len(author) + 1
<1>1. /\ TypeOK /\ ListedOK /\ author' = Append(author, u)
      /\ UNCHANGED <<stored, comments, seen, refused>>
  BY DEF ListedInv, OrderInv, NameFound, screenVars, historyVars
<1>2. \A c \in Comment : author'[c] = author[c] /\ c < new /\ c \in Nat
  BY <1>1, NumberFacts, CommentSet
<1>3. Range(comments) \subseteq Comment /\ seen \subseteq Comment
  BY <1>1 DEF TypeOK, Range
<1>4. new \notin Comment /\ new \notin Range(comments)
  <2>1. new \notin Comment
    BY <1>2
  <2> QED BY <1>3, <2>1
<1>5. Local \subseteq Local' /\ Local' \subseteq Local \union {new}
  <2>1. queue[Me] \in Seq(Comment) /\ (queue'[Me] = queue[Me] \/ queue'[Me] = Append(queue[Me], new))
    BY <1>1, CommentsAssumption DEF TypeOK, NameFound
  <2>2. CASE queue'[Me] = Append(queue[Me], new)
    <3>1. queue[Me] \in Seq(Comment \union {new})
      BY <2>1, SeqMonotone
    <3>2. Range(queue'[Me]) = Range(queue[Me]) \union {new}
      BY <2>2, <3>1, AppendFacts
    <3> QED BY <1>1, <3>2 DEF Local
  <2> QED BY <1>1, <2>1, <2>2 DEF Local
<1> QED BY <1>1, <1>2, <1>3, <1>4, <1>5 DEF ListedOK

(* A write that leaves its pipeline is stored, or refused; another user's  *)
(* was not listed before.                                                  *)
LEMMA ListedAnswered ==
  ASSUME ListedInv, NEW u \in Users, Commit(u) \/ Reject(u)
  PROVE  ListedOK'
<1> DEFINE h == Head(queue[u])
<1>1. /\ TypeOK /\ ListedOK /\ ListOK /\ QueueOK(u)
      /\ queue[u] \in Seq(Comment) /\ queue[u] # <<>>
      /\ queue' = [queue EXCEPT ![u] = Tail(queue[u])]
      /\ UNCHANGED <<author, comments, seen>>
  BY DEF ListedInv, OrderInv, TypeOK, Commit, Reject, screenVars
<1>2. /\ h \in Comment /\ 1 \in DOMAIN queue[u] /\ h = queue[u][1]
      /\ Range(queue[u]) = {h} \union Range(Tail(queue[u]))
  BY <1>1, TailFacts
<1>3. /\ author[h] = u /\ h \in Nat
      /\ \A c \in stored : author[c] = u => c < h
  BY <1>1, <1>2, CommentSet DEF QueueOK
<1>4. \/ stored' = stored \union {h} /\ refused' = refused
      \/ stored' = stored /\ refused' = refused \union {h}
  BY DEF Commit, Reject, historyVars
<1>5. CASE u = Me
  <2>1. queue'[Me] = Tail(queue[Me])
    BY <1>1, <1>5 DEF TypeOK
  <2>2. \/ Local' = Local /\ refused' = refused
        \/ Local' \subseteq Local /\ Local \subseteq Local' \union {h} /\ refused' = refused \union {h}
    BY <1>2, <1>4, <1>5, <2>1 DEF Local
  <2> QED BY <1>1, <1>3, <1>5, <2>2 DEF ListedOK
<1>6. CASE u # Me
  <2>1. queue'[Me] = queue[Me]
    BY <1>1, <1>6, CommentsAssumption DEF TypeOK
  <2>2. h \notin Range(comments)
    <3> SUFFICES ASSUME NEW i \in DOMAIN comments, comments[i] = h PROVE FALSE
      BY DEF Range
    <3>1. h \in stored
      BY <1>1, <1>3, <1>6 DEF ListOK
    <3> QED BY <1>3, <3>1
  <2>3. Local \subseteq Local' /\ Local' \subseteq Local \union {h} /\ refused \subseteq refused'
    BY <1>4, <2>1 DEF Local
  <2> QED BY <1>1, <2>2, <2>3 DEF ListedOK
<1> QED BY <1>5, <1>6

(* What a snapshot adds was not listed, and nothing is left to be reported. *)
LEMMA ListedSnapshot ==
  ASSUME ListedInv, Snapshot
  PROVE  ListedOK'
<1>1. /\ TypeOK /\ ListedOK
      /\ UNCHANGED <<author, refused>> /\ seen' = Local /\ Local' = Local
  BY DEF ListedInv, OrderInv, Snapshot, writeVars, historyVars, Local
<1>2. PICK added \in Added : added \in Seq(Comment) /\ comments' = comments \o added
  BY <1>1, SnapshotList
<1>3. Range(added) = Local \ seen /\ IsInjective(added)
  BY <1>1, <1>2, LocalType, ListingFacts DEF Added
<1>4. comments \in Seq(Comment) /\ IsInjective(comments) /\ Range(comments) \intersect Range(added) = {}
  BY <1>1, <1>3 DEF TypeOK, ListedOK
<1>5. Range(comments') = Range(comments) \union (Local \ seen) /\ IsInjective(comments')
  BY <1>2, <1>3, <1>4, JoinFacts
<1> QED BY <1>1, <1>5 DEF ListedOK

LEMMA ListedStep == ListedInv /\ [Next]_vars => ListedInv'
<1> SUFFICES ASSUME ListedInv, [Next]_vars PROVE ListedOK'
  BY OrderStep DEF ListedInv
<1>1. ListedOK
  BY DEF ListedInv
<1>2. ASSUME NEW u \in Users, SendComment(u) \/ NameFails(u) PROVE ListedOK'
  BY <1>1, <1>2, ListedFrame DEF SendComment, NameFails, screenVars, historyVars
<1>3. ASSUME NEW u \in Users, NameFound(u) PROVE ListedOK'
  BY <1>3, ListedNameFound
<1>4. ASSUME NEW u \in Users, Commit(u) \/ Reject(u) PROVE ListedOK'
  BY <1>4, ListedAnswered
<1>5. ASSUME NEW u \in Users, Crash(u) PROVE ListedOK'
  BY <1>1, <1>5, ListedEmptied, ListedFrame DEF Crash
<1>6. CASE Appear
  BY <1>6, ListedEmptied DEF Appear
<1>7. CASE Disappear
  BY <1>1, <1>7, ListedFrame DEF Disappear, writeVars, historyVars
<1>8. CASE Snapshot
  BY <1>8, ListedSnapshot
<1>9. CASE UNCHANGED vars
  BY <1>1, <1>9, ListedFrame DEF vars
<1> QED BY <1>2, <1>3, <1>4, <1>5, <1>6, <1>7, <1>8, <1>9 DEF Next

(* The inductive invariant of what the listener of loadComment has reported*)
(* and the list shows.                                                     *)
THEOREM ListedInvariance == Spec => []ListedInv
<1>1. Init => ListedInv
  BY OrderInit, ListedInit DEF ListedInv
<1> QED BY <1>1, ListedStep, PTL DEF Spec

(* An up-to-date list shows every comment of the query once, and besides   *)
(* them only own comments that were refused, although two closures, called *)
(* one after the other, both append to it.                                 *)
THEOREM EachListedOnceTheorem == Spec => []EachListedOnce
<1>1. ListedInv => EachListedOnce
  BY DEF ListedInv, ListedOK, EachListedOnce
<1> QED BY <1>1, ListedInvariance, PTL

-----------------------------------------------------------------------------
(***************************************************************************)
(* The pipelines, seen as the queue the SDK implements.                    *)
(***************************************************************************)
Waiting == UNION {Range(queue[u]) : u \in Users}
CommitsNext == [Commits!Next]_Commits!vars

LEMMA CommitsInit == Init => Commits!Init
<1> SUFFICES ASSUME Init PROVE Commits!Init
  OBVIOUS
<1>1. \A u \in Users : Range(queue[u]) = {}
  BY DEF Init, Range
<1>2. Waiting = {}
  BY <1>1 DEF Waiting
<1> QED BY <1>2 DEF Init, Waiting, Commits!Init

(* A step of the screen, a lookup or a crash: nothing is handed over.      *)
LEMMA CommitsFrame ==
  ASSUME UNCHANGED <<author, queue, stored>>
  PROVE  CommitsNext
<1>1. Waiting' = Waiting
  BY DEF Waiting
<1> QED BY <1>1 DEF CommitsNext, Commits!vars, Waiting

(* A dated comment joins what waits.                                       *)
LEMMA CommitsNameFound ==
  ASSUME OrderInv, NEW u \in Users, NameFound(u)
  PROVE  CommitsNext
<1> DEFINE new == Len(author) + 1
<1>1. /\ TypeOK /\ author' = Append(author, u) /\ stored' = stored
      /\ queue' = [queue EXCEPT ![u] = Append(queue[u], new)]
  BY DEF OrderInv, NameFound
<1>2. new \in Nat /\ queue \in [Users -> Seq(Comment)]
  BY <1>1, CommentSet DEF TypeOK
<1>3. Range(queue'[u]) = Range(queue[u]) \union {new}
  <2>1. queue[u] \in Seq(Comment \union {new})
    BY <1>2, SeqMonotone
  <2>2. queue'[u] = Append(queue[u], new)
    BY <1>1, <1>2
  <2> HIDE DEF new
  <2> QED BY <2>1, <2>2, AppendFacts
<1>4. \A v \in Users : v # u => queue'[v] = queue[v]
  BY <1>1, <1>2
<1>5. Waiting' = Waiting \union {new}
  <2> HIDE DEF new
  <2>1. \A v \in Users : Range(queue'[v]) = IF v = u THEN Range(queue[u]) \union {new} ELSE Range(queue[v])
    BY <1>3, <1>4
  <2> QED BY <2>1 DEF Waiting
<1>6. Commits!HandOver(u)
  BY <1>1, <1>2, <1>5 DEF Commits!HandOver, Waiting
<1> QED BY <1>6 DEF CommitsNext, Commits!Next

(* The head of a pipeline is the oldest comment of its author that waits,  *)
(* and waits nowhere else.                                                 *)
LEMMA CommitsAnswered ==
  ASSUME OrderInv, NEW u \in Users, Commit(u) \/ Reject(u)
  PROVE  CommitsNext
<1> DEFINE h == Head(queue[u])
           t == Tail(queue[u])
<1>1. /\ TypeOK /\ queue[u] # <<>> /\ queue[u] \in Seq(Comment) /\ author' = author
      /\ queue' = [queue EXCEPT ![u] = t]
      /\ stored' = stored \union {h} \/ stored' = stored
      /\ queue \in [Users -> Seq(Comment)]
  BY DEF OrderInv, TypeOK, Commit, Reject
<1>2. /\ h \in Comment
      /\ 1 \in DOMAIN queue[u] /\ h = queue[u][1]
      /\ \A i \in DOMAIN t : i + 1 \in DOMAIN queue[u] /\ t[i] = queue[u][i + 1]
      /\ Range(queue[u]) = {h} \union Range(t)
  BY <1>1, TailFacts
<1>3. /\ DOMAIN queue[u] \subseteq Nat \ {0} /\ DOMAIN t \subseteq Nat \ {0}
      /\ Comment \subseteq Nat
  BY <1>1, CommentSet
<1> HIDE DEF h, t
<1>4. \A v \in Users : \A x \in Range(queue[v]) : author[x] = v
  BY DEF OrderInv, QueueOK, Range
<1>5. \A x \in Range(queue[u]) : x \in Nat /\ h <= x
  <2> SUFFICES ASSUME NEW i \in DOMAIN queue[u] PROVE queue[u][i] \in Nat /\ h <= queue[u][i]
    BY DEF Range
  <2>1. queue[u][i] \in Nat /\ h \in Nat
    <3>1. i \in 1 .. Len(queue[u])
      BY <1>1, LenProperties
    <3>2. queue[u][i] \in Comment
      BY <1>1, <3>1, ElementOfSeq
    <3> QED BY <1>2, <1>3, <3>2
  <2>2. CASE i = 1
    BY <1>2, <2>1, <2>2
  <2>3. CASE i # 1
    <3>1. 1 < i
      BY <1>3, <2>3
    <3>2. h < queue[u][i]
      BY <1>2, <3>1 DEF OrderInv, QueueOK, Ascending
    <3> QED BY <2>1, <3>2
  <2> QED BY <2>2, <2>3
<1>6. h \notin Range(t)
  <2> SUFFICES ASSUME NEW i \in DOMAIN t PROVE t[i] # h
    BY DEF Range
  <2>1. i + 1 \in DOMAIN queue[u] /\ t[i] = queue[u][i + 1] /\ 1 < i + 1
    BY <1>2, <1>3
  <2>2. h < t[i]
    BY <1>2, <2>1 DEF OrderInv, QueueOK, Ascending
  <2> QED BY <1>2, <1>3, <2>2
<1>7. \A v \in Users : Range(queue'[v]) = Range(queue[v]) \ {h}
  <2>1. Range(queue'[u]) = Range(queue[u]) \ {h}
    BY <1>1, <1>2, <1>6
  <2>2. ASSUME NEW v \in Users, v # u PROVE Range(queue'[v]) = Range(queue[v]) \ {h}
    <3>1. queue'[v] = queue[v]
      BY <1>1, <2>2
    <3>2. h \notin Range(queue[v])
      BY <1>2, <1>4, <2>2
    <3> QED BY <3>1, <3>2
  <2> QED BY <2>1, <2>2
<1>8. Waiting' = Waiting \ {h}
  BY <1>7 DEF Waiting
<1>9. h \in Waiting
  BY <1>2 DEF Waiting
<1>10. \A x \in Waiting : author[x] = author[h] => h <= x
  <2>1. author[h] = u
    BY <1>2, <1>4
  <2> QED BY <1>4, <1>5, <2>1 DEF Waiting
<1>11. Commits!Leaves(h)
  BY <1>1, <1>8, <1>10 DEF Commits!Leaves, Commits!Oldest, Waiting
<1>12. Commits!Commit(h) \/ Commits!Refuse(h)
  BY <1>1, <1>11 DEF Commits!Commit, Commits!Refuse
<1> QED BY <1>9, <1>12 DEF CommitsNext, Commits!Next, Waiting

LEMMA CommitsStep == OrderInv /\ [Next]_vars => CommitsNext
<1> SUFFICES ASSUME OrderInv, [Next]_vars PROVE CommitsNext
  OBVIOUS
<1>1. ASSUME NEW u \in Users, SendComment(u) \/ NameFails(u) \/ Crash(u) PROVE CommitsNext
  BY <1>1, CommitsFrame DEF SendComment, NameFails, Crash
<1>2. CASE Appear \/ Disappear \/ Snapshot
  BY <1>2, CommitsFrame DEF Appear, Disappear, Snapshot, writeVars
<1>3. CASE UNCHANGED vars
  BY <1>3, CommitsFrame DEF vars
<1> QED BY <1>1, <1>2, <1>3, CommitsNameFound, CommitsAnswered DEF Next

(* What Comments takes for granted of the SDK, postComment's writes leaving*)
(* oldest first and once, is what WritePipeline is shown to implement.     *)
THEOREM CommitQueueTheorem == Spec => UsesCommitQueue
<1>1. OrderInv /\ [Next]_vars => [Commits!Next]_Commits!vars
  BY CommitsStep DEF CommitsNext
<1> QED BY <1>1, CommitsInit, OrderInvariance, PTL DEF Spec, UsesCommitQueue, Commits!Spec
=============================================================================
