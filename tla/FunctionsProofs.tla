--------------------------- MODULE FunctionsProofs ---------------------------
(***************************************************************************)
(* Proofs about the cloud functions: the triggers of SearchSync with Likes,*)
(* which drives them, for any number of users, taps, edits and functions   *)
(* that run again or fail; and the search of SearchQuery, for any fields,  *)
(* operators, values and number of filters.                                *)
(***************************************************************************)
EXTENDS Likes, SearchQuery, TLAPS

-----------------------------------------------------------------------------
(***************************************************************************)
(* Sequences.                                                              *)
(***************************************************************************)
LEMMA AppendFacts ==
  ASSUME NEW S, NEW s \in Seq(S), NEW e \in S
  PROVE  /\ Append(s, e) \in Seq(S) /\ Append(s, e) # <<>>
         /\ Len(Append(s, e)) = Len(s) + 1 /\ Len(s) \in Nat
         /\ Append(s, e)[Len(s) + 1] = e
         /\ DOMAIN Append(s, e) = DOMAIN s \union {Len(s) + 1} /\ Len(s) + 1 \notin DOMAIN s
         /\ \A i \in DOMAIN s : Append(s, e)[i] = s[i] /\ i \in Nat /\ i <= Len(s)
OBVIOUS

LEMMA TailFacts ==
  ASSUME NEW S, NEW s \in Seq(S), s # <<>>
  PROVE  /\ Tail(s) \in Seq(S) /\ Head(s) \in S
         /\ 1 \in DOMAIN s /\ Head(s) = s[1]
         /\ \A i \in DOMAIN Tail(s) : i + 1 \in DOMAIN s /\ Tail(s)[i] = s[i + 1]
OBVIOUS

LEMMA ElementFacts ==
  ASSUME NEW S, NEW s \in Seq(S), NEW i \in DOMAIN s
  PROVE  s[i] \in S
OBVIOUS

LEMMA LastFacts ==
  ASSUME NEW S, NEW s \in Seq(S), s # <<>>
  PROVE  /\ Last(s) \in S /\ Len(s) \in DOMAIN s /\ Last(s) = s[Len(s)]
         /\ Tail(s) = <<>> => Last(s) = Head(s)
         /\ Tail(s) # <<>> => Last(Tail(s)) = Last(s)
<1>1. Last(s) \in S /\ Len(s) \in DOMAIN s /\ Last(s) = s[Len(s)]
  BY DEF Last
<1>2. Len(s) \in Nat /\ Len(s) # 0 /\ Len(Tail(s)) = Len(s) - 1 /\ Head(s) = s[1]
  OBVIOUS
<1>3. Tail(s) = <<>> => Last(s) = Head(s)
  <2>1. Tail(s) = <<>> => Len(s) = 1
    <3>1. Len(<<>>) = 0
      OBVIOUS
    <3>2. Tail(s) = <<>> => Len(Tail(s)) = 0
      BY <3>1, Zenon
    <3> QED BY <1>2, <3>2
  <2> QED BY <1>1, <1>2, <2>1
<1>4. Tail(s) # <<>> => Last(Tail(s)) = Last(s)
  <2>1. Tail(s) # <<>> => Len(Tail(s)) \in DOMAIN Tail(s)
    OBVIOUS
  <2>2. Tail(s) # <<>> => Tail(s)[Len(Tail(s))] = s[Len(Tail(s)) + 1]
    BY <2>1
  <2> QED BY <1>1, <1>2, <2>2 DEF Last
<1> QED BY <1>1, <1>3, <1>4

LEMMA AppendLast ==
  ASSUME NEW S, NEW s \in Seq(S), NEW e \in S
  PROVE  Last(Append(s, e)) = e
BY DEF Last

-----------------------------------------------------------------------------
(***************************************************************************)
(* The functions.                                                          *)
(***************************************************************************)
LEMMA VersionFacts ==
  ASSUME SyncInv
  PROVE  /\ versions \in Seq(Docs \union {NoDoc}) /\ Len(versions) \in Nat
         /\ DOMAIN versions = 1 .. Len(versions)
         /\ 1 \in DOMAIN versions /\ Len(versions) \in DOMAIN versions
         /\ \A n \in DOMAIN versions : versions[n] \in Docs \union {NoDoc}
<1>1. versions \in Seq(Docs \union {NoDoc}) /\ versions # <<>>
  BY DEF SyncInv, SyncTypeOK, HistoryOK
<1> QED BY <1>1

LEMMA SyncStarts ==
  ASSUME NEW d \in Docs, SyncInit(d)
  PROVE  SyncInv
<1> USE DEF SyncInit
<1>1. d # NoDoc
  BY SyncAssumption
<1>2. Len(<<d>>) = 1 /\ DOMAIN <<d>> = {1} /\ <<d>>[1] = d /\ <<d>> # <<>>
  OBVIOUS
<1>3. SyncTypeOK
  BY <1>2, SyncAssumption DEF SyncTypeOK
<1>4. HistoryOK
  BY <1>1, <1>2 DEF HistoryOK
<1>5. GhostsOK /\ IndexOK
  BY DEF GhostsOK, IndexOK
<1> QED BY <1>3, <1>4, <1>5 DEF SyncInv

(* A change of the document is one more version, whose function is awaited.*)
LEMMA BecomesKeeps ==
  ASSUME SyncInv, NEW d \in Docs \union {NoDoc},
         firestore = NoDoc => d = NoDoc, Becomes(d)
  PROVE  SyncInv'
<1> DEFINE more == Append(versions, d)
<1>0. /\ firestore' = d
      /\ UNCHANGED <<done, index, creates, overtaken, reruns, lost>>
  BY DEF Becomes
<1>1. CASE d = firestore
  <2>1. UNCHANGED syncVars
    BY <1>0, <1>1 DEF Becomes, syncVars
  <2> QED BY <2>1 DEF SyncInv, syncVars, SyncTypeOK, HistoryOK, GhostsOK, IndexOK, Indexed
<1>2. CASE d # firestore
  <2>1. versions' = more /\ events' = events \union {Len(versions) + 1}
    BY <1>2 DEF Becomes
  <2>2. /\ versions \in Seq(Docs \union {NoDoc}) /\ Len(versions) \in Nat
        /\ 1 \in DOMAIN versions /\ Len(versions) \in DOMAIN versions
    BY VersionFacts
  <2>3. /\ more \in Seq(Docs \union {NoDoc}) /\ more # <<>>
        /\ Len(more) = Len(versions) + 1 /\ more[Len(versions) + 1] = d
        /\ DOMAIN more = DOMAIN versions \union {Len(versions) + 1}
        /\ \A n \in DOMAIN versions : more[n] = versions[n]
    BY <2>2, AppendFacts
  <2>4. /\ firestore # NoDoc
        /\ \A n \in DOMAIN versions : versions[n] # NoDoc
    BY <1>2, <2>2 DEF SyncInv, HistoryOK
  <2>5. done \subseteq DOMAIN versions
    BY DEF SyncInv, SyncTypeOK
  <2> HIDE DEF more
  <2>6. SyncTypeOK'
    BY <1>0, <2>1, <2>3 DEF SyncInv, SyncTypeOK, Entry
  <2>7. HistoryOK'
    <3>1. more[1] # NoDoc /\ d = more[Len(more)]
      BY <2>2, <2>3, <2>4
    <3>2. \A n \in DOMAIN more : more[n] = NoDoc => n = Len(more)
      BY <2>3, <2>4
    <3>3. lost = 0 => events' \union done = DOMAIN more
      BY <2>1, <2>3 DEF SyncInv, HistoryOK
    <3> QED BY <1>0, <2>1, <2>3, <3>1, <3>2, <3>3 DEF HistoryOK
  <2>8. \A n \in done : versions'[n] = versions[n]
    BY <2>1, <2>3, <2>5
  <2>9. GhostsOK'
    BY <1>0, <2>8 DEF SyncInv, GhostsOK
  <2>10. IndexOK'
    BY <1>0, <2>8 DEF SyncInv, IndexOK, Indexed
  <2> QED BY <2>6, <2>7, <2>9, <2>10 DEF SyncInv
<1> QED BY <1>1, <1>2

(* The function of the n-th change runs: which of the three it is.         *)
LEMMA Kind ==
  ASSUME SyncInv, NEW n \in DOMAIN versions, Runs(n)
  PROVE  /\ KindOf(n) \in Kinds
         /\ versions[n] = NoDoc =>
              KindOf(n) = "deleted" /\ n = Len(versions) /\ n # 1 /\ onPostDeleted(n)
         /\ versions[n] # NoDoc /\ n = 1 => KindOf(n) = "created" /\ onPostCreated(n)
         /\ versions[n] # NoDoc /\ n # 1 => KindOf(n) = "modified" /\ onPostModified(n)
<1>1. versions[1] # NoDoc /\ (versions[n] = NoDoc => n = Len(versions))
  BY DEF SyncInv, HistoryOK
<1>2. CASE versions[n] = NoDoc
  <2>1. KindOf(n) = "deleted"
    BY <1>2 DEF KindOf
  <2>2. onPostDeleted(n)
    BY <2>1 DEF Runs, Handler
  <2> QED BY <1>1, <1>2, <2>1, <2>2 DEF Kinds
<1>3. CASE versions[n] # NoDoc /\ n = 1
  <2>1. KindOf(n) = "created"
    BY <1>3 DEF KindOf
  <2>2. onPostCreated(n)
    BY <2>1 DEF Runs, Handler
  <2> QED BY <1>3, <2>1, <2>2 DEF Kinds
<1>4. CASE versions[n] # NoDoc /\ n # 1
  <2>1. KindOf(n) = "modified"
    BY <1>4 DEF KindOf
  <2>2. onPostModified(n)
    BY <2>1 DEF Runs, Handler
  <2> QED BY <1>4, <2>1, <2>2 DEF Kinds
<1> QED BY <1>2, <1>3, <1>4

(* What has been overtaken afterwards.                                     *)
LEMMA Overtaken ==
  ASSUME SyncInv, NEW n \in DOMAIN versions, Runs(n)
  PROVE  /\ overtaken \subseteq overtaken'
         /\ \A m \in done : m > n => <<KindOf(n), KindOf(m)>> \in overtaken'
         /\ overtaken' \subseteq Kinds \X Kinds
<1>1. overtaken' = overtaken \union {<<KindOf(n), KindOf(m)>> : m \in {k \in done : k > n}}
  BY DEF Runs
<1>2. \A m \in DOMAIN versions : KindOf(m) \in Kinds
  BY DEF KindOf, Kinds
<1>3. done \subseteq DOMAIN versions /\ overtaken \subseteq Kinds \X Kinds
  BY DEF SyncInv, SyncTypeOK
<1> QED BY <1>1, <1>2, <1>3

LEMMA RunsType ==
  ASSUME SyncInv, NEW n \in DOMAIN versions, Runs(n)
  PROVE  /\ index' \in Entry \union {NoEntry}
         /\ done' = done \union {n} /\ done' \subseteq DOMAIN versions
<1>1. versions[n] \in Docs \union {NoDoc}
  BY VersionFacts
<1>2. index \in Entry \union {NoEntry}
  BY DEF SyncInv, SyncTypeOK
<1>3. done \subseteq DOMAIN versions /\ done' = done \union {n}
  BY DEF SyncInv, SyncTypeOK, Runs
<1>4. CASE versions[n] = NoDoc
  <2>1. index' = NoEntry
    BY <1>4, Kind DEF onPostDeleted
  <2> QED BY <1>3, <2>1
<1>5. CASE versions[n] # NoDoc /\ n = 1
  <2>1. index' = [data |-> versions[n], stamped |-> TRUE]
    BY <1>5, Kind DEF onPostCreated
  <2> QED BY <1>1, <1>3, <1>5, <2>1 DEF Entry
<1>6. CASE versions[n] # NoDoc /\ n # 1
  <2>1. onPostModified(n)
    BY <1>6, Kind
  <2>2. CASE index # NoEntry
    <3>1. index \in [data: Docs, stamped: BOOLEAN]
      BY <1>2, <2>2 DEF Entry
    <3>2. index' = [index EXCEPT !.data = versions[n]]
      BY <2>1, <2>2 DEF onPostModified
    <3>3. index' \in Entry
      BY <1>1, <1>6, <3>1, <3>2 DEF Entry
    <3> QED BY <1>3, <3>3
  <2>3. CASE index = NoEntry
    <3>1. index' = [data |-> versions[n], stamped |-> FALSE] \/ index' = NoEntry
      BY <2>1, <2>3 DEF onPostModified
    <3>2. [data |-> versions[n], stamped |-> FALSE] \in Entry
      BY <1>1, <1>6 DEF Entry
    <3> QED BY <1>3, <3>1, <3>2
  <2> QED BY <2>2, <2>3
<1> QED BY <1>4, <1>5, <1>6

LEMMA RunsGhosts ==
  ASSUME SyncInv, NEW n \in DOMAIN versions, Runs(n), UNCHANGED <<versions, creates>>
  PROVE  GhostsOK'
<1> SUFFICES ASSUME NEW m \in done', versions[m] = NoDoc, index' # NoEntry
             PROVE  \/ <<"created", "deleted">> \in overtaken'
                    \/ creates /\ <<"modified", "deleted">> \in overtaken'
  BY DEF GhostsOK
<1>1. versions[n] # NoDoc
  BY Kind DEF onPostDeleted
<1>2. m \in done /\ m \in DOMAIN versions /\ m # n
  BY <1>1, RunsType
<1>3. KindOf(m) = "deleted" /\ m = Len(versions)
  BY <1>2 DEF KindOf, SyncInv, HistoryOK
<1>4. m > n
  BY <1>2, <1>3, VersionFacts
<1>5. <<KindOf(n), "deleted">> \in overtaken' /\ overtaken \subseteq overtaken'
  BY <1>2, <1>3, <1>4, Overtaken
<1>6. CASE n = 1
  BY <1>1, <1>5, <1>6, Kind
<1>7. CASE n # 1 /\ index # NoEntry
  BY <1>2, <1>5, <1>7 DEF SyncInv, GhostsOK
<1>8. CASE n # 1 /\ index = NoEntry
  <2>1. KindOf(n) = "modified" /\ onPostModified(n)
    BY <1>1, <1>8, Kind
  <2>2. creates
    BY <1>8, <2>1 DEF onPostModified
  <2> QED BY <1>5, <2>1, <2>2
<1> QED BY <1>6, <1>7, <1>8

(* In order: what the index holds is that of the latest of those before, so*)
(* there is an entry to update.                                            *)
LEMMA RunsIndex ==
  ASSUME SyncInv, NEW n \in DOMAIN versions, Runs(n), UNCHANGED versions
  PROVE  IndexOK'
<1> SUFFICES ASSUME overtaken' = {}, 1 \in done'
             PROVE  \E m \in done' : Indexed(m)' /\ \A k \in done' : k <= m
  BY DEF IndexOK
<1>1. done' = done \union {n} /\ done' \subseteq DOMAIN versions
  BY RunsType
<1>2. DOMAIN versions \subseteq Nat
  BY VersionFacts
<1>3. overtaken = {} /\ \A k \in done : k <= n
  BY <1>1, <1>2, Overtaken
<1>4. n \in done' /\ \A k \in done' : k <= n
  BY <1>1, <1>2, <1>3
<1>5. CASE versions[n] = NoDoc
  <2>1. index' = NoEntry
    BY <1>5, Kind DEF onPostDeleted
  <2> QED BY <1>4, <1>5, <2>1 DEF Indexed
<1>6. CASE versions[n] # NoDoc /\ n = 1
  <2>1. index' = [data |-> versions[n], stamped |-> TRUE]
    BY <1>6, Kind DEF onPostCreated
  <2> QED BY <1>4, <1>6, <2>1 DEF Indexed
<1>7. CASE versions[n] # NoDoc /\ n # 1
  <2>1. 1 \in done
    BY <1>1, <1>7
  <2>2. PICK l \in done : Indexed(l)
    BY <1>3, <2>1 DEF SyncInv, IndexOK
  <2>4. versions[l] # NoDoc
    <3>1. l <= n /\ l \in DOMAIN versions /\ l \in Nat /\ n \in Nat
      BY <1>1, <1>2, <1>3, <2>2
    <3>2. n <= Len(versions) /\ Len(versions) \in Nat
      BY VersionFacts
    <3>3. versions[l] = NoDoc => l = Len(versions)
      BY <3>1 DEF SyncInv, HistoryOK
    <3> QED BY <1>7, <3>1, <3>2, <3>3
  <2>5. index = [data |-> versions[l], stamped |-> TRUE]
    BY <2>2, <2>4 DEF Indexed
  <2>6. versions[l] \in Docs
    BY <1>1, <2>2, <2>4, VersionFacts
  <2>7. index # NoEntry
    <3>1. index \in [data: Docs, stamped: BOOLEAN]
      BY <2>5, <2>6
    <3> QED BY <3>1, SyncAssumption
  <2>8. index' = [index EXCEPT !.data = versions[n]]
    BY <1>7, <2>7, Kind DEF onPostModified
  <2>9. index' = [data |-> versions[n], stamped |-> TRUE]
    BY <2>5, <2>8
  <2> QED BY <1>4, <1>7, <2>9 DEF Indexed
<1> QED BY <1>5, <1>6, <1>7

LEMMA TriggerKeeps ==
  ASSUME SyncInv, NEW n \in events, Trigger(n)
  PROVE  SyncInv'
<1>1. n \in DOMAIN versions /\ Runs(n) /\ events' = events \ {n}
  BY DEF SyncInv, SyncTypeOK, Trigger
<1>2. UNCHANGED <<firestore, versions, creates, reruns, lost>>
  BY DEF Trigger
<1>3. /\ index' \in Entry \union {NoEntry}
      /\ done' = done \union {n} /\ done' \subseteq DOMAIN versions
  BY <1>1, RunsType
<1>4. overtaken' \subseteq Kinds \X Kinds
  BY <1>1, Overtaken
<1>5. SyncTypeOK'
  BY <1>1, <1>2, <1>3, <1>4 DEF SyncInv, SyncTypeOK, Entry
<1>6. HistoryOK'
  <2>1. lost = 0 => events' \union done' = events \union done
    BY <1>1, <1>3
  <2> QED BY <1>2, <2>1 DEF SyncInv, HistoryOK
<1>7. GhostsOK' /\ IndexOK'
  BY <1>1, <1>2, RunsGhosts, RunsIndex
<1> QED BY <1>5, <1>6, <1>7 DEF SyncInv

LEMMA TriggerAgainKeeps ==
  ASSUME SyncInv, NEW n \in done, TriggerAgain(n)
  PROVE  SyncInv'
<1>1. n \in DOMAIN versions /\ Runs(n)
  BY DEF SyncInv, SyncTypeOK, TriggerAgain
<1>2. UNCHANGED <<firestore, versions, events, creates, lost>>
  BY DEF TriggerAgain
<1>3. index' \in Entry \union {NoEntry} /\ done' = done
  BY <1>1, RunsType
<1>4. overtaken' \subseteq Kinds \X Kinds
  BY <1>1, Overtaken
<1>5. reruns' \in 0 .. MaxAstray
  BY SyncAssumption DEF SyncInv, SyncTypeOK, TriggerAgain
<1>6. SyncTypeOK'
  BY <1>2, <1>3, <1>4, <1>5 DEF SyncInv, SyncTypeOK, Entry
<1>7. HistoryOK'
  BY <1>2, <1>3 DEF SyncInv, HistoryOK
<1>8. GhostsOK' /\ IndexOK'
  BY <1>1, <1>2, RunsGhosts, RunsIndex
<1> QED BY <1>6, <1>7, <1>8 DEF SyncInv

LEMMA TriggerFailsKeeps ==
  ASSUME SyncInv, NEW n \in events, TriggerFails(n)
  PROVE  SyncInv'
<1> USE DEF TriggerFails
<1>1. lost' \in 0 .. MaxAstray /\ lost' # 0
  BY SyncAssumption DEF SyncInv, SyncTypeOK
<1>2. SyncTypeOK'
  BY <1>1 DEF SyncInv, SyncTypeOK, Entry
<1>3. HistoryOK' /\ GhostsOK' /\ IndexOK'
  BY <1>1 DEF SyncInv, HistoryOK, GhostsOK, IndexOK, Indexed
<1> QED BY <1>2, <1>3 DEF SyncInv

(* Of whatever drives the functions.                                       *)
LEMMA Mirrors == SyncInv => MirrorsInOrder
<1> SUFFICES ASSUME SyncInv, events = {}, lost = 0, overtaken = {}
             PROVE  index = IF firestore = NoDoc THEN NoEntry
                            ELSE [data |-> firestore, stamped |-> TRUE]
  BY DEF MirrorsInOrder
<1>1. done = DOMAIN versions /\ firestore = versions[Len(versions)]
  BY DEF SyncInv, HistoryOK
<1>2. 1 \in done /\ Len(versions) \in done
  BY <1>1, VersionFacts
<1>3. PICK n \in done : Indexed(n) /\ \A m \in done : m <= n
  BY <1>2 DEF SyncInv, IndexOK
<1>4. n = Len(versions)
  BY <1>1, <1>2, <1>3, VersionFacts
<1> QED BY <1>1, <1>3, <1>4 DEF Indexed

LEMMA Ghosts == SyncInv => GhostsAreLateCreations
<1> SUFFICES ASSUME SyncInv, events = {}, lost = 0, firestore = NoDoc, index # NoEntry
             PROVE  \/ <<"created", "deleted">> \in overtaken
                    \/ creates /\ <<"modified", "deleted">> \in overtaken
  BY DEF GhostsAreLateCreations
<1>1. Len(versions) \in done /\ versions[Len(versions)] = NoDoc
  BY VersionFacts DEF SyncInv, HistoryOK
<1> QED BY <1>1 DEF SyncInv, GhostsOK

-----------------------------------------------------------------------------
(***************************************************************************)
(* The devices: what an update and a view may be.                          *)
(***************************************************************************)
LEMMA DocFacts ==
  /\ \A d \in Docs : d # NoDoc /\ d \in [text: 0 .. MaxEdits, likes: SUBSET Users]
  /\ Fresh \in Docs
BY SyncAssumption, LikesAssumption DEF Fresh

LEMMA AfterFacts ==
  ASSUME NEW doc \in Docs, NEW u \in Users, NEW update \in Update
  PROVE  /\ After(doc, u, update) \in Docs /\ After(doc, u, update) # NoDoc
         /\ u \in After(doc, u, update).likes <=> update.likes
         /\ \A v \in Users \ {u} : v \in After(doc, u, update).likes <=> v \in doc.likes
<1>1. doc # NoDoc /\ doc \in [text: 0 .. MaxEdits, likes: SUBSET Users]
  BY DocFacts
<1>2. update.likes \in BOOLEAN
  BY DEF Update
<1> DEFINE likes == IF update.likes THEN doc.likes \union {u} ELSE doc.likes \ {u}
<1>3. After(doc, u, update) = [doc EXCEPT !.likes = likes]
  BY <1>1 DEF After
<1>4. likes \in SUBSET Users
  BY <1>1
<1>5. /\ u \in likes <=> update.likes
      /\ \A v \in Users \ {u} : v \in likes <=> v \in doc.likes
  BY <1>2
<1> HIDE DEF likes
<1>6. After(doc, u, update).likes = likes
  BY <1>1, <1>3
<1>7. After(doc, u, update) \in Docs
  BY <1>1, <1>3, <1>4, LikesAssumption
<1>8. After(doc, u, update) # NoDoc
  BY <1>7, DocFacts
<1> QED BY <1>5, <1>6, <1>7, <1>8

(* The updates of a row that is replaced.                                  *)
Orphans(updates) == [i \in DOMAIN updates |-> [updates[i] EXCEPT !.live = FALSE]]

LEMMA OrphansFacts ==
  ASSUME NEW s \in Seq(Update)
  PROVE  /\ Orphans(s) \in Seq(Update) /\ (Orphans(s) = <<>> <=> s = <<>>)
         /\ s # <<>> => Last(Orphans(s)).likes = Last(s).likes
<1>1. DOMAIN Orphans(s) = 1 .. Len(s) /\ Len(s) \in Nat /\ DOMAIN s = 1 .. Len(s)
  BY DEF Orphans
<1>2. \A i \in 1 .. Len(s) : Orphans(s)[i] = [s[i] EXCEPT !.live = FALSE]
  BY <1>1 DEF Orphans
<1>3. \A i \in 1 .. Len(s) : Orphans(s)[i] \in Update /\ Orphans(s)[i].likes = s[i].likes
  <2> SUFFICES ASSUME NEW i \in 1 .. Len(s)
               PROVE  Orphans(s)[i] \in Update /\ Orphans(s)[i].likes = s[i].likes
    OBVIOUS
  <2>1. s[i] \in Update
    BY <1>1, ElementFacts
  <2> QED BY <1>2, <2>1 DEF Update
<1>4. Orphans(s) = [i \in 1 .. Len(s) |-> Orphans(s)[i]]
  BY <1>1 DEF Orphans
<1>5. Orphans(s) \in [1 .. Len(s) -> Update]
  BY <1>3, <1>4, Zenon
<1>6. Orphans(s) \in Seq(Update) /\ Len(Orphans(s)) = Len(s)
  BY <1>1, <1>5
<1>7. (Orphans(s) = <<>>) <=> (s = <<>>)
  BY <1>1, <1>6
<1>8. s # <<>> => Last(Orphans(s)).likes = Last(s).likes
  BY <1>1, <1>3, <1>6 DEF Last
<1> QED BY <1>6, <1>7, <1>8

(* What a device sees of the document doc with its updates over it.        *)
Seen(doc, u, updates) == IF updates = <<>> THEN doc ELSE After(doc, u, Last(updates))

LEMMA SeenFacts ==
  ASSUME NEW doc \in Docs \union {NoDoc}, NEW u \in Users, NEW updates \in Seq(Update)
  PROVE  /\ Seen(doc, u, updates) \in Docs \union {NoDoc}
         /\ Seen(doc, u, updates) = NoDoc <=> doc = NoDoc
         /\ updates = <<>> => Seen(doc, u, updates) = doc
         /\ doc # NoDoc /\ updates # <<>> =>
              (u \in Seen(doc, u, updates).likes <=> Last(updates).likes)
<1>1. updates # <<>> => Last(updates) \in Update
  BY LastFacts
<1>2. CASE doc = NoDoc
  BY <1>2 DEF Seen, After
<1>3. CASE doc # NoDoc /\ updates = <<>>
  BY <1>3 DEF Seen
<1>4. CASE doc # NoDoc /\ updates # <<>>
  <2>1. Seen(doc, u, updates) = After(doc, u, Last(updates)) /\ doc \in Docs
    BY <1>4 DEF Seen
  <2> QED BY <1>1, <1>4, <2>1, AfterFacts
<1> QED BY <1>2, <1>3, <1>4

LEMMA ViewIsSeen ==
  ASSUME NEW u \in Users
  PROVE  /\ View(u) = Seen(firestore, u, queue[u])
         /\ View(u)' = Seen(firestore', u, queue'[u])
BY DEF View, Seen

LEMMA LikesFacts ==
  ASSUME TypeOK, NEW u \in Users
  PROVE  /\ firestore \in Docs \union {NoDoc}
         /\ post[u] \in Docs /\ feed[u] \in Docs
         /\ queue[u] \in Seq(Update) /\ acks[u] \in Nat /\ asked[u] \in Nat
         /\ reads[u] \in Seq(Docs \union {NoDoc})
         /\ View(u) \in Docs \union {NoDoc} /\ (View(u) = NoDoc <=> firestore = NoDoc)
<1>1. firestore \in Docs \union {NoDoc} /\ queue[u] \in Seq(Update)
  BY DEF TypeOK, SyncTypeOK
<1>2. /\ post[u] \in Docs /\ feed[u] \in Docs
      /\ acks[u] \in Nat /\ asked[u] \in Nat
      /\ reads[u] \in Seq(Docs \union {NoDoc})
  BY DEF TypeOK
<1>3. View(u) \in Docs \union {NoDoc} /\ (View(u) = NoDoc <=> firestore = NoDoc)
  <2>1. View(u) = Seen(firestore, u, queue[u])
    BY ViewIsSeen
  <2>2. /\ Seen(firestore, u, queue[u]) \in Docs \union {NoDoc}
        /\ Seen(firestore, u, queue[u]) = NoDoc <=> firestore = NoDoc
    BY <1>1, SeenFacts
  <2> QED BY <2>1, <2>2
<1> QED BY <1>1, <1>2, <1>3

(* The like of a device's user, as the device sees it, comes from the same *)
(* place as long as its updates are the same.                              *)
LEMMA SameView ==
  ASSUME TypeOK, NEW u \in Users, firestore # NoDoc,
         firestore' \in Docs, queue'[u] = queue[u],
         u \in firestore'.likes <=> u \in firestore.likes
  PROVE  u \in View(u)'.likes <=> u \in View(u).likes
<1>1. firestore' # NoDoc
  BY DocFacts
<1> QED BY <1>1, LikesFacts, ViewIsSeen, SeenFacts

(* A device that a step leaves alone.                                      *)
LEMMA Untouched ==
  ASSUME TypeOK, NEW u \in Users, HeartOK(u), firestore # NoDoc,
         firestore' \in Docs, u \in firestore'.likes <=> u \in firestore.likes,
         post'[u] = post[u], queue'[u] = queue[u], acks'[u] = acks[u],
         asked'[u] = asked[u], reads'[u] = reads[u],
         u \notin stale' => u \notin stale
  PROVE  HeartOK(u)'
<1>1. u \in View(u)'.likes <=> u \in View(u).likes
  BY SameView
<1>2. Newest(u)' = Newest(u) /\ (ReadBack(u)' => ReadBack(u))
  BY DEF Newest, ReadBack
<1> QED BY <1>1, <1>2 DEF HeartOK

(* One whose row has an update to be committed or read back.               *)
LEMMA NotReadBack ==
  ASSUME NEW u \in Users, ~ReadBack(u)', \A i \in DOMAIN reads'[u] : reads'[u][i] # NoDoc
  PROVE  HeartOK(u)'
BY DEF HeartOK

-----------------------------------------------------------------------------
(***************************************************************************)
(* The steps of a device.                                                  *)
(***************************************************************************)
LEMMA SameSync ==
  ASSUME SyncInv, UNCHANGED syncVars
  PROVE  SyncInv' /\ SyncTypeOK'
BY DEF SyncInv, syncVars, SyncTypeOK, HistoryOK, GhostsOK, IndexOK, Indexed

LEMMA TapKeeps ==
  ASSUME LikesInv, NEW u \in Users, NEW likes \in BOOLEAN, Tap(u, likes)
  PROVE  LikesInv'
<1> DEFINE update == [likes |-> likes, live |-> TRUE]
<1>0. TypeOK /\ SyncInv /\ HeartsOK
  BY DEF LikesInv
<1>1. /\ UNCHANGED <<syncVars, shownVars, acks, asked, reads, errors>>
      /\ taps < MaxTaps /\ taps' = taps + 1
      /\ queue' = [queue EXCEPT ![u] = Append(@, update)]
  BY DEF Tap
<1>2. update \in Update /\ update.live
  BY DEF Update
<1> HIDE DEF update
<1>3. queue[u] \in Seq(Update)
  BY <1>0, LikesFacts
<1>4. /\ Append(queue[u], update) \in Seq(Update)
      /\ Len(queue[u]) + 1 \in DOMAIN Append(queue[u], update)
      /\ Append(queue[u], update)[Len(queue[u]) + 1] = update
  BY <1>2, <1>3, AppendFacts
<1>5. queue'[u] = Append(queue[u], update) /\ \A v \in Users \ {u} : queue'[v] = queue[v]
  BY <1>0, <1>1 DEF TypeOK
<1>6. SyncInv' /\ SyncTypeOK'
  BY <1>0, <1>1, SameSync
<1>7. TypeOK'
  <2>1. queue' \in [Users -> Seq(Update)]
    BY <1>0, <1>1, <1>4 DEF TypeOK
  <2>2. taps' \in 0 .. MaxTaps
    BY <1>0, <1>1, LikesAssumption DEF TypeOK
  <2> QED BY <1>0, <1>1, <1>6, <2>1, <2>2 DEF TypeOK, shownVars
<1>8. HeartsOK'
  <2> SUFFICES ASSUME firestore' # NoDoc, NEW v \in Users
               PROVE  HeartOK(v)'
    BY DEF HeartsOK
  <2>1. firestore' = firestore /\ firestore \in Docs /\ HeartOK(v)
    BY <1>0, <1>1 DEF syncVars, HeartsOK, TypeOK, SyncTypeOK
  <2>2. CASE v = u
    <3>1. ~ReadBack(u)'
      BY <1>2, <1>4, <1>5 DEF ReadBack
    <3> QED BY <1>1, <2>1, <2>2, <3>1, NotReadBack DEF HeartOK
  <2>3. CASE v # u
    BY <1>0, <1>1, <1>5, <2>1, <2>3, Untouched, DocFacts DEF shownVars
  <2> QED BY <2>2, <2>3
<1> QED BY <1>6, <1>7, <1>8 DEF LikesInv

LEMMA AcknowledgedKeeps ==
  ASSUME LikesInv, NEW u \in Users, Acknowledged(u)
  PROVE  LikesInv'
<1>0. TypeOK /\ SyncInv /\ HeartsOK
  BY DEF LikesInv
<1>1. /\ UNCHANGED <<syncVars, shownVars, queue, reads, taps, errors>>
      /\ acks[u] > 0 /\ acks' = [acks EXCEPT ![u] = @ - 1]
      /\ asked' = [asked EXCEPT ![u] = @ + 1]
  BY DEF Acknowledged
<1>2. acks[u] \in Nat /\ asked[u] \in Nat
  BY <1>0, LikesFacts
<1>3. /\ asked'[u] = asked[u] + 1
      /\ \A v \in Users \ {u} : asked'[v] = asked[v] /\ acks'[v] = acks[v]
  BY <1>0, <1>1 DEF TypeOK
<1>4. SyncInv' /\ SyncTypeOK'
  BY <1>0, <1>1, SameSync
<1>5. TypeOK'
  <2>1. acks' \in [Users -> Nat] /\ asked' \in [Users -> Nat]
    BY <1>0, <1>1, <1>2 DEF TypeOK
  <2> QED BY <1>0, <1>1, <1>4, <2>1 DEF TypeOK, shownVars
<1>6. HeartsOK'
  <2> SUFFICES ASSUME firestore' # NoDoc, NEW v \in Users
               PROVE  HeartOK(v)'
    BY DEF HeartsOK
  <2>1. firestore' = firestore /\ firestore \in Docs /\ HeartOK(v)
    BY <1>0, <1>1 DEF syncVars, HeartsOK, TypeOK, SyncTypeOK
  <2>2. CASE v = u
    <3>1. ~ReadBack(u)'
      BY <1>2, <1>3 DEF ReadBack
    <3> QED BY <1>1, <2>1, <2>2, <3>1, NotReadBack DEF HeartOK
  <2>3. CASE v # u
    BY <1>0, <1>1, <1>3, <2>1, <2>3, Untouched, DocFacts DEF shownVars
  <2> QED BY <2>2, <2>3
<1> QED BY <1>4, <1>5, <1>6 DEF LikesInv

LEMMA ReadEvaluatedKeeps ==
  ASSUME LikesInv, NEW u \in Users, ReadEvaluated(u)
  PROVE  LikesInv'
<1>0. TypeOK /\ SyncInv /\ HeartsOK
  BY DEF LikesInv
<1>1. /\ UNCHANGED <<syncVars, shownVars, queue, acks, taps, errors>>
      /\ asked[u] > 0 /\ asked' = [asked EXCEPT ![u] = @ - 1]
      /\ reads' = [reads EXCEPT ![u] = Append(@, View(u))]
  BY DEF ReadEvaluated
<1>2. /\ asked[u] \in Nat /\ reads[u] \in Seq(Docs \union {NoDoc})
      /\ View(u) \in Docs \union {NoDoc} /\ (View(u) = NoDoc <=> firestore = NoDoc)
  BY <1>0, LikesFacts
<1>3. /\ reads'[u] = Append(reads[u], View(u))
      /\ \A v \in Users \ {u} : asked'[v] = asked[v] /\ reads'[v] = reads[v]
  BY <1>0, <1>1 DEF TypeOK
<1>4. SyncInv' /\ SyncTypeOK'
  BY <1>0, <1>1, SameSync
<1>5. /\ reads'[u] \in Seq(Docs \union {NoDoc}) /\ reads'[u] # <<>>
      /\ Last(reads'[u]) = View(u)
      /\ DOMAIN reads'[u] = DOMAIN reads[u] \union {Len(reads[u]) + 1}
      /\ reads'[u][Len(reads[u]) + 1] = View(u)
      /\ \A i \in DOMAIN reads[u] : reads'[u][i] = reads[u][i]
  BY <1>2, <1>3, AppendFacts, AppendLast
<1>6. TypeOK'
  <2>1. asked' \in [Users -> Nat]
    BY <1>0, <1>1, <1>2 DEF TypeOK
  <2>2. reads' \in [Users -> Seq(Docs \union {NoDoc})]
    BY <1>0, <1>1, <1>3, <1>5 DEF TypeOK
  <2> QED BY <1>0, <1>1, <1>4, <2>1, <2>2 DEF TypeOK, shownVars
<1>7. HeartsOK'
  <2> SUFFICES ASSUME firestore' # NoDoc, NEW v \in Users
               PROVE  HeartOK(v)'
    BY DEF HeartsOK
  <2>1. firestore' = firestore /\ firestore \in Docs /\ HeartOK(v)
    BY <1>0, <1>1 DEF syncVars, HeartsOK, TypeOK, SyncTypeOK
  <2>2. CASE v = u
    <3>1. \A i \in DOMAIN reads'[u] : reads'[u][i] # NoDoc
      BY <1>2, <1>5, <2>1, <2>2, DocFacts DEF HeartOK
    <3>2. Newest(u)' = View(u)
      BY <1>5 DEF Newest
    <3>3. u \in View(u)'.likes <=> u \in View(u).likes
      BY <1>0, <1>1, <2>1, SameView, DocFacts
    <3> QED BY <2>2, <3>1, <3>2, <3>3 DEF HeartOK
  <2>3. CASE v # u
    BY <1>0, <1>1, <1>3, <2>1, <2>3, Untouched, DocFacts DEF shownVars
  <2> QED BY <2>2, <2>3
<1> QED BY <1>4, <1>6, <1>7 DEF LikesInv

LEMMA ReadFailsKeeps ==
  ASSUME LikesInv, NEW u \in Users, ReadFails(u)
  PROVE  LikesInv'
<1>0. TypeOK /\ SyncInv /\ HeartsOK
  BY DEF LikesInv
<1>1. /\ UNCHANGED <<syncVars, post, feed, queue, acks, reads, taps>>
      /\ asked[u] > 0 /\ asked' = [asked EXCEPT ![u] = @ - 1]
      /\ errors < MaxErrors /\ errors' = errors + 1
      /\ stale' = stale \union {u}
  BY DEF ReadFails
<1>2. asked[u] \in Nat /\ \A v \in Users \ {u} : asked'[v] = asked[v]
  BY <1>0, <1>1, LikesFacts DEF TypeOK
<1>3. SyncInv' /\ SyncTypeOK'
  BY <1>0, <1>1, SameSync
<1>4. TypeOK'
  <2>1. asked' \in [Users -> Nat]
    BY <1>0, <1>1, <1>2 DEF TypeOK
  <2>2. errors' \in 0 .. MaxErrors
    BY <1>0, <1>1, LikesAssumption DEF TypeOK
  <2>3. stale' \subseteq Users
    BY <1>0, <1>1 DEF TypeOK
  <2> QED BY <1>0, <1>1, <1>3, <2>1, <2>2, <2>3 DEF TypeOK
<1>5. HeartsOK'
  <2> SUFFICES ASSUME firestore' # NoDoc, NEW v \in Users
               PROVE  HeartOK(v)'
    BY DEF HeartsOK
  <2>1. firestore' = firestore /\ firestore \in Docs /\ HeartOK(v)
    BY <1>0, <1>1 DEF syncVars, HeartsOK, TypeOK, SyncTypeOK
  <2>2. CASE v = u
    BY <1>1, <2>1, <2>2 DEF HeartOK
  <2>3. CASE v # u
    BY <1>0, <1>1, <1>2, <2>1, <2>3, Untouched, DocFacts
  <2> QED BY <2>2, <2>3
<1> QED BY <1>3, <1>4, <1>5 DEF LikesInv

LEMMA ReadReplyKeeps ==
  ASSUME LikesInv, NEW u \in Users, ReadReply(u)
  PROVE  LikesInv'
<1> DEFINE doc == Head(reads[u])
<1>0. TypeOK /\ SyncInv /\ HeartsOK
  BY DEF LikesInv
<1>1. /\ UNCHANGED <<syncVars, feed, stale, queue, acks, asked, taps, errors>>
      /\ reads[u] # <<>> /\ reads' = [reads EXCEPT ![u] = Tail(@)]
      /\ post' = IF doc = NoDoc THEN post ELSE [post EXCEPT ![u] = doc]
  BY DEF ReadReply
<1>2. reads[u] \in Seq(Docs \union {NoDoc})
  BY <1>0, LikesFacts
<1>3. /\ Tail(reads[u]) \in Seq(Docs \union {NoDoc}) /\ doc \in Docs \union {NoDoc}
      /\ 1 \in DOMAIN reads[u] /\ doc = reads[u][1]
      /\ \A i \in DOMAIN Tail(reads[u]) :
           i + 1 \in DOMAIN reads[u] /\ Tail(reads[u])[i] = reads[u][i + 1]
  BY <1>1, <1>2, TailFacts
<1>4. /\ Tail(reads[u]) = <<>> => Last(reads[u]) = doc
      /\ Tail(reads[u]) # <<>> => Last(Tail(reads[u])) = Last(reads[u])
  BY <1>1, <1>2, LastFacts
<1> HIDE DEF doc
<1>5. /\ reads'[u] = Tail(reads[u])
      /\ \A v \in Users \ {u} : reads'[v] = reads[v] /\ post'[v] = post[v]
      /\ doc # NoDoc => post'[u] = doc
  BY <1>0, <1>1 DEF TypeOK
<1>6. SyncInv' /\ SyncTypeOK'
  BY <1>0, <1>1, SameSync
<1>7. TypeOK'
  <2>1. reads' \in [Users -> Seq(Docs \union {NoDoc})]
    BY <1>0, <1>1, <1>3 DEF TypeOK
  <2>2. post' \in [Users -> Docs]
    BY <1>0, <1>1, <1>3 DEF TypeOK
  <2> QED BY <1>0, <1>1, <1>6, <2>1, <2>2 DEF TypeOK
<1>8. HeartsOK'
  <2> SUFFICES ASSUME firestore' # NoDoc, NEW v \in Users
               PROVE  HeartOK(v)'
    BY DEF HeartsOK
  <2>1. firestore' = firestore /\ firestore \in Docs /\ HeartOK(v)
    BY <1>0, <1>1 DEF syncVars, HeartsOK, TypeOK, SyncTypeOK
  <2>2. CASE v = u
    <3>1. doc # NoDoc /\ \A i \in DOMAIN reads'[u] : reads'[u][i] # NoDoc
      BY <1>3, <1>5, <2>1, <2>2 DEF HeartOK
    <3>2. Newest(u)' = Newest(u)
      BY <1>1, <1>4, <1>5, <3>1 DEF Newest
    <3>3. u \in View(u)'.likes <=> u \in View(u).likes
      BY <1>0, <1>1, <2>1, SameView, DocFacts
    <3>4. ReadBack(u)' => ReadBack(u)
      BY <1>1 DEF ReadBack
    <3> QED BY <1>1, <2>1, <2>2, <3>1, <3>2, <3>3, <3>4 DEF HeartOK
  <2>3. CASE v # u
    BY <1>0, <1>1, <1>5, <2>1, <2>3, Untouched, DocFacts
  <2> QED BY <2>2, <2>3
<1> QED BY <1>6, <1>7, <1>8 DEF LikesInv

(* A new row: its updates are no longer its own, but still the device's.   *)
LEMMA NewRowKeeps ==
  ASSUME LikesInv, NEW u \in Users, NEW doc \in Docs, NewRow(u, doc),
         feed' \in [Users -> Docs], stale' \subseteq Users,
         \A v \in Users \ {u} : v \notin stale' => v \notin stale,
         u \notin stale' /\ firestore # NoDoc => doc = View(u)
  PROVE  LikesInv'
<1> DEFINE orphans == [i \in DOMAIN queue[u] |-> [queue[u][i] EXCEPT !.live = FALSE]]
<1>0. TypeOK /\ SyncInv /\ HeartsOK
  BY DEF LikesInv
<1>1. /\ UNCHANGED <<syncVars, taps, errors>>
      /\ post' = [post EXCEPT ![u] = doc]
      /\ queue' = [queue EXCEPT ![u] = orphans]
      /\ acks' = [acks EXCEPT ![u] = 0] /\ asked' = [asked EXCEPT ![u] = 0]
      /\ reads' = [reads EXCEPT ![u] = <<>>]
  BY DEF NewRow
<1>2. queue[u] \in Seq(Update)
  BY <1>0, LikesFacts
<1>3. orphans = Orphans(queue[u])
  BY DEF Orphans
<1> HIDE DEF orphans
<1>4. /\ orphans \in Seq(Update) /\ (orphans = <<>> <=> queue[u] = <<>>)
      /\ queue[u] # <<>> => Last(orphans).likes = Last(queue[u]).likes
  BY <1>2, <1>3, OrphansFacts
<1>6. /\ queue'[u] = orphans /\ post'[u] = doc /\ reads'[u] = <<>>
      /\ \A v \in Users \ {u} :
           /\ queue'[v] = queue[v] /\ post'[v] = post[v] /\ acks'[v] = acks[v]
           /\ asked'[v] = asked[v] /\ reads'[v] = reads[v]
  BY <1>0, <1>1 DEF TypeOK
<1>7. SyncInv' /\ SyncTypeOK'
  BY <1>0, <1>1, SameSync
<1>8. TypeOK'
  <2>1. post' \in [Users -> Docs] /\ queue' \in [Users -> Seq(Update)]
    BY <1>0, <1>1, <1>4 DEF TypeOK
  <2>2. acks' \in [Users -> Nat] /\ asked' \in [Users -> Nat]
    BY <1>0, <1>1 DEF TypeOK
  <2>3. reads' \in [Users -> Seq(Docs \union {NoDoc})]
    BY <1>0, <1>1 DEF TypeOK
  <2> QED BY <1>0, <1>1, <1>7, <2>1, <2>2, <2>3 DEF TypeOK
<1>9. HeartsOK'
  <2> SUFFICES ASSUME firestore' # NoDoc, NEW v \in Users
               PROVE  HeartOK(v)'
    BY DEF HeartsOK
  <2>1. firestore' = firestore /\ firestore \in Docs /\ HeartOK(v)
    BY <1>0, <1>1 DEF syncVars, HeartsOK, TypeOK, SyncTypeOK
  <2>2. CASE v = u
    <3>1. u \in View(u)'.likes <=> u \in View(u).likes
      BY <1>2, <1>4, <1>6, <2>1, ViewIsSeen, SeenFacts
    <3>2. Newest(u)' = doc
      BY <1>6 DEF Newest
    <3>3. \A i \in DOMAIN reads'[u] : FALSE
      BY <1>6
    <3> QED BY <2>1, <2>2, <3>1, <3>2, <3>3 DEF HeartOK
  <2>3. CASE v # u
    BY <1>0, <1>6, <2>1, <2>3, Untouched, DocFacts
  <2> QED BY <2>2, <2>3
<1> QED BY <1>7, <1>8, <1>9 DEF LikesInv

LEMMA RebuildKeeps ==
  ASSUME LikesInv, NEW u \in Users, Rebuild(u)
  PROVE  LikesInv'
<1>1. TypeOK /\ feed[u] \in Docs
  BY LikesFacts DEF LikesInv
<1>2. /\ NewRow(u, feed[u]) /\ stale' = stale \union {u} /\ feed' = feed
  BY DEF Rebuild
<1>3. feed' \in [Users -> Docs] /\ stale' \subseteq Users /\ u \in stale'
  BY <1>1, <1>2 DEF TypeOK
<1>4. \A v \in Users \ {u} : v \notin stale' => v \notin stale
  BY <1>2
<1> QED BY <1>1, <1>2, <1>3, <1>4, NewRowKeeps

LEMMA ReloadKeeps ==
  ASSUME LikesInv, NEW u \in Users, Reload(u)
  PROVE  LikesInv'
<1>1. TypeOK /\ View(u) \in Docs \union {NoDoc}
  BY LikesFacts DEF LikesInv
<1>2. /\ NewRow(u, View(u)) /\ View(u) # NoDoc
      /\ stale' = stale \ {u} /\ feed' = [feed EXCEPT ![u] = View(u)]
  BY DEF Reload
<1>3. View(u) \in Docs
  BY <1>1, <1>2
<1>4. feed' \in [Users -> Docs] /\ stale' \subseteq Users
  BY <1>1, <1>2, <1>3 DEF TypeOK
<1>5. \A v \in Users \ {u} : v \notin stale' => v \notin stale
  BY <1>2
<1> QED BY <1>2, <1>3, <1>4, <1>5, NewRowKeeps

-----------------------------------------------------------------------------
(***************************************************************************)
(* The steps of the service.                                               *)
(***************************************************************************)

(* An update changes its own user's like and nobody else's.  That of a row *)
(* still on the screen is about to be read back; any other does not change *)
(* what its device sees.                                                   *)
LEMMA CommitKeeps ==
  ASSUME LikesInv, NEW u \in Users, Commit(u)
  PROVE  LikesInv'
<1> DEFINE update == Head(queue[u])
           after == After(firestore, u, update)
<1>0. TypeOK /\ SyncInv /\ HeartsOK
  BY DEF LikesInv
<1>1. /\ UNCHANGED <<shownVars, asked, reads, taps, errors>>
      /\ queue[u] # <<>> /\ queue' = [queue EXCEPT ![u] = Tail(@)]
      /\ Becomes(after)
      /\ acks' = [acks EXCEPT ![u] = IF update.live /\ firestore # NoDoc THEN @ + 1 ELSE @]
  BY DEF Commit
<1>2. queue[u] \in Seq(Update) /\ acks[u] \in Nat /\ firestore \in Docs \union {NoDoc}
  BY <1>0, LikesFacts
<1>3. /\ Tail(queue[u]) \in Seq(Update) /\ update \in Update
      /\ 1 \in DOMAIN queue[u] /\ update = queue[u][1]
      /\ \A i \in DOMAIN Tail(queue[u]) :
           i + 1 \in DOMAIN queue[u] /\ Tail(queue[u])[i] = queue[u][i + 1]
  BY <1>1, <1>2, TailFacts
<1>4. /\ Tail(queue[u]) = <<>> => Last(queue[u]) = update
      /\ Tail(queue[u]) # <<>> => Last(Tail(queue[u])) = Last(queue[u])
  BY <1>1, <1>2, LastFacts
<1> HIDE DEF update
<1>5. after \in Docs \union {NoDoc} /\ (firestore = NoDoc => after = NoDoc)
  <2>1. CASE firestore = NoDoc
    BY <2>1 DEF After
  <2>2. CASE firestore # NoDoc
    BY <1>2, <1>3, <2>2, AfterFacts
  <2> QED BY <2>1, <2>2
<1> HIDE DEF after
<1>6. SyncInv' /\ SyncTypeOK' /\ firestore' = after
  <2>1. SyncInv'
    BY <1>0, <1>1, <1>5, BecomesKeeps
  <2> QED BY <1>1, <2>1 DEF SyncInv, Becomes
<1>7. /\ queue'[u] = Tail(queue[u])
      /\ acks'[u] = IF update.live /\ firestore # NoDoc THEN acks[u] + 1 ELSE acks[u]
      /\ \A v \in Users \ {u} : queue'[v] = queue[v] /\ acks'[v] = acks[v]
  BY <1>0, <1>1 DEF TypeOK
<1>8. TypeOK'
  <2>1. queue' \in [Users -> Seq(Update)]
    BY <1>0, <1>1, <1>3 DEF TypeOK
  <2>2. acks' \in [Users -> Nat]
    BY <1>0, <1>1, <1>2 DEF TypeOK
  <2> QED BY <1>0, <1>1, <1>6, <2>1, <2>2 DEF TypeOK, shownVars
<1>9. HeartsOK'
  <2> SUFFICES ASSUME firestore' # NoDoc, NEW v \in Users
               PROVE  HeartOK(v)'
    BY DEF HeartsOK
  <2>1. firestore # NoDoc /\ firestore \in Docs /\ HeartOK(v)
    BY <1>0, <1>2, <1>5, <1>6 DEF HeartsOK
  <2>2. /\ firestore' \in Docs
        /\ \A w \in Users \ {u} : w \in firestore'.likes <=> w \in firestore.likes
    <3>1. after = After(firestore, u, update)
      BY DEF after
    <3>2. /\ After(firestore, u, update) \in Docs
          /\ \A w \in Users \ {u} :
               w \in After(firestore, u, update).likes <=> w \in firestore.likes
      BY <1>3, <2>1, AfterFacts
    <3> QED BY <1>6, <3>1, <3>2
  <2>3. CASE v = u /\ update.live
    <3>1. ~ReadBack(u)'
      BY <1>2, <1>7, <2>1, <2>3 DEF ReadBack
    <3> QED BY <1>1, <2>1, <2>3, <3>1, NotReadBack DEF HeartOK
  <2>4. CASE v = u /\ ~update.live
    <3>1. acks'[u] = acks[u] /\ asked' = asked
      BY <1>1, <1>7, <2>4
    <3>2. ReadBack(u)' => ReadBack(u)
      <4>1. DOMAIN queue[u] = 1 .. Len(queue[u]) /\ Len(queue[u]) \in Nat
        BY <1>2
      <4>2. DOMAIN Tail(queue[u]) = 1 .. Len(queue[u]) - 1
        BY <1>1, <1>2
      <4>3. \A i \in DOMAIN queue[u] : i = 1 \/ i - 1 \in DOMAIN Tail(queue[u])
        BY <4>1, <4>2
      <4>4. \A i \in DOMAIN queue[u] :
              i = 1 \/ queue[u][i] = Tail(queue[u])[i - 1]
        <5> SUFFICES ASSUME NEW i \in DOMAIN queue[u], i # 1
                     PROVE  queue[u][i] = Tail(queue[u])[i - 1]
          OBVIOUS
        <5>1. i - 1 \in DOMAIN Tail(queue[u]) /\ (i - 1) + 1 = i
          BY <4>1, <4>3
        <5> QED BY <1>3, <5>1
      <4> QED BY <1>3, <1>7, <2>4, <3>1, <4>3, <4>4 DEF ReadBack
    <3>3. u \in View(u)'.likes <=> u \in View(u).likes
      <4>1. CASE Tail(queue[u]) = <<>>
        <5>1. View(u) = after
          BY <1>1, <1>4, <4>1 DEF View, after
        <5>2. View(u)' = after
          BY <1>6, <1>7, <4>1, ViewIsSeen DEF Seen
        <5> QED BY <5>1, <5>2
      <4>2. CASE Tail(queue[u]) # <<>>
        <5>1. u \in View(u).likes <=> Last(queue[u]).likes
          BY <1>1, <1>2, <2>1, ViewIsSeen, SeenFacts
        <5>2. u \in View(u)'.likes <=> Last(Tail(queue[u])).likes
          <6>1. View(u)' = Seen(firestore', u, Tail(queue[u]))
            BY <1>7, ViewIsSeen
          <6>2. /\ Tail(queue[u]) \in Seq(Update) /\ firestore' \in Docs
                /\ firestore' # NoDoc
            BY <1>3, <2>2
          <6>3. u \in Seen(firestore', u, Tail(queue[u])).likes <=> Last(Tail(queue[u])).likes
            BY <4>2, <6>2, SeenFacts
          <6> QED BY <6>1, <6>3
        <5> QED BY <1>4, <4>2, <5>1, <5>2
      <4> QED BY <4>1, <4>2
    <3>4. Newest(u)' = Newest(u)
      BY <1>1 DEF Newest, shownVars
    <3> QED BY <1>1, <2>1, <2>4, <3>2, <3>3, <3>4 DEF HeartOK, shownVars
  <2>5. CASE v # u
    BY <1>0, <1>1, <1>7, <2>1, <2>2, <2>5, Untouched DEF shownVars
  <2> QED BY <2>3, <2>4, <2>5
<1> QED BY <1>6, <1>8, <1>9 DEF LikesInv

(* The poster's own changes leave the likes alone.                         *)
LEMMA PosterKeeps ==
  ASSUME LikesInv, Edit \/ Delete
  PROVE  LikesInv'
<1>0. TypeOK /\ SyncInv /\ HeartsOK
  BY DEF LikesInv
<1>1. /\ UNCHANGED <<shownVars, queue, acks, asked, reads, taps, errors>>
      /\ firestore # NoDoc
  BY DEF Edit, Delete
<1>2. firestore \in Docs
  BY <1>0, <1>1 DEF TypeOK, SyncTypeOK
<1>3. PICK d \in Docs \union {NoDoc} : Becomes(d) /\ (d # NoDoc => d.likes = firestore.likes)
  <2>1. CASE Delete
    BY <2>1 DEF Delete
  <2>2. CASE Edit
    <3> DEFINE d == [firestore EXCEPT !.text = @ + 1]
    <3>1. Becomes(d) /\ firestore.text < MaxEdits
      BY <2>2 DEF Edit
    <3>2. firestore \in [text: 0 .. MaxEdits, likes: SUBSET Users]
      BY <1>2, DocFacts
    <3>3. firestore.text + 1 \in 0 .. MaxEdits
      BY <3>1, <3>2, LikesAssumption
    <3>4. d \in [text: 0 .. MaxEdits, likes: SUBSET Users] /\ d.likes = firestore.likes
      BY <3>2, <3>3
    <3> QED BY <3>1, <3>4, LikesAssumption
  <2> QED BY <2>1, <2>2
<1>4. SyncInv' /\ SyncTypeOK' /\ firestore' = d
  <2>1. SyncInv'
    BY <1>0, <1>1, <1>3, BecomesKeeps
  <2> QED BY <1>3, <2>1 DEF SyncInv, Becomes
<1>5. TypeOK'
  BY <1>0, <1>1, <1>4 DEF TypeOK, shownVars
<1>6. HeartsOK'
  <2> SUFFICES ASSUME firestore' # NoDoc, NEW v \in Users
               PROVE  HeartOK(v)'
    BY DEF HeartsOK
  <2>1. firestore' \in Docs /\ firestore'.likes = firestore.likes
    BY <1>3, <1>4
  <2>2. HeartOK(v)
    BY <1>0, <1>1 DEF HeartsOK
  <2> QED BY <1>0, <1>1, <2>1, <2>2, Untouched DEF shownVars
<1> QED BY <1>4, <1>5, <1>6 DEF LikesInv

LEMMA FunctionsKeep ==
  ASSUME LikesInv, SyncNext, UNCHANGED <<shownVars, queue, acks, asked, reads, taps, errors>>
  PROVE  LikesInv'
<1>0. TypeOK /\ SyncInv /\ HeartsOK
  BY DEF LikesInv
<1>1. SyncInv' /\ firestore' = firestore
  <2>1. CASE \E n \in events : Trigger(n)
    BY <1>0, <2>1, TriggerKeeps DEF Trigger
  <2>2. CASE \E n \in events : TriggerFails(n)
    BY <1>0, <2>2, TriggerFailsKeeps DEF TriggerFails
  <2>3. CASE \E n \in done : TriggerAgain(n)
    BY <1>0, <2>3, TriggerAgainKeeps DEF TriggerAgain
  <2> QED BY <2>1, <2>2, <2>3 DEF SyncNext
<1>2. TypeOK'
  BY <1>0, <1>1 DEF TypeOK, SyncInv, shownVars
<1>3. HeartsOK'
  <2> SUFFICES ASSUME firestore' # NoDoc, NEW v \in Users
               PROVE  HeartOK(v)'
    BY DEF HeartsOK
  <2>1. firestore' \in Docs /\ firestore # NoDoc /\ HeartOK(v)
    BY <1>0, <1>1 DEF HeartsOK, TypeOK, SyncTypeOK
  <2> QED BY <1>0, <1>1, <2>1, Untouched DEF shownVars
<1> QED BY <1>1, <1>2, <1>3 DEF LikesInv

-----------------------------------------------------------------------------
(***************************************************************************)
(* The specification.                                                      *)
(***************************************************************************)
LEMMA LikesStart == Init => LikesInv
<1> SUFFICES ASSUME Init PROVE LikesInv
  OBVIOUS
<1>1. SyncInv
  BY DocFacts, SyncStarts DEF Init
<1>2. TypeOK
  <2>1. taps \in 0 .. MaxTaps /\ errors \in 0 .. MaxErrors
    BY LikesAssumption DEF Init
  <2> QED BY <1>1, <2>1, DocFacts DEF Init, TypeOK, SyncInv
<1>3. HeartsOK
  <2> SUFFICES ASSUME NEW u \in Users PROVE HeartOK(u)
    BY DEF HeartsOK
  <2>1. View(u) = Fresh /\ Newest(u) = Fresh
    BY DEF Init, SyncInit, View, Newest
  <2>2. reads[u] = <<>>
    BY DEF Init
  <2> QED BY <2>1, <2>2 DEF HeartOK
<1> QED BY <1>1, <1>2, <1>3 DEF LikesInv

LEMMA LikesStep == LikesInv /\ [Next]_vars => LikesInv'
<1> SUFFICES ASSUME LikesInv, [Next]_vars PROVE LikesInv'
  OBVIOUS
<1>1. ASSUME NEW u \in Users, TapLike(u) \/ TapUnlike(u)
      PROVE  LikesInv'
  BY <1>1, TapKeeps DEF TapLike, TapUnlike
<1>2. ASSUME NEW u \in Users, Rebuild(u) \/ Reload(u)
      PROVE  LikesInv'
  BY <1>2, RebuildKeeps, ReloadKeeps
<1>3. ASSUME NEW u \in Users, Commit(u) \/ Acknowledged(u)
      PROVE  LikesInv'
  BY <1>3, CommitKeeps, AcknowledgedKeeps
<1>4. ASSUME NEW u \in Users, ReadEvaluated(u) \/ ReadFails(u) \/ ReadReply(u)
      PROVE  LikesInv'
  BY <1>4, ReadEvaluatedKeeps, ReadFailsKeeps, ReadReplyKeeps
<1>5. CASE Edit \/ Delete
  BY <1>5, PosterKeeps
<1>6. CASE SyncNext /\ UNCHANGED <<shownVars, queue, acks, asked, reads, taps, errors>>
  BY <1>6, FunctionsKeep
<1>7. CASE UNCHANGED vars
  <2>1. SyncInv' /\ SyncTypeOK'
    BY <1>7, SameSync DEF LikesInv, vars
  <2>2. TypeOK'
    BY <1>7, <2>1 DEF LikesInv, TypeOK, vars
  <2>3. HeartsOK'
    <3> SUFFICES ASSUME firestore' # NoDoc, NEW v \in Users
                 PROVE  HeartOK(v)'
      BY DEF HeartsOK
    <3>1. firestore' = firestore /\ firestore \in Docs /\ HeartOK(v) /\ TypeOK
      BY <1>7 DEF vars, syncVars, LikesInv, HeartsOK, TypeOK, SyncTypeOK
    <3> QED BY <1>7, <3>1, Untouched DEF vars
  <2> QED BY <2>1, <2>2, <2>3 DEF LikesInv
<1> QED BY <1>1, <1>2, <1>3, <1>4, <1>5, <1>6, <1>7 DEF Next

(* The inductive invariant of likePost, unlikePost and the functions of    *)
(* index.ts: HeartsOK for the devices, SyncInv for the index.              *)
THEOREM LikesInvariance == Spec => []LikesInv
<1> QED BY LikesStart, LikesStep, PTL DEF Spec

(* Every device's state stays of its type: in particular no copy a row     *)
(* shows is ever the copy of a post that is gone, in likePost, unlikePost  *)
(* and the listeners of PostView.                                          *)
THEOREM LikesTypeCorrectness == Spec => []TypeOK
<1>1. LikesInv => TypeOK
  BY DEF LikesInv
<1> QED BY <1>1, LikesInvariance, PTL

(* When a device has nothing under way, its heart shows whether the post   *)
(* has its user's like, for any number of users who like, unlike, reload   *)
(* and are overtaken by the poster: likePost and unlikePost with the read  *)
(* back of FirestoreService.                                               *)
THEOREM HeartSettlesTheorem == Spec => []HeartSettles
<1>1. LikesInv => HeartSettles
  <2> SUFFICES ASSUME LikesInv, NEW u \in Users \ stale, Settled(u), firestore # NoDoc
               PROVE  u \in post[u].likes <=> u \in firestore.likes
    BY DEF HeartSettles
  <2>1. HeartOK(u)
    BY DEF LikesInv, HeartsOK
  <2>2. ReadBack(u)
    BY DEF Settled, ReadBack
  <2>3. Newest(u) = post[u] /\ View(u) = firestore
    BY DEF Settled, Newest, View
  <2> QED BY <2>1, <2>2, <2>3 DEF HeartOK
<1> QED BY <1>1, LikesInvariance, PTL

(* With no failure and no function of an earlier change run after that of a*)
(* later one, the index holds the document once all have run, however often*)
(* each did: onPostCreated, onPostModified and onPostDeleted of index.ts.  *)
THEOREM MirrorsInOrderTheorem == Spec => []MirrorsInOrder
<1>1. LikesInv => MirrorsInOrder
  BY Mirrors DEF LikesInv
<1> QED BY <1>1, LikesInvariance, PTL

(* A deleted post is found again only when the function of its creation ran*)
(* after that of its deletion, or in an index that creates what it is told *)
(* to update, that of an edit: the same three functions of index.ts.       *)
THEOREM GhostsAreLateCreationsTheorem == Spec => []GhostsAreLateCreations
<1>1. LikesInv => GhostsAreLateCreations
  BY Ghosts DEF LikesInv
<1> QED BY <1>1, LikesInvariance, PTL

-----------------------------------------------------------------------------
(***************************************************************************)
(* The search function.                                                    *)
(***************************************************************************)
(* What may follow validation: a filter is numeric or about a text, never  *)
(* both, and has a form the search service knows.                          *)
LEMMA ValidFacts ==
  ASSUME NEW f \in Filter, validateSingleFilter(f)
  PROVE  /\ f \in Accepted
         /\ IsNumeric(f) \/ IsString(f)
         /\ IsNumeric(f) => ~IsString(f)
<1>1. f.field \in numericFields \/ f.field \in stringFields
  BY DEF validateSingleFilter
<1>2. f.field \in numericFields => f.field \notin stringFields
  BY DEF numericFields, stringFields
<1>3. ASSUME f.field \in stringFields PROVE f \in Accepted
  BY <1>2, <1>3 DEF validateSingleFilter, Accepted, Expressible, stringOperators
<1>4. ASSUME f.field \in numericFields PROVE f \in Accepted
  <2>1. f.op \in numericOperators /\ f.value # NaN
    BY <1>2, <1>4, SearchAssumption DEF validateSingleFilter, Number
  <2> QED BY <1>4, <2>1 DEF Accepted, Expressible, Unfinished
<1>5. f \in Accepted
  BY <1>1, <1>3, <1>4
<1> QED BY <1>1, <1>2, <1>5 DEF IsNumeric, IsString

LEMMA QueryStarts == QueryInit => QueryInv
<1> SUFFICES ASSUME QueryInit PROVE QueryInv
  OBVIOUS
<1> USE DEF QueryInit
<1>1. Len(<<>>) = 0 /\ DOMAIN <<>> = {}
  OBVIOUS
<1>2. QueryTypeOK
  BY <1>1, SearchAssumption DEF QueryTypeOK
<1>3. NumericOK /\ StringsOK
  BY <1>1 DEF NumericOK, StringsOK, Passed
<1>4. StageOK
  BY DEF StageOK
<1> QED BY <1>2, <1>3, <1>4 DEF QueryInv

LEMMA AddFilterKeeps ==
  ASSUME QueryInv, NEW f \in Filter, AddFilter(f)
  PROVE  QueryInv'
<1> USE DEF AddFilter, loopVars
<1>1. /\ request \in Seq(Filter) /\ Len(request) \in Nat /\ passed = 0
      /\ status = "waiting"
  BY DEF QueryInv, QueryTypeOK, StageOK
<1>2. request' \in Seq(Filter) /\ Len(request') = Len(request) + 1
  BY <1>1
<1>3. QueryTypeOK'
  BY <1>1, <1>2, SearchAssumption DEF QueryInv, QueryTypeOK
<1>4. Passed = {} /\ Passed' = {}
  BY <1>1 DEF Passed
<1>5. NumericOK'
  BY <1>4 DEF QueryInv, NumericOK
<1>6. StringsOK'
  BY <1>4 DEF QueryInv, StringsOK, GroupOK
<1>7. StageOK'
  BY <1>1 DEF QueryInv, StageOK
<1> QED BY <1>3, <1>5, <1>6, <1>7 DEF QueryInv

LEMMA HandleKeeps ==
  ASSUME QueryInv, Handle
  PROVE  QueryInv'
<1> USE DEF Handle, loopVars
<1>1. QueryTypeOK'
  BY DEF QueryInv, QueryTypeOK
<1>2. NumericOK' /\ StringsOK'
  BY DEF QueryInv, NumericOK, StringsOK, GroupOK, Passed
<1>3. StageOK'
  BY DEF QueryInv, StageOK, validateFilters
<1> QED BY <1>1, <1>2, <1>3 DEF QueryInv

(* Lists by their elements.                                                *)
LEMMA ListFacts ==
  ASSUME NEW S, NEW n \in Nat, NEW s \in [1 .. n -> S]
  PROVE  s \in Seq(S) /\ Len(s) = n
OBVIOUS

(* Each numeric filter is a group by itself.                               *)
LEMMA SingleFacts ==
  ASSUME NEW S, NEW s \in Seq(S)
  PROVE  LET singles == [k \in DOMAIN s |-> <<s[k]>>] IN
         /\ singles \in Seq(Seq(S)) /\ Len(singles) = Len(s)
         /\ \A k \in DOMAIN s : singles[k] = <<s[k]>>
<1> DEFINE singles == [k \in DOMAIN s |-> <<s[k]>>]
<1>1. DOMAIN s = 1 .. Len(s) /\ Len(s) \in Nat
  OBVIOUS
<1>2. \A k \in DOMAIN s : singles[k] = <<s[k]>> /\ <<s[k]>> \in Seq(S)
  OBVIOUS
<1>3. singles = [k \in 1 .. Len(s) |-> singles[k]]
  BY <1>1
<1> HIDE DEF singles
<1>4. singles \in [1 .. Len(s) -> Seq(S)]
  BY <1>1, <1>2, <1>3
<1>5. singles \in Seq(Seq(S)) /\ Len(singles) = Len(s)
  BY <1>1, <1>4, ListFacts
<1> QED BY <1>2, <1>5 DEF singles

LEMMA SearchKeeps ==
  ASSUME QueryInv, Search
  PROVE  QueryInv'
<1> USE DEF Search, loopVars
<1>1. numericQueries \in Seq(Accepted) /\ stringQueryMap \in Seq(Seq(Accepted))
  BY DEF QueryInv, QueryTypeOK
<1>2. [k \in DOMAIN numericQueries |-> <<numericQueries[k]>>] \in Seq(Seq(Accepted))
  BY <1>1, SingleFacts
<1>3. query' \in Seq(Seq(Accepted))
  BY <1>1, <1>2 DEF Groups
<1>4. QueryTypeOK'
  BY <1>3 DEF QueryInv, QueryTypeOK
<1>5. NumericOK' /\ StringsOK'
  BY DEF QueryInv, NumericOK, StringsOK, GroupOK, Passed
<1>6. StageOK'
  BY DEF QueryInv, StageOK, validateFilters, Groups
<1> QED BY <1>4, <1>5, <1>6 DEF QueryInv

LEMMA NextRequestKeeps ==
  ASSUME QueryInv, NextRequest
  PROVE  QueryInv'
<1> USE DEF NextRequest
<1>1. Len(<<>>) = 0 /\ DOMAIN <<>> = {}
  OBVIOUS
<1>2. QueryTypeOK'
  BY <1>1, SearchAssumption DEF QueryInv, QueryTypeOK
<1>3. NumericOK' /\ StringsOK'
  BY <1>1 DEF NumericOK, StringsOK, Passed
<1>4. StageOK'
  BY DEF StageOK
<1> QED BY <1>2, <1>3, <1>4 DEF QueryInv

(* An iteration of the loop.                                               *)
LEMMA IterateFacts ==
  ASSUME QueryInv, Iterate
  PROVE  /\ request[passed + 1] \in Filter
         /\ validateSingleFilter(request[passed + 1])
         /\ passed \in Nat /\ passed + 1 \in DOMAIN request
         /\ Passed' = Passed \union {passed + 1} /\ passed + 1 \notin Passed
         /\ Passed \subseteq DOMAIN request
<1>1. request \in Seq(Filter) /\ passed \in Nat /\ passed < Len(request)
  BY DEF QueryInv, QueryTypeOK, Iterate
<1>2. passed + 1 \in DOMAIN request /\ request[passed + 1] \in Filter
  BY <1>1
<1>3. validateSingleFilter(request[passed + 1])
  BY <1>2, Zenon DEF QueryInv, StageOK, Iterate, validateFilters
<1>4. /\ Passed' = Passed \union {passed + 1} /\ passed + 1 \notin Passed
      /\ Passed \subseteq DOMAIN request
  BY <1>1 DEF Passed, Iterate
<1> QED BY <1>1, <1>2, <1>3, <1>4

LEMMA NumericIterates ==
  ASSUME QueryInv, Iterate
  PROVE  NumericOK' /\ numericQueries' \in Seq(Accepted)
<1> DEFINE f == request[passed + 1]
<1>1. /\ request' = request
      /\ numericQueries' = IF IsNumeric(f) THEN Append(numericQueries, f) ELSE numericQueries
  BY DEF Iterate, PushNumeric
<1>2. f \in Accepted /\ Passed' = Passed \union {passed + 1}
  BY IterateFacts, ValidFacts
<1>3. numericQueries \in Seq(Accepted) /\ NumericOK
  BY DEF QueryInv, QueryTypeOK
<1>4. CASE IsNumeric(f)
  <2>1. numericQueries' = Append(numericQueries, f)
    BY <1>1, <1>4
  <2>2. /\ numericQueries' \in Seq(Accepted)
        /\ DOMAIN numericQueries' = DOMAIN numericQueries \union {Len(numericQueries) + 1}
        /\ numericQueries'[Len(numericQueries) + 1] = f
        /\ \A k \in DOMAIN numericQueries : numericQueries'[k] = numericQueries[k]
    BY <1>2, <1>3, <2>1
  <2>3. \A k \in DOMAIN numericQueries' : \E n \in Passed' :
          IsNumeric(request[n]) /\ numericQueries'[k] = request[n]
    BY <1>2, <1>3, <1>4, <2>2 DEF NumericOK
  <2>4. \A n \in Passed' : IsNumeric(request[n]) =>
          \E k \in DOMAIN numericQueries' : numericQueries'[k] = request[n]
    BY <1>2, <1>3, <2>2 DEF NumericOK
  <2> QED BY <1>1, <2>2, <2>3, <2>4 DEF NumericOK
<1>5. CASE ~IsNumeric(f)
  BY <1>1, <1>2, <1>3, <1>5 DEF NumericOK
<1> QED BY <1>4, <1>5

(* What SetString makes of the map: f joins the group of its field, or is  *)
(* the first of a new one.                                                 *)
LEMMA SetStringFacts ==
  ASSUME NEW f \in Accepted, stringQueryMap \in Seq(Seq(Accepted)),
         \A k \in DOMAIN stringQueryMap : stringQueryMap[k] # <<>>
  PROVE  /\ SetString(f) \in Seq(Seq(Accepted))
         /\ \/ /\ \E k \in DOMAIN stringQueryMap : stringQueryMap[k][1].field = f.field
               /\ DOMAIN SetString(f) = DOMAIN stringQueryMap
               /\ \A k \in DOMAIN stringQueryMap :
                    SetString(f)[k] = IF stringQueryMap[k][1].field = f.field
                                      THEN Append(stringQueryMap[k], f) ELSE stringQueryMap[k]
            \/ /\ \A k \in DOMAIN stringQueryMap : stringQueryMap[k][1].field # f.field
               /\ DOMAIN SetString(f) = DOMAIN stringQueryMap \union {Len(stringQueryMap) + 1}
               /\ Len(stringQueryMap) + 1 \notin DOMAIN stringQueryMap
               /\ SetString(f)[Len(stringQueryMap) + 1] = <<f>>
               /\ \A k \in DOMAIN stringQueryMap : SetString(f)[k] = stringQueryMap[k]
<1> DEFINE Has(k) == stringQueryMap[k][1].field = f.field
<1>1. /\ DOMAIN stringQueryMap = 1 .. Len(stringQueryMap) /\ Len(stringQueryMap) \in Nat
      /\ \A k \in DOMAIN stringQueryMap : stringQueryMap[k] \in Seq(Accepted)
  OBVIOUS
<1>2. CASE \E k \in DOMAIN stringQueryMap : Has(k)
  <2> DEFINE new == [k \in DOMAIN stringQueryMap |->
                      IF Has(k) THEN Append(stringQueryMap[k], f) ELSE stringQueryMap[k]]
  <2>1. SetString(f) = new
    BY <1>2 DEF SetString
  <2>2. \A k \in DOMAIN stringQueryMap : new[k] \in Seq(Accepted)
    BY <1>1
  <2>3. DOMAIN new = DOMAIN stringQueryMap
    OBVIOUS
  <2>4. new = [k \in 1 .. Len(stringQueryMap) |-> new[k]]
    BY <1>1
  <2>5. \A k \in DOMAIN stringQueryMap :
          new[k] = IF Has(k) THEN Append(stringQueryMap[k], f) ELSE stringQueryMap[k]
    OBVIOUS
  <2> HIDE DEF new
  <2>6. new \in [1 .. Len(stringQueryMap) -> Seq(Accepted)]
    BY <1>1, <2>2, <2>4
  <2>7. new \in Seq(Seq(Accepted))
    BY <1>1, <2>6, ListFacts
  <2> QED BY <1>2, <2>1, <2>3, <2>5, <2>7
<1>3. CASE ~\E k \in DOMAIN stringQueryMap : Has(k)
  <2>1. SetString(f) = Append(stringQueryMap, <<f>>)
    BY <1>3 DEF SetString
  <2>2. <<f>> \in Seq(Accepted)
    OBVIOUS
  <2>3. /\ SetString(f) \in Seq(Seq(Accepted))
        /\ DOMAIN SetString(f) = DOMAIN stringQueryMap \union {Len(stringQueryMap) + 1}
        /\ SetString(f)[Len(stringQueryMap) + 1] = <<f>>
        /\ \A k \in DOMAIN stringQueryMap : SetString(f)[k] = stringQueryMap[k]
    BY <2>1, <2>2
  <2> QED BY <1>1, <1>3, <2>3
<1> QED BY <1>2, <1>3

(* A group before and after a filter of its field is added to it.          *)
LEMMA GroupGrows ==
  ASSUME NEW group \in Seq(Accepted), group # <<>>, NEW f \in Accepted
  PROVE  LET new == Append(group, f) IN
         /\ new # <<>> /\ new[1] = group[1] /\ 1 \in DOMAIN group
         /\ DOMAIN new = DOMAIN group \union {Len(group) + 1} /\ new[Len(group) + 1] = f
         /\ \A m \in DOMAIN group : new[m] = group[m]
OBVIOUS

LEMMA StringIterates ==
  ASSUME QueryInv, Iterate
  PROVE  StringsOK' /\ stringQueryMap' \in Seq(Seq(Accepted))
<1> DEFINE f == request[passed + 1]
           map == stringQueryMap
           new == SetString(f)
           Later == Passed \union {passed + 1}
           OK(group) ==
             /\ group # <<>>
             /\ \A m \in DOMAIN group : \E n \in Later :
                  /\ IsString(request[n]) /\ group[m] = request[n]
                  /\ request[n].field = group[1].field
             /\ Len(group) > 1 => \E m, n \in Later :
                  m # n /\ request[m].field = group[1].field /\ request[n].field = group[1].field
<1>1. /\ request' = request /\ Passed' = Later
      /\ stringQueryMap' = IF IsString(f) THEN new ELSE map
  BY IterateFacts DEF Iterate
<1>2. f \in Accepted /\ passed + 1 \in Later /\ passed + 1 \notin Passed
  BY IterateFacts, ValidFacts
<1>3. map \in Seq(Seq(Accepted)) /\ StringsOK
  BY DEF QueryInv, QueryTypeOK
<1>4. \A k \in DOMAIN map : map[k] \in Seq(Accepted) /\ map[k] # <<>> /\ OK(map[k])
  BY <1>3 DEF StringsOK, GroupOK
<1>5. CASE ~IsString(f)
  <2>1. stringQueryMap' = map
    BY <1>1, <1>5
  <2>2. \A k \in DOMAIN stringQueryMap' : GroupOK(stringQueryMap[k])'
    BY <1>1, <1>4, <2>1 DEF GroupOK
  <2> QED BY <1>1, <1>2, <1>3, <1>5, <2>1, <2>2 DEF StringsOK
<1>6. CASE IsString(f)
  <2>0. stringQueryMap' = new
    BY <1>1, <1>6
  <2>1. /\ new \in Seq(Seq(Accepted))
        /\ \/ /\ \E k \in DOMAIN map : map[k][1].field = f.field
              /\ DOMAIN new = DOMAIN map
              /\ \A k \in DOMAIN map :
                   new[k] = IF map[k][1].field = f.field THEN Append(map[k], f) ELSE map[k]
           \/ /\ \A k \in DOMAIN map : map[k][1].field # f.field
              /\ DOMAIN new = DOMAIN map \union {Len(map) + 1}
              /\ Len(map) + 1 \notin DOMAIN map
              /\ new[Len(map) + 1] = <<f>>
              /\ \A k \in DOMAIN map : new[k] = map[k]
    BY <1>2, <1>3, <1>4, SetStringFacts
  <2>2. ASSUME NEW group \in Seq(Accepted), group # <<>>, OK(group),
               group[1].field = f.field, NEW l \in Passed, request[l].field = group[1].field
        PROVE  OK(Append(group, f))
    <3> DEFINE more == Append(group, f)
    <3>1. /\ more # <<>> /\ more[1] = group[1] /\ 1 \in DOMAIN group
          /\ DOMAIN more = DOMAIN group \union {Len(group) + 1} /\ more[Len(group) + 1] = f
          /\ \A m \in DOMAIN group : more[m] = group[m]
      BY <1>2, <2>2, GroupGrows
    <3> HIDE DEF more
    <3>2. \A m \in DOMAIN more : \E n \in Later :
            /\ IsString(request[n]) /\ more[m] = request[n]
            /\ request[n].field = more[1].field
      BY <1>2, <1>6, <2>2, <3>1
    <3>3. \E m, n \in Later :
            m # n /\ request[m].field = more[1].field /\ request[n].field = more[1].field
      BY <1>2, <2>2, <3>1
    <3> QED BY <3>1, <3>2, <3>3 DEF more
  <2>3. \A k \in DOMAIN map : \E n \in Passed : request[n].field = map[k][1].field
    <3> SUFFICES ASSUME NEW k \in DOMAIN map
                 PROVE  \E n \in Passed : request[n].field = map[k][1].field
      OBVIOUS
    <3>1. map[k] \in Seq(Accepted) /\ map[k] # <<>> /\ GroupOK(map[k])
      BY <1>3, <1>4 DEF StringsOK
    <3>2. 1 \in DOMAIN map[k]
      BY <3>1
    <3> QED BY <3>1, <3>2 DEF GroupOK
  <2>4. OK(<<f>>)
    <3>1. <<f>> # <<>> /\ Len(<<f>>) = 1 /\ DOMAIN <<f>> = {1} /\ <<f>>[1] = f
      OBVIOUS
    <3> QED BY <1>2, <1>6, <3>1
  <2> HIDE DEF map, OK
  <2>5. \A k \in DOMAIN new : OK(new[k])
    BY <1>4, <2>1, <2>2, <2>3, <2>4
  <2>6. \A k \in DOMAIN map :
          k \in DOMAIN new /\ new[k][1] = map[k][1] /\ \A m \in DOMAIN map[k] :
            m \in DOMAIN new[k] /\ new[k][m] = map[k][m]
    <3> SUFFICES ASSUME NEW k \in DOMAIN map
                 PROVE  k \in DOMAIN new /\ new[k][1] = map[k][1] /\ \A m \in DOMAIN map[k] :
                          m \in DOMAIN new[k] /\ new[k][m] = map[k][m]
      OBVIOUS
    <3>1. k \in DOMAIN new /\ (new[k] = map[k] \/ new[k] = Append(map[k], f))
      BY <2>1
    <3> QED BY <1>2, <1>4, <3>1, GroupGrows
  <2>7. \A k, l \in DOMAIN map : map[k][1].field = map[l][1].field => k = l
    BY <1>3 DEF StringsOK, map
  <2>8. \A k, l \in DOMAIN new : new[k][1].field = new[l][1].field => k = l
    <3>1. CASE \E k \in DOMAIN map : map[k][1].field = f.field
      <4>1. DOMAIN new = DOMAIN map
        BY <2>1, <3>1
      <4> QED BY <2>6, <2>7, <4>1
    <3>2. CASE ~\E k \in DOMAIN map : map[k][1].field = f.field
      <4>1. DOMAIN new = DOMAIN map \union {Len(map) + 1} /\ new[Len(map) + 1] = <<f>>
        BY <2>1, <3>2
      <4>2. new[Len(map) + 1][1] = f
        BY <4>1
      <4>3. \A k \in DOMAIN map : new[k][1] = map[k][1] /\ map[k][1].field # f.field
        BY <2>6, <3>2
      <4> QED BY <2>7, <4>1, <4>2, <4>3
    <3> QED BY <3>1, <3>2
  <2>9. \E k \in DOMAIN new : \E m \in DOMAIN new[k] : new[k][m] = f
    <3>1. CASE \E k \in DOMAIN map : map[k][1].field = f.field
      <4>1. PICK k \in DOMAIN map : map[k][1].field = f.field
        BY <3>1
      <4>2. k \in DOMAIN new /\ new[k] = Append(map[k], f)
        BY <2>1, <4>1
      <4>3. Len(map[k]) + 1 \in DOMAIN new[k] /\ new[k][Len(map[k]) + 1] = f
        BY <1>2, <1>4, <4>2, GroupGrows
      <4> QED BY <4>2, <4>3
    <3>2. CASE ~\E k \in DOMAIN map : map[k][1].field = f.field
      <4>1. Len(map) + 1 \in DOMAIN new /\ new[Len(map) + 1] = <<f>>
        BY <2>1, <3>2
      <4>2. 1 \in DOMAIN <<f>> /\ <<f>>[1] = f
        OBVIOUS
      <4> QED BY <4>1, <4>2
    <3> QED BY <3>1, <3>2
  <2>10. \A n \in Later : IsString(request[n]) =>
           \E k \in DOMAIN new : \E m \in DOMAIN new[k] : new[k][m] = request[n]
    <3>1. \A n \in Passed : IsString(request[n]) =>
            \E k \in DOMAIN map : \E m \in DOMAIN map[k] : map[k][m] = request[n]
      BY <1>3 DEF StringsOK, map
    <3> QED BY <2>6, <2>9, <3>1
  <2>11. \A k \in DOMAIN stringQueryMap' : GroupOK(stringQueryMap[k])'
    BY <1>1, <2>0, <2>5 DEF GroupOK, OK
  <2>12. \A k, l \in DOMAIN stringQueryMap' :
           stringQueryMap'[k][1].field = stringQueryMap'[l][1].field => k = l
    BY <2>0, <2>8, Zenon
  <2>13. \A n \in Passed' : IsString(request'[n]) =>
           \E k \in DOMAIN stringQueryMap' : \E m \in DOMAIN stringQueryMap'[k] :
             stringQueryMap'[k][m] = request'[n]
    BY <1>1, <2>0, <2>10
  <2>14. StringsOK'
    BY <2>11, <2>12, <2>13, Zenon DEF StringsOK
  <2> QED BY <2>0, <2>1, <2>14, Zenon
<1> QED BY <1>5, <1>6

LEMMA IterateKeeps ==
  ASSUME QueryInv, Iterate
  PROVE  QueryInv'
<1>1. NumericOK' /\ numericQueries' \in Seq(Accepted)
  BY NumericIterates
<1>2. StringsOK' /\ stringQueryMap' \in Seq(Seq(Accepted))
  BY StringIterates
<1>3. UNCHANGED <<request, lists, status, query, tight>> /\ passed' = passed + 1 /\ lists # "missing"
  BY DEF Iterate
<1>4. passed' \in 0 .. Len(request)
  BY <1>3 DEF QueryInv, QueryTypeOK, Iterate
<1>5. QueryTypeOK'
  BY <1>1, <1>2, <1>3, <1>4 DEF QueryInv, QueryTypeOK
<1>6. StageOK'
  BY <1>3 DEF QueryInv, StageOK, validateFilters, Iterate
<1> QED BY <1>1, <1>2, <1>5, <1>6 DEF QueryInv

(* Whatever is sent to the search function, its loop keeps each filter it  *)
(* has passed in the one group it belongs to.                              *)
THEOREM QueryInvariance == QuerySpec => []QueryInv
<1>1. QueryInit => QueryInv
  BY QueryStarts
<1>2. QueryInv /\ [QueryNext]_queryVars => QueryInv'
  <2> SUFFICES ASSUME QueryInv, [QueryNext]_queryVars PROVE QueryInv'
    OBVIOUS
  <2>1. CASE \E f \in Filter : AddFilter(f)
    BY <2>1, AddFilterKeeps
  <2>2. CASE Handle
    BY <2>2, HandleKeeps
  <2>3. CASE Iterate
    BY <2>3, IterateKeeps
  <2>4. CASE Search
    BY <2>4, SearchKeeps
  <2>5. CASE NextRequest
    BY <2>5, NextRequestKeeps
  <2>6. CASE UNCHANGED queryVars
    <3> USE <2>6 DEF queryVars, loopVars
    <3>1. QueryTypeOK'
      BY DEF QueryInv, QueryTypeOK
    <3>2. NumericOK' /\ StringsOK'
      BY DEF QueryInv, NumericOK, StringsOK, GroupOK, Passed
    <3>3. StageOK'
      BY DEF QueryInv, StageOK, validateFilters, Groups
    <3> QED BY <3>1, <3>2, <3>3 DEF QueryInv
  <2> QED BY <2>1, <2>2, <2>3, <2>4, <2>5, <2>6 DEF QueryNext
<1> QED BY <1>1, <1>2, PTL DEF QuerySpec

-----------------------------------------------------------------------------
(* What is where when one list follows another.                            *)
LEMMA JoinFacts ==
  ASSUME NEW T, NEW s \in Seq(T), NEW t \in Seq(T)
  PROVE  /\ s \o t \in Seq(T)
         /\ \A k \in DOMAIN (s \o t) :
              \/ k \in DOMAIN s /\ (s \o t)[k] = s[k]
              \/ k > Len(s) /\ k - Len(s) \in DOMAIN t /\ (s \o t)[k] = t[k - Len(s)]
         /\ \A k \in DOMAIN s : k \in DOMAIN (s \o t) /\ (s \o t)[k] = s[k]
         /\ \A k \in DOMAIN t : Len(s) + k \in DOMAIN (s \o t) /\ (s \o t)[Len(s) + k] = t[k]
OBVIOUS

(* The groups of a query: where they come from, and where each filter of   *)
(* the request is.                                                         *)
LEMMA GroupsFacts ==
  ASSUME QueryInv
  PROVE  LET a == Len(numericQueries) IN
         /\ a \in Nat /\ DOMAIN numericQueries = 1 .. a /\ Groups \in Seq(Seq(Accepted))
         /\ \A k \in DOMAIN Groups :
              \/ k \in DOMAIN numericQueries /\ Groups[k] = <<numericQueries[k]>>
              \/ /\ k > a /\ k - a \in DOMAIN stringQueryMap
                 /\ Groups[k] = stringQueryMap[k - a]
         /\ \A k \in DOMAIN numericQueries :
              k \in DOMAIN Groups /\ Groups[k] = <<numericQueries[k]>>
         /\ \A k \in DOMAIN stringQueryMap :
              a + k \in DOMAIN Groups /\ Groups[a + k] = stringQueryMap[k]
<1> DEFINE singles == [k \in DOMAIN numericQueries |-> <<numericQueries[k]>>]
<1>1. numericQueries \in Seq(Accepted) /\ stringQueryMap \in Seq(Seq(Accepted))
  BY DEF QueryInv, QueryTypeOK
<1>2. singles \in Seq(Seq(Accepted))
  BY <1>1, SingleFacts
<1>3. Len(singles) = Len(numericQueries)
  BY <1>1, SingleFacts
<1>4. \A k \in DOMAIN numericQueries : singles[k] = <<numericQueries[k]>>
  OBVIOUS
<1>5. Groups = singles \o stringQueryMap
  BY DEF Groups
<1>6. Len(numericQueries) \in Nat /\ DOMAIN numericQueries = 1 .. Len(numericQueries)
  BY <1>1
<1>7. DOMAIN singles = DOMAIN numericQueries
  OBVIOUS
<1> HIDE DEF singles
<1>8. /\ Groups \in Seq(Seq(Accepted))
      /\ \A k \in DOMAIN Groups :
           \/ k \in DOMAIN singles /\ Groups[k] = singles[k]
           \/ /\ k > Len(singles) /\ k - Len(singles) \in DOMAIN stringQueryMap
              /\ Groups[k] = stringQueryMap[k - Len(singles)]
      /\ \A k \in DOMAIN singles : k \in DOMAIN Groups /\ Groups[k] = singles[k]
      /\ \A k \in DOMAIN stringQueryMap :
           Len(singles) + k \in DOMAIN Groups /\ Groups[Len(singles) + k] = stringQueryMap[k]
  <2>1. ASSUME NEW s \in Seq(Seq(Accepted)), NEW t \in Seq(Seq(Accepted))
        PROVE  LET g == s \o t IN
               /\ g \in Seq(Seq(Accepted))
               /\ \A k \in DOMAIN g :
                    \/ k \in DOMAIN s /\ g[k] = s[k]
                    \/ k > Len(s) /\ k - Len(s) \in DOMAIN t /\ g[k] = t[k - Len(s)]
               /\ \A k \in DOMAIN s : k \in DOMAIN g /\ g[k] = s[k]
               /\ \A k \in DOMAIN t : Len(s) + k \in DOMAIN g /\ g[Len(s) + k] = t[k]
    BY JoinFacts
  <2>2. stringQueryMap \in Seq(Seq(Accepted)) /\ singles \in Seq(Seq(Accepted))
    BY <1>1, <1>2
  <2> QED BY <2>1, <2>2, <1>5
<1> QED BY <1>3, <1>4, <1>6, <1>7, <1>8, Zenon

(* A query that opens with a group of one filter, or that is read with OR  *)
(* first, selects the posts that every group selects.                      *)
LEMMA SelectsFacts ==
  ASSUME NEW S, NEW q \in Seq(Seq(S)), NEW p,
         q # <<>> => Len(q[1]) = 1
  PROVE  Selects(q, p) <=> \A k \in DOMAIN q : AnyHolds(q[k], p)
<1>1. CASE q = <<>> \/ tight = "OR"
  BY <1>1 DEF Selects
<1>2. CASE ~(q = <<>> \/ tight = "OR")
  <2>0. /\ q # <<>> /\ Len(q[1]) = 1
        /\ DOMAIN q = 1 .. Len(q) /\ Len(q) \in Nat /\ Len(q) # 0
    BY <1>2
  <2>1. q[1] \in Seq(S) /\ DOMAIN q = {1} \union 2 .. Len(q)
    BY <2>0
  <2>2. DOMAIN q[1] = {1} /\ Last(q[1]) = q[1][1]
    BY <2>0, <2>1 DEF Last
  <2>3. DOMAIN Front(q[1]) = {}
    BY <2>0, <2>1 DEF Front
  <2>4. ~AnyHolds(Front(q[1]), p)
    BY <2>3 DEF AnyHolds
  <2>5. AnyHolds(q[1], p) <=> Holds(Last(q[1]), p)
    BY <2>2 DEF AnyHolds
  <2>6. Selects(q, p) <=> /\ AnyHolds(q[1], p)
                             /\ \A k \in 2 .. Len(q) : AnyHolds(q[k], p)
    BY <1>2, <2>4, <2>5 DEF Selects
  <2> QED BY <2>1, <2>6
<1> QED BY <1>1, <1>2

LEMMA SingletonHolds ==
  ASSUME NEW f, NEW p
  PROVE  AnyHolds(<<f>>, p) <=> Holds(f, p)
<1>1. DOMAIN <<f>> = {1} /\ <<f>>[1] = f
  OBVIOUS
<1> QED BY <1>1 DEF AnyHolds

(* Every filter of the request is in a group of the query, and what is in  *)
(* a group is in the request; the groups are those of the loop.            *)
LEMMA QueryFacts ==
  ASSUME QueryInv, status = "200", lists # "missing"
  PROVE  /\ query \in Seq(Seq(Accepted)) /\ query = Groups
         /\ Passed = DOMAIN request /\ Filters = request
         /\ \A n \in DOMAIN request : IsNumeric(request[n]) \/ IsString(request[n])
<1>1. /\ query = Groups /\ passed = Len(request) /\ validateFilters(request)
      /\ query \in Seq(Seq(Accepted)) /\ request \in Seq(Filter)
  BY DEF QueryInv, QueryTypeOK, StageOK
<1>2. \A n \in DOMAIN request : request[n] \in Filter
  BY <1>1
<1>3. \A n \in DOMAIN request : validateSingleFilter(request[n])
  BY <1>1, Zenon DEF validateFilters
<1> QED BY <1>1, <1>2, <1>3, ValidFacts DEF Passed, Filters

(* Of a request that lacks a list nothing is in the query.                 *)
LEMMA MissingFacts ==
  ASSUME QueryInv, status = "200", lists = "missing"
  PROVE  query = <<>> /\ DOMAIN query = {} /\ DOMAIN Filters = {} /\ Readable
<1>1. query \in Seq(Seq(Accepted)) /\ query = Groups /\ passed = 0
  BY DEF QueryInv, QueryTypeOK, StageOK
<1>2. Passed = {}
  BY <1>1 DEF Passed
<1>3. DOMAIN numericQueries = {}
  BY <1>2 DEF QueryInv, NumericOK
<1>4. DOMAIN stringQueryMap = {}
  <2> SUFFICES ASSUME NEW k \in DOMAIN stringQueryMap PROVE FALSE
    OBVIOUS
  <2>1. GroupOK(stringQueryMap[k]) /\ stringQueryMap[k] \in Seq(Accepted)
    BY DEF QueryInv, QueryTypeOK, StringsOK
  <2>2. 1 \in DOMAIN stringQueryMap[k]
    BY <2>1 DEF GroupOK
  <2> QED BY <1>2, <2>1, <2>2 DEF GroupOK
<1>5. DOMAIN query = {}
  BY <1>1, <1>3, <1>4, GroupsFacts
<1>6. query = <<>>
  BY <1>1, <1>5
<1>7. DOMAIN Filters = {}
  BY DEF Filters
<1> QED BY <1>5, <1>6, <1>7 DEF Readable

(* A query handed to the search service has only filters it has a syntax   *)
(* for, if and only if no numeric field was given a blank value: that is   *)
(* all validation lets pass, and nothing is lost on the way.               *)
THEOREM ReadableTheorem == QuerySpec => []ReadableUnlessBlank
<1>1. ASSUME QueryInv, status = "200", lists # "missing"
      PROVE  Readable <=> \A n \in DOMAIN Filters : Filters[n] \notin Unfinished
  <2>1. /\ query \in Seq(Seq(Accepted)) /\ query = Groups /\ Passed = DOMAIN request
        /\ Filters = request
        /\ \A n \in DOMAIN request : IsNumeric(request[n]) \/ IsString(request[n])
    BY <1>1, QueryFacts
  <2>2. /\ NumericOK /\ StringsOK /\ request \in Seq(Filter)
        /\ stringQueryMap \in Seq(Seq(Accepted))
    BY <1>1 DEF QueryInv, QueryTypeOK
  <2>3. \A f \in Accepted : f \in Expressible <=> f \notin Unfinished
    BY DEF Accepted, Expressible, Unfinished, numericFields, stringFields
  <2>4. ASSUME NEW k \in DOMAIN query, NEW m \in DOMAIN query[k]
        PROVE  /\ query[k][m] \in Accepted
               /\ \E n \in DOMAIN request : query[k][m] = request[n]
    <3>1. query[k] \in Seq(Accepted)
      BY <2>1
    <3>2. query[k][m] \in Accepted
      BY <3>1
    <3>3. CASE k \in DOMAIN numericQueries /\ query[k] = <<numericQueries[k]>>
      <4>1. query[k][m] = numericQueries[k]
        BY <3>3
      <4> QED BY <2>1, <2>2, <3>2, <3>3, <4>1 DEF NumericOK
    <3>4. ASSUME NEW l \in DOMAIN stringQueryMap, query[k] = stringQueryMap[l]
          PROVE  \E n \in DOMAIN request : query[k][m] = request[n]
      <4>1. GroupOK(stringQueryMap[l])
        BY <2>2 DEF StringsOK
      <4> QED BY <2>1, <3>4, <4>1 DEF GroupOK
    <3> QED BY <1>1, <2>1, <3>2, <3>3, <3>4, GroupsFacts
  <2>5. ASSUME NEW n \in DOMAIN request, request[n] \in Unfinished
        PROVE  ~Readable
    <3>1. IsNumeric(request[n])
      BY <2>5 DEF Unfinished, IsNumeric
    <3>2. PICK k \in DOMAIN numericQueries : numericQueries[k] = request[n]
      BY <2>1, <2>2, <3>1 DEF NumericOK
    <3>3. k \in DOMAIN query /\ query[k] = <<numericQueries[k]>>
      BY <1>1, <2>1, GroupsFacts
    <3>4. 1 \in DOMAIN query[k] /\ query[k][1] = request[n]
      BY <3>2, <3>3
    <3>5. query[k][1] \notin Expressible
      BY <2>3, <2>4, <2>5, <3>3, <3>4
    <3> QED BY <3>3, <3>4, <3>5 DEF Readable
  <2>6. ASSUME \A n \in DOMAIN request : request[n] \notin Unfinished
        PROVE  Readable
    BY <2>3, <2>4, <2>6 DEF Readable
  <2> QED BY <2>1, <2>5, <2>6
<1>2. QueryInv => ReadableUnlessBlank
  BY <1>1, MissingFacts DEF ReadableUnlessBlank
<1> QED BY <1>2, QueryInvariance, PTL

(* With no text field repeated a query is the list of its filters.         *)
THEOREM JoinedWithAndTheorem == QuerySpec => []FiltersAreJoinedWithAnd
<1>1. ASSUME QueryInv, status = "200", lists # "missing",
             \A name \in Fields \intersect stringFields : ~Repeated(name),
             NEW p \in Post
      PROVE  Selects(query, p) <=> \A n \in DOMAIN Filters : Holds(Filters[n], p)
  <2> DEFINE a == Len(numericQueries)
  <2>1. /\ query \in Seq(Seq(Accepted)) /\ query = Groups /\ Passed = DOMAIN request
        /\ Filters = request
        /\ \A n \in DOMAIN request : IsNumeric(request[n]) \/ IsString(request[n])
    BY <1>1, QueryFacts
  <2>2. /\ NumericOK /\ StringsOK /\ request \in Seq(Filter)
        /\ stringQueryMap \in Seq(Seq(Accepted))
    BY <1>1 DEF QueryInv, QueryTypeOK
  <2>3. ASSUME NEW k \in DOMAIN stringQueryMap
        PROVE  Len(stringQueryMap[k]) = 1 /\ DOMAIN stringQueryMap[k] = {1}
    <3>1. /\ stringQueryMap[k] \in Seq(Accepted) /\ GroupOK(stringQueryMap[k])
          /\ stringQueryMap[k] # <<>>
      BY <2>2 DEF StringsOK, GroupOK
    <3>2. ~(Len(stringQueryMap[k]) > 1)
      <4> SUFFICES ASSUME Len(stringQueryMap[k]) > 1 PROVE FALSE
        OBVIOUS
      <4> DEFINE name == stringQueryMap[k][1].field
      <4>1. Repeated(name)
        BY <2>1, <3>1 DEF GroupOK, Repeated
      <4>2. 1 \in DOMAIN stringQueryMap[k]
        BY <3>1
      <4>3. PICK n \in Passed : IsString(request[n]) /\ stringQueryMap[k][1] = request[n]
        BY <3>1, <4>2 DEF GroupOK
      <4>4. name \in Fields \intersect stringFields
        <5>1. request[n] \in Filter
          BY <2>1, <2>2
        <5>2. request[n].field \in Fields
          BY <5>1 DEF Filter
        <5> QED BY <4>3, <5>2 DEF IsString
      <4> QED BY <1>1, <4>1, <4>4
    <3>3. Len(stringQueryMap[k]) \in Nat \ {0} /\ DOMAIN stringQueryMap[k] = 1 .. Len(stringQueryMap[k])
      BY <3>1
    <3> QED BY <3>2, <3>3
  <2>4. \A k \in DOMAIN query : Len(query[k]) = 1 /\ DOMAIN query[k] = {1}
    <3>1. \A f : Len(<<f>>) = 1 /\ DOMAIN <<f>> = {1}
      OBVIOUS
    <3> QED BY <1>1, <2>1, <2>3, <3>1, GroupsFacts
  <2>5. Selects(query, p) <=> \A k \in DOMAIN query : Holds(query[k][1], p)
    <3>1. query # <<>> => Len(query[1]) = 1
      BY <2>1, <2>4
    <3>2. Selects(query, p) <=> \A k \in DOMAIN query : AnyHolds(query[k], p)
      BY <2>1, <3>1, SelectsFacts
    <3> QED BY <2>4, <3>2 DEF AnyHolds
  <2>6. \A k \in DOMAIN query : \E n \in DOMAIN request : query[k][1] = request[n]
    <3> SUFFICES ASSUME NEW k \in DOMAIN query
                 PROVE  \E n \in DOMAIN request : query[k][1] = request[n]
      OBVIOUS
    <3>1. CASE k \in DOMAIN numericQueries /\ query[k] = <<numericQueries[k]>>
      BY <2>1, <2>2, <3>1 DEF NumericOK
    <3>2. CASE k - a \in DOMAIN stringQueryMap /\ query[k] = stringQueryMap[k - a]
      <4>1. GroupOK(stringQueryMap[k - a]) /\ 1 \in DOMAIN stringQueryMap[k - a]
        BY <2>2, <2>3, <3>2 DEF StringsOK
      <4> QED BY <2>1, <3>2, <4>1 DEF GroupOK
    <3> QED BY <1>1, <2>1, <3>1, <3>2, GroupsFacts
  <2>7. \A n \in DOMAIN request : \E k \in DOMAIN query : query[k][1] = request[n]
    <3> SUFFICES ASSUME NEW n \in DOMAIN request
                 PROVE  \E k \in DOMAIN query : query[k][1] = request[n]
      OBVIOUS
    <3>1. CASE IsNumeric(request[n])
      <4>1. PICK k \in DOMAIN numericQueries : numericQueries[k] = request[n]
        BY <2>1, <2>2, <3>1 DEF NumericOK
      <4>2. k \in DOMAIN query /\ query[k] = <<numericQueries[k]>>
        BY <1>1, <2>1, GroupsFacts
      <4> QED BY <4>1, <4>2
    <3>2. CASE IsString(request[n])
      <4>1. PICK k \in DOMAIN stringQueryMap : \E m \in DOMAIN stringQueryMap[k] :
              stringQueryMap[k][m] = request[n]
        BY <2>1, <2>2, <3>2 DEF StringsOK
      <4>2. stringQueryMap[k][1] = request[n]
        BY <2>3, <4>1
      <4>3. a + k \in DOMAIN query /\ query[a + k] = stringQueryMap[k]
        BY <1>1, <2>1, GroupsFacts
      <4> QED BY <4>2, <4>3
    <3> QED BY <2>1, <3>1, <3>2
  <2> QED BY <2>1, <2>5, <2>6, <2>7
<1>3. ASSUME QueryInv, status = "200", lists = "missing", NEW p \in Post
      PROVE  Selects(query, p) /\ \A n \in DOMAIN Filters : Holds(Filters[n], p)
  BY <1>3, MissingFacts DEF Selects
<1>2. QueryInv => FiltersAreJoinedWithAnd
  BY <1>1, <1>3 DEF FiltersAreJoinedWithAnd
<1> QED BY <1>2, QueryInvariance, PTL

-----------------------------------------------------------------------------
(* With no numeric field repeated a query says of each field what is       *)
(* documented, if its first group needs no parentheses.                    *)
THEOREM AlternativesTheorem == QuerySpec => []AlternativesStayTogether
<1>1. ASSUME QueryInv, status = "200", lists # "missing",
             \A name \in Fields \intersect numericFields : ~Repeated(name),
             query # <<>> => Len(query[1]) = 1,
             NEW p \in Post
      PROVE  Selects(query, p) <=> Documented(p)
  <2> DEFINE a == Len(numericQueries)
             Said(name) == \E n \in DOMAIN request : request[n].field = name /\ Holds(request[n], p)
  <2>1. /\ query \in Seq(Seq(Accepted)) /\ query = Groups /\ Passed = DOMAIN request
        /\ Filters = request
        /\ \A n \in DOMAIN request : IsNumeric(request[n]) \/ IsString(request[n])
    BY <1>1, QueryFacts
  <2>2. /\ NumericOK /\ StringsOK /\ request \in Seq(Filter)
        /\ stringQueryMap \in Seq(Seq(Accepted))
    BY <1>1 DEF QueryInv, QueryTypeOK
  <2>3. Selects(query, p) <=> \A k \in DOMAIN query : AnyHolds(query[k], p)
    BY <1>1, <2>1, SelectsFacts
  <2>4. \A n \in DOMAIN request : IsNumeric(request[n]) =>
          (Said(request[n].field) <=> Holds(request[n], p))
    <3> SUFFICES ASSUME NEW n \in DOMAIN request, IsNumeric(request[n])
                 PROVE  Said(request[n].field) <=> Holds(request[n], p)
      OBVIOUS
    <3>1. request[n] \in Filter
      BY <2>2
    <3>2. request[n].field \in Fields \intersect numericFields
      BY <3>1 DEF Filter, IsNumeric
    <3>3. \A m \in DOMAIN request : request[m].field = request[n].field => m = n
      BY <1>1, <2>1, <3>2 DEF Repeated
    <3> QED BY <3>3
  <2>5. \A k \in DOMAIN numericQueries : \E n \in DOMAIN request :
          IsNumeric(request[n]) /\ (AnyHolds(<<numericQueries[k]>>, p) <=> Said(request[n].field))
    <3> SUFFICES ASSUME NEW k \in DOMAIN numericQueries
                 PROVE  \E n \in DOMAIN request : IsNumeric(request[n])
                          /\ (AnyHolds(<<numericQueries[k]>>, p) <=> Said(request[n].field))
      OBVIOUS
    <3>1. PICK n \in DOMAIN request : IsNumeric(request[n]) /\ numericQueries[k] = request[n]
      BY <2>1, <2>2 DEF NumericOK
    <3>2. AnyHolds(<<numericQueries[k]>>, p) <=> Holds(numericQueries[k], p)
      BY SingletonHolds
    <3>3. Said(request[n].field) <=> Holds(request[n], p)
      BY <2>4, <3>1
    <3> HIDE DEF Said
    <3> QED BY <3>1, <3>2, <3>3
  <2>6. \A k \in DOMAIN stringQueryMap : \E n \in DOMAIN request :
          /\ request[n].field = stringQueryMap[k][1].field
          /\ AnyHolds(stringQueryMap[k], p) <=> Said(request[n].field)
    <3> SUFFICES ASSUME NEW k \in DOMAIN stringQueryMap
                 PROVE  \E n \in DOMAIN request :
                          /\ request[n].field = stringQueryMap[k][1].field
                          /\ AnyHolds(stringQueryMap[k], p) <=> Said(request[n].field)
      OBVIOUS
    <3> DEFINE group == stringQueryMap[k]
    <3>1. group \in Seq(Accepted) /\ GroupOK(group) /\ group # <<>>
      BY <2>2 DEF StringsOK, GroupOK
    <3>2. 1 \in DOMAIN group
      BY <3>1
    <3>3. \A m \in DOMAIN group : \E n \in DOMAIN request :
            IsString(request[n]) /\ group[m] = request[n] /\ request[n].field = group[1].field
      BY <2>1, <3>1 DEF GroupOK
    <3>4. PICK n \in DOMAIN request :
            IsString(request[n]) /\ group[1] = request[n] /\ request[n].field = group[1].field
      BY <3>2, <3>3
    <3>5. AnyHolds(group, p) => Said(group[1].field)
      BY <3>3 DEF AnyHolds
    <3>6. ASSUME NEW l \in DOMAIN request, request[l].field = group[1].field,
                 Holds(request[l], p)
          PROVE  AnyHolds(group, p)
      <4>1. IsString(request[l])
        BY <3>4, <3>6 DEF IsString
      <4>2. PICK o \in DOMAIN stringQueryMap : \E m \in DOMAIN stringQueryMap[o] :
              stringQueryMap[o][m] = request[l]
        BY <2>1, <2>2, <4>1 DEF StringsOK
      <4>3. PICK m \in DOMAIN stringQueryMap[o] : stringQueryMap[o][m] = request[l]
        BY <4>2
      <4>4. GroupOK(stringQueryMap[o])
        BY <2>2 DEF StringsOK
      <4>5. stringQueryMap[o][m].field = stringQueryMap[o][1].field
        BY <4>3, <4>4 DEF GroupOK
      <4>6. o = k
        <5>1. \A i, j \in DOMAIN stringQueryMap :
                stringQueryMap[i][1].field = stringQueryMap[j][1].field => i = j
          BY <2>2, Zenon DEF StringsOK
        <5>2. stringQueryMap[o][1].field = stringQueryMap[k][1].field
          BY <3>6, <4>3, <4>5
        <5> QED BY <5>1, <5>2, Zenon
      <4> QED BY <3>6, <4>3, <4>6 DEF AnyHolds
    <3>7. Said(group[1].field) => AnyHolds(group, p)
      BY <3>6
    <3> HIDE DEF Said
    <3> QED BY <3>4, <3>5, <3>7
  <2>7. Documented(p) <=> \A n \in DOMAIN request : Said(request[n].field)
    <3>1. Filters = request
      BY <2>1
    <3>2. Documented(p) <=> \A k \in DOMAIN Filters : \E n \in DOMAIN Filters :
                               Filters[n].field = Filters[k].field /\ Holds(Filters[n], p)
      BY DEF Documented
    <3> QED BY <3>1, <3>2
  <2> HIDE DEF Said
  <2>8. ASSUME \A n \in DOMAIN request : Said(request[n].field), NEW k \in DOMAIN query
        PROVE  AnyHolds(query[k], p)
    BY <1>1, <2>1, <2>5, <2>6, <2>8, GroupsFacts
  <2>9. ASSUME \A k \in DOMAIN query : AnyHolds(query[k], p), NEW n \in DOMAIN request
        PROVE  Said(request[n].field)
    <3>1. CASE IsNumeric(request[n])
      <4>1. PICK k \in DOMAIN numericQueries : numericQueries[k] = request[n]
        BY <2>1, <2>2, <3>1 DEF NumericOK
      <4>2. k \in DOMAIN query /\ query[k] = <<numericQueries[k]>>
        BY <1>1, <2>1, GroupsFacts
      <4>3. Holds(request[n], p)
        BY <2>9, <4>1, <4>2, SingletonHolds
      <4> QED BY <2>4, <3>1, <4>3
    <3>2. CASE IsString(request[n])
      <4>1. PICK k \in DOMAIN stringQueryMap : \E m \in DOMAIN stringQueryMap[k] :
              stringQueryMap[k][m] = request[n]
        BY <2>1, <2>2, <3>2 DEF StringsOK
      <4>2. a + k \in DOMAIN query /\ query[a + k] = stringQueryMap[k]
        BY <1>1, <2>1, GroupsFacts
      <4>3. GroupOK(stringQueryMap[k])
        BY <2>2 DEF StringsOK
      <4>4. request[n].field = stringQueryMap[k][1].field
        BY <4>1, <4>3 DEF GroupOK
      <4> QED BY <2>6, <2>9, <4>2, <4>4
    <3> QED BY <2>1, <3>1, <3>2
  <2> QED BY <2>3, <2>7, <2>8, <2>9
<1>3. ASSUME QueryInv, status = "200", lists = "missing", NEW p \in Post
      PROVE  Selects(query, p) /\ Documented(p)
  BY <1>3, MissingFacts DEF Selects, Documented
<1>2. QueryInv => AlternativesStayTogether
  BY <1>1, <1>3 DEF AlternativesStayTogether
<1> QED BY <1>2, QueryInvariance, PTL
=============================================================================
