--------------------------- MODULE PostEditProofs ---------------------------
(***************************************************************************)
(* Proofs about PostEdit, for any texts, any number of pictures, saves and *)
(* additions, and any errors, logouts, crashes and late logins.            *)
(***************************************************************************)
EXTENDS PostEdit, FiniteSetsExt, WellFoundedInduction, SequenceTheorems, FiniteSetTheorems, TLAPS

-----------------------------------------------------------------------------
(***************************************************************************)
(* The helpers.                                                            *)
(***************************************************************************)

(* A set of numbers that has a bound has a largest: its least bound.       *)
LEMMA MaxFacts ==
  ASSUME NEW A \in SUBSET Nat, A # {}, NEW n \in Nat, \A x \in A : x <= n
  PROVE  Max(A) \in A /\ \A x \in A : x <= Max(A)
<1> DEFINE bounds == {m \in Nat : \A x \in A : x <= m}
<1>1. PICK m \in bounds : \A k \in bounds : ~(<<k, m>> \in OpToRel(<, Nat))
  <2>1. n \in bounds
    OBVIOUS
  <2>2. bounds \subseteq Nat /\ bounds # {}
    BY <2>1
  <2> HIDE DEF bounds
  <2> QED BY <2>2, NatLessThanWellFounded, WFMin, Zenon
<1>2. m \in Nat /\ \A x \in A : x <= m
  OBVIOUS
<1>3. \A k \in bounds : ~(k < m)
  BY <1>1, <1>2 DEF OpToRel
<1>4. m \in A
  <2> SUFFICES ASSUME m \notin A PROVE FALSE
    OBVIOUS
  <2>1. \A x \in A : x < m
    BY <1>2
  <2>2. m # 0
    <3>1. PICK x \in A : TRUE
      OBVIOUS
    <3>2. x \in Nat /\ x < m
      BY <2>1
    <3> QED BY <1>2, <3>2
  <2>3. m - 1 \in Nat /\ m - 1 < m /\ \A x \in A : x <= m - 1
    BY <1>2, <2>1, <2>2
  <2> QED BY <1>3, <2>3
<1>5. \A x \in A : m >= x
  BY <1>2
<1>6. Max(A) \in A /\ \A x \in A : Max(A) >= x
  BY <1>4, <1>5 DEF Max
<1> QED BY <1>6

LEMMA AddedFacts ==
  ASSUME NEW s \in 0 .. MaxSaves, NEW n \in 0 .. N + MaxAdded
  PROVE  /\ Added(s, n) \in Seq(Pictures)
         /\ Range(Added(s, n)) = {[save |-> s, nr |-> i] : i \in 1 .. n}
<1>1. N \in Nat /\ MaxAdded \in Nat /\ MaxSaves \in Nat
  BY EditAssumption
<1>2. \A i \in 1 .. n : [save |-> s, nr |-> i] \in Pictures
  BY <1>1 DEF Pictures
<1>3. Added(s, n) \in [1 .. n -> Pictures] /\ n \in Nat
  BY <1>1, <1>2 DEF Added
<1>4. Added(s, n) \in Seq(Pictures)
  BY <1>3, SeqDef, Zenon
<1>5. Range(Added(s, n)) = {[save |-> s, nr |-> i] : i \in 1 .. n}
  BY DEF Range, Added
<1> QED BY <1>4, <1>5

(* An arrangement of some pictures of a list is a list of those pictures.  *)
LEMMA ArrangedFacts ==
  ASSUME NEW all \in Seq(Pictures), NEW S \in SUBSET Range(all), NEW a \in SetToSeqs(S)
  PROVE  a \in Seq(Pictures) /\ Range(a) = S
<1>1. IsFiniteSet(Range(all))
  <2>1. all \in [1 .. Len(all) -> Pictures] /\ Len(all) \in Nat /\ DOMAIN all = 1 .. Len(all)
    BY LenProperties
  <2>2. all \in Surjection(1 .. Len(all), Range(all))
    BY <2>1 DEF Surjection, Range
  <2>3. IsFiniteSet(1 .. Len(all))
    BY <2>1, FS_Interval
  <2> QED BY <2>2, <2>3, FS_Surjection, Zenon
<1>2. IsFiniteSet(S)
  BY <1>1, FS_Subset, Zenon
<1>3. Cardinality(S) \in Nat
  BY <1>2, FS_CardinalityType, Zenon
<1>4. a \in [1 .. Cardinality(S) -> S]
  BY DEF SetToSeqs
<1>5. S \subseteq Pictures
  BY RangeOfSeq
<1>6. a \in [1 .. Cardinality(S) -> Pictures]
  BY <1>4, <1>5
<1>7. a \in Seq(Pictures)
  BY <1>3, <1>6, SeqDef, Zenon
<1>8. Range(a) = S
  <2> DEFINE n == Cardinality(S)
  <2>1. n \in Nat /\ a \in [1 .. n -> S] /\ \A i, j \in 1 .. n : i # j => a[i] # a[j]
    BY <1>3, <1>4 DEF SetToSeqs
  <2> HIDE DEF n
  <2>2. a \in Injection(1 .. n, S)
    BY <2>1 DEF Injection, IsInjective
  <2>3. Cardinality(1 .. n) = Cardinality(S)
    BY <2>1, FS_Interval DEF n
  <2>4. a \in Surjection(1 .. n, S)
    BY <1>2, <2>2, <2>3, FS_Injection
  <2>5. \A x \in S : \E i \in 1 .. n : a[i] = x
    BY <2>4 DEF Surjection
  <2> QED BY <2>1, <2>5 DEF Range
<1> QED BY <1>7, <1>8

LEMMA AppendFacts ==
  ASSUME NEW S, NEW q \in Seq(S), NEW x \in S
  PROVE  Append(q, x) \in Seq(S) /\ Append(q, x) # <<>> /\ Last(Append(q, x)) = x
<1>1. Len(q) \in Nat
  BY LenProperties
<1>2. /\ Append(q, x) \in Seq(S)
      /\ Len(Append(q, x)) = Len(q) + 1
      /\ Append(q, x)[Len(q) + 1] = x
  BY AppendProperties, <1>1
<1>3. Append(q, x) # <<>>
  BY <1>1, <1>2, EmptySeq
<1> QED BY <1>2, <1>3 DEF Last

LEMMA TailFacts ==
  ASSUME NEW S, NEW q \in Seq(S), q # <<>>
  PROVE  /\ Tail(q) \in Seq(S) /\ Head(q) \in S /\ Last(q) \in S
         /\ Tail(q) # <<>> => Last(Tail(q)) = Last(q)
         /\ Tail(q) = <<>> => Last(q) = Head(q)
<1>1. Len(q) \in Nat \ {0}
  BY EmptySeq
<1>2. /\ Tail(q) \in Seq(S) /\ Head(q) = q[1]
      /\ Len(Tail(q)) = Len(q) - 1
      /\ \A i \in 1 .. Len(q) - 1 : Tail(q)[i] = q[i + 1]
  BY <1>1, HeadTailProperties
<1>3. q[1] \in S /\ q[Len(q)] \in S
  BY <1>1, ElementOfSeq
<1>4. ASSUME Tail(q) # <<>> PROVE Last(Tail(q)) = Last(q)
  <2>1. Len(q) - 1 \in Nat \ {0}
    BY <1>2, <1>4, EmptySeq
  <2> QED BY <1>1, <1>2, <2>1 DEF Last
<1>5. ASSUME Tail(q) = <<>> PROVE Last(q) = Head(q)
  <2>0. Len(Tail(q)) = 0
    BY <1>5, EmptySeq, Zenon
  <2>2. Len(q) - 1 = 0
    BY <1>2, <2>0, Zenon
  <2>1. Len(q) = 1
    BY <1>1, <2>2
  <2> QED BY <1>2, <2>1 DEF Last
<1> QED BY <1>2, <1>3, <1>4, <1>5 DEF Last

(* What is seen over a pipeline is a document, with its last list, or that *)
(* of the document.                                                        *)
LEMMA ViewFacts ==
  ASSUME TypeOK, NEW pipeline \in Seq(Updates)
  PROVE  /\ Pictured(pipeline) \in Seq(Pictures)
         /\ View(pipeline) \in Docs
         /\ View(pipeline).pictures = Pictured(pipeline)
<1>1. pipeline \in Seq(Updates) /\ firestore \in Docs
  BY DEF TypeOK
<1>2. Pictured(pipeline) \in Seq(Pictures)
  <2>1. CASE pipeline = <<>>
    BY <1>1, <2>1 DEF Pictured, Docs
  <2>2. CASE pipeline # <<>>
    <3>1. Last(pipeline) \in Updates
      BY <1>1, <2>2, TailFacts
    <3> QED BY <2>2, <3>1 DEF Pictured, Updates
  <2> QED BY <2>1, <2>2
<1> DEFINE I == {i \in 1 .. Len(pipeline) : pipeline[i].text # Same}
           last == SelectLastInSeq(pipeline, LAMBDA update : update.text # Same)
           text == IF last = 0 THEN firestore.text ELSE pipeline[last].text
<1>3. last = IF I # {} THEN Max(I) ELSE 0
  BY DEF SelectLastInSeq
<1>4. Len(pipeline) \in Nat /\ \A i \in 1 .. Len(pipeline) : pipeline[i] \in Updates
  BY <1>1, LenProperties, ElementOfSeq
<1>5. ASSUME I # {} PROVE Max(I) \in I
  <2>1. I \in SUBSET Nat /\ \A i \in I : i <= Len(pipeline)
    BY <1>4
  <2> HIDE DEF I
  <2> QED BY <1>4, <1>5, <2>1, MaxFacts
<1>6. text \in Texts
  <2>1. CASE I = {}
    <3>1. last = 0
      BY <1>3, <2>1
    <3> HIDE DEF last
    <3> QED BY <1>1, <3>1 DEF Docs
  <2>2. CASE I # {}
    <3>1. last \in I
      BY <1>3, <1>5, <2>2
    <3> HIDE DEF last
    <3>2. last # 0 /\ pipeline[last] \in Updates /\ pipeline[last].text # Same
      BY <1>4, <3>1
    <3> QED BY <3>2 DEF Updates
  <2> QED BY <2>1, <2>2
<1>7. View(pipeline) = [text |-> text, pictures |-> Pictured(pipeline)]
  BY DEF View
<1> HIDE DEF text
<1> QED BY <1>2, <1>6, <1>7 DEF Docs

(* The lists written: that of the document and those in the pipelines.     *)
Lists == {firestore.pictures} \union {queue[i].pictures : i \in DOMAIN queue}
         \union {foreign[i].pictures : i \in DOMAIN foreign}

LEMMA PicturedFacts ==
  ASSUME NEW pipeline \in Seq(Updates)
  PROVE  Pictured(pipeline) \in {firestore.pictures}
                               \union {pipeline[i].pictures : i \in DOMAIN pipeline}
<1>1. CASE pipeline = <<>>
  BY <1>1 DEF Pictured
<1>2. CASE pipeline # <<>>
  <2>1. Len(pipeline) \in DOMAIN pipeline
    BY <1>2, EmptySeq, LenProperties
  <2> QED BY <1>2, <2>1 DEF Pictured, Last
<1> QED BY <1>1, <1>2

LEMMA EventualFacts ==
  ASSUME TypeOK
  PROVE  /\ Listed \in Seq(Pictures) /\ Listed \in Lists
         /\ Eventual \in Docs
         /\ Eventual.pictures = Listed
<1>1. queue \in Seq(Updates)
  BY DEF TypeOK
<1> QED BY <1>1, ViewFacts, PicturedFacts DEF Listed, Eventual, Lists

(* Whoever is signed in sees one of the lists written.                     *)
LEMMA SeenFacts ==
  ASSUME TypeOK, NEW user \in Accounts \union {"nobody"}
  PROVE  Seen(user) \in Docs /\ Seen(user).pictures \in Lists
<1>1. queue \in Seq(Updates) /\ foreign \in Seq(Updates) /\ <<>> \in Seq(Updates)
  BY DEF TypeOK
<1>2. CASE user = "poster"
  BY <1>1, <1>2, ViewFacts, PicturedFacts DEF Seen, Pipeline, Lists
<1>3. CASE user = "other"
  BY <1>1, <1>3, ViewFacts, PicturedFacts DEF Seen, Pipeline, Lists
<1>4. CASE user = "nobody"
  <2>1. View(<<>>) \in Docs /\ View(<<>>).pictures = firestore.pictures
    BY <1>1, ViewFacts DEF Pictured
  <2> QED BY <1>4, <2>1 DEF Seen, Pipeline, Lists
<1> QED BY <1>2, <1>3, <1>4 DEF Accounts

(* Detaching a pipeline leaves its lists.                                  *)
LEMMA DetachFacts ==
  ASSUME NEW pipeline \in Seq(Updates)
  PROVE  /\ Detach(pipeline) \in Seq(Updates)
         /\ Len(Detach(pipeline)) = Len(pipeline)
         /\ DOMAIN Detach(pipeline) = DOMAIN pipeline
         /\ \A i \in DOMAIN pipeline : Detach(pipeline)[i].pictures = pipeline[i].pictures
         /\ pipeline = <<>> <=> Detach(pipeline) = <<>>
         /\ pipeline # <<>> => Last(Detach(pipeline)).pictures = Last(pipeline).pictures
<1> DEFINE n == Len(pipeline)
<1>1. n \in Nat /\ DOMAIN pipeline = 1 .. n /\ \A i \in 1 .. n : pipeline[i] \in Updates
  BY LenProperties, ElementOfSeq
<1>2. Detach(pipeline) = [i \in 1 .. n |-> [pipeline[i] EXCEPT !.live = FALSE]]
  BY <1>1 DEF Detach
<1> HIDE DEF n
<1>3. \A i \in 1 .. n : /\ [pipeline[i] EXCEPT !.live = FALSE] \in Updates
                        /\ [pipeline[i] EXCEPT !.live = FALSE].pictures = pipeline[i].pictures
  BY <1>1 DEF Updates
<1>4. Detach(pipeline) \in [1 .. n -> Updates]
  BY <1>2, <1>3
<1>5. Detach(pipeline) \in Seq(Updates)
  BY <1>1, <1>4, SeqDef, Zenon
<1>6. Len(Detach(pipeline)) = n /\ DOMAIN Detach(pipeline) = 1 .. n
  BY <1>1, <1>4, <1>5, LenProperties
<1>7. \A i \in 1 .. n : Detach(pipeline)[i].pictures = pipeline[i].pictures
  BY <1>2, <1>3
<1>8. pipeline = <<>> <=> Detach(pipeline) = <<>>
  BY <1>5, <1>6, EmptySeq, Zenon DEF n
<1>9. ASSUME pipeline # <<>> PROVE Last(Detach(pipeline)).pictures = Last(pipeline).pictures
  <2>1. n # 0
    BY <1>9, EmptySeq DEF n
  <2>2. n \in 1 .. n
    BY <1>1, <2>1
  <2>3. Last(pipeline) = pipeline[n] /\ Last(Detach(pipeline)) = Detach(pipeline)[n]
    BY <1>6 DEF Last, n
  <2> QED BY <1>7, <2>2, <2>3
<1> QED BY <1>1, <1>5, <1>6, <1>7, <1>8, <1>9 DEF n

(* A new row shows the document it was made from; the lists in the         *)
(* pipelines stay.                                                         *)
LEMMA NewRowFacts ==
  ASSUME TypeOK, NEW doc \in Docs, NEW user, NewRow(doc, user)
  PROVE  /\ post' = doc /\ form' \in Forms /\ editable' \in BOOLEAN
         /\ form'.editImages = doc.pictures /\ form'.imagesToDelete = <<>>
         /\ queue' \in Seq(Updates) /\ foreign' \in Seq(Updates)
         /\ asked' \in Nat /\ reads' \in Seq(Docs) /\ outdated' \in BOOLEAN
         /\ foreign = <<>> => foreign' = <<>>
         /\ firestore' = firestore => Listed' = Listed /\ Lists' = Lists
<1>1. /\ form' = NewForm(doc) /\ asked' = 0 /\ reads' = <<>> /\ post' = doc
      /\ queue' = Detach(queue) /\ foreign' = Detach(foreign)
      /\ editable' \in BOOLEAN /\ outdated' \in BOOLEAN
  BY DEF NewRow
<1>2. form' \in Forms
  <2>1. MaxAdded \in Nat /\ <<>> \in Seq(Pictures)
    BY EditAssumption
  <2> QED BY <1>1, <2>1 DEF NewForm, Forms, Docs
<1>3. queue \in Seq(Updates) /\ foreign \in Seq(Updates)
  BY DEF TypeOK
<1>4. queue' \in Seq(Updates) /\ foreign' \in Seq(Updates) /\ (foreign = <<>> => foreign' = <<>>)
  BY <1>1, <1>3, DetachFacts
<1>5. ASSUME firestore' = firestore PROVE Listed' = Listed
  <2>1. (queue = <<>> <=> queue' = <<>>) /\ (queue # <<>> => Last(queue').pictures = Last(queue).pictures)
    BY <1>1, <1>3, DetachFacts
  <2> QED BY <1>5, <2>1 DEF Listed, Pictured
<1>6. ASSUME firestore' = firestore PROVE Lists' = Lists
  <2>1. /\ DOMAIN queue' = DOMAIN queue /\ \A i \in DOMAIN queue : queue'[i].pictures = queue[i].pictures
        /\ DOMAIN foreign' = DOMAIN foreign
        /\ \A i \in DOMAIN foreign : foreign'[i].pictures = foreign[i].pictures
    BY <1>1, <1>3, DetachFacts
  <2> QED BY <1>6, <2>1 DEF Lists
<1>7. asked' \in Nat /\ reads' \in Seq(Docs)
  BY <1>1
<1>8. form'.editImages = doc.pictures /\ form'.imagesToDelete = <<>>
  BY <1>1 DEF NewForm
<1> QED BY <1>1, <1>2, <1>4, <1>5, <1>6, <1>7, <1>8

(* A list appended to a pipeline is one more list.                         *)
LEMMA AppendedFacts ==
  ASSUME NEW pipeline \in Seq(Updates), NEW update \in Updates
  PROVE  {Append(pipeline, update)[i].pictures : i \in DOMAIN Append(pipeline, update)}
           \subseteq {pipeline[i].pictures : i \in DOMAIN pipeline} \union {update.pictures}
<1>1. /\ Len(pipeline) \in Nat /\ DOMAIN pipeline = 1 .. Len(pipeline)
      /\ Append(pipeline, update) \in Seq(Updates)
      /\ Len(Append(pipeline, update)) = Len(pipeline) + 1
      /\ \A i \in 1 .. Len(pipeline) : Append(pipeline, update)[i] = pipeline[i]
      /\ Append(pipeline, update)[Len(pipeline) + 1] = update
  BY AppendProperties, LenProperties
<1>2. DOMAIN Append(pipeline, update) = 1 .. Len(pipeline) + 1
  BY <1>1, LenProperties
<1> SUFFICES ASSUME NEW i \in 1 .. Len(pipeline) + 1
             PROVE  Append(pipeline, update)[i].pictures
                      \in {pipeline[j].pictures : j \in DOMAIN pipeline} \union {update.pictures}
  BY <1>2
<1>3. i \in 1 .. Len(pipeline) \/ i = Len(pipeline) + 1
  BY <1>1
<1> QED BY <1>1, <1>3

(* A list written by ModifyPost in the poster's own name is what the post  *)
(* will list.                                                              *)
LEMMA ModifyPostFacts ==
  ASSUME TypeOK, NEW pictures \in Seq(Pictures), NEW text \in Texts \union {Same},
         NEW live \in BOOLEAN, ModifyPost(pictures, text, live), UNCHANGED firestore
  PROVE  /\ queue' \in Seq(Updates) /\ foreign' \in Seq(Updates)
         /\ Listed' = IF InOwnName THEN pictures ELSE Listed
         /\ Lists' \subseteq Lists \union {pictures}
         /\ ~InAnothersName => foreign' = foreign
<1> DEFINE update == [text |-> text, pictures |-> pictures, live |-> live]
<1>1. queue \in Seq(Updates) /\ foreign \in Seq(Updates) /\ update \in Updates
  BY DEF TypeOK, Updates
<1>2. /\ queue' = IF InOwnName THEN Append(queue, update) ELSE queue
      /\ foreign' = IF InAnothersName THEN Append(foreign, update) ELSE foreign
  BY DEF ModifyPost
<1>3. update.pictures = pictures
  OBVIOUS
<1> HIDE DEF update
<1>4. queue' \in Seq(Updates) /\ foreign' \in Seq(Updates)
  BY <1>1, <1>2, AppendFacts
<1>5. Listed' = IF InOwnName THEN pictures ELSE Listed
  <2>1. CASE InOwnName
    <3>1. queue' # <<>> /\ Last(queue') = update
      BY <1>1, <1>2, <2>1, AppendFacts
    <3> QED BY <1>3, <2>1, <3>1 DEF Listed, Pictured
  <2>2. CASE ~InOwnName
    BY <1>2, <2>2 DEF Listed, Pictured
  <2> QED BY <2>1, <2>2
<1>6. {queue'[i].pictures : i \in DOMAIN queue'}
        \subseteq {queue[i].pictures : i \in DOMAIN queue} \union {pictures}
  BY <1>1, <1>2, <1>3, AppendedFacts
<1>7. {foreign'[i].pictures : i \in DOMAIN foreign'}
        \subseteq {foreign[i].pictures : i \in DOMAIN foreign} \union {pictures}
  BY <1>1, <1>2, <1>3, AppendedFacts
<1>8. Lists' \subseteq Lists \union {pictures}
  BY <1>6, <1>7 DEF Lists
<1> QED BY <1>2, <1>4, <1>5, <1>8

(* An update that leaves its pipeline leaves one list less in it.          *)
LEMMA DequeuedFacts ==
  ASSUME TypeOK, Served # <<>>, Dequeue
  PROVE  /\ Served \in Seq(Updates) /\ Head(Served) \in Updates
         /\ Head(Served).pictures \in Lists
         /\ queue' \in Seq(Updates) /\ foreign' \in Seq(Updates)
         /\ Lists' \subseteq Lists \union {firestore'.pictures}
         /\ authUser = "poster" => queue # <<>> /\ Served = queue /\ queue' = Tail(queue) /\ foreign' = foreign
         /\ authUser # "poster" => foreign # <<>>
         /\ foreign = <<>> => foreign' = <<>>
<1>1. queue \in Seq(Updates) /\ foreign \in Seq(Updates)
  BY DEF TypeOK
<1>2. ASSUME NEW q \in Seq(Updates), q # <<>>
      PROVE  /\ Head(q) \in Updates /\ Tail(q) \in Seq(Updates)
             /\ Head(q).pictures \in {q[i].pictures : i \in DOMAIN q}
             /\ {Tail(q)[i].pictures : i \in DOMAIN Tail(q)} \subseteq {q[i].pictures : i \in DOMAIN q}
  <2>1. Len(q) \in Nat \ {0} /\ DOMAIN q = 1 .. Len(q)
    BY <1>2, EmptySeq, LenProperties
  <2>2. /\ Tail(q) \in Seq(Updates) /\ Head(q) = q[1] /\ Head(q) \in Updates
        /\ Len(Tail(q)) = Len(q) - 1
        /\ \A i \in 1 .. Len(q) - 1 : Tail(q)[i] = q[i + 1]
    BY <1>2, <2>1, HeadTailProperties, TailFacts
  <2>3. DOMAIN Tail(q) = 1 .. Len(q) - 1
    BY <2>2, LenProperties
  <2>4. \A i \in 1 .. Len(q) - 1 : i + 1 \in 1 .. Len(q)
    BY <2>1
  <2> QED BY <2>1, <2>2, <2>3, <2>4
<1>3. CASE authUser = "poster"
  <2>1. Served = queue /\ queue # <<>> /\ queue' = Tail(queue) /\ foreign' = foreign
    BY <1>3 DEF Served, Pipeline, Dequeue
  <2>2. /\ Head(queue) \in Updates /\ Tail(queue) \in Seq(Updates)
        /\ Head(queue).pictures \in {queue[i].pictures : i \in DOMAIN queue}
        /\ {Tail(queue)[i].pictures : i \in DOMAIN Tail(queue)} \subseteq {queue[i].pictures : i \in DOMAIN queue}
    BY <1>1, <1>2, <2>1
  <2> QED BY <1>1, <1>3, <2>1, <2>2 DEF Lists
<1>4. CASE authUser # "poster"
  <2>1. Served = foreign /\ foreign # <<>> /\ foreign' = Tail(foreign) /\ queue' = queue
    BY <1>4 DEF Served, Pipeline, Dequeue
  <2>2. /\ Head(foreign) \in Updates /\ Tail(foreign) \in Seq(Updates)
        /\ Head(foreign).pictures \in {foreign[i].pictures : i \in DOMAIN foreign}
        /\ {Tail(foreign)[i].pictures : i \in DOMAIN Tail(foreign)} \subseteq {foreign[i].pictures : i \in DOMAIN foreign}
    BY <1>1, <1>2, <2>1
  <2> QED BY <1>1, <1>4, <2>1, <2>2 DEF Lists
<1> QED BY <1>3, <1>4

(* The chains keep their pictures when one deletion is answered.           *)
LEMMA HelperFacts ==
  ASSUME TypeOK, NamesOK, NEW d \in deletions, NEW i \in DOMAIN d.urls, d.pending[i] > 0,
         NEW calls \in Nat, DeleteImageHelper(d, i, calls)
  PROVE  /\ deletions' \subseteq Deletions
         /\ \A e \in deletions' : Len(e.pending) = Len(e.urls) /\ \E f \in deletions : e.urls = f.urls
<1>1. /\ d \in Deletions /\ deletions \subseteq Deletions
      /\ d.urls \in Seq(Pictures) /\ d.pending \in Seq(Nat) /\ Len(d.pending) = Len(d.urls)
  BY DEF TypeOK, NamesOK, Deletions
<1> DEFINE n == Len(d.urls)
           pending == [j \in DOMAIN d.urls |-> CASE j = i     -> d.pending[j] - 1
                                                 [] j = i + 1 -> d.pending[j] + calls
                                                 [] OTHER     -> d.pending[j]]
           e == [d EXCEPT !.pending = pending]
<1>2. n \in Nat /\ DOMAIN d.urls = 1 .. n /\ \A j \in 1 .. n : d.pending[j] \in Nat
  BY <1>1, LenProperties, ElementOfSeq
<1>3. pending \in [1 .. n -> Nat]
  BY <1>2
<1>4. deletions' \subseteq (deletions \ {d}) \union {e}
  BY DEF DeleteImageHelper
<1> HIDE DEF pending, n
<1>5. pending \in Seq(Nat)
  BY <1>2, <1>3, SeqDef, Zenon
<1>6. Len(pending) = n
  BY <1>2, <1>3, <1>5, LenProperties
<1>7. e \in Deletions /\ e.pending = pending /\ e.urls = d.urls
  BY <1>1, <1>5 DEF Deletions
<1> HIDE DEF e
<1>8. \A f \in deletions : Len(f.pending) = Len(f.urls)
  BY DEF NamesOK
<1> QED BY <1>1, <1>4, <1>6, <1>7, <1>8 DEF n

-----------------------------------------------------------------------------
(***************************************************************************)
(* Types.                                                                  *)
(***************************************************************************)
LEMMA InitTyped == Init => TypeOK
<1> SUFFICES ASSUME Init PROVE TypeOK
  OBVIOUS
<1>1. N \in Nat /\ MaxAdded \in Nat /\ MaxSaves \in Nat /\ MaxFaults \in Nat
  BY EditAssumption
<1>2. 0 \in 0 .. MaxSaves /\ N \in 0 .. N + MaxAdded /\ 0 \in 0 .. MaxAdded /\ 0 \in 0 .. MaxFaults
  BY <1>1
<1>3. Added(0, N) \in Seq(Pictures) /\ Range(Added(0, N)) \subseteq Pictures
  BY <1>2, AddedFacts, RangeOfSeq
<1>4. firestore \in Docs /\ stored \subseteq Pictures
  BY <1>3 DEF Init, Docs
<1>5. form \in Forms
  BY <1>2, <1>4 DEF Init, NewForm, Forms, Docs
<1>6. post \in Docs /\ feed \in Docs /\ saved \in Docs
  BY <1>4 DEF Init
<1>7. queue \in Seq(Updates) /\ foreign \in Seq(Updates) /\ reads \in Seq(Docs) /\ asked \in Nat
  BY DEF Init
<1>8. uploads \subseteq Uploads /\ deletions \subseteq Deletions
  BY DEF Init
<1>9. /\ {editable, outdated, misled, lost, overlapped, added} \subseteq BOOLEAN
      /\ {currentUser, authUser} \subseteq Accounts \union {"nobody"}
  BY DEF Init, Accounts
<1>10. saves \in 0 .. MaxSaves /\ faults \in 0 .. MaxFaults
  BY <1>2 DEF Init
<1> QED BY <1>4, <1>5, <1>6, <1>7, <1>8, <1>9, <1>10 DEF TypeOK

LEMMA SaveTyped == TypeOK /\ Save => TypeOK'
<1> SUFFICES ASSUME TypeOK, Save PROVE TypeOK'
  OBVIOUS
<1>1. /\ form \in Forms /\ form.editImages \in Seq(Pictures) /\ form.imagesToDelete \in Seq(Pictures)
      /\ form.text \in Texts /\ form.additionalImages \in 0 .. MaxAdded
      /\ saves \in 0 .. MaxSaves /\ MaxSaves \in Nat /\ MaxAdded \in Nat /\ N \in Nat
  BY EditAssumption DEF TypeOK, Forms
<1>2. saves' \in 1 .. MaxSaves /\ saves' \in 0 .. MaxSaves
  BY <1>1 DEF Save, CanEdit
<1>3. EditedText \in Texts \union {Same}
  BY <1>1 DEF EditedText
<1>4. saved' \in Docs
  <2>1. form.additionalImages \in 0 .. N + MaxAdded
    BY <1>1
  <2>2. Added(saves', form.additionalImages) \in Seq(Pictures)
    BY <1>2, <2>1, AddedFacts
  <2>3. form.editImages \o Added(saves', form.additionalImages) \in Seq(Pictures)
    BY <1>1, <2>2, ConcatProperties
  <2> QED BY <1>1, <2>3 DEF Save, Docs
<1>5. uploads' \subseteq Uploads /\ deletions' \subseteq Deletions
      /\ queue' \in Seq(Updates) /\ foreign' \in Seq(Updates) /\ lost' \in BOOLEAN
  <2>1. CASE form.additionalImages > 0
    <3>1. NewUpload(saves', form.editImages, EditedText) \in Uploads
      BY <1>1, <1>2, <1>3, <2>1 DEF NewUpload, Uploads
    <3> QED BY <2>1, <3>1 DEF Save, TypeOK, pipelines
  <2>2. CASE ~(form.additionalImages > 0)
    <3>1. ModifyPost(form.editImages, EditedText, TRUE) /\ UNCHANGED <<firestore, uploads>>
      BY <2>2 DEF Save
    <3>2. queue' \in Seq(Updates) /\ foreign' \in Seq(Updates)
      BY <1>1, <1>3, <3>1, ModifyPostFacts
    <3>3. NewDeletion(saves', form.imagesToDelete) \subseteq Deletions
      <4> DEFINE urls == form.imagesToDelete
                 pending == [i \in DOMAIN urls |-> IF i = 1 THEN 1 ELSE 0]
      <4>1. Len(urls) \in Nat /\ DOMAIN urls = 1 .. Len(urls)
        BY <1>1, LenProperties
      <4>2. pending \in [1 .. Len(urls) -> Nat]
        BY <4>1
      <4>3. pending \in Seq(Nat)
        <5>1. Len(urls) \in Nat
          BY <4>1
        <5> HIDE DEF pending, urls
        <5> QED BY <4>2, <5>1, SeqDef, Zenon
      <4> HIDE DEF pending
      <4>4. [save |-> saves', urls |-> urls, pending |-> pending] \in Deletions
        BY <1>1, <1>2, <4>3 DEF Deletions
      <4> QED BY <4>4 DEF NewDeletion, pending
    <3> QED BY <2>2, <3>1, <3>2, <3>3 DEF Save, TypeOK
  <2> QED BY <2>1, <2>2
<1>6. /\ {misled', overlapped', added'} \subseteq BOOLEAN
      /\ UNCHANGED <<currentUser, authUser, firestore, stored, post, feed, form, editable, asked,
                     reads, outdated, faults>>
  BY DEF Save, session, row, answers, TypeOK
<1> QED BY <1>2, <1>4, <1>5, <1>6 DEF TypeOK

LEMMA DeleteImagesTyped ==
  ASSUME TypeOK, NEW selected \in SUBSET Range(form.editImages), DeleteImages(selected)
  PROVE  /\ TypeOK'
         /\ Range(form'.editImages) = Range(form.editImages) \ selected
         /\ Range(form'.imagesToDelete) = Range(form.imagesToDelete) \union selected
         /\ form'.additionalImages = form.additionalImages
<1>1. form \in Forms /\ form.editImages \in Seq(Pictures) /\ form.imagesToDelete \in Seq(Pictures)
  BY DEF TypeOK, Forms
<1>2. PICK retain \in SetToSeqs(Range(form.editImages) \ selected), gone \in SetToSeqs(selected) :
        form' = [form EXCEPT !.editImages = retain, !.imagesToDelete = @ \o gone]
  BY DEF DeleteImages
<1>3. /\ retain \in Seq(Pictures) /\ Range(retain) = Range(form.editImages) \ selected
      /\ gone \in Seq(Pictures) /\ Range(gone) = selected
  <2>1. Range(form.editImages) \ selected \in SUBSET Range(form.editImages)
    OBVIOUS
  <2> QED BY <1>1, <2>1, ArrangedFacts
<1>4. /\ form.imagesToDelete \o gone \in Seq(Pictures)
      /\ Range(form.imagesToDelete \o gone) = Range(form.imagesToDelete) \union Range(gone)
  BY <1>1, <1>3, ConcatProperties, RangeConcatenation
<1>5. /\ form' \in Forms /\ form'.editImages = retain
      /\ form'.imagesToDelete = form.imagesToDelete \o gone
      /\ form'.additionalImages = form.additionalImages
  BY <1>1, <1>2, <1>3, <1>4 DEF Forms
<1>6. TypeOK'
  BY <1>5 DEF DeleteImages, FormOnly, TypeOK, session, chains, pipelines, answers, history
<1> QED BY <1>3, <1>4, <1>5, <1>6

LEMMA UploadDoneTyped ==
  ASSUME TypeOK, NamesOK, NEW c \in uploads, UploadDone(c)
  PROVE  /\ TypeOK'
         /\ c.newImages \in Seq(Pictures)
         /\ Added(c.save, c.images) \in Seq(Pictures)
         /\ Range(Added(c.save, c.images)) = {[save |-> c.save, nr |-> i] : i \in 1 .. c.images}
<1>1. /\ c \in Uploads /\ c.urls < c.images
      /\ MaxSaves \in Nat /\ MaxAdded \in Nat /\ N \in Nat
  BY EditAssumption DEF TypeOK, NamesOK
<1>2. /\ c.save \in 1 .. MaxSaves /\ c.save \in 0 .. MaxSaves
      /\ c.images \in 1 .. MaxAdded /\ c.images \in 0 .. N + MaxAdded
      /\ c.urls \in 0 .. MaxAdded /\ c.newImages \in Seq(Pictures)
      /\ c.text \in Texts \union {Same} /\ c.live \in BOOLEAN
  BY <1>1 DEF Uploads
<1>3. NextPicture(c) \in Pictures
  BY <1>1, <1>2 DEF NextPicture, Pictures
<1>4. /\ Added(c.save, c.images) \in Seq(Pictures)
      /\ Range(Added(c.save, c.images)) = {[save |-> c.save, nr |-> i] : i \in 1 .. c.images}
  BY <1>2, AddedFacts
<1>5. c.newImages \o Added(c.save, c.images) \in Seq(Pictures)
  BY <1>2, <1>4, ConcatProperties
<1>6. /\ uploads' \subseteq Uploads /\ queue' \in Seq(Updates) /\ foreign' \in Seq(Updates)
      /\ lost' \in BOOLEAN
  <2>1. CASE c.urls + 1 < c.images
    <3>1. [c EXCEPT !.urls = @ + 1] \in Uploads
      BY <1>1, <1>2, <2>1 DEF Uploads
    <3> QED BY <2>1, <3>1 DEF UploadDone, TypeOK, pipelines
  <2>2. CASE ~(c.urls + 1 < c.images)
    <3>1. /\ ModifyPost(c.newImages \o Added(c.save, c.images), c.text, c.live)
          /\ uploads' = uploads \ {c} /\ UNCHANGED firestore
          /\ lost' = (lost \/ InAnothersName)
      BY <2>2 DEF UploadDone
    <3>2. queue' \in Seq(Updates) /\ foreign' \in Seq(Updates)
      BY <1>2, <1>5, <3>1, ModifyPostFacts
    <3> QED BY <3>1, <3>2 DEF TypeOK
  <2> QED BY <2>1, <2>2
<1>7. stored' \subseteq Pictures
  BY <1>3 DEF UploadDone, TypeOK
<1>8. TypeOK'
  BY <1>6, <1>7 DEF UploadDone, TypeOK, session, row, answers, history
<1> QED BY <1>2, <1>4, <1>8

(* Detaching the chains of uploads leaves all but live.                    *)
LEMMA DetachedFacts ==
  ASSUME TypeOK
  PROVE  /\ Detached \subseteq Uploads
         /\ Detached = {} <=> uploads = {}
         /\ \A e \in Detached : \E c \in uploads :
              /\ e.save = c.save /\ e.images = c.images /\ e.urls = c.urls
              /\ e.newImages = c.newImages
<1>1. \A c \in uploads : /\ [c EXCEPT !.live = FALSE] \in Uploads
                         /\ [c EXCEPT !.live = FALSE].save = c.save
                         /\ [c EXCEPT !.live = FALSE].images = c.images
                         /\ [c EXCEPT !.live = FALSE].urls = c.urls
                         /\ [c EXCEPT !.live = FALSE].newImages = c.newImages
  BY DEF TypeOK, Uploads
<1> QED BY <1>1 DEF Detached

LEMMA StepTyped == TypeOK /\ NamesOK /\ [Next]_vars => TypeOK'
<1> SUFFICES ASSUME TypeOK, NamesOK, [Next]_vars PROVE TypeOK'
  OBVIOUS
<1> USE DEF session, row, chains, pipelines, answers, history
<1>0. /\ form \in Forms /\ queue \in Seq(Updates) /\ foreign \in Seq(Updates) /\ reads \in Seq(Docs) /\ asked \in Nat
      /\ firestore \in Docs /\ feed \in Docs /\ faults \in 0 .. MaxFaults /\ MaxFaults \in Nat
      /\ stored \subseteq Pictures /\ uploads \subseteq Uploads /\ deletions \subseteq Deletions
  BY EditAssumption DEF TypeOK
<1>1. ASSUME NEW t \in Texts, EditText(t) PROVE TypeOK'
  <2>1. form' \in Forms
    BY <1>0, <1>1 DEF EditText, Forms
  <2> QED BY <1>1, <2>1 DEF EditText, FormOnly, TypeOK
<1>2. ASSUME NEW selected \in SUBSET Range(form.editImages), DeleteImages(selected) PROVE TypeOK'
  BY <1>2, DeleteImagesTyped
<1>3. CASE AddImage
  <2>1. form.additionalImages + 1 \in 0 .. MaxAdded
    BY <1>0, <1>3, EditAssumption DEF AddImage, Forms
  <2>2. form' \in Forms
    BY <1>0, <1>3, <2>1 DEF AddImage, Forms
  <2> QED BY <1>3, <2>2 DEF AddImage, FormOnly, TypeOK
<1>4. CASE Save
  BY <1>4, SaveTyped
<1>5. ASSUME NEW c \in uploads, UploadDone(c) PROVE TypeOK'
  BY <1>5, UploadDoneTyped
<1>6. ASSUME NEW c \in uploads, UploadFails(c) PROVE TypeOK'
  <2>1. NextPicture(c) \in Pictures
    <3>1. c \in Uploads /\ c.urls < c.images /\ MaxSaves \in Nat /\ MaxAdded \in Nat /\ N \in Nat
      BY <1>0, EditAssumption DEF NamesOK
    <3> QED BY <3>1 DEF NextPicture, Pictures, Uploads
  <2>2. stored' \subseteq Pictures /\ uploads' \subseteq Uploads /\ faults' \in 0 .. MaxFaults
    BY <1>0, <1>6, <2>1 DEF UploadFails
  <2> QED BY <1>6, <2>2 DEF UploadFails, TypeOK
<1>7. ASSUME NEW d \in deletions, NEW i \in DOMAIN d.urls, PictureDeleted(d, i) PROVE TypeOK'
  <2>1. deletions' \subseteq Deletions
    BY <1>7, HelperFacts DEF PictureDeleted
  <2>2. stored' \subseteq Pictures
    BY <1>0, <1>7 DEF PictureDeleted
  <2> QED BY <1>7, <2>1, <2>2 DEF PictureDeleted, TypeOK
<1>8. ASSUME NEW d \in deletions, NEW i \in DOMAIN d.urls, DeletionFails(d, i) PROVE TypeOK'
  <2>1. deletions' \subseteq Deletions
    BY <1>8, HelperFacts DEF DeletionFails
  <2>2. faults' \in 0 .. MaxFaults
    BY <1>0, <1>8 DEF DeletionFails
  <2> QED BY <1>8, <2>1, <2>2 DEF DeletionFails, TypeOK
<1>9. CASE Commit
  <2>1. /\ queue' \in Seq(Updates) /\ foreign' \in Seq(Updates) /\ Head(Served) \in Updates
    BY <1>0, <1>9, DequeuedFacts DEF Commit
  <2>2. firestore' \in Docs
    BY <1>0, <1>9, <2>1 DEF Commit, After, Updates, Docs
  <2>3. asked' \in Nat
    BY <1>0, <1>9 DEF Commit
  <2> QED BY <1>9, <2>1, <2>2, <2>3 DEF Commit, TypeOK
<1>20. CASE Refuse
  <2>1. queue' \in Seq(Updates) /\ foreign' \in Seq(Updates) /\ faults' \in 0 .. MaxFaults
    BY <1>0, <1>20, DequeuedFacts DEF Refuse
  <2> QED BY <1>20, <2>1 DEF Refuse, TypeOK
<1>10. CASE ReadEvaluated
  <2>1. asked' \in Nat
    BY <1>0, <1>10 DEF ReadEvaluated
  <2>2. reads' \in Seq(Docs)
    <3>1. Seen(authUser) \in Docs
      BY SeenFacts DEF TypeOK
    <3> QED BY <1>0, <1>10, <3>1, AppendFacts DEF ReadEvaluated
  <2> QED BY <1>10, <2>1, <2>2 DEF ReadEvaluated, TypeOK
<1>11. CASE ReadFails
  <2>1. asked' \in Nat /\ faults' \in 0 .. MaxFaults
    BY <1>0, <1>11 DEF ReadFails
  <2> QED BY <1>11, <2>1 DEF ReadFails, TypeOK
<1>12. CASE ReadReply
  <2>1. reads' \in Seq(Docs) /\ post' \in Docs
    BY <1>0, <1>12, TailFacts DEF ReadReply
  <2> QED BY <1>12, <2>1 DEF ReadReply, TypeOK
<1>13. ASSUME NEW doc \in Docs, NEW user, NewRow(doc, user)
       PROVE  /\ post' \in Docs /\ form' \in Forms /\ {editable', outdated'} \subseteq BOOLEAN
              /\ queue' \in Seq(Updates) /\ foreign' \in Seq(Updates)
              /\ asked' \in Nat /\ reads' \in Seq(Docs)
  BY <1>13, NewRowFacts
<1>14. CASE Rebuild
  <2>1. NewRow(feed, currentUser) /\ uploads' \subseteq Uploads
    BY <1>14, DetachedFacts DEF Rebuild
  <2> QED BY <1>0, <1>13, <1>14, <2>1 DEF Rebuild, TypeOK
<1>15. CASE Reload
  <2>1. feed' \in Docs
    BY <1>15, SeenFacts DEF Reload, TypeOK
  <2>2. NewRow(feed', currentUser) /\ uploads' \subseteq Uploads
    BY <1>15, DetachedFacts DEF Reload
  <2> QED BY <1>13, <1>15, <2>1, <2>2 DEF Reload, TypeOK
<1>16. CASE SignOut
  <2>1. NewRow(feed, "nobody") /\ uploads' \subseteq Uploads /\ faults' \in 0 .. MaxFaults
    BY <1>0, <1>16, DetachedFacts DEF SignOut
  <2> QED BY <1>0, <1>13, <1>16, <2>1 DEF SignOut, TypeOK
<1>17. ASSUME NEW user \in Accounts, SignIn(user) PROVE TypeOK'
  <2>1. feed' \in Docs
    BY <1>17, SeenFacts DEF SignIn
  <2>2. NewRow(feed', user) /\ uploads' \subseteq Uploads
    BY <1>17, DetachedFacts DEF SignIn
  <2> QED BY <1>13, <1>17, <2>1, <2>2 DEF SignIn, TypeOK
<1>21. ASSUME NEW user \in Accounts, LateSignIn(user) \/ LateLogin(user) PROVE TypeOK'
  <2>1. faults' \in 0 .. MaxFaults
    BY <1>0, <1>21 DEF LateSignIn, LateLogin
  <2> QED BY <1>21, <2>1 DEF LateSignIn, LateLogin, TypeOK
<1>18. CASE Crash
  <2>1. faults' \in 0 .. MaxFaults /\ NewRow(feed, "nobody")
    BY <1>0, <1>18 DEF Crash
  <2> QED BY <1>0, <1>13, <1>18, <2>1 DEF Crash, TypeOK
<1>19. CASE UNCHANGED vars
  BY <1>19 DEF vars, TypeOK
<1> QED BY <1>1, <1>2, <1>3, <1>4, <1>5, <1>6, <1>7, <1>8, <1>9, <1>10, <1>11, <1>12,
           <1>14, <1>15, <1>16, <1>17, <1>18, <1>19, <1>20, <1>21 DEF Next

-----------------------------------------------------------------------------
(***************************************************************************)
(* The lists.  All actions but Save and UploadDone leave what the post will*)
(* list alone, start no chain, and keep the form or make it anew.          *)
(***************************************************************************)
NothingNew ==
  /\ saves' = saves /\ misled' = misled
  /\ ~lost' => ~lost /\ Listed' = Listed
  /\ Lists' \subseteq Lists
  /\ feed'.pictures \in Lists \union {feed.pictures}
  /\ \A p \in stored \ stored' : \E d \in deletions : p \in Range(d.urls)
  /\ \A e \in deletions' : Len(e.pending) = Len(e.urls) /\ \E d \in deletions : e.urls = d.urls
  /\ \A e \in uploads' : \E c \in uploads : /\ e.save = c.save /\ e.images = c.images
                                            /\ e.urls = c.urls /\ e.newImages = c.newImages

FormKept ==
  /\ Range(form'.editImages) \subseteq Range(form.editImages)
  /\ Range(form'.imagesToDelete) \subseteq
       Range(form.imagesToDelete) \union (Range(form.editImages) \ Range(form'.editImages))
  /\ form.additionalImages > 0 => form'.additionalImages > 0
  /\ ~outdated' => ~outdated

FormNew ==
  /\ form'.editImages = feed'.pictures /\ form'.imagesToDelete = <<>>
  /\ ~outdated' => form'.editImages = Listed /\ uploads' = {}

LEMMA EmptyRange == Range(<<>>) = {}
<1>1. Range(<<>>) = {<<>>[i] : i \in DOMAIN <<>>}
  BY DEF Range
<1>2. DOMAIN <<>> = {}
  BY LenProperties, EmptySeq
<1> QED BY <1>1, <1>2

(* The written lists are those NamesOK speaks of.                          *)
ListsNamed ==
  /\ UpToNow(firestore.pictures)
  /\ \A pipeline \in {queue, foreign} : \A i \in DOMAIN pipeline : UpToNow(pipeline[i].pictures)

LEMMA NamesFacts ==
  /\ ListsNamed <=> \A pictures \in Lists : \A p \in Range(pictures) : p.save <= saves
  /\ ListsNamed' <=> \A pictures \in Lists' : \A p \in Range(pictures) : p.save <= saves'
<1> DEFINE Named(pictures, n) == \A p \in Range(pictures) : p.save <= n
<1>1. \A pictures : UpToNow(pictures) <=> Named(pictures, saves)
  BY DEF UpToNow
<1>2. \A pictures : UpToNow(pictures)' <=> Named(pictures, saves')
  BY DEF UpToNow
<1>3. \A pictures : pictures \in Lists <=>
        \/ pictures = firestore.pictures
        \/ \E i \in DOMAIN queue : pictures = queue[i].pictures
        \/ \E i \in DOMAIN foreign : pictures = foreign[i].pictures
  BY DEF Lists
<1>4. \A pictures : pictures \in Lists' <=>
        \/ pictures = firestore'.pictures
        \/ \E i \in DOMAIN queue' : pictures = queue'[i].pictures
        \/ \E i \in DOMAIN foreign' : pictures = foreign'[i].pictures
  BY DEF Lists
<1>5. ListsNamed <=> /\ Named(firestore.pictures, saves)
                     /\ \A i \in DOMAIN queue : Named(queue[i].pictures, saves)
                     /\ \A i \in DOMAIN foreign : Named(foreign[i].pictures, saves)
  BY <1>1 DEF ListsNamed
<1>6. ListsNamed' <=> /\ Named(firestore'.pictures, saves')
                      /\ \A i \in DOMAIN queue' : Named(queue'[i].pictures, saves')
                      /\ \A i \in DOMAIN foreign' : Named(foreign'[i].pictures, saves')
  BY DEF ListsNamed, UpToNow
<1> SUFFICES /\ ListsNamed <=> \A pictures \in Lists : Named(pictures, saves)
             /\ ListsNamed' <=> \A pictures \in Lists' : Named(pictures, saves')
  OBVIOUS
<1> HIDE DEF Named
<1>7. ListsNamed <=> \A pictures \in Lists : Named(pictures, saves)
  BY <1>3, <1>5
<1>8. ListsNamed' <=> \A pictures \in Lists' : Named(pictures, saves')
  BY <1>4, <1>6
<1> QED BY <1>7, <1>8

LEMMA NamesKept == NamesOK /\ NothingNew /\ (FormKept \/ FormNew) => NamesOK'
<1> SUFFICES ASSUME NamesOK, NothingNew, FormKept \/ FormNew PROVE NamesOK'
  OBVIOUS
<1>0. \A pictures \in Lists : \A p \in Range(pictures) : p.save <= saves
  BY NamesFacts DEF NamesOK, ListsNamed
<1>5. ListsNamed'
  <2>1. \A pictures \in Lists' : \A p \in Range(pictures) : p.save <= saves'
    BY <1>0 DEF NothingNew
  <2> QED BY <2>1, NamesFacts
<1>1. UpToNow(feed.pictures)'
  BY <1>0 DEF NamesOK, NothingNew, UpToNow
<1>2. UpToNow(form.editImages)' /\ UpToNow(form.imagesToDelete)'
  BY <1>1, EmptyRange DEF NamesOK, NothingNew, UpToNow, FormKept, FormNew
<1>3. \A d \in deletions' : Len(d.pending) = Len(d.urls) /\ UpToNow(d.urls)'
  BY DEF NamesOK, NothingNew, UpToNow
<1>4. \A c \in uploads' : c.save <= saves' /\ c.urls < c.images /\ UpToNow(c.newImages)'
  BY DEF NamesOK, NothingNew, UpToNow
<1> QED BY <1>1, <1>2, <1>3, <1>4, <1>5 DEF NamesOK, ListsNamed

LEMMA ListsKept == ListsOK /\ NothingNew /\ (FormKept \/ FormNew) => ListsOK'
<1> SUFFICES ASSUME ListsOK, NothingNew, FormKept \/ FormNew, ~misled', ~lost' PROVE ListsOK'
  BY DEF ListsOK
<1>0. ~misled /\ ~lost /\ Listed' = Listed
  BY DEF NothingNew
<1>1. /\ Range(Listed) \subseteq stored
      /\ \A d \in deletions : Apart(d, Listed)
      /\ \A c \in uploads : UploadOK(c)
      /\ ~outdated => FormOK
  BY <1>0 DEF ListsOK
<1>2. ASSUME NEW S \in SUBSET stored, \A d \in deletions : Range(d.urls) \cap S = {}
      PROVE  S \subseteq stored' /\ \A d \in deletions' : Range(d.urls) \cap S = {}
  BY <1>2 DEF NothingNew
<1>3. Range(Listed') \subseteq stored' /\ \A d \in deletions' : Apart(d, Listed')
  BY <1>0, <1>1, <1>2 DEF Apart
<1>4. ASSUME NEW e \in uploads' PROVE UploadOK(e)'
  <2>1. PICK c \in uploads : /\ e.save = c.save /\ e.images = c.images
                             /\ e.urls = c.urls /\ e.newImages = c.newImages
    BY DEF NothingNew
  <2> DEFINE old == {[save |-> c.save, nr |-> i] : i \in 1 .. c.urls}
  <2>2. /\ Range(c.newImages) \subseteq stored /\ old \subseteq stored
        /\ \A d \in deletions : Range(d.urls) \cap Range(c.newImages) = {}
        /\ \A d \in deletions : \A p \in Range(d.urls) : p.save # c.save
    BY <1>1 DEF UploadOK, Apart
  <2>3. \A d \in deletions : Range(d.urls) \cap old = {}
    BY <2>2
  <2> HIDE DEF old
  <2>4. /\ Range(c.newImages) \subseteq stored' /\ old \subseteq stored'
        /\ \A d \in deletions' : Range(d.urls) \cap Range(c.newImages) = {}
    BY <1>2, <2>2, <2>3
  <2>5. \A d \in deletions' : \A p \in Range(d.urls) : p.save # c.save
    BY <2>2 DEF NothingNew
  <2> QED BY <2>1, <2>4, <2>5 DEF UploadOK, Apart, old
<1>5. ASSUME ~outdated', FormKept PROVE FormOK'
  <2>1. FormOK
    BY <1>1, <1>5 DEF FormKept
  <2>2. /\ Range(form'.editImages) \subseteq stored
        /\ \A d \in deletions : Range(d.urls) \cap Range(form'.editImages) = {}
    BY <1>5, <2>1 DEF FormOK, FormKept, Apart
  <2>3. /\ Range(form'.editImages) \subseteq stored'
        /\ \A d \in deletions' : Apart(d, form'.editImages)
    BY <1>2, <2>2 DEF Apart
  <2>4. Range(form'.editImages) \cap Range(form'.imagesToDelete) = {}
    BY <1>5, <2>1 DEF FormOK, FormKept
  <2>5. uploads' # {} => form'.additionalImages > 0
    BY <1>5, <2>1 DEF FormOK, FormKept, NothingNew
  <2> QED BY <2>3, <2>4, <2>5 DEF FormOK, Apart
<1>6. ASSUME ~outdated', FormNew PROVE FormOK'
  BY <1>0, <1>3, <1>6, EmptyRange DEF FormNew, FormOK, Apart
<1> QED BY <1>3, <1>4, <1>5, <1>6 DEF ListsOK, Apart

LEMMA InitLists == Init => EditInv
<1> SUFFICES ASSUME Init PROVE EditInv
  OBVIOUS
<1>1. TypeOK
  BY InitTyped
<1>2. 0 \in 0 .. MaxSaves /\ N \in 0 .. N + MaxAdded
  BY EditAssumption
<1>3. Range(Added(0, N)) = {[save |-> 0, nr |-> i] : i \in 1 .. N}
  BY <1>2, AddedFacts
<1>4. firestore.pictures = Added(0, N)
  BY DEF Init
<1>5. /\ Listed = firestore.pictures /\ feed.pictures = firestore.pictures
      /\ form.editImages = firestore.pictures /\ form.imagesToDelete = <<>>
      /\ stored = Range(firestore.pictures) /\ saves = 0 /\ uploads = {} /\ deletions = {}
  BY DEF Init, Listed, Pictured, NewForm
<1>8. queue = <<>> /\ foreign = <<>> /\ DOMAIN <<>> = {} /\ InOwnName
  BY DEF Init, InOwnName
<1>6. NamesOK
  BY <1>3, <1>4, <1>5, <1>8, EmptyRange DEF NamesOK, UpToNow
<1>7. ListsOK
  BY <1>5, EmptyRange DEF ListsOK, FormOK
<1> QED BY <1>1, <1>6, <1>7, <1>8 DEF EditInv, AccountsOK

(* A save lists what the form lists, and deletes what it does not.         *)
LEMMA SaveKeeps == EditInv /\ Save => NamesOK' /\ ListsOK'
<1> SUFFICES ASSUME EditInv, Save PROVE NamesOK' /\ ListsOK'
  OBVIOUS
<1>1. TypeOK /\ NamesOK /\ ListsOK /\ saves \in Nat /\ saves' = saves + 1
  BY EditAssumption DEF EditInv, TypeOK, Save
<1>2. /\ form.editImages \in Seq(Pictures) /\ form.imagesToDelete \in Seq(Pictures)
      /\ form.additionalImages \in Nat /\ EditedText \in Texts \union {Same}
  BY <1>1, EditAssumption DEF TypeOK, Forms, EditedText
<1>3. /\ UNCHANGED <<firestore, stored, feed, form, outdated>>
      /\ ~misled' => ~misled /\ ~outdated
      /\ ~lost' => ~lost
  BY DEF Save, row, pipelines
<1>9. \A pictures \in Lists : \A p \in Range(pictures) : p.save <= saves
  BY <1>1, NamesFacts DEF NamesOK, ListsNamed
<1>4. /\ \A pictures \in Lists : \A p \in Range(pictures) : p.save \in Nat /\ p.save <= saves
      /\ \A p \in Range(Listed) \union Range(feed.pictures) \union Range(form.editImages)
              \union Range(form.imagesToDelete) : p.save \in Nat /\ p.save <= saves
      /\ \A d \in deletions : \A p \in Range(d.urls) : p.save \in Nat /\ p.save <= saves
      /\ \A c \in uploads : /\ c.save \in Nat /\ c.save <= saves
                            /\ \A p \in Range(c.newImages) : p.save \in Nat /\ p.save <= saves
  <2>1. \A s \in Seq(Pictures) : \A p \in Range(s) : p.save \in Nat
    <3>1. \A s \in Seq(Pictures) : Range(s) \subseteq Pictures
      BY RangeOfSeq
    <3> QED BY <3>1 DEF Pictures
  <2>5. Listed \in Lists
    BY <1>1, EventualFacts
  <2>6. Lists \subseteq Seq(Pictures)
    <3>1. \A pipeline \in {queue, foreign} : \A i \in DOMAIN pipeline : pipeline[i] \in Updates
      BY <1>1, ElementOfSeq, LenProperties DEF TypeOK
    <3> QED BY <1>1, <3>1 DEF TypeOK, Docs, Updates, Lists
  <2>2. Listed \in Seq(Pictures) /\ feed.pictures \in Seq(Pictures)
    BY <1>1, EventualFacts DEF TypeOK, Docs
  <2>3. \A d \in deletions : d.urls \in Seq(Pictures)
    BY <1>1 DEF TypeOK, Deletions
  <2>4. \A c \in uploads : c.newImages \in Seq(Pictures) /\ c.save \in Nat
    BY <1>1 DEF TypeOK, Uploads
  <2> QED BY <1>1, <1>2, <1>9, <2>1, <2>2, <2>3, <2>4, <2>5, <2>6 DEF NamesOK, UpToNow
<1>8. ASSUME Lists' \subseteq Lists \union {form.editImages}
      PROVE  ListsNamed'
  <2>1. \A pictures \in Lists' : \A p \in Range(pictures) : p.save \in Nat /\ p.save <= saves
    BY <1>4, <1>8
  <2>2. \A pictures \in Lists' : \A p \in Range(pictures) : p.save <= saves'
    BY <1>1, <2>1
  <2> QED BY <2>2, NamesFacts
<1>5. ~misled' /\ ~lost' => /\ Range(Listed) \subseteq stored
                            /\ \A d \in deletions : Apart(d, Listed)
                            /\ \A c \in uploads : UploadOK(c)
                            /\ FormOK
  BY <1>1, <1>3 DEF ListsOK
<1>6. CASE form.additionalImages > 0
  <2> DEFINE new == NewUpload(saves', form.editImages, EditedText)
  <2>1. uploads' = uploads \union {new} /\ UNCHANGED <<deletions, queue, foreign>>
        /\ Listed' = Listed /\ Lists' = Lists
    BY <1>3, <1>6 DEF Save, pipelines, Listed, Pictured, Lists
  <2>2. /\ new.save = saves + 1 /\ new.urls = 0 /\ new.images = form.additionalImages
        /\ new.newImages = form.editImages
    BY <1>1 DEF NewUpload
  <2> HIDE DEF new
  <2>3. NamesOK'
    <3>1. /\ UpToNow(feed.pictures)' /\ UpToNow(form.editImages)' /\ UpToNow(form.imagesToDelete)'
          /\ \A d \in deletions' : Len(d.pending) = Len(d.urls) /\ UpToNow(d.urls)'
      BY <1>1, <1>3, <1>4, <2>1 DEF NamesOK, UpToNow
    <3>2. \A c \in uploads' : c.save <= saves' /\ c.urls < c.images /\ UpToNow(c.newImages)'
      BY <1>1, <1>2, <1>4, <1>6, <2>1, <2>2 DEF NamesOK, UpToNow
    <3> QED BY <1>8, <2>1, <3>1, <3>2 DEF NamesOK, ListsNamed
  <2>4. ASSUME ~misled', ~lost', NEW c \in uploads' \ uploads PROVE UploadOK(c)'
    <3>1. c.save = saves + 1 /\ c.urls = 0 /\ c.newImages = form.editImages
      BY <2>1, <2>2, <2>4
    <3>2. {[save |-> c.save, nr |-> i] : i \in 1 .. c.urls} = {}
      BY <3>1
    <3>3. \A d \in deletions : \A p \in Range(d.urls) : p.save # c.save
      BY <1>1, <1>4, <3>1
    <3> QED BY <1>3, <1>5, <2>1, <2>4, <3>1, <3>2, <3>3 DEF UploadOK, FormOK, Apart
  <2>5. ASSUME ~misled', ~lost', NEW c \in uploads PROVE UploadOK(c)'
    BY <1>3, <1>5, <2>1, <2>5 DEF UploadOK, Apart
  <2>6. ~misled' /\ ~lost' => FormOK'
    BY <1>3, <1>5, <1>6, <2>1 DEF FormOK, Apart
  <2>7. ListsOK'
    BY <1>3, <1>5, <2>1, <2>4, <2>5, <2>6 DEF ListsOK, Apart
  <2> QED BY <2>3, <2>7
<1>7. CASE ~(form.additionalImages > 0)
  <2>1. /\ ModifyPost(form.editImages, EditedText, TRUE) /\ UNCHANGED <<firestore, uploads>>
        /\ deletions' = deletions \union NewDeletion(saves', form.imagesToDelete)
        /\ (~lost' => InOwnName)
    BY <1>7 DEF Save, CanEdit
  <2>2. (~lost' => Listed' = form.editImages) /\ Lists' \subseteq Lists \union {form.editImages}
    BY <1>1, <1>2, <2>1, ModifyPostFacts
  <2>3. \A d \in deletions' \ deletions :
          d.urls = form.imagesToDelete /\ Len(d.pending) = Len(d.urls)
    <3> DEFINE urls == form.imagesToDelete
               pending == [i \in DOMAIN urls |-> IF i = 1 THEN 1 ELSE 0]
    <3>1. Len(urls) \in Nat /\ DOMAIN urls = 1 .. Len(urls)
      BY <1>2, LenProperties
    <3>2. pending \in [1 .. Len(urls) -> Nat]
      BY <3>1
    <3>3. pending \in Seq(Nat)
      <4>1. Len(urls) \in Nat
        BY <3>1
      <4> HIDE DEF pending, urls
      <4> QED BY <3>2, <4>1, SeqDef, Zenon
    <3>4. Len(pending) = Len(urls)
      <4> HIDE DEF pending, urls
      <4> QED BY <3>1, <3>2, <3>3, LenProperties
    <3>5. deletions' \ deletions \subseteq {[save |-> saves', urls |-> urls, pending |-> pending]}
      BY <2>1 DEF NewDeletion
    <3> HIDE DEF pending
    <3> QED BY <3>4, <3>5
  <2>4. NamesOK'
    <3>1. \A d \in deletions' : Len(d.pending) = Len(d.urls) /\ UpToNow(d.urls)'
      BY <1>1, <1>4, <2>3 DEF NamesOK, UpToNow
    <3>2. \A c \in uploads' : c.save <= saves' /\ c.urls < c.images /\ UpToNow(c.newImages)'
      BY <1>1, <1>4, <2>1 DEF NamesOK, UpToNow
    <3>3. UpToNow(feed.pictures)' /\ UpToNow(form.editImages)' /\ UpToNow(form.imagesToDelete)'
      BY <1>1, <1>3, <1>4 DEF UpToNow
    <3> QED BY <1>8, <2>2, <3>1, <3>2, <3>3 DEF NamesOK, ListsNamed
  <2>5. ASSUME ~misled', ~lost' PROVE uploads = {} /\ uploads' = {}
    BY <1>2, <1>5, <1>7, <2>1, <2>5 DEF FormOK
  <2>6. ASSUME ~misled', ~lost', NEW d \in deletions' PROVE Apart(d, form.editImages)
    BY <1>5, <2>3, <2>6 DEF FormOK, Apart
  <2>7. ListsOK'
    BY <1>3, <1>5, <2>2, <2>5, <2>6 DEF ListsOK, FormOK, Apart
  <2> QED BY <2>4, <2>7
<1> QED BY <1>6, <1>7

(* When the last picture of a chain is there, all it lists is.             *)
LEMMA UploadDoneKeeps ==
  ASSUME EditInv, NEW c \in uploads, UploadDone(c)
  PROVE  NamesOK' /\ ListsOK'
<1>1. TypeOK /\ NamesOK /\ ListsOK /\ saves \in Nat
  BY EditAssumption DEF EditInv, TypeOK
<1>2. /\ c.newImages \in Seq(Pictures) /\ Added(c.save, c.images) \in Seq(Pictures)
      /\ Range(Added(c.save, c.images)) = {[save |-> c.save, nr |-> i] : i \in 1 .. c.images}
  BY <1>1, UploadDoneTyped
<1>3. /\ c \in Uploads /\ c.save \in Nat /\ c.urls \in Nat /\ c.images \in Nat /\ c.urls < c.images
      /\ c.save <= saves /\ c.text \in Texts \union {Same} /\ c.live \in BOOLEAN
  BY <1>1, EditAssumption DEF TypeOK, Uploads, NamesOK
<1>4. /\ UNCHANGED <<firestore, feed, form, saves, deletions, outdated, misled>>
      /\ stored' = stored \union {NextPicture(c)}
      /\ (~lost' => ~lost)
  BY DEF UploadDone, row, history
<1> DEFINE pictures == c.newImages \o Added(c.save, c.images)
<1>5. /\ pictures \in Seq(Pictures)
      /\ Range(pictures) = Range(c.newImages) \union {[save |-> c.save, nr |-> i] : i \in 1 .. c.images}
  BY <1>2, ConcatProperties, RangeConcatenation
<1> HIDE DEF pictures
<1>6. /\ Listed' \in {Listed, pictures} /\ Lists' \subseteq Lists \union {pictures}
      /\ Listed' = pictures => Listed' = Listed \/ c.urls + 1 = c.images
      /\ \A e \in uploads' \ uploads : /\ c.urls + 1 < c.images
                                       /\ e.save = c.save /\ e.images = c.images
                                       /\ e.urls = c.urls + 1 /\ e.newImages = c.newImages
  <2>1. CASE c.urls + 1 < c.images
    <3>1. Listed' = Listed /\ Lists' = Lists
      BY <1>4, <2>1 DEF UploadDone, pipelines, Listed, Pictured, Lists
    <3>2. uploads' \ uploads \subseteq {[c EXCEPT !.urls = @ + 1]}
      BY <2>1 DEF UploadDone
    <3> QED BY <1>3, <2>1, <3>1, <3>2 DEF Uploads
  <2>2. CASE ~(c.urls + 1 < c.images)
    <3>1. uploads' = uploads \ {c} /\ ModifyPost(pictures, c.text, c.live)
      BY <2>2 DEF UploadDone, pictures
    <3>2. /\ Listed' = IF InOwnName THEN pictures ELSE Listed
          /\ Lists' \subseteq Lists \union {pictures}
      BY <1>1, <1>3, <1>4, <1>5, <3>1, ModifyPostFacts
    <3> QED BY <1>3, <2>2, <3>1, <3>2
  <2> QED BY <2>1, <2>2
<1>7. NamesOK'
  <2>1. \A p \in Range(pictures) : p.save <= saves
    BY <1>1, <1>3, <1>5 DEF NamesOK, UpToNow
  <2>2. ListsNamed'
    <3>1. \A l \in Lists : \A p \in Range(l) : p.save <= saves
      BY <1>1, NamesFacts DEF NamesOK, ListsNamed
    <3>2. \A l \in Lists' : \A p \in Range(l) : p.save <= saves'
      BY <1>4, <1>6, <2>1, <3>1
    <3> QED BY <3>2, NamesFacts
  <2>3. ASSUME NEW e \in uploads'
        PROVE  e.save <= saves' /\ e.urls < e.images /\ UpToNow(e.newImages)'
    BY <1>1, <1>3, <1>4, <1>6 DEF NamesOK, UpToNow
  <2>4. /\ UpToNow(feed.pictures)' /\ UpToNow(form.editImages)' /\ UpToNow(form.imagesToDelete)'
        /\ \A d \in deletions' : Len(d.pending) = Len(d.urls) /\ UpToNow(d.urls)'
    BY <1>1, <1>4 DEF NamesOK, UpToNow
  <2> QED BY <2>2, <2>3, <2>4 DEF NamesOK, ListsNamed
<1>8. ListsOK'
  <2> SUFFICES ASSUME ~misled, ~lost' PROVE ListsOK'
    BY <1>4 DEF ListsOK
  <2>1. /\ Range(Listed) \subseteq stored
        /\ \A d \in deletions : Apart(d, Listed)
        /\ \A e \in uploads : UploadOK(e)
        /\ ~outdated => FormOK
    BY <1>1, <1>4 DEF ListsOK
  <2>2. /\ Range(c.newImages) \subseteq stored
        /\ \A i \in 1 .. c.urls : [save |-> c.save, nr |-> i] \in stored
        /\ \A d \in deletions : Range(d.urls) \cap Range(c.newImages) = {}
        /\ \A d \in deletions : \A p \in Range(d.urls) : p.save # c.save
    BY <2>1 DEF UploadOK, Apart
  <2>3. \A i \in 1 .. c.urls + 1 : [save |-> c.save, nr |-> i] \in stored'
    BY <1>3, <1>4, <2>2 DEF NextPicture
  <2>4. /\ c.urls + 1 = c.images => Range(pictures) \subseteq stored'
        /\ \A d \in deletions : Apart(d, pictures)
    BY <1>4, <1>5, <2>2, <2>3 DEF Apart
  <2>5. Range(Listed') \subseteq stored' /\ \A d \in deletions' : Apart(d, Listed')
    BY <1>4, <1>6, <2>1, <2>4
  <2>6. ASSUME NEW e \in uploads' PROVE UploadOK(e)'
    <3>1. CASE e \in uploads
      BY <1>4, <2>1, <3>1 DEF UploadOK, Apart
    <3>2. CASE e \notin uploads
      BY <1>4, <1>6, <2>2, <2>3, <3>2 DEF UploadOK, Apart
    <3> QED BY <3>1, <3>2
  <2>7. ASSUME ~outdated' PROVE FormOK'
    <3>1. uploads # {}
      OBVIOUS
    <3> QED BY <1>4, <2>1, <2>7, <3>1 DEF FormOK, Apart
  <2> QED BY <2>5, <2>6, <2>7 DEF ListsOK, Apart
<1> QED BY <1>7, <1>8

LEMMA StepKeeps == EditInv /\ [Next]_vars => NamesOK' /\ ListsOK'
<1> SUFFICES ASSUME EditInv, [Next]_vars PROVE NamesOK' /\ ListsOK'
  OBVIOUS
<1> USE DEF session, row, chains, pipelines, answers, history
<1>0. TypeOK /\ NamesOK /\ ListsOK /\ AccountsOK /\ form \in Forms /\ feed \in Docs
  BY DEF EditInv, TypeOK
<1>1. NothingNew /\ (FormKept \/ FormNew) => NamesOK' /\ ListsOK'
  BY <1>0, NamesKept, ListsKept
<1>22. ASSUME UNCHANGED <<firestore, queue, foreign>> PROVE Listed' = Listed /\ Lists' = Lists
  BY <1>22 DEF Listed, Pictured, Lists
<1>2. ASSUME UNCHANGED <<firestore, stored, feed, saves, uploads, deletions, queue, foreign, misled, lost>>
      PROVE  NothingNew
  BY <1>0, <1>2, <1>22 DEF NothingNew, NamesOK
<1>3. ASSUME UNCHANGED <<form>>, ~outdated' => ~outdated
      PROVE  FormKept
  BY <1>3 DEF FormKept
<1>4. ASSUME NEW t \in Texts, EditText(t) PROVE NothingNew /\ FormKept
  <2>1. /\ form'.editImages = form.editImages /\ form'.imagesToDelete = form.imagesToDelete
        /\ form'.additionalImages = form.additionalImages
    BY <1>0, <1>4 DEF EditText, Forms
  <2> QED BY <1>2, <1>4, <2>1 DEF EditText, FormOnly, FormKept
<1>5. ASSUME NEW selected \in SUBSET Range(form.editImages), DeleteImages(selected)
      PROVE  NothingNew /\ FormKept
  <2>1. NothingNew /\ outdated' = outdated
    BY <1>2, <1>5 DEF DeleteImages, FormOnly
  <2> QED BY <1>0, <1>5, <2>1, DeleteImagesTyped DEF FormKept
<1>6. CASE AddImage
  <2>1. /\ form'.editImages = form.editImages /\ form'.imagesToDelete = form.imagesToDelete
        /\ form'.additionalImages = form.additionalImages + 1
        /\ form.additionalImages \in Nat
    BY <1>0, <1>6, EditAssumption DEF AddImage, Forms
  <2>2. NothingNew /\ FormKept
    BY <1>2, <1>6, <2>1 DEF AddImage, FormOnly, FormKept
  <2> QED BY <1>1, <2>2
<1>7. ASSUME NEW c \in uploads, UploadFails(c) PROVE NothingNew /\ FormKept
  BY <1>0, <1>3, <1>7, <1>22 DEF UploadFails, NothingNew, NamesOK
<1>8. ASSUME NEW d \in deletions, NEW i \in DOMAIN d.urls, PictureDeleted(d, i)
      PROVE  NothingNew /\ FormKept
  <2>1. \A e \in deletions' : Len(e.pending) = Len(e.urls) /\ \E f \in deletions : e.urls = f.urls
    BY <1>0, <1>8, HelperFacts DEF PictureDeleted
  <2>2. stored' = stored \ {d.urls[i]} /\ d.urls[i] \in Range(d.urls)
    BY <1>8 DEF PictureDeleted, Range
  <2> QED BY <1>3, <1>8, <1>22, <2>1, <2>2 DEF PictureDeleted, NothingNew
<1>9. ASSUME NEW d \in deletions, NEW i \in DOMAIN d.urls, DeletionFails(d, i)
      PROVE  NothingNew /\ FormKept
  <2>1. \A e \in deletions' : Len(e.pending) = Len(e.urls) /\ \E f \in deletions : e.urls = f.urls
    BY <1>0, <1>9, HelperFacts DEF DeletionFails
  <2> QED BY <1>3, <1>9, <1>22, <2>1 DEF DeletionFails, NothingNew
<1>10. CASE Commit
  <2>1. /\ Served # <<>> /\ Dequeue /\ firestore' = After(firestore, Head(Served))
        /\ UNCHANGED <<stored, feed, form, saves, uploads, deletions, outdated, misled, lost>>
    BY <1>10 DEF Commit
  <2>2. firestore'.pictures = Head(Served).pictures
    BY <2>1 DEF After
  <2>3. Lists' \subseteq Lists
    BY <1>0, <2>1, <2>2, DequeuedFacts
  <2>4. ASSUME ~lost PROVE Listed' = Listed
    <3>1. authUser = "poster"
      BY <1>0, <2>1, <2>4, DequeuedFacts DEF AccountsOK
    <3>2. queue # <<>> /\ Served = queue /\ queue' = Tail(queue) /\ queue \in Seq(Updates)
      BY <1>0, <2>1, <3>1, DequeuedFacts DEF TypeOK
    <3> QED BY <2>2, <3>2, TailFacts DEF Listed, Pictured
  <2>5. NothingNew /\ FormKept
    BY <1>0, <1>3, <2>1, <2>3, <2>4 DEF NothingNew, NamesOK
  <2> QED BY <1>1, <2>5
<1>23. CASE Refuse
  <2>1. /\ Served # <<>> /\ Dequeue /\ lost'
        /\ UNCHANGED <<firestore, stored, feed, form, saves, uploads, deletions, outdated, misled>>
    BY <1>23 DEF Refuse
  <2>2. Lists' \subseteq Lists
    BY <1>0, <2>1, DequeuedFacts DEF Lists
  <2>3. NothingNew /\ FormKept
    BY <1>0, <1>3, <2>1, <2>2 DEF NothingNew, NamesOK
  <2> QED BY <1>1, <2>3
<1>11. CASE ReadEvaluated
  BY <1>1, <1>2, <1>3, <1>11 DEF ReadEvaluated
<1>12. CASE ReadFails
  BY <1>1, <1>2, <1>3, <1>12 DEF ReadFails
<1>13. CASE ReadReply
  BY <1>1, <1>2, <1>3, <1>13 DEF ReadReply
<1>14. ASSUME NEW user, NewRow(feed', user), feed' \in Docs,
              feed'.pictures \in Lists \union {feed.pictures},
              uploads' = Detached \/ uploads' = {}, deletions' = deletions \/ deletions' = {},
              UNCHANGED <<firestore, stored, saves, misled, lost>>
       PROVE  NothingNew /\ FormNew
  <2>1. /\ form'.editImages = feed'.pictures /\ form'.imagesToDelete = <<>>
        /\ Listed' = Listed /\ Lists' = Lists
    BY <1>0, <1>14, NewRowFacts
  <2>2. ~outdated' => feed' = Eventual /\ uploads = {}
    BY <1>14 DEF NewRow
  <2>3. Eventual.pictures = Listed /\ (uploads = {} => uploads' = {})
    BY <1>0, <1>14, EventualFacts, DetachedFacts
  <2>4. NothingNew
    BY <1>0, <1>14, <2>1, DetachedFacts DEF NothingNew, NamesOK
  <2> QED BY <2>1, <2>2, <2>3, <2>4 DEF FormNew
<1>15. CASE Rebuild
  <2>1. NewRow(feed', currentUser)
    BY <1>15 DEF Rebuild, NewRow, Eventual
  <2> QED BY <1>0, <1>1, <1>14, <1>15, <2>1 DEF Rebuild
<1>17. CASE Reload
  <2>1. feed' \in Docs /\ feed'.pictures \in Lists
    BY <1>0, <1>17, SeenFacts DEF Reload, TypeOK
  <2> QED BY <1>1, <1>14, <1>17, <2>1 DEF Reload
<1>18. CASE SignOut
  <2>1. NewRow(feed', "nobody")
    BY <1>18 DEF SignOut, NewRow, Eventual
  <2> QED BY <1>0, <1>1, <1>14, <1>18, <2>1 DEF SignOut
<1>19. ASSUME NEW user \in Accounts, SignIn(user) PROVE NamesOK' /\ ListsOK'
  <2>1. feed' \in Docs /\ feed'.pictures \in Lists
    BY <1>0, <1>19, SeenFacts DEF SignIn
  <2> QED BY <1>1, <1>14, <1>19, <2>1 DEF SignIn
<1>20. CASE Crash
  <2>1. NewRow(feed', "nobody")
    BY <1>20 DEF Crash, NewRow, Eventual
  <2> QED BY <1>0, <1>1, <1>14, <1>20, <2>1 DEF Crash
<1>24. ASSUME NEW user \in Accounts, LateSignIn(user) \/ LateLogin(user) PROVE NamesOK' /\ ListsOK'
  BY <1>1, <1>2, <1>3, <1>24 DEF LateSignIn, LateLogin
<1>21. CASE UNCHANGED vars
  BY <1>1, <1>2, <1>3, <1>21 DEF vars
<1> QED BY <1>1, <1>4, <1>5, <1>6, <1>7, <1>8, <1>9, <1>10, <1>11, <1>12, <1>13, <1>15, <1>17,
           <1>18, <1>19, <1>20, <1>21, <1>23, <1>24, SaveKeeps, UploadDoneKeeps DEF Next

(* The other account comes in by a late login, and gets an update of the   *)
(* poster's only when that is told to be lost.                             *)
LEMMA AccountsKept == EditInv /\ [Next]_vars => AccountsOK'
<1> SUFFICES ASSUME EditInv, [Next]_vars PROVE AccountsOK'
  OBVIOUS
<1> USE DEF session, row, chains, pipelines, answers, history
<1>0. TypeOK /\ AccountsOK /\ faults \in Nat /\ faults + 1 # 0 /\ feed \in Docs
  BY EditAssumption DEF EditInv, TypeOK
<1>1. ASSUME UNCHANGED session \/ faults' = faults + 1, faults' \in {faults, faults + 1},
             ~lost' => ~lost, ~lost' /\ foreign = <<>> => foreign' = <<>>
      PROVE  AccountsOK'
  BY <1>0, <1>1 DEF AccountsOK, InOwnName
<1>2. CASE \/ \E t \in Texts : EditText(t)
           \/ \E selected \in SUBSET Range(form.editImages) : DeleteImages(selected)
           \/ AddImage \/ ReadEvaluated \/ ReadFails \/ ReadReply
  BY <1>1, <1>2 DEF EditText, DeleteImages, AddImage, FormOnly, ReadEvaluated, ReadFails, ReadReply
<1>3. CASE Save
  <2>1. ~lost' => foreign' = foreign
    BY <1>3 DEF Save, ModifyPost, InOwnName, InAnothersName
  <2> QED BY <1>1, <1>3, <2>1 DEF Save
<1>4. ASSUME NEW c \in uploads, UploadDone(c) PROVE AccountsOK'
  <2>1. ~lost' => foreign' = foreign
    BY <1>4 DEF UploadDone, ModifyPost
  <2> QED BY <1>1, <1>4, <2>1 DEF UploadDone
<1>5. ASSUME NEW c \in uploads, UploadFails(c) PROVE AccountsOK'
  BY <1>1, <1>5 DEF UploadFails
<1>6. ASSUME NEW d \in deletions, NEW i \in DOMAIN d.urls, PictureDeleted(d, i) \/ DeletionFails(d, i)
      PROVE  AccountsOK'
  BY <1>1, <1>6 DEF PictureDeleted, DeletionFails
<1>7. CASE Commit
  <2>1. foreign = <<>> => foreign' = <<>>
    BY <1>0, <1>7, DequeuedFacts DEF Commit
  <2> QED BY <1>1, <1>7, <2>1 DEF Commit
<1>8. CASE Refuse
  BY <1>1, <1>8 DEF Refuse
<1>9. ASSUME NEW doc \in Docs, NEW user, NewRow(doc, user) PROVE foreign = <<>> => foreign' = <<>>
  BY <1>0, <1>9, NewRowFacts
<1>10. CASE Rebuild \/ SignOut \/ Crash
  BY <1>0, <1>1, <1>9, <1>10 DEF Rebuild, SignOut, Crash
<1>11. CASE Reload
  <2>1. feed' \in Docs
    BY <1>0, <1>11, SeenFacts DEF Reload, TypeOK
  <2> QED BY <1>1, <1>9, <1>11, <2>1 DEF Reload
<1>12. ASSUME NEW user \in Accounts, SignIn(user) PROVE AccountsOK'
  <2>1. feed' \in Docs
    BY <1>0, <1>12, SeenFacts DEF SignIn
  <2>2. foreign = <<>> => foreign' = <<>>
    BY <1>9, <1>12, <2>1 DEF SignIn
  <2>3. faults # 0 /\ UNCHANGED <<faults, lost>>
    BY <1>0, <1>12 DEF SignIn, AccountsOK, InOwnName
  <2> QED BY <1>0, <2>2, <2>3 DEF AccountsOK
<1>13. ASSUME NEW user \in Accounts, LateSignIn(user) \/ LateLogin(user) PROVE AccountsOK'
  BY <1>1, <1>13 DEF LateSignIn, LateLogin
<1>14. CASE UNCHANGED vars
  BY <1>1, <1>14 DEF vars
<1> QED BY <1>2, <1>3, <1>4, <1>5, <1>6, <1>7, <1>8, <1>10, <1>11, <1>12, <1>13, <1>14 DEF Next

-----------------------------------------------------------------------------
(* The invariant of the edit form: unless a save was misled, or an update  *)
(* lost beside its deletions, what may still be listed, by the pipeline,   *)
(* by a chain of uploads or by the form, is stored and not among what a    *)
(* chain of deletions deletes.                                             *)
THEOREM EditInvariance == Spec => []EditInv
<1>1. EditInv /\ [Next]_vars => EditInv'
  <2>1. EditInv => TypeOK /\ NamesOK
    BY DEF EditInv
  <2> QED BY <2>1, StepTyped, StepKeeps, AccountsKept DEF EditInv
<1> QED BY <1>1, InitLists, PTL DEF Spec

(* The variables keep their types.                                         *)
THEOREM EditTypeCorrectness == Spec => []TypeOK
<1>1. EditInv => TypeOK
  BY DEF EditInv
<1> QED BY <1>1, EditInvariance, PTL

(* No picture the post lists, or will list when the pipeline is empty, is  *)
(* deleted by editPostAndImages, for any number of saves and of late       *)
(* logins, unless a save was made from a row built from an old copy or     *)
(* beside an unfinished upload, or its deletions ran without its update.   *)
THEOREM ListedAreStoredTheorem == Spec => []ListedAreStored
<1>1. EditInv => ListedAreStored
  BY DEF EditInv, ListsOK, ListedAreStored
<1> QED BY <1>1, EditInvariance, PTL

-----------------------------------------------------------------------------
(***************************************************************************)
(* Pictures that are no longer listed.                                     *)
(***************************************************************************)
LEMMA DueFacts ==
  /\ \A p : p \in Due <=> \E d \in deletions : \E j \in DOMAIN d.urls :
                           d.urls[j] = p /\ \E i \in 1 .. j : d.pending[i] > 0
  /\ \A p : p \in Due' <=> \E d \in deletions' : \E j \in DOMAIN d.urls :
                            d.urls[j] = p /\ \E i \in 1 .. j : d.pending[i] > 0
<1> DEFINE Of(d) == {d.urls[j] : j \in {j \in DOMAIN d.urls : \E i \in 1 .. j : d.pending[i] > 0}}
<1>1. \A d, p : p \in Of(d) <=> \E j \in DOMAIN d.urls : d.urls[j] = p /\ \E i \in 1 .. j : d.pending[i] > 0
  OBVIOUS
<1>2. Due = UNION {Of(d) : d \in deletions} /\ Due' = UNION {Of(d) : d \in deletions'}
  BY DEF Due
<1> HIDE DEF Of
<1> QED BY <1>1, <1>2

(* When a deletion is answered, what the chain still gets to is the same   *)
(* but for the picture it was about: the completion passes to the next.    *)
LEMMA DueKept ==
  ASSUME TypeOK, NamesOK, NEW d \in deletions, NEW i \in DOMAIN d.urls, d.pending[i] > 0,
         NEW calls \in Nat \ {0}, DeleteImageHelper(d, i, calls)
  PROVE  Due \ {d.urls[i]} \subseteq Due'
<1> DEFINE n == Len(d.urls)
           pending == [j \in DOMAIN d.urls |-> CASE j = i     -> d.pending[j] - 1
                                                 [] j = i + 1 -> d.pending[j] + calls
                                                 [] OTHER     -> d.pending[j]]
           e == [d EXCEPT !.pending = pending]
<1>1. /\ d \in Deletions
      /\ d.urls \in Seq(Pictures) /\ d.pending \in Seq(Nat) /\ Len(d.pending) = n
  BY DEF TypeOK, NamesOK, Deletions
<1>2. n \in Nat /\ DOMAIN d.urls = 1 .. n /\ \A j \in 1 .. n : d.pending[j] \in Nat
  BY <1>1, LenProperties, ElementOfSeq
<1>3. /\ DOMAIN pending = 1 .. n
      /\ \A j \in 1 .. n : j # i => pending[j] \in Nat /\ pending[j] >= d.pending[j]
      /\ i + 1 \in 1 .. n => pending[i + 1] > 0
  BY <1>2
<1>4. deletions' = (deletions \ {d}) \union (IF Range(pending) = {0} THEN {} ELSE {e})
  BY DEF DeleteImageHelper
<1> HIDE DEF pending, n
<1>5. e.pending = pending /\ e.urls = d.urls
  BY <1>1 DEF Deletions
<1> HIDE DEF e
<1> SUFFICES ASSUME NEW p \in Due, p # d.urls[i] PROVE p \in Due'
  OBVIOUS
<1>6. PICK f \in deletions : \E j \in DOMAIN f.urls :
        f.urls[j] = p /\ \E k \in 1 .. j : f.pending[k] > 0
  BY DueFacts
<1>7. CASE f # d
  BY <1>4, <1>6, <1>7, DueFacts
<1>8. CASE f = d
  <2>1. PICK j \in 1 .. n : d.urls[j] = p /\ \E k \in 1 .. j : d.pending[k] > 0
    BY <1>2, <1>6, <1>8
  <2>2. PICK k \in 1 .. j : d.pending[k] > 0
    BY <2>1
  <2>3. j # i /\ i \in 1 .. n /\ k \in 1 .. n
    BY <1>2, <2>1
  <2>4. \E l \in 1 .. j : pending[l] > 0
    <3>1. CASE k # i
      <4>1. pending[k] > 0
        BY <1>2, <1>3, <2>2, <2>3, <3>1
      <4> QED BY <4>1
    <3>2. CASE k = i
      <4>1. i + 1 \in 1 .. j /\ i + 1 \in 1 .. n
        BY <1>2, <2>3, <3>2
      <4> QED BY <1>3, <4>1
    <3> QED BY <3>1, <3>2
  <2>5. PICK l \in 1 .. j : pending[l] > 0
    BY <2>4
  <2>6. e \in deletions'
    <3>1. l \in DOMAIN pending /\ pending[l] # 0
      BY <1>2, <1>3, <2>5
    <3>2. Range(pending) # {0}
      BY <3>1 DEF Range
    <3> QED BY <1>4, <3>2
  <2>7. e.urls[j] = p /\ e.pending[l] > 0 /\ j \in DOMAIN e.urls
    BY <1>2, <1>5, <2>1, <2>5
  <2> QED BY <2>5, <2>6, <2>7, DueFacts
<1> QED BY <1>7, <1>8

LEMMA LeftInit == Init => LeftInv
<1> SUFFICES ASSUME Init PROVE LeftInv
  OBVIOUS
<1>1. /\ Listed = firestore.pictures /\ feed.pictures = firestore.pictures
      /\ form.editImages = firestore.pictures /\ stored = Range(firestore.pictures) /\ uploads = {}
  BY DEF Init, Listed, Pictured, NewForm
<1> QED BY <1>1 DEF LeftInv

(* A step that saves nothing: it comes to list nothing new, and all that   *)
(* was to be deleted still is, or is gone.                                 *)
LEMMA LeftKept ==
  ASSUME LeftInv, added' = added, faults' = 0 => faults = 0,
         faults' = 0 /\ ~added =>
           /\ uploads = {} => uploads' = {}
           /\ stored' \ Due' \subseteq stored \ Due
           /\ Listed' = Listed
           /\ feed'.pictures \in {feed.pictures, Listed}
           /\ \/ form'.editImages \in {feed.pictures, Listed}
              \/ Range(form.editImages) \union Range(form.imagesToDelete)
                   \subseteq Range(form'.editImages) \union Range(form'.imagesToDelete)
  PROVE  LeftInv'
BY DEF LeftInv

(* What a save no longer lists, it deletes.                                *)
LEMMA LeftSave == EditInv /\ LeftInv /\ Save => LeftInv'
<1> SUFFICES ASSUME EditInv, LeftInv, Save, faults' = 0, ~added' PROVE LeftInv'
  BY DEF LeftInv
<1>1. TypeOK /\ NamesOK /\ form.editImages \in Seq(Pictures) /\ form.imagesToDelete \in Seq(Pictures)
  BY DEF EditInv, TypeOK, Forms
<1>2. ~(form.additionalImages > 0) /\ ~added /\ faults = 0
  BY DEF Save
<1>3. /\ ModifyPost(form.editImages, EditedText, TRUE) /\ InOwnName
      /\ deletions' = deletions \union NewDeletion(saves', form.imagesToDelete)
      /\ UNCHANGED <<firestore, stored, feed, form, uploads>>
  BY <1>2 DEF Save, row, EditInv, AccountsOK
<1>4. EditedText \in Texts \union {Same}
  BY <1>1 DEF EditedText, TypeOK, Forms
<1>5. Listed' = form.editImages
  BY <1>1, <1>3, <1>4, ModifyPostFacts
<1>6. Due \union Range(form.imagesToDelete) \subseteq Due'
  <2>1. Due \subseteq Due'
    BY <1>3, DueFacts
  <2> DEFINE urls == form.imagesToDelete
             pending == [i \in DOMAIN urls |-> IF i = 1 THEN 1 ELSE 0]
             d == [save |-> saves', urls |-> urls, pending |-> pending]
  <2> SUFFICES ASSUME NEW j \in DOMAIN urls PROVE urls[j] \in Due'
    BY <2>1 DEF Range
  <2>2. Len(urls) \in Nat /\ DOMAIN urls = 1 .. Len(urls)
    BY <1>1, LenProperties
  <2>3. 1 \in 1 .. j /\ 1 \in DOMAIN urls
    BY <2>2
  <2>4. d.urls = urls /\ d.pending[1] > 0
    BY <2>3
  <2>5. d \in deletions'
    <3>1. urls # <<>>
      BY <1>1, <2>2, <2>3, EmptySeq
    <3> QED BY <1>3, <3>1 DEF NewDeletion
  <2> HIDE DEF d, urls
  <2> QED BY <2>3, <2>4, <2>5, DueFacts
<1> QED BY <1>2, <1>3, <1>5, <1>6 DEF LeftInv

LEMMA LeftStep == EditInv /\ LeftInv /\ [Next]_vars => LeftInv'
<1> SUFFICES ASSUME EditInv, LeftInv, [Next]_vars PROVE LeftInv'
  OBVIOUS
<1> USE DEF session, row, chains, pipelines, answers, history
<1>0. /\ TypeOK /\ NamesOK /\ AccountsOK /\ form \in Forms /\ feed \in Docs
      /\ faults \in Nat /\ faults + 1 # 0
  BY EditAssumption DEF EditInv, TypeOK
<1>1. ASSUME UNCHANGED <<firestore, stored, feed, deletions, queue, foreign, added>>, faults' \in {faults, faults + 1},
             uploads = {} => uploads' = {},
             Range(form.editImages) \union Range(form.imagesToDelete)
               \subseteq Range(form'.editImages) \union Range(form'.imagesToDelete)
      PROVE  LeftInv'
  <2>1. Listed' = Listed /\ Due' = Due
    BY <1>1 DEF Listed, Pictured, Due
  <2> QED BY <1>0, <1>1, <2>1, LeftKept
<1>2. ASSUME NEW t \in Texts, EditText(t) PROVE LeftInv'
  <2>1. form'.editImages = form.editImages /\ form'.imagesToDelete = form.imagesToDelete
    BY <1>0, <1>2 DEF EditText, Forms
  <2> QED BY <1>1, <1>2, <2>1 DEF EditText, FormOnly
<1>3. ASSUME NEW selected \in SUBSET Range(form.editImages), DeleteImages(selected) PROVE LeftInv'
  <2>1. /\ Range(form'.editImages) = Range(form.editImages) \ selected
        /\ Range(form'.imagesToDelete) = Range(form.imagesToDelete) \union selected
    BY <1>0, <1>3, DeleteImagesTyped
  <2> QED BY <1>1, <1>3, <2>1 DEF DeleteImages, FormOnly
<1>4. CASE AddImage
  <2>1. form'.editImages = form.editImages /\ form'.imagesToDelete = form.imagesToDelete
    BY <1>0, <1>4 DEF AddImage, Forms
  <2> QED BY <1>1, <1>4, <2>1 DEF AddImage, FormOnly
<1>5. CASE Save
  BY <1>5, LeftSave
<1>6. ASSUME NEW c \in uploads, UploadDone(c) PROVE LeftInv'
  BY <1>6 DEF UploadDone, LeftInv
<1>7. ASSUME NEW c \in uploads, UploadFails(c) PROVE LeftInv'
  BY <1>0, <1>7 DEF UploadFails, LeftInv
<1>8. ASSUME NEW d \in deletions, NEW i \in DOMAIN d.urls, PictureDeleted(d, i) PROVE LeftInv'
  <2>1. Due \ {d.urls[i]} \subseteq Due' /\ stored' = stored \ {d.urls[i]}
    BY <1>0, <1>8, DueKept DEF PictureDeleted
  <2>2. Listed' = Listed
    BY <1>8 DEF PictureDeleted, Listed, Pictured
  <2> QED BY <1>8, <2>1, <2>2, LeftKept DEF PictureDeleted
<1>9. ASSUME NEW d \in deletions, NEW i \in DOMAIN d.urls, DeletionFails(d, i) PROVE LeftInv'
  <2>1. Due \ {d.urls[i]} \subseteq Due' /\ stored' = stored
    BY <1>0, <1>9, DueKept DEF DeletionFails
  <2>2. faults' = 0 => d.urls[i] \notin stored /\ faults = 0
    BY <1>0, <1>9 DEF DeletionFails
  <2>3. Listed' = Listed
    BY <1>9 DEF DeletionFails, Listed, Pictured
  <2> QED BY <1>9, <2>1, <2>2, <2>3, LeftKept DEF DeletionFails
<1>10. CASE Commit
  <2>1. Served # <<>> /\ Dequeue /\ firestore' = After(firestore, Head(Served))
    BY <1>10 DEF Commit
  <2>2. ASSUME faults = 0 PROVE Listed' = Listed
    <3>1. authUser = "poster"
      BY <1>0, <2>2 DEF AccountsOK, InOwnName
    <3>2. queue # <<>> /\ Served = queue /\ queue' = Tail(queue) /\ queue \in Seq(Updates)
      BY <1>0, <2>1, <3>1, DequeuedFacts DEF TypeOK
    <3>3. firestore'.pictures = Head(queue).pictures
      BY <2>1, <3>2 DEF After
    <3> QED BY <3>2, <3>3, TailFacts DEF Listed, Pictured
  <2>3. Due' = Due
    BY <1>10 DEF Due, Commit
  <2> QED BY <1>10, <2>2, <2>3, LeftKept DEF Commit
<1>17. CASE Refuse
  BY <1>0, <1>17 DEF Refuse, LeftInv
<1>11. CASE ReadEvaluated \/ ReadReply
  BY <1>1, <1>11 DEF ReadEvaluated, ReadReply
<1>12. CASE ReadFails
  BY <1>1, <1>12 DEF ReadFails
<1>13. CASE Rebuild
  <2>1. form'.editImages = feed.pictures /\ Listed' = Listed /\ Due' = Due
    BY <1>0, <1>13, NewRowFacts DEF Rebuild, Due
  <2>2. uploads = {} => uploads' = {}
    BY <1>13 DEF Rebuild, Detached
  <2> QED BY <1>13, <2>1, <2>2, LeftKept DEF Rebuild
<1>14. CASE Reload
  <2>1. feed' \in Docs /\ feed' = Seen(authUser) /\ NewRow(feed', currentUser)
    BY <1>14, SeenFacts DEF Reload, EditInv, TypeOK
  <2>2. form'.editImages = feed'.pictures /\ Listed' = Listed
    BY <1>0, <1>14, <2>1, NewRowFacts DEF Reload
  <2>3. ASSUME faults = 0 PROVE feed'.pictures = Listed
    <3>1. feed' = Eventual
      BY <1>0, <2>1, <2>3 DEF AccountsOK, InOwnName, Seen, Pipeline, Eventual
    <3> QED BY <1>0, <3>1, EventualFacts
  <2>4. Due' = Due /\ (uploads = {} => uploads' = {})
    BY <1>14 DEF Reload, Due, Detached
  <2> QED BY <1>14, <2>2, <2>3, <2>4, LeftKept DEF Reload
<1>18. ASSUME NEW user \in Accounts, SignIn(user) PROVE LeftInv'
  BY <1>0, <1>18 DEF SignIn, LeftInv, AccountsOK, InOwnName
<1>19. ASSUME NEW user \in Accounts, LateSignIn(user) \/ LateLogin(user) PROVE LeftInv'
  BY <1>0, <1>19 DEF LateSignIn, LateLogin, LeftInv
<1>15. CASE SignOut \/ Crash
  BY <1>0, <1>15 DEF SignOut, Crash, LeftInv
<1>16. CASE UNCHANGED vars
  BY <1>1, <1>16 DEF vars
<1> QED BY <1>2, <1>3, <1>4, <1>5, <1>6, <1>7, <1>8, <1>9, <1>10, <1>11, <1>12, <1>13, <1>14,
           <1>15, <1>16, <1>17, <1>18, <1>19 DEF Next

(* Unless something failed or a save added pictures, no picture stays in   *)
(* Storage that the post does not list, for any number of saves and rows,  *)
(* and though a chain of deletions forks or meets what is gone.            *)
THEOREM NothingLeftBehindTheorem == Spec => []NothingLeftBehind
<1>1. LeftInv => NothingLeftBehind
  <2> SUFFICES ASSUME LeftInv, Settled, faults = 0, ~added PROVE stored \subseteq Range(firestore.pictures)
    BY DEF NothingLeftBehind
  <2>1. Due = {} /\ Listed = firestore.pictures
    BY DEF Settled, Answered, Due, Listed, Pictured
  <2> QED BY <2>1 DEF LeftInv
<1> QED BY <1>1, LeftInit, LeftStep, EditInvariance, PTL DEF Spec

-----------------------------------------------------------------------------
(***************************************************************************)
(* What the last save said.                                                *)
(***************************************************************************)
(* What the post will be, with at most one update in the pipeline.         *)
LEMMA EventualShort ==
  ASSUME TypeOK
  PROVE  /\ queue = <<>> => Eventual = firestore
         /\ Len(queue) = 1 => Eventual = After(firestore, Head(queue))
<1>1. queue \in Seq(Updates) /\ firestore \in Docs
  BY DEF TypeOK
<1> DEFINE I == {i \in 1 .. Len(queue) : queue[i].text # Same}
           last == SelectLastInSeq(queue, LAMBDA update : update.text # Same)
           text == IF last = 0 THEN firestore.text ELSE queue[last].text
<1>2. last = IF I # {} THEN Max(I) ELSE 0
  BY DEF SelectLastInSeq
<1>3. Eventual = [text |-> text, pictures |-> Listed]
  BY DEF Eventual, View, Listed
<1>4. ASSUME queue = <<>> PROVE Eventual = firestore
  <2>1. I = {}
    <3>1. Len(queue) = 0
      BY <1>4, EmptySeq
    <3> QED BY <3>1
  <2>2. last = 0
    BY <1>2, <2>1
  <2> HIDE DEF last
  <2>3. text = firestore.text
    BY <2>2
  <2> QED BY <1>1, <1>3, <1>4, <2>3 DEF Listed, Pictured, Docs
<1>5. ASSUME Len(queue) = 1 PROVE Eventual = After(firestore, Head(queue))
  <2> DEFINE u == Head(queue)
  <2>1. queue # <<>> /\ u = queue[1] /\ u = Last(queue)
    <3>1. queue # <<>>
      BY <1>5, EmptySeq
    <3>2. Head(queue) = queue[1]
      BY <1>1, <1>5, HeadTailProperties
    <3> QED BY <1>5, <3>1, <3>2 DEF Last
  <2>2. I = IF u.text = Same THEN {} ELSE {1}
    BY <1>5, <2>1
  <2>3. text = IF u.text = Same THEN firestore.text ELSE u.text
    <3>1. CASE u.text = Same
      <4>1. last = 0
        BY <1>2, <2>2, <3>1
      <4> HIDE DEF last
      <4> QED BY <3>1, <4>1
    <3>2. CASE u.text # Same
      <4>1. Max({1}) = 1
        <5>1. {1} \in SUBSET Nat /\ {1} # {} /\ \A i \in {1} : i <= 1
          OBVIOUS
        <5>2. Max({1}) \in {1}
          BY <5>1, MaxFacts
        <5> QED BY <5>2
      <4>2. last = 1
        BY <1>2, <2>2, <3>2, <4>1
      <4> HIDE DEF last
      <4> QED BY <2>1, <3>2, <4>2
    <3> QED BY <3>1, <3>2
  <2>4. Listed = u.pictures
    BY <2>1 DEF Listed, Pictured
  <2> HIDE DEF text, u
  <2> QED BY <1>3, <2>3, <2>4 DEF After, u
<1> QED BY <1>4, <1>5

(* A pipeline that was empty holds one update.                             *)
LEMMA OneFacts ==
  ASSUME NEW S, NEW u \in S
  PROVE  /\ Len(Append(<<>>, u)) = 1 /\ Head(Append(<<>>, u)) = u
         /\ Append(<<>>, u) # <<>> /\ Tail(Append(<<>>, u)) = <<>>
OBVIOUS

LEMMA OneLeft ==
  ASSUME NEW S, NEW q \in Seq(S), Len(q) = 1
  PROVE  q # <<>> /\ Tail(q) = <<>> /\ Head(q) = q[1] /\ Head(q) \in S
<1>1. q # <<>> /\ Head(q) = q[1] /\ Head(q) \in S
  OBVIOUS
<1>2. Tail(q) \in Seq(S) /\ Len(Tail(q)) = 0
  OBVIOUS
<1> QED BY <1>1, <1>2, EmptySeq

LEMMA StandsInit == Init => StandsInv
BY DEF Init, InOwnName, StandsInv, Through, Written, Unasked

(* A new row: the save goes on without it.                                 *)
LEMMA StandsNewRow ==
  ASSUME TypeOK, StandsInv, NEW doc \in Docs, NEW user, NewRow(doc, user), uploads' = Detached,
         UNCHANGED <<session, firestore, history, faults>>
  PROVE  StandsInv'
<1> SUFFICES ASSUME ~overlapped, ~misled, faults = 0
             PROVE  InOwnName' /\ (Uploading \/ Writing \/ Asking \/ Read \/ Through)'
  BY DEF StandsInv, history
<1>1. /\ InOwnName /\ (Uploading \/ Writing \/ Asking \/ Read \/ Through)
      /\ post' = doc /\ Unasked'
      /\ UNCHANGED <<firestore, saved>> /\ InOwnName'
      /\ (~outdated' => doc = Eventual /\ uploads = {})
  BY DEF StandsInv, NewRow, Unasked, session, history, InOwnName
<1>2. queue \in Seq(Updates) /\ queue' = [i \in DOMAIN queue |-> [queue[i] EXCEPT !.live = FALSE]]
  BY DEF TypeOK, NewRow, Detach
<1>3. CASE queue = <<>>
  <2>1. queue' = <<>>
    BY <1>2, <1>3
  <2>2. Eventual = firestore
    BY <1>3, EventualShort
  <2>3. CASE Uploading
    <3>1. PICK c \in uploads : /\ uploads = {c} /\ After(firestore, Update(c)) = saved
                               /\ ~outdated => c.live
      BY <2>3, Zenon DEF Uploading
    <3>2. c \in Uploads
      BY DEF TypeOK
    <3> DEFINE e == [c EXCEPT !.live = FALSE]
    <3>3. /\ e.text = c.text /\ e.newImages = c.newImages
          /\ e.save = c.save /\ e.images = c.images
      BY <3>2 DEF Uploads
    <3>4. uploads' = {e}
      BY <3>1 DEF Detached
    <3> HIDE DEF e
    <3>5. After(firestore, Update(e)) = saved
      BY <3>1, <3>3 DEF After, Update
    <3>6. Uploading'
      BY <1>1, <2>1, <3>1, <3>4, <3>5 DEF Uploading, After, Update
    <3> QED BY <1>1, <3>6
  <2>4. CASE Asking \/ Read \/ Through
    <3>1. uploads' = {} /\ firestore = saved
      BY <2>4 DEF Asking, Read, Through, Written, Detached
    <3> QED BY <1>1, <2>1, <2>2, <3>1 DEF Through, Written
  <2>5. ~Writing
    BY <1>3, EmptySeq DEF Writing
  <2> QED BY <1>1, <2>3, <2>4, <2>5
<1>4. CASE queue # <<>>
  <2>1. Writing
    BY <1>1, <1>4 DEF Uploading, Asking, Read, Through, Written
  <2>2. /\ Len(queue) = 1 /\ After(firestore, Head(queue)) = saved /\ uploads = {}
        /\ Head(queue) = queue[1] /\ queue[1] \in Updates
    BY <1>2, <2>1, OneLeft DEF Writing
  <2>3. DOMAIN queue = {1}
    BY <1>2, <2>2
  <2>4. Len(queue') = 1 /\ Head(queue') = [queue[1] EXCEPT !.live = FALSE]
    <3>1. queue' = [i \in 1 .. 1 |-> [queue[1] EXCEPT !.live = FALSE]]
      BY <1>2, <2>3
    <3>2. [queue[1] EXCEPT !.live = FALSE] \in Updates
      BY <2>2 DEF Updates
    <3> QED BY <3>1, <3>2
  <2>5. After(firestore, Head(queue')) = saved
    BY <2>2, <2>4 DEF After, Updates
  <2>6. ~outdated' => post' = saved
    BY <1>1, <2>2, EventualShort
  <2>7. Writing'
    BY <1>1, <2>2, <2>4, <2>5, <2>6 DEF Writing, Detached, After
  <2> QED BY <1>1, <2>7
<1> QED BY <1>3, <1>4

(* A save that waited for the last one: what it writes over the document   *)
(* is what the form says, since the row has the document's text.           *)
LEMMA StandsSave == TypeOK /\ StandsInv /\ Save => StandsInv'
<1> SUFFICES ASSUME TypeOK, StandsInv, Save, ~overlapped', ~misled', faults' = 0
             PROVE  InOwnName' /\ (Uploading \/ Writing)'
  BY DEF StandsInv
<1>1. /\ ~overlapped /\ ~misled /\ ~outdated /\ faults = 0 /\ Answered
      /\ UNCHANGED <<session, firestore, post, form, asked, reads, outdated>>
  BY DEF Save, row, answers
<1>2. InOwnName /\ InOwnName' /\ post = firestore /\ Answered
  BY <1>1 DEF InOwnName, session, StandsInv, Uploading, Writing, Asking, Read, Through, Written, Answered
<1>3. /\ form.editImages \in Seq(Pictures) /\ form.additionalImages \in 0 .. MaxAdded
      /\ form.text \in Texts /\ saves' \in 0 .. MaxSaves /\ MaxAdded \in Nat /\ N \in Nat
      /\ Same \notin Texts
  BY EditAssumption DEF TypeOK, Forms, Save, CanEdit
<1>4. /\ (IF EditedText = Same THEN firestore.text ELSE EditedText) = form.text
      /\ EditedText \in Texts \union {Same}
  BY <1>2, <1>3 DEF EditedText
<1>5. Added(saves', form.additionalImages) \in Seq(Pictures)
  BY <1>3, AddedFacts
<1>6. saved' = [text |-> form.text, pictures |-> form.editImages \o Added(saves', form.additionalImages)]
  BY DEF Save
<1>7. CASE form.additionalImages > 0
  <2> DEFINE c == NewUpload(saves', form.editImages, EditedText)
  <2>1. uploads' = {c} /\ queue' = <<>> /\ Unasked'
    BY <1>1, <1>7 DEF Save, pipelines, Answered, Unasked
  <2>2. /\ c.live = TRUE /\ c.text = EditedText /\ c.newImages = form.editImages
        /\ c.save = saves' /\ c.images = form.additionalImages
    BY DEF NewUpload
  <2> HIDE DEF c
  <2>3. After(firestore, Update(c)) = saved'
    BY <1>4, <1>6, <2>2 DEF After, Update
  <2>4. Uploading'
    BY <1>1, <2>1, <2>2, <2>3 DEF Uploading, After, Update
  <2> QED BY <1>1, <1>2, <2>4
<1>8. CASE ~(form.additionalImages > 0)
  <2> DEFINE u == [text |-> EditedText, pictures |-> form.editImages, live |-> TRUE]
  <2>1. queue' = Append(<<>>, u) /\ uploads' = {} /\ Unasked'
    BY <1>1, <1>2, <1>8 DEF Save, Answered, Unasked, ModifyPost
  <2>2. form.editImages \o Added(saves', form.additionalImages) = form.editImages
    <3>1. form.additionalImages = 0
      BY <1>3, <1>8
    <3>2. Len(Added(saves', 0)) = 0
      BY <1>5, <3>1 DEF Added
    <3>3. Added(saves', 0) = <<>>
      BY <1>5, <3>1, <3>2, EmptySeq
    <3> QED BY <1>3, <3>1, <3>3, ConcatEmptySeq
  <2>3. After(firestore, u) = saved'
    BY <1>4, <1>6, <2>2 DEF After
  <2>4. u \in Updates /\ u.live = TRUE
    BY <1>3, <1>4 DEF Updates
  <2> HIDE DEF u
  <2>5. Len(queue') = 1 /\ Head(queue') = u
    BY <2>1, <2>4, OneFacts
  <2>6. Writing'
    BY <1>1, <2>1, <2>3, <2>4, <2>5 DEF Writing, After
  <2> QED BY <1>1, <1>2, <2>6
<1> QED BY <1>7, <1>8

LEMMA StandsUploadDone ==
  ASSUME TypeOK, NamesOK, StandsInv, NEW c \in uploads, UploadDone(c)
  PROVE  StandsInv'
<1> SUFFICES ASSUME ~overlapped, ~misled, faults = 0 PROVE InOwnName' /\ (Uploading \/ Writing)'
  BY DEF StandsInv, UploadDone, history
<1>1. InOwnName /\ Uploading
  BY DEF StandsInv, Writing, Asking, Read, Through, Written
<1>2. /\ uploads = {c} /\ After(firestore, Update(c)) = saved /\ (~outdated => c.live)
      /\ queue = <<>> /\ Unasked
  <2>1. PICK e \in uploads : /\ uploads = {e} /\ After(firestore, Update(e)) = saved
                             /\ ~outdated => e.live
    BY <1>1, Zenon DEF Uploading
  <2>2. e = c
    BY <2>1, Zenon
  <2> QED BY <1>1, <2>1, <2>2, Zenon DEF Uploading
<1>3. UNCHANGED <<session, firestore, saved, outdated, asked, reads>> /\ Unasked' /\ InOwnName'
  BY <1>1, <1>2 DEF UploadDone, session, answers, history, Unasked, InOwnName
<1>4. c \in Uploads /\ Added(c.save, c.images) \in Seq(Pictures) /\ c.newImages \in Seq(Pictures)
  BY UploadDoneTyped DEF TypeOK
<1>5. CASE c.urls + 1 < c.images
  <2> DEFINE e == [c EXCEPT !.urls = @ + 1]
  <2>1. uploads' = {e} /\ queue' = <<>>
    BY <1>1, <1>2, <1>5 DEF UploadDone, pipelines, InOwnName
  <2>2. /\ e.text = c.text /\ e.newImages = c.newImages /\ e.live = c.live
        /\ e.save = c.save /\ e.images = c.images
    BY <1>4 DEF Uploads
  <2> HIDE DEF e
  <2>3. After(firestore, Update(e)) = saved
    BY <1>2, <2>2 DEF After, Update
  <2>4. Uploading'
    BY <1>2, <1>3, <2>1, <2>2, <2>3 DEF Uploading, After, Update
  <2> QED BY <1>1, <1>3, <2>4
<1>6. CASE ~(c.urls + 1 < c.images)
  <2> DEFINE u == Update(c)
  <2>1. uploads' = {} /\ queue' = Append(<<>>, u)
    BY <1>1, <1>2, <1>6 DEF UploadDone, ModifyPost, Update
  <2>2. u.live = c.live /\ u \in Updates
    <3>1. c.newImages \o Added(c.save, c.images) \in Seq(Pictures)
      BY <1>4, ConcatProperties
    <3> QED BY <1>4, <3>1 DEF Update, Updates, Uploads
  <2> HIDE DEF u
  <2>3. Len(queue') = 1 /\ Head(queue') = u
    BY <2>1, <2>2, OneFacts
  <2>4. After(firestore, u) = saved
    BY <1>2 DEF u
  <2>5. Writing'
    BY <1>2, <1>3, <2>1, <2>2, <2>3, <2>4 DEF Writing, After
  <2> QED BY <1>1, <1>3, <2>5
<1> QED BY <1>5, <1>6

LEMMA StandsCommit == TypeOK /\ StandsInv /\ Commit => StandsInv'
<1> SUFFICES ASSUME TypeOK, StandsInv, Commit, ~overlapped, ~misled, faults = 0
             PROVE  InOwnName' /\ (Asking \/ Through)'
  BY DEF StandsInv, Commit, history
<1>9. InOwnName /\ InOwnName'
  BY DEF StandsInv, Commit, session, InOwnName
<1>1. queue # <<>> /\ queue \in Seq(Updates) /\ Served = queue /\ queue' = Tail(queue)
  BY <1>9, DequeuedFacts DEF Commit, TypeOK, InOwnName
<1>2. InOwnName' /\ Writing
  BY <1>1, <1>9 DEF StandsInv, Uploading, Asking, Read, Through, Written
<1>3. /\ Unasked /\ Len(queue) = 1 /\ uploads = {}
      /\ After(firestore, Head(queue)) = saved
      /\ ~outdated => Head(queue).live \/ post = saved
  BY <1>2 DEF Writing
<1>4. Tail(queue) = <<>>
  BY <1>1, <1>3, OneLeft
<1>5. /\ firestore' = saved /\ saved' = saved /\ queue' = <<>> /\ uploads' = {}
      /\ UNCHANGED <<post, outdated, reads>>
      /\ asked' = IF Head(queue).live THEN asked + 1 ELSE asked
  BY <1>1, <1>3, <1>4 DEF Commit, row, chains, history
<1>6. asked = 0 /\ reads = <<>>
  BY <1>3 DEF Unasked
<1>7. CASE Head(queue).live
  BY <1>2, <1>5, <1>6, <1>7 DEF Asking, Written
<1>8. CASE ~Head(queue).live
  BY <1>2, <1>3, <1>5, <1>6, <1>8 DEF Through, Written, Unasked
<1> QED BY <1>7, <1>8

(* The row is told what the post has become.                               *)
LEMMA StandsRead == TypeOK /\ StandsInv /\ (ReadEvaluated \/ ReadReply) => StandsInv'
<1> SUFFICES ASSUME TypeOK, StandsInv, ReadEvaluated \/ ReadReply, ~overlapped, ~misled, faults = 0
             PROVE  InOwnName' /\ (Read \/ Through)'
  BY DEF StandsInv, ReadEvaluated, ReadReply, history
<1>1. /\ UNCHANGED <<firestore, uploads, queue, saved, outdated>>
      /\ InOwnName /\ InOwnName'
  BY DEF ReadEvaluated, ReadReply, session, chains, pipelines, history, StandsInv, InOwnName
<1>2. CASE ReadEvaluated
  <2>1. Asking
    BY <1>2 DEF ReadEvaluated, StandsInv, Uploading, Writing, Read, Through, Unasked
  <2>2. Seen(authUser) = firestore
    <3>1. Seen(authUser) = Eventual
      BY <1>1 DEF InOwnName, Seen, Pipeline, Eventual
    <3> QED BY <2>1, <3>1, EventualShort DEF Asking, Written
  <2>3. asked' = 0 /\ reads' = <<firestore>>
    BY <1>2, <2>1, <2>2 DEF ReadEvaluated, Asking
  <2> QED BY <1>1, <2>1, <2>3 DEF Asking, Read, Written
<1>3. CASE ReadReply
  <2>1. Read
    BY <1>3 DEF ReadReply, StandsInv, Uploading, Writing, Asking, Through, Unasked
  <2>2. post' = firestore /\ reads' = <<>> /\ asked' = 0
    BY <1>3, <2>1 DEF ReadReply, Read
  <2> QED BY <1>1, <2>1, <2>2 DEF Through, Read, Written, Unasked
<1> QED BY <1>2, <1>3

LEMMA StandsStep == EditInv /\ StandsInv /\ [Next]_vars => StandsInv'
<1> SUFFICES ASSUME EditInv, StandsInv, [Next]_vars PROVE StandsInv'
  OBVIOUS
<1>0. TypeOK /\ NamesOK /\ feed \in Docs /\ faults \in Nat /\ Eventual \in Docs
  BY EditAssumption, EventualFacts DEF EditInv, TypeOK
<1>1. CASE faults' = faults + 1
  BY <1>0, <1>1 DEF StandsInv
<1>2. ASSUME UNCHANGED <<session, firestore, post, uploads, queue, answers, outdated, history, faults>>
      PROVE  StandsInv'
  BY <1>2 DEF StandsInv, Uploading, Writing, Asking, Read, Through, Written, Unasked,
     After, Update, session, answers, history, InOwnName
<1>3. CASE \/ \E t \in Texts : EditText(t)
           \/ \E selected \in SUBSET Range(form.editImages) : DeleteImages(selected)
           \/ AddImage
  BY <1>2, <1>3 DEF EditText, DeleteImages, AddImage, FormOnly, chains, pipelines
<1>4. ASSUME NEW d \in deletions, NEW i \in DOMAIN d.urls, PictureDeleted(d, i) \/ DeletionFails(d, i)
      PROVE  StandsInv'
  BY <1>1, <1>2, <1>4 DEF PictureDeleted, DeletionFails, row, pipelines
<1>5. ASSUME NEW c \in uploads, UploadFails(c) PROVE StandsInv'
  BY <1>1, <1>5 DEF UploadFails
<1>6. CASE Refuse \/ ReadFails \/ SignOut \/ Crash
  BY <1>1, <1>6 DEF Refuse, ReadFails, SignOut, Crash
<1>7. CASE Rebuild
  <2>1. NewRow(feed, currentUser) /\ uploads' = Detached /\ UNCHANGED <<session, firestore, history, faults>>
    BY <1>7 DEF Rebuild
  <2> QED BY <1>0, <2>1, StandsNewRow
<1>8. CASE Reload
  <2>1. /\ NewRow(Seen(authUser), currentUser) /\ uploads' = Detached
        /\ UNCHANGED <<session, firestore, history, faults>>
    BY <1>8 DEF Reload
  <2>2. Seen(authUser) \in Docs
    BY <1>0, SeenFacts DEF TypeOK
  <2> QED BY <1>0, <2>1, <2>2, StandsNewRow
<1>10. ASSUME NEW user \in Accounts, SignIn(user) PROVE StandsInv'
  BY <1>0, <1>10 DEF SignIn, StandsInv, EditInv, AccountsOK, InOwnName
<1>11. ASSUME NEW user \in Accounts, LateSignIn(user) \/ LateLogin(user) PROVE StandsInv'
  BY <1>1, <1>11 DEF LateSignIn, LateLogin
<1>9. CASE UNCHANGED vars
  BY <1>2, <1>9 DEF vars, row, chains, pipelines
<1> QED BY <1>0, <1>3, <1>4, <1>5, <1>6, <1>7, <1>8, <1>9, <1>10, <1>11, StandsSave, StandsUploadDone,
           StandsCommit, StandsRead DEF Next

(* When every answer has come, the post is what the last save said, for    *)
(* any number of saves, rows and edits, as long as the user waits for each *)
(* save and the row is not out of date.                                    *)
THEOREM LastSaveStandsTheorem == Spec => []LastSaveStands
<1>1. StandsInv => LastSaveStands
  BY EmptySeq DEF StandsInv, LastSaveStands, Answered, Uploading, Writing, Asking, Read, Through, Written
<1> QED BY <1>1, StandsInit, StandsStep, EditInvariance, PTL DEF Spec
=============================================================================
