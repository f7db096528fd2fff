------------------------ MODULE WritePipelineProofs ------------------------
(***************************************************************************)
(* Proofs about WritePipeline, for any users, any number of writes, any    *)
(* capacity of the pipeline and any number of refusals and faults.         *)
(***************************************************************************)
EXTENDS WritePipeline, FiniteSetsExt, WellFoundedInduction, SequenceTheorems, TLAPS

-----------------------------------------------------------------------------
(***************************************************************************)
(* The helpers.                                                            *)
(***************************************************************************)

(* A set of numbers that has a bound has a largest: its least bound.       *)
LEMMA MaxFacts ==
  ASSUME NEW A \in SUBSET Nat, A # {}, NEW n \in Nat, \A x \in A : x <= n
  PROVE  Max(A) \in A /\ \A x \in A : x <= Max(A)
<1> DEFINE bounds == {m \in Nat : \A x \in A : x <= m}
<1>1. PICK m \in bounds : \A k \in bounds : ~(<<k, m>> \in OpToRel(<, Nat))
  <2>1. n \in bounds
    OBVIOUS
  <2>2. bounds \subseteq Nat /\ bounds # {}
    BY <2>1
  <2> HIDE DEF bounds
  <2> QED BY <2>2, NatLessThanWellFounded, WFMin, Zenon
<1>2. m \in Nat /\ \A x \in A : x <= m
  OBVIOUS
<1>3. \A k \in bounds : ~(k < m)
  BY <1>1, <1>2 DEF OpToRel
<1>4. m \in A
  <2> SUFFICES ASSUME m \notin A PROVE FALSE
    OBVIOUS
  <2>1. \A x \in A : x < m
    BY <1>2
  <2>2. m # 0
    <3>1. PICK x \in A : TRUE
      OBVIOUS
    <3>2. x \in Nat /\ x < m
      BY <2>1
    <3> QED BY <1>2, <3>2
  <2>3. m - 1 \in Nat /\ m - 1 < m /\ \A x \in A : x <= m - 1
    BY <1>2, <2>1, <2>2
  <2> QED BY <1>3, <2>3
<1>5. \A x \in A : m >= x
  BY <1>2
<1>6. Max(A) \in A /\ \A x \in A : Max(A) >= x
  BY <1>4, <1>5 DEF Max
<1> QED BY <1>6

LEMMA SubSeqFacts ==
  ASSUME NEW S, NEW s \in Seq(S), NEW n \in 0 .. Len(s), NEW m \in n .. Len(s)
  PROVE  /\ SubSeq(s, n + 1, m) \in Seq(S)
         /\ Len(SubSeq(s, n + 1, m)) = m - n
         /\ \A i \in 1 .. m - n : SubSeq(s, n + 1, m)[i] = s[n + i]
<1>1. Len(s) \in Nat /\ \A i \in 1 .. Len(s) : s[i] \in S
  BY LenProperties, ElementOfSeq
<1> DEFINE k == n + 1
<1>2. k \in Int /\ m \in Int /\ \A i \in k .. m : s[i] \in S
  BY <1>1
<1>3. n = k - 1
  BY <1>1
<1> HIDE DEF k
<1>4. /\ SubSeq(s, k, m) \in Seq(S)
      /\ Len(SubSeq(s, k, m)) = IF k <= m THEN m - k + 1 ELSE 0
      /\ \A i \in 1 .. m - k + 1 : SubSeq(s, k, m)[i] = s[k + i - 1]
  BY <1>2, SubSeqProperties
<1>5. /\ Len(SubSeq(s, k, m)) = m - n
      /\ \A i \in 1 .. m - n : SubSeq(s, k, m)[i] = s[n + i]
  <2>1. m - k + 1 = m - n
    BY <1>1, <1>2, <1>3
  <2>2. \A i \in 1 .. m - n : k + i - 1 = n + i
    BY <1>1, <1>2, <1>3
  <2> QED BY <1>1, <1>2, <1>3, <1>4, <2>1, <2>2
<1> QED BY <1>4, <1>5 DEF k

LEMMA WritesOfFacts ==
  ASSUME NEW s \in Seq(Batch)
  PROVE  /\ WritesOf(s) \in Seq(Writes)
         /\ Len(WritesOf(s)) = Len(s)
         /\ \A i \in 1 .. Len(s) : WritesOf(s)[i] = s[i].write
<1>1. Len(s) \in Nat /\ DOMAIN s = 1 .. Len(s) /\ \A i \in 1 .. Len(s) : s[i] \in Batch
  BY LenProperties, ElementOfSeq
<1>2. WritesOf(s) \in [1 .. Len(s) -> Writes]
  BY <1>1 DEF WritesOf, Batch
<1>3. WritesOf(s) \in Seq(Writes)
  BY <1>1, <1>2, SeqDef
<1>4. Len(WritesOf(s)) = Len(s)
  BY <1>1, <1>2, <1>3, LenProperties
<1> QED BY <1>1, <1>3, <1>4 DEF WritesOf

(* NextMutationBatchAfterBatchId goes on where the pipeline ends.          *)
LEMMA PositionIsEnd ==
  ASSUME NEW q \in Seq(Batch), Sorted(q), NEW r \in Remote, IsFront(r.pipeline, q)
  PROVE  PositionOf(q, LastBatchIdRetrieved(r)) = Len(r.pipeline)
<1> DEFINE n == Len(r.pipeline)
           id == LastBatchIdRetrieved(r)
<1>1. /\ r.pipeline \in Seq(Batch) /\ n \in Nat /\ Len(q) \in Nat
      /\ DOMAIN q = 1 .. Len(q) /\ DOMAIN r.pipeline = 1 .. n
      /\ \A i \in 1 .. Len(q) : q[i] \in Batch
  BY LenProperties, ElementOfSeq DEF Remote
<1>2. n \in 0 .. Len(q) /\ \A i \in 1 .. n : r.pipeline[i] = q[i]
  BY <1>1 DEF IsFront
<1>3. \A i \in DOMAIN q : q[i].id > id <=> i > n
  <2>1. CASE n = 0
    <3>1. id = -1
      BY <1>1, <2>1, EmptySeq DEF LastBatchIdRetrieved
    <3> QED BY <1>1, <2>1, <3>1 DEF Batch
  <2>2. CASE n # 0
    <3>1. id = q[n].id
      <4>1. r.pipeline # <<>>
        BY <2>2, EmptySeq
      <4> QED BY <1>1, <1>2, <2>2, <4>1 DEF LastBatchIdRetrieved, Last
    <3>2. \A i \in 1 .. Len(q) : q[i].id \in Nat
      BY <1>1 DEF Batch
    <3> QED BY <1>1, <1>2, <2>2, <3>1, <3>2 DEF Sorted
  <2> QED BY <2>1, <2>2
<1>4. ASSUME NEW m \in 0 .. Len(q), \A i \in DOMAIN q : q[i].id > id <=> i > m
      PROVE  m = n
  BY <1>1, <1>2, <1>3, <1>4
<1> QED BY <1>2, <1>3, <1>4 DEF PositionOf

LEMMA NextBatchesFacts ==
  ASSUME NEW q \in Seq(Batch), Sorted(q), NEW r \in Remote, IsFront(r.pipeline, q),
         Len(r.pipeline) <= kMaxPendingWrites
  PROVE  /\ NextBatches(r, q) \in Seq(Batch)
         /\ Len(r.pipeline) + Len(NextBatches(r, q)) <= Len(q)
         /\ Len(r.pipeline) + Len(NextBatches(r, q)) <= kMaxPendingWrites
         /\ \A i \in 1 .. Len(NextBatches(r, q)) :
               NextBatches(r, q)[i] = q[Len(r.pipeline) + i]
<1> DEFINE n == Len(r.pipeline)
           room == kMaxPendingWrites - n
           last == IF n + room < Len(q) THEN n + room ELSE Len(q)
<1>1. /\ n \in Nat /\ Len(q) \in Nat /\ kMaxPendingWrites \in Nat
      /\ n <= Len(q)
      /\ \A i \in 1 .. Len(q) : q[i] \in Batch
  BY LenProperties, ElementOfSeq, PipelineAssumption DEF Remote, IsFront
<1>2. NextBatches(r, q) = SubSeq(q, n + 1, last)
  BY PositionIsEnd DEF NextBatches
<1>3. last \in Int /\ last <= Len(q) /\ last <= kMaxPendingWrites /\ last >= n
  BY <1>1
<1> HIDE DEF last
<1>4. n \in 0 .. Len(q) /\ last \in n .. Len(q)
  BY <1>1, <1>3
<1>5. /\ SubSeq(q, n + 1, last) \in Seq(Batch)
      /\ Len(SubSeq(q, n + 1, last)) = last - n
      /\ \A i \in 1 .. last - n : SubSeq(q, n + 1, last)[i] = q[n + i]
  <2> HIDE DEF n
  <2> QED BY <1>4, SubSeqFacts, Zenon
<1> DEFINE more == NextBatches(r, q)
<1>6. more \in Seq(Batch) /\ Len(more) = last - n /\ \A i \in 1 .. last - n : more[i] = q[n + i]
  BY <1>2, <1>5, Zenon
<1> HIDE DEF more
<1>7. /\ n + Len(more) <= Len(q) /\ n + Len(more) <= kMaxPendingWrites
      /\ \A i \in 1 .. Len(more) : more[i] = q[n + i]
  BY <1>1, <1>3, <1>6
<1> QED BY <1>6, <1>7 DEF more

-----------------------------------------------------------------------------
(***************************************************************************)
(* The operators on remote.                                                *)
(***************************************************************************)
LEMMA StartKeeps ==
  ASSUME NEW q, NEW r \in Remote, RemoteOK(r, q)
  PROVE  /\ StartIfNeeded(r) \in Remote
         /\ RemoteOK(StartIfNeeded(r), q)
         /\ StartIfNeeded(r).down = r.down
<1>1. CASE ~ShouldStartWriteStream(r)
  BY <1>1 DEF StartIfNeeded
<1>2. CASE ShouldStartWriteStream(r)
  <2> DEFINE t == StartWriteStream(r)
  <2>1. /\ t \in Remote
        /\ t.pipeline = r.pipeline /\ t.handshake = r.handshake /\ t.idle = r.idle
        /\ t.up = r.up /\ t.down = r.down
        /\ t.state \in {"starting", "backoff"}
    BY DEF StartWriteStream, Remote
  <2>2. r.state # "open" /\ r.pipeline # <<>>
    BY <1>2 DEF ShouldStartWriteStream, IsStarted
  <2> HIDE DEF t
  <2>3. RemoteOK(t, q)
    BY <2>1, <2>2 DEF RemoteOK, Follows, IsStarted, IsOpen
  <2>4. StartIfNeeded(r) = t
    BY <1>2 DEF StartIfNeeded, t
  <2> QED BY <2>1, <2>3, <2>4
<1> QED BY <1>1, <1>2

(* Positions in a sequence p2 that continues p with more.                  *)
LEMMA FrontPositions ==
  ASSUME NEW n \in Nat, NEW k \in Nat, NEW p, NEW more, NEW p2, NEW q,
         \A i \in 1 .. n : p[i] = q[i],
         \A i \in 1 .. k : more[i] = q[n + i],
         \A i \in 1 .. n + k : p2[i] = IF i <= n THEN p[i] ELSE more[i - n]
  PROVE  \A i \in 1 .. n + k : p2[i] = q[i]
<1> SUFFICES ASSUME NEW i \in 1 .. n + k PROVE p2[i] = q[i]
  OBVIOUS
<1>1. CASE i <= n
  BY <1>1
<1>2. CASE i > n
  <2>1. i - n \in 1 .. k /\ n + (i - n) = i
    BY <1>2
  <2>2. more[i - n] = q[n + (i - n)]
    BY <2>1
  <2> QED BY <1>2, <2>1, <2>2
<1> QED BY <1>1, <1>2

LEMMA FillKeeps ==
  ASSUME NEW q \in Seq(Batch), Sorted(q), NEW r \in Remote, RemoteOK(r, q)
  PROVE  /\ FillWritePipeline(r, q) \in Remote
         /\ RemoteOK(FillWritePipeline(r, q), q)
         /\ FillWritePipeline(r, q).down = r.down
<1> DEFINE more == NextBatches(r, q)
           ready == IsOpen(r) /\ r.handshake = "done"
           p == r.pipeline \o more
           up == IF ready THEN r.up \o WritesOf(more) ELSE r.up
           idle == IF r.pipeline \o more = <<>> THEN r.idle \/ IsOpen(r)
                   ELSE r.idle /\ ~(ready /\ more # <<>>)
           f == [r EXCEPT !.pipeline = p, !.up = up, !.idle = idle]
           n == Len(r.pipeline)
<1>1. /\ more \in Seq(Batch)
      /\ n + Len(more) <= Len(q) /\ n + Len(more) <= kMaxPendingWrites
      /\ \A i \in 1 .. Len(more) : more[i] = q[n + i]
  BY NextBatchesFacts DEF RemoteOK
<1>2. /\ WritesOf(more) \in Seq(Writes)
      /\ Len(WritesOf(more)) = Len(more)
      /\ \A i \in 1 .. Len(more) : WritesOf(more)[i] = more[i].write
  BY <1>1, WritesOfFacts
<1>3. /\ r.pipeline \in Seq(Batch) /\ r.up \in Seq(Writes) /\ r.down \in Seq(Response)
      /\ r.idle \in BOOLEAN
      /\ n \in Nat /\ Len(more) \in Nat /\ Len(r.up) \in Nat /\ Len(r.down) \in Nat
      /\ Len(q) \in Nat
      /\ DOMAIN r.pipeline = 1 .. n /\ DOMAIN r.down = 1 .. Len(r.down)
      /\ DOMAIN r.up = 1 .. Len(r.up)
  BY <1>1, LenProperties DEF Remote
<1>4. /\ p \in Seq(Batch) /\ Len(p) = n + Len(more) /\ DOMAIN p = 1 .. Len(p)
      /\ \A i \in 1 .. n + Len(more) : p[i] = IF i <= n THEN r.pipeline[i] ELSE more[i - n]
  BY <1>1, <1>3, ConcatProperties, LenProperties
<1>5. /\ up \in Seq(Writes) /\ DOMAIN up = 1 .. Len(up)
      /\ ready => /\ Len(up) = Len(r.up) + Len(more)
                  /\ \A i \in 1 .. Len(r.up) + Len(more) :
                       up[i] = IF i <= Len(r.up) THEN r.up[i] ELSE WritesOf(more)[i - Len(r.up)]
      /\ ~ready => up = r.up
  <2>1. CASE ready
    <3>1. up = r.up \o WritesOf(more)
      BY <2>1
    <3> HIDE DEF up, more
    <3> DEFINE sent == WritesOf(more)
    <3>a. sent \in Seq(Writes) /\ r.up \in Seq(Writes)
      BY <1>2, <1>3
    <3> HIDE DEF sent
    <3>2. /\ up \in Seq(Writes) /\ Len(up) = Len(r.up) + Len(sent)
          /\ \A i \in 1 .. Len(r.up) + Len(sent) :
               up[i] = IF i <= Len(r.up) THEN r.up[i] ELSE sent[i - Len(r.up)]
      <4>1. up = r.up \o sent
        BY <3>1 DEF sent
      <4> QED BY <3>a, <4>1, ConcatProperties
    <3>3. DOMAIN up = 1 .. Len(up)
      BY <3>2, LenProperties
    <3> QED BY <1>2, <2>1, <3>2, <3>3, Zenon DEF sent
  <2>2. CASE ~ready
    BY <1>3, <2>2
  <2> QED BY <2>1, <2>2
<1>6. idle \in BOOLEAN /\ (idle => IsOpen(r) /\ p = <<>>)
  <2>1. CASE p = <<>>
    <3>1. r.idle => IsOpen(r)
      BY DEF RemoteOK
    <3> QED BY <1>3, <2>1, <3>1 DEF IsOpen
  <2>2. CASE p # <<>>
    <3>1. r.idle => IsOpen(r) /\ r.pipeline = <<>>
      BY DEF RemoteOK
    <3>2. r.idle => r.handshake = "done"
      BY <3>1 DEF RemoteOK, IsStarted, IsOpen
    <3>3. r.idle => more # <<>>
      BY <1>1, <2>2, <3>1, ConcatEmptySeq
    <3> QED BY <1>3, <2>2, <3>1, <3>2, <3>3
  <2> QED BY <2>1, <2>2
<1> HIDE DEF more, p, up, idle
<1>7. /\ f \in Remote
      /\ f.pipeline = p /\ f.up = up /\ f.idle = idle
      /\ f.down = r.down /\ f.state = r.state /\ f.handshake = r.handshake
  BY <1>4, <1>5, <1>6 DEF Remote
<1> HIDE DEF f
<1>8. IsFront(f.pipeline, q) /\ Len(f.pipeline) <= kMaxPendingWrites
  <2>1. \A i \in 1 .. n : r.pipeline[i] = q[i]
    BY <1>3 DEF RemoteOK, IsFront
  <2> DEFINE k == Len(more)
             pipeline == r.pipeline
  <2>a. /\ n \in Nat /\ k \in Nat
        /\ \A i \in 1 .. k : more[i] = q[n + i]
        /\ \A i \in 1 .. n : pipeline[i] = q[i]
        /\ \A i \in 1 .. n + k : p[i] = IF i <= n THEN pipeline[i] ELSE more[i - n]
    BY <1>1, <1>3, <1>4, <2>1
  <2> HIDE DEF n, k, pipeline
  <2>2. \A i \in 1 .. n + k : p[i] = q[i]
    BY <2>a, FrontPositions
  <2> USE DEF k
  <2> QED BY <1>1, <1>4, <1>7, <2>2 DEF IsFront
<1>9. f.state = "open" <=> f.handshake # "no"
  BY <1>7 DEF RemoteOK
<1>10. IF f.handshake = "done" THEN Follows(f) ELSE f.up = <<>> /\ f.down = <<>>
  <2>1. CASE f.handshake = "done"
    <3>1. ready /\ Follows(r)
      BY <1>7, <2>1 DEF RemoteOK, IsOpen
    <3> HIDE DEF ready
    <3>2. /\ Len(r.down) + Len(r.up) = n
          /\ \A i \in 1 .. Len(r.down) : r.down[i].write = r.pipeline[i].write
          /\ \A i \in 1 .. Len(r.up) : r.up[i] = r.pipeline[Len(r.down) + i].write
      BY <1>3, <3>1 DEF Follows
    <3> DEFINE k == Len(more)
               d == Len(r.down)
               l == Len(r.up)
               pipeline == r.pipeline
               down == r.down
               before == r.up
               sent == WritesOf(more)
    <3>3. /\ n \in Nat /\ k \in Nat /\ d \in Nat /\ l \in Nat /\ d + l = n
          /\ Len(up) = l + k /\ Len(p) = n + k
      BY <1>3, <1>4, <1>5, <3>1, <3>2, Zenon
    <3>4. /\ \A i \in 1 .. n + k : p[i] = IF i <= n THEN pipeline[i] ELSE more[i - n]
          /\ \A i \in 1 .. k : sent[i] = more[i].write
          /\ \A i \in 1 .. l + k : up[i] = IF i <= l THEN before[i] ELSE sent[i - l]
          /\ \A i \in 1 .. d : down[i].write = pipeline[i].write
          /\ \A i \in 1 .. l : before[i] = pipeline[d + i].write
      BY <1>2, <1>4, <1>5, <3>1, <3>2, Zenon
    <3>5. DOMAIN up = 1 .. Len(up) /\ DOMAIN down = 1 .. d
      BY <1>3, <1>5
    <3>6. f.down = down /\ f.up = up /\ f.pipeline = p
      BY <1>7
    <3>7. Len(f.down) = d
      BY <3>6
    <3> HIDE DEF n, k, d, l, pipeline, down, before, sent
    <3>8. /\ \A i \in 1 .. d : down[i].write = p[i].write
          /\ \A i \in 1 .. l + k : up[i] = p[d + i].write
      <4>1. \A i \in 1 .. d : i \in 1 .. n + k /\ i <= n
        BY <3>3
      <4>2. ASSUME NEW i \in 1 .. l + k PROVE up[i] = p[d + i].write
        <5>1. CASE i <= l
          <6>1. d + i \in 1 .. n + k /\ d + i <= n
            BY <3>3, <5>1
          <6>2. i \in 1 .. l /\ i \in 1 .. l + k
            BY <3>3, <5>1
          <6>3. p[d + i] = pipeline[d + i]
            BY <3>4, <6>1
          <6>4. before[i] = pipeline[d + i].write
            BY <3>4, <6>2
          <6>5. up[i] = before[i]
            BY <3>4, <5>1, <6>2
          <6> QED BY <6>3, <6>4, <6>5
        <5>2. CASE i > l
          <6>1. /\ d + i \in 1 .. n + k /\ ~(d + i <= n)
                /\ i - l \in 1 .. k /\ (d + i) - n = i - l
            BY <3>3, <5>2
          <6>2. p[d + i] = more[(d + i) - n]
            BY <3>4, <6>1
          <6>3. sent[i - l] = more[i - l].write
            BY <3>4, <6>1
          <6>4. up[i] = sent[i - l]
            BY <3>3, <3>4, <5>2
          <6> QED BY <6>1, <6>2, <6>3, <6>4
        <5> QED BY <3>3, <5>1, <5>2
      <4> QED BY <3>4, <4>1, <4>2
    <3>9. d + Len(up) = Len(p)
      BY <3>3
    <3>10. Follows(f)
      BY <3>3, <3>5, <3>6, <3>7, <3>8, <3>9, Zenon DEF Follows
    <3> QED BY <2>1, <3>10
  <2>2. CASE f.handshake # "done"
    BY <1>5, <1>7, <2>2 DEF RemoteOK
  <2> QED BY <2>1, <2>2
<1>11. IsStarted(f) /\ f.handshake # "done" => f.pipeline # <<>>
  <2>1. r.pipeline # <<>> => p # <<>>
    BY <1>1, <1>3, <1>4, EmptySeq
  <2> QED BY <1>7, <2>1 DEF RemoteOK, IsStarted
<1>12. RemoteOK(f, q)
  BY <1>6, <1>7, <1>8, <1>9, <1>10, <1>11 DEF RemoteOK, IsOpen
<1>13. FillWritePipeline(r, q) = StartIfNeeded(f)
  BY DEF FillWritePipeline, f, p, up, idle, more
<1> QED BY <1>7, <1>12, <1>13, StartKeeps

LEMMA ClosedFacts ==
  ASSUME NEW r \in Remote, NEW state \in {"initial", "error"}
  PROVE  /\ Closed(r, state) \in Remote
         /\ Closed(r, state).state = state
         /\ Closed(r, state).pipeline = r.pipeline
         /\ Closed(r, state).handshake = "no"
         /\ Closed(r, state).idle = FALSE
         /\ Closed(r, state).up = <<>> /\ Closed(r, state).down = <<>>
BY EmptySeq DEF Closed, Remote

LEMMA ClosedKeeps ==
  ASSUME NEW q, NEW r \in Remote, NEW state \in {"initial", "error"}, RemoteOK(r, q)
  PROVE  RemoteOK(Closed(r, state), q)
BY ClosedFacts DEF RemoteOK, IsStarted

LEMMA RestartKeeps ==
  ASSUME NEW q \in Seq(Batch), Sorted(q), NEW r \in Remote
  PROVE  /\ RestartNetwork(r, q) \in Remote
         /\ RemoteOK(RestartNetwork(r, q), q)
         /\ RestartNetwork(r, q).down = <<>>
<1> DEFINE c == Closed(r, "initial")
           e == [c EXCEPT !.pipeline = <<>>]
<1>1. /\ c \in Remote /\ c.state = "initial" /\ c.handshake = "no" /\ c.idle = FALSE
      /\ c.up = <<>> /\ c.down = <<>>
  BY ClosedFacts
<1> HIDE DEF c
<1>2. /\ e \in Remote /\ e.state = "initial" /\ e.handshake = "no" /\ e.idle = FALSE
      /\ e.up = <<>> /\ e.down = <<>> /\ e.pipeline = <<>>
  BY <1>1, EmptySeq DEF Remote
<1> HIDE DEF e
<1>3. Len(q) \in Nat /\ Len(<<>>) = 0 /\ DOMAIN <<>> = {}
  BY LenProperties, EmptySeq
<1>4. IsFront(<<>>, q) /\ Len(<<>>) <= kMaxPendingWrites
  BY <1>3, PipelineAssumption DEF IsFront
<1>5. RemoteOK(e, q)
  BY <1>2, <1>4 DEF RemoteOK, IsStarted
<1> QED BY <1>2, <1>5, FillKeeps DEF RestartNetwork, e, c

LEMMA AbandonType == ASSUME TypeOK PROVE Abandon(remote) \in Seq(Requests)
<1>1. remote.up \in Seq(Writes) /\ dead \in Seq(Requests)
  BY DEF TypeOK, Remote
<1>2. remote.up # <<>> => remote.up \in Requests
  BY <1>1 DEF Requests
<1> QED BY <1>1, <1>2, AppendProperties DEF Abandon

-----------------------------------------------------------------------------
(***************************************************************************)
(* The actions.                                                            *)
(***************************************************************************)
LEMMA InitHolds == Init => PipelineInv
<1> SUFFICES ASSUME Init PROVE PipelineInv
  OBVIOUS
<1>1. Len(<<>>) = 0 /\ DOMAIN <<>> = {}
  BY EmptySeq
<1>2. NewRemote \in Remote
  BY EmptySeq DEF NewRemote, Remote
<1>3. TypeOK
  <2>1. owner \in Seq(Users) /\ Len(owner) <= MaxWrites
    BY <1>1, EmptySeq, PipelineAssumption DEF Init
  <2>2. disk \in [Users -> Seq(Batch)] /\ callbacks \in [Users -> SUBSET Batch]
    BY EmptySeq DEF Init
  <2>3. remote \in Remote /\ Len(remote.pipeline) <= kMaxPendingWrites
    BY <1>1, <1>2, PipelineAssumption DEF Init, NewRemote
  <2>4. dead \in Seq(Requests) /\ applied \in Seq(Writes)
    BY EmptySeq DEF Init
  <2> QED BY <2>1, <2>2, <2>3, <2>4 DEF Init, TypeOK
<1>4. TablesOK
  BY <1>1 DEF Init, TablesOK, Sorted
<1>5. RemoteOK(remote, disk[currentUser])
  BY <1>1, PipelineAssumption DEF Init, NewRemote, RemoteOK, IsFront, IsStarted
<1>6. VerdictsOK
  BY <1>1 DEF Init, NewRemote, VerdictsOK
<1>7. CallbacksOK /\ ToldTheTruth
  BY DEF Init, CallbacksOK, ToldTheTruth
<1>8. NothingLost
  BY <1>1 DEF Init, NothingLost
<1> QED BY <1>3, <1>4, <1>5, <1>6, <1>7, <1>8 DEF PipelineInv

(* Steps of the stream that change no table.                               *)
LEMMA RemoteOnly ==
  ASSUME PipelineInv,
         remote' \in Remote, RemoteOK(remote', disk[currentUser]),
         remote'.down = remote.down \/ remote'.down = <<>>,
         dead' \in Seq(Requests), faults' \in Nat,
         UNCHANGED <<owner, disk, nextBatchId, currentUser, callbacks, applied,
                     again, refused, told>>
  PROVE  PipelineInv'
<1>1. TypeOK'
  BY DEF PipelineInv, TypeOK, RemoteOK
<1>2. VerdictsOK'
  BY EmptySeq DEF PipelineInv, VerdictsOK
<1>3. TablesOK' /\ CallbacksOK' /\ ToldTheTruth' /\ NothingLost'
  BY DEF PipelineInv, TablesOK, CallbacksOK, ToldTheTruth, NothingLost, OnDisk
<1>4. RemoteOK(remote, disk[currentUser])'
  <2>1. disk' = disk /\ currentUser' = currentUser
    OBVIOUS
  <2> QED BY <2>1 DEF RemoteOK, IsFront, Follows, IsStarted, IsOpen
<1> QED BY <1>1, <1>2, <1>3, <1>4 DEF PipelineInv

LEMMA CredentialsArriveKeeps == ASSUME PipelineInv, CredentialsArrive PROVE PipelineInv'
<1>1. /\ remote \in Remote /\ RemoteOK(remote, disk[currentUser])
      /\ dead \in Seq(Requests) /\ faults \in Nat
  BY DEF PipelineInv, TypeOK
<1>2. /\ remote.state = "starting"
      /\ remote' = [remote EXCEPT !.state = "open", !.handshake = "sent", !.idle = FALSE]
      /\ UNCHANGED <<owner, disk, nextBatchId, currentUser, callbacks, dead, applied,
                     again, refused, told, faults>>
  BY DEF CredentialsArrive, serverVars
<1>3. /\ remote' \in Remote /\ remote'.pipeline = remote.pipeline
      /\ remote'.state = "open" /\ remote'.handshake = "sent" /\ remote'.idle = FALSE
      /\ remote'.up = remote.up /\ remote'.down = remote.down
  BY <1>1, <1>2 DEF Remote
<1>4. RemoteOK(remote', disk[currentUser])
  BY <1>1, <1>2, <1>3 DEF RemoteOK, IsStarted
<1> QED BY <1>1, <1>2, <1>3, <1>4, RemoteOnly

LEMMA BackoffElapsesKeeps == ASSUME PipelineInv, BackoffElapses PROVE PipelineInv'
<1>1. /\ remote \in Remote /\ RemoteOK(remote, disk[currentUser])
      /\ dead \in Seq(Requests) /\ faults \in Nat
  BY DEF PipelineInv, TypeOK
<1>2. /\ remote.state = "backoff"
      /\ remote' = StartWriteStream([remote EXCEPT !.state = "initial"])
      /\ UNCHANGED <<owner, disk, nextBatchId, currentUser, callbacks, dead, applied,
                     again, refused, told, faults>>
  BY DEF BackoffElapses, serverVars
<1>3. /\ remote' \in Remote /\ remote'.pipeline = remote.pipeline
      /\ remote'.state = "starting" /\ remote'.handshake = remote.handshake
      /\ remote'.idle = remote.idle
      /\ remote'.up = remote.up /\ remote'.down = remote.down
  BY <1>1, <1>2 DEF Remote, StartWriteStream
<1>4. RemoteOK(remote', disk[currentUser])
  BY <1>1, <1>2, <1>3 DEF RemoteOK, IsStarted, IsOpen, Follows
<1> QED BY <1>1, <1>2, <1>3, <1>4, RemoteOnly

LEMMA AnswersHandshakeKeeps == ASSUME PipelineInv, AnswersHandshake PROVE PipelineInv'
<1>1. /\ remote \in Remote /\ RemoteOK(remote, disk[currentUser])
      /\ dead \in Seq(Requests) /\ faults \in Nat
  BY DEF PipelineInv, TypeOK
<1>2. /\ remote.handshake = "sent"
      /\ remote' = [remote EXCEPT !.handshake = "answered"]
      /\ UNCHANGED <<owner, disk, nextBatchId, currentUser, callbacks, dead, applied,
                     again, refused, told, faults>>
  BY DEF AnswersHandshake, serverVars
<1>3. /\ remote' \in Remote /\ remote'.pipeline = remote.pipeline
      /\ remote'.state = remote.state /\ remote'.handshake = "answered"
      /\ remote'.idle = remote.idle
      /\ remote'.up = remote.up /\ remote'.down = remote.down
  BY <1>1, <1>2 DEF Remote
<1>4. RemoteOK(remote', disk[currentUser])
  BY <1>1, <1>2, <1>3 DEF RemoteOK, IsStarted, IsOpen
<1> QED BY <1>1, <1>2, <1>3, <1>4, RemoteOnly

(* The whole pipeline is sent again: nothing else is under way.            *)
LEMMA HandshakeCompleteKeeps ==
  ASSUME PipelineInv, OnWriteStreamHandshakeComplete PROVE PipelineInv'
<1>1. /\ remote \in Remote /\ RemoteOK(remote, disk[currentUser])
      /\ dead \in Seq(Requests) /\ faults \in Nat
      /\ remote.pipeline \in Seq(Batch)
  BY DEF PipelineInv, TypeOK, Remote
<1>2. /\ remote.handshake = "answered"
      /\ remote' = [remote EXCEPT !.handshake = "done", !.up = WritesOf(remote.pipeline),
                                  !.idle = @ /\ remote.pipeline = <<>>]
      /\ UNCHANGED <<owner, disk, nextBatchId, currentUser, callbacks, dead, applied,
                     again, refused, told, faults>>
  BY DEF OnWriteStreamHandshakeComplete, serverVars
<1>3. /\ WritesOf(remote.pipeline) \in Seq(Writes)
      /\ Len(WritesOf(remote.pipeline)) = Len(remote.pipeline)
      /\ \A i \in 1 .. Len(remote.pipeline) :
           WritesOf(remote.pipeline)[i] = remote.pipeline[i].write
      /\ DOMAIN WritesOf(remote.pipeline) = 1 .. Len(remote.pipeline)
      /\ Len(remote.pipeline) \in Nat
  BY <1>1, WritesOfFacts, LenProperties
<1>4. /\ remote' \in Remote /\ remote'.pipeline = remote.pipeline
      /\ remote'.state = remote.state /\ remote'.handshake = "done"
      /\ remote'.idle = (remote.idle /\ remote.pipeline = <<>>)
      /\ remote'.up = WritesOf(remote.pipeline) /\ remote'.down = remote.down
  BY <1>1, <1>2, <1>3 DEF Remote
<1>5. remote.down = <<>> /\ Len(remote.down) = 0 /\ DOMAIN remote.down = {}
  BY <1>1, <1>2, EmptySeq DEF RemoteOK
<1>6. Follows(remote')
  BY <1>3, <1>4, <1>5 DEF Follows
<1>7. RemoteOK(remote', disk[currentUser])
  BY <1>1, <1>2, <1>4, <1>6 DEF RemoteOK, IsOpen
<1> QED BY <1>1, <1>2, <1>4, <1>7, RemoteOnly

LEMMA StreamCloseKeeps == ASSUME PipelineInv, OnWriteStreamClose PROVE PipelineInv'
<1>1. /\ remote \in Remote /\ RemoteOK(remote, disk[currentUser])
      /\ TypeOK /\ faults \in Nat
  BY DEF PipelineInv, TypeOK
<1>2. /\ remote' = StartIfNeeded(Closed(remote, "error"))
      /\ dead' = Abandon(remote) /\ faults' = faults + 1
      /\ UNCHANGED <<owner, disk, nextBatchId, currentUser, callbacks, applied,
                     again, refused, told>>
  BY DEF OnWriteStreamClose, serverVars, Fault
<1>3. /\ Closed(remote, "error") \in Remote /\ Closed(remote, "error").down = <<>>
      /\ RemoteOK(Closed(remote, "error"), disk[currentUser])
  BY <1>1, ClosedFacts, ClosedKeeps
<1>4. remote' \in Remote /\ RemoteOK(remote', disk[currentUser]) /\ remote'.down = <<>>
  BY <1>2, <1>3, StartKeeps
<1> QED BY <1>1, <1>2, <1>4, AbandonType, RemoteOnly

LEMMA IdleTimeoutKeeps == ASSUME PipelineInv, IdleTimeout PROVE PipelineInv'
<1>1. /\ remote \in Remote /\ RemoteOK(remote, disk[currentUser])
      /\ dead \in Seq(Requests) /\ faults \in Nat
  BY DEF PipelineInv, TypeOK
<1>2. /\ remote' = Closed(remote, "initial")
      /\ UNCHANGED <<owner, disk, nextBatchId, currentUser, callbacks, dead, applied,
                     again, refused, told, faults>>
  BY DEF IdleTimeout, serverVars
<1>3. remote' \in Remote /\ RemoteOK(remote', disk[currentUser]) /\ remote'.down = <<>>
  BY <1>1, <1>2, ClosedFacts, ClosedKeeps
<1> QED BY <1>1, <1>2, <1>3, RemoteOnly

(* What is kept of next_batch_id_ is enough: it is larger than every id on *)
(* disk.                                                                   *)
LEMMA NextIdIsFresh ==
  ASSUME PipelineInv
  PROVE  /\ LoadNextBatchIdFromDb(disk) \in Nat \ {0}
         /\ \A u \in Users : \A i \in DOMAIN disk[u] :
               disk[u][i].id \in 1 .. LoadNextBatchIdFromDb(disk) - 1
<1> DEFINE A == {0} \union BatchIds(disk)
<1>1. nextBatchId \in Nat
  BY DEF PipelineInv, TypeOK
<1>2. \A u \in Users : \A i \in DOMAIN disk[u] : disk[u][i].id \in 1 .. nextBatchId - 1
  BY DEF PipelineInv, TablesOK
<1>3. \A x \in A : x \in Nat /\ x <= nextBatchId
  BY <1>1, <1>2 DEF BatchIds
<1>4. \A u \in Users : \A i \in DOMAIN disk[u] : disk[u][i].id \in A
  BY DEF BatchIds
<1>5. 0 \in A
  OBVIOUS
<1>6. LoadNextBatchIdFromDb(disk) = 1 + Max(A)
  BY DEF LoadNextBatchIdFromDb
<1> HIDE DEF A
<1>7. Max(A) \in A /\ \A x \in A : x <= Max(A)
  <2>1. A \in SUBSET Nat /\ A # {}
    BY <1>3, <1>5
  <2> QED BY <1>1, <1>3, <2>1, MaxFacts
<1>8. Max(A) \in Nat
  BY <1>3, <1>7
<1>9. ASSUME NEW u \in Users, NEW i \in DOMAIN disk[u]
      PROVE  disk[u][i].id \in 1 .. Max(A)
  BY <1>2, <1>4, <1>7, <1>8, <1>1
<1> QED BY <1>6, <1>8, <1>9

(* The connection starts anew on the table of user u.                      *)
LEMMA Restarts ==
  ASSUME PipelineInv, NEW u \in Users, NEW r \in Remote,
         remote' = RestartNetwork(r, disk[u]), currentUser' = u,
         nextBatchId' = nextBatchId \/ nextBatchId' = LoadNextBatchIdFromDb(disk),
         callbacks' \in [Users -> SUBSET Batch],
         \A w \in Users : callbacks'[w] \subseteq callbacks[w],
         dead' = Abandon(remote), faults' = faults + 1,
         UNCHANGED <<owner, disk, applied, again, refused, told>>
  PROVE  PipelineInv'
<1>1. /\ disk[u] \in Seq(Batch) /\ Sorted(disk[u])
      /\ TypeOK /\ faults' \in Nat
  BY DEF PipelineInv, TypeOK, TablesOK
<1>2. /\ remote' \in Remote /\ RemoteOK(remote', disk[u]) /\ remote'.down = <<>>
  BY <1>1, RestartKeeps
<1>3. /\ nextBatchId' \in Nat /\ nextBatchId' > 0
      /\ \A w \in Users : \A i \in DOMAIN disk[w] : disk[w][i].id \in 1 .. nextBatchId' - 1
  BY NextIdIsFresh DEF PipelineInv, TypeOK, TablesOK
<1>4. TypeOK'
  BY <1>1, <1>2, <1>3, AbandonType DEF TypeOK, RemoteOK
<1>5. TablesOK'
  BY <1>3 DEF PipelineInv, TablesOK
<1>6. RemoteOK(remote, disk[currentUser])'
  BY <1>2 DEF RemoteOK, IsFront, Follows, IsStarted, IsOpen
<1>7. VerdictsOK'
  BY <1>2, EmptySeq DEF VerdictsOK
<1>8. CallbacksOK'
  BY DEF PipelineInv, CallbacksOK
<1>9. ToldTheTruth' /\ NothingLost'
  BY DEF PipelineInv, ToldTheTruth, NothingLost, OnDisk
<1> QED BY <1>4, <1>5, <1>6, <1>7, <1>8, <1>9 DEF PipelineInv

LEMMA CredentialChangeKeeps ==
  ASSUME PipelineInv, NEW u \in Users, HandleCredentialChange(u)
  PROVE  PipelineInv'
<1>1. remote \in Remote /\ callbacks \in [Users -> SUBSET Batch]
  BY DEF PipelineInv, TypeOK
<1>2. /\ remote' = RestartNetwork(remote, disk[u]) /\ currentUser' = u
      /\ nextBatchId' = nextBatchId \/ nextBatchId' = LoadNextBatchIdFromDb(disk)
      /\ dead' = Abandon(remote) /\ faults' = faults + 1
      /\ UNCHANGED <<owner, disk, callbacks, applied, again, refused, told>>
  BY DEF HandleCredentialChange, Fault, serverVars
<1> QED BY <1>1, <1>2, Restarts

LEMMA CrashKeeps == ASSUME PipelineInv, Crash PROVE PipelineInv'
<1>1. NewRemote \in Remote /\ currentUser \in Users
  BY EmptySeq DEF PipelineInv, TypeOK, NewRemote, Remote
<1>2. /\ remote' = RestartNetwork(NewRemote, disk[currentUser])
      /\ currentUser' = currentUser
      /\ nextBatchId' = LoadNextBatchIdFromDb(disk)
      /\ callbacks' = [u \in Users |-> {}]
      /\ dead' = Abandon(remote) /\ faults' = faults + 1
      /\ UNCHANGED <<owner, disk, applied, again, refused, told>>
  BY DEF Crash, Fault, serverVars
<1>3. /\ callbacks' \in [Users -> SUBSET Batch]
      /\ \A w \in Users : callbacks'[w] \subseteq callbacks[w]
  BY <1>2
<1> HIDE DEF NewRemote
<1> QED BY <1>1, <1>2, <1>3, Restarts

(* The new batch is the last of its table and has a new id.                *)
LEMMA WriteMutationsKeeps == ASSUME PipelineInv, WriteMutations PROVE PipelineInv'
<1> DEFINE cu == currentUser
           w == Len(owner) + 1
           b == [id |-> nextBatchId, write |-> w]
           q == disk[cu]
           n == Len(q)
<1>0. TypeOK /\ TablesOK
  BY DEF PipelineInv
<1>1. /\ cu \in Users /\ q \in Seq(Batch) /\ n \in Nat /\ DOMAIN q = 1 .. n
      /\ owner \in Seq(Users) /\ Len(owner) \in Nat /\ DOMAIN owner = 1 .. Len(owner)
      /\ nextBatchId \in Nat
  BY <1>0, LenProperties DEF TypeOK
<1>2. /\ Len(owner) < MaxWrites
      /\ owner' = Append(owner, cu)
      /\ disk' = [disk EXCEPT ![cu] = Append(q, b)]
      /\ nextBatchId' = nextBatchId + 1
      /\ callbacks' = [callbacks EXCEPT ![cu] =
                         IF \E c \in @ : c.id = b.id THEN @ ELSE @ \union {b}]
      /\ remote' = FillWritePipeline(remote, disk'[cu])
      /\ UNCHANGED <<currentUser, dead, applied, again, refused, told, faults>>
  BY DEF WriteMutations, serverVars
<1>3. w \in Writes /\ b \in Batch /\ b.id = nextBatchId /\ b.write = w
  BY <1>1, <1>2, PipelineAssumption DEF Writes, Batch
<1> HIDE DEF b
<1>4. /\ Append(q, b) \in Seq(Batch)
      /\ Len(Append(q, b)) = n + 1
      /\ DOMAIN Append(q, b) = 1 .. n + 1
      /\ \A i \in 1 .. n : Append(q, b)[i] = q[i]
      /\ Append(q, b)[n + 1] = b
  BY <1>1, <1>3, AppendProperties, LenProperties
<1>5. /\ disk' \in [Users -> Seq(Batch)]
      /\ disk'[cu] = Append(q, b)
      /\ \A u \in Users \ {cu} : disk'[u] = disk[u]
  BY <1>0, <1>1, <1>2, <1>4 DEF TypeOK
<1>6. /\ Sorted(q) /\ nextBatchId > 0
      /\ \A i \in 1 .. n : q[i].id \in 1 .. nextBatchId - 1
  BY <1>0, <1>1 DEF TablesOK
<1> DEFINE qq == Append(q, b)
<1> HIDE DEF qq
<1>7. /\ qq \in Seq(Batch) /\ Len(qq) = n + 1 /\ DOMAIN qq = 1 .. n + 1
      /\ \A i \in 1 .. n : qq[i] = q[i]
      /\ qq[n + 1] = b
      /\ disk'[cu] = qq
  BY <1>4, <1>5 DEF qq
<1>8. Sorted(qq)
  <2> SUFFICES ASSUME NEW i \in 1 .. n + 1, NEW j \in 1 .. n + 1, i < j
               PROVE  qq[i].id < qq[j].id
    BY <1>7 DEF Sorted
  <2>1. i \in 1 .. n /\ qq[i].id = q[i].id
    BY <1>1, <1>7
  <2>2. CASE j = n + 1
    BY <1>1, <1>3, <1>6, <1>7, <2>1, <2>2
  <2>3. CASE j # n + 1
    <3>1. j \in 1 .. n /\ qq[j].id = q[j].id
      BY <1>1, <1>7, <2>3
    <3> QED BY <1>1, <1>6, <2>1, <3>1 DEF Sorted
  <2> QED BY <2>2, <2>3
<1>9. \A i \in 1 .. n + 1 : qq[i].id \in 1 .. nextBatchId
  <2> SUFFICES ASSUME NEW i \in 1 .. n + 1 PROVE qq[i].id \in 1 .. nextBatchId
    OBVIOUS
  <2>1. CASE i = n + 1
    BY <1>1, <1>3, <1>6, <1>7, <2>1
  <2>2. CASE i # n + 1
    BY <1>1, <1>6, <1>7, <2>2
  <2> QED BY <2>1, <2>2
<1>10. TablesOK'
  <2>1. ASSUME NEW u \in Users
        PROVE  /\ Sorted(disk'[u])
               /\ \A i \in DOMAIN disk'[u] : disk'[u][i].id \in 1 .. nextBatchId' - 1
    <3>0. nextBatchId' - 1 = nextBatchId
      BY <1>1, <1>2
    <3>1. CASE u = cu
      BY <1>7, <1>8, <1>9, <3>0, <3>1, Zenon
    <3>2. CASE u # cu
      <4>1. /\ disk'[u] = disk[u] /\ Sorted(disk[u])
            /\ \A i \in DOMAIN disk[u] : disk[u][i].id \in 1 .. nextBatchId - 1
        BY <1>0, <1>5, <3>2 DEF TablesOK
      <4>2. \A i \in DOMAIN disk[u] : disk[u][i].id \in 1 .. nextBatchId
        BY <1>1, <4>1
      <4> QED BY <3>0, <4>1, <4>2, Zenon
    <3> QED BY <3>1, <3>2
  <2> QED BY <1>1, <1>2, <2>1 DEF TablesOK
<1>11. RemoteOK(remote, qq)
  <2>1. RemoteOK(remote, q)
    BY DEF PipelineInv
  <2>2. remote.pipeline \in Seq(Batch)
    BY <1>0 DEF TypeOK, Remote
  <2>3. DOMAIN remote.pipeline = 1 .. Len(remote.pipeline) /\ Len(remote.pipeline) \in Nat
    BY <2>2, LenProperties
  <2>4. IsFront(remote.pipeline, qq)
    BY <1>1, <1>7, <2>1, <2>3 DEF RemoteOK, IsFront
  <2> QED BY <2>1, <2>4 DEF RemoteOK
<1>12. remote' \in Remote /\ RemoteOK(remote', qq) /\ remote'.down = remote.down
  BY <1>0, <1>2, <1>7, <1>8, <1>11, FillKeeps DEF TypeOK
<1>13. RemoteOK(remote, disk[currentUser])'
  BY <1>2, <1>7, <1>12 DEF RemoteOK, IsFront, Follows, IsStarted, IsOpen
<1>14. /\ callbacks' \in [Users -> SUBSET Batch]
       /\ \A u \in Users \ {cu} : callbacks'[u] = callbacks[u]
       /\ callbacks'[cu] \subseteq callbacks[cu] \union {b}
  BY <1>0, <1>1, <1>2, <1>3 DEF TypeOK
<1>15. TypeOK'
  <2>1. owner' \in Seq(Users) /\ Len(owner') <= MaxWrites
    BY <1>1, <1>2, AppendProperties, PipelineAssumption
  <2> QED BY <1>0, <1>1, <1>2, <1>5, <1>12, <1>14, <2>1 DEF TypeOK, RemoteOK
<1>16. VerdictsOK'
  BY <1>2, <1>12 DEF PipelineInv, VerdictsOK
<1>17. CallbacksOK'
  <2> SUFFICES ASSUME NEW u \in Users, NEW c \in callbacks'[u]
               PROVE  \E i \in DOMAIN disk'[u] : disk'[u][i] = c
    BY DEF CallbacksOK
  <2>1. CASE u # cu
    BY <1>5, <1>14, <2>1 DEF PipelineInv, CallbacksOK
  <2>2. CASE u = cu
    <3>1. CASE c = b
      BY <1>1, <1>7, <2>2, <3>1
    <3>2. CASE c # b
      <4>1. c \in callbacks[cu]
        BY <1>14, <2>2, <3>2
      <4>2. PICK i \in 1 .. n : q[i] = c
        BY <1>1, <4>1 DEF PipelineInv, CallbacksOK
      <4>3. i \in DOMAIN qq /\ qq[i] = c
        BY <1>1, <1>7, <4>2
      <4>4. disk'[u] = qq
        BY <1>7, <2>2
      <4> QED BY <4>3, <4>4, Zenon
    <3> QED BY <3>1, <3>2
  <2> QED BY <2>1, <2>2
<1>18. ToldTheTruth'
  BY <1>2 DEF PipelineInv, ToldTheTruth
<1>19. NothingLost'
  <2> SUFFICES ASSUME NEW x \in DOMAIN owner'
               PROVE  OnDisk(x)' \/ Contains(applied', x) \/ x \in refused'
    BY DEF NothingLost
  <2>1. CASE x = w
    <3>1. n + 1 \in DOMAIN disk'[cu] /\ disk'[cu][n + 1].write = x
      BY <1>1, <1>3, <1>7, <2>1
    <3> QED BY <1>1, <3>1 DEF OnDisk
  <2>2. CASE x # w
    <3>1. x \in DOMAIN owner
      <4>1. DOMAIN owner' = 1 .. w
        BY <1>1, <1>2, AppendProperties, LenProperties
      <4> QED BY <1>1, <2>2, <4>1
    <3>2. OnDisk(x) => OnDisk(x)'
      <4> SUFFICES ASSUME NEW u \in Users, NEW i \in DOMAIN disk[u], disk[u][i].write = x
                   PROVE  \E j \in DOMAIN disk'[u] : disk'[u][j].write = x
        BY DEF OnDisk
      <4>1. CASE u = cu
        BY <1>1, <1>7, <4>1
      <4>2. CASE u # cu
        BY <1>5, <4>2
      <4> QED BY <4>1, <4>2
    <3> QED BY <1>2, <3>1, <3>2 DEF PipelineInv, NothingLost
  <2> QED BY <2>1, <2>2
<1> QED BY <1>10, <1>13, <1>15, <1>16, <1>17, <1>18, <1>19 DEF PipelineInv

LEMMA IdsAreNumbers ==
  ASSUME NEW q \in Seq(Batch)
  PROVE  \A i \in 1 .. Len(q) : q[i].id \in Nat
<1>1. \A i \in 1 .. Len(q) : q[i] \in Batch
  BY ElementOfSeq
<1> QED BY <1>1 DEF Batch

(* Removing the batch the table begins with.                               *)
LEMMA WithoutFirst ==
  ASSUME NEW q \in Seq(Batch), Sorted(q), q # <<>>
  PROVE  /\ WithoutBatch(q, q[1].id) = Tail(q)
         /\ Tail(q) \in Seq(Batch)
         /\ Len(Tail(q)) = Len(q) - 1 /\ DOMAIN Tail(q) = 1 .. Len(q) - 1
         /\ \A i \in 1 .. Len(q) - 1 : Tail(q)[i] = q[i + 1]
         /\ Sorted(Tail(q))
<1>1. /\ Len(q) \in Nat \ {0} /\ DOMAIN q = 1 .. Len(q)
      /\ \A i \in 1 .. Len(q) : q[i].id \in Nat
  BY EmptySeq, LenProperties, IdsAreNumbers
<1>2. 1 \in DOMAIN q /\ \A i \in DOMAIN q : q[i].id = q[1].id => i = 1
  BY <1>1 DEF Sorted
<1>3. WithoutBatch(q, q[1].id) = RemoveAt(q, 1)
  BY <1>2 DEF WithoutBatch
<1>4. /\ Tail(q) \in Seq(Batch) /\ Len(Tail(q)) = Len(q) - 1
      /\ \A i \in 1 .. Len(Tail(q)) : Tail(q)[i] = q[i + 1]
      /\ DOMAIN Tail(q) = 1 .. Len(Tail(q))
  BY HeadTailProperties, LenProperties
<1>5. RemoveAt(q, 1) = Tail(q)
  <2>1. SubSeq(q, 1, 0) = <<>>
    BY SubSeqEmpty
  <2>2. SubSeq(q, 2, Len(q)) = Tail(q)
    BY TailIsSubSeq
  <2>3. RemoveAt(q, 1) = SubSeq(q, 1, 0) \o SubSeq(q, 2, Len(q))
    BY DEF RemoveAt
  <2> QED BY <1>4, <2>1, <2>2, <2>3, ConcatEmptySeq
<1>6. Sorted(Tail(q))
  <2> SUFFICES ASSUME NEW i \in 1 .. Len(q) - 1, NEW j \in 1 .. Len(q) - 1, i < j
               PROVE  Tail(q)[i].id < Tail(q)[j].id
    BY <1>4 DEF Sorted
  <2>1. Tail(q)[i] = q[i + 1] /\ Tail(q)[j] = q[j + 1]
    BY <1>4
  <2>2. i + 1 \in DOMAIN q /\ j + 1 \in DOMAIN q /\ i + 1 < j + 1
    BY <1>1
  <2> QED BY <2>1, <2>2 DEF Sorted
<1> QED BY <1>3, <1>4, <1>5, <1>6

(* The first write of the pipeline gets a verdict that is true, and leaves *)
(* the table; whatever else the step does is in remote'.                   *)
LEMMA FirstResolved ==
  ASSUME PipelineInv, remote.pipeline # <<>>,
         NEW b, b = Head(remote.pipeline), NEW verdict \in {"ok", "refused"},
         verdict = "ok" => Contains(applied, b.write),
         verdict = "refused" => b.write \in refused,
         NotifyUser(b.id, verdict),
         disk' = [disk EXCEPT ![currentUser] = WithoutBatch(@, b.id)],
         remote' \in Remote, RemoteOK(remote', disk'[currentUser]),
         \A i \in DOMAIN remote'.down : \E j \in DOMAIN remote.down : remote'.down[i] = remote.down[j],
         UNCHANGED <<owner, nextBatchId, currentUser, dead, applied, again, refused, faults>>
  PROVE  PipelineInv'
<1> DEFINE cu == currentUser
           q == disk[cu]
           n == Len(q)
           t == Tail(q)
<1>0. TypeOK /\ TablesOK
  BY DEF PipelineInv
<1>1. /\ cu \in Users /\ q \in Seq(Batch) /\ n \in Nat /\ DOMAIN q = 1 .. n
      /\ Sorted(q)
      /\ remote.pipeline \in Seq(Batch)
      /\ nextBatchId \in Nat
  BY <1>0, LenProperties DEF TypeOK, TablesOK, Remote
<1>2. b = q[1] /\ b \in Batch /\ n >= 1 /\ q # <<>>
  <2>1. /\ Len(remote.pipeline) \in Nat \ {0} /\ b = remote.pipeline[1] /\ b \in Batch
        /\ DOMAIN remote.pipeline = 1 .. Len(remote.pipeline)
    BY <1>1, EmptySeq, LenProperties, HeadTailProperties
  <2>2. Len(remote.pipeline) <= n /\ remote.pipeline[1] = q[1]
    BY <2>1 DEF PipelineInv, RemoteOK, IsFront
  <2> QED BY <1>1, <2>1, <2>2, EmptySeq
<1>3. /\ WithoutBatch(q, b.id) = t /\ t \in Seq(Batch) /\ DOMAIN t = 1 .. n - 1
      /\ \A i \in 1 .. n - 1 : t[i] = q[i + 1]
      /\ Sorted(t)
  BY <1>1, <1>2, WithoutFirst
<1> HIDE DEF t
<1>4. /\ disk' \in [Users -> Seq(Batch)] /\ disk'[cu] = t
      /\ \A u \in Users \ {cu} : disk'[u] = disk[u]
  BY <1>0, <1>1, <1>3 DEF TypeOK
<1>5. \A u \in Users : \A i \in DOMAIN disk'[u] : \E j \in DOMAIN disk[u] : disk'[u][i] = disk[u][j]
  <2> SUFFICES ASSUME NEW u \in Users, NEW i \in DOMAIN disk'[u]
               PROVE  \E j \in DOMAIN disk[u] : disk'[u][i] = disk[u][j]
    OBVIOUS
  <2>1. CASE u = cu
    <3>1. i \in 1 .. n - 1 /\ i + 1 \in 1 .. n /\ disk'[u][i] = q[i + 1]
      BY <1>1, <1>3, <1>4, <2>1
    <3> QED BY <1>1, <2>1, <3>1
  <2>2. CASE u # cu
    BY <1>4, <2>2
  <2> QED BY <2>1, <2>2
<1>6. TablesOK'
  <2>1. \A u \in Users : Sorted(disk'[u])
    BY <1>0, <1>3, <1>4 DEF TablesOK
  <2>2. \A u \in Users : \A i \in DOMAIN disk'[u] : disk'[u][i].id \in 1 .. nextBatchId - 1
    BY <1>0, <1>5 DEF TablesOK
  <2> QED BY <1>0, <2>1, <2>2 DEF TablesOK
(* Any other row of any table is still there.                              *)
<1>7. ASSUME NEW u \in Users, NEW i \in DOMAIN disk[u], u # cu \/ i # 1
      PROVE  \E j \in DOMAIN disk'[u] : disk'[u][j] = disk[u][i]
  <2>1. CASE u # cu
    BY <1>4, <2>1
  <2>2. CASE u = cu
    <3>1. i - 1 \in 1 .. n - 1 /\ (i - 1) + 1 = i
      BY <1>1, <1>7, <2>2
    <3>2. t[i - 1] = q[i]
      BY <1>3, <3>1
    <3> QED BY <1>3, <1>4, <2>2, <3>1, <3>2
  <2> QED BY <2>1, <2>2
<1> DEFINE mine == {c \in callbacks[cu] : c.id = b.id}
<1>8. /\ told' = [w \in Writes |-> IF \E c \in mine : c.write = w THEN verdict ELSE told[w]]
      /\ callbacks' = [callbacks EXCEPT ![cu] = @ \ mine]
  BY DEF NotifyUser
<1>9. \A c \in mine : c = b
  <2> SUFFICES ASSUME NEW c \in callbacks[cu], c.id = b.id PROVE c = b
    OBVIOUS
  <2>1. PICK i \in DOMAIN q : q[i] = c
    BY <1>1 DEF PipelineInv, CallbacksOK
  <2>2. i = 1
    <3>1. \A j \in 1 .. n : q[j].id \in Nat
      BY <1>1, IdsAreNumbers
    <3>2. i \in 1 .. n /\ 1 \in 1 .. n /\ q[1].id = q[i].id
      BY <1>1, <1>2, <2>1
    <3>3. q[1].id \in Nat /\ ~(q[1].id < q[i].id)
      BY <3>1, <3>2
    <3>4. ~(1 < i)
      BY <1>1, <3>2, <3>3, Zenon DEF Sorted
    <3> QED BY <1>1, <3>2, <3>4
  <2> QED BY <1>2, <2>1, <2>2
<1>10. TypeOK'
  <2>1. told' \in [Writes -> {"nothing", "ok", "refused"}]
    BY <1>0, <1>8 DEF TypeOK
  <2>2. callbacks' \in [Users -> SUBSET Batch]
    BY <1>0, <1>1, <1>8 DEF TypeOK
  <2> QED BY <1>0, <1>4, <2>1, <2>2 DEF TypeOK, RemoteOK
<1>11. VerdictsOK'
  BY DEF PipelineInv, VerdictsOK
<1>12. CallbacksOK'
  <2> SUFFICES ASSUME NEW u \in Users, NEW c \in callbacks'[u]
               PROVE  \E i \in DOMAIN disk'[u] : disk'[u][i] = c
    BY DEF CallbacksOK
  <2>1. c \in callbacks[u] /\ (u = cu => c.id # b.id)
    BY <1>0, <1>1, <1>8 DEF TypeOK
  <2>2. PICK i \in DOMAIN disk[u] : disk[u][i] = c
    BY <2>1 DEF PipelineInv, CallbacksOK
  <2>3. u # cu \/ i # 1
    BY <1>2, <2>1, <2>2
  <2> QED BY <1>7, <2>2, <2>3
<1>13. ToldTheTruth'
  <2> SUFFICES ASSUME NEW w \in Writes
               PROVE  /\ told'[w] = "ok" => Contains(applied, w)
                      /\ told'[w] = "refused" => w \in refused
    BY DEF ToldTheTruth
  <2>1. CASE \E c \in mine : c.write = w
    BY <1>8, <1>9, <2>1
  <2>2. CASE ~ \E c \in mine : c.write = w
    BY <1>8, <2>2 DEF PipelineInv, ToldTheTruth
  <2> QED BY <2>1, <2>2
<1>14. NothingLost'
  <2> SUFFICES ASSUME NEW x \in DOMAIN owner
               PROVE  OnDisk(x)' \/ Contains(applied, x) \/ x \in refused
    BY DEF NothingLost
  <2>1. CASE x = b.write
    BY <2>1
  <2>2. CASE x # b.write
    <3>1. ASSUME NEW u \in Users, NEW i \in DOMAIN disk[u], disk[u][i].write = x
          PROVE  \E j \in DOMAIN disk'[u] : disk'[u][j].write = x
      <4>1. u # cu \/ i # 1
        BY <1>2, <2>2, <3>1
      <4> QED BY <1>7, <3>1, <4>1
    <3> QED BY <3>1 DEF PipelineInv, NothingLost, OnDisk
  <2> QED BY <2>1, <2>2
<1>15. RemoteOK(remote, disk[currentUser])'
  BY DEF RemoteOK, IsFront, Follows, IsStarted, IsOpen
<1> QED BY <1>6, <1>10, <1>11, <1>12, <1>13, <1>14, <1>15 DEF PipelineInv

LEMMA TailFront ==
  ASSUME NEW p \in Seq(Batch), NEW q \in Seq(Batch), IsFront(p, q), p # <<>>
  PROVE  q # <<>> /\ IsFront(Tail(p), Tail(q))
<1>1. /\ Len(p) \in Nat \ {0} /\ Len(q) \in Nat /\ DOMAIN p = 1 .. Len(p)
      /\ Len(p) <= Len(q) /\ \A i \in 1 .. Len(p) : p[i] = q[i]
  BY EmptySeq, LenProperties DEF IsFront
<1>2. q # <<>>
  BY <1>1, EmptySeq
<1>3. /\ Len(Tail(p)) = Len(p) - 1 /\ DOMAIN Tail(p) = 1 .. Len(Tail(p))
      /\ \A i \in 1 .. Len(Tail(p)) : Tail(p)[i] = p[i + 1]
  BY HeadTailProperties, LenProperties
<1>4. /\ Len(Tail(q)) = Len(q) - 1
      /\ \A i \in 1 .. Len(Tail(q)) : Tail(q)[i] = q[i + 1]
  BY <1>2, HeadTailProperties
<1>5. ASSUME NEW i \in 1 .. Len(p) - 1 PROVE Tail(p)[i] = Tail(q)[i]
  <2>1. i + 1 \in 1 .. Len(p) /\ i \in 1 .. Len(q) - 1
    BY <1>1
  <2> QED BY <1>1, <1>3, <1>4, <2>1
<1> QED BY <1>1, <1>2, <1>3, <1>4, <1>5 DEF IsFront

(* What both handlers know of the first write of the pipeline.             *)
LEMMA FirstAnswered ==
  ASSUME PipelineInv, remote.down # <<>>
  PROVE  /\ remote.handshake = "done" /\ Follows(remote)
         /\ remote.pipeline # <<>> /\ ~remote.idle
         /\ Head(remote.pipeline) \in Batch
         /\ Head(remote.down).write = Head(remote.pipeline).write
         /\ IF Head(remote.down).ok THEN Contains(applied, Head(remote.down).write)
                                    ELSE Head(remote.down).write \in refused
<1>1. /\ remote \in Remote /\ remote.pipeline \in Seq(Batch) /\ remote.down \in Seq(Response)
      /\ remote.up \in Seq(Writes)
      /\ RemoteOK(remote, disk[currentUser]) /\ VerdictsOK
  BY DEF PipelineInv, TypeOK, Remote
<1>2. remote.handshake = "done" /\ Follows(remote)
  BY <1>1 DEF RemoteOK
<1>3. /\ Len(remote.down) \in Nat \ {0} /\ DOMAIN remote.down = 1 .. Len(remote.down)
      /\ Len(remote.up) \in Nat /\ Head(remote.down) = remote.down[1]
  BY <1>1, EmptySeq, LenProperties, HeadTailProperties
<1>4. Len(remote.pipeline) \in Nat \ {0}
  <2> DEFINE np == Len(remote.pipeline)
             nd == Len(remote.down)
             nu == Len(remote.up)
  <2>1. np \in Nat /\ nd \in Nat \ {0} /\ nu \in Nat /\ nd + nu = np
    BY <1>1, <1>2, <1>3, LenProperties, Zenon DEF Follows
  <2> HIDE DEF np, nd, nu
  <2>2. np \in Nat \ {0}
    BY <2>1
  <2> QED BY <2>2 DEF np
<1>5. remote.pipeline # <<>>
  BY <1>4, EmptySeq
<1>6. Head(remote.pipeline) = remote.pipeline[1] /\ Head(remote.pipeline) \in Batch
  BY <1>1, <1>5, HeadTailProperties
<1>7. 1 \in DOMAIN remote.down
  BY <1>3
<1>8. remote.down[1].write = remote.pipeline[1].write
  BY <1>2, <1>7 DEF Follows
<1>9. IF remote.down[1].ok THEN Contains(applied, remote.down[1].write)
                           ELSE remote.down[1].write \in refused
  BY <1>1, <1>7 DEF VerdictsOK
<1>10. ~remote.idle
  BY <1>1, <1>5 DEF RemoteOK
<1> QED BY <1>2, <1>3, <1>5, <1>6, <1>8, <1>9, <1>10

LEMMA MutationResultKeeps ==
  ASSUME PipelineInv, OnWriteStreamMutationResult PROVE PipelineInv'
<1> DEFINE p == remote.pipeline
           down == remote.down
           up == remote.up
           b == Head(p)
           q == disk[currentUser]
           r == [remote EXCEPT !.pipeline = Tail(@), !.down = Tail(@)]
<1>0. /\ TypeOK /\ remote \in Remote /\ p \in Seq(Batch) /\ down \in Seq(Response)
      /\ up \in Seq(Writes) /\ q \in Seq(Batch) /\ Sorted(q) /\ currentUser \in Users
      /\ RemoteOK(remote, q)
  BY DEF PipelineInv, TypeOK, TablesOK, Remote
<1>1. /\ down # <<>> /\ Head(down).ok
      /\ NotifyUser(b.id, "ok")
      /\ disk' = [disk EXCEPT ![currentUser] = WithoutBatch(@, b.id)]
      /\ remote' = FillWritePipeline(r, disk'[currentUser])
      /\ UNCHANGED <<owner, nextBatchId, currentUser, dead, applied, again, refused, faults>>
  BY DEF OnWriteStreamMutationResult, serverVars
<1>2. /\ remote.handshake = "done" /\ Follows(remote) /\ p # <<>> /\ ~remote.idle
      /\ b \in Batch /\ Contains(applied, b.write)
  BY <1>1, FirstAnswered
<1>3. IsFront(p, q) /\ q # <<>> /\ IsFront(Tail(p), Tail(q))
  BY <1>0, <1>2, TailFront DEF RemoteOK
<1>4. /\ Len(p) \in Nat \ {0} /\ DOMAIN p = 1 .. Len(p) /\ b = p[1]
      /\ Tail(p) \in Seq(Batch) /\ Len(Tail(p)) = Len(p) - 1
      /\ \A i \in 1 .. Len(p) - 1 : Tail(p)[i] = p[i + 1]
  BY <1>0, <1>2, EmptySeq, LenProperties, HeadTailProperties
<1>5. /\ Len(down) \in Nat \ {0} /\ DOMAIN down = 1 .. Len(down)
      /\ Tail(down) \in Seq(Response) /\ Len(Tail(down)) = Len(down) - 1
      /\ DOMAIN Tail(down) = 1 .. Len(down) - 1
      /\ \A i \in 1 .. Len(down) - 1 : Tail(down)[i] = down[i + 1]
  BY <1>0, <1>1, EmptySeq, LenProperties, HeadTailProperties
<1>6. Len(up) \in Nat /\ DOMAIN up = 1 .. Len(up)
  BY <1>0, LenProperties
<1>7. disk'[currentUser] = Tail(q) /\ Tail(q) \in Seq(Batch) /\ Sorted(Tail(q))
  <2>1. b = q[1]
    BY <1>3, <1>4 DEF IsFront
  <2>2. WithoutBatch(q, b.id) = Tail(q) /\ Tail(q) \in Seq(Batch) /\ Sorted(Tail(q))
    BY <1>0, <1>3, <2>1, WithoutFirst
  <2> QED BY <1>0, <1>1, <2>2 DEF TypeOK
<1>8. /\ r \in Remote /\ r.pipeline = Tail(p) /\ r.down = Tail(down) /\ r.up = up
      /\ r.state = remote.state /\ r.handshake = "done" /\ r.idle = remote.idle
  BY <1>0, <1>2, <1>4, <1>5 DEF Remote
<1> HIDE DEF r
<1>9. Follows(r)
  <2>1. /\ Len(down) + Len(up) = Len(p)
        /\ \A i \in 1 .. Len(down) : down[i].write = p[i].write
        /\ \A i \in 1 .. Len(up) : up[i] = p[Len(down) + i].write
    BY <1>2, <1>5, <1>6 DEF Follows
  <2> DEFINE np == Len(p)
             nd == Len(down)
             nu == Len(up)
  <2>2. /\ np \in Nat \ {0} /\ nd \in Nat \ {0} /\ nu \in Nat /\ nd + nu = np
        /\ Len(Tail(down)) = nd - 1 /\ Len(Tail(p)) = np - 1
    BY <1>4, <1>5, <1>6, <2>1, Zenon
  <2>3. /\ \A i \in 1 .. nd : down[i].write = p[i].write
        /\ \A i \in 1 .. nu : up[i] = p[nd + i].write
        /\ \A i \in 1 .. nd - 1 : Tail(down)[i] = down[i + 1]
        /\ \A i \in 1 .. np - 1 : Tail(p)[i] = p[i + 1]
    BY <1>4, <1>5, <2>1, Zenon
  <2>4. DOMAIN Tail(down) = 1 .. nd - 1 /\ DOMAIN up = 1 .. nu
    BY <1>5, <1>6
  <2> DEFINE tp == Tail(p)
             td == Tail(down)
  <2>5. r.down = td /\ r.up = up /\ r.pipeline = tp
    BY <1>8
  <2>6. Len(td) + Len(up) = Len(tp)
    <3> HIDE DEF np, nd, nu
    <3>1. (nd - 1) + nu = np - 1
      BY <2>2
    <3> QED BY <2>2, <3>1 DEF nu
  <2> HIDE DEF np, nd, nu, p, down, up, tp, td
  <2>7. ASSUME NEW i \in 1 .. nd - 1 PROVE td[i].write = tp[i].write
    <3>1. i + 1 \in 1 .. nd /\ i \in 1 .. np - 1
      BY <2>2
    <3> QED BY <2>3, <3>1 DEF tp, td
  <2>8. ASSUME NEW i \in 1 .. nu PROVE up[i] = tp[Len(td) + i].write
    <3>1. /\ (nd - 1) + i \in 1 .. np - 1
          /\ ((nd - 1) + i) + 1 = nd + i
      BY <2>2
    <3>2. tp[(nd - 1) + i] = p[nd + i]
      BY <2>3, <3>1 DEF tp
    <3> QED BY <2>2, <2>3, <3>2, Zenon DEF td
  <2> QED BY <2>4, <2>5, <2>6, <2>7, <2>8, Zenon DEF Follows, tp, td
<1>10. RemoteOK(r, Tail(q))
  <2>1. Len(Tail(p)) <= kMaxPendingWrites
    BY <1>0, <1>4, PipelineAssumption DEF RemoteOK
  <2> QED BY <1>0, <1>2, <1>3, <1>8, <1>9, <2>1 DEF RemoteOK
<1>11. /\ remote' \in Remote /\ RemoteOK(remote', disk'[currentUser])
       /\ remote'.down = Tail(down)
  BY <1>1, <1>7, <1>8, <1>10, FillKeeps
<1>12. \A i \in DOMAIN remote'.down : \E j \in DOMAIN remote.down : remote'.down[i] = remote.down[j]
  <2> SUFFICES ASSUME NEW i \in 1 .. Len(down) - 1
               PROVE  \E j \in DOMAIN down : Tail(down)[i] = down[j]
    BY <1>5, <1>11
  <2>1. i + 1 \in DOMAIN down
    BY <1>5
  <2> QED BY <1>5, <2>1
<1> QED BY <1>1, <1>2, <1>11, <1>12, FirstResolved

LEMMA WriteErrorKeeps ==
  ASSUME PipelineInv, HandleWriteError PROVE PipelineInv'
<1> DEFINE p == remote.pipeline
           b == Head(p)
           q == disk[currentUser]
           c == Closed(remote, "initial")
           r == [c EXCEPT !.pipeline = Tail(@)]
<1>0. /\ TypeOK /\ remote \in Remote /\ p \in Seq(Batch)
      /\ q \in Seq(Batch) /\ Sorted(q) /\ currentUser \in Users
      /\ RemoteOK(remote, q)
  BY DEF PipelineInv, TypeOK, TablesOK, Remote
<1>1. /\ remote.down # <<>> /\ ~Head(remote.down).ok
      /\ NotifyUser(b.id, "refused")
      /\ disk' = [disk EXCEPT ![currentUser] = WithoutBatch(@, b.id)]
      /\ remote' = FillWritePipeline(r, disk'[currentUser])
      /\ UNCHANGED <<owner, nextBatchId, currentUser, dead, applied, again, refused, faults>>
  BY DEF HandleWriteError, serverVars
<1>2. p # <<>> /\ b \in Batch /\ b.write \in refused
  BY <1>1, FirstAnswered
<1>3. IsFront(p, q) /\ q # <<>> /\ IsFront(Tail(p), Tail(q))
  BY <1>0, <1>2, TailFront DEF RemoteOK
<1>4. /\ Len(p) \in Nat \ {0} /\ DOMAIN p = 1 .. Len(p) /\ b = p[1]
      /\ Tail(p) \in Seq(Batch) /\ Len(Tail(p)) = Len(p) - 1
  BY <1>0, <1>2, EmptySeq, LenProperties, HeadTailProperties
<1>5. disk'[currentUser] = Tail(q) /\ Tail(q) \in Seq(Batch) /\ Sorted(Tail(q))
  <2>1. b = q[1]
    BY <1>3, <1>4 DEF IsFront
  <2>2. WithoutBatch(q, b.id) = Tail(q) /\ Tail(q) \in Seq(Batch) /\ Sorted(Tail(q))
    BY <1>0, <1>3, <2>1, WithoutFirst
  <2> QED BY <1>0, <1>1, <2>2 DEF TypeOK
<1>6. /\ c \in Remote /\ c.state = "initial" /\ c.handshake = "no" /\ c.idle = FALSE
      /\ c.up = <<>> /\ c.down = <<>> /\ c.pipeline = p
  BY <1>0, ClosedFacts
<1> HIDE DEF c
<1>7. /\ r \in Remote /\ r.state = "initial" /\ r.handshake = "no" /\ r.idle = FALSE
      /\ r.up = <<>> /\ r.down = <<>> /\ r.pipeline = Tail(p)
  BY <1>4, <1>6 DEF Remote
<1> HIDE DEF r
<1>8. RemoteOK(r, Tail(q))
  <2>1. Len(Tail(p)) <= kMaxPendingWrites
    BY <1>0, <1>4, PipelineAssumption DEF RemoteOK
  <2> QED BY <1>3, <1>7, <2>1 DEF RemoteOK, IsStarted
<1>9. /\ remote' \in Remote /\ RemoteOK(remote', disk'[currentUser]) /\ remote'.down = <<>>
  BY <1>1, <1>5, <1>7, <1>8, FillKeeps
<1>10. \A i \in DOMAIN remote'.down : \E j \in DOMAIN remote.down : remote'.down[i] = remote.down[j]
  BY <1>9, EmptySeq
<1> QED BY <1>1, <1>2, <1>9, <1>10, FirstResolved

(* What the service has done once stays done.                              *)
LEMMA VerdictFacts ==
  ASSUME TypeOK, NEW w \in Writes, NEW ok \in BOOLEAN,
         IF ok THEN TakesEffect(w) ELSE IsRefused(w)
  PROVE  /\ applied' \in Seq(Writes) /\ again' \subseteq Writes /\ refused' \subseteq Writes
         /\ \A x : Contains(applied, x) => Contains(applied', x)
         /\ refused \subseteq refused'
         /\ IF ok THEN Contains(applied', w) ELSE w \in refused'
<1>1. applied \in Seq(Writes) /\ again \subseteq Writes /\ refused \subseteq Writes
  BY DEF TypeOK
<1>2. CASE ~ok
  BY <1>1, <1>2 DEF IsRefused
<1>3. CASE ok
  <2>1. refused' = refused /\ again' \subseteq Writes
    BY <1>1, <1>3 DEF TakesEffect
  <2>2. CASE Contains(applied, w)
    BY <1>1, <1>3, <2>1, <2>2 DEF TakesEffect
  <2>3. CASE ~Contains(applied, w)
    <3>1. applied' = Append(applied, w)
      BY <1>3, <2>3 DEF TakesEffect
    <3>2. /\ applied' \in Seq(Writes) /\ Len(applied') = Len(applied) + 1
          /\ \A i \in 1 .. Len(applied) : applied'[i] = applied[i]
          /\ applied'[Len(applied) + 1] = w
          /\ Len(applied) \in Nat
      BY <1>1, <3>1, AppendProperties, LenProperties
    <3>3. \A i \in 1 .. Len(applied) : i \in 1 .. Len(applied')
      BY <3>2
    <3>4. Len(applied) + 1 \in 1 .. Len(applied')
      BY <3>2
    <3> QED BY <1>1, <1>3, <2>1, <3>2, <3>3, <3>4 DEF Contains
  <2> QED BY <2>2, <2>3
<1> QED BY <1>2, <1>3

LEMMA ServiceKeeps ==
  ASSUME PipelineInv, NEW w \in Writes, NEW ok \in BOOLEAN,
         IF ok THEN TakesEffect(w) ELSE IsRefused(w),
         remote' \in Remote, RemoteOK(remote', disk[currentUser]),
         \A i \in DOMAIN remote'.down :
            \/ i \in DOMAIN remote.down /\ remote'.down[i] = remote.down[i]
            \/ remote'.down[i] = [write |-> w, ok |-> ok],
         dead' \in Seq(Requests),
         UNCHANGED <<owner, disk, nextBatchId, currentUser, callbacks, told, faults>>
  PROVE  PipelineInv'
<1>0. TypeOK
  BY DEF PipelineInv
<1>1. /\ applied' \in Seq(Writes) /\ again' \subseteq Writes /\ refused' \subseteq Writes
      /\ \A x : Contains(applied, x) => Contains(applied', x)
      /\ refused \subseteq refused'
      /\ IF ok THEN Contains(applied', w) ELSE w \in refused'
  BY <1>0, VerdictFacts
<1>2. TypeOK'
  BY <1>0, <1>1 DEF TypeOK, RemoteOK
<1>3. VerdictsOK'
  <2> SUFFICES ASSUME NEW i \in DOMAIN remote'.down
               PROVE  IF remote'.down[i].ok THEN Contains(applied', remote'.down[i].write)
                                            ELSE remote'.down[i].write \in refused'
    BY DEF VerdictsOK
  <2>1. CASE i \in DOMAIN remote.down /\ remote'.down[i] = remote.down[i]
    BY <1>1, <2>1 DEF PipelineInv, VerdictsOK
  <2>2. CASE remote'.down[i] = [write |-> w, ok |-> ok]
    BY <1>1, <2>2
  <2> QED BY <2>1, <2>2
<1>4. TablesOK' /\ CallbacksOK'
  BY DEF PipelineInv, TablesOK, CallbacksOK
<1>5. ToldTheTruth'
  BY <1>1 DEF PipelineInv, ToldTheTruth
<1>6. NothingLost'
  BY <1>1 DEF PipelineInv, NothingLost, OnDisk
<1>7. RemoteOK(remote, disk[currentUser])'
  BY DEF RemoteOK, IsFront, Follows, IsStarted, IsOpen
<1> QED BY <1>2, <1>3, <1>4, <1>5, <1>6, <1>7 DEF PipelineInv

(* The answer takes the place of the request.                              *)
LEMMA ServesKeeps ==
  ASSUME PipelineInv, NEW ok \in BOOLEAN, Serves(ok) PROVE PipelineInv'
<1> DEFINE p == remote.pipeline
           down == remote.down
           up == remote.up
           w == Head(up)
           a == [write |-> w, ok |-> ok]
<1>0. /\ remote \in Remote /\ p \in Seq(Batch) /\ down \in Seq(Response) /\ up \in Seq(Writes)
      /\ RemoteOK(remote, disk[currentUser]) /\ dead \in Seq(Requests)
  BY DEF PipelineInv, TypeOK, Remote
<1>1. /\ up # <<>>
      /\ IF ok THEN TakesEffect(w) ELSE IsRefused(w)
      /\ remote' = [remote EXCEPT !.up = Tail(@), !.down = Append(@, a)]
      /\ UNCHANGED <<owner, disk, nextBatchId, currentUser, callbacks, dead, told, faults>>
  BY DEF Serves
<1>2. /\ Len(up) \in Nat \ {0} /\ DOMAIN up = 1 .. Len(up) /\ w = up[1] /\ w \in Writes
      /\ Tail(up) \in Seq(Writes) /\ Len(Tail(up)) = Len(up) - 1
      /\ DOMAIN Tail(up) = 1 .. Len(up) - 1
      /\ \A i \in 1 .. Len(up) - 1 : Tail(up)[i] = up[i + 1]
  BY <1>0, <1>1, EmptySeq, LenProperties, HeadTailProperties
<1>3. a \in Response /\ a.write = w
  BY <1>2 DEF Response
<1> HIDE DEF a
<1>4. /\ Append(down, a) \in Seq(Response) /\ Len(Append(down, a)) = Len(down) + 1
      /\ DOMAIN Append(down, a) = 1 .. Len(down) + 1
      /\ \A i \in 1 .. Len(down) : Append(down, a)[i] = down[i]
      /\ Append(down, a)[Len(down) + 1] = a
      /\ Len(down) \in Nat /\ DOMAIN down = 1 .. Len(down)
      /\ Len(p) \in Nat
  BY <1>0, <1>3, AppendProperties, LenProperties
<1>5. /\ remote' \in Remote /\ remote'.pipeline = p /\ remote'.idle = remote.idle
      /\ remote'.state = remote.state /\ remote'.handshake = remote.handshake
      /\ remote'.up = Tail(up) /\ remote'.down = Append(down, a)
  BY <1>0, <1>1, <1>2, <1>4 DEF Remote
<1>6. remote.handshake = "done" /\ Follows(remote)
  BY <1>0, <1>1 DEF RemoteOK
<1>7. Follows(remote')
  <2> DEFINE np == Len(p)
             nd == Len(down)
             nu == Len(up)
             tu == Tail(up)
             ad == Append(down, a)
  <2>1. /\ np \in Nat /\ nd \in Nat /\ nu \in Nat \ {0} /\ nd + nu = np
        /\ Len(tu) = nu - 1 /\ Len(ad) = nd + 1
        /\ DOMAIN tu = 1 .. nu - 1 /\ DOMAIN ad = 1 .. nd + 1
    BY <1>2, <1>4, <1>6, Zenon DEF Follows
  <2>2. /\ \A i \in 1 .. nd : down[i].write = p[i].write
        /\ \A i \in 1 .. nu : up[i] = p[nd + i].write
        /\ \A i \in 1 .. nd : ad[i] = down[i]
        /\ ad[nd + 1].write = up[1]
        /\ \A i \in 1 .. nu - 1 : tu[i] = up[i + 1]
    BY <1>2, <1>3, <1>4, <1>6, Zenon DEF Follows
  <2>3. remote'.up = tu /\ remote'.down = ad /\ remote'.pipeline = p
    BY <1>5
  <2> HIDE DEF np, nd, nu, p, down, up, tu, ad
  <2>4. (nd + 1) + (nu - 1) = np
    BY <2>1
  <2>5. ASSUME NEW i \in 1 .. nd + 1 PROVE ad[i].write = p[i].write
    <3>1. CASE i \in 1 .. nd
      BY <2>2, <3>1
    <3>2. CASE i = nd + 1
      <4>1. 1 \in 1 .. nu
        BY <2>1
      <4> QED BY <2>2, <3>2, <4>1
    <3> QED BY <2>1, <3>1, <3>2
  <2>6. ASSUME NEW i \in 1 .. nu - 1 PROVE tu[i] = p[(nd + 1) + i].write
    <3>1. i + 1 \in 1 .. nu /\ nd + (i + 1) = (nd + 1) + i
      BY <2>1
    <3>2. tu[i] = up[i + 1] /\ up[i + 1] = p[nd + (i + 1)].write
      BY <2>2, <3>1
    <3> QED BY <3>1, <3>2
  <2> QED BY <2>1, <2>3, <2>4, <2>5, <2>6, Zenon DEF Follows, np
<1>8. RemoteOK(remote', disk[currentUser])
  BY <1>0, <1>5, <1>6, <1>7 DEF RemoteOK, IsStarted, IsOpen
<1>9. \A i \in DOMAIN remote'.down :
         \/ i \in DOMAIN remote.down /\ remote'.down[i] = remote.down[i]
         \/ remote'.down[i] = [write |-> w, ok |-> ok]
  <2> SUFFICES ASSUME NEW i \in 1 .. Len(down) + 1
               PROVE  (i \in 1 .. Len(down) /\ Append(down, a)[i] = down[i]) \/ Append(down, a)[i] = a
    BY <1>4, <1>5 DEF a
  <2>1. i \in 1 .. Len(down) \/ i = Len(down) + 1
    BY <1>4
  <2> QED BY <1>4, <2>1
<1> QED BY <1>0, <1>1, <1>2, <1>5, <1>8, <1>9, ServiceKeeps

LEMMA ServesLateKeeps ==
  ASSUME PipelineInv, NEW c \in DOMAIN dead, NEW ok \in BOOLEAN, ServesLate(c, ok)
  PROVE  PipelineInv'
<1> DEFINE w == Head(dead[c])
           rest == IF ok THEN Tail(dead[c]) ELSE <<>>
<1>0. /\ remote \in Remote /\ RemoteOK(remote, disk[currentUser]) /\ dead \in Seq(Requests)
  BY DEF PipelineInv, TypeOK
<1>1. /\ Len(dead) \in Nat /\ c \in 1 .. Len(dead) /\ DOMAIN dead = 1 .. Len(dead)
      /\ dead[c] \in Seq(Writes) /\ dead[c] # <<>>
  BY <1>0, LenProperties, ElementOfSeq DEF Requests
<1>2. w \in Writes /\ (rest # <<>> => rest \in Requests)
  BY <1>1, HeadTailProperties DEF Requests
<1>3. /\ IF ok THEN TakesEffect(w) ELSE IsRefused(w)
      /\ dead' = IF rest = <<>> THEN RemoveAt(dead, c) ELSE [dead EXCEPT ![c] = rest]
      /\ remote' = remote
      /\ UNCHANGED <<owner, disk, nextBatchId, currentUser, callbacks, told, faults>>
  BY DEF ServesLate
<1> HIDE DEF rest
<1>4. dead' \in Seq(Requests)
  <2>1. CASE rest # <<>>
    BY <1>0, <1>1, <1>2, <1>3, <2>1, ExceptSeq
  <2>2. CASE rest = <<>>
    <3>1. \A i \in 1 .. Len(dead) : dead[i] \in Requests
      BY <1>0, ElementOfSeq
    <3>2. SubSeq(dead, 1, c - 1) \in Seq(Requests)
      <4>1. c - 1 \in Int /\ \A i \in 1 .. c - 1 : dead[i] \in Requests
        BY <1>1, <3>1
      <4> QED BY <4>1, SubSeqProperties
    <3>3. SubSeq(dead, c + 1, Len(dead)) \in Seq(Requests)
      <4>1. /\ c + 1 \in Int /\ Len(dead) \in Int
            /\ \A i \in c + 1 .. Len(dead) : dead[i] \in Requests
        BY <1>1, <3>1
      <4> QED BY <4>1, SubSeqProperties
    <3>4. dead' = SubSeq(dead, 1, c - 1) \o SubSeq(dead, c + 1, Len(dead))
      BY <1>3, <2>2 DEF RemoveAt
    <3> QED BY <3>2, <3>3, <3>4, ConcatProperties
  <2> QED BY <2>1, <2>2
<1>5. RemoteOK(remote', disk[currentUser])
  BY <1>0, <1>3
<1> QED BY <1>0, <1>2, <1>3, <1>4, <1>5, ServiceKeeps

LEMMA PipelineStep == PipelineInv /\ [Next]_vars => PipelineInv'
<1> SUFFICES ASSUME PipelineInv, [Next]_vars PROVE PipelineInv'
  OBVIOUS
<1>1. CASE StreamStep
  BY <1>1, CredentialsArriveKeeps, BackoffElapsesKeeps, HandshakeCompleteKeeps,
     MutationResultKeeps, WriteErrorKeeps DEF StreamStep
<1>2. CASE ServiceStep
  BY <1>2, AnswersHandshakeKeeps, ServesKeeps DEF ServiceStep
<1>3. ASSUME NEW u \in Users, HandleCredentialChange(u) PROVE PipelineInv'
  BY <1>3, CredentialChangeKeeps
<1>4. ASSUME NEW c \in DOMAIN dead, NEW ok \in BOOLEAN, ServesLate(c, ok) PROVE PipelineInv'
  BY <1>4, ServesLateKeeps
<1>5. CASE UNCHANGED vars
  <2>1. UNCHANGED <<owner, disk, nextBatchId, currentUser, callbacks, remote, dead,
                    applied, again, refused, told, faults>>
    BY <1>5 DEF vars
  <2>2. /\ remote \in Remote /\ RemoteOK(remote, disk[currentUser])
        /\ dead \in Seq(Requests) /\ faults \in Nat
    BY DEF PipelineInv, TypeOK
  <2> QED BY <2>1, <2>2, RemoteOnly
<1> QED BY <1>1, <1>2, <1>3, <1>4, <1>5, WriteMutationsKeeps, StreamCloseKeeps,
           IdleTimeoutKeeps, CrashKeeps DEF Next

-----------------------------------------------------------------------------
(* The inductive invariant: tables sorted by fresh ids, the pipeline the   *)
(* front of the table in use, and behind it what is under way.             *)
THEOREM PipelineInvariance == Spec => []PipelineInv
BY InitHolds, PipelineStep, PTL DEF Spec

(* Every variable keeps its type, and the pipeline its capacity.           *)
THEOREM PipelineTypeCorrectness == Spec => []TypeOK
<1>1. PipelineInv => TypeOK
  BY DEF PipelineInv
<1> QED BY <1>1, PipelineInvariance, PTL

(* A response always answers the first write of the pipeline, which it is  *)
(* taken to answer.                                                        *)
THEOREM AnswersTheorem == Spec => []AnswersMeetTheirWrites
<1>1. PipelineInv => AnswersMeetTheirWrites
  <2> SUFFICES ASSUME PipelineInv, remote.handshake = "done"
               PROVE  [i \in DOMAIN remote.down |-> remote.down[i].write] \o remote.up
                        = WritesOf(remote.pipeline)
    BY DEF AnswersMeetTheirWrites
  <2> DEFINE p == remote.pipeline
             down == remote.down
             up == remote.up
             front == [i \in DOMAIN down |-> down[i].write]
  <2>1. /\ p \in Seq(Batch) /\ down \in Seq(Response) /\ up \in Seq(Writes)
        /\ Follows(remote)
    BY DEF PipelineInv, TypeOK, Remote, RemoteOK
  <2>2. /\ Len(p) \in Nat /\ Len(down) \in Nat /\ Len(up) \in Nat
        /\ DOMAIN down = 1 .. Len(down) /\ DOMAIN up = 1 .. Len(up)
        /\ \A i \in 1 .. Len(down) : down[i] \in Response
    BY <2>1, LenProperties, ElementOfSeq
  <2>3. /\ front \in Seq(Writes) /\ Len(front) = Len(down)
        /\ \A i \in 1 .. Len(down) : front[i] = down[i].write
    <3>1. front \in [1 .. Len(down) -> Writes]
      BY <2>2 DEF Response
    <3>2. front \in Seq(Writes)
      BY <2>2, <3>1, SeqDef
    <3>3. Len(front) = Len(down)
      BY <2>2, <3>1, <3>2, LenProperties
    <3> QED BY <2>2, <3>2, <3>3
  <2> HIDE DEF front
  <2>4. /\ front \o up \in Seq(Writes) /\ Len(front \o up) = Len(front) + Len(up)
        /\ \A i \in 1 .. Len(front) + Len(up) :
             (front \o up)[i] = IF i <= Len(front) THEN front[i] ELSE up[i - Len(front)]
    <3>1. front \in Seq(Writes) /\ up \in Seq(Writes)
      BY <2>1, <2>3
    <3> QED BY <3>1, ConcatProperties, Zenon
  <2>5. /\ WritesOf(p) \in Seq(Writes) /\ Len(WritesOf(p)) = Len(p)
        /\ \A i \in 1 .. Len(p) : WritesOf(p)[i] = p[i].write
    BY <2>1, WritesOfFacts
  <2> DEFINE np == Len(p)
             nd == Len(down)
             nu == Len(up)
             all == front \o up
             sent == WritesOf(p)
  <2>6. /\ np \in Nat /\ nd \in Nat /\ nu \in Nat /\ nd + nu = np
        /\ \A i \in 1 .. nd : front[i] = p[i].write
        /\ \A i \in 1 .. nu : up[i] = p[nd + i].write
        /\ \A i \in 1 .. nd + nu : all[i] = IF i <= nd THEN front[i] ELSE up[i - nd]
        /\ \A i \in 1 .. np : sent[i] = p[i].write
    BY <2>1, <2>2, <2>3, <2>4, <2>5, Zenon DEF Follows
  <2>7. /\ all \in Seq(Writes) /\ sent \in Seq(Writes)
        /\ Len(all) = nd + nu /\ Len(sent) = np
    BY <2>3, <2>4, <2>5
  <2> HIDE DEF np, nd, nu, p, down, up, all, sent
  <2>8. ASSUME NEW i \in 1 .. np PROVE all[i] = sent[i]
    <3>1. CASE i <= nd
      <4>1. i \in 1 .. nd /\ i \in 1 .. nd + nu
        BY <2>6, <3>1
      <4>2. all[i] = front[i] /\ front[i] = p[i].write
        BY <2>6, <3>1, <4>1
      <4> QED BY <2>6, <4>2
    <3>2. CASE i > nd
      <4>1. /\ i \in 1 .. nd + nu /\ ~(i <= nd) /\ i - nd \in 1 .. nu /\ nd + (i - nd) = i
        BY <2>6, <3>2
      <4>2. all[i] = up[i - nd]
        BY <2>6, <4>1
      <4>3. up[i - nd] = p[nd + (i - nd)].write
        BY <2>6, <4>1
      <4> QED BY <2>6, <4>1, <4>2, <4>3
    <3> QED BY <2>6, <3>1, <3>2
  <2>9. all = sent
    BY <2>6, <2>7, <2>8, SeqEqual
  <2> QED BY <2>9 DEF all, sent, front, up, down, p
<1> QED BY <1>1, PipelineInvariance, PTL

(* The stream is never stopped for idleness while a write waits.           *)
THEOREM NotStoppedTheorem == Spec => []NotStoppedWhileNeeded
<1>1. PipelineInv => NotStoppedWhileNeeded
  BY DEF PipelineInv, RemoteOK, NotStoppedWhileNeeded
<1> QED BY <1>1, PipelineInvariance, PTL

(* What a completion handler is told of its write is true.                 *)
THEOREM ToldTheTruthTheorem == Spec => []ToldTheTruth
<1>1. PipelineInv => ToldTheTruth
  BY DEF PipelineInv
<1> QED BY <1>1, PipelineInvariance, PTL

(* A write is on disk until the service has accepted or refused it.        *)
THEOREM NothingLostTheorem == Spec => []NothingLost
<1>1. PipelineInv => NothingLost
  BY DEF PipelineInv
<1> QED BY <1>1, PipelineInvariance, PTL

-----------------------------------------------------------------------------
(***************************************************************************)
(* WritePipeline implements WriteQueue, and without faults each write takes*)
(* effect at most once.  Of the steps of the pipeline, few change what the *)
(* queue is about: a write is handed over, takes effect, or leaves with a  *)
(* verdict.                                                                *)
(***************************************************************************)
LEMMA Rows ==
  ASSUME PipelineInv, NEW u \in Users
  PROVE  /\ disk[u] \in Seq(Batch) /\ Len(disk[u]) \in Nat
         /\ DOMAIN disk[u] = 1 .. Len(disk[u]) /\ Sorted(disk[u])
         /\ \A i \in DOMAIN disk[u] : disk[u][i] \in Batch /\ disk[u][i].write \in Writes
<1>1. disk[u] \in Seq(Batch) /\ Sorted(disk[u])
  BY DEF PipelineInv, TypeOK, TablesOK
<1>2. \A i \in 1 .. Len(disk[u]) : disk[u][i] \in Batch
  BY <1>1, ElementOfSeq
<1>3. Len(disk[u]) \in Nat /\ DOMAIN disk[u] = 1 .. Len(disk[u])
  BY <1>1, LenProperties
<1> QED BY <1>1, <1>2, <1>3 DEF Batch

LEMMA OwnerFacts ==
  ASSUME PipelineInv
  PROVE  /\ owner \in Seq(Users) /\ Len(owner) \in Nat /\ Len(owner) <= MaxWrites
         /\ DOMAIN owner = 1 .. Len(owner) /\ DOMAIN owner \subseteq Writes
         /\ currentUser \in Users
<1>1. owner \in Seq(Users) /\ Len(owner) <= MaxWrites /\ currentUser \in Users
  BY DEF PipelineInv, TypeOK
<1>2. Len(owner) \in Nat /\ DOMAIN owner = 1 .. Len(owner)
  BY <1>1, LenProperties
<1> QED BY <1>1, <1>2, PipelineAssumption DEF Writes

LEMMA QueueInvInit == Init => QueueInv
<1> SUFFICES ASSUME Init PROVE QueueInv
  OBVIOUS
<1>1. Len(<<>>) = 0 /\ DOMAIN <<>> = {}
  BY EmptySeq
<1>2. /\ owner = <<>> /\ disk = [u \in Users |-> <<>>] /\ dead = <<>> /\ applied = <<>>
      /\ again = {} /\ refused = {} /\ told = [w \in Writes |-> "nothing"]
      /\ remote.down = <<>>
  BY DEF Init, NewRemote
<1>3. InOrderOK
  BY <1>1, <1>2 DEF InOrderOK
<1>4. NoVerdictYet /\ LateInOrder
  BY <1>1, <1>2 DEF NoVerdictYet, LateInOrder
<1>5. \A w \in Writes : ~Served(w)
  BY <1>1, <1>2 DEF Served, Contains
<1>6. ServedOK
  BY <1>1, <1>2, <1>5 DEF ServedOK
<1> QED BY <1>3, <1>4, <1>6 DEF QueueInv

LEMMA QueueInit == Init => Queue!Init
<1> SUFFICES ASSUME Init PROVE Queue!Init
  OBVIOUS
<1>1. owner = <<>> /\ applied = <<>> /\ told = [w \in Writes |-> "nothing"]
  BY DEF Init
<1>2. \A u \in Users : WritesOf(disk[u]) = <<>>
  <2>1. \A u \in Users : disk[u] = <<>>
    BY DEF Init
  <2>2. <<>> \in Seq(Batch) /\ Len(<<>>) = 0
    BY EmptySeq
  <2>3. WritesOf(<<>>) \in Seq(Writes) /\ Len(WritesOf(<<>>)) = 0
    BY <2>2, WritesOfFacts
  <2>4. WritesOf(<<>>) = <<>>
    BY <2>3, EmptySeq
  <2> QED BY <2>1, <2>4
<1>3. {applied[i] : i \in DOMAIN applied} = {}
  BY <1>1, EmptySeq
<1>4. [u \in Users |-> WritesOf(disk[u])] = [u \in Users |-> <<>>]
  BY <1>2
<1> QED BY <1>1, <1>3, <1>4 DEF Queue!Init

LEMMA CommitsInit == Init => Commits!Init
<1> SUFFICES ASSUME Init PROVE Commits!Init
  OBVIOUS
<1>1. DOMAIN <<>> = {}
  BY EmptySeq
<1>2. owner = <<>> /\ applied = <<>> /\ \A u \in Users : disk[u] = <<>>
  BY DEF Init
<1>3. Waiting = {}
  BY <1>1, <1>2 DEF Waiting, OnDisk
<1>4. {applied[i] : i \in DOMAIN applied} = {}
  BY <1>1, <1>2
<1> QED BY <1>2, <1>3, <1>4 DEF Commits!Init

-----------------------------------------------------------------------------
(***************************************************************************)
(* Steps that the queues do not see.                                       *)
(***************************************************************************)
Unseen == UNCHANGED <<owner, disk, applied, told>>

CommitsNext == [Commits!Next \/ Belated]_Commits!vars

LEMMA UnseenStutters == ASSUME Unseen PROVE UNCHANGED Queue!vars /\ UNCHANGED Commits!vars
<1>1. UNCHANGED Queue!vars
  BY DEF Unseen, Queue!vars
<1>2. \A x : OnDisk(x)' = OnDisk(x)
  BY DEF Unseen, OnDisk
<1>3. UNCHANGED <<owner, applied, Waiting>>
  BY <1>2 DEF Unseen, Waiting
<1> QED BY <1>1, <1>3 DEF Commits!vars

LEMMA QuietKeeps ==
  ASSUME QueueInv, Unseen, UNCHANGED <<dead, again, refused, faults>>,
         remote'.down = remote.down
  PROVE  QueueInv'
<1>1. \A w : OnDisk(w)' = OnDisk(w) /\ Before(w)' = Before(w)
  BY DEF Unseen, OnDisk, Before
<1>2. \A w : Served(w)' = Served(w) /\ Answering(w)' = Answering(w)
  BY DEF Unseen, Served, Answering
<1>3. InOrderOK' /\ NoVerdictYet'
  BY <1>1 DEF Unseen, QueueInv, InOrderOK, NoVerdictYet
<1>4. LateInOrder'
  BY <1>1 DEF Unseen, QueueInv, LateInOrder
<1>5. ServedOK'
  BY <1>1, <1>2 DEF Unseen, QueueInv, ServedOK
<1> QED BY <1>3, <1>4, <1>5 DEF QueueInv

(* What is sent and not served is on disk, behind what is served.          *)
LEMMA RequestsInOrder ==
  ASSUME PipelineInv, QueueInv, NEW k \in DOMAIN remote.up
  PROVE  /\ remote.handshake = "done"
         /\ Len(remote.down) \in Nat /\ DOMAIN remote.down = 1 .. Len(remote.down)
         /\ k \in Nat \ {0}
         /\ Len(remote.down) + k \in DOMAIN disk[currentUser]
         /\ disk[currentUser][Len(remote.down) + k].write = remote.up[k]
         /\ remote.up[k] \in DOMAIN owner /\ owner[remote.up[k]] = currentUser
         /\ \A x \in Before(remote.up[k]) :
               Answering(x) \/ \E l \in 1 .. k - 1 : remote.up[l] = x
         /\ ~Answering(remote.up[k])
<1> DEFINE p == remote.pipeline
           down == remote.down
           up == remote.up
           q == disk[currentUser]
           np == Len(p)
           nd == Len(down)
           nu == Len(up)
           nq == Len(q)
           m == nd + k
<1>1. /\ p \in Seq(Batch) /\ down \in Seq(Response) /\ up \in Seq(Writes)
      /\ RemoteOK(remote, q)
  BY DEF PipelineInv, TypeOK, Remote
<1>2. /\ np \in Nat /\ nd \in Nat /\ nu \in Nat
      /\ DOMAIN p = 1 .. np /\ DOMAIN down = 1 .. nd /\ DOMAIN up = 1 .. nu
  BY <1>1, LenProperties
<1>3. currentUser \in Users /\ nq \in Nat /\ DOMAIN q = 1 .. nq
  BY Rows, OwnerFacts
<1>4. remote.handshake = "done" /\ Follows(remote)
  <2>1. up # <<>>
    BY EmptySeq
  <2> QED BY <1>1, <2>1 DEF RemoteOK
<1>5. /\ nd + nu = np
      /\ \A i \in 1 .. nd : down[i].write = p[i].write
      /\ \A i \in 1 .. nu : up[i] = p[nd + i].write
  BY <1>2, <1>4, Zenon DEF Follows
<1>6. np <= nq /\ \A i \in 1 .. np : p[i] = q[i]
  BY <1>1, <1>2, Zenon DEF RemoteOK, IsFront
<1>7. k \in 1 .. nu /\ m \in 1 .. np /\ m \in 1 .. nq
  <2> HIDE DEF np, nd, nu, nq
  <2> QED BY <1>2, <1>3, <1>5, <1>6
<1>8. q[m].write = up[k]
  BY <1>5, <1>6, <1>7, Zenon
<1>9. /\ up[k] \in DOMAIN owner /\ owner[up[k]] = currentUser
      /\ \A i \in 1 .. nq : \A j \in 1 .. i - 1 : q[j].write < q[i].write
  <2>1. \A i \in 1 .. nq : /\ q[i].write \in DOMAIN owner /\ owner[q[i].write] = currentUser
                           /\ \A j \in 1 .. i - 1 : q[j].write < q[i].write
    BY <1>3, Zenon DEF QueueInv, InOrderOK
  <2> QED BY <1>7, <1>8, <2>1, Zenon
<1>10. ASSUME NEW x \in Before(up[k])
       PROVE  Answering(x) \/ \E l \in 1 .. k - 1 : up[l] = x
  <2>1. x \in Writes /\ x < up[k] /\ OnDisk(x) /\ owner[x] = currentUser
    BY <1>9 DEF Before
  <2>2. PICK j \in 1 .. nq : q[j].write = x
    <3>1. PICK u \in Users : \E i \in DOMAIN disk[u] : disk[u][i].write = x
      BY <2>1, Zenon DEF OnDisk
    <3>2. u = currentUser
      BY <2>1, <3>1, Zenon DEF QueueInv, InOrderOK
    <3> QED BY <1>3, <3>1, <3>2, Zenon
  <2>3. j < m
    <3> DEFINE y == up[k]
               at(i) == q[i].write
    <3>1. y \in Int /\ x \in Int /\ x < y /\ at(m) = y /\ at(j) = x
      <4>1. y \in Writes
        BY <1>9, OwnerFacts, Zenon
      <4> QED BY <1>8, <2>1, <2>2, <4>1 DEF Writes
    <3>2. \A i \in 1 .. nq : \A l \in 1 .. i - 1 : at(l) < at(i)
      BY <1>9, Zenon
    <3> HIDE DEF y, at, m, nq
    <3>3. m \in 1 .. nq /\ j \in 1 .. nq /\ nq \in Nat
      BY <1>3, <1>7, <2>2
    <3>4. m # j
      BY <3>1
    <3>5. m < j => at(m) < at(j)
      BY <3>2, <3>3
    <3> QED BY <3>1, <3>3, <3>4, <3>5
  <2>4. CASE j <= nd
    <3>1. j \in 1 .. nd /\ j \in 1 .. np
      <4> HIDE DEF nd, np, nu, nq
      <4> QED BY <1>2, <1>3, <1>5, <2>2, <2>4
    <3>2. down[j].write = x
      BY <1>5, <1>6, <2>2, <3>1, Zenon
    <3> QED BY <1>2, <3>1, <3>2, Zenon DEF Answering
  <2>5. CASE j > nd
    <3>1. j - nd \in 1 .. k - 1 /\ j - nd \in 1 .. nu /\ nd + (j - nd) = j /\ j \in 1 .. np
      <4> HIDE DEF nd, np, nu, nq
      <4> QED BY <1>2, <1>3, <1>5, <1>7, <2>2, <2>3, <2>5
    <3>2. up[j - nd] = p[nd + (j - nd)].write
      BY <1>5, <3>1, Zenon
    <3>3. up[j - nd] = x
      BY <1>6, <2>2, <3>1, <3>2, Zenon
    <3> QED BY <3>1, <3>3, Zenon
  <2>6. j <= nd \/ j > nd
    <3> HIDE DEF nd
    <3> QED BY <1>2, <1>3, <2>2
  <2> QED BY <2>4, <2>5, <2>6, Zenon
<1>11. k \in Nat \ {0}
  <2> HIDE DEF nu
  <2> QED BY <1>2, <1>7
<1>12. ~Answering(up[k])
  <2> SUFFICES ASSUME NEW i \in 1 .. nd, down[i].write = up[k] PROVE FALSE
    BY <1>2, Zenon DEF Answering
  <2> DEFINE at(j) == q[j].write
  <2>1. i \in 1 .. np /\ i \in 1 .. m - 1
    <3> HIDE DEF nd, np, nu, nq
    <3> QED BY <1>2, <1>3, <1>5, <1>7
  <2>2. at(i) = up[k]
    BY <1>5, <1>6, <2>1, Zenon
  <2>3. at(m) = up[k] /\ at(i) < at(m)
    BY <1>7, <1>8, <1>9, <2>1, Zenon
  <2>4. up[k] \in Int
    BY <1>9, OwnerFacts DEF Writes
  <2> HIDE DEF at, up
  <2> QED BY <2>2, <2>3, <2>4
<1> QED BY <1>2, <1>3, <1>4, <1>7, <1>8, <1>9, <1>10, <1>11, <1>12, Zenon

(* What a served connection has said of a write is true.                   *)
LEMMA AnswersAreTrue ==
  ASSUME PipelineInv, NEW x, Answering(x), Serving(remote)
  PROVE  Contains(applied, x)
<1>1. PICK i \in DOMAIN remote.down : remote.down[i].write = x
  BY DEF Answering
<1> QED BY <1>1 DEF PipelineInv, VerdictsOK, Serving

LEMMA FaultKeeps ==
  ASSUME PipelineInv, QueueInv, Unseen, UNCHANGED <<again, refused>>,
         dead' = Abandon(remote), faults' = faults + 1, remote'.down = <<>>
  PROVE  QueueInv'
<1>1. \A w : OnDisk(w)' = OnDisk(w) /\ Before(w)' = Before(w)
  BY DEF Unseen, OnDisk, Before
<1>2. \A w : Served(w)' = Served(w)
  BY DEF Unseen, Served
<1>3. InOrderOK' /\ NoVerdictYet'
  BY <1>1 DEF Unseen, QueueInv, InOrderOK, NoVerdictYet
<1>4. LateInOrder'
  <2>1. CASE dead' = dead
    BY <1>1, <2>1 DEF Unseen, QueueInv, LateInOrder
  <2>2. CASE dead' # dead
    <3>1. dead' = Append(dead, remote.up) /\ Serving(remote)
      BY <2>2 DEF Abandon
    <3>2. dead \in Seq(Requests) /\ remote.up \in Requests
      <4>1. dead \in Seq(Requests) /\ remote.up \in Seq(Writes)
        BY DEF PipelineInv, TypeOK, Remote
      <4>2. remote.up # <<>>
        BY <2>2 DEF Abandon
      <4> QED BY <4>1, <4>2 DEF Requests
    <3>3. /\ Len(dead) \in Nat /\ DOMAIN dead = 1 .. Len(dead)
          /\ DOMAIN dead' = 1 .. Len(dead) + 1
          /\ \A c \in 1 .. Len(dead) : dead'[c] = dead[c]
          /\ dead'[Len(dead) + 1] = remote.up
      BY <3>1, <3>2, AppendProperties, LenProperties
    <3> SUFFICES ASSUME NEW c \in DOMAIN dead', NEW k \in DOMAIN dead'[c]
                 PROVE  /\ dead'[c][k] \in DOMAIN owner
                        /\ \A x \in Before(dead'[c][k]) :
                             Contains(applied, x) \/ \E l \in 1 .. k - 1 : dead'[c][l] = x
      BY DEF LateInOrder, Before, OnDisk, Unseen
    <3>4. CASE c \in 1 .. Len(dead)
      <4>1. dead'[c] = dead[c] /\ c \in DOMAIN dead /\ k \in DOMAIN dead[c]
        BY <3>3, <3>4
      <4>2. /\ dead[c][k] \in DOMAIN owner
            /\ \A x \in Before(dead[c][k]) : Contains(applied, x) \/ \E l \in 1 .. k - 1 : dead[c][l] = x
        BY <4>1, Zenon DEF QueueInv, LateInOrder
      <4> QED BY <4>1, <4>2
    <3>5. CASE c = Len(dead) + 1
      <4>1. dead'[c] = remote.up
        BY <3>3, <3>5
      <4>2. /\ remote.up[k] \in DOMAIN owner
            /\ \A x \in Before(remote.up[k]) :
                 Answering(x) \/ \E l \in 1 .. k - 1 : remote.up[l] = x
        BY <4>1, RequestsInOrder, Zenon
      <4> QED BY <3>1, <4>1, <4>2, AnswersAreTrue, Zenon
    <3> QED BY <3>3, <3>4, <3>5
  <2> QED BY <2>1, <2>2
<1>5. ServedOK'
  <2>1. faults' # 0
    BY DEF PipelineInv, TypeOK
  <2>2. DOMAIN remote'.down = {}
    BY EmptySeq
  <2> QED BY <1>2, <2>1, <2>2 DEF Unseen, QueueInv, ServedOK
<1> QED BY <1>3, <1>4, <1>5 DEF QueueInv

-----------------------------------------------------------------------------
(***************************************************************************)
(* A write is handed over.                                                 *)
(***************************************************************************)
LEMMA FillKeepsDown ==
  ASSUME NEW r \in Remote, NEW q
  PROVE  FillWritePipeline(r, q).down = r.down
<1> DEFINE more == NextBatches(r, q)
           ready == IsOpen(r) /\ r.handshake = "done"
           f == [r EXCEPT !.pipeline = @ \o more,
                          !.up = IF ready THEN @ \o WritesOf(more) ELSE @,
                          !.idle = IF r.pipeline \o more = <<>> THEN @ \/ IsOpen(r)
                                   ELSE @ /\ ~(ready /\ more # <<>>)]
<1>1. f.down = r.down /\ DOMAIN f = DOMAIN r
  BY DEF Remote
<1>2. FillWritePipeline(r, q) = StartIfNeeded(f)
  BY DEF FillWritePipeline
<1>3. DOMAIN r = {"pipeline", "state", "handshake", "idle", "up", "down"}
  BY DEF Remote
<1> HIDE DEF f
<1>4. StartIfNeeded(f).down = f.down
  BY <1>1, <1>3 DEF StartIfNeeded, StartWriteStream
<1> QED BY <1>1, <1>2, <1>4

LEMMA WritesOfAppend ==
  ASSUME NEW q \in Seq(Batch), NEW b \in Batch
  PROVE  WritesOf(Append(q, b)) = Append(WritesOf(q), b.write)
<1> DEFINE a == Append(q, b)
           s == WritesOf(a)
           t == Append(WritesOf(q), b.write)
           n == Len(q)
<1>1. /\ a \in Seq(Batch) /\ Len(a) = n + 1 /\ n \in Nat
      /\ \A i \in 1 .. n : a[i] = q[i]
      /\ a[n + 1] = b
  BY AppendProperties, LenProperties
<1>2. /\ WritesOf(q) \in Seq(Writes) /\ Len(WritesOf(q)) = n
      /\ \A i \in 1 .. n : WritesOf(q)[i] = q[i].write
  BY WritesOfFacts
<1>3. b.write \in Writes
  BY DEF Batch
<1>4. /\ t \in Seq(Writes) /\ Len(t) = n + 1
      /\ \A i \in 1 .. n : t[i] = q[i].write
      /\ t[n + 1] = b.write
  BY <1>2, <1>3, AppendProperties
<1>5. s \in Seq(Writes) /\ Len(s) = n + 1 /\ \A i \in 1 .. n + 1 : s[i] = a[i].write
  <2> HIDE DEF a
  <2> QED BY <1>1, WritesOfFacts
<1> HIDE DEF a, s, t
<1>6. \A i \in 1 .. n + 1 : s[i] = t[i]
  <2> SUFFICES ASSUME NEW i \in 1 .. n + 1 PROVE s[i] = t[i]
    OBVIOUS
  <2>1. i \in 1 .. n \/ i = n + 1
    BY <1>1
  <2> QED BY <1>1, <1>4, <1>5, <2>1
<1>7. s = t
  BY <1>4, <1>5, <1>6, SeqEqual
<1> QED BY <1>7 DEF a, s, t

LEMMA HandOverStep ==
  ASSUME PipelineInv, QueueInv, WriteMutations
  PROVE  QueueInv' /\ Queue!HandOver(currentUser) /\ Commits!HandOver(currentUser)
<1> DEFINE cu == currentUser
           w == Len(owner) + 1
           b == [id |-> nextBatchId, write |-> w]
           q == disk[cu]
           n == Len(q)
<1>1. /\ owner \in Seq(Users) /\ Len(owner) \in Nat /\ cu \in Users
      /\ DOMAIN owner = 1 .. Len(owner)
      /\ q \in Seq(Batch) /\ n \in Nat /\ DOMAIN q = 1 .. n
      /\ nextBatchId \in Nat /\ disk \in [Users -> Seq(Batch)] /\ remote \in Remote
  BY OwnerFacts, Rows DEF PipelineInv, TypeOK
<1>2. /\ Len(owner) < MaxWrites
      /\ owner' = Append(owner, cu)
      /\ disk' = [disk EXCEPT ![cu] = Append(@, b)]
      /\ remote' = FillWritePipeline(remote, disk'[cu])
      /\ UNCHANGED <<currentUser, dead, applied, again, refused, told, faults>>
  BY DEF WriteMutations, serverVars
<1>3. w \in Writes /\ w \in Nat /\ w \notin DOMAIN owner
  BY <1>1, <1>2, PipelineAssumption DEF Writes
<1>4. /\ DOMAIN owner' = DOMAIN owner \cup {w}
      /\ owner'[w] = cu
      /\ \A x \in DOMAIN owner : owner'[x] = owner[x]
  <2>1. /\ owner' \in Seq(Users) /\ Len(owner') = w
        /\ \A i \in 1 .. Len(owner) : owner'[i] = owner[i]
        /\ owner'[w] = cu
    BY <1>1, <1>2, AppendProperties
  <2>2. DOMAIN owner' = 1 .. w
    BY <2>1, LenProperties
  <2>3. 1 .. w = (1 .. Len(owner)) \cup {w}
    BY <1>1
  <2> QED BY <1>1, <2>1, <2>2, <2>3
<1>5. b \in Batch /\ b.write = w
  BY <1>1, <1>3 DEF Batch
<1> HIDE DEF b
<1> DEFINE a == Append(q, b)
<1>6. /\ a \in Seq(Batch) /\ DOMAIN a = 1 .. n + 1
      /\ \A i \in 1 .. n : a[i] = q[i]
      /\ a[n + 1] = b
  BY <1>1, <1>5, AppendProperties, LenProperties
<1>7. disk'[cu] = a /\ \A u \in Users \ {cu} : disk'[u] = disk[u]
  BY <1>1, <1>2
<1> HIDE DEF a
<1>8. remote'.down = remote.down
  BY <1>1, <1>2, FillKeepsDown
(* Every row of a table is an old row, or the new one at the end.          *)
<1>9. ASSUME NEW u \in Users, NEW i \in DOMAIN disk'[u]
      PROVE  \/ i \in DOMAIN disk[u] /\ disk'[u][i] = disk[u][i]
             \/ u = cu /\ i = n + 1 /\ disk'[u][i] = b
  <2>1. CASE u = cu
    <3>1. i \in 1 .. n \/ i = n + 1
      BY <1>1, <1>6, <1>7, <2>1
    <3> QED BY <1>1, <1>6, <1>7, <2>1, <3>1
  <2>2. CASE u # cu
    BY <1>7, <2>2
  <2> QED BY <2>1, <2>2
<1>10. ASSUME NEW u \in Users, NEW i \in DOMAIN disk[u]
       PROVE  i \in DOMAIN disk'[u] /\ disk'[u][i] = disk[u][i]
  <2>1. CASE u = cu
    <3>1. i \in 1 .. n /\ i \in 1 .. n + 1
      BY <1>1, <2>1
    <3> QED BY <1>6, <1>7, <2>1, <3>1
  <2>2. CASE u # cu
    BY <1>7, <2>2
  <2> QED BY <2>1, <2>2
<1>11. \A u \in Users : \A i \in DOMAIN disk[u] :
         /\ disk[u][i].write \in DOMAIN owner /\ owner[disk[u][i].write] = u
         /\ \A j \in 1 .. i - 1 : disk[u][j].write < disk[u][i].write
  BY DEF QueueInv, InOrderOK
<1>12. \A x : OnDisk(x) => x \in DOMAIN owner
  BY <1>11 DEF OnDisk
<1>13. \A x : OnDisk(x)' => OnDisk(x) \/ x = w
  <2> SUFFICES ASSUME NEW x, NEW u \in Users, NEW i \in DOMAIN disk'[u], disk'[u][i].write = x
               PROVE  OnDisk(x) \/ x = w
    BY DEF OnDisk
  <2>1. CASE i \in DOMAIN disk[u] /\ disk'[u][i] = disk[u][i]
    BY <2>1 DEF OnDisk
  <2>2. CASE disk'[u][i] = b
    BY <1>5, <2>2
  <2> QED BY <1>9, <2>1, <2>2
<1>14. InOrderOK'
  <2> SUFFICES ASSUME NEW u \in Users, NEW i \in DOMAIN disk'[u]
               PROVE  /\ disk'[u][i].write \in DOMAIN owner' /\ owner'[disk'[u][i].write] = u
                      /\ \A j \in 1 .. i - 1 : disk'[u][j].write < disk'[u][i].write
    BY DEF InOrderOK
  <2>1. CASE i \in DOMAIN disk[u] /\ disk'[u][i] = disk[u][i]
    <3>1. /\ disk[u][i].write \in DOMAIN owner /\ owner[disk[u][i].write] = u
          /\ \A j \in 1 .. i - 1 : disk[u][j].write < disk[u][i].write
      BY <1>11, <2>1
    <3>2. \A j \in 1 .. i - 1 : disk'[u][j] = disk[u][j]
      <4>1. \A j \in 1 .. i - 1 : j \in DOMAIN disk[u]
        BY <2>1, Rows
      <4> QED BY <1>10, <4>1
    <3> QED BY <1>4, <2>1, <3>1, <3>2
  <2>2. CASE u = cu /\ i = n + 1 /\ disk'[u][i] = b
    <3>1. disk'[u][i].write = w /\ owner'[w] = cu /\ w \in DOMAIN owner'
      BY <1>4, <1>5, <2>2
    <3>2. ASSUME NEW j \in 1 .. i - 1 PROVE disk'[u][j].write < w
      <4>1. j \in DOMAIN disk[u]
        BY <1>1, <2>2
      <4>2. disk'[u][j] = disk[u][j] /\ disk[u][j].write \in DOMAIN owner
        BY <1>10, <1>11, <4>1
      <4>3. disk[u][j].write < w
        <5> DEFINE y == disk[u][j].write
        <5>1. y \in 1 .. Len(owner)
          BY <1>1, <4>2
        <5> HIDE DEF y
        <5>2. y < w
          BY <1>1, <5>1
        <5> QED BY <5>2 DEF y
      <4> QED BY <4>2, <4>3
    <3> QED BY <2>2, <3>1, <3>2
  <2> QED BY <1>9, <2>1, <2>2
<1>15. NoVerdictYet'
  <2> SUFFICES ASSUME NEW x \in Writes, told[x] # "nothing"
               PROVE  x \in DOMAIN owner' /\ ~OnDisk(x)'
    BY <1>2 DEF NoVerdictYet
  <2>1. x \in DOMAIN owner /\ ~OnDisk(x)
    BY DEF QueueInv, NoVerdictYet
  <2> QED BY <1>3, <1>4, <1>13, <2>1
<1>16. LateInOrder'
  <2> SUFFICES ASSUME NEW c \in DOMAIN dead, NEW k \in DOMAIN dead[c]
               PROVE  /\ dead[c][k] \in DOMAIN owner'
                      /\ \A x \in Writes :
                           x < dead[c][k] /\ OnDisk(x)' /\ owner'[x] = owner'[dead[c][k]] =>
                           Contains(applied, x) \/ \E l \in 1 .. k - 1 : dead[c][l] = x
    <3>1. dead' = dead /\ applied' = applied
      BY <1>2
    <3> QED BY <3>1 DEF LateInOrder, Before, OnDisk
  <2> DEFINE y == dead[c][k]
  <2>1. /\ y \in DOMAIN owner
        /\ \A x \in Before(y) : Contains(applied, x) \/ \E l \in 1 .. k - 1 : dead[c][l] = x
    BY DEF QueueInv, LateInOrder
  <2>2. ASSUME NEW x \in Writes, x < y, OnDisk(x)', owner'[x] = owner'[y]
        PROVE  x \in Before(y)
    <3>1. x # w
      <4> HIDE DEF y
      <4> QED BY <1>1, <2>1, <2>2
    <3>2. OnDisk(x) /\ x \in DOMAIN owner
      BY <1>12, <1>13, <2>2, <3>1
    <3>3. owner[x] = owner[y]
      BY <1>4, <2>1, <2>2, <3>2
    <3> QED BY <2>2, <3>2, <3>3 DEF Before
  <2> HIDE DEF y
  <2>3. y \in DOMAIN owner' /\ \A x \in Writes : x < y /\ OnDisk(x)' /\ owner'[x] = owner'[y] =>
                           Contains(applied, x) \/ \E l \in 1 .. k - 1 : dead[c][l] = x
    BY <1>4, <2>1, <2>2, Zenon
  <2> QED BY <2>3, Zenon DEF y
<1>17. ServedOK'
  <2>1. \A x : Served(x)' = Served(x) /\ Answering(x)' = Answering(x)
    BY <1>2, <1>8 DEF Served, Answering
  <2>2. \A x \in Writes : Served(x) => x \in DOMAIN owner
    BY DEF QueueInv, ServedOK
  <2>3. \A x \in Writes : Served(x)' => x \in DOMAIN owner'
    BY <1>4, <2>1, <2>2
  <2>4. \A i \in DOMAIN remote'.down : ~remote'.down[i].ok => i = Len(remote'.down)
    BY <1>8 DEF QueueInv, ServedOK
  <2>5. ASSUME faults' = 0
        PROVE  /\ dead' = <<>> /\ again' = {}
               /\ \A x \in refused' : ~Contains(applied', x)
               /\ \A x \in Writes : Served(x)' /\ OnDisk(x)' => Answering(x)'
    <3>1. /\ dead = <<>> /\ again = {}
          /\ \A x \in refused : ~Contains(applied, x)
          /\ \A x \in Writes : Served(x) /\ OnDisk(x) => Answering(x)
      BY <1>2, <2>5 DEF QueueInv, ServedOK
    <3>2. \A x \in Writes : Served(x) /\ OnDisk(x)' => OnDisk(x)
      BY <1>3, <1>13, <2>2
    <3> QED BY <1>2, <2>1, <3>1, <3>2
  <2> QED BY <2>3, <2>4, <2>5 DEF ServedOK
<1>18. Queue!HandOver(cu)
  <2>1. [u \in Users |-> WritesOf(disk'[u])]
          = [[u \in Users |-> WritesOf(disk[u])] EXCEPT ![cu] = Append(@, w)]
    <3>1. WritesOf(disk'[cu]) = Append(WritesOf(disk[cu]), w)
      BY <1>1, <1>5, <1>7, WritesOfAppend DEF a
    <3> QED BY <1>1, <1>7, <3>1
  <2> QED BY <1>2, <1>3, <2>1 DEF Queue!HandOver
<1>19. Commits!HandOver(cu)
  <2>1. \A x : x = w \/ OnDisk(x) => OnDisk(x)'
    <3>1. n + 1 \in DOMAIN disk'[cu] /\ disk'[cu][n + 1].write = w
      BY <1>1, <1>5, <1>6, <1>7
    <3>2. \A x : x = w => OnDisk(x)'
      BY <1>1, <3>1, Zenon DEF OnDisk
    <3>3. ASSUME NEW x, OnDisk(x) PROVE OnDisk(x)'
      <4>1. PICK u \in Users : \E i \in DOMAIN disk[u] : disk[u][i].write = x
        BY <3>3 DEF OnDisk
      <4>2. PICK i \in DOMAIN disk[u] : disk[u][i].write = x
        BY <4>1
      <4> QED BY <1>10, <4>2, Zenon DEF OnDisk
    <3> QED BY <3>2, <3>3
  <2>2. ~Contains(applied, w)
    BY <1>3 DEF QueueInv, ServedOK, Served
  <2>3. \A x : x \in Waiting <=> x \in Writes /\ OnDisk(x) /\ ~Contains(applied, x)
    BY DEF Waiting
  <2>4. \A x : x \in Waiting' <=> x \in Writes /\ OnDisk(x)' /\ ~Contains(applied, x)
    BY <1>2 DEF Waiting
  <2>5. Waiting' = Waiting \cup {w}
    <3> HIDE DEF w
    <3> QED BY <1>3, <1>13, <2>1, <2>2, <2>3, <2>4
  <2>6. {applied'[i] : i \in DOMAIN applied'} = {applied[i] : i \in DOMAIN applied}
    BY <1>2
  <2> HIDE DEF cu
  <2> QED BY <1>2, <1>3, <2>5, <2>6 DEF Commits!HandOver
<1> QED BY <1>14, <1>15, <1>16, <1>17, <1>18, <1>19 DEF QueueInv

-----------------------------------------------------------------------------
(***************************************************************************)
(* A write leaves with a verdict.                                          *)
(***************************************************************************)
LEMMA WritesOfTail ==
  ASSUME NEW q \in Seq(Batch), Sorted(q), q # <<>>
  PROVE  /\ WritesOf(Tail(q)) = Tail(WritesOf(q))
         /\ WritesOf(q) # <<>> /\ Head(WritesOf(q)) = q[1].write
<1> DEFINE t == Tail(q)
           s == WritesOf(q)
           x == WritesOf(t)
           y == Tail(s)
           n == Len(q)
<1>1. /\ n \in Nat \ {0} /\ t \in Seq(Batch) /\ Len(t) = n - 1
      /\ \A i \in 1 .. n - 1 : t[i] = q[i + 1]
  BY EmptySeq, LenProperties, WithoutFirst
<1>2. s \in Seq(Writes) /\ Len(s) = n /\ \A i \in 1 .. n : s[i] = q[i].write
  BY WritesOfFacts
<1>3. x \in Seq(Writes) /\ Len(x) = n - 1 /\ \A i \in 1 .. n - 1 : x[i] = t[i].write
  <2> HIDE DEF t
  <2> QED BY <1>1, WritesOfFacts
<1>4. s # <<>>
  BY <1>1, <1>2, EmptySeq
<1> HIDE DEF s, t, x, n
<1>5. /\ y \in Seq(Writes) /\ Len(y) = n - 1 /\ Head(s) = s[1]
      /\ \A i \in 1 .. n - 1 : y[i] = s[i + 1]
  BY <1>2, <1>4, HeadTailProperties
<1> HIDE DEF y
<1>6. ASSUME NEW i \in 1 .. n - 1 PROVE x[i] = y[i]
  <2>1. i + 1 \in 1 .. n
    BY <1>1
  <2> QED BY <1>1, <1>2, <1>3, <1>5, <2>1
<1>7. x = y
  BY <1>3, <1>5, <1>6, SeqEqual
<1>8. s[1] = q[1].write
  BY <1>1, <1>2
<1> QED BY <1>4, <1>5, <1>7, <1>8 DEF x, y, s, t

(* The first write of the pipeline leaves, and its handler, if it is kept, *)
(* is called.                                                              *)
LEMMA FirstLeaves ==
  ASSUME PipelineInv, QueueInv, remote.pipeline # <<>>,
         NEW b, b = Head(remote.pipeline), NEW verdict \in {"ok", "refused"},
         NotifyUser(b.id, verdict),
         disk' = [disk EXCEPT ![currentUser] = WithoutBatch(@, b.id)],
         owner' = owner
  PROVE  /\ disk[currentUser] # <<>> /\ b = disk[currentUser][1] /\ b.write \in Writes
         /\ disk' = [disk EXCEPT ![currentUser] = Tail(@)]
         /\ InOrderOK'
         /\ \A x : OnDisk(x)' <=> OnDisk(x) /\ x # b.write
         /\ OnDisk(b.write)
         /\ told[b.write] = "nothing"
         /\ told' \in {told, [told EXCEPT ![b.write] = verdict]}
<1> DEFINE cu == currentUser
           q == disk[cu]
           n == Len(q)
           t == Tail(q)
           p == remote.pipeline
<1>1. /\ cu \in Users /\ q \in Seq(Batch) /\ n \in Nat /\ DOMAIN q = 1 .. n /\ Sorted(q)
      /\ p \in Seq(Batch) /\ disk \in [Users -> Seq(Batch)]
      /\ told \in [Writes -> {"nothing", "ok", "refused"}]
  BY OwnerFacts, Rows DEF PipelineInv, TypeOK, Remote
<1>2. b = q[1] /\ b \in Batch /\ n >= 1 /\ q # <<>>
  <2>1. /\ Len(p) \in Nat \ {0} /\ b = p[1] /\ b \in Batch /\ DOMAIN p = 1 .. Len(p)
    BY <1>1, EmptySeq, LenProperties, HeadTailProperties
  <2>2. Len(p) <= n /\ p[1] = q[1]
    BY <2>1 DEF PipelineInv, RemoteOK, IsFront
  <2> QED BY <1>1, <2>1, <2>2, EmptySeq
<1>3. /\ WithoutBatch(q, b.id) = t /\ t \in Seq(Batch) /\ DOMAIN t = 1 .. n - 1
      /\ \A i \in 1 .. n - 1 : t[i] = q[i + 1]
  BY <1>1, <1>2, WithoutFirst
<1>4. /\ disk' = [disk EXCEPT ![cu] = t] /\ disk'[cu] = t
      /\ \A u \in Users \ {cu} : disk'[u] = disk[u]
  BY <1>1, <1>3
<1> HIDE DEF t
<1>5. \A u \in Users : \A i \in DOMAIN disk[u] :
        /\ disk[u][i].write \in DOMAIN owner /\ owner[disk[u][i].write] = u
        /\ \A j \in 1 .. i - 1 : disk[u][j].write < disk[u][i].write
  BY DEF QueueInv, InOrderOK
<1>6. InOrderOK'
  <2> SUFFICES ASSUME NEW u \in Users, NEW i \in DOMAIN disk'[u]
               PROVE  /\ disk'[u][i].write \in DOMAIN owner /\ owner[disk'[u][i].write] = u
                      /\ \A j \in 1 .. i - 1 : disk'[u][j].write < disk'[u][i].write
    BY DEF InOrderOK
  <2>1. CASE u # cu
    BY <1>4, <1>5, <2>1
  <2>2. CASE u = cu
    <3>1. i \in 1 .. n - 1 /\ i + 1 \in 1 .. n
      BY <1>1, <1>3, <1>4, <2>2
    <3>2. disk'[u][i] = q[i + 1]
      BY <1>3, <1>4, <2>2, <3>1
    <3>3. /\ q[i + 1].write \in DOMAIN owner /\ owner[q[i + 1].write] = u
          /\ \A j \in 1 .. (i + 1) - 1 : q[j].write < q[i + 1].write
      BY <1>1, <1>5, <2>2, <3>1
    <3>4. ASSUME NEW j \in 1 .. i - 1 PROVE disk'[u][j].write < q[i + 1].write
      <4>1. j \in 1 .. n - 1 /\ j + 1 \in 1 .. (i + 1) - 1
        <5> HIDE DEF n
        <5> QED BY <1>1, <3>1
      <4>2. disk'[u][j] = q[j + 1]
        BY <1>3, <1>4, <2>2, <4>1
      <4> QED BY <3>3, <4>1, <4>2
    <3> QED BY <3>2, <3>3, <3>4
  <2> QED BY <2>1, <2>2
<1>7. ASSUME NEW x, OnDisk(x)' PROVE OnDisk(x) /\ x # b.write
  <2>1. PICK u \in Users : \E i \in DOMAIN disk'[u] : disk'[u][i].write = x
    BY <1>7 DEF OnDisk
  <2>2. PICK i \in DOMAIN disk'[u] : disk'[u][i].write = x
    BY <2>1
  <2>3. 1 \in DOMAIN q /\ owner[b.write] = cu
    BY <1>1, <1>2, <1>5
  <2>4. CASE u # cu
    <3>1. i \in DOMAIN disk[u] /\ disk[u][i].write = x
      BY <1>4, <2>2, <2>4
    <3>2. owner[x] = u
      BY <1>5, <3>1
    <3> QED BY <2>3, <2>4, <3>1, <3>2 DEF OnDisk
  <2>5. CASE u = cu
    <3>1. i \in 1 .. n - 1 /\ i + 1 \in 1 .. n /\ 1 \in 1 .. (i + 1) - 1
      BY <1>1, <1>3, <1>4, <2>2, <2>5
    <3>2. q[i + 1].write = x
      BY <1>3, <1>4, <2>2, <2>5, <3>1
    <3>3. q[1].write < q[i + 1].write
      BY <1>1, <1>5, <3>1
    <3>4. q[1].write \in Int /\ q[i + 1].write \in Int
      <4>1. q[1].write \in Writes /\ q[i + 1].write \in Writes
        BY <1>1, <2>3, <3>1, Rows
      <4> QED BY <4>1 DEF Writes
    <3>5. OnDisk(x)
      BY <1>1, <3>1, <3>2 DEF OnDisk
    <3> DEFINE y == q[1].write
               z == q[i + 1].write
    <3>6. y # z
      <4>1. y \in Int /\ z \in Int /\ y < z
        BY <3>3, <3>4
      <4> HIDE DEF y, z
      <4> QED BY <4>1
    <3> QED BY <1>2, <3>2, <3>5, <3>6
  <2> QED BY <2>4, <2>5
<1>8. OnDisk(b.write) /\ b.write \in Writes
  <2>1. 1 \in DOMAIN q
    BY <1>1, <1>2
  <2> QED BY <1>1, <1>2, <2>1, Rows DEF OnDisk
<1>9. told[b.write] = "nothing"
  BY <1>8 DEF QueueInv, NoVerdictYet
<1> DEFINE mine == {c \in callbacks[cu] : c.id = b.id}
<1>10. told' = [w \in Writes |-> IF \E c \in mine : c.write = w THEN verdict ELSE told[w]]
  BY DEF NotifyUser
<1>11. \A c \in mine : c = b
  <2> SUFFICES ASSUME NEW c \in callbacks[cu], c.id = b.id PROVE c = b
    OBVIOUS
  <2>1. PICK i \in DOMAIN q : q[i] = c
    BY <1>1 DEF PipelineInv, CallbacksOK
  <2>2. i = 1
    <3>1. \A j \in 1 .. n : q[j].id \in Nat
      BY <1>1, IdsAreNumbers
    <3>2. i \in 1 .. n /\ 1 \in 1 .. n /\ q[1].id = q[i].id
      BY <1>1, <1>2, <2>1
    <3>3. q[1].id \in Nat /\ ~(q[1].id < q[i].id)
      BY <3>1, <3>2
    <3>4. ~(1 < i)
      BY <1>1, <3>2, <3>3, Zenon DEF Sorted
    <3> QED BY <1>1, <3>2, <3>4
  <2> QED BY <1>2, <2>1, <2>2
<1>12. told' \in {told, [told EXCEPT ![b.write] = verdict]}
  <2>1. CASE mine = {}
    <3>1. told' = [w \in Writes |-> told[w]]
      BY <1>10, <2>1
    <3> QED BY <1>1, <3>1
  <2>2. CASE mine # {}
    <3>1. \A w : (\E c \in mine : c.write = w) <=> w = b.write
      BY <1>11, <2>2
    <3>2. told' = [w \in Writes |-> IF w = b.write THEN verdict ELSE told[w]]
      <4> HIDE DEF mine
      <4> QED BY <1>10, <3>1
    <3> QED BY <1>1, <3>2
  <2> QED BY <2>1, <2>2
<1>13. disk' = [disk EXCEPT ![cu] = Tail(@)]
  BY <1>4 DEF t
<1>14. ASSUME NEW x, OnDisk(x), x # b.write PROVE OnDisk(x)'
  <2>1. PICK u \in Users : \E i \in DOMAIN disk[u] : disk[u][i].write = x
    BY <1>14 DEF OnDisk
  <2>2. PICK i \in DOMAIN disk[u] : disk[u][i].write = x
    BY <2>1
  <2>3. CASE u # cu
    BY <1>4, <2>2, <2>3 DEF OnDisk
  <2>4. CASE u = cu
    <3>1. i \in 1 .. n /\ i # 1
      BY <1>1, <1>2, <1>14, <2>2, <2>4
    <3>2. i - 1 \in 1 .. n - 1 /\ (i - 1) + 1 = i
      <4> HIDE DEF n
      <4> QED BY <1>1, <3>1
    <3>3. disk'[cu][i - 1].write = x /\ i - 1 \in DOMAIN disk'[cu]
      BY <1>3, <1>4, <2>2, <2>4, <3>2
    <3> QED BY <1>1, <3>3, Zenon DEF OnDisk
  <2> QED BY <2>3, <2>4
<1> QED BY <1>2, <1>6, <1>7, <1>8, <1>9, <1>12, <1>13, <1>14

LEMMA ResolveStep ==
  ASSUME PipelineInv, QueueInv, remote.pipeline # <<>>,
         NEW b, b = Head(remote.pipeline), NEW verdict \in {"ok", "refused"},
         verdict = "ok" => Contains(applied, b.write),
         NotifyUser(b.id, verdict),
         disk' = [disk EXCEPT ![currentUser] = WithoutBatch(@, b.id)],
         \A i \in DOMAIN remote'.down : ~remote'.down[i].ok => i = Len(remote'.down),
         \A x : Answering(x) /\ x # b.write => Answering(x)',
         UNCHANGED <<owner, dead, applied, again, refused, faults>>
  PROVE  /\ QueueInv' /\ Queue!Resolve(currentUser, verdict)
         /\ CommitsNext
<1> DEFINE cu == currentUser
           q == disk[cu]
<1>1. /\ q # <<>> /\ b = q[1] /\ b.write \in Writes
      /\ disk' = [disk EXCEPT ![cu] = Tail(@)]
      /\ InOrderOK'
      /\ \A x : OnDisk(x)' <=> OnDisk(x) /\ x # b.write
      /\ OnDisk(b.write)
      /\ told[b.write] = "nothing"
      /\ told' \in {told, [told EXCEPT ![b.write] = verdict]}
  BY FirstLeaves
<1>2. /\ disk \in [Users -> Seq(Batch)] /\ told \in [Writes -> {"nothing", "ok", "refused"}]
      /\ cu \in Users /\ q \in Seq(Batch) /\ Sorted(q)
  BY OwnerFacts, Rows DEF PipelineInv, TypeOK
<1>3. b.write \in DOMAIN owner
  <2>1. PICK u \in Users : \E i \in DOMAIN disk[u] : disk[u][i].write = b.write
    BY <1>1 DEF OnDisk
  <2>2. PICK i \in DOMAIN disk[u] : disk[u][i].write = b.write
    BY <2>1
  <2>3. disk[u][i].write \in DOMAIN owner
    BY Zenon DEF QueueInv, InOrderOK
  <2> QED BY <2>2, <2>3, Zenon
<1>4. NoVerdictYet'
  <2> SUFFICES ASSUME NEW x \in Writes, told'[x] # "nothing"
               PROVE  x \in DOMAIN owner /\ ~OnDisk(x)'
    BY DEF NoVerdictYet
  <2>1. CASE x = b.write
    BY <1>1, <1>3, <2>1
  <2>2. CASE x # b.write
    <3>1. told'[x] = told[x]
      BY <1>1, <1>2, <2>2
    <3> QED BY <1>1, <3>1 DEF QueueInv, NoVerdictYet
  <2> QED BY <2>1, <2>2
<1>5. LateInOrder'
  <2> SUFFICES ASSUME NEW c \in DOMAIN dead, NEW k \in DOMAIN dead[c]
               PROVE  /\ dead[c][k] \in DOMAIN owner
                      /\ \A x \in Writes :
                           x < dead[c][k] /\ OnDisk(x)' /\ owner[x] = owner[dead[c][k]] =>
                           Contains(applied, x) \/ \E l \in 1 .. k - 1 : dead[c][l] = x
    <3>1. dead' = dead /\ applied' = applied /\ owner' = owner
      OBVIOUS
    <3> QED BY <3>1 DEF LateInOrder, Before, OnDisk
  <2>1. /\ dead[c][k] \in DOMAIN owner
        /\ \A x \in Before(dead[c][k]) :
             Contains(applied, x) \/ \E l \in 1 .. k - 1 : dead[c][l] = x
    BY DEF QueueInv, LateInOrder
  <2>2. \A x \in Writes : x < dead[c][k] /\ OnDisk(x)' /\ owner[x] = owner[dead[c][k]] =>
                            x \in Before(dead[c][k])
    BY <1>1, Zenon DEF Before
  <2> QED BY <2>1, <2>2, Zenon
<1>6. ServedOK'
  <2>1. \A x : Served(x)' = Served(x)
    BY DEF Served
  <2>2. \A x \in Writes : Served(x)' => x \in DOMAIN owner'
    BY <2>1 DEF QueueInv, ServedOK
  <2>3. ASSUME faults' = 0
        PROVE  /\ dead' = <<>> /\ again' = {}
               /\ \A x \in refused' : ~Contains(applied', x)
               /\ \A x \in Writes : Served(x)' /\ OnDisk(x)' => Answering(x)'
    <3>1. /\ dead = <<>> /\ again = {}
          /\ \A x \in refused : ~Contains(applied, x)
          /\ \A x \in Writes : Served(x) /\ OnDisk(x) => Answering(x)
      BY <2>3 DEF QueueInv, ServedOK
    <3> QED BY <1>1, <2>1, <3>1
  <2> QED BY <2>2, <2>3 DEF ServedOK
<1>7. Queue!Resolve(cu, verdict)
  <2> DEFINE pending == [u \in Users |-> WritesOf(disk[u])]
  <2>1. /\ WritesOf(Tail(q)) = Tail(WritesOf(q)) /\ WritesOf(q) # <<>>
        /\ Head(WritesOf(q)) = b.write
    BY <1>1, <1>2, WritesOfTail
  <2>2. pending[cu] # <<>> /\ Head(pending[cu]) = b.write
    BY <1>2, <2>1
  <2>3. disk'[cu] = Tail(q) /\ \A u \in Users \ {cu} : disk'[u] = disk[u]
    BY <1>1, <1>2
  <2>4. [u \in Users |-> WritesOf(disk'[u])] = [pending EXCEPT ![cu] = Tail(@)]
    BY <1>2, <2>1, <2>3
  <2>5. verdict = "ok" => b.write \in {applied[i] : i \in DOMAIN applied}
    <3>1. DOMAIN applied = 1 .. Len(applied)
      BY LenProperties DEF PipelineInv, TypeOK
    <3> QED BY <3>1 DEF Contains
  <2> HIDE DEF pending
  <2>6. verdict \in {"nothing", "ok", "refused"} \ {"nothing"}
    OBVIOUS
  <2>7. /\ told' \in {told, [told EXCEPT ![Head(pending[cu])] = verdict]}
        /\ told[Head(pending[cu])] = "nothing"
    BY <1>1, <2>2, Zenon
  <2>8. /\ pending[cu] # <<>>
        /\ verdict = "ok" => Head(pending[cu]) \in {applied[i] : i \in DOMAIN applied}
    BY <2>2, <2>5, Zenon
  <2>9. UNCHANGED <<owner, {applied[i] : i \in DOMAIN applied}>>
    OBVIOUS
  <2> QED BY <2>4, <2>6, <2>7, <2>8, <2>9, Zenon DEF Queue!Resolve, pending
<1>8. CommitsNext
  <2>1. \A x : x \in Waiting <=> x \in Writes /\ OnDisk(x) /\ ~Contains(applied, x)
    BY DEF Waiting
  <2>2. \A x : x \in Waiting' <=> x \in Writes /\ OnDisk(x)' /\ ~Contains(applied, x)
    BY DEF Waiting
  <2>3. Waiting' = Waiting \ {b.write}
    BY <1>1, <2>1, <2>2
  <2>4. CASE b.write \notin Waiting
    <3>1. UNCHANGED <<owner, Waiting, applied>>
      BY <2>3, <2>4
    <3> QED BY <3>1 DEF CommitsNext, Commits!vars
  <2>5. CASE b.write \in Waiting
    <3>1. 1 \in DOMAIN q /\ DOMAIN q = 1 .. Len(q) /\ Len(q) \in Nat
      BY <1>1, <1>2, EmptySeq, LenProperties
    <3>2. owner[b.write] = cu
      BY <1>1, <1>2, <3>1 DEF QueueInv, InOrderOK
    <3>3. ASSUME NEW x \in Waiting, owner[x] = owner[b.write] PROVE b.write <= x
      <4>1. PICK u \in Users : \E i \in DOMAIN disk[u] : disk[u][i].write = x
        BY <3>3 DEF Waiting, OnDisk
      <4>2. PICK i \in DOMAIN disk[u] : disk[u][i].write = x
        BY <4>1
      <4>3. owner[x] = u /\ \A j \in 1 .. i - 1 : disk[u][j].write < x
        BY <4>2, Zenon DEF QueueInv, InOrderOK
      <4>4. u = cu /\ i \in 1 .. Len(q)
        BY <3>1, <3>2, <3>3, <4>2, <4>3
      <4>5. x \in Int /\ b.write \in Int
        BY <1>1, <2>1 DEF Writes
      <4>6. CASE i = 1
        BY <1>1, <4>2, <4>4, <4>5, <4>6
      <4>7. CASE i # 1
        <5>1. 1 \in 1 .. i - 1
          BY <3>1, <4>4, <4>7
        <5>2. b.write < x
          BY <1>1, <4>3, <4>4, <5>1
        <5> QED BY <4>5, <5>2
      <4> QED BY <4>6, <4>7
    <3>4. Commits!Refuse(b.write)
      BY <2>3, <3>3 DEF Commits!Refuse, Commits!Leaves, Commits!Oldest
    <3> QED BY <2>5, <3>4 DEF Commits!Next, CommitsNext
  <2> QED BY <2>4, <2>5
<1> QED BY <1>1, <1>4, <1>5, <1>6, <1>7, <1>8 DEF QueueInv

LEMMA MutationResultStep ==
  ASSUME PipelineInv, QueueInv, OnWriteStreamMutationResult
  PROVE  QueueInv' /\ Queue!Resolve(currentUser, "ok") /\ CommitsNext
<1> DEFINE b == Head(remote.pipeline)
           down == remote.down
           r == [remote EXCEPT !.pipeline = Tail(@), !.down = Tail(@)]
<1>1. /\ down # <<>> /\ Head(down).ok /\ remote.pipeline # <<>>
      /\ NotifyUser(b.id, "ok")
      /\ disk' = [disk EXCEPT ![currentUser] = WithoutBatch(@, b.id)]
      /\ remote' = FillWritePipeline(r, disk'[currentUser])
      /\ UNCHANGED <<owner, dead, applied, again, refused, faults>>
  BY DEF OnWriteStreamMutationResult, serverVars
<1>2. Contains(applied, b.write) /\ Head(down).write = b.write
  BY <1>1, FirstAnswered
<1>3. /\ remote \in Remote /\ down \in Seq(Response) /\ remote.pipeline \in Seq(Batch)
  BY DEF PipelineInv, TypeOK, Remote
<1>4. /\ Len(down) \in Nat \ {0} /\ DOMAIN down = 1 .. Len(down) /\ Head(down) = down[1]
      /\ Tail(down) \in Seq(Response) /\ Len(Tail(down)) = Len(down) - 1
      /\ DOMAIN Tail(down) = 1 .. Len(down) - 1
      /\ \A i \in 1 .. Len(down) - 1 : Tail(down)[i] = down[i + 1]
  BY <1>1, <1>3, EmptySeq, LenProperties, HeadTailProperties
<1>5. remote'.down = Tail(down)
  <2>1. Tail(remote.pipeline) \in Seq(Batch)
    BY <1>1, <1>3, HeadTailProperties
  <2>2. r \in Remote /\ r.down = Tail(down)
    BY <1>3, <1>4, <2>1 DEF Remote
  <2> HIDE DEF r
  <2> QED BY <1>1, <2>2, FillKeepsDown
<1>6. \A i \in DOMAIN remote'.down : ~remote'.down[i].ok => i = Len(remote'.down)
  <2> SUFFICES ASSUME NEW i \in 1 .. Len(down) - 1, ~down[i + 1].ok
               PROVE  i = Len(down) - 1
    BY <1>4, <1>5
  <2>1. i + 1 \in DOMAIN down
    BY <1>4
  <2>2. i + 1 = Len(down)
    BY <2>1 DEF QueueInv, ServedOK
  <2> QED BY <1>4, <2>2
<1>7. ASSUME NEW x, Answering(x), x # b.write PROVE Answering(x)'
  <2>1. PICK i \in DOMAIN down : down[i].write = x
    BY <1>7 DEF Answering
  <2>2. i # 1
    BY <1>2, <1>4, <1>7, <2>1
  <2>3. i - 1 \in 1 .. Len(down) - 1 /\ (i - 1) + 1 = i
    BY <1>4, <2>1, <2>2
  <2>4. Tail(down)[i - 1] = down[i]
    BY <1>4, <2>3
  <2> QED BY <1>4, <1>5, <2>1, <2>3, <2>4 DEF Answering
<1> HIDE DEF b
<1> QED BY <1>1, <1>2, <1>6, <1>7, ResolveStep DEF b

LEMMA WriteErrorStep ==
  ASSUME PipelineInv, QueueInv, HandleWriteError
  PROVE  QueueInv' /\ Queue!Resolve(currentUser, "refused") /\ CommitsNext
<1> DEFINE b == Head(remote.pipeline)
           down == remote.down
           c == Closed(remote, "initial")
           r == [c EXCEPT !.pipeline = Tail(@)]
<1>1. /\ down # <<>> /\ ~Head(down).ok /\ remote.pipeline # <<>>
      /\ NotifyUser(b.id, "refused")
      /\ disk' = [disk EXCEPT ![currentUser] = WithoutBatch(@, b.id)]
      /\ remote' = FillWritePipeline(r, disk'[currentUser])
      /\ UNCHANGED <<owner, dead, applied, again, refused, faults>>
  BY DEF HandleWriteError, serverVars
<1>2. Head(down).write = b.write
  BY <1>1, FirstAnswered
<1>3. /\ remote \in Remote /\ down \in Seq(Response) /\ remote.pipeline \in Seq(Batch)
  BY DEF PipelineInv, TypeOK, Remote
<1>4. /\ Len(down) \in Nat \ {0} /\ DOMAIN down = 1 .. Len(down) /\ Head(down) = down[1]
  BY <1>1, <1>3, EmptySeq, LenProperties, HeadTailProperties
<1>5. remote'.down = <<>>
  <2>1. Tail(remote.pipeline) \in Seq(Batch)
    BY <1>1, <1>3, HeadTailProperties
  <2>2. c \in Remote /\ c.pipeline = remote.pipeline /\ c.down = <<>>
    BY <1>3, ClosedFacts
  <2> HIDE DEF c
  <2>3. r \in Remote /\ r.down = <<>>
    BY <2>1, <2>2 DEF Remote
  <2> HIDE DEF r
  <2> QED BY <1>1, <2>3, FillKeepsDown
<1>6. \A i \in DOMAIN remote'.down : ~remote'.down[i].ok => i = Len(remote'.down)
  BY <1>5, EmptySeq
<1>7. ASSUME NEW x, Answering(x), x # b.write PROVE Answering(x)'
  <2>1. Len(down) = 1
    <3>1. 1 \in DOMAIN down /\ ~down[1].ok
      BY <1>1, <1>4
    <3> QED BY <3>1, Zenon DEF QueueInv, ServedOK
  <2>2. PICK i \in DOMAIN down : down[i].write = x
    BY <1>7 DEF Answering
  <2>3. i = 1
    BY <1>4, <2>1, <2>2
  <2> QED BY <1>2, <1>4, <1>7, <2>2, <2>3
<1> HIDE DEF b
<1> QED BY <1>1, <1>6, <1>7, ResolveStep DEF b

-----------------------------------------------------------------------------
(***************************************************************************)
(* The service deals with a write.                                         *)
(***************************************************************************)
LEMMA VerdictsExactly ==
  ASSUME PipelineInv, NEW w \in Writes, NEW ok \in BOOLEAN,
         IF ok THEN TakesEffect(w) ELSE IsRefused(w)
  PROVE  /\ \A x : Contains(applied', x) <=> Contains(applied, x) \/ (ok /\ x = w)
         /\ \A x : x \in refused' <=> x \in refused \/ (~ok /\ x = w)
         /\ ~Contains(applied, w) => again' = again
         /\ ~ok => applied' = applied
<1>1. applied \in Seq(Writes) /\ Len(applied) \in Nat
  BY LenProperties DEF PipelineInv, TypeOK
<1>2. CASE ~ok
  BY <1>2 DEF IsRefused
<1>3. CASE ok
  <2>1. refused' = refused
    BY <1>3 DEF TakesEffect
  <2>2. CASE Contains(applied, w)
    BY <1>3, <2>1, <2>2 DEF TakesEffect
  <2>3. CASE ~Contains(applied, w)
    <3>1. applied' = Append(applied, w) /\ again' = again
      BY <1>3, <2>3 DEF TakesEffect
    <3>2. /\ Len(applied') = Len(applied) + 1
          /\ \A i \in 1 .. Len(applied) : applied'[i] = applied[i]
          /\ applied'[Len(applied) + 1] = w
      BY <1>1, <3>1, AppendProperties
    <3>3. \A i : i \in 1 .. Len(applied') <=> i \in 1 .. Len(applied) \/ i = Len(applied) + 1
      BY <1>1, <3>2
    <3>4. \A x : Contains(applied', x) <=> Contains(applied, x) \/ x = w
      BY <3>2, <3>3 DEF Contains
    <3> QED BY <1>3, <2>1, <3>1, <3>4
  <2> QED BY <2>2, <2>3
<1> QED BY <1>2, <1>3

LEMMA VerdictStep ==
  ASSUME PipelineInv, QueueInv, NEW w \in DOMAIN owner, NEW ok \in BOOLEAN,
         IF ok THEN TakesEffect(w) ELSE IsRefused(w),
         UNCHANGED <<owner, disk, told, faults>>,
         applied' \in Seq(Writes),
         LateInOrder',
         \A i \in DOMAIN remote'.down : ~remote'.down[i].ok => i = Len(remote'.down),
         \A x \in Before(w) : Contains(applied, x),
         faults = 0 => /\ dead' = <<>> /\ ~Served(w) /\ Answering(w)'
                       /\ \A x : Answering(x) => Answering(x)'
  PROVE  QueueInv' /\ [Queue!Next]_Queue!vars /\ CommitsNext
<1>1. w \in Writes
  BY OwnerFacts
<1>2. /\ \A x : Contains(applied', x) <=> Contains(applied, x) \/ (ok /\ x = w)
      /\ \A x : x \in refused' <=> x \in refused \/ (~ok /\ x = w)
      /\ ~Contains(applied, w) => again' = again
      /\ ~ok => applied' = applied
  BY <1>1, VerdictsExactly
<1>3. \A x : OnDisk(x)' = OnDisk(x)
  BY DEF OnDisk
<1>4. InOrderOK' /\ NoVerdictYet'
  BY <1>3 DEF QueueInv, InOrderOK, NoVerdictYet
<1>5. \A x : Served(x)' <=> Served(x) \/ x = w
  BY <1>2 DEF Served
<1>6. ServedOK'
  <2>1. \A x \in Writes : Served(x)' => x \in DOMAIN owner'
    BY <1>5 DEF QueueInv, ServedOK
  <2>2. ASSUME faults' = 0
        PROVE  /\ dead' = <<>> /\ again' = {}
               /\ \A x \in refused' : ~Contains(applied', x)
               /\ \A x \in Writes : Served(x)' /\ OnDisk(x)' => Answering(x)'
    <3>1. /\ again = {}
          /\ \A x \in refused : ~Contains(applied, x)
          /\ \A x \in Writes : Served(x) /\ OnDisk(x) => Answering(x)
          /\ dead' = <<>> /\ ~Served(w) /\ Answering(w)'
          /\ \A x : Answering(x) => Answering(x)'
      BY <2>2 DEF QueueInv, ServedOK
    <3>2. \A x \in refused' : ~Contains(applied', x)
      BY <1>2, <3>1 DEF Served
    <3> QED BY <1>2, <1>3, <1>5, <3>1, <3>2 DEF Served
  <2> QED BY <2>1, <2>2 DEF ServedOK
<1>7. ASSUME ~ok PROVE UNCHANGED Queue!vars /\ CommitsNext
  <2>1. applied' = applied
    BY <1>2, <1>7
  <2> QED BY <2>1, UnseenStutters DEF Unseen, CommitsNext
<1>8. ASSUME ok PROVE Queue!Next /\ CommitsNext
  <2> DEFINE pending == [u \in Users |-> WritesOf(disk[u])]
             A == {applied[i] : i \in DOMAIN applied}
  <2>1. \A x : x \in A <=> Contains(applied, x)
    <3>1. DOMAIN applied = 1 .. Len(applied)
      BY LenProperties DEF PipelineInv, TypeOK
    <3> QED BY <3>1 DEF Contains
  <2>2. \A x : x \in {applied'[i] : i \in DOMAIN applied'} <=> Contains(applied', x)
    <3>1. DOMAIN applied' = 1 .. Len(applied')
      BY LenProperties
    <3> QED BY <3>1 DEF Contains
  <2>3. {applied'[i] : i \in DOMAIN applied'} = A \cup {w}
    <3> HIDE DEF A
    <3> QED BY <1>2, <1>8, <2>1, <2>2
  <2>4. ASSUME NEW u \in Users, NEW i \in DOMAIN pending[u], pending[u][i] = w,
               NEW j \in 1 .. i - 1
        PROVE  pending[u][j] \in A
    <3>1. DOMAIN disk[u] = 1 .. Len(disk[u]) /\ Len(disk[u]) \in Nat
      BY Rows
    <3>2. i \in 1 .. Len(disk[u]) /\ j \in 1 .. Len(disk[u])
      BY <2>4, <3>1 DEF WritesOf
    <3>3. disk[u][i].write = w /\ pending[u][j] = disk[u][j].write
      BY <2>4, <3>1, <3>2 DEF WritesOf
    <3>4. /\ disk[u][j].write < w /\ owner[w] = u /\ owner[disk[u][j].write] = u
          /\ disk[u][j].write \in Writes
      <4>1. i \in DOMAIN disk[u] /\ j \in DOMAIN disk[u]
        BY <3>1, <3>2
      <4>2. /\ owner[disk[u][i].write] = u /\ owner[disk[u][j].write] = u
            /\ disk[u][j].write < disk[u][i].write
        BY <4>1, Zenon DEF QueueInv, InOrderOK
      <4>3. disk[u][j].write \in Writes
        BY <4>1, Rows, Zenon
      <4> QED BY <3>3, <4>2, <4>3, Zenon
    <3>5. OnDisk(disk[u][j].write)
      BY <3>1, <3>2 DEF OnDisk
    <3>6. disk[u][j].write \in Before(w)
      BY <3>4, <3>5 DEF Before
    <3> QED BY <2>1, <3>3, <3>6
  <2>5. Queue!Apply(w)
    <3>1. UNCHANGED <<owner, pending, told>>
      OBVIOUS
    <3> HIDE DEF pending, A
    <3> QED BY <2>3, <2>4, <3>1, Zenon DEF Queue!Apply, pending, A
  <2>6. \A x : x \in Waiting <=> x \in Writes /\ OnDisk(x) /\ ~Contains(applied, x)
    BY DEF Waiting
  <2>7. \A x : x \in Waiting' <=> x \in Writes /\ OnDisk(x)' /\ ~Contains(applied', x)
    BY DEF Waiting
  <2>8. Waiting' = Waiting \ {w}
    BY <1>2, <1>3, <1>8, <2>6, <2>7
  <2>9. ASSUME w \in Waiting PROVE CommitsNext
    <3>1. ASSUME NEW x \in Waiting, owner[x] = owner[w] PROVE w <= x
      <4>1. x \in Writes /\ OnDisk(x) /\ ~Contains(applied, x)
        BY <2>6
      <4>2. ~(x < w)
        BY <3>1, <4>1 DEF Before
      <4>3. x \in Int /\ w \in Int
        BY <1>1, <4>1 DEF Writes
      <4> QED BY <4>2, <4>3
    <3>2. Commits!Commit(w)
      <4> HIDE DEF A
      <4> QED BY <2>3, <2>8, <3>1, Zenon DEF Commits!Commit, Commits!Leaves, Commits!Oldest, A
    <3> QED BY <2>9, <3>2 DEF Commits!Next, CommitsNext
  <2>10. ASSUME w \notin Waiting PROVE CommitsNext
    <3>1. Waiting' = Waiting
      BY <2>8, <2>10
    <3>2. CASE Contains(applied, w)
      <4>1. A \cup {w} = A
        BY <2>1, <3>2
      <4> HIDE DEF A
      <4> QED BY <2>3, <3>1, <4>1 DEF CommitsNext, Commits!vars, A
    <3>3. CASE ~Contains(applied, w)
      <4>1. ~OnDisk(w)
        BY <1>1, <2>6, <2>10, <3>3
      <4>2. w \in refused
        BY <3>3, <4>1 DEF PipelineInv, NothingLost
      <4>3. applied' = Append(applied, w) /\ refused' = refused
        BY <1>8, <3>3 DEF TakesEffect
      <4>4. faults' # 0
        <5>1. Contains(applied', w)
          BY <1>2, <1>8
        <5> QED BY <1>6, <4>2, <4>3, <5>1, Zenon DEF ServedOK
      <4>5. faults' > 0
        BY <4>4 DEF PipelineInv, TypeOK
      <4> QED BY <3>1, <4>1, <4>2, <4>3, <4>5, Zenon DEF CommitsNext, Belated
    <3> QED BY <3>2, <3>3
  <2> QED BY <1>1, <2>5, <2>9, <2>10 DEF Queue!Next
<1> QED BY <1>4, <1>6, <1>7, <1>8 DEF QueueInv

LEMMA ServesStep ==
  ASSUME PipelineInv, QueueInv, NEW ok \in BOOLEAN, Serves(ok)
  PROVE  QueueInv' /\ [Queue!Next]_Queue!vars /\ CommitsNext
<1> DEFINE down == remote.down
           up == remote.up
<1> PICK w : w = Head(up)
  OBVIOUS
<1> DEFINE a == [write |-> w, ok |-> ok]
<1>1. /\ up # <<>> /\ Serving(remote)
      /\ IF ok THEN TakesEffect(w) ELSE IsRefused(w)
      /\ remote' = [remote EXCEPT !.up = Tail(@), !.down = Append(@, a)]
      /\ UNCHANGED <<owner, disk, dead, told, faults>>
  BY DEF Serves
<1>2. remote \in Remote /\ up \in Seq(Writes) /\ down \in Seq(Response)
  BY DEF PipelineInv, TypeOK, Remote
<1>3. 1 \in DOMAIN up /\ w = up[1] /\ w \in Writes
  BY <1>1, <1>2, EmptySeq, LenProperties, HeadTailProperties
<1>4. /\ w \in DOMAIN owner /\ ~Answering(w)
      /\ Len(down) + 1 \in DOMAIN disk[currentUser]
      /\ disk[currentUser][Len(down) + 1].write = w
      /\ \A x \in Before(w) : Answering(x) \/ \E l \in 1 .. 1 - 1 : up[l] = x
  BY <1>3, RequestsInOrder, Zenon
<1>5. \A x \in Before(w) : Contains(applied, x)
  <2>1. 1 .. 1 - 1 = {}
    OBVIOUS
  <2> QED BY <1>1, <1>4, <2>1, AnswersAreTrue, Zenon
<1>6. OnDisk(w)
  <2>1. currentUser \in Users
    BY OwnerFacts
  <2> QED BY <1>4, <2>1, Zenon DEF OnDisk
<1>7. a \in Response /\ a.write = w
  BY <1>3 DEF Response
<1> HIDE DEF a
<1>8. /\ Len(Append(down, a)) = Len(down) + 1 /\ DOMAIN Append(down, a) = 1 .. Len(down) + 1
      /\ \A i \in 1 .. Len(down) : Append(down, a)[i] = down[i]
      /\ Append(down, a)[Len(down) + 1] = a
      /\ Len(down) \in Nat /\ DOMAIN down = 1 .. Len(down)
  BY <1>2, <1>7, AppendProperties, LenProperties
<1>9. remote'.down = Append(down, a)
  BY <1>1, <1>2 DEF Remote
<1>10. \A i \in DOMAIN remote'.down : ~remote'.down[i].ok => i = Len(remote'.down)
  <2> SUFFICES ASSUME NEW i \in 1 .. Len(down) + 1, ~Append(down, a)[i].ok
               PROVE  i = Len(down) + 1
    BY <1>8, <1>9
  <2>1. CASE i \in 1 .. Len(down)
    BY <1>1, <1>8, <2>1 DEF Serving
  <2> QED BY <1>8, <2>1
<1>11. applied' \in Seq(Writes) /\ \A x : Contains(applied, x) => Contains(applied', x)
  <2>1. TypeOK
    BY DEF PipelineInv
  <2> QED BY <1>1, <1>3, <2>1, VerdictFacts, Zenon
<1>12. LateInOrder'
  <2>1. \A c \in DOMAIN dead : \A k \in DOMAIN dead[c] :
          /\ dead[c][k] \in DOMAIN owner
          /\ \A x \in Before(dead[c][k]) :
               Contains(applied', x) \/ \E l \in 1 .. k - 1 : dead[c][l] = x
    BY <1>11, Zenon DEF QueueInv, LateInOrder
  <2>2. owner' = owner /\ disk' = disk /\ dead' = dead
    BY <1>1
  <2> QED BY <2>1, <2>2 DEF LateInOrder, Before, OnDisk
<1>13. Answering(w)' /\ \A x : Answering(x) => Answering(x)'
  <2>1. Answering(w)'
    <3>1. Len(down) + 1 \in DOMAIN remote'.down
      BY <1>8, <1>9
    <3>2. remote'.down[Len(down) + 1].write = w
      BY <1>7, <1>8, <1>9
    <3> HIDE DEF down
    <3> QED BY <3>1, <3>2 DEF Answering
  <2>2. ASSUME NEW x, Answering(x) PROVE Answering(x)'
    <3>1. PICK i \in 1 .. Len(down) : down[i].write = x
      BY <1>8, <2>2 DEF Answering
    <3>2. i \in DOMAIN remote'.down
      BY <1>8, <1>9
    <3> QED BY <1>8, <1>9, <3>1, <3>2, Zenon DEF Answering
  <2> QED BY <2>1, <2>2
<1>14. faults = 0 => dead' = <<>> /\ ~Served(w)
  BY <1>1, <1>3, <1>4, <1>6 DEF QueueInv, ServedOK
<1> QED BY <1>1, <1>4, <1>5, <1>10, <1>11, <1>12, <1>13, <1>14, VerdictStep

(* What remains of the connections that were given up.                     *)
LEMMA LateRest ==
  ASSUME NEW d \in Seq(Requests), NEW c \in DOMAIN d
  PROVE  \A i \in DOMAIN RemoveAt(d, c) : \E j \in DOMAIN d : RemoveAt(d, c)[i] = d[j]
<1>0. Len(d) \in Nat /\ DOMAIN d = 1 .. Len(d) /\ c \in 1 .. Len(d)
  BY LenProperties
<1> DEFINE e == RemoveAt(d, c)
           s == SubSeq(d, 1, c - 1)
           t == SubSeq(d, c + 1, Len(d))
           n == Len(d)
<1>1. e = s \o t
  BY DEF RemoveAt, e
<1>2. \A i \in 1 .. n : d[i] \in Requests
  BY <1>0, ElementOfSeq
<1>3. s \in Seq(Requests) /\ Len(s) = c - 1 /\ \A i \in 1 .. c - 1 : s[i] = d[i]
  <2>1. /\ 0 \in 0 .. n /\ c - 1 \in 0 .. n
    BY <1>0
  <2>2. /\ SubSeq(d, 0 + 1, c - 1) \in Seq(Requests)
        /\ Len(SubSeq(d, 0 + 1, c - 1)) = (c - 1) - 0
        /\ \A i \in 1 .. (c - 1) - 0 : SubSeq(d, 0 + 1, c - 1)[i] = d[0 + i]
    BY <2>1, SubSeqFacts
  <2> QED BY <1>0, <2>2
<1>4. t \in Seq(Requests) /\ Len(t) = n - c /\ \A i \in 1 .. n - c : t[i] = d[c + i]
  <2>1. c \in 0 .. n /\ n \in c .. n
    BY <1>0
  <2> QED BY <2>1, SubSeqFacts, Zenon
<1> HIDE DEF e, s, t, n
<1>5. /\ DOMAIN e = 1 .. Len(s) + Len(t)
      /\ \A i \in 1 .. Len(s) + Len(t) : e[i] = IF i <= Len(s) THEN s[i] ELSE t[i - Len(s)]
  <2>1. /\ e \in Seq(Requests) /\ Len(e) = Len(s) + Len(t)
        /\ \A i \in 1 .. Len(s) + Len(t) : e[i] = IF i <= Len(s) THEN s[i] ELSE t[i - Len(s)]
    <3>1. s \in Seq(Requests) /\ t \in Seq(Requests)
      BY <1>3, <1>4
    <3> QED BY <1>1, <3>1, ConcatProperties, Zenon
  <2> QED BY <2>1, LenProperties
<1>6. n \in Nat /\ c \in 1 .. n /\ DOMAIN d = 1 .. n
  BY <1>0 DEF n
<1> SUFFICES ASSUME NEW i \in DOMAIN e PROVE \E j \in DOMAIN d : e[i] = d[j]
  BY DEF e
<1>7. i \in 1 .. (c - 1) + (n - c)
  BY <1>3, <1>4, <1>5
<1>8. CASE i <= c - 1
  <2>1. i \in 1 .. c - 1 /\ i \in DOMAIN d
    BY <1>6, <1>7, <1>8
  <2>2. e[i] = s[i]
    BY <1>3, <1>4, <1>5, <1>7, <1>8
  <2> QED BY <1>3, <2>1, <2>2
<1>9. CASE ~(i <= c - 1)
  <2>1. i - (c - 1) \in 1 .. n - c /\ c + (i - (c - 1)) \in DOMAIN d
    BY <1>6, <1>7, <1>9
  <2>2. e[i] = t[i - (c - 1)]
    BY <1>3, <1>4, <1>5, <1>7, <1>9
  <2> QED BY <1>4, <2>1, <2>2
<1> QED BY <1>8, <1>9

LEMMA ServesLateStep ==
  ASSUME PipelineInv, QueueInv, NEW c \in DOMAIN dead, NEW ok \in BOOLEAN, ServesLate(c, ok)
  PROVE  QueueInv' /\ [Queue!Next]_Queue!vars /\ CommitsNext
<1> DEFINE d == dead[c]
<1> PICK w : w = Head(d)
  OBVIOUS
<1> DEFINE rest == IF ok THEN Tail(d) ELSE <<>>
<1>1. /\ IF ok THEN TakesEffect(w) ELSE IsRefused(w)
      /\ dead' = IF rest = <<>> THEN RemoveAt(dead, c) ELSE [dead EXCEPT ![c] = rest]
      /\ UNCHANGED <<owner, disk, remote, told, faults>>
  BY DEF ServesLate
<1>2. dead \in Seq(Requests) /\ d \in Seq(Writes) /\ d # <<>>
  <2>1. dead \in Seq(Requests)
    BY DEF PipelineInv, TypeOK
  <2>2. c \in 1 .. Len(dead)
    BY <2>1, LenProperties
  <2> QED BY <2>1, <2>2, ElementOfSeq DEF Requests
<1>3. /\ Len(d) \in Nat \ {0} /\ DOMAIN d = 1 .. Len(d) /\ w = d[1] /\ w \in Writes
      /\ Tail(d) \in Seq(Writes) /\ DOMAIN Tail(d) = 1 .. Len(d) - 1
      /\ \A i \in 1 .. Len(d) - 1 : Tail(d)[i] = d[i + 1]
  BY <1>2, EmptySeq, LenProperties, HeadTailProperties
<1>4. \A b \in DOMAIN dead : \A k \in DOMAIN dead[b] :
        /\ dead[b][k] \in DOMAIN owner
        /\ \A x \in Before(dead[b][k]) :
             Contains(applied, x) \/ \E l \in 1 .. k - 1 : dead[b][l] = x
  BY DEF QueueInv, LateInOrder
<1>5. \A k \in 1 .. Len(d) :
        /\ d[k] \in DOMAIN owner
        /\ \A x \in Before(d[k]) : Contains(applied, x) \/ \E l \in 1 .. k - 1 : d[l] = x
  BY <1>3, <1>4
<1>6. w \in DOMAIN owner /\ \A x \in Before(w) : Contains(applied, x)
  <2>1. 1 \in 1 .. Len(d) /\ 1 .. 1 - 1 = {}
    BY <1>3
  <2> QED BY <1>3, <1>5, <2>1, Zenon
<1>7. /\ applied' \in Seq(Writes) /\ \A x : Contains(applied, x) => Contains(applied', x)
      /\ ok => Contains(applied', w)
  <2>1. TypeOK
    BY DEF PipelineInv
  <2> QED BY <1>1, <1>3, <2>1, VerdictFacts, Zenon
<1>8. \A i \in DOMAIN dead' :
        (\E j \in DOMAIN dead : dead'[i] = dead[j]) \/ (ok /\ dead'[i] = Tail(d))
  <2> SUFFICES ASSUME NEW i \in DOMAIN dead'
               PROVE  (\E j \in DOMAIN dead : dead'[i] = dead[j]) \/ (ok /\ dead'[i] = Tail(d))
    OBVIOUS
  <2>1. CASE rest = <<>>
    <3>1. dead' = RemoveAt(dead, c)
      BY <1>1, <2>1
    <3> QED BY <1>2, <3>1, LateRest
  <2>2. CASE rest # <<>>
    <3>1. ok /\ rest = Tail(d)
      BY <2>2
    <3>2. dead' = [dead EXCEPT ![c] = rest]
      BY <1>1, <2>2
    <3> HIDE DEF rest, d
    <3> QED BY <3>1, <3>2
  <2> QED BY <2>1, <2>2
<1>9. ASSUME NEW i \in DOMAIN dead', NEW k \in DOMAIN dead'[i]
      PROVE  /\ dead'[i][k] \in DOMAIN owner
             /\ \A x \in Before(dead'[i][k]) :
                  Contains(applied', x) \/ \E l \in 1 .. k - 1 : dead'[i][l] = x
  <2>1. CASE \E j \in DOMAIN dead : dead'[i] = dead[j]
    BY <1>4, <1>7, <2>1
  <2>2. CASE ok /\ dead'[i] = Tail(d)
    <3>1. k \in 1 .. Len(d) - 1 /\ k + 1 \in 1 .. Len(d)
      BY <1>3, <2>2
    <3>2. dead'[i][k] = d[k + 1]
      BY <1>3, <2>2, <3>1
    <3>3. /\ d[k + 1] \in DOMAIN owner
          /\ \A x \in Before(d[k + 1]) :
               Contains(applied, x) \/ \E l \in 1 .. (k + 1) - 1 : d[l] = x
      BY <1>5, <3>1
    <3>4. ASSUME NEW x, NEW l \in 1 .. (k + 1) - 1, d[l] = x
          PROVE  x = w \/ \E m \in 1 .. k - 1 : Tail(d)[m] = x
      <4>1. CASE l = 1
        BY <1>3, <3>4, <4>1
      <4>2. CASE l # 1
        <5>1. l - 1 \in 1 .. k - 1 /\ l - 1 \in 1 .. Len(d) - 1 /\ (l - 1) + 1 = l
          <6>1. Len(d) \in Nat
            BY <1>3
          <6> HIDE DEF d
          <6> QED BY <3>1, <4>2, <6>1
        <5> QED BY <1>3, <3>4, <5>1
      <4> QED BY <4>1, <4>2
    <3> QED BY <1>7, <2>2, <3>2, <3>3, <3>4, Zenon
  <2> QED BY <1>8, <2>1, <2>2
<1>10. LateInOrder'
  <2>1. owner' = owner /\ disk' = disk
    BY <1>1
  <2> QED BY <1>9, <2>1 DEF LateInOrder, Before, OnDisk
<1>11. \A i \in DOMAIN remote'.down : ~remote'.down[i].ok => i = Len(remote'.down)
  BY <1>1 DEF QueueInv, ServedOK
<1>12. faults # 0
  BY EmptySeq DEF QueueInv, ServedOK
<1> QED BY <1>1, <1>6, <1>7, <1>10, <1>11, <1>12, VerdictStep

-----------------------------------------------------------------------------
LEMMA QueueStep ==
  PipelineInv /\ QueueInv /\ [Next]_vars =>
    QueueInv' /\ [Queue!Next]_Queue!vars /\ CommitsNext
<1> SUFFICES ASSUME PipelineInv, QueueInv, [Next]_vars
             PROVE  QueueInv' /\ [Queue!Next]_Queue!vars /\ CommitsNext
  OBVIOUS
<1> DEFINE Goal == QueueInv' /\ [Queue!Next]_Queue!vars /\ CommitsNext
<1> SUFFICES Goal
  OBVIOUS
<1> HIDE DEF Goal
<1>1. currentUser \in Users /\ remote \in Remote
  BY DEF PipelineInv, TypeOK
<1>2. ASSUME Unseen, UNCHANGED <<dead, again, refused, faults>>, remote'.down = remote.down
      PROVE  Goal
  BY <1>2, QuietKeeps, UnseenStutters DEF Goal, CommitsNext
<1>3. ASSUME Unseen, UNCHANGED <<again, refused>>, dead' = Abandon(remote),
             faults' = faults + 1, remote'.down = <<>>
      PROVE  Goal
  BY <1>3, FaultKeeps, UnseenStutters DEF Goal, CommitsNext
<1>4. CASE CredentialsArrive
  <2>1. remote'.down = remote.down
    BY <1>1, <1>4 DEF CredentialsArrive, Remote
  <2> QED BY <1>2, <1>4, <2>1 DEF CredentialsArrive, serverVars, Unseen
<1>5. CASE BackoffElapses
  <2>1. remote'.down = remote.down
    BY <1>1, <1>5 DEF BackoffElapses, StartWriteStream, Remote
  <2> QED BY <1>2, <1>5, <2>1 DEF BackoffElapses, serverVars, Unseen
<1>6. CASE OnWriteStreamHandshakeComplete
  <2>1. remote'.down = remote.down
    BY <1>1, <1>6 DEF OnWriteStreamHandshakeComplete, Remote
  <2> QED BY <1>2, <1>6, <2>1 DEF OnWriteStreamHandshakeComplete, serverVars, Unseen
<1>7. CASE AnswersHandshake
  <2>1. remote'.down = remote.down
    BY <1>1, <1>7 DEF AnswersHandshake, Remote
  <2> QED BY <1>2, <1>7, <2>1 DEF AnswersHandshake, serverVars, Unseen
<1>8. CASE IdleTimeout
  <2>1. remote'.down = <<>>
    BY <1>1, <1>8, ClosedFacts DEF IdleTimeout
  <2>2. remote.down = <<>>
    BY <1>8, FirstAnswered DEF IdleTimeout
  <2> QED BY <1>2, <1>8, <2>1, <2>2 DEF IdleTimeout, serverVars, Unseen
<1>9. CASE OnWriteStreamClose
  <2>1. remote'.down = <<>>
    <3>1. Closed(remote, "error").down = <<>> /\ Closed(remote, "error") \in Remote
          /\ RemoteOK(Closed(remote, "error"), disk[currentUser])
      BY <1>1, ClosedFacts, ClosedKeeps DEF PipelineInv
    <3>2. remote' = StartIfNeeded(Closed(remote, "error"))
      BY <1>9 DEF OnWriteStreamClose
    <3> QED BY <3>1, <3>2, StartKeeps
  <2> QED BY <1>3, <1>9, <2>1 DEF OnWriteStreamClose, serverVars, Unseen, Fault
<1>10. ASSUME NEW u \in Users, HandleCredentialChange(u) PROVE Goal
  <2>1. remote'.down = <<>>
    <3>1. disk[u] \in Seq(Batch) /\ Sorted(disk[u])
      BY Rows
    <3> QED BY <1>1, <1>10, <3>1, RestartKeeps DEF HandleCredentialChange
  <2> QED BY <1>3, <1>10, <2>1 DEF HandleCredentialChange, serverVars, Unseen, Fault
<1>11. CASE Crash
  <2>1. remote'.down = <<>>
    <3>1. disk[currentUser] \in Seq(Batch) /\ Sorted(disk[currentUser])
      BY <1>1, Rows
    <3>2. NewRemote \in Remote
      BY EmptySeq DEF NewRemote, Remote
    <3> QED BY <1>11, <3>1, <3>2, RestartKeeps DEF Crash
  <2> QED BY <1>3, <1>11, <2>1 DEF Crash, serverVars, Unseen, Fault
<1>12. CASE WriteMutations
  BY <1>1, <1>12, HandOverStep DEF Queue!Next, Commits!Next, CommitsNext, Goal
<1>13. CASE OnWriteStreamMutationResult
  BY <1>1, <1>13, MutationResultStep DEF Queue!Next, Goal
<1>14. CASE HandleWriteError
  BY <1>1, <1>14, WriteErrorStep DEF Queue!Next, Goal
<1>15. ASSUME NEW ok \in BOOLEAN, Serves(ok) PROVE Goal
  BY <1>15, ServesStep DEF Goal
<1>16. ASSUME NEW c \in DOMAIN dead, NEW ok \in BOOLEAN, ServesLate(c, ok) PROVE Goal
  BY <1>16, ServesLateStep DEF Goal
<1>17. CASE UNCHANGED vars
  BY <1>2, <1>17 DEF vars, Unseen
<1>18. CASE StreamStep
  BY <1>4, <1>5, <1>6, <1>13, <1>14, <1>18 DEF StreamStep
<1>19. CASE ServiceStep
  BY <1>7, <1>15, <1>19 DEF ServiceStep
<1> QED BY <1>8, <1>9, <1>10, <1>11, <1>12, <1>16, <1>17, <1>18, <1>19 DEF Next

(* Tables hold what has no verdict, in order, and nothing that may still   *)
(* arrive overtakes them.                                                  *)
THEOREM QueueInvariance == Spec => []QueueInv
<1>1. PipelineInv /\ QueueInv /\ [Next]_vars => QueueInv'
  BY QueueStep
<1> QED BY <1>1, QueueInvInit, PipelineInvariance, PTL DEF Spec

(* The pipeline is the queue the models of the app rely on: with reused    *)
(* ids, lost connections, user changes and restarts, writes take effect in *)
(* order and leave with a true verdict.                                    *)
THEOREM QueueRefinement == Spec => ImplementsQueue
<1> QED BY QueueInit, QueueStep, QueueInvariance, PipelineInvariance, PTL
        DEF Spec, ImplementsQueue, Queue!Spec

(* The pipeline is also the queue Comments uses: the service carries out or*)
(* refuses the oldest write of a user that is left, once, and only what a  *)
(* lost connection still delivers takes effect after a refusal.            *)
THEOREM CommitsRefinement == Spec => ImplementsCommits
<1>1. PipelineInv /\ QueueInv /\ [Next]_vars => [Commits!Next \/ Belated]_Commits!vars
  BY QueueStep DEF CommitsNext
<1> QED BY <1>1, CommitsInit, QueueInvariance, PipelineInvariance, PTL
        DEF Spec, ImplementsCommits

(* Only a fault makes a write take effect twice, or although it is refused.*)
THEOREM ExactlyOnceTheorem == Spec => []ExactlyOnceUndisturbed
<1>1. QueueInv => ExactlyOnceUndisturbed
  BY DEF QueueInv, ServedOK, ExactlyOnceUndisturbed
<1> QED BY <1>1, QueueInvariance, PTL
=============================================================================
