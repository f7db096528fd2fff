--------------------------- MODULE PostingProofs ---------------------------
(***************************************************************************)
(* Proofs about Posting, for every number of users, posts, pictures and    *)
(* outstanding calls.                                                      *)
(***************************************************************************)
EXTENDS Posting, FiniteSetTheorems, TLAPS

(* The ways a submission may continue.                                     *)
LEMMA HelperResult ==
  ASSUME NEW p \in Posts, NEW j \in Job, NEW k \in AddImageHelper(p, j),
         currentUser \in Users \union {NoUser},
         authUser \in Users \union {NoUser}
  PROVE  /\ k \in Job
         /\ k.urls = j.urls
         /\ k.poster = j.poster
         /\ k.live = j.live
         /\ k.lost = j.lost
         /\ k.stage \in {"stalled", "put", "queued"}
         /\ k.stage = "put" => k.account \in Users /\ Len(j.urls) # ImageCount[p]
         /\ k.stage = "queued" => currentUser # NoUser /\ Len(j.urls) = ImageCount[p]
<1>1. CASE Len(j.urls) = ImageCount[p]
  <2>1. k = AddPost(j)
    BY <1>1 DEF AddImageHelper
  <2> QED BY <1>1, <2>1 DEF AddPost, Stalled, Job, Stages
<1>2. CASE Len(j.urls) # ImageCount[p]
  <2>1. CASE k = Stalled(j)
    BY <2>1 DEF Stalled, Job, Stages
  <2>2. CASE \E u \in {currentUser} \ {NoUser} : k = [j EXCEPT !.stage = "put", !.account = u]
    <3>1. PICK u \in {currentUser} \ {NoUser} : k = [j EXCEPT !.stage = "put", !.account = u]
      BY <2>2
    <3> QED BY <1>2, <3>1 DEF Job, Stages
  <2> QED BY <1>2, <2>1, <2>2 DEF AddImageHelper
<1> QED BY <1>1, <1>2

(* A query's answer lists posts.                                           *)
LEMMA FoundType ==
  ASSUME NEW S \in SUBSET Posts, NEW found \in SetToSeqs(S)
  PROVE  found \in Seq(Posts)
<1>1. IsFiniteSet(S)
  BY ConstantsAssumption, FS_Subset
<1>2. Cardinality(S) \in Nat
  BY <1>1, FS_CardinalityType
<1>3. found \in [1 .. Cardinality(S) -> S]
  BY DEF SetToSeqs
<1> QED BY <1>2, <1>3

LEMMA FreeCallType == FreeCall \in Call
BY DEF FreeCall, Call

LEMMA FreshCallType ==
  ASSUME NEW op \in {"load", "delete"}, NEW u \in Users \union {NoUser}
  PROVE  /\ FreshCall(op, u) \in Call
         /\ FreshCall(op, u).live = TRUE
         /\ FreshCall(op, u).op = op
         /\ FreshCall(op, u).account = u
BY FreeCallType DEF FreshCall, Call

(* Adding to the end of a list.                                            *)
LEMMA RowAppended ==
  ASSUME NEW S, NEW s \in Seq(S), NEW e \in S
  PROVE  Range(Append(s, e)) = Range(s) \union {e}
<1>1. /\ \A i \in DOMAIN Append(s, e) : (i \in DOMAIN s /\ Append(s, e)[i] = s[i]) \/ Append(s, e)[i] = e
      /\ \A i \in DOMAIN s : i \in DOMAIN Append(s, e) /\ Append(s, e)[i] = s[i]
      /\ Len(s) + 1 \in DOMAIN Append(s, e) /\ Append(s, e)[Len(s) + 1] = e
  OBVIOUS
<1>2. Range(Append(s, e)) \subseteq Range(s) \union {e}
  BY <1>1 DEF Range
<1>3. Range(s) \union {e} \subseteq Range(Append(s, e))
  BY <1>1 DEF Range
<1> QED BY <1>2, <1>3

(* Removing a row of a list leaves a list.                                 *)
LEMMA RemoveAtType ==
  ASSUME NEW s \in Seq(Posts), NEW i \in DOMAIN s
  PROVE  RemoveAt(s, i) \in Seq(Posts)
<1>1. SubSeq(s, 1, i - 1) \in Seq(Posts)
  OBVIOUS
<1>2. SubSeq(s, i + 1, Len(s)) \in Seq(Posts)
  OBVIOUS
<1> QED BY <1>1, <1>2 DEF RemoveAt

-----------------------------------------------------------------------------
(***************************************************************************)
(* The upload chain and the documents it leads to.                         *)
(***************************************************************************)
LEMMA ChainInit == Init => ChainInv
<1> SUFFICES ASSUME Init PROVE ChainInv
  OBVIOUS
<1>1. IdleJob \in Job
  BY DEF IdleJob, Job, Stages
<1>2. TypeOK
  <2>1. posts \in Seq(Posts)
    BY DEF Init
  <2>2. calls \in [Calls -> Call]
    BY FreeCallType DEF Init
  <2>3. job \in [Posts -> Job] /\ firestore \in [Posts -> Doc \union {NoDoc}]
    BY <1>1 DEF Init
  <2> QED BY <2>1, <2>2, <2>3 DEF Init, TypeOK
<1>3. ASSUME NEW p \in Posts PROVE ChainOK(p)
  BY DEF Init, ChainOK, IdleJob, InFlight, Written, InPipeline
<1> QED BY <1>2, <1>3 DEF ChainInv

(* A step that leaves the chains, Storage and the documents alone.         *)
LEMMA ChainFrame ==
  ASSUME ChainInv, UNCHANGED <<job, serverVars>>
  PROVE  \A p \in Posts : ChainOK(p)'
BY DEF ChainInv, ChainOK, NextBlob, Post, serverVars

(* A step that changes only the chain of p, and adds to Storage.           *)
LEMMA ChainLocal ==
  ASSUME ChainInv, NEW p \in Posts, NEW k, job' = [job EXCEPT ![p] = k],
         storage \subseteq storage',
         NEW doc, firestore' = [firestore EXCEPT ![p] = doc], ChainOK(p)'
  PROVE  \A q \in Posts : ChainOK(q)'
<1> SUFFICES ASSUME NEW q \in Posts, q # p PROVE ChainOK(q)'
  OBVIOUS
<1>1. job'[q] = job[q] /\ firestore'[q] = firestore[q]
  BY DEF ChainInv, TypeOK
<1> QED BY <1>1 DEF ChainInv, ChainOK, NextBlob, Post

(* Steps of sessions and of the feed, which leave the chains alone.        *)
LEMMA FeedSteps ==
  ASSUME ChainInv,
         \/ \E u \in Users, c \in Calls : SignIn(u, c)
         \/ \E u \in LateUsers : LateSignIn(u) \/ LateLogin(u)
         \/ \E c \in Calls : \/ ReloadFeed(c) \/ LoadRead(c) \/ LoadReply(c)
                             \/ LoadFails(c) \/ DeleteFails(c) \/ DeleteReply(c)
         \/ \E c \in Calls, i \in DOMAIN posts, M \in Searches : SwipeDelete(c, i, M)
  PROVE  ChainInv'
<1> USE DEF ChainInv, TypeOK, sessionVars, serverVars, feedVars
<1>1. ASSUME NEW u \in Users, NEW c \in Calls, SignIn(u, c) PROVE ChainInv'
  <2>1. FreshCall("load", u) \in Call
    BY FreshCallType
  <2>2. posts' \in Seq(Posts)
    BY <1>1 DEF SignIn
  <2>3. calls' \in [Calls -> Call]
    BY <1>1, <2>1 DEF SignIn
  <2> QED BY <1>1, <2>2, <2>3, ChainFrame DEF SignIn
<1>2. ASSUME NEW u \in LateUsers, LateSignIn(u) \/ LateLogin(u) PROVE ChainInv'
  BY <1>2, ChainFrame, ConstantsAssumption DEF LateSignIn, LateLogin
<1>3. ASSUME NEW c \in Calls, ReloadFeed(c) PROVE ChainInv'
  <2>1. FreshCall("load", authUser) \in Call
    BY FreshCallType
  <2>2. posts' \in Seq(Posts)
    BY <1>3 DEF ReloadFeed
  <2>3. calls' \in [Calls -> Call]
    BY <1>3, <2>1 DEF ReloadFeed
  <2> QED BY <1>3, <2>2, <2>3, ChainFrame DEF ReloadFeed
<1>4. ASSUME NEW c \in Calls, LoadRead(c) PROVE ChainInv'
  <2>1. PICK M \in Searches : \E found \in SetToSeqs(LocalView \intersect M) :
          calls' = [calls EXCEPT ![c].stage = "ok", ![c].result = found]
    BY <1>4 DEF LoadRead
  <2>2. PICK found \in SetToSeqs(LocalView \intersect M) :
          calls' = [calls EXCEPT ![c].stage = "ok", ![c].result = found]
    BY <2>1
  <2>3. LocalView \intersect M \in SUBSET Posts
    BY DEF LocalView
  <2>4. found \in Seq(Posts)
    BY <2>3, FoundType
  <2>5. [calls[c] EXCEPT !.stage = "ok", !.result = found] \in Call
    BY <2>4 DEF Call
  <2>6. calls' = [calls EXCEPT ![c] = [calls[c] EXCEPT !.stage = "ok", !.result = found]]
    BY <2>2
  <2>7. calls' \in [Calls -> Call]
    BY <2>5, <2>6
  <2> QED BY <1>4, <2>7, ChainFrame DEF LoadRead
<1>5. ASSUME NEW c \in Calls, LoadReply(c) PROVE ChainInv'
  <2>1. calls[c].result \in Seq(Posts)
    BY DEF Call
  <2>2. posts' \in Seq(Posts)
    BY <1>5, <2>1 DEF LoadReply
  <2> QED BY <1>5, <2>2, ChainFrame, FreeCallType DEF LoadReply
<1>6. ASSUME NEW c \in Calls, LoadFails(c) PROVE ChainInv'
  BY <1>6, ChainFrame, FreeCallType DEF LoadFails
<1>7. ASSUME NEW c \in Calls, DeleteFails(c) PROVE ChainInv'
  <2>1. calls' \in [Calls -> Call]
    BY <1>7, ZenonT(40) DEF DeleteFails, Call
  <2> QED BY <1>7, <2>1, ChainFrame DEF DeleteFails
<1>8. ASSUME NEW c \in Calls, DeleteReply(c) PROVE ChainInv'
  <2>1. posts' \in Seq(Posts)
    BY <1>8, RemoveAtType DEF DeleteReply
  <2> QED BY <1>8, <2>1, ChainFrame, FreeCallType DEF DeleteReply
<1>9. ASSUME NEW c \in Calls, NEW i \in DOMAIN posts, NEW M \in Searches, SwipeDelete(c, i, M)
      PROVE  ChainInv'
  <2>1. PICK index \in 1 .. i :
          calls' = [calls EXCEPT ![c] = [FreshCall("delete", authUser)
                                           EXCEPT !.post = posts[i], !.index = index]]
    BY <1>9 DEF SwipeDelete
  <2>2. index \in Nat /\ posts[i] \in Posts
    OBVIOUS
  <2>3. FreshCall("delete", authUser) \in Call
    BY FreshCallType
  <2>4. [FreshCall("delete", authUser) EXCEPT !.post = posts[i], !.index = index] \in Call
    BY <2>2, <2>3 DEF Call
  <2>5. calls' \in [Calls -> Call]
    BY <2>1, <2>4
  <2> QED BY <1>9, <2>5, ChainFrame DEF SwipeDelete
<1> QED BY <1>1, <1>2, <1>3, <1>4, <1>5, <1>6, <1>7, <1>8, <1>9

(* Dropping the feed leaves calls of the right type.                       *)
LEMMA DropFeedType ==
  ASSUME ChainInv, DropFeed
  PROVE  /\ posts' \in Seq(Posts)
         /\ calls' \in [Calls -> Call]
         /\ overlapped' \in BOOLEAN
<1>1. posts' \in Seq(Posts)
  BY DEF DropFeed
<1>2. ASSUME NEW c \in Calls PROVE [calls[c] EXCEPT !.live = FALSE] \in Call
  BY DEF ChainInv, TypeOK, Call
<1> QED BY <1>1, <1>2, FreeCallType DEF DropFeed

LEMMA SignOutStep == ASSUME ChainInv, SignOut PROVE ChainInv'
<1> USE DEF ChainInv, TypeOK, serverVars
<1>1. ASSUME NEW p \in Posts PROVE [job[p] EXCEPT !.live = FALSE] \in Job
  BY DEF Job
<1>2. TypeOK'
  BY <1>1, DropFeedType DEF SignOut, DropFeed
<1>3. ASSUME NEW p \in Posts PROVE ChainOK(p)'
  <2>1. job'[p] = [job[p] EXCEPT !.live = FALSE] /\ job[p] \in Job
    BY DEF SignOut
  <2>2. /\ job'[p].stage = job[p].stage
        /\ job'[p].poster = job[p].poster
        /\ job'[p].account = job[p].account
        /\ job'[p].urls = job[p].urls
        /\ job'[p].lost = job[p].lost
    BY <2>1 DEF Job
  <2>3. storage' = storage /\ firestore' = firestore
    BY DEF SignOut
  <2> QED BY <2>2, <2>3 DEF ChainOK, NextBlob, Post
<1> QED BY <1>2, <1>3

LEMMA RelaunchStep == ASSUME ChainInv, Relaunch PROVE ChainInv'
<1> USE DEF ChainInv, TypeOK, serverVars
<1> DEFINE dead(p) == [job[p] EXCEPT !.live = FALSE,
                         !.stage = IF @ \in InFlight THEN "stalled" ELSE @]
<1>1. ASSUME NEW p \in Posts
      PROVE  /\ dead(p) \in Job
             /\ dead(p).stage = IF job[p].stage \in InFlight THEN "stalled" ELSE job[p].stage
             /\ dead(p).poster = job[p].poster
             /\ dead(p).account = job[p].account
             /\ dead(p).urls = job[p].urls
             /\ dead(p).lost = job[p].lost
  BY DEF Job, Stages
<1>2. \A p \in Posts : job'[p] = dead(p)
  BY DEF Relaunch
<1>3. TypeOK'
  <2>1. job' \in [Posts -> Job]
    BY <1>1 DEF Relaunch
  <2>2. /\ posts' \in Seq(Posts)
        /\ calls' \in [Calls -> Call]
        /\ overlapped' \in BOOLEAN
    BY DropFeedType DEF Relaunch
  <2>3. UNCHANGED <<authUser, storage, firestore>> /\ currentUser' = NoUser /\ viewer' = NoUser
    BY DEF Relaunch, DropFeed
  <2> QED BY <2>1, <2>2, <2>3
<1>4. ASSUME NEW p \in Posts PROVE ChainOK(p)'
  <2>1. storage' = storage /\ firestore' = firestore
    BY DEF Relaunch
  <2>2. ChainOK(p)
    OBVIOUS
  <2>3. job'[p] = dead(p)
    BY <1>2
  <2> HIDE DEF dead
  <2>4. CASE job[p].stage \in InFlight
    BY <1>1, <2>1, <2>2, <2>3, <2>4 DEF ChainOK, InFlight, Written, InPipeline, Post
  <2>5. CASE job[p].stage \notin InFlight
    BY <1>1, <2>1, <2>2, <2>3, <2>5 DEF ChainOK, InFlight, Written, InPipeline, Post
  <2> QED BY <2>4, <2>5
<1> QED BY <1>3, <1>4

LEMMA SubmitStep ==
  ASSUME ChainInv, NEW p \in Posts, Submit(p) PROVE ChainInv'
<1> USE DEF ChainInv, TypeOK, serverVars, sessionVars
<1> DEFINE start == [IdleJob EXCEPT !.poster = currentUser, !.live = TRUE]
<1>1. PICK k \in AddImageHelper(p, start) : job' = [job EXCEPT ![p] = k]
  BY DEF Submit
<1>2. IdleJob \in Job
  BY DEF IdleJob, Job, Stages
<1>3. start \in Job /\ start.poster = currentUser /\ start.urls = <<>> /\ ~start.lost
  BY <1>2 DEF Job, IdleJob
<1>4. /\ k \in Job
      /\ k.urls = <<>>
      /\ k.poster = currentUser
      /\ ~k.lost
      /\ k.stage \in {"stalled", "put", "queued"}
      /\ k.stage = "put" => k.account \in Users
      /\ k.stage # "queued"
  <2>1. Len(<<>>) # ImageCount[p]
    BY ConstantsAssumption
  <2>2. Len(start.urls) # ImageCount[p]
    BY <1>3, <2>1
  <2> HIDE DEF start
  <2>3. /\ k \in Job
        /\ k.urls = start.urls
        /\ k.poster = start.poster
        /\ k.lost = start.lost
        /\ k.stage \in {"stalled", "put", "queued"}
        /\ k.stage = "put" => k.account \in Users
        /\ k.stage = "queued" => Len(start.urls) = ImageCount[p]
    BY <1>1, <1>3, HelperResult
  <2> QED BY <1>3, <2>2, <2>3
<1>5. TypeOK'
  BY <1>1, <1>4 DEF Submit
<1>6. job'[p] = k /\ firestore[p] = NoDoc
  BY <1>1 DEF Submit, ChainOK
<1>7. ImageCount[p] \in Nat \ {0} /\ currentUser \in Users
  BY ConstantsAssumption DEF Submit
<1>8. ChainOK(p)'
  <2>1. /\ job'[p].stage \in InFlight => job'[p].account \in Users
        /\ Len(job'[p].urls) < ImageCount[p]
    BY <1>4, <1>6, <1>7 DEF InFlight
  <2>2. firestore'[p] = NoDoc
    BY <1>6 DEF Submit
  <2> QED BY <1>4, <1>6, <1>7, <2>1, <2>2 DEF ChainOK, Written, InPipeline
<1>9. firestore' = [firestore EXCEPT ![p] = NoDoc]
  BY <1>6 DEF Submit
<1>10. \A q \in Posts : ChainOK(q)'
  BY <1>1, <1>8, <1>9, ChainLocal DEF Submit
<1> QED BY <1>5, <1>10

LEMMA PutDoneStep ==
  ASSUME ChainInv, NEW p \in Posts, PutDone(p) PROVE ChainInv'
<1> USE DEF ChainInv, TypeOK, feedVars, sessionVars
<1> DEFINE k == [job[p] EXCEPT !.stage = "url"]
<1>1. /\ k \in Job
      /\ k.stage = "url"
      /\ k.poster = job[p].poster
      /\ k.account = job[p].account
      /\ k.urls = job[p].urls
      /\ k.lost = job[p].lost
  BY DEF Job, Stages
<1>2. job' = [job EXCEPT ![p] = k]
  BY DEF PutDone
<1>3. ChainOK(p) /\ job[p].account \in Users /\ ~job[p].lost
  BY DEF PutDone, ChainOK, InFlight, Written, InPipeline
<1>4. NextBlob(p) \in Blob
  BY <1>3 DEF NextBlob, Blob, Job
<1>5. TypeOK'
  BY <1>1, <1>2, <1>4 DEF PutDone
<1>6. NextBlob(p)' = NextBlob(p)
  BY <1>1, <1>2 DEF NextBlob
<1>7. firestore'[p] = NoDoc /\ firestore' = [firestore EXCEPT ![p] = NoDoc]
  BY <1>3 DEF PutDone, ChainOK
<1> HIDE DEF k
<1>8. ChainOK(p)'
  BY <1>1, <1>2, <1>3, <1>6, <1>7 DEF ChainOK, InFlight, Written, InPipeline, PutDone
<1>9. \A q \in Posts : ChainOK(q)'
  BY <1>2, <1>7, <1>8, ChainLocal DEF PutDone
<1> QED BY <1>5, <1>9

(* A submission that only changes its stage: a chain that stalls, a write  *)
(* that is refused or acknowledged.                                        *)
LEMMA StageStep ==
  ASSUME ChainInv, NEW p \in Posts, UploadFails(p) \/ Acknowledge(p) \/ Reject(p)
  PROVE  ChainInv'
<1> USE DEF ChainInv, TypeOK, serverVars, feedVars, sessionVars
<1>1. PICK s \in {"stalled", "stored", "rejected"} :
        /\ job' = [job EXCEPT ![p] = [job[p] EXCEPT !.stage = s]]
        /\ s # "stalled" => job[p].stage \in InPipeline
        /\ s = "stalled" => job[p].stage \in InFlight
  BY DEF UploadFails, Acknowledge, Reject, Serving, Stalled
<1> DEFINE k == [job[p] EXCEPT !.stage = s]
<1>2. /\ k \in Job
      /\ k.stage = s
      /\ k.poster = job[p].poster
      /\ k.urls = job[p].urls
      /\ k.lost = job[p].lost
  BY DEF Job, Stages
<1>3. UNCHANGED <<serverVars, feedVars, sessionVars>>
  BY DEF UploadFails, Acknowledge, Reject
<1>4. TypeOK'
  BY <1>1, <1>2, <1>3
<1>5. job' = [job EXCEPT ![p] = k]
  BY <1>1
<1> HIDE DEF k
<1>6. ChainOK(p) /\ job'[p] = k /\ firestore' = [firestore EXCEPT ![p] = firestore[p]]
  BY <1>3, <1>5
<1>7. ChainOK(p)'
  <2>1. CASE s = "stalled"
    BY <1>1, <1>2, <1>3, <1>6, <2>1 DEF ChainOK, InFlight, InPipeline, Written, Post
  <2>2. CASE s # "stalled"
    BY <1>1, <1>2, <1>3, <1>6, <2>2 DEF ChainOK, InFlight, InPipeline, Written, Post
  <2> QED BY <2>1, <2>2
<1>8. \A q \in Posts : ChainOK(q)'
  BY <1>3, <1>5, <1>6, <1>7, ChainLocal
<1> QED BY <1>4, <1>8

LEMMA UrlReadyStep ==
  ASSUME ChainInv, NEW p \in Posts, UrlReady(p) PROVE ChainInv'
<1> USE DEF ChainInv, TypeOK, serverVars, sessionVars
<1> DEFINE more == [job[p] EXCEPT !.urls = Append(@, NextBlob(p))]
<1>1. PICK k \in AddImageHelper(p, more) :
        /\ job' = [job EXCEPT ![p] = k]
        /\ posts' = IF k.stage = "queued" /\ k.live THEN <<p>> \o posts ELSE posts
  BY DEF UrlReady
<1>2. /\ ChainOK(p)
      /\ job[p].stage = "url"
      /\ job[p].account \in Users
      /\ ~job[p].lost
      /\ NextBlob(p) \in storage
  BY DEF UrlReady, ChainOK, InFlight, Written, InPipeline
<1>3. NextBlob(p) \in Blob /\ NextBlob(p).post = p /\ NextBlob(p).image = Len(job[p].urls) + 1
  BY <1>2 DEF NextBlob, Blob, Job
<1>4. job[p].urls \in Seq(Blob) /\ Append(job[p].urls, NextBlob(p)) \in Seq(Blob)
  BY <1>3 DEF Job
<1>5. /\ more \in Job
      /\ more.poster = job[p].poster
      /\ more.lost = job[p].lost
      /\ more.urls = Append(job[p].urls, NextBlob(p))
  BY <1>4 DEF Job
<1>6. /\ k \in Job
      /\ k.urls = Append(job[p].urls, NextBlob(p))
      /\ k.poster = job[p].poster
      /\ ~k.lost
      /\ k.stage \in {"stalled", "put", "queued"}
      /\ k.stage = "put" => k.account \in Users /\ Len(k.urls) # ImageCount[p]
      /\ k.stage = "queued" => Len(k.urls) = ImageCount[p]
  <2> HIDE DEF more
  <2>1. /\ k \in Job
        /\ k.urls = more.urls
        /\ k.poster = more.poster
        /\ k.lost = more.lost
        /\ k.stage \in {"stalled", "put", "queued"}
        /\ k.stage = "put" => k.account \in Users /\ Len(more.urls) # ImageCount[p]
        /\ k.stage = "queued" => Len(more.urls) = ImageCount[p]
    BY <1>1, <1>5, HelperResult
  <2> QED BY <1>2, <1>5, <2>1
<1>7. Len(k.urls) = Len(job[p].urls) + 1 /\ Len(k.urls) <= ImageCount[p]
  BY <1>2, <1>4, <1>6, ConstantsAssumption DEF ChainOK, InFlight
<1>8. \A i \in 1 .. Len(k.urls) : k.urls[i] \in storage /\ k.urls[i].post = p /\ k.urls[i].image = i
  BY <1>2, <1>3, <1>4, <1>6, <1>7 DEF ChainOK
<1>9. TypeOK'
  <2>1. posts' \in Seq(Posts)
    BY <1>1
  <2> QED BY <1>1, <1>6, <2>1 DEF UrlReady
<1>10. firestore'[p] = NoDoc /\ firestore' = [firestore EXCEPT ![p] = NoDoc] /\ storage' = storage
  BY <1>2 DEF UrlReady, ChainOK
<1>11. ChainOK(p)'
  <2>1. job'[p] = k
    BY <1>1
  <2>2. ImageCount[p] \in Nat /\ Len(k.urls) \in Nat
    BY <1>6, ConstantsAssumption DEF Job
  <2>3. k.stage \in InFlight => Len(k.urls) < ImageCount[p]
    BY <1>6, <1>7, <2>2 DEF InFlight
  <2> HIDE DEF more
  <2> QED BY <1>2, <1>6, <1>8, <1>10, <2>1, <2>3 DEF ChainOK, InFlight, Written, InPipeline
<1>12. \A q \in Posts : ChainOK(q)'
  BY <1>1, <1>10, <1>11, ChainLocal
<1> QED BY <1>9, <1>12

(* A write that takes effect, for the first time or once more.             *)
LEMMA EffectStep ==
  ASSUME ChainInv, NEW p \in Posts, Commit(p) \/ TakesEffectAgain(p) PROVE ChainInv'
<1> USE DEF ChainInv, TypeOK, feedVars, sessionVars
<1> DEFINE t == IF job[p].stage = "queued" THEN "applied" ELSE job[p].stage
           k == [job[p] EXCEPT !.stage = t]
<1>1. ChainOK(p) /\ job[p] \in Job /\ job[p].stage \in Written
  BY DEF Commit, Serving, TakesEffectAgain, ChainOK, Written
<1>2. t \in {"applied", "stored", "rejected"}
  BY <1>1 DEF Written, InPipeline
<1>3. job' = [job EXCEPT ![p] = k] /\ firestore' = [firestore EXCEPT ![p] = Post(p)]
  BY DEF Commit, TakesEffectAgain
<1> HIDE DEF t
<1>4. /\ k \in Job
      /\ k.stage = t
      /\ k.poster = job[p].poster
      /\ k.urls = job[p].urls
      /\ k.lost = job[p].lost
  BY <1>1, <1>2 DEF Job, Stages
<1>5. Post(p) \in Doc
  BY <1>1, Zenon DEF ChainOK, Doc, Job, Post, Written, InPipeline
<1>6. UNCHANGED <<storage, sessionVars, feedVars>>
  BY DEF Commit, TakesEffectAgain
<1> HIDE DEF k
<1>7. TypeOK'
  BY <1>3, <1>4, <1>5, <1>6
<1>8. job'[p] = k /\ firestore'[p] = Post(p) /\ Post(p)' = Post(p)
  BY <1>3, <1>4 DEF Post
<1>9. ChainOK(p)'
  BY <1>1, <1>2, <1>4, <1>6, <1>8 DEF ChainOK, InFlight, Written, InPipeline
<1>10. \A q \in Posts : ChainOK(q)'
  BY <1>3, <1>6, <1>9, ChainLocal
<1> QED BY <1>7, <1>10

(* The loss of a connection marks the writes it carried, no more.          *)
LEMMA LossMarks ==
  ASSUME ChainInv, ConnectionLost, NEW p \in Posts
  PROVE  /\ job'[p] \in Job
         /\ job'[p].stage = job[p].stage
         /\ job'[p].poster = job[p].poster
         /\ job'[p].account = job[p].account
         /\ job'[p].urls = job[p].urls
         /\ job'[p].live = job[p].live
         /\ job'[p].lost => job[p].lost \/ job[p].stage \in InPipeline
         /\ job[p].stage \notin InPipeline => job'[p].lost = job[p].lost
<1>1. PICK l \in BOOLEAN : job'[p] = [job[p] EXCEPT !.lost = l] /\ l = (job[p].lost \/ (p \in LossyPosts /\ Serving(p)))
  BY DEF ConnectionLost
<1>2. job[p] \in Job
  BY DEF ChainInv, TypeOK
<1> QED BY <1>1, <1>2 DEF Job, Serving

LEMMA LossStep == ASSUME ChainInv, ConnectionLost PROVE ChainInv'
<1>1. DOMAIN job' = Posts /\ \A p \in Posts : job'[p] \in Job
  BY LossMarks DEF ConnectionLost
<1>2. job' \in [Posts -> Job]
  <2>1. job' = [p \in Posts |-> job'[p]]
    BY DEF ConnectionLost
  <2> QED BY <1>1, <2>1
<1>3. UNCHANGED <<sessionVars, storage, firestore, feedVars>>
  BY DEF ConnectionLost, serverVars
<1>4. TypeOK'
  BY <1>2, <1>3 DEF ChainInv, TypeOK, sessionVars, feedVars
<1>5. ASSUME NEW p \in Posts PROVE ChainOK(p)'
  <2>1. ChainOK(p)
    BY DEF ChainInv
  <2>2. NextBlob(p)' = NextBlob(p) /\ Post(p)' = Post(p)
    BY LossMarks DEF NextBlob, Post
  <2> QED BY <1>3, <2>1, <2>2, LossMarks DEF ChainOK, Written
<1> QED BY <1>4, <1>5 DEF ChainInv

(* Another device uploads all the pictures, in order.                      *)
LEMMA RemoteBlobsWhole ==
  ASSUME NEW u \in Users, NEW p \in Posts
  PROVE  /\ RemoteBlobs(u, p) \in Seq(Blob)
         /\ Len(RemoteBlobs(u, p)) = ImageCount[p]
         /\ \A i \in 1 .. ImageCount[p] :
              /\ RemoteBlobs(u, p)[i] \in Blob
              /\ RemoteBlobs(u, p)[i].post = p
              /\ RemoteBlobs(u, p)[i].image = i
<1> DEFINE b == RemoteBlobs(u, p)
<1>1. ImageCount[p] \in Nat
  BY ConstantsAssumption
<1>2. b = [i \in 1 .. ImageCount[p] |-> [folder |-> u, post |-> p, image |-> i]]
  BY DEF RemoteBlobs
<1>3. \A i \in 1 .. ImageCount[p] : [folder |-> u, post |-> p, image |-> i] \in Blob
  BY <1>1 DEF Blob
<1> HIDE DEF b
<1>4. b \in Seq(Blob) /\ Len(b) = ImageCount[p]
  BY <1>1, <1>2, <1>3
<1>5. ASSUME NEW i \in 1 .. ImageCount[p]
      PROVE  b[i] \in Blob /\ b[i].post = p /\ b[i].image = i
  <2>1. b[i] = [folder |-> u, post |-> p, image |-> i]
    BY <1>2
  <2> QED BY <1>3, <2>1
<1> QED BY <1>4, <1>5 DEF b

LEMMA RemotePublishStep ==
  ASSUME ChainInv, NEW u \in Users, NEW p \in Posts, RemotePublish(u, p) PROVE ChainInv'
<1> USE DEF ChainInv, TypeOK, feedVars, sessionVars
<1>0. PICK lost \in {l \in BOOLEAN : l => p \in LossyPosts} :
      job' = [job EXCEPT ![p].stage = "stored", ![p].poster = u,
                         ![p].urls = RemoteBlobs(u, p), ![p].lost = lost]
  BY Zenon DEF RemotePublish
<1> DEFINE b == RemoteBlobs(u, p)
           k == [job[p] EXCEPT !.stage = "stored", !.poster = u, !.urls = b, !.lost = lost]
           doc == [posterId |-> u, pictures |-> b]
<1>1. ImageCount[p] \in Nat
  BY ConstantsAssumption
<1>2. /\ b \in Seq(Blob)
      /\ Len(b) = ImageCount[p]
      /\ \A i \in 1 .. ImageCount[p] : b[i] \in Blob /\ b[i].post = p /\ b[i].image = i
  BY ONLY RemoteBlobsWhole, u \in Users, p \in Posts
<1> HIDE DEF b
<1>3. k \in Job /\ k.stage = "stored" /\ k.poster = u /\ k.urls = b /\ k.lost = lost
  <2>1. lost \in BOOLEAN
    OBVIOUS
  <2> QED BY <1>2, <2>1, ZenonT(40) DEF Job, Stages
<1>4. doc \in Doc
  BY <1>2 DEF Doc
<1>5. /\ job' = [job EXCEPT ![p] = k]
      /\ firestore' = [firestore EXCEPT ![p] = doc]
      /\ storage' = storage \union {b[i] : i \in 1 .. ImageCount[p]}
  BY <1>0 DEF RemotePublish, b
<1>6. TypeOK'
  <2>1. storage' \subseteq Blob
    BY <1>2, <1>5
  <2>2. job' \in [Posts -> Job] /\ firestore' \in [Posts -> Doc \union {NoDoc}]
    <3> HIDE DEF k, doc
    <3>1. k \in Job /\ doc \in Doc
      BY <1>3, <1>4
    <3>2. job' = [job EXCEPT ![p] = k] /\ firestore' = [firestore EXCEPT ![p] = doc]
      BY <1>5
    <3> QED BY <3>1, <3>2
  <2>3. UNCHANGED <<sessionVars, feedVars>>
    BY DEF RemotePublish
  <2> HIDE DEF k, doc
  <2> QED BY <2>1, <2>2, <2>3
<1> HIDE DEF k, doc
<1>7. ChainOK(p)'
  <2>1. job'[p] = k /\ firestore'[p] = doc /\ storage' = storage \union {b[i] : i \in 1 .. ImageCount[p]}
    BY <1>5
  <2>2. doc = [posterId |-> k.poster, pictures |-> k.urls]
    BY <1>3 DEF doc
  <2> QED BY <1>2, <1>3, <2>1, <2>2 DEF ChainOK, InFlight, Written, InPipeline, Post
<1>8. \A q \in Posts : ChainOK(q)'
  <2> HIDE DEF doc
  <2> QED BY <1>5, <1>7, ChainLocal
<1> QED BY <1>6, <1>8

(* A document that is deleted, here or elsewhere.                          *)
LEMMA RemoveStep ==
  ASSUME ChainInv,
         NEW p \in Posts, firestore' = [firestore EXCEPT ![p] = NoDoc],
         UNCHANGED <<job, storage, sessionVars, posts, overlapped>>,
         calls' \in [Calls -> Call]
  PROVE  ChainInv'
<1> USE DEF ChainInv, TypeOK, sessionVars
<1>1. TypeOK'
  OBVIOUS
<1>2. ChainOK(p)'
  BY DEF ChainOK, NextBlob, Post
<1>3. job' = [job EXCEPT ![p] = job[p]]
  OBVIOUS
<1>4. \A q \in Posts : ChainOK(q)'
  BY <1>2, <1>3, ChainLocal
<1> QED BY <1>1, <1>4

LEMMA DeleteCommitStep ==
  ASSUME ChainInv, NEW c \in Calls, DeleteCommit(c) PROVE ChainInv'
<1>1. calls[c] \in Call
  BY DEF ChainInv, TypeOK
<1>2. calls' \in [Calls -> Call]
  BY <1>1 DEF DeleteCommit, ChainInv, TypeOK, Call
<1>3. CASE calls[c].post \in Posts
  BY <1>2, <1>3, RemoveStep DEF DeleteCommit
<1>4. CASE calls[c].post \notin Posts
  <2>1. firestore' = firestore
    BY <1>4 DEF DeleteCommit, ChainInv, TypeOK
  <2> QED BY <1>2, <2>1, ChainFrame DEF DeleteCommit, ChainInv, TypeOK, sessionVars, serverVars
<1> QED BY <1>3, <1>4

LEMMA ChainStep == ChainInv /\ [Next]_vars => ChainInv'
<1> SUFFICES ASSUME ChainInv, [Next]_vars PROVE ChainInv'
  OBVIOUS
<1>1. ASSUME NEW u \in Users, NEW c \in Calls, SignIn(u, c) PROVE ChainInv'
  BY <1>1, FeedSteps
<1>2. ASSUME NEW u \in LateUsers, LateSignIn(u) \/ LateLogin(u) PROVE ChainInv'
  BY <1>2, FeedSteps
<1>3. CASE SignOut
  BY <1>3, SignOutStep
<1>4. CASE Crash
  BY <1>4, RelaunchStep DEF Crash
<1>5. ASSUME NEW p \in Posts, Submit(p) PROVE ChainInv'
  BY <1>5, SubmitStep
<1>6. ASSUME NEW p \in Posts, Upload(p) PROVE ChainInv'
  BY <1>6, PutDoneStep, StageStep, UrlReadyStep DEF Upload
<1>7. ASSUME NEW p \in Posts, Write(p) PROVE ChainInv'
  BY <1>7, EffectStep, StageStep DEF Write
<1>8. ASSUME NEW p \in Posts, RemoteDelete(p) PROVE ChainInv'
  <2>1. calls' \in [Calls -> Call]
    BY <1>8 DEF RemoteDelete, feedVars, ChainInv, TypeOK
  <2> QED BY <1>8, <2>1, RemoveStep DEF RemoteDelete, feedVars
<1>9. ASSUME NEW u \in Users, NEW p \in Posts, RemotePublish(u, p) PROVE ChainInv'
  BY <1>9, RemotePublishStep
<1>10. ASSUME NEW c \in Calls, ReloadFeed(c) PROVE ChainInv'
  BY <1>10, FeedSteps
<1>11. ASSUME NEW c \in Calls, Answer(c) PROVE ChainInv'
  <2>1. CASE DeleteCommit(c)
    BY <2>1, DeleteCommitStep
  <2>2. CASE DeleteTraps(c)
    BY <2>2, RelaunchStep DEF DeleteTraps
  <2>3. CASE LoadRead(c) \/ LoadReply(c) \/ LoadFails(c) \/ DeleteFails(c) \/ DeleteReply(c)
    BY <2>3, FeedSteps
  <2> QED BY <1>11, <2>1, <2>2, <2>3 DEF Answer
<1>12. ASSUME NEW c \in Calls, NEW i \in DOMAIN posts, NEW M \in Searches, SwipeDelete(c, i, M)
       PROVE  ChainInv'
  BY <1>12, FeedSteps
<1>13. CASE UNCHANGED vars
  BY <1>13 DEF vars, ChainInv, TypeOK, ChainOK, NextBlob, Post
<1>14. CASE ConnectionLost
  BY <1>14, LossStep
<1>15. ASSUME NEW p \in Posts, TakesEffectAgain(p) PROVE ChainInv'
  BY <1>15, EffectStep
<1> QED BY <1>1, <1>2, <1>3, <1>4, <1>5, <1>6, <1>7, <1>8, <1>9, <1>10, <1>11, <1>12, <1>13,
           <1>14, <1>15 DEF Next

(* The inductive invariant of the chain of addImages, addImageHelper and   *)
(* addPost: which pictures each stage of a submission has and where.       *)
THEOREM ChainInvariance == Spec => []ChainInv
<1> QED BY ChainInit, ChainStep, PTL DEF Spec

(* Every variable keeps its type.                                          *)
THEOREM TypeCorrectness == Spec => []TypeOK
<1>1. ChainInv => TypeOK
  BY DEF ChainInv
<1> QED BY <1>1, ChainInvariance, PTL

(* A published post is whole, whatever interrupts its uploads.             *)
THEOREM PublishedWholeTheorem == Spec => []PublishedWhole
<1>1. ChainInv => PublishedWhole
  <2> SUFFICES ASSUME ChainInv, NEW p \in Posts, firestore[p] # NoDoc
               PROVE  /\ firestore[p].posterId = job[p].poster
                      /\ Len(firestore[p].pictures) = ImageCount[p]
                      /\ \A i \in 1 .. ImageCount[p] :
                           /\ firestore[p].pictures[i] \in storage
                           /\ firestore[p].pictures[i].post = p
                           /\ firestore[p].pictures[i].image = i
    BY DEF PublishedWhole
  <2>1. ChainOK(p) /\ job[p].stage \in Written
    BY DEF ChainInv, ChainOK, Written, InPipeline
  <2>2. firestore[p].posterId = job[p].poster /\ firestore[p].pictures = job[p].urls
    BY <2>1 DEF ChainOK, Post
  <2> QED BY <2>1, <2>2 DEF ChainOK
<1> QED BY <1>1, ChainInvariance, PTL

-----------------------------------------------------------------------------
(***************************************************************************)
(* Posting implements PostBoard.                                           *)
(***************************************************************************)
Entry(p) == IF job[p].stage \in Written THEN Post(p) ELSE NoDoc
Final(p) == job[p].stage = "stored" /\ ~job[p].lost
written == [p \in Posts |-> Entry(p)]
settled == {p \in Posts : Final(p)}

LEMMA BoardVars == Board!vars = <<firestore, written, settled>>
BY DEF Board!vars, written, settled, Entry, Final

(* A step that is about the submission of p alone.                         *)
LEMMA BoardLocal ==
  ASSUME ChainInv, NEW p \in Posts, NEW k, job' = [job EXCEPT ![p] = k]
  PROVE  /\ written' = [written EXCEPT ![p] = Entry(p)']
         /\ settled' = IF Final(p)' THEN settled \union {p} ELSE settled \ {p}
<1>1. \A q \in Posts : q # p => job'[q] = job[q]
  BY DEF ChainInv, TypeOK
<1>2. \A q \in Posts : q # p => Entry(q)' = Entry(q) /\ Final(q)' = Final(q)
  BY <1>1 DEF Entry, Final, Post
<1> HIDE DEF Entry, Final
<1>3. written' = [q \in Posts |-> Entry(q)']
  BY DEF written
<1>4. written' = [written EXCEPT ![p] = Entry(p)']
  BY <1>2, <1>3 DEF written
<1>5. settled' = {q \in Posts : Final(q)'}
  BY DEF settled
<1>6. settled' = IF Final(p)' THEN settled \union {p} ELSE settled \ {p}
  BY <1>2, <1>5 DEF settled
<1> QED BY <1>4, <1>6

(* A step that changes nothing on the board.                               *)
LEMMA BoardStutter ==
  ASSUME firestore' = firestore, \A p \in Posts : Entry(p)' = Entry(p) /\ (Final(p)' <=> Final(p))
  PROVE  UNCHANGED Board!vars
<1> HIDE DEF Entry, Final
<1>1. written' = written /\ settled' = settled
  BY DEF written, settled
<1> QED BY <1>1 DEF Board!vars, written, settled, Entry, Final

(* A step about the submission of p that the board does not show.          *)
LEMMA BoardUnseen ==
  ASSUME ChainInv, NEW p \in Posts, NEW k, job' = [job EXCEPT ![p] = k], firestore' = firestore,
         job[p].stage \notin Written, k.stage \notin Written
  PROVE  UNCHANGED Board!vars
<1>1. \A q \in Posts : job'[q] = IF q = p THEN k ELSE job[q]
  BY DEF ChainInv, TypeOK
<1>2. \A q \in Posts : Entry(q)' = Entry(q) /\ (Final(q)' <=> Final(q))
  BY <1>1 DEF Entry, Final, Post, Written
<1> QED BY <1>2, BoardStutter

(* What a submission with all its URLs writes is a whole document.         *)
LEMMA WholeDoc ==
  ASSUME NEW p \in Posts, NEW j \in Job, j.poster \in Users, Len(j.urls) = ImageCount[p],
         \A i \in 1 .. Len(j.urls) : j.urls[i].post = p /\ j.urls[i].image = i,
         NEW d, d = [posterId |-> j.poster, pictures |-> j.urls]
  PROVE  /\ d # NoDoc
         /\ d.posterId \in Users
         /\ Board!Whole(p, d.pictures)
<1>1. j.urls \in Seq(Blob)
  BY DEF Job
<1>2. d \in [posterId: Users, pictures: Seq([folder: Users, post: Posts, image: Nat])]
  BY <1>1 DEF Blob
<1>3. d # NoDoc
  BY <1>2, ConstantsAssumption
<1>4. Board!Whole(p, d.pictures)
  BY <1>1 DEF Board!Whole, Blob, Board!Blob
<1> QED BY <1>3, <1>4

(* A submission hands its write over, here or on another device.           *)
LEMMA BoardAuthor ==
  ASSUME ChainInv, ChainInv', NEW p \in Posts, NEW k, job' = [job EXCEPT ![p] = k],
         job[p].stage \notin Written, k.stage \in Written
  PROVE  Board!Author(p) /\ Entry(p)' = [posterId |-> k.poster, pictures |-> k.urls]
<1>1. job'[p] = k /\ k \in Job /\ ChainOK(p)'
  BY DEF ChainInv, TypeOK
<1> DEFINE d == [posterId |-> k.poster, pictures |-> k.urls]
<1>2. Entry(p)' = d /\ Entry(p) = NoDoc
  BY <1>1 DEF Entry, Post, Written, InPipeline
<1>3. /\ k.poster \in Users /\ Len(k.urls) = ImageCount[p]
      /\ \A i \in 1 .. Len(k.urls) : k.urls[i].post = p /\ k.urls[i].image = i
  BY <1>1 DEF ChainOK, Written, InPipeline
<1>4. d # NoDoc /\ d.posterId \in Users /\ Board!Whole(p, d.pictures)
  BY <1>1, <1>3, WholeDoc
<1>5. written' = [written EXCEPT ![p] = d] /\ written'[p] = d /\ written[p] = NoDoc
  BY <1>2, BoardLocal DEF written
<1> HIDE DEF d
<1>6. Board!Author(p)
  BY <1>4, <1>5 DEF Board!Author, written, Entry
<1> QED BY <1>2, <1>6 DEF d

LEMMA BoardWrite ==
  ASSUME ChainInv, ChainInv', NEW p \in Posts, NEW k, job' = [job EXCEPT ![p] = k],
         job[p].stage \notin Written, k.stage = "queued", firestore' = firestore
  PROVE  Board!Next
<1>1. Board!Author(p)
  BY BoardAuthor DEF Written, InPipeline
<1>2. job'[p] = k
  BY DEF ChainInv, TypeOK
<1>3. settled' = settled
  BY <1>2, BoardLocal DEF settled, Final, Written, InPipeline
<1>4. Board!Write(p)
  BY <1>1, <1>3 DEF Board!Write, settled, Final
<1> QED BY <1>4 DEF Board!Next

(* A write takes effect.                                                   *)
LEMMA BoardPublish ==
  ASSUME ChainInv, NEW p \in Posts, Commit(p) \/ TakesEffectAgain(p)
  PROVE  Board!Next
<1>1. ChainOK(p) /\ job[p] \in Job /\ job[p].stage \in Written
  BY DEF ChainInv, TypeOK, Commit, Serving, TakesEffectAgain, ChainOK, Written
<1> DEFINE k == [job[p] EXCEPT !.stage = IF job[p].stage = "queued" THEN "applied" ELSE job[p].stage]
<1>2. job' = [job EXCEPT ![p] = k] /\ firestore' = [firestore EXCEPT ![p] = Post(p)]
  BY DEF Commit, TakesEffectAgain
<1>3. /\ k.stage \in Written
      /\ k.stage = "stored" <=> job[p].stage = "stored"
      /\ k.poster = job[p].poster /\ k.urls = job[p].urls /\ k.lost = job[p].lost
  BY <1>1 DEF Job, Written, InPipeline
<1> HIDE DEF k
<1>4. job'[p] = k
  BY <1>2 DEF ChainInv, TypeOK
<1>5. Entry(p)' = Entry(p) /\ Entry(p) = Post(p) /\ (Final(p)' <=> Final(p))
  BY <1>1, <1>3, <1>4 DEF Entry, Final, Post
<1>6. ~Final(p)
  BY DEF Commit, TakesEffectAgain, Final
<1>7. written' = written /\ settled' = settled
  <2>1. written' = [written EXCEPT ![p] = Entry(p)] /\ settled' = settled \ {p}
    BY <1>2, <1>5, <1>6, BoardLocal
  <2> QED BY <1>6, <2>1 DEF written, settled
<1>8. Post(p) # NoDoc
  BY <1>1, WholeDoc DEF ChainOK, Written, InPipeline, Post
<1>9. written[p] = Post(p) /\ p \notin settled
  BY <1>5, <1>6 DEF written, settled
<1>10. Board!Publish(p)
  BY <1>2, <1>7, <1>8, <1>9 DEF Board!Publish, written, settled, Entry, Final
<1> QED BY <1>10 DEF Board!Next

(* The client hears that its write took effect.                            *)
LEMMA BoardSettle ==
  ASSUME ChainInv, NEW p \in Posts, Acknowledge(p)
  PROVE  Board!Next \/ UNCHANGED Board!vars
<1> DEFINE k == [job[p] EXCEPT !.stage = "stored"]
<1>1. /\ ChainOK(p) /\ job[p] \in Job /\ job[p].stage = "applied"
      /\ job' = [job EXCEPT ![p] = k] /\ firestore' = firestore
  BY DEF ChainInv, TypeOK, Acknowledge, serverVars
<1>2. k.stage = "stored" /\ k.poster = job[p].poster /\ k.urls = job[p].urls /\ k.lost = job[p].lost
  BY <1>1 DEF Job
<1> HIDE DEF k
<1>3. job'[p] = k
  BY <1>1 DEF ChainInv, TypeOK
<1>4. Entry(p)' = Entry(p) /\ Entry(p) = Post(p) /\ ~Final(p)
  BY <1>1, <1>2, <1>3 DEF Entry, Final, Post, Written, InPipeline
<1>5. written' = written
  <2>1. written' = [written EXCEPT ![p] = Entry(p)]
    BY <1>1, <1>4, BoardLocal
  <2> QED BY <2>1 DEF written
<1>6. settled' = settled \/ settled' = settled \union {p}
  <2>1. settled \ {p} = settled
    BY <1>4 DEF settled
  <2> QED BY <1>1, <2>1, BoardLocal
<1>7. Post(p) # NoDoc
  BY <1>1, WholeDoc DEF ChainOK, Written, InPipeline, Post
<1>8. written[p] # NoDoc
  BY <1>4, <1>7 DEF written
<1>9. CASE settled' = settled
  BY <1>1, <1>5, <1>9 DEF Board!vars, written, settled, Entry, Final
<1>10. CASE settled' = settled \union {p}
  <2>1. Board!Settle(p)
    BY <1>1, <1>5, <1>8, <1>10 DEF Board!Settle, written, settled, Entry, Final
  <2> QED BY <2>1 DEF Board!Next
<1> QED BY <1>6, <1>9, <1>10

(* Another device publishes a post.                                        *)
LEMMA BoardElsewhere ==
  ASSUME ChainInv, ChainInv', NEW u \in Users, NEW p \in Posts, RemotePublish(u, p)
  PROVE  Board!Next
<1>0. PICK lost \in {l \in BOOLEAN : l => p \in LossyPosts} :
      job' = [job EXCEPT ![p].stage = "stored", ![p].poster = u,
                         ![p].urls = RemoteBlobs(u, p), ![p].lost = lost]
  BY Zenon DEF RemotePublish
<1> DEFINE b == RemoteBlobs(u, p)
           k == [job[p] EXCEPT !.stage = "stored", !.poster = u, !.urls = b, !.lost = lost]
<1>1. job' = [job EXCEPT ![p] = k] /\ job[p].stage = "idle"
  BY <1>0 DEF RemotePublish
<1>2. firestore' = [firestore EXCEPT ![p] = [posterId |-> u, pictures |-> b]]
  BY DEF RemotePublish
<1> HIDE DEF b
<1>3. k.stage = "stored" /\ k.poster = u /\ k.urls = b
  BY DEF ChainInv, TypeOK, Job
<1> HIDE DEF k
<1>4. Board!Author(p) /\ Entry(p)' = [posterId |-> u, pictures |-> b]
  BY <1>1, <1>3, BoardAuthor DEF Written, InPipeline
<1>5. written'[p] = Entry(p)'
  BY DEF written
<1>6. firestore' = [firestore EXCEPT ![p] = written'[p]]
  BY <1>2, <1>4, <1>5
<1>7. settled' \in {settled, settled \union {p}}
  <2>1. settled \ {p} = settled
    BY <1>1 DEF settled, Final
  <2> QED BY <1>1, <2>1, BoardLocal
<1>8. Board!PublishElsewhere(p)
  BY <1>4, <1>6, <1>7 DEF Board!PublishElsewhere, written, settled, Entry, Final
<1> QED BY <1>8 DEF Board!Next

(* A step that removes p.                                                  *)
LEMMA BoardRemove ==
  ASSUME NEW p \in Posts, firestore[p] # NoDoc,
         firestore' = [firestore EXCEPT ![p] = NoDoc], job' = job
  PROVE  Board!Next
<1>1. written' = written /\ settled' = settled
  BY DEF written, settled, Entry, Final, Post
<1>2. Board!Remove(p)
  BY <1>1 DEF Board!Remove, written, settled, Entry, Final
<1> QED BY <1>2 DEF Board!Next

(* A submission that goes on, ends or hands its write over.                *)
LEMMA BoardSubmission ==
  ASSUME ChainInv, ChainInv', NEW p \in Posts, Submit(p) \/ Upload(p)
  PROVE  Board!Next \/ UNCHANGED Board!vars
<1> USE DEF serverVars, sessionVars
<1>1. ASSUME NEW j \in Job, NEW k \in AddImageHelper(p, j), job' = [job EXCEPT ![p] = k],
             job[p].stage \notin Written, firestore' = firestore
      PROVE  Board!Next \/ UNCHANGED Board!vars
  <2>1. k.stage \in {"stalled", "put", "queued"}
    BY HelperResult DEF ChainInv, TypeOK
  <2>2. CASE k.stage = "queued"
    BY <1>1, <2>2, BoardWrite
  <2>3. CASE k.stage \in {"stalled", "put"}
    BY <1>1, <2>3, BoardUnseen DEF Written, InPipeline
  <2> QED BY <2>1, <2>2, <2>3
<1>2. CASE Submit(p)
  <2>1. PICK k \in AddImageHelper(p, [IdleJob EXCEPT !.poster = currentUser, !.live = TRUE]) :
          job' = [job EXCEPT ![p] = k]
    BY <1>2 DEF Submit
  <2>2. [IdleJob EXCEPT !.poster = currentUser, !.live = TRUE] \in Job
    <3>1. IdleJob \in Job
      BY DEF IdleJob, Job, Stages
    <3> QED BY <3>1 DEF Job, ChainInv, TypeOK
  <2>3. job[p].stage \notin Written /\ firestore' = firestore
    BY <1>2 DEF Submit, Written, InPipeline
  <2> QED BY <1>1, <2>1, <2>2, <2>3
<1>3. CASE UrlReady(p)
  <2> DEFINE more == [job[p] EXCEPT !.urls = Append(@, NextBlob(p))]
  <2>1. PICK k \in AddImageHelper(p, more) : job' = [job EXCEPT ![p] = k]
    BY <1>3 DEF UrlReady
  <2>2. NextBlob(p) \in Blob /\ job[p] \in Job
    BY <1>3 DEF UrlReady, ChainInv, ChainOK, TypeOK
  <2>3. more \in Job
    BY <2>2, SMTT(30) DEF Job
  <2>4. job[p].stage \notin Written /\ firestore' = firestore
    BY <1>3 DEF UrlReady, Written, InPipeline
  <2> HIDE DEF more
  <2> QED BY <1>1, <2>1, <2>3, <2>4
<1>4. CASE PutDone(p)
  <2>1. job' = [job EXCEPT ![p] = [job[p] EXCEPT !.stage = "url"]] /\ firestore' = firestore
    BY <1>4 DEF PutDone
  <2>2. [job[p] EXCEPT !.stage = "url"].stage \notin Written /\ job[p].stage \notin Written
    BY <1>4 DEF PutDone, ChainInv, TypeOK, Job, Written, InPipeline
  <2> QED BY <2>1, <2>2, BoardUnseen
<1>5. CASE UploadFails(p)
  <2>1. job' = [job EXCEPT ![p] = [job[p] EXCEPT !.stage = "stalled"]] /\ firestore' = firestore
    BY <1>5 DEF UploadFails, Stalled
  <2>2. [job[p] EXCEPT !.stage = "stalled"].stage \notin Written /\ job[p].stage \notin Written
    BY <1>5 DEF UploadFails, InFlight, ChainInv, TypeOK, Job, Written, InPipeline
  <2> QED BY <2>1, <2>2, BoardUnseen
<1> QED BY <1>2, <1>3, <1>4, <1>5 DEF Upload

(* A step that keeps what each submission wrote and whether it is settled. *)
LEMMA BoardSame ==
  ASSUME firestore' = firestore,
         \A p \in Posts : /\ job'[p].stage \in Written <=> job[p].stage \in Written
                          /\ job'[p].poster = job[p].poster /\ job'[p].urls = job[p].urls
                          /\ job'[p].stage = "stored" <=> job[p].stage = "stored"
                          /\ job[p].stage = "stored" => job'[p].lost = job[p].lost
  PROVE  UNCHANGED Board!vars
<1>1. \A p \in Posts : Entry(p)' = Entry(p) /\ (Final(p)' <=> Final(p))
  BY DEF Entry, Final, Post
<1> QED BY <1>1, BoardStutter

LEMMA BoardStep == ChainInv /\ ChainInv' /\ [Next]_vars => [Board!Next]_(Board!vars)
<1> SUFFICES ASSUME ChainInv, ChainInv', [Next]_vars
             PROVE  Board!Next \/ UNCHANGED Board!vars
  OBVIOUS
<1> USE DEF serverVars, feedVars, sessionVars
<1>1. ASSUME job' = job, firestore' = firestore PROVE UNCHANGED Board!vars
  BY <1>1, BoardSame
<1>2. CASE SignOut
  <2>1. \A p \in Posts : /\ job'[p].stage = job[p].stage /\ job'[p].poster = job[p].poster
                         /\ job'[p].urls = job[p].urls /\ job'[p].lost = job[p].lost
    BY <1>2 DEF SignOut, ChainInv, TypeOK, Job
  <2> QED BY <1>2, <2>1, BoardSame DEF SignOut
<1>3. CASE Relaunch
  <2>1. \A p \in Posts : job[p] \in Job
    BY DEF ChainInv, TypeOK
  <2>2. \A p \in Posts :
          /\ job'[p].stage = IF job[p].stage \in InFlight THEN "stalled" ELSE job[p].stage
          /\ job'[p].poster = job[p].poster
          /\ job'[p].urls = job[p].urls /\ job'[p].lost = job[p].lost
    BY <1>3, <2>1 DEF Relaunch, Job
  <2>3. \A p \in Posts : /\ job'[p].stage \in Written <=> job[p].stage \in Written
                         /\ job'[p].stage = "stored" <=> job[p].stage = "stored"
    BY <2>2 DEF InFlight, Written, InPipeline
  <2>4. firestore' = firestore
    BY <1>3 DEF Relaunch
  <2> QED BY <2>2, <2>3, <2>4, BoardSame
<1>4. CASE ConnectionLost
  <2>1. \A p \in Posts : /\ job'[p].stage = job[p].stage /\ job'[p].poster = job[p].poster
                         /\ job'[p].urls = job[p].urls
                         /\ job[p].stage = "stored" => job'[p].lost = job[p].lost
    BY <1>4, LossMarks DEF InPipeline
  <2> QED BY <1>4, <2>1, BoardSame DEF ConnectionLost
<1>5. ASSUME NEW p \in Posts, Reject(p) PROVE UNCHANGED Board!vars
  <2>1. job' = [job EXCEPT ![p] = [job[p] EXCEPT !.stage = "rejected"]] /\ job[p].stage \in InPipeline
    BY <1>5 DEF Reject, Serving
  <2>2. \A q \in Posts : /\ job'[q].poster = job[q].poster /\ job'[q].urls = job[q].urls
                         /\ job'[q].lost = job[q].lost
                         /\ job'[q].stage = IF q = p THEN "rejected" ELSE job[q].stage
    BY <2>1 DEF ChainInv, TypeOK, Job
  <2>3. \A q \in Posts : /\ job'[q].stage \in Written <=> job[q].stage \in Written
                         /\ job'[q].stage = "stored" <=> job[q].stage = "stored"
    BY <2>1, <2>2 DEF Written, InPipeline
  <2> QED BY <1>5, <2>2, <2>3, BoardSame DEF Reject
<1>6. ASSUME NEW p \in Posts, Submit(p) \/ Upload(p) PROVE Board!Next \/ UNCHANGED Board!vars
  BY <1>6, BoardSubmission
<1>7. ASSUME NEW p \in Posts, Commit(p) \/ Acknowledge(p) \/ TakesEffectAgain(p)
      PROVE  Board!Next \/ UNCHANGED Board!vars
  BY <1>7, BoardPublish, BoardSettle
<1>8. ASSUME NEW u \in Users, NEW p \in Posts, RemotePublish(u, p) PROVE Board!Next
  BY <1>8, BoardElsewhere
<1>10. ASSUME NEW p \in Posts, RemoteDelete(p) PROVE Board!Next
  BY <1>10, BoardRemove DEF RemoteDelete
<1>11. ASSUME NEW c \in Calls, DeleteCommit(c) PROVE Board!Next \/ UNCHANGED Board!vars
  <2>1. CASE calls[c].post \in Posts
    BY <1>11, <2>1, BoardRemove DEF DeleteCommit
  <2>2. CASE calls[c].post \notin Posts
    <3>1. firestore' = firestore
      BY <1>11, <2>2 DEF DeleteCommit, ChainInv, TypeOK
    <3> QED BY <1>1, <1>11, <3>1 DEF DeleteCommit
  <2> QED BY <2>1, <2>2
<1>12. ASSUME NEW c \in Calls, Answer(c) PROVE Board!Next \/ UNCHANGED Board!vars
  <2>1. CASE DeleteCommit(c)
    BY <1>11, <2>1
  <2>2. CASE DeleteTraps(c)
    BY <1>3, <2>2 DEF DeleteTraps
  <2>3. CASE LoadRead(c) \/ LoadReply(c) \/ LoadFails(c) \/ DeleteFails(c) \/ DeleteReply(c)
    BY <1>1, <2>3 DEF LoadRead, LoadReply, LoadFails, DeleteFails, DeleteReply
  <2> QED BY <1>12, <2>1, <2>2, <2>3 DEF Answer
<1>13. ASSUME NEW u \in Users, NEW c \in Calls, SignIn(u, c) PROVE UNCHANGED Board!vars
  BY <1>1, <1>13 DEF SignIn
<1>14. ASSUME NEW u \in LateUsers, LateSignIn(u) \/ LateLogin(u) PROVE UNCHANGED Board!vars
  BY <1>1, <1>14 DEF LateSignIn, LateLogin
<1>15. ASSUME NEW c \in Calls, ReloadFeed(c) PROVE UNCHANGED Board!vars
  BY <1>1, <1>15 DEF ReloadFeed
<1>16. ASSUME NEW c \in Calls, NEW i \in DOMAIN posts, NEW M \in Searches, SwipeDelete(c, i, M)
       PROVE  UNCHANGED Board!vars
  BY <1>1, <1>16 DEF SwipeDelete
<1>17. CASE UNCHANGED vars
  BY <1>1, <1>17 DEF vars
<1> QED BY <1>2, <1>3, <1>4, <1>5, <1>6, <1>7, <1>8, <1>10, <1>12, <1>13, <1>14, <1>15, <1>16, <1>17
        DEF Next, Crash, Write

LEMMA BoardInit == Init => Board!Init
<1> SUFFICES ASSUME Init PROVE Board!Init
  OBVIOUS
<1>1. \A p \in Posts : job[p].stage = "idle"
  BY DEF Init, IdleJob
<1>2. \A p \in Posts : job[p].stage \notin Written /\ job[p].stage # "stored"
  BY <1>1 DEF Written, InPipeline
<1> QED BY <1>2 DEF Init, Board!Init

(* Every behaviour of the app's publishing is one of PostBoard's: a post   *)
(* appears in one step, whole and always the same, and once its write is   *)
(* answered and no lost connection carried it, a removal is for good.      *)
THEOREM Refinement == Spec => ImplementsBoard
<1> QED BY BoardInit, BoardStep, ChainInvariance, PTL DEF Spec, ImplementsBoard, Board!Spec

-----------------------------------------------------------------------------
(***************************************************************************)
(* The index a delete noted stays right while nothing overlaps it.         *)
(***************************************************************************)
LEMMA FeedInit == Init => FeedInv
BY DEF Init, FeedInv, FreshIndex, FreeCall, IdleJob, LiveInFlight

(* A step that leaves the feed alone and starts no upload for it.          *)
LEMMA FeedFrame ==
  ASSUME FeedInv, UNCHANGED feedVars,
         currentUser' = NoUser => currentUser = NoUser,
         \A p \in Posts : /\ job'[p].live <=> job[p].live
                          /\ LiveInFlight(p)' => LiveInFlight(p)
  PROVE  FeedInv'
BY DEF FeedInv, FreshIndex, feedVars

(* A call is over: what it does to the list disturbs no live delete.       *)
LEMMA FeedReply ==
  ASSUME ChainInv, FeedInv, NEW c \in Calls,
         calls' = [calls EXCEPT ![c] = FreeCall],
         ~calls[c].live => posts' = posts,
         UNCHANGED <<currentUser, job, overlapped>>
  PROVE  FeedInv'
<1>1. calls'[c] = FreeCall /\ \A d \in Calls : d # c => calls'[d] = calls[d]
  BY DEF ChainInv, TypeOK
<1>2. FreeCall.op = "free" /\ ~FreeCall.live
  BY DEF FreeCall
<1>3. \A p \in Posts : LiveInFlight(p)' <=> LiveInFlight(p)
  BY DEF LiveInFlight
<1>4. FreshIndex'
  <2> SUFFICES ASSUME ~overlapped, NEW d \in Calls, calls'[d].op = "delete", calls'[d].live
               PROVE  calls'[d].index \in DOMAIN posts' /\ posts'[calls'[d].index] = calls'[d].post
    BY DEF FreshIndex
  <2>1. d # c /\ calls'[d] = calls[d]
    BY <1>1, <1>2
  <2>2. ~calls[c].live
    BY <2>1 DEF FeedInv
  <2> QED BY <2>1, <2>2 DEF FeedInv, FreshIndex
<1> QED BY <1>1, <1>2, <1>3, <1>4 DEF FeedInv

(* A call makes progress: its own record changes only in stage and result. *)
LEMMA FeedProgress ==
  ASSUME ChainInv, FeedInv, NEW c \in Calls, NEW k,
         calls' = [calls EXCEPT ![c] = k],
         k.op = calls[c].op, k.live = calls[c].live,
         k.index = calls[c].index, k.post = calls[c].post,
         UNCHANGED <<currentUser, job, posts, overlapped>>
  PROVE  FeedInv'
<1>1. \A d \in Calls : /\ calls'[d].op = calls[d].op
                       /\ calls'[d].live = calls[d].live
                       /\ calls'[d].index = calls[d].index
                       /\ calls'[d].post = calls[d].post
  BY DEF ChainInv, TypeOK
<1>2. \A p \in Posts : LiveInFlight(p)' <=> LiveInFlight(p)
  BY DEF LiveInFlight
<1> QED BY <1>1, <1>2 DEF FeedInv, FreshIndex

(* A call starts on a feed that waits for nothing, or marks the overlap.   *)
LEMMA FeedStart ==
  ASSUME ChainInv, FeedInv, NEW c \in Calls, NEW k,
         currentUser # NoUser,
         calls' = [calls EXCEPT ![c] = k],
         k.op \in {"load", "delete"}, k.live = TRUE,
         k.op = "delete" => k.index \in DOMAIN posts' /\ posts'[k.index] = k.post,
         overlapped' = (overlapped \/ Busy),
         UNCHANGED <<currentUser, job>>
  PROVE  FeedInv'
<1>1. calls'[c] = k /\ \A d \in Calls : d # c => calls'[d] = calls[d]
  BY DEF ChainInv, TypeOK
<1>2. \A p \in Posts : LiveInFlight(p)' <=> LiveInFlight(p)
  BY DEF LiveInFlight
<1>3. ~overlapped' => /\ \A d \in Calls : ~calls[d].live
                      /\ \A p \in Posts : ~LiveInFlight(p)
  BY DEF Busy, FeedInv, LiveInFlight
<1>4. FreshIndex'
  BY <1>1, <1>3 DEF FreshIndex
<1> QED BY <1>1, <1>2, <1>3, <1>4 DEF FeedInv

(* The feed leaves the screen.                                             *)
LEMMA FeedDropped ==
  ASSUME ChainInv, DropFeed, \A p \in Posts : ~job'[p].live
  PROVE  FeedInv'
<1>1. \A c \in Calls : ~calls'[c].live /\ calls'[c].op # "load"
  <2> SUFFICES ASSUME NEW c \in Calls PROVE ~calls'[c].live /\ calls'[c].op # "load"
    OBVIOUS
  <2>1. calls[c] \in Call
    BY DEF ChainInv, TypeOK
  <2>2. CASE calls[c].op = "delete"
    BY <2>1, <2>2 DEF DropFeed, Call
  <2>3. CASE calls[c].op # "delete"
    BY <2>3 DEF DropFeed, FreeCall
  <2> QED BY <2>2, <2>3
<1> QED BY <1>1 DEF FeedInv, FreshIndex

LEMMA FeedStep == ChainInv /\ FeedInv /\ [Next]_vars => FeedInv'
<1> SUFFICES ASSUME ChainInv, FeedInv, [Next]_vars PROVE FeedInv'
  OBVIOUS
<1> USE DEF serverVars, sessionVars
<1>1. ASSUME NEW u \in Users, NEW c \in Calls, SignIn(u, c) PROVE FeedInv'
  <2>1. /\ FreshCall("load", u).live = TRUE
        /\ FreshCall("load", u).op = "load"
    BY FreshCallType
  <2>2. calls' = [calls EXCEPT ![c] = FreshCall("load", u)] /\ job' = job
    BY <1>1 DEF SignIn
  <2>3. /\ calls'[c] = FreshCall("load", u)
        /\ \A d \in Calls : d # c => calls'[d] = calls[d]
    BY <2>2 DEF ChainInv, TypeOK
  <2>4. /\ \A d \in Calls : ~calls[d].live
        /\ \A p \in Posts : ~job'[p].live
    BY <1>1, <2>2 DEF SignIn, FeedInv
  <2>5. currentUser' # NoUser
    BY <1>1, ConstantsAssumption DEF SignIn
  <2>6. FreshIndex'
    BY <2>1, <2>3, <2>4 DEF FreshIndex
  <2>7. \A d \in Calls : /\ calls'[d].op = "free" => ~calls'[d].live
                         /\ calls'[d].op = "load" => calls'[d].live
    BY <2>1, <2>3, <2>4 DEF FeedInv
  <2> QED BY <2>1, <2>3, <2>4, <2>5, <2>6, <2>7 DEF FeedInv, LiveInFlight
<1>2. ASSUME NEW u \in LateUsers, LateSignIn(u) \/ LateLogin(u) PROVE FeedInv'
  <2>1. /\ UNCHANGED feedVars /\ job' = job
        /\ currentUser' = NoUser => currentUser = NoUser
    BY <1>2, ConstantsAssumption DEF LateSignIn, LateLogin
  <2> QED BY <2>1, FeedFrame DEF LiveInFlight
<1>3. CASE SignOut
  <2>1. \A p \in Posts : ~job'[p].live
    BY <1>3 DEF SignOut, ChainInv, TypeOK, Job
  <2> QED BY <1>3, <2>1, FeedDropped DEF SignOut
<1>4. CASE Relaunch
  <2>1. \A p \in Posts : job[p] \in Job
    BY DEF ChainInv, TypeOK
  <2>2. \A p \in Posts : ~job'[p].live
    BY <1>4, <2>1 DEF Relaunch, Job
  <2> QED BY <1>4, <2>2, FeedDropped DEF Relaunch
<1>5. ASSUME NEW p \in Posts, Submit(p) PROVE FeedInv'
  <2>1. ~overlapped' => \A d \in Calls : ~calls[d].live
    BY <1>5 DEF Submit, Busy, FeedInv
  <2>2. UNCHANGED <<currentUser, posts, calls>> /\ currentUser # NoUser
    BY <1>5 DEF Submit
  <2>3. ~overlapped' => ~overlapped
    BY <1>5 DEF Submit
  <2> QED BY <2>1, <2>2, <2>3 DEF FeedInv, FreshIndex
<1>6. ASSUME NEW p \in Posts, NEW k, job' = [job EXCEPT ![p] = k],
             k.live = job[p].live, k.stage \in InFlight => job[p].stage \in InFlight,
             UNCHANGED <<currentUser, feedVars>>
      PROVE  FeedInv'
  <2>1. \A q \in Posts : /\ job'[q].live <=> job[q].live
                         /\ LiveInFlight(q)' => LiveInFlight(q)
    BY <1>6 DEF LiveInFlight, ChainInv, TypeOK
  <2> QED BY <1>6, <2>1, FeedFrame
<1>7. ASSUME NEW p \in Posts, PutDone(p) PROVE FeedInv'
  <2>1. job' = [job EXCEPT ![p] = [job[p] EXCEPT !.stage = "url"]]
    BY <1>7 DEF PutDone
  <2>2. [job[p] EXCEPT !.stage = "url"].live = job[p].live /\ job[p].stage \in InFlight
    BY <1>7 DEF PutDone, ChainInv, TypeOK, Job, InFlight
  <2> QED BY <1>6, <1>7, <2>1, <2>2 DEF PutDone
<1>8. ASSUME NEW p \in Posts, NEW s \in Stages \ InFlight,
             job' = [job EXCEPT ![p] = [job[p] EXCEPT !.stage = s]],
             UNCHANGED <<currentUser, feedVars>>
      PROVE  FeedInv'
  <2>1. [job[p] EXCEPT !.stage = s].live = job[p].live /\ [job[p] EXCEPT !.stage = s].stage = s
    BY DEF ChainInv, TypeOK, Job
  <2> QED BY <1>6, <1>8, <2>1
<1>9. ASSUME NEW p \in Posts, UploadFails(p) PROVE FeedInv'
  BY <1>8, <1>9 DEF UploadFails, Stalled, Stages, InFlight
<1>10. ASSUME NEW p \in Posts, Write(p) PROVE FeedInv'
  <2>1. CASE Commit(p)
    BY <1>8, <2>1 DEF Commit, Stages, InFlight
  <2>2. CASE Acknowledge(p)
    BY <1>8, <2>2 DEF Acknowledge, Stages, InFlight
  <2>3. CASE Reject(p)
    BY <1>8, <2>3 DEF Reject, Stages, InFlight
  <2> QED BY <1>10, <2>1, <2>2, <2>3 DEF Write
<1>11. ASSUME NEW p \in Posts, UrlReady(p) PROVE FeedInv'
  <2> DEFINE more == [job[p] EXCEPT !.urls = Append(@, NextBlob(p))]
  <2>1. PICK k \in AddImageHelper(p, more) :
          /\ job' = [job EXCEPT ![p] = k]
          /\ posts' = IF k.stage = "queued" /\ k.live THEN <<p>> \o posts ELSE posts
    BY <1>11 DEF UrlReady
  <2>2. NextBlob(p) \in Blob /\ job[p] \in Job
    BY <1>11 DEF UrlReady, ChainInv, ChainOK, TypeOK
  <2>3. more \in Job /\ more.live = job[p].live
    BY <2>2, SMTT(30) DEF Job
  <2> HIDE DEF more
  <2>4. k.live = job[p].live
    BY <2>1, <2>3, HelperResult DEF ChainInv, TypeOK
  <2>5. job[p].stage \in InFlight /\ UNCHANGED <<currentUser, calls, overlapped>>
    BY <1>11 DEF UrlReady, InFlight
  <2>6. CASE job[p].live
    <3>1. ~overlapped => \A c \in Calls : ~calls[c].live
      BY <2>5, <2>6 DEF FeedInv, LiveInFlight
    <3>2. currentUser # NoUser
      BY <2>6 DEF FeedInv
    <3> QED BY <2>5, <3>1, <3>2 DEF FeedInv, FreshIndex
  <2>7. CASE ~job[p].live
    <3>1. UNCHANGED feedVars
      BY <2>1, <2>4, <2>5, <2>7 DEF feedVars
    <3> QED BY <1>6, <2>1, <2>4, <2>5, <3>1
  <2> QED BY <2>6, <2>7
<1>12. ASSUME NEW p \in Posts, RemoteDelete(p) PROVE FeedInv'
  BY <1>12, FeedFrame DEF RemoteDelete, LiveInFlight
<1>13. ASSUME NEW u \in Users, NEW p \in Posts, RemotePublish(u, p) PROVE FeedInv'
  <2>0. PICK lost \in BOOLEAN :
        job' = [job EXCEPT ![p].stage = "stored", ![p].poster = u,
                           ![p].urls = RemoteBlobs(u, p), ![p].lost = lost]
    BY <1>13, Zenon DEF RemotePublish
  <2> DEFINE k == [job[p] EXCEPT !.stage = "stored", !.poster = u,
                                 !.urls = RemoteBlobs(u, p), !.lost = lost]
  <2>1. job' = [job EXCEPT ![p] = k]
    BY <2>0
  <2>2. k.live = job[p].live /\ k.stage = "stored"
    BY DEF ChainInv, TypeOK, Job
  <2> HIDE DEF k
  <2> QED BY <1>6, <1>13, <2>1, <2>2 DEF RemotePublish, InFlight
<1>14. ASSUME NEW c \in Calls, ReloadFeed(c) PROVE FeedInv'
  <2>1. /\ FreshCall("load", authUser).live = TRUE
        /\ FreshCall("load", authUser).op = "load"
    BY FreshCallType DEF ChainInv, TypeOK
  <2> QED BY <1>14, <2>1, FeedStart DEF ReloadFeed
<1>15. ASSUME NEW c \in Calls, NEW i \in DOMAIN posts, NEW M \in Searches, SwipeDelete(c, i, M)
       PROVE  FeedInv'
  <2>1. PICK index \in 1 .. i :
          /\ posts[index] = posts[i]
          /\ calls' = [calls EXCEPT ![c] = [FreshCall("delete", authUser)
                                              EXCEPT !.post = posts[i], !.index = index]]
    BY <1>15 DEF SwipeDelete
  <2> DEFINE k == [FreshCall("delete", authUser) EXCEPT !.post = posts[i], !.index = index]
  <2>2. /\ FreshCall("delete", authUser) \in Call
        /\ FreshCall("delete", authUser).live = TRUE
        /\ FreshCall("delete", authUser).op = "delete"
    BY FreshCallType DEF ChainInv, TypeOK
  <2>3. k.live = TRUE /\ k.op = "delete" /\ k.post = posts[i] /\ k.index = index
    BY <2>2 DEF Call
  <2>4. posts' = posts /\ index \in DOMAIN posts
    BY <1>15 DEF SwipeDelete, ChainInv, TypeOK
  <2>5. calls' = [calls EXCEPT ![c] = k]
    BY <2>1
  <2> HIDE DEF k
  <2>6. /\ currentUser # NoUser
        /\ overlapped' = (overlapped \/ Busy)
        /\ UNCHANGED <<currentUser, job>>
    BY <1>15 DEF SwipeDelete
  <2> QED BY <2>1, <2>3, <2>4, <2>5, <2>6, FeedStart
<1>16. ASSUME NEW c \in Calls, Answer(c) PROVE FeedInv'
  <2> calls[c] \in Call
    BY DEF ChainInv, TypeOK
  <2>1. CASE LoadRead(c)
    <3>1. PICK found :
            calls' = [calls EXCEPT ![c] = [calls[c] EXCEPT !.stage = "ok", !.result = found]]
      BY <2>1 DEF LoadRead
    <3>2. UNCHANGED <<currentUser, job, posts, overlapped>>
      BY <2>1 DEF LoadRead
    <3> QED BY <3>1, <3>2, FeedProgress DEF Call
  <2>2. CASE LoadReply(c)
    <3>1. calls[c].live
      BY <2>2 DEF LoadReply, FeedInv
    <3> QED BY <2>2, <3>1, FeedReply DEF LoadReply
  <2>3. CASE LoadFails(c)
    BY <2>3, FeedReply DEF LoadFails
  <2>4. CASE DeleteCommit(c)
    <3>1. calls' = [calls EXCEPT ![c] = [calls[c] EXCEPT !.stage = "ok"]]
      BY <2>4 DEF DeleteCommit
    <3> QED BY <2>4, <3>1, FeedProgress DEF DeleteCommit, Call
  <2>5. CASE DeleteFails(c)
    <3>1. calls' = [calls EXCEPT ![c] = [calls[c] EXCEPT !.stage = "failed"]]
      BY <2>5 DEF DeleteFails
    <3> QED BY <2>5, <3>1, FeedProgress DEF DeleteFails, Call
  <2>6. CASE DeleteReply(c)
    BY <2>6, FeedReply DEF DeleteReply
  <2>7. CASE DeleteTraps(c)
    BY <1>4, <2>7 DEF DeleteTraps
  <2> QED BY <1>16, <2>1, <2>2, <2>3, <2>4, <2>5, <2>6, <2>7 DEF Answer
<1>17. CASE UNCHANGED vars
  BY <1>17, FeedFrame DEF vars, feedVars, LiveInFlight
<1>18. CASE ConnectionLost
  BY <1>18, FeedFrame, LossMarks DEF ConnectionLost, LiveInFlight
<1>19. ASSUME NEW p \in Posts, TakesEffectAgain(p) PROVE FeedInv'
  <2> DEFINE t == IF job[p].stage = "queued" THEN "applied" ELSE job[p].stage
  <2>1. t \in Stages \ InFlight
    BY <1>19 DEF TakesEffectAgain, ChainInv, ChainOK, Written, InPipeline, Stages, InFlight
  <2>2. job' = [job EXCEPT ![p] = [job[p] EXCEPT !.stage = t]] /\ UNCHANGED <<currentUser, feedVars>>
    BY <1>19 DEF TakesEffectAgain
  <2> HIDE DEF t
  <2> QED BY <1>8, <2>1, <2>2
<1> QED BY <1>1, <1>2, <1>3, <1>4, <1>5, <1>7, <1>9, <1>10, <1>11, <1>12, <1>13, <1>14, <1>15,
           <1>16, <1>17, <1>18, <1>19 DEF Next, Crash, Upload

(* A user who waits for each answer deletes the rows they swiped.          *)
THEOREM FreshIndexTheorem == Spec => []FreshIndex
<1>1. FeedInv => FreshIndex
  BY DEF FeedInv
<1> QED BY <1>1, FeedInit, FeedStep, ChainInvariance, PTL DEF Spec

-----------------------------------------------------------------------------
(***************************************************************************)
(* What a submission leaves in Storage.                                    *)
(***************************************************************************)
LEMMA OrphanInit == Init => OrphanInv
BY DEF Init, OrphanInv, OrphanOK

(* A chain that only moves on, or ends, with the URLs it had.              *)
LEMMA OrphanKept ==
  ASSUME NEW p \in Posts, OrphanOK(p),
         job'[p].urls = job[p].urls, job'[p].account = job[p].account,
         \/ job'[p].stage = job[p].stage
         \/ job'[p].stage \in {"stalled", "rejected"}
         \/ job[p].stage \in InPipeline /\ job'[p].stage \in {"applied", "stored"},
         \A b \in storage' : b.post = p => b \in storage
  PROVE  OrphanOK(p)'
<1>1. NextBlob(p)' = NextBlob(p)
  BY DEF NextBlob
<1>2. CASE job'[p].stage = job[p].stage
  BY <1>1, <1>2 DEF OrphanOK
<1>3. CASE job'[p].stage \in {"stalled", "rejected"}
  BY <1>3 DEF OrphanOK
<1>4. CASE job[p].stage \in InPipeline /\ job'[p].stage \in {"applied", "stored"}
  BY <1>4 DEF OrphanOK, InPipeline
<1> QED BY <1>2, <1>3, <1>4

(* A step about the submission of p alone.                                 *)
LEMMA OrphanLocal ==
  ASSUME ChainInv, OrphanInv, NEW p \in Posts, NEW k, job' = [job EXCEPT ![p] = k],
         \A b \in storage' : b.post # p => b \in storage, OrphanOK(p)'
  PROVE  OrphanInv'
<1> SUFFICES ASSUME NEW q \in Posts, q # p PROVE OrphanOK(q)'
  BY DEF OrphanInv
<1>1. job'[q] = job[q] /\ OrphanOK(q)
  BY DEF ChainInv, TypeOK, OrphanInv
<1> QED BY <1>1, OrphanKept

LEMMA OrphanFrame ==
  ASSUME OrphanInv, UNCHANGED <<job, storage>>
  PROVE  OrphanInv'
BY OrphanKept DEF OrphanInv

LEMMA OrphanSubmit ==
  ASSUME ChainInv, OrphanInv, NEW p \in Posts, Submit(p) PROVE OrphanInv'
<1> DEFINE start == [IdleJob EXCEPT !.poster = currentUser, !.live = TRUE]
<1>1. PICK k \in AddImageHelper(p, start) : job' = [job EXCEPT ![p] = k]
  BY DEF Submit
<1>2. job[p].stage = "idle" /\ storage' = storage
  BY DEF Submit, serverVars
<1>3. \A b \in storage : b.post # p
  BY <1>2 DEF OrphanInv, OrphanOK
<1> QED BY <1>1, <1>2, <1>3, OrphanLocal DEF OrphanOK

LEMMA OrphanPutDone ==
  ASSUME ChainInv, OrphanInv, NEW p \in Posts, PutDone(p) PROVE OrphanInv'
<1> DEFINE k == [job[p] EXCEPT !.stage = "url"]
<1>1. job' = [job EXCEPT ![p] = k] /\ storage' = storage \union {NextBlob(p)} /\ job[p].stage = "put"
  BY DEF PutDone
<1>2. job'[p].stage = "url" /\ job'[p].urls = job[p].urls /\ job'[p].account = job[p].account
  BY <1>1 DEF ChainInv, TypeOK, Job
<1>3. NextBlob(p)' = NextBlob(p) /\ NextBlob(p).post = p
  BY <1>2 DEF NextBlob
<1>4. OrphanOK(p)'
  BY <1>1, <1>2, <1>3 DEF OrphanInv, OrphanOK
<1> HIDE DEF k
<1> QED BY <1>1, <1>3, <1>4, OrphanLocal

LEMMA OrphanUrlReady ==
  ASSUME ChainInv, OrphanInv, NEW p \in Posts, UrlReady(p) PROVE OrphanInv'
<1> DEFINE more == [job[p] EXCEPT !.urls = Append(@, NextBlob(p))]
<1>1. PICK k \in AddImageHelper(p, more) : job' = [job EXCEPT ![p] = k]
  BY DEF UrlReady
<1>2. job[p] \in Job /\ NextBlob(p) \in Blob /\ job[p].stage = "url" /\ storage' = storage
  BY DEF UrlReady, ChainInv, ChainOK, TypeOK, serverVars
<1>3. job[p].urls \in Seq(Blob) /\ Append(job[p].urls, NextBlob(p)) \in Seq(Blob)
  BY <1>2 DEF Job
<1>4. more \in Job /\ more.urls = Append(job[p].urls, NextBlob(p))
  BY <1>2, <1>3, SMTT(30) DEF Job
<1> HIDE DEF more
<1>5. k.urls = Append(job[p].urls, NextBlob(p)) /\ k.stage \in {"stalled", "put", "queued"}
  BY <1>1, <1>4, HelperResult DEF ChainInv, TypeOK
<1>6. Range(k.urls) = Range(job[p].urls) \union {NextBlob(p)}
  BY <1>2, <1>3, <1>5, RowAppended
<1>7. job'[p] = k
  BY <1>1 DEF ChainInv, TypeOK
<1>8. OrphanOK(p)'
  BY <1>2, <1>5, <1>6, <1>7 DEF OrphanInv, OrphanOK
<1> QED BY <1>1, <1>2, <1>8, OrphanLocal

LEMMA OrphanRemotePublish ==
  ASSUME ChainInv, OrphanInv, NEW u \in Users, NEW p \in Posts, RemotePublish(u, p)
  PROVE  OrphanInv'
<1>0. PICK lost \in BOOLEAN :
      job' = [job EXCEPT ![p].stage = "stored", ![p].poster = u,
                         ![p].urls = RemoteBlobs(u, p), ![p].lost = lost]
  BY Zenon DEF RemotePublish
<1> DEFINE b == RemoteBlobs(u, p)
           k == [job[p] EXCEPT !.stage = "stored", !.poster = u, !.urls = b, !.lost = lost]
<1>1. /\ job' = [job EXCEPT ![p] = k]
      /\ storage' = storage \union {b[i] : i \in 1 .. ImageCount[p]}
      /\ job[p].stage = "idle"
  BY <1>0 DEF RemotePublish
<1>2. /\ b \in Seq(Blob) /\ DOMAIN b = 1 .. ImageCount[p]
      /\ \A i \in 1 .. ImageCount[p] : b[i].post = p
  BY RemoteBlobsWhole DEF RemoteBlobs
<1> HIDE DEF b
<1>3. job'[p].stage = "stored" /\ job'[p].urls = b
  <2>1. k.stage = "stored" /\ k.urls = b
    BY DEF ChainInv, TypeOK, Job
  <2> HIDE DEF k
  <2>2. job'[p] = k
    BY <1>1 DEF ChainInv, TypeOK
  <2> QED BY <2>1, <2>2
<1>4. Range(b) = {b[i] : i \in 1 .. ImageCount[p]}
  BY <1>2 DEF Range
<1>5. \A x \in storage : x.post # p
  BY <1>1 DEF OrphanInv, OrphanOK
<1>6. OrphanOK(p)'
  BY <1>1, <1>3, <1>4, <1>5 DEF OrphanOK
<1> HIDE DEF k
<1> QED BY <1>1, <1>2, <1>6, OrphanLocal

(* The steps that only end submissions, or mark them as no longer shown.   *)
LEMMA OrphanEnds ==
  ASSUME ChainInv, OrphanInv,
         \/ SignOut \/ Relaunch
         \/ ConnectionLost
         \/ \E p \in Posts : UploadFails(p) \/ Write(p) \/ TakesEffectAgain(p)
  PROVE  OrphanInv'
<1>1. storage' = storage /\ \A p \in Posts : job[p] \in Job
  BY DEF SignOut, Relaunch, ConnectionLost, UploadFails, Write, Commit, Acknowledge, Reject,
         TakesEffectAgain, serverVars, ChainInv, TypeOK
<1>2. \A p \in Posts :
        /\ job'[p].urls = job[p].urls /\ job'[p].account = job[p].account
        /\ \/ job'[p].stage = job[p].stage
           \/ job'[p].stage \in {"stalled", "rejected"}
           \/ job[p].stage \in InPipeline /\ job'[p].stage \in {"applied", "stored"}
  <2>1. CASE SignOut
    BY <1>1, <2>1 DEF SignOut, Job
  <2>2. CASE Relaunch
    <3> SUFFICES ASSUME NEW p \in Posts
                 PROVE  /\ job'[p].urls = job[p].urls /\ job'[p].account = job[p].account
                        /\ job'[p].stage = job[p].stage \/ job'[p].stage = "stalled"
      OBVIOUS
    <3>1. job'[p] = [job[p] EXCEPT !.live = FALSE,
                       !.stage = IF job[p].stage \in InFlight THEN "stalled" ELSE job[p].stage]
      BY <2>2 DEF Relaunch
    <3> QED BY <1>1, <3>1 DEF Job
  <2>3. ASSUME NEW p \in Posts, NEW s, job' = [job EXCEPT ![p] = [job[p] EXCEPT !.stage = s]]
        PROVE  /\ job'[p].urls = job[p].urls /\ job'[p].account = job[p].account
               /\ job'[p].stage = s
               /\ \A q \in Posts : q # p => job'[q] = job[q]
    BY <1>1, <2>3 DEF ChainInv, TypeOK, Job
  <2>4. ASSUME NEW p \in Posts, UploadFails(p) \/ Reject(p)
        PROVE  \E s \in {"stalled", "rejected"} : job' = [job EXCEPT ![p] = [job[p] EXCEPT !.stage = s]]
    BY <2>4 DEF UploadFails, Stalled, Reject
  <2>5. ASSUME NEW p \in Posts, Commit(p) \/ Acknowledge(p)
        PROVE  \E s \in {"applied", "stored"} : /\ job[p].stage \in InPipeline
                                                /\ job' = [job EXCEPT ![p] = [job[p] EXCEPT !.stage = s]]
    BY <2>5 DEF Commit, Acknowledge, Serving
  <2>6. CASE ConnectionLost
    BY <2>6, LossMarks
  <2>7. ASSUME NEW p \in Posts, TakesEffectAgain(p)
        PROVE  \E s : /\ s = job[p].stage \/ (job[p].stage \in InPipeline /\ s = "applied")
                      /\ job' = [job EXCEPT ![p] = [job[p] EXCEPT !.stage = s]]
    BY <2>7 DEF TakesEffectAgain, InPipeline
  <2> QED BY <2>1, <2>2, <2>3, <2>4, <2>5, <2>6, <2>7 DEF Write
<1> QED BY <1>1, <1>2, OrphanKept DEF OrphanInv

LEMMA OrphanStep == ChainInv /\ OrphanInv /\ [Next]_vars => OrphanInv'
<1> SUFFICES ASSUME ChainInv, OrphanInv, [Next]_vars PROVE OrphanInv'
  OBVIOUS
<1> USE DEF serverVars
<1>1. ASSUME NEW p \in Posts, Submit(p) \/ Upload(p) \/ Write(p) PROVE OrphanInv'
  BY <1>1, OrphanSubmit, OrphanPutDone, OrphanUrlReady, OrphanEnds DEF Upload
<1>2. ASSUME NEW u \in Users, NEW p \in Posts, RemotePublish(u, p) PROVE OrphanInv'
  BY <1>2, OrphanRemotePublish
<1>3. CASE SignOut \/ Crash \/ ConnectionLost \/ \E p \in Posts : TakesEffectAgain(p)
  BY <1>3, OrphanEnds DEF Crash
<1>4. ASSUME NEW c \in Calls, Answer(c) PROVE OrphanInv'
  BY <1>4, OrphanFrame, OrphanEnds DEF Answer, LoadRead, LoadReply, LoadFails, DeleteCommit,
     DeleteFails, DeleteReply, DeleteTraps
<1>5. ASSUME \/ \E u \in Users, c \in Calls : SignIn(u, c)
             \/ \E u \in LateUsers : LateSignIn(u) \/ LateLogin(u)
             \/ \E p \in Posts : RemoteDelete(p)
             \/ \E c \in Calls : ReloadFeed(c)
             \/ \E c \in Calls, i \in DOMAIN posts, M \in Searches : SwipeDelete(c, i, M)
             \/ UNCHANGED vars
      PROVE  OrphanInv'
  BY <1>5, OrphanFrame DEF SignIn, LateSignIn, LateLogin, RemoteDelete, ReloadFeed, SwipeDelete, vars
<1> QED BY <1>1, <1>2, <1>3, <1>4, <1>5 DEF Next

(* Whatever interrupts it, a submission that reached its end left no       *)
(* picture in Storage beside those its post shows.                         *)
THEOREM NoOrphanTheorem == Spec => []NoOrphanAfterSuccess
<1>1. ChainInv /\ OrphanInv => NoOrphanAfterSuccess
  BY DEF ChainInv, TypeOK, Blob, OrphanInv, OrphanOK, NoOrphanAfterSuccess
<1> QED BY <1>1, OrphanInit, OrphanStep, ChainInvariance, PTL DEF Spec

-----------------------------------------------------------------------------
(***************************************************************************)
(* The rows of the feed.                                                   *)
(***************************************************************************)
LEMMA RowsInit == Init => RowsInv
<1> SUFFICES ASSUME Init PROVE RowsInv
  OBVIOUS
<1>1. posts = <<>> /\ DOMAIN posts = {} /\ \A c \in Calls : calls[c].op # "load"
  BY DEF Init, FreeCall
<1> QED BY <1>1 DEF RowsInv, NoDuplicates, IsInjective, Range

(* What has been handed over stays so.                                     *)
LEMMA HandedOverGrows ==
  ASSUME ChainInv, [Next]_vars
  PROVE  HandedOver \subseteq HandedOver'
<1> SUFFICES ASSUME NEW p \in Posts, job[p].stage \in Written
             PROVE  job'[p].stage \in Written
  BY DEF HandedOver
<1>1. job[p] \in Job /\ p \in DOMAIN job
  BY DEF ChainInv, TypeOK
<1> USE DEF sessionVars, serverVars, feedVars, Written, InPipeline
<1>2. CASE job'[p] = job[p]
  BY <1>2
<1>3. ASSUME NEW q \in Posts, NEW k, job' = [job EXCEPT ![q] = k], job[q].stage \in {"idle", "put", "url"}
      PROVE  job'[p] = job[p]
  BY <1>1, <1>3 DEF ChainInv, TypeOK
<1>4. ASSUME NEW q \in Posts, Submit(q) \/ Upload(q) \/ (\E u \in Users : RemotePublish(u, q))
      PROVE  job'[p] = job[p]
  <2>1. CASE Submit(q)
    <3>1. PICK k : job' = [job EXCEPT ![q] = k]
      BY <2>1 DEF Submit
    <3> QED BY <1>3, <2>1, <3>1 DEF Submit
  <2>2. CASE PutDone(q)
    <3>1. job' = [job EXCEPT ![q] = [job[q] EXCEPT !.stage = "url"]]
      BY <2>2 DEF PutDone
    <3> QED BY <1>3, <2>2, <3>1 DEF PutDone
  <2>3. CASE UploadFails(q)
    BY <1>3, <2>3 DEF UploadFails, InFlight
  <2>4. CASE UrlReady(q)
    <3>1. PICK k : job' = [job EXCEPT ![q] = k]
      BY <2>4 DEF UrlReady
    <3> QED BY <1>3, <2>4, <3>1 DEF UrlReady
  <2>5. ASSUME NEW u \in Users, RemotePublish(u, q) PROVE job'[p] = job[p]
    <3>1. PICK k : job' = [job EXCEPT ![q] = k]
      BY <2>5 DEF RemotePublish
    <3> QED BY <1>3, <2>5, <3>1 DEF RemotePublish
  <2> QED BY <1>4, <2>1, <2>2, <2>3, <2>4, <2>5 DEF Upload
<1>5. ASSUME NEW q \in Posts, NEW t \in Written,
             job' = [job EXCEPT ![q] = [job[q] EXCEPT !.stage = t]]
      PROVE  job'[p].stage \in Written
  BY <1>1, <1>5 DEF Job
<1>6. ASSUME NEW q \in Posts, Write(q) \/ TakesEffectAgain(q) PROVE job'[p].stage \in Written
  <2>1. CASE Write(q)
    BY <1>5, <2>1 DEF Write, Commit, Acknowledge, Reject
  <2>2. CASE TakesEffectAgain(q)
    BY <1>5, <2>2 DEF TakesEffectAgain, ChainInv, ChainOK
  <2> QED BY <1>6, <2>1, <2>2
<1>7. CASE SignOut
  BY <1>1, <1>7 DEF SignOut, Job
<1>8. CASE Relaunch
  BY <1>1, <1>8 DEF Relaunch, Job, InFlight
<1>9. CASE UNCHANGED job
  BY <1>9
<1>10. ASSUME NEW c \in Calls, Answer(c), ~Relaunch PROVE UNCHANGED job
  BY <1>10 DEF Answer, LoadRead, LoadReply, LoadFails, DeleteCommit, DeleteFails, DeleteReply, DeleteTraps
<1>11. ASSUME \/ \E u \in Users, c \in Calls : SignIn(u, c)
              \/ \E u \in LateUsers : LateSignIn(u) \/ LateLogin(u)
              \/ \E q \in Posts : RemoteDelete(q)
              \/ \E c \in Calls : ReloadFeed(c)
              \/ \E c \in Calls, i \in DOMAIN posts, M \in Searches : SwipeDelete(c, i, M)
              \/ UNCHANGED vars
       PROVE  UNCHANGED job
  BY <1>11 DEF SignIn, LateSignIn, LateLogin, RemoteDelete, ReloadFeed, SwipeDelete, vars
<1>12. CASE ConnectionLost
  BY <1>12, LossMarks
<1> QED BY <1>4, <1>6, <1>7, <1>8, <1>9, <1>10, <1>11, <1>12 DEF Next, Crash

(* A list without one of its rows has the other rows, each once.           *)
LEMMA RowRemoved ==
  ASSUME NEW s \in Seq(Posts), NEW i \in DOMAIN s
  PROVE  /\ Range(RemoveAt(s, i)) \subseteq Range(s)
         /\ IsInjective(s) => IsInjective(RemoveAt(s, i))
<1> DEFINE t == RemoveAt(s, i)
           from(k) == IF k < i THEN k ELSE k + 1
<1>1. \A k \in DOMAIN t : from(k) \in DOMAIN s /\ t[k] = s[from(k)]
  <2> DEFINE a == SubSeq(s, 1, i - 1)
             b == SubSeq(s, i + 1, Len(s))
  <2>1. /\ a \in Seq(Posts) /\ Len(a) = i - 1 /\ \A k \in 1 .. i - 1 : a[k] = s[k]
        /\ b \in Seq(Posts) /\ Len(b) = Len(s) - i /\ \A k \in 1 .. Len(s) - i : b[k] = s[k + i]
        /\ Len(s) \in Nat /\ i \in 1 .. Len(s) /\ DOMAIN s = 1 .. Len(s)
    OBVIOUS
  <2>2. t = a \o b
    BY DEF RemoveAt
  <2> HIDE DEF a, b, t
  <2>3. DOMAIN t = 1 .. Len(a) + Len(b) /\ \A k \in 1 .. Len(a) + Len(b) :
          t[k] = IF k <= Len(a) THEN a[k] ELSE b[k - Len(a)]
    BY <2>1, <2>2
  <2> SUFFICES ASSUME NEW k \in DOMAIN t PROVE from(k) \in DOMAIN s /\ t[k] = s[from(k)]
    OBVIOUS
  <2> USE <2>1
  <2>4. CASE k < i
    <3>1. k <= Len(a) /\ k \in 1 .. i - 1 /\ k \in DOMAIN s
      BY <2>3, <2>4
    <3> QED BY <2>3, <2>4, <3>1
  <2>5. CASE ~(k < i)
    <3>1. /\ ~(k <= Len(a)) /\ k - Len(a) \in 1 .. Len(s) - i
          /\ k - Len(a) + i = k + 1 /\ k + 1 \in DOMAIN s
      BY <2>3, <2>5
    <3>2. b[k - Len(a)] = s[k + 1]
      BY <3>1
    <3> QED BY <2>3, <2>5, <3>1, <3>2
  <2> QED BY <2>4, <2>5
<1>2. \A k, l \in DOMAIN t : from(k) = from(l) => k = l
  <2>1. DOMAIN t \subseteq Nat /\ i \in Nat
    BY RemoveAtType
  <2> QED BY <2>1
<1> HIDE DEF t, from
<1> QED BY <1>1, <1>2 DEF IsInjective, Range, t

(* A step that leaves the feed alone.                                      *)
LEMMA RowsFrame ==
  ASSUME RowsInv, HandedOver \subseteq HandedOver', UNCHANGED feedVars
  PROVE  RowsInv'
BY DEF RowsInv, NoDuplicates, feedVars

(* The list is empty and what is loaded was read in order.                 *)
LEMMA RowsEmptied ==
  ASSUME RowsInv, HandedOver \subseteq HandedOver', posts' = <<>>,
         \A c \in Calls : calls'[c].op = "load" =>
            calls'[c].result = <<>> \/ (calls[c].op = "load" /\ calls'[c].result = calls[c].result)
  PROVE  RowsInv'
<1>1. DOMAIN posts' = {} /\ DOMAIN <<>> = {}
  OBVIOUS
<1>2. Range(posts') = {} /\ IsInjective(posts') /\ Range(<<>>) = {} /\ IsInjective(<<>>)
  BY <1>1 DEF Range, IsInjective
<1> QED BY <1>2 DEF RowsInv, NoDuplicates

(* A call that is over, or becomes or stays a delete.                      *)
LEMMA RowsOtherCall ==
  ASSUME ChainInv, RowsInv, HandedOver \subseteq HandedOver', NEW c \in Calls, NEW k,
         calls' = [calls EXCEPT ![c] = k], k.op # "load",
         posts' = posts, ~overlapped' => ~overlapped
  PROVE  RowsInv'
<1>1. \A d \in Calls : calls'[d].op = "load" => calls'[d] = calls[d]
  BY DEF ChainInv, TypeOK
<1> QED BY <1>1 DEF RowsInv, NoDuplicates

LEMMA RowsUrlReady ==
  ASSUME ChainInv, FeedInv, RowsInv, HandedOver \subseteq HandedOver',
         NEW p \in Posts, UrlReady(p)
  PROVE  RowsInv'
<1>1. PICK k : /\ job' = [job EXCEPT ![p] = k]
               /\ posts' = IF k.stage = "queued" /\ k.live THEN <<p>> \o posts ELSE posts
               /\ k \in AddImageHelper(p, [job[p] EXCEPT !.urls = Append(@, NextBlob(p))])
  BY DEF UrlReady
<1>2. /\ UNCHANGED <<calls, overlapped>> /\ job[p].stage = "url"
      /\ posts \in Seq(Posts) /\ job'[p] = k
  BY <1>1 DEF UrlReady, ChainInv, TypeOK
<1>3. CASE posts' = posts
  BY <1>2, <1>3, RowsFrame DEF feedVars
<1>4. CASE posts' # posts
  <2>1. posts' = <<p>> \o posts /\ k.stage = "queued" /\ k.live
    BY <1>1, <1>4
  <2>2. p \in HandedOver' /\ p \notin Range(posts)
    BY <1>2, <2>1 DEF HandedOver, Written, InPipeline, RowsInv
  <2>3. job[p].live
    <3> DEFINE more == [job[p] EXCEPT !.urls = Append(@, NextBlob(p))]
    <3>1. NextBlob(p) \in Blob /\ job[p] \in Job
      BY <1>2 DEF ChainInv, ChainOK, TypeOK
    <3>2. more \in Job /\ more.live = job[p].live
      BY <3>1, SMTT(30) DEF Job
    <3>3. k \in AddImageHelper(p, more)
      BY <1>1
    <3> HIDE DEF more
    <3> QED BY <2>1, <3>2, <3>3, HelperResult DEF ChainInv, TypeOK
  <2>4. ~overlapped => \A c \in Calls : calls[c].op # "load"
    BY <1>2, <2>3 DEF FeedInv, LiveInFlight, InFlight
  <2>5. /\ \A i \in DOMAIN posts' : i = 1 \/ (i - 1 \in DOMAIN posts /\ posts'[i] = posts[i - 1])
        /\ posts'[1] = p /\ DOMAIN posts' \subseteq Nat
    BY <1>2, <2>1
  <2>6. Range(posts') \subseteq {p} \union Range(posts)
    BY <2>5 DEF Range
  <2>7. ~overlapped => IsInjective(posts')
    <3> SUFFICES ASSUME ~overlapped, NEW i \in DOMAIN posts', NEW j \in DOMAIN posts', posts'[i] = posts'[j]
                 PROVE  i = j
      BY DEF IsInjective
    <3>1. \A l \in DOMAIN posts : posts[l] # p
      BY <2>2 DEF Range
    <3>2. CASE i = 1 \/ j = 1
      BY <2>5, <3>1, <3>2
    <3>3. CASE i # 1 /\ j # 1
      <4>1. i - 1 = j - 1
        BY <2>5, <3>3 DEF RowsInv, NoDuplicates, IsInjective
      <4> QED BY <2>5, <4>1
    <3> QED BY <3>2, <3>3
  <2> QED BY <1>2, <2>2, <2>4, <2>6, <2>7 DEF RowsInv, NoDuplicates
<1> QED BY <1>3, <1>4

(* A query lists each post it finds once, and finds what has been handed   *)
(* over.                                                                   *)
LEMMA RowsLoadRead ==
  ASSUME ChainInv, RowsInv, HandedOver \subseteq HandedOver', NEW c \in Calls, LoadRead(c)
  PROVE  RowsInv'
<1>1. PICK M \in Searches : \E found \in SetToSeqs(LocalView \intersect M) :
        calls' = [calls EXCEPT ![c].stage = "ok", ![c].result = found]
  BY DEF LoadRead
<1>2. PICK found \in SetToSeqs(LocalView \intersect M) :
        calls' = [calls EXCEPT ![c].stage = "ok", ![c].result = found]
  BY <1>1
<1>3. LocalView \intersect M \subseteq HandedOver /\ LocalView \intersect M \in SUBSET Posts
  BY DEF LocalView, Serving, HandedOver, Written, InPipeline, ChainInv, ChainOK
<1>4. Range(found) \subseteq HandedOver /\ IsInjective(found)
  <2>1. IsFiniteSet(LocalView \intersect M)
    BY <1>3, ConstantsAssumption, FS_Subset
  <2>2. Cardinality(LocalView \intersect M) \in Nat
    BY <2>1, FS_CardinalityType
  <2>3. found \in [1 .. Cardinality(LocalView \intersect M) -> LocalView \intersect M] /\ IsInjective(found)
    BY DEF SetToSeqs, IsInjective
  <2> QED BY <1>3, <2>3 DEF Range
<1>5. calls[c] \in Call /\ calls'[c] = [calls[c] EXCEPT !.stage = "ok", !.result = found]
  BY <1>2 DEF ChainInv, TypeOK
<1>6. calls'[c].result = found /\ calls'[c].op = calls[c].op
  BY <1>5 DEF Call
<1>7. UNCHANGED <<posts, overlapped>> /\ \A d \in Calls : d # c => calls'[d] = calls[d]
  BY <1>2 DEF LoadRead, ChainInv, TypeOK
<1> QED BY <1>4, <1>6, <1>7 DEF RowsInv, NoDuplicates

LEMMA RowsLoadReply ==
  ASSUME ChainInv, FeedInv, RowsInv, HandedOver \subseteq HandedOver', NEW c \in Calls, LoadReply(c)
  PROVE  RowsInv'
<1> DEFINE found == calls[c].result
<1>1. /\ calls[c].op = "load" /\ calls[c].live
      /\ posts' = posts \o found
      /\ calls' = [calls EXCEPT ![c] = FreeCall]
      /\ overlapped' = overlapped
      /\ posts \in Seq(Posts) /\ found \in Seq(Posts)
  BY DEF LoadReply, FeedInv, ChainInv, TypeOK, Call
<1>2. \A d \in Calls : calls'[d].op = "load" => d # c /\ calls'[d] = calls[d]
  BY <1>1 DEF ChainInv, TypeOK, FreeCall
<1>3. /\ Range(posts) \subseteq HandedOver /\ Range(found) \subseteq HandedOver
      /\ ~overlapped => posts = <<>> /\ IsInjective(found)
  BY <1>1 DEF RowsInv
<1>4. Range(posts') \subseteq Range(posts) \union Range(found)
  <2>1. \A i \in DOMAIN (posts \o found) :
          \/ i \in DOMAIN posts /\ (posts \o found)[i] = posts[i]
          \/ i - Len(posts) \in DOMAIN found /\ (posts \o found)[i] = found[i - Len(posts)]
    BY <1>1
  <2> QED BY <1>1, <2>1 DEF Range
<1>5. ~overlapped => posts' = found
  BY <1>1, <1>3
<1>6. ~overlapped => \A d \in Calls : calls'[d].op # "load"
  BY <1>1, <1>2 DEF FeedInv
<1> QED BY <1>1, <1>2, <1>3, <1>4, <1>5, <1>6 DEF RowsInv, NoDuplicates

LEMMA RowsDeleteReply ==
  ASSUME ChainInv, FeedInv, RowsInv, HandedOver \subseteq HandedOver', NEW c \in Calls, DeleteReply(c)
  PROVE  RowsInv'
<1>1. /\ calls' = [calls EXCEPT ![c] = FreeCall] /\ FreeCall.op # "load"
      /\ overlapped' = overlapped /\ calls[c].op = "delete" /\ posts \in Seq(Posts)
  BY DEF DeleteReply, FreeCall, ChainInv, TypeOK
<1>2. CASE ~calls[c].live
  <2>1. posts' = posts
    BY <1>2 DEF DeleteReply
  <2> QED BY <1>1, <2>1, RowsOtherCall
<1>3. CASE calls[c].live
  <2>1. calls[c].index \in DOMAIN posts /\ posts' = RemoveAt(posts, calls[c].index)
    BY <1>3 DEF DeleteReply
  <2>2. Range(posts') \subseteq Range(posts) /\ (IsInjective(posts) => IsInjective(posts'))
    BY <1>1, <2>1, RowRemoved
  <2>3. \A d \in Calls : calls'[d].op = "load" => d # c /\ calls'[d] = calls[d]
    BY <1>1 DEF ChainInv, TypeOK
  <2>4. ~overlapped => \A d \in Calls : calls'[d].op # "load"
    BY <1>1, <1>3, <2>3 DEF FeedInv
  <2>5. Range(posts') \subseteq HandedOver' /\ NoDuplicates'
    BY <1>1, <2>2 DEF RowsInv, NoDuplicates
  <2>6. ASSUME NEW d \in Calls, calls'[d].op = "load"
        PROVE  /\ IsInjective(calls'[d].result)
               /\ Range(calls'[d].result) \subseteq HandedOver'
    BY <2>3, <2>6 DEF RowsInv
  <2> QED BY <1>1, <2>4, <2>5, <2>6 DEF RowsInv
<1> QED BY <1>2, <1>3

(* The feed leaves the screen, or the list is emptied for a new load.      *)
LEMMA RowsRenewed ==
  ASSUME ChainInv, RowsInv, HandedOver \subseteq HandedOver',
         \/ DropFeed
         \/ \E u \in Users, c \in Calls : SignIn(u, c)
         \/ \E c \in Calls : ReloadFeed(c)
  PROVE  RowsInv'
<1>1. CASE DropFeed
  <2>1. ASSUME NEW c \in Calls PROVE calls'[c].op # "load"
    <3>1. CASE calls[c].op = "delete"
      BY <1>1, <3>1 DEF DropFeed, ChainInv, TypeOK, Call
    <3>2. CASE calls[c].op # "delete"
      BY <1>1, <3>2 DEF DropFeed, FreeCall
    <3> QED BY <3>1, <3>2
  <2> QED BY <1>1, <2>1, RowsEmptied DEF DropFeed
<1>2. ASSUME NEW u, NEW c \in Calls, calls' = [calls EXCEPT ![c] = FreshCall("load", u)], posts' = <<>>
      PROVE  RowsInv'
  <2>1. FreshCall("load", u).result = <<>>
    BY DEF FreshCall, FreeCall
  <2>2. calls'[c] = FreshCall("load", u) /\ \A d \in Calls : d # c => calls'[d] = calls[d]
    BY <1>2 DEF ChainInv, TypeOK
  <2> QED BY <1>2, <2>1, <2>2, RowsEmptied
<1> QED BY <1>1, <1>2 DEF SignIn, ReloadFeed

LEMMA RowsStep == ChainInv /\ FeedInv /\ RowsInv /\ [Next]_vars => RowsInv'
<1> SUFFICES ASSUME ChainInv, FeedInv, RowsInv, [Next]_vars PROVE RowsInv'
  OBVIOUS
<1>1. HandedOver \subseteq HandedOver'
  BY HandedOverGrows
<1>2. ASSUME NEW p \in Posts, Submit(p) PROVE RowsInv'
  BY <1>1, <1>2 DEF Submit, RowsInv, NoDuplicates
<1>3. ASSUME NEW p \in Posts, Upload(p) PROVE RowsInv'
  BY <1>1, <1>3, RowsUrlReady, RowsFrame DEF Upload, PutDone, UploadFails
<1>4. ASSUME NEW p \in Posts,
             \/ Write(p) \/ TakesEffectAgain(p) \/ RemoteDelete(p)
             \/ \E u \in Users : RemotePublish(u, p)
      PROVE  RowsInv'
  <2>1. UNCHANGED feedVars
    BY <1>4 DEF Write, Commit, Acknowledge, Reject, TakesEffectAgain, RemoteDelete, RemotePublish
  <2> QED BY <1>1, <2>1, RowsFrame
<1>5. CASE \/ SignOut \/ Relaunch
           \/ \E u \in Users, c \in Calls : SignIn(u, c)
           \/ \E c \in Calls : ReloadFeed(c)
  BY <1>1, <1>5, RowsRenewed DEF SignOut, Relaunch
<1>6. ASSUME NEW c \in Calls, Answer(c) PROVE RowsInv'
  <2>1. CASE LoadFails(c)
    <3>1. FreeCall.op # "load"
      BY DEF FreeCall
    <3>2. calls' = [calls EXCEPT ![c] = FreeCall] /\ posts' = posts /\ overlapped' = overlapped
      BY <2>1 DEF LoadFails
    <3> QED BY <1>1, <3>1, <3>2, RowsOtherCall
  <2>2. CASE DeleteCommit(c) \/ DeleteFails(c)
    <3>1. PICK t : calls' = [calls EXCEPT ![c] = [calls[c] EXCEPT !.stage = t]]
      BY <2>2 DEF DeleteCommit, DeleteFails
    <3>2. [calls[c] EXCEPT !.stage = t].op # "load"
      BY <2>2 DEF DeleteCommit, DeleteFails, ChainInv, TypeOK, Call
    <3>3. UNCHANGED <<posts, overlapped>>
      BY <2>2 DEF DeleteCommit, DeleteFails
    <3> QED BY <1>1, <3>1, <3>2, <3>3, RowsOtherCall
  <2>3. CASE LoadRead(c) \/ LoadReply(c) \/ DeleteReply(c)
    BY <1>1, <2>3, RowsLoadRead, RowsLoadReply, RowsDeleteReply
  <2> QED BY <1>5, <1>6, <2>1, <2>2, <2>3 DEF Answer, DeleteTraps
<1>7. ASSUME NEW c \in Calls, NEW i \in DOMAIN posts, NEW M \in Searches, SwipeDelete(c, i, M)
      PROVE  RowsInv'
  <2>1. PICK index \in 1 .. i :
          calls' = [calls EXCEPT ![c] = [FreshCall("delete", authUser)
                                           EXCEPT !.post = posts[i], !.index = index]]
    BY <1>7 DEF SwipeDelete
  <2>2. [FreshCall("delete", authUser) EXCEPT !.post = posts[i], !.index = index].op # "load"
    BY DEF FreshCall, FreeCall
  <2>3. posts' = posts /\ overlapped' = (overlapped \/ Busy)
    BY <1>7 DEF SwipeDelete
  <2> QED BY <1>1, <2>1, <2>2, <2>3, RowsOtherCall
<1>8. CASE UNCHANGED vars \/ ConnectionLost \/ \E u \in LateUsers : LateSignIn(u) \/ LateLogin(u)
  BY <1>1, <1>8, RowsFrame DEF vars, ConnectionLost, LateSignIn, LateLogin, feedVars
<1> QED BY <1>2, <1>3, <1>4, <1>5, <1>6, <1>7, <1>8 DEF Next, Crash

(* A user who waits for each answer never sees a post twice, although a    *)
(* load appends to what is there and a submission inserts its own post.    *)
THEOREM NoDuplicatesTheorem == Spec => []NoDuplicates
<1>1. RowsInv => NoDuplicates
  BY DEF RowsInv
<1> QED BY <1>1, RowsInit, RowsStep, FeedInit, FeedStep, ChainInvariance, PTL DEF Spec
=============================================================================
