------------------------- MODULE BatchDeleteProofs -------------------------
(***************************************************************************)
(* Proofs about BatchDelete, for any number of pictures and of errors.     *)
(***************************************************************************)
EXTENDS BatchDelete, TLAPS

(* What is collected, and what is reported after the last picture: a list  *)
(* for each result, the last of which holds all of them.                   *)
LEMMA CollectFacts ==
  ASSUME NEW s \in Seq(BOOLEAN), NEW results \in Seq(BOOLEAN)
  PROVE  /\ s \o results \in Seq(BOOLEAN)
         /\ Range(s) \subseteq Range(s \o results)
         /\ Range(results) \subseteq Range(s \o results)
<1>1. s \o results \in Seq(BOOLEAN)
  OBVIOUS
<1>2. \A i \in DOMAIN s : i \in DOMAIN (s \o results) /\ (s \o results)[i] = s[i]
  OBVIOUS
<1>3. \A i \in DOMAIN results :
        Len(s) + i \in DOMAIN (s \o results) /\ (s \o results)[Len(s) + i] = results[i]
  OBVIOUS
<1>4. Range(s) \subseteq Range(s \o results)
  BY <1>2 DEF Range
<1>5. Range(results) \subseteq Range(s \o results)
  BY <1>3 DEF Range
<1> QED BY <1>1, <1>4, <1>5

LEMMA PrefixFacts ==
  ASSUME NEW results \in Seq(BOOLEAN), NEW k \in DOMAIN results
  PROVE  /\ SubSeq(results, 1, k) \in Seq(BOOLEAN)
         /\ k = Len(results) => SubSeq(results, 1, k) = results
OBVIOUS

LEMMA LastOfConcat ==
  ASSUME NEW S, NEW r \in Seq(S), NEW n \in Nat \ {0}, NEW more \in [1 .. n -> S]
  PROVE  r \o more \in Seq(S) /\ r \o more # <<>> /\ Last(r \o more) = more[n]
<1>1. more \in Seq(S) /\ Len(more) = n
  OBVIOUS
<1>2. /\ r \o more \in Seq(S) /\ Len(r \o more) = Len(r) + n /\ Len(r) \in Nat
      /\ (r \o more)[Len(r) + n] = more[n]
  BY <1>1
<1>3. r \o more # <<>>
  BY <1>2
<1> QED BY <1>2, <1>3 DEF Last

LEMMA ReportFacts ==
  ASSUME NEW r \in Seq(Seq(BOOLEAN)), NEW s \in Seq(BOOLEAN),
         NEW results \in Seq(BOOLEAN), results # <<>>
  PROVE  LET more == [k \in DOMAIN results |-> s \o SubSeq(results, 1, k)] IN
         r \o more \in Seq(Seq(BOOLEAN)) /\ r \o more # <<>> /\ Last(r \o more) = s \o results
<1> DEFINE more == [k \in DOMAIN results |-> s \o SubSeq(results, 1, k)]
<1>1. DOMAIN results = 1 .. Len(results) /\ Len(results) \in Nat \ {0}
  OBVIOUS
<1>2. \A k \in 1 .. Len(results) : more[k] \in Seq(BOOLEAN)
  BY <1>1, PrefixFacts, CollectFacts
<1>3. more = [k \in 1 .. Len(results) |-> more[k]]
  BY <1>1
<1>4. more[Len(results)] = s \o results
  BY <1>1, PrefixFacts
<1> HIDE DEF more
<1>5. more \in [1 .. Len(results) -> Seq(BOOLEAN)]
  BY <1>2, <1>3, Zenon
<1>6. /\ r \o more \in Seq(Seq(BOOLEAN)) /\ r \o more # <<>>
      /\ Last(r \o more) = more[Len(results)]
  <2> DEFINE S == Seq(BOOLEAN)
             n == Len(results)
  <2>1. r \in Seq(S) /\ n \in Nat \ {0} /\ more \in [1 .. n -> S]
    BY <1>1, <1>5
  <2> HIDE DEF S, n
  <2>2. r \o more \in Seq(S) /\ r \o more # <<>> /\ Last(r \o more) = more[n]
    BY <2>1, LastOfConcat
  <2> QED BY <2>2 DEF S, n
<1> QED BY <1>4, <1>6 DEF more

-----------------------------------------------------------------------------
LEMMA BatchStart == Init => BatchInv
<1> SUFFICES ASSUME Init PROVE BatchInv
  OBVIOUS
<1>1. <<>> \in Seq(BOOLEAN) /\ <<>> \in Seq(Seq(BOOLEAN))
  OBVIOUS
<1>2. TypeOK
  <2>1. {currentUser, started} \subseteq BOOLEAN /\ stored \subseteq Urls /\ errors \in 0 .. MaxErrors
    <3>1. 0 \in 0 .. MaxErrors
      BY BatchAssumption
    <3>2. stored \in SUBSET Urls
      BY DEF Init
    <3> QED BY <3>1, <3>2 DEF Init
  <2>2. pending \in [Urls -> Nat]
    BY DEF Init
  <2>3. successes \in Seq(BOOLEAN) /\ reports \in Seq(Seq(BOOLEAN))
    BY <1>1 DEF Init
  <2> QED BY <2>1, <2>2, <2>3 DEF TypeOK
<1> QED BY <1>2 DEF Init, BatchInv, ReportOK, AheadOK

LEMMA DeleteImagesKeeps ==
  ASSUME BatchInv, DeleteImages
  PROVE  BatchInv'
<1> USE DEF DeleteImages
<1>1. successes = <<>> /\ reports' = IF N = 0 THEN <<successes>> ELSE <<>>
  BY DEF BatchInv, ReportOK
<1>2. N \in Nat /\ (N # 0 => 1 \in Urls /\ pending'[1] = 1) /\ (N = 0 => Urls = {})
  BY BatchAssumption DEF Urls
<1>3. <<>> \in Seq(Seq(BOOLEAN)) /\ <<successes>> \in Seq(Seq(BOOLEAN))
  BY DEF BatchInv, TypeOK
<1>4. TypeOK'
  <2>1. pending' \in [Urls -> Nat]
    OBVIOUS
  <2>2. reports' \in Seq(Seq(BOOLEAN))
    BY <1>1, <1>3
  <2> QED BY <2>1, <2>2 DEF BatchInv, TypeOK
<1>5. ReportOK'
  <2>1. CASE N = 0
    <3>1. <<successes>> # <<>> /\ Last(<<successes>>) = successes
      BY DEF Last
    <3> QED BY <1>1, <2>1, <3>1 DEF ReportOK
  <2>2. CASE N # 0
    BY <1>2, <2>2 DEF ReportOK
  <2> QED BY <2>1, <2>2
<1>6. AheadOK'
  <2> SUFFICES ASSUME NEW i \in stored
               PROVE  \E j \in 1 .. i : pending'[j] > 0
    BY DEF AheadOK
  <2>1. i \in Urls /\ i \in Nat /\ i >= 1
    BY DEF BatchInv, TypeOK, Urls
  <2>2. N # 0 /\ 1 \in 1 .. i
    BY <1>2, <2>1
  <2> QED BY <1>2, <2>2
<1> QED BY <1>4, <1>5, <1>6 DEF BatchInv

(* The answer for picture i: the chain moves on to the next, or reports.   *)
LEMMA HelperKeeps ==
  ASSUME BatchInv, started, NEW i \in Urls, pending[i] > 0,
         NEW results \in Seq(BOOLEAN), results # <<>>, DeleteImageHelper(i, results),
         UNCHANGED <<currentUser, started>>, stored' \subseteq stored,
         errors' \in 0 .. MaxErrors,
         i \notin stored' \/ FALSE \in Range(results)
  PROVE  BatchInv'
<1>0. /\ successes \in Seq(BOOLEAN) /\ reports \in Seq(Seq(BOOLEAN))
      /\ pending \in [Urls -> Nat] /\ stored \subseteq Urls
  BY DEF BatchInv, TypeOK
<1>1. successes' = successes \o results
  BY DEF DeleteImageHelper
<1>2. Len(results) \in Nat /\ Len(results) > 0
  OBVIOUS
<1>3. /\ successes' \in Seq(BOOLEAN) /\ Range(successes) \subseteq Range(successes')
      /\ Range(results) \subseteq Range(successes')
  BY <1>0, <1>1, CollectFacts
<1>4. i \in Nat /\ i >= 1 /\ i <= N /\ N \in Nat /\ pending[i] \in Nat
  BY <1>0, BatchAssumption DEF Urls
<1>5. pending' = [j \in Urls |-> CASE j = i     -> pending[j] - 1
                                   [] j = i + 1 -> pending[j] + Len(results)
                                   [] OTHER     -> pending[j]]
  BY DEF DeleteImageHelper
<1>6. /\ pending'[i] = pending[i] - 1
      /\ i + 1 \in Urls => pending'[i + 1] = pending[i + 1] + Len(results)
      /\ \A j \in Urls \ {i, i + 1} : pending'[j] = pending[j]
  BY <1>4, <1>5
<1>7. pending' \in [Urls -> Nat]
  <2>1. \A j \in Urls : pending'[j] \in Nat
    <3> SUFFICES ASSUME NEW j \in Urls PROVE pending'[j] \in Nat
      OBVIOUS
    <3>1. pending[j] \in Nat
      BY <1>0
    <3> QED BY <1>2, <1>4, <1>6, <3>1
  <2> QED BY <1>5, <2>1
<1>8. \A j \in Urls \ {i} : pending[j] > 0 => pending'[j] > 0
  BY <1>0, <1>2, <1>6
<1>9. i < N => i + 1 \in Urls /\ pending'[i + 1] > 0
  BY <1>0, <1>2, <1>4, <1>6 DEF Urls
<1>10. reports' \in Seq(Seq(BOOLEAN)) /\ (~(i < N) => reports' # <<>> /\ Last(reports') = successes')
  <2>1. CASE i < N
    BY <1>0, <2>1 DEF DeleteImageHelper
  <2>2. CASE ~(i < N)
    <3>1. reports' = reports \o [k \in DOMAIN results |-> successes \o SubSeq(results, 1, k)]
      BY <2>2 DEF DeleteImageHelper
    <3> QED BY <1>0, <1>1, <3>1, ReportFacts
  <2> QED BY <2>1, <2>2
<1>11. TypeOK'
  BY <1>0, <1>3, <1>7, <1>10 DEF TypeOK, BatchInv
<1>12. ReportOK'
  BY <1>9, <1>10 DEF ReportOK
<1>13. AheadOK'
  <2> SUFFICES ASSUME NEW m \in stored', FALSE \notin Range(successes')
               PROVE  \E j \in 1 .. m : pending'[j] > 0
    BY DEF AheadOK
  <2>1. m \in stored /\ m # i /\ FALSE \notin Range(successes)
    BY <1>3
  <2>2. PICK j \in 1 .. m : pending[j] > 0
    BY <2>1 DEF BatchInv, AheadOK
  <2>3. m \in Nat /\ m <= N /\ j \in Urls /\ j \in Nat
    BY <1>0, <2>1, <2>2, BatchAssumption DEF Urls
  <2>4. CASE j # i
    BY <1>8, <2>2, <2>3, <2>4
  <2>5. CASE j = i
    <3>1. i < N /\ i + 1 \in 1 .. m
      BY <1>4, <2>1, <2>2, <2>3, <2>5
    <3> QED BY <1>9, <3>1
  <2> QED BY <2>4, <2>5
<1> QED BY <1>11, <1>12, <1>13 DEF BatchInv

LEMMA Running ==
  ASSUME BatchInv, NEW i \in Urls, pending[i] > 0
  PROVE  started
BY DEF BatchInv, ReportOK

LEMMA ResultFacts ==
  /\ <<TRUE>> \in Seq(BOOLEAN) /\ <<TRUE>> # <<>>
  /\ <<FALSE, TRUE>> \in Seq(BOOLEAN) /\ <<FALSE, TRUE>> # <<>>
  /\ FALSE \in Range(<<FALSE, TRUE>>)
<1>1. 1 \in DOMAIN <<FALSE, TRUE>> /\ <<FALSE, TRUE>>[1] = FALSE
  OBVIOUS
<1>2. FALSE \in Range(<<FALSE, TRUE>>)
  BY <1>1 DEF Range
<1>3. <<TRUE>> \in Seq(BOOLEAN) /\ <<TRUE>> # <<>>
  OBVIOUS
<1>4. <<FALSE, TRUE>> \in Seq(BOOLEAN) /\ <<FALSE, TRUE>> # <<>>
  OBVIOUS
<1> QED BY <1>2, <1>3, <1>4

LEMMA DeletedKeeps ==
  ASSUME BatchInv, NEW i \in Urls, Deleted(i)
  PROVE  BatchInv'
<1>1. /\ pending[i] > 0 /\ stored' = stored \ {i} /\ DeleteImageHelper(i, <<TRUE>>)
      /\ UNCHANGED <<currentUser, started>> /\ errors' = errors
  BY DEF Deleted
<1>2. started /\ errors' \in 0 .. MaxErrors
  BY <1>1, Running DEF BatchInv, TypeOK
<1> QED BY <1>1, <1>2, ResultFacts, HelperKeeps

LEMMA FailsKeeps ==
  ASSUME BatchInv, NEW i \in Urls, Fails(i)
  PROVE  BatchInv'
<1>1. /\ pending[i] > 0 /\ stored' = stored /\ DeleteImageHelper(i, <<FALSE, TRUE>>)
      /\ UNCHANGED <<currentUser, started>>
  BY DEF Fails
<1>2. started /\ errors' \in 0 .. MaxErrors
  BY <1>1, Running, BatchAssumption DEF BatchInv, TypeOK, Fails
<1> QED BY <1>1, <1>2, ResultFacts, HelperKeeps

(* The inductive invariant of the recursion of deleteImages.               *)
THEOREM BatchInvariance == Spec => []BatchInv
<1>1. BatchInv /\ [Next]_vars => BatchInv'
  <2> SUFFICES ASSUME BatchInv, [Next]_vars PROVE BatchInv'
    OBVIOUS
  <2>1. CASE UNCHANGED vars
    BY <2>1 DEF vars, BatchInv, TypeOK, ReportOK, AheadOK
  <2>2. CASE Done
    BY <2>1, <2>2 DEF Done
  <2>3. CASE SessionChanges
    BY <2>3 DEF SessionChanges, BatchInv, TypeOK, ReportOK, AheadOK
  <2> QED BY <2>1, <2>2, <2>3, DeleteImagesKeeps, DeletedKeeps, FailsKeeps DEF Next
<1> QED BY <1>1, BatchStart, PTL DEF Spec

(* deleteImages: when it has stopped and a picture of the list is still in *)
(* Storage, the last report holds a failure, for any number of pictures,   *)
(* whichever deletions fail and however often the recursion forks.         *)
THEOREM LeftoversReportedTheorem == Spec => []LeftoversReported
<1>1. BatchInv => LeftoversReported
  <2> SUFFICES ASSUME BatchInv, Quiet, NEW i \in stored
               PROVE  FALSE \in Range(Last(reports))
    BY DEF LeftoversReported
  <2>1. started /\ \A j \in Urls : pending[j] = 0
    BY DEF Quiet
  <2>2. \A j \in 1 .. i : j \in Urls
    BY BatchAssumption DEF BatchInv, TypeOK, Urls
  <2>3. FALSE \in Range(successes)
    <3>1. \A j \in 1 .. i : ~(pending[j] > 0)
      BY <2>1, <2>2
    <3> QED BY <2>1, <3>1 DEF BatchInv, AheadOK
  <2>4. Last(reports) = successes
    BY <2>1 DEF BatchInv, ReportOK
  <2> QED BY <2>3, <2>4
<1> QED BY <1>1, BatchInvariance, PTL
=============================================================================
