--------------------------- MODULE SessionProofs ---------------------------
(***************************************************************************)
(* Proofs about Session, for any users, any number of attempts at a time,  *)
(* and any number of failures and crashes.                                 *)
(***************************************************************************)
EXTENDS Session, TLAPS

LEMMA FreeFacts ==
  /\ Free \in Attempt
  /\ Free.op = "none"
  /\ Free.stage = "sent"
BY DEF Free, Attempt, MaybeUser, Stages

LEMMA SessionInit == Init => SessionInv
<1> SUFFICES ASSUME Init PROVE SessionInv
  OBVIOUS
<1>1. TypeOK
  <2>1. 0 \in 0 .. MaxErrors /\ 0 \in 0 .. MaxCrashes
    BY SessionAssumption
  <2>2. attempts \in [Slots -> Attempt]
    BY FreeFacts DEF Init
  <2> QED BY <2>1, <2>2 DEF Init, TypeOK, MaybeUser
<1>2. \A s \in Slots : attempts[s] = Free
  BY DEF Init
<1>3. HalfAccounts = {}
  BY DEF Init, HalfAccounts
<1>4. RegistrationIsWhole
  BY <1>3 DEF RegistrationIsWhole
<1>5. \A s \in Slots : AttemptOK(s)
  BY <1>2, FreeFacts DEF AttemptOK
<1>6. ~loggedIn /\ currentUser = NoUser
  BY DEF Init
<1> QED BY <1>1, <1>2, <1>4, <1>5, <1>6, FreeFacts DEF SessionInv

(* What changing one attempt does to the table of attempts.                *)
LEMMA StepTo ==
  ASSUME TypeOK, NEW s \in Slots, NEW stage \in Stages, To(s, stage)
  PROVE  /\ attempts' \in [Slots -> Attempt]
         /\ attempts'[s].op = attempts[s].op
         /\ attempts'[s].user = attempts[s].user
         /\ attempts'[s].stage = stage
         /\ \A t \in Slots \ {s} : attempts'[t] = attempts[t]
BY DEF TypeOK, To, Attempt

LEMMA StepEnd ==
  ASSUME TypeOK, NEW s \in Slots, End(s)
  PROVE  /\ attempts' \in [Slots -> Attempt]
         /\ attempts'[s] = Free
         /\ \A t \in Slots \ {s} : attempts'[t] = attempts[t]
BY FreeFacts DEF TypeOK, End

LEMMA BeginKeeps ==
  ASSUME SessionInv, NEW s \in Slots, NEW op \in {"login", "register"}, NEW u \in Users,
         Begin(s, op, u)
  PROVE  SessionInv'
<1> DEFINE new == [op |-> op, user |-> u, stage |-> "sent"]
<1>0. TypeOK /\ attempts \in [Slots -> Attempt]
  BY DEF SessionInv, TypeOK
<1>1. new \in Attempt /\ new.op # "none" /\ new.user \in Users /\ new.stage = "sent"
  BY DEF Attempt, MaybeUser, Stages
<1>2. attempts' = [attempts EXCEPT ![s] = new]
  BY DEF Begin
<1>3. /\ attempts'[s] = new
      /\ \A t \in Slots \ {s} : attempts'[t] = attempts[t]
      /\ attempts' \in [Slots -> Attempt]
  BY <1>0, <1>1, <1>2
<1> HIDE DEF new
<1>4. /\ UNCHANGED <<accounts, profiles, pending, authUser, currentUser, loggedIn, errors, crashes>>
      /\ ~loggedIn
      /\ overlapped' \in BOOLEAN
      /\ ~overlapped' => ~overlapped /\ ~Busy
  BY DEF Begin, serverVars
<1>5. TypeOK'
  BY <1>0, <1>3, <1>4 DEF TypeOK
<1>6. \A t \in Slots : IF attempts'[t].op = "none" THEN attempts'[t] = Free
                                                   ELSE attempts'[t].user \in Users
  BY <1>1, <1>3 DEF SessionInv
<1>7. ~overlapped' => \A t \in Slots : AttemptOK(t)'
  BY <1>1, <1>3, <1>4 DEF AttemptOK, Answered, Busy
<1>8. NoDocument' <=> NoDocument
  BY <1>4 DEF NoDocument, HalfAccounts
<1>9. \A t \in Slots : attempts'[t].stage = "missing" => attempts[t].stage = "missing"
  BY <1>1, <1>3
<1>10. HalfAccounts' = HalfAccounts /\ (Undisturbed' => Undisturbed)
  BY <1>4 DEF HalfAccounts, Undisturbed
<1>11. RegistrationIsWhole'
  <2> SUFFICES ASSUME Undisturbed', NEW w \in HalfAccounts
               PROVE  \/ [by |-> w, of |-> w] \in pending
                      \/ \E t \in Slots : attempts'[t].user = w /\ attempts'[t].stage \in {"created", "signedIn"}
    BY <1>4, <1>10 DEF RegistrationIsWhole
  <2>1. \A t \in Slots : attempts[t].op = "none"
    BY <1>4 DEF Undisturbed, Busy
  <2>2. \A t \in Slots : attempts[t].stage = "sent"
    BY <2>1, FreeFacts DEF SessionInv
  <2> QED BY <1>10, <2>2 DEF SessionInv, RegistrationIsWhole
<1> QED BY <1>4, <1>5, <1>6, <1>7, <1>8, <1>9, <1>11 DEF SessionInv

LEMMA LogoutKeeps == ASSUME SessionInv, Logout PROVE SessionInv'
<1>1. /\ UNCHANGED <<accounts, profiles, pending, attempts, overlapped, errors, crashes>>
      /\ loggedIn /\ ~loggedIn' /\ loggedIn' \in BOOLEAN
      /\ currentUser' = NoUser /\ authUser' = NoUser
  BY DEF Logout, serverVars, historyVars
<1>2. TypeOK'
  BY <1>1 DEF SessionInv, TypeOK, MaybeUser
<1>3. ~overlapped => \A t \in Slots : attempts[t].op = "none" /\ attempts[t].stage = "sent"
  BY <1>1, FreeFacts DEF SessionInv, AttemptOK
<1>4. RegistrationIsWhole'
  BY <1>1 DEF SessionInv, RegistrationIsWhole, Undisturbed, HalfAccounts
<1>5. ~overlapped' => \A t \in Slots : AttemptOK(t)'
  BY <1>1, <1>3 DEF AttemptOK
<1> QED BY <1>1, <1>2, <1>3, <1>4, <1>5 DEF SessionInv

(* An account is registered at every stage: the attempts that have made    *)
(* one, or whose document waits, do not change.                            *)
LEMMA AccountCreatedKeeps ==
  ASSUME SessionInv, NEW s \in Slots, AccountCreated(s)
  PROVE  SessionInv'
<1> DEFINE u == attempts[s].user
<1>0. /\ TypeOK
      /\ attempts[s].op = "register" /\ attempts[s].stage = "sent"
      /\ To(s, "created") /\ "created" \in Stages
      /\ accounts' = accounts \union {u}
      /\ UNCHANGED <<profiles, pending, authUser, currentUser, loggedIn, overlapped, errors, crashes>>
  BY DEF SessionInv, AccountCreated, Is, historyVars, Stages
<1>1. /\ attempts' \in [Slots -> Attempt]
      /\ attempts'[s].op = attempts[s].op
      /\ attempts'[s].user = attempts[s].user
      /\ attempts'[s].stage = "created"
      /\ \A t \in Slots \ {s} : attempts'[t] = attempts[t]
  BY <1>0, StepTo
<1>2. u \in Users
  BY <1>0 DEF SessionInv
<1>3. TypeOK'
  BY <1>0, <1>1, <1>2 DEF TypeOK
<1>4. \A t \in Slots : IF attempts'[t].op = "none" THEN attempts'[t] = Free
                                                   ELSE attempts'[t].user \in Users
  BY <1>0, <1>1, <1>2 DEF SessionInv
<1>5. ~overlapped => \A t \in Slots : AttemptOK(t)'
  BY <1>0, <1>1 DEF SessionInv, AttemptOK, Answered
<1>6. NoDocument => NoDocument'
  BY <1>0 DEF NoDocument, HalfAccounts
<1>7. \A t \in Slots : attempts'[t].stage = "missing" => attempts[t].stage = "missing"
  BY <1>1
<1>8. RegistrationIsWhole'
  <2> SUFFICES ASSUME Undisturbed, NEW w \in HalfAccounts'
               PROVE  \/ [by |-> w, of |-> w] \in pending
                      \/ \E t \in Slots : attempts'[t].user = w /\ attempts'[t].stage \in {"created", "signedIn"}
    BY <1>0 DEF RegistrationIsWhole, Undisturbed
  <2>1. CASE w = u
    BY <1>1, <2>1
  <2>2. CASE w # u
    <3>1. w \in HalfAccounts
      BY <1>0, <2>2 DEF HalfAccounts
    <3> QED BY <1>0, <1>1, <3>1 DEF SessionInv, RegistrationIsWhole
  <2> QED BY <2>1, <2>2
<1> QED BY <1>0, <1>3, <1>4, <1>5, <1>6, <1>7, <1>8 DEF SessionInv

LEMMA AuthAnswersKeeps ==
  ASSUME SessionInv, NEW s \in Slots, AuthAnswers(s)
  PROVE  SessionInv'
<1> DEFINE u == attempts[s].user
<1>0. /\ TypeOK
      /\ attempts[s].op # "none" /\ u \in Users
      /\ attempts[s].stage \in {"sent", "created"}
      /\ authUser' = u
      /\ UNCHANGED <<accounts, profiles, pending, currentUser, loggedIn, overlapped, errors, crashes>>
  BY DEF SessionInv, AuthAnswers, Is, historyVars, serverVars
<1>1. PICK stage \in {"reading", "signedIn"} :
        /\ To(s, stage)
        /\ stage = "reading" => attempts[s].stage = "sent"
        /\ stage = "reading" => u \in accounts
        /\ stage = "signedIn" => attempts[s].stage = "created"
  BY DEF AuthAnswers, Is
<1>2. /\ attempts' \in [Slots -> Attempt]
      /\ attempts'[s].op = attempts[s].op
      /\ attempts'[s].user = attempts[s].user
      /\ attempts'[s].stage = stage
      /\ \A t \in Slots \ {s} : attempts'[t] = attempts[t]
  BY <1>0, <1>1, StepTo DEF Stages
<1>3. TypeOK'
  BY <1>0, <1>2 DEF TypeOK, MaybeUser
<1>4. \A t \in Slots : IF attempts'[t].op = "none" THEN attempts'[t] = Free
                                                   ELSE attempts'[t].user \in Users
  BY <1>0, <1>2 DEF SessionInv
<1>5. ~overlapped => ~loggedIn /\ currentUser = NoUser
  BY <1>0 DEF SessionInv, AttemptOK
<1>6. ~overlapped => \A t \in Slots : AttemptOK(t)'
  <2> SUFFICES ASSUME ~overlapped, NEW t \in Slots PROVE AttemptOK(t)'
    OBVIOUS
  <2>1. AttemptOK(s) /\ AttemptOK(t)
    BY DEF SessionInv
  <2>2. CASE t = s
    BY <1>0, <1>1, <1>2, <2>1, <2>2 DEF AttemptOK
  <2>3. CASE t # s
    BY <1>0, <1>2, <2>1, <2>3 DEF AttemptOK
  <2> QED BY <2>2, <2>3
<1>7. ~overlapped => \A t \in Slots : attempts'[t].stage # "missing"
  BY <1>0, <1>1, <1>2, FreeFacts DEF SessionInv, AttemptOK
<1>8. RegistrationIsWhole'
  <2> SUFFICES ASSUME Undisturbed, NEW w \in HalfAccounts
               PROVE  \/ [by |-> w, of |-> w] \in pending
                      \/ \E t \in Slots : attempts'[t].user = w /\ attempts'[t].stage \in {"created", "signedIn"}
    BY <1>0 DEF RegistrationIsWhole, Undisturbed, HalfAccounts
  <2>1. CASE [by |-> w, of |-> w] \in pending
    BY <2>1
  <2>2. ASSUME NEW t \in Slots, attempts[t].user = w, attempts[t].stage \in {"created", "signedIn"}
        PROVE  attempts'[t].user = w /\ attempts'[t].stage \in {"created", "signedIn"}
    BY <1>1, <1>2, <2>2
  <2> QED BY <2>1, <2>2 DEF SessionInv, RegistrationIsWhole
<1> QED BY <1>0, <1>3, <1>4, <1>5, <1>6, <1>7, <1>8 DEF SessionInv

(* An attempt that ends leaves the others, none if there is no overlap.    *)
LEMMA EndFacts ==
  ASSUME SessionInv, NEW s \in Slots, End(s), attempts[s].op # "none"
  PROVE  /\ attempts' \in [Slots -> Attempt]
         /\ \A t \in Slots : IF attempts'[t].op = "none" THEN attempts'[t] = Free
                                                         ELSE attempts'[t].user \in Users
         /\ ~overlapped => \A t \in Slots : attempts'[t].op = "none" /\ attempts'[t].stage = "sent"
<1>1. /\ attempts' \in [Slots -> Attempt]
      /\ attempts'[s] = Free
      /\ \A t \in Slots \ {s} : attempts'[t] = attempts[t]
  BY StepEnd DEF SessionInv
<1>2. \A t \in Slots : IF attempts'[t].op = "none" THEN attempts'[t] = Free
                                                   ELSE attempts'[t].user \in Users
  BY <1>1, FreeFacts DEF SessionInv
<1>3. ~overlapped => \A t \in Slots : attempts'[t] = Free
  BY <1>1 DEF SessionInv, AttemptOK
<1> QED BY <1>1, <1>2, <1>3, FreeFacts

(* A registration whose account exists is only ended by its reply.         *)
LEMMA RefusedKeepsWhole ==
  ASSUME SessionInv, NEW s \in Slots, End(s),
         attempts[s].stage \notin {"created", "signedIn"},
         UNCHANGED <<accounts, profiles, pending>>, Undisturbed' => Undisturbed
  PROVE  RegistrationIsWhole'
<1>1. \A t \in Slots \ {s} : attempts'[t] = attempts[t]
  BY StepEnd DEF SessionInv
<1> SUFFICES ASSUME Undisturbed, NEW w \in HalfAccounts
             PROVE  \/ [by |-> w, of |-> w] \in pending
                    \/ \E t \in Slots : attempts'[t].user = w /\ attempts'[t].stage \in {"created", "signedIn"}
  BY DEF RegistrationIsWhole, HalfAccounts
<1>2. CASE [by |-> w, of |-> w] \in pending
  BY <1>2
<1>3. ASSUME NEW t \in Slots, attempts[t].user = w, attempts[t].stage \in {"created", "signedIn"}
      PROVE  attempts'[t].user = w /\ attempts'[t].stage \in {"created", "signedIn"}
  BY <1>1, <1>3
<1> QED BY <1>2, <1>3 DEF SessionInv, RegistrationIsWhole

LEMMA AuthRefusesKeeps ==
  ASSUME SessionInv, NEW s \in Slots, AuthRefuses(s)
  PROVE  SessionInv'
<1>1. /\ attempts[s].op # "none" /\ attempts[s].stage = "sent" /\ End(s)
      /\ UNCHANGED <<accounts, profiles, pending, authUser, currentUser, loggedIn, overlapped, errors, crashes>>
  BY DEF AuthRefuses, serverVars, historyVars
<1>2. /\ attempts' \in [Slots -> Attempt]
      /\ \A t \in Slots : IF attempts'[t].op = "none" THEN attempts'[t] = Free
                                                      ELSE attempts'[t].user \in Users
      /\ ~overlapped => \A t \in Slots : attempts'[t].op = "none" /\ attempts'[t].stage = "sent"
  BY <1>1, EndFacts
<1>3. TypeOK'
  BY <1>1, <1>2 DEF SessionInv, TypeOK
<1>4. RegistrationIsWhole'
  BY <1>1, RefusedKeepsWhole DEF Undisturbed
<1>5. NoDocument => NoDocument'
  BY <1>1 DEF NoDocument, HalfAccounts
<1>6. ~overlapped' => \A t \in Slots : AttemptOK(t)'
  BY <1>1, <1>2 DEF AttemptOK
<1> QED BY <1>1, <1>2, <1>3, <1>4, <1>5, <1>6 DEF SessionInv

LEMMA AuthFailsKeeps ==
  ASSUME SessionInv, NEW s \in Slots, AuthFails(s)
  PROVE  SessionInv'
<1>1. /\ attempts[s].op # "none" /\ End(s) /\ errors < MaxErrors /\ errors' = errors + 1
      /\ UNCHANGED <<accounts, profiles, pending, authUser, currentUser, loggedIn, overlapped, crashes>>
  BY DEF AuthFails, Is, serverVars, historyVars
<1>2. /\ attempts' \in [Slots -> Attempt]
      /\ \A t \in Slots : IF attempts'[t].op = "none" THEN attempts'[t] = Free
                                                      ELSE attempts'[t].user \in Users
      /\ ~overlapped => \A t \in Slots : attempts'[t].op = "none" /\ attempts'[t].stage = "sent"
  BY <1>1, EndFacts
<1>3. errors' \in 0 .. MaxErrors /\ errors' # 0
  BY <1>1, SessionAssumption DEF SessionInv, TypeOK
<1>4. TypeOK'
  BY <1>1, <1>2, <1>3 DEF SessionInv, TypeOK
<1>5. RegistrationIsWhole'
  BY <1>3 DEF RegistrationIsWhole, Undisturbed
<1>6. NoDocument => NoDocument'
  BY <1>1 DEF NoDocument, HalfAccounts
<1>7. ~overlapped' => \A t \in Slots : AttemptOK(t)'
  BY <1>1, <1>2 DEF AttemptOK
<1> QED BY <1>1, <1>2, <1>4, <1>5, <1>6, <1>7 DEF SessionInv

(* The document goes into the queue of Auth's user, who is the user of the *)
(* attempt unless attempts overlapped.                                     *)
LEMMA RegisterReplyKeeps ==
  ASSUME SessionInv, NEW s \in Slots, RegisterReply(s)
  PROVE  SessionInv'
<1> DEFINE u == attempts[s].user
<1>1. /\ attempts[s].op # "none" /\ attempts[s].stage = "signedIn" /\ End(s)
      /\ pending' = pending \union {[by |-> authUser, of |-> u]}
      /\ currentUser' = u /\ loggedIn' = TRUE
      /\ UNCHANGED <<accounts, profiles, authUser, overlapped, errors, crashes>>
  BY DEF RegisterReply, Is, serverVars, historyVars
<1>2. /\ attempts' \in [Slots -> Attempt]
      /\ \A t \in Slots : IF attempts'[t].op = "none" THEN attempts'[t] = Free
                                                      ELSE attempts'[t].user \in Users
      /\ ~overlapped => \A t \in Slots : attempts'[t].op = "none" /\ attempts'[t].stage = "sent"
  BY <1>1, EndFacts
<1>3. u \in Users /\ u # NoUser
  BY <1>1, SessionAssumption DEF SessionInv
<1>4. TypeOK'
  BY <1>1, <1>2, <1>3 DEF SessionInv, TypeOK, Pending, MaybeUser
<1>5. ~overlapped => authUser = u
  BY <1>1 DEF SessionInv, AttemptOK, Answered
<1>6. RegistrationIsWhole'
  <2> SUFFICES ASSUME Undisturbed, NEW w \in HalfAccounts
               PROVE  \/ [by |-> w, of |-> w] \in pending'
                      \/ \E t \in Slots : attempts'[t].user = w /\ attempts'[t].stage \in {"created", "signedIn"}
    BY <1>1 DEF RegistrationIsWhole, Undisturbed, HalfAccounts
  <2>1. authUser = u
    BY <1>5 DEF Undisturbed
  <2>2. CASE [by |-> w, of |-> w] \in pending
    BY <1>1, <2>2
  <2>3. ASSUME NEW t \in Slots, attempts[t].user = w, attempts[t].stage \in {"created", "signedIn"}
        PROVE  [by |-> w, of |-> w] \in pending'
    <3>1. attempts[t].op # "none"
      BY <2>3, FreeFacts DEF SessionInv
    <3>2. t = s
      BY <1>1, <3>1 DEF SessionInv, AttemptOK, Undisturbed
    <3> QED BY <1>1, <2>1, <2>3, <3>2
  <2> QED BY <2>2, <2>3 DEF SessionInv, RegistrationIsWhole
<1>7. ~overlapped' => \A t \in Slots : AttemptOK(t)'
  BY <1>1, <1>2 DEF AttemptOK
<1> QED BY <1>1, <1>2, <1>3, <1>4, <1>5, <1>6, <1>7 DEF SessionInv

(* What is found missing is missing: without overlap the user read is      *)
(* Auth's, and his own queue is looked at.                                 *)
LEMMA ReadKeeps ==
  ASSUME SessionInv, NEW s \in Slots, NEW stage \in {"found", "missing", "failed"},
         attempts[s].op = "login", attempts[s].stage = "reading", To(s, stage),
         stage = "missing" => ~Visible(attempts[s].user),
         errors' \in 0 .. MaxErrors, Undisturbed' => Undisturbed,
         UNCHANGED <<accounts, profiles, pending, authUser, currentUser, loggedIn, overlapped, crashes>>
  PROVE  SessionInv'
<1>0. TypeOK /\ attempts[s].op # "none" /\ stage \in Stages
  BY DEF SessionInv, Stages
<1>1. /\ attempts' \in [Slots -> Attempt]
      /\ attempts'[s].op = attempts[s].op
      /\ attempts'[s].user = attempts[s].user
      /\ attempts'[s].stage = stage
      /\ \A t \in Slots \ {s} : attempts'[t] = attempts[t]
  BY <1>0, StepTo
<1>2. TypeOK'
  BY <1>0, <1>1 DEF TypeOK
<1>3. \A t \in Slots : IF attempts'[t].op = "none" THEN attempts'[t] = Free
                                                   ELSE attempts'[t].user \in Users
  BY <1>0, <1>1 DEF SessionInv
<1>4. ~overlapped => \A t \in Slots : AttemptOK(t)'
  <2> SUFFICES ASSUME ~overlapped, NEW t \in Slots PROVE AttemptOK(t)'
    OBVIOUS
  <2>1. AttemptOK(s) /\ AttemptOK(t)
    BY DEF SessionInv
  <2>2. CASE t = s
    BY <1>0, <1>1, <2>1, <2>2 DEF AttemptOK, Answered
  <2>3. CASE t # s
    BY <1>0, <1>1, <2>1, <2>3 DEF AttemptOK
  <2> QED BY <2>2, <2>3
<1>5. NoDocument' <=> NoDocument
  BY DEF NoDocument, HalfAccounts
<1>6. ~overlapped => \A t \in Slots : attempts'[t].stage = "missing" => NoDocument
  <2> SUFFICES ASSUME ~overlapped, NEW t \in Slots, attempts'[t].stage = "missing"
               PROVE NoDocument
    OBVIOUS
  <2>1. CASE t # s
    BY <1>1, <2>1 DEF SessionInv
  <2>2. CASE t = s
    <3>1. /\ authUser = attempts[s].user
          /\ attempts[s].user \in accounts
      BY <1>0 DEF SessionInv, AttemptOK, Answered
    <3> QED BY <1>1, <2>2, <3>1 DEF NoDocument, HalfAccounts, Visible
  <2> QED BY <2>1, <2>2
<1>7. RegistrationIsWhole'
  <2> SUFFICES ASSUME Undisturbed, NEW w \in HalfAccounts
               PROVE  \/ [by |-> w, of |-> w] \in pending
                      \/ \E t \in Slots : attempts'[t].user = w /\ attempts'[t].stage \in {"created", "signedIn"}
    BY DEF RegistrationIsWhole, HalfAccounts
  <2>1. CASE [by |-> w, of |-> w] \in pending
    BY <2>1
  <2>2. ASSUME NEW t \in Slots, attempts[t].user = w, attempts[t].stage \in {"created", "signedIn"}
        PROVE  attempts'[t].user = w /\ attempts'[t].stage \in {"created", "signedIn"}
    BY <1>1, <2>2
  <2> QED BY <2>1, <2>2 DEF SessionInv, RegistrationIsWhole
<1> QED BY <1>2, <1>3, <1>4, <1>5, <1>6, <1>7 DEF SessionInv

LEMMA DocumentReadKeeps ==
  ASSUME SessionInv, NEW s \in Slots, DocumentRead(s)
  PROVE  SessionInv'
<1> DEFINE stage == IF Visible(attempts[s].user) THEN "found" ELSE "missing"
<1>1. stage \in {"found", "missing", "failed"} /\ (stage = "missing" => ~Visible(attempts[s].user))
  OBVIOUS
<1>2. /\ attempts[s].op = "login" /\ attempts[s].stage = "reading" /\ To(s, stage)
      /\ UNCHANGED <<accounts, profiles, pending, authUser, currentUser, loggedIn, overlapped, errors, crashes>>
  BY DEF DocumentRead, Is, serverVars, historyVars
<1>3. errors' \in 0 .. MaxErrors /\ (Undisturbed' => Undisturbed)
  BY <1>2 DEF SessionInv, TypeOK, Undisturbed
<1> HIDE DEF stage
<1> QED BY <1>1, <1>2, <1>3, ReadKeeps

LEMMA ReadFailsKeeps ==
  ASSUME SessionInv, NEW s \in Slots, ReadFails(s)
  PROVE  SessionInv'
<1>1. /\ attempts[s].op = "login" /\ attempts[s].stage = "reading" /\ To(s, "failed")
      /\ errors' = errors \/ (errors < MaxErrors /\ errors' = errors + 1)
      /\ UNCHANGED <<accounts, profiles, pending, authUser, currentUser, loggedIn, overlapped, crashes>>
  BY DEF ReadFails, Is, serverVars
<1>2. errors' \in 0 .. MaxErrors /\ (Undisturbed' => Undisturbed)
  BY <1>1, SessionAssumption DEF SessionInv, TypeOK, Undisturbed
<1> QED BY <1>1, <1>2, ReadKeeps

LEMMA LoginReplyKeeps ==
  ASSUME SessionInv, NEW s \in Slots, LoginReply(s)
  PROVE  SessionInv'
<1>1. /\ attempts[s].op = "login" /\ End(s)
      /\ attempts[s].stage \in {"found", "missing", "failed"}
      /\ UNCHANGED <<accounts, profiles, pending, authUser, overlapped, errors, crashes>>
  BY DEF LoginReply, serverVars, historyVars
<1>2. attempts[s].op # "none" /\ attempts[s].stage \in Answered
  BY <1>1 DEF Answered
<1>3. /\ attempts' \in [Slots -> Attempt]
      /\ \A t \in Slots : IF attempts'[t].op = "none" THEN attempts'[t] = Free
                                                      ELSE attempts'[t].user \in Users
      /\ ~overlapped => \A t \in Slots : attempts'[t].op = "none" /\ attempts'[t].stage = "sent"
  BY <1>1, <1>2, EndFacts
<1>4. attempts[s].user \in Users
  BY <1>2 DEF SessionInv
<1>5. \/ /\ attempts[s].stage = "found"
         /\ currentUser' = attempts[s].user /\ loggedIn' = TRUE
      \/ /\ attempts[s].stage = "missing"
         /\ currentUser' = NoUser /\ loggedIn' = TRUE
      \/ UNCHANGED <<currentUser, loggedIn>>
  BY DEF LoginReply
<1>6. TypeOK'
  BY <1>1, <1>3, <1>4, <1>5 DEF SessionInv, TypeOK, MaybeUser
<1>7. RegistrationIsWhole'
  BY <1>1, RefusedKeepsWhole DEF Undisturbed
<1>8. NoDocument' <=> NoDocument
  BY <1>1 DEF NoDocument, HalfAccounts
<1>9. ~overlapped => /\ authUser = attempts[s].user
                     /\ attempts[s].stage = "missing" => NoDocument
  BY <1>2 DEF SessionInv, AttemptOK
<1>10. ~overlapped => /\ currentUser' # NoUser => loggedIn' /\ currentUser' = authUser
                      /\ loggedIn' /\ currentUser' = NoUser => NoDocument
  BY <1>4, <1>5, <1>9, SessionAssumption DEF SessionInv
<1>11. ~overlapped' => \A t \in Slots : AttemptOK(t)'
  BY <1>1, <1>3 DEF AttemptOK
<1> QED BY <1>1, <1>3, <1>6, <1>7, <1>8, <1>10, <1>11 DEF SessionInv

(* A write of somebody else's document is refused; the one of Auth's user  *)
(* himself is not waiting where something was found missing.               *)
LEMMA ProfileWriteKeeps ==
  ASSUME SessionInv, NEW p \in pending, ProfileWrite(p)
  PROVE  SessionInv'
<1>1. /\ p.by = authUser /\ pending' = pending \ {p}
      /\ profiles' = IF p.by = p.of THEN profiles \union {p.of} ELSE profiles
      /\ UNCHANGED <<accounts, authUser, currentUser, loggedIn, attempts, overlapped, errors, crashes>>
  BY DEF ProfileWrite, historyVars
<1>2. p \in Pending /\ p = [by |-> p.by, of |-> p.of] /\ p.of \in Users
  BY DEF SessionInv, TypeOK, Pending
<1>3. TypeOK'
  BY <1>1, <1>2 DEF SessionInv, TypeOK
<1>4. NoDocument => NoDocument'
  BY <1>1, <1>2 DEF NoDocument, HalfAccounts
<1>5. RegistrationIsWhole'
  <2> SUFFICES ASSUME Undisturbed, NEW w \in HalfAccounts'
               PROVE  \/ [by |-> w, of |-> w] \in pending'
                      \/ \E t \in Slots : attempts[t].user = w /\ attempts[t].stage \in {"created", "signedIn"}
    BY <1>1 DEF RegistrationIsWhole, Undisturbed
  <2>1. w \in HalfAccounts /\ p # [by |-> w, of |-> w]
    BY <1>1, <1>2 DEF HalfAccounts
  <2> QED BY <1>1, <2>1 DEF SessionInv, RegistrationIsWhole
<1>6. \A t \in Slots : AttemptOK(t)' <=> AttemptOK(t)
  BY <1>1 DEF AttemptOK
<1> QED BY <1>1, <1>3, <1>4, <1>5, <1>6 DEF SessionInv

LEMMA CrashKeeps == ASSUME SessionInv, Crash PROVE SessionInv'
<1>1. /\ crashes < MaxCrashes /\ crashes' = crashes + 1
      /\ attempts' = [t \in Slots |-> Free]
      /\ currentUser' = NoUser /\ loggedIn' = FALSE
      /\ UNCHANGED <<accounts, profiles, pending, authUser, overlapped, errors>>
  BY DEF Crash, serverVars
<1>2. crashes' \in 0 .. MaxCrashes /\ crashes' # 0
  BY <1>1, SessionAssumption DEF SessionInv, TypeOK
<1>3. attempts' \in [Slots -> Attempt] /\ \A t \in Slots : attempts'[t] = Free
  BY <1>1, FreeFacts
<1>4. TypeOK'
  BY <1>1, <1>2, <1>3 DEF SessionInv, TypeOK, MaybeUser
<1>5. RegistrationIsWhole'
  BY <1>2 DEF RegistrationIsWhole, Undisturbed
<1>6. \A t \in Slots : AttemptOK(t)'
  BY <1>3, FreeFacts DEF AttemptOK
<1> QED BY <1>1, <1>3, <1>4, <1>5, <1>6, FreeFacts DEF SessionInv

LEMMA SessionStep == SessionInv /\ [Next]_vars => SessionInv'
<1> SUFFICES ASSUME SessionInv, [Next]_vars PROVE SessionInv'
  OBVIOUS
<1>1. ASSUME NEW s \in Slots, Answer(s) PROVE SessionInv'
  BY <1>1, AccountCreatedKeeps, AuthAnswersKeeps, AuthRefusesKeeps, AuthFailsKeeps,
     DocumentReadKeeps, ReadFailsKeeps, RegisterReplyKeeps, LoginReplyKeeps DEF Answer
<1>2. ASSUME NEW s \in Slots, NEW u \in Users, TapLogin(s, u) \/ TapSignUp(s, u)
      PROVE  SessionInv'
  BY <1>2, BeginKeeps DEF TapLogin, TapSignUp
<1>3. ASSUME NEW p \in pending, ProfileWrite(p) PROVE SessionInv'
  BY <1>3, ProfileWriteKeeps
<1>4. CASE UNCHANGED vars
  <2>1. UNCHANGED <<accounts, profiles, pending, authUser, currentUser, loggedIn,
                    attempts, overlapped, errors, crashes>>
    BY <1>4 DEF vars
  <2> QED BY <2>1 DEF SessionInv, TypeOK, AttemptOK, NoDocument, HalfAccounts,
                      RegistrationIsWhole, Undisturbed
<1> QED BY <1>1, <1>2, <1>3, <1>4, LogoutKeeps, CrashKeeps DEF Next

-----------------------------------------------------------------------------
(* The inductive invariant: at most one attempt at a time without overlap, *)
(* and Auth's user is the one of the attempt from Auth's answer on.        *)
THEOREM SessionInvariance == Spec => []SessionInv
BY SessionInit, SessionStep, PTL DEF Spec

(* FirebaseManager's user is Auth's user, unless attempts overlapped.      *)
THEOREM AppUserTheorem == Spec => []AppUserIsAuthUser
<1>1. SessionInv => AppUserIsAuthUser
  BY DEF SessionInv, AppUserIsAuthUser
<1> QED BY <1>1, SessionInvariance, PTL

(* The tabs without a user appear for accounts without a document only,    *)
(* unless attempts overlapped.                                             *)
THEOREM NamelessTabsTheorem == Spec => []NamelessTabs
<1>1. SessionInv => NamelessTabs
  BY DEF SessionInv, NamelessTabs, NoDocument
<1> QED BY <1>1, SessionInvariance, PTL

(* A registration nothing interrupted leaves no account without a document *)
(* or a write of one on its way.                                           *)
THEOREM RegistrationTheorem == Spec => []RegistrationIsWhole
<1>1. SessionInv => RegistrationIsWhole
  BY DEF SessionInv
<1> QED BY <1>1, SessionInvariance, PTL
=============================================================================
