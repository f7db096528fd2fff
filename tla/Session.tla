------------------------------ MODULE Session ------------------------------
(***************************************************************************)
(* Signing up, in and out on one device.  Three things say who the user    *)
(* is: Auth's user (on disk), FirebaseManager.currentUser (in memory) and  *)
(* AuthVM.loggedIn, which shows the tabs.  The buttons of the two forms    *)
(* stay enabled while an attempt is unanswered, so that attempts overlap.  *)
(*                                                                         *)
(* LoginView, SignUpView, AuthVM  -> TapLogin, TapSignUp, Logout           *)
(* AuthService                    -> attempts and their answers            *)
(* Firebase Auth, Firestore       -> accounts, profiles, pending (external)*)
(***************************************************************************)
EXTENDS Naturals, FiniteSets

CONSTANTS
  Users,       \* people with an email address
  Slots,       \* bound: attempts unanswered at a time
  MaxCrashes,  \* bound: how often the app dies
  MaxErrors,   \* bound: requests the services do not answer properly
  NoUser       \* nil

ASSUME SessionAssumption ==
  /\ NoUser \notin Users
  /\ MaxCrashes \in Nat /\ MaxErrors \in Nat

VARIABLES
  accounts,     \* accounts of Firebase Auth
  profiles,     \* users with a document in the collection Users
  pending,      \* writes of such documents in the device's write queues
  authUser,     \* Auth.auth().currentUser
  currentUser,  \* FirebaseManager.shared.currentUser
  loggedIn,     \* AuthVM.loggedIn
  attempts,     \* per slot, a closure chain of AuthService
  overlapped,   \* history: an attempt began while another was unanswered
  errors,       \* how many requests failed
  crashes       \* how often the app died

vars == <<accounts, profiles, pending, authUser, currentUser, loggedIn,
          attempts, overlapped, errors, crashes>>
serverVars == <<accounts, profiles>>
historyVars == <<overlapped, errors, crashes>>

MaybeUser == Users \union {NoUser}

(* sent: Auth has not dealt with it.  created: it has made the account.    *)
(* signedIn: Auth's user is set, the closure has not run.  reading:        *)
(* getDocument has been called.  found, missing, failed: what it yields.   *)
Stages == {"sent", "created", "signedIn", "reading", "found", "missing", "failed"}

Attempt == [op: {"none", "login", "register"}, user: MaybeUser, stage: Stages]
Free == [op |-> "none", user |-> NoUser, stage |-> "sent"]

(* by: the account in whose queue the write waits.  of: whose document.    *)
Pending == [by: MaybeUser, of: Users]

TypeOK ==
  /\ accounts \subseteq Users
  /\ profiles \subseteq Users
  /\ pending \subseteq Pending
  /\ authUser \in MaybeUser
  /\ currentUser \in MaybeUser
  /\ loggedIn \in BOOLEAN
  /\ attempts \in [Slots -> Attempt]
  /\ overlapped \in BOOLEAN
  /\ errors \in 0 .. MaxErrors
  /\ crashes \in 0 .. MaxCrashes

(* Some users have signed up before, on another device.                    *)
Init ==
  /\ accounts \in SUBSET Users
  /\ profiles = accounts
  /\ pending = {}
  /\ authUser = NoUser
  /\ currentUser = NoUser
  /\ loggedIn = FALSE
  /\ attempts = [s \in Slots |-> Free]
  /\ overlapped = FALSE
  /\ errors = 0
  /\ crashes = 0

-----------------------------------------------------------------------------
(***************************************************************************)
(* The buttons.  The forms are shown while nobody is logged in.            *)
(***************************************************************************)
Busy == \E s \in Slots : attempts[s].op # "none"

Begin(s, op, u) ==
  /\ ~loggedIn
  /\ attempts[s].op = "none"
  /\ attempts' = [attempts EXCEPT ![s] = [op |-> op, user |-> u, stage |-> "sent"]]
  /\ overlapped' = (overlapped \/ Busy)
  /\ UNCHANGED <<serverVars, pending, authUser, currentUser, loggedIn, errors, crashes>>

TapLogin(s, u) == Begin(s, "login", u)

(* With a form that is valid.                                              *)
TapSignUp(s, u) == Begin(s, "register", u)

(* Mutant of Logout: FirebaseManager keeps its user.                       *)
KeepsUser ==
  /\ loggedIn
  /\ authUser' = NoUser
  /\ loggedIn' = FALSE
  /\ UNCHANGED <<serverVars, pending, currentUser, attempts, historyVars>>

Logout ==
  /\ loggedIn
  /\ authUser' = NoUser
  /\ currentUser' = NoUser
  /\ loggedIn' = FALSE
  /\ UNCHANGED <<serverVars, pending, attempts, historyVars>>

-----------------------------------------------------------------------------
(***************************************************************************)
(* The answers.                                                            *)
(***************************************************************************)
To(s, stage) == attempts' = [attempts EXCEPT ![s].stage = stage]
End(s) == attempts' = [attempts EXCEPT ![s] = Free]
Is(s, op, stage) == attempts[s].op = op /\ attempts[s].stage = stage

(* createUser: the account is made before the device hears of it.          *)
AccountCreated(s) ==
  /\ Is(s, "register", "sent")
  /\ attempts[s].user \notin accounts
  /\ accounts' = accounts \union {attempts[s].user}
  /\ To(s, "created")
  /\ UNCHANGED <<profiles, pending, authUser, currentUser, loggedIn, historyVars>>

(* The SDK sets Auth's user, on disk, and then calls the closure: that of  *)
(* login asks for the document at once.                                    *)
AuthAnswers(s) ==
  LET u == attempts[s].user IN
  /\ \/ Is(s, "login", "sent") /\ u \in accounts /\ To(s, "reading")
     \/ Is(s, "register", "created") /\ To(s, "signedIn")
  /\ authUser' = u
  /\ UNCHANGED <<serverVars, pending, currentUser, loggedIn, historyVars>>

(* Wrong password, no such account, or an account that exists already: the *)
(* closure returns and the form says nothing.                              *)
AuthRefuses(s) ==
  /\ attempts[s].op # "none" /\ attempts[s].stage = "sent"
  /\ End(s)
  /\ UNCHANGED <<serverVars, pending, authUser, currentUser, loggedIn, historyVars>>

(* No answer in time, whatever Auth has done.                              *)
AuthFails(s) ==
  /\ Is(s, "register", "created")
  /\ errors < MaxErrors
  /\ errors' = errors + 1
  /\ End(s)
  /\ UNCHANGED <<serverVars, pending, authUser, currentUser, loggedIn, overlapped, crashes>>

(* Mutant of RegisterReply: the document is written only if the tabs are   *)
(* not shown yet.                                                          *)
SkipsDocument(s) ==
  /\ Is(s, "register", "signedIn")
  /\ currentUser' = attempts[s].user
  /\ loggedIn' = TRUE
  /\ End(s)
  /\ UNCHANGED <<serverVars, pending, authUser, historyVars>>

(* register's closure: the document goes into the queue of whoever is      *)
(* Auth's user now, and the tabs appear without waiting for it.            *)
RegisterReply(s) ==
  LET u == attempts[s].user IN
  /\ Is(s, "register", "signedIn")
  /\ pending' = pending \union {[by |-> authUser, of |-> u]}
  /\ currentUser' = u
  /\ loggedIn' = TRUE
  /\ End(s)
  /\ UNCHANGED <<serverVars, authUser, historyVars>>

(* What Firestore sees of u's document: the server's, or a write waiting   *)
(* in the queue of Auth's user.                                            *)
Visible(u) == u \in profiles \/ [by |-> authUser, of |-> u] \in pending

(* Mutant of DocumentRead: pending writes are not looked at.               *)
ReadsServerOnly(s) ==
  LET u == attempts[s].user IN
  /\ Is(s, "login", "reading")
  /\ authUser # NoUser
  /\ To(s, IF u \in profiles THEN "found" ELSE "missing")
  /\ UNCHANGED <<serverVars, pending, authUser, currentUser, loggedIn, historyVars>>

(* Anybody signed in may read it.                                          *)
DocumentRead(s) ==
  /\ Is(s, "login", "reading")
  /\ authUser # NoUser
  /\ To(s, IF Visible(attempts[s].user) THEN "found" ELSE "missing")
  /\ UNCHANGED <<serverVars, pending, authUser, currentUser, loggedIn, historyVars>>

ReadFails(s) ==
  /\ Is(s, "login", "reading")
  /\ authUser # NoUser => errors < MaxErrors
  /\ errors' = IF authUser # NoUser THEN errors + 1 ELSE errors
  /\ To(s, "failed")
  /\ UNCHANGED <<serverVars, pending, authUser, currentUser, loggedIn, overlapped, crashes>>

(* login's second closure.  data(as:) of a document that does not exist is *)
(* nil and no error: the tabs appear without a current user.               *)
LoginReply(s) ==
  /\ attempts[s].op = "login"
  /\ \/ /\ attempts[s].stage = "found"
        /\ currentUser' = attempts[s].user
        /\ loggedIn' = TRUE
     \/ /\ attempts[s].stage = "missing"
        /\ currentUser' = NoUser
        /\ loggedIn' = TRUE
     \/ /\ attempts[s].stage = "failed"
        /\ UNCHANGED <<currentUser, loggedIn>>
  /\ End(s)
  /\ UNCHANGED <<serverVars, pending, authUser, historyVars>>

(* Firestore sends the queue of Auth's user; the rule lets users write     *)
(* their own document only.                                                *)
ProfileWrite(p) ==
  /\ p \in pending
  /\ p.by = authUser
  /\ pending' = pending \ {p}
  /\ profiles' = IF p.by = p.of THEN profiles \union {p.of} ELSE profiles
  /\ UNCHANGED <<accounts, authUser, currentUser, loggedIn, attempts, historyVars>>

(* The app dies.  It is launched with Auth's user and without its own.     *)
Crash ==
  /\ crashes < MaxCrashes
  /\ crashes' = crashes + 1
  /\ attempts' = [s \in Slots |-> Free]
  /\ currentUser' = NoUser
  /\ loggedIn' = FALSE
  /\ UNCHANGED <<serverVars, pending, authUser, overlapped, errors>>

-----------------------------------------------------------------------------
Answer(s) ==
  \/ AccountCreated(s) \/ AuthAnswers(s) \/ AuthRefuses(s) \/ AuthFails(s)
  \/ DocumentRead(s) \/ ReadFails(s) \/ RegisterReply(s) \/ LoginReply(s)

Next ==
  \/ \E s \in Slots :
       \/ Answer(s)
       \/ \E u \in Users : TapLogin(s, u) \/ TapSignUp(s, u)
  \/ \E p \in pending : ProfileWrite(p)
  \/ Logout
  \/ Crash

(* Every request ends in an answer or an error, and Firestore works off    *)
(* the queue of Auth's user.                                               *)
Spec ==
  /\ Init /\ [][Next]_vars
  /\ \A s \in Slots : WF_vars(Answer(s))
  /\ WF_vars(\E p \in pending : ProfileWrite(p))

-----------------------------------------------------------------------------
HalfAccounts == accounts \ profiles
Undisturbed == ~overlapped /\ errors = 0 /\ crashes = 0

(* Unless attempts overlapped, the user the app acts for is Auth's user:   *)
(* no answer of one attempt comes under the tabs of another, and a logout  *)
(* is not undone.                                                          *)
AppUserIsAuthUser ==
  ~overlapped /\ currentUser # NoUser => loggedIn /\ currentUser = authUser

(* Tabs without a user, on which every button does nothing, appear only    *)
(* for an account without a document, or after attempts overlapped.        *)
NamelessTabs ==
  loggedIn /\ currentUser = NoUser => overlapped \/ HalfAccounts # {}

(* An account stays without a document only if something interrupted its   *)
(* registration: undisturbed, the document is stored, waits in the queue   *)
(* of its own user, or is about to be written.                             *)
RegistrationIsWhole ==
  Undisturbed =>
    \A u \in HalfAccounts :
      \/ [by |-> u, of |-> u] \in pending
      \/ \E s \in Slots : attempts[s].user = u /\ attempts[s].stage \in {"created", "signedIn"}

(* Undisturbed, whoever stays signed in has a document in the end.         *)
ProfileStored ==
  \A u \in Users : []Undisturbed /\ <>[](authUser = u) => <>(u \in profiles)
-----------------------------------------------------------------------------
(***************************************************************************)
(* Why the three invariants hold: without overlap there is one attempt at  *)
(* a time, none under the tabs, and from Auth's answer on Auth's user is   *)
(* the one of the attempt.                                                 *)
(***************************************************************************)
Answered == {"signedIn", "reading", "found", "missing", "failed"}

AttemptOK(s) ==
  attempts[s].op # "none" =>
    /\ ~loggedIn
    /\ \A t \in Slots : attempts[t].op # "none" => t = s
    /\ attempts[s].stage \in Answered => authUser = attempts[s].user
    /\ attempts[s].stage # "sent" => attempts[s].user \in accounts

NoDocument ==
  /\ authUser \in HalfAccounts
  /\ [by |-> authUser, of |-> authUser] \notin pending

SessionInv ==
  /\ TypeOK
  /\ \A s \in Slots : IF attempts[s].op = "none" THEN attempts[s] = Free
                                                 ELSE attempts[s].user \in Users
  /\ ~overlapped =>
       /\ \A s \in Slots : AttemptOK(s)
       /\ currentUser # NoUser => loggedIn /\ currentUser = authUser
       /\ \A s \in Slots : attempts[s].stage = "missing" => NoDocument
       /\ loggedIn /\ currentUser = NoUser => NoDocument
  /\ RegistrationIsWhole
=============================================================================
