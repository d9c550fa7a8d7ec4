--------------------------- MODULE AccountsProofs ---------------------------
(***************************************************************************)
(* For any number of accounts, browsers, workers and runs of the scheduled *)
(* command, and with requests dying at any point: whoever is signed in has *)
(* a profile, and a Facebook account signs in as one user.                 *)
(***************************************************************************)
EXTENDS Accounts, WellFoundedInduction, TLAPS

-----------------------------------------------------------------------------
(* The inductive invariant *)

\* The counter is ahead of the ids that are in use.
FreshIds == \A u \in Ids : u >= nextId => users[u] = NoRow

\* What the unique key guarantees.
UniqueEmails == \A u, v \in Stored : users[u] = users[v] => u = v

\* A credential leads to the user filed under its account's address, and this
\* user has a profile.
CredentialsSound ==
    \A c \in credentials :
        users[c.user] = EmailOf[c.social] /\ profiles[c.user] # NoRow

\* So does a sign-in that has stored its user, and later its profile.
SignUpsSound ==
    \A w \in Workers :
        /\ req[w].pc \in {"profile", "credential", "login"} =>
              users[req[w].user] = EmailOf[req[w].social]
        /\ req[w].pc \in {"credential", "login"} => profiles[req[w].user] # NoRow

\* A login that is about to happen has stored its credential.
LoginsSound ==
    \A w \in Workers : req[w].pc = "login" =>
        [user |-> req[w].user, social |-> req[w].social] \in credentials

IInv ==
    /\ TypeOK
    /\ FreshIds
    /\ UniqueEmails
    /\ CredentialsSound
    /\ SignUpsSound
    /\ LoginsSound
    /\ SignedInUsersHaveProfiles

-----------------------------------------------------------------------------
(* What requests and runs hold *)

LEMMA RequestFields ==
    ASSUME NEW r \in Requests
    PROVE  /\ r.pc \in {"idle", "user", "profile", "credential", "login"}
           /\ r.pc # "idle" => r.browser \in Browsers /\ r.social \in Socials
           /\ r.pc \in {"profile", "credential", "login"} => r.user \in Ids
           /\ r = Idle <=> r.pc = "idle"
  BY DEF Requests, Idle

LEMMA RunFields ==
    ASSUME NEW r \in Runs
    PROVE  /\ r.pc = "read" => r.todo \in SUBSET Ids /\ r.todo # {}
           /\ r.pc = "save" => /\ r.todo \in SUBSET Ids
                               /\ r.user \in Ids
                               /\ r.loaded \in Points
                               /\ r.score \in Points
  BY DEF Runs, NoJob

LEMMA AdvancedRequest ==
    ASSUME NEW r \in Requests, r.pc \in {"profile", "credential"},
           NEW pc \in {"credential", "login"}
    PROVE  /\ [r EXCEPT !.pc = pc] \in Requests
           /\ [r EXCEPT !.pc = pc].pc = pc
           /\ [r EXCEPT !.pc = pc].user = r.user
           /\ [r EXCEPT !.pc = pc].social = r.social
           /\ [r EXCEPT !.pc = pc].browser = r.browser
  BY DEF Requests, Idle

LEMMA ContinueRun == ASSUME NEW todo \in SUBSET Ids PROVE Continue(todo) \in Runs
  BY DEF Continue, Runs, NoJob

\* A finite set of ids has a least one: the next user of the loop is in it.
LEMMA NextUserInTodo ==
    ASSUME NEW todo \in SUBSET Ids, todo # {} PROVE NextUser(todo) \in todo
  <1>1. todo \subseteq Nat
    BY BoundAssumption DEF Ids
  <1>2. \E n \in todo : \A m \in todo : n =< m
    <2> DEFINE R == {ss \in Nat \X Nat : ss[1] < ss[2]}
    <2>1. IsWellFoundedOn(R, Nat)
      BY NatLessThanWellFounded DEF OpToRel
    <2>2. PICK n \in todo : \A m \in todo : ~(<<m, n>> \in R)
      BY <1>1, <2>1, WFMin
    <2>3. \A m \in todo : ~(m < n)
      BY <1>1, <2>2
    <2> QED
      BY <1>1, <2>3
  <1> QED
    BY <1>2 DEF NextUser

-----------------------------------------------------------------------------
(* Initial states *)

LEMMA InitInv == Init => IInv
  <1> SUFFICES ASSUME Init PROVE IInv
    OBVIOUS
  <1>1. TypeOK
    <2>1. Idle \in Requests /\ NoJob \in Runs
      BY DEF Requests, Runs
    <2>2. nextId \in 1..(MaxUsers + 1) /\ 0 \in Points
      BY BoundAssumption DEF Init, Points
    <2> QED
      BY <2>1, <2>2 DEF Init, TypeOK
  <1>2. FreshIds /\ UniqueEmails /\ CredentialsSound
    BY DEF Init, FreshIds, UniqueEmails, Stored, CredentialsSound
  <1>3. SignUpsSound /\ LoginsSound /\ SignedInUsersHaveProfiles
    BY DEF Init, SignUpsSound, LoginsSound, SignedInUsersHaveProfiles, Idle
  <1> QED
    BY <1>1, <1>2, <1>3 DEF IInv

-----------------------------------------------------------------------------
(* Steps *)

\* Signing in with a known account: only a session changes.
LEMMA KnownKeepsInv ==
    ASSUME IInv, NEW w \in Workers, NEW b \in Browsers, NEW s \in Socials,
           callback_known(w, b, s)
    PROVE  IInv'
  <1>1. PICK c \in credentials : session' = [session EXCEPT ![b] = c.user]
    BY DEF callback_known, CredentialsOf
  <1>2. c.user \in Ids /\ c.social \in Socials
    BY DEF IInv, TypeOK
  <1>3. TypeOK'
    BY <1>1, <1>2 DEF callback_known, IInv, TypeOK
  <1>4. users[c.user] # NoRow /\ profiles[c.user] # NoRow
    BY <1>2, EmailAssumption, FreshAssumption DEF IInv, CredentialsSound
  <1>5. SignedInUsersHaveProfiles'
    BY <1>1, <1>4 DEF callback_known, IInv, TypeOK, SignedInUsersHaveProfiles
  <1>6. FreshIds' /\ UniqueEmails' /\ CredentialsSound' /\ SignUpsSound' /\ LoginsSound'
    BY DEF callback_known, IInv, FreshIds, UniqueEmails, Stored, CredentialsSound,
           SignUpsSound, LoginsSound
  <1> QED
    BY <1>3, <1>5, <1>6 DEF IInv

\* A request that goes idle or begins, with no table changed.
LEMMA RequestOnlyKeepsInv ==
    ASSUME IInv, NEW w \in Workers, NEW r \in Requests, r.pc \in {"idle", "user"},
           Goto(w, r),
           UNCHANGED <<users, nextId, profiles, credentials, session, points, job>>
    PROVE  IInv'
  <1>1. TypeOK'
    BY DEF Goto, IInv, TypeOK
  <1>2. SignUpsSound' /\ LoginsSound'
    BY DEF Goto, IInv, TypeOK, SignUpsSound, LoginsSound
  <1>3. FreshIds' /\ UniqueEmails' /\ CredentialsSound' /\ SignedInUsersHaveProfiles'
    BY DEF IInv, FreshIds, UniqueEmails, Stored, CredentialsSound, SignedInUsersHaveProfiles
  <1> QED
    BY <1>1, <1>2, <1>3 DEF IInv

LEMMA UserKeepsInv ==
    ASSUME IInv, NEW w \in Workers, callback_user(w)
    PROVE  IInv'
  <1> DEFINE e == EmailOf[req[w].social]
             r == SigningUp("profile", req[w].browser, req[w].social, nextId)
  <1>1. req[w].browser \in Browsers /\ req[w].social \in Socials /\ nextId \in Ids
    BY RequestFields DEF callback_user, IInv, TypeOK
  <1>2. e \in Emails /\ e # NoRow
    BY <1>1, EmailAssumption, FreshAssumption
  <1>3. /\ r \in Requests /\ r.pc = "profile" /\ r.user = nextId
        /\ r.social = req[w].social
    BY <1>1 DEF SigningUp, Requests
  <1>4. users[nextId] = NoRow
    BY <1>1 DEF IInv, FreshIds, TypeOK
  <1> HIDE DEF e, r
  <1>5. /\ users' = [users EXCEPT ![nextId] = e]
        /\ req' = [req EXCEPT ![w] = r]
        /\ nextId' = nextId + 1
        /\ EmailIsFree(e)
        /\ UNCHANGED <<profiles, credentials, session, points, job>>
    BY DEF callback_user, Goto, e, r
  <1>6. TypeOK'
    <2>1. nextId' \in 1..(MaxUsers + 1)
      BY <1>1, <1>5, BoundAssumption DEF Ids
    <2> QED
      BY <1>1, <1>2, <1>3, <1>5, <2>1 DEF IInv, TypeOK
  <1>7. FreshIds'
    BY <1>1, <1>5 DEF IInv, FreshIds, TypeOK, Ids
  <1>8. UniqueEmails'
    BY <1>1, <1>2, <1>4, <1>5 DEF IInv, TypeOK, UniqueEmails, Stored, EmailIsFree
  <1>9. \A u \in Ids : users[u] # NoRow => users'[u] = users[u]
    BY <1>1, <1>4, <1>5 DEF IInv, TypeOK
  <1>10. CredentialsSound'
    <2> SUFFICES ASSUME NEW c \in credentials
                 PROVE  users'[c.user] = EmailOf[c.social] /\ profiles[c.user] # NoRow
      BY <1>5 DEF CredentialsSound
    <2>1. c.user \in Ids /\ EmailOf[c.social] # NoRow
      BY EmailAssumption, FreshAssumption DEF IInv, TypeOK
    <2> QED
      BY <1>9, <2>1 DEF IInv, CredentialsSound
  <1>11. SignUpsSound'
    <2> SUFFICES ASSUME NEW v \in Workers
                 PROVE  /\ req'[v].pc \in {"profile", "credential", "login"} =>
                              users'[req'[v].user] = EmailOf[req'[v].social]
                        /\ req'[v].pc \in {"credential", "login"} =>
                              profiles[req'[v].user] # NoRow
      BY <1>5 DEF SignUpsSound
    <2>1. CASE v = w
      <3>1. req'[v] = r
        BY <1>5, <2>1 DEF IInv, TypeOK
      <3>2. users'[nextId] = e
        BY <1>1, <1>5 DEF IInv, TypeOK
      <3> QED
        BY <1>3, <3>1, <3>2 DEF e
    <2>2. CASE v # w
      <3>1. req'[v] = req[v] /\ req[v] \in Requests
        BY <1>5, <2>2 DEF IInv, TypeOK
      <3>2. ASSUME req[v].pc \in {"profile", "credential", "login"}
            PROVE  req[v].user \in Ids /\ EmailOf[req[v].social] # NoRow
        BY <3>1, <3>2, RequestFields, EmailAssumption, FreshAssumption
      <3> QED
        BY <3>1, <3>2, <1>9 DEF IInv, SignUpsSound
    <2> QED
      BY <2>1, <2>2
  <1>12. LoginsSound'
    BY <1>3, <1>5 DEF IInv, TypeOK, LoginsSound
  <1>13. SignedInUsersHaveProfiles'
    BY <1>5, <1>9 DEF IInv, TypeOK, SignedInUsersHaveProfiles
  <1> QED
    BY <1>6, <1>7, <1>8, <1>10, <1>11, <1>12, <1>13 DEF IInv

LEMMA ProfileKeepsInv ==
    ASSUME IInv, NEW w \in Workers, callback_profile(w)
    PROVE  IInv'
  <1> DEFINE r == [req[w] EXCEPT !.pc = "credential"]
  <1>1. req[w] \in Requests /\ req[w].pc = "profile" /\ req[w].user \in Ids
    BY RequestFields DEF callback_profile, IInv, TypeOK
  <1>2. /\ r \in Requests /\ r.pc = "credential"
        /\ r.user = req[w].user /\ r.social = req[w].social
    BY <1>1, AdvancedRequest
  <1> HIDE DEF r
  <1>3. /\ profiles' = [profiles EXCEPT ![req[w].user] = 0]
        /\ req' = [req EXCEPT ![w] = r]
        /\ UNCHANGED <<users, nextId, credentials, session, points, job>>
    BY DEF callback_profile, Goto, r
  <1>4. 0 \in Points /\ 0 # NoRow
    BY BoundAssumption, FreshAssumption DEF Points
  <1>5. TypeOK'
    BY <1>1, <1>2, <1>3, <1>4 DEF IInv, TypeOK
  <1>6. \A u \in Ids : profiles[u] # NoRow => profiles'[u] # NoRow
    BY <1>1, <1>3, <1>4 DEF IInv, TypeOK
  <1>7. profiles'[req[w].user] # NoRow
    BY <1>1, <1>3, <1>4 DEF IInv, TypeOK
  <1>8. FreshIds' /\ UniqueEmails'
    BY <1>3 DEF IInv, FreshIds, UniqueEmails, Stored
  <1>9. CredentialsSound'
    BY <1>3, <1>6 DEF IInv, TypeOK, CredentialsSound
  <1>10. SignUpsSound'
    <2> SUFFICES ASSUME NEW v \in Workers
                 PROVE  /\ req'[v].pc \in {"profile", "credential", "login"} =>
                              users[req'[v].user] = EmailOf[req'[v].social]
                        /\ req'[v].pc \in {"credential", "login"} =>
                              profiles'[req'[v].user] # NoRow
      BY <1>3 DEF SignUpsSound
    <2>1. CASE v = w
      BY <1>1, <1>2, <1>3, <1>7, <2>1 DEF IInv, TypeOK, SignUpsSound
    <2>2. CASE v # w
      <3>1. req'[v] = req[v] /\ req[v] \in Requests
        BY <1>3, <2>2 DEF IInv, TypeOK
      <3> QED
        BY <3>1, <1>6, RequestFields DEF IInv, SignUpsSound
    <2> QED
      BY <2>1, <2>2
  <1>11. LoginsSound'
    BY <1>2, <1>3 DEF IInv, TypeOK, LoginsSound
  <1>12. SignedInUsersHaveProfiles'
    BY <1>3, <1>6 DEF IInv, TypeOK, SignedInUsersHaveProfiles
  <1> QED
    BY <1>5, <1>8, <1>9, <1>10, <1>11, <1>12 DEF IInv

LEMMA CredentialKeepsInv ==
    ASSUME IInv, NEW w \in Workers, callback_credential(w)
    PROVE  IInv'
  <1> DEFINE r == [req[w] EXCEPT !.pc = "login"]
             c == [user |-> req[w].user, social |-> req[w].social]
  <1>1. /\ req[w] \in Requests /\ req[w].pc = "credential"
        /\ req[w].user \in Ids /\ req[w].social \in Socials
    BY RequestFields DEF callback_credential, IInv, TypeOK
  <1>2. /\ r \in Requests /\ r.pc = "login"
        /\ r.user = req[w].user /\ r.social = req[w].social
    BY <1>1, AdvancedRequest
  <1>3. /\ c \in [user : Ids, social : Socials]
        /\ c.user = req[w].user /\ c.social = req[w].social
        /\ c = [user |-> r.user, social |-> r.social]
    BY <1>1, <1>2
  <1> HIDE DEF r, c
  <1>4. /\ credentials' = credentials \cup {c}
        /\ req' = [req EXCEPT ![w] = r]
        /\ UNCHANGED <<users, nextId, profiles, session, points, job>>
    BY DEF callback_credential, Goto, r, c
  <1>5. TypeOK'
    BY <1>2, <1>3, <1>4 DEF IInv, TypeOK
  <1>6. CredentialsSound'
    BY <1>1, <1>3, <1>4 DEF IInv, CredentialsSound, SignUpsSound
  <1>7. SignUpsSound'
    BY <1>1, <1>2, <1>4 DEF IInv, TypeOK, SignUpsSound
  <1>8. LoginsSound'
    BY <1>3, <1>4 DEF IInv, TypeOK, LoginsSound
  <1>9. FreshIds' /\ UniqueEmails' /\ SignedInUsersHaveProfiles'
    BY <1>4 DEF IInv, FreshIds, UniqueEmails, Stored, SignedInUsersHaveProfiles
  <1> QED
    BY <1>5, <1>6, <1>7, <1>8, <1>9 DEF IInv

LEMMA LoginKeepsInv ==
    ASSUME IInv, NEW w \in Workers, callback_login(w)
    PROVE  IInv'
  <1>1. /\ req[w] \in Requests /\ req[w].pc = "login" /\ req[w].user \in Ids
        /\ req[w].social \in Socials /\ req[w].browser \in Browsers
    BY RequestFields DEF callback_login, IInv, TypeOK
  <1>2. users[req[w].user] # NoRow /\ profiles[req[w].user] # NoRow
    BY <1>1, EmailAssumption, FreshAssumption DEF IInv, SignUpsSound
  <1>3. TypeOK'
    BY <1>1 DEF callback_login, Goto, Requests, IInv, TypeOK
  <1>4. SignedInUsersHaveProfiles'
    BY <1>1, <1>2 DEF callback_login, IInv, TypeOK, SignedInUsersHaveProfiles
  <1>5. SignUpsSound' /\ LoginsSound'
    BY DEF callback_login, Goto, Idle, IInv, TypeOK, SignUpsSound, LoginsSound
  <1>6. FreshIds' /\ UniqueEmails' /\ CredentialsSound'
    BY DEF callback_login, IInv, FreshIds, UniqueEmails, Stored, CredentialsSound
  <1> QED
    BY <1>3, <1>4, <1>5, <1>6 DEF IInv

\* Signing out, earning points, and the command: users, credentials and
\* requests stay, no profile disappears, nobody new is signed in.
LEMMA RestKeepsInv ==
    ASSUME IInv, TypeOK',
           UNCHANGED <<users, nextId, credentials, req>>,
           \A u \in Ids : profiles[u] # NoRow => profiles'[u] # NoRow,
           \A b \in Browsers : session'[b] \in {session[b], Nobody}
    PROVE  IInv'
  <1>1. FreshIds' /\ UniqueEmails' /\ LoginsSound'
    BY DEF IInv, FreshIds, UniqueEmails, Stored, LoginsSound
  <1>2. CredentialsSound'
    BY DEF IInv, TypeOK, CredentialsSound
  <1>3. SignUpsSound'
    BY RequestFields DEF IInv, TypeOK, SignUpsSound
  <1>4. SignedInUsersHaveProfiles'
    BY DEF IInv, TypeOK, SignedInUsersHaveProfiles
  <1> QED
    BY <1>1, <1>2, <1>3, <1>4 DEF IInv

LEMMA JobKeepsInv ==
    ASSUME IInv, NEW j \in Jobs, JobStep(j)
    PROVE  IInv'
  <1>1. job[j] \in Runs
    BY DEF IInv, TypeOK
  <1>2. CASE StartScoreJob(j)
    <2>1. Continue(Stored) \in Runs
      BY ContinueRun DEF Stored
    <2>2. TypeOK'
      BY <1>2, <2>1 DEF StartScoreJob, JobGoto, IInv, TypeOK
    <2> QED
      BY <1>2, <2>2, RestKeepsInv DEF StartScoreJob
  <1>3. CASE ReadScore(j)
    <2> DEFINE u == NextUser(job[j].todo)
               r == [pc |-> "save", todo |-> job[j].todo \ {u}, user |-> u,
                     loaded |-> profiles[u], score |-> points[u]]
    <2>1. job[j].todo \in SUBSET Ids /\ u \in Ids
      BY <1>1, <1>3, RunFields, NextUserInTodo DEF ReadScore
    <2>2. profiles[u] # NoRow => r \in Runs
      BY <2>1 DEF Runs, IInv, TypeOK
    <2>3. NoJob \in Runs
      BY DEF Runs
    <2>4. JobGoto(j, IF profiles[u] = NoRow THEN NoJob ELSE r)
      BY <1>3 DEF ReadScore
    <2> HIDE DEF r, u
    <2>5. TypeOK'
      BY <1>3, <2>2, <2>3, <2>4 DEF ReadScore, JobGoto, IInv, TypeOK
    <2> QED
      BY <1>3, <2>5, RestKeepsInv DEF ReadScore
  <1>4. CASE SaveScore(j)
    <2>1. job[j].todo \in SUBSET Ids /\ job[j].user \in Ids /\ job[j].score \in Points
      BY <1>1, <1>4, RunFields DEF SaveScore
    <2>2. Continue(job[j].todo) \in Runs
      BY <2>1, ContinueRun
    <2>3. profiles' \in [Ids -> Points \cup {NoRow}]
      BY <1>4, <2>1 DEF SaveScore, IInv, TypeOK
    <2>4. TypeOK'
      BY <1>4, <2>2, <2>3 DEF SaveScore, JobGoto, IInv, TypeOK
    <2>5. \A u \in Ids : profiles[u] # NoRow => profiles'[u] # NoRow
      BY <1>4, <2>1, FreshAssumption DEF SaveScore, IInv, TypeOK
    <2> QED
      BY <1>4, <2>4, <2>5, RestKeepsInv DEF SaveScore
  <1> QED
    BY <1>2, <1>3, <1>4 DEF JobStep

LEMMA NextInv == IInv /\ [Next]_vars => IInv'
  <1> SUFFICES ASSUME IInv, [Next]_vars PROVE IInv'
    OBVIOUS
  <1>1. ASSUME NEW w \in Workers, NEW b \in Browsers, NEW s \in Socials,
               callback_known(w, b, s) \/ callback_new(w, b, s)
        PROVE  IInv'
    <2>1. [pc |-> "user", browser |-> b, social |-> s] \in Requests
      BY DEF Requests
    <2> QED
      BY <1>1, <2>1, KnownKeepsInv, RequestOnlyKeepsInv DEF callback_new
  <1>2. Idle \in Requests /\ Idle.pc = "idle"
    BY DEF Requests, Idle
  <1>3. ASSUME NEW w \in Workers, Step(w) PROVE IInv'
    <2>1. CASE callback_user_taken(w)
      BY <1>2, <2>1, RequestOnlyKeepsInv DEF callback_user_taken
    <2> QED
      BY <1>3, <2>1, UserKeepsInv, ProfileKeepsInv, CredentialKeepsInv, LoginKeepsInv DEF Step
  <1>4. ASSUME NEW w \in Workers, RequestDies(w) PROVE IInv'
    BY <1>2, <1>4, RequestOnlyKeepsInv DEF RequestDies
  <1>5. ASSUME NEW b \in Browsers, logout(b) PROVE IInv'
    <2>1. TypeOK'
      BY <1>5 DEF logout, IInv, TypeOK
    <2>2. \A d \in Browsers : session'[d] \in {session[d], Nobody}
      BY <1>5 DEF logout, IInv, TypeOK
    <2> QED
      BY <1>5, <2>1, <2>2, RestKeepsInv DEF logout
  <1>6. ASSUME NEW b \in Browsers, NEW n \in Points, Contribute(b, n) PROVE IInv'
    <2>1. TypeOK'
      BY <1>6 DEF Contribute, IInv, TypeOK
    <2> QED
      BY <1>6, <2>1, RestKeepsInv DEF Contribute
  <1>7. ASSUME NEW j \in Jobs, JobStep(j) PROVE IInv'
    BY <1>7, JobKeepsInv
  <1>8. CASE UNCHANGED vars
    <2>1. TypeOK'
      BY <1>8 DEF vars, IInv, TypeOK
    <2> QED
      BY <1>8, <2>1, RestKeepsInv DEF vars
  <1> QED
    BY <1>1, <1>3, <1>4, <1>5, <1>6, <1>7, <1>8 DEF Next, Visit

\* IInv is an invariant of the specification.
LEMMA Invariance == Spec => []IInv
  BY InitInv, NextInv, PTL DEF Spec

-----------------------------------------------------------------------------
(* Theorems *)

\* Tables, sessions, requests and runs hold values of their kind, for every
\* number of accounts, workers and runs.
THEOREM TypeCorrect == Spec => []TypeOK
  <1>1. IInv => TypeOK
    BY DEF IInv
  <1> QED
    BY <1>1, Invariance, PTL

\* Whoever is signed in has a profile, however /callback requests interleave
\* and wherever they die.
THEOREM SignedInHaveProfiles == Spec => []SignedInUsersHaveProfiles
  <1>1. IInv => SignedInUsersHaveProfiles
    BY DEF IInv
  <1> QED
    BY <1>1, Invariance, PTL

\* The unique key on users.email is enough to keep racing first sign-ins of
\* one Facebook account from storing two credentials.
THEOREM OneUser == Spec => []OneUserPerAccount
  <1>1. IInv => OneUserPerAccount
    <2> SUFFICES ASSUME IInv, NEW c \in credentials, NEW d \in credentials,
                        c.social = d.social
                 PROVE  c = d
      BY DEF OneUserPerAccount
    <2>1. /\ c \in [user : Ids, social : Socials]
          /\ d \in [user : Ids, social : Socials]
      BY DEF IInv, TypeOK
    <2>2. users[c.user] = EmailOf[c.social] /\ users[d.user] = EmailOf[d.social]
      BY DEF IInv, CredentialsSound
    <2>3. EmailOf[c.social] \in Emails
      BY <2>1, EmailAssumption
    <2>4. c.user \in Stored /\ d.user \in Stored
      BY <2>1, <2>2, <2>3, FreshAssumption DEF Stored
    <2>5. c.user = d.user
      BY <2>2, <2>4 DEF IInv, UniqueEmails
    <2> QED
      BY <2>1, <2>5
  <1> QED
    BY <1>1, Invariance, PTL

\* A session changes hands only to the user of a stored credential.
THEOREM SessionsFollow == Spec => SessionsFollowCredentials
  <1> DEFINE Handover ==
        \A b \in Browsers : session'[b] \notin {session[b], Nobody} =>
            \E c \in credentials : c.user = session'[b]
  <1>1. IInv /\ [Next]_vars => [Handover]_vars
    <2> SUFFICES ASSUME IInv, Next, NEW b \in Browsers,
                        session'[b] \notin {session[b], Nobody}
                 PROVE  \E c \in credentials : c.user = session'[b]
      OBVIOUS
    <2> session \in [Browsers -> Ids \cup {Nobody}]
      BY DEF IInv, TypeOK
    <2>1. ASSUME NEW w \in Workers, NEW a \in Browsers, NEW s \in Socials,
                 callback_known(w, a, s)
          PROVE  \E c \in credentials : c.user = session'[b]
      BY <2>1 DEF callback_known, CredentialsOf
    <2>2. ASSUME NEW w \in Workers, callback_login(w)
          PROVE  \E c \in credentials : c.user = session'[b]
      <3>1. [user |-> req[w].user, social |-> req[w].social] \in credentials
        BY <2>2 DEF callback_login, IInv, LoginsSound
      <3>2. session'[b] = req[w].user
        BY <2>2 DEF callback_login
      <3> QED
        BY <3>1, <3>2
    <2>3. ASSUME NEW a \in Browsers, logout(a)
          PROVE  FALSE
      BY <2>3 DEF logout
    <2>4. session' # session
      OBVIOUS
    <2> QED
      BY <2>1, <2>2, <2>3, <2>4
         DEF Next, Visit, Step, JobStep, callback_new, callback_user, callback_user_taken,
             callback_profile, callback_credential, RequestDies, Contribute,
             StartScoreJob, ReadScore, SaveScore
  <1> QED
    BY <1>1, Invariance, PTL DEF Spec, SessionsFollowCredentials

\* An address a dead sign-in left behind is lost to its owner: no sequence of
\* later sign-ins, of any account, makes it lead to a credential.
THEOREM AbandonedStays == Spec => AbandonedForGood
  <1>1. IInv /\ [Next]_vars =>
            [\A e \in Emails : Abandoned(e) => Abandoned(e)']_vars
    <2> SUFFICES ASSUME IInv, Next, NEW e \in Emails, Abandoned(e)
                 PROVE  Abandoned(e)'
      OBVIOUS
    <2> TypeOK
      BY DEF IInv
    <2> USE DEF Abandoned
    <2>1. ASSUME users' = users, credentials' = credentials,
                 \A w \in Workers : req'[w].pc \in {"profile", "credential"} =>
                     req[w].pc \in {"profile", "credential"} /\ req'[w].user = req[w].user
          PROVE  Abandoned(e)'
      BY <2>1 DEF Stored
    <2>2. ASSUME NEW w \in Workers, NEW r,
                 Goto(w, r), r.pc \in {"idle", "user", "login"},
                 users' = users, credentials' = credentials
          PROVE  Abandoned(e)'
      <3>1. \A v \in Workers : req'[v].pc \in {"profile", "credential"} =>
                     req[v].pc \in {"profile", "credential"} /\ req'[v].user = req[v].user
        BY <2>2 DEF Goto, TypeOK
      <3> QED
        BY <2>1, <2>2, <3>1
    <2>3. ASSUME NEW w \in Workers, callback_user(w) PROVE Abandoned(e)'
      <3> DEFINE f == EmailOf[req[w].social]
      <3>1. f # e
        BY <2>3 DEF callback_user, EmailIsFree
      <3>2. nextId \in Ids /\ users[nextId] = NoRow /\ users'[nextId] = f
        BY <2>3 DEF callback_user, IInv, FreshIds, TypeOK, Ids
      <3>3. \A u \in Ids : u # nextId => users'[u] = users[u]
        BY <2>3 DEF callback_user, TypeOK
      <3>4. (\E u \in Stored : users[u] = e)'
        BY <3>2, <3>3 DEF Stored
      <3>5. \A c \in credentials' : users'[c.user] # e
        <4> SUFFICES ASSUME NEW c \in credentials PROVE users'[c.user] # e
          BY <2>3 DEF callback_user
        <4>1. c.user \in Ids
          BY DEF TypeOK
        <4> QED
          BY <4>1, <3>1, <3>2, <3>3
      <3>6. ASSUME NEW v \in Workers, req'[v].pc \in {"profile", "credential"}
            PROVE  users'[req'[v].user] # e
        <4>1. CASE v = w
          BY <2>3, <4>1, <3>1, <3>2 DEF callback_user, Goto, SigningUp, TypeOK
        <4>2. CASE v # w
          <5>1. req'[v] = req[v]
            BY <2>3, <4>2 DEF callback_user, Goto, TypeOK
          <5>2. req[v].user \in Ids
            BY <5>1, <3>6, RequestFields DEF TypeOK
          <5> QED
            BY <5>1, <5>2, <3>6, <3>1, <3>2, <3>3
        <4> QED
          BY <4>1, <4>2
      <3> QED
        BY <3>4, <3>5, <3>6
    <2>4. ASSUME NEW w \in Workers, callback_profile(w) PROVE Abandoned(e)'
      <3>1. req[w] \in Requests /\ req[w].pc = "profile"
        BY <2>4 DEF callback_profile, TypeOK
      <3>2. [req[w] EXCEPT !.pc = "credential"].user = req[w].user
        BY <3>1, AdvancedRequest
      <3>3. \A v \in Workers :
                req'[v] = IF v = w THEN [req[w] EXCEPT !.pc = "credential"] ELSE req[v]
        BY <2>4 DEF callback_profile, Goto, TypeOK
      <3>4. \A v \in Workers : req'[v].pc \in {"profile", "credential"} =>
                req[v].pc \in {"profile", "credential"} /\ req'[v].user = req[v].user
        BY <3>1, <3>2, <3>3
      <3> QED
        BY <2>1, <2>4, <3>4 DEF callback_profile
    <2>5. ASSUME NEW w \in Workers, callback_credential(w) PROVE Abandoned(e)'
      <3>1. req[w] \in Requests /\ req[w].pc = "credential" /\ users[req[w].user] # e
        BY <2>5 DEF callback_credential, TypeOK
      <3>2. users' = users
        BY <2>5 DEF callback_credential
      <3>3. \A c \in credentials' : users'[c.user] # e
        BY <2>5, <3>1 DEF callback_credential
      <3>4. [req[w] EXCEPT !.pc = "login"].pc = "login"
        BY <3>1, AdvancedRequest
      <3>5. \A v \in Workers :
                req'[v] = IF v = w THEN [req[w] EXCEPT !.pc = "login"] ELSE req[v]
        BY <2>5 DEF callback_credential, Goto, TypeOK
      <3>6. \A v \in Workers : req'[v].pc \in {"profile", "credential"} => req'[v] = req[v]
        BY <3>4, <3>5
      <3> QED
        BY <3>2, <3>3, <3>6 DEF Stored
    <2>6. ASSUME NEW w \in Workers, NEW b \in Browsers, NEW s \in Socials,
                 callback_known(w, b, s) \/ callback_new(w, b, s)
          PROVE  Abandoned(e)'
      <3>1. CASE callback_known(w, b, s)
        BY <3>1, <2>1 DEF callback_known
      <3>2. CASE callback_new(w, b, s)
        BY <3>2, <2>2 DEF callback_new
      <3> QED
        BY <2>6, <3>1, <3>2
    <2>7. ASSUME NEW w \in Workers,
                 callback_user_taken(w) \/ callback_login(w) \/ RequestDies(w)
          PROVE  Abandoned(e)'
      BY <2>2, <2>7 DEF callback_user_taken, callback_login, RequestDies, Idle
    <2>8. ASSUME NEW b \in Browsers, logout(b) \/ \E n \in Points : Contribute(b, n)
          PROVE  Abandoned(e)'
      BY <2>1, <2>8 DEF logout, Contribute
    <2>9. ASSUME NEW j \in Jobs, JobStep(j) PROVE Abandoned(e)'
      BY <2>1, <2>9 DEF JobStep, StartScoreJob, ReadScore, SaveScore
    <2> QED
      BY <2>3, <2>4, <2>5, <2>6, <2>7, <2>8, <2>9 DEF Next, Visit, Step
  <1> QED
    BY <1>1, Invariance, PTL DEF Spec, AbandonedForGood

\* However many sign-ins race for an address, only one that is killed after
\* storing its user leaves the address behind: the others fail before they store
\* anything or go on to store their credential.
THEOREM AbandonedByDeaths == Spec => OnlyDeathsAbandon
  <1> DEFINE Busy(r) == r.pc \in {"profile", "credential"}
             Killing == \E w \in Workers : RequestDies(w) /\ req[w].pc \in {"profile", "credential"}
  <1>1. IInv /\ [Next]_vars =>
            [\A e \in Emails : ~Abandoned(e) /\ Abandoned(e)' => Killing]_vars
    <2> SUFFICES ASSUME IInv, Next, NEW e \in Emails, ~Abandoned(e), ~Killing
                 PROVE  ~Abandoned(e)'
      OBVIOUS
    <2> TypeOK
      BY DEF IInv
    <2> USE DEF Abandoned
    <2>1. ASSUME users' = users, credentials' = credentials,
                 \A v \in Workers : Busy(req[v]) =>
                     Busy(req'[v]) /\ req'[v].user = req[v].user
          PROVE  ~Abandoned(e)'
      BY <2>1 DEF Stored
    <2>2. ASSUME NEW w \in Workers, NEW r, Goto(w, r), ~Busy(req[w]),
                 users' = users, credentials' = credentials
          PROVE  ~Abandoned(e)'
      <3>1. \A v \in Workers : v # w => req'[v] = req[v]
        BY <2>2 DEF Goto, TypeOK
      <3>2. \A v \in Workers : Busy(req[v]) => req'[v] = req[v]
        BY <2>2, <3>1
      <3> QED
        BY <2>1, <2>2, <3>2
    <2>3. ASSUME NEW w \in Workers, callback_user(w) PROVE ~Abandoned(e)'
      <3> DEFINE f == EmailOf[req[w].social]
      <3>1. nextId \in Ids /\ users[nextId] = NoRow /\ users'[nextId] = f
        BY <2>3 DEF callback_user, IInv, FreshIds, TypeOK, Ids
      <3>2. \A u \in Ids : u # nextId => users'[u] = users[u]
        BY <2>3 DEF callback_user, TypeOK
      <3>3. e # NoRow
        BY FreshAssumption
      <3>4. CASE f = e
        <4>1. Busy(req'[w]) /\ req'[w].user = nextId
          BY <2>3 DEF callback_user, Goto, SigningUp, TypeOK
        <4> QED
          BY <3>1, <3>4, <4>1
      <3>5. CASE f # e
        <4>1. CASE \A u \in Stored : users[u] # e
          BY <3>1, <3>2, <3>5, <4>1 DEF Stored
        <4>2. CASE \E c \in credentials : users[c.user] = e
          <5>1. PICK c \in credentials : users[c.user] = e
            BY <4>2
          <5>2. c.user \in Ids /\ c.user # nextId
            BY <5>1, <3>1, <3>3 DEF TypeOK
          <5>3. c \in credentials' /\ users'[c.user] = e
            BY <2>3, <5>1, <5>2, <3>2 DEF callback_user
          <5> QED
            BY <5>3
        <4>3. CASE \E v \in Workers : Busy(req[v]) /\ users[req[v].user] = e
          <5>1. PICK v \in Workers : Busy(req[v]) /\ users[req[v].user] = e
            BY <4>3
          <5>2. req[v].user \in Ids /\ req[v].user # nextId
            BY <5>1, <3>1, <3>3, RequestFields DEF TypeOK
          <5>3. req'[v] = req[v]
            BY <2>3, <5>1 DEF callback_user, Goto, TypeOK
          <5> QED
            BY <5>1, <5>2, <5>3, <3>2
        <4> QED
          BY <4>1, <4>2, <4>3
      <3> QED
        BY <3>4, <3>5
    <2>4. ASSUME NEW w \in Workers, callback_profile(w) PROVE ~Abandoned(e)'
      <3>1. req[w] \in Requests /\ req[w].pc = "profile"
        BY <2>4 DEF callback_profile, TypeOK
      <3>2. /\ [req[w] EXCEPT !.pc = "credential"].user = req[w].user
            /\ [req[w] EXCEPT !.pc = "credential"].pc = "credential"
        BY <3>1, AdvancedRequest
      <3>3. \A v \in Workers :
                req'[v] = IF v = w THEN [req[w] EXCEPT !.pc = "credential"] ELSE req[v]
        BY <2>4 DEF callback_profile, Goto, TypeOK
      <3>4. \A v \in Workers : Busy(req[v]) => Busy(req'[v]) /\ req'[v].user = req[v].user
        BY <3>2, <3>3
      <3> QED
        BY <2>1, <2>4, <3>4 DEF callback_profile
    <2>5. ASSUME NEW w \in Workers, callback_credential(w) PROVE ~Abandoned(e)'
      <3> DEFINE c == [user |-> req[w].user, social |-> req[w].social]
      <3>1. users' = users /\ credentials' = credentials \cup {c} /\ c.user = req[w].user
        BY <2>5 DEF callback_credential
      <3>2. \A v \in Workers : v # w => req'[v] = req[v]
        BY <2>5 DEF callback_credential, Goto, TypeOK
      <3>3. CASE users[req[w].user] = e
        BY <3>1, <3>3
      <3>4. CASE users[req[w].user] # e
        BY <3>1, <3>2, <3>4 DEF Stored
      <3> QED
        BY <3>3, <3>4
    <2>6. ASSUME NEW w \in Workers, NEW b \in Browsers, NEW s \in Socials,
                 callback_known(w, b, s) \/ callback_new(w, b, s)
          PROVE  ~Abandoned(e)'
      <3>1. CASE callback_known(w, b, s)
        BY <3>1, <2>1 DEF callback_known
      <3>2. CASE callback_new(w, b, s)
        BY <3>2, <2>2 DEF callback_new, Idle
      <3> QED
        BY <2>6, <3>1, <3>2
    <2>7. ASSUME NEW w \in Workers,
                 callback_user_taken(w) \/ callback_login(w) \/ RequestDies(w)
          PROVE  ~Abandoned(e)'
      BY <2>2, <2>7 DEF callback_user_taken, callback_login, RequestDies
    <2>8. ASSUME NEW b \in Browsers, logout(b) \/ \E n \in Points : Contribute(b, n)
          PROVE  ~Abandoned(e)'
      BY <2>1, <2>8 DEF logout, Contribute
    <2>9. ASSUME NEW j \in Jobs, JobStep(j) PROVE ~Abandoned(e)'
      BY <2>1, <2>9 DEF JobStep, StartScoreJob, ReadScore, SaveScore
    <2> QED
      BY <2>3, <2>4, <2>5, <2>6, <2>7, <2>8, <2>9 DEF Next, Visit, Step
  <1> QED
    BY <1>1, Invariance, PTL DEF Spec, OnlyDeathsAbandon

=============================================================================
