------------------------------ MODULE Accounts ------------------------------
(***************************************************************************)
(* Accounts: signing in through Facebook (/callback), signing out, and the *)
(* scheduled command that copies every user's experience points into the   *)
(* profile (RefreshUserScores).                                            *)
(*                                                                         *)
(* A first sign-in stores a user, a profile and a credential in three      *)
(* statements without a transaction.  Pages read Auth::user()->profile     *)
(* without looking whether there is one.                                   *)
(***************************************************************************)
EXTENDS Integers, FiniteSets

CONSTANTS
    Socials,    \* Facebook accounts
    Emails,     \* e-mail addresses
    EmailOf,    \* the address the site files a Facebook account under
    Browsers,   \* browser sessions
    Workers,    \* PHP workers
    Jobs,       \* processes the scheduler may have running at once
    MaxUsers,   \* bound: auto-increment ids ever given to users
    MaxPoints,  \* bound: experience points a user can have
    NoRow,      \* a row that is not in its table
    Nobody,     \* a session in which nobody is signed in
    MayDie      \* whether a request can be cut short between two statements

Ids == 1..MaxUsers
Points == 0..MaxPoints

(* Every account with an address of its own, named like the account. *)
OwnAddress == [s \in Socials |-> s]

ASSUME EmailAssumption  == EmailOf \in [Socials -> Emails]
ASSUME BoundAssumption  == MaxUsers \in Nat /\ MaxPoints \in Nat
ASSUME FreshAssumption  == NoRow \notin Emails /\ NoRow \notin Points /\ Nobody \notin Ids
ASSUME SwitchAssumption == MayDie \in BOOLEAN

VARIABLES
    users,          \* table users: id -> e-mail address or NoRow
    nextId,         \* its auto-increment counter
    profiles,       \* table profiles: user id -> stored score or NoRow
    credentials,    \* table social_credentials: which account signs in as whom
    session,        \* who is signed in, per browser
    points,         \* User::getScore() of every user, as of now
    req,            \* what each worker is doing
    job             \* what each run of refresh:user-scores is doing

vars == <<users, nextId, profiles, credentials, session, points, req, job>>

-----------------------------------------------------------------------------

Idle == [pc |-> "idle"]

Goto(w, r) == req' = [req EXCEPT ![w] = r]

SigningUp(pc, b, s, u) == [pc |-> pc, browser |-> b, social |-> s, user |-> u]

Stored == {u \in Ids : users[u] # NoRow}

\* SocialCredential::where('social_id', s)
CredentialsOf(s) == {c \in credentials : c.social = s}

-----------------------------------------------------------------------------
(* /callback *)

\* The account is known: sign in as its user.
callback_known(w, b, s) ==
    /\ req[w] = Idle
    /\ \E c \in CredentialsOf(s) : session' = [session EXCEPT ![b] = c.user]
    /\ UNCHANGED <<users, nextId, profiles, credentials, points, req, job>>

\* The account is not known: begin to store a new user.
callback_new(w, b, s) ==
    /\ req[w] = Idle
    /\ CredentialsOf(s) = {}
    /\ Goto(w, [pc |-> "user", browser |-> b, social |-> s])
    /\ UNCHANGED <<users, nextId, profiles, credentials, session, points, job>>

\* Fault: the address is not unique.
FaultyEmailIsFree(e) == TRUE

\* The unique key on users.email.
EmailIsFree(e) == \A u \in Stored : users[u] # e

\* Fault: no profile is stored.
FaultyUser(w) ==
    /\ req[w].pc = "user"
    /\ nextId \in Ids
    /\ EmailIsFree(EmailOf[req[w].social])
    /\ users' = [users EXCEPT ![nextId] = EmailOf[req[w].social]]
    /\ nextId' = nextId + 1
    /\ Goto(w, SigningUp("credential", req[w].browser, req[w].social, nextId))
    /\ UNCHANGED <<profiles, credentials, session, points, job>>

callback_user(w) ==
    /\ req[w].pc = "user"
    /\ nextId \in Ids
    /\ EmailIsFree(EmailOf[req[w].social])
    /\ users' = [users EXCEPT ![nextId] = EmailOf[req[w].social]]
    /\ nextId' = nextId + 1
    /\ Goto(w, SigningUp("profile", req[w].browser, req[w].social, nextId))
    /\ UNCHANGED <<profiles, credentials, session, points, job>>

\* The address is taken: the INSERT throws and the sign-in fails.
callback_user_taken(w) ==
    /\ req[w].pc = "user"
    /\ ~EmailIsFree(EmailOf[req[w].social])
    /\ Goto(w, Idle)
    /\ UNCHANGED <<users, nextId, profiles, credentials, session, points, job>>

\* Fault: no credential is stored.
FaultyProfile(w) ==
    /\ req[w].pc = "profile"
    /\ profiles' = [profiles EXCEPT ![req[w].user] = 0]
    /\ Goto(w, [req[w] EXCEPT !.pc = "login"])
    /\ UNCHANGED <<users, nextId, credentials, session, points, job>>

callback_profile(w) ==
    /\ req[w].pc = "profile"
    /\ profiles' = [profiles EXCEPT ![req[w].user] = 0]
    /\ Goto(w, [req[w] EXCEPT !.pc = "credential"])
    /\ UNCHANGED <<users, nextId, credentials, session, points, job>>

callback_credential(w) ==
    /\ req[w].pc = "credential"
    /\ credentials' = credentials \cup {[user |-> req[w].user, social |-> req[w].social]}
    /\ Goto(w, [req[w] EXCEPT !.pc = "login"])
    /\ UNCHANGED <<users, nextId, profiles, session, points, job>>

callback_login(w) ==
    /\ req[w].pc = "login"
    /\ session' = [session EXCEPT ![req[w].browser] = req[w].user]
    /\ Goto(w, Idle)
    /\ UNCHANGED <<users, nextId, profiles, credentials, points, job>>

logout(b) ==
    /\ session[b] # Nobody
    /\ session' = [session EXCEPT ![b] = Nobody]
    /\ UNCHANGED <<users, nextId, profiles, credentials, points, req, job>>

RequestDies(w) ==
    /\ MayDie
    /\ req[w] # Idle
    /\ Goto(w, Idle)
    /\ UNCHANGED <<users, nextId, profiles, credentials, session, points, job>>

-----------------------------------------------------------------------------
(* Experience points *)

\* A signed-in user checks in, rates, comments, edits, tags or takes that back.
\* User::getScore adds these up whenever it is called.
Contribute(b, n) ==
    /\ session[b] # Nobody
    /\ points' = [points EXCEPT ![session[b]] = n]
    /\ UNCHANGED <<users, nextId, profiles, credentials, session, req, job>>

NoJob == [pc |-> "idle"]

JobGoto(j, r) == job' = [job EXCEPT ![j] = r]

Continue(todo) == IF todo = {} THEN NoJob ELSE [pc |-> "read", todo |-> todo]

\* The next user of the loop: users are loaded in the order of their ids.
NextUser(todo) == CHOOSE u \in todo : \A v \in todo : u =< v

\* refresh:user-scores starts every ten minutes, whether or not the last run
\* has ended, and loads all users.
StartScoreJob(j) ==
    /\ job[j] = NoJob
    /\ JobGoto(j, Continue(Stored))
    /\ UNCHANGED <<users, nextId, profiles, credentials, session, points, req>>

\* One user: the profile is loaded and the points are added up.  Without a
\* profile the command throws, and the users after this one are not reached.
ReadScore(j) ==
    /\ job[j].pc = "read"
    /\ LET u == NextUser(job[j].todo) IN
         JobGoto(j, IF profiles[u] = NoRow THEN NoJob
                    ELSE [pc |-> "save", todo |-> job[j].todo \ {u}, user |-> u,
                          loaded |-> profiles[u], score |-> points[u]])
    /\ UNCHANGED <<users, nextId, profiles, credentials, session, points, req>>

\* Fault: a score never falls.
FaultySaveScore(j) ==
    /\ job[j].pc = "save"
    /\ profiles' = IF job[j].score =< job[j].loaded THEN profiles
                   ELSE [profiles EXCEPT ![job[j].user] = job[j].score]
    /\ JobGoto(j, Continue(job[j].todo))
    /\ UNCHANGED <<users, nextId, credentials, session, points, req>>

\* save(): nothing is sent when the score is the one that was loaded.
SaveScore(j) ==
    /\ job[j].pc = "save"
    /\ profiles' = IF job[j].score = job[j].loaded THEN profiles
                   ELSE [profiles EXCEPT ![job[j].user] = job[j].score]
    /\ JobGoto(j, Continue(job[j].todo))
    /\ UNCHANGED <<users, nextId, credentials, session, points, req>>

-----------------------------------------------------------------------------

Init ==
    /\ users = [u \in Ids |-> NoRow]
    /\ nextId = 1
    /\ profiles = [u \in Ids |-> NoRow]
    /\ credentials = {}
    /\ session = [b \in Browsers |-> Nobody]
    /\ points = [u \in Ids |-> 0]
    /\ req = [w \in Workers |-> Idle]
    /\ job = [j \in Jobs |-> NoJob]

Visit(w) ==
    \E b \in Browsers, s \in Socials : callback_known(w, b, s) \/ callback_new(w, b, s)

Step(w) ==
    \/ callback_user(w)
    \/ callback_user_taken(w)
    \/ callback_profile(w)
    \/ callback_credential(w)
    \/ callback_login(w)

JobStep(j) == StartScoreJob(j) \/ ReadScore(j) \/ SaveScore(j)

Next ==
    \/ \E w \in Workers : Visit(w) \/ Step(w) \/ RequestDies(w)
    \/ \E b \in Browsers : logout(b) \/ \E n \in Points : Contribute(b, n)
    \/ \E j \in Jobs : JobStep(j)

Spec == Init /\ [][Next]_vars

\* A request that was accepted is carried on, and cron keeps running the
\* command; users owe nothing.
FairSpec ==
    /\ Spec
    /\ \A w \in Workers : WF_vars(Step(w))
    /\ \A j \in Jobs : WF_vars(JobStep(j))

-----------------------------------------------------------------------------
(* Properties *)

Requests ==
    {Idle}
        \cup [pc : {"user"}, browser : Browsers, social : Socials]
        \cup [pc : {"profile", "credential", "login"}, browser : Browsers,
              social : Socials, user : Ids]

Runs ==
    {NoJob}
        \cup [pc : {"read"}, todo : (SUBSET Ids) \ {{}}]
        \cup [pc : {"save"}, todo : SUBSET Ids, user : Ids, loaded : Points, score : Points]

\* Tables, sessions, requests and runs hold values of their kind.
TypeOK ==
    /\ users \in [Ids -> Emails \cup {NoRow}]
    /\ nextId \in 1..(MaxUsers + 1)
    /\ profiles \in [Ids -> Points \cup {NoRow}]
    /\ credentials \subseteq [user : Ids, social : Socials]
    /\ session \in [Browsers -> Ids \cup {Nobody}]
    /\ points \in [Ids -> Points]
    /\ req \in [Workers -> Requests]
    /\ job \in [Jobs -> Runs]

\* Every page of a signed-in user reads the user's profile.  However sign-ins
\* race or die half way, and whatever the scheduled command does, whoever is
\* signed in has a stored user and a profile.
SignedInUsersHaveProfiles ==
    \A b \in Browsers : session[b] # Nobody =>
        users[session[b]] # NoRow /\ profiles[session[b]] # NoRow

\* A Facebook account signs in as one user only, although two first sign-ins
\* of the same account may both find no credential: the table has no unique key
\* on social_id, only the one on users.email stops the second.
OneUserPerAccount ==
    \A c, d \in credentials : c.social = d.social => c = d

\* A session changes hands only to the user of a stored credential.
SessionsFollowCredentials ==
    [][\A b \in Browsers : session'[b] \notin {session[b], Nobody} =>
          \E c \in credentials : c.user = session'[b]]_vars

\* A stored address that no sign-in is working on and no credential leads to:
\* what a sign-in that died left behind.
Abandoned(e) ==
    /\ \E u \in Stored : users[u] = e
    /\ \A c \in credentials : users[c.user] # e
    /\ \A w \in Workers : req[w].pc \in {"profile", "credential"} => users[req[w].user] # e

\* There is no way back: an address that was abandoned stays so, and no later
\* sign-in of its owner gets an account.
AbandonedForGood ==
    [][\A e \in Emails : Abandoned(e) => Abandoned(e)']_vars

\* Sign-ins that race for an address do not lose it: only a sign-in that is
\* killed after storing its user leaves an address behind.
OnlyDeathsAbandon ==
    [][\A e \in Emails : ~Abandoned(e) /\ Abandoned(e)' =>
          \E w \in Workers : RequestDies(w) /\ req[w].pc \in {"profile", "credential"}]_vars

\* Once nobody signs up or earns points any more, and unless a dead sign-in has
\* left a user without a profile, on whom the command throws, the stored scores
\* settle on the users' points, though runs of the command overlap, save what
\* they read earlier and die on a user whose profile is not stored yet.
ScoresConverge ==
    <>[][users' = users /\ points' = points]_vars
      /\ <>[](\A u \in Stored : profiles[u] # NoRow)
    => <>[](\A u \in Stored : profiles[u] = points[u])

=============================================================================
