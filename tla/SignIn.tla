-------------------------------- MODULE SignIn --------------------------------
(***************************************************************************)
(* The signed-in state of the web client (App.js, api/client.js,           *)
(* api/auth.js, pages/Login.js, Home.js and Profile.js, components of the  *)
(* administrators' page) on top of the server of module Accounts.          *)
(*                                                                         *)
(* Requests of one page overlap: an answer may come after the user has     *)
(* signed out and in again. Local storage and IndexedDB are immediate.     *)
(***************************************************************************)
EXTENDS Accounts

CONSTANTS
  MaxFaults   \* bound: answers that are lost

VARIABLES
  token,      \* localStorage: what each device sends with its requests
  home,       \* loggedIn: the devices that show the application, not the login page
  identity,   \* the keystore's only record
  panel,      \* is_admin: the devices that show the administrators' page
  faults,
  skipped     \* history: devices whose last sign-in did without keys

pageVars == <<token, home, identity, panel, faults, skipped>>
allVars == <<vars, pageVars>>

NoIdentity == [name |-> None, pub |-> None]
Identity == [name : Names, pub : Names \cup Numbers]

SignInTypeOK ==
  /\ AccountsTypeOK
  /\ token \in [Devices -> Token \cup {NoToken}]
  /\ home \subseteq Devices
  /\ identity \in [Devices -> Identity \cup {NoIdentity}]
  /\ panel \subseteq Devices /\ skipped \subseteq Devices
  \* The login page holds a token only while it signs in.
  /\ \A d \in Devices \ home : token[d] = NoToken \/ \E s \in Slots :
       Device[s] = d /\ (At(s, "login", "setup") \/ req[s].op = "upload")

-----------------------------------------------------------------------------
\* What answers do to the page.

\* sessionExpired and handleLoggedOut: the keys stay.
Expires(d) ==
  /\ token' = [token EXCEPT ![d] = NoToken]
  /\ home' = home \ {d}
  /\ UNCHANGED <<identity, skipped>>

\* logout.
LogsOut(d) ==
  /\ token' = [token EXCEPT ![d] = NoToken]
  /\ home' = home \ {d}
  /\ identity' = [identity EXCEPT ![d] = NoIdentity]
  /\ UNCHANGED skipped

\* saveIdentity and onLogin.
Enters(d, n, pub) ==
  /\ identity' = [identity EXCEPT ![d] = [name |-> n, pub |-> pub]]
  /\ home' = home \cup {d}
  /\ skipped' = skipped \ {d}

\* The catch of establishIdentity: whatever record there was stays.
EntersWithoutKeys(d) ==
  /\ home' = home \cup {d}
  /\ skipped' = skipped \cup {d}
  /\ UNCHANGED identity

\* login: the token is stored, then the keys are unwrapped; an account that has none
\* is given some, which takes until the answer to their upload.
LoggedIn(s) ==
  LET d == Device[s]
      r == req[s]
  IN
  /\ token' = [token EXCEPT ![d] = r.tok]
  /\ panel' = IF r.admin THEN panel \cup {d} ELSE panel \ {d}
  /\ IF r.bundle = NoBundle
     THEN /\ Goes(s, "setup")
          /\ UNCHANGED <<home, identity, skipped>>
     ELSE /\ req' = [req EXCEPT ![s] = Idle]
          /\ IF r.bundle.lock = r.pw THEN Enters(d, r.name, r.bundle.pub) ELSE EntersWithoutKeys(d)

\* generateIdentity is through: the keys are uploaded with the token of the moment.
Setup(s) ==
  LET d == Device[s]
      r == req[s]
      up == [Idle EXCEPT !.op = "upload", !.name = r.name, !.tok = token[d],
               !.bundle = [pub |-> asked + 1, lock |-> r.pw],
               !.step = IF Accepts(token[d]) THEN "update" ELSE "401"]
  IN
  /\ At(s, "login", "setup")
  /\ asked < MaxRequests /\ asked' = asked + 1
  /\ req' = [req EXCEPT ![s] = up]
  /\ UNCHANGED <<user, sessions, raced, pageVars>>

\* Mutant of SignsOut: any refusal does.
SignsOutOnRefusal(step) == step \in {"401", "403"}

SignsOut(step) == step = "401"

Answered(s) ==
  LET d == Device[s]
      r == req[s]
  IN
  CASE r.op = "login" -> UNCHANGED <<token, home, identity, skipped>>
    [] r.op = "upload" /\ r.step = "done" -> Enters(d, r.name, r.bundle.pub) /\ UNCHANGED token
    [] r.op = "upload" /\ SignsOut(r.step) ->
         token' = [token EXCEPT ![d] = NoToken] /\ EntersWithoutKeys(d)
    [] r.op \notin {"login", "upload"} /\ SignsOut(r.step) -> Expires(d)
    [] r.op \in {"rename", "password"} /\ r.step = "done" -> LogsOut(d)
    [] OTHER -> UNCHANGED <<token, home, identity, skipped>>

\* getMe of Home confirms the role.
Confirmed(s) ==
  LET d == Device[s] IN
  panel' = IF ~At(s, "me", "done") THEN panel
           ELSE IF req[s].admin THEN panel \cup {d} ELSE panel \ {d}

Answer(s) ==
  /\ req[s].step \in Ended
  /\ IF At(s, "login", "done") THEN LoggedIn(s)
     ELSE req' = [req EXCEPT ![s] = Idle] /\ Answered(s) /\ Confirmed(s)
  /\ UNCHANGED <<user, sessions, asked, raced, faults>>

\* The network fails instead.
AnswerLost(s) ==
  /\ req[s].step \in Ended
  /\ faults < MaxFaults /\ faults' = faults + 1
  /\ req' = [req EXCEPT ![s] = Idle]
  /\ IF req[s].op = "upload" THEN EntersWithoutKeys(Device[s]) ELSE UNCHANGED <<home, identity, skipped>>
  /\ UNCHANGED <<user, sessions, asked, raced, token, panel>>

-----------------------------------------------------------------------------
\* What the user and the pages do.

SigningIn(d) == \E s \in Slots : Device[s] = d /\ req[s].op \in {"login", "upload"}

SubmitLogin(s) ==
  /\ Device[s] \notin home /\ ~SigningIn(Device[s])
  /\ \E n \in Names, pw \in Passwords : Login(s, n, pw)
  /\ UNCHANGED pageVars

LogOut(d) ==
  /\ d \in home
  /\ LogsOut(d)
  /\ UNCHANGED <<vars, panel, faults>>

\* The new keys that go with a new password, if the page has keys to replace.
Rewrapped(d, new) ==
  IF identity[d] # NoIdentity /\ identity[d].name = token[d].name
  THEN [pub |-> asked + 1, lock |-> new] ELSE NoBundle

HandleChangeUsername(s, t) == \E new \in Names : Rename(s, t, new)

HandleChangePassword(s, t) ==
  \E old, new \in Passwords : ChangePassword(s, t, old, new, Rewrapped(Device[s], new))

\* The list of sessions of the apps: one of them, or all others.
SessionsScreen(s, t) ==
  /\ t # NoToken
  /\ \E sid \in {None, t.sid} \cup {x.sid : x \in {y \in sessions : y.name = t.name}} : Revoke(s, t, sid)

\* Requests of the application: getMe of Home and whatever else only shows
\* something, Profile, and the apps' own screen.
Requests(s) ==
  LET t == token[Device[s]] IN
  /\ Device[s] \in home
  /\ Me(s, t) \/ HandleChangeUsername(s, t) \/ HandleChangePassword(s, t) \/ SessionsScreen(s, t)
  /\ UNCHANGED pageVars

HandleDelete(s, t) == \E n \in Names : AdminDeleteUser(s, t, n)

HandleToggleAdmin(s, t) == \E n \in Names, admin \in BOOLEAN : AdminSetRole(s, t, n, admin)

CreateUserModal(s, t) ==
  \E n \in Names, pw \in Passwords, admin \in BOOLEAN : AdminCreateUser(s, t, n, pw, admin)

ResetPasswordModal(s, t) == \E n \in Names, pw \in Passwords : AdminResetPassword(s, t, n, pw)

\* The administrators' page (which offers no removal of its own user).
AdminRequests(s) ==
  LET t == token[Device[s]] IN
  /\ Device[s] \in home \cap panel
  /\ \/ HandleDelete(s, t) \/ HandleToggleAdmin(s, t)
     \/ CreateUserModal(s, t) \/ ResetPasswordModal(s, t)
  /\ UNCHANGED pageVars

-----------------------------------------------------------------------------
\* Some accounts, one of them an administrator's (BootstrapAdmin), with keys or none
\* yet, and devices on which somebody with keys is signed in, or was until a session
\* expired.
Rows(n) == {Nobody} \cup
  {[who |-> n, pw |-> pw, ver |-> 0, admin |-> admin, bundle |-> b] :
     pw \in Passwords, admin \in BOOLEAN, b \in {NoBundle} \cup {[pub |-> n, lock |-> pw] : pw \in Passwords}}

SignedIn(n, d) == [name |-> n, ver |-> 0, sid |-> d, who |-> n, pw |-> user[n].pw]

SignInInit ==
  /\ user \in [Names -> UNION {Rows(n) : n \in Names}]
  /\ \A n \in Names : user[n] \in Rows(n) /\ user[n].bundle.lock \in {None, user[n].pw}
  /\ Admins # {}
  /\ token \in [Devices -> {NoToken} \cup {SignedIn(n, d) : n \in Names, d \in Devices}]
  /\ \A d \in Devices : token[d] # NoToken =>
       token[d].sid = d /\ user[token[d].name].bundle # NoBundle
  /\ home = {d \in Devices : token[d] # NoToken}
  /\ panel = {d \in home : user[token[d].name].admin}
  /\ \E left \in {NoIdentity} \cup {[name |-> n, pub |-> n] : n \in {m \in Names : user[m].bundle # NoBundle}} :
       identity = [d \in Devices |-> IF d \in home
         THEN [name |-> token[d].name, pub |-> token[d].name] ELSE left]
  /\ sessions = {[sid |-> d, name |-> token[d].name, ver |-> 0] : d \in home}
  /\ req = [s \in Slots |-> Idle]
  /\ asked \in Numbers
  /\ raced = {}
  /\ faults \in 0 .. MaxFaults
  /\ skipped = {}

SignInNext ==
  \/ \E s \in Slots :
       \/ SubmitLogin(s) \/ Requests(s) \/ AdminRequests(s) \/ Setup(s) \/ Answer(s) \/ AnswerLost(s)
       \/ Handles(s) /\ UNCHANGED pageVars
  \/ \E d \in Devices : LogOut(d)

SignInSpec == SignInInit /\ [][SignInNext]_allVars

-----------------------------------------------------------------------------
\* Properties.

\* Every token a page holds or is about to get is current.
TokensAreCurrent ==
  /\ \A d \in Devices : TokenIsCurrent(token[d])
  /\ \A s \in Slots : TokenIsCurrent(req[s].tok)

\* A page that is signed in with keys of its account has those the others encrypt
\* for (auth.js:28), unless two first sign-ins crossed, or its last sign-in failed
\* to set them up and left an older record in the keystore.
IdentityIsPublished ==
  \A d \in home \ skipped :
    LET t == token[d] IN
    Accepts(t) /\ identity[d].name = t.name =>
      \/ identity[d].pub = user[t.name].bundle.pub
      \/ raced \cap {"upload", "renamed"} # {}

\* A page loses its session only to its user, or because the server will never
\* accept it again (App.js:30). Two things do more than they should: an answer to a
\* request of an earlier session (client.js:54), and a mistyped old password
\* (profile.go:86), which is answered like an expired session. A login that was overtaken
\* by a renaming may leave a session that begins to work when another account gets the
\* version of its token.
ExpiresRightly ==
  [][\A s \in Slots :
       LET t == token[Device[s]]
           r == req[s]
       IN
       /\ r # Idle /\ req'[s] = Idle
       /\ t # NoToken /\ token'[Device[s]] = NoToken
       => \/ ~Accepts(t)
          \/ r.tok # t
          \/ r.op = "password" /\ r.old # user[t.name].pw
          \/ "renamed" \in raced]_allVars
=============================================================================
