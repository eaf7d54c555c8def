------------------------------- MODULE Accounts -------------------------------
(***************************************************************************)
(* Accounts, sessions and tokens on the server: signing in (auth.go,       *)
(* sessions.go), the check of every other request (middleware/auth.go),    *)
(* renaming and changing the password (profile.go), publishing keys        *)
(* (keys.go) and the administrators' handlers (admin.go).                  *)
(*                                                                         *)
(* A slot is one request of some device. When a request is seen here, the  *)
(* middleware has checked its token; every further statement or            *)
(* transaction of the handler is a step of its own.                        *)
(***************************************************************************)
EXTENDS Naturals, FiniteSets

CONSTANTS
  Names,        \* what users.id may be
  Passwords,
  Devices,
  Slots,        \* requests in flight at the same time
  Device,       \* which device a slot belongs to
  MaxRequests   \* bound: requests sent

Numbers == 0 .. MaxRequests
None == 0

\* Fresh numbers identify accounts and sessions beside the names and devices they start
\* with.
ASSUME AccountsAssumption ==
  /\ Device \in [Slots -> Devices]
  /\ MaxRequests \in Nat
  /\ Names \cap Numbers = {} /\ Devices \cap Numbers = {}
  /\ None \notin Passwords

VARIABLES
  user,       \* users: the row of each name
  sessions,   \* the rows of sessions; "ver", of the token they went into, is history
  req,        \* the request of each slot and how far its handler is
  asked,      \* requests so far, which also makes fresh ids
  raced       \* history: what a handler overtook or was overtaken by

vars == <<user, sessions, req, asked, raced>>

\* A public key and the password its private half is wrapped with.
NoBundle == [pub |-> None, lock |-> None]
Bundles == [pub : Names \cup Numbers, lock : Passwords] \cup {NoBundle}
Nobody == [who |-> None, pw |-> None, ver |-> 0, admin |-> FALSE, bundle |-> NoBundle]
Row == [who : Names \cup Numbers, pw : Passwords, ver : Nat, admin : BOOLEAN, bundle : Bundles]

\* The claims of a token, and whom and what password it was issued for.
NoToken == [name |-> None, ver |-> 0, sid |-> None, who |-> None, pw |-> None]
Token == [name : Names, ver : Nat, sid : Devices \cup Numbers, who : Names \cup Numbers,
          pw : Passwords]

Ops == {"login", "rename", "password", "upload", "me", "revoke", "create", "delete", "role", "reset"}
Ended == {"done", "401", "403", "409", "error"}
Steps == {"session", "setup", "check", "update", "clear", "delete"} \cup Ended
\* tok: the token it came with, of a login the one it will get. name: whose row.
\* to, pw, old, bundle, admin: what the request asks for, of a login the keys it
\* gets. seen: the administrators when they were counted, and whom "name" meant.
Idle == [op |-> "none", step |-> "idle", tok |-> NoToken, name |-> None, to |-> None,
         pw |-> None, old |-> None, bundle |-> NoBundle, admin |-> FALSE, seen |-> << >>]

AccountsTypeOK ==
  /\ user \in [Names -> Row \cup {Nobody}]
  /\ sessions \subseteq [sid : Devices \cup Numbers, name : Names, ver : Nat]
  /\ \A s \in Slots :
       /\ req[s] = Idle \/ (req[s].op \in Ops /\ req[s].step \in Steps)
       /\ req[s].tok \in Token \cup {NoToken}
       /\ req[s].bundle \in Bundles
  /\ asked \in Numbers
  /\ \A x \in sessions : user[x.name] # Nobody

-----------------------------------------------------------------------------
Exists(n) == user[n] # Nobody
Admins == {user[n].who : n \in {x \in Names : user[x].admin}}

\* LookupUser and touchSession.
Accepts(t) ==
  /\ t # NoToken
  /\ Exists(t.name) /\ user[t.name].ver = t.ver
  /\ \E x \in sessions : x.sid = t.sid /\ x.name = t.name

IsAdmin(t) == Accepts(t) /\ user[t.name].admin

\* A request arrives: r is what it asks for and where its handler goes on.
Asks(s, r) ==
  /\ req[s] = Idle
  /\ asked < MaxRequests
  /\ asked' = asked + 1
  /\ req' = [req EXCEPT ![s] = r]

At(s, op, step) == req[s].op = op /\ req[s].step = step
Goes(s, step) == req' = [req EXCEPT ![s].step = step]
\* An administrator the handler has counted is none any more, or "name" means
\* somebody else.
Outrun(r) == ~(r.seen[1] \subseteq Admins) \/ user[r.name].who # r.seen[2]
Races(condition, what) == raced' = IF condition THEN raced \cup {what} ELSE raced

\* AuthMiddleware in front of a handler whose first step is "step".
Authenticated(s, t, r, step) ==
  /\ Asks(s, [r EXCEPT !.tok = t, !.step = IF Accepts(t) THEN step ELSE "401"])
  /\ UNCHANGED <<user, sessions, raced>>

\* AdminMiddleware after it; "refused" is what the handler checks first.
ForAdmins(s, t, r, refused, step) ==
  /\ Asks(s, [r EXCEPT !.tok = t, !.seen = <<Admins, user[r.name].who>>, !.step =
       IF ~Accepts(t) THEN "401" ELSE IF ~IsAdmin(t) THEN "403" ELSE IF refused THEN "error" ELSE step])
  /\ UNCHANGED <<user, sessions, raced>>

-----------------------------------------------------------------------------
\* Login and createSession.

\* One SELECT gives the hash, the version and the keys.
Login(s, n, pw) ==
  LET row == user[n]
      r == [Idle EXCEPT !.op = "login", !.name = n, !.pw = pw]
  IN
  /\ Asks(s, IF row.pw = pw
             THEN [r EXCEPT !.step = "session", !.bundle = row.bundle, !.admin = row.admin,
                     !.tok = [name |-> n, ver |-> row.ver, sid |-> asked + 1, who |-> row.who, pw |-> pw]]
             ELSE [r EXCEPT !.step = "401"])
  /\ UNCHANGED <<user, sessions, raced>>

\* Mutant of LoginSession: the token gets the version the account has by now.
LoginSessionLate(s) ==
  LET t == req[s].tok IN
  /\ At(s, "login", "session") /\ Exists(t.name)
  /\ sessions' = sessions \cup {[sid |-> t.sid, name |-> t.name, ver |-> user[t.name].ver]}
  /\ req' = [req EXCEPT ![s].step = "done", ![s].tok.ver = user[t.name].ver]
  /\ UNCHANGED <<user, asked, raced>>

\* The row of the session, which needs the account to exist under this name.
LoginSession(s) ==
  LET t == req[s].tok IN
  /\ At(s, "login", "session")
  /\ \/ /\ Exists(t.name)
        /\ sessions' = sessions \cup {[sid |-> t.sid, name |-> t.name, ver |-> t.ver]}
        /\ Goes(s, "done")
        /\ raced' = raced \cup (IF user[t.name].who # t.who THEN {"renamed"} ELSE {})
                          \cup (IF user[t.name].ver # t.ver THEN {"login"} ELSE {})
     \/ ~Exists(t.name) /\ Goes(s, "error") /\ UNCHANGED <<sessions, raced>>
  /\ UNCHANGED <<user, asked>>

-----------------------------------------------------------------------------
\* The handlers of users: Me and whatever else changes nothing here,
\* RevokeSession and RevokeOtherSessions, ChangeUsername, ChangePassword,
\* UploadKeys.

Me(s, t) == Authenticated(s, t, [Idle EXCEPT !.op = "me", !.admin = IsAdmin(t)], "done")

\* "to" is the session to end, or None for all but the one of the caller.
Revoke(s, t, sid) ==
  Authenticated(s, t, [Idle EXCEPT !.op = "revoke", !.name = t.name, !.to = sid], "delete")

RevokeDelete(s) ==
  LET r == req[s] IN
  /\ At(s, "revoke", "delete")
  /\ sessions' = {x \in sessions :
       \/ x.name # r.name
       \/ r.to = None /\ x.sid = r.tok.sid
       \/ r.to # None /\ x.sid # r.to}
  /\ Goes(s, "done")
  /\ UNCHANGED <<user, asked, raced>>

Rename(s, t, new) ==
  /\ new # t.name
  /\ Authenticated(s, t, [Idle EXCEPT !.op = "rename", !.name = t.name, !.to = new], "update")

\* Mutant of RenameUpdate: a new row instead, without the role.
RenameUpdateCopies(s) ==
  LET r == req[s] IN
  /\ At(s, "rename", "update") /\ Exists(r.name) /\ ~Exists(r.to)
  /\ user' = [user EXCEPT ![r.name] = Nobody,
                ![r.to] = [user[r.name] EXCEPT !.ver = @ + 1, !.admin = FALSE]]
  /\ sessions' = {x \in sessions : x.name # r.name}
  /\ Goes(s, "clear")
  /\ UNCHANGED <<asked, raced>>

\* The primary key refuses a name that is taken; the sessions follow the row. An
\* account that is not called this any more is no error: nothing is updated.
RenameUpdate(s) ==
  LET r == req[s] IN
  /\ At(s, "rename", "update")
  /\ IF Exists(r.name) /\ Exists(r.to) THEN Goes(s, "409") ELSE Goes(s, "clear")
  /\ IF Exists(r.name) /\ ~Exists(r.to)
     THEN /\ user' = [user EXCEPT ![r.name] = Nobody,
                        ![r.to] = [user[r.name] EXCEPT !.ver = @ + 1]]
          /\ sessions' = {IF x.name = r.name THEN [x EXCEPT !.name = r.to] ELSE x : x \in sessions}
     ELSE UNCHANGED <<user, sessions>>
  /\ UNCHANGED <<asked, raced>>

\* Mutant of ClearSessions: the rows are left to expire.
ClearSessionsNever(s) ==
  /\ req[s].op \in {"rename", "reset"} /\ req[s].step = "clear"
  /\ Goes(s, "done")
  /\ UNCHANGED <<user, sessions, asked, raced>>

\* ChangeUsername and AdminResetPassword end with a statement of its own.
ClearSessions(s) ==
  /\ req[s].op \in {"rename", "reset"} /\ req[s].step = "clear"
  /\ sessions' = {x \in sessions : x.name # req[s].to}
  /\ Goes(s, "done")
  /\ UNCHANGED <<user, asked, raced>>

ChangePassword(s, t, old, new, bundle) ==
  Authenticated(s, t, [Idle EXCEPT !.op = "password", !.name = t.name, !.old = old, !.pw = new,
                         !.bundle = bundle], "check")

PasswordCheck(s) ==
  /\ At(s, "password", "check")
  /\ Goes(s, IF Exists(req[s].name) /\ user[req[s].name].pw = req[s].old THEN "update" ELSE "401")
  /\ UNCHANGED <<user, sessions, asked, raced>>

\* Mutant of PasswordUpdate: the tokens go on working.
PasswordUpdateQuietly(s) ==
  LET r == req[s] IN
  /\ At(s, "password", "update") /\ Exists(r.name)
  /\ user' = [user EXCEPT ![r.name] = [user[r.name] EXCEPT !.pw = r.pw,
                !.bundle = IF r.bundle = NoBundle THEN @ ELSE r.bundle]]
  /\ Goes(s, "done")
  /\ UNCHANGED <<sessions, asked, raced>>

\* One transaction: password, version, sessions and, if they came along, the keys.
PasswordUpdate(s) ==
  LET r == req[s] IN
  /\ At(s, "password", "update")
  /\ user' = IF Exists(r.name)
             THEN [user EXCEPT ![r.name] = [user[r.name] EXCEPT !.pw = r.pw, !.ver = @ + 1,
                     !.bundle = IF r.bundle = NoBundle THEN @ ELSE r.bundle]]
             ELSE user
  /\ sessions' = {x \in sessions : x.name # r.name}
  /\ Goes(s, "done")
  /\ Races(r.bundle = NoBundle /\ user[r.name].bundle # NoBundle, "unkeyed")
  /\ UNCHANGED asked

UploadKeys(s, t, bundle) ==
  Authenticated(s, t, [Idle EXCEPT !.op = "upload", !.name = t.name, !.bundle = bundle], "update")

\* Nothing keeps it from replacing keys that are there by now, or from storing
\* keys wrapped with a password that is not the account's any more.
UploadUpdate(s) ==
  LET r == req[s] IN
  /\ At(s, "upload", "update")
  /\ user' = IF Exists(r.name) THEN [user EXCEPT ![r.name].bundle = r.bundle] ELSE user
  /\ Goes(s, "done")
  /\ Races(Exists(r.name) /\ (user[r.name].bundle # NoBundle \/ user[r.name].pw # r.bundle.lock), "upload")
  /\ UNCHANGED <<sessions, asked>>

-----------------------------------------------------------------------------
\* The administrators' handlers. wouldOrphanAdmins is asked before a removal.

WouldOrphanAdmins(n) == user[n].admin /\ Cardinality(Admins) <= 1

AdminCreateUser(s, t, n, pw, admin) ==
  ForAdmins(s, t, [Idle EXCEPT !.op = "create", !.name = n, !.to = asked + 1, !.pw = pw,
                     !.admin = admin], FALSE, "update")

CreateInsert(s) ==
  LET r == req[s] IN
  /\ At(s, "create", "update")
  /\ IF Exists(r.name) THEN Goes(s, "409") /\ UNCHANGED user
     ELSE /\ user' = [user EXCEPT ![r.name] =
               [who |-> r.to, pw |-> r.pw, ver |-> 0, admin |-> r.admin, bundle |-> NoBundle]]
          /\ Goes(s, "done")
  /\ UNCHANGED <<sessions, asked, raced>>

AdminDeleteUser(s, t, n) ==
  ForAdmins(s, t, [Idle EXCEPT !.op = "delete", !.name = n], n = t.name \/ WouldOrphanAdmins(n), "delete")

\* The sessions go with the account.
DeleteUser(s) ==
  LET r == req[s] IN
  /\ At(s, "delete", "delete")
  /\ user' = [user EXCEPT ![r.name] = Nobody]
  /\ sessions' = {x \in sessions : x.name # r.name}
  /\ Goes(s, IF Exists(r.name) THEN "done" ELSE "error")
  /\ Races(Outrun(r), "removal")
  /\ UNCHANGED asked

AdminSetRole(s, t, n, admin) ==
  ForAdmins(s, t, [Idle EXCEPT !.op = "role", !.name = n, !.admin = admin],
            ~admin /\ (n = t.name \/ WouldOrphanAdmins(n)), "update")

RoleUpdate(s) ==
  LET r == req[s] IN
  /\ At(s, "role", "update")
  /\ IF Exists(r.name)
     THEN user' = [user EXCEPT ![r.name].admin = r.admin] /\ Goes(s, "done")
     ELSE UNCHANGED user /\ Goes(s, "error")
  /\ Races(~r.admin /\ Outrun(r), "removal")
  /\ UNCHANGED <<sessions, asked>>

AdminResetPassword(s, t, n, pw) ==
  ForAdmins(s, t, [Idle EXCEPT !.op = "reset", !.name = n, !.to = n, !.pw = pw], FALSE, "update")

\* Mutant of ResetUpdate: the old keys stay.
ResetUpdateKeepsKeys(s) ==
  LET r == req[s] IN
  /\ At(s, "reset", "update") /\ Exists(r.name)
  /\ user' = [user EXCEPT ![r.name] = [user[r.name] EXCEPT !.pw = r.pw, !.ver = @ + 1]]
  /\ Goes(s, "clear")
  /\ UNCHANGED <<sessions, asked, raced>>

\* The keys are wrapped with a password nobody can recover: they are dropped.
ResetUpdate(s) ==
  LET r == req[s] IN
  /\ At(s, "reset", "update")
  /\ IF Exists(r.name)
     THEN /\ user' = [user EXCEPT ![r.name] = [user[r.name] EXCEPT !.pw = r.pw, !.ver = @ + 1,
                        !.bundle = NoBundle]]
          /\ Goes(s, "clear")
     ELSE UNCHANGED user /\ Goes(s, "error")
  /\ UNCHANGED <<sessions, asked, raced>>

-----------------------------------------------------------------------------
Handles(s) ==
  \/ LoginSession(s) \/ RevokeDelete(s) \/ RenameUpdate(s) \/ ClearSessions(s)
  \/ PasswordCheck(s) \/ PasswordUpdate(s) \/ UploadUpdate(s) \/ CreateInsert(s)
  \/ DeleteUser(s) \/ RoleUpdate(s) \/ ResetUpdate(s)

-----------------------------------------------------------------------------
\* Properties.

\* There is always an administrator (admin.go:161), unless others were removed
\* or renamed between the count and the statement of a removal.
AdminRemains == Admins # {} \/ "removal" \in raced

\* A token that is accepted is that of the account it was issued for, and that
\* account still has the password it was issued for (middleware/auth.go:14),
\* whatever happened between the check of a login and its session; only if the
\* name went to another account in between is the session that account's.
TokenIsCurrent(t) ==
  Accepts(t) => \/ user[t.name].who = t.who /\ user[t.name].pw = t.pw
                \/ "renamed" \in raced

\* A session that is listed has a token that works (admin.go:228), unless its
\* login was overtaken by a change of the account, or the rows are being cleared.
SessionsAreLive ==
  \A x \in sessions :
    \/ x.ver = user[x.name].ver
    \/ "login" \in raced
    \/ \E s \in Slots : req[s].step = "clear" /\ req[s].to = x.name

\* Whoever knows the password of an account can unwrap its keys (profile.go:58),
\* unless the password was changed without them or two uploads crossed.
KeysUnlock ==
  \A n \in Names : user[n].bundle # NoBundle =>
    user[n].bundle.lock = user[n].pw \/ raced \cap {"unkeyed", "upload"} # {}
=============================================================================
