----------------------------- MODULE OfficeProofs -----------------------------
(***************************************************************************)
(* Accounts, sessions and the keys of the pages, for any number of names,  *)
(* devices, slots and requests, with the administrators' decisions and the *)
(* file library beside them: which account a token is of and with which    *)
(* password, when a session goes, who can unwrap which keys, and that an   *)
(* administrator remains. The exceptions are the races "raced" records.    *)
(***************************************************************************)
EXTENDS Office, TLAPS, FiniteSetTheorems

-----------------------------------------------------------------------------
\* Types.

Whos == Names \cup Numbers

AnyRequest ==
  [op : Ops \cup {"none"}, step : Steps \cup {"idle"}, tok : Token \cup {NoToken},
   name : Names \cup {None}, to : Names \cup Devices \cup Numbers, pw : Passwords \cup {None},
   old : Passwords \cup {None}, bundle : Bundles, admin : BOOLEAN,
   seen : {<< >>} \cup ((SUBSET Whos) \X Whos)]

Session == [sid : Devices \cup Numbers, name : Names, ver : Nat]

ServerOK ==
  /\ user \in [Names -> Row \cup {Nobody}]
  /\ sessions \in SUBSET Session
  /\ asked \in Numbers
  /\ req \in [Slots -> AnyRequest]
  /\ token \in [Devices -> Token \cup {NoToken}]
  /\ identity \in [Devices -> Identity \cup {NoIdentity}]
  /\ home \in SUBSET Devices /\ panel \in SUBSET Devices /\ skipped \in SUBSET Devices

\* What the fields of a request say of each other.
Sound(r) ==
  /\ r = Idle <=> r.op = "none"
  /\ r.step = "idle" => r.op = "none"
  /\ r.step \in {"session", "setup"} => r.op = "login"
  /\ r.step = "clear" => r.op \in {"rename", "reset"}
  /\ r.op = "login" /\ r.step \in {"session", "setup", "done"} =>
       r.tok # NoToken /\ r.tok.name = r.name /\ r.tok.pw = r.pw
  /\ r.op = "upload" => /\ r.name \in Names /\ r.bundle # NoBundle
                        /\ r.step \in {"update", "done", "401"}
                        /\ r.tok # NoToken => r.tok.name = r.name
  /\ r.op \in {"rename", "password", "revoke"} => r.name = r.tok.name
  /\ r.op \in {"rename", "password", "revoke", "upload"} /\ r.tok = NoToken => r.step = "401"
  /\ r.op \in {"create", "delete", "role", "reset"} => r.name \in Names
  /\ r.op = "rename" => r.to \in Names
  /\ r.op = "reset" => r.to = r.name
  /\ r.op = "create" => r.to \in Numbers \ {None}
  /\ r.op \in {"password", "create", "reset"} => r.pw \in Passwords
  /\ r.op = "password" /\ r.bundle # NoBundle => r.bundle.lock = r.pw
  /\ r.op \in {"delete", "role"} => r.seen # << >>

SessionsOK == \A x \in sessions : Exists(x.name)

\* Signing in: one request of a device at a time, which sends the token of the device.
Signing(r) == r.op \in {"login", "upload"}
Holding(r) == (r.op = "login" /\ r.step = "setup") \/ r.op = "upload"

SigningOK ==
  /\ \A s, u \in Slots : Device[s] = Device[u] /\ Signing(req[s]) /\ Signing(req[u]) => s = u
  /\ \A s \in Slots : Signing(req[s]) => Device[s] \notin home
  /\ \A s \in Slots : Holding(req[s]) => token[Device[s]] \in {req[s].tok, NoToken}
  /\ \A d \in Devices \ home :
       token[d] = NoToken \/ \E s \in Slots : Device[s] = d /\ Holding(req[s])

AccountsInv == ServerOK /\ (\A s \in Slots : Sound(req[s])) /\ SessionsOK /\ SigningOK

LEMMA Constants ==
  /\ Device \in [Slots -> Devices] /\ MaxRequests \in Nat
  /\ Names \cap Numbers = {} /\ Devices \cap Numbers = {} /\ None \notin Passwords
  /\ None \in Numbers /\ None \notin Names /\ Numbers \subseteq Nat
BY AccountsAssumption DEF AccountsAssumption, Numbers, None

LEMMA Constants2 ==
  /\ Idle \in AnyRequest /\ Sound(Idle) /\ ~Signing(Idle) /\ ~Holding(Idle)
  /\ NoToken \notin Token /\ NoBundle \in Bundles /\ Nobody \notin Row
<1>1. Idle \in AnyRequest /\ NoToken \notin Token /\ NoBundle \in Bundles /\ Nobody \notin Row
  BY Constants DEF Idle, AnyRequest, NoToken, Token, NoBundle, Bundles, Nobody, Row
<1>2. Sound(Idle) /\ ~Signing(Idle) /\ ~Holding(Idle)
  BY DEF Idle, Sound, Signing, Holding
<1> QED BY <1>1, <1>2

\* A request, field by field.
Fields(op, step, tok, name, to, pw, old, bundle, admin, seen) ==
  [op |-> op, step |-> step, tok |-> tok, name |-> name, to |-> to, pw |-> pw, old |-> old,
   bundle |-> bundle, admin |-> admin, seen |-> seen]

LEMMA RowTypes ==
  ASSUME ServerOK, NEW n \in Names
  PROVE  /\ user[n].who \in Whos /\ user[n].ver \in Nat /\ user[n].pw \in Passwords \cup {None}
         /\ user[n].admin \in BOOLEAN /\ user[n].bundle \in Bundles
         /\ Exists(n) => user[n] \in Row
         /\ Exists(n) <=> user[n].pw \in Passwords
         /\ user[n].admin \/ user[n].bundle # NoBundle => Exists(n)
<1>1. CASE user[n] = Nobody
  BY <1>1, Constants DEF Nobody, Whos, Bundles, Exists
<1>2. CASE user[n] \in Row
  BY <1>2, Constants DEF Row, Whos, Exists, Nobody
<1> QED BY <1>1, <1>2 DEF ServerOK

LEMMA AdminsTypes == ASSUME ServerOK PROVE Admins \in SUBSET Whos
BY RowTypes DEF Admins

-----------------------------------------------------------------------------
\* What is asked for.

Arrives(s, q) ==
  /\ q \in AnyRequest /\ Sound(q) /\ q.op # "none"
  /\ req[s] = Idle /\ req' = [req EXCEPT ![s] = q]
  /\ asked' = asked + 1 /\ asked' \in Numbers
  /\ UNCHANGED <<user, sessions, raced>>

\* A removal that was let through.
Removing(r) ==
  (r.op = "delete" /\ r.step = "delete") \/ (r.op = "role" /\ r.step = "update" /\ ~r.admin)

\* By a page of the application, with its token. q's bundle and the account it makes are
\* new.
PageAsk(s, q) ==
  /\ Arrives(s, q) /\ ~Signing(q)
  /\ q.tok = token[Device[s]]
  /\ q.step = "401" => ~Accepts(q.tok)
  /\ q.step # "clear" /\ (q.op \in {"rename", "password"} => q.step # "done")
  /\ q.op = "create" => q.to = asked + 1
  /\ q.bundle # NoBundle => q.bundle.pub = asked + 1
  /\ Removing(q) => /\ q.seen = <<Admins, user[q.name].who>>
                    /\ IsAdmin(q.tok) /\ q.name # q.tok.name /\ ~WouldOrphanAdmins(q.name)

Requested(s, q) ==
  /\ req[s] = Idle /\ req' = [req EXCEPT ![s] = q]
  /\ asked < MaxRequests /\ asked' = asked + 1
  /\ UNCHANGED <<user, sessions, raced>>

LEMMA FieldsTypes ==
  ASSUME NEW op \in Ops \cup {"none"}, NEW step \in Steps \cup {"idle"}, NEW tok \in Token \cup {NoToken},
         NEW name \in Names \cup {None}, NEW to \in Names \cup Devices \cup Numbers,
         NEW pw \in Passwords \cup {None}, NEW old \in Passwords \cup {None}, NEW bundle \in Bundles,
         NEW admin \in BOOLEAN, NEW seen \in {<< >>} \cup ((SUBSET Whos) \X Whos)
  PROVE  Fields(op, step, tok, name, to, pw, old, bundle, admin, seen) \in AnyRequest
BY DEF Fields, AnyRequest

LEMMA Names1 ==
  ASSUME ServerOK, NEW s \in Slots
  PROVE  LET t == token[Device[s]] IN
         /\ t \in Token \cup {NoToken} /\ t.name \in Names \cup {None}
         /\ t # NoToken => t.name \in Names /\ t.sid \in Devices \cup Numbers
         /\ asked < MaxRequests => asked + 1 \in Numbers /\ asked + 1 # None
         /\ IsAdmin(t) \in BOOLEAN /\ ~Accepts(NoToken)
BY Constants DEF ServerOK, Token, NoToken, IsAdmin, Accepts, Numbers, None

LEMMA UserAsks ==
  ASSUME AccountsInv, NEW s \in Slots, Requests(s) \/ AdminRequests(s)
  PROVE  \E q : PageAsk(s, q)
<1> DEFINE t == token[Device[s]]
<1>1. /\ t \in Token \cup {NoToken} /\ t.name \in Names \cup {None}
      /\ t # NoToken => t.name \in Names /\ t.sid \in Devices \cup Numbers
      /\ asked < MaxRequests => asked + 1 \in Numbers /\ asked + 1 # None
      /\ IsAdmin(t) \in BOOLEAN /\ ~Accepts(NoToken)
  BY Names1 DEF AccountsInv
<1>a. NoBundle \in Bundles /\ None \in Numbers /\ Idle.op = "none"
  BY Constants, Constants2 DEF Idle
<1>c. \A n \in Names : <<Admins, user[n].who>> \in (SUBSET Whos) \X Whos
  BY AdminsTypes, RowTypes DEF AccountsInv
<1> HIDE DEF t
<1>2. ASSUME Me(s, t)
      PROVE  \E q : PageAsk(s, q)
  <2> DEFINE step == IF Accepts(t) THEN "done" ELSE "401"
  <2>1. PICK r : r = [Idle EXCEPT !.op = "me", !.admin = IsAdmin(t)]
    OBVIOUS
  <2>2. r = Fields("me", "idle", NoToken, None, None, None, None, NoBundle, IsAdmin(t), << >>)
    BY <2>1 DEF Fields, Idle
  <2>3. PICK q : q = [r EXCEPT !.tok = t, !.step = step]
    OBVIOUS
  <2>4. q = Fields("me", step, t, None, None, None, None, NoBundle, IsAdmin(t), << >>)
    BY <2>2, <2>3 DEF Fields
  <2>5. Requested(s, q)
    BY <1>2, <2>1, <2>3 DEF Me, Authenticated, Asks, Requested
  <2>6. q \in AnyRequest
    BY <1>2, <1>1, <1>a, <2>4, FieldsTypes DEF Ops, Steps, Ended
  <2>7. Sound(q)
    BY <1>2, <1>1, <1>a, <2>4 DEF Sound, Fields
  <2>8. /\ q.op = "me" /\ q.step \in {"done", "401"} /\ q.tok = t /\ q.bundle = NoBundle
        /\ q.step = "401" => ~Accepts(t)
    BY <1>2, <2>4 DEF Fields
  <2>9. PageAsk(s, q)
    BY <1>1, <1>a, <1>2, <2>5, <2>6, <2>7, <2>8 DEF PageAsk, Arrives, Requested, Signing, Removing, t
  <2> QED BY <2>9
<1>3. ASSUME NEW new \in Names, Rename(s, t, new)
      PROVE  \E q : PageAsk(s, q)
  <2> DEFINE step == IF Accepts(t) THEN "update" ELSE "401"
  <2>1. PICK r : r = [Idle EXCEPT !.op = "rename", !.name = t.name, !.to = new]
    OBVIOUS
  <2>2. r = Fields("rename", "idle", NoToken, t.name, new, None, None, NoBundle, FALSE, << >>)
    BY <2>1 DEF Fields, Idle
  <2>3. PICK q : q = [r EXCEPT !.tok = t, !.step = step]
    OBVIOUS
  <2>4. q = Fields("rename", step, t, t.name, new, None, None, NoBundle, FALSE, << >>)
    BY <2>2, <2>3 DEF Fields
  <2>5. Requested(s, q)
    BY <1>3, <2>1, <2>3 DEF Rename, Authenticated, Asks, Requested
  <2>6. q \in AnyRequest
    BY <1>3, <1>1, <1>a, <2>4, FieldsTypes DEF Ops, Steps, Ended
  <2>7. Sound(q)
    BY <1>3, <1>1, <1>a, <2>4 DEF Sound, Fields
  <2>8. /\ q.op = "rename" /\ q.step \in {"update", "401"} /\ q.tok = t /\ q.bundle = NoBundle
        /\ q.step = "401" => ~Accepts(t)
    BY <1>3, <2>4 DEF Fields
  <2>9. PageAsk(s, q)
    BY <1>1, <1>a, <1>3, <2>5, <2>6, <2>7, <2>8 DEF PageAsk, Arrives, Requested, Signing, Removing, t
  <2> QED BY <2>9
<1>4. ASSUME NEW old \in Passwords, NEW new \in Passwords, NEW b \in Bundles, 
             b # NoBundle => b.lock = new /\ b.pub = asked + 1, ChangePassword(s, t, old, new, b)
      PROVE  \E q : PageAsk(s, q)
  <2> DEFINE step == IF Accepts(t) THEN "check" ELSE "401"
  <2>1. PICK r : r = [Idle EXCEPT !.op = "password", !.name = t.name, !.old = old, !.pw = new,
                          !.bundle = b]
    OBVIOUS
  <2>2. r = Fields("password", "idle", NoToken, t.name, None, new, old, b, FALSE, << >>)
    BY <2>1 DEF Fields, Idle
  <2>3. PICK q : q = [r EXCEPT !.tok = t, !.step = step]
    OBVIOUS
  <2>4. q = Fields("password", step, t, t.name, None, new, old, b, FALSE, << >>)
    BY <2>2, <2>3 DEF Fields
  <2>5. Requested(s, q)
    BY <1>4, <2>1, <2>3 DEF ChangePassword, Authenticated, Asks, Requested
  <2>6. q \in AnyRequest
    BY <1>4, <1>1, <1>a, <2>4, FieldsTypes DEF Ops, Steps, Ended
  <2>7. Sound(q)
    BY <1>4, <1>1, <1>a, <2>4 DEF Sound, Fields
  <2>8. /\ q.op = "password" /\ q.step \in {"check", "401"} /\ q.tok = t /\ q.bundle = b
        /\ q.step = "401" => ~Accepts(t)
    BY <1>4, <2>4 DEF Fields
  <2>9. PageAsk(s, q)
    BY <1>1, <1>a, <1>4, <2>5, <2>6, <2>7, <2>8 DEF PageAsk, Arrives, Requested, Signing, Removing, t
  <2> QED BY <2>9
<1>5. ASSUME NEW sid \in Devices \cup Numbers, Revoke(s, t, sid)
      PROVE  \E q : PageAsk(s, q)
  <2> DEFINE step == IF Accepts(t) THEN "delete" ELSE "401"
  <2>1. PICK r : r = [Idle EXCEPT !.op = "revoke", !.name = t.name, !.to = sid]
    OBVIOUS
  <2>2. r = Fields("revoke", "idle", NoToken, t.name, sid, None, None, NoBundle, FALSE, << >>)
    BY <2>1 DEF Fields, Idle
  <2>3. PICK q : q = [r EXCEPT !.tok = t, !.step = step]
    OBVIOUS
  <2>4. q = Fields("revoke", step, t, t.name, sid, None, None, NoBundle, FALSE, << >>)
    BY <2>2, <2>3 DEF Fields
  <2>5. Requested(s, q)
    BY <1>5, <2>1, <2>3 DEF Revoke, Authenticated, Asks, Requested
  <2>6. q \in AnyRequest
    BY <1>5, <1>1, <1>a, <2>4, FieldsTypes DEF Ops, Steps, Ended
  <2>7. Sound(q)
    BY <1>5, <1>1, <1>a, <2>4 DEF Sound, Fields
  <2>8. /\ q.op = "revoke" /\ q.step \in {"delete", "401"} /\ q.tok = t /\ q.bundle = NoBundle
        /\ q.step = "401" => ~Accepts(t)
    BY <1>5, <2>4 DEF Fields
  <2>9. PageAsk(s, q)
    BY <1>1, <1>a, <1>5, <2>5, <2>6, <2>7, <2>8 DEF PageAsk, Arrives, Requested, Signing, Removing, t
  <2> QED BY <2>9
<1>6. CASE Requests(s)
  <2>1. \A sid \in {None, t.sid} \cup {x.sid : x \in {y \in sessions : y.name = t.name}} :
          t # NoToken => sid \in Devices \cup Numbers
    BY <1>1, <1>a DEF AccountsInv, ServerOK, Session
  <2>2. CASE Me(s, t)
    BY <1>2, <2>2
  <2>3. CASE HandleChangeUsername(s, t)
    BY <1>3, <2>3 DEF HandleChangeUsername
  <2>4. CASE HandleChangePassword(s, t)
    <3>1. PICK old \in Passwords, new \in Passwords :
            ChangePassword(s, t, old, new, Rewrapped(Device[s], new))
      BY <2>4 DEF HandleChangePassword
    <3>2. asked + 1 \in Numbers
      BY <1>1, <3>1 DEF ChangePassword, Authenticated, Asks
    <3> DEFINE b == Rewrapped(Device[s], new)
    <3>3. b \in Bundles /\ (b # NoBundle => b.lock = new /\ b.pub = asked + 1)
      BY <3>2 DEF Rewrapped, Bundles
    <3>4. ChangePassword(s, t, old, new, b)
      BY <3>1
    <3> HIDE DEF b
    <3> QED BY <1>4, <3>3, <3>4
  <2>5. CASE SessionsScreen(s, t)
    BY <1>5, <2>1, <2>5 DEF SessionsScreen
  <2> QED BY <1>6, <2>2, <2>3, <2>4, <2>5 DEF Requests, t
<1>7. ASSUME NEW n \in Names, NEW pw \in Passwords, NEW admin \in BOOLEAN, AdminCreateUser(s, t, n, pw, admin)
      PROVE  \E q : PageAsk(s, q)
  <2> DEFINE step == IF ~Accepts(t) THEN "401" ELSE IF ~IsAdmin(t) THEN "403"
                     ELSE IF FALSE THEN "error" ELSE "update"
  <2>1. PICK r : r = [Idle EXCEPT !.op = "create", !.name = n, !.to = asked + 1, !.pw = pw, !.admin = admin]
    OBVIOUS
  <2>2. r = Fields("create", "idle", NoToken, n, asked + 1, pw, None, NoBundle, admin, << >>)
    BY <2>1 DEF Fields, Idle
  <2>3. PICK q : q = [r EXCEPT !.tok = t, !.seen = <<Admins, user[r.name].who>>, !.step = step]
    OBVIOUS
  <2>4. q = Fields("create", step, t, n, asked + 1, pw, None, NoBundle, admin, <<Admins, user[n].who>>)
    BY <2>2, <2>3 DEF Fields
  <2>5. Requested(s, q)
    BY <1>7, <2>1, <2>3 DEF AdminCreateUser, ForAdmins, Asks, Requested
  <2>5a. asked + 1 \in Numbers \ {None}
    BY <1>1, <2>5 DEF Requested
  <2>6. q \in AnyRequest
    BY <1>7, <1>1, <1>a, <2>4, <2>5a, <1>c, FieldsTypes DEF Ops, Steps, Ended
  <2>7. Sound(q)
    BY <1>7, <1>1, <1>a, <2>4, <2>5a, <1>c DEF Sound, Fields
  <2>8. /\ q.op = "create" /\ q.step \in {"update", "401", "403", "error"} /\ q.tok = t /\ q.bundle = NoBundle
        /\ q.step = "401" => ~Accepts(t)
        /\ q.to = asked + 1
    BY <1>7, <2>4 DEF Fields
  <2>9. PageAsk(s, q)
    BY <1>1, <1>a, <1>7, <2>5, <2>6, <2>7, <2>8 DEF PageAsk, Arrives, Requested, Signing, Removing, t
  <2> QED BY <2>9
<1>8. ASSUME NEW n \in Names, NEW pw \in Passwords, AdminResetPassword(s, t, n, pw)
      PROVE  \E q : PageAsk(s, q)
  <2> DEFINE step == IF ~Accepts(t) THEN "401" ELSE IF ~IsAdmin(t) THEN "403"
                     ELSE IF FALSE THEN "error" ELSE "update"
  <2>1. PICK r : r = [Idle EXCEPT !.op = "reset", !.name = n, !.to = n, !.pw = pw]
    OBVIOUS
  <2>2. r = Fields("reset", "idle", NoToken, n, n, pw, None, NoBundle, FALSE, << >>)
    BY <2>1 DEF Fields, Idle
  <2>3. PICK q : q = [r EXCEPT !.tok = t, !.seen = <<Admins, user[r.name].who>>, !.step = step]
    OBVIOUS
  <2>4. q = Fields("reset", step, t, n, n, pw, None, NoBundle, FALSE, <<Admins, user[n].who>>)
    BY <2>2, <2>3 DEF Fields
  <2>5. Requested(s, q)
    BY <1>8, <2>1, <2>3 DEF AdminResetPassword, ForAdmins, Asks, Requested
  <2>6. q \in AnyRequest
    BY <1>8, <1>1, <1>a, <2>4, <1>c, FieldsTypes DEF Ops, Steps, Ended
  <2>7. Sound(q)
    BY <1>8, <1>1, <1>a, <2>4, <1>c DEF Sound, Fields
  <2>8. /\ q.op = "reset" /\ q.step \in {"update", "401", "403", "error"} /\ q.tok = t /\ q.bundle = NoBundle
        /\ q.step = "401" => ~Accepts(t)
    BY <1>8, <2>4 DEF Fields
  <2>9. PageAsk(s, q)
    BY <1>1, <1>a, <1>8, <2>5, <2>6, <2>7, <2>8 DEF PageAsk, Arrives, Requested, Signing, Removing, t
  <2> QED BY <2>9
<1>9. ASSUME NEW n \in Names, AdminDeleteUser(s, t, n)
      PROVE  \E q : PageAsk(s, q)
  <2> DEFINE step == IF ~Accepts(t) THEN "401" ELSE IF ~IsAdmin(t) THEN "403"
                     ELSE IF n = t.name \/ WouldOrphanAdmins(n) THEN "error" ELSE "delete"
  <2>1. PICK r : r = [Idle EXCEPT !.op = "delete", !.name = n]
    OBVIOUS
  <2>2. r = Fields("delete", "idle", NoToken, n, None, None, None, NoBundle, FALSE, << >>)
    BY <2>1 DEF Fields, Idle
  <2>3. PICK q : q = [r EXCEPT !.tok = t, !.seen = <<Admins, user[r.name].who>>, !.step = step]
    OBVIOUS
  <2>4. q = Fields("delete", step, t, n, None, None, None, NoBundle, FALSE, <<Admins, user[n].who>>)
    BY <2>2, <2>3 DEF Fields
  <2>5. Requested(s, q)
    BY <1>9, <2>1, <2>3 DEF AdminDeleteUser, ForAdmins, Asks, Requested
  <2>6. q \in AnyRequest
    BY <1>9, <1>1, <1>a, <2>4, <1>c, FieldsTypes DEF Ops, Steps, Ended
  <2>7. Sound(q)
    BY <1>9, <1>1, <1>a, <2>4, <1>c DEF Sound, Fields
  <2>8. /\ q.op = "delete" /\ q.step \in {"delete", "401", "403", "error"} /\ q.tok = t /\ q.bundle = NoBundle
        /\ q.step = "401" => ~Accepts(t)
        /\ q.step = "delete" =>
             /\ q.seen = <<Admins, user[q.name].who>> /\ IsAdmin(t)
             /\ q.name # t.name /\ ~WouldOrphanAdmins(q.name)
    BY <1>9, <2>4 DEF Fields
  <2>9. PageAsk(s, q)
    BY <1>1, <1>a, <1>9, <2>5, <2>6, <2>7, <2>8 DEF PageAsk, Arrives, Requested, Signing, Removing, t
  <2> QED BY <2>9
<1>10. ASSUME NEW n \in Names, NEW admin \in BOOLEAN, AdminSetRole(s, t, n, admin)
      PROVE  \E q : PageAsk(s, q)
  <2> DEFINE step == IF ~Accepts(t) THEN "401" ELSE IF ~IsAdmin(t) THEN "403"
                     ELSE IF ~admin /\ (n = t.name \/ WouldOrphanAdmins(n)) THEN "error" ELSE "update"
  <2>1. PICK r : r = [Idle EXCEPT !.op = "role", !.name = n, !.admin = admin]
    OBVIOUS
  <2>2. r = Fields("role", "idle", NoToken, n, None, None, None, NoBundle, admin, << >>)
    BY <2>1 DEF Fields, Idle
  <2>3. PICK q : q = [r EXCEPT !.tok = t, !.seen = <<Admins, user[r.name].who>>, !.step = step]
    OBVIOUS
  <2>4. q = Fields("role", step, t, n, None, None, None, NoBundle, admin, <<Admins, user[n].who>>)
    BY <2>2, <2>3 DEF Fields
  <2>5. Requested(s, q)
    BY <1>10, <2>1, <2>3 DEF AdminSetRole, ForAdmins, Asks, Requested
  <2>6. q \in AnyRequest
    BY <1>10, <1>1, <1>a, <2>4, <1>c, FieldsTypes DEF Ops, Steps, Ended
  <2>7. Sound(q)
    BY <1>10, <1>1, <1>a, <2>4, <1>c DEF Sound, Fields
  <2>8. /\ q.op = "role" /\ q.step \in {"update", "401", "403", "error"} /\ q.tok = t /\ q.bundle = NoBundle
        /\ q.step = "401" => ~Accepts(t)
        /\ q.step = "update" /\ ~q.admin =>
             /\ q.seen = <<Admins, user[q.name].who>> /\ IsAdmin(t)
             /\ q.name # t.name /\ ~WouldOrphanAdmins(q.name)
    BY <1>10, <2>4 DEF Fields
  <2>9. PageAsk(s, q)
    BY <1>1, <1>a, <1>10, <2>5, <2>6, <2>7, <2>8 DEF PageAsk, Arrives, Requested, Signing, Removing, t
  <2> QED BY <2>9
<1>11. CASE AdminRequests(s)
  <2>1. CASE HandleDelete(s, t)
    BY <1>9, <2>1 DEF HandleDelete
  <2>2. CASE HandleToggleAdmin(s, t)
    BY <1>10, <2>2 DEF HandleToggleAdmin
  <2>3. CASE CreateUserModal(s, t)
    BY <1>7, <2>3 DEF CreateUserModal
  <2>4. CASE ResetPasswordModal(s, t)
    BY <1>8, <2>4 DEF ResetPasswordModal
  <2> QED BY <1>11, <2>1, <2>2, <2>3, <2>4 DEF AdminRequests, t
<1> QED BY <1>6, <1>11
-----------------------------------------------------------------------------
\* Signing in.

LoginAsk(s, q) ==
  /\ Arrives(s, q) /\ q.op = "login"
  /\ \A u \in Slots : Device[u] = Device[s] => ~Signing(req[u])
  /\ \/ q.step = "401" /\ q.tok = NoToken /\ q.bundle = NoBundle
     \/ /\ q.step = "session" /\ q.tok # NoToken /\ q.tok.sid = asked + 1
        /\ q.name \in Names /\ Exists(q.name) /\ q.tok.name = q.name /\ q.bundle = user[q.name].bundle
        /\ q.tok.ver = user[q.name].ver /\ q.tok.who = user[q.name].who /\ q.tok.pw = user[q.name].pw

LEMMA LoginAsks ==
  ASSUME AccountsInv, NEW s \in Slots, SubmitLogin(s)
  PROVE  (\E q : LoginAsk(s, q)) /\ Device[s] \notin home
<1>1. PICK n \in Names, pw \in Passwords : Login(s, n, pw)
  BY DEF SubmitLogin
<1>a. NoBundle \in Bundles /\ None \in Numbers /\ Idle.op = "none" /\ NoToken \notin Token
  BY Constants, Constants2 DEF Idle
<1>b. asked < MaxRequests => asked + 1 \in Numbers
  BY Names1 DEF AccountsInv
<1>c. /\ user[n].who \in Whos /\ user[n].ver \in Nat /\ user[n].admin \in BOOLEAN
      /\ user[n].bundle \in Bundles
      /\ user[n].pw \in Passwords => Exists(n)
  BY RowTypes DEF AccountsInv
<1>d. \A u \in Slots : Device[u] = Device[s] => ~Signing(req[u])
  BY DEF SubmitLogin, SigningIn, Signing
<1>2. PICK r : r = [Idle EXCEPT !.op = "login", !.name = n, !.pw = pw]
  OBVIOUS
<1>3. r = Fields("login", "idle", NoToken, n, None, pw, None, NoBundle, FALSE, << >>)
  BY <1>2 DEF Fields, Idle
<1>4. CASE user[n].pw = pw
  <2>1. PICK t : t = [name |-> n, ver |-> user[n].ver, sid |-> asked + 1, who |-> user[n].who, pw |-> pw]
    OBVIOUS
  <2>2. PICK q : q = [r EXCEPT !.step = "session", !.bundle = user[n].bundle, !.admin = user[n].admin,
                        !.tok = t]
    OBVIOUS
  <2>3. q = Fields("login", "session", t, n, None, pw, None, user[n].bundle, user[n].admin, << >>)
    BY <1>3, <2>2 DEF Fields
  <2>4. Requested(s, q)
    BY <1>1, <1>2, <1>4, <2>1, <2>2 DEF Login, Asks, Requested
  <2>5. t \in Token
    BY <1>b, <1>c, <2>1, <2>4 DEF Token, Requested, Whos
  <2>6. q \in AnyRequest
    BY <1>a, <1>c, <2>3, <2>5, FieldsTypes DEF Ops, Steps
  <2>7. q.op = "login" /\ q.step = "session" /\ q.tok = t /\ q.name = n /\ q.bundle = user[n].bundle
        /\ q.pw = pw
    BY <2>3 DEF Fields
  <2>8. t.name = n /\ t.pw = pw /\ t.sid = asked + 1 /\ t.ver = user[n].ver /\ t.who = user[n].who
        /\ t # NoToken
    BY <1>a, <2>1, <2>5
  <2>9. Sound(q)
    BY <1>a, <2>7, <2>8 DEF Sound
  <2>10. LoginAsk(s, q)
    BY <1>1, <1>b, <1>c, <1>d, <1>4, <2>4, <2>6, <2>7, <2>8, <2>9 DEF LoginAsk, Arrives, Requested
  <2> QED BY <2>10 DEF SubmitLogin
<1>5. CASE user[n].pw # pw
  <2>1. PICK q : q = [r EXCEPT !.step = "401"]
    OBVIOUS
  <2>2. q = Fields("login", "401", NoToken, n, None, pw, None, NoBundle, FALSE, << >>)
    BY <1>3, <2>1 DEF Fields
  <2>3. Requested(s, q)
    BY <1>1, <1>2, <1>5, <2>1 DEF Login, Asks, Requested
  <2>4. q \in AnyRequest
    BY <1>a, <2>2, FieldsTypes DEF Ops, Steps, Ended
  <2>5. q.op = "login" /\ q.step = "401" /\ q.tok = NoToken /\ q.bundle = NoBundle
    BY <2>2 DEF Fields
  <2>6. Sound(q)
    BY <1>a, <2>5 DEF Sound
  <2>7. LoginAsk(s, q)
    BY <1>b, <1>d, <2>3, <2>4, <2>5, <2>6 DEF LoginAsk, Arrives, Requested
  <2> QED BY <2>7 DEF SubmitLogin
<1> QED BY <1>4, <1>5

\* The keys of a first sign-in.
SetsUp(s, q) ==
  /\ At(s, "login", "setup")
  /\ q \in AnyRequest /\ Sound(q) /\ q.op = "upload" /\ q.name = req[s].name
  /\ q.tok = token[Device[s]] /\ q.bundle.pub = asked + 1
  /\ \/ q.step = "update" /\ Accepts(q.tok)
     \/ q.step = "401" /\ ~Accepts(q.tok)
  /\ req' = [req EXCEPT ![s] = q]
  /\ asked' = asked + 1 /\ asked' \in Numbers /\ UNCHANGED <<user, sessions, raced, pageVars>>

LEMMA SetupSetsUp ==
  ASSUME AccountsInv, NEW s \in Slots, Setup(s)
  PROVE  \E q : SetsUp(s, q)
<1> DEFINE t == token[Device[s]]
           step == IF Accepts(t) THEN "update" ELSE "401"
           b == [pub |-> asked + 1, lock |-> req[s].pw]
<1>1. /\ req[s].tok # NoToken /\ req[s].tok.name = req[s].name /\ req[s].tok.pw = req[s].pw
      /\ t \in {req[s].tok, NoToken} /\ req[s].tok \in Token
  BY DEF Setup, At, AccountsInv, Sound, SigningOK, Holding, t, ServerOK, AnyRequest
<1>2. req[s].name \in Names /\ req[s].pw \in Passwords
  BY <1>1 DEF Token
<1>3. asked + 1 \in Numbers /\ ~Accepts(NoToken) /\ t \in Token \cup {NoToken}
  BY Names1 DEF AccountsInv, Setup, t
<1>4. b \in Bundles /\ b # NoBundle /\ b.pub = asked + 1
  BY <1>2, <1>3, Constants DEF Bundles, NoBundle
<1> HIDE DEF t, b
<1>5. PICK q : q = [Idle EXCEPT !.op = "upload", !.name = req[s].name, !.tok = t, !.bundle = b,
                      !.step = step]
  OBVIOUS
<1>6. q = Fields("upload", step, t, req[s].name, None, None, None, b, FALSE, << >>)
  BY <1>5 DEF Fields, Idle
<1>7. q \in AnyRequest
  BY <1>2, <1>3, <1>4, <1>6, Constants, FieldsTypes DEF Ops, Steps, Ended
<1>8. /\ q.op = "upload" /\ q.step = step /\ q.tok = t /\ q.bundle = b /\ q.name = req[s].name
  BY <1>6 DEF Fields
<1>9. Sound(q)
  BY <1>1, <1>2, <1>3, <1>4, <1>8 DEF Sound, Idle
<1>10. req' = [req EXCEPT ![s] = q]
  BY <1>5 DEF Setup, t, b
<1>11. SetsUp(s, q)
  BY <1>3, <1>4, <1>7, <1>8, <1>9, <1>10 DEF SetsUp, Setup, t
<1> QED BY <1>11

-----------------------------------------------------------------------------
\* A handler goes on.

Same(r, q) ==
  /\ q.op = r.op /\ q.tok = r.tok /\ q.name = r.name /\ q.to = r.to /\ q.pw = r.pw
  /\ q.old = r.old /\ q.bundle = r.bundle /\ q.admin = r.admin /\ q.seen = r.seen

Handled(s, step) ==
  /\ req' \in [Slots -> AnyRequest] /\ req'[s].step = step /\ Same(req[s], req'[s])
  /\ \A u \in Slots \ {s} : req'[u] = req[u]

LEMMA GoesHandled ==
  ASSUME ServerOK, NEW s \in Slots, NEW step \in Steps, Goes(s, step)
  PROVE  Handled(s, step)
<1>1. req[s] \in AnyRequest
  BY DEF ServerOK
<1>2. PICK q : q = [req[s] EXCEPT !.step = step]
  OBVIOUS
<1>3. q = Fields(req[s].op, step, req[s].tok, req[s].name, req[s].to, req[s].pw, req[s].old,
                 req[s].bundle, req[s].admin, req[s].seen)
  BY <1>1, <1>2 DEF AnyRequest, Fields
<1>4. q \in AnyRequest /\ q.step = step /\ Same(req[s], q)
  BY <1>1, <1>3 DEF AnyRequest, Fields, Same
<1>5. req' = [req EXCEPT ![s] = q]
  BY <1>2 DEF Goes
<1> QED BY <1>4, <1>5 DEF Handled, ServerOK

LEMMA HandledSound ==
  ASSUME NEW s \in Slots, NEW step, Sound(req[s]), Handled(s, step), req[s] # Idle,
         req[s].step \notin {"setup", "401"}, step \notin {"session", "setup", "idle"},
         step = "clear" => req[s].op \in {"rename", "reset"},
         req[s].op = "login" => req[s].step = "session",
         req[s].op = "upload" => step = "done"
  PROVE  /\ Sound(req'[s]) /\ Signing(req'[s]) = Signing(req[s]) /\ Holding(req'[s]) = Holding(req[s])
         /\ req'[s] # Idle
<1>1. req'[s] # Idle
  BY DEF Handled, Same, Sound, Idle
<1>2. Sound(req'[s])
  BY <1>1 DEF Handled, Same, Sound
<1> QED BY <1>1, <1>2 DEF Handled, Same, Signing, Holding

LEMMA SigningStays ==
  ASSUME SigningOK, UNCHANGED <<token, home>>,
         \A u \in Slots : Signing(req'[u]) = Signing(req[u]) /\ Holding(req'[u]) = Holding(req[u])
                          /\ (Holding(req[u]) => req'[u].tok = req[u].tok)
  PROVE  SigningOK'
BY DEF SigningOK

\* What becomes of the accounts.
Moves(m, n) ==
  /\ Exists(m) /\ ~Exists(n)
  /\ \E row \in Row : /\ row.who = user[m].who /\ row.pw = user[m].pw /\ row.ver = user[m].ver + 1
                      /\ row.admin = user[m].admin /\ row.bundle = user[m].bundle
                      /\ user' = [user EXCEPT ![m] = Nobody, ![n] = row]

Sets(n, row) ==
  row \in Row /\ Exists(n) /\ row.who = user[n].who /\ user' = [user EXCEPT ![n] = row]

Adds(n, row) == row \in Row /\ ~Exists(n) /\ row.ver = 0 /\ user' = [user EXCEPT ![n] = row]

LEMMA UserTypes ==
  ASSUME ServerOK, NEW m \in Names, NEW n \in Names, NEW row,
         \/ Moves(m, n) \/ Sets(n, row) \/ Adds(n, row)
  PROVE  user' \in [Names -> Row \cup {Nobody}]
BY DEF ServerOK, Moves, Sets, Adds

LEMMA RowIs ==
  ASSUME NEW r \in Row
  PROVE  r = [who |-> r.who, pw |-> r.pw, ver |-> r.ver, admin |-> r.admin, bundle |-> r.bundle]
BY DEF Row

LEMMA RenameIs ==
  ASSUME AccountsInv, NEW s \in Slots, RenameUpdate(s)
  PROVE  /\ req[s].name \in Names /\ req[s].to \in Names
         /\ \/ /\ Exists(req[s].name) /\ Exists(req[s].to) /\ Handled(s, "409")
               /\ UNCHANGED <<user, sessions>>
            \/ ~Exists(req[s].name) /\ Handled(s, "clear") /\ UNCHANGED <<user, sessions>>
            \/ /\ Moves(req[s].name, req[s].to) /\ Handled(s, "clear")
               /\ sessions' = {IF x.name = req[s].name THEN [x EXCEPT !.name = req[s].to] ELSE x :
                                 x \in sessions}
<1> DEFINE m == req[s].name
           n == req[s].to
<1>1. m \in Names /\ n \in Names
  BY Constants2 DEF AccountsInv, Sound, RenameUpdate, At, ServerOK, AnyRequest, Token
<1>2. Exists(m) /\ Exists(n) => Handled(s, "409")
  BY GoesHandled DEF RenameUpdate, AccountsInv, Steps, Ended
<1>3. ~(Exists(m) /\ Exists(n)) => Handled(s, "clear")
  BY GoesHandled DEF RenameUpdate, AccountsInv, Steps, Ended
<1>4. ASSUME Exists(m), ~Exists(n) PROVE Moves(m, n)
  <2>1. PICK row : row = [user[m] EXCEPT !.ver = @ + 1]
    OBVIOUS
  <2>2. user[m] \in Row
    BY <1>1, <1>4, RowTypes DEF AccountsInv
  <2>3. row = [who |-> user[m].who, pw |-> user[m].pw, ver |-> user[m].ver + 1,
               admin |-> user[m].admin, bundle |-> user[m].bundle]
    BY <2>1, <2>2 DEF Row
  <2>4. row \in Row
    BY <2>2, <2>3 DEF Row
  <2>5. user' = [user EXCEPT ![m] = Nobody, ![n] = row]
    BY <1>4, <2>1 DEF RenameUpdate
  <2> QED BY <1>4, <2>3, <2>4, <2>5 DEF Moves
<1> QED BY <1>1, <1>2, <1>3, <1>4 DEF RenameUpdate

\* Mutants aside, a change of the password raises the version.
Raises(n, row, pw) == Sets(n, row) /\ row.ver = user[n].ver + 1 /\ row.pw = pw /\ row.admin = user[n].admin

LEMMA PasswordIs ==
  ASSUME AccountsInv, NEW s \in Slots, PasswordUpdate(s)
  PROVE  /\ req[s].name \in Names /\ Handled(s, "done")
         /\ sessions' = {x \in sessions : x.name # req[s].name}
         /\ \/ ~Exists(req[s].name) /\ UNCHANGED user
            \/ \E row : /\ Raises(req[s].name, row, req[s].pw)
                        /\ row.bundle = IF req[s].bundle = NoBundle THEN user[req[s].name].bundle
                                        ELSE req[s].bundle
<1> DEFINE n == req[s].name
           b == req[s].bundle
<1>1. n \in Names /\ req[s].pw \in Passwords /\ b \in Bundles
  BY Constants2 DEF AccountsInv, Sound, PasswordUpdate, At, ServerOK, AnyRequest, Token
<1>2. Handled(s, "done")
  BY GoesHandled DEF PasswordUpdate, AccountsInv, Steps, Ended
<1>3. ASSUME Exists(n)
      PROVE  \E row : /\ Raises(n, row, req[s].pw)
                      /\ row.bundle = IF b = NoBundle THEN user[n].bundle ELSE b
  <2>1. PICK row : row = [user[n] EXCEPT !.pw = req[s].pw, !.ver = @ + 1,
                            !.bundle = IF b = NoBundle THEN @ ELSE b]
    OBVIOUS
  <2>2. user[n] \in Row
    BY <1>1, <1>3, RowTypes DEF AccountsInv
  <2>3. row = [who |-> user[n].who, pw |-> req[s].pw, ver |-> user[n].ver + 1, admin |-> user[n].admin,
               bundle |-> IF b = NoBundle THEN user[n].bundle ELSE b]
    BY <2>1, <2>2 DEF Row
  <2>4. row \in Row
    BY <1>1, <2>2, <2>3 DEF Row
  <2>5. user' = [user EXCEPT ![n] = row]
    BY <1>3, <2>1 DEF PasswordUpdate
  <2>6. Raises(n, row, req[s].pw) /\ row.bundle = IF b = NoBundle THEN user[n].bundle ELSE b
    BY <1>3, <2>3, <2>4, <2>5 DEF Raises, Sets
  <2> QED BY <2>6
<1> QED BY <1>1, <1>2, <1>3 DEF PasswordUpdate

LEMMA ResetIs ==
  ASSUME AccountsInv, NEW s \in Slots, ResetUpdate(s)
  PROVE  /\ req[s].name \in Names /\ UNCHANGED sessions
         /\ \/ ~Exists(req[s].name) /\ UNCHANGED user /\ Handled(s, "error")
            \/ /\ Handled(s, "clear") /\ req[s].to = req[s].name
               /\ \E row : Raises(req[s].name, row, req[s].pw) /\ row.bundle = NoBundle
<1> DEFINE n == req[s].name
<1>1. n \in Names /\ req[s].pw \in Passwords /\ req[s].to = n
  BY DEF AccountsInv, Sound, ResetUpdate, At
<1>2. (Exists(n) => Handled(s, "clear")) /\ (~Exists(n) => Handled(s, "error"))
  BY GoesHandled DEF ResetUpdate, AccountsInv, Steps, Ended
<1>3. ASSUME Exists(n) PROVE \E row : Raises(n, row, req[s].pw) /\ row.bundle = NoBundle
  <2>1. PICK row : row = [user[n] EXCEPT !.pw = req[s].pw, !.ver = @ + 1, !.bundle = NoBundle]
    OBVIOUS
  <2>2. user[n] \in Row
    BY <1>1, <1>3, RowTypes DEF AccountsInv
  <2>3. row = [who |-> user[n].who, pw |-> req[s].pw, ver |-> user[n].ver + 1, admin |-> user[n].admin,
               bundle |-> NoBundle]
    BY <2>1, <2>2 DEF Row
  <2>4. row \in Row
    BY <1>1, <2>2, <2>3, Constants2 DEF Row
  <2>5. user' = [user EXCEPT ![n] = row]
    BY <1>3, <2>1 DEF ResetUpdate
  <2>6. Raises(n, row, req[s].pw) /\ row.bundle = NoBundle
    BY <1>3, <2>3, <2>4, <2>5 DEF Raises, Sets
  <2> QED BY <2>6
<1> QED BY <1>1, <1>2, <1>3 DEF ResetUpdate

\* Only the keys or the role change.
Patches(n, row, bundle, admin) ==
  /\ Sets(n, row) /\ row.ver = user[n].ver /\ row.pw = user[n].pw
  /\ row.bundle = bundle /\ row.admin = admin

LEMMA UploadIs ==
  ASSUME AccountsInv, NEW s \in Slots, UploadUpdate(s)
  PROVE  /\ req[s].name \in Names /\ Handled(s, "done") /\ UNCHANGED sessions
         /\ \/ ~Exists(req[s].name) /\ UNCHANGED user
            \/ \E row : Patches(req[s].name, row, req[s].bundle, user[req[s].name].admin)
<1> DEFINE n == req[s].name
<1>1. n \in Names /\ req[s].bundle \in Bundles
  BY DEF AccountsInv, Sound, UploadUpdate, At, ServerOK, AnyRequest
<1>2. Handled(s, "done")
  BY GoesHandled DEF UploadUpdate, AccountsInv, Steps, Ended
<1>3. ASSUME Exists(n) PROVE \E row : Patches(n, row, req[s].bundle, user[n].admin)
  <2>1. PICK row : row = [user[n] EXCEPT !.bundle = req[s].bundle]
    OBVIOUS
  <2>2. user[n] \in Row
    BY <1>1, <1>3, RowTypes DEF AccountsInv
  <2>3. row = [who |-> user[n].who, pw |-> user[n].pw, ver |-> user[n].ver, admin |-> user[n].admin,
               bundle |-> req[s].bundle]
    BY <2>1, <2>2 DEF Row
  <2>4. row \in Row
    BY <1>1, <2>2, <2>3 DEF Row
  <2>5. user' = [user EXCEPT ![n] = row]
    BY <1>3, <2>1 DEF UploadUpdate
  <2>6. Patches(n, row, req[s].bundle, user[n].admin)
    BY <1>3, <2>3, <2>4, <2>5 DEF Patches, Sets
  <2> QED BY <2>6
<1> QED BY <1>1, <1>2, <1>3 DEF UploadUpdate

LEMMA RoleIs ==
  ASSUME AccountsInv, NEW s \in Slots, RoleUpdate(s)
  PROVE  /\ req[s].name \in Names /\ UNCHANGED sessions
         /\ \/ ~Exists(req[s].name) /\ UNCHANGED user /\ Handled(s, "error")
            \/ /\ Handled(s, "done")
               /\ \E row : Patches(req[s].name, row, user[req[s].name].bundle, req[s].admin)
<1> DEFINE n == req[s].name
<1>1. n \in Names /\ req[s].admin \in BOOLEAN
  BY DEF AccountsInv, Sound, RoleUpdate, At, ServerOK, AnyRequest
<1>2. (Exists(n) => Handled(s, "done")) /\ (~Exists(n) => Handled(s, "error"))
  BY GoesHandled DEF RoleUpdate, AccountsInv, Steps, Ended
<1>3. ASSUME Exists(n) PROVE \E row : Patches(n, row, user[n].bundle, req[s].admin)
  <2>1. PICK row : row = [user[n] EXCEPT !.admin = req[s].admin]
    OBVIOUS
  <2>2. user[n] \in Row
    BY <1>1, <1>3, RowTypes DEF AccountsInv
  <2>3. row = [who |-> user[n].who, pw |-> user[n].pw, ver |-> user[n].ver, admin |-> req[s].admin,
               bundle |-> user[n].bundle]
    BY <2>1, <2>2 DEF Row
  <2>4. row \in Row
    BY <1>1, <2>2, <2>3 DEF Row
  <2>5. user' = [user EXCEPT ![n] = row]
    BY <1>3, <2>1 DEF RoleUpdate
  <2>6. Patches(n, row, user[n].bundle, req[s].admin)
    BY <1>3, <2>3, <2>4, <2>5 DEF Patches, Sets
  <2> QED BY <2>6
<1> QED BY <1>1, <1>2, <1>3 DEF RoleUpdate

LEMMA CreateIs ==
  ASSUME AccountsInv, NEW s \in Slots, CreateInsert(s)
  PROVE  /\ req[s].name \in Names /\ UNCHANGED sessions
         /\ \/ Exists(req[s].name) /\ UNCHANGED user /\ Handled(s, "409")
            \/ /\ Handled(s, "done")
               /\ \E row : Adds(req[s].name, row) /\ row.who = req[s].to /\ row.bundle = NoBundle
<1> DEFINE n == req[s].name
<1>1. n \in Names /\ req[s].to \in Numbers /\ req[s].pw \in Passwords /\ req[s].admin \in BOOLEAN
  BY DEF AccountsInv, Sound, CreateInsert, At, ServerOK, AnyRequest
<1>2. (Exists(n) => Handled(s, "409")) /\ (~Exists(n) => Handled(s, "done"))
  BY GoesHandled DEF CreateInsert, AccountsInv, Steps, Ended
<1>3. ASSUME ~Exists(n) PROVE \E row : Adds(n, row) /\ row.who = req[s].to /\ row.bundle = NoBundle
  <2>1. PICK row : row = [who |-> req[s].to, pw |-> req[s].pw, ver |-> 0, admin |-> req[s].admin,
                          bundle |-> NoBundle]
    OBVIOUS
  <2>2. row \in Row
    BY <1>1, <2>1, Constants2 DEF Row
  <2>3. user' = [user EXCEPT ![n] = row]
    BY <1>3, <2>1 DEF CreateInsert
  <2>4. Adds(n, row) /\ row.who = req[s].to /\ row.bundle = NoBundle
    BY <1>3, <2>1, <2>2, <2>3 DEF Adds
  <2> QED BY <2>4
<1> QED BY <1>1, <1>2, <1>3 DEF CreateInsert
-----------------------------------------------------------------------------
\* Every step of SignIn keeps the types and what requests say of each other.

LEMMA HandlersKeep ==
  ASSUME AccountsInv, NEW s \in Slots, NEW step \in Steps, Handled(s, step),
         req[s].op # "none", req[s].step \notin {"setup", "401"}, step \notin {"session", "setup"},
         step = "clear" => req[s].op \in {"rename", "reset"},
         req[s].op = "login" => req[s].step = "session",
         req[s].op = "upload" => step = "done",
         user' \in [Names -> Row \cup {Nobody}], sessions' \in SUBSET Session, SessionsOK',
         UNCHANGED <<asked, pageVars>>
  PROVE  AccountsInv'
<1>1. ServerOK'
  BY DEF AccountsInv, ServerOK, Handled, pageVars
<1>2. Sound(req[s]) /\ req[s] # Idle
  BY DEF AccountsInv, Sound, Idle
<1>3. Sound(req'[s]) /\ Signing(req'[s]) = Signing(req[s]) /\ Holding(req'[s]) = Holding(req[s])
  <2>1. step # "idle"
    BY DEF Steps, Ended
  <2> QED BY <1>2, <2>1, HandledSound
<1>4. \A u \in Slots : /\ Sound(req'[u]) /\ Signing(req'[u]) = Signing(req[u])
                       /\ Holding(req'[u]) = Holding(req[u]) /\ req'[u].tok = req[u].tok
  BY <1>3 DEF AccountsInv, Handled, Same
<1>5. SigningOK'
  BY <1>4, SigningStays DEF AccountsInv, pageVars
<1> QED BY <1>1, <1>4, <1>5 DEF AccountsInv

LEMMA HandlesKeeps ==
  ASSUME AccountsInv, NEW s \in Slots, Handles(s), UNCHANGED pageVars
  PROVE  AccountsInv'
<1>0. /\ req[s] \in AnyRequest /\ Sound(req[s]) /\ SessionsOK
      /\ user \in [Names -> Row \cup {Nobody}] /\ sessions \in SUBSET Session
  BY DEF AccountsInv, ServerOK
<1>a. \A x \in Session : x.name \in Names
  BY DEF Session
<1>1. CASE LoginSession(s)
  <2>1. /\ req[s].op = "login" /\ req[s].step = "session" /\ UNCHANGED <<user, asked>>
        /\ req[s].tok \in Token
    BY <1>0, <1>1 DEF LoginSession, At, Sound, AnyRequest
  <2>2. CASE ~Exists(req[s].tok.name)
    <3>1. Handled(s, "error") /\ UNCHANGED sessions
      BY <1>1, <2>2, GoesHandled DEF LoginSession, AccountsInv, Steps, Ended
    <3> QED BY <1>0, <2>1, <3>1, HandlersKeep DEF SessionsOK, Exists, Steps, Ended
  <2>3. CASE Exists(req[s].tok.name)
    <3>1. Handled(s, "done")
      BY <1>1, <2>3, GoesHandled DEF LoginSession, AccountsInv, Steps, Ended
    <3>2. PICK y : y = [sid |-> req[s].tok.sid, name |-> req[s].tok.name, ver |-> req[s].tok.ver]
      OBVIOUS
    <3>3. sessions' = sessions \cup {y}
      BY <1>1, <2>3, <3>2 DEF LoginSession
    <3>4. y \in Session /\ y.name = req[s].tok.name
      BY <2>1, <3>2 DEF Token, Session
    <3>5. sessions' \in SUBSET Session /\ SessionsOK'
      BY <1>0, <2>1, <2>3, <3>3, <3>4 DEF SessionsOK, Exists
    <3> QED BY <1>0, <2>1, <3>1, <3>5, HandlersKeep DEF Steps, Ended
  <2> QED BY <2>2, <2>3
<1>2. CASE RevokeDelete(s)
  <2>1. req[s].op = "revoke" /\ req[s].step = "delete" /\ UNCHANGED <<user, asked>> /\ Handled(s, "done")
    BY <1>2, GoesHandled DEF RevokeDelete, At, AccountsInv, Steps, Ended
  <2>2. sessions' \subseteq sessions
    BY <1>2 DEF RevokeDelete
  <2>3. SessionsOK'
    BY <1>0, <2>1, <2>2 DEF SessionsOK, Exists
  <2> QED BY <1>0, <2>1, <2>2, <2>3, HandlersKeep DEF Steps, Ended
<1>3. CASE RenameUpdate(s)
  <2> DEFINE m == req[s].name
             n == req[s].to
  <2>1. req[s].op = "rename" /\ req[s].step = "update" /\ UNCHANGED asked
    BY <1>3 DEF RenameUpdate, At
  <2>2. CASE Exists(m) /\ Exists(n) /\ Handled(s, "409") /\ UNCHANGED <<user, sessions>>
    BY <1>0, <2>1, <2>2, HandlersKeep DEF SessionsOK, Exists, Steps, Ended
  <2>3. CASE ~Exists(m) /\ Handled(s, "clear") /\ UNCHANGED <<user, sessions>>
    BY <1>0, <2>1, <2>3, HandlersKeep DEF SessionsOK, Exists, Steps, Ended
  <2>4. CASE /\ Moves(m, n) /\ Handled(s, "clear")
             /\ sessions' = {IF x.name = m THEN [x EXCEPT !.name = n] ELSE x : x \in sessions}
    <3>1. m \in Names /\ n \in Names
      BY <1>3, RenameIs
    <3>2. user' \in [Names -> Row \cup {Nobody}]
      BY <2>4, <3>1, UserTypes DEF AccountsInv
    <3>3. \A x \in Session : LET y == [x EXCEPT !.name = n] IN y \in Session /\ y.name = n
      BY <3>1 DEF Session
    <3>4. sessions' \in SUBSET Session
      BY <1>0, <2>4, <3>3
    <3>5. ASSUME NEW y \in sessions' PROVE y.name = n \/ (y.name # m /\ y \in sessions)
      <4>1. PICK x \in sessions : y = IF x.name = m THEN [x EXCEPT !.name = n] ELSE x
        BY <2>4
      <4>2. CASE x.name = m
        BY <1>0, <3>3, <4>1, <4>2
      <4> QED BY <4>1, <4>2
    <3>6. user'[n] # Nobody /\ \A k \in Names \ {m, n} : user'[k] = user[k]
      BY <1>0, <2>4, <3>1, Constants2 DEF Moves
    <3>7. SessionsOK'
      BY <1>0, <1>a, <3>1, <3>4, <3>5, <3>6 DEF SessionsOK, Exists
    <3> QED BY <2>1, <2>4, <3>2, <3>4, <3>7, HandlersKeep DEF Steps, Ended
  <2> QED BY <1>3, <2>2, <2>3, <2>4, RenameIs
<1>4. CASE ClearSessions(s)
  <2>1. /\ req[s].op \in {"rename", "reset"} /\ req[s].step = "clear" /\ UNCHANGED <<user, asked>>
        /\ Handled(s, "done")
    BY <1>4, GoesHandled DEF ClearSessions, AccountsInv, Steps, Ended
  <2>2. sessions' \subseteq sessions
    BY <1>4 DEF ClearSessions
  <2>3. SessionsOK'
    BY <1>0, <2>1, <2>2 DEF SessionsOK, Exists
  <2> QED BY <1>0, <2>1, <2>2, <2>3, HandlersKeep DEF Steps, Ended
<1>5. CASE PasswordCheck(s)
  <2>1. /\ req[s].op = "password" /\ req[s].step = "check" /\ UNCHANGED <<user, sessions, asked>>
        /\ Handled(s, "update") \/ Handled(s, "401")
    BY <1>5, GoesHandled DEF PasswordCheck, At, AccountsInv, Steps, Ended
  <2>2. SessionsOK'
    BY <1>0, <2>1 DEF SessionsOK, Exists
  <2> QED BY <1>0, <2>1, <2>2, HandlersKeep DEF Steps, Ended
<1>6. CASE PasswordUpdate(s)
  <2> DEFINE n == req[s].name
  <2>1. req[s].op = "password" /\ req[s].step = "update" /\ UNCHANGED asked
    BY <1>6 DEF PasswordUpdate, At
  <2>2. /\ n \in Names /\ Handled(s, "done") /\ sessions' = {x \in sessions : x.name # n}
        /\ \/ ~Exists(n) /\ UNCHANGED user
           \/ \E row : Raises(n, row, req[s].pw)
    BY <1>6, PasswordIs
  <2>3. user' \in [Names -> Row \cup {Nobody}] /\ \A k \in Names \ {n} : user'[k] = user[k]
    BY <1>0, <2>2, UserTypes DEF AccountsInv, Raises, Sets
  <2>4. SessionsOK' /\ sessions' \in SUBSET Session
    BY <1>0, <1>a, <2>2, <2>3 DEF SessionsOK, Exists
  <2> QED BY <2>1, <2>2, <2>3, <2>4, HandlersKeep DEF Steps, Ended
<1>7. CASE UploadUpdate(s)
  <2> DEFINE n == req[s].name
  <2>1. req[s].op = "upload" /\ req[s].step = "update" /\ UNCHANGED asked
    BY <1>7 DEF UploadUpdate, At
  <2>2. /\ n \in Names /\ Handled(s, "done") /\ UNCHANGED sessions
        /\ \/ ~Exists(n) /\ UNCHANGED user
           \/ \E row : Sets(n, row)
    BY <1>7, UploadIs DEF Patches
  <2>3. user' \in [Names -> Row \cup {Nobody}] /\ \A k \in Names : Exists(k) => user'[k] # Nobody
    BY <1>0, <2>2, UserTypes, Constants2 DEF AccountsInv, Sets, Exists
  <2>4. SessionsOK'
    BY <1>0, <1>a, <2>2, <2>3 DEF SessionsOK, Exists
  <2> QED BY <1>0, <2>1, <2>2, <2>3, <2>4, HandlersKeep DEF Steps, Ended
<1>8. CASE CreateInsert(s)
  <2> DEFINE n == req[s].name
  <2>1. req[s].op = "create" /\ req[s].step = "update" /\ UNCHANGED asked
    BY <1>8 DEF CreateInsert, At
  <2>2. /\ n \in Names /\ UNCHANGED sessions
        /\ \/ UNCHANGED user /\ Handled(s, "409")
           \/ Handled(s, "done") /\ \E row : Adds(n, row)
    BY <1>8, CreateIs
  <2>3. user' \in [Names -> Row \cup {Nobody}] /\ \A k \in Names : Exists(k) => user'[k] # Nobody
    BY <1>0, <2>2, UserTypes, Constants2 DEF AccountsInv, Adds, Exists
  <2>4. SessionsOK'
    BY <1>0, <1>a, <2>2, <2>3 DEF SessionsOK, Exists
  <2> QED BY <1>0, <2>1, <2>2, <2>3, <2>4, HandlersKeep DEF Steps, Ended
<1>9. CASE DeleteUser(s)
  <2> DEFINE n == req[s].name
  <2>1. /\ req[s].op = "delete" /\ req[s].step = "delete" /\ UNCHANGED asked
        /\ user' = [user EXCEPT ![n] = Nobody] /\ sessions' = {x \in sessions : x.name # n}
        /\ Handled(s, "done") \/ Handled(s, "error")
    BY <1>9, GoesHandled DEF DeleteUser, At, AccountsInv, Steps, Ended
  <2>2. user' \in [Names -> Row \cup {Nobody}]
    BY <1>0, <2>1
  <2>3. SessionsOK' /\ sessions' \in SUBSET Session
    BY <1>0, <1>a, <2>1, <2>2 DEF SessionsOK, Exists
  <2> QED BY <2>1, <2>2, <2>3, HandlersKeep DEF Steps, Ended
<1>10. CASE RoleUpdate(s)
  <2> DEFINE n == req[s].name
  <2>1. req[s].op = "role" /\ req[s].step = "update" /\ UNCHANGED asked
    BY <1>10 DEF RoleUpdate, At
  <2>2. /\ n \in Names /\ UNCHANGED sessions
        /\ \/ UNCHANGED user /\ Handled(s, "error")
           \/ Handled(s, "done") /\ \E row : Sets(n, row)
    BY <1>10, RoleIs DEF Patches
  <2>3. user' \in [Names -> Row \cup {Nobody}] /\ \A k \in Names : Exists(k) => user'[k] # Nobody
    BY <1>0, <2>2, UserTypes, Constants2 DEF AccountsInv, Sets, Exists
  <2>4. SessionsOK'
    BY <1>0, <1>a, <2>2, <2>3 DEF SessionsOK, Exists
  <2> QED BY <1>0, <2>1, <2>2, <2>3, <2>4, HandlersKeep DEF Steps, Ended
<1>11. CASE ResetUpdate(s)
  <2> DEFINE n == req[s].name
  <2>1. req[s].op = "reset" /\ req[s].step = "update" /\ UNCHANGED asked
    BY <1>11 DEF ResetUpdate, At
  <2>2. /\ n \in Names /\ UNCHANGED sessions
        /\ \/ UNCHANGED user /\ Handled(s, "error")
           \/ Handled(s, "clear") /\ \E row : Sets(n, row)
    BY <1>11, ResetIs DEF Raises
  <2>3. user' \in [Names -> Row \cup {Nobody}] /\ \A k \in Names : Exists(k) => user'[k] # Nobody
    BY <1>0, <2>2, UserTypes, Constants2 DEF AccountsInv, Sets, Exists
  <2>4. SessionsOK'
    BY <1>0, <1>a, <2>2, <2>3 DEF SessionsOK, Exists
  <2> QED BY <1>0, <2>1, <2>2, <2>3, <2>4, HandlersKeep DEF Steps, Ended
<1> QED BY <1>1, <1>2, <1>3, <1>4, <1>5, <1>6, <1>7, <1>8, <1>9, <1>10, <1>11 DEF Handles
\* An answer, after which the slot is free.
Frees(s) == req' = [req EXCEPT ![s] = Idle] /\ UNCHANGED <<user, sessions, asked>>

\* What it may do to its device: token x and home h.
Lands(s, x, h) ==
  \/ h = home \cup {Device[s]} /\ Signing(req[s]) /\ x \in {req[s].tok, token[Device[s]], NoToken}
  \/ h = home \ {Device[s]} /\ x = NoToken
  \/ h = home /\ x = token[Device[s]] /\ ~Holding(req[s])

LEMMA FreedKeeps ==
  ASSUME AccountsInv, NEW s \in Slots, NEW x, NEW h, Frees(s), Lands(s, x, h),
         token' = [token EXCEPT ![Device[s]] = x], home' = h,
         identity' \in [Devices -> Identity \cup {NoIdentity}],
         panel' \in SUBSET Devices, skipped' \in SUBSET Devices
  PROVE  AccountsInv'
<1> DEFINE d == Device[s]
<1>1. d \in Devices /\ req[s] \in AnyRequest /\ Idle \in AnyRequest /\ Sound(Idle)
      /\ ~Signing(Idle) /\ ~Holding(Idle) /\ token[d] \in Token \cup {NoToken}
  BY Constants, Constants2 DEF AccountsInv, ServerOK
<1>2. x \in Token \cup {NoToken} /\ h \in SUBSET Devices
  BY <1>1 DEF Lands, AnyRequest, AccountsInv, ServerOK
<1>3. ServerOK'
  BY <1>1, <1>2 DEF Frees, AccountsInv, ServerOK
<1>4. /\ \A u \in Slots \ {s} : req'[u] = req[u]
      /\ req'[s] = Idle
      /\ \A e \in Devices \ {d} : token'[e] = token[e]
      /\ token'[d] = x
  BY <1>1 DEF Frees, AccountsInv, ServerOK
<1>5. (\A u \in Slots : Sound(req'[u])) /\ SessionsOK'
  BY <1>1, <1>4 DEF Frees, AccountsInv, SessionsOK, Exists
<1>6. \A u \in Slots : Signing(req'[u]) => u # s /\ req'[u] = req[u]
  BY <1>1, <1>4
<1>7. \A u, v \in Slots : Device[u] = Device[v] /\ Signing(req'[u]) /\ Signing(req'[v]) => u = v
  BY <1>6 DEF AccountsInv, SigningOK
<1>8. \A u \in Slots : Signing(req'[u]) => Device[u] \notin h
  BY <1>6 DEF AccountsInv, SigningOK, Lands
<1>9. \A r : Holding(r) => Signing(r)
  BY DEF Holding, Signing
<1>10. ASSUME NEW u \in Slots, Holding(req'[u]) PROVE token'[Device[u]] \in {req'[u].tok, NoToken}
  <2>1. u # s /\ req'[u] = req[u] /\ Signing(req[u]) /\ token[Device[u]] \in {req[u].tok, NoToken}
        /\ Device[u] \in Devices
    BY <1>6, <1>9, <1>10, Constants DEF AccountsInv, SigningOK
  <2>2. Device[u] = d => ~Signing(req[s])
    BY <2>1 DEF AccountsInv, SigningOK
  <2> QED BY <1>4, <2>1, <2>2 DEF Lands
<1>11. ASSUME NEW e \in Devices \ h
       PROVE  token'[e] = NoToken \/ \E u \in Slots : Device[u] = e /\ Holding(req'[u])
  <2>1. CASE e \in home
    BY <1>4, <1>11, <2>1 DEF Lands
  <2>2. CASE token[e] = NoToken
    BY <1>4, <1>11, <2>2 DEF Lands
  <2>3. CASE \E u \in Slots : Device[u] = e /\ Holding(req[u])
    BY <1>4, <1>9, <1>11, <2>3 DEF Lands, AccountsInv, SigningOK
  <2> QED BY <2>1, <2>2, <2>3 DEF AccountsInv, SigningOK
<1>12. SigningOK'
  BY <1>7, <1>8, <1>10, <1>11 DEF SigningOK
<1> QED BY <1>3, <1>5, <1>12 DEF AccountsInv

\* The types of what a device keeps.
Kept == /\ identity' \in [Devices -> Identity \cup {NoIdentity}]
        /\ panel' \in SUBSET Devices /\ skipped' \in SUBSET Devices

LEMMA AnswerKeeps ==
  ASSUME AccountsInv, NEW s \in Slots, Answer(s)
  PROVE  AccountsInv'
<1> DEFINE d == Device[s]
           r == req[s]
<1>1. /\ d \in Devices /\ r \in AnyRequest /\ Sound(r) /\ r.step \in Ended
      /\ token \in [Devices -> Token \cup {NoToken}] /\ panel \in SUBSET Devices
      /\ skipped \in SUBSET Devices /\ identity \in [Devices -> Identity \cup {NoIdentity}]
      /\ home \in SUBSET Devices
  BY Constants DEF AccountsInv, ServerOK, Answer
<1>2. r.step # "setup"
  BY <1>1 DEF Ended
<1>3. \A n \in Names, b \in Bundles \ {NoBundle} :
        Enters(d, n, b.pub) => /\ identity' \in [Devices -> Identity \cup {NoIdentity}]
                               /\ skipped' \in SUBSET Devices /\ home' = home \cup {d}
  BY <1>1 DEF Enters, Identity, Bundles
<1>4. EntersWithoutKeys(d) => /\ identity' \in [Devices -> Identity \cup {NoIdentity}]
                              /\ skipped' \in SUBSET Devices /\ home' = home \cup {d}
  BY <1>1 DEF EntersWithoutKeys
<1>5. CASE At(s, "login", "done")
  <2>1. /\ token' = [token EXCEPT ![d] = r.tok] /\ panel' \in SUBSET Devices
        /\ LoggedIn(s) /\ UNCHANGED <<user, sessions, asked>>
        /\ r.op = "login" /\ r.step = "done" /\ r.tok \in Token /\ r.tok # NoToken /\ r.name \in Names
    BY <1>1, <1>5 DEF Answer, LoggedIn, At, Sound, AnyRequest, Token
  <2>2. CASE r.bundle # NoBundle
    <3>1. Frees(s)
      BY <2>1, <2>2 DEF LoggedIn, Frees
    <3>2. identity' \in [Devices -> Identity \cup {NoIdentity}] /\ skipped' \in SUBSET Devices
          /\ home' = home \cup {d}
      BY <1>1, <1>3, <1>4, <2>1, <2>2 DEF LoggedIn, AnyRequest
    <3>3. Lands(s, r.tok, home')
      BY <2>1, <3>2 DEF Lands, Signing
    <3> QED BY <2>1, <3>1, <3>2, <3>3, FreedKeeps
  <2>3. CASE r.bundle = NoBundle
    <3>1. Goes(s, "setup") /\ UNCHANGED <<home, identity, skipped>>
      BY <2>1, <2>3 DEF LoggedIn
    <3>2. Handled(s, "setup")
      BY <3>1, GoesHandled DEF AccountsInv, Steps
    <3>3. ServerOK' /\ SessionsOK'
      BY <1>1, <2>1, <3>1, <3>2 DEF AccountsInv, ServerOK, Handled, SessionsOK, Exists
    <3>4. r # Idle /\ req'[s] # Idle
      BY <2>1, <3>2 DEF Handled, Same, Idle
    <3>5. Sound(req'[s])
      BY <1>1, <2>1, <3>2, <3>4 DEF Sound, Handled, Same
    <3>6. /\ Signing(req[s]) /\ Signing(req'[s]) /\ Holding(req'[s]) /\ req'[s].tok = r.tok
          /\ \A u \in Slots \ {s} : req'[u] = req[u]
      BY <2>1, <3>2 DEF Handled, Same, Signing, Holding
    <3>7. \A u \in Slots \ {s} : Device[u] = d => ~Signing(req'[u])
      BY <3>6 DEF AccountsInv, SigningOK
    <3>8. token'[d] = r.tok /\ \A e \in Devices \ {d} : token'[e] = token[e]
      BY <1>1, <2>1
    <3>9. \A q : Holding(q) => Signing(q)
      BY DEF Holding, Signing
    <3>10. SigningOK'
      <4>1. \A u, v \in Slots : Device[u] = Device[v] /\ Signing(req'[u]) /\ Signing(req'[v]) => u = v
        BY <3>6 DEF AccountsInv, SigningOK
      <4>2. \A u \in Slots : Signing(req'[u]) => Device[u] \notin home
        BY <3>6 DEF AccountsInv, SigningOK
      <4>3. \A u \in Slots : Holding(req'[u]) => token'[Device[u]] \in {req'[u].tok, NoToken}
        BY <3>6, <3>7, <3>8, <3>9, Constants DEF AccountsInv, SigningOK
      <4>4. \A e \in Devices \ home :
              token'[e] = NoToken \/ \E u \in Slots : Device[u] = e /\ Holding(req'[u])
        <5> TAKE e \in Devices \ home
        <5>1. CASE e = d
          BY <3>6, <5>1
        <5>2. CASE e # d
          BY <3>6, <3>8, <5>2 DEF AccountsInv, SigningOK
        <5> QED BY <5>1, <5>2
      <4> QED BY <3>1, <4>1, <4>2, <4>3, <4>4 DEF SigningOK
    <3> QED BY <3>3, <3>5, <3>6, <3>10 DEF AccountsInv
  <2> QED BY <2>2, <2>3
<1>6. CASE ~At(s, "login", "done")
  <2>1. /\ Frees(s) /\ Answered(s) /\ Confirmed(s)
    BY <1>6 DEF Answer, Frees
  <2>2. panel' \in SUBSET Devices
    BY <1>1, <2>1 DEF Confirmed
  <2>3. ~Holding(r) \/ r.op = "upload"
    BY <1>2 DEF Holding
  <2>4. CASE UNCHANGED <<token, home, identity, skipped>> /\ r.op # "upload"
    <3>1. Lands(s, token[d], home) /\ token' = [token EXCEPT ![d] = token[d]]
      BY <1>1, <2>3, <2>4 DEF Lands
    <3> QED BY <1>1, <2>1, <2>2, <2>4, <3>1, FreedKeeps
  <2>5. CASE r.op = "upload" /\ r.step = "done"
    <3>1. Enters(d, r.name, r.bundle.pub) /\ UNCHANGED token
      BY <2>1, <2>5 DEF Answered, SignsOut, Enters
    <3>2. r.name \in Names /\ r.bundle \in Bundles \ {NoBundle}
      BY <1>1, <2>5 DEF Sound, AnyRequest
    <3>3. identity' \in [Devices -> Identity \cup {NoIdentity}] /\ skipped' \in SUBSET Devices
          /\ home' = home \cup {d}
      BY <1>3, <3>1, <3>2
    <3>4. Lands(s, token[d], home') /\ token' = [token EXCEPT ![d] = token[d]]
      BY <1>1, <2>5, <3>1, <3>3 DEF Lands, Signing
    <3> QED BY <2>1, <2>2, <3>3, <3>4, FreedKeeps
  <2>6. CASE r.op = "upload" /\ r.step = "401"
    <3>1. token' = [token EXCEPT ![d] = NoToken] /\ EntersWithoutKeys(d)
      BY <2>1, <2>6 DEF Answered, SignsOut
    <3>2. Lands(s, NoToken, home')
      BY <1>4, <2>6, <3>1 DEF Lands, Signing
    <3> QED BY <1>4, <2>1, <2>2, <3>1, <3>2, FreedKeeps
  <2>7. CASE r.op \notin {"login", "upload"} /\ r.step = "401"
    <3>1. Expires(d)
      BY <2>1, <2>7 DEF Answered, SignsOut
    <3>2. Lands(s, NoToken, home')
      BY <3>1 DEF Lands, Expires
    <3> QED BY <1>1, <2>1, <2>2, <3>1, <3>2, FreedKeeps DEF Expires
  <2>8. CASE r.op \in {"rename", "password"} /\ r.step = "done"
    <3>1. LogsOut(d)
      BY <2>1, <2>8 DEF Answered, SignsOut
    <3>2. Lands(s, NoToken, home')
      BY <3>1 DEF Lands, LogsOut
    <3> QED BY <1>1, <2>1, <2>2, <3>1, <3>2, FreedKeeps DEF LogsOut
  <2>9. r.op = "upload" => r.step \in {"done", "401"}
    BY <1>1 DEF Sound, Ended
  <2>10. ASSUME r.op # "upload", ~(r.op # "login" /\ r.step = "401"),
               ~(r.op \in {"rename", "password"} /\ r.step = "done")
        PROVE  UNCHANGED <<token, home, identity, skipped>>
    BY <2>1, <2>10 DEF Answered, SignsOut, Enters, EntersWithoutKeys, Expires, LogsOut
  <2> QED BY <2>4, <2>5, <2>6, <2>7, <2>8, <2>9, <2>10
<1> QED BY <1>5, <1>6

LEMMA LostKeeps ==
  ASSUME AccountsInv, NEW s \in Slots, AnswerLost(s)
  PROVE  AccountsInv'
<1> DEFINE d == Device[s]
<1>1. /\ d \in Devices /\ req[s].step \in Ended /\ Frees(s) /\ UNCHANGED <<token, panel>>
      /\ token \in [Devices -> Token \cup {NoToken}] /\ panel \in SUBSET Devices
      /\ skipped \in SUBSET Devices /\ identity \in [Devices -> Identity \cup {NoIdentity}]
  BY Constants DEF AccountsInv, ServerOK, AnswerLost, Frees
<1>2. token' = [token EXCEPT ![d] = token[d]]
  BY <1>1
<1>3. CASE req[s].op = "upload"
  <2>1. EntersWithoutKeys(d)
    BY <1>3 DEF AnswerLost
  <2>2. Lands(s, token[d], home')
    BY <1>3, <2>1 DEF Lands, Signing, EntersWithoutKeys
  <2> QED BY <1>1, <1>2, <2>1, <2>2, FreedKeeps DEF EntersWithoutKeys
<1>4. CASE req[s].op # "upload"
  <2>1. UNCHANGED <<home, identity, skipped>>
    BY <1>4 DEF AnswerLost
  <2>2. Lands(s, token[d], home)
    BY <1>1, <1>4 DEF Lands, Holding, Ended
  <2> QED BY <1>1, <1>2, <2>1, <2>2, FreedKeeps
<1> QED BY <1>3, <1>4

\* Nothing happens to the accounts and the requests, and devices may lose their sessions.
LEMMA LeavingKeeps ==
  ASSUME AccountsInv, NEW d \in Devices, UNCHANGED <<user, sessions, req, asked>>,
         token' = [token EXCEPT ![d] = NoToken], home' = home \ {d},
         identity' \in [Devices -> Identity \cup {NoIdentity}],
         panel' \in SUBSET Devices, skipped' \in SUBSET Devices
  PROVE  AccountsInv'
<1>1. ServerOK'
  BY DEF AccountsInv, ServerOK
<1>2. token'[d] = NoToken /\ \A e \in Devices \ {d} : token'[e] = token[e]
  BY DEF AccountsInv, ServerOK
<1>3. SigningOK'
  BY <1>2, Constants DEF AccountsInv, SigningOK
<1> QED BY <1>1, <1>3 DEF AccountsInv, SessionsOK, Exists

LEMMA LogOutKeeps ==
  ASSUME AccountsInv, NEW d \in Devices, LogOut(d)
  PROVE  AccountsInv'
<1>1. identity' \in [Devices -> Identity \cup {NoIdentity}] /\ panel' \in SUBSET Devices
      /\ skipped' \in SUBSET Devices
  BY DEF LogOut, LogsOut, AccountsInv, ServerOK
<1> QED BY <1>1, LeavingKeeps DEF LogOut, LogsOut, vars

LEMMA AsksKeep ==
  ASSUME AccountsInv, NEW s \in Slots, NEW q, Arrives(s, q), UNCHANGED pageVars,
         ~Holding(q),
         Signing(q) => /\ Device[s] \notin home
                       /\ \A u \in Slots : Device[u] = Device[s] => ~Signing(req[u])
  PROVE  AccountsInv'
<1>1. ServerOK'
  BY DEF AccountsInv, ServerOK, Arrives, pageVars
<1>2. req'[s] = q /\ (\A u \in Slots \ {s} : req'[u] = req[u]) /\ req[s] = Idle
  BY DEF AccountsInv, ServerOK, Arrives
<1>3. \A u \in Slots : Holding(req[u]) => u # s
  BY <1>2, Constants2
<1>4. (\A u \in Slots : Sound(req'[u])) /\ SessionsOK'
  BY <1>2 DEF Arrives, AccountsInv, SessionsOK, Exists
<1>5. SigningOK'
  BY <1>2, <1>3 DEF AccountsInv, SigningOK, pageVars
<1> QED BY <1>1, <1>4, <1>5 DEF AccountsInv

LEMMA SetupKeeps ==
  ASSUME AccountsInv, NEW s \in Slots, NEW q, SetsUp(s, q)
  PROVE  AccountsInv'
<1>1. ServerOK'
  BY DEF AccountsInv, ServerOK, SetsUp, pageVars
<1>2. req'[s] = q /\ (\A u \in Slots \ {s} : req'[u] = req[u])
  BY DEF AccountsInv, ServerOK, SetsUp
<1>3. (\A u \in Slots : Sound(req'[u])) /\ SessionsOK'
  BY <1>2 DEF SetsUp, AccountsInv, SessionsOK, Exists
<1>4. Signing(q) /\ Holding(q) /\ Signing(req[s]) /\ Holding(req[s]) /\ q.tok = token[Device[s]]
  BY DEF SetsUp, Signing, Holding, At
<1>5. SigningOK'
  BY <1>2, <1>4 DEF AccountsInv, SigningOK, pageVars, SetsUp
<1> QED BY <1>1, <1>3, <1>5 DEF AccountsInv

LEMMA SignInKeeps ==
  ASSUME AccountsInv, SignInNext
  PROVE  AccountsInv'
<1>1. ASSUME NEW s \in Slots, SubmitLogin(s) PROVE AccountsInv'
  <2>1. PICK q : LoginAsk(s, q)
    BY <1>1, LoginAsks
  <2>2. UNCHANGED pageVars /\ Device[s] \notin home
    BY <1>1 DEF SubmitLogin
  <2>3. ~Holding(q)
    BY <2>1 DEF LoginAsk, Holding
  <2> QED BY <2>1, <2>2, <2>3, AsksKeep DEF LoginAsk
<1>2. ASSUME NEW s \in Slots, Requests(s) \/ AdminRequests(s) PROVE AccountsInv'
  <2>1. PICK q : PageAsk(s, q)
    BY <1>2, UserAsks
  <2>2. UNCHANGED pageVars
    BY <1>2 DEF Requests, AdminRequests
  <2>3. ~Holding(q) /\ ~Signing(q)
    BY <2>1 DEF PageAsk, Holding, Signing
  <2> QED BY <2>1, <2>2, <2>3, AsksKeep DEF PageAsk
<1>3. ASSUME NEW s \in Slots, Setup(s) PROVE AccountsInv'
  BY <1>3, SetupSetsUp, SetupKeeps
<1> QED BY <1>1, <1>2, <1>3, HandlesKeeps, AnswerKeeps, LostKeeps, LogOutKeeps DEF SignInNext
-----------------------------------------------------------------------------
\* The requests of Approvals and Library.

JobOf(op, step, tok, admin, arg, reply, here) ==
  [op |-> op, step |-> step, tok |-> tok, admin |-> admin, arg |-> arg, reply |-> reply, here |-> here]

IsJob(j) == j = JobOf(j.op, j.step, j.tok, j.admin, j.arg, j.reply, j.here)

\* A registration, with keys that its password unwraps.
SignupOK(r) ==
  /\ r.name \in Names /\ r.pw \in Passwords /\ r.bundle \in Bundles
  /\ r.bundle # NoBundle => r.bundle.lock = r.pw /\ r.bundle.pub # None

JobsInv ==
  /\ job = [s \in Slots |-> job[s]]
  /\ \A s \in Slots :
       /\ IsJob(job[s])
       /\ job[s].op = "register" => SignupOK(job[s].arg)
       /\ job[s].op = "admit" => job[s].arg.who \in Numbers \ {None} /\ job[s].arg.admin \in BOOLEAN
  /\ \A r \in signups : SignupOK(r)

WithHere(j, x) == [j EXCEPT !.here = x]
WithArg(j, x) == [j EXCEPT !.arg = x]
WithStep(j, x) == [j EXCEPT !.step = x]
WithReply(j, x, y) == [j EXCEPT !.step = x, !.reply = y]

LEMMA WithHereIs ==
  ASSUME NEW j, IsJob(j), NEW x
  PROVE  LET q == WithHere(j, x) IN
         IsJob(q) /\ q.op = j.op /\ q.step = j.step /\ q.arg = j.arg /\ q.reply = j.reply /\ q.tok = j.tok
<1>1. PICK op, step, tok, admin, arg, reply, here : j = JobOf(op, step, tok, admin, arg, reply, here)
  BY DEF IsJob
<1>2. WithHere(j, x) = JobOf(op, step, tok, admin, arg, reply, x)
  BY <1>1 DEF JobOf, WithHere
<1> QED BY <1>1, <1>2 DEF IsJob, JobOf

LEMMA WithArgIs ==
  ASSUME NEW j, IsJob(j), NEW x
  PROVE  LET q == WithArg(j, x) IN
         IsJob(q) /\ q.op = j.op /\ q.step = j.step /\ q.reply = j.reply /\ q.tok = j.tok
<1>1. PICK op, step, tok, admin, arg, reply, here : j = JobOf(op, step, tok, admin, arg, reply, here)
  BY DEF IsJob
<1>2. WithArg(j, x) = JobOf(op, step, tok, admin, x, reply, here)
  BY <1>1 DEF JobOf, WithArg
<1> QED BY <1>1, <1>2 DEF IsJob, JobOf

LEMMA WithStepIs ==
  ASSUME NEW j, IsJob(j), NEW x
  PROVE  LET q == WithStep(j, x) IN
         IsJob(q) /\ q.op = j.op /\ q.step = x /\ q.arg = j.arg /\ q.reply = j.reply /\ q.tok = j.tok
<1>1. PICK op, step, tok, admin, arg, reply, here : j = JobOf(op, step, tok, admin, arg, reply, here)
  BY DEF IsJob
<1>2. WithStep(j, x) = JobOf(op, x, tok, admin, arg, reply, here)
  BY <1>1 DEF JobOf, WithStep
<1> QED BY <1>1, <1>2 DEF IsJob, JobOf

LEMMA WithReplyIs ==
  ASSUME NEW j, IsJob(j), NEW x, NEW y
  PROVE  LET q == WithReply(j, x, y) IN
         IsJob(q) /\ q.op = j.op /\ q.step = x /\ q.arg = j.arg /\ q.reply = y /\ q.tok = j.tok
<1>1. PICK op, step, tok, admin, arg, reply, here : j = JobOf(op, step, tok, admin, arg, reply, here)
  BY DEF IsJob
<1>2. PICK q : q = WithReply(j, x, y)
  OBVIOUS
<1>3. q = [JobOf(op, step, tok, admin, arg, reply, here) EXCEPT !.step = x, !.reply = y]
  BY <1>1, <1>2 DEF WithReply
<1>4. q = JobOf(op, x, tok, admin, arg, y, here)
  BY <1>3 DEF JobOf
<1> QED BY <1>1, <1>2, <1>4 DEF IsJob, JobOf

LEMMA NoJobIs == IsJob(NoJob) /\ NoJob.op = "none"
BY DEF IsJob, JobOf, NoJob

LEMMA RequestIs ==
  ASSUME NEW s, NEW op, NEW arg, NEW step
  PROVE  LET j == Request(s, op, arg, step) IN
         IsJob(j) /\ j.op = op /\ j.arg = arg /\ j.step \in {step, "401"}
BY DEF Request, IsJob, JobOf

LEMMA AdminRequestIs ==
  ASSUME NEW s, NEW op, NEW arg, NEW step
  PROVE  LET j == AdminRequest(s, op, arg, step) IN
         IsJob(j) /\ j.op = op /\ j.arg = arg /\ j.step \in {step, "401", "403"}
BY RequestIs DEF AdminRequest

\* A request goes on, its answer is awaited or not; or it is none of an administrator's desk.
Stays(t) ==
  /\ IsJob(job'[t])
  /\ \/ job'[t].op \notin DeskOps
     \/ /\ job'[t].op = job[t].op /\ job'[t].step = job[t].step /\ job'[t].arg = job[t].arg
        /\ job'[t].reply = job[t].reply /\ job'[t].tok = job[t].tok

Others(s) == job' = [t \in Slots |-> job'[t]] /\ \A t \in Slots \ {s} : Stays(t)

Proceeds(s, step) ==
  /\ Others(s)
  /\ IsJob(job'[s]) /\ job'[s].op = job[s].op /\ job'[s].arg = job[s].arg /\ job'[s].step = step

LEMMA JobGoesProceeds ==
  ASSUME JobsInv, NEW s \in Slots, NEW step, JobGoes(s, step)
  PROVE  Proceeds(s, step) /\ job'[s].reply = job[s].reply
<1>1. job' = [job EXCEPT ![s] = WithStep(job[s], step)]
  BY DEF JobGoes, WithStep
<1>2. IsJob(job[s])
  BY DEF JobsInv
<1> HIDE DEF JobsInv
<1>3. job = [t \in Slots |-> job[t]] /\ \A t \in Slots : IsJob(job[t])
  BY DEF JobsInv
<1>4. job'[s] = WithStep(job[s], step) /\ job' = [t \in Slots |-> job'[t]]
      /\ \A t \in Slots \ {s} : job'[t] = job[t]
  BY <1>1, <1>3
<1> QED BY <1>2, <1>3, <1>4, WithStepIs DEF Proceeds, Others, Stays

LEMMA SendsStays ==
  ASSUME JobsInv, NEW s \in Slots, NEW j, job' = [job EXCEPT ![s] = j]
  PROVE  job'[s] = j /\ Others(s)
<1>1. job = [t \in Slots |-> job[t]] /\ \A t \in Slots : IsJob(job[t])
  BY DEF JobsInv
<1>2. job'[s] = j /\ job' = [t \in Slots |-> job'[t]] /\ \A t \in Slots \ {s} : job'[t] = job[t]
  BY <1>1
<1> QED BY <1>1, <1>2 DEF Others, Stays

LEMMA LeftStays ==
  ASSUME JobsInv, job' = [t \in Slots |-> Left(t)]
  PROVE  (\A t \in Slots : Stays(t)) /\ job' = [t \in Slots |-> job'[t]]
<1>1. job' = [t \in Slots |-> job'[t]] /\ \A t \in Slots : job'[t] = Left(t)
  OBVIOUS
<1>2. ASSUME NEW t \in Slots PROVE Stays(t)
  <2>1. IsJob(job[t]) /\ job'[t] = WithHere(job[t], job[t].here /\ Device[t] \in home')
    BY <1>1 DEF JobsInv, Left, WithHere
  <2> QED BY <2>1, WithHereIs DEF Stays
<1> QED BY <1>1, <1>2

LEMMA StaysKeeps ==
  ASSUME JobsInv, NEW s \in Slots, Others(s), IsJob(job'[s]),
         job'[s].op = "register" => SignupOK(job'[s].arg),
         job'[s].op = "admit" => job'[s].arg.who \in Numbers \ {None} /\ job'[s].arg.admin \in BOOLEAN,
         \A r \in signups' : SignupOK(r)
  PROVE  JobsInv'
BY DEF JobsInv, Others, Stays, DeskOps, SignupOK

LEMMA AllStayKeeps ==
  ASSUME JobsInv, job' = [t \in Slots |-> job'[t]], \A t \in Slots : Stays(t), signups' \subseteq signups
  PROVE  JobsInv'
BY DEF JobsInv, Stays, DeskOps, SignupOK

-----------------------------------------------------------------------------
\* What the library does to them.

LEMMA LibraryStays ==
  ASSUME JobsInv, LibraryStep
  PROVE  (\A t \in Slots : Stays(t)) /\ job' = [t \in Slots |-> job'[t]]
<1>0. job = [t \in Slots |-> job[t]] /\ \A t \in Slots : IsJob(job[t])
  BY DEF JobsInv
<1>a. \A t \in Slots : job'[t] = job[t] => Stays(t)
  BY <1>0 DEF Stays
<1>1. ASSUME NEW s \in Slots, NEW j, job' = [job EXCEPT ![s] = j], IsJob(j), j.op \notin DeskOps
      PROVE  (\A t \in Slots : Stays(t)) /\ job' = [t \in Slots |-> job'[t]]
  BY <1>1, SendsStays DEF Others, Stays
<1>2. ASSUME NEW s \in Slots, NEW op, NEW arg, NEW step, Sends(s, Request(s, op, arg, step)), op \notin DeskOps
      PROVE  (\A t \in Slots : Stays(t)) /\ job' = [t \in Slots |-> job'[t]]
  <2>1. PICK j : j = Request(s, op, arg, step)
    OBVIOUS
  <2>2. job' = [job EXCEPT ![s] = j]
    BY <1>2, <2>1 DEF Sends
  <2>3. IsJob(j) /\ j.op = op
    BY <2>1, RequestIs
  <2> QED BY <1>1, <1>2, <2>2, <2>3
<1>3. ASSUME NEW s \in Slots, NEW mine, Load(s, mine)
      PROVE  (\A t \in Slots : Stays(t)) /\ job' = [t \in Slots |-> job'[t]]
  <2>1. PICK j : j = ListRequest(s, "load", mine, 0)
    OBVIOUS
  <2>2. job' = [t \in Slots |-> IF t = s THEN j
                                ELSE IF Device[t] = Device[s] THEN Outdated(job[t]) ELSE job[t]]
    BY <1>3, <2>1 DEF Load
  <2>3. IsJob(j) /\ j.op = "load"
    BY <2>1, RequestIs DEF ListRequest
  <2>4. ASSUME NEW t \in Slots PROVE Stays(t)
    <3>1. CASE t = s
      BY <2>2, <2>3, <3>1 DEF Stays, DeskOps
    <3>2. CASE job'[t] = job[t]
      BY <1>a, <3>2
    <3>3. CASE t # s /\ job'[t] = Outdated(job[t]) /\ job'[t] # job[t]
      <4>1. job'[t] = [job[t] EXCEPT !.arg = [job[t].arg EXCEPT !.newest = FALSE]]
            /\ job[t].op \in {"load", "more"}
        BY <3>3 DEF Outdated, IsList
      <4>2. PICK a : a = [job[t].arg EXCEPT !.newest = FALSE]
        OBVIOUS
      <4>3. job'[t] = WithArg(job[t], a)
        BY <4>1, <4>2 DEF WithArg
      <4> QED BY <1>0, <4>1, <4>3, WithArgIs DEF Stays, DeskOps
    <3> QED BY <2>2, <3>1, <3>2, <3>3
  <2> QED BY <2>2, <2>4
<1>4. ASSUME NEW s \in Slots, LibraryAsks(s)
      PROVE  (\A t \in Slots : Stays(t)) /\ job' = [t \in Slots |-> job'[t]]
  <2>0. {"load", "more", "post", "edit", "drop", "unlock", "fetch"} \cap DeskOps = {}
    BY DEF DeskOps
  <2>1. CASE LoadDue(s)
    BY <1>3, <2>1 DEF LoadDue
  <2>2. CASE LoadMore(s)
    BY <1>2, <2>0, <2>2 DEF LoadMore, ListRequest
  <2>3. CASE SubmitPassword(s)
    BY <1>2, <2>0, <2>3 DEF SubmitPassword
  <2>4. CASE OpenRow(s)
    BY <1>2, <2>0, <2>4 DEF OpenRow, FetchRequest
  <2>5. CASE Upload(s)
    BY <1>2, <2>0, <2>5 DEF Upload
  <2>6. CASE EditModal(s)
    BY <1>2, <2>0, <2>6 DEF EditModal
  <2>7. CASE Remove(s)
    BY <1>2, <2>0, <2>7 DEF Remove
  <2> QED BY <1>4, <2>1, <2>2, <2>3, <2>4, <2>5, <2>6, <2>7 DEF LibraryAsks
<1>5. ASSUME NEW s \in Slots, NEW step, JobGoes(s, step), job[s].op \notin DeskOps
      PROVE  (\A t \in Slots : Stays(t)) /\ job' = [t \in Slots |-> job'[t]]
  BY <1>5, JobGoesProceeds DEF Proceeds, Others, Stays
<1>6. ASSUME NEW s \in Slots, NEW step, NEW reply, job[s].op \notin DeskOps,
             job' = [job EXCEPT ![s].step = step, ![s].reply = reply]
      PROVE  (\A t \in Slots : Stays(t)) /\ job' = [t \in Slots |-> job'[t]]
  <2>1. PICK j : j = WithReply(job[s], step, reply)
    OBVIOUS
  <2>2. IsJob(j) /\ j.op = job[s].op
    BY <1>0, <2>1, WithReplyIs
  <2>3. job' = [job EXCEPT ![s] = j]
    BY <1>0, <1>6, <2>1 DEF WithReply
  <2> QED BY <1>1, <1>6, <2>2, <2>3
<1>7. ASSUME NEW s \in Slots, LibraryHandles(s)
      PROVE  (\A t \in Slots : Stays(t)) /\ job' = [t \in Slots |-> job'[t]]
  <2>0. {"load", "more", "post", "edit", "drop", "unlock", "fetch"} \cap DeskOps = {}
    BY DEF DeskOps
  <2>1. CASE ListSelect(s)
    BY <1>6, <2>0, <2>1 DEF ListSelect
  <2>2. CASE UploadSave(s)
    BY <1>5, <2>0, <2>2 DEF UploadSave, JobAt
  <2>3. CASE UploadInsert(s)
    BY <1>5, <2>0, <2>3 DEF UploadInsert, JobAt
  <2>4. CASE OwnerRead(s)
    BY <1>5, <2>0, <2>4 DEF OwnerRead
  <2>5. CASE EditUpdate(s)
    BY <1>5, <2>0, <2>5 DEF EditUpdate, JobAt
  <2>6. CASE DropDelete(s)
    BY <1>6, <2>0, <2>6 DEF DropDelete, JobAt
  <2>7. CASE DropUnlink(s)
    BY <1>5, <2>0, <2>7 DEF DropUnlink, JobAt
  <2>8. CASE UnlockRead(s)
    BY <1>5, <2>0, <2>8 DEF UnlockRead, JobAt
  <2>9. CASE FetchRead(s)
    BY <1>5, <2>0, <2>9 DEF FetchRead, JobAt
  <2>10. CASE FetchStat(s)
    BY <1>5, <2>0, <2>10 DEF FetchStat, JobAt
  <2> QED BY <1>7, <2>1, <2>2, <2>3, <2>4, <2>5, <2>6, <2>7, <2>8, <2>9, <2>10 DEF LibraryHandles
<1>8. ASSUME NEW s \in Slots, LibraryAnswer(s)
      PROVE  (\A t \in Slots : Stays(t)) /\ job' = [t \in Slots |-> job'[t]]
  <2> DEFINE d == Device[s]
             j == job[s]
             again == j.here /\ Open(d) /\ j.step = "done"
  <2>1. CASE again /\ j.op \in {"post", "edit"}
    BY <1>3, <1>8, <2>1 DEF LibraryAnswer
  <2>2. CASE ~(again /\ j.op \in {"post", "edit"})
    <3>1. PICK f : f = IF again /\ j.op = "unlock" THEN FetchRequest(s, j.arg.id, j.arg.pw) ELSE NoJob
      OBVIOUS
    <3>2. IsJob(f) /\ f.op \notin DeskOps
      BY <3>1, RequestIs, NoJobIs DEF FetchRequest, DeskOps
    <3>3. job' = [t \in Slots |-> IF t # s THEN IF Device[t] = d THEN Waits(t) ELSE job[t] ELSE f]
      BY <1>8, <2>2, <3>1 DEF LibraryAnswer
    <3>4. ASSUME NEW t \in Slots PROVE Stays(t)
      <4>1. CASE t = s
        BY <3>2, <3>3, <4>1 DEF Stays
      <4>2. CASE t # s /\ Device[t] # d
        BY <1>a, <3>3, <4>2
      <4>3. CASE t # s /\ Device[t] = d
        <5>1. PICK h : h = (job[t].here /\ d \in home'
                /\ (job[t].op \in {"unlock", "fetch"} => job[t].arg.id \in Ids(page'[d].rows)))
          OBVIOUS
        <5>2. job'[t] = WithHere(job[t], h)
          BY <3>3, <4>3, <5>1 DEF Waits, WithHere
        <5> QED BY <1>0, <5>2, WithHereIs DEF Stays
      <4> QED BY <4>1, <4>2, <4>3
    <3> QED BY <3>3, <3>4
  <2> QED BY <2>1, <2>2
<1>9. ASSUME NEW s \in Slots, LibraryLost(s)
      PROVE  (\A t \in Slots : Stays(t)) /\ job' = [t \in Slots |-> job'[t]]
  BY <1>1, <1>9, NoJobIs DEF LibraryLost, DeskOps
<1>10. ASSUME NEW d \in Devices, Visit(d)
       PROVE  (\A t \in Slots : Stays(t)) /\ job' = [t \in Slots |-> job'[t]]
  <2>1. job' = [t \in Slots |-> IF Device[t] = d THEN [job[t] EXCEPT !.here = FALSE] ELSE job[t]]
    BY <1>10 DEF Visit, LeavesJobs
  <2>2. ASSUME NEW t \in Slots PROVE Stays(t)
    <3>1. CASE Device[t] = d
      BY <1>0, <2>1, <3>1, WithHereIs DEF Stays, WithHere
    <3>2. CASE Device[t] # d
      BY <1>a, <2>1, <3>2
    <3> QED BY <3>1, <3>2
  <2> QED BY <2>1, <2>2
<1>11. ASSUME NEW d \in Devices, ToggleMine(d)
       PROVE  (\A t \in Slots : Stays(t)) /\ job' = [t \in Slots |-> job'[t]]
  BY <1>0, <1>a, <1>11 DEF ToggleMine
<1> QED BY <1>4, <1>7, <1>8, <1>9, <1>10, <1>11 DEF LibraryStep
-----------------------------------------------------------------------------
\* What the desk does to them.

\* A request of the desk; its ids are new.
DeskAsk(s, j) ==
  /\ job[s].op = "none" /\ job' = [job EXCEPT ![s] = j]
  /\ IsJob(j) /\ j.op \in DeskOps
  /\ (j.op = "desk" /\ UNCHANGED asked) \/ (asked < MaxRequests /\ asked' = asked + 1)
  /\ UNCHANGED approvalVars
  /\ j.op = "register" => SignupOK(j.arg)
  /\ j.op = "phone" => j.arg.id = asked + 1
  /\ j.op = "admit" => j.arg.who = asked + 1 /\ j.arg.admin \in BOOLEAN
  /\ j.op = "verify" => j.arg \in listed[Device[s]] /\ j.arg.kind = "phone"
  /\ j.op = "desk" => j.step # "done"

LEMMA DeskAsksIs ==
  ASSUME AccountsInv, NEW s \in Slots, DeskAsks(s)
  PROVE  \E j : DeskAsk(s, j)
<1>1. ASSUME NEW op \in DeskOps \ {"desk"}, NEW arg, NEW step, Counted, UNCHANGED approvalVars,
             Sends(s, Request(s, op, arg, step)), op \notin {"register", "admit", "verify"},
             op = "phone" => arg.id = asked + 1
      PROVE  \E j : DeskAsk(s, j)
  <2>1. PICK j : j = Request(s, op, arg, step)
    OBVIOUS
  <2>2. IsJob(j) /\ j.op = op /\ j.arg = arg
    BY <2>1, RequestIs
  <2>3. job[s].op = "none" /\ job' = [job EXCEPT ![s] = j]
    BY <1>1, <2>1 DEF Sends, Free
  <2>4. DeskAsk(s, j)
    BY <1>1, <2>2, <2>3 DEF DeskAsk, Counted
  <2> QED BY <2>4
<1>2. ASSUME NEW op \in DeskOps \ {"desk"}, NEW arg, Decides(s, op, arg), op \notin {"register", "phone"},
             op = "admit" => arg.who = asked + 1 /\ arg.admin \in BOOLEAN,
             op = "verify" => arg \in listed[Device[s]] /\ arg.kind = "phone"
      PROVE  \E j : DeskAsk(s, j)
  <2>1. PICK j : j = AdminRequest(s, op, arg, "update")
    OBVIOUS
  <2>2. IsJob(j) /\ j.op = op /\ j.arg = arg
    BY <2>1, AdminRequestIs
  <2>3. job[s].op = "none" /\ job' = [job EXCEPT ![s] = j] /\ Counted /\ UNCHANGED approvalVars
    BY <1>2, <2>1 DEF Decides, Sends, Free
  <2>4. DeskAsk(s, j)
    BY <1>2, <2>2, <2>3 DEF DeskAsk, Counted
  <2> QED BY <2>4
<1>3. CASE HandleRegister(s)
  <2>1. PICK n \in Names, pw \in Passwords, number \in Phones \cup {NoPhone}, keys \in BOOLEAN :
          LET b == IF keys THEN [pub |-> asked + 1, lock |-> pw] ELSE NoBundle IN
          job' = [job EXCEPT ![s] = [NoJob EXCEPT !.op = "register",
            !.arg = [id |-> asked + 1, name |-> n, pw |-> pw, bundle |-> b, number |-> number],
            !.step = IF Exists(n) THEN "409" ELSE "insert"]]
    BY <1>3 DEF HandleRegister
  <2>2. PICK b : b = IF keys THEN [pub |-> asked + 1, lock |-> pw] ELSE NoBundle
    OBVIOUS
  <2>3. PICK a : a = [id |-> asked + 1, name |-> n, pw |-> pw, bundle |-> b, number |-> number]
    OBVIOUS
  <2>4. asked < MaxRequests /\ asked' = asked + 1 /\ asked + 1 \in Numbers /\ asked + 1 # None
    BY <1>3, Names1 DEF HandleRegister, Counted, AccountsInv
  <2>5. b \in Bundles /\ (b # NoBundle => b.lock = pw /\ b.pub # None)
    BY <2>2, <2>4 DEF Bundles
  <2>6. SignupOK(a)
    BY <2>3, <2>5 DEF SignupOK
  <2>7. PICK step : step = IF Exists(n) THEN "409" ELSE "insert"
    OBVIOUS
  <2>8. PICK j : j = [NoJob EXCEPT !.op = "register", !.arg = a, !.step = step]
    OBVIOUS
  <2>9. j = JobOf("register", step, << >>, FALSE, a, << >>, FALSE)
    BY <2>8 DEF NoJob, JobOf
  <2>10. IsJob(j) /\ j.op = "register" /\ j.arg = a
    BY <2>9 DEF IsJob, JobOf
  <2>11. job' = [job EXCEPT ![s] = j]
    BY <2>1, <2>2, <2>3, <2>7, <2>8
  <2>12. DeskAsk(s, j)
    BY <1>3, <2>4, <2>6, <2>10, <2>11 DEF HandleRegister, Free, DeskAsk, DeskOps
  <2> QED BY <2>12
<1>4. CASE HandleRequestPhone(s)
  <2>1. PICK number \in Phones :
          Sends(s, Request(s, "phone", [number |-> number, id |-> asked + 1], "check"))
    BY <1>4 DEF HandleRequestPhone
  <2>2. PICK a : a = [number |-> number, id |-> asked + 1]
    OBVIOUS
  <2>3. Sends(s, Request(s, "phone", a, "check")) /\ a.id = asked + 1
    BY <2>1, <2>2
  <2> QED BY <1>1, <1>4, <2>3 DEF HandleRequestPhone, DeskOps
<1>5. CASE HandleCancelPhone(s)
  BY <1>1, <1>5 DEF HandleCancelPhone, DeskOps
<1>6. CASE HandleRemovePhone(s)
  BY <1>1, <1>6 DEF HandleRemovePhone, DeskOps
<1>7. CASE Refresh(s)
  <2>1. PICK j : j = RefreshRequest(s)
    OBVIOUS
  <2>2. IsJob(j) /\ j.op = "desk" /\ j.step # "done"
    BY <2>1, AdminRequestIs DEF RefreshRequest
  <2>4. job[s].op = "none" /\ job' = [job EXCEPT ![s] = j] /\ UNCHANGED asked /\ UNCHANGED approvalVars
    BY <1>7, <2>1 DEF Refresh, Sends, Free
  <2>3. DeskAsk(s, j)
    BY <2>2, <2>4 DEF DeskAsk, DeskOps
  <2> QED BY <2>3
<1>8. CASE AssignManually(s)
  BY <1>2, <1>8 DEF AssignManually, DeskOps
<1>9. ASSUME NEW row \in listed[Device[s]], Approve(s, row)
      PROVE  \E j : DeskAsk(s, j)
  <2>1. CASE row.kind = "phone" /\ Decides(s, "verify", row)
    BY <1>2, <2>1 DEF DeskOps
  <2>2. CASE /\ row.kind = "signup"
             /\ \E number \in {row.number, NoPhone}, admin \in BOOLEAN :
                  Decides(s, "admit", [id |-> row.id, who |-> asked + 1, number |-> number, admin |-> admin])
    <3>1. PICK number \in {row.number, NoPhone}, admin \in BOOLEAN :
            Decides(s, "admit", [id |-> row.id, who |-> asked + 1, number |-> number, admin |-> admin])
      BY <2>2
    <3>2. PICK a : a = [id |-> row.id, who |-> asked + 1, number |-> number, admin |-> admin]
      OBVIOUS
    <3>3. a.who = asked + 1 /\ a.admin \in BOOLEAN /\ Decides(s, "admit", a)
      BY <3>1, <3>2
    <3> QED BY <1>2, <3>3 DEF DeskOps
  <2> QED BY <1>9, <2>1, <2>2 DEF Approve
<1>10. ASSUME NEW row, Reject(s, row)
       PROVE  \E j : DeskAsk(s, j)
  BY <1>2, <1>10 DEF Reject, DeskOps
<1> QED BY <1>3, <1>4, <1>5, <1>6, <1>7, <1>8, <1>9, <1>10 DEF DeskAsks

\* An account that is admitted, with the keys of its registration.
Admits(s, n, row) ==
  /\ JobAt(s, "admit", "update") /\ job'[s].step = "done"
  /\ n \in Names /\ Adds(n, row) /\ row.who = job[s].arg.who
  /\ row.bundle # NoBundle => row.bundle.lock = row.pw /\ row.bundle.pub # None

LEMMA AdmitIs ==
  ASSUME AccountsInv, JobsInv, NEW s \in Slots, AdmitInsert(s)
  PROVE  \/ UNCHANGED user
         \/ \E n, row : Admits(s, n, row)
<1> DEFINE a == job[s].arg
<1>1. job[s].op = "admit" /\ a.who \in Numbers /\ a.admin \in BOOLEAN
  BY DEF AdmitInsert, JobAt, JobsInv
<1>2. ASSUME NEW r \in signups, ~Exists(r.name), JobGoes(s, "done"), 
             user' = [user EXCEPT ![r.name] =
               [who |-> a.who, pw |-> r.pw, ver |-> 0, admin |-> a.admin, bundle |-> r.bundle]]
      PROVE  \E n, row : Admits(s, n, row)
  <2>1. PICK row : row = [who |-> a.who, pw |-> r.pw, ver |-> 0, admin |-> a.admin, bundle |-> r.bundle]
    OBVIOUS
  <2>2. SignupOK(r)
    BY DEF JobsInv
  <2>3. row \in Row
    BY <1>1, <2>1, <2>2 DEF Row, SignupOK
  <2>4. user' = [user EXCEPT ![r.name] = row] /\ row.who = a.who /\ row.ver = 0 /\ row.pw = r.pw
        /\ row.bundle = r.bundle
    BY <1>2, <2>1
  <2>5. job'[s].step = "done"
    BY <1>2, JobGoesProceeds DEF Proceeds
  <2>6. Admits(s, r.name, row)
    BY <1>2, <2>2, <2>3, <2>4, <2>5 DEF Admits, Adds, SignupOK, AdmitInsert
  <2> QED BY <2>6
<1> QED BY <1>2 DEF AdmitInsert

LEMMA DeskHandlesIs ==
  ASSUME AccountsInv, JobsInv, NEW s \in Slots, DeskHandles(s)
  PROVE  /\ \E step : Proceeds(s, step) /\ (job[s].op = "admit" => step # "update")
         /\ UNCHANGED user \/ \E n, row : Admits(s, n, row)
         /\ signups' \subseteq signups \cup {r \in {job[s].arg} : job[s].op = "register"}
<1>1. CASE RegisterInsert(s)
  BY <1>1, JobGoesProceeds DEF RegisterInsert, JobAt
<1>2. CASE PhoneCheck(s)
  BY <1>2, JobGoesProceeds DEF PhoneCheck, approvalVars, JobAt
<1>3. CASE PhoneInsert(s)
  BY <1>3, JobGoesProceeds DEF PhoneInsert, JobAt
<1>4. CASE CancelDelete(s)
  BY <1>4, JobGoesProceeds DEF CancelDelete, JobAt
<1>5. CASE RemoveUpdate(s)
  BY <1>5, JobGoesProceeds DEF RemoveUpdate, JobAt
<1>6. CASE DeskSelect(s)
  <2>1. PICK j : j = WithReply(job[s], "done", [rows |-> PhoneRows \cup SignupRows])
    OBVIOUS
  <2>2. job = [t \in Slots |-> job[t]] /\ IsJob(job[s])
    BY DEF JobsInv
  <2>3. job' = [job EXCEPT ![s] = j]
    BY <1>6, <2>1, <2>2 DEF WithReply, DeskSelect
  <2>4. IsJob(j) /\ j.op = job[s].op /\ j.arg = job[s].arg /\ j.step = "done"
    BY <2>1, <2>2, WithReplyIs
  <2>5. Proceeds(s, "done")
    BY <2>3, <2>4, SendsStays DEF Proceeds
  <2> QED BY <1>6, <2>5 DEF DeskSelect, approvalVars
<1>7. CASE VerifyUpdate(s)
  BY <1>7, JobGoesProceeds DEF VerifyUpdate, JobAt
<1>8. CASE AdmitInsert(s)
  <2>1. signups' \subseteq signups
    BY <1>8 DEF AdmitInsert
  <2>2. \/ JobGoes(s, "done") \/ JobGoes(s, "error") \/ JobGoes(s, "409")
    BY <1>8 DEF AdmitInsert
  <2>3. \/ Proceeds(s, "done") \/ Proceeds(s, "error") \/ Proceeds(s, "409")
    BY <2>2, JobGoesProceeds
  <2>4. \E step : Proceeds(s, step) /\ step # "update"
    BY <2>3
  <2> QED BY <1>8, <2>1, <2>4, AdmitIs
<1>9. CASE RefuseUpdate(s)
  BY <1>9, JobGoesProceeds DEF RefuseUpdate, JobAt
<1>10. CASE AssignUpdate(s)
  BY <1>10, JobGoesProceeds DEF AssignUpdate, JobAt
<1> QED BY <1>1, <1>2, <1>3, <1>4, <1>5, <1>6, <1>7, <1>8, <1>9, <1>10 DEF DeskHandles

LEMMA DeskAnswerIs ==
  ASSUME JobsInv, NEW s \in Slots, DeskAnswer(s)
  PROVE  /\ Others(s) /\ IsJob(job'[s])
         /\ job'[s].op \in {"none", "desk"} /\ (job'[s].op = "desk" => job'[s].step # "done")
<1>1. PICK f : /\ f = RefreshRequest(s) \/ f = NoJob
               /\ job' = [t \in Slots |-> IF t # s THEN Left(t) ELSE f]
  BY DEF DeskAnswer
<1>2. /\ IsJob(f) /\ f.op \in {"none", "desk"}
      /\ f.op = "desk" => f.step # "done"
  BY <1>1, AdminRequestIs, NoJobIs DEF RefreshRequest
<1>3. ASSUME NEW t \in Slots \ {s} PROVE Stays(t)
  <2>1. IsJob(job[t]) /\ job'[t] = WithHere(job[t], job[t].here /\ Device[t] \in home')
    BY <1>1 DEF JobsInv, Left, WithHere
  <2> QED BY <2>1, WithHereIs DEF Stays
<1> QED BY <1>1, <1>2, <1>3 DEF Others

-----------------------------------------------------------------------------
\* Outside of SignIn an account can be added and a device can lose its session.

Outside ==
  /\ UNCHANGED <<sessions, req, raced>>
  /\ UNCHANGED asked \/ (asked < MaxRequests /\ asked' = asked + 1)
  /\ \/ UNCHANGED <<token, home, identity, panel, skipped>>
     \/ \E d \in Devices : Expires(d) /\ UNCHANGED panel
  /\ UNCHANGED user \/ \E s \in Slots, n \in Names, row \in Row : Admits(s, n, row)

LEMMA RefusesIs ==
  ASSUME NEW s \in Slots, NEW aside, Refuses(s, aside)
  PROVE  \/ UNCHANGED <<token, home, identity, panel, skipped>>
         \/ \E d \in Devices : Expires(d) /\ UNCHANGED panel
BY Constants DEF Refuses, pageVars

LEMMA ApprovalsOutside ==
  ASSUME AccountsInv, JobsInv, ApprovalsStep
  PROVE  Outside /\ JobsInv'
<1>0. UNCHANGED <<sessions, req, raced>>
  BY DEF ApprovalsStep
<1>1. ASSUME NEW s \in Slots, DeskAsks(s), UNCHANGED <<user, pageVars>> PROVE Outside /\ JobsInv'
  <2>1. PICK j : DeskAsk(s, j)
    BY <1>1, DeskAsksIs
  <2>2. Outside
    BY <1>0, <1>1, <2>1 DEF Outside, DeskAsk, pageVars
  <2>3. asked < MaxRequests => asked + 1 \in Numbers \ {None}
    BY Names1 DEF AccountsInv
  <2>4. job'[s] = j /\ Others(s)
    BY <2>1, SendsStays DEF DeskAsk
  <2>5. \A r \in signups' : SignupOK(r)
    BY <2>1 DEF DeskAsk, approvalVars, JobsInv
  <2>6. JobsInv'
    BY <2>1, <2>3, <2>4, <2>5, StaysKeeps DEF DeskAsk
  <2> QED BY <2>2, <2>6
<1>2. ASSUME NEW s \in Slots, DeskHandles(s), UNCHANGED <<asked, pageVars>> PROVE Outside /\ JobsInv'
  <2>1. /\ \E step : Proceeds(s, step)
        /\ UNCHANGED user \/ \E n, row : Admits(s, n, row)
        /\ signups' \subseteq signups \cup {r \in {job[s].arg} : job[s].op = "register"}
    BY <1>2, DeskHandlesIs
  <2>2. Outside
    BY <1>0, <1>2, <2>1 DEF Outside, pageVars, Admits, Adds
  <2>3. \A r \in signups' : SignupOK(r)
    BY <2>1 DEF JobsInv
  <2>4. Others(s) /\ IsJob(job'[s]) /\ job'[s].op = job[s].op /\ job'[s].arg = job[s].arg
    BY <2>1 DEF Proceeds
  <2>5. JobsInv'
    BY <2>3, <2>4, StaysKeeps DEF JobsInv
  <2> QED BY <2>2, <2>5
<1>3. ASSUME NEW s \in Slots, DeskAnswer(s) PROVE Outside /\ JobsInv'
  <2>1. Refuses(s, {}) /\ UNCHANGED <<user, asked, signups>>
    BY <1>3 DEF DeskAnswer
  <2>2. Outside
    BY <1>0, <2>1, RefusesIs DEF Outside
  <2>3. Others(s) /\ IsJob(job'[s]) /\ job'[s].op \in {"none", "desk"}
    BY <1>3, DeskAnswerIs
  <2>4. JobsInv'
    BY <2>1, <2>3, StaysKeeps DEF JobsInv
  <2> QED BY <2>2, <2>4
<1> QED BY <1>1, <1>2, <1>3 DEF ApprovalsStep

LEMMA LibraryOutside ==
  ASSUME JobsInv, LibraryStep, LeavesDesk
  PROVE  Outside /\ JobsInv'
<1>1. JobsInv'
  BY LibraryStays, AllStayKeeps DEF LeavesDesk
<1>2. UNCHANGED <<user, sessions, req, raced>>
  BY DEF LibraryStep
<1>3. UNCHANGED asked \/ (asked < MaxRequests /\ asked' = asked + 1)
  BY DEF LibraryStep, LibraryAsks, Upload, EditModal, Remove, Counted, LibraryAnswer, LibraryLost
<1>4. \/ UNCHANGED <<token, home, identity, panel, skipped>>
      \/ \E d \in Devices : Expires(d) /\ UNCHANGED panel
  <2>1. ASSUME NEW s \in Slots, LibraryAnswer(s)
        PROVE  \/ UNCHANGED <<token, home, identity, panel, skipped>>
               \/ \E d \in Devices : Expires(d) /\ UNCHANGED panel
    BY <2>1, RefusesIs DEF LibraryAnswer
  <2> QED BY <2>1 DEF LibraryStep, LibraryLost, pageVars
<1> QED BY <1>1, <1>2, <1>3, <1>4 DEF Outside

LEMMA OutsideKeeps ==
  ASSUME AccountsInv, Outside
  PROVE  AccountsInv'
<1>1. user' \in [Names -> Row \cup {Nobody}] /\ \A n \in Names : Exists(n) => user'[n] # Nobody
  <2>1. ASSUME NEW s \in Slots, NEW n \in Names, NEW row \in Row, Admits(s, n, row)
        PROVE  user' \in [Names -> Row \cup {Nobody}] /\ \A m \in Names : Exists(m) => user'[m] # Nobody
    BY <2>1, Constants2 DEF Admits, Adds, AccountsInv, ServerOK, Exists
  <2> QED BY <2>1 DEF Outside, AccountsInv, ServerOK, Exists
<1>2. asked' \in Numbers
  BY Constants DEF Outside, AccountsInv, ServerOK, Numbers
<1>3. ServerOK'
  BY <1>1, <1>2 DEF Outside, Expires, AccountsInv, ServerOK
<1>4. SessionsOK' /\ \A s \in Slots : Sound(req'[s])
  BY <1>1 DEF Outside, AccountsInv, SessionsOK, Exists, ServerOK, Session
<1>5. SigningOK'
  <2>1. CASE UNCHANGED <<token, home>>
    BY <2>1 DEF Outside, AccountsInv, SigningOK
  <2>2. ASSUME NEW d \in Devices, Expires(d) PROVE SigningOK'
    <3>1. token'[d] = NoToken /\ \A e \in Devices \ {d} : token'[e] = token[e]
      BY <2>2 DEF Expires, AccountsInv, ServerOK
    <3>2. UNCHANGED req /\ home' = home \ {d}
      BY <2>2 DEF Expires, Outside
    <3> QED BY <3>1, <3>2, Constants DEF AccountsInv, SigningOK
  <2> QED BY <2>1, <2>2 DEF Outside
<1> QED BY <1>3, <1>4, <1>5 DEF AccountsInv

-----------------------------------------------------------------------------
\* The invariant of all of it.

OfficeInv == AccountsInv /\ JobsInv

LEMMA InitTypes == OfficeInit => OfficeInv
<1> SUFFICES ASSUME OfficeInit PROVE OfficeInv
  OBVIOUS
<1>0. SignInInit /\ job = [s \in Slots |-> NoJob] /\ signups = {}
  BY DEF OfficeInit, ApprovalsInit
<1>1. \A n \in Names : Rows(n) \subseteq Row \cup {Nobody}
  BY Constants2 DEF Rows, Row, Bundles
<1>2. user \in [Names -> Row \cup {Nobody}]
  BY <1>0, <1>1 DEF SignInInit
<1>3. \A d \in Devices : token[d] # NoToken =>
        \E n \in Names : token[d] = SignedIn(n, d) /\ user[n].bundle # NoBundle
  <2> TAKE d \in Devices
  <2> HAVE token[d] # NoToken
  <2>1. PICK n \in Names, e \in Devices : token[d] = SignedIn(n, e)
    BY <1>0 DEF SignInInit
  <2>2. token[d].sid = d /\ user[token[d].name].bundle # NoBundle
    BY <1>0 DEF SignInInit
  <2> QED BY <2>1, <2>2 DEF SignedIn
<1>4. ASSUME NEW n \in Names, user[n].bundle # NoBundle
      PROVE  user[n] \in Row /\ user[n].pw \in Passwords /\ Exists(n)
  BY <1>2, <1>4 DEF Nobody, Row, Exists
<1>5. \A d \in Devices : token[d] \in Token \cup {NoToken}
  <2> TAKE d \in Devices
  <2> SUFFICES ASSUME token[d] # NoToken PROVE token[d] \in Token
    OBVIOUS
  <2>1. PICK n \in Names : token[d] = SignedIn(n, d) /\ user[n].bundle # NoBundle
    BY <1>3
  <2>2. user[n].pw \in Passwords
    BY <1>4, <2>1
  <2> QED BY <2>1, <2>2 DEF SignedIn, Token
<1>6. \A d \in home : token[d].name \in Names /\ Exists(token[d].name) /\ token[d] # NoToken
  BY <1>0, <1>3, <1>4 DEF SignedIn, SignInInit
<1>7. token \in [Devices -> Token \cup {NoToken}]
  BY <1>0, <1>5 DEF SignInInit
<1>8. home \in SUBSET Devices /\ panel \in SUBSET Devices /\ skipped \in SUBSET Devices
      /\ req \in [Slots -> AnyRequest] /\ asked \in Numbers
  BY <1>0, Constants2 DEF SignInInit
<1>9. identity \in [Devices -> Identity \cup {NoIdentity}]
  <2>1. PICK left \in {NoIdentity} \cup {[name |-> n, pub |-> n] : n \in {m \in Names : user[m].bundle # NoBundle}} :
          identity = [d \in Devices |-> IF d \in home
            THEN [name |-> token[d].name, pub |-> token[d].name] ELSE left]
    BY <1>0 DEF SignInInit
  <2>2. left \in Identity \cup {NoIdentity}
    BY DEF Identity
  <2>3. \A d \in home : [name |-> token[d].name, pub |-> token[d].name] \in Identity
    BY <1>6 DEF Identity
  <2> QED BY <2>1, <2>2, <2>3
<1>10. sessions \in SUBSET Session /\ SessionsOK
  <2>1. sessions = {[sid |-> d, name |-> token[d].name, ver |-> 0] : d \in home}
    BY <1>0 DEF SignInInit
  <2>2. \A d \in home : LET x == [sid |-> d, name |-> token[d].name, ver |-> 0] IN
          x \in Session /\ Exists(x.name)
    BY <1>6, <1>8 DEF Session
  <2> QED BY <2>1, <2>2 DEF SessionsOK
<1>11. \A s \in Slots : req[s] = Idle
  BY <1>0 DEF SignInInit
<1>12. SigningOK
  BY <1>0, <1>11, Constants2 DEF SigningOK, SignInInit
<1>13. AccountsInv
  BY <1>2, <1>7, <1>8, <1>9, <1>10, <1>11, <1>12, Constants2 DEF AccountsInv, ServerOK
<1>14. \A s \in Slots : IsJob(NoJob) /\ NoJob.op = "none"
  BY NoJobIs
<1>15. job = [s \in Slots |-> job[s]] /\ \A s \in Slots : job[s] = NoJob
  BY <1>0
<1>16. JobsInv
  BY <1>0, <1>14, <1>15 DEF JobsInv
<1> QED BY <1>13, <1>16 DEF OfficeInv

LEMMA StepTypes ==
  ASSUME OfficeInv, [OfficeNext]_officeVars
  PROVE  OfficeInv'
<1>1. CASE UNCHANGED officeVars
  BY <1>1 DEF officeVars, allVars, vars, pageVars, approvalVars, OfficeInv, AccountsInv, ServerOK,
              SessionsOK, SigningOK, Exists, JobsInv
<1>2. CASE SignInNext /\ job' = [s \in Slots |-> Left(s)] /\ LeavesDesk
  <2>1. AccountsInv'
    BY <1>2, SignInKeeps DEF OfficeInv
  <2>2. JobsInv'
    BY <1>2, LeftStays, AllStayKeeps DEF OfficeInv, LeavesDesk
  <2> QED BY <2>1, <2>2 DEF OfficeInv
<1>3. CASE ApprovalsStep
  BY <1>3, ApprovalsOutside, OutsideKeeps DEF OfficeInv
<1>4. CASE LibraryStep /\ LeavesDesk
  BY <1>4, LibraryOutside, OutsideKeeps DEF OfficeInv
<1> QED BY <1>1, <1>2, <1>3, <1>4 DEF OfficeNext

\* Modules Accounts and SignIn: rows, tokens and requests have their types, a session has an
\* account, a device signs in once at a time with the token it holds, and what is asked,
\* answered and stored while somebody registers stays what the handlers and pages made it.
THEOREM OfficeTypes == OfficeSpec => []OfficeInv
BY InitTypes, StepTypes, PTL DEF OfficeSpec
-----------------------------------------------------------------------------
\* What a step does to the accounts and the sessions.

\* An id that a request will give to an account.
Promise(kind, s, w) ==
  \/ kind = "create" /\ At(s, "create", "update") /\ w = req[s].to
  \/ kind = "admit" /\ JobAt(s, "admit", "update") /\ w = job[s].arg.who

\* A change raises the version, or it only sets keys or the role.
Rewrites(n, row) ==
  /\ Sets(n, row)
  /\ \/ /\ row.ver = user[n].ver + 1
        /\ (\A x \in sessions' : x.name # n) \/ (\E s \in Slots : req'[s].step = "clear" /\ req'[s].to = n)
     \/ /\ row.ver = user[n].ver /\ row.pw = user[n].pw
        /\ row.bundle = user[n].bundle \/ user[n].bundle = NoBundle \/ "upload" \in raced'
  /\ \/ row.bundle = NoBundle \/ row.bundle.lock = row.pw \/ raced' \cap {"unkeyed", "upload"} # {}
     \/ row.bundle = user[n].bundle /\ row.pw = user[n].pw
  /\ \/ row.bundle = user[n].bundle \/ row.bundle = NoBundle
     \/ \E s \in Slots : row.bundle = req[s].bundle

Enrols(n, row) ==
  /\ Adds(n, row)
  /\ row.bundle # NoBundle => row.bundle.lock = row.pw /\ row.bundle.pub # None
  /\ \E kind \in {"create", "admit"}, s \in Slots :
       Promise(kind, s, row.who) /\ ~Promise(kind, s, row.who)'

Joins(s, y) ==
  /\ At(s, "login", "session") /\ Handled(s, "done") /\ Exists(req[s].tok.name) /\ UNCHANGED user
  /\ y \in Session /\ y.sid = req[s].tok.sid /\ y.name = req[s].tok.name /\ y.ver = req[s].tok.ver
  /\ sessions' = sessions \cup {y}
  /\ "renamed" \in raced' \/ user[y.name].who = req[s].tok.who
  /\ "login" \in raced' \/ user[y.name].ver = y.ver

Renamed(m, n) ==
  /\ Moves(m, n)
  /\ \A y \in sessions' : \E x \in sessions :
       y.sid = x.sid /\ y.ver = x.ver /\ y.name = IF x.name = m THEN n ELSE x.name
  /\ \E s \in Slots : req'[s].step = "clear" /\ req'[s].to = n

Removed(n) ==
  user' = [user EXCEPT ![n] = Nobody] /\ sessions' = {x \in sessions : x.name # n}

Change ==
  /\ raced \subseteq raced'
  /\ \/ UNCHANGED user /\ sessions' \subseteq sessions
     \/ \E s \in Slots, y \in Session : Joins(s, y)
     \/ \E n \in Names, row \in Row : Rewrites(n, row) /\ sessions' \subseteq sessions
     \/ \E m, n \in Names : Renamed(m, n)
     \/ \E n \in Names, row \in Row : Enrols(n, row) /\ UNCHANGED sessions
     \/ \E n \in Names : Removed(n)

LEMMA HandlesChange ==
  ASSUME AccountsInv, NEW s \in Slots, Handles(s)
  PROVE  Change
<1>0. /\ req[s] \in AnyRequest /\ Sound(req[s]) /\ SessionsOK
      /\ user \in [Names -> Row \cup {Nobody}] /\ sessions \in SUBSET Session
  BY DEF AccountsInv, ServerOK
<1>1. CASE LoginSession(s)
  <2>1. CASE ~Exists(req[s].tok.name)
    BY <1>1, <2>1 DEF LoginSession, Change
  <2>2. CASE Exists(req[s].tok.name)
    <3>1. Handled(s, "done") /\ At(s, "login", "session") /\ UNCHANGED user
      BY <1>1, <2>2, GoesHandled DEF LoginSession, AccountsInv, Steps, Ended
    <3>2. req[s].tok \in Token
      BY <1>0, <3>1 DEF At, Sound, AnyRequest
    <3>3. PICK y : y = [sid |-> req[s].tok.sid, name |-> req[s].tok.name, ver |-> req[s].tok.ver]
      OBVIOUS
    <3>4. sessions' = sessions \cup {y}
      BY <1>1, <2>2, <3>3 DEF LoginSession
    <3>5. y \in Session /\ y.sid = req[s].tok.sid /\ y.name = req[s].tok.name /\ y.ver = req[s].tok.ver
      BY <3>2, <3>3 DEF Token, Session
    <3>6. /\ raced \subseteq raced'
          /\ "renamed" \in raced' \/ user[y.name].who = req[s].tok.who
          /\ "login" \in raced' \/ user[y.name].ver = y.ver
      BY <1>1, <2>2, <3>5 DEF LoginSession
    <3>7. Joins(s, y)
      BY <2>2, <3>1, <3>4, <3>5, <3>6 DEF Joins
    <3> QED BY <3>5, <3>6, <3>7 DEF Change
  <2> QED BY <2>1, <2>2
<1>2. CASE RevokeDelete(s)
  BY <1>2 DEF RevokeDelete, Change
<1>3. CASE RenameUpdate(s)
  <2> DEFINE m == req[s].name
             n == req[s].to
  <2>1. UNCHANGED raced /\ m \in Names /\ n \in Names
    BY <1>3, RenameIs DEF RenameUpdate
  <2>2. CASE UNCHANGED <<user, sessions>>
    BY <2>1, <2>2 DEF Change
  <2>3. CASE /\ Moves(m, n) /\ Handled(s, "clear")
             /\ sessions' = {IF x.name = m THEN [x EXCEPT !.name = n] ELSE x : x \in sessions}
    <3>1. \A x \in Session : LET y == [x EXCEPT !.name = n] IN
            y.sid = x.sid /\ y.ver = x.ver /\ y.name = n
      BY <2>1 DEF Session
    <3>2. \A y \in sessions' : \E x \in sessions :
            y.sid = x.sid /\ y.ver = x.ver /\ y.name = IF x.name = m THEN n ELSE x.name
      <4> TAKE y \in sessions'
      <4>1. PICK x \in sessions : y = IF x.name = m THEN [x EXCEPT !.name = n] ELSE x
        BY <2>3
      <4>2. y.sid = x.sid /\ y.ver = x.ver /\ y.name = IF x.name = m THEN n ELSE x.name
        BY <1>0, <3>1, <4>1
      <4> QED BY <4>2
    <3>3. req'[s].step = "clear" /\ req'[s].to = n
      BY <2>3 DEF Handled, Same
    <3>4. Renamed(m, n)
      BY <2>3, <3>2, <3>3 DEF Renamed
    <3> QED BY <2>1, <3>4 DEF Change
  <2> QED BY <1>3, <2>2, <2>3, RenameIs
<1>4. CASE ClearSessions(s)
  BY <1>4 DEF ClearSessions, Change
<1>5. CASE PasswordCheck(s)
  BY <1>5 DEF PasswordCheck, Change
<1>6. CASE PasswordUpdate(s)
  <2> DEFINE n == req[s].name
             b == req[s].bundle
  <2>1. /\ n \in Names /\ raced \subseteq raced' /\ sessions' \subseteq sessions
        /\ \A x \in sessions' : x.name # n
        /\ (b = NoBundle /\ user[n].bundle # NoBundle => "unkeyed" \in raced')
    BY <1>6, PasswordIs DEF PasswordUpdate, Races
  <2>2. CASE UNCHANGED user
    BY <2>1, <2>2 DEF Change
  <2>3. ASSUME NEW row, Raises(n, row, req[s].pw),
               row.bundle = IF b = NoBundle THEN user[n].bundle ELSE b
        PROVE  Change
    <3>1. b # NoBundle => b.lock = req[s].pw
      BY <1>0, <1>6 DEF PasswordUpdate, At, Sound
    <3>2. /\ \/ row.bundle = NoBundle \/ row.bundle.lock = row.pw \/ raced' \cap {"unkeyed", "upload"} # {}
             \/ row.bundle = user[n].bundle /\ row.pw = user[n].pw
          /\ \/ row.bundle = user[n].bundle \/ row.bundle = NoBundle
             \/ \E u \in Slots : row.bundle = req[u].bundle
      BY <2>1, <2>3, <3>1 DEF Raises
    <3>3. Rewrites(n, row) /\ row \in Row
      BY <2>1, <2>3, <3>2 DEF Rewrites, Raises, Sets
    <3> QED BY <2>1, <3>3 DEF Change
  <2> QED BY <1>6, <2>2, <2>3, PasswordIs
<1>7. CASE UploadUpdate(s)
  <2> DEFINE n == req[s].name
             b == req[s].bundle
  <2>1. /\ n \in Names /\ raced \subseteq raced' /\ UNCHANGED sessions
        /\ (Exists(n) /\ (user[n].bundle # NoBundle \/ user[n].pw # b.lock) => "upload" \in raced')
    BY <1>7, UploadIs DEF UploadUpdate, Races
  <2>2. CASE UNCHANGED user
    BY <2>1, <2>2 DEF Change
  <2>3. ASSUME NEW row, Patches(n, row, b, user[n].admin)
        PROVE  Change
    <3>1. Rewrites(n, row) /\ row \in Row
      BY <2>1, <2>3 DEF Rewrites, Patches, Sets
    <3> QED BY <2>1, <3>1 DEF Change
  <2> QED BY <1>7, <2>2, <2>3, UploadIs
<1>8. CASE CreateInsert(s)
  <2> DEFINE n == req[s].name
  <2>1. UNCHANGED <<raced, sessions>> /\ n \in Names
    BY <1>8, CreateIs DEF CreateInsert
  <2>2. CASE UNCHANGED user
    BY <2>1, <2>2 DEF Change
  <2>3. ASSUME NEW row, Handled(s, "done"), Adds(n, row), row.who = req[s].to, row.bundle = NoBundle
        PROVE  Change
    <3>1. Promise("create", s, row.who)
      BY <1>8, <2>3 DEF Promise, CreateInsert
    <3>2. ~Promise("create", s, row.who)'
      BY <2>3 DEF Promise, Handled, At
    <3>3. Enrols(n, row) /\ row \in Row
      BY <2>3, <3>1, <3>2 DEF Enrols, Adds
    <3> QED BY <2>1, <3>3 DEF Change
  <2> QED BY <1>8, <2>2, <2>3, CreateIs
<1>9. CASE DeleteUser(s)
  <2>1. req[s].name \in Names
    BY <1>0, <1>9 DEF DeleteUser, At, Sound
  <2>2. Removed(req[s].name) /\ raced \subseteq raced'
    BY <1>9 DEF DeleteUser, Removed, Races
  <2> QED BY <2>1, <2>2 DEF Change
<1>10. CASE RoleUpdate(s)
  <2> DEFINE n == req[s].name
  <2>1. UNCHANGED sessions /\ raced \subseteq raced' /\ n \in Names
    BY <1>10, RoleIs DEF RoleUpdate, Races
  <2>2. CASE UNCHANGED user
    BY <2>1, <2>2 DEF Change
  <2>3. ASSUME NEW row, Patches(n, row, user[n].bundle, req[s].admin)
        PROVE  Change
    <3>1. Rewrites(n, row) /\ row \in Row
      BY <2>1, <2>3 DEF Rewrites, Patches, Sets
    <3> QED BY <2>1, <3>1 DEF Change
  <2> QED BY <1>10, <2>2, <2>3, RoleIs
<1>11. CASE ResetUpdate(s)
  <2> DEFINE n == req[s].name
  <2>1. UNCHANGED <<raced, sessions>> /\ n \in Names
    BY <1>11, ResetIs DEF ResetUpdate
  <2>2. CASE UNCHANGED user
    BY <2>1, <2>2 DEF Change
  <2>3. ASSUME NEW row, Handled(s, "clear"), req[s].to = n, Raises(n, row, req[s].pw), row.bundle = NoBundle
        PROVE  Change
    <3>1. req'[s].step = "clear" /\ req'[s].to = n
      BY <2>3 DEF Handled, Same
    <3>2. Rewrites(n, row) /\ row \in Row
      BY <2>1, <2>3, <3>1 DEF Rewrites, Raises, Sets
    <3> QED BY <2>1, <3>2 DEF Change
  <2> QED BY <1>11, <2>2, <2>3, ResetIs
<1> QED BY <1>1, <1>2, <1>3, <1>4, <1>5, <1>6, <1>7, <1>8, <1>9, <1>10, <1>11 DEF Handles

LEMMA StillChange == UNCHANGED <<user, sessions, raced>> => Change
BY DEF Change

LEMMA OutsideChange ==
  ASSUME Outside
  PROVE  Change
<1>1. ASSUME NEW s \in Slots, NEW n \in Names, NEW row \in Row, Admits(s, n, row)
      PROVE  Enrols(n, row)
  <2>1. Promise("admit", s, row.who)
    BY <1>1 DEF Promise, Admits
  <2>2. ~Promise("admit", s, row.who)'
    BY <1>1 DEF Promise, Admits, JobAt
  <2> QED BY <1>1, <2>1, <2>2 DEF Admits, Enrols
<1> QED BY <1>1 DEF Outside, Change

LEMMA EveryChange ==
  ASSUME OfficeInv, [OfficeNext]_officeVars
  PROVE  Change
<1>1. CASE UNCHANGED officeVars
  BY <1>1, StillChange DEF officeVars, allVars, vars
<1>2. CASE SignInNext
  <2>1. ASSUME NEW s \in Slots, SubmitLogin(s) PROVE Change
    BY <2>1, LoginAsks, StillChange DEF OfficeInv, LoginAsk, Arrives
  <2>2. ASSUME NEW s \in Slots, Requests(s) \/ AdminRequests(s) PROVE Change
    BY <2>2, UserAsks, StillChange DEF OfficeInv, PageAsk, Arrives
  <2>3. ASSUME NEW s \in Slots, Setup(s) \/ Answer(s) \/ AnswerLost(s) PROVE Change
    BY <2>3, StillChange DEF Setup, Answer, AnswerLost
  <2>4. ASSUME NEW d \in Devices, LogOut(d) PROVE Change
    BY <2>4, StillChange DEF LogOut, vars
  <2> QED BY <1>2, <2>1, <2>2, <2>3, <2>4, HandlesChange DEF SignInNext, OfficeInv
<1>3. CASE ApprovalsStep
  BY <1>3, ApprovalsOutside, OutsideChange DEF OfficeInv
<1>4. CASE LibraryStep /\ LeavesDesk
  BY <1>4, LibraryOutside, OutsideChange DEF OfficeInv
<1> QED BY <1>1, <1>2, <1>3, <1>4 DEF OfficeNext

-----------------------------------------------------------------------------
\* Keys and passwords.

LEMMA KeysStep ==
  ASSUME ServerOK, KeysUnlock, Change
  PROVE  KeysUnlock'
<1> SUFFICES ASSUME NEW k \in Names, user'[k].bundle # NoBundle
             PROVE  user'[k].bundle.lock = user'[k].pw \/ raced' \cap {"unkeyed", "upload"} # {}
  BY DEF KeysUnlock
<1>0. raced \subseteq raced' /\ user \in [Names -> Row \cup {Nobody}] /\ Nobody.bundle = NoBundle
  BY DEF ServerOK, Change, Nobody
<1>a. ASSUME NEW m \in Names, user'[k].bundle = user[m].bundle, user'[k].pw = user[m].pw
      PROVE  user'[k].bundle.lock = user'[k].pw \/ raced' \cap {"unkeyed", "upload"} # {}
  BY <1>0, <1>a DEF KeysUnlock
<1>1. CASE user'[k] = user[k]
  BY <1>a, <1>1
<1>2. ASSUME NEW n \in Names, NEW row \in Row, Rewrites(n, row), user'[k] # user[k]
      PROVE  user'[k].bundle.lock = user'[k].pw \/ raced' \cap {"unkeyed", "upload"} # {}
  <2>1. k = n /\ user'[k] = row
    BY <1>0, <1>2 DEF Rewrites, Sets
  <2> QED BY <1>2, <1>a, <2>1 DEF Rewrites
<1>3. ASSUME NEW m \in Names, NEW n \in Names, Renamed(m, n), user'[k] # user[k]
      PROVE  user'[k].bundle.lock = user'[k].pw \/ raced' \cap {"unkeyed", "upload"} # {}
  <2>1. user'[k] = Nobody \/ (user'[k].bundle = user[m].bundle /\ user'[k].pw = user[m].pw)
    BY <1>0, <1>3 DEF Renamed, Moves
  <2> QED BY <1>0, <1>a, <2>1
<1>4. ASSUME NEW n \in Names, NEW row \in Row, Enrols(n, row), user'[k] # user[k]
      PROVE  user'[k].bundle.lock = user'[k].pw \/ raced' \cap {"unkeyed", "upload"} # {}
  <2>1. user'[k] = row
    BY <1>0, <1>4 DEF Enrols, Adds
  <2> QED BY <1>4, <2>1 DEF Enrols
<1>5. ASSUME NEW n \in Names, Removed(n), user'[k] # user[k]
      PROVE  user'[k].bundle.lock = user'[k].pw \/ raced' \cap {"unkeyed", "upload"} # {}
  BY <1>0, <1>5 DEF Removed
<1> QED BY <1>1, <1>2, <1>3, <1>4, <1>5 DEF Change, Joins

\* Module Accounts: whoever knows the password of an account can unwrap its keys, unless
\* the password was changed without them or two uploads crossed.
THEOREM KeysUnlockTheorem == OfficeSpec => []KeysUnlock
<1>1. OfficeInit => OfficeInv /\ KeysUnlock
  <2>1. OfficeInit => KeysUnlock
    <3> SUFFICES ASSUME OfficeInit, NEW n \in Names, user[n].bundle # NoBundle
                 PROVE  user[n].bundle.lock = user[n].pw
      BY DEF KeysUnlock
    <3>1. user[n] \in Rows(n) /\ user[n].bundle.lock \in {None, user[n].pw}
      BY DEF OfficeInit, SignInInit
    <3>2. user[n].bundle.lock \in Passwords
      BY <3>1 DEF Rows, Nobody
    <3> QED BY <3>1, <3>2, Constants
  <2> QED BY <2>1, InitTypes
<1>2. (OfficeInv /\ KeysUnlock) /\ [OfficeNext]_officeVars => (OfficeInv /\ KeysUnlock)'
  BY StepTypes, EveryChange, KeysStep DEF OfficeInv, AccountsInv
<1> QED BY <1>1, <1>2, PTL DEF OfficeSpec
-----------------------------------------------------------------------------
\* What a step does to the requests and the tokens.

LEMMA HandlesHandled ==
  ASSUME AccountsInv, NEW s \in Slots, Handles(s)
  PROVE  /\ \E step \in Steps : Handled(s, step) /\ (step = "update" => req[s].op = "password") /\ step \notin {"delete", "session"}
         /\ req[s].step = "clear" => \A x \in sessions' : x.name # req[s].to
         /\ UNCHANGED asked /\ req[s].step \notin Ended
         /\ req[s].op = "login" => req[s].step = "session"
         /\ req[s].op = "upload" => UploadUpdate(s)
<1>0. Sound(req[s]) /\ ServerOK
  BY DEF AccountsInv
<1>1. CASE LoginSession(s)
  BY <1>0, <1>1, GoesHandled DEF LoginSession, At, Steps, Ended
<1>2. CASE RevokeDelete(s)
  BY <1>0, <1>2, GoesHandled DEF RevokeDelete, At, Steps, Ended
<1>3. CASE RenameUpdate(s)
  BY <1>0, <1>3, GoesHandled DEF RenameUpdate, At, Steps, Ended
<1>4. CASE ClearSessions(s)
  BY <1>0, <1>4, GoesHandled DEF ClearSessions, At, Steps, Ended
<1>5. CASE PasswordCheck(s)
  BY <1>0, <1>5, GoesHandled DEF PasswordCheck, At, Steps, Ended
<1>6. CASE PasswordUpdate(s)
  BY <1>0, <1>6, GoesHandled DEF PasswordUpdate, At, Steps, Ended
<1>7. CASE UploadUpdate(s)
  BY <1>0, <1>7, GoesHandled DEF UploadUpdate, At, Steps, Ended
<1>8. CASE CreateInsert(s)
  BY <1>0, <1>8, GoesHandled DEF CreateInsert, At, Steps, Ended
<1>9. CASE DeleteUser(s)
  BY <1>0, <1>9, GoesHandled DEF DeleteUser, At, Steps, Ended
<1>10. CASE RoleUpdate(s)
  BY <1>0, <1>10, GoesHandled DEF RoleUpdate, At, Steps, Ended
<1>11. CASE ResetUpdate(s)
  BY <1>0, <1>11, GoesHandled DEF ResetUpdate, At, Steps, Ended
<1> QED BY <1>1, <1>2, <1>3, <1>4, <1>5, <1>6, <1>7, <1>8, <1>9, <1>10, <1>11 DEF Handles

\* No request is touched, but a device may lose its session.
Quiet ==
  /\ UNCHANGED req
  /\ UNCHANGED asked \/ (asked < MaxRequests /\ asked' = asked + 1)
  /\ UNCHANGED token \/ \E d \in Devices : token' = [token EXCEPT ![d] = NoToken]

Works(s) == Handles(s) /\ UNCHANGED pageVars

\* An answer that ends the session of the page.
SignsOff(r) ==
  r.op # "login" /\ (r.step = "401" \/ (r.op \in {"rename", "password"} /\ r.step = "done"))

\* The token of the device stays, is dropped, or, at the end of a login, becomes the new one.
Replies(s) ==
  /\ req[s].step \in Ended /\ Frees(s) /\ UNCHANGED raced
  /\ \/ UNCHANGED token
     \/ SignsOff(req[s]) /\ token' = [token EXCEPT ![Device[s]] = NoToken]
     \/ At(s, "login", "done") /\ token' = [token EXCEPT ![Device[s]] = req[s].tok]

StartsSetup(s) ==
  /\ At(s, "login", "done") /\ req[s].bundle = NoBundle /\ Handled(s, "setup")
  /\ token' = [token EXCEPT ![Device[s]] = req[s].tok]
  /\ UNCHANGED <<user, sessions, asked, raced>>

Traffic ==
  \/ Quiet
  \/ \E s \in Slots, q \in AnyRequest : (PageAsk(s, q) \/ LoginAsk(s, q)) /\ UNCHANGED pageVars
  \/ \E s \in Slots, q \in AnyRequest : SetsUp(s, q)
  \/ \E s \in Slots : Works(s) \/ Replies(s) \/ StartsSetup(s)

LEMMA AnswerTraffic ==
  ASSUME AccountsInv, NEW s \in Slots, Answer(s) \/ AnswerLost(s)
  PROVE  Replies(s) \/ StartsSetup(s)
<1>1. CASE AnswerLost(s)
  BY <1>1 DEF AnswerLost, Replies, Frees
<1>2. CASE Answer(s) /\ At(s, "login", "done")
  <2>1. /\ token' = [token EXCEPT ![Device[s]] = req[s].tok] /\ LoggedIn(s)
        /\ req[s].step \in Ended /\ UNCHANGED <<user, sessions, asked, raced>>
    BY <1>2 DEF Answer, LoggedIn
  <2>2. CASE req[s].bundle = NoBundle
    <3>1. Handled(s, "setup")
      BY <2>1, <2>2, GoesHandled DEF LoggedIn, AccountsInv, Steps
    <3> QED BY <1>2, <2>1, <2>2, <3>1 DEF StartsSetup
  <2>3. CASE req[s].bundle # NoBundle
    BY <1>2, <2>1, <2>3 DEF LoggedIn, Replies, Frees
  <2> QED BY <2>2, <2>3
<1>3. CASE Answer(s) /\ ~At(s, "login", "done")
  <2>1. /\ req[s].step \in Ended /\ Frees(s) /\ UNCHANGED raced /\ Answered(s)
    BY <1>3 DEF Answer, Frees
  <2>2. UNCHANGED token \/ (SignsOff(req[s]) /\ token' = [token EXCEPT ![Device[s]] = NoToken])
    BY <2>1 DEF Answered, SignsOut, SignsOff, Enters, EntersWithoutKeys, Expires, LogsOut
  <2> QED BY <2>1, <2>2 DEF Replies
<1> QED BY <1>1, <1>2, <1>3

LEMMA EveryTraffic ==
  ASSUME OfficeInv, [OfficeNext]_officeVars
  PROVE  Traffic
<1>1. CASE UNCHANGED officeVars
  BY <1>1 DEF officeVars, allVars, vars, pageVars, Traffic, Quiet
<1>2. CASE SignInNext
  <2>1. ASSUME NEW s \in Slots, SubmitLogin(s) PROVE Traffic
    BY <2>1, LoginAsks DEF OfficeInv, LoginAsk, Arrives, SubmitLogin, Traffic
  <2>2. ASSUME NEW s \in Slots, Requests(s) \/ AdminRequests(s) PROVE Traffic
    BY <2>2, UserAsks DEF OfficeInv, PageAsk, Arrives, Requests, AdminRequests, Traffic
  <2>3. ASSUME NEW s \in Slots, Setup(s) PROVE Traffic
    BY <2>3, SetupSetsUp DEF OfficeInv, SetsUp, Traffic
  <2>4. ASSUME NEW s \in Slots, Answer(s) \/ AnswerLost(s) PROVE Traffic
    BY <2>4, AnswerTraffic DEF OfficeInv, Traffic
  <2>5. ASSUME NEW d \in Devices, LogOut(d) PROVE Traffic
    BY <2>5 DEF LogOut, LogsOut, vars, Traffic, Quiet
  <2>6. ASSUME NEW s \in Slots, Handles(s), UNCHANGED pageVars PROVE Traffic
    BY <2>6 DEF Works, Traffic
  <2> QED BY <1>2, <2>1, <2>2, <2>3, <2>4, <2>5, <2>6 DEF SignInNext
<1>3. ASSUME Outside PROVE Traffic
  BY <1>3 DEF Outside, Expires, Traffic, Quiet
<1>4. CASE ApprovalsStep
  BY <1>3, <1>4, ApprovalsOutside DEF OfficeInv
<1>5. CASE LibraryStep /\ LeavesDesk
  BY <1>3, <1>5, LibraryOutside DEF OfficeInv
<1> QED BY <1>1, <1>2, <1>4, <1>5 DEF OfficeNext

-----------------------------------------------------------------------------
\* Sessions and versions.

LEMMA ClearsStay ==
  ASSUME OfficeInv, Traffic, NEW s \in Slots, req[s].step = "clear"
  PROVE  \/ req'[s].step = "clear" /\ req'[s].to = req[s].to
         \/ \A x \in sessions' : x.name # req[s].to
<1>0. ServerOK /\ Idle.step # "clear" /\ "clear" \notin Ended
  BY DEF OfficeInv, AccountsInv, Idle, Ended
<1>1. CASE Quiet
  BY <1>1 DEF Quiet
<1>2. ASSUME NEW u \in Slots, NEW q, Arrives(u, q)
      PROVE  req'[s].step = "clear" /\ req'[s].to = req[s].to
  BY <1>0, <1>2 DEF Arrives, ServerOK
<1>3. ASSUME NEW u \in Slots, NEW q, SetsUp(u, q)
      PROVE  req'[s].step = "clear" /\ req'[s].to = req[s].to
  BY <1>0, <1>3 DEF SetsUp, At, ServerOK
<1>4. ASSUME NEW u \in Slots, Works(u)
      PROVE  \/ req'[s].step = "clear" /\ req'[s].to = req[s].to
             \/ \A x \in sessions' : x.name # req[s].to
  BY <1>4, HandlesHandled DEF Works, OfficeInv, Handled
<1>5. ASSUME NEW u \in Slots, Replies(u) \/ StartsSetup(u)
      PROVE  req'[s].step = "clear" /\ req'[s].to = req[s].to
  <2>1. u # s
    BY <1>0, <1>5 DEF Replies, StartsSetup, At
  <2> QED BY <1>0, <1>5, <2>1 DEF Replies, StartsSetup, Frees, Handled, ServerOK
<1> QED BY <1>1, <1>2, <1>3, <1>4, <1>5 DEF Traffic, PageAsk, LoginAsk

LEMMA SessionsStep ==
  ASSUME OfficeInv, SessionsAreLive, Change, Traffic
  PROVE  SessionsAreLive'
<1>0. /\ raced \subseteq raced' /\ user \in [Names -> Row \cup {Nobody}]
      /\ \A x \in sessions : x.name \in Names /\ user[x.name] # Nobody
  BY DEF OfficeInv, AccountsInv, ServerOK, SessionsOK, Exists, Session, Change
<1> SUFFICES ASSUME NEW y \in sessions', ~("login" \in raced'),
                    ~\E s \in Slots : req'[s].step = "clear" /\ req'[s].to = y.name
             PROVE  y.ver = user'[y.name].ver
  BY DEF SessionsAreLive
<1>1. ASSUME y \in sessions PROVE y.ver = user[y.name].ver
  <2>1. SUFFICES ASSUME NEW s \in Slots, req[s].step = "clear", req[s].to = y.name
                 PROVE  FALSE
    BY <1>0, <1>1 DEF SessionsAreLive
  <2> QED BY <2>1, ClearsStay
<1>2. CASE UNCHANGED user /\ sessions' \subseteq sessions
  BY <1>1, <1>2
<1>3. ASSUME NEW s \in Slots, NEW x, Joins(s, x) PROVE y.ver = user'[y.name].ver
  BY <1>1, <1>3 DEF Joins
<1>4. ASSUME NEW n \in Names, NEW row \in Row, Rewrites(n, row), sessions' \subseteq sessions
      PROVE  y.ver = user'[y.name].ver
  BY <1>0, <1>1, <1>4 DEF Rewrites, Sets
<1>5. ASSUME NEW m \in Names, NEW n \in Names, Renamed(m, n) PROVE y.ver = user'[y.name].ver
  <2>1. PICK x \in sessions : y.sid = x.sid /\ y.ver = x.ver /\ y.name = IF x.name = m THEN n ELSE x.name
    BY <1>5 DEF Renamed
  <2>2. y.name # n
    BY <1>5 DEF Renamed
  <2>3. x.name = y.name /\ x.name # m /\ x.name # n
    BY <2>1, <2>2
  <2>4. user'[x.name] = user[x.name]
    BY <1>0, <1>5, <2>3 DEF Renamed, Moves
  <2>5. x.ver = user[x.name].ver
    <3>1. SUFFICES ASSUME NEW s \in Slots, req[s].step = "clear", req[s].to = y.name
                   PROVE  FALSE
      BY <1>0, <2>3 DEF SessionsAreLive
    <3> QED BY <3>1, ClearsStay
  <2> QED BY <2>1, <2>3, <2>4, <2>5
<1>6. ASSUME NEW n \in Names, NEW row \in Row, Enrols(n, row), UNCHANGED sessions
      PROVE  y.ver = user'[y.name].ver
  BY <1>0, <1>1, <1>6 DEF Enrols, Adds, Exists
<1>7. ASSUME NEW n \in Names, Removed(n) PROVE y.ver = user'[y.name].ver
  BY <1>0, <1>1, <1>7 DEF Removed
<1> QED BY <1>2, <1>3, <1>4, <1>5, <1>6, <1>7 DEF Change

\* Module Accounts: a session that is listed has a token that works, unless its login was
\* overtaken by a change of the account, or the rows are being cleared.
THEOREM SessionsAreLiveTheorem == OfficeSpec => []SessionsAreLive
<1>1. OfficeInit => OfficeInv /\ SessionsAreLive
  <2>1. OfficeInit => SessionsAreLive
    <3> SUFFICES ASSUME OfficeInit, NEW x \in sessions PROVE x.ver = user[x.name].ver
      BY DEF SessionsAreLive
    <3>1. PICK d \in home : x = [sid |-> d, name |-> token[d].name, ver |-> 0]
      BY DEF OfficeInit, SignInInit
    <3>2. x.name \in Names /\ x.ver = 0
      BY <3>1, InitTypes DEF OfficeInv, AccountsInv, ServerOK, Session
    <3>3. user[x.name] \in Rows(x.name)
      BY <3>2 DEF OfficeInit, SignInInit
    <3>4. \A n \in Names : \A r \in Rows(n) : r.ver = 0
      BY DEF Rows, Nobody
    <3> QED BY <3>2, <3>3, <3>4
  <2> QED BY <2>1, InitTypes
<1>2. (OfficeInv /\ SessionsAreLive) /\ [OfficeNext]_officeVars => (OfficeInv /\ SessionsAreLive)'
  BY StepTypes, EveryChange, EveryTraffic, SessionsStep
<1> QED BY <1>1, <1>2, PTL DEF OfficeSpec
-----------------------------------------------------------------------------
\* Ids of accounts.

\* A token that a device holds or that goes with a request.
Held(t) ==
  t # NoToken /\ ((\E d \in Devices : token[d] = t) \/ (\E s \in Slots : req[s].tok = t))

\* An account has this id, or a token was issued for one that had it.
WhoUsed(w) ==
  (\E n \in Names : Exists(n) /\ user[n].who = w) \/ (\E t \in Token : Held(t) /\ t.who = w)

Distinct == \A m, n \in Names : Exists(m) /\ Exists(n) /\ user[m].who = user[n].who => m = n

Kinds == {"create", "admit"}

PromisesOK ==
  \A kind \in Kinds, s \in Slots, w \in Numbers : Promise(kind, s, w) =>
    /\ w # None /\ w <= asked /\ ~WhoUsed(w)
    /\ \A other \in Kinds, u \in Slots : Promise(other, u, w) => other = kind /\ u = s

IdsOK ==
  /\ Distinct
  /\ \A n \in Names : Exists(n) => user[n].who # None
  /\ \A w \in Numbers : WhoUsed(w) => w <= asked
  /\ PromisesOK

\* A login gets its token.
IssuedTo(s) ==
  /\ UNCHANGED <<token, home, identity, skipped, user, sessions, raced>>
  /\ asked' = asked + 1 /\ asked' \in Numbers
  /\ \A u \in Slots \ {s} : req'[u] = req[u]
  /\ req[s] = Idle /\ req'[s].op = "login" /\ req'[s].step = "session"
  /\ req'[s].tok # NoToken /\ req'[s].tok.sid = asked + 1
  /\ \E n \in Names : LET t == req'[s].tok IN
       /\ Exists(n) /\ req'[s].name = n /\ req'[s].bundle = user[n].bundle
       /\ t.name = n /\ t.ver = user[n].ver /\ t.who = user[n].who /\ t.pw = user[n].pw

LEMMA HeldIs ==
  ASSUME ServerOK, NEW t, Held(t)
  PROVE  t \in Token
BY DEF ServerOK, Held, AnyRequest

\* Where the token of a request and that of a device come from.
LEMMA RequestToken ==
  ASSUME OfficeInv, Traffic, NEW u \in Slots
  PROVE  \/ req'[u].tok \in {req[u].tok, NoToken}
         \/ \E d \in Devices : req'[u].tok = token[d]
         \/ IssuedTo(u)
<1>0. ServerOK /\ Idle.tok = NoToken /\ Device \in [Slots -> Devices]
  BY Constants DEF OfficeInv, AccountsInv, Idle
<1>1. CASE Quiet
  BY <1>1 DEF Quiet
<1>2. ASSUME NEW s \in Slots, NEW q, PageAsk(s, q)
      PROVE  req'[u].tok = req[u].tok \/ req'[u].tok = token[Device[s]]
  BY <1>0, <1>2 DEF PageAsk, Arrives, ServerOK
<1>3. ASSUME NEW s \in Slots, NEW q, LoginAsk(s, q), UNCHANGED pageVars
      PROVE  req'[u].tok \in {req[u].tok, NoToken} \/ IssuedTo(u)
  <2>1. req'[s] = q /\ \A v \in Slots \ {s} : req'[v] = req[v]
    BY <1>0, <1>3 DEF LoginAsk, Arrives, ServerOK
  <2>2. CASE q.step = "session"
    <3>1. IssuedTo(s)
      BY <1>3, <2>1, <2>2 DEF LoginAsk, Arrives, IssuedTo, pageVars
    <3> QED BY <2>1, <3>1
  <2>3. CASE q.step = "401"
    BY <1>3, <2>1, <2>3 DEF LoginAsk
  <2> QED BY <1>3, <2>2, <2>3 DEF LoginAsk
<1>4. ASSUME NEW s \in Slots, NEW q, SetsUp(s, q)
      PROVE  req'[u].tok = req[u].tok \/ req'[u].tok = token[Device[s]]
  BY <1>0, <1>4 DEF SetsUp, ServerOK
<1>5. ASSUME NEW s \in Slots, Works(s)
      PROVE  req'[u].tok = req[u].tok
  BY <1>5, HandlesHandled DEF Works, OfficeInv, Handled, Same
<1>6. ASSUME NEW s \in Slots, Replies(s) \/ StartsSetup(s)
      PROVE  req'[u].tok \in {req[u].tok, NoToken}
  BY <1>0, <1>6 DEF Replies, Frees, StartsSetup, Handled, Same, ServerOK
<1> QED BY <1>0, <1>1, <1>2, <1>3, <1>4, <1>5, <1>6 DEF Traffic

LEMMA DeviceToken ==
  ASSUME OfficeInv, Traffic, NEW d \in Devices
  PROVE  \/ token'[d] \in {token[d], NoToken}
         \/ \E s \in Slots : At(s, "login", "done") /\ token'[d] = req[s].tok
BY Constants DEF Traffic, Quiet, SetsUp, Works, Replies, StartsSetup, pageVars, OfficeInv, AccountsInv, ServerOK

LEMMA TokensFrom ==
  ASSUME OfficeInv, Traffic, NEW t, Held(t)'
  PROVE  Held(t) \/ \E s \in Slots : IssuedTo(s) /\ t = req'[s].tok
<1>1. ASSUME NEW d \in Devices, token'[d] = t
      PROVE  Held(t)
  BY <1>1, DeviceToken DEF Held
<1>2. ASSUME NEW s \in Slots, req'[s].tok = t, ~IssuedTo(s)
      PROVE  Held(t)
  BY <1>2, RequestToken DEF Held
<1> QED BY <1>1, <1>2 DEF Held

LEMMA JobTraffic ==
  ASSUME OfficeInv, [OfficeNext]_officeVars
  PROVE  \/ \A s \in Slots : Stays(s)
         \/ UNCHANGED req /\ \E s \in Slots : \E j : DeskAsk(s, j)
         \/ UNCHANGED req /\ \E s \in Slots : Others(s) /\ (job'[s].op = "admit" => job'[s].step # "update")
<1>1. CASE UNCHANGED officeVars
  BY <1>1 DEF officeVars, OfficeInv, JobsInv, Stays
<1>2. CASE job' = [s \in Slots |-> Left(s)]
  BY <1>2, LeftStays DEF OfficeInv
<1>3. CASE ApprovalsStep
  <2>1. UNCHANGED req
    BY <1>3, ApprovalsOutside DEF Outside, OfficeInv
  <2>2. ASSUME NEW s \in Slots, DeskAsks(s) PROVE \E j : DeskAsk(s, j)
    BY <2>2, DeskAsksIs DEF OfficeInv
  <2>3. ASSUME NEW s \in Slots, DeskHandles(s)
        PROVE  Others(s) /\ (job'[s].op = "admit" => job'[s].step # "update")
    BY <2>3, DeskHandlesIs DEF OfficeInv, Proceeds
  <2>4. ASSUME NEW s \in Slots, DeskAnswer(s)
        PROVE  Others(s) /\ (job'[s].op = "admit" => job'[s].step # "update")
    BY <2>4, DeskAnswerIs DEF OfficeInv
  <2> QED BY <1>3, <2>1, <2>2, <2>3, <2>4 DEF ApprovalsStep
<1>4. CASE LibraryStep
  BY <1>4, LibraryStays DEF OfficeInv
<1> QED BY <1>1, <1>2, <1>3, <1>4 DEF OfficeNext

\* One id at most is promised in a step, a new one.
Grows(k, u) ==
  /\ asked' = asked + 1
  /\ \A kind \in Kinds, s \in Slots : \A w : Promise(kind, s, w)' =>
       Promise(kind, s, w) \/ (kind = k /\ s = u /\ w = asked + 1)

NoMore == \A kind \in Kinds, s \in Slots : \A w : Promise(kind, s, w)' => Promise(kind, s, w)

LEMMA PromisesFrom ==
  ASSUME OfficeInv, [OfficeNext]_officeVars, Traffic
  PROVE  NoMore \/ \E k \in Kinds, u \in Slots : Grows(k, u)
<1>0. ServerOK /\ Idle.op # "create"
  BY DEF OfficeInv, AccountsInv, Idle
<1>1. ASSUME NEW s \in Slots, Stays(s), NEW w, Promise("admit", s, w)'
      PROVE  Promise("admit", s, w)
  BY <1>1 DEF Promise, JobAt, Stays, DeskOps
<1>2. CASE UNCHANGED req
  <2>1. \A s \in Slots : \A w : Promise("create", s, w)' => Promise("create", s, w)
    BY <1>2 DEF Promise, At
  <2>2. CASE \A s \in Slots : Stays(s)
    BY <1>1, <2>1, <2>2 DEF NoMore, Kinds
  <2>3. ASSUME NEW u \in Slots, NEW j, DeskAsk(u, j)
        PROVE  NoMore \/ Grows("admit", u)
    <3>1. job'[u] = j /\ Others(u)
      BY <2>3, SendsStays DEF DeskAsk, OfficeInv
    <3>2. \A s \in Slots \ {u} : \A w : Promise("admit", s, w)' => Promise("admit", s, w)
      BY <1>1, <3>1 DEF Others
    <3>3. CASE j.op # "admit"
      <4>1. \A w : ~Promise("admit", u, w)'
        BY <3>1, <3>3 DEF Promise, JobAt
      <4> QED BY <2>1, <3>2, <4>1 DEF NoMore, Kinds
    <3>4. CASE j.op = "admit"
      <4>1. asked' = asked + 1 /\ \A w : Promise("admit", u, w)' => w = asked + 1
        BY <2>3, <3>1, <3>4 DEF Promise, DeskAsk
      <4> QED BY <2>1, <3>2, <4>1 DEF Grows, Kinds
    <3> QED BY <3>3, <3>4
  <2>4. ASSUME NEW u \in Slots, Others(u), job'[u].op = "admit" => job'[u].step # "update"
        PROVE  NoMore
    <3>1. \A s \in Slots \ {u} : \A w : Promise("admit", s, w)' => Promise("admit", s, w)
      BY <1>1, <2>4 DEF Others
    <3>2. \A w : ~Promise("admit", u, w)'
      BY <2>4 DEF Promise, JobAt
    <3> QED BY <2>1, <3>1, <3>2 DEF NoMore, Kinds
  <2> QED BY <2>2, <2>3, <2>4, JobTraffic DEF Kinds
<1>3. CASE req' # req
  <2>1. \A s \in Slots : \A w : Promise("admit", s, w)' => Promise("admit", s, w)
    BY <1>1, <1>3, JobTraffic
  <2>2. ASSUME NEW u \in Slots, NEW q, PageAsk(u, q)
        PROVE  Grows("create", u)
    <3>1. req'[u] = q /\ \A s \in Slots \ {u} : req'[s] = req[s]
      BY <1>0, <2>2 DEF PageAsk, Arrives, ServerOK
    <3>2. asked' = asked + 1 /\ (q.op = "create" => q.to = asked + 1)
      BY <2>2 DEF PageAsk, Arrives
    <3> QED BY <2>1, <3>1, <3>2 DEF Grows, Kinds, Promise, At
  <2>3. ASSUME NEW u \in Slots, \A s \in Slots \ {u} : req'[s] = req[s],
               ~(req'[u].op = "create" /\ req'[u].step = "update")
        PROVE  NoMore
    <3>1. \A s \in Slots : \A w : Promise("create", s, w)' => Promise("create", s, w)
      BY <2>3 DEF Promise, At
    <3> QED BY <2>1, <3>1 DEF NoMore, Kinds
  <2>4. ASSUME NEW u \in Slots, NEW q, LoginAsk(u, q) \/ SetsUp(u, q)
        PROVE  NoMore
    BY <1>0, <2>3, <2>4 DEF LoginAsk, Arrives, SetsUp, ServerOK
  <2>5. ASSUME NEW u \in Slots, Works(u)
        PROVE  NoMore
    BY <2>3, <2>5, HandlesHandled DEF Works, OfficeInv, Handled, Same
  <2>6. ASSUME NEW u \in Slots, Replies(u) \/ StartsSetup(u)
        PROVE  NoMore
    BY <1>0, <2>3, <2>6 DEF Replies, Frees, StartsSetup, Handled, ServerOK
  <2> QED BY <1>3, <2>2, <2>4, <2>5, <2>6 DEF Traffic, Quiet, Kinds
<1> QED BY <1>2, <1>3
-----------------------------------------------------------------------------
\* They stay apart.

\* Where the id of an account comes from.
LEMMA WhoFrom ==
  ASSUME OfficeInv, Change, NEW k \in Names, Exists(k)'
  PROVE  \/ Exists(k) /\ user'[k].who = user[k].who
         \/ \E m \in Names, n \in Names : Renamed(m, n) /\ k = n /\ Exists(m) /\ user'[k].who = user[m].who
         \/ \E n \in Names, row \in Row : Enrols(n, row) /\ k = n /\ user'[k].who = row.who
<1>0. user \in [Names -> Row \cup {Nobody}]
  BY DEF OfficeInv, AccountsInv, ServerOK
<1>1. CASE user'[k] = user[k]
  BY <1>1 DEF Exists
<1>2. ASSUME NEW n \in Names, NEW row \in Row, Rewrites(n, row), user'[k] # user[k]
      PROVE  Exists(k) /\ user'[k].who = user[k].who
  BY <1>0, <1>2 DEF Rewrites, Sets
<1>3. ASSUME NEW m \in Names, NEW n \in Names, Renamed(m, n), user'[k] # user[k]
      PROVE  k = n /\ Exists(m) /\ user'[k].who = user[m].who
  BY <1>0, <1>3 DEF Renamed, Moves, Exists
<1>4. ASSUME NEW n \in Names, NEW row \in Row, Enrols(n, row), user'[k] # user[k]
      PROVE  k = n /\ user'[k].who = row.who
  BY <1>0, <1>4 DEF Enrols, Adds
<1>5. ASSUME NEW n \in Names, Removed(n)
      PROVE  user'[k] = user[k]
  BY <1>0, <1>5 DEF Removed, Exists
<1> QED BY <1>1, <1>2, <1>3, <1>4, <1>5 DEF Change, Joins

LEMMA MovedAway ==
  ASSUME OfficeInv, NEW m \in Names, NEW n \in Names, Renamed(m, n)
  PROVE  user'[m] = Nobody /\ ~Exists(n) /\ Exists(m) /\ m # n /\ user'[n].who = user[m].who
         /\ user'[n].ver = user[m].ver + 1 /\ user'[n] # Nobody
         /\ \A k \in Names \ {m, n} : user'[k] = user[k]
BY Constants2 DEF OfficeInv, AccountsInv, ServerOK, Renamed, Moves, Exists

LEMMA Enrolled ==
  ASSUME OfficeInv, NEW n \in Names, NEW row \in Row, Enrols(n, row)
  PROVE  user'[n] = row /\ ~Exists(n) /\ row # Nobody /\ user' # user
         /\ \A k \in Names \ {n} : user'[k] = user[k]
BY Constants2 DEF OfficeInv, AccountsInv, ServerOK, Enrols, Adds, Exists

LEMMA PromiseNumber ==
  ASSUME OfficeInv, NEW kind \in Kinds, NEW s \in Slots, NEW w, Promise(kind, s, w)
  PROVE  w \in Numbers
<1>1. CASE kind = "create"
  BY <1>1 DEF Promise, At, OfficeInv, AccountsInv, Sound
<1>2. CASE kind = "admit"
  BY <1>2 DEF Promise, JobAt, OfficeInv, JobsInv
<1> QED BY <1>1, <1>2 DEF Kinds

\* The id of a new account was promised and not used.
LEMMA EnrolledId ==
  ASSUME OfficeInv, IdsOK, NEW n \in Names, NEW row \in Row, Enrols(n, row)
  PROVE  row.who \in Numbers /\ row.who # None /\ row.who <= asked /\ ~WhoUsed(row.who)
BY PromiseNumber DEF Enrols, IdsOK, PromisesOK, Kinds

LEMMA UsedFrom ==
  ASSUME OfficeInv, Traffic, Change, NEW w, WhoUsed(w)'
  PROVE  \/ WhoUsed(w)
         \/ \E n \in Names, row \in Row : Enrols(n, row) /\ w = row.who
<1>1. ASSUME NEW n \in Names, Exists(n)', user'[n].who = w
      PROVE  \/ WhoUsed(w)
             \/ \E m \in Names, row \in Row : Enrols(m, row) /\ w = row.who
  BY <1>1, WhoFrom DEF WhoUsed
<1>2. ASSUME NEW t, Held(t)', t.who = w
      PROVE  WhoUsed(w)
  <2>1. CASE Held(t)
    <3>1. t \in Token
      BY <2>1, HeldIs DEF OfficeInv, AccountsInv
    <3> QED BY <1>2, <2>1, <3>1 DEF WhoUsed
  <2>2. ASSUME NEW s \in Slots, IssuedTo(s), t = req'[s].tok
        PROVE  WhoUsed(w)
    BY <1>2, <2>2 DEF IssuedTo, WhoUsed
  <2> QED BY <1>2, <2>1, <2>2, TokensFrom
<1>3. \/ \E n \in Names : Exists(n)' /\ user'[n].who = w
      \/ \E t : Held(t)' /\ t.who = w
  BY DEF WhoUsed
<1> QED BY <1>1, <1>2, <1>3

LEMMA AskedGrows ==
  ASSUME OfficeInv, Traffic
  PROVE  asked \in Nat /\ asked' \in Nat /\ asked <= asked'
<1>1. asked \in Nat
  BY Constants DEF OfficeInv, AccountsInv, ServerOK
<1>2. asked' = asked \/ asked' = asked + 1
  BY HandlesHandled DEF Traffic, Quiet, PageAsk, LoginAsk, Arrives, SetsUp, Works, Replies, Frees, StartsSetup,
                        OfficeInv
<1> QED BY <1>1, <1>2

LEMMA IdsStep ==
  ASSUME OfficeInv, OfficeInv', IdsOK, [OfficeNext]_officeVars, Change, Traffic
  PROVE  IdsOK'
<1>0. asked \in Nat /\ asked' \in Nat /\ asked <= asked' /\ Numbers \subseteq Nat
  BY AskedGrows, Constants
<1>1. Distinct'
  <2> SUFFICES ASSUME NEW j \in Names, NEW k \in Names, Exists(j)', Exists(k)', user'[j].who = user'[k].who
               PROVE  j = k
    BY DEF Distinct
  <2>0. Distinct
    BY DEF IdsOK
  <2>1. ASSUME NEW m \in Names, NEW n \in Names, Renamed(m, n)
        PROVE  j = k
    <3>1. j # m /\ k # m
      BY <2>1, MovedAway DEF Exists
    <3>2. PICK a \in Names : a = (IF j = n THEN m ELSE j) /\ Exists(a) /\ user[a].who = user'[j].who
      BY <2>1, <3>1, MovedAway DEF Exists
    <3>3. PICK b \in Names : b = (IF k = n THEN m ELSE k) /\ Exists(b) /\ user[b].who = user'[k].who
      BY <2>1, <3>1, MovedAway DEF Exists
    <3>4. a = b
      BY <2>0, <3>2, <3>3 DEF Distinct
    <3> QED BY <3>1, <3>2, <3>3, <3>4
  <2>2. ASSUME NEW n \in Names, NEW row \in Row, Enrols(n, row)
        PROVE  j = k
    <3>1. ~WhoUsed(row.who)
      BY <2>2, EnrolledId
    <3>2. ~\E l \in Names : Exists(l) /\ user[l].who = row.who
      BY <3>1 DEF WhoUsed
    <3> QED BY <2>0, <2>2, <3>2, Enrolled DEF Distinct, Exists
  <2>3. CASE /\ Exists(j) /\ user'[j].who = user[j].who
             /\ Exists(k) /\ user'[k].who = user[k].who
    BY <2>0, <2>3 DEF Distinct
  <2> QED BY <2>1, <2>2, <2>3, WhoFrom
<1>2. ASSUME NEW n \in Names, Exists(n)'
      PROVE  user'[n].who # None
  BY <1>2, WhoFrom, EnrolledId DEF IdsOK
<1>3. ASSUME NEW w \in Numbers, WhoUsed(w)'
      PROVE  w <= asked'
  <2>1. w <= asked
    BY <1>3, UsedFrom, EnrolledId DEF IdsOK
  <2> QED BY <1>0, <2>1
<1>4. ASSUME NEW kind \in Kinds, NEW s \in Slots, NEW w \in Numbers, Promise(kind, s, w), Promise(kind, s, w)'
      PROVE  /\ w # None /\ w <= asked /\ ~WhoUsed(w)'
  <2>1. /\ w # None /\ w <= asked /\ ~WhoUsed(w)
        /\ \A other \in Kinds, u \in Slots : Promise(other, u, w) => other = kind /\ u = s
    BY <1>4 DEF IdsOK, PromisesOK
  <2>2. ASSUME NEW n \in Names, NEW row \in Row, Enrols(n, row), w = row.who
        PROVE  FALSE
    <3>1. PICK other \in Kinds, u \in Slots : Promise(other, u, w) /\ ~Promise(other, u, w)'
      BY <2>2 DEF Enrols, Kinds
    <3>2. other = kind /\ u = s
      BY <2>1, <3>1
    <3> QED BY <1>4, <3>1, <3>2
  <2> QED BY <2>1, <2>2, UsedFrom
<1>5. CASE NoMore
  <2> SUFFICES ASSUME NEW kind \in Kinds, NEW s \in Slots, NEW w \in Numbers, Promise(kind, s, w)'
               PROVE  /\ w # None /\ w <= asked' /\ ~WhoUsed(w)'
                      /\ \A other \in Kinds, u \in Slots : Promise(other, u, w)' => other = kind /\ u = s
    BY <1>1, <1>2, <1>3 DEF IdsOK, PromisesOK
  <2>1. Promise(kind, s, w)
    BY <1>5 DEF NoMore
  <2>2. w # None /\ w <= asked /\ ~WhoUsed(w)'
    BY <1>4, <2>1
  <2>3. ASSUME NEW other \in Kinds, NEW u \in Slots, Promise(other, u, w)'
        PROVE  other = kind /\ u = s
    <3>1. Promise(other, u, w)
      BY <1>5, <2>3 DEF NoMore
    <3> QED BY <2>1, <3>1 DEF IdsOK, PromisesOK
  <2> QED BY <1>0, <2>2, <2>3
<1>6. ASSUME NEW k0 \in Kinds, NEW u0 \in Slots, Grows(k0, u0)
      PROVE  IdsOK'
  <2> SUFFICES ASSUME NEW kind \in Kinds, NEW s \in Slots, NEW w \in Numbers, Promise(kind, s, w)'
               PROVE  /\ w # None /\ w <= asked' /\ ~WhoUsed(w)'
                      /\ \A other \in Kinds, u \in Slots : Promise(other, u, w)' => other = kind /\ u = s
    BY <1>1, <1>2, <1>3 DEF IdsOK, PromisesOK
  <2>0. asked' = asked + 1
    BY <1>6 DEF Grows
  <2>1. ASSUME NEW other \in Kinds, NEW u \in Slots, Promise(other, u, w)', w <= asked
        PROVE  Promise(other, u, w)
    <3>1. w # asked + 1
      BY <1>0, <2>1
    <3> QED BY <1>6, <2>1, <3>1 DEF Grows
  <2>2. ASSUME NEW other \in Kinds, NEW u \in Slots, Promise(other, u, w)', w > asked
        PROVE  other = k0 /\ u = u0 /\ w = asked + 1
    <3>1. ~Promise(other, u, w)
      BY <1>0, <2>2 DEF IdsOK, PromisesOK
    <3> QED BY <1>6, <2>2, <3>1 DEF Grows
  <2>3. CASE w <= asked
    <3>1. Promise(kind, s, w)
      BY <2>1, <2>3
    <3>2. w # None /\ ~WhoUsed(w)'
      BY <1>4, <3>1
    <3>3. ASSUME NEW other \in Kinds, NEW u \in Slots, Promise(other, u, w)'
          PROVE  other = kind /\ u = s
      <4>1. Promise(other, u, w)
        BY <2>1, <2>3, <3>3
      <4> QED BY <3>1, <4>1 DEF IdsOK, PromisesOK
    <3>4. w <= asked'
      BY <1>0, <2>3
    <3> QED BY <3>2, <3>3, <3>4
  <2>4. CASE w > asked
    <3>1. w = asked + 1
      BY <2>2, <2>4
    <3>2. w # None /\ w <= asked'
      BY <1>0, <2>0, <3>1 DEF None
    <3>3. ~WhoUsed(w)'
      <4>1. ~(w <= asked)
        BY <1>0, <2>4
      <4> QED BY <4>1, UsedFrom, EnrolledId DEF IdsOK
    <3>4. \A other \in Kinds, u \in Slots : Promise(other, u, w)' => other = kind /\ u = s
      <4>1. kind = k0 /\ s = u0
        BY <2>2, <2>4
      <4> QED BY <2>2, <2>4, <4>1
    <3> QED BY <3>2, <3>3, <3>4
  <2> QED BY <1>0, <2>3, <2>4
<1> QED BY <1>5, <1>6, PromisesFrom
-----------------------------------------------------------------------------
\* The last administrator.

LEMMA InitIds == OfficeInit => IdsOK
<1> SUFFICES ASSUME OfficeInit PROVE IdsOK
  OBVIOUS
<1>0. OfficeInv /\ SignInInit /\ (\A s \in Slots : req[s] = Idle /\ job[s] = NoJob)
  <2>1. OfficeInv /\ SignInInit /\ job = [s \in Slots |-> NoJob]
    BY InitTypes DEF OfficeInit
  <2>2. req = [s \in Slots |-> Idle]
    BY <2>1 DEF SignInInit
  <2> QED BY <2>1, <2>2
<1>1. ASSUME NEW n \in Names, Exists(n) PROVE user[n].who = n
  <2>1. \A r \in Rows(n) : r = Nobody \/ r.who = n
    BY DEF Rows
  <2> QED BY <1>0, <1>1, <2>1 DEF SignInInit, Exists
<1>2. ASSUME NEW t, Held(t) PROVE t.who \in Names
  <2>1. PICK d \in Devices : token[d] = t
    BY <1>0, <1>2 DEF Held, Idle
  <2>2. PICK n \in Names, e \in Devices : t = SignedIn(n, e)
    BY <1>0, <1>2, <2>1 DEF SignInInit, Held
  <2> QED BY <2>2 DEF SignedIn
<1>3. \A w \in Numbers : ~WhoUsed(w)
  BY <1>1, <1>2, Constants DEF WhoUsed
<1>4. \A kind \in Kinds, s \in Slots : \A w : ~Promise(kind, s, w)
  BY <1>0 DEF Promise, At, JobAt, Idle, NoJob
<1>5. Distinct /\ \A n \in Names : Exists(n) => user[n].who # None
  BY <1>1, Constants DEF Distinct
<1> QED BY <1>3, <1>4, <1>5 DEF IdsOK, PromisesOK

\* A removal that was let through counted an administrator beside the one removed.
RemovalsOK ==
  \A s \in Slots : Removing(req[s]) => \E w \in req[s].seen[1] : w # req[s].seen[2]

LEMMA AnotherAdmin ==
  ASSUME OfficeInv, IdsOK, NEW t, NEW n \in Names, IsAdmin(t), t.name \in Names, n # t.name,
         ~WouldOrphanAdmins(n)
  PROVE  \E w \in Admins : w # user[n].who
<1>1. Exists(t.name) /\ user[t.name].admin /\ user[t.name].who \in Admins
  BY DEF IsAdmin, Accepts, Admins
<1>2. CASE user[n].admin
  <2>1. ~(Cardinality(Admins) <= 1)
    BY <1>2 DEF WouldOrphanAdmins
  <2>2. SUFFICES ASSUME \A w \in Admins : w = user[n].who PROVE FALSE
    OBVIOUS
  <2>3. Admins = {user[n].who}
    BY <1>1, <2>2
  <2>4. Cardinality(Admins) = 1
    BY <2>3, FS_Singleton
  <2> QED BY <2>1, <2>4
<1>3. CASE ~user[n].admin
  <2>1. user[t.name].who # user[n].who
    <3>1. CASE Exists(n)
      BY <1>1, <3>1 DEF IdsOK, Distinct
    <3>2. CASE ~Exists(n)
      BY <1>1, <3>2 DEF IdsOK, Exists, Nobody
    <3> QED BY <3>1, <3>2
  <2> QED BY <1>1, <2>1
<1> QED BY <1>2, <1>3

LEMMA RemovalsStep ==
  ASSUME OfficeInv, IdsOK, RemovalsOK, Traffic
  PROVE  RemovalsOK'
<1> SUFFICES ASSUME NEW s \in Slots, Removing(req'[s]) PROVE \E w \in req'[s].seen[1] : w # req'[s].seen[2]
  BY DEF RemovalsOK
<1>0. ServerOK /\ ~Removing(Idle)
  BY DEF OfficeInv, AccountsInv, Removing, Idle
<1>1. CASE req'[s] = req[s]
  BY <1>1 DEF RemovalsOK
<1>2. ASSUME NEW q, PageAsk(s, q)
      PROVE  \E w \in req'[s].seen[1] : w # req'[s].seen[2]
  <2>1. req'[s] = q
    BY <1>0, <1>2 DEF PageAsk, Arrives, ServerOK
  <2>2. /\ q.seen = <<Admins, user[q.name].who>>
        /\ IsAdmin(q.tok) /\ q.name # q.tok.name /\ ~WouldOrphanAdmins(q.name)
    BY <1>2, <2>1 DEF PageAsk
  <2>3. q.name \in Names
    BY <1>2, <2>1 DEF PageAsk, Arrives, Removing, Sound
  <2>4. q.tok.name \in Names
    <3>1. q.tok \in Token
      BY <1>2, <2>2 DEF IsAdmin, Accepts, PageAsk, Arrives, AnyRequest
    <3> QED BY <3>1 DEF Token
  <2>5. \E w \in Admins : w # user[q.name].who
    BY <2>2, <2>3, <2>4, AnotherAdmin
  <2> QED BY <2>1, <2>2, <2>5
<1>3. ASSUME NEW q, LoginAsk(s, q) \/ SetsUp(s, q)
      PROVE  FALSE
  <2>1. req'[s] = q /\ q.op \in {"login", "upload"}
    BY <1>0, <1>3 DEF LoginAsk, Arrives, SetsUp, ServerOK
  <2> QED BY <2>1 DEF Removing
<1>4. ASSUME NEW u \in Slots, NEW q, PageAsk(u, q) \/ LoginAsk(u, q) \/ SetsUp(u, q), u # s
      PROVE  req'[s] = req[s]
  BY <1>0, <1>4 DEF PageAsk, LoginAsk, Arrives, SetsUp, ServerOK
<1>5. ASSUME NEW u \in Slots, Works(u)
      PROVE  req'[s] = req[s]
  <2>1. PICK step \in Steps : Handled(u, step) /\ (step = "update" => req[u].op = "password") /\ step # "delete"
    BY <1>5, HandlesHandled DEF Works, OfficeInv
  <2>2. ~Removing(req'[u])
    BY <2>1 DEF Handled, Same, Removing
  <2> QED BY <2>1, <2>2 DEF Handled
<1>6. ASSUME NEW u \in Slots, Replies(u) \/ StartsSetup(u)
      PROVE  req'[s] = req[s]
  <2>1. /\ req'[u] = Idle \/ req'[u].step = "setup"
        /\ \A t \in Slots \ {u} : req'[t] = req[t]
    BY <1>0, <1>6 DEF Replies, Frees, StartsSetup, Handled, ServerOK
  <2> QED BY <1>0, <2>1 DEF Removing
<1> QED BY <1>1, <1>2, <1>3, <1>4, <1>5, <1>6 DEF Traffic, Quiet

\* A step that leaves every administrator one.
LEMMA AdminsStay ==
  ASSUME AdminRemains, raced \subseteq raced',
         \A n \in Names : user[n].admin => \E k \in Names : user'[k].admin
  PROVE  AdminRemains'
BY DEF AdminRemains, Admins

LEMMA HandlesAdmins ==
  ASSUME OfficeInv, RemovalsOK, AdminRemains, NEW s \in Slots, Handles(s)
  PROVE  AdminRemains'
<1>0. /\ AccountsInv /\ ServerOK /\ Sound(req[s]) /\ raced \subseteq raced'
      /\ user \in [Names -> Row \cup {Nobody}] /\ Nobody.admin = FALSE
  BY HandlesChange DEF OfficeInv, AccountsInv, ServerOK, Change, Nobody
<1>1. CASE UNCHANGED user
  BY <1>0, <1>1, AdminsStay
<1>2. ASSUME NEW m \in Names, NEW n \in Names, Moves(m, n)
      PROVE  AdminRemains'
  <2>1. user'[n].admin = user[m].admin /\ user'[m] = Nobody /\ ~Exists(n)
        /\ \A k \in Names \ {m, n} : user'[k] = user[k]
    BY <1>0, <1>2 DEF Moves, Exists
  <2> QED BY <1>0, <2>1, AdminsStay DEF Exists
<1>3. ASSUME NEW n \in Names, NEW row, Sets(n, row) \/ Adds(n, row), user[n].admin => row.admin
      PROVE  AdminRemains'
  <2>1. user'[n] = row /\ \A k \in Names \ {n} : user'[k] = user[k]
    BY <1>0, <1>3 DEF Sets, Adds
  <2> QED BY <1>0, <1>3, <2>1, AdminsStay
\* Whoever the removal has counted is an administrator still, or it was outrun.
<1>4. ASSUME NEW n \in Names, n = req[s].name, Removing(req[s]), ~Outrun(req[s]),
             \A k \in Names \ {n} : user'[k] = user[k]
      PROVE  AdminRemains'
  <2>1. PICK w \in req[s].seen[1] : w # req[s].seen[2]
    BY <1>4 DEF RemovalsOK
  <2>2. w \in Admins /\ user[n].who = req[s].seen[2]
    BY <1>4, <2>1 DEF Outrun
  <2>3. PICK k \in Names : user[k].admin /\ user[k].who = w
    BY <2>2 DEF Admins
  <2>4. user'[k] = user[k]
    BY <1>4, <2>1, <2>2, <2>3
  <2> QED BY <2>3, <2>4 DEF AdminRemains, Admins
<1>5. CASE RenameUpdate(s)
  BY <1>0, <1>1, <1>2, <1>5, RenameIs
<1>6. CASE PasswordUpdate(s)
  BY <1>0, <1>1, <1>3, <1>6, PasswordIs DEF Raises
<1>7. CASE UploadUpdate(s)
  BY <1>0, <1>1, <1>3, <1>7, UploadIs DEF Patches
<1>8. CASE CreateInsert(s)
  <2>1. ASSUME NEW row, Adds(req[s].name, row)
        PROVE  user[req[s].name].admin => row.admin
    BY <1>0, <2>1 DEF Adds, Exists
  <2> QED BY <1>0, <1>1, <1>3, <1>8, <2>1, CreateIs
<1>9. CASE ResetUpdate(s)
  BY <1>0, <1>1, <1>3, <1>9, ResetIs DEF Raises
<1>10. CASE DeleteUser(s)
  <2>1. req[s].name \in Names /\ Removing(req[s])
    BY <1>0, <1>10 DEF DeleteUser, At, Sound, Removing
  <2>2. Outrun(req[s]) => "removal" \in raced'
    BY <1>10 DEF DeleteUser, Races
  <2>3. \A k \in Names \ {req[s].name} : user'[k] = user[k]
    BY <1>0, <1>10 DEF DeleteUser
  <2> QED BY <1>4, <2>1, <2>2, <2>3 DEF AdminRemains
<1>11. CASE RoleUpdate(s)
  <2>1. /\ req[s].name \in Names
        /\ UNCHANGED user \/ \E row : Patches(req[s].name, row, user[req[s].name].bundle, req[s].admin)
    BY <1>0, <1>11, RoleIs
  <2>2. CASE UNCHANGED user
    BY <1>1, <2>2
  <2>3. ASSUME NEW row, Patches(req[s].name, row, user[req[s].name].bundle, req[s].admin)
        PROVE  AdminRemains'
    <3>1. CASE req[s].admin
      BY <1>3, <2>1, <2>3, <3>1 DEF Patches
    <3>2. CASE ~req[s].admin
      <4>1. Removing(req[s])
        BY <1>11, <3>2 DEF RoleUpdate, At, Removing
      <4>2. Outrun(req[s]) => "removal" \in raced'
        BY <1>11, <3>2 DEF RoleUpdate, Races
      <4>3. \A k \in Names \ {req[s].name} : user'[k] = user[k]
        BY <1>0, <2>3 DEF Patches, Sets
      <4> QED BY <1>4, <2>1, <4>1, <4>2, <4>3 DEF AdminRemains
    <3> QED BY <3>1, <3>2
  <2> QED BY <2>1, <2>2, <2>3
<1>12. CASE LoginSession(s) \/ RevokeDelete(s) \/ ClearSessions(s) \/ PasswordCheck(s)
  BY <1>1, <1>12 DEF LoginSession, RevokeDelete, ClearSessions, PasswordCheck
<1> QED BY <1>5, <1>6, <1>7, <1>8, <1>9, <1>10, <1>11, <1>12 DEF Handles

LEMMA AdminsStep ==
  ASSUME OfficeInv, RemovalsOK, AdminRemains, [OfficeNext]_officeVars
  PROVE  AdminRemains'
<1>1. CASE UNCHANGED <<user, raced>>
  BY <1>1 DEF AdminRemains, Admins
<1>2. ASSUME Outside PROVE AdminRemains'
  <2>1. ASSUME NEW s \in Slots, NEW n \in Names, NEW row, Admits(s, n, row)
        PROVE  \A k \in Names : user[k].admin => user'[k].admin
    BY <2>1 DEF Admits, Adds, Exists, Nobody, OfficeInv, AccountsInv, ServerOK
  <2>2. \A k \in Names : user[k].admin => user'[k].admin
    BY <1>2, <2>1 DEF Outside
  <2> QED BY <1>2, <2>2, AdminsStay DEF Outside
<1>3. CASE UNCHANGED officeVars
  BY <1>1, <1>3 DEF officeVars, allVars, vars
<1>4. CASE SignInNext
  <2>1. ASSUME NEW s \in Slots, SubmitLogin(s) PROVE AdminRemains'
    BY <1>1, <2>1, LoginAsks DEF OfficeInv, LoginAsk, Arrives
  <2>2. ASSUME NEW s \in Slots, Requests(s) \/ AdminRequests(s) PROVE AdminRemains'
    BY <1>1, <2>2, UserAsks DEF OfficeInv, PageAsk, Arrives
  <2>3. ASSUME NEW s \in Slots, Setup(s) \/ Answer(s) \/ AnswerLost(s) PROVE AdminRemains'
    BY <1>1, <2>3 DEF Setup, Answer, AnswerLost
  <2>4. ASSUME NEW d \in Devices, LogOut(d) PROVE AdminRemains'
    BY <1>1, <2>4 DEF LogOut, vars
  <2> QED BY <1>4, <2>1, <2>2, <2>3, <2>4, HandlesAdmins DEF SignInNext
<1>5. CASE ApprovalsStep
  BY <1>2, <1>5, ApprovalsOutside DEF OfficeInv
<1>6. CASE LibraryStep /\ LeavesDesk
  BY <1>2, <1>6, LibraryOutside DEF OfficeInv
<1> QED BY <1>3, <1>4, <1>5, <1>6 DEF OfficeNext

\* Module Accounts: there is always an administrator, unless others were removed or renamed
\* between the count and the statement of a removal.
THEOREM AdminRemainsTheorem == OfficeSpec => []AdminRemains
<1> DEFINE Inv == OfficeInv /\ IdsOK /\ RemovalsOK /\ AdminRemains
<1>1. OfficeInit => Inv
  <2>1. OfficeInit => RemovalsOK
    BY DEF OfficeInit, SignInInit, RemovalsOK, Removing, Idle
  <2>2. OfficeInit => AdminRemains
    BY DEF OfficeInit, SignInInit, AdminRemains
  <2> QED BY <2>1, <2>2, InitTypes, InitIds
<1>2. Inv /\ [OfficeNext]_officeVars => Inv'
  <2> SUFFICES ASSUME Inv, [OfficeNext]_officeVars PROVE Inv'
    OBVIOUS
  <2>1. OfficeInv' /\ Change /\ Traffic
    BY StepTypes, EveryChange, EveryTraffic
  <2>2. IdsOK'
    BY <2>1, IdsStep
  <2>3. RemovalsOK'
    BY <2>1, RemovalsStep
  <2>4. AdminRemains'
    BY AdminsStep
  <2> QED BY <2>1, <2>2, <2>3, <2>4
<1>3. Inv => AdminRemains
  OBVIOUS
<1> QED BY <1>1, <1>2, <1>3, PTL DEF OfficeSpec
-----------------------------------------------------------------------------
\* Ids of sessions. Each token has one of its own; the session of a login does not exist
\* before, and nobody else has its token.

Unborn(s) ==
  /\ \A x \in sessions : x.sid # req[s].tok.sid
  /\ \A d \in Devices : token[d] # req[s].tok
  /\ \A u \in Slots \ {s} : req[u].tok # req[s].tok

SidsOK ==
  /\ \A x \in sessions : x.sid \in Numbers => x.sid <= asked
  /\ \A t \in Token : Held(t) /\ t.sid \in Numbers => t.sid <= asked
  /\ \A t, u \in Token : Held(t) /\ Held(u) /\ t.sid = u.sid => t = u
  /\ \A s \in Slots : At(s, "login", "session") => Unborn(s)

LEMMA LoginTokens ==
  ASSUME OfficeInv, NEW s \in Slots, At(s, "login", "session")
  PROVE  Held(req[s].tok) /\ req[s].tok \in Token
<1>1. Sound(req[s]) /\ req[s].tok # NoToken
  BY DEF OfficeInv, AccountsInv, At, Sound
<1> QED BY <1>1, HeldIs DEF Held, OfficeInv, AccountsInv

\* Where a session and a login under way come from.
LEMMA SessionFrom ==
  ASSUME OfficeInv, Change, NEW y \in sessions'
  PROVE  (\E x \in sessions : x.sid = y.sid) \/ \E s \in Slots : Joins(s, y)
<1>1. ASSUME NEW s \in Slots, NEW x, Joins(s, x) PROVE y \in sessions \/ Joins(s, y)
  BY <1>1 DEF Joins
<1>2. ASSUME NEW m \in Names, NEW n \in Names, Renamed(m, n) PROVE \E x \in sessions : x.sid = y.sid
  BY <1>2 DEF Renamed
<1> QED BY <1>1, <1>2 DEF Change, Removed

LEMMA LoginFrom ==
  ASSUME OfficeInv, Traffic, NEW s \in Slots, At(s, "login", "session")'
  PROVE  \/ At(s, "login", "session") /\ req'[s].tok = req[s].tok /\ req'[s].bundle = req[s].bundle
         \/ IssuedTo(s)
<1>0. ServerOK /\ Idle.op # "login"
  BY DEF OfficeInv, AccountsInv, Idle
<1>1. CASE req'[s] = req[s]
  BY <1>1 DEF At
<1>2. ASSUME NEW u \in Slots, NEW q, PageAsk(u, q)
      PROVE  req'[s] = req[s]
  BY <1>0, <1>2 DEF PageAsk, Arrives, ServerOK, At, Signing
<1>3. ASSUME NEW u \in Slots, NEW q, LoginAsk(u, q), UNCHANGED pageVars
      PROVE  req'[s] = req[s] \/ IssuedTo(s)
  <2>1. req'[u] = q /\ \A v \in Slots \ {u} : req'[v] = req[v]
    BY <1>0, <1>3 DEF LoginAsk, Arrives, ServerOK
  <2>2. CASE u = s
    <3>1. q.step = "session"
      BY <2>1, <2>2 DEF At
    <3> QED BY <1>3, <2>1, <2>2, <3>1 DEF LoginAsk, Arrives, IssuedTo, pageVars
  <2> QED BY <2>1, <2>2
<1>4. ASSUME NEW u \in Slots, NEW q, SetsUp(u, q)
      PROVE  req'[s] = req[s]
  BY <1>0, <1>4 DEF SetsUp, ServerOK, At
<1>5. ASSUME NEW u \in Slots, Works(u)
      PROVE  req'[s] = req[s]
  <2>1. PICK step \in Steps : Handled(u, step) /\ step # "session"
    BY <1>5, HandlesHandled DEF Works, OfficeInv
  <2> QED BY <2>1 DEF Handled, At
<1>6. ASSUME NEW u \in Slots, Replies(u) \/ StartsSetup(u)
      PROVE  req'[s] = req[s]
  BY <1>0, <1>6 DEF Replies, Frees, StartsSetup, Handled, At, ServerOK
<1> QED BY <1>1, <1>2, <1>3, <1>4, <1>5, <1>6 DEF Traffic, Quiet

LEMMA SidsStep ==
  ASSUME OfficeInv, OfficeInv', SidsOK, Change, Traffic
  PROVE  SidsOK'
<1>0. /\ asked \in Nat /\ asked' \in Nat /\ asked <= asked' /\ Numbers \subseteq Nat
      /\ NoToken \notin Token /\ ServerOK /\ ServerOK'
  BY AskedGrows, Constants, Constants2 DEF OfficeInv, AccountsInv
<1>1. ASSUME NEW y \in sessions', y.sid \in Numbers
      PROVE  y.sid <= asked'
  <2>1. ASSUME NEW s \in Slots, Joins(s, y) PROVE y.sid <= asked
    <3>1. Held(req[s].tok) /\ req[s].tok \in Token /\ y.sid = req[s].tok.sid
      BY <2>1, LoginTokens DEF Joins
    <3> QED BY <1>1, <3>1 DEF SidsOK
  <2>2. y.sid <= asked
    BY <1>1, <2>1, SessionFrom DEF SidsOK
  <2>3. y.sid \in Nat
    BY <1>0, <1>1
  <2> QED BY <1>0, <2>2, <2>3
<1>2. ASSUME NEW t \in Token, Held(t)', t.sid \in Numbers
      PROVE  t.sid <= asked'
  <2>1. CASE Held(t)
    <3>1. t.sid <= asked
      BY <1>2, <2>1 DEF SidsOK
    <3>2. t.sid \in Nat
      BY <1>0, <1>2
    <3> QED BY <1>0, <3>1, <3>2
  <2>2. ASSUME NEW s \in Slots, IssuedTo(s), t = req'[s].tok PROVE t.sid <= asked'
    BY <1>0, <2>2 DEF IssuedTo
  <2> QED BY <1>2, <2>1, <2>2, TokensFrom
\* A token that is issued is told from all others by its session.
<1>a. ASSUME NEW s \in Slots, IssuedTo(s), NEW u \in Token, Held(u)
      PROVE  u.sid # req'[s].tok.sid
  <2>1. req'[s].tok.sid = asked + 1 /\ asked + 1 \in Numbers
    BY <1>a DEF IssuedTo
  <2> QED BY <1>0, <1>a, <2>1 DEF SidsOK
<1>3. ASSUME NEW t \in Token, NEW u \in Token, Held(t)', Held(u)', t.sid = u.sid
      PROVE  t = u
  <2>1. CASE Held(t) /\ Held(u)
    BY <1>3, <2>1 DEF SidsOK
  <2>2. ASSUME NEW s \in Slots, IssuedTo(s), t = req'[s].tok PROVE t = u
    <3>1. ~Held(u)
      BY <1>3, <1>a, <2>2
    <3>2. PICK v \in Slots : IssuedTo(v) /\ u = req'[v].tok
      BY <1>3, <3>1, TokensFrom
    <3>3. CASE v # s
      <4>1. req'[v] = req[v]
        BY <2>2, <3>3 DEF IssuedTo
      <4>2. Held(u)
        BY <1>0, <3>2, <4>1 DEF Held
      <4> QED BY <3>1, <4>2
    <3> QED BY <2>2, <3>2, <3>3
  <2>3. ASSUME NEW s \in Slots, IssuedTo(s), u = req'[s].tok PROVE t = u
    <3>1. ~Held(t)
      BY <1>3, <1>a, <2>3
    <3>2. PICK v \in Slots : IssuedTo(v) /\ t = req'[v].tok
      BY <1>3, <3>1, TokensFrom
    <3>3. CASE v # s
      <4>1. req'[v] = req[v]
        BY <2>3, <3>3 DEF IssuedTo
      <4>2. Held(t)
        BY <1>0, <3>2, <4>1 DEF Held
      <4> QED BY <3>1, <4>2
    <3> QED BY <2>3, <3>2, <3>3
  <2> QED BY <1>3, <2>1, <2>2, <2>3, TokensFrom
<1>4. ASSUME NEW s \in Slots, IssuedTo(s)
      PROVE  Unborn(s)'
  <2> DEFINE t == req'[s].tok
  <2>1. t.sid = asked + 1 /\ asked + 1 \in Numbers /\ t # NoToken /\ UNCHANGED <<sessions, token>>
        /\ \A u \in Slots \ {s} : req'[u] = req[u]
    BY <1>4 DEF IssuedTo
  <2>2. t \in Token
    BY <1>0, <2>1 DEF ServerOK, AnyRequest
  <2>3. \A x \in sessions : x.sid # t.sid
    BY <1>0, <2>1 DEF SidsOK
  <2>4. ~Held(t)
    BY <1>a, <1>4, <2>2
  <2> QED BY <2>1, <2>3, <2>4 DEF Unborn, Held
<1>5. ASSUME NEW s \in Slots, At(s, "login", "session"), At(s, "login", "session")',
             req'[s].tok = req[s].tok, ~IssuedTo(s)
      PROVE  Unborn(s)'
  <2> DEFINE t == req[s].tok
  <2>1. Unborn(s) /\ Held(t) /\ t \in Token /\ t # NoToken
    BY <1>0, <1>5, LoginTokens DEF SidsOK
  <2>2. ASSUME NEW y \in sessions' PROVE y.sid # t.sid
    <3>1. ASSUME NEW v \in Slots, Joins(v, y) PROVE y.sid # t.sid
      <4>1. At(v, "login", "session") /\ y.sid = req[v].tok.sid /\ req'[v].step = "done"
        BY <3>1 DEF Joins, Handled
      <4>2. v # s
        BY <1>5, <4>1 DEF At
      <4>3. req[v].tok # t /\ Held(req[v].tok) /\ req[v].tok \in Token
        BY <2>1, <4>1, <4>2, LoginTokens DEF Unborn
      <4> QED BY <2>1, <4>1, <4>3 DEF SidsOK
    <3> QED BY <2>1, <3>1, SessionFrom DEF Unborn
  <2>3. ASSUME NEW d \in Devices PROVE token'[d] # t
    BY <1>5, <2>1, DeviceToken DEF Unborn, At
  <2>4. ASSUME NEW u \in Slots \ {s} PROVE req'[u].tok # t
    <3>1. CASE IssuedTo(u)
      BY <1>a, <2>1, <3>1
    <3> QED BY <2>1, <3>1, RequestToken DEF Unborn
  <2> QED BY <1>5, <2>2, <2>3, <2>4 DEF Unborn
<1> QED BY <1>1, <1>2, <1>3, <1>4, <1>5, LoginFrom DEF SidsOK

-----------------------------------------------------------------------------
\* Whose tokens they are.

\* The account a token is for has its version no more, or it is as it was.
Bound(t) ==
  \A n \in Names : Exists(n) /\ user[n].who = t.who =>
    t.ver <= user[n].ver /\ (t.ver = user[n].ver => n = t.name /\ user[n].pw = t.pw)

\* The session of a token is one of its account.
Faithful(t) ==
  \A x \in sessions : x.sid = t.sid => "renamed" \in raced \/ user[x.name].who = t.who

TokensOK == SidsOK /\ \A t \in Token : Held(t) => Bound(t) /\ Faithful(t)

LEMMA IssuedBound ==
  ASSUME OfficeInv, IdsOK, SidsOK, NEW s \in Slots, NEW t, IssuedTo(s), t = req'[s].tok
  PROVE  Bound(t)' /\ Faithful(t)'
<1>1. PICK n \in Names : Exists(n) /\ t.name = n /\ t.ver = user[n].ver /\ t.who = user[n].who /\ t.pw = user[n].pw
  BY DEF IssuedTo
<1>2. UNCHANGED <<user, sessions>> /\ t.sid = asked + 1 /\ asked + 1 \in Numbers /\ asked \in Nat
  BY Constants DEF IssuedTo, OfficeInv, AccountsInv, ServerOK
<1>3. Bound(t)'
  <2> SUFFICES ASSUME NEW k \in Names, Exists(k), user[k].who = t.who
               PROVE  t.ver <= user[k].ver /\ k = t.name /\ user[k].pw = t.pw
    BY <1>2 DEF Bound, Exists
  <2>1. k = n
    BY <1>1 DEF IdsOK, Distinct
  <2>2. user[n].ver \in Nat
    BY RowTypes DEF OfficeInv, AccountsInv
  <2> QED BY <1>1, <2>1, <2>2
<1>4. Faithful(t)'
  <2>1. \A x \in sessions : x.sid # t.sid
    BY <1>2 DEF SidsOK
  <2> QED BY <1>2, <2>1 DEF Faithful
<1> QED BY <1>3, <1>4

LEMMA BoundKept ==
  ASSUME OfficeInv, IdsOK, Change, NEW t \in Token, Held(t), Bound(t)
  PROVE  Bound(t)'
<1> SUFFICES ASSUME NEW k \in Names, Exists(k)', user'[k].who = t.who
             PROVE  t.ver <= user'[k].ver /\ (t.ver = user'[k].ver => k = t.name /\ user'[k].pw = t.pw)
  BY DEF Bound
<1>0. /\ user \in [Names -> Row \cup {Nobody}] /\ t.ver \in Nat /\ ServerOK
      /\ \A n \in Names : user[n].ver \in Nat
  BY RowTypes DEF OfficeInv, AccountsInv, ServerOK, Token
<1>1. CASE user'[k] = user[k]
  BY <1>1 DEF Bound, Exists
<1>2. ASSUME NEW n \in Names, NEW row \in Row, Rewrites(n, row), user'[k] # user[k]
      PROVE  t.ver <= user'[k].ver /\ (t.ver = user'[k].ver => k = t.name /\ user'[k].pw = t.pw)
  <2>1. k = n /\ user'[k] = row /\ Exists(n) /\ row.who = user[n].who
    BY <1>0, <1>2 DEF Rewrites, Sets
  <2>2. t.ver <= user[n].ver /\ (t.ver = user[n].ver => n = t.name /\ user[n].pw = t.pw)
    BY <2>1 DEF Bound
  <2>3. row.ver = user[n].ver + 1 \/ (row.ver = user[n].ver /\ row.pw = user[n].pw)
    BY <1>2 DEF Rewrites
  <2>4. row.ver = user[n].ver + 1 => t.ver < row.ver
    BY <1>0, <2>2
  <2> QED BY <1>0, <2>1, <2>2, <2>3, <2>4
<1>3. ASSUME NEW m \in Names, NEW n \in Names, Renamed(m, n), user'[k] # user[k]
      PROVE  t.ver <= user'[k].ver /\ (t.ver = user'[k].ver => k = t.name /\ user'[k].pw = t.pw)
  <2>1. k = n /\ Exists(m) /\ user[m].who = t.who /\ user'[k].ver = user[m].ver + 1
    BY <1>3, MovedAway DEF Exists
  <2>2. t.ver <= user[m].ver
    BY <2>1 DEF Bound
  <2> QED BY <1>0, <2>1, <2>2
<1>4. ASSUME NEW n \in Names, NEW row \in Row, Enrols(n, row), user'[k] # user[k]
      PROVE  FALSE
  <2>1. row.who = t.who
    BY <1>4, Enrolled
  <2>2. WhoUsed(row.who)
    BY <2>1 DEF WhoUsed
  <2> QED BY <1>4, <2>2, EnrolledId
<1>5. ASSUME NEW n \in Names, Removed(n)
      PROVE  user'[k] = user[k]
  BY <1>0, <1>5 DEF Removed, Exists
<1> QED BY <1>1, <1>2, <1>3, <1>4, <1>5 DEF Change, Joins

\* What a step does to a session and the account it is one of.
LEMMA SessionFollows ==
  ASSUME OfficeInv, Change, NEW y \in sessions'
  PROVE  \/ \E s \in Slots : Joins(s, y)
         \/ \E x \in sessions : /\ x.sid = y.sid
                                /\ user'[y.name].who = user[x.name].who
                                /\ user'[y.name].ver = user[x.name].ver \/ user'[y.name].ver = user[x.name].ver + 1
                                /\ user'[y.name].ver = user[x.name].ver => user'[y.name].pw = user[x.name].pw
<1>0. /\ user \in [Names -> Row \cup {Nobody}] /\ \A x \in sessions : x.name \in Names /\ Exists(x.name)
  BY DEF OfficeInv, AccountsInv, ServerOK, SessionsOK, Session
<1> DEFINE Follows(x) == /\ x.sid = y.sid
                         /\ user'[y.name].who = user[x.name].who
                         /\ user'[y.name].ver = user[x.name].ver \/ user'[y.name].ver = user[x.name].ver + 1
                         /\ user'[y.name].ver = user[x.name].ver => user'[y.name].pw = user[x.name].pw
<1>1. CASE UNCHANGED user /\ sessions' \subseteq sessions
  BY <1>1
<1>2. ASSUME NEW s \in Slots, NEW x, Joins(s, x) PROVE Joins(s, y) \/ (y \in sessions /\ Follows(y))
  BY <1>2 DEF Joins
<1>3. ASSUME NEW n \in Names, NEW row \in Row, Rewrites(n, row), sessions' \subseteq sessions
      PROVE  y \in sessions /\ Follows(y)
  <2>1. /\ user'[n] = row /\ row.who = user[n].who
        /\ row.ver = user[n].ver + 1 \/ (row.ver = user[n].ver /\ row.pw = user[n].pw)
        /\ \A k \in Names \ {n} : user'[k] = user[k]
    BY <1>0, <1>3 DEF Rewrites, Sets
  <2>2. CASE row.ver = user[n].ver /\ row.pw = user[n].pw
    BY <1>0, <1>3, <2>1, <2>2
  <2>3. CASE row.ver = user[n].ver + 1
    <3>1. user[n].ver \in Nat
      BY RowTypes DEF OfficeInv, AccountsInv
    <3>2. row.ver # user[n].ver
      BY <2>3, <3>1
    <3> QED BY <1>0, <1>3, <2>1, <2>3, <3>2
  <2> QED BY <2>1, <2>2, <2>3
<1>4. ASSUME NEW m \in Names, NEW n \in Names, Renamed(m, n)
      PROVE  \E x \in sessions : Follows(x)
  <2>1. PICK x \in sessions : y.sid = x.sid /\ y.name = IF x.name = m THEN n ELSE x.name
    BY <1>4 DEF Renamed
  <2>2. CASE x.name = m
    <3>1. user'[y.name].who = user[x.name].who /\ user'[y.name].ver = user[x.name].ver + 1
      BY <1>4, <2>1, <2>2, MovedAway
    <3>2. user[x.name].ver \in Nat
      BY <2>2, RowTypes DEF OfficeInv, AccountsInv
    <3>3. user'[y.name].ver # user[x.name].ver
      BY <3>1, <3>2
    <3> QED BY <2>1, <3>1, <3>3
  <2>3. CASE x.name # m
    <3>1. y.name = x.name /\ user'[x.name] = user[x.name]
      BY <1>0, <1>4, <2>1, <2>3, MovedAway
    <3> QED BY <2>1, <3>1
  <2> QED BY <2>2, <2>3
<1>5. ASSUME NEW n \in Names, NEW row \in Row, Enrols(n, row), UNCHANGED sessions
      PROVE  y \in sessions /\ Follows(y)
  <2>1. y.name # n /\ user'[y.name] = user[y.name]
    BY <1>0, <1>5, Enrolled
  <2> QED BY <1>5, <2>1
<1>6. ASSUME NEW n \in Names, Removed(n)
      PROVE  y \in sessions /\ Follows(y)
  <2>1. y \in sessions /\ y.name # n
    BY <1>6 DEF Removed
  <2>2. user'[y.name] = user[y.name]
    BY <1>0, <1>6, <2>1 DEF Removed
  <2> QED BY <2>1, <2>2
<1> HIDE DEF Follows
<1>7. (\E s \in Slots : Joins(s, y)) \/ \E x \in sessions : Follows(x)
  <2>1. CASE UNCHANGED user /\ sessions' \subseteq sessions
    BY <2>1 DEF Follows
  <2> QED BY <1>2, <1>3, <1>4, <1>5, <1>6, <2>1 DEF Change
<1> QED BY <1>7 DEF Follows

LEMMA FaithfulKept ==
  ASSUME OfficeInv, SidsOK, Change, NEW t \in Token, Held(t), Faithful(t)
  PROVE  Faithful(t)'
<1> SUFFICES ASSUME NEW y \in sessions', y.sid = t.sid, ~("renamed" \in raced')
             PROVE  user'[y.name].who = t.who
  BY DEF Faithful
<1>1. ~("renamed" \in raced)
  BY DEF Change
<1>2. ASSUME NEW s \in Slots, Joins(s, y) PROVE user'[y.name].who = t.who
  <2>1. /\ At(s, "login", "session") /\ y.sid = req[s].tok.sid
        /\ user'[y.name].who = req[s].tok.who
    BY <1>2 DEF Joins
  <2>2. t = req[s].tok
    BY <2>1, LoginTokens DEF SidsOK
  <2> QED BY <2>1, <2>2
<1>3. ASSUME NEW x \in sessions, x.sid = y.sid, user'[y.name].who = user[x.name].who
      PROVE  user'[y.name].who = t.who
  BY <1>1, <1>3 DEF Faithful
<1> QED BY <1>2, <1>3, SessionFollows

LEMMA TokensStep ==
  ASSUME OfficeInv, OfficeInv', IdsOK, TokensOK, Change, Traffic
  PROVE  TokensOK'
<1>1. SidsOK'
  BY SidsStep DEF TokensOK
<1>2. ASSUME NEW t \in Token, Held(t)' PROVE Bound(t)' /\ Faithful(t)'
  <2>1. CASE Held(t)
    BY <2>1, BoundKept, FaithfulKept DEF TokensOK
  <2>2. ASSUME NEW s \in Slots, IssuedTo(s), t = req'[s].tok PROVE Bound(t)' /\ Faithful(t)'
    BY <2>2, IssuedBound DEF TokensOK
  <2> QED BY <1>2, <2>1, <2>2, TokensFrom
<1> QED BY <1>1, <1>2 DEF TokensOK
-----------------------------------------------------------------------------
\* Whoever is accepted is who the token was issued for.

LEMMA InitTokens == OfficeInit => TokensOK
<1> SUFFICES ASSUME OfficeInit PROVE TokensOK
  OBVIOUS
<1>0. OfficeInv /\ SignInInit
  BY InitTypes DEF OfficeInit
<1>1. \A s \in Slots : req[s] = Idle
  BY <1>0 DEF SignInInit
<1>2. \A n \in Names : Exists(n) => user[n].who = n
  <2>1. \A n \in Names : \A r \in Rows(n) : r = Nobody \/ r.who = n
    BY DEF Rows
  <2> QED BY <1>0, <2>1 DEF SignInInit, Exists
<1>3. \A n \in Names : user[n].ver = 0
  <2>1. \A n \in Names : \A r \in Rows(n) : r.ver = 0
    BY DEF Rows, Nobody
  <2> QED BY <1>0, <2>1 DEF SignInInit
<1>4. ASSUME NEW t, Held(t)
      PROVE  \E d \in Devices, n \in Names : /\ token[d] = t /\ d \in home /\ t.sid = d /\ t.name = n /\ t.who = n
                                             /\ t.ver = 0 /\ t.pw = user[n].pw /\ Exists(n)
  <2>1. PICK d \in Devices : token[d] = t /\ t # NoToken
    BY <1>1, <1>4 DEF Held, Idle
  <2>2. PICK n \in Names, e \in Devices : t = SignedIn(n, e)
    BY <1>0, <2>1 DEF SignInInit
  <2>3. t.sid = d /\ user[t.name].bundle # NoBundle /\ d \in home
    BY <1>0, <2>1 DEF SignInInit
  <2>4. Exists(n)
    BY <2>2, <2>3 DEF SignedIn, Exists, Nobody
  <2> QED BY <2>1, <2>2, <2>3, <2>4 DEF SignedIn
<1>5. \A x \in sessions : x.sid \in Devices /\ x.name = token[x.sid].name
  BY <1>0 DEF SignInInit
<1>6. SidsOK
  BY <1>1, <1>4, <1>5, Constants DEF SidsOK, At, Idle
<1>7. ASSUME NEW t \in Token, Held(t) PROVE Bound(t) /\ Faithful(t)
  <2>1. PICK d \in Devices, n \in Names : /\ token[d] = t /\ t.sid = d /\ t.name = n /\ t.who = n
                                          /\ t.ver = 0 /\ t.pw = user[n].pw /\ Exists(n)
    BY <1>4, <1>7
  <2>2. Bound(t)
    BY <1>2, <1>3, <2>1 DEF Bound
  <2>3. Faithful(t)
    BY <1>2, <1>5, <2>1 DEF Faithful
  <2> QED BY <2>2, <2>3
<1> QED BY <1>6, <1>7 DEF TokensOK

LEMMA HeldIsCurrent ==
  ASSUME OfficeInv, TokensOK, NEW t, Held(t)
  PROVE  TokenIsCurrent(t)
<1>1. t \in Token /\ t.name \in Names
  BY HeldIs DEF OfficeInv, AccountsInv, Token
<1> SUFFICES ASSUME Accepts(t), ~("renamed" \in raced)
             PROVE  user[t.name].who = t.who /\ user[t.name].pw = t.pw
  BY DEF TokenIsCurrent
<1>2. PICK x \in sessions : x.sid = t.sid /\ x.name = t.name
  BY DEF Accepts
<1>3. user[t.name].who = t.who
  BY <1>1, <1>2 DEF TokensOK, Faithful
<1>4. Exists(t.name) /\ user[t.name].ver = t.ver
  BY DEF Accepts
<1> QED BY <1>1, <1>3, <1>4 DEF TokensOK, Bound

TokensInv == OfficeInv /\ IdsOK /\ TokensOK

LEMMA TokensInvInit == OfficeInit => TokensInv
BY InitTypes, InitIds, InitTokens DEF TokensInv

LEMMA TokensInvStep ==
  ASSUME TokensInv, [OfficeNext]_officeVars
  PROVE  TokensInv' /\ Change /\ Traffic
<1>1. OfficeInv' /\ Change /\ Traffic
  BY StepTypes, EveryChange, EveryTraffic DEF TokensInv
<1>2. IdsOK'
  BY <1>1, IdsStep DEF TokensInv
<1>3. TokensOK'
  BY <1>1, TokensStep DEF TokensInv
<1> QED BY <1>1, <1>2, <1>3 DEF TokensInv

\* Module SignIn: a token that is accepted is that of the account it was issued for, which
\* still has the password it was issued for, unless the name went to another account while
\* a login was under way.
THEOREM TokensAreCurrentTheorem == OfficeSpec => []TokensAreCurrent
<1>1. TokensInv => TokensAreCurrent
  <2> SUFFICES ASSUME TokensInv PROVE TokensAreCurrent
    OBVIOUS
  <2>1. ASSUME NEW t, t # NoToken => Held(t) PROVE TokenIsCurrent(t)
    <3>1. CASE t = NoToken
      BY <3>1 DEF TokenIsCurrent, Accepts
    <3>2. CASE Held(t)
      BY <3>2, HeldIsCurrent DEF TokensInv
    <3> QED BY <2>1, <3>1, <3>2
  <2>2. \A d \in Devices : token[d] # NoToken => Held(token[d])
    BY DEF Held
  <2>3. \A s \in Slots : req[s].tok # NoToken => Held(req[s].tok)
    BY DEF Held
  <2> QED BY <2>1, <2>2, <2>3 DEF TokensAreCurrent
<1>2. TokensInv /\ [OfficeNext]_officeVars => TokensInv'
  BY TokensInvStep
<1> QED BY <1>1, <1>2, TokensInvInit, PTL DEF OfficeSpec

-----------------------------------------------------------------------------
\* Tokens the server will never accept again.

Dead(t) == "renamed" \in raced \/ \A x \in sessions : x.sid = t.sid => user[x.name].ver > t.ver

\* Not with this password.
Spent(t, old) ==
  \/ "renamed" \in raced
  \/ \A x \in sessions : x.sid = t.sid => user[x.name].ver > t.ver \/ user[x.name].pw # old

ExpiryOK ==
  \A s \in Slots : LET r == req[s] IN r.tok # NoToken =>
    /\ r.op \notin {"login", "password"} /\ r.step = "401" => Dead(r.tok)
    /\ r.op = "password" /\ r.step = "401" => Spent(r.tok, r.old)
    /\ r.op = "rename" /\ r.step \in {"clear", "done"} => Dead(r.tok)
    /\ r.op = "password" /\ r.step = "done" => Dead(r.tok)

\* Of the account of its session a token has an old version, or it is as it was.
LEMMA SessionBound ==
  ASSUME TokensInv, NEW t, Held(t), NEW x \in sessions, x.sid = t.sid, ~("renamed" \in raced)
  PROVE  /\ x.name \in Names /\ Exists(x.name) /\ user[x.name].ver \in Nat /\ t.ver \in Nat
         /\ user[x.name].ver > t.ver \/ (user[x.name].ver = t.ver /\ x.name = t.name)
<1>1. x.name \in Names /\ Exists(x.name) /\ user[x.name].ver \in Nat
  BY RowTypes DEF TokensInv, OfficeInv, AccountsInv, ServerOK, SessionsOK, Session
<1>2. t \in Token /\ t.ver \in Nat
  BY HeldIs DEF TokensInv, OfficeInv, AccountsInv, Token
<1>3. user[x.name].who = t.who
  BY <1>2 DEF TokensInv, TokensOK, Faithful
<1>4. t.ver <= user[x.name].ver /\ (t.ver = user[x.name].ver => x.name = t.name)
  BY <1>1, <1>2, <1>3 DEF TokensInv, TokensOK, Bound
<1> QED BY <1>1, <1>2, <1>4

LEMMA RefusedIsDead ==
  ASSUME TokensInv, NEW t, Held(t), ~Accepts(t)
  PROVE  Dead(t)
<1> SUFFICES ASSUME NEW x \in sessions, x.sid = t.sid, ~("renamed" \in raced)
             PROVE  user[x.name].ver > t.ver
  BY DEF Dead
<1>1. ~(user[x.name].ver = t.ver /\ x.name = t.name)
  BY SessionBound DEF Accepts, Held
<1> QED BY <1>1, SessionBound

LEMMA DeadIsSpent == ASSUME NEW t, NEW old, Dead(t) PROVE Spent(t, old)
BY DEF Dead, Spent

\* No login is about to make a session for it.
Settled(t) == \A s \in Slots : At(s, "login", "session") => req[s].tok # t

LEMMA SettledIs ==
  ASSUME TokensInv, NEW s \in Slots, req[s].op # "login"
  PROVE  Settled(req[s].tok)
BY DEF TokensInv, TokensOK, SidsOK, Unborn, Settled, At

LEMMA SettledFollows ==
  ASSUME TokensInv, Change, NEW t, Held(t), Settled(t), NEW y \in sessions', y.sid = t.sid
  PROVE  \E x \in sessions : /\ x.sid = y.sid
                             /\ user'[y.name].ver = user[x.name].ver \/ user'[y.name].ver = user[x.name].ver + 1
                             /\ user'[y.name].ver = user[x.name].ver => user'[y.name].pw = user[x.name].pw
<1>1. ASSUME NEW s \in Slots, Joins(s, y) PROVE FALSE
  <2>1. At(s, "login", "session") /\ req[s].tok.sid = t.sid
    BY <1>1 DEF Joins
  <2>2. req[s].tok \in Token /\ Held(req[s].tok) /\ t \in Token
    BY <2>1, LoginTokens, HeldIs DEF TokensInv, OfficeInv, AccountsInv
  <2>3. req[s].tok = t
    BY <2>1, <2>2 DEF TokensInv, TokensOK, SidsOK
  <2> QED BY <2>1, <2>3 DEF Settled
<1>2. OfficeInv
  BY DEF TokensInv
<1> QED BY <1>1, <1>2, SessionFollows

LEMMA SpentKept ==
  ASSUME TokensInv, Change, NEW t, Held(t), Settled(t), NEW old, Spent(t, old)
  PROVE  Spent(t, old)'
<1> SUFFICES ASSUME NEW y \in sessions', y.sid = t.sid, ~("renamed" \in raced')
             PROVE  user'[y.name].ver > t.ver \/ user'[y.name].pw # old
  BY DEF Spent
<1>1. ~("renamed" \in raced)
  BY DEF Change
<1>2. PICK x \in sessions : /\ x.sid = y.sid
                            /\ user'[y.name].ver = user[x.name].ver \/ user'[y.name].ver = user[x.name].ver + 1
                            /\ user'[y.name].ver = user[x.name].ver => user'[y.name].pw = user[x.name].pw
  BY SettledFollows
<1>3. /\ user[x.name].ver \in Nat /\ t.ver \in Nat
      /\ user[x.name].ver > t.ver \/ user[x.name].ver = t.ver
  BY <1>1, <1>2, SessionBound
<1>4. user[x.name].ver > t.ver \/ user[x.name].pw # old
  BY <1>1, <1>2 DEF Spent
<1>5. CASE user'[y.name].ver = user[x.name].ver
  BY <1>2, <1>3, <1>4, <1>5
<1>6. CASE user'[y.name].ver = user[x.name].ver + 1
  BY <1>3, <1>6
<1> QED BY <1>2, <1>5, <1>6

LEMMA DeadKept ==
  ASSUME TokensInv, Change, NEW t, Held(t), Settled(t), Dead(t)
  PROVE  Dead(t)'
<1> SUFFICES ASSUME NEW y \in sessions', y.sid = t.sid, ~("renamed" \in raced')
             PROVE  user'[y.name].ver > t.ver
  BY DEF Dead
<1>1. ~("renamed" \in raced)
  BY DEF Change
<1>2. PICK x \in sessions : /\ x.sid = y.sid
                            /\ user'[y.name].ver = user[x.name].ver \/ user'[y.name].ver = user[x.name].ver + 1
  BY SettledFollows
<1>3. user[x.name].ver \in Nat /\ t.ver \in Nat
  BY <1>1, <1>2, SessionBound
<1>4. user[x.name].ver > t.ver
  BY <1>1, <1>2 DEF Dead
<1> QED BY <1>2, <1>3, <1>4
-----------------------------------------------------------------------------
\* What a handler says of the token of its request.

\* A request that renames or changes the password leaves its token behind.
LEMMA RenameKills ==
  ASSUME TokensInv, NEW s \in Slots, NEW t, t = req[s].tok, t # NoToken,
         RenameUpdate(s), req'[s].step = "clear"
  PROVE  Dead(t)'
<1> DEFINE m == req[s].name
           n == req[s].to
<1>0. AccountsInv /\ Sound(req[s]) /\ UNCHANGED raced /\ At(s, "rename", "update")
  BY DEF TokensInv, OfficeInv, AccountsInv, RenameUpdate
<1>2. Held(t) /\ t.name = m
  BY <1>0 DEF Held, Sound, At
<1>3. CASE ~Exists(m) /\ UNCHANGED <<user, sessions>>
  <2>1. Dead(t)
    BY <1>2, <1>3, RefusedIsDead DEF Accepts
  <2> QED BY <1>0, <1>3, <2>1 DEF Dead
<1>4. CASE Moves(m, n) /\ sessions' = {IF x.name = m THEN [x EXCEPT !.name = n] ELSE x : x \in sessions}
  <2>1. m \in Names /\ n \in Names
    BY <1>0, RenameIs
  <2>2. /\ user'[n].ver = user[m].ver + 1
        /\ \A k \in Names \ {m, n} : user'[k] = user[k]
    BY <1>0, <1>4, <2>1 DEF Moves, AccountsInv, ServerOK
  <2>3. \A x \in Session : LET y == [x EXCEPT !.name = n] IN y.sid = x.sid /\ y.name = n
    BY <2>1 DEF Session
  <2>4. ASSUME NEW y \in sessions', y.sid = t.sid, ~("renamed" \in raced)
        PROVE  user'[y.name].ver > t.ver
    <3>1. PICK x \in sessions : y = IF x.name = m THEN [x EXCEPT !.name = n] ELSE x
      BY <1>4, <2>4
    <3>2. x \in Session
      BY <1>0 DEF AccountsInv, ServerOK
    <3>3. x.sid = t.sid /\ (x.name = m => y.name = n) /\ (x.name # m => y = x)
      BY <2>3, <2>4, <3>1, <3>2
    <3>4. /\ x.name \in Names /\ Exists(x.name) /\ user[x.name].ver \in Nat /\ t.ver \in Nat
          /\ user[x.name].ver > t.ver \/ (user[x.name].ver = t.ver /\ x.name = m)
      BY <1>2, <2>4, <3>3, SessionBound
    <3>5. CASE x.name = m
      BY <2>2, <3>3, <3>4, <3>5
    <3>6. CASE x.name # m
      <4>1. x.name # n
        BY <1>4, <3>4 DEF Moves
      <4> QED BY <2>2, <3>3, <3>4, <3>6, <4>1
    <3> QED BY <3>5, <3>6
  <2> QED BY <1>0, <2>4 DEF Dead
<1>5. ~Handled(s, "409")
  BY DEF Handled
<1> QED BY <1>0, <1>3, <1>4, <1>5, RenameIs

LEMMA PasswordKills ==
  ASSUME TokensInv, NEW s \in Slots, NEW t, t = req[s].tok, t # NoToken, PasswordUpdate(s)
  PROVE  Dead(t)'
<1> DEFINE n == req[s].name
<1>0. AccountsInv /\ Sound(req[s]) /\ At(s, "password", "update") /\ raced \subseteq raced'
  BY DEF TokensInv, OfficeInv, AccountsInv, PasswordUpdate, Races
<1>2. Held(t) /\ t.name = n
  BY <1>0 DEF Held, Sound, At
<1>3. /\ n \in Names /\ sessions' = {x \in sessions : x.name # n}
      /\ \A k \in Names \ {n} : user'[k] = user[k]
  BY <1>0, PasswordIs DEF Raises, Sets, AccountsInv, ServerOK
<1>4. ASSUME NEW y \in sessions', y.sid = t.sid, ~("renamed" \in raced)
      PROVE  user'[y.name].ver > t.ver
  <2>1. y \in sessions /\ y.name # n
    BY <1>3
  <2>2. y.name \in Names /\ user[y.name].ver > t.ver
    BY <1>2, <1>4, <2>1, SessionBound
  <2> QED BY <1>3, <2>1, <2>2
<1> QED BY <1>0, <1>4 DEF Dead

LEMMA WrongPassword ==
  ASSUME TokensInv, NEW s \in Slots, NEW t, t = req[s].tok, t # NoToken, NEW old, old = req[s].old,
         PasswordCheck(s), req'[s].step = "401"
  PROVE  Spent(t, old)'
<1>0. AccountsInv /\ Sound(req[s]) /\ At(s, "password", "check") /\ UNCHANGED <<user, sessions, raced>>
  BY DEF TokensInv, OfficeInv, AccountsInv, PasswordCheck
<1>2. Held(t) /\ t.name = req[s].name
  BY <1>0 DEF Held, Sound, At
<1>3. ~(Exists(t.name) /\ user[t.name].pw = old)
  <2>1. SUFFICES ASSUME Exists(t.name) /\ user[t.name].pw = old PROVE FALSE
    OBVIOUS
  <2>2. Goes(s, "update")
    BY <1>2, <2>1 DEF PasswordCheck
  <2>3. Handled(s, "update")
    BY <1>0, <2>2, GoesHandled DEF AccountsInv, Steps
  <2> QED BY <2>3 DEF Handled
<1>4. Spent(t, old)
  <2> SUFFICES ASSUME NEW x \in sessions, x.sid = t.sid, ~("renamed" \in raced)
               PROVE  user[x.name].ver > t.ver \/ user[x.name].pw # old
    BY DEF Spent
  <2> QED BY <1>2, <1>3, SessionBound
<1> QED BY <1>0, <1>4 DEF Spent

LEMMA HandlesExpiry ==
  ASSUME TokensInv, NEW s \in Slots, NEW t, t = req[s].tok, t # NoToken, NEW old, old = req[s].old, Handles(s)
  PROVE  /\ req[s].op \notin {"login", "password"} => req'[s].step # "401"
         /\ req[s].op = "password" /\ req'[s].step = "401" => Spent(t, old)'
         /\ req[s].op = "rename" /\ req'[s].step = "clear" => Dead(t)'
         /\ req[s].op = "rename" /\ req'[s].step = "done" => req[s].step = "clear"
         /\ req[s].op = "password" /\ req'[s].step = "done" => Dead(t)'
<1>0. ServerOK /\ AccountsInv
  BY DEF TokensInv, OfficeInv, AccountsInv
<1>1. ASSUME NEW step \in Steps, Goes(s, step) PROVE req'[s].step = step
  BY <1>0, <1>1, GoesHandled DEF Handled
<1>2. CASE LoginSession(s)
  BY <1>2 DEF LoginSession, At
<1>3. CASE RevokeDelete(s)
  BY <1>1, <1>3 DEF RevokeDelete, At, Steps, Ended
<1>4. CASE RenameUpdate(s)
  <2>1. At(s, "rename", "update") /\ (Goes(s, "409") \/ Goes(s, "clear"))
    BY <1>4 DEF RenameUpdate
  <2>2. req'[s].step \in {"409", "clear"}
    BY <1>1, <2>1 DEF Steps, Ended
  <2> QED BY <1>4, <2>1, <2>2, RenameKills DEF At
<1>5. CASE ClearSessions(s)
  BY <1>1, <1>5 DEF ClearSessions, Steps, Ended
<1>6. CASE PasswordCheck(s)
  <2>1. At(s, "password", "check") /\ (Goes(s, "update") \/ Goes(s, "401"))
    BY <1>6 DEF PasswordCheck
  <2>2. req'[s].step \in {"update", "401"}
    BY <1>1, <2>1 DEF Steps, Ended
  <2> QED BY <1>6, <2>1, <2>2, WrongPassword DEF At
<1>7. CASE PasswordUpdate(s)
  <2>1. At(s, "password", "update") /\ req'[s].step = "done"
    BY <1>1, <1>7 DEF PasswordUpdate, Steps, Ended
  <2> QED BY <1>7, <2>1, PasswordKills DEF At
<1>8. CASE UploadUpdate(s)
  BY <1>1, <1>8 DEF UploadUpdate, At, Steps, Ended
<1>9. CASE CreateInsert(s)
  <2>1. At(s, "create", "update") /\ (Goes(s, "409") \/ Goes(s, "done"))
    BY <1>9 DEF CreateInsert
  <2> QED BY <1>1, <2>1 DEF At, Steps, Ended
<1>10. CASE DeleteUser(s)
  <2>1. At(s, "delete", "delete") /\ (Goes(s, "done") \/ Goes(s, "error"))
    BY <1>10 DEF DeleteUser
  <2> QED BY <1>1, <2>1 DEF At, Steps, Ended
<1>11. CASE RoleUpdate(s)
  <2>1. At(s, "role", "update") /\ (Goes(s, "done") \/ Goes(s, "error"))
    BY <1>11 DEF RoleUpdate
  <2> QED BY <1>1, <2>1 DEF At, Steps, Ended
<1>12. CASE ResetUpdate(s)
  <2>1. At(s, "reset", "update") /\ (Goes(s, "clear") \/ Goes(s, "error"))
    BY <1>12 DEF ResetUpdate
  <2> QED BY <1>1, <2>1 DEF At, Steps, Ended
<1> QED BY <1>2, <1>3, <1>4, <1>5, <1>6, <1>7, <1>8, <1>9, <1>10, <1>11, <1>12 DEF Handles

-----------------------------------------------------------------------------
\* A page is signed out rightly.

\* What ExpiryOK says of a request.
Rightly(op, step, t, old) ==
  t # NoToken =>
    /\ op \notin {"login", "password"} /\ step = "401" => Dead(t)
    /\ op = "password" /\ step = "401" => Spent(t, old)
    /\ op = "rename" /\ step \in {"clear", "done"} => Dead(t)
    /\ op = "password" /\ step = "done" => Dead(t)

LEMMA ExpiryIs == ExpiryOK <=> \A s \in Slots : Rightly(req[s].op, req[s].step, req[s].tok, req[s].old)
BY DEF ExpiryOK, Rightly

LEMMA RightlyKept ==
  ASSUME TokensInv, Change, NEW s \in Slots, Rightly(req[s].op, req[s].step, req[s].tok, req[s].old)
  PROVE  \A op, step, t, old :
           op = req[s].op /\ step = req[s].step /\ t = req[s].tok /\ old = req[s].old => Rightly(op, step, t, old)'
<1> TAKE op, step, t, old
<1> HAVE op = req[s].op /\ step = req[s].step /\ t = req[s].tok /\ old = req[s].old
<1>1. CASE t = NoToken \/ op = "login"
  BY <1>1 DEF Rightly
<1>2. CASE t # NoToken /\ op # "login"
  <2>1. Held(t) /\ Settled(t)
    BY <1>2, SettledIs DEF Held
  <2>2. Dead(t) => Dead(t)'
    BY <2>1, DeadKept
  <2>3. Spent(t, old) => Spent(t, old)'
    BY <2>1, SpentKept
  <2> QED BY <2>2, <2>3 DEF Rightly
<1> QED BY <1>1, <1>2

LEMMA ExpiryStep ==
  ASSUME TokensInv, ExpiryOK, Change, Traffic
  PROVE  ExpiryOK'
<1>0. ServerOK /\ OfficeInv /\ AccountsInv /\ Device \in [Slots -> Devices] /\ NoToken = Idle.tok
  BY Constants DEF TokensInv, OfficeInv, AccountsInv, Idle
<1> SUFFICES ASSUME NEW s \in Slots, NEW op, NEW step, NEW t, NEW old,
                    op = req'[s].op, step = req'[s].step, t = req'[s].tok, old = req'[s].old
             PROVE  Rightly(op, step, t, old)'
  BY DEF ExpiryOK, Rightly, Dead, Spent
<1>1. CASE req'[s] = req[s]
  BY <1>1, ExpiryIs, RightlyKept
\* A request is refused in front of its handler.
<1>2. ASSUME t # NoToken => Held(t) /\ (step = "401" => ~Accepts(t)), UNCHANGED <<user, sessions, raced>>,
             step # "clear", op \in {"rename", "password"} => step # "done"
      PROVE  Rightly(op, step, t, old)'
  <2>1. t # NoToken /\ step = "401" => Dead(t) /\ Spent(t, old)
    BY <1>2, RefusedIsDead, DeadIsSpent
  <2> QED BY <1>2, <2>1 DEF Rightly, Dead, Spent
<1>3. ASSUME NEW q, PageAsk(s, q)
      PROVE  Rightly(op, step, t, old)'
  <2>1. req'[s] = q /\ q.tok = token[Device[s]]
    BY <1>0, <1>3 DEF PageAsk, Arrives, ServerOK
  <2> QED BY <1>0, <1>2, <1>3, <2>1 DEF PageAsk, Arrives, Held
<1>4. ASSUME NEW q, LoginAsk(s, q)
      PROVE  Rightly(op, step, t, old)'
  <2>1. req'[s] = q
    BY <1>0, <1>4 DEF LoginAsk, Arrives, ServerOK
  <2> QED BY <1>4, <2>1 DEF LoginAsk, Rightly
<1>5. ASSUME NEW q, SetsUp(s, q)
      PROVE  Rightly(op, step, t, old)'
  <2>1. req'[s] = q /\ q.tok = token[Device[s]]
    BY <1>0, <1>5 DEF SetsUp, ServerOK
  <2> QED BY <1>0, <1>2, <1>5, <2>1 DEF SetsUp, Held
<1>6. ASSUME NEW u \in Slots, NEW q, PageAsk(u, q) \/ LoginAsk(u, q) \/ SetsUp(u, q), u # s
      PROVE  req'[s] = req[s]
  BY <1>0, <1>6 DEF PageAsk, LoginAsk, Arrives, SetsUp, ServerOK
<1>7. CASE Works(s)
  <2>1. op = req[s].op /\ t = req[s].tok /\ old = req[s].old
    BY <1>0, <1>7, HandlesHandled DEF Works, Handled, Same
  <2>2. CASE t = NoToken
    BY <2>2 DEF Rightly
  <2>3. CASE t # NoToken
    <3>1. /\ op \notin {"login", "password"} => step # "401"
          /\ op = "password" /\ step = "401" => Spent(t, old)'
          /\ op = "rename" /\ step = "clear" => Dead(t)'
          /\ op = "rename" /\ step = "done" => req[s].step = "clear"
          /\ op = "password" /\ step = "done" => Dead(t)'
      BY <1>7, <2>1, <2>3, HandlesExpiry DEF Works
    <3>2. op = "rename" /\ step = "done" => Dead(t)'
      <4>1. SUFFICES ASSUME op = "rename", req[s].step = "clear" PROVE Dead(t)'
        BY <3>1
      <4>2. Held(t) /\ Settled(t)
        BY <2>1, <2>3, <4>1, SettledIs DEF Held
      <4>3. Dead(t)
        BY <2>1, <2>3, <4>1 DEF ExpiryOK
      <4> QED BY <4>2, <4>3, DeadKept
    <3> QED BY <3>1, <3>2 DEF Rightly
  <2> QED BY <2>2, <2>3
<1>8. ASSUME NEW u \in Slots, Works(u), u # s
      PROVE  req'[s] = req[s]
  BY <1>0, <1>8, HandlesHandled DEF Works, Handled
<1>9. ASSUME NEW u \in Slots, Replies(u) \/ StartsSetup(u)
      PROVE  Rightly(op, step, t, old)'
  <2>1. req'[s] = req[s] \/ req'[s].tok = NoToken \/ req'[s].op = "login"
    BY <1>0, <1>9 DEF Replies, Frees, StartsSetup, Handled, Same, At, ServerOK
  <2>2. t = NoToken \/ op = "login" => Rightly(op, step, t, old)'
    BY DEF Rightly
  <2> QED BY <1>1, <2>1, <2>2
<1> QED BY <1>1, <1>3, <1>4, <1>5, <1>6, <1>7, <1>8, <1>9 DEF Traffic, Quiet

LEMMA SignsOutRightly ==
  ASSUME TokensInv, ExpiryOK, Traffic, NEW s \in Slots, NEW t, t = token[Device[s]],
         req[s] # Idle, req'[s] = Idle, t # NoToken, token'[Device[s]] = NoToken,
         Accepts(t), req[s].tok = t, ~("renamed" \in raced)
  PROVE  req[s].op = "password" /\ req[s].old # user[t.name].pw
<1>0. /\ ServerOK /\ OfficeInv /\ Device \in [Slots -> Devices]
      /\ Sound(req[s]) /\ Idle.op = "none" /\ Idle.step = "idle" /\ req[s].op # "none"
  BY Constants DEF TokensInv, OfficeInv, AccountsInv, Idle, Sound
<1>1. PICK u \in Slots : Replies(u) \/ StartsSetup(u)
  BY <1>0 DEF Traffic, Quiet, PageAsk, LoginAsk, SetsUp, Works, pageVars
<1>2. Replies(s) /\ u = s
  <2>1. CASE StartsSetup(u)
    BY <1>0, <2>1 DEF StartsSetup, Handled
  <2>2. CASE Replies(u) /\ u # s
    BY <1>0, <2>2 DEF Replies, Frees, ServerOK
  <2> QED BY <1>1, <2>1, <2>2
<1>3. SignsOff(req[s])
  BY <1>0, <1>2 DEF Replies, ServerOK
<1>4. PICK x \in sessions : x.sid = t.sid /\ x.name = t.name
  BY DEF Accepts
<1>5. user[x.name].ver = t.ver /\ t.ver \in Nat
  BY <1>0, <1>4, HeldIs DEF Accepts, Held, Token
<1>6. ~Dead(t)
  BY <1>4, <1>5 DEF Dead
<1>7. Spent(t, req[s].old) => req[s].old # user[t.name].pw
  BY <1>4, <1>5 DEF Spent
<1> QED BY <1>3, <1>6, <1>7 DEF ExpiryOK, SignsOff

\* Module SignIn: a page loses its session only to its user, or because the server will never
\* accept it again, or to an answer of an earlier session or a mistyped old password.
THEOREM ExpiresRightlyTheorem == OfficeSpec => ExpiresRightly
<1>1. OfficeInit => TokensInv /\ ExpiryOK
  <2>1. OfficeInit => ExpiryOK
    <3> SUFFICES ASSUME OfficeInit PROVE \A s \in Slots : req[s].tok = NoToken
      BY DEF ExpiryOK
    <3>1. req = [s \in Slots |-> Idle]
      BY DEF OfficeInit, SignInInit
    <3> QED BY <3>1 DEF Idle
  <2> QED BY <2>1, TokensInvInit
<1>2. (TokensInv /\ ExpiryOK) /\ [OfficeNext]_officeVars => (TokensInv /\ ExpiryOK)'
  BY TokensInvStep, ExpiryStep
<1>3. (TokensInv /\ ExpiryOK) /\ [OfficeNext]_officeVars =>
        [\A s \in Slots :
           LET t == token[Device[s]]
               r == req[s]
           IN
           /\ r # Idle /\ req'[s] = Idle
           /\ t # NoToken /\ token'[Device[s]] = NoToken
           => \/ ~Accepts(t)
              \/ r.tok # t
              \/ r.op = "password" /\ r.old # user[t.name].pw
              \/ "renamed" \in raced]_allVars
  BY TokensInvStep, SignsOutRightly
<1> QED BY <1>1, <1>2, <1>3, PTL DEF OfficeSpec, ExpiresRightly
-----------------------------------------------------------------------------
\* Keys that a page and its account agree on.

\* As long as the token works, these are the keys of its account.
Knows(t, pub) ==
  \/ raced \cap {"upload", "renamed"} # {}
  \/ \A n \in Names : Exists(n) /\ user[n].who = t.who /\ user[n].ver = t.ver => user[n].bundle.pub = pub

PubsOK ==
  /\ \A n \in Names : user[n].bundle # NoBundle => user[n].bundle.pub # None
  /\ \A s \in Slots : req[s].bundle # NoBundle => req[s].bundle.pub # None

KeysOK ==
  /\ PubsOK
  /\ \A s \in Slots : (At(s, "login", "session") \/ At(s, "login", "done")) /\ req[s].bundle # NoBundle =>
       Knows(req[s].tok, req[s].bundle.pub)
  /\ \A s \in Slots : At(s, "upload", "done") => Knows(req[s].tok, req[s].bundle.pub)
  /\ \A d \in home \ skipped : token[d] # NoToken /\ identity[d].name = token[d].name =>
       identity[d].pub # None /\ Knows(token[d], identity[d].pub)

LEMMA KnowsKept ==
  ASSUME TokensInv, Change, NEW t, Held(t), NEW pub, pub # None, Knows(t, pub)
  PROVE  Knows(t, pub)'
<1> SUFFICES ASSUME NEW k \in Names, Exists(k)', user'[k].who = t.who, user'[k].ver = t.ver,
                    raced' \cap {"upload", "renamed"} = {}
             PROVE  user'[k].bundle.pub = pub
  BY DEF Knows
<1>0. /\ user \in [Names -> Row \cup {Nobody}] /\ t \in Token /\ t.ver \in Nat /\ OfficeInv
      /\ raced \cap {"upload", "renamed"} = {} /\ NoBundle.pub = None
      /\ \A n \in Names : user[n].ver \in Nat
  BY HeldIs, RowTypes DEF TokensInv, OfficeInv, AccountsInv, ServerOK, Token, Change, NoBundle
<1>1. CASE user'[k] = user[k]
  BY <1>0, <1>1 DEF Knows, Exists
<1>2. ASSUME NEW n \in Names, NEW row \in Row, Rewrites(n, row), user'[k] # user[k]
      PROVE  user'[k].bundle.pub = pub
  <2>1. k = n /\ user'[k] = row /\ Exists(n) /\ row.who = user[n].who
    BY <1>0, <1>2 DEF Rewrites, Sets
  <2>2. t.ver <= user[n].ver
    BY <1>0, <2>1 DEF TokensInv, TokensOK, Bound
  <2>3. row.ver # user[n].ver + 1
    BY <1>0, <2>1, <2>2
  <2>4. row.ver = user[n].ver /\ (row.bundle = user[n].bundle \/ user[n].bundle = NoBundle)
    BY <1>0, <1>2, <2>3 DEF Rewrites
  <2>5. user[n].bundle.pub = pub
    BY <1>0, <2>1, <2>4 DEF Knows
  <2> QED BY <1>0, <2>1, <2>4, <2>5
<1>3. ASSUME NEW m \in Names, NEW n \in Names, Renamed(m, n), user'[k] # user[k]
      PROVE  FALSE
  <2>1. Exists(m) /\ user[m].who = t.who /\ user'[k].ver = user[m].ver + 1
    BY <1>0, <1>3, MovedAway DEF Exists
  <2>2. t.ver <= user[m].ver
    BY <1>0, <2>1 DEF TokensInv, TokensOK, Bound
  <2> QED BY <1>0, <2>1, <2>2
<1>4. ASSUME NEW n \in Names, NEW row \in Row, Enrols(n, row), user'[k] # user[k]
      PROVE  FALSE
  <2>1. row.who = t.who
    BY <1>0, <1>4, Enrolled
  <2>2. WhoUsed(row.who)
    BY <1>0, <2>1 DEF WhoUsed
  <2> QED BY <1>4, <2>2, EnrolledId DEF TokensInv
<1>5. ASSUME NEW n \in Names, Removed(n)
      PROVE  user'[k] = user[k]
  BY <1>0, <1>5 DEF Removed, Exists
<1> QED BY <1>1, <1>2, <1>3, <1>4, <1>5 DEF Change, Joins

\* Keys that are stored are those of the account the token was issued for.
LEMMA UploadKnows ==
  ASSUME TokensInv, NEW s \in Slots, UploadUpdate(s), NEW t, t = req[s].tok, NEW pub, pub = req[s].bundle.pub
  PROVE  Knows(t, pub)'
<1> DEFINE n == req[s].name
<1>0. AccountsInv /\ Sound(req[s]) /\ At(s, "upload", "update") /\ user \in [Names -> Row \cup {Nobody}]
  BY DEF TokensInv, OfficeInv, AccountsInv, ServerOK, UploadUpdate
<1>1. Held(t) /\ t.name = n
  BY <1>0 DEF Held, Sound, At
<1>2. t \in Token
  BY <1>0, <1>1, HeldIs DEF AccountsInv
<1>3. n \in Names /\ (Exists(n) \/ UNCHANGED user)
      /\ \/ UNCHANGED user
         \/ user'[n].bundle = req[s].bundle /\ \A k \in Names \ {n} : user'[k] = user[k]
  BY <1>0, UploadIs DEF Patches, Sets
<1>4. ~Exists(n) => UNCHANGED user
  BY <1>0, UploadIs DEF Patches, Sets
<1>5. Exists(n) => user'[n].bundle = req[s].bundle
  <2>1. SUFFICES ASSUME Exists(n) PROVE user'[n].bundle = req[s].bundle
    OBVIOUS
  <2> QED BY <1>0, <2>1, UploadIs DEF Patches, Sets
<1> SUFFICES ASSUME NEW k \in Names, Exists(k)', user'[k].who = t.who, user'[k].ver = t.ver
             PROVE  user'[k].bundle.pub = pub
  BY DEF Knows
<1>6. CASE user'[k] = user[k]
  <2>1. k = n /\ Exists(k)
    BY <1>1, <1>2, <1>6 DEF TokensInv, TokensOK, Bound, Exists
  <2> QED BY <1>5, <2>1
<1>7. CASE user'[k] # user[k]
  BY <1>3, <1>4, <1>5, <1>7
<1> QED BY <1>6, <1>7

LEMMA IssuedKnows ==
  ASSUME TokensInv, NEW s \in Slots, IssuedTo(s), NEW t, t = req'[s].tok, NEW pub, pub = req'[s].bundle.pub
  PROVE  Knows(t, pub)'
<1>1. PICK n \in Names : /\ Exists(n) /\ t.who = user[n].who /\ req'[s].bundle = user[n].bundle /\ UNCHANGED user
  BY DEF IssuedTo
<1>2. \A k \in Names : Exists(k) /\ user[k].who = t.who => k = n
  BY <1>1 DEF TokensInv, IdsOK, Distinct
<1> QED BY <1>1, <1>2 DEF Knows, Exists

\* Where the keys of a page come from.
LEMMA PageFrom ==
  ASSUME OfficeInv, [OfficeNext]_officeVars, NEW d \in Devices, d \in home' \ skipped'
  PROVE  \/ d \in home \ skipped /\ token'[d] = token[d] /\ identity'[d] = identity[d]
         \/ \E s \in Slots :
              /\ Device[s] = d /\ UNCHANGED <<user, raced>> /\ identity'[d].pub = req[s].bundle.pub
              /\ \/ At(s, "login", "done") /\ req[s].bundle # NoBundle /\ token'[d] = req[s].tok
                 \/ At(s, "upload", "done") /\ token'[d] \in {req[s].tok, NoToken}
<1> DEFINE Stayed == d \in home \ skipped /\ token'[d] = token[d] /\ identity'[d] = identity[d]
<1>0. AccountsInv /\ ServerOK /\ SigningOK /\ Device \in [Slots -> Devices]
  BY Constants DEF OfficeInv, AccountsInv
<1>1. CASE UNCHANGED <<token, home, identity, skipped>>
  BY <1>1
<1>2. ASSUME NEW e \in Devices, Expires(e) \/ LogsOut(e)
      PROVE  Stayed
  BY <1>0, <1>2 DEF Expires, LogsOut, ServerOK
<1>3. ASSUME NEW e \in Devices, e # d, token' = [token EXCEPT ![e] = token'[e]],
             home' \subseteq home \cup {e}, skipped \ {e} \subseteq skipped',
             identity' = [identity EXCEPT ![e] = identity'[e]]
      PROVE  Stayed
  BY <1>0, <1>3 DEF ServerOK
<1>4. ASSUME NEW s \in Slots, AnswerLost(s)
      PROVE  Stayed
  BY <1>0, <1>4 DEF AnswerLost, EntersWithoutKeys, ServerOK
<1>5. ASSUME NEW s \in Slots, Answer(s), ~At(s, "login", "done")
      PROVE  Stayed \/ (/\ Device[s] = d /\ UNCHANGED <<user, raced>> /\ identity'[d].pub = req[s].bundle.pub
                        /\ At(s, "upload", "done") /\ token'[d] \in {req[s].tok, NoToken})
  <2>1. Answered(s) /\ UNCHANGED <<user, raced>>
    BY <1>5 DEF Answer
  <2>2. CASE req[s].op = "upload" /\ req[s].step = "done"
    <3>1. Enters(Device[s], req[s].name, req[s].bundle.pub) /\ UNCHANGED token
      BY <2>1, <2>2 DEF Answered, SignsOut, Enters
    <3>2. token[Device[s]] \in {req[s].tok, NoToken}
      BY <1>0, <2>2 DEF SigningOK, Holding
    <3>3. CASE Device[s] = d
      <4>1. identity'[d].pub = req[s].bundle.pub
        BY <1>0, <3>1, <3>3 DEF Enters, ServerOK
      <4> QED BY <2>1, <2>2, <3>1, <3>2, <3>3, <4>1 DEF At
    <3>4. CASE Device[s] # d
      BY <1>0, <3>1, <3>4 DEF Enters, ServerOK
    <3> QED BY <3>3, <3>4
  <2>3. CASE req[s].op = "upload" /\ req[s].step = "401"
    <3>1. token' = [token EXCEPT ![Device[s]] = NoToken] /\ EntersWithoutKeys(Device[s])
      BY <2>1, <2>3 DEF Answered, SignsOut
    <3> QED BY <1>0, <3>1 DEF EntersWithoutKeys, ServerOK
  <2>4. CASE ~(req[s].op = "upload" /\ req[s].step \in {"done", "401"})
    <3>1. \/ UNCHANGED <<token, home, identity, skipped>>
          \/ Expires(Device[s]) \/ LogsOut(Device[s])
      BY <2>1, <2>4 DEF Answered, SignsOut
    <3> QED BY <1>0, <1>1, <1>2, <3>1
  <2> QED BY <2>2, <2>3, <2>4
<1>6. ASSUME NEW s \in Slots, Answer(s), At(s, "login", "done")
      PROVE  Stayed \/ (/\ Device[s] = d /\ UNCHANGED <<user, raced>> /\ identity'[d].pub = req[s].bundle.pub
                        /\ req[s].bundle # NoBundle /\ token'[d] = req[s].tok)
  <2>1. LoggedIn(s) /\ UNCHANGED <<user, raced>> /\ token' = [token EXCEPT ![Device[s]] = req[s].tok]
    BY <1>6 DEF Answer, LoggedIn
  <2>2. Device[s] \notin home
    BY <1>0, <1>6 DEF SigningOK, Signing, At
  <2>3. CASE req[s].bundle = NoBundle
    <3>1. UNCHANGED <<home, identity, skipped>>
      BY <2>1, <2>3 DEF LoggedIn
    <3> QED BY <1>0, <2>1, <2>2, <3>1 DEF ServerOK
  <2>4. CASE req[s].bundle # NoBundle /\ Enters(Device[s], req[s].name, req[s].bundle.pub)
    <3>1. CASE Device[s] = d
      BY <1>0, <2>1, <2>4, <3>1 DEF Enters, ServerOK
    <3>2. CASE Device[s] # d
      BY <1>0, <2>1, <2>4, <3>2 DEF Enters, ServerOK
    <3> QED BY <3>1, <3>2
  <2>5. CASE req[s].bundle # NoBundle /\ EntersWithoutKeys(Device[s])
    BY <1>0, <2>1, <2>5 DEF EntersWithoutKeys, ServerOK
  <2> QED BY <2>1, <2>3, <2>4, <2>5 DEF LoggedIn
<1>7. CASE UNCHANGED pageVars
  BY <1>1, <1>7 DEF pageVars
<1>8. ASSUME Outside PROVE Stayed
  BY <1>1, <1>2, <1>8 DEF Outside
<1>9. CASE SignInNext
  <2>1. ASSUME NEW e \in Devices, LogOut(e) PROVE Stayed
    BY <1>2, <2>1 DEF LogOut
  <2>2. ASSUME NEW s \in Slots, \/ SubmitLogin(s) \/ Requests(s) \/ AdminRequests(s) \/ Setup(s)
                                \/ Handles(s) /\ UNCHANGED pageVars
        PROVE  UNCHANGED pageVars
    BY <2>2 DEF SubmitLogin, Requests, AdminRequests, Setup
  <2>3. ASSUME NEW s \in Slots, Answer(s)
        PROVE  \/ Stayed
               \/ \E u \in Slots :
                    /\ Device[u] = d /\ UNCHANGED <<user, raced>> /\ identity'[d].pub = req[u].bundle.pub
                    /\ \/ At(u, "login", "done") /\ req[u].bundle # NoBundle /\ token'[d] = req[u].tok
                       \/ At(u, "upload", "done") /\ token'[d] \in {req[u].tok, NoToken}
    BY <1>5, <1>6, <2>3
  <2> QED BY <1>4, <1>7, <1>9, <2>1, <2>2, <2>3 DEF SignInNext
<1>10. CASE UNCHANGED officeVars
  BY <1>7, <1>10 DEF officeVars, allVars
<1>11. CASE ApprovalsStep
  BY <1>8, <1>11, ApprovalsOutside DEF OfficeInv
<1>12. CASE LibraryStep /\ LeavesDesk
  BY <1>8, <1>12, LibraryOutside DEF OfficeInv
<1> QED BY <1>9, <1>10, <1>11, <1>12 DEF OfficeNext
-----------------------------------------------------------------------------
\* They stay agreed.

LEMMA FreshKey ==
  ASSUME OfficeInv, Traffic, asked' = asked + 1
  PROVE  asked + 1 # None
<1>1. asked \in Nat
  BY AskedGrows
<1> QED BY <1>1 DEF None

\* Where the keys of a request come from.
LEMMA RequestKeys ==
  ASSUME OfficeInv, Traffic, NEW s \in Slots, req'[s].bundle # NoBundle
  PROVE  \/ req'[s].bundle = req[s].bundle
         \/ req'[s].bundle.pub # None /\ ~Signing(req'[s])
         \/ req'[s].bundle.pub # None /\ req'[s].op = "upload" /\ req'[s].step # "done"
         \/ IssuedTo(s) /\ \E n \in Names : req'[s].bundle = user[n].bundle
<1>0. ServerOK /\ AccountsInv /\ Idle.bundle = NoBundle
  BY DEF OfficeInv, AccountsInv, Idle
<1>1. ASSUME NEW u \in Slots, NEW q, PageAsk(u, q)
      PROVE  req'[s] = req[s] \/ (req'[s].bundle.pub # None /\ ~Signing(req'[s]))
  <2>1. req'[u] = q /\ \A v \in Slots \ {u} : req'[v] = req[v]
    BY <1>0, <1>1 DEF PageAsk, Arrives, ServerOK
  <2>2. asked + 1 # None
    BY <1>1, FreshKey DEF PageAsk, Arrives
  <2> QED BY <1>1, <2>1, <2>2 DEF PageAsk
<1>2. ASSUME NEW u \in Slots, NEW q, LoginAsk(u, q), UNCHANGED pageVars
      PROVE  req'[s] = req[s] \/ (IssuedTo(s) /\ \E n \in Names : req'[s].bundle = user[n].bundle)
  <2>1. req'[u] = q /\ \A v \in Slots \ {u} : req'[v] = req[v]
    BY <1>0, <1>2 DEF LoginAsk, Arrives, ServerOK
  <2>2. CASE u = s
    <3>1. q.step = "session" /\ q.name \in Names /\ q.bundle = user[q.name].bundle
      BY <1>2, <2>1, <2>2 DEF LoginAsk
    <3>2. IssuedTo(s)
      BY <1>2, <2>1, <2>2, <3>1 DEF LoginAsk, Arrives, IssuedTo, pageVars
    <3> QED BY <2>1, <2>2, <3>1, <3>2
  <2> QED BY <2>1, <2>2
<1>3. ASSUME NEW u \in Slots, NEW q, SetsUp(u, q)
      PROVE  req'[s] = req[s] \/ (req'[s].bundle.pub # None /\ req'[s].op = "upload" /\ req'[s].step # "done")
  <2>1. req'[u] = q /\ \A v \in Slots \ {u} : req'[v] = req[v]
    BY <1>0, <1>3 DEF SetsUp, ServerOK
  <2>2. asked + 1 # None
    BY <1>3, FreshKey DEF SetsUp
  <2> QED BY <1>3, <2>1, <2>2 DEF SetsUp
<1>4. ASSUME NEW u \in Slots, Works(u)
      PROVE  req'[s].bundle = req[s].bundle
  BY <1>0, <1>4, HandlesHandled DEF Works, Handled, Same
<1>5. ASSUME NEW u \in Slots, Replies(u) \/ StartsSetup(u)
      PROVE  req'[s].bundle = req[s].bundle
  BY <1>0, <1>5 DEF Replies, Frees, StartsSetup, Handled, Same, ServerOK
<1> QED BY <1>1, <1>2, <1>3, <1>4, <1>5 DEF Traffic, Quiet

LEMMA PubsStep ==
  ASSUME OfficeInv, PubsOK, Change, Traffic
  PROVE  PubsOK'
<1>0. user \in [Names -> Row \cup {Nobody}] /\ Nobody.bundle = NoBundle /\ OfficeInv
  BY DEF OfficeInv, AccountsInv, ServerOK, Nobody
<1>1. ASSUME NEW k \in Names, user'[k].bundle # NoBundle
      PROVE  user'[k].bundle.pub # None
  <2>1. ASSUME NEW n \in Names, NEW row \in Row, Rewrites(n, row), user'[k] # user[k]
        PROVE  user'[k].bundle.pub # None
    <3>1. k = n /\ user'[k] = row
      BY <1>0, <2>1 DEF Rewrites, Sets
    <3>2. row.bundle = user[n].bundle \/ \E s \in Slots : row.bundle = req[s].bundle
      BY <1>1, <2>1, <3>1 DEF Rewrites
    <3> QED BY <1>1, <3>1, <3>2 DEF PubsOK
  <2>2. ASSUME NEW m \in Names, NEW n \in Names, Renamed(m, n), user'[k] # user[k]
        PROVE  user'[k].bundle.pub # None
    <3>1. user'[k] = Nobody \/ user'[k].bundle = user[m].bundle
      BY <1>0, <2>2 DEF Renamed, Moves
    <3> QED BY <1>0, <1>1, <3>1 DEF PubsOK
  <2>3. ASSUME NEW n \in Names, NEW row \in Row, Enrols(n, row), user'[k] # user[k]
        PROVE  user'[k].bundle.pub # None
    <3>1. user'[k] = row
      BY <1>0, <2>3 DEF Enrols, Adds
    <3> QED BY <1>1, <2>3, <3>1 DEF Enrols
  <2>4. ASSUME NEW n \in Names, Removed(n)
        PROVE  user'[k] = user[k]
    BY <1>0, <1>1, <2>4 DEF Removed
  <2>5. CASE user'[k] = user[k]
    BY <1>1, <2>5 DEF PubsOK
  <2> QED BY <2>1, <2>2, <2>3, <2>4, <2>5 DEF Change, Joins
<1>2. ASSUME NEW s \in Slots, req'[s].bundle # NoBundle
      PROVE  req'[s].bundle.pub # None
  BY <1>2, RequestKeys DEF PubsOK
<1> QED BY <1>1, <1>2 DEF PubsOK

\* A login that is done was under way.
LEMMA DoneFrom ==
  ASSUME OfficeInv, Traffic, NEW s \in Slots, At(s, "login", "done")'
  PROVE  /\ At(s, "login", "session") \/ At(s, "login", "done")
         /\ req'[s].tok = req[s].tok /\ req'[s].bundle = req[s].bundle
<1>0. ServerOK /\ AccountsInv /\ Idle.op # "login"
  BY DEF OfficeInv, AccountsInv, Idle
<1>1. CASE req'[s] = req[s]
  BY <1>1 DEF At
<1>2. ASSUME NEW u \in Slots, NEW q, PageAsk(u, q) \/ LoginAsk(u, q) \/ SetsUp(u, q)
      PROVE  req'[s] = req[s]
  BY <1>0, <1>2 DEF PageAsk, Arrives, LoginAsk, SetsUp, ServerOK, At, Signing
<1>3. ASSUME NEW u \in Slots, Works(u)
      PROVE  /\ At(s, "login", "session") \/ At(s, "login", "done")
             /\ req'[s].tok = req[s].tok /\ req'[s].bundle = req[s].bundle
  <2>1. (\E step \in Steps : Handled(u, step)) /\ (req[u].op = "login" => req[u].step = "session")
    BY <1>0, <1>3, HandlesHandled DEF Works
  <2> QED BY <2>1 DEF Handled, Same, At
<1>4. ASSUME NEW u \in Slots, Replies(u) \/ StartsSetup(u)
      PROVE  req'[s] = req[s]
  BY <1>0, <1>4 DEF Replies, Frees, StartsSetup, Handled, At, ServerOK
<1> QED BY <1>1, <1>2, <1>3, <1>4 DEF Traffic, Quiet

LEMMA UploadFrom ==
  ASSUME OfficeInv, Traffic, NEW s \in Slots, At(s, "upload", "done")'
  PROVE  /\ req'[s].tok = req[s].tok /\ req'[s].bundle = req[s].bundle
         /\ UploadUpdate(s) \/ At(s, "upload", "done")
<1>0. ServerOK /\ AccountsInv /\ Idle.op # "upload"
  BY DEF OfficeInv, AccountsInv, Idle
<1>1. CASE req'[s] = req[s]
  BY <1>1 DEF At
<1>2. ASSUME NEW u \in Slots, NEW q, PageAsk(u, q) \/ LoginAsk(u, q) \/ SetsUp(u, q)
      PROVE  req'[s] = req[s]
  BY <1>0, <1>2 DEF PageAsk, Arrives, LoginAsk, SetsUp, ServerOK, At, Signing
<1>3. ASSUME NEW u \in Slots, Works(u)
      PROVE  /\ req'[s].tok = req[s].tok /\ req'[s].bundle = req[s].bundle
             /\ UploadUpdate(s) \/ At(s, "upload", "done")
  <2>1. (\E step \in Steps : Handled(u, step)) /\ (req[u].op = "upload" => UploadUpdate(u))
    BY <1>0, <1>3, HandlesHandled DEF Works
  <2> QED BY <2>1 DEF Handled, Same, At
<1>4. ASSUME NEW u \in Slots, Replies(u) \/ StartsSetup(u)
      PROVE  req'[s] = req[s]
  BY <1>0, <1>4 DEF Replies, Frees, StartsSetup, Handled, At, ServerOK
<1> QED BY <1>1, <1>2, <1>3, <1>4 DEF Traffic, Quiet

LEMMA KeysOKStep ==
  ASSUME TokensInv, TokensInv', KeysOK, [OfficeNext]_officeVars, Change, Traffic
  PROVE  KeysOK'
<1>0. OfficeInv /\ OfficeInv' /\ \A s \in Slots : Sound(req[s])
  BY DEF TokensInv, OfficeInv, AccountsInv
<1>1. PubsOK'
  BY <1>0, PubsStep DEF KeysOK
<1>2. ASSUME NEW s \in Slots, NEW t, NEW pub, t = req[s].tok, pub = req[s].bundle.pub,
             req[s].bundle # NoBundle, At(s, "login", "session") \/ At(s, "login", "done")
      PROVE  Knows(t, pub) /\ Knows(t, pub)' /\ pub # None
  <2>1. Knows(t, pub) /\ pub # None
    BY <1>2 DEF KeysOK, PubsOK
  <2>2. Held(t)
    BY <1>0, <1>2 DEF Sound, At, Held
  <2> QED BY <2>1, <2>2, KnowsKept
<1>3. ASSUME NEW s \in Slots, NEW t, NEW pub, t = req[s].tok, pub = req[s].bundle.pub, At(s, "upload", "done")
      PROVE  Knows(t, pub) /\ Knows(t, pub)' /\ pub # None
  <2>1. Knows(t, pub) /\ pub # None
    BY <1>0, <1>3 DEF KeysOK, PubsOK, Sound, At
  <2>2. Held(t)
    BY <1>0, <1>3 DEF Sound, At, Held
  <2> QED BY <2>1, <2>2, KnowsKept
<1>4. ASSUME NEW s \in Slots, NEW t, NEW pub, t = req'[s].tok, pub = req'[s].bundle.pub,
             req'[s].bundle # NoBundle, At(s, "login", "session")' \/ At(s, "login", "done")'
      PROVE  Knows(t, pub)'
  <2>1. CASE IssuedTo(s)
    BY <1>4, <2>1, IssuedKnows
  <2>2. CASE ~IssuedTo(s)
    <3>1. /\ At(s, "login", "session") \/ At(s, "login", "done")
          /\ req'[s].tok = req[s].tok /\ req'[s].bundle = req[s].bundle
      BY <1>0, <1>4, <2>2, LoginFrom, DoneFrom
    <3> QED BY <1>2, <1>4, <3>1
  <2> QED BY <2>1, <2>2
<1>5. ASSUME NEW s \in Slots, NEW t, NEW pub, t = req'[s].tok, pub = req'[s].bundle.pub, At(s, "upload", "done")'
      PROVE  Knows(t, pub)'
  <2>1. /\ t = req[s].tok /\ pub = req[s].bundle.pub
        /\ UploadUpdate(s) \/ At(s, "upload", "done")
    BY <1>0, <1>5, UploadFrom
  <2> QED BY <1>3, <2>1, UploadKnows
<1>6. ASSUME NEW d \in Devices, d \in home' \ skipped', NEW t, NEW pub, t = token'[d], pub = identity'[d].pub,
             t # NoToken, identity'[d].name = t.name
      PROVE  pub # None /\ Knows(t, pub)'
  <2>1. CASE d \in home \ skipped /\ token'[d] = token[d] /\ identity'[d] = identity[d]
    <3>1. pub # None /\ Knows(t, pub)
      BY <1>6, <2>1 DEF KeysOK
    <3>2. Held(t)
      BY <1>6, <2>1 DEF Held
    <3> QED BY <3>1, <3>2, KnowsKept
  <2>2. ASSUME NEW s \in Slots, pub = req[s].bundle.pub, At(s, "login", "done"), req[s].bundle # NoBundle, t = req[s].tok
        PROVE  pub # None /\ Knows(t, pub)'
    BY <1>2, <2>2
  <2>3. ASSUME NEW s \in Slots, pub = req[s].bundle.pub, At(s, "upload", "done"), t = req[s].tok
        PROVE  pub # None /\ Knows(t, pub)'
    BY <1>3, <2>3
  <2> QED BY <1>0, <1>6, <2>1, <2>2, <2>3, PageFrom
<1>7. home' \subseteq Devices
  BY <1>0 DEF OfficeInv, AccountsInv, ServerOK
<1>8. \A s \in Slots : (At(s, "login", "session") \/ At(s, "login", "done"))' /\ req'[s].bundle # NoBundle =>
        Knows(req[s].tok, req[s].bundle.pub)'
  BY <1>4 DEF Knows
<1>9. \A s \in Slots : At(s, "upload", "done")' => Knows(req[s].tok, req[s].bundle.pub)'
  BY <1>5 DEF Knows
<1>10. \A d \in home' \ skipped' : token'[d] # NoToken /\ identity'[d].name = token'[d].name =>
         identity'[d].pub # None /\ Knows(token[d], identity[d].pub)'
  BY <1>6, <1>7 DEF Knows
<1> QED BY <1>1, <1>8, <1>9, <1>10 DEF KeysOK

LEMMA InitKeys == OfficeInit => KeysOK
<1> SUFFICES ASSUME OfficeInit PROVE KeysOK
  OBVIOUS
<1>0. OfficeInv /\ SignInInit /\ req = [s \in Slots |-> Idle]
  <2>1. OfficeInv /\ SignInInit
    BY InitTypes DEF OfficeInit
  <2>2. req = [s \in Slots |-> Idle]
    BY <2>1 DEF SignInInit
  <2> QED BY <2>1, <2>2
<1>1. \A s \in Slots : req[s].bundle = NoBundle /\ req[s].op = "none"
  BY <1>0 DEF Idle
<1>2. ASSUME NEW n \in Names
      PROVE  /\ Exists(n) => user[n].who = n
             /\ user[n].bundle # NoBundle => user[n].bundle.pub = n
  <2>1. \A r \in Rows(n) : r = Nobody \/ r.who = n
    BY DEF Rows
  <2>2. \A r \in Rows(n) : r.bundle # NoBundle => r.bundle.pub = n
    BY DEF Rows, Nobody
  <2>3. user[n] \in Rows(n)
    BY <1>0 DEF SignInInit
  <2> QED BY <2>1, <2>2, <2>3 DEF Exists
<1>3. ASSUME NEW d \in home
      PROVE  identity[d].pub # None /\ Knows(token[d], identity[d].pub)
  <2>1. d \in Devices /\ token[d] # NoToken /\ user[token[d].name].bundle # NoBundle
    BY <1>0 DEF SignInInit
  <2>2. PICK n \in Names : token[d].name = n /\ token[d].who = n
    BY <1>0, <2>1 DEF SignInInit, SignedIn
  <2>3. identity[d].pub = n
    BY <1>0, <2>1, <2>2 DEF SignInInit
  <2>4. user[n].bundle.pub = n
    BY <1>2, <2>1, <2>2
  <2> QED BY <1>2, <2>2, <2>3, <2>4, Constants DEF Knows
<1> QED BY <1>1, <1>2, <1>3, Constants DEF KeysOK, PubsOK, At

\* Module SignIn: a page that is signed in with keys of its account has those the others
\* encrypt for, unless two first sign-ins crossed or its last sign-in did without keys.
THEOREM IdentityIsPublishedTheorem == OfficeSpec => []IdentityIsPublished
<1>1. TokensInv /\ KeysOK => IdentityIsPublished
  <2> SUFFICES ASSUME TokensInv, KeysOK, NEW d \in home \ skipped, Accepts(token[d]),
                      identity[d].name = token[d].name, raced \cap {"upload", "renamed"} = {}
               PROVE  identity[d].pub = user[token[d].name].bundle.pub
    BY DEF IdentityIsPublished
  <2> DEFINE t == token[d]
  <2>1. t # NoToken /\ Exists(t.name) /\ user[t.name].ver = t.ver
    BY DEF Accepts
  <2>2. Held(t) /\ Knows(t, identity[d].pub)
    BY <2>1 DEF Held, KeysOK, TokensInv, OfficeInv, AccountsInv, ServerOK
  <2>3. t.name \in Names
    BY <2>2, HeldIs DEF TokensInv, OfficeInv, AccountsInv, Token
  <2>4. user[t.name].who = t.who
    BY <2>2, HeldIsCurrent DEF TokensInv, TokenIsCurrent
  <2> QED BY <2>1, <2>2, <2>3, <2>4 DEF Knows
<1>2. (TokensInv /\ KeysOK) /\ [OfficeNext]_officeVars => (TokensInv /\ KeysOK)'
  BY TokensInvStep, KeysOKStep
<1> QED BY <1>1, <1>2, TokensInvInit, InitKeys, PTL DEF OfficeSpec

-----------------------------------------------------------------------------
\* Telephone numbers.

\* What a page of the administrators shows, is about to show or has decided about.
OnPage(row) ==
  \/ \E d \in Devices : row \in listed[d]
  \/ \E s \in Slots : JobAt(s, "desk", "done") /\ row \in job[s].reply.rows
  \/ \E s \in Slots : job[s].op = "verify" /\ job[s].arg = row

Shown(row) == row.kind = "phone" /\ OnPage(row)

\* An id that a request will give to a pending number.
Pledge(s, w) ==
  \/ JobAt(s, "admit", "update") /\ w = job[s].arg.who
  \/ job[s].op = "phone" /\ job[s].step \in {"check", "insert"} /\ w = job[s].arg.id

WantedOK ==
  \A r \in wanted :
    /\ r = [id |-> r.id, for |-> r.for, number |-> r.number]
    /\ r.id \in Nat /\ r.id <= asked
    /\ \A q \in wanted : q.id = r.id => q = r

PledgesOK ==
  \A s \in Slots : \A w : Pledge(s, w) =>
    /\ w \in Nat /\ w <= asked
    /\ \A r \in wanted : r.id # w
    /\ \A row : Shown(row) => row.id # w
    /\ \A u \in Slots : Pledge(u, w) => u = s

\* A row stands for a request of the same person, with the number it shows unless that
\* was replaced.
ShownOK ==
  \A row : Shown(row) =>
    /\ row.id \in Nat /\ row.id <= asked
    /\ \A r \in wanted : r.id = row.id => r.for = row.for /\ (r.number = row.number \/ row.for \in replaced)

PhonesOK == \A w \in DOMAIN phone \ replaced : <<w, phone[w]>> \in vetted

DeskInv == WantedOK /\ PledgesOK /\ ShownOK /\ PhonesOK

\* Nothing comes to the pages, and no id is promised.
NoneShown == \A row : Shown(row)' => Shown(row)
NonePledged == \A s \in Slots : \A w : Pledge(s, w)' => Pledge(s, w)

LEMMA DeskKeeps ==
  ASSUME DeskInv, asked \in Nat, asked' \in Nat, asked <= asked', NoneShown, NonePledged,
         wanted' \subseteq wanted, replaced \subseteq replaced', PhonesOK'
  PROVE  DeskInv'
<1>1. WantedOK'
  BY DEF DeskInv, WantedOK
<1>2. PledgesOK'
  <2> SUFFICES ASSUME NEW s \in Slots, NEW w, Pledge(s, w)'
               PROVE  /\ w \in Nat /\ w <= asked'
                      /\ \A r \in wanted' : r.id # w
                      /\ \A row : Shown(row)' => row.id # w
                      /\ \A u \in Slots : Pledge(u, w)' => u = s
    BY DEF PledgesOK
  <2>1. Pledge(s, w)
    BY DEF NonePledged
  <2>2. /\ w \in Nat /\ w <= asked
        /\ \A r \in wanted : r.id # w
        /\ \A row : Shown(row) => row.id # w
        /\ \A u \in Slots : Pledge(u, w) => u = s
    BY <2>1 DEF DeskInv, PledgesOK
  <2>3. w <= asked'
    BY <2>2
  <2> QED BY <2>2, <2>3 DEF NoneShown, NonePledged
<1>3. ShownOK'
  <2> SUFFICES ASSUME NEW row, Shown(row)'
               PROVE  /\ row.id \in Nat /\ row.id <= asked'
                      /\ \A r \in wanted' : r.id = row.id =>
                           r.for = row.for /\ (r.number = row.number \/ row.for \in replaced')
    BY DEF ShownOK
  <2>1. Shown(row)
    BY DEF NoneShown
  <2>2. /\ row.id \in Nat /\ row.id <= asked
        /\ \A r \in wanted : r.id = row.id => r.for = row.for /\ (r.number = row.number \/ row.for \in replaced)
    BY <2>1 DEF DeskInv, ShownOK
  <2>3. row.id <= asked'
    BY <2>2
  <2> QED BY <2>2, <2>3
<1> QED BY <1>1, <1>2, <1>3 DEF DeskInv

\* Steps of the sign-in and the library, and of whoever does nothing.
LEMMA AllStayDesk ==
  ASSUME \A t \in Slots : Stays(t), \A d \in Devices : listed'[d] \subseteq listed[d]
  PROVE  NoneShown /\ NonePledged
<1>1. ASSUME NEW row, OnPage(row)' PROVE OnPage(row)
  BY <1>1 DEF OnPage, JobAt, Stays, DeskOps
<1>2. ASSUME NEW s \in Slots, NEW w, Pledge(s, w)' PROVE Pledge(s, w)
  BY <1>2 DEF Pledge, JobAt, Stays, DeskOps
<1> QED BY <1>1, <1>2 DEF NoneShown, NonePledged, Shown

LEMMA AllStayDeskInv ==
  ASSUME DeskInv, asked \in Nat, asked' \in Nat, asked <= asked',
         \A t \in Slots : Stays(t), \A d \in Devices : listed'[d] \subseteq listed[d],
         UNCHANGED <<phone, wanted, vetted, replaced>>
  PROVE  DeskInv'
<1>1. PhonesOK'
  BY DEF DeskInv, PhonesOK
<1> QED BY <1>1, AllStayDesk, DeskKeeps

\* What is asked for.
LEMMA AskDeskInv ==
  ASSUME JobsInv, DeskInv, asked \in Nat, NEW s \in Slots, NEW j, DeskAsk(s, j), Device[s] \in Devices
  PROVE  DeskInv'
<1>1. job'[s] = j /\ Others(s)
  BY SendsStays DEF DeskAsk
<1>2. /\ UNCHANGED <<phone, wanted, vetted, replaced, listed>>
      /\ asked' \in Nat /\ asked <= asked'
  BY DEF DeskAsk, approvalVars
<1>3. ASSUME NEW row, Shown(row)' PROVE Shown(row)
  <2>1. row.kind = "phone" /\ OnPage(row)'
    BY <1>3 DEF Shown
  <2>2. CASE \E d \in Devices : row \in listed'[d]
    BY <1>2, <2>1, <2>2 DEF Shown, OnPage
  <2>3. ASSUME NEW u \in Slots, JobAt(u, "desk", "done")', row \in job'[u].reply.rows
        PROVE  OnPage(row)
    <3>1. u # s
      BY <1>1, <2>3 DEF DeskAsk, JobAt
    <3>2. Stays(u)
      BY <1>1, <3>1 DEF Others
    <3> QED BY <2>3, <3>2 DEF OnPage, JobAt, Stays, DeskOps
  <2>4. ASSUME NEW u \in Slots, job'[u].op = "verify", job'[u].arg = row
        PROVE  OnPage(row)
    <3>1. CASE u = s
      BY <1>1, <2>4, <3>1 DEF DeskAsk, OnPage
    <3>2. CASE u # s
      BY <1>1, <2>4, <3>2 DEF Others, Stays, OnPage, DeskOps
    <3> QED BY <3>1, <3>2
  <2> QED BY <2>1, <2>2, <2>3, <2>4 DEF Shown, OnPage
<1>4. PhonesOK'
  BY <1>2 DEF DeskInv, PhonesOK
<1>5. ASSUME NEW u \in Slots \ {s}, NEW w, Pledge(u, w)' PROVE Pledge(u, w)
  BY <1>1, <1>5 DEF Others, Pledge, JobAt, Stays, DeskOps
<1>6. CASE j.op \notin {"phone", "admit"}
  <2>1. \A w : ~Pledge(s, w)'
    BY <1>1, <1>6 DEF Pledge, JobAt
  <2>2. NonePledged
    BY <1>5, <2>1 DEF NonePledged
  <2> QED BY <1>2, <1>3, <1>4, <2>2, DeskKeeps DEF NoneShown
<1>7. CASE j.op \in {"phone", "admit"}
  <2>1. asked' = asked + 1 /\ \A w : Pledge(s, w)' => w = asked + 1
    BY <1>1, <1>7 DEF Pledge, JobAt, DeskAsk
  <2>2. WantedOK'
    BY <1>2 DEF DeskInv, WantedOK
  <2>3. ShownOK'
    <3> SUFFICES ASSUME NEW row, Shown(row)'
                 PROVE  /\ row.id \in Nat /\ row.id <= asked'
                        /\ \A r \in wanted' : r.id = row.id =>
                             r.for = row.for /\ (r.number = row.number \/ row.for \in replaced')
      BY DEF ShownOK
    <3>1. /\ row.id \in Nat /\ row.id <= asked
          /\ \A r \in wanted : r.id = row.id => r.for = row.for /\ (r.number = row.number \/ row.for \in replaced)
      BY <1>3 DEF DeskInv, ShownOK
    <3>2. row.id <= asked'
      BY <1>2, <3>1
    <3> QED BY <1>2, <3>1, <3>2
  <2>4. PledgesOK'
    <3> SUFFICES ASSUME NEW u \in Slots, NEW w, Pledge(u, w)'
                 PROVE  /\ w \in Nat /\ w <= asked'
                        /\ \A r \in wanted' : r.id # w
                        /\ \A row : Shown(row)' => row.id # w
                        /\ \A v \in Slots : Pledge(v, w)' => v = u
      BY DEF PledgesOK
    <3>1. \A v \in Slots : \A x : Pledge(v, x) => x \in Nat /\ x # asked + 1
      BY DEF DeskInv, PledgesOK
    <3>2. CASE u = s
      <4>1. w = asked + 1 /\ w \in Nat
        BY <2>1, <3>2
      <4>2. \A r \in wanted : r.id # w
        BY <4>1 DEF DeskInv, WantedOK
      <4>3. \A row : Shown(row) => row.id # w
        BY <4>1 DEF DeskInv, ShownOK
      <4>4. \A v \in Slots : Pledge(v, w)' => v = u
        BY <1>5, <3>1, <3>2, <4>1
      <4> QED BY <1>2, <1>3, <2>1, <4>1, <4>2, <4>3, <4>4
    <3>3. CASE u # s
      <4>1. Pledge(u, w)
        BY <1>5, <3>3
      <4>2. /\ w \in Nat /\ w <= asked
            /\ \A r \in wanted : r.id # w
            /\ \A row : Shown(row) => row.id # w
            /\ \A v \in Slots : Pledge(v, w) => v = u
        BY <4>1 DEF DeskInv, PledgesOK
      <4>3. ~Pledge(s, w)'
        BY <2>1, <3>1, <4>1
      <4>4. \A v \in Slots : Pledge(v, w)' => v = u
        BY <1>5, <4>2, <4>3
      <4>5. w <= asked'
        BY <1>2, <4>2
      <4> QED BY <1>2, <1>3, <4>2, <4>4, <4>5
    <3> QED BY <3>2, <3>3
  <2> QED BY <1>4, <2>2, <2>3, <2>4 DEF DeskInv
<1> QED BY <1>6, <1>7

-----------------------------------------------------------------------------
\* What the handlers do to them.

LEMMA WithPhoneIs ==
  ASSUME NEW w, NEW number, NEW v \in DOMAIN WithPhone(w, number)
  PROVE  \/ v = w /\ WithPhone(w, number)[v] = number /\ number # NoPhone
         \/ v # w /\ v \in DOMAIN phone /\ WithPhone(w, number)[v] = phone[v]
BY DEF WithPhone

\* A number that is granted was vetted, or its person replaced it.
LEMMA GrantedOK ==
  ASSUME PhonesOK, NEW w, NEW number, phone' = WithPhone(w, number),
         vetted \subseteq vetted', replaced \subseteq replaced',
         number = NoPhone \/ w \in replaced' \/ <<w, number>> \in vetted'
  PROVE  PhonesOK'
<1> SUFFICES ASSUME NEW v \in DOMAIN phone', v \notin replaced'
             PROVE  <<v, phone'[v]>> \in vetted'
  BY DEF PhonesOK
<1>1. CASE v = w
  BY <1>1, WithPhoneIs
<1>2. CASE v # w
  <2>1. v \in DOMAIN phone /\ phone'[v] = phone[v]
    BY <1>2, WithPhoneIs
  <2> QED BY <2>1 DEF PhonesOK
<1> QED BY <1>1, <1>2

LEMMA KeptPhones ==
  ASSUME PhonesOK, UNCHANGED phone, vetted \subseteq vetted', replaced \subseteq replaced'
  PROVE  PhonesOK'
BY DEF PhonesOK

LEMMA GoesDesk ==
  ASSUME JobsInv, NEW s \in Slots, NEW step, JobGoes(s, step), UNCHANGED listed, job[s].op # "desk",
         job[s].op = "phone" => job[s].step \in {"check", "insert"},
         job[s].op = "admit" => job[s].step = "update"
  PROVE  /\ NoneShown /\ NonePledged
         /\ step \notin {"check", "insert", "update"} => \A w : ~Pledge(s, w)'
<1>1. Others(s) /\ job'[s].op = job[s].op /\ job'[s].arg = job[s].arg /\ job'[s].step = step
  BY JobGoesProceeds DEF Proceeds
<1>2. ASSUME NEW row, OnPage(row)' PROVE OnPage(row)
  <2>1. CASE \E d \in Devices : row \in listed'[d]
    BY <2>1 DEF OnPage
  <2>2. ASSUME NEW u \in Slots, JobAt(u, "desk", "done")', row \in job'[u].reply.rows
        PROVE  OnPage(row)
    <3>1. u # s
      BY <1>1, <2>2 DEF JobAt
    <3> QED BY <1>1, <2>2, <3>1 DEF Others, OnPage, JobAt, Stays, DeskOps
  <2>3. ASSUME NEW u \in Slots, job'[u].op = "verify", job'[u].arg = row
        PROVE  OnPage(row)
    BY <1>1, <2>3 DEF Others, Stays, OnPage, DeskOps
  <2> QED BY <1>2, <2>1, <2>2, <2>3 DEF OnPage
<1>3. ASSUME NEW u \in Slots, NEW w, Pledge(u, w)' PROVE Pledge(u, w)
  <2>1. CASE u = s
    BY <1>1, <1>3, <2>1 DEF Pledge, JobAt
  <2>2. CASE u # s
    BY <1>1, <1>3, <2>2 DEF Others, Pledge, JobAt, Stays, DeskOps
  <2> QED BY <2>1, <2>2
<1>4. ASSUME step \notin {"check", "insert", "update"}, NEW w PROVE ~Pledge(s, w)'
  BY <1>1, <1>4 DEF Pledge, JobAt
<1> QED BY <1>2, <1>3, <1>4 DEF NoneShown, NonePledged, Shown

\* A pending number: a new one gets the id that was promised to it.
LEMMA WantsDesk ==
  ASSUME DeskInv, asked \in Nat, asked' = asked, NoneShown, NonePledged, PhonesOK', UNCHANGED replaced,
         NEW s \in Slots, NEW id, Pledge(s, id), \A w : ~Pledge(s, w)',
         NEW new, new = [id |-> new.id, for |-> new.for, number |-> new.number], new.id = id,
         wanted' = wanted \cup {new}
  PROVE  DeskInv'
<1>1. /\ id \in Nat /\ id <= asked
      /\ \A r \in wanted : r.id # id
      /\ \A row : Shown(row) => row.id # id
      /\ \A u \in Slots : Pledge(u, id) => u = s
  BY DEF DeskInv, PledgesOK
<1>2. WantedOK'
  BY <1>1 DEF DeskInv, WantedOK
<1>3. ShownOK'
  BY <1>1 DEF DeskInv, ShownOK, NoneShown
<1>4. ASSUME NEW u \in Slots, NEW w, Pledge(u, w)'
      PROVE  /\ w \in Nat /\ w <= asked'
             /\ \A r \in wanted' : r.id # w
             /\ \A row : Shown(row)' => row.id # w
             /\ \A v \in Slots : Pledge(v, w)' => v = u
  <2>1. Pledge(u, w) /\ u # s
    BY <1>4 DEF NonePledged
  <2>2. /\ w \in Nat /\ w <= asked
        /\ \A r \in wanted : r.id # w
        /\ \A row : Shown(row) => row.id # w
        /\ \A v \in Slots : Pledge(v, w) => v = u
    BY <2>1 DEF DeskInv, PledgesOK
  <2>3. w # id
    BY <1>1, <2>1
  <2> QED BY <2>2, <2>3 DEF NoneShown, NonePledged
<1>5. PledgesOK'
  BY <1>4 DEF PledgesOK
<1> QED BY <1>2, <1>3, <1>5 DEF DeskInv

\* A second request of the same person: whoever had the first on a page is told so.
WithNumber(r, number) == [r EXCEPT !.number = number]

LEMMA WithNumberIs ==
  ASSUME NEW r, r = [id |-> r.id, for |-> r.for, number |-> r.number], NEW number
  PROVE  WithNumber(r, number) = [id |-> r.id, for |-> r.for, number |-> number]
<1>1. PICK a, b, c : r = [id |-> a, for |-> b, number |-> c]
  OBVIOUS
<1>2. WithNumber(r, number) = [[id |-> a, for |-> b, number |-> c] EXCEPT !.number = number]
  BY <1>1 DEF WithNumber
<1>3. WithNumber(r, number) = [id |-> a, for |-> b, number |-> number]
  BY <1>2
<1>4. r.id = a /\ r.for = b
  BY <1>1
<1> QED BY <1>3, <1>4

LEMMA ReplacesDesk ==
  ASSUME DeskInv, asked \in Nat, asked' = asked, NoneShown, NonePledged, PhonesOK',
         NEW w, NEW number,
         wanted' = {IF r.for = w THEN WithNumber(r, number) ELSE r : r \in wanted},
         replaced' = IF \E r \in Of(w) : OnDesk(r.id) THEN replaced \cup {w} ELSE replaced
  PROVE  DeskInv'
<1>1. \A r \in wanted' : \E o \in wanted :
        /\ r.id = o.id /\ r.for = o.for /\ r = [id |-> r.id, for |-> r.for, number |-> r.number]
        /\ r.number = IF o.for = w THEN number ELSE o.number
  <2> TAKE r \in wanted'
  <2>1. PICK o \in wanted : r = IF o.for = w THEN WithNumber(o, number) ELSE o
    OBVIOUS
  <2>2. o = [id |-> o.id, for |-> o.for, number |-> o.number]
    BY DEF DeskInv, WantedOK
  <2>3. WithNumber(o, number) = [id |-> o.id, for |-> o.for, number |-> number]
    BY <2>2, WithNumberIs
  <2>4. CASE o.for = w
    <3>1. r = [id |-> o.id, for |-> o.for, number |-> number]
      BY <2>1, <2>3, <2>4
    <3>2. r.id = o.id /\ r.for = o.for /\ r.number = number
      BY <3>1
    <3> QED BY <2>4, <3>1, <3>2
  <2>5. CASE o.for # w
    BY <2>1, <2>2, <2>5
  <2> QED BY <2>4, <2>5
<1>2. WantedOK'
  <2> SUFFICES ASSUME NEW r \in wanted'
               PROVE  /\ r = [id |-> r.id, for |-> r.for, number |-> r.number]
                      /\ r.id \in Nat /\ r.id <= asked'
                      /\ \A q \in wanted' : q.id = r.id => q = r
    BY DEF WantedOK
  <2>1. PICK o \in wanted : /\ r.id = o.id /\ r.for = o.for
                            /\ r = [id |-> r.id, for |-> r.for, number |-> r.number]
                            /\ r.number = IF o.for = w THEN number ELSE o.number
    BY <1>1
  <2>2. o.id \in Nat /\ o.id <= asked /\ \A p \in wanted : p.id = o.id => p = o
    BY DEF DeskInv, WantedOK
  <2>3. ASSUME NEW q \in wanted', q.id = r.id PROVE q = r
    <3>1. PICK p \in wanted : /\ q.id = p.id /\ q.for = p.for
                              /\ q = [id |-> q.id, for |-> q.for, number |-> q.number]
                              /\ q.number = IF p.for = w THEN number ELSE p.number
      BY <1>1
    <3>2. p = o
      BY <2>1, <2>2, <2>3, <3>1
    <3>3. q.id = r.id /\ q.for = r.for /\ q.number = r.number
      BY <2>1, <3>1, <3>2
    <3> QED BY <2>1, <3>1, <3>3
  <2> QED BY <2>1, <2>2, <2>3
<1>3. PledgesOK'
  <2> SUFFICES ASSUME NEW u \in Slots, NEW x, Pledge(u, x)'
               PROVE  /\ x \in Nat /\ x <= asked'
                      /\ \A r \in wanted' : r.id # x
                      /\ \A row : Shown(row)' => row.id # x
                      /\ \A v \in Slots : Pledge(v, x)' => v = u
    BY DEF PledgesOK
  <2>1. Pledge(u, x)
    BY DEF NonePledged
  <2>2. /\ x \in Nat /\ x <= asked
        /\ \A r \in wanted : r.id # x
        /\ \A row : Shown(row) => row.id # x
        /\ \A v \in Slots : Pledge(v, x) => v = u
    BY <2>1 DEF DeskInv, PledgesOK
  <2>3. \A r \in wanted' : r.id # x
    BY <1>1, <2>2
  <2> QED BY <2>2, <2>3 DEF NoneShown, NonePledged
<1>4. ShownOK'
  <2> SUFFICES ASSUME NEW row, Shown(row)'
               PROVE  /\ row.id \in Nat /\ row.id <= asked'
                      /\ \A r \in wanted' : r.id = row.id =>
                           r.for = row.for /\ (r.number = row.number \/ row.for \in replaced')
    BY DEF ShownOK
  <2>1. Shown(row)
    BY DEF NoneShown
  <2>2. /\ row.id \in Nat /\ row.id <= asked
        /\ \A r \in wanted : r.id = row.id => r.for = row.for /\ (r.number = row.number \/ row.for \in replaced)
    BY <2>1 DEF DeskInv, ShownOK
  <2>3. OnDesk(row.id)
    BY <2>1 DEF Shown, OnPage, OnDesk, JobAt
  <2>4. ASSUME NEW r \in wanted', r.id = row.id
        PROVE  r.for = row.for /\ (r.number = row.number \/ row.for \in replaced')
    <3>1. PICK o \in wanted : /\ r.id = o.id /\ r.for = o.for
                              /\ r.number = IF o.for = w THEN number ELSE o.number
      BY <1>1
    <3>2. o.for = row.for /\ (o.number = row.number \/ row.for \in replaced)
      BY <2>2, <2>4, <3>1
    <3>3. o.for = w => w \in replaced'
      BY <2>3, <2>4, <3>1 DEF Of
    <3> QED BY <3>1, <3>2, <3>3
  <2> QED BY <2>2, <2>4
<1> QED BY <1>2, <1>3, <1>4 DEF DeskInv

-----------------------------------------------------------------------------
\* Each handler of the desk, and the answers.

\* What administrators decide to verify is a number.
VerifyOK == \A s \in Slots : job[s].op = "verify" => job[s].arg.kind = "phone"

PagesOK == listed = [d \in Devices |-> listed[d]] /\ VerifyOK

\* A page is about to show what is pending.
LEMMA SelectDesk ==
  ASSUME JobsInv, DeskInv, asked \in Nat, asked' = asked, NEW s \in Slots, DeskSelect(s)
  PROVE  DeskInv'
<1>1. PICK all : all = PhoneRows \cup SignupRows
  OBVIOUS
<1>2. PICK j : j = WithReply(job[s], "done", [rows |-> all])
  OBVIOUS
<1>3. job = [t \in Slots |-> job[t]] /\ IsJob(job[s])
  BY DEF JobsInv
<1>4. job' = [job EXCEPT ![s] = j] /\ UNCHANGED <<phone, wanted, vetted, replaced, listed>>
  BY <1>1, <1>2, <1>3 DEF WithReply, DeskSelect, approvalVars
<1>5. IsJob(j) /\ j.op = "desk" /\ j.reply = [rows |-> all]
  BY <1>2, <1>3, WithReplyIs DEF DeskSelect, JobAt
<1>6. job'[s] = j /\ Others(s) /\ j.reply.rows = all
  <2>1. job'[s] = j /\ Others(s)
    BY <1>4, SendsStays
  <2>2. j.reply.rows = all
    BY <1>5
  <2> QED BY <2>1, <2>2
<1>7. ASSUME NEW row, Shown(row)', ~Shown(row)
      PROVE  \E r \in wanted : row.id = r.id /\ row.for = r.for /\ row.number = r.number
  <2>1. row.kind = "phone" /\ ~OnPage(row) /\ OnPage(row)'
    BY <1>7 DEF Shown
  <2>2. PICK u \in Slots : \/ JobAt(u, "desk", "done")' /\ row \in job'[u].reply.rows
                           \/ job'[u].op = "verify" /\ job'[u].arg = row
    BY <1>4, <2>1 DEF OnPage
  <2>3. u = s
    BY <1>6, <2>1, <2>2 DEF Others, Stays, OnPage, JobAt, DeskOps
  <2>4. row \in PhoneRows \cup SignupRows
    BY <1>1, <1>5, <1>6, <2>2, <2>3 DEF JobAt
  <2>5. row \notin SignupRows
    BY <2>1 DEF SignupRows
  <2>6. PICK r \in wanted : row = [kind |-> "phone", id |-> r.id, for |-> r.for, number |-> r.number,
                                   taken |-> Taken(r.number, r.for)]
    BY <2>4, <2>5 DEF PhoneRows
  <2>7. row.id = r.id /\ row.for = r.for /\ row.number = r.number
    BY <2>6
  <2> QED BY <2>7
<1>8. ASSUME NEW u \in Slots, NEW w, Pledge(u, w)' PROVE Pledge(u, w)
  <2>1. u # s
    BY <1>5, <1>6, <1>8 DEF Pledge, JobAt
  <2> QED BY <1>6, <1>8, <2>1 DEF Others, Pledge, JobAt, Stays, DeskOps
<1>9. WantedOK' /\ PhonesOK'
  BY <1>4 DEF DeskInv, WantedOK, PhonesOK
<1>10. ShownOK'
  <2> SUFFICES ASSUME NEW row, Shown(row)'
               PROVE  /\ row.id \in Nat /\ row.id <= asked'
                      /\ \A r \in wanted' : r.id = row.id =>
                           r.for = row.for /\ (r.number = row.number \/ row.for \in replaced')
    BY DEF ShownOK
  <2>1. CASE Shown(row)
    BY <1>4, <2>1 DEF DeskInv, ShownOK
  <2>2. CASE ~Shown(row)
    <3>1. PICK r \in wanted : row.id = r.id /\ row.for = r.for /\ row.number = r.number
      BY <1>7, <2>2
    <3>2. r.id \in Nat /\ r.id <= asked /\ \A q \in wanted : q.id = r.id => q = r
      BY DEF DeskInv, WantedOK
    <3> QED BY <1>4, <3>1, <3>2
  <2> QED BY <2>1, <2>2
<1>11. PledgesOK'
  <2> SUFFICES ASSUME NEW u \in Slots, NEW x, Pledge(u, x)'
               PROVE  /\ x \in Nat /\ x <= asked'
                      /\ \A r \in wanted' : r.id # x
                      /\ \A row : Shown(row)' => row.id # x
                      /\ \A v \in Slots : Pledge(v, x)' => v = u
    BY DEF PledgesOK
  <2>1. /\ x \in Nat /\ x <= asked
        /\ \A r \in wanted : r.id # x
        /\ \A row : Shown(row) => row.id # x
        /\ \A v \in Slots : Pledge(v, x) => v = u
    BY <1>8 DEF DeskInv, PledgesOK
  <2>2. \A row : Shown(row)' => row.id # x
    BY <1>7, <2>1
  <2> QED BY <1>4, <1>8, <2>1, <2>2
<1> QED BY <1>9, <1>10, <1>11 DEF DeskInv

LEMMA HandlesDesk ==
  ASSUME JobsInv, DeskInv, VerifyOK, asked \in Nat, asked' = asked, NEW s \in Slots, DeskHandles(s)
  PROVE  DeskInv' /\ UNCHANGED listed
<1> DEFINE a == job[s].arg
<1>p. PhonesOK
  BY DEF DeskInv
<1>0. ASSUME NEW step, JobGoes(s, step), UNCHANGED listed, job[s].op # "desk",
             job[s].op = "phone" => job[s].step \in {"check", "insert"},
             job[s].op = "admit" => job[s].step = "update",
             wanted' \subseteq wanted, replaced \subseteq replaced', PhonesOK'
      PROVE  DeskInv'
  <2>1. NoneShown /\ NonePledged
    BY <1>0, GoesDesk
  <2> QED BY <1>0, <2>1, DeskKeeps
<1>1. CASE RegisterInsert(s)
  <2>1. job[s].op = "register" /\ UNCHANGED <<phone, wanted, listed, vetted, replaced>>
    BY <1>1 DEF RegisterInsert, JobAt
  <2>2. JobGoes(s, "done") \/ JobGoes(s, "409")
    BY <1>1 DEF RegisterInsert
  <2>3. PhonesOK'
    BY <1>p, <2>1, KeptPhones
  <2> QED BY <1>0, <2>1, <2>2, <2>3
<1>2. CASE PhoneCheck(s)
  <2>1. JobAt(s, "phone", "check") /\ UNCHANGED <<phone, wanted, listed, vetted, replaced>>
    BY <1>2 DEF PhoneCheck, approvalVars
  <2>2. \E step : JobGoes(s, step)
    BY <1>2 DEF PhoneCheck
  <2>3. PhonesOK'
    BY <1>p, <2>1, KeptPhones
  <2> QED BY <1>0, <2>1, <2>2, <2>3 DEF JobAt
<1>3. CASE PhoneInsert(s)
  <2>0. PICK w : w = Who(job[s].tok)
    OBVIOUS
  <2>1. JobAt(s, "phone", "insert") /\ UNCHANGED <<phone, listed, vetted>>
    BY <1>3 DEF PhoneInsert
  <2>2. CASE w = None /\ JobGoes(s, "error") /\ UNCHANGED <<wanted, replaced>>
    <3>1. PhonesOK'
      BY <1>p, <2>1, <2>2, KeptPhones
    <3> QED BY <1>0, <2>1, <2>2, <3>1 DEF JobAt
  <2>3. CASE /\ w # None /\ JobGoes(s, "done")
             /\ wanted' = IF Of(w) = {} THEN wanted \cup {[id |-> a.id, for |-> w, number |-> a.number]}
                          ELSE {IF r.for = w THEN [r EXCEPT !.number = a.number] ELSE r : r \in wanted}
             /\ replaced' = IF \E r \in Of(w) : OnDesk(r.id) THEN replaced \cup {w} ELSE replaced
    <3>1. NoneShown /\ NonePledged /\ \A x : ~Pledge(s, x)'
      BY <2>1, <2>3, GoesDesk DEF JobAt
    <3>2. PhonesOK'
      BY <1>p, <2>1, <2>3, KeptPhones
    <3>3. CASE Of(w) = {}
      <4>1. PICK new : new = [id |-> a.id, for |-> w, number |-> a.number]
        OBVIOUS
      <4>2. new.id = a.id /\ new = [id |-> new.id, for |-> new.for, number |-> new.number]
        BY <4>1
      <4>3. wanted' = wanted \cup {new} /\ UNCHANGED replaced
        BY <2>3, <3>3, <4>1
      <4>4. Pledge(s, a.id)
        BY <2>1 DEF Pledge, JobAt
      <4> QED BY <2>1, <3>1, <3>2, <4>2, <4>3, <4>4, WantsDesk
    <3>4. CASE Of(w) # {}
      <4>1. wanted' = {IF r.for = w THEN WithNumber(r, a.number) ELSE r : r \in wanted}
        BY <2>3, <3>4 DEF WithNumber
      <4>2. replaced' = IF \E r \in Of(w) : OnDesk(r.id) THEN replaced \cup {w} ELSE replaced
        BY <2>3
      <4> QED BY <2>1, <3>1, <3>2, <4>1, <4>2, ReplacesDesk
    <3> QED BY <3>3, <3>4
  <2> QED BY <1>3, <2>0, <2>1, <2>2, <2>3 DEF PhoneInsert
<1>4. CASE CancelDelete(s)
  <2>1. JobAt(s, "cancel", "update") /\ UNCHANGED <<phone, listed, vetted, replaced>>
        /\ wanted' \subseteq wanted /\ \E step : JobGoes(s, step)
    BY <1>4 DEF CancelDelete
  <2>2. PhonesOK'
    BY <1>p, <2>1, KeptPhones
  <2> QED BY <1>0, <2>1, <2>2 DEF JobAt
<1>5. CASE RemoveUpdate(s)
  <2>1. JobAt(s, "unphone", "update") /\ UNCHANGED <<wanted, listed, vetted, replaced>>
        /\ JobGoes(s, "done") /\ phone' = WithPhone(Who(job[s].tok), NoPhone)
    BY <1>5 DEF RemoveUpdate
  <2>2. PhonesOK'
    BY <1>p, <2>1, GrantedOK
  <2> QED BY <1>0, <2>1, <2>2 DEF JobAt
<1>6. CASE DeskSelect(s)
  BY <1>6, SelectDesk DEF DeskSelect, approvalVars
<1>7. CASE VerifyUpdate(s)
  <2>1. JobAt(s, "verify", "update") /\ UNCHANGED <<listed, replaced>>
    BY <1>7 DEF VerifyUpdate
  <2>2. ASSUME NEW r \in wanted, r.id = a.id, phone' = WithPhone(r.for, r.number),
               wanted' = wanted \ {r}, vetted' = vetted \cup {<<a.for, a.number>>}, JobGoes(s, "done"),
               a.kind = "phone"
        PROVE  DeskInv'
    <3>1. Shown(a)
      BY <2>1, <2>2 DEF Shown, OnPage, JobAt
    <3>2. r.for = a.for /\ (r.number = a.number \/ a.for \in replaced)
      BY <2>2, <3>1 DEF DeskInv, ShownOK
    <3>3. PhonesOK'
      BY <1>p, <2>1, <2>2, <3>2, GrantedOK
    <3> QED BY <1>0, <2>1, <2>2, <3>3 DEF JobAt
  <2>3. ASSUME UNCHANGED <<phone, wanted, vetted>>, JobGoes(s, "error") \/ JobGoes(s, "409")
        PROVE  DeskInv'
    <3>1. PhonesOK'
      BY <1>p, <2>1, <2>3, KeptPhones
    <3> QED BY <1>0, <2>1, <2>3, <3>1 DEF JobAt
  <2>4. a.kind = "phone"
    BY <2>1 DEF VerifyOK, JobAt
  <2> QED BY <1>7, <2>2, <2>3, <2>4 DEF VerifyUpdate
<1>8. CASE AdmitInsert(s)
  <2>1. JobAt(s, "admit", "update") /\ UNCHANGED <<listed, replaced>>
    BY <1>8 DEF AdmitInsert
  <2>2. ASSUME NEW r, phone' = WithPhone(a.who, a.number),
               wanted' = IF r.number = a.number THEN wanted
                         ELSE wanted \cup {[id |-> a.who, for |-> a.who, number |-> r.number]},
               vetted' = vetted \cup {<<a.who, a.number>>}, JobGoes(s, "done")
        PROVE  DeskInv'
    <3>1. NoneShown /\ NonePledged /\ \A x : ~Pledge(s, x)'
      BY <2>1, <2>2, GoesDesk DEF JobAt
    <3>2. PhonesOK'
      BY <1>p, <2>1, <2>2, GrantedOK
    <3>3. CASE r.number = a.number
      BY <1>0, <2>1, <2>2, <3>2, <3>3 DEF JobAt
    <3>4. CASE r.number # a.number
      <4>1. PICK new : new = [id |-> a.who, for |-> a.who, number |-> r.number]
        OBVIOUS
      <4>2. new.id = a.who /\ new = [id |-> new.id, for |-> new.for, number |-> new.number]
        BY <4>1
      <4>3. wanted' = wanted \cup {new}
        BY <2>2, <3>4, <4>1
      <4>4. Pledge(s, a.who)
        BY <2>1 DEF Pledge
      <4> QED BY <2>1, <3>1, <3>2, <4>2, <4>3, <4>4, WantsDesk
    <3> QED BY <3>3, <3>4
  <2>3. ASSUME UNCHANGED <<phone, wanted, vetted>>, JobGoes(s, "error") \/ JobGoes(s, "409")
        PROVE  DeskInv'
    <3>1. PhonesOK'
      BY <1>p, <2>1, <2>3, KeptPhones
    <3> QED BY <1>0, <2>1, <2>3, <3>1 DEF JobAt
  <2> QED BY <1>8, <2>1, <2>2, <2>3 DEF AdmitInsert
<1>9. CASE RefuseUpdate(s)
  <2>1. JobAt(s, "refuse", "update") /\ UNCHANGED <<phone, listed, vetted, replaced>>
        /\ wanted' \subseteq wanted /\ \E step : JobGoes(s, step)
    BY <1>9 DEF RefuseUpdate
  <2>2. PhonesOK'
    BY <1>p, <2>1, KeptPhones
  <2> QED BY <1>0, <2>1, <2>2 DEF JobAt
<1>10. CASE AssignUpdate(s)
  <2>1. JobAt(s, "assign", "update") /\ UNCHANGED <<wanted, listed, replaced>> /\ \E step : JobGoes(s, step)
    BY <1>10 DEF AssignUpdate
  <2>2. PhonesOK'
    <3>1. CASE UNCHANGED <<phone, vetted>>
      BY <1>p, <2>1, <3>1, KeptPhones
    <3>2. ASSUME NEW w, phone' = WithPhone(w, a.number), vetted' = vetted \cup {<<w, a.number>>}
          PROVE  PhonesOK'
      BY <1>p, <2>1, <3>2, GrantedOK
    <3> QED BY <1>10, <3>1, <3>2 DEF AssignUpdate
  <2> QED BY <1>0, <2>1, <2>2 DEF JobAt
<1>11. UNCHANGED listed
  BY DEF DeskHandles, RegisterInsert, PhoneCheck, PhoneInsert, CancelDelete, RemoveUpdate, DeskSelect,
         VerifyUpdate, AdmitInsert, RefuseUpdate, AssignUpdate, approvalVars
<1> QED BY <1>1, <1>2, <1>3, <1>4, <1>5, <1>6, <1>7, <1>8, <1>9, <1>10, <1>11 DEF DeskHandles

LEMMA AnswerDesk ==
  ASSUME JobsInv, DeskInv, PagesOK, asked \in Nat, NEW s \in Slots, DeskAnswer(s), Device[s] \in Devices
  PROVE  DeskInv' /\ listed' = [d \in Devices |-> listed'[d]]
<1>1. Others(s) /\ job'[s].op \in {"none", "desk"} /\ (job'[s].op = "desk" => job'[s].step # "done")
  BY DeskAnswerIs
<1>2. UNCHANGED <<asked, phone, wanted, vetted, replaced>>
  BY DEF DeskAnswer
<1>3. PICK rows : /\ listed' = [listed EXCEPT ![Device[s]] = rows]
                  /\ rows \in {{}, listed[Device[s]]} \/ (JobAt(s, "desk", "done") /\ rows = job[s].reply.rows)
  BY DEF DeskAnswer, JobAt
<1>4. /\ listed' = [d \in Devices |-> listed'[d]] /\ listed'[Device[s]] = rows
      /\ \A d \in Devices \ {Device[s]} : listed'[d] = listed[d]
  BY <1>3 DEF PagesOK
<1>5. ASSUME NEW row, OnPage(row)' PROVE OnPage(row)
  <2>1. ASSUME NEW d \in Devices, row \in listed'[d] PROVE OnPage(row)
    BY <1>3, <1>4, <2>1 DEF OnPage
  <2>2. ASSUME NEW u \in Slots, JobAt(u, "desk", "done")', row \in job'[u].reply.rows
        PROVE  OnPage(row)
    BY <1>1, <2>2 DEF Others, OnPage, JobAt, Stays, DeskOps
  <2>3. ASSUME NEW u \in Slots, job'[u].op = "verify", job'[u].arg = row
        PROVE  OnPage(row)
    BY <1>1, <2>3 DEF Others, Stays, OnPage, DeskOps
  <2> QED BY <1>5, <2>1, <2>2, <2>3 DEF OnPage
<1>6. ASSUME NEW u \in Slots, NEW w, Pledge(u, w)' PROVE Pledge(u, w)
  <2>1. u # s
    BY <1>1, <1>6 DEF Pledge, JobAt
  <2> QED BY <1>1, <1>6, <2>1 DEF Others, Pledge, JobAt, Stays, DeskOps
<1>7. NoneShown /\ NonePledged
  BY <1>5, <1>6 DEF NoneShown, NonePledged, Shown
<1>8. PhonesOK'
  BY <1>2, KeptPhones DEF DeskInv
<1> QED BY <1>2, <1>4, <1>7, <1>8, DeskKeeps

LEMMA VerifyStep ==
  ASSUME OfficeInv, VerifyOK, DeskInv, [OfficeNext]_officeVars
  PROVE  VerifyOK'
<1>1. ASSUME NEW s \in Slots, Stays(s), job'[s].op = "verify" PROVE job'[s].arg.kind = "phone"
  BY <1>1 DEF Stays, VerifyOK, DeskOps
<1>2. CASE \A s \in Slots : Stays(s)
  BY <1>1, <1>2 DEF VerifyOK
<1>3. CASE ApprovalsStep
  <2>1. ASSUME NEW s \in Slots, DeskAsks(s) PROVE VerifyOK'
    <3>1. PICK j : DeskAsk(s, j)
      BY <2>1, DeskAsksIs DEF OfficeInv
    <3>2. job'[s] = j /\ Others(s)
      BY <3>1, SendsStays DEF DeskAsk, OfficeInv
    <3> QED BY <1>1, <3>1, <3>2 DEF Others, DeskAsk, VerifyOK
  <2>2. ASSUME NEW s \in Slots, DeskHandles(s) PROVE VerifyOK'
    BY <1>1, <2>2, DeskHandlesIs DEF OfficeInv, Proceeds, Others, VerifyOK
  <2>3. ASSUME NEW s \in Slots, DeskAnswer(s) PROVE VerifyOK'
    BY <1>1, <2>3, DeskAnswerIs DEF OfficeInv, Others, VerifyOK
  <2> QED BY <1>3, <2>1, <2>2, <2>3 DEF ApprovalsStep
<1>4. CASE UNCHANGED officeVars
  BY <1>4 DEF officeVars, VerifyOK
<1>5. CASE job' = [s \in Slots |-> Left(s)]
  BY <1>2, <1>5, LeftStays DEF OfficeInv
<1>6. CASE LibraryStep
  BY <1>2, <1>6, LibraryStays DEF OfficeInv
<1> QED BY <1>3, <1>4, <1>5, <1>6 DEF OfficeNext

LEMMA DeskInvStep ==
  ASSUME OfficeInv, DeskInv, PagesOK, Traffic, [OfficeNext]_officeVars
  PROVE  (DeskInv /\ PagesOK)'
<1>0. asked \in Nat /\ asked' \in Nat /\ asked <= asked'
  BY AskedGrows
<1>1. VerifyOK'
  BY VerifyStep DEF PagesOK
<1>2. CASE LeavesDesk /\ \A t \in Slots : Stays(t)
  <2>1. /\ UNCHANGED <<phone, wanted, vetted, replaced>>
        /\ listed' = [d \in Devices |-> listed'[d]]
        /\ \A d \in Devices : listed'[d] \subseteq listed[d]
    BY <1>2 DEF LeavesDesk
  <2>2. DeskInv'
    BY <1>0, <1>2, <2>1, AllStayDeskInv
  <2> QED BY <1>1, <2>1, <2>2 DEF PagesOK
<1>3. CASE SignInNext /\ job' = [s \in Slots |-> Left(s)] /\ LeavesDesk
  BY <1>2, <1>3, LeftStays DEF OfficeInv
<1>4. CASE LibraryStep /\ LeavesDesk
  BY <1>2, <1>4, LibraryStays DEF OfficeInv
<1>5. CASE UNCHANGED officeVars
  <2>1. UNCHANGED <<job, phone, wanted, vetted, replaced, listed>>
    BY <1>5 DEF officeVars, approvalVars
  <2>2. \A t \in Slots : Stays(t)
    BY <2>1 DEF Stays, OfficeInv, JobsInv
  <2>3. DeskInv'
    BY <1>0, <2>1, <2>2, AllStayDeskInv
  <2> QED BY <1>1, <2>1, <2>3 DEF PagesOK
<1>6. CASE ApprovalsStep
  <2>1. ASSUME NEW s \in Slots, DeskAsks(s) PROVE (DeskInv /\ PagesOK)'
    <3>1. PICK j : DeskAsk(s, j)
      BY <2>1, DeskAsksIs DEF OfficeInv
    <3>2. UNCHANGED listed
      BY <3>1 DEF DeskAsk, approvalVars
    <3>3. Device[s] \in Devices
      BY Constants
    <3>4. DeskInv'
      BY <1>0, <3>1, <3>3, AskDeskInv DEF OfficeInv
    <3> QED BY <1>1, <3>2, <3>4 DEF PagesOK
  <2>2. ASSUME NEW s \in Slots, DeskHandles(s), UNCHANGED asked PROVE (DeskInv /\ PagesOK)'
    <3>1. DeskInv' /\ UNCHANGED listed
      BY <1>0, <2>2, HandlesDesk DEF OfficeInv, PagesOK
    <3> QED BY <1>1, <3>1 DEF PagesOK
  <2>3. ASSUME NEW s \in Slots, DeskAnswer(s) PROVE (DeskInv /\ PagesOK)'
    <3>1. Device[s] \in Devices
      BY Constants
    <3>2. DeskInv' /\ listed' = [d \in Devices |-> listed'[d]]
      BY <1>0, <2>3, <3>1, AnswerDesk DEF OfficeInv
    <3> QED BY <1>1, <3>2 DEF PagesOK
  <2> QED BY <1>6, <2>1, <2>2, <2>3 DEF ApprovalsStep
<1> QED BY <1>3, <1>4, <1>5, <1>6 DEF OfficeNext

LEMMA InitDesk == OfficeInit => DeskInv /\ PagesOK
<1> SUFFICES ASSUME OfficeInit PROVE DeskInv /\ PagesOK
  OBVIOUS
<1>1. /\ phone = << >> /\ wanted = {} /\ listed = [d \in Devices |-> {}]
      /\ \A s \in Slots : job[s] = NoJob
  BY DEF OfficeInit, ApprovalsInit
<1>2. \A s \in Slots : job[s].op = "none"
  BY <1>1, NoJobIs
<1>3. \A row : ~Shown(row)
  BY <1>1, <1>2 DEF Shown, OnPage, JobAt
<1>4. \A s \in Slots : \A w : ~Pledge(s, w)
  BY <1>2 DEF Pledge, JobAt
<1>5. WantedOK
  BY <1>1 DEF WantedOK
<1>6. DOMAIN phone = {}
  BY <1>1
<1>7. PhonesOK
  BY <1>6 DEF PhonesOK
<1>8. PagesOK
  BY <1>1, <1>2 DEF PagesOK, VerifyOK
<1> QED BY <1>3, <1>4, <1>5, <1>7, <1>8 DEF DeskInv, PledgesOK, ShownOK

\* Module Approvals: an account has only a number that an administrator has seen and granted
\* to it, unless its person replaced the number while a page still showed the old one.
THEOREM VerifiedWasSeenTheorem == OfficeSpec => []VerifiedWasSeen
<1>1. DeskInv => VerifiedWasSeen
  BY DEF DeskInv, PhonesOK, VerifiedWasSeen, HasPhone
<1>2. OfficeInit => OfficeInv /\ DeskInv /\ PagesOK
  BY InitTypes, InitDesk
<1>3. (OfficeInv /\ DeskInv /\ PagesOK) /\ [OfficeNext]_officeVars => (OfficeInv /\ DeskInv /\ PagesOK)'
  BY StepTypes, EveryTraffic, DeskInvStep
<1> QED BY <1>1, <1>2, <1>3, PTL DEF OfficeSpec
===============================================================================
