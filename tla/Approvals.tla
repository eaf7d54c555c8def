------------------------------ MODULE Approvals -------------------------------
(***************************************************************************)
(* What administrators decide about: registrations (auth.go,               *)
(* admin_registrations.go) and telephone numbers (phone.go), with the      *)
(* pages that list them (Register.js, Profile.js, AdminRegistrations.js,   *)
(* AdminPhones.js).                                                        *)
(*                                                                         *)
(* Rows that refer to an account follow its renaming and go with it: they  *)
(* are kept under the person. Decided requests are forgotten.              *)
(***************************************************************************)
EXTENDS Jobs

CONSTANT Phones

VARIABLES
  phone,      \* users.phone of those who have one, which is verified
  wanted,     \* phone_requests that are pending
  signups,    \* registration_requests that are pending
  listed,     \* the rows each administrators' page shows
  vetted,     \* history: the numbers administrators saw and granted, and to whom
  replaced    \* history: who changed a pending number while a page showed the old one

approvalVars == <<phone, wanted, signups, listed, vetted, replaced>>

NoPhone == None
Persons == Names \cup Numbers

Of(w) == {r \in wanted : r.for = w}
HasPhone(w) == w \in DOMAIN phone
Taken(number, w) == \E v \in Accounts \ {w} : HasPhone(v) /\ phone[v] = number

\* Somebody's number in users, which may be none.
WithPhone(w, number) ==
  [v \in (DOMAIN phone \ {w}) \cup (IF number = NoPhone THEN {} ELSE {w}) |->
     IF v = w THEN number ELSE phone[v]]

\* The indexes: one account per number, one pending request per person and per name.
ApprovalsTypeOK ==
  /\ DOMAIN phone \subseteq Persons /\ \A w \in DOMAIN phone : phone[w] \in Phones
  /\ \A w \in Accounts : HasPhone(w) => ~Taken(phone[w], w)
  /\ wanted \subseteq [id : Numbers, for : Persons, number : Phones]
  /\ \A r \in wanted : Of(r.for) = {r}
  /\ signups \subseteq [id : Numbers, name : Names, pw : Passwords, bundle : Bundles,
                        number : Phones \cup {NoPhone}]
  /\ \A r \in signups : {x \in signups : x.name = r.name} = {r}
  /\ \A d \in Devices : \A row \in listed[d] : row.id \in Numbers
  /\ replaced \subseteq Persons

ApprovalsInit ==
  /\ phone = << >>
  /\ wanted = {} /\ signups = {}
  /\ listed = [d \in Devices |-> {}]
  /\ vetted = {} /\ replaced = {}

-----------------------------------------------------------------------------
\* Register: no account comes of it before it is approved.

HandleRegister(s) ==
  /\ Device[s] \notin home /\ Free(s) /\ Counted
  /\ \E n \in Names, pw \in Passwords, number \in Phones \cup {NoPhone}, keys \in BOOLEAN :
       LET b == IF keys THEN [pub |-> asked + 1, lock |-> pw] ELSE NoBundle IN
       job' = [job EXCEPT ![s] = [NoJob EXCEPT !.op = "register",
         !.arg = [id |-> asked + 1, name |-> n, pw |-> pw, bundle |-> b, number |-> number],
         !.step = IF Exists(n) THEN "409" ELSE "insert"]]
  /\ UNCHANGED approvalVars

RegisterInsert(s) ==
  LET twins == {r \in signups : r.name = job[s].arg.name} IN
  /\ JobAt(s, "register", "insert")
  /\ \/ twins = {} /\ signups' = signups \cup {job[s].arg} /\ JobGoes(s, "done")
     \/ twins # {} /\ JobGoes(s, "409") /\ UNCHANGED signups
  /\ UNCHANGED <<user, phone, wanted, listed, vetted, replaced>>

-----------------------------------------------------------------------------
\* RequestPhone, CancelPhoneRequest, RemoveMyPhone.

HandleRequestPhone(s) ==
  /\ Counted
  /\ \E number \in Phones :
       Sends(s, Request(s, "phone", [number |-> number, id |-> asked + 1], "check"))
  /\ UNCHANGED approvalVars

HandleCancelPhone(s) ==
  Counted /\ Sends(s, Request(s, "cancel", << >>, "update")) /\ UNCHANGED approvalVars

HandleRemovePhone(s) ==
  Counted /\ Sends(s, Request(s, "unphone", << >>, "update")) /\ UNCHANGED approvalVars

\* Two reads, each of which can only refuse.
PhoneCheck(s) ==
  LET w == Who(job[s].tok)
      number == job[s].arg.number
  IN
  /\ JobAt(s, "phone", "check")
  /\ JobGoes(s, IF w = None \/ Taken(number, None) THEN "error" ELSE "insert")
  /\ UNCHANGED <<user, approvalVars>>

\* A page shows this request, or is about to, or has decided about it.
OnDesk(id) ==
  \/ \E d \in Devices : \E row \in listed[d] : row.id = id
  \/ \E s \in Slots : job[s].op = "desk" /\ job[s].step = "done" /\ \E row \in job[s].reply.rows : row.id = id
  \/ \E s \in Slots : job[s].op = "verify" /\ job[s].arg.id = id

\* A second request replaces the number in the pending one.
PhoneInsert(s) ==
  LET w == Who(job[s].tok)
      a == job[s].arg
  IN
  /\ JobAt(s, "phone", "insert")
  /\ \/ w = None /\ JobGoes(s, "error") /\ UNCHANGED <<wanted, replaced>>
     \/ /\ w # None /\ JobGoes(s, "done")
        /\ wanted' = IF Of(w) = {} THEN wanted \cup {[id |-> a.id, for |-> w, number |-> a.number]}
                     ELSE {IF r.for = w THEN [r EXCEPT !.number = a.number] ELSE r : r \in wanted}
        /\ replaced' = IF \E r \in Of(w) : OnDesk(r.id) THEN replaced \cup {w} ELSE replaced
  /\ UNCHANGED <<user, phone, signups, listed, vetted>>

CancelDelete(s) ==
  LET w == Who(job[s].tok) IN
  /\ JobAt(s, "cancel", "update")
  /\ JobGoes(s, IF Of(w) = {} THEN "error" ELSE "done")
  /\ wanted' = wanted \ Of(w)
  /\ UNCHANGED <<user, phone, signups, listed, vetted, replaced>>

RemoveUpdate(s) ==
  LET w == Who(job[s].tok) IN
  /\ JobAt(s, "unphone", "update")
  /\ JobGoes(s, "done")
  /\ phone' = WithPhone(w, NoPhone)
  /\ UNCHANGED <<user, wanted, signups, listed, vetted, replaced>>

-----------------------------------------------------------------------------
\* The administrators' pages: AdminListPhoneRequests and AdminListRegistrations fill
\* them, and each row that no account stands in the way of can be decided about.

PhoneRows ==
  {[kind |-> "phone", id |-> r.id, for |-> r.for, number |-> r.number, taken |-> Taken(r.number, r.for)] :
     r \in {x \in wanted : x.for \in Accounts}}

SignupRows ==
  {[kind |-> "signup", id |-> r.id, for |-> r.name, number |-> r.number,
    taken |-> Exists(r.name) \/ Taken(r.number, None)] : r \in signups}

RefreshRequest(s) == AdminRequest(s, "desk", << >>, "select")

Refresh(s) ==
  /\ Device[s] \in panel /\ Sends(s, RefreshRequest(s))
  /\ UNCHANGED <<asked, approvalVars>>

DeskSelect(s) ==
  /\ JobAt(s, "desk", "select")
  /\ job' = [job EXCEPT ![s].step = "done", ![s].reply = [rows |-> PhoneRows \cup SignupRows]]
  /\ UNCHANGED <<user, approvalVars>>

Decides(s, op, arg) ==
  /\ Device[s] \in panel /\ Counted
  /\ Sends(s, AdminRequest(s, op, arg, "update"))
  /\ UNCHANGED approvalVars

Approve(s, row) ==
  /\ ~row.taken
  /\ \/ row.kind = "phone" /\ Decides(s, "verify", row)
     \/ /\ row.kind = "signup"
        /\ \E number \in {row.number, NoPhone}, admin \in BOOLEAN :
             Decides(s, "admit", [id |-> row.id, who |-> asked + 1, number |-> number, admin |-> admin])

Reject(s, row) == Decides(s, "refuse", row)

AssignManually(s) ==
  \E n \in Names, number \in Phones \cup {NoPhone} :
    Decides(s, "assign", [name |-> n, number |-> number])

-----------------------------------------------------------------------------
\* What the decisions do, each in one transaction or statement.

\* AdminApprovePhoneRequest: the number that is in the row by now.
VerifyUpdate(s) ==
  LET row == job[s].arg
      found == {r \in wanted : r.id = row.id /\ r.for \in Accounts}
      free == {r \in found : ~Taken(r.number, r.for)}
  IN
  /\ JobAt(s, "verify", "update")
  /\ \/ \E r \in free :
          /\ phone' = WithPhone(r.for, r.number)
          /\ wanted' = wanted \ {r}
          /\ vetted' = vetted \cup {<<row.for, row.number>>}
          /\ JobGoes(s, "done")
     \/ /\ free = {} /\ JobGoes(s, IF found = {} THEN "error" ELSE "409")
        /\ UNCHANGED <<phone, wanted, vetted>>
  /\ UNCHANGED <<user, signups, listed, replaced>>

\* Mutant of AdmitInsert: the number of the request is granted whatever was decided.
AdmitInsertGrants(s) ==
  LET a == job[s].arg IN
  /\ JobAt(s, "admit", "update")
  /\ \E r \in signups :
       /\ r.id = a.id /\ ~Exists(r.name) /\ ~Taken(r.number, None)
       /\ user' = [user EXCEPT ![r.name] =
            [who |-> a.who, pw |-> r.pw, ver |-> 0, admin |-> a.admin, bundle |-> r.bundle]]
       /\ phone' = WithPhone(a.who, r.number)
       /\ signups' = signups \ {r}
  /\ vetted' = vetted \cup {<<a.who, a.number>>}
  /\ JobGoes(s, "done")
  /\ UNCHANGED <<wanted, listed, replaced>>

\* AdminApproveRegistration: an account with the password and keys of the request; a
\* number that is not granted becomes a request of its own.
AdmitInsert(s) ==
  LET a == job[s].arg
      found == {r \in signups : r.id = a.id}
      free == {r \in found : ~Exists(r.name) /\ ~Taken(a.number, None)}
  IN
  /\ JobAt(s, "admit", "update")
  /\ \/ \E r \in free :
          /\ user' = [user EXCEPT ![r.name] =
               [who |-> a.who, pw |-> r.pw, ver |-> 0, admin |-> a.admin, bundle |-> r.bundle]]
          /\ phone' = WithPhone(a.who, a.number)
          /\ wanted' = IF r.number = a.number THEN wanted
                       ELSE wanted \cup {[id |-> a.who, for |-> a.who, number |-> r.number]}
          /\ vetted' = vetted \cup {<<a.who, a.number>>}
          /\ signups' = signups \ {r}
          /\ JobGoes(s, "done")
     \/ /\ free = {} /\ JobGoes(s, IF found = {} THEN "error" ELSE "409")
        /\ UNCHANGED <<user, phone, wanted, vetted, signups>>
  /\ UNCHANGED <<listed, replaced>>

\* AdminRejectPhoneRequest, AdminRejectRegistration.
RefuseUpdate(s) ==
  LET row == job[s].arg IN
  /\ JobAt(s, "refuse", "update")
  /\ JobGoes(s, IF \E other \in PhoneRows \cup SignupRows : other.id = row.id THEN "done" ELSE "error")
  /\ wanted' = {r \in wanted : r.id # row.id}
  /\ signups' = {r \in signups : r.id # row.id}
  /\ UNCHANGED <<user, phone, listed, vetted, replaced>>

\* AdminSetUserPhone, for whoever has that name.
AssignUpdate(s) ==
  LET a == job[s].arg
      w == user[a.name].who
  IN
  /\ JobAt(s, "assign", "update")
  /\ \/ /\ w # None /\ ~Taken(a.number, w)
        /\ phone' = WithPhone(w, a.number)
        /\ vetted' = vetted \cup {<<w, a.number>>}
        /\ JobGoes(s, "done")
     \/ /\ w = None \/ Taken(a.number, w)
        /\ JobGoes(s, IF a.number = NoPhone THEN "done" ELSE IF w = None THEN "error" ELSE "409") /\ UNCHANGED <<phone, vetted>>
  /\ UNCHANGED <<user, wanted, signups, listed, replaced>>

-----------------------------------------------------------------------------
DeskOps == {"register", "phone", "cancel", "unphone", "desk", "verify", "admit", "refuse", "assign"}

\* The answer: the rows, or a decision, after which the page loads them again.
DeskAnswer(s) ==
  LET d == Device[s]
      j == job[s]
      decided == j.op \in {"verify", "admit", "refuse", "assign"} /\ j.step = "done" /\ j.here
  IN
  /\ j.op \in DeskOps /\ j.step \in Ended
  /\ Refuses(s, {})
  /\ job' = [t \in Slots |-> IF t # s THEN Left(t) ELSE IF decided THEN RefreshRequest(s) ELSE NoJob]
  /\ listed' = [listed EXCEPT ![d] = IF d \notin home' THEN {}
                  ELSE IF j.op = "desk" /\ j.step = "done" /\ j.here THEN j.reply.rows ELSE @]
  /\ UNCHANGED <<user, asked, phone, wanted, signups, vetted, replaced>>

DeskAsks(s) ==
  \/ HandleRegister(s)
  \/ HandleRequestPhone(s) \/ HandleCancelPhone(s) \/ HandleRemovePhone(s)
  \/ Refresh(s) \/ AssignManually(s)
  \/ \E row \in listed[Device[s]] : Approve(s, row) \/ Reject(s, row)

DeskHandles(s) ==
  \/ RegisterInsert(s) \/ PhoneCheck(s) \/ PhoneInsert(s) \/ CancelDelete(s) \/ RemoveUpdate(s)
  \/ DeskSelect(s) \/ VerifyUpdate(s) \/ AdmitInsert(s) \/ RefuseUpdate(s) \/ AssignUpdate(s)

ApprovalsStep ==
  /\ \E s \in Slots :
       \/ DeskAsks(s) /\ UNCHANGED <<user, pageVars>>
       \/ DeskHandles(s) /\ UNCHANGED <<asked, pageVars>>
       \/ DeskAnswer(s)
  /\ UNCHANGED <<sessions, req, raced>>

-----------------------------------------------------------------------------
\* An account has only a number that an administrator has seen and granted to it
\* (phone.go:26), however requests are withdrawn, repeated, decided twice or overtaken;
\* only a number that is replaced while a page still shows the old one is granted
\* unseen, as both are in the same row.
VerifiedWasSeen ==
  \A w \in Accounts \ replaced : HasPhone(w) => <<w, phone[w]>> \in vetted
===============================================================================
