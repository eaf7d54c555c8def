--------------------------------- MODULE Jobs ---------------------------------
(***************************************************************************)
(* Requests that pages send beside those of SignIn: each is seen here when *)
(* the middleware has checked its token (api/client.js in front,           *)
(* middleware/auth.go behind), and its handler goes on step by step.       *)
(***************************************************************************)
EXTENDS SignIn

VARIABLE job   \* the request of each slot and how far its handler is

\* "arg": what it asks for, "reply": what a read returned. "here": whoever waits
\* for the answer is still on the page.
NoJob == [op |-> "none", step |-> "idle", tok |-> << >>, admin |-> FALSE,
          arg |-> << >>, reply |-> << >>, here |-> FALSE]

JobTypeOK ==
  \A s \in Slots :
    /\ DOMAIN job[s] = DOMAIN NoJob
    /\ job[s].op = "none" <=> job[s] = NoJob
    /\ job[s].step \in Ended \cup {"idle", "check", "insert", "update", "select", "save",
                                    "read", "delete", "unlink", "stat", "remove"}

Free(s) == job[s].op = "none" /\ req[s] = Idle

\* Requests that change something are counted, and the count makes fresh ids.
Counted == asked < MaxRequests /\ asked' = asked + 1

Who(t) == user[t.name].who
Accounts == {user[n].who : n \in {x \in Names : Exists(x)}}

\* Authenticated, and AdminMiddleware.
Request(s, op, arg, step) ==
  LET t == token[Device[s]] IN
  [op |-> op, tok |-> t, admin |-> IsAdmin(t), arg |-> arg, reply |-> << >>, here |-> TRUE,
   step |-> IF Accepts(t) THEN step ELSE "401"]

AdminRequest(s, op, arg, step) ==
  Request(s, op, arg, IF IsAdmin(token[Device[s]]) THEN step ELSE "403")

Sends(s, r) == Free(s) /\ Device[s] \in home /\ job' = [job EXCEPT ![s] = r]

\* Whoever has left the application waits for nothing.
Left(t) == [job[t] EXCEPT !.here = @ /\ Device[t] \in home']

JobAt(s, op, step) == job[s].op = op /\ job[s].step = step
JobGoes(s, step) == job' = [job EXCEPT ![s].step = step]

\* client.js signs the page out; what goes around it does not.
Refuses(s, aside) ==
  IF job[s].step = "401" /\ job[s].op \notin aside
  THEN Expires(Device[s]) /\ UNCHANGED <<panel, faults>>
  ELSE UNCHANGED pageVars
===============================================================================
