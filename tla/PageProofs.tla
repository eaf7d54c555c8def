----------------------------- MODULE PageProofs -----------------------------
(***************************************************************************)
(* What a page of the file library shows, for any number of names,         *)
(* devices, slots, entries and page sizes: what it knows of the locks, and *)
(* what is on its way to it, is what the server would say.                 *)
(***************************************************************************)
EXTENDS LibraryProofs

-----------------------------------------------------------------------------
\* Requests somebody waits for.

-----------------------------------------------------------------------------
\* Who waits for an answer of the library, and with which token.

\* A page that stays keeps its token.
LEMMA SignInHome ==
  ASSUME AccountsInv, SignInNext, NEW d \in Devices, d \in home, d \in home'
  PROVE  token'[d] = token[d]
<1>0. token \in [Devices -> Token \cup {NoToken}] /\ \A s \in Slots : Signing(req[s]) => Device[s] \notin home
  BY DEF AccountsInv, ServerOK, SigningOK
<1>1. ASSUME NEW s \in Slots, Answer(s)
      PROVE  token'[d] = token[d]
  <2>0. Device[s] \in Devices
    BY Constants
  <2>1. CASE At(s, "login", "done")
    <3>1. token' = [token EXCEPT ![Device[s]] = req[s].tok] /\ Signing(req[s])
      BY <1>1, <2>1 DEF Answer, LoggedIn, At, Signing
    <3> QED BY <1>0, <2>0, <3>1
  <2>2. CASE ~At(s, "login", "done")
    <3>1. Answered(s)
      BY <1>1, <2>2 DEF Answer
    <3>2. CASE UNCHANGED token
      BY <3>2
    <3>3. CASE token' = [token EXCEPT ![Device[s]] = NoToken] /\ (req[s].op = "upload" \/ home' = home \ {Device[s]})
      <4>1. Device[s] # d
        BY <1>0, <3>3 DEF Signing
      <4> QED BY <1>0, <2>0, <3>3, <4>1
    <3> QED BY <3>1, <3>2, <3>3 DEF Answered, Enters, EntersWithoutKeys, Expires, LogsOut
  <2> QED BY <2>1, <2>2
<1>2. ASSUME NEW e \in Devices, LogOut(e) PROVE token'[d] = token[d]
  BY <1>0, <1>2 DEF LogOut, LogsOut
<1>3. ASSUME NEW s \in Slots, AnswerLost(s) PROVE token'[d] = token[d]
  BY <1>3 DEF AnswerLost
<1>4. ASSUME NEW s \in Slots, SubmitLogin(s) \/ Requests(s) \/ AdminRequests(s) \/ Setup(s) \/ UNCHANGED pageVars
      PROVE  token'[d] = token[d]
  BY <1>4 DEF SubmitLogin, Requests, AdminRequests, Setup, pageVars
<1> QED BY <1>1, <1>2, <1>3, <1>4 DEF SignInNext

LEMMA RefusesHome ==
  ASSUME AccountsInv, NEW s \in Slots, NEW aside, Refuses(s, aside), NEW d \in Devices, d \in home, d \in home'
  PROVE  token'[d] = token[d]
<1>1. token \in [Devices -> Token \cup {NoToken}]
  BY DEF AccountsInv, ServerOK
<1> QED BY <1>1, RefusesIs DEF Expires

LEMMA HomeToken ==
  ASSUME OfficeInv, [OfficeNext]_officeVars, NEW d \in Devices, d \in home, d \in home'
  PROVE  token'[d] = token[d]
<1>0. AccountsInv
  BY DEF OfficeInv
<1>1. CASE SignInNext
  BY <1>0, <1>1, SignInHome
<1>2. CASE ApprovalsStep
  <2>1. ASSUME NEW s \in Slots, DeskAnswer(s) PROVE token'[d] = token[d]
    BY <1>0, <2>1, RefusesHome DEF DeskAnswer
  <2> QED BY <1>2, <2>1 DEF ApprovalsStep, pageVars
<1>3. CASE LibraryStep
  <2>1. ASSUME NEW s \in Slots, LibraryAnswer(s) PROVE token'[d] = token[d]
    BY <1>0, <2>1, RefusesHome DEF LibraryAnswer
  <2> QED BY <1>3, <2>1 DEF LibraryStep, pageVars, LibraryLost
<1>4. CASE UNCHANGED officeVars
  BY <1>4 DEF officeVars, allVars, pageVars
<1> QED BY <1>1, <1>2, <1>3, <1>4 DEF OfficeNext

Awaits(j) == j.here /\ j.op \in LibraryOps

\* A new request of the library, sent with the token of the page.
Asked(t) ==
  /\ UNCHANGED <<token, home>> /\ Device[t] \in home
  /\ job'[t].tok = token[Device[t]] /\ job'[t].admin = IsAdmin(token[Device[t]]) /\ job'[t].step # "done"

\* What a step that is no handler's does to the requests that somebody waits for.
WaitMoves(t) == Awaits(job'[t]) => (Weakens(t) \/ Asked(t)) /\ Device[t] \in home'

HereOK == \A s \in Slots : Awaits(job[s]) => Device[s] \in home /\ job[s].tok = token[Device[s]]

LEMMA HereMoves ==
  ASSUME OfficeInv, [OfficeNext]_officeVars, HereOK, \A t \in Slots : WaitMoves(t)
  PROVE  HereOK'
<1> SUFFICES ASSUME NEW t \in Slots, Awaits(job'[t])
             PROVE  Device[t] \in home' /\ job'[t].tok = token'[Device[t]]
  BY DEF HereOK, Awaits
<1>0. Device[t] \in Devices /\ Device[t] \in home'
  BY Constants DEF WaitMoves
<1>1. CASE Asked(t)
  BY <1>0, <1>1 DEF Asked
<1>2. CASE Weakens(t)
  <2>1. Awaits(job[t]) /\ job'[t].tok = job[t].tok
    BY <1>2 DEF Weakens, Awaits
  <2>2. Device[t] \in home /\ job[t].tok = token[Device[t]]
    BY <2>1 DEF HereOK
  <2>3. token'[Device[t]] = token[Device[t]]
    BY <1>0, <2>2, HomeToken
  <2> QED BY <1>0, <2>1, <2>2, <2>3
<1> QED BY <1>1, <1>2 DEF WaitMoves

LEMMA WeakensMoves ==
  ASSUME HereOK, home \subseteq home', NEW t \in Slots, Weakens(t)
  PROVE  WaitMoves(t)
BY DEF HereOK, Weakens, WaitMoves, Awaits

LEMMA FreedMoves ==
  ASSUME NEW t \in Slots, job'[t] = NoJob
  PROVE  WaitMoves(t)
BY NoJobFields DEF WaitMoves, Awaits

LEMMA RestMoves ==
  ASSUME HereOK, UNCHANGED <<token, home>>, NEW s \in Slots, Rest(s), WaitMoves(s)
  PROVE  \A t \in Slots : WaitMoves(t)
<1>1. ASSUME NEW t \in Slots \ {s} PROVE WaitMoves(t)
  BY WeakensMoves DEF Rest
<1> QED BY <1>1

LEMMA SendsMoves ==
  ASSUME HereOK, JobsInv, JobsOK, UNCHANGED <<token, home>>, NEW s \in Slots, NEW op, NEW arg, NEW step, step # "done",
         Sends(s, Request(s, op, arg, step))
  PROVE  \A t \in Slots : WaitMoves(t)
<1>1. /\ Rest(s) /\ job'[s].tok = token[Device[s]] /\ job'[s].admin = IsAdmin(token[Device[s]])
      /\ job'[s].step \in {step, "401"} /\ Device[s] \in home
  BY SentRequest
<1>2. Asked(s) /\ WaitMoves(s)
  BY <1>1 DEF Asked, WaitMoves
<1> QED BY <1>1, <1>2, RestMoves

LEMMA LoadMoves ==
  ASSUME HereOK, JobsInv, JobsOK, UNCHANGED <<token, home>>, NEW s \in Slots, NEW mine \in BOOLEAN, Load(s, mine),
         Device[s] \in home
  PROVE  \A t \in Slots : WaitMoves(t)
<1>1. PICK op, offset, j : op = "load" /\ offset = 0 /\ j = ListRequest(s, op, mine, offset)
  OBVIOUS
<1>2. Rest(s) /\ job'[s] = j
  BY <1>1, LoadWeakens
<1>3. PICK arg, step : arg = [mine |-> mine, offset |-> offset, newest |-> TRUE] /\ step = "select"
  OBVIOUS
<1>4. /\ j.step = IF Accepts(token[Device[s]]) THEN step ELSE "401"
      /\ j.tok = token[Device[s]] /\ j.admin = IsAdmin(token[Device[s]])
  <2>1. j = Request(s, op, arg, step)
    BY <1>1, <1>3 DEF ListRequest
  <2> QED BY <2>1 DEF Request
<1>5. Asked(s) /\ WaitMoves(s)
  BY <1>2, <1>3, <1>4 DEF Asked, WaitMoves
<1> QED BY <1>2, <1>5, RestMoves

LEMMA AsksMoves ==
  ASSUME HereOK, JobsInv, LibInv, UNCHANGED <<token, home>>, NEW s \in Slots, LibraryAsks(s)
  PROVE  \A t \in Slots : WaitMoves(t)
<1>0. JobsOK /\ PagesTyped /\ DOMAIN page \subseteq home
  BY DEF LibInv, PagesTyped
<1>1. CASE LoadDue(s)
  <2>1. PICK mine : mine = page[Device[s]].mine
    OBVIOUS
  <2>2. Device[s] \in DOMAIN page /\ Load(s, mine)
    BY <1>1, <2>1 DEF LoadDue, Open
  <2>3. mine \in BOOLEAN
    BY <1>0, <2>1, <2>2 DEF PagesTyped, PageOK
  <2> QED BY <1>0, <2>2, <2>3, LoadMoves
<1>2. CASE LoadMore(s)
  <2>1. PICK op, arg, step : /\ op = "more" /\ step = "select"
                             /\ arg = [mine |-> page[Device[s]].mine, offset |-> Len(page[Device[s]].rows), newest |-> TRUE]
    OBVIOUS
  <2>2. Sends(s, Request(s, op, arg, step)) /\ step # "done"
    BY <1>2, <2>1 DEF LoadMore, ListRequest
  <2> QED BY <1>0, <2>2, SendsMoves
<1>3. CASE SubmitPassword(s)
  <2>1. PICK op, step : op = "unlock" /\ step = "read"
    OBVIOUS
  <2>2. PICK arg : Sends(s, Request(s, op, arg, step)) /\ step # "done"
    BY <1>3, <2>1 DEF SubmitPassword
  <2> QED BY <1>0, <2>2, SendsMoves
<1>4. CASE OpenRow(s)
  <2>1. PICK op, step : op = "fetch" /\ step = "read"
    OBVIOUS
  <2>2. PICK arg : Sends(s, Request(s, op, arg, step)) /\ step # "done"
    BY <1>4, <2>1 DEF OpenRow, FetchRequest
  <2> QED BY <1>0, <2>2, SendsMoves
<1>5. CASE Upload(s)
  <2>1. PICK op, step : op = "post" /\ step = "save"
    OBVIOUS
  <2>2. PICK arg : Sends(s, Request(s, op, arg, step)) /\ step # "done"
    BY <1>5, <2>1 DEF Upload
  <2> QED BY <1>0, <2>2, SendsMoves
<1>6. CASE EditModal(s)
  <2>1. PICK op, step : op = "edit" /\ step = "read"
    OBVIOUS
  <2>2. PICK arg : Sends(s, Request(s, op, arg, step)) /\ step # "done"
    BY <1>6, <2>1 DEF EditModal
  <2> QED BY <1>0, <2>2, SendsMoves
<1>7. CASE Remove(s)
  <2>1. PICK op, step : op = "drop" /\ step = "read"
    OBVIOUS
  <2>2. PICK arg : Sends(s, Request(s, op, arg, step)) /\ step # "done"
    BY <1>7, <2>1 DEF Remove
  <2> QED BY <1>0, <2>2, SendsMoves
<1> QED BY <1>1, <1>2, <1>3, <1>4, <1>5, <1>6, <1>7 DEF LibraryAsks

LEMMA AnswerMoves ==
  ASSUME HereOK, JobsInv, LibInv, NEW s \in Slots, LibraryAnswer(s)
  PROVE  \A t \in Slots : WaitMoves(t)
<1> DEFINE d == Device[s]
           again == job[s].here /\ Open(d) /\ job[s].step = "done"
<1>0. JobsOK /\ DOMAIN page \subseteq home /\ JobOK(job[s])
  BY DEF LibInv, PagesTyped, JobsOK
<1>1. CASE again
  <2>1. UNCHANGED <<token, home>> /\ d \in home
    BY <1>0, <1>1 DEF LibraryAnswer, Refuses, pageVars, Open
  <2>2. CASE job[s].op \in {"post", "edit"}
    <3>1. PICK mine : mine = job[s].arg.mine
      OBVIOUS
    <3>2. mine \in BOOLEAN
      BY <1>0, <2>2, <3>1 DEF JobOK
    <3>3. Load(s, mine)
      BY <1>1, <2>2, <3>1 DEF LibraryAnswer
    <3> QED BY <1>0, <2>1, <3>2, <3>3, LoadMoves
  <2>3. CASE job[s].op \notin {"post", "edit"}
    <3>1. PICK f : f = IF job[s].op = "unlock" THEN FetchRequest(s, job[s].arg.id, job[s].arg.pw) ELSE NoJob
      OBVIOUS
    <3>2. job' = [t \in Slots |-> IF t # s THEN IF Device[t] = d THEN Waits(t) ELSE job[t] ELSE f]
      BY <1>1, <2>3, <3>1 DEF LibraryAnswer
    <3>3. ASSUME NEW t \in Slots \ {s} PROVE WaitMoves(t)
      <4>1. CASE job'[t] = Waits(t)
        <5>1. Weakens(t)
          BY <1>0, <4>1, WaitsWeakens
        <5> QED BY <2>1, <5>1, WeakensMoves
      <4>2. CASE job'[t] = job[t]
        <5>1. Weakens(t)
          BY <1>0, <4>2, SameWeakens
        <5> QED BY <2>1, <5>1, WeakensMoves
      <4> QED BY <3>2, <4>1, <4>2
    <3>4. job'[s] = f
      BY <3>2
    <3>5. CASE job[s].op = "unlock"
      <4>1. PICK id, pw : id = job[s].arg.id /\ pw = job[s].arg.pw
        OBVIOUS
      <4>2. PICK op, arg, step : op = "fetch" /\ arg = [id |-> id, pw |-> pw] /\ step = "read"
        OBVIOUS
      <4>3. f = Request(s, op, arg, step)
        BY <3>1, <3>5, <4>1, <4>2 DEF FetchRequest
      <4>5. /\ f.step = IF Accepts(token[Device[s]]) THEN step ELSE "401"
            /\ f.tok = token[Device[s]] /\ f.admin = IsAdmin(token[Device[s]])
        BY <4>3 DEF Request
      <4>4. Asked(s) /\ WaitMoves(s)
        BY <2>1, <3>4, <4>2, <4>5 DEF Asked, WaitMoves
      <4> QED BY <3>3, <4>4
    <3>6. CASE job[s].op # "unlock"
      <4>1. WaitMoves(s)
        BY <3>1, <3>4, <3>6, FreedMoves
      <4> QED BY <3>3, <4>1
    <3> QED BY <3>5, <3>6
  <2> QED BY <2>2, <2>3
<1>2. CASE ~again
  <2>1. job' = [t \in Slots |-> IF t # s THEN IF Device[t] = d THEN Waits(t) ELSE job[t] ELSE NoJob]
    BY <1>2 DEF LibraryAnswer
  <2>2. home \ {d} \subseteq home'
    BY DEF LibraryAnswer, Refuses, Expires, pageVars
  <2>3. ASSUME NEW t \in Slots \ {s} PROVE WaitMoves(t)
    <3>1. CASE Device[t] = d
      <4>1. job'[t] = Waits(t)
        BY <2>1, <3>1
      <4>2. Weakens(t) /\ (job'[t].here => Device[t] \in home')
        BY <1>0, <4>1, WaitsWeakens
      <4> QED BY <4>2 DEF WaitMoves, Awaits
    <3>2. CASE Device[t] # d
      <4>1. job'[t] = job[t]
        BY <2>1, <3>2
      <4>2. Weakens(t)
        BY <1>0, <4>1, SameWeakens
      <4>3. Awaits(job[t]) => Device[t] \in home
        BY DEF HereOK
      <4> QED BY <2>2, <3>2, <4>1, <4>2, <4>3 DEF WaitMoves
    <3> QED BY <3>1, <3>2
  <2>4. WaitMoves(s)
    BY <2>1, FreedMoves
  <2> QED BY <2>3, <2>4
<1> QED BY <1>1, <1>2

LEMMA LostMoves ==
  ASSUME HereOK, JobsInv, LibInv, NEW s \in Slots, LibraryLost(s)
  PROVE  \A t \in Slots : WaitMoves(t)
<1>1. PICK f : f = NoJob
  OBVIOUS
<1>2. UNCHANGED <<token, home>> /\ job' = [job EXCEPT ![s] = f] /\ JobsOK
  BY <1>1 DEF LibraryLost, LibInv
<1>3. Rest(s) /\ job'[s] = f
  BY <1>2, Puts
<1>4. WaitMoves(s)
  BY <1>1, <1>3, FreedMoves
<1> QED BY <1>2, <1>3, <1>4, RestMoves

-----------------------------------------------------------------------------
\* What a page knows of the locks.

Fine(t) == Accepts(t) /\ "renamed" \notin raced
Unlocks(t, id, pw) == ~Locked(id) \/ user[t.name].admin \/ entry[id].owner = t.who \/ entry[id].pw = pw
Good(t, id, pw) == entry[id] # NoEntry /\ Fine(t) => Unlocks(t, id, pw)
Holds(d, id, pw) == id \in page[d].relocked \/ Good(token[d], id, pw)
AdminOK(d) == token[d] # NoToken /\ (user[token[d].name].admin \/ page[d].relocked = FileIds)

\* What the request j knows for the page of d.
Told(j, d) ==
  /\ j.admin => AdminOK(d)
  /\ IsList(j) /\ j.step = "done" =>
       \A i \in 1 .. Len(j.reply.rows) : j.reply.rows[i].open => Holds(d, j.reply.rows[i].id, None)
  /\ j.op = "unlock" /\ j.step = "done" => Holds(d, j.arg.id, j.arg.pw)

KeysHold == \A d \in DOMAIN page : \A id \in page[d].unlocked : Holds(d, id, page[d].key[id])
RepliesHold == \A s \in Slots : Awaits(job[s]) /\ Open(Device[s]) => Told(job[s], Device[s])

\* A token that is accepted after a step of a page was before.
LEMMA FineBefore ==
  ASSUME TokensInv, Change, NEW d \in Devices, NEW t, t = token[d], Fine(t)'
  PROVE  Fine(t)
<1>1. t # NoToken /\ Held(t)
  BY DEF Fine, Accepts, Held
<1>2. "renamed" \notin raced /\ "renamed" \notin raced'
  BY DEF Fine, Change
<1>3. SUFFICES ASSUME ~Accepts(t) PROVE FALSE
  BY <1>2 DEF Fine
<1>4. Dead(t)
  BY <1>1, <1>3, RefusedIsDead
<1>5. Settled(t)
  BY DEF TokensInv, TokensOK, SidsOK, Unborn, Settled
<1>6. Dead(t)'
  BY <1>1, <1>4, <1>5, DeadKept
<1>7. PICK x \in sessions' : x.sid = t.sid /\ x.name = t.name /\ user'[t.name].ver = t.ver
  BY DEF Fine, Accepts
<1>8. user'[x.name].ver > t.ver
  BY <1>2, <1>6, <1>7 DEF Dead
<1>9. t.ver \in Nat
  <2>1. t \in Token
    BY <1>1, HeldIs DEF TokensInv, OfficeInv, AccountsInv
  <2> QED BY <2>1 DEF Token
<1> QED BY <1>7, <1>8, <1>9

\* What a step does to the locks: x is an entry that comes, or none.
LocksKept(x) ==
  /\ \A id \in FileIds : id # x =>
       entry'[id] = entry[id] \/ entry'[id] = NoEntry \/ \A d \in DOMAIN page' : id \in page'[d].relocked
  /\ \A d \in DOMAIN page' : Demoted(token[d].name) => page'[d].relocked = FileIds

Persists(d) == d \in DOMAIN page /\ d \in DOMAIN page' /\ page[d].relocked \subseteq page'[d].relocked

LEMMA AtHome ==
  ASSUME LibState, [OfficeNext]_officeVars, LibInv', NEW d, Persists(d)
  PROVE  d \in Devices /\ d \in home /\ d \in home' /\ token'[d] = token[d]
<1>1. d \in home /\ d \in home'
  BY DEF LibState, LibInv, PagesTyped, Persists
<1>2. d \in Devices /\ OfficeInv
  BY <1>1 DEF LibState, TokensInv, OfficeInv, AccountsInv, ServerOK
<1> QED BY <1>1, <1>2, HomeToken

LEMMA HoldsKept ==
  ASSUME LibState, [OfficeNext]_officeVars, LibInv', NEW x, LocksKept(x), NEW d, Persists(d),
         NEW id \in FileIds, id # x, NEW pw, Holds(d, id, pw)
  PROVE  Holds(d, id, pw)'
<1>0. d \in Devices /\ d \in DOMAIN page' /\ token'[d] = token[d] /\ TokensInv /\ Change
  BY AtHome, LibStateStep DEF Persists, LibState
<1> SUFFICES ASSUME id \notin page'[d].relocked PROVE Good(token[d], id, pw)'
  BY DEF Holds
<1>1. PICK t : t = token[d]
  OBVIOUS
<1>2. Good(t, id, pw)
  BY <1>1 DEF Holds, Persists
<1> SUFFICES ASSUME entry'[id] # NoEntry, Fine(t)' PROVE Unlocks(t, id, pw)'
  BY <1>0, <1>1 DEF Good
<1>3. Fine(t)
  BY <1>0, <1>1, FineBefore
<1>4. entry'[id] = entry[id]
  BY <1>0 DEF LocksKept
<1>5. Unlocks(t, id, pw)
  BY <1>2, <1>3, <1>4 DEF Good
<1>6. t.name \in Names
  BY <1>0, <1>1, <1>3 DEF TokensInv, OfficeInv, AccountsInv, ServerOK, Token, Fine, Accepts
<1>7. ~Demoted(t.name)
  BY <1>0, <1>1 DEF LocksKept
<1>8. user[t.name].admin => user'[t.name].admin
  BY <1>6, <1>7 DEF Demoted
<1> QED BY <1>4, <1>5, <1>8 DEF Unlocks, Locked

LEMMA AdminKept ==
  ASSUME LibState, [OfficeNext]_officeVars, LibInv', NEW x, LocksKept(x), NEW d, Persists(d), AdminOK(d)
  PROVE  AdminOK(d)'
<1>0. d \in Devices /\ d \in DOMAIN page' /\ token'[d] = token[d] /\ TokensInv
  BY AtHome DEF Persists, LibState
<1>1. PICK t : t = token[d]
  OBVIOUS
<1>2. t # NoToken /\ t.name \in Names
  BY <1>0, <1>1 DEF AdminOK, TokensInv, OfficeInv, AccountsInv, ServerOK, Token
<1>3. page'[d].relocked \subseteq FileIds
  BY <1>0 DEF LibInv, PagesTyped, PageOK
<1>4. CASE page[d].relocked = FileIds
  BY <1>0, <1>1, <1>2, <1>3, <1>4 DEF AdminOK, Persists
<1>5. CASE user[t.name].admin /\ ~user'[t.name].admin
  <2>1. Demoted(t.name)
    BY <1>2, <1>5 DEF Demoted
  <2>2. page'[d].relocked = FileIds
    BY <1>0, <1>1, <2>1 DEF LocksKept
  <2> QED BY <1>0, <1>1, <1>2, <2>2 DEF AdminOK
<1>6. CASE user'[t.name].admin
  BY <1>0, <1>1, <1>2, <1>6 DEF AdminOK
<1> QED BY <1>1, <1>4, <1>5, <1>6 DEF AdminOK

LEMMA ToldKept ==
  ASSUME LibState, [OfficeNext]_officeVars, LibInv', NEW x, LocksKept(x), NEW d, Persists(d),
         NEW j, JobOK(j), Told(j, d), ~JobMentions(j, x), j.op = "unlock" => j.arg.id \in FileIds
  PROVE  Told(j, d)'
<1>1. j.admin => AdminOK(d)'
  BY AdminKept DEF Told
<1>2. ASSUME IsList(j), j.step = "done", NEW i \in 1 .. Len(j.reply.rows), j.reply.rows[i].open
      PROVE  Holds(d, j.reply.rows[i].id, None)'
  <2>1. PICK id, pw : id = j.reply.rows[i].id /\ pw = None
    OBVIOUS
  <2>2. Holds(d, id, pw)
    BY <1>2, <2>1 DEF Told
  <2>3. id \in FileIds /\ id \in Ids(j.reply.rows)
    <3>1. RowsOK(j.reply.rows)
      BY <1>2 DEF JobOK
    <3> QED BY <1>2, <2>1, <3>1, RowsIds
  <2>4. id # x
    BY <1>2, <2>3 DEF JobMentions
  <2>5. Holds(d, id, pw)'
    BY <2>2, <2>3, <2>4, HoldsKept
  <2> QED BY <2>1, <2>5
<1>3. ASSUME j.op = "unlock", j.step = "done" PROVE Holds(d, j.arg.id, j.arg.pw)'
  <2>1. PICK id, pw : id = j.arg.id /\ pw = j.arg.pw
    OBVIOUS
  <2>2. Holds(d, id, pw) /\ id \in FileIds /\ id # x
    BY <1>3, <2>1 DEF Told, JobMentions
  <2>3. Holds(d, id, pw)'
    BY <2>2, HoldsKept
  <2> QED BY <2>1, <2>3
<1> QED BY <1>1, <1>2, <1>3 DEF Told

\* What is shown unlocked after a step was known before it.
PageHolds(d, x) ==
  \/ page'[d].unlocked = {}
  \/ /\ Persists(d)
     /\ \A id \in page'[d].unlocked : id # x /\ \A pw : pw = page'[d].key[id] => Holds(d, id, pw)

JobHolds(t, x) ==
  Awaits(job'[t]) /\ Device[t] \in DOMAIN page' =>
    /\ Persists(Device[t]) /\ ~JobMentions(job'[t], x)
    /\ \A j : j = job'[t] => Told(j, Device[t])

LEMMA KnownStep ==
  ASSUME LibState, [OfficeNext]_officeVars, NEW x, LocksKept(x),
         \A d \in DOMAIN page' : PageHolds(d, x), \A t \in Slots : JobHolds(t, x)
  PROVE  (KeysHold /\ RepliesHold)'
<1>0. LibInv'
  BY LibStateStep DEF LibState
<1>1. ASSUME NEW d \in DOMAIN page', NEW id \in page'[d].unlocked PROVE Holds(d, id, page[d].key[id])'
  <2>1. Persists(d) /\ id # x /\ \A pw : pw = page'[d].key[id] => Holds(d, id, pw)
    BY <1>1 DEF PageHolds
  <2>2. PICK pw : pw = page'[d].key[id]
    OBVIOUS
  <2>3. Holds(d, id, pw)
    BY <2>1, <2>2
  <2>4. id \in FileIds
    <3>1. PageOK(page'[d])
      BY <1>0 DEF LibInv, PagesTyped
    <3>2. RowsOK(page'[d].rows) /\ id \in Ids(page'[d].rows)
      BY <3>1 DEF PageOK
    <3> QED BY <3>2, RowsIds
  <2>5. Holds(d, id, pw)'
    BY <1>0, <2>1, <2>3, <2>4, HoldsKept
  <2> QED BY <2>2, <2>5
<1>2. KeysHold'
  BY <1>1 DEF KeysHold
<1>3. ASSUME NEW t \in Slots, Awaits(job'[t]), Device[t] \in DOMAIN page' PROVE Told(job[t], Device[t])'
  <2>1. PICK j : j = job'[t]
    OBVIOUS
  <2>2. Persists(Device[t]) /\ ~JobMentions(j, x) /\ Told(j, Device[t])
    BY <1>3, <2>1 DEF JobHolds
  <2>3. JobOK(j)
    BY <1>0, <2>1 DEF LibInv, JobsOK
  <2>4. j.op = "unlock" => j.arg.id \in FileIds
    BY <1>0, <2>1 DEF LibInv, MentionOK, Mentioned, JobMentions
  <2>5. PICK d : d = Device[t]
    OBVIOUS
  <2>6. Persists(d) /\ Told(j, d)
    BY <2>2, <2>5
  <2>7. Told(j, d)'
    BY <1>0, <2>2, <2>3, <2>4, <2>6, ToldKept
  <2> QED BY <2>1, <2>5, <2>7
<1>4. RepliesHold'
  BY <1>3 DEF RepliesHold, Open, Awaits
<1> QED BY <1>2, <1>4

LEMMA WeakenedTold ==
  ASSUME JobsOK, NEW t \in Slots, NEW d, Weakens(t), Told(job[t], d), NEW j, j = job'[t]
  PROVE  Told(j, d)
<1>1. /\ j.op = job[t].op /\ j.step = job[t].step /\ j.admin = job[t].admin /\ j.reply = job[t].reply
      /\ j.arg = job[t].arg \/ IsList(job[t])
  BY DEF Weakens
<1> QED BY <1>1 DEF Told, IsList

LEMMA AskedTold ==
  ASSUME NEW t \in Slots, Asked(t), NEW j, j = job'[t]
  PROVE  Told(j, Device[t])
BY DEF Asked, Told, IsAdmin, Accepts, AdminOK

\* Nothing is told of an entry that no request is about.
LEMMA MovesHold ==
  ASSUME LibState, RepliesHold, NEW t \in Slots, WaitMoves(t), NEW x, ~JobMentions(job'[t], x),
         Awaits(job'[t]) /\ Device[t] \in DOMAIN page' => Persists(Device[t])
  PROVE  JobHolds(t, x)
<1> SUFFICES ASSUME Awaits(job'[t]), Device[t] \in DOMAIN page', NEW j, j = job'[t]
             PROVE  Persists(Device[t]) /\ Told(j, Device[t])
  BY DEF JobHolds
<1>1. Persists(Device[t]) /\ (Weakens(t) \/ Asked(t))
  BY DEF WaitMoves
<1>2. CASE Asked(t)
  BY <1>1, <1>2, AskedTold
<1>3. CASE Weakens(t)
  <2>1. Awaits(job[t]) /\ Open(Device[t])
    BY <1>1, <1>3 DEF Weakens, Awaits, Persists, Open
  <2>2. Told(job[t], Device[t]) /\ JobsOK
    BY <2>1 DEF RepliesHold, LibState, LibInv
  <2> QED BY <1>1, <1>3, <2>2, WeakenedTold
<1> QED BY <1>1, <1>2, <1>3

\* Of no entry.
LEMMA NoneMentioned ==
  ASSUME LibInv'
  PROVE  /\ \A t \in Slots : ~JobMentions(job'[t], None)
         /\ \A d \in DOMAIN page' : \A id \in page'[d].unlocked : id # None
<1>1. ASSUME NEW t \in Slots, JobMentions(job'[t], None) PROVE FALSE
  <2>1. None \in FileIds
    BY <1>1 DEF LibInv, MentionOK, Mentioned
  <2> QED BY <2>1 DEF FileIds
<1>2. ASSUME NEW d \in DOMAIN page', NEW id \in page'[d].unlocked PROVE id # None
  <2>1. PageOK(page'[d])
    BY DEF LibInv, PagesTyped
  <2>2. RowsOK(page'[d].rows) /\ id \in Ids(page'[d].rows)
    BY <2>1 DEF PageOK
  <2>3. id \in FileIds
    BY <2>2, RowsIds
  <2> QED BY <2>3 DEF FileIds
<1> QED BY <1>1, <1>2

\* A page of which the locks are as they were.
SameLocks(d) ==
  /\ d \in DOMAIN page /\ page'[d].unlocked = page[d].unlocked /\ page'[d].key = page[d].key
  /\ page[d].relocked \subseteq page'[d].relocked

LEMMA SameHolds ==
  ASSUME KeysHold, LibInv', NEW d \in DOMAIN page', SameLocks(d)
  PROVE  Persists(d) /\ PageHolds(d, None)
<1>1. Persists(d)
  BY DEF SameLocks, Persists
<1>2. ASSUME NEW id \in page'[d].unlocked, NEW pw, pw = page'[d].key[id] PROVE Holds(d, id, pw)
  BY <1>2 DEF KeysHold, SameLocks
<1>3. \A id \in page'[d].unlocked : id # None
  BY NoneMentioned
<1> QED BY <1>1, <1>2, <1>3 DEF PageHolds

-----------------------------------------------------------------------------
\* Handlers.

Known == HereOK /\ KeysHold /\ RepliesHold

\* What its handler tells the request of s is right.
Learns(s) ==
  Awaits(job[s]) /\ Open(Device[s]) /\ Told(job[s], Device[s]) => \A j : j = job'[s] => Told(j, Device[s])

LEMMA FollowsKnown ==
  ASSUME LibState, [OfficeNext]_officeVars, Known, UNCHANGED <<token, home>>,
         NEW s \in Slots, NEW step, NEW reply, Follows(s, step, reply), Learns(s),
         NEW x, LocksKept(x), \A d \in DOMAIN page' : SameLocks(d) /\ x \notin page'[d].unlocked,
         \A t \in Slots : ~JobMentions(job'[t], x)
  PROVE  Known'
<1>0. LibInv' /\ JobsInv /\ JobsOK
  BY LibStateStep DEF LibState, LibInv, TokensInv, OfficeInv
<1>1. \A d \in DOMAIN page' : Persists(d)
  BY DEF SameLocks, Persists
<1>2. ASSUME NEW d \in DOMAIN page' PROVE PageHolds(d, x)
  BY <1>1 DEF PageHolds, SameLocks, Known, KeysHold
<1>3. ASSUME NEW t \in Slots \ {s} PROVE WaitMoves(t) /\ JobHolds(t, x)
  <2>1. job'[t] = job[t]
    BY DEF Follows
  <2>2. Weakens(t)
    BY <1>0, <2>1, SameWeakens
  <2>3. WaitMoves(t)
    BY <2>2, WeakensMoves DEF Known
  <2> QED BY <1>1, <2>3, MovesHold DEF Known
<1>4. Awaits(job'[s]) <=> Awaits(job[s])
  BY DEF Follows, Awaits
<1>5. JobHolds(s, x)
  <2> SUFFICES ASSUME Awaits(job'[s]), Device[s] \in DOMAIN page', NEW j, j = job'[s]
               PROVE  Persists(Device[s]) /\ Told(j, Device[s])
    BY DEF JobHolds
  <2>1. Persists(Device[s])
    BY <1>1
  <2>2. Awaits(job[s]) /\ Open(Device[s])
    BY <1>4, <2>1 DEF Persists, Open
  <2>3. Told(job[s], Device[s])
    BY <2>2 DEF Known, RepliesHold
  <2> QED BY <2>1, <2>2, <2>3 DEF Learns
<1>6. (KeysHold /\ RepliesHold)'
  BY <1>2, <1>3, <1>5, KnownStep DEF Known
<1>7. HereOK'
  <2> SUFFICES ASSUME NEW t \in Slots, Awaits(job'[t]) PROVE Device[t] \in home' /\ job'[t].tok = token'[Device[t]]
    BY DEF HereOK, Awaits
  <2>1. Awaits(job[t]) /\ job'[t].tok = job[t].tok
    BY <1>4 DEF Follows
  <2> QED BY <2>1 DEF Known, HereOK
<1> QED BY <1>6, <1>7 DEF Known

LEMMA PlainLearns ==
  ASSUME NEW s \in Slots, NEW step, NEW reply, Follows(s, step, reply),
         step = "done" => ~IsList(job[s]) /\ job[s].op # "unlock"
  PROVE  Learns(s)
<1> SUFFICES ASSUME Told(job[s], Device[s]), NEW j, j = job'[s] PROVE Told(j, Device[s])
  BY DEF Learns
<1>1. j.op = job[s].op /\ j.step = step /\ j.admin = job[s].admin
  BY DEF Follows
<1> QED BY <1>1 DEF Told, IsList

\* A handler that leaves the entries and the pages alone.
LEMMA ReadingKnown ==
  ASSUME LibState, [OfficeNext]_officeVars, Known, UNCHANGED <<token, home, user, entry, page>>,
         NEW s \in Slots, NEW step, NEW reply, Follows(s, step, reply), Learns(s)
  PROVE  Known'
<1>1. PICK x : x = None
  OBVIOUS
<1>2. LibInv'
  BY LibStateStep DEF LibState
<1>3. \A n : ~Demoted(n)
  BY DEF Demoted
<1>4. LocksKept(x)
  BY <1>3 DEF LocksKept
<1>5. \A t \in Slots : ~JobMentions(job'[t], x)
  BY <1>1, <1>2, NoneMentioned
<1>6. \A d \in DOMAIN page' : SameLocks(d) /\ x \notin page'[d].unlocked
  BY <1>1, <1>2, NoneMentioned DEF SameLocks
<1> QED BY <1>4, <1>5, <1>6, FollowsKnown

LEMMA PlainKnown ==
  ASSUME LibState, [OfficeNext]_officeVars, Known, UNCHANGED <<token, home, user, entry, page>>,
         NEW s \in Slots, NEW step, JobGoes(s, step), step = "done" => ~IsList(job[s]) /\ job[s].op # "unlock"
  PROVE  Known'
<1>1. PICK reply : reply = job[s].reply
  OBVIOUS
<1>2. Follows(s, step, reply)
  BY <1>1, JobFollows DEF LibState, LibInv, TokensInv, OfficeInv
<1>3. Learns(s)
  BY <1>2, PlainLearns
<1> QED BY <1>2, <1>3, ReadingKnown

\* The password is right.
LEMMA UnlockKnown ==
  ASSUME LibState, [OfficeNext]_officeVars, Known, UNCHANGED <<token, home, user>>, NEW s \in Slots, UnlockRead(s)
  PROVE  Known'
<1> DEFINE a == job[s].arg
<1>1. PICK step, reply : /\ reply = job[s].reply
                         /\ step = IF entry[a.id] = NoEntry THEN "error"
                                   ELSE IF ~Locked(a.id) \/ entry[a.id].pw # a.pw THEN "403" ELSE "done"
  OBVIOUS
<1>2. JobGoes(s, step) /\ job[s].op = "unlock" /\ UNCHANGED <<entry, page>>
  BY <1>1 DEF UnlockRead, JobAt, libraryVars
<1>3. Follows(s, step, reply)
  BY <1>1, <1>2, JobFollows DEF LibState, LibInv, TokensInv, OfficeInv
<1>4. ASSUME Told(job[s], Device[s]), NEW j, j = job'[s] PROVE Told(j, Device[s])
  <2>1. j.op = job[s].op /\ j.step = step /\ j.admin = job[s].admin /\ j.arg = a
    BY <1>3, <1>4 DEF Follows
  <2>2. step = "done" => entry[a.id].pw = a.pw
    BY <1>1
  <2>3. step = "done" => Holds(Device[s], a.id, a.pw)
    BY <2>2 DEF Holds, Good, Unlocks
  <2> QED BY <1>2, <1>4, <2>1, <2>3 DEF Told, IsList
<1>5. Learns(s)
  BY <1>4 DEF Learns
<1> QED BY <1>2, <1>3, <1>5, ReadingKnown

\* The rows that are open to whoever asked.
LEMMA OpenRows ==
  ASSUME LibInv, JobsInv, NEW s \in Slots, ListSelect(s)
  PROVE  \E reply : /\ Follows(s, "done", reply) /\ IsList(job[s]) /\ UNCHANGED <<entry, page>>
                    /\ \A i \in 1 .. Len(reply.rows) : LET row == reply.rows[i] IN
                         row.id \in FileIds /\ (row.open => ~Locked(row.id) \/ Privileged(job[s], row.id))
<1> DEFINE j == job[s]
           found == Selected(j, j.arg.mine)
<1>0. IsList(j) /\ j.step = "select" /\ j.arg.offset \in Nat /\ TableOK /\ JobsOK /\ UNCHANGED <<entry, page>>
  BY DEF ListSelect, LibInv, JobsOK, JobOK, IsList, libraryVars
<1>1. PICK ids, rows : ids = Part(found, j.arg.offset) /\ rows = RowsOf(j, ids)
  OBVIOUS
<1>2. job' = [job EXCEPT ![s].step = "done", ![s].reply = [rev |-> rev, rows |-> rows]]
  BY <1>1 DEF ListSelect, Last, Part, RowsOf
<1>3. RowsOK(rows)
  BY <1>0, <1>1, ListedIs
<1>4. PICK reply, step : reply = [rev |-> rev, rows |-> rows] /\ step = "done"
  OBVIOUS
<1>5. Follows(s, step, reply)
  BY <1>0, <1>2, <1>4, JobReplies
<1>6. ASSUME NEW i \in 1 .. Len(rows)
      PROVE  rows[i].id \in FileIds /\ (rows[i].open => ~Locked(rows[i].id) \/ Privileged(j, rows[i].id))
  <2>1. rows = [k \in 1 .. Len(ids) |-> RowOf(j, ids[k])]
    BY <1>1 DEF RowsOf
  <2>2. rows[i].id \in FileIds /\ rows \in Seq(PageRow)
    BY <1>3, <1>6, RowsIds DEF RowsOK
  <2>3. DOMAIN rows = 1 .. Len(rows)
    BY <2>2
  <2>4. rows[i] = RowOf(j, ids[i])
    BY <2>1, <2>3
  <2>5. RowOf(j, ids[i]).id = ids[i] /\ (RowOf(j, ids[i]).open => ~Locked(ids[i]) \/ Privileged(j, ids[i]))
    BY DEF RowOf
  <2> QED BY <2>2, <2>4, <2>5
<1> QED BY <1>0, <1>4, <1>5, <1>6

LEMMA ListKnown ==
  ASSUME LibState, [OfficeNext]_officeVars, Known, UNCHANGED <<token, home, user>>, NEW s \in Slots, ListSelect(s)
  PROVE  Known'
<1>0. LibInv /\ JobsInv /\ TokensInv /\ OfficeInv /\ TokensOK
  BY DEF LibState, TokensInv, OfficeInv
<1>1. PICK reply, step : /\ step = "done" /\ Follows(s, step, reply) /\ IsList(job[s]) /\ UNCHANGED <<entry, page>>
                         /\ \A i \in 1 .. Len(reply.rows) : LET row == reply.rows[i] IN
                              row.id \in FileIds /\ (row.open => ~Locked(row.id) \/ Privileged(job[s], row.id))
  BY <1>0, OpenRows
<1>2. ASSUME Awaits(job[s]), Told(job[s], Device[s]), NEW j, j = job'[s] PROVE Told(j, Device[s])
  <2>1. PICK d, t : d = Device[s] /\ t = token[d]
    OBVIOUS
  <2>2. job[s].tok = t /\ d \in Devices
    BY <1>2, <2>1, Constants DEF Known, HereOK
  <2>3. ASSUME NEW id \in FileIds, NEW pw, ~Locked(id) \/ Privileged(job[s], id) PROVE Holds(d, id, pw)
    <3> SUFFICES ASSUME id \notin page[d].relocked, Fine(t) PROVE Unlocks(t, id, pw)
      BY <2>1 DEF Holds, Good
    <3>1. CASE ~Locked(id)
      BY <3>1 DEF Unlocks
    <3>2. CASE job[s].admin
      <4>1. AdminOK(d)
        BY <1>2, <2>1, <3>2 DEF Told
      <4> QED BY <2>1, <4>1 DEF AdminOK, Unlocks
    <3>3. CASE entry[id].owner = Who(job[s].tok)
      <4>1. Held(t)
        BY <2>1, <2>2 DEF Held, Fine, Accepts
      <4>2. user[t.name].who = t.who
        BY <1>0, <4>1, HeldIsCurrent DEF TokenIsCurrent, Fine
      <4> QED BY <2>2, <3>3, <4>2 DEF Who, Unlocks
    <3> QED BY <2>3, <3>1, <3>2, <3>3 DEF Privileged
  <2>4. j.op = job[s].op /\ j.step = step /\ j.admin = job[s].admin /\ j.reply = reply
    BY <1>1, <1>2 DEF Follows
  <2>5. \A i \in 1 .. Len(reply.rows) : reply.rows[i].open => Holds(d, reply.rows[i].id, None)
    BY <1>1, <2>3
  <2> QED BY <1>1, <1>2, <2>1, <2>4, <2>5 DEF Told, IsList
<1>3. Learns(s)
  BY <1>2 DEF Learns
<1> QED BY <1>1, <1>3, ReadingKnown

LEMMA NoneDemoted == ASSUME UNCHANGED user PROVE \A n : ~Demoted(n)
BY DEF Demoted

LEMMA NothingOfNone ==
  ASSUME LibState, [OfficeNext]_officeVars, NEW x, x = None
  PROVE  (\A t \in Slots : ~JobMentions(job'[t], x)) /\ (\A d \in DOMAIN page' : x \notin page'[d].unlocked)
<1>1. LibInv'
  BY LibStateStep DEF LibState
<1> QED BY <1>1, NoneMentioned

LEMMA EditedKnown ==
  ASSUME LibState, [OfficeNext]_officeVars, Known, UNCHANGED <<token, home, user>>,
         NEW s \in Slots, job[s].op = "edit", NEW e, EditsEntry(s, e)
  PROVE  Known'
<1>0. LibInv /\ JobsInv /\ JobsOK /\ TableOK /\ \A d \in DOMAIN page : PageOK(page[d])
  BY DEF LibState, LibInv, TokensInv, OfficeInv, PagesTyped
<1>1. PICK id, x : id = job[s].arg.id /\ x = None
  OBVIOUS
<1>2. id \in FileIds
  BY <1>0, <1>1, KnownEntry
<1>3. PICK changed \in BOOLEAN : changed = (e.pw # entry[id].pw) /\ Relock(id, changed)
  BY <1>1 DEF EditsEntry
<1>4. /\ DOMAIN page' = DOMAIN page
      /\ \A d \in DOMAIN page : /\ page'[d].unlocked = page[d].unlocked /\ page'[d].key = page[d].key
                                /\ page'[d].relocked = IF changed THEN page[d].relocked \cup {id} ELSE page[d].relocked
  BY <1>0, <1>2, <1>3, RelockIs
<1>5. \A d \in DOMAIN page' : SameLocks(d)
  BY <1>4 DEF SameLocks
<1>6. LocksKept(x)
  <2>1. entry' = [entry EXCEPT ![id] = e] /\ entry[id] # NoEntry /\ e.owner = entry[id].owner
        /\ e = [owner |-> e.owner, pw |-> e.pw]
    BY <1>1 DEF EditsEntry
  <2>2. entry[id] = [owner |-> entry[id].owner, pw |-> entry[id].pw]
    BY <1>0, <1>2, <2>1 DEF TableOK, EntryOK
  <2>3. ASSUME NEW k \in FileIds PROVE entry'[k] = entry[k] \/ \A d \in DOMAIN page' : k \in page'[d].relocked
    <3>1. CASE k # id
      BY <2>1, <3>1
    <3>2. CASE k = id /\ changed
      BY <1>4, <3>2
    <3>3. CASE k = id /\ ~changed
      <4>1. e.pw = entry[id].pw
        BY <1>3, <3>3
      <4>2. e = entry[id]
        BY <2>1, <2>2, <4>1
      <4>3. entry'[id] = e
        BY <1>0, <1>2, <2>1 DEF TableOK
      <4> QED BY <3>3, <4>2, <4>3
    <3> QED BY <3>1, <3>2, <3>3
  <2> QED BY <2>3, NoneDemoted DEF LocksKept
<1>7. PICK step, reply : step = "done" /\ reply = job[s].reply
  OBVIOUS
<1>8. Follows(s, step, reply)
  BY <1>0, <1>7, JobFollows DEF EditsEntry
<1>9. Learns(s)
  BY <1>8, PlainLearns DEF IsList
<1>10. (\A t \in Slots : ~JobMentions(job'[t], x)) /\ (\A d \in DOMAIN page' : x \notin page'[d].unlocked)
  BY <1>1, NothingOfNone
<1> QED BY <1>5, <1>6, <1>8, <1>9, <1>10, FollowsKnown

LEMMA DeletedKnown ==
  ASSUME LibState, [OfficeNext]_officeVars, Known, UNCHANGED <<token, home, user>>, NEW s \in Slots, DropDelete(s)
  PROVE  Known'
<1>0. JobsInv /\ JobsOK /\ TableOK /\ job[s].op = "drop" /\ UNCHANGED page
  BY DEF LibState, LibInv, TokensInv, OfficeInv, DropDelete, JobAt
<1>1. PICK x, step, reply : x = None /\ step = "unlink" /\ reply = [from |-> rev, to |-> rev']
  OBVIOUS
<1>2. job' = [job EXCEPT ![s].step = step, ![s].reply = reply]
  BY <1>1 DEF DropDelete
<1>3. Follows(s, step, reply)
  BY <1>0, <1>2, JobReplies
<1>4. Learns(s)
  BY <1>1, <1>3, PlainLearns
<1>5. \A k \in FileIds : entry'[k] = entry[k] \/ entry'[k] = NoEntry
  BY <1>0 DEF DropDelete, TableOK
<1>6. LocksKept(x)
  BY <1>5, NoneDemoted DEF LocksKept
<1>7. (\A t \in Slots : ~JobMentions(job'[t], x)) /\ (\A d \in DOMAIN page' : x \notin page'[d].unlocked)
  BY <1>1, NothingOfNone
<1>8. \A d \in DOMAIN page' : SameLocks(d)
  BY <1>0 DEF SameLocks
<1> QED BY <1>3, <1>4, <1>6, <1>7, <1>8, FollowsKnown

LEMMA StoredKnown ==
  ASSUME LibState, [OfficeNext]_officeVars, Known, UNCHANGED <<token, home, user, page>>, NEW s \in Slots,
         JobAt(s, "post", "insert"), NEW e, entry' = [entry EXCEPT ![job[s].arg.id] = e], JobGoes(s, "done")
  PROVE  Known'
<1>0. LibInv /\ JobsInv /\ JobsOK /\ TableOK /\ job[s].op = "post" /\ job[s].step = "insert"
  BY DEF LibState, LibInv, TokensInv, OfficeInv, JobAt
<1>1. PICK x, step, reply : x = job[s].arg.id /\ step = "done" /\ reply = job[s].reply
  OBVIOUS
<1>2. Follows(s, step, reply)
  BY <1>0, <1>1, JobFollows
<1>3. Learns(s)
  BY <1>0, <1>2, PlainLearns DEF IsList
<1>4. ~Mentioned(x)
  BY <1>0, <1>1, PostKnows
<1>5. ASSUME NEW t \in Slots PROVE ~JobMentions(job'[t], x)
  <2>1. CASE t = s
    BY <1>0, <1>2, <2>1 DEF Follows, JobMentions, IsList
  <2>2. CASE t # s
    BY <1>2, <1>4, <2>2 DEF Follows, Mentioned
  <2> QED BY <2>1, <2>2
<1>6. ASSUME NEW d \in DOMAIN page' PROVE SameLocks(d) /\ x \notin page'[d].unlocked
  <2>1. d \in DOMAIN page /\ page[d].unlocked \subseteq Ids(page[d].rows)
    BY <1>0, <1>6 DEF LibInv, PagesTyped, PageOK
  <2> QED BY <1>4, <2>1 DEF Mentioned, SameLocks
<1>7. \A k \in FileIds : k # x => entry'[k] = entry[k]
  BY <1>0, <1>1 DEF TableOK
<1>8. LocksKept(x)
  BY <1>7, NoneDemoted DEF LocksKept
<1> QED BY <1>2, <1>3, <1>5, <1>6, <1>8, FollowsKnown

LEMMA HandlesKnown ==
  ASSUME LibState, [OfficeNext]_officeVars, Known, UNCHANGED <<token, home, user>>, NEW s \in Slots, LibraryHandles(s)
  PROVE  Known'
<1>0. LibInv
  BY DEF LibState
<1>1. ASSUME NEW step, JobGoes(s, step), job[s].op \in {"post", "edit", "drop", "fetch"}, UNCHANGED <<entry, page>>
      PROVE  Known'
  BY <1>1, PlainKnown DEF IsList
<1>2. CASE ListSelect(s)
  BY <1>2, ListKnown
<1>3. CASE UploadInsert(s)
  <2>1. JobAt(s, "post", "insert") /\ UNCHANGED page
    BY <1>3 DEF UploadInsert
  <2>2. CASE Who(job[s].tok) = None
    <3>1. PICK step : step = "error"
      OBVIOUS
    <3>2. JobGoes(s, step) /\ UNCHANGED <<entry, page>>
      BY <1>3, <2>2, <3>1 DEF UploadInsert
    <3> QED BY <1>1, <2>1, <3>2 DEF JobAt
  <2>3. CASE Who(job[s].tok) # None
    <3>1. PICK e : e = [owner |-> Who(job[s].tok), pw |-> job[s].arg.pw]
      OBVIOUS
    <3>2. entry' = [entry EXCEPT ![job[s].arg.id] = e] /\ JobGoes(s, "done")
      BY <1>3, <2>3, <3>1 DEF UploadInsert
    <3> QED BY <2>1, <3>2, StoredKnown
  <2> QED BY <2>2, <2>3
<1>4. CASE UnlockRead(s)
  BY <1>4, UnlockKnown
<1>5. CASE EditUpdate(s)
  <2>1. job[s].op = "edit"
    BY <1>5 DEF EditUpdate, JobAt
  <2>2. CASE \E step \in {"done", "error"} : JobGoes(s, step) /\ UNCHANGED libraryVars
    BY <1>1, <2>1, <2>2 DEF libraryVars
  <2>3. CASE \E e : EditsEntry(s, e)
    BY <2>1, <2>3, EditedKnown
  <2> QED BY <1>0, <1>5, <2>2, <2>3, EditIs
<1>6. CASE DropDelete(s)
  BY <1>6, DeletedKnown
<1>7. CASE UploadSave(s) \/ DropUnlink(s)
  BY <1>1, <1>7 DEF UploadSave, DropUnlink, JobAt
<1>8. CASE OwnerRead(s)
  <2>1. PICK step : JobGoes(s, step)
    BY <1>8 DEF OwnerRead
  <2> QED BY <1>1, <1>8, <2>1 DEF OwnerRead, libraryVars
<1>9. CASE FetchRead(s)
  <2>1. PICK step : JobGoes(s, step)
    BY <1>9 DEF FetchRead
  <2> QED BY <1>1, <1>9, <2>1 DEF FetchRead, JobAt, libraryVars
<1>10. CASE FetchStat(s)
  <2>1. PICK step : JobGoes(s, step)
    BY <1>10 DEF FetchStat
  <2> QED BY <1>1, <1>10, <2>1 DEF FetchStat, JobAt, libraryVars
<1> QED BY <1>2, <1>3, <1>4, <1>5, <1>6, <1>7, <1>8, <1>9, <1>10 DEF LibraryHandles

-----------------------------------------------------------------------------
\* Answers.

LEMMA AddedFrom ==
  ASSUME NEW p, PageOK(p), NEW sent, RowsOK(sent), NEW rows, rows = Added(p, sent),
         NEW i \in 1 .. Len(rows), rows[i].id \notin Ids(p.rows)
  PROVE  \E k \in 1 .. Len(sent) : rows[i] = sent[k]
<1>1. PICK K : K = {k \in 1 .. Len(sent) : sent[k].id \notin Ids(p.rows)}
  OBVIOUS
<1>2. PICK more : more = Picked(sent, K)
  OBVIOUS
<1>3. rows = p.rows \o more /\ K \in SUBSET (1 .. Len(sent))
  BY <1>1, <1>2 DEF Added
<1>4. RowsOK(more) /\ \A m \in 1 .. Len(more) : \E k \in K : more[m] = sent[k]
  <2>1. K \in SUBSET (1 .. Len(sent))
    BY <1>3
  <2>2. /\ RowsOK(Picked(sent, K))
        /\ \A m \in 1 .. Len(Picked(sent, K)) : \E k \in K : Picked(sent, K)[m] = sent[k]
    BY <2>1, PickedRows
  <2> QED BY <1>2, <2>2
<1>5. RowsOK(p.rows)
  BY DEF PageOK
<1>6. p.rows \in Seq(PageRow) /\ more \in Seq(PageRow)
  BY <1>4, <1>5 DEF RowsOK
<1>7. CASE i \in 1 .. Len(p.rows)
  <2>1. rows[i] = p.rows[i]
    BY <1>3, <1>6, <1>7
  <2> QED BY <1>7, <2>1 DEF Ids
<1>8. CASE i \notin 1 .. Len(p.rows)
  <2>1. i - Len(p.rows) \in 1 .. Len(more) /\ rows[i] = more[i - Len(p.rows)]
    BY <1>3, <1>6, <1>8
  <2> QED BY <1>3, <1>4, <2>1
<1> QED BY <1>7, <1>8

LEMMA ShownHolds ==
  ASSUME NEW d, NEW p, PageOK(p), \A id \in p.unlocked : Holds(d, id, p.key[id]), NEW rows, RowsOK(rows),
         \A i \in 1 .. Len(rows) : rows[i].open /\ rows[i].id \notin Ids(p.rows) => Holds(d, rows[i].id, None),
         NEW id \in Opened(p, rows), NEW pw, pw = KeysLeft(p, rows)[id]
  PROVE  Holds(d, id, pw)
<1>1. id \in FileIds
  <2>1. id \in Ids(rows)
    BY OpenedOK
  <2> QED BY <2>1, RowsIds
<1>2. pw = IF id \in Common(p, rows) THEN p.key[id] ELSE None
  BY <1>1 DEF KeysLeft
<1>3. CASE id \in p.unlocked /\ id \in Common(p, rows)
  BY <1>2, <1>3
<1>4. CASE ~(id \in p.unlocked /\ id \in Common(p, rows))
  <2>1. PICK i \in 1 .. Len(rows) : rows[i].open /\ rows[i].id \notin Common(p, rows) /\ id = rows[i].id
    BY <1>4 DEF Opened
  <2>2. id \notin Ids(p.rows)
    BY <2>1 DEF Common, Ids
  <2>3. Holds(d, id, None)
    BY <2>1, <2>2
  <2>4. pw = None
    BY <1>2, <2>1
  <2> QED BY <2>3, <2>4
<1> QED BY <1>3, <1>4

LEMMA AfterHolds ==
  ASSUME NEW d, NEW s \in Slots, JobOK(job[s]), Told(job[s], d), NEW p, PageOK(p),
         \A id \in p.unlocked : Holds(d, id, p.key[id]), job[s].op = "unlock" => job[s].arg.id \in Ids(p.rows),
         NEW lost \in BOOLEAN, NEW q, q = After(s, p, lost), NEW id \in q.unlocked, NEW pw, pw = q.key[id]
  PROVE  Holds(d, id, pw)
<1> DEFINE j == job[s]
<1>0. IsLoaded(s, p, q) \/ IsLoadedMore(s, p, q) \/ IsDeleted(s, p, q) \/ IsUnlocked(s, p, q) \/ IsAnswered(s, p, q)
  BY AfterIs
<1>1. CASE IsLoaded(s, p, q)
  <2>1. PICK rows : rows = j.reply.rows
    OBVIOUS
  <2>2. q.unlocked = Opened(p, rows) /\ q.key = KeysLeft(p, rows)
    BY <1>1, <2>1 DEF IsLoaded, PageOf
  <2>3. IsList(j) /\ j.step = "done" /\ RowsOK(rows)
    BY <1>1, <2>1 DEF IsLoaded, JobAt, IsList, JobOK
  <2>4. \A i \in 1 .. Len(rows) : rows[i].open => Holds(d, rows[i].id, None)
    BY <2>1, <2>3 DEF Told
  <2> QED BY <2>2, <2>3, <2>4, ShownHolds
<1>2. CASE IsLoadedMore(s, p, q)
  <2>1. PICK sent, rows : sent = j.reply.rows /\ rows = Added(p, sent)
    OBVIOUS
  <2>2. q.unlocked = Opened(p, rows) /\ q.key = KeysLeft(p, rows)
    BY <1>2, <2>1 DEF IsLoadedMore, PageOf
  <2>3. IsList(j) /\ j.step = "done" /\ RowsOK(sent)
    BY <1>2, <2>1 DEF IsLoadedMore, JobAt, IsList, JobOK
  <2>4. \A i \in 1 .. Len(sent) : sent[i].open => Holds(d, sent[i].id, None)
    BY <2>1, <2>3 DEF Told
  <2>5. RowsOK(rows)
    BY <2>1, <2>3, AddedRows
  <2>6. ASSUME NEW i \in 1 .. Len(rows), rows[i].open, rows[i].id \notin Ids(p.rows) PROVE Holds(d, rows[i].id, None)
    <3>1. PICK k \in 1 .. Len(sent) : rows[i] = sent[k]
      BY <2>1, <2>3, <2>6, AddedFrom
    <3> QED BY <2>4, <2>6, <3>1
  <2> QED BY <2>2, <2>5, <2>6, ShownHolds
<1>3. CASE IsDeleted(s, p, q)
  <2>1. PICK gone, rows : gone = j.arg.id /\ rows = Without(p, gone)
    OBVIOUS
  <2>2. q.unlocked = Opened(p, rows) /\ q.key = KeysLeft(p, rows)
    BY <1>3, <2>1 DEF IsDeleted, PageOf
  <2>3. RowsOK(rows) /\ Ids(rows) = Ids(p.rows) \ {gone}
    BY <2>1, WithoutRows
  <2>4. \A i \in 1 .. Len(rows) : rows[i].id \in Ids(p.rows)
    BY <2>3 DEF Ids
  <2> QED BY <2>2, <2>3, <2>4, ShownHolds
<1>4. CASE IsUnlocked(s, p, q)
  <2>1. PICK x, k : x = j.arg.id /\ k = j.arg.pw
    OBVIOUS
  <2>2. q.unlocked = p.unlocked \cup {x} /\ q.key = [p.key EXCEPT ![x] = k]
    BY <1>4, <2>1 DEF IsUnlocked, PageOf
  <2>3. j.op = "unlock" /\ j.step = "done"
    BY <1>4 DEF IsUnlocked, JobAt
  <2>4. Holds(d, x, k)
    BY <2>1, <2>3 DEF Told
  <2>5. RowsOK(p.rows) /\ p.key \in [FileIds -> Keys] /\ p.unlocked \subseteq Ids(p.rows)
    BY DEF PageOK
  <2>6. x \in FileIds /\ id \in FileIds
    BY <2>1, <2>2, <2>3, <2>5, RowsIds
  <2> QED BY <2>2, <2>4, <2>5, <2>6
<1>5. CASE IsAnswered(s, p, q)
  <2>1. q.unlocked = p.unlocked /\ q.key = p.key
    BY <1>5 DEF IsAnswered, PageOf
  <2> QED BY <2>1
<1> QED BY <1>0, <1>1, <1>2, <1>3, <1>4, <1>5

LEMMA AnsweredHolds ==
  ASSUME LibState, LibInv', KeysHold, RepliesHold, UNCHANGED rev, NEW s \in Slots, job[s].op \in LibraryOps,
         NEW lost \in BOOLEAN, PageAnswered(s, lost), NEW d \in DOMAIN page', NEW x, x = None
  PROVE  Persists(d) /\ PageHolds(d, x)
<1>0. LibInv /\ JobOK(job[s]) /\ d \in DOMAIN page /\ PageOK(page[d])
  <2>1. LibInv
    BY DEF LibState
  <2>2. DOMAIN page' = DOMAIN page \cap home'
    BY <2>1, PageAnsweredIs
  <2> QED BY <2>1, <2>2 DEF LibInv, JobsOK, PagesTyped
<1>1. CASE d # Device[s] \/ ~Waiting(s)
  <2>1. page'[d] = page[d]
    BY <1>0, <1>1, PageAnsweredIs
  <2>2. SameLocks(d)
    BY <1>0, <2>1 DEF SameLocks
  <2> QED BY <2>2, SameHolds
<1>2. CASE d = Device[s] /\ Waiting(s)
  <2>1. PICK p, q : p = page[d] /\ q = page'[d]
    OBVIOUS
  <2>2. q = After(s, p, lost)
    BY <1>0, <1>2, <2>1, PageAnsweredIs
  <2>3. Awaits(job[s]) /\ Open(d)
    BY <1>2 DEF Waiting, Awaits
  <2>4. Told(job[s], d)
    BY <1>2, <2>3 DEF RepliesHold
  <2>5. job[s].op = "unlock" => job[s].arg.id \in Ids(p.rows)
    BY <1>0, <1>2, <2>1, <2>3 DEF LibInv, WaitOK, Waiting
  <2>6. q.relocked = p.relocked
    BY <1>0, <2>1, <2>2, <2>5, AfterOK
  <2>7. Persists(d)
    BY <1>0, <2>1, <2>6 DEF Persists
  <2>8. \A id \in p.unlocked : Holds(d, id, p.key[id])
    BY <1>0, <2>1 DEF KeysHold
  <2>9. ASSUME NEW id \in q.unlocked, NEW pw, pw = q.key[id] PROVE Holds(d, id, pw)
    BY <1>0, <2>1, <2>2, <2>4, <2>5, <2>8, <2>9, AfterHolds
  <2>10. \A id \in page'[d].unlocked : id # x
    BY NoneMentioned
  <2> QED BY <2>1, <2>7, <2>9, <2>10 DEF PageHolds
<1> QED BY <1>1, <1>2

-----------------------------------------------------------------------------
\* Every step.

LEMMA MovedKnown ==
  ASSUME LibState, [OfficeNext]_officeVars, Known, \A t \in Slots : WaitMoves(t), NEW x, x = None, LocksKept(x),
         \A d \in DOMAIN page' : PageHolds(d, x),
         \A t \in Slots : Awaits(job'[t]) /\ Device[t] \in DOMAIN page' => Persists(Device[t])
  PROVE  Known'
<1>1. HereOK'
  BY HereMoves DEF LibState, TokensInv, Known
<1>2. \A t \in Slots : ~JobMentions(job'[t], x)
  BY NothingOfNone
<1>3. \A t \in Slots : JobHolds(t, x)
  BY <1>2, MovesHold DEF Known
<1>4. (KeysHold /\ RepliesHold)'
  BY <1>3, KnownStep DEF Known
<1> QED BY <1>1, <1>4 DEF Known

\* A step that only answers, asks or leaves.
LEMMA SameKnown ==
  ASSUME LibState, [OfficeNext]_officeVars, Known, \A t \in Slots : WaitMoves(t), NEW x, x = None, LocksKept(x),
         \A d \in DOMAIN page' : SameLocks(d)
  PROVE  Known'
<1>1. LibInv'
  BY LibStateStep DEF LibState
<1>2. \A d \in DOMAIN page' : Persists(d) /\ PageHolds(d, x)
  BY <1>1, SameHolds DEF Known
<1> QED BY <1>2, MovedKnown

\* The entries stay, and so do the accounts.
LEMMA StillLocks ==
  ASSUME UNCHANGED <<user, entry>>, NEW x
  PROVE  LocksKept(x)
BY NoneDemoted DEF LocksKept

LEMMA AsksKnown ==
  ASSUME LibState, [OfficeNext]_officeVars, Known, UNCHANGED <<token, home, user, entry>>, NEW s \in Slots, LibraryAsks(s)
  PROVE  Known'
<1>0. LibInv /\ JobsInv /\ \A d \in DOMAIN page : PageOK(page[d])
  BY DEF LibState, LibInv, TokensInv, OfficeInv, PagesTyped
<1>1. \A t \in Slots : WaitMoves(t)
  BY <1>0, AsksMoves DEF Known
<1>2. PICK x : x = None
  OBVIOUS
<1>3. LocksKept(x)
  BY StillLocks
<1>4. ASSUME NEW d \in DOMAIN page, NEW q, page' = [page EXCEPT ![d] = q],
             q.unlocked = page[d].unlocked, q.key = page[d].key, q.relocked = page[d].relocked
      PROVE  \A e \in DOMAIN page' : SameLocks(e)
  <2>1. DOMAIN page' = DOMAIN page /\ page'[d] = q /\ \A e \in DOMAIN page \ {d} : page'[e] = page[e]
    BY <1>4
  <2> QED BY <1>4, <2>1 DEF SameLocks
<1>5. \A e \in DOMAIN page' : SameLocks(e)
  <2>1. PICK d : d = Device[s]
    OBVIOUS
  <2>2. CASE LoadDue(s)
    <3>1. PICK q : q = WithDue(page[d])
      OBVIOUS
    <3>2. d \in DOMAIN page /\ page' = [page EXCEPT ![d] = q]
      BY <2>1, <2>2, <3>1 DEF LoadDue, Open, WithDue
    <3>3. q.unlocked = page[d].unlocked /\ q.key = page[d].key /\ q.relocked = page[d].relocked
      <4>1. PageOK(page[d])
        BY <1>0, <3>2
      <4> QED BY <3>1, <4>1, WithPage DEF PageOf
    <3> QED BY <1>4, <3>2, <3>3
  <2>3. CASE LoadMore(s)
    <3>0. PICK f : f = TRUE
      OBVIOUS
    <3>1. PICK q : q = WithFetching(page[d], f)
      OBVIOUS
    <3>2. d \in DOMAIN page /\ page' = [page EXCEPT ![d] = q]
      BY <2>1, <2>3, <3>0, <3>1 DEF LoadMore, Open, WithFetching
    <3>3. q.unlocked = page[d].unlocked /\ q.key = page[d].key /\ q.relocked = page[d].relocked
      <4>1. PageOK(page[d])
        BY <1>0, <3>2
      <4> QED BY <3>1, <4>1, WithPage DEF PageOf
    <3> QED BY <1>4, <3>2, <3>3
  <2>4. CASE UNCHANGED page
    BY <2>4 DEF SameLocks
  <2> QED BY <2>2, <2>3, <2>4 DEF LibraryAsks, SubmitPassword, OpenRow
<1> QED BY <1>1, <1>2, <1>3, <1>5, SameKnown

LEMMA ToggleKnown ==
  ASSUME LibState, [OfficeNext]_officeVars, Known, UNCHANGED <<token, home, user, entry>>, NEW d, ToggleMine(d)
  PROVE  Known'
<1>0. JobsInv /\ JobsOK /\ (\A e \in DOMAIN page : PageOK(page[e])) /\ d \in DOMAIN page /\ UNCHANGED job
  BY DEF LibState, LibInv, TokensInv, OfficeInv, PagesTyped, ToggleMine, Open
<1>1. ASSUME NEW t \in Slots PROVE WaitMoves(t)
  <2>1. Weakens(t)
    BY <1>0, SameWeakens
  <2> QED BY <2>1, WeakensMoves DEF Known
<1>2. PICK x, q : x = None /\ q = WithMine(page[d])
  OBVIOUS
<1>3. LocksKept(x)
  BY StillLocks
<1>4. page' = [page EXCEPT ![d] = q]
  BY <1>2 DEF ToggleMine, WithMine
<1>5. q.unlocked = page[d].unlocked /\ q.key = page[d].key /\ q.relocked = page[d].relocked
  <2>1. PageOK(page[d])
    BY <1>0
  <2> QED BY <1>2, <2>1, WithPage DEF PageOf
<1>6. DOMAIN page' = DOMAIN page /\ page'[d] = q /\ \A e \in DOMAIN page \ {d} : page'[e] = page[e]
  BY <1>0, <1>4
<1>7. \A e \in DOMAIN page' : SameLocks(e)
  BY <1>5, <1>6 DEF SameLocks
<1> QED BY <1>1, <1>2, <1>3, <1>7, SameKnown

\* The page is opened anew: nothing is unlocked, and nobody waits.
LEMMA VisitKnown ==
  ASSUME LibState, [OfficeNext]_officeVars, Known, UNCHANGED <<token, home, user, entry>>, NEW d, Visit(d)
  PROVE  Known'
<1>0. JobsInv /\ JobsOK /\ LibInv'
  BY LibStateStep DEF LibState, LibInv, TokensInv, OfficeInv
<1>1. \A t \in Slots : Weakens(t) /\ (Device[t] = d => job'[t].here = FALSE)
  BY <1>0, LeavesWeaken DEF Visit, AllWeaken
<1>2. \A t \in Slots : WaitMoves(t)
  BY <1>1, WeakensMoves DEF Known
<1>3. PICK x : x = None
  OBVIOUS
<1>4. LocksKept(x)
  BY StillLocks
<1>5. PICK f : f = FreshPage
  OBVIOUS
<1>6. /\ DOMAIN page' = DOMAIN page \cup {d} /\ page'[d] = f
      /\ \A e \in DOMAIN page' \ {d} : e \in DOMAIN page /\ page'[e] = page[e]
  BY <1>5 DEF Visit
<1>7. f.unlocked = {}
  BY <1>5, FreshIs
<1>8. ASSUME NEW e \in DOMAIN page' \ {d} PROVE Persists(e) /\ PageHolds(e, x)
  <2>1. SameLocks(e)
    BY <1>6 DEF SameLocks
  <2> QED BY <1>0, <1>3, <2>1, SameHolds DEF Known
<1>9. PageHolds(d, x)
  BY <1>6, <1>7 DEF PageHolds
<1>10. \A t \in Slots : Awaits(job'[t]) /\ Device[t] \in DOMAIN page' => Persists(Device[t])
  BY <1>1, <1>8 DEF Awaits
<1> QED BY <1>2, <1>3, <1>4, <1>8, <1>9, <1>10, MovedKnown

LEMMA AnsweredKnown ==
  ASSUME LibState, [OfficeNext]_officeVars, Known, UNCHANGED <<user, entry, rev>>, NEW s \in Slots,
         job[s].op \in LibraryOps, NEW lost \in BOOLEAN, PageAnswered(s, lost), \A t \in Slots : WaitMoves(t)
  PROVE  Known'
<1>1. PICK x : x = None
  OBVIOUS
<1>2. LocksKept(x)
  BY StillLocks
<1>3. LibInv'
  BY LibStateStep DEF LibState
<1>4. \A d \in DOMAIN page' : Persists(d) /\ PageHolds(d, x)
  BY <1>1, <1>3, AnsweredHolds DEF Known
<1> QED BY <1>1, <1>2, <1>4, MovedKnown

LEMMA LibraryKnown ==
  ASSUME LibState, [OfficeNext]_officeVars, Known, LibraryStep
  PROVE  Known'
<1>0. UNCHANGED user /\ LibInv /\ JobsInv
  BY DEF LibraryStep, LibState, TokensInv, OfficeInv
<1>1. ASSUME NEW s \in Slots, LibraryAsks(s), UNCHANGED <<entry, shelf, disk, rev, pageVars>> PROVE Known'
  BY <1>0, <1>1, AsksKnown DEF pageVars
<1>2. ASSUME NEW s \in Slots, LibraryHandles(s), UNCHANGED <<asked, pageVars>> PROVE Known'
  BY <1>0, <1>2, HandlesKnown DEF pageVars
<1>3. ASSUME NEW s \in Slots, LibraryAnswer(s) PROVE Known'
  <2>1. PICK lost : lost = FALSE
    OBVIOUS
  <2>2. PageAnswered(s, lost)
    BY <1>3, <2>1 DEF LibraryAnswer, PageAnswered, Waiting
  <2>3. UNCHANGED <<entry, rev>> /\ job[s].op \in LibraryOps /\ lost \in BOOLEAN
    BY <1>3, <2>1 DEF LibraryAnswer
  <2>4. \A t \in Slots : WaitMoves(t)
    BY <1>0, <1>3, AnswerMoves DEF Known
  <2> QED BY <1>0, <2>2, <2>3, <2>4, AnsweredKnown
<1>4. ASSUME NEW s \in Slots, LibraryLost(s) PROVE Known'
  <2>1. PICK lost : lost = TRUE
    OBVIOUS
  <2>2. PageAnswered(s, lost)
    BY <1>0, <1>4, <2>1, LostAnswers
  <2>3. UNCHANGED <<entry, rev>> /\ job[s].op \in LibraryOps /\ lost \in BOOLEAN
    BY <1>4, <2>1 DEF LibraryLost
  <2>4. \A t \in Slots : WaitMoves(t)
    BY <1>0, <1>4, LostMoves DEF Known
  <2> QED BY <1>0, <2>2, <2>3, <2>4, AnsweredKnown
<1>5. ASSUME NEW d \in Devices, Visit(d) \/ ToggleMine(d), UNCHANGED <<asked, entry, shelf, disk, rev, pageVars>> PROVE Known'
  BY <1>0, <1>5, VisitKnown, ToggleKnown DEF pageVars
<1> QED BY <1>1, <1>2, <1>3, <1>4, <1>5 DEF LibraryStep

\* A step beside the library.
LEMMA AroundKnown ==
  ASSUME LibState, [OfficeNext]_officeVars, Known, LeavesLibrary, \A t \in Slots : WaitMoves(t)
  PROVE  Known'
<1>0. PagesTyped /\ \A d \in DOMAIN page : page[d].relocked \subseteq FileIds
  BY DEF LibState, LibInv, PagesTyped, PageOK
<1>1. PICK x : x = None
  OBVIOUS
<1>2. /\ DOMAIN page' = DOMAIN page \cap home'
      /\ \A d \in DOMAIN page' : LET p == page[d] q == page'[d] IN
           /\ q.unlocked = p.unlocked /\ q.key = p.key
           /\ q.relocked = IF Demoted(token[d].name) THEN FileIds ELSE p.relocked
  BY <1>0, LeavesLibraryIs
<1>3. \A d \in DOMAIN page' : SameLocks(d)
  BY <1>0, <1>2 DEF SameLocks
<1>4. LocksKept(x)
  BY <1>2 DEF LocksKept, LeavesLibrary
<1> QED BY <1>1, <1>3, <1>4, SameKnown

LEMMA DeskMoves ==
  ASSUME HereOK, AccountsInv, JobsInv, JobsOK, ApprovalsStep
  PROVE  \A t \in Slots : WaitMoves(t)
<1>1. ASSUME UNCHANGED home, NEW s \in Slots, job'[s].op \notin LibraryOps, \A t \in Slots \ {s} : Weakens(t)
      PROVE  \A t \in Slots : WaitMoves(t)
  <2>1. \A t \in Slots \ {s} : WaitMoves(t)
    BY <1>1, WeakensMoves
  <2>2. WaitMoves(s)
    BY <1>1 DEF WaitMoves, Awaits
  <2> QED BY <2>1, <2>2
<1>2. ASSUME NEW s \in Slots, DeskAsks(s), UNCHANGED pageVars PROVE \A t \in Slots : WaitMoves(t)
  <2>1. PICK j : DeskAsk(s, j)
    BY <1>2, DeskAskOK
  <2>2. job' = [job EXCEPT ![s] = j] /\ j.op \in DeskOps
    BY <2>1 DEF DeskAsk
  <2>3. job'[s] = j /\ \A t \in Slots \ {s} : Weakens(t)
    BY <2>2, Puts DEF Rest
  <2> QED BY <1>1, <1>2, <2>2, <2>3 DEF DeskOps, LibraryOps, pageVars
<1>3. ASSUME NEW s \in Slots, DeskHandles(s), UNCHANGED pageVars PROVE \A t \in Slots : WaitMoves(t)
  BY <1>1, <1>3, DeskHandlesOK DEF pageVars
<1>4. ASSUME NEW s \in Slots, DeskAnswer(s) PROVE \A t \in Slots : WaitMoves(t)
  <2>1. job'[s].op \notin LibraryOps /\ \A t \in Slots \ {s} : Weakens(t)
    BY <1>4, DeskAnswerOK
  <2>2. ASSUME NEW t \in Slots \ {s} PROVE WaitMoves(t)
    <3>1. job'[t] = Left(t)
      BY <1>4 DEF DeskAnswer
    <3>2. PICK h : h = (job[t].here /\ Device[t] \in home')
      OBVIOUS
    <3>3. job'[t] = WithHere(job[t], h)
      BY <3>1, <3>2 DEF Left, WithHere
    <3>4. h \in BOOLEAN /\ (h => job[t].here)
      BY <3>2
    <3>5. job'[t].here = h
      BY <3>3, <3>4, HereWeakens
    <3> QED BY <2>1, <3>2, <3>5 DEF WaitMoves, Awaits
  <2>3. WaitMoves(s)
    BY <2>1 DEF WaitMoves, Awaits
  <2> QED BY <2>2, <2>3
<1> QED BY <1>2, <1>3, <1>4 DEF ApprovalsStep

LEMMA OfficeKnown ==
  ASSUME LibState, [OfficeNext]_officeVars, Known
  PROVE  Known'
<1>0. AccountsInv /\ JobsInv /\ JobsOK /\ HereOK
  BY DEF LibState, LibInv, TokensInv, OfficeInv, Known
<1>1. CASE SignInNext /\ job' = [s \in Slots |-> Left(s)] /\ LeavesLibrary
  <2>1. \A t \in Slots : Weakens(t) /\ job'[t].here = (job[t].here /\ Device[t] \in home')
    BY <1>0, <1>1, LeftWeaken DEF AllWeaken
  <2>2. \A t \in Slots : WaitMoves(t)
    BY <2>1 DEF WaitMoves, Awaits
  <2> QED BY <1>1, <2>2, AroundKnown
<1>2. CASE ApprovalsStep /\ LeavesLibrary
  <2>1. \A t \in Slots : WaitMoves(t)
    BY <1>0, <1>2, DeskMoves
  <2> QED BY <1>2, <2>1, AroundKnown
<1>3. CASE LibraryStep
  BY <1>3, LibraryKnown
<1>4. CASE UNCHANGED officeVars
  <2>1. UNCHANGED <<user, entry, page, home, job>>
    BY <1>4 DEF officeVars, allVars, vars, pageVars, libraryVars
  <2>2. PICK x : x = None
    OBVIOUS
  <2>3. LocksKept(x)
    BY <2>1, StillLocks
  <2>4. \A t \in Slots : WaitMoves(t)
    BY <1>0, <2>1, SameWeakens, WeakensMoves
  <2>5. \A d \in DOMAIN page' : SameLocks(d)
    BY <2>1 DEF SameLocks
  <2> QED BY <2>2, <2>3, <2>4, <2>5, SameKnown
<1> QED BY <1>1, <1>2, <1>3, <1>4 DEF OfficeNext

LEMMA InitKnown == OfficeInit => Known
<1> SUFFICES ASSUME OfficeInit PROVE Known
  OBVIOUS
<1>1. \A s \in Slots : ~Awaits(job[s])
  BY NoJobFields DEF OfficeInit, Awaits
<1>2. \A d \in DOMAIN page : page[d].unlocked = {}
  <2>1. PICK open \in SUBSET home : page = [d \in open |-> FreshPage]
    BY DEF OfficeInit, LibraryInit
  <2> QED BY <2>1, FreshIs
<1> QED BY <1>1, <1>2 DEF Known, HereOK, KeysHold, RepliesHold

LEMMA KnownOpens ==
  ASSUME LibState, Known
  PROVE  UnlockedOpens
<1> SUFFICES ASSUME NEW d \in DOMAIN page, NEW id \in page[d].unlocked \ page[d].relocked, entry[id] # NoEntry,
                    Accepts(token[d]), "renamed" \notin raced
             PROVE  /\ Opens([tok |-> token[d], admin |-> user[token[d].name].admin], id, page[d].key[id])
                    /\ id \in disk
  BY DEF UnlockedOpens
<1>1. PICK t, pw : t = token[d] /\ pw = page[d].key[id]
  OBVIOUS
<1>2. Fine(t) /\ Holds(d, id, pw)
  BY <1>1 DEF Fine, Known, KeysHold
<1>3. Unlocks(t, id, pw)
  BY <1>1, <1>2 DEF Holds, Good
<1>4. OfficeInv /\ TokensOK /\ LibInv
  BY DEF LibState, TokensInv
<1>5. d \in Devices /\ PageOK(page[d])
  BY <1>4 DEF LibInv, PagesTyped, OfficeInv, AccountsInv, ServerOK
<1>6. Held(t)
  BY <1>1, <1>2, <1>5 DEF Held, Fine, Accepts
<1>7. user[t.name].who = t.who
  BY <1>2, <1>4, <1>6, HeldIsCurrent DEF TokenIsCurrent, Fine
<1>8. RowsOK(page[d].rows) /\ id \in Ids(page[d].rows)
  BY <1>5 DEF PageOK
<1>9. id \in FileIds
  BY <1>8, RowsIds
<1>10. id \in disk
  BY <1>4, <1>9 DEF LibInv, TableOK
<1>11. Opens([tok |-> t, admin |-> user[t.name].admin], id, pw)
  BY <1>3, <1>7 DEF Unlocks, Opens, Privileged, Who
<1> QED BY <1>1, <1>10, <1>11

\* What a page of the library shows unlocked the server serves, with the password the page
\* holds (PublicFiles.js:98, public_files.go:264), whatever lists, passwords, edits and
\* deletions overlapped, unless its lock has changed since the page was opened.
THEOREM UnlockedOpensTheorem == OfficeSpec => []UnlockedOpens
<1>1. OfficeInit => LibState /\ Known
  BY InitLibState, InitKnown
<1>2. (LibState /\ Known) /\ [OfficeNext]_officeVars => (LibState /\ Known)'
  BY LibStateStep, OfficeKnown
<1>3. LibState /\ Known => UnlockedOpens
  BY KnownOpens
<1> QED BY <1>1, <1>2, <1>3, PTL DEF OfficeSpec
===============================================================================
