------------------------------ MODULE ChatList ------------------------------
(***************************************************************************)
(* The list of conversations and the open one (pages/ChatList.js with      *)
(* Chat.js and SecureChat.js) on top of the server of module Chats: every  *)
(* event makes the page fetch the whole list again, replies come in any    *)
(* order, and what is open is patched by events and answers, never         *)
(* fetched.                                                                *)
(***************************************************************************)
EXTENDS Chats

CONSTANTS
  MaxLoads,   \* bound: requests for the list in flight from one page
  MaxFaults   \* bound: failed requests for the list, and lost sockets

ASSUME ChatListAssumption == MaxLoads \in Nat \ {0} /\ MaxFaults \in Nat

VARIABLES
  mounted,   \* the pages that show the web client's list; others only send requests
  list,      \* chats: the rows each page shows
  open,      \* active: the conversation each page has open
  loading,   \* GetChats on its way to the server: what load() is followed by
  reply,     \* replies on their way back, in the order the server answered
  faults,
  behind,    \* history: the list shown is older than one shown before, or failed
  outdated,  \* history: the open page missed what happened to its chat
  early      \* history: chats looked at after their end was announced and before it, or
             \* joined after it was settled whom to tell

pageVars == <<mounted, list, open, loading, reply, faults, behind, outdated, early>>
allVars == <<vars, pageVars>>

Rows == [ChatIds -> ChatRow \cup {Gone}]
Shut == [id |-> NoChat, row |-> Gone, was |-> 0]
\* What follows load(): opening a chat, or onSecured's patch.
NoMore == [then |-> "none", chat |-> NoChat]
ThenOpen(c) == [then |-> "open", chat |-> c]
ThenSecured == [then |-> "secured", chat |-> NoChat]

ListTypeOK ==
  /\ ChatsTypeOK
  /\ list \in [Pages -> Rows]
  /\ \A p \in Pages :
       /\ Len(loading[p]) + Len(reply[p]) <= MaxLoads
       /\ \A i \in DOMAIN reply[p] : reply[p][i].rows \in Rows
       /\ open[p].row \in ChatRow \cup {Gone}
       /\ open[p].id = NoChat <=> open[p].row = Gone
  /\ faults \in 0 .. MaxFaults
  /\ early \subseteq ChatIds

ListInit ==
  /\ Init
  /\ mounted = online
  /\ list = [p \in Pages |-> [c \in ChatIds |-> Gone]]
  /\ open = [p \in Pages |-> Shut]
  /\ loading = [p \in Pages |-> IF p \in mounted THEN <<NoMore>> ELSE << >>]
  /\ reply = [p \in Pages |-> << >>]
  /\ faults \in 0 .. MaxFaults
  /\ behind = [p \in Pages |-> FALSE]
  /\ outdated = [p \in Pages |-> FALSE]
  /\ early = {}

-----------------------------------------------------------------------------
\* load() and GetChats.

Load(p, next) ==
  /\ Len(loading[p]) + Len(reply[p]) < MaxLoads
  /\ loading' = [loading EXCEPT ![p] = Append(@, next)]

NoLoad == UNCHANGED loading

Drop(s, i) == SubSeq(s, 1, i - 1) \o SubSeq(s, i + 1, Len(s))

\* What GetChats selects for the owner of p.
Selected(p) ==
  [c \in ChatIds |-> IF IsMember(p, c) THEN [chat[c] EXCEPT !.pair = {}] ELSE Gone]

\* Chats whose end has been announced and has not come yet.
Doomed == {c \in ChatIds : \E q \in Pages :
             req[q].chat = c /\ req[q].op \in {"destroy", "reject"} /\ req[q].step = "delete"}

Serve(p) ==
  /\ \E i \in DOMAIN loading[p] :
       /\ loading' = [loading EXCEPT ![p] = Drop(@, i)]
       /\ reply' = [reply EXCEPT ![p] =
            Append(@, [rows |-> Selected(p), next |-> loading[p][i], old |-> FALSE])]
  /\ early' = early \cup Doomed
  /\ UNCHANGED <<vars, mounted, list, open, faults, behind, outdated>>

\* An event of one of these types is on its way to p or is about to be sent.
Coming(p, c, types) ==
  \/ \E i \in DOMAIN inbox[p] : inbox[p][i].chat = c /\ inbox[p][i].type \in types
  \/ \E q \in Pages : /\ req[q].step = "announce" /\ req[q].chat = c
                      /\ Says[req[q].op] \in types /\ Owner[p] \in Told(q)

\* A row that says what is stored.
Current(p, c, row) ==
  IsMember(p, c) /\ row.enc = chat[c].enc /\ row.timer = chat[c].timer

\* What such a row does not say is still to come in an event.
Completed(p, c, row) ==
  IF IsMember(p, c)
  THEN /\ row.enc = chat[c].enc \/ Coming(p, c, {"e2e_accepted"})
       /\ row.timer = chat[c].timer \/ Coming(p, c, {"timer"})
  ELSE Coming(p, c, {"chat_deleted", "e2e_rejected"})

\* The page opens a chat from a row it has.
Opens(p, c, row) ==
  /\ open' = [open EXCEPT ![p] = [id |-> c, row |-> row, was |-> 0]]
  /\ outdated' = [outdated EXCEPT ![p] = ~Completed(p, c, row)]
  /\ early' = early \cup (Doomed \cap {c})

\* Mutant of Closes: the chat is forgotten, its row is not.
ClosesHalf(p) ==
  /\ open' = [open EXCEPT ![p].id = NoChat]
  /\ outdated' = [outdated EXCEPT ![p] = FALSE]

Closes(p) ==
  /\ open' = [open EXCEPT ![p] = Shut]
  /\ outdated' = [outdated EXCEPT ![p] = FALSE]

\* onSecured marks whatever conversation is open by now as encrypted.
Secured(p) ==
  /\ open' = [open EXCEPT ![p].row.enc = TRUE]
  /\ outdated' = [outdated EXCEPT ![p] = @ \/ ~chat[open[p].id].enc]

\* What the caller of load() does with the rows it returned.
Continues(p, next, rows) ==
  CASE next.then = "open" /\ rows[next.chat] # Gone -> Opens(p, next.chat, rows[next.chat])
    [] next.then = "secured" /\ open[p] # Shut -> Secured(p) /\ UNCHANGED early
    [] OTHER -> UNCHANGED <<open, outdated, early>>

Arrive(p) ==
  /\ \E i \in DOMAIN reply[p] :
       LET it == reply[p][i] IN
       /\ list' = [list EXCEPT ![p] = it.rows]
       /\ behind' = [behind EXCEPT ![p] = it.old]
       /\ reply' = [reply EXCEPT ![p] =
            Drop([j \in DOMAIN @ |-> IF j < i THEN [@[j] EXCEPT !.old = TRUE] ELSE @[j]], i)]
       /\ Continues(p, it.next, it.rows)
  /\ UNCHANGED <<vars, mounted, loading, faults>>

LoadFails(p) ==
  /\ faults < MaxFaults /\ faults' = faults + 1
  /\ \E i \in DOMAIN loading[p] :
       /\ loading' = [loading EXCEPT ![p] = Drop(@, i)]
       /\ Continues(p, loading[p][i], [c \in ChatIds |-> Gone])
  /\ behind' = [behind EXCEPT ![p] = TRUE]
  /\ reply' = [reply EXCEPT ![p] = [j \in DOMAIN @ |-> [@[j] EXCEPT !.old = TRUE]]]
  /\ UNCHANGED <<vars, mounted, list>>

-----------------------------------------------------------------------------
\* The socket.

\* Mutant of Patch: an acceptance waits for the next time the list is opened.
PatchWithoutAccepted(p, m) ==
  IF m.type \in {"chat_deleted", "e2e_rejected"} THEN Closes(p)
  ELSE UNCHANGED <<open, outdated>>

\* What an event does to the conversation it is about, while that is open.
Patch(p, m) ==
  CASE m.type \in {"chat_deleted", "e2e_rejected"} -> Closes(p)
    [] m.type = "e2e_accepted" ->
         open' = [open EXCEPT ![p].row.enc = TRUE] /\ UNCHANGED outdated
    [] m.type = "timer" /\ open[p].row.kind = "secret" ->
         open' = [open EXCEPT ![p].row.timer = m.timer] /\ UNCHANGED outdated
    [] OTHER -> UNCHANGED <<open, outdated>>

\* Mutant of Refetches: only what carries a message does.
RefetchesForMessages(m) == m.type \in {"message", "e2e_request"}

Refetches(m) == m.type # "timer"

Hear(p) ==
  /\ Take(p)
  /\ LET m == Head(inbox[p]) IN
     /\ IF Refetches(m) THEN Load(p, NoMore) ELSE NoLoad
     /\ IF m.chat = open[p].id THEN Patch(p, m) ELSE UNCHANGED <<open, outdated>>
  /\ UNCHANGED <<mounted, list, reply, faults, behind, early>>

Disconnect(p) ==
  /\ HangUp(p)
  /\ faults < MaxFaults /\ faults' = faults + 1
  /\ UNCHANGED <<mounted, list, open, loading, reply, behind, outdated, early>>

\* "reconnected": only the list is fetched again. (That a page may hear of its
\* socket before the server has registered it is the subject of ChatScreen.)
Reconnect(p) ==
  /\ Connect(p)
  /\ Load(p, NoMore)
  /\ outdated' = [outdated EXCEPT ![p] = open[p] # Shut]
  /\ UNCHANGED <<mounted, list, open, reply, faults, behind, early>>

-----------------------------------------------------------------------------
\* What the user does.

OpenRow(p, c) ==
  /\ open[p] = Shut /\ list[p][c] # Gone
  /\ Opens(p, c, list[p][c])
  /\ UNCHANGED <<vars, mounted, list, loading, reply, faults, behind>>

Back(p) ==
  /\ open[p] # Shut
  /\ Closes(p) /\ Load(p, NoMore)
  /\ UNCHANGED <<vars, mounted, list, reply, faults, behind, early>>

\* PickContactsModal, from the list.
Pick(p) ==
  /\ open[p] = Shut
  /\ \/ \E v \in Peers : CreateDirect(p, v) \/ StartSecret(p, v)
     \/ \E others \in SUBSET Peers : CreateGroup(p, others \cup {Owner[p]})
  /\ UNCHANGED pageVars

\* The page of an ordinary conversation offers a secret one with the other person.
StartSecretHere(p) ==
  /\ open[p].row.kind = "direct" /\ ~open[p].row.enc
  /\ \E v \in open[p].row.members \ {Owner[p]} : StartSecret(p, v)
  /\ UNCHANGED pageVars

\* The page of a secret chat that waits for the answer of its user.
AnswerHere(p) ==
  /\ open[p].row.kind = "secret" /\ ~open[p].row.enc /\ open[p].row.by # Owner[p]
  /\ Accept(p, open[p].id) \/ Reject(p, open[p].id)
  /\ UNCHANGED pageVars

\* handleDeleteChat: a secret chat is deleted for both, any other one is left; the
\* page does not wait for the answer.
DeleteHere(p) ==
  LET c == open[p].id IN
  /\ open[p] # Shut
  /\ IF open[p].row.kind = "secret"
     THEN open[p].row.enc /\ Destroy(p, c)
     ELSE Leave(p, c)
  /\ list' = [list EXCEPT ![p][c] = Gone]
  /\ Closes(p)
  /\ UNCHANGED <<mounted, loading, reply, faults, behind, early>>

\* changeTimer shows the new setting at once.
SetTimerHere(p) ==
  /\ open[p].row.kind = "secret" /\ open[p].row.enc
  /\ \E seconds \in Timers \ {open[p].row.timer} :
       /\ SetTimer(p, open[p].id, seconds)
       /\ open' = [open EXCEPT ![p].row.timer = seconds, ![p].was = open[p].row.timer]
  /\ UNCHANGED <<mounted, list, loading, reply, faults, behind, outdated, early>>

\* The answer to the page's request.
Answered(p) ==
  LET c == req[p].chat
      here == open[p].id = c
      ok == req[p].step = "done"
      op == req[p].op
  IN
  CASE op \in {"direct", "secret"} /\ ok ->
         Load(p, ThenOpen(c)) /\ UNCHANGED <<open, outdated>>
    [] op = "group" -> Load(p, NoMore) /\ UNCHANGED <<open, outdated>>
    [] op = "accept" /\ ok ->
         /\ Load(p, ThenSecured)
         /\ open' = IF here THEN [open EXCEPT ![p].row.enc = TRUE] ELSE open
         /\ UNCHANGED outdated
    [] op = "reject" /\ ok -> Closes(p) /\ Load(p, NoMore)
    [] op = "timer" /\ here ->
         /\ open' = [open EXCEPT ![p].was = 0,
                       ![p].row.timer = IF ok THEN req[p].timer ELSE open[p].was]
         /\ NoLoad /\ UNCHANGED outdated
    [] op \in {"leave", "destroy"} /\ ~ok -> Load(p, NoMore) /\ UNCHANGED <<open, outdated>>
    [] OTHER -> NoLoad /\ UNCHANGED <<open, outdated>>

Answers(p) ==
  /\ Return(p)
  /\ IF p \in mounted THEN Answered(p) ELSE UNCHANGED <<open, outdated, loading>>
  /\ UNCHANGED <<mounted, list, reply, faults, behind, early>>

-----------------------------------------------------------------------------
\* The chat that somebody joins between the look at its members and its end.
JoinedLate(p) ==
  {c \in ChatIds : /\ At(p, "add", "insert") /\ req[p].chat = c
                   /\ \E q \in Pages : /\ req[q].chat = c
                                       /\ \/ At(q, "purge", "delete")
                                          \/ At(q, "leave", "commit") /\ req[q].whom = {}}

HandlerStep(p) ==
  /\ Handles(p)
  /\ early' = early \cup JoinedLate(p)
  /\ UNCHANGED <<mounted, list, open, loading, reply, faults, behind, outdated>>

UserStep(p) ==
  \/ \E c \in ChatIds : OpenRow(p, c)
  \/ Back(p) \/ Pick(p) \/ StartSecretHere(p) \/ AnswerHere(p) \/ DeleteHere(p) \/ SetTimerHere(p)

PageStep(p) ==
  \/ Serve(p) \/ Arrive(p) \/ LoadFails(p) \/ Hear(p) \/ Disconnect(p) \/ Reconnect(p)

ListNext ==
  \E p \in Pages :
    \/ p \in mounted /\ (UserStep(p) \/ PageStep(p))
    \/ p \notin mounted /\ AsksAnything(p) /\ UNCHANGED pageVars
    \/ HandlerStep(p)
    \/ Answers(p)

ListSpec == ListInit /\ [][ListNext]_allVars

-----------------------------------------------------------------------------
\* Properties.

\* Nothing is under way that could still change what p shows.
Quiet(p) ==
  /\ p \in mounted \cap online
  /\ inbox[p] = << >> /\ loading[p] = << >> /\ reply[p] = << >>
  /\ \A q \in Pages : req[q].step \in Ended \cup {"idle"}
  /\ req[p] = Idle

\* A page that has caught up lists no chat that is gone or that its user left,
\* lists each as it is stored, and lists every secret chat there is to answer
\* (ChatList.js:355), in whatever order events and replies came.
ListIsTrue ==
  \A p \in Pages : Quiet(p) /\ ~behind[p] =>
    \A c \in ChatIds \ early :
      /\ list[p][c] # Gone => Current(p, c, list[p][c])
      /\ chat[c].kind = "secret" /\ IsMember(p, c) => list[p][c] # Gone

\* The open conversation exists, its user is in it, and it shows the encryption
\* and the timer that are stored: a page that says "encrypted" sends ciphertext
\* (ChatList.js:357).
OpenIsTrue ==
  \A p \in Pages : Quiet(p) /\ open[p] # Shut /\ ~outdated[p] /\ open[p].id \notin early =>
    LET c == open[p].id IN
    /\ IsMember(p, c)
    /\ open[p].row.enc = chat[c].enc
    /\ open[p].row.timer = chat[c].timer \/ "timer" \in raced
=============================================================================
