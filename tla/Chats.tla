-------------------------------- MODULE Chats --------------------------------
(***************************************************************************)
(* Conversations on the server: creating, joining, leaving and deleting    *)
(* chats (handlers/chats.go, deletions.go, admin_chats.go) and the consent *)
(* handshake of secret chats (e2e_request.go, secret_chats.go).            *)
(*                                                                         *)
(* Each page has at most one request in flight; every statement or         *)
(* transaction of its handler is a step, and so is every broadcast, which  *)
(* the code makes outside of them.                                         *)
(***************************************************************************)
EXTENDS Naturals, Sequences, FiniteSets

CONSTANTS
  Users,
  Pages,        \* devices showing the application: only they send requests
  Owner,        \* who is signed in on each
  MaxChats,     \* bound: chats ever created
  MaxMembers,   \* maxGroupMembers
  Timers,       \* self-destruct settings, 0: off
  MaxRequests,  \* bound: requests sent
  Peers,        \* bound: whom chats are created with
  Joiners       \* bound: whom members add to a group

ASSUME ChatsAssumption ==
  /\ Owner \in [Pages -> Users] /\ IsFiniteSet(Users)
  /\ MaxChats \in Nat \ {0} /\ MaxMembers \in Nat \ {0, 1} /\ MaxRequests \in Nat
  /\ 0 \in Timers
  /\ Peers \subseteq Users /\ Joiners \subseteq Users

VARIABLES
  chat,      \* the rows of chats with their chat_members and direct_chat_pairs
  made,      \* chats created so far, hence ids given out
  req,       \* the request of each page and how far its handler is
  inbox,     \* events on their way to each page
  online,    \* pages with a registered connection
  asked,     \* requests so far: it may start at any number, to leave fewer
  raced      \* history: kinds of requests that overlapped another of their kind

vars == <<chat, made, req, inbox, online, asked, raced>>

ChatIds == 1 .. MaxChats
NoChat == 0
Gone == [kind |-> "gone", members |-> {}, pair |-> {}, enc |-> FALSE, by |-> NoChat, timer |-> 0]
ChatRow == [kind : {"direct", "secret", "group"}, members : SUBSET Users,
            pair : SUBSET Users, enc : BOOLEAN, by : Users \cup {NoChat}, timer : Timers]

Ops == {"direct", "group", "secret", "add", "accept", "reject", "destroy",
        "leave", "timer", "purge"}
Steps == {"insert", "lost", "update", "announce", "note", "delete", "commit", "done", "error"}
Ended == {"done", "error"}
Idle == [op |-> "none", step |-> "idle", chat |-> NoChat, whom |-> {}, timer |-> 0]
Request == [op : Ops, step : Steps, chat : ChatIds \cup {NoChat}, whom : SUBSET Users,
            timer : Timers]
Events == [type : {"e2e_request", "e2e_accepted", "e2e_rejected", "chat_deleted",
                   "timer", "message"}, chat : ChatIds, timer : Timers]

ChatsTypeOK ==
  /\ chat \in [ChatIds -> ChatRow \cup {Gone}]
  /\ made \in 0 .. MaxChats
  /\ \A c \in ChatIds : c > made => chat[c] = Gone
  /\ req \in [Pages -> Request \cup {Idle}]
  /\ inbox \in [Pages -> Seq(Events)]
  /\ online \in SUBSET Pages
  /\ asked \in 0 .. MaxRequests
  /\ raced \in SUBSET Ops

DirectRow(pair) ==
  [kind |-> "direct", members |-> pair, pair |-> pair, enc |-> FALSE, by |-> NoChat, timer |-> 0]
GroupRow(members) == [DirectRow({}) EXCEPT !.kind = "group", !.members = members]
SecretRow(u, v) == [DirectRow({}) EXCEPT !.kind = "secret", !.members = {u, v}, !.by = u]

\* What two people may have had with each other before.
Existing(u, v) ==
  {DirectRow({u, v}), GroupRow({u, v}), SecretRow(u, v), [SecretRow(u, v) EXCEPT !.enc = TRUE]}

Init ==
  /\ \/ chat = [c \in ChatIds |-> Gone] /\ made = 0
     \/ \E u, v \in Peers : \E row \in Existing(u, v) :
          u # v /\ chat = [c \in ChatIds |-> IF c = 1 THEN row ELSE Gone] /\ made = 1
  /\ req = [u \in Pages |-> Idle]
  /\ inbox = [u \in Pages |-> << >>]
  /\ online \in SUBSET Pages
  /\ asked \in 0 .. MaxRequests
  /\ raced = {}

-----------------------------------------------------------------------------
Live(c) == chat[c] # Gone
\* The page of a member of the chat.
IsMember(p, c) == Owner[p] \in chat[c].members

\* BroadcastEvent: to everyone among "whom" who has a page connected.
Broadcast(whom, type, c, timer) ==
  inbox' = [p \in Pages |->
    IF p \in online /\ Owner[p] \in whom
    THEN Append(inbox[p], [type |-> type, chat |-> c, timer |-> timer]) ELSE inbox[p]]

\* The handler of p goes on with its request, or is through with it.
Goes(p, step) == req' = [req EXCEPT ![p].step = step]
GoesOn(p, step, c) == req' = [req EXCEPT ![p].step = step, ![p].chat = c]

\* p sends a request; when it is seen here its handler has made its first check
\* and goes on with "step", or has its answer.
Asks(p, op, c, whom, timer, step) ==
  /\ req[p] = Idle
  /\ asked < MaxRequests
  /\ asked' = asked + 1
  /\ req' = [req EXCEPT ![p] =
       [op |-> op, step |-> step, chat |-> c, whom |-> whom, timer |-> timer]]
  /\ raced' = IF \E q \in Pages : req[q].op = op
              THEN raced \cup {op} ELSE raced

At(p, op, step) == req[p].op = op /\ req[p].step = step

\* INSERT INTO chats: a fresh id.
Inserts(row) ==
  /\ made < MaxChats
  /\ made' = made + 1
  /\ chat' = [chat EXCEPT ![made + 1] = row]

\* DELETE FROM chats: members, messages and the claim of the pair go with it.
Deletes(c) == chat' = [chat EXCEPT ![c] = Gone]

-----------------------------------------------------------------------------
\* CreateChat and AddMember: nobody is told by an event.

Claimed(pair) == {c \in ChatIds : chat[c].pair = pair}

CreateDirect(p, v) ==
  LET pair == {Owner[p], v} IN
  /\ v # Owner[p]
  /\ \/ \E c \in Claimed(pair) : Asks(p, "direct", c, pair, 0, "done")
     \/ Claimed(pair) = {} /\ Asks(p, "direct", NoChat, pair, 0, "insert")
  /\ UNCHANGED <<chat, made, inbox, online>>

\* Mutant of DirectInsert: nothing arbitrates between two claims.
DirectInsertAnyway(p) ==
  /\ At(p, "direct", "insert")
  /\ Inserts(DirectRow(req[p].whom)) /\ GoesOn(p, "done", made + 1)
  /\ UNCHANGED <<inbox, online, asked, raced>>

\* The transaction: the unique index on the pair decides who wins.
DirectInsert(p) ==
  /\ At(p, "direct", "insert")
  /\ \/ /\ Claimed(req[p].whom) = {}
        /\ Inserts(DirectRow(req[p].whom))
        /\ GoesOn(p, "done", made + 1)
     \/ /\ Claimed(req[p].whom) # {}
        /\ Goes(p, "lost")
        /\ UNCHANGED <<chat, made>>
  /\ UNCHANGED <<inbox, online, asked, raced>>

\* The loser looks for the winner's chat, which may be gone by now.
DirectLost(p) ==
  /\ At(p, "direct", "lost")
  /\ \/ \E c \in Claimed(req[p].whom) : GoesOn(p, "done", c)
     \/ Claimed(req[p].whom) = {} /\ Goes(p, "error")
  /\ UNCHANGED <<chat, made, inbox, online, asked, raced>>

CreateGroup(p, members) ==
  /\ Cardinality(members) \in 2 .. MaxMembers
  /\ Inserts(GroupRow(members))
  /\ Asks(p, "group", made + 1, members, 0, "done")
  /\ UNCHANGED <<inbox, online>>

\* Mutant of AddMember: off by one.
AddMemberToFull(p, c, v) ==
  LET allowed == IsMember(p, c) /\ chat[c].kind = "group"
                 /\ Cardinality(chat[c].members) <= MaxMembers
  IN
  /\ Asks(p, "add", c, {v}, 0, IF allowed THEN "insert" ELSE "error")
  /\ UNCHANGED <<chat, made, inbox, online>>

\* The caller is authorised and the members are counted, then one is inserted.
AddMember(p, c, v) ==
  LET allowed == IsMember(p, c) /\ chat[c].kind = "group"
                 /\ Cardinality(chat[c].members) < MaxMembers
  IN
  /\ Asks(p, "add", c, {v}, 0, IF allowed THEN "insert" ELSE "error")
  /\ UNCHANGED <<chat, made, inbox, online>>

AddInsert(p) ==
  LET c == req[p].chat IN
  /\ At(p, "add", "insert")
  /\ \/ /\ Live(c)
        /\ chat' = [chat EXCEPT ![c].members = @ \cup req[p].whom]
        /\ Goes(p, "done")
     \/ ~Live(c) /\ Goes(p, "error") /\ UNCHANGED chat
  /\ UNCHANGED <<made, inbox, online, asked, raced>>

-----------------------------------------------------------------------------
\* Secret chats: startSecretChat, AcceptChatE2E, RejectChatE2E, SetSelfDestruct.

\* A secret chat whose members are these two and nobody else.
Shared(pair) == {c \in ChatIds : chat[c].kind = "secret" /\ chat[c].members = pair}

\* Mutant of StartSecret: a chat that waits for its answer does not count.
StartSecretAgain(p, v) ==
  LET pair == {Owner[p], v}
      accepted == {c \in Shared(pair) : chat[c].enc} IN
  /\ v # Owner[p]
  /\ \/ \E c \in accepted : Asks(p, "secret", c, pair, 0, "done")
     \/ accepted = {} /\ Asks(p, "secret", NoChat, pair, 0, "insert")
  /\ UNCHANGED <<chat, made, inbox, online>>

StartSecret(p, v) ==
  LET pair == {Owner[p], v} IN
  /\ v # Owner[p]
  /\ \/ \E c \in Shared(pair) : Asks(p, "secret", c, pair, 0, "done")
     \/ Shared(pair) = {} /\ Asks(p, "secret", NoChat, pair, 0, "insert")
  /\ UNCHANGED <<chat, made, inbox, online>>

SecretInsert(p) ==
  /\ At(p, "secret", "insert")
  /\ \E v \in req[p].whom \ {Owner[p]} : Inserts(SecretRow(Owner[p], v))
  /\ GoesOn(p, "announce", made + 1)
  /\ UNCHANGED <<inbox, online, asked, raced>>

\* pendingRequester: a member answers a request that somebody else made.
MayAnswer(p, c) ==
  IsMember(p, c) /\ chat[c].kind = "secret" /\ ~chat[c].enc /\ chat[c].by # Owner[p]

Accept(p, c) ==
  /\ Asks(p, "accept", c, {}, 0, IF MayAnswer(p, c) THEN "update" ELSE "error")
  /\ UNCHANGED <<chat, made, inbox, online>>

Pending(c) == chat[c].kind = "secret" /\ ~chat[c].enc

AcceptUpdate(p) ==
  LET c == req[p].chat IN
  /\ At(p, "accept", "update")
  /\ \/ Pending(c) /\ chat' = [chat EXCEPT ![c].enc = TRUE] /\ Goes(p, "announce")
     \/ ~Pending(c) /\ Goes(p, "error") /\ UNCHANGED chat
  /\ UNCHANGED <<made, inbox, online, asked, raced>>

\* Everybody is told of the rejection before it is carried out.
Reject(p, c) ==
  /\ Asks(p, "reject", c, {}, 0, IF MayAnswer(p, c) THEN "announce" ELSE "error")
  /\ UNCHANGED <<chat, made, inbox, online>>

\* Mutant of RejectDelete: the statement without its condition.
RejectDeleteAnyway(p) ==
  /\ At(p, "reject", "delete")
  /\ Deletes(req[p].chat) /\ Goes(p, "done")
  /\ UNCHANGED <<made, inbox, online, asked, raced>>

RejectDelete(p) ==
  LET c == req[p].chat IN
  /\ At(p, "reject", "delete")
  /\ IF Pending(c) THEN Deletes(c) ELSE UNCHANGED chat
  /\ Goes(p, "done")
  /\ UNCHANGED <<made, inbox, online, asked, raced>>

SetTimer(p, c, seconds) ==
  LET allowed == IsMember(p, c) /\ chat[c].kind = "secret" IN
  /\ Asks(p, "timer", c, {}, seconds, IF allowed THEN "update" ELSE "error")
  /\ UNCHANGED <<chat, made, inbox, online>>

TimerUpdate(p) ==
  LET c == req[p].chat IN
  /\ At(p, "timer", "update")
  /\ chat' = IF Live(c) THEN [chat EXCEPT ![c].timer = req[p].timer] ELSE chat
  /\ Goes(p, "announce")
  /\ UNCHANGED <<made, inbox, online, asked, raced>>

-----------------------------------------------------------------------------
\* DeleteChat and AdminDeleteChat.

\* For everyone: the members are told first, then the row is deleted.
Destroy(p, c) ==
  LET allowed == IsMember(p, c) /\ chat[c].kind # "group" IN
  /\ Asks(p, "destroy", c, {}, 0, IF allowed THEN "announce" ELSE "error")
  /\ UNCHANGED <<chat, made, inbox, online>>

DestroyDelete(p) ==
  /\ At(p, "destroy", "delete")
  /\ Deletes(req[p].chat)
  /\ Goes(p, "done")
  /\ UNCHANGED <<made, inbox, online, asked, raced>>

\* For oneself.
Leave(p, c) ==
  /\ Asks(p, "leave", c, {}, 0, IF IsMember(p, c) THEN "delete" ELSE "error")
  /\ UNCHANGED <<chat, made, inbox, online>>

\* In a transaction of its own the membership goes and those who are left are
\* counted: the count includes others whose leaving is not committed. Two devices
\* of the same person wait for each other at the row they delete.
LeaveDelete(p) ==
  LET c == req[p].chat IN
  /\ At(p, "leave", "delete")
  /\ \A q \in Pages : At(q, "leave", "commit") /\ req[q].chat = c => Owner[q] # Owner[p]
  /\ req' = [req EXCEPT ![p].step = "commit", ![p].whom = chat[c].members \ {Owner[p]}]
  /\ UNCHANGED <<chat, made, inbox, online, asked, raced>>

Without(p, c) ==
  [chat EXCEPT ![c] = [chat[c] EXCEPT !.members = chat[c].members \ {Owner[p]}, !.pair = {}]]

\* Mutant of LeaveCommit: a chat is left behind by its last member.
LeaveCommitKeeps(p) ==
  /\ At(p, "leave", "commit")
  /\ chat' = IF Live(req[p].chat) THEN Without(p, req[p].chat) ELSE chat
  /\ Goes(p, "announce")
  /\ UNCHANGED <<made, inbox, online, asked, raced>>

\* The last one to go deletes the chat; anybody else frees the pair.
LeaveCommit(p) ==
  LET c == req[p].chat IN
  /\ At(p, "leave", "commit")
  /\ \/ req[p].whom = {} /\ Deletes(c)
     \/ req[p].whom # {} /\ chat' = IF Live(c) THEN Without(p, c) ELSE chat
  /\ Goes(p, "announce")
  /\ UNCHANGED <<made, inbox, online, asked, raced>>

\* By an administrator: the members are looked up, the row is deleted, then they
\* are told.
Purge(p, c) ==
  /\ Asks(p, "purge", c, chat[c].members, 0, "delete")
  /\ UNCHANGED <<chat, made, inbox, online>>

PurgeDelete(p) ==
  LET c == req[p].chat IN
  /\ At(p, "purge", "delete")
  /\ IF Live(c) THEN Deletes(c) /\ Goes(p, "announce") ELSE Goes(p, "error") /\ UNCHANGED chat
  /\ UNCHANGED <<made, inbox, online, asked, raced>>

-----------------------------------------------------------------------------
\* The events of the handlers: what they say, to whom, and what comes next.

Says == [secret |-> "e2e_request", accept |-> "e2e_accepted", reject |-> "e2e_rejected",
         destroy |-> "chat_deleted", leave |-> "chat_deleted", purge |-> "chat_deleted",
         timer |-> "timer"]

Told(p) ==
  CASE req[p].op = "leave" -> {Owner[p]}
    [] req[p].op = "purge" -> req[p].whom
    [] OTHER -> chat[req[p].chat].members

AfterEvent(p) ==
  CASE req[p].op \in {"reject", "destroy"} -> "delete"
    [] req[p].op = "timer" -> "note"
    [] OTHER -> "done"

Announce(p) ==
  /\ req[p].step = "announce"
  /\ Broadcast(Told(p), Says[req[p].op], req[p].chat, req[p].timer)
  /\ Goes(p, AfterEvent(p))
  /\ UNCHANGED <<chat, made, online, asked, raced>>

\* SetSelfDestruct goes on with a system message.
Note(p) ==
  /\ At(p, "timer", "note")
  /\ Broadcast(chat[req[p].chat].members, "message", req[p].chat, 0)
  /\ Goes(p, "done")
  /\ UNCHANGED <<chat, made, online, asked, raced>>

\* The answer reaches the page.
Return(p) ==
  /\ req[p].step \in Ended
  /\ req' = [req EXCEPT ![p] = Idle]
  /\ UNCHANGED <<chat, made, inbox, online, asked, raced>>

-----------------------------------------------------------------------------
\* Connections come and go, and pages take the events sent to them.
Connect(p) ==
  /\ p \notin online /\ online' = online \cup {p}
  /\ UNCHANGED <<chat, made, req, inbox, asked, raced>>

HangUp(p) ==
  /\ p \in online /\ online' = online \ {p}
  /\ inbox' = [inbox EXCEPT ![p] = << >>]
  /\ UNCHANGED <<chat, made, req, asked, raced>>

Take(p) ==
  /\ inbox[p] # << >>
  /\ inbox' = [inbox EXCEPT ![p] = Tail(@)]
  /\ UNCHANGED <<chat, made, req, online, asked, raced>>

-----------------------------------------------------------------------------
\* What any client may ask for, what one does within the bounds of a run, and the
\* steps of the handlers.
Wishes(p, users, chats, members) ==
  \/ \E v \in users : CreateDirect(p, v) \/ StartSecret(p, v)
  \/ \E others \in SUBSET users : CreateGroup(p, others \cup {Owner[p]})
  \/ \E c \in chats :
       \/ Accept(p, c) \/ Reject(p, c) \/ Destroy(p, c) \/ Leave(p, c) \/ Purge(p, c)
       \/ \E v \in members : AddMember(p, c, v)
       \/ \E seconds \in Timers : SetTimer(p, c, seconds)

AsksAnything(p) == Wishes(p, Peers, 1 .. made, Joiners)

Handles(p) ==
  \/ DirectInsert(p) \/ DirectLost(p) \/ AddInsert(p)
  \/ SecretInsert(p) \/ AcceptUpdate(p) \/ RejectDelete(p) \/ TimerUpdate(p)
  \/ DestroyDelete(p) \/ LeaveDelete(p) \/ LeaveCommit(p) \/ PurgeDelete(p)
  \/ Announce(p) \/ Note(p)

Next ==
  \E p \in Pages :
    \/ Wishes(p, Users, ChatIds, Users) \/ Handles(p) \/ Return(p)
    \/ Connect(p) \/ HangUp(p) \/ Take(p)

Spec == Init /\ [][Next]_vars

-----------------------------------------------------------------------------
\* Properties.

\* Two people have one ordinary conversation (chats.go:75), whoever creates it
\* and however requests overlap, and a new one only once somebody has left it.
OnePair ==
  \A c, e \in ChatIds :
    /\ chat[c].kind = "direct" /\ chat[e].kind = "direct"
    /\ chat[c].members = chat[e].members /\ Cardinality(chat[c].members) = 2
    => c = e

\* A chat without members is deleted (deletions.go:207): only people who leave
\* at the same time, each still counting the other, leave one behind.
NoOrphan == \A c \in ChatIds : Live(c) /\ chat[c].members = {} => "leave" \in raced

\* Two people share one secret chat (e2e_request.go:151), unless both look for it
\* before either has inserted it.
OneSecret ==
  \A c, e \in ChatIds :
    /\ c \in Shared(chat[e].members) /\ e \in Shared(chat[c].members)
    /\ Cardinality(chat[c].members) = 2
    => c = e \/ "secret" \in raced

\* A group has at most maxGroupMembers members (chats.go:366), unless people are
\* added to it at the same time.
GroupFits == \A c \in ChatIds : Cardinality(chat[c].members) > MaxMembers => "add" \in raced

\* Chats implement Handshake: a secret chat is encrypted only by an acceptance and
\* lost, once accepted, only to somebody who deletes or leaves it; a rejection that was
\* announced too early does not take it (e2e_request.go:122).
Phase(c) ==
  CASE chat[c].kind = "secret" -> IF chat[c].enc THEN "encrypted" ELSE "waiting"
    [] chat[c].kind \in {"direct", "group"} -> "plain"
    [] OTHER -> IF c <= made THEN "gone" ELSE "none"

Wish(op) ==
  CASE op \in {"accept", "reject"} -> op
    [] OTHER -> "end"

Wished(c) ==
  {Wish(req[p].op) : p \in {q \in Pages : req[q].chat = c /\
     req[q].op \in {"accept", "reject", "destroy", "leave", "purge"}}}

HS == INSTANCE Handshake WITH
  phase <- [c \in ChatIds |-> Phase(c)], wishes <- [c \in ChatIds |-> Wished(c)]

EncryptionKept == HS!HSpec
=============================================================================
