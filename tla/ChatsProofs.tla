----------------------------- MODULE ChatsProofs -----------------------------
(***************************************************************************)
(* Chats keep their types, implement Handshake and are shared by whom they *)
(* should be, whatever any number of clients ask for and however their     *)
(* requests overlap.                                                       *)
(***************************************************************************)
EXTENDS Chats, TLAPS, FiniteSetTheorems

\* Requests about a chat that exists when they are sent.
About == {"add", "accept", "reject", "timer", "destroy", "leave", "purge"}
Telling == {"secret", "accept", "reject", "destroy", "leave", "purge", "timer"}

\* A handler knows which chat it is about when it changes it or tells of it.
Aimed ==
  \A p \in Pages :
    /\ req[p].op \in About => req[p].chat \in ChatIds
    /\ req[p].step = "announce" => req[p].op \in Telling /\ req[p].chat \in ChatIds

ChatsInv == ChatsTypeOK /\ Aimed

-----------------------------------------------------------------------------
\* Helpers.

\* A new request has the type of requests, and knows its chat if it needs one.
LEMMA AsksTypes ==
  ASSUME ChatsAssumption, ChatsInv, NEW p \in Pages, NEW op \in Ops, NEW c \in ChatIds \cup {NoChat},
         NEW whom \in SUBSET Users, NEW timer \in Timers, NEW step \in Steps,
         Asks(p, op, c, whom, timer, step),
         op \in About => c \in ChatIds,
         step = "announce" => op \in Telling /\ c \in ChatIds
  PROVE  /\ req' \in [Pages -> Request \cup {Idle}]
         /\ asked' \in 0 .. MaxRequests
         /\ raced' \in SUBSET Ops
         /\ Aimed'
<1>1. req' \in [Pages -> Request \cup {Idle}]
  BY DEF Asks, ChatsInv, ChatsTypeOK, Request
<1>2. asked' \in 0 .. MaxRequests
  BY DEF Asks, ChatsInv, ChatsTypeOK, ChatsAssumption
<1>3. raced' \in SUBSET Ops
  BY DEF Asks, ChatsInv, ChatsTypeOK
<1>4. Aimed'
  BY DEF Asks, ChatsInv, ChatsTypeOK, Aimed
<1> QED BY <1>1, <1>2, <1>3, <1>4

\* So has one whose handler goes on.
LEMMA GoesOnTypes ==
  ASSUME ChatsInv, NEW p \in Pages, req[p].op # "none", NEW step \in Steps,
         NEW c \in ChatIds \cup {NoChat}, GoesOn(p, step, c),
         req[p].op \in About => c \in ChatIds,
         step = "announce" => req[p].op \in Telling /\ c \in ChatIds
  PROVE  req' \in [Pages -> Request \cup {Idle}] /\ Aimed'
<1>1. req[p] \in Request
  BY DEF ChatsInv, ChatsTypeOK, Idle
<1>2. [req[p] EXCEPT !.step = step, !.chat = c] \in Request
  BY <1>1 DEF Request
<1>3. req' = [req EXCEPT ![p] = [req[p] EXCEPT !.step = step, !.chat = c]]
  BY <1>1 DEF GoesOn, Request, ChatsInv, ChatsTypeOK
<1> QED BY <1>1, <1>2, <1>3 DEF ChatsInv, ChatsTypeOK, Aimed, Request

LEMMA GoesTypes ==
  ASSUME ChatsInv, NEW p \in Pages, req[p].op # "none", NEW step \in Steps, Goes(p, step),
         step = "announce" => req[p].op \in Telling /\ req[p].chat \in ChatIds
  PROVE  req' \in [Pages -> Request \cup {Idle}] /\ Aimed'
<1>1. req[p] \in Request
  BY DEF ChatsInv, ChatsTypeOK, Idle
<1>2. [req[p] EXCEPT !.step = step] \in Request
  BY <1>1 DEF Request
<1>3. req' = [req EXCEPT ![p] = [req[p] EXCEPT !.step = step]]
  BY <1>1 DEF Goes, Request, ChatsInv, ChatsTypeOK
<1> QED BY <1>1, <1>2, <1>3 DEF ChatsInv, ChatsTypeOK, Aimed, Request

\* The table after each kind of statement.
TableOK ==
  /\ chat \in [ChatIds -> ChatRow \cup {Gone}]
  /\ made \in 0 .. MaxChats
  /\ \A c \in ChatIds : c > made => chat[c] = Gone

LEMMA InsertsTypes ==
  ASSUME ChatsAssumption, TableOK, NEW row \in ChatRow, Inserts(row)
  PROVE  TableOK' /\ made + 1 \in ChatIds
BY DEF ChatsAssumption, TableOK, Inserts, ChatIds

LEMMA DeletesTypes ==
  ASSUME TableOK, NEW c, Deletes(c), UNCHANGED made
  PROVE  TableOK'
BY DEF TableOK, Deletes

\* Rows of people are rows.
LEMMA RowTypes ==
  ASSUME ChatsAssumption
  PROVE  /\ \A whom \in SUBSET Users : DirectRow(whom) \in ChatRow /\ GroupRow(whom) \in ChatRow
         /\ \A u, v \in Users : SecretRow(u, v) \in ChatRow
<1>1. \A whom \in SUBSET Users : DirectRow(whom) \in ChatRow
  BY DEF ChatsAssumption, DirectRow, ChatRow
<1>2. \A whom \in SUBSET Users : GroupRow(whom) \in ChatRow
  BY DEF ChatsAssumption, DirectRow, GroupRow, ChatRow
<1>3. \A u, v \in Users : SecretRow(u, v) \in ChatRow
  BY DEF ChatsAssumption, DirectRow, SecretRow, ChatRow
<1> QED BY <1>1, <1>2, <1>3

\* Whose rows they are does not matter to a change of one column.
LEMMA UpdatesTypes ==
  ASSUME TableOK, NEW c \in ChatIds, NEW row \in ChatRow,
         chat[c] # Gone, chat' = [chat EXCEPT ![c] = row], UNCHANGED made
  PROVE  TableOK'
BY DEF TableOK

\* What a row holds, deleted or not.
LEMMA MembersTypes ==
  ASSUME TableOK, NEW c \in ChatIds
  PROVE  chat[c].members \in SUBSET Users
BY DEF TableOK, ChatRow, Gone

\* An event is added to the queues of those it is for.
LEMMA BroadcastTypes ==
  ASSUME inbox \in [Pages -> Seq(Events)], NEW whom,
         NEW type \in {"e2e_request", "e2e_accepted", "e2e_rejected", "chat_deleted", "timer", "message"},
         NEW c \in ChatIds, NEW timer \in Timers, Broadcast(whom, type, c, timer)
  PROVE  inbox' \in [Pages -> Seq(Events)]
<1> DEFINE event == [type |-> type, chat |-> c, timer |-> timer]
<1>1. event \in Events
  BY DEF Events
<1>2. \A p \in Pages : Append(inbox[p], event) \in Seq(Events)
  BY <1>1
<1> QED BY <1>2 DEF Broadcast

-----------------------------------------------------------------------------
\* Types.

LEMMA ExistingTypes ==
  ASSUME ChatsAssumption, NEW u \in Peers, NEW v \in Peers, NEW row \in Existing(u, v)
  PROVE  row \in ChatRow
<1>1. SecretRow(u, v) \in ChatRow /\ DirectRow({u, v}) \in ChatRow /\ GroupRow({u, v}) \in ChatRow
  BY RowTypes DEF ChatsAssumption
<1>2. [SecretRow(u, v) EXCEPT !.enc = TRUE] \in ChatRow
  BY <1>1 DEF ChatRow
<1> QED BY <1>1, <1>2 DEF Existing

LEMMA InitTypes == ASSUME ChatsAssumption, Init PROVE ChatsInv
<1>1. TableOK
  <2>1. CASE chat = [c \in ChatIds |-> Gone] /\ made = 0
    BY <2>1 DEF TableOK, ChatsAssumption
  <2>2. ASSUME NEW u \in Peers, NEW v \in Peers, NEW row \in Existing(u, v),
               chat = [c \in ChatIds |-> IF c = 1 THEN row ELSE Gone], made = 1
        PROVE  TableOK
    <3>1. row \in ChatRow
      BY <2>2, ExistingTypes
    <3> QED BY <2>2, <3>1 DEF TableOK, ChatsAssumption, ChatIds
  <2> QED BY <2>1, <2>2 DEF Init
<1>2. req \in [Pages -> Request \cup {Idle}] /\ Aimed
  BY DEF Init, Aimed, Idle, About
<1>3. inbox \in [Pages -> Seq(Events)]
  BY DEF Init
<1>4. online \in SUBSET Pages /\ asked \in 0 .. MaxRequests /\ raced \in SUBSET Ops
  BY DEF Init
<1> QED BY <1>1, <1>2, <1>3, <1>4 DEF ChatsInv, ChatsTypeOK, TableOK

\* What pages ask for: no more than the request itself changes, except for a group.
LEMMA WishTypes ==
  ASSUME ChatsAssumption, ChatsInv, NEW p \in Pages, Wishes(p, Users, ChatIds, Users)
  PROVE  ChatsInv'
<1>1. Owner[p] \in Users /\ NoChat \notin ChatIds /\ 0 \in Timers
  BY DEF ChatsAssumption, NoChat, ChatIds
<1>2. TableOK /\ inbox \in [Pages -> Seq(Events)] /\ online \in SUBSET Pages
  BY DEF ChatsInv, ChatsTypeOK, TableOK
<1>3. ASSUME NEW op \in Ops, NEW c \in ChatIds \cup {NoChat}, NEW whom \in SUBSET Users,
             NEW timer \in Timers, NEW step \in Steps, Asks(p, op, c, whom, timer, step),
             op \in About => c \in ChatIds, step = "announce" => op \in Telling /\ c \in ChatIds,
             TableOK', UNCHANGED <<inbox, online>>
      PROVE  ChatsInv'
  <2>1. req' \in [Pages -> Request \cup {Idle}] /\ asked' \in 0 .. MaxRequests
        /\ raced' \in SUBSET Ops /\ Aimed'
    BY <1>3, AsksTypes
  <2> QED BY <1>2, <1>3, <2>1 DEF ChatsInv, ChatsTypeOK, TableOK
<1> USE DEF Ops, Steps, About, Telling
<1>4. ASSUME UNCHANGED <<chat, made, inbox, online>>
      PROVE  TableOK' /\ UNCHANGED <<inbox, online>>
  BY <1>2, <1>4 DEF TableOK
<1>5. ASSUME NEW v \in Users, CreateDirect(p, v) PROVE ChatsInv'
  <2>1. {Owner[p], v} \in SUBSET Users
    BY <1>1
  <2>2. CASE \E c \in Claimed({Owner[p], v}) : Asks(p, "direct", c, {Owner[p], v}, 0, "done")
    BY <1>1, <1>3, <1>4, <1>5, <2>1, <2>2 DEF CreateDirect, Claimed
  <2>3. CASE Asks(p, "direct", NoChat, {Owner[p], v}, 0, "insert")
    BY <1>1, <1>3, <1>4, <1>5, <2>1, <2>3 DEF CreateDirect
  <2> QED BY <1>5, <2>2, <2>3 DEF CreateDirect
<1>6. ASSUME NEW v \in Users, StartSecret(p, v) PROVE ChatsInv'
  <2>1. {Owner[p], v} \in SUBSET Users
    BY <1>1
  <2>2. CASE \E c \in Shared({Owner[p], v}) : Asks(p, "secret", c, {Owner[p], v}, 0, "done")
    BY <1>1, <1>3, <1>4, <1>6, <2>1, <2>2 DEF StartSecret, Shared
  <2>3. CASE Asks(p, "secret", NoChat, {Owner[p], v}, 0, "insert")
    BY <1>1, <1>3, <1>4, <1>6, <2>1, <2>3 DEF StartSecret
  <2> QED BY <1>6, <2>2, <2>3 DEF StartSecret
<1>7. ASSUME NEW others \in SUBSET Users, CreateGroup(p, others \cup {Owner[p]}) PROVE ChatsInv'
  <2>1. others \cup {Owner[p]} \in SUBSET Users
    BY <1>1
  <2>2. Inserts(GroupRow(others \cup {Owner[p]}))
        /\ Asks(p, "group", made + 1, others \cup {Owner[p]}, 0, "done")
    BY <1>7 DEF CreateGroup
  <2>3. TableOK' /\ made + 1 \in ChatIds
    BY <1>2, <2>1, <2>2, RowTypes, InsertsTypes
  <2> QED BY <1>1, <1>3, <1>7, <2>1, <2>2, <2>3 DEF CreateGroup
<1>8. ASSUME NEW c \in ChatIds,
             \/ Accept(p, c) \/ Reject(p, c) \/ Destroy(p, c) \/ Leave(p, c) \/ Purge(p, c)
             \/ \E v \in Users : AddMember(p, c, v)
             \/ \E seconds \in Timers : SetTimer(p, c, seconds)
      PROVE  ChatsInv'
  <2>1. CASE Accept(p, c)
    BY <1>1, <1>3, <1>4, <2>1 DEF Accept
  <2>2. CASE Reject(p, c)
    BY <1>1, <1>3, <1>4, <2>2 DEF Reject
  <2>3. CASE Destroy(p, c)
    BY <1>1, <1>3, <1>4, <2>3 DEF Destroy
  <2>4. CASE Leave(p, c)
    BY <1>1, <1>3, <1>4, <2>4 DEF Leave
  <2>5. CASE Purge(p, c)
    BY <1>1, <1>2, <1>3, <1>4, <2>5, MembersTypes DEF Purge
  <2>6. ASSUME NEW v \in Users, AddMember(p, c, v) PROVE ChatsInv'
    BY <1>1, <1>3, <1>4, <2>6 DEF AddMember
  <2>7. ASSUME NEW seconds \in Timers, SetTimer(p, c, seconds) PROVE ChatsInv'
    BY <1>1, <1>3, <1>4, <2>7 DEF SetTimer
  <2> QED BY <1>8, <2>1, <2>2, <2>3, <2>4, <2>5, <2>6, <2>7
<1> QED BY <1>5, <1>6, <1>7, <1>8 DEF Wishes

\* What handlers do about a request: their statements, then their events.
LEMMA HandlerTypes ==
  ASSUME ChatsAssumption, ChatsInv, NEW p \in Pages, Handles(p)
  PROVE  ChatsInv'
<1> DEFINE r == req[p]  c == r.chat
<1>1. /\ TableOK /\ inbox \in [Pages -> Seq(Events)] /\ online \in SUBSET Pages
      /\ asked \in 0 .. MaxRequests /\ raced \in SUBSET Ops /\ Owner[p] \in Users
  BY DEF ChatsInv, ChatsTypeOK, TableOK, ChatsAssumption
<1>2. ASSUME NEW op, NEW step, op # "none", At(p, op, step)
      PROVE  r \in Request /\ r.op = op /\ r.step = step /\ (op \in About => c \in ChatIds)
  BY <1>2 DEF At, ChatsInv, ChatsTypeOK, Idle, Aimed
<1>3. ASSUME r.op # "none", r.op \in Telling => c \in ChatIds,
             NEW step \in Steps, Goes(p, step), step = "announce" => r.op \in Telling,
             TableOK', inbox' \in [Pages -> Seq(Events)], UNCHANGED <<online, asked, raced>>
      PROVE  ChatsInv'
  <2>1. req' \in [Pages -> Request \cup {Idle}] /\ Aimed'
    BY <1>3, GoesTypes
  <2> QED BY <1>1, <1>3, <2>1 DEF ChatsInv, ChatsTypeOK, TableOK
<1>4. ASSUME r.op # "none", r.op \notin About, NEW step \in Steps, NEW e \in ChatIds,
             GoesOn(p, step, e), step = "announce" => r.op \in Telling,
             TableOK', UNCHANGED <<inbox, online, asked, raced>>
      PROVE  ChatsInv'
  <2>1. req' \in [Pages -> Request \cup {Idle}] /\ Aimed'
    BY <1>4, GoesOnTypes
  <2> QED BY <1>1, <1>4, <2>1 DEF ChatsInv, ChatsTypeOK, TableOK
<1>5. ASSUME UNCHANGED <<chat, made>> PROVE TableOK'
  BY <1>1, <1>5 DEF TableOK
<1>6. ASSUME UNCHANGED inbox PROVE inbox' \in [Pages -> Seq(Events)]
  BY <1>1, <1>6
<1> USE DEF Steps, About, Telling
<1>7. CASE DirectInsert(p)
  <2>1. r \in Request /\ r.op = "direct" /\ r.whom \in SUBSET Users
    BY <1>2, <1>7 DEF DirectInsert, Request
  <2>2. CASE Inserts(DirectRow(r.whom)) /\ GoesOn(p, "done", made + 1)
    <3>1. TableOK' /\ made + 1 \in ChatIds
      BY <1>1, <2>1, <2>2, RowTypes, InsertsTypes
    <3> QED BY <1>4, <1>7, <2>1, <2>2, <3>1 DEF DirectInsert
  <2>3. CASE Goes(p, "lost") /\ UNCHANGED <<chat, made>>
    BY <1>3, <1>5, <1>6, <1>7, <2>1, <2>3 DEF DirectInsert
  <2> QED BY <1>7, <2>2, <2>3 DEF DirectInsert
<1>8. CASE DirectLost(p)
  <2>1. r.op = "direct"
    BY <1>2, <1>8 DEF DirectLost
  <2>2. CASE \E e \in Claimed(r.whom) : GoesOn(p, "done", e)
    BY <1>4, <1>5, <1>8, <2>1, <2>2 DEF DirectLost, Claimed
  <2>3. CASE Goes(p, "error")
    BY <1>3, <1>5, <1>6, <1>8, <2>1, <2>3 DEF DirectLost
  <2> QED BY <1>8, <2>2, <2>3 DEF DirectLost
<1>9. CASE AddInsert(p)
  <2>1. r \in Request /\ r.op = "add" /\ c \in ChatIds /\ r.whom \in SUBSET Users
    BY <1>2, <1>9 DEF AddInsert, Request
  <2>2. CASE Live(c) /\ chat' = [chat EXCEPT ![c].members = @ \cup r.whom] /\ Goes(p, "done")
    <3>1. chat[c] \in ChatRow /\ chat[c] # Gone
      BY <1>1, <2>1, <2>2 DEF TableOK, Live
    <3>2. [chat[c] EXCEPT !.members = @ \cup r.whom] \in ChatRow
      BY <2>1, <3>1 DEF ChatRow
    <3>3. TableOK'
      BY <1>1, <1>9, <2>1, <2>2, <3>1, <3>2, UpdatesTypes DEF AddInsert, TableOK
    <3> QED BY <1>3, <1>6, <1>9, <2>1, <2>2, <3>3 DEF AddInsert
  <2>3. CASE Goes(p, "error") /\ UNCHANGED chat
    BY <1>3, <1>5, <1>6, <1>9, <2>1, <2>3 DEF AddInsert
  <2> QED BY <1>9, <2>2, <2>3 DEF AddInsert
<1>10. CASE SecretInsert(p)
  <2>1. r \in Request /\ r.op = "secret" /\ r.whom \in SUBSET Users
    BY <1>2, <1>10 DEF SecretInsert, Request
  <2>2. TableOK' /\ made + 1 \in ChatIds
    <3>1. PICK v \in r.whom : Inserts(SecretRow(Owner[p], v))
      BY <1>10 DEF SecretInsert
    <3> QED BY <1>1, <2>1, <3>1, RowTypes, InsertsTypes
  <2> QED BY <1>4, <1>10, <2>1, <2>2 DEF SecretInsert
<1>11. CASE AcceptUpdate(p)
  <2>1. r.op = "accept" /\ c \in ChatIds
    BY <1>2, <1>11 DEF AcceptUpdate
  <2>2. CASE Pending(c) /\ chat' = [chat EXCEPT ![c].enc = TRUE] /\ Goes(p, "announce")
    <3>1. chat[c] \in ChatRow /\ chat[c] # Gone
      BY <1>1, <2>1, <2>2 DEF TableOK, Pending, Gone
    <3>2. [chat[c] EXCEPT !.enc = TRUE] \in ChatRow
      BY <3>1 DEF ChatRow
    <3>3. TableOK'
      BY <1>1, <1>11, <2>1, <2>2, <3>1, <3>2, UpdatesTypes DEF AcceptUpdate, TableOK
    <3> QED BY <1>3, <1>6, <1>11, <2>1, <2>2, <3>3 DEF AcceptUpdate
  <2>3. CASE Goes(p, "error") /\ UNCHANGED chat
    BY <1>3, <1>5, <1>6, <1>11, <2>1, <2>3 DEF AcceptUpdate
  <2> QED BY <1>11, <2>2, <2>3 DEF AcceptUpdate
<1>12. CASE RejectDelete(p)
  <2>1. r.op = "reject" /\ c \in ChatIds
    BY <1>2, <1>12 DEF RejectDelete
  <2>2. TableOK'
    BY <1>1, <1>5, <1>12, DeletesTypes DEF RejectDelete
  <2> QED BY <1>3, <1>6, <1>12, <2>1, <2>2 DEF RejectDelete
<1>13. CASE TimerUpdate(p)
  <2>1. r \in Request /\ r.op = "timer" /\ c \in ChatIds /\ r.timer \in Timers
    BY <1>2, <1>13 DEF TimerUpdate, Request
  <2>2. ASSUME Live(c) PROVE TableOK'
    <3>1. chat[c] \in ChatRow /\ chat[c] # Gone
      BY <1>1, <2>1, <2>2 DEF TableOK, Live
    <3>2. [chat[c] EXCEPT !.timer = r.timer] \in ChatRow
      BY <2>1, <3>1 DEF ChatRow
    <3>3. chat' = [chat EXCEPT ![c] = [chat[c] EXCEPT !.timer = r.timer]] /\ UNCHANGED made
      BY <1>13, <2>2 DEF TimerUpdate
    <3> QED BY <1>1, <2>1, <3>1, <3>2, <3>3, UpdatesTypes
  <2>3. ASSUME ~Live(c) PROVE TableOK'
    BY <1>5, <1>13, <2>3 DEF TimerUpdate
  <2>4. TableOK' => ChatsInv'
    BY <1>3, <1>6, <1>13, <2>1 DEF TimerUpdate
  <2> QED BY <1>3, <1>6, <1>13, <2>1, <2>2, <2>3, <2>4 DEF TimerUpdate
<1>14. CASE DestroyDelete(p)
  <2>1. r.op = "destroy" /\ c \in ChatIds
    BY <1>2, <1>14 DEF DestroyDelete
  <2>2. TableOK'
    BY <1>1, <1>14, DeletesTypes DEF DestroyDelete
  <2> QED BY <1>3, <1>6, <1>14, <2>1, <2>2 DEF DestroyDelete
<1>15. CASE LeaveDelete(p)
  <2>1. r \in Request /\ r.op = "leave" /\ c \in ChatIds
    BY <1>2, <1>15 DEF LeaveDelete
  <2> DEFINE next == [r EXCEPT !.step = "commit", !.whom = chat[c].members \ {Owner[p]}]
  <2>2. next \in Request /\ next.op = "leave" /\ next.step = "commit" /\ next.chat = c
    <3>1. chat[c].members \ {Owner[p]} \in SUBSET Users
      BY <1>1, <2>1, MembersTypes
    <3> QED BY <2>1, <3>1 DEF Request
  <2>3. req' = [req EXCEPT ![p] = next]
    BY <1>15 DEF LeaveDelete
  <2>4. req' \in [Pages -> Request \cup {Idle}] /\ Aimed'
    BY <2>1, <2>2, <2>3 DEF ChatsInv, ChatsTypeOK, Aimed
  <2> QED BY <1>1, <1>5, <1>15, <2>4 DEF LeaveDelete, ChatsInv, ChatsTypeOK, TableOK
<1>16. CASE LeaveCommit(p)
  <2>1. r.op = "leave" /\ c \in ChatIds
    BY <1>2, <1>16 DEF LeaveCommit
  <2>2. ASSUME Deletes(c) PROVE TableOK'
    BY <1>1, <1>16, <2>2, DeletesTypes DEF LeaveCommit
  <2>3. ASSUME Live(c), chat' = Without(p, c) PROVE TableOK'
    <3>1. chat[c] \in ChatRow /\ chat[c] # Gone
      BY <1>1, <2>1, <2>3 DEF TableOK, Live
    <3>2. [chat[c] EXCEPT !.members = chat[c].members \ {Owner[p]}, !.pair = {}] \in ChatRow
      BY <3>1 DEF ChatRow
    <3>3. chat' = [chat EXCEPT ![c] = [chat[c] EXCEPT !.members = chat[c].members \ {Owner[p]}, !.pair = {}]]
          /\ UNCHANGED made
      BY <1>16, <2>3 DEF LeaveCommit, Without
    <3> QED BY <1>1, <2>1, <3>1, <3>2, <3>3, UpdatesTypes
  <2>4. ASSUME UNCHANGED chat PROVE TableOK'
    BY <1>5, <1>16, <2>4 DEF LeaveCommit
  <2>5. TableOK'
    BY <1>16, <2>2, <2>3, <2>4 DEF LeaveCommit
  <2> QED BY <1>3, <1>6, <1>16, <2>1, <2>5 DEF LeaveCommit
<1>17. CASE PurgeDelete(p)
  <2>1. r.op = "purge" /\ c \in ChatIds
    BY <1>2, <1>17 DEF PurgeDelete
  <2>2. CASE Deletes(c) /\ Goes(p, "announce")
    <3>1. TableOK'
      BY <1>1, <1>17, <2>2, DeletesTypes DEF PurgeDelete
    <3> QED BY <1>3, <1>6, <1>17, <2>1, <2>2, <3>1 DEF PurgeDelete
  <2>3. CASE Goes(p, "error") /\ UNCHANGED chat
    BY <1>3, <1>5, <1>6, <1>17, <2>1, <2>3 DEF PurgeDelete
  <2> QED BY <1>17, <2>2, <2>3 DEF PurgeDelete
<1>18. CASE Announce(p)
  <2>1. r \in Request /\ r.op \in Telling /\ c \in ChatIds /\ r.timer \in Timers
    BY <1>18 DEF Announce, ChatsInv, ChatsTypeOK, Aimed, Idle, Request
  <2>2. Says[r.op] \in {"e2e_request", "e2e_accepted", "e2e_rejected", "chat_deleted", "timer", "message"}
    BY <2>1 DEF Says
  <2>3. inbox' \in [Pages -> Seq(Events)]
    BY <1>1, <1>18, <2>1, <2>2, BroadcastTypes DEF Announce
  <2>4. AfterEvent(p) \in {"delete", "note", "done"}
    BY DEF AfterEvent
  <2> QED BY <1>3, <1>5, <1>18, <2>1, <2>3, <2>4 DEF Announce
<1>19. CASE Note(p)
  <2>1. r.op = "timer" /\ c \in ChatIds
    BY <1>2, <1>19 DEF Note
  <2>2. inbox' \in [Pages -> Seq(Events)]
    BY <1>1, <1>19, <2>1, BroadcastTypes DEF Note, ChatsAssumption
  <2> QED BY <1>3, <1>5, <1>19, <2>1, <2>2 DEF Note
<1> QED
  BY <1>7, <1>8, <1>9, <1>10, <1>11, <1>12, <1>13, <1>14, <1>15, <1>16, <1>17, <1>18, <1>19
     DEF Handles

\* Answers, connections and events taken: the chats stay as they are.
LEMMA PageTypes ==
  ASSUME ChatsAssumption, ChatsInv, NEW p \in Pages, Return(p) \/ Connect(p) \/ HangUp(p) \/ Take(p)
  PROVE  ChatsInv'
<1>1. CASE Return(p)
  BY <1>1 DEF Return, ChatsInv, ChatsTypeOK, Aimed, Idle, About
<1>2. CASE Connect(p)
  BY <1>2 DEF Connect, ChatsInv, ChatsTypeOK, Aimed
<1>3. CASE HangUp(p)
  BY <1>3 DEF HangUp, ChatsInv, ChatsTypeOK, Aimed
<1>4. CASE Take(p)
  <2>1. Tail(inbox[p]) \in Seq(Events)
    BY <1>4 DEF Take, ChatsInv, ChatsTypeOK
  <2>2. inbox' \in [Pages -> Seq(Events)]
    BY <1>4, <2>1 DEF Take, ChatsInv, ChatsTypeOK
  <2> QED BY <1>4, <2>2 DEF Take, ChatsInv, ChatsTypeOK, Aimed
<1> QED BY <1>1, <1>2, <1>3, <1>4

LEMMA ChatsInvStep == ASSUME ChatsAssumption, ChatsInv, [Next]_vars PROVE ChatsInv'
<1>1. CASE Next
  BY <1>1, WishTypes, HandlerTypes, PageTypes DEF Next
<1>2. CASE UNCHANGED vars
  BY <1>2 DEF vars, ChatsInv, ChatsTypeOK, Aimed
<1> QED BY <1>1, <1>2

LEMMA ChatsInvHolds == ASSUME ChatsAssumption PROVE Spec => []ChatsInv
<1>1. Init => ChatsInv
  BY InitTypes
<1>2. ChatsInv /\ [Next]_vars => ChatsInv'
  BY ChatsInvStep
<1> QED BY <1>1, <1>2, PTL DEF Spec

\* Rows, requests and events keep their types, an id that was not given out has no row,
\* and no handler changes a chat without knowing which (chats.go, deletions.go,
\* e2e_request.go).
THEOREM ChatsTypes == ASSUME ChatsAssumption PROVE Spec => []ChatsTypeOK
<1>1. ChatsInv => ChatsTypeOK
  BY DEF ChatsInv
<1> QED BY <1>1, ChatsInvHolds, PTL

-----------------------------------------------------------------------------
\* Handshake.

Phases == [c \in ChatIds |-> Phase(c)]
Wants == [c \in ChatIds |-> Wished(c)]

\* What a step of Handshake does to one chat.
PhaseOK ==
  \/ UNCHANGED Phases
  \/ \E c \in ChatIds : HS!Open(c) \/ HS!Propose(c) \/ HS!Accept(c) \/ HS!Reject(c) \/ HS!End(c)

\* A chat whose row, and whose place among the ids, stay the same stays in its phase.
LEMMA SamePhase ==
  ASSUME NEW c, chat'[c] = chat[c], (c <= made') <=> (c <= made)
  PROVE  Phase(c)' = Phase(c)
BY DEF Phase

LEMMA SamePhases ==
  ASSUME UNCHANGED <<chat, made>>
  PROVE  PhaseOK
<1>1. \A c \in ChatIds : Phase(c)' = Phase(c)
  BY DEF Phase
<1> QED BY <1>1 DEF PhaseOK, Phases

\* Only the chat that was changed changes its phase.
LEMMA OnePhase ==
  ASSUME TableOK, NEW c \in ChatIds, NEW to,
         \A e \in ChatIds \ {c} : chat'[e] = chat[e],
         \A e \in ChatIds \ {c} : (e <= made') <=> (e <= made),
         Phase(c)' = to
  PROVE  Phases' = [Phases EXCEPT ![c] = to]
<1>1. \A e \in ChatIds \ {c} : Phase(e)' = Phase(e)
  BY SamePhase
<1> QED BY <1>1 DEF Phases

\* A new chat is an ordinary one or waits for its answer.
LEMMA InsertsPhase ==
  ASSUME ChatsAssumption, TableOK, NEW row \in ChatRow, Inserts(row), row.kind = "secret" => ~row.enc
  PROVE  PhaseOK
<1>0. made + 1 \in ChatIds /\ made \in Nat /\ made' = made + 1
  <2>1. made + 1 \in ChatIds
    BY InsertsTypes
  <2> QED BY <2>1 DEF Inserts, TableOK, ChatsAssumption
<1> PICK c \in ChatIds : c = made + 1
  BY <1>0
<1>1. c = made + 1 /\ made \in Nat /\ made' = c
  BY <1>0
<1>2. /\ \A e \in ChatIds \ {c} : chat'[e] = chat[e]
      /\ \A e \in ChatIds \ {c} : (e <= made') <=> (e <= made)
  BY <1>1 DEF Inserts, TableOK, ChatIds, ChatsAssumption
<1>3. Phases[c] = "none"
  BY <1>1 DEF Phases, Phase, TableOK, Gone
<1>4. chat'[c] = row
  BY <1>1 DEF Inserts, TableOK
<1>5. CASE row.kind = "secret"
  <2>1. Phase(c)' = "waiting"
    BY <1>4, <1>5 DEF Phase
  <2>2. Phases' = [Phases EXCEPT ![c] = "waiting"]
    BY <1>1, <1>2, <2>1, OnePhase
  <2> QED BY <1>1, <1>3, <2>2 DEF PhaseOK, HS!Propose, HS!Becomes, Phases
<1>6. CASE row.kind \in {"direct", "group"}
  <2>1. Phase(c)' = "plain"
    BY <1>4, <1>6 DEF Phase
  <2>2. Phases' = [Phases EXCEPT ![c] = "plain"]
    BY <1>1, <1>2, <2>1, OnePhase
  <2> QED BY <1>1, <1>3, <2>2 DEF PhaseOK, HS!Open, HS!Becomes, Phases
<1> QED BY <1>5, <1>6 DEF ChatRow

\* A row keeps its phase while it keeps its kind and its acceptance.
LEMMA KeepsPhase ==
  ASSUME TableOK, NEW c \in ChatIds, NEW row, chat' = [chat EXCEPT ![c] = row], UNCHANGED made,
         row.kind = chat[c].kind, row.enc = chat[c].enc
  PROVE  PhaseOK
<1>1. chat'[c] = row /\ \A e \in ChatIds \ {c} : chat'[e] = chat[e]
  BY DEF TableOK
<1>2. Phase(c)' = Phase(c)
  BY <1>1 DEF Phase
<1>3. \A e \in ChatIds : Phase(e)' = Phase(e)
  BY <1>1, <1>2, SamePhase
<1> QED BY <1>3 DEF PhaseOK, Phases

\* Deleting a chat that is there ends it, deleting one that is not changes nothing.
LEMMA DeletesPhase ==
  ASSUME TableOK, NEW c \in ChatIds, Deletes(c), UNCHANGED made,
         \/ "end" \in Wished(c)
         \/ "reject" \in Wished(c) /\ Pending(c)
  PROVE  PhaseOK
<1>1. chat'[c] = Gone /\ \A e \in ChatIds \ {c} : chat'[e] = chat[e]
  BY DEF Deletes, TableOK
<1>2. CASE chat[c] = Gone
  <2>1. UNCHANGED <<chat, made>>
    BY <1>2 DEF Deletes, TableOK
  <2> QED BY <2>1, SamePhases
<1>3. CASE chat[c] # Gone
  <2>1. chat[c] \in ChatRow /\ c <= made
    BY <1>3 DEF TableOK, ChatIds
  <2>2. Phase(c)' = "gone"
    BY <1>1, <2>1 DEF Phase, Gone
  <2>3. Phases' = [Phases EXCEPT ![c] = "gone"]
    BY <1>1, <2>2, OnePhase
  <2>4. Phases[c] \in {"plain", "waiting", "encrypted"}
    BY <2>1 DEF Phases, Phase, ChatRow
  <2>5. CASE "end" \in Wished(c)
    BY <2>3, <2>4, <2>5 DEF PhaseOK, Phases, HS!End, HS!Becomes
  <2>6. CASE "reject" \in Wished(c) /\ Pending(c)
    <3>1. Phases[c] = "waiting"
      BY <2>6 DEF Phases, Phase, Pending
    <3> QED BY <2>3, <2>6, <3>1 DEF PhaseOK, Phases, HS!Reject, HS!Becomes
  <2> QED BY <2>5, <2>6
<1> QED BY <1>2, <1>3

\* Whoever has asked for it wishes it.
LEMMA WishKnown ==
  ASSUME NEW p \in Pages, req[p].op \in {"accept", "reject", "destroy", "leave", "purge"}
  PROVE  Wish(req[p].op) \in Wished(req[p].chat)
BY DEF Wished

\* What pages ask for is nothing yet, except for a group.
LEMMA WishPhase ==
  ASSUME ChatsAssumption, TableOK, NEW p \in Pages, Wishes(p, Users, ChatIds, Users)
  PROVE  PhaseOK
<1>1. ASSUME UNCHANGED <<chat, made>> PROVE PhaseOK
  BY <1>1, SamePhases
<1>2. ASSUME NEW v \in Users, CreateDirect(p, v) \/ StartSecret(p, v) PROVE PhaseOK
  BY <1>1, <1>2 DEF CreateDirect, StartSecret
<1>3. ASSUME NEW others \in SUBSET Users, CreateGroup(p, others \cup {Owner[p]}) PROVE PhaseOK
  <2>1. others \cup {Owner[p]} \in SUBSET Users
    BY DEF ChatsAssumption
  <2>2. GroupRow(others \cup {Owner[p]}) \in ChatRow /\ Inserts(GroupRow(others \cup {Owner[p]}))
    BY <1>3, <2>1, RowTypes DEF CreateGroup
  <2>3. GroupRow(others \cup {Owner[p]}).kind # "secret"
    BY DEF GroupRow, DirectRow
  <2> QED BY <2>2, <2>3, InsertsPhase
<1>4. ASSUME NEW c \in ChatIds,
             \/ Accept(p, c) \/ Reject(p, c) \/ Destroy(p, c) \/ Leave(p, c) \/ Purge(p, c)
             \/ \E v \in Users : AddMember(p, c, v)
             \/ \E seconds \in Timers : SetTimer(p, c, seconds)
      PROVE  PhaseOK
  BY <1>1, <1>4 DEF Accept, Reject, Destroy, Leave, Purge, AddMember, SetTimer
<1> QED BY <1>2, <1>3, <1>4 DEF Wishes

\* What handlers do is what somebody wishes.
LEMMA HandlerPhase ==
  ASSUME ChatsAssumption, ChatsInv, NEW p \in Pages, Handles(p)
  PROVE  PhaseOK
<1>1. TableOK /\ Owner[p] \in Users
  BY DEF ChatsInv, ChatsTypeOK, TableOK, ChatsAssumption
<1>2. ASSUME NEW op \in About, NEW step, At(p, op, step)
      PROVE  req[p].op = op /\ req[p].chat \in ChatIds
  BY <1>2 DEF At, ChatsInv, Aimed, About
<1>3. ASSUME UNCHANGED <<chat, made>> PROVE PhaseOK
  BY <1>3, SamePhases
<1>4. ASSUME NEW op, NEW step, op # "none", At(p, op, step)
      PROVE  req[p].whom \in SUBSET Users
  BY <1>4 DEF At, ChatsInv, ChatsTypeOK, Idle, Request
<1> DEFINE c == req[p].chat
<1>5. CASE DirectInsert(p)
  <2>1. CASE Inserts(DirectRow(req[p].whom))
    <3>1. DirectRow(req[p].whom) \in ChatRow /\ DirectRow(req[p].whom).kind # "secret"
      BY <1>4, <1>5, RowTypes DEF DirectInsert, DirectRow
    <3> QED BY <1>1, <2>1, <3>1, InsertsPhase
  <2> QED BY <1>3, <1>5, <2>1 DEF DirectInsert
<1>6. CASE AddInsert(p)
  <2>1. c \in ChatIds
    BY <1>2, <1>6 DEF AddInsert, About
  <2>2. CASE Live(c) /\ chat' = [chat EXCEPT ![c].members = @ \cup req[p].whom]
    <3> DEFINE row == [chat[c] EXCEPT !.members = @ \cup req[p].whom]
    <3>1. chat' = [chat EXCEPT ![c] = row] /\ UNCHANGED made
      BY <1>6, <2>2 DEF AddInsert
    <3>2. row.kind = chat[c].kind /\ row.enc = chat[c].enc
      BY <1>1, <2>1 DEF TableOK, ChatRow, Gone
    <3> QED BY <1>1, <2>1, <3>1, <3>2, KeepsPhase
  <2> QED BY <1>3, <1>6, <2>2 DEF AddInsert
<1>7. CASE SecretInsert(p)
  <2>1. PICK v \in Users : Inserts(SecretRow(Owner[p], v))
    BY <1>4, <1>7 DEF SecretInsert
  <2>2. SecretRow(Owner[p], v) \in ChatRow /\ ~SecretRow(Owner[p], v).enc
    BY <1>1, RowTypes DEF SecretRow, DirectRow
  <2> QED BY <1>1, <2>1, <2>2, InsertsPhase
<1>8. CASE AcceptUpdate(p)
  <2>1. c \in ChatIds /\ "accept" \in Wished(c)
    BY <1>2, <1>8, WishKnown DEF AcceptUpdate, About, Wish
  <2>2. CASE Pending(c) /\ chat' = [chat EXCEPT ![c].enc = TRUE]
    <3>1. chat[c] \in ChatRow
      BY <1>1, <2>1, <2>2 DEF TableOK, Pending, Gone
    <3>2. /\ \A e \in ChatIds \ {c} : chat'[e] = chat[e]
          /\ \A e \in ChatIds \ {c} : (e <= made') <=> (e <= made)
      BY <1>1, <1>8, <2>2 DEF TableOK, AcceptUpdate
    <3>3. chat'[c].kind = "secret" /\ chat'[c].enc
      BY <1>1, <2>1, <2>2, <3>1 DEF TableOK, ChatRow, Pending
    <3>4. PICK e \in ChatIds : e = c
      BY <2>1
    <3>5. Phase(e)' = "encrypted"
      BY <3>3, <3>4 DEF Phase
    <3>6. Phases' = [Phases EXCEPT ![e] = "encrypted"]
      BY <1>1, <3>2, <3>4, <3>5, OnePhase
    <3>7. Phases[e] = "waiting"
      BY <2>2, <3>4 DEF Phases, Phase, Pending
    <3> QED BY <2>1, <3>4, <3>6, <3>7 DEF PhaseOK, Phases, HS!Accept, HS!Becomes
  <2> QED BY <1>3, <1>8, <2>2 DEF AcceptUpdate
<1>9. CASE RejectDelete(p)
  <2>1. c \in ChatIds /\ "reject" \in Wished(c)
    BY <1>2, <1>9, WishKnown DEF RejectDelete, About, Wish
  <2>2. CASE Pending(c)
    BY <1>1, <1>9, <2>1, <2>2, DeletesPhase DEF RejectDelete
  <2> QED BY <1>3, <1>9, <2>2 DEF RejectDelete
<1>10. CASE TimerUpdate(p)
  <2>1. c \in ChatIds
    BY <1>2, <1>10 DEF TimerUpdate, About
  <2>2. CASE Live(c)
    <3> DEFINE row == [chat[c] EXCEPT !.timer = req[p].timer]
    <3>1. chat' = [chat EXCEPT ![c] = row] /\ UNCHANGED made
      BY <1>10, <2>2 DEF TimerUpdate
    <3>2. row.kind = chat[c].kind /\ row.enc = chat[c].enc
      BY <1>1, <2>1 DEF TableOK, ChatRow, Gone
    <3> QED BY <1>1, <2>1, <3>1, <3>2, KeepsPhase
  <2> QED BY <1>3, <1>10, <2>2 DEF TimerUpdate
<1>11. CASE DestroyDelete(p)
  <2>1. c \in ChatIds /\ "end" \in Wished(c)
    BY <1>2, <1>11, WishKnown DEF DestroyDelete, About, Wish
  <2> QED BY <1>1, <1>11, <2>1, DeletesPhase DEF DestroyDelete
<1>12. CASE LeaveCommit(p)
  <2>1. c \in ChatIds /\ "end" \in Wished(c)
    BY <1>2, <1>12, WishKnown DEF LeaveCommit, About, Wish
  <2>2. CASE Deletes(c)
    BY <1>1, <1>12, <2>1, <2>2, DeletesPhase DEF LeaveCommit
  <2>3. CASE chat' = Without(p, c)
    <3> DEFINE row == [chat[c] EXCEPT !.members = chat[c].members \ {Owner[p]}, !.pair = {}]
    <3>1. chat' = [chat EXCEPT ![c] = row] /\ UNCHANGED made
      BY <1>12, <2>3 DEF LeaveCommit, Without
    <3>2. row.kind = chat[c].kind /\ row.enc = chat[c].enc
      BY <1>1, <2>1 DEF TableOK, ChatRow, Gone
    <3> QED BY <1>1, <2>1, <3>1, <3>2, KeepsPhase
  <2> QED BY <1>3, <1>12, <2>2, <2>3 DEF LeaveCommit
<1>13. CASE PurgeDelete(p)
  <2>1. c \in ChatIds /\ "end" \in Wished(c)
    BY <1>2, <1>13, WishKnown DEF PurgeDelete, About, Wish
  <2>2. CASE Deletes(c)
    BY <1>1, <1>13, <2>1, <2>2, DeletesPhase DEF PurgeDelete
  <2> QED BY <1>3, <1>13, <2>2 DEF PurgeDelete
<1>14. CASE DirectLost(p) \/ LeaveDelete(p) \/ Announce(p) \/ Note(p)
  BY <1>3, <1>14 DEF DirectLost, LeaveDelete, Announce, Note
<1> QED
  BY <1>5, <1>6, <1>7, <1>8, <1>9, <1>10, <1>11, <1>12, <1>13, <1>14 DEF Handles

LEMMA PhaseStep ==
  ASSUME ChatsAssumption, ChatsInv, [Next]_vars
  PROVE  PhaseOK
<1>1. TableOK
  BY DEF ChatsInv, ChatsTypeOK, TableOK
<1>2. ASSUME UNCHANGED <<chat, made>> PROVE PhaseOK
  BY <1>2, SamePhases
<1>3. ASSUME NEW p \in Pages, Return(p) \/ Connect(p) \/ HangUp(p) \/ Take(p) PROVE PhaseOK
  BY <1>2, <1>3 DEF Return, Connect, HangUp, Take
<1>4. CASE UNCHANGED vars
  BY <1>2, <1>4 DEF vars
<1> QED BY <1>1, <1>3, <1>4, WishPhase, HandlerPhase DEF Next

\* A chat is accepted at most once and only by an acceptance, a rejection takes only
\* what still waits, and no handler brings a chat back or loses one that nobody wants
\* gone (e2e_request.go:90,122, deletions.go:175,203): Chats implement Handshake.
THEOREM ChatsShakeHands == ASSUME ChatsAssumption PROVE Spec => EncryptionKept
<1>1. ASSUME Init PROVE HS!HInit
  <2>1. \A c \in ChatIds : Phase(c) \in {"none", "plain", "waiting", "encrypted"}
    <3>1. CASE chat = [c \in ChatIds |-> Gone] /\ made = 0
      BY <3>1 DEF Phase, Gone, ChatIds
    <3>2. ASSUME NEW u \in Peers, NEW v \in Peers, NEW row \in Existing(u, v),
                 chat = [c \in ChatIds |-> IF c = 1 THEN row ELSE Gone], made = 1
          PROVE  \A c \in ChatIds : Phase(c) \in {"none", "plain", "waiting", "encrypted"}
      <4>1. row.kind \in {"direct", "group", "secret"}
        BY <3>2, ExistingTypes DEF ChatRow
      <4> QED BY <3>2, <4>1 DEF Phase, Gone, ChatIds
    <3> QED BY <1>1, <3>1, <3>2 DEF Init
  <2>2. \A c \in ChatIds : Wished(c) = {}
    BY <1>1 DEF Init, Wished, Idle
  <2> QED BY <2>1, <2>2 DEF HS!HInit
<1>2. ASSUME ChatsInv, [Next]_vars PROVE HS!HNext
  <2>1. \A c \in ChatIds : Wished(c)' \in SUBSET {"accept", "reject", "end"}
    BY DEF Wished, Wish
  <2>2. PhaseOK
    BY <1>2, PhaseStep
  <2> QED BY <2>1, <2>2 DEF HS!HNext, HS!Wishes, PhaseOK, Phases
<1>3. Init /\ [][Next]_vars /\ []ChatsInv => EncryptionKept
  BY <1>1, <1>2, PTL DEF EncryptionKept, HS!HSpec
<1> QED BY <1>3, ChatsInvHolds DEF Spec

-----------------------------------------------------------------------------
\* Who shares a chat with whom.

\* Requests of the same kind that are under way together have been noticed.
OverlapsKnown ==
  \A p, q \in Pages :
    p # q /\ req[p].op = req[q].op /\ req[p].op # "none" => req[p].op \in raced

\* A conversation, ordinary or secret, is of two people, and of nobody else after one
\* has left; an ordinary one claims its pair until then.
RowOK(c) ==
  /\ chat[c].kind \in {"direct", "secret"} => \E u, v \in Users : chat[c].members \subseteq {u, v}
  /\ chat[c].pair # {} => chat[c].kind = "direct" /\ chat[c].members = chat[c].pair
  /\ chat[c].kind = "direct" /\ chat[c].pair = {} => \E u \in Users : chat[c].members \subseteq {u}

OneClaim ==
  \A c, e \in ChatIds : chat[c].pair # {} /\ chat[c].pair = chat[e].pair => c = e

SharingOK ==
  (\A c \in ChatIds : RowOK(c)) /\ OneClaim /\ NoOrphan /\ OneSecret /\ GroupFits

\* What a request is about that is going to insert a chat or a member, or to leave.
CoupleOK(p) ==
  req[p].op \in {"direct", "secret"} => \E v \in Users \ {Owner[p]} : req[p].whom = {Owner[p], v}

AdderOK(p) ==
  At(p, "add", "insert") =>
    /\ req[p].chat <= made
    /\ \E v \in Users : req[p].whom = {v}
    /\ Live(req[p].chat) => chat[req[p].chat].kind = "group"

LeaverOK(p) ==
  At(p, "leave", "delete") \/ At(p, "leave", "commit") =>
    /\ req[p].chat <= made
    /\ chat[req[p].chat].pair # {} => Owner[p] \in chat[req[p].chat].members

\* What its handler has looked up is still so, unless another of its kind overlapped.
FreeOK(p) ==
  At(p, "secret", "insert") => Shared(req[p].whom) = {} \/ "secret" \in raced

RoomOK(p) ==
  At(p, "add", "insert") /\ Live(req[p].chat) =>
    Cardinality(chat[req[p].chat].members) < MaxMembers \/ "add" \in raced

ThereOK(p) ==
  At(p, "leave", "commit") /\ req[p].whom # {} =>
    /\ Owner[p] \notin req[p].whom
    /\ Live(req[p].chat) => req[p].whom \subseteq chat[req[p].chat].members \/ "leave" \in raced

RequestOK(p) ==
  CoupleOK(p) /\ AdderOK(p) /\ LeaverOK(p) /\ FreeOK(p) /\ RoomOK(p) /\ ThereOK(p)

SharingInv == ChatsInv /\ OverlapsKnown /\ SharingOK /\ \A p \in Pages : RequestOK(p)

-----------------------------------------------------------------------------
\* Counting members.

LEMMA Counted ==
  ASSUME ChatsAssumption, NEW S \in SUBSET Users
  PROVE  IsFiniteSet(S) /\ Cardinality(S) \in Nat
BY FS_Subset, FS_CardinalityType DEF ChatsAssumption

LEMMA OneMore ==
  ASSUME ChatsAssumption, NEW S \in SUBSET Users, NEW v
  PROVE  Cardinality(S \cup {v}) \in Nat /\ Cardinality(S \cup {v}) <= Cardinality(S) + 1
<1>1. IsFiniteSet(S) /\ Cardinality(S) \in Nat
  BY Counted
<1>2. Cardinality(S \cup {v}) \in {Cardinality(S), Cardinality(S) + 1}
  BY <1>1, FS_AddElement
<1> QED BY <1>1, <1>2

LEMMA Fewer ==
  ASSUME ChatsAssumption, NEW S \in SUBSET Users, NEW T \in SUBSET S
  PROVE  Cardinality(T) \in Nat /\ Cardinality(T) <= Cardinality(S)
BY Counted, FS_Subset, FS_CardinalityType

LEMMA TwoOfThem ==
  ASSUME NEW u, NEW v, u # v
  PROVE  Cardinality({u, v}) = 2
<1>1. IsFiniteSet({u}) /\ Cardinality({u}) = 1
  BY FS_Singleton
<1>2. Cardinality({u} \cup {v}) = 2
  BY <1>1, FS_AddElement
<1>3. {u} \cup {v} = {u, v}
  OBVIOUS
<1> QED BY <1>2, <1>3

\* Two of at most two are both of them, and at most one is not two.
LEMMA BothOfThem ==
  ASSUME NEW u, NEW v, NEW S \in SUBSET {u, v}, Cardinality(S) = 2
  PROVE  u # v /\ S = {u, v}
<1>1. Cardinality({}) = 0 /\ Cardinality({u}) = 1 /\ Cardinality({v}) = 1
  BY FS_EmptySet, FS_Singleton
<1>2. S \in {{}, {u}, {v}, {u, v}}
  OBVIOUS
<1>3. u = v => {u, v} = {u}
  OBVIOUS
<1> QED BY <1>1, <1>2, <1>3

\* Without somebody they are still two: he was none of them.
LEMMA BothStay ==
  ASSUME NEW S, \E a, b \in Users : S \subseteq {a, b}, NEW u, Cardinality(S \ {u}) = 2
  PROVE  S \ {u} = S
<1> DEFINE left == S \ {u}
<1>1. PICK a, b \in Users : S \subseteq {a, b}
  OBVIOUS
<1>2. left \in SUBSET {a, b} /\ Cardinality(left) = 2
  BY <1>1
<1> HIDE DEF left
<1>3. left = {a, b}
  BY <1>2, BothOfThem
<1> QED BY <1>1, <1>3 DEF left
-----------------------------------------------------------------------------
\* What each kind of statement does to the chats.

LEMMA SharingStays ==
  ASSUME SharingOK, UNCHANGED chat, raced \subseteq raced'
  PROVE  SharingOK'
BY DEF SharingOK, RowOK, OneClaim, NoOrphan, OneSecret, GroupFits, Live, Shared

\* A new chat has members, not too many, and is the only one of its pair.
LEMMA SharingInserts ==
  ASSUME ChatsAssumption, TableOK, SharingOK, NEW row \in ChatRow, Inserts(row), raced \subseteq raced',
         row.members # {}, Cardinality(row.members) <= MaxMembers,
         row.kind = "direct" => /\ row.pair = row.members /\ Claimed(row.pair) = {}
                                /\ \E u, v \in Users : row.members = {u, v},
         row.kind # "direct" => row.pair = {},
         row.kind = "secret" => /\ \E u, v \in Users : row.members = {u, v}
                                /\ Shared(row.members) = {} \/ "secret" \in raced
  PROVE  SharingOK'
<1>1. made + 1 \in ChatIds /\ chat[made + 1] = Gone
  BY InsertsTypes DEF TableOK, ChatIds
<1>2. chat'[made + 1] = row /\ \A c \in ChatIds \ {made + 1} : chat'[c] = chat[c]
  BY <1>1 DEF Inserts, TableOK
<1>3. \A c \in ChatIds : RowOK(c)'
  BY <1>2 DEF SharingOK, RowOK
<1>4. OneClaim'
  BY <1>1, <1>2 DEF SharingOK, OneClaim, Claimed, ChatRow
<1>5. NoOrphan'
  BY <1>2 DEF SharingOK, NoOrphan, Live
<1>6. OneSecret'
  BY <1>2 DEF SharingOK, OneSecret, Shared
<1>7. GroupFits'
  <2>1. Cardinality(row.members) \in Nat /\ MaxMembers \in Nat
    BY Counted DEF ChatRow, ChatsAssumption
  <2> QED BY <1>2, <2>1 DEF SharingOK, GroupFits
<1> QED BY <1>3, <1>4, <1>5, <1>6, <1>7 DEF SharingOK

LEMMA SharingDeletes ==
  ASSUME ChatsAssumption, TableOK, SharingOK, NEW d \in ChatIds, Deletes(d), raced \subseteq raced'
  PROVE  SharingOK'
<1>1. chat'[d] = Gone /\ \A c \in ChatIds \ {d} : chat'[c] = chat[c]
  BY DEF Deletes, TableOK
<1>2. \A c \in ChatIds : RowOK(c)'
  BY <1>1 DEF SharingOK, RowOK, Gone
<1>3. OneClaim' /\ NoOrphan'
  <2>1. Gone.pair = {}
    BY DEF Gone
  <2>2. OneClaim'
    BY <1>1, <2>1 DEF SharingOK, OneClaim
  <2> QED BY <1>1, <2>2 DEF SharingOK, NoOrphan, Live
<1>5. OneSecret'
  <2>1. \A c \in ChatIds : chat'[c].kind = "secret" => c # d
    BY <1>1 DEF Gone
  <2> QED BY <1>1, <2>1 DEF SharingOK, OneSecret, Shared
<1>4. GroupFits'
  <2>1. Cardinality(Gone.members) = 0 /\ ~(0 > MaxMembers)
    BY FS_EmptySet DEF Gone, ChatsAssumption
  <2> QED BY <1>1, <2>1 DEF SharingOK, GroupFits
<1> QED BY <1>2, <1>3, <1>4, <1>5 DEF SharingOK

\* A column that has nothing to do with who shares the chat.
LEMMA SharingKeeps ==
  ASSUME TableOK, SharingOK, NEW d \in ChatIds, NEW row, chat' = [chat EXCEPT ![d] = row],
         chat[d] # Gone, row.kind = chat[d].kind, row.members = chat[d].members, row.pair = chat[d].pair,
         raced \subseteq raced'
  PROVE  SharingOK'
<1>1. chat'[d] = row /\ \A c \in ChatIds \ {d} : chat'[c] = chat[c]
  BY DEF TableOK
<1>2. \A c \in ChatIds : RowOK(c)'
  BY <1>1 DEF SharingOK, RowOK
<1>3. OneClaim' /\ NoOrphan' /\ OneSecret' /\ GroupFits'
  BY <1>1 DEF SharingOK, OneClaim, NoOrphan, OneSecret, GroupFits, Shared, Live
<1> QED BY <1>2, <1>3 DEF SharingOK

\* One more in a group, which had room if nobody else was being added.
LEMMA SharingAdds ==
  ASSUME ChatsAssumption, TableOK, SharingOK, NEW d \in ChatIds, NEW v \in Users, NEW row,
         chat' = [chat EXCEPT ![d] = row], chat[d] # Gone, chat[d].kind = "group",
         row.kind = "group", row.members = chat[d].members \cup {v}, row.pair = chat[d].pair,
         Cardinality(chat[d].members) < MaxMembers \/ "add" \in raced, raced \subseteq raced'
  PROVE  SharingOK'
<1>1. chat'[d] = row /\ \A c \in ChatIds \ {d} : chat'[c] = chat[c]
  BY DEF TableOK
<1>2. \A c \in ChatIds : RowOK(c)'
  BY <1>1 DEF SharingOK, RowOK
<1>3. OneClaim' /\ NoOrphan' /\ OneSecret'
  BY <1>1 DEF SharingOK, RowOK, OneClaim, NoOrphan, OneSecret, Shared, Live
<1>4. GroupFits'
  <2>1. chat[d].members \in SUBSET Users /\ MaxMembers \in Nat
    BY MembersTypes DEF ChatsAssumption
  <2>2. Cardinality(chat[d].members) \in Nat /\ Cardinality(row.members) \in Nat
        /\ Cardinality(row.members) <= Cardinality(chat[d].members) + 1
    BY <2>1, OneMore, Counted
  <2>3. Cardinality(chat[d].members) < MaxMembers => ~(Cardinality(row.members) > MaxMembers)
    BY <2>1, <2>2
  <2> QED BY <1>1, <2>3 DEF SharingOK, GroupFits
<1> QED BY <1>2, <1>3, <1>4 DEF SharingOK

\* One fewer, and nobody claims the pair; whoever was counted is still there if nobody
\* else was leaving.
LEMMA SharingShrinks ==
  ASSUME ChatsAssumption, TableOK, SharingOK, NEW d \in ChatIds, NEW u \in Users, NEW row,
         chat' = [chat EXCEPT ![d] = row], chat[d] # Gone, row.kind = chat[d].kind, row.pair = {},
         row.members = chat[d].members \ {u}, row.members # {} \/ "leave" \in raced,
         chat[d].pair # {} => u \in chat[d].members, raced \subseteq raced'
  PROVE  SharingOK'
<1>1. chat'[d] = row /\ \A c \in ChatIds \ {d} : chat'[c] = chat[c]
  BY DEF TableOK
<1>2. \A c \in ChatIds : RowOK(c)'
  <2>1. RowOK(d)
    BY DEF SharingOK
  <2>2. CASE chat[d].pair = {}
    BY <1>1, <2>1, <2>2 DEF SharingOK, RowOK
  <2>3. CASE chat[d].pair # {}
    <3>1. PICK a, b \in Users : chat[d].members \subseteq {a, b}
      BY <2>1, <2>3 DEF RowOK
    <3>2. \E w \in Users : row.members \subseteq {w}
      BY <2>3, <3>1
    <3> QED BY <1>1, <2>1, <3>1, <3>2 DEF SharingOK, RowOK
  <2> QED BY <2>2, <2>3
<1>3. OneClaim' /\ NoOrphan'
  BY <1>1 DEF SharingOK, OneClaim, NoOrphan, Live
<1>4. OneSecret'
  <2>1. SUFFICES ASSUME NEW c \in ChatIds, NEW e \in ChatIds, chat'[c].kind = "secret",
                        chat'[e].kind = "secret", chat'[c].members = chat'[e].members,
                        Cardinality(chat'[c].members) = 2
                 PROVE  c = e \/ "secret" \in raced'
    BY DEF OneSecret, Shared
  <2>2. ASSUME NEW x \in ChatIds, chat'[x].kind = "secret", Cardinality(chat'[x].members) = 2
        PROVE  chat[x].kind = "secret" /\ chat[x].members = chat'[x].members
    <3>1. CASE x = d
      <4>1. \E a, b \in Users : chat[d].members \subseteq {a, b}
        BY <1>1, <2>2, <3>1 DEF SharingOK, RowOK
      <4>2. Cardinality(chat[d].members \ {u}) = 2
        BY <1>1, <2>2, <3>1
      <4>3. chat[d].members \ {u} = chat[d].members
        BY <4>1, <4>2, BothStay
      <4> QED BY <1>1, <2>2, <3>1, <4>3
    <3> QED BY <1>1, <2>2, <3>1
  <2>3. chat[c].members = chat[e].members /\ chat[c].kind = "secret" /\ chat[e].kind = "secret"
        /\ Cardinality(chat[c].members) = 2
    BY <2>1, <2>2
  <2> QED BY <2>3 DEF SharingOK, OneSecret, Shared
<1>5. GroupFits'
  <2>1. chat[d].members \in SUBSET Users /\ MaxMembers \in Nat
    BY MembersTypes DEF ChatsAssumption
  <2>2. Cardinality(row.members) > MaxMembers => Cardinality(chat[d].members) > MaxMembers
    BY <2>1, Fewer, Counted
  <2> QED BY <1>1, <2>2 DEF SharingOK, GroupFits
<1> QED BY <1>2, <1>3, <1>4, <1>5 DEF SharingOK


-----------------------------------------------------------------------------
\* What the statement of one handler spares of what another one has looked up: one
\* whose request is of this kind.
Spares(op) ==
  /\ made <= made'
  /\ \A c \in ChatIds : c <= made =>
       /\ chat'[c] # Gone => chat[c] # Gone /\ chat'[c].kind = chat[c].kind
       /\ chat'[c].pair # {} => chat[c].pair # {} /\ chat'[c].members = chat[c].members
       /\ chat'[c] # Gone /\ op = "add" => chat'[c].members \subseteq chat[c].members \/ "add" \in raced'
       /\ chat'[c] # Gone /\ op = "leave" => chat[c].members \subseteq chat'[c].members \/ "leave" \in raced'
  /\ op = "secret" /\ "secret" \notin raced' =>
       \A c \in ChatIds : chat'[c].kind = "secret" /\ Cardinality(chat'[c].members) = 2 =>
         chat[c].kind = "secret" /\ chat[c].members = chat'[c].members

\* So what it has looked up is still so.
LEMMA StillSo ==
  ASSUME ChatsAssumption, ChatsInv, NEW q \in Pages, RequestOK(q), req'[q] = req[q], Spares(req[q].op),
         raced \subseteq raced', TableOK'
  PROVE  RequestOK(q)'
<1>1. made \in Nat /\ made' \in Nat /\ TableOK
  BY DEF ChatsInv, ChatsTypeOK, TableOK, ChatsAssumption
<1>2. At(q, "add", "insert") \/ At(q, "leave", "delete") \/ At(q, "leave", "commit") => req[q].chat \in ChatIds
  BY DEF At, ChatsInv, Aimed, About
<1>3. CoupleOK(q)'
  BY DEF RequestOK, CoupleOK
<1>4. AdderOK(q)'
  <2>1. SUFFICES ASSUME At(q, "add", "insert") PROVE AdderOK(q)'
    BY DEF AdderOK, At
  <2>2. req[q].chat \in ChatIds /\ req[q].chat <= made /\ \E v \in Users : req[q].whom = {v}
        /\ (Live(req[q].chat) => chat[req[q].chat].kind = "group")
    BY <1>2, <2>1 DEF RequestOK, AdderOK
  <2>3. req[q].chat <= made'
    BY <1>1, <2>2 DEF Spares, ChatIds
  <2> QED BY <2>2, <2>3 DEF AdderOK, Spares, Live
<1>5. LeaverOK(q)'
  <2>1. SUFFICES ASSUME At(q, "leave", "delete") \/ At(q, "leave", "commit") PROVE LeaverOK(q)'
    BY DEF LeaverOK, At
  <2>2. req[q].chat \in ChatIds /\ req[q].chat <= made
        /\ (chat[req[q].chat].pair # {} => Owner[q] \in chat[req[q].chat].members)
    BY <1>2, <2>1 DEF RequestOK, LeaverOK
  <2>3. req[q].chat <= made'
    BY <1>1, <2>2 DEF Spares, ChatIds
  <2> QED BY <2>2, <2>3 DEF LeaverOK, Spares
<1>6. FreeOK(q)'
  <2>1. SUFFICES ASSUME At(q, "secret", "insert"), "secret" \notin raced', NEW c \in ChatIds,
                        chat'[c].kind = "secret", chat'[c].members = req[q].whom
                 PROVE  FALSE
    BY DEF FreeOK, Shared, At
  <2>2. Shared(req[q].whom) = {} /\ req[q].op = "secret"
    BY <2>1 DEF RequestOK, FreeOK, At
  <2>3. Cardinality(req[q].whom) = 2
    <3>1. PICK v \in Users \ {Owner[q]} : req[q].whom = {Owner[q], v}
      BY <2>2 DEF RequestOK, CoupleOK
    <3>2. Owner[q] # v
      BY <3>1
    <3>3. Cardinality({Owner[q], v}) = 2
      BY <3>2, TwoOfThem
    <3> QED BY <3>1, <3>3
  <2>4. chat[c].kind = "secret" /\ chat[c].members = req[q].whom
    BY <2>1, <2>2, <2>3 DEF Spares
  <2> QED BY <2>2, <2>4 DEF Shared
<1>7. RoomOK(q)'
  <2>1. SUFFICES ASSUME At(q, "add", "insert"), chat'[req[q].chat] # Gone, "add" \notin raced'
                 PROVE  Cardinality(chat'[req[q].chat].members) < MaxMembers
    BY DEF RoomOK, At, Live
  <2> DEFINE c == req[q].chat
  <2>2. c \in ChatIds /\ c <= made /\ req[q].op = "add"
    BY <1>2, <2>1 DEF RequestOK, AdderOK, At
  <2>3. chat[c] # Gone /\ chat'[c].members \subseteq chat[c].members
    BY <2>1, <2>2 DEF Spares
  <2>4. Cardinality(chat[c].members) < MaxMembers
    BY <2>1, <2>3 DEF RequestOK, RoomOK, Live
  <2>5. chat[c].members \in SUBSET Users
    BY <1>1, <2>2, MembersTypes
  <2>6. Cardinality(chat[c].members) \in Nat /\ Cardinality(chat'[c].members) \in Nat
        /\ Cardinality(chat'[c].members) <= Cardinality(chat[c].members) /\ MaxMembers \in Nat
    BY <2>3, <2>5, Fewer, Counted DEF ChatsAssumption
  <2> QED BY <2>4, <2>6
<1>8. ThereOK(q)'
  <2>1. SUFFICES ASSUME At(q, "leave", "commit"), req[q].whom # {}
                 PROVE  ThereOK(q)'
    BY DEF ThereOK, At
  <2> DEFINE c == req[q].chat
  <2>2. c \in ChatIds /\ c <= made /\ req[q].op = "leave"
    BY <1>2, <2>1 DEF RequestOK, LeaverOK, At
  <2>3. Owner[q] \notin req[q].whom /\ (chat[c] # Gone => req[q].whom \subseteq chat[c].members \/ "leave" \in raced)
    BY <2>1 DEF RequestOK, ThereOK, Live
  <2>4. chat'[c] # Gone => req[q].whom \subseteq chat'[c].members \/ "leave" \in raced'
    BY <2>2, <2>3 DEF Spares
  <2> QED BY <2>3, <2>4 DEF ThereOK, Live
<1> QED BY <1>3, <1>4, <1>5, <1>6, <1>7, <1>8 DEF RequestOK

LEMMA StaysSpares ==
  ASSUME ChatsAssumption, TableOK, UNCHANGED <<chat, made>>, NEW op
  PROVE  Spares(op)
BY DEF Spares, TableOK, ChatsAssumption

LEMMA InsertsSpares ==
  ASSUME ChatsAssumption, TableOK, NEW row \in ChatRow, Inserts(row), NEW op,
         row.kind = "secret" /\ op = "secret" => "secret" \in raced'
  PROVE  Spares(op)
<1>1. made \in Nat /\ made' = made + 1 /\ made + 1 \in ChatIds
  <2>1. made + 1 \in ChatIds
    BY InsertsTypes
  <2> QED BY <2>1 DEF Inserts, TableOK, ChatsAssumption
<1>2. chat'[made + 1] = row /\ \A c \in ChatIds \ {made + 1} : chat'[c] = chat[c]
  BY <1>1 DEF Inserts, TableOK
<1>3. \A c \in ChatIds : c <= made => c # made + 1
  BY <1>1 DEF ChatIds
<1>4. \A c \in ChatIds : c <= made => chat'[c] = chat[c]
  BY <1>2, <1>3
<1>5. ASSUME op = "secret", "secret" \notin raced', NEW c \in ChatIds, chat'[c].kind = "secret"
      PROVE  chat'[c] = chat[c]
  BY <1>2, <1>5
<1>6. made <= made'
  BY <1>1
<1> QED BY <1>4, <1>5, <1>6 DEF Spares

LEMMA DeletesSpares ==
  ASSUME ChatsAssumption, TableOK, NEW d \in ChatIds, Deletes(d), UNCHANGED made, NEW op
  PROVE  Spares(op)
<1>1. chat'[d] = Gone /\ \A c \in ChatIds \ {d} : chat'[c] = chat[c]
  BY DEF Deletes, TableOK
<1>2. Gone.pair = {} /\ Gone.kind # "secret"
  BY DEF Gone
<1> QED BY <1>1, <1>2 DEF Spares, TableOK, ChatsAssumption

LEMMA KeepsSpares ==
  ASSUME ChatsAssumption, TableOK, NEW d \in ChatIds, NEW row, chat' = [chat EXCEPT ![d] = row],
         UNCHANGED made, chat[d] # Gone, row.kind = chat[d].kind, row.members = chat[d].members,
         row.pair = chat[d].pair, NEW op
  PROVE  Spares(op)
<1>1. chat'[d] = row /\ \A c \in ChatIds \ {d} : chat'[c] = chat[c]
  BY DEF TableOK
<1> QED BY <1>1 DEF Spares, TableOK, ChatsAssumption

LEMMA AddsSpares ==
  ASSUME ChatsAssumption, TableOK, SharingOK, NEW d \in ChatIds, NEW v \in Users, NEW row,
         chat' = [chat EXCEPT ![d] = row], UNCHANGED made, chat[d] # Gone, chat[d].kind = "group",
         row.kind = "group", row.members = chat[d].members \cup {v}, row.pair = chat[d].pair,
         NEW op, op = "add" => "add" \in raced'
  PROVE  Spares(op)
<1>1. chat'[d] = row /\ \A c \in ChatIds \ {d} : chat'[c] = chat[c]
  BY DEF TableOK
<1>2. chat[d].pair = {}
  BY DEF SharingOK, RowOK
<1> QED BY <1>1, <1>2 DEF Spares, TableOK, ChatsAssumption

LEMMA ShrinksSpares ==
  ASSUME ChatsAssumption, TableOK, SharingOK, NEW d \in ChatIds, NEW u, NEW row,
         chat' = [chat EXCEPT ![d] = row], UNCHANGED made, chat[d] # Gone, row.kind = chat[d].kind,
         row.pair = {}, row.members = chat[d].members \ {u},
         NEW op, op = "leave" => "leave" \in raced'
  PROVE  Spares(op)
<1>1. chat'[d] = row /\ \A c \in ChatIds \ {d} : chat'[c] = chat[c]
  BY DEF TableOK
<1>2. ASSUME row.kind = "secret", Cardinality(row.members) = 2
      PROVE  row.members = chat[d].members
  <2>1. \E a, b \in Users : chat[d].members \subseteq {a, b}
    BY <1>2 DEF SharingOK, RowOK
  <2>2. Cardinality(chat[d].members \ {u}) = 2
    BY <1>2
  <2>3. chat[d].members \ {u} = chat[d].members
    BY <2>1, <2>2, BothStay
  <2> QED BY <2>3
<1> QED BY <1>1, <1>2 DEF Spares, TableOK, ChatsAssumption

-----------------------------------------------------------------------------
\* The requests themselves.

\* A handler that is past its check rests on it no longer.
LEMMA ThroughWithIt ==
  ASSUME NEW p \in Pages, RequestOK(p), req'[p].op = req[p].op, req'[p].whom = req[p].whom,
         req'[p].step \notin {"insert", "commit"}, req'[p].step = "delete" => req[p].op # "leave"
  PROVE  RequestOK(p)'
BY DEF RequestOK, CoupleOK, AdderOK, LeaverOK, FreeOK, RoomOK, ThereOK, At

\* Whoever asks notices who is at the same.
LEMMA OverlapsNoticed ==
  ASSUME ChatsInv, OverlapsKnown, NEW p \in Pages, NEW op, NEW c, NEW whom, NEW timer, NEW step,
         Asks(p, op, c, whom, timer, step)
  PROVE  OverlapsKnown' /\ raced \subseteq raced'
<1>1. /\ req'[p].op = op /\ \A q \in Pages \ {p} : req'[q] = req[q]
      /\ raced \subseteq raced'
      /\ (\E q \in Pages : req[q].op = op) => op \in raced'
  BY DEF Asks, ChatsInv, ChatsTypeOK
<1>2. ASSUME NEW a \in Pages, NEW b \in Pages, a # b, req'[a].op = req'[b].op, req'[a].op # "none"
      PROVE  req'[a].op \in raced'
  <2>1. CASE a = p
    BY <1>1, <1>2, <2>1
  <2>2. CASE b = p
    BY <1>1, <1>2, <2>2
  <2>3. CASE a # p /\ b # p
    BY <1>1, <1>2, <2>3 DEF OverlapsKnown
  <2> QED BY <2>1, <2>2, <2>3
<1> QED BY <1>1, <1>2 DEF OverlapsKnown

\* Nobody else's request is touched, and what is done to the chats spares it.
LEMMA OthersStillSo ==
  ASSUME ChatsAssumption, SharingInv, ChatsInv', NEW p \in Pages,
         \A q \in Pages \ {p} : req'[q] = req[q] /\ Spares(req[q].op),
         raced \subseteq raced', SharingOK', OverlapsKnown', RequestOK(p)'
  PROVE  SharingInv'
<1>1. TableOK'
  BY DEF ChatsInv, ChatsTypeOK, TableOK
<1>2. \A q \in Pages \ {p} : RequestOK(q)'
  BY <1>1, StillSo DEF SharingInv
<1> QED BY <1>2 DEF SharingInv

\* What pages ask for.
LEMMA WishSharing ==
  ASSUME ChatsAssumption, SharingInv, ChatsInv', NEW p \in Pages, Wishes(p, Users, ChatIds, Users)
  PROVE  SharingInv'
<1>1. /\ ChatsInv /\ TableOK /\ SharingOK /\ OverlapsKnown /\ Owner[p] \in Users
      /\ MaxMembers \in Nat \ {0, 1}
  BY DEF SharingInv, ChatsInv, ChatsTypeOK, TableOK, ChatsAssumption
<1>2. ASSUME NEW op, NEW c, NEW whom, NEW timer, NEW step, Asks(p, op, c, whom, timer, step),
             UNCHANGED <<chat, made>>, RequestOK(p)'
      PROVE  SharingInv'
  <2>1. \A q \in Pages \ {p} : req'[q] = req[q]
    BY <1>1, <1>2 DEF Asks, ChatsInv, ChatsTypeOK
  <2>2. OverlapsKnown' /\ raced \subseteq raced'
    BY <1>1, <1>2, OverlapsNoticed
  <2>3. SharingOK'
    BY <1>1, <1>2, <2>2, SharingStays
  <2>4. \A q \in Pages \ {p} : Spares(req[q].op)
    BY <1>1, <1>2, StaysSpares
  <2> QED BY <1>2, <2>1, <2>2, <2>3, <2>4, OthersStillSo
<1>3. ASSUME NEW op, NEW c, NEW whom, NEW timer, NEW step, Asks(p, op, c, whom, timer, step)
      PROVE  req'[p].op = op /\ req'[p].chat = c /\ req'[p].whom = whom /\ req'[p].step = step
  BY <1>1, <1>3 DEF Asks, ChatsInv, ChatsTypeOK
<1>4. ASSUME NEW op, NEW c, NEW whom, NEW timer, NEW step, Asks(p, op, c, whom, timer, step),
             op \notin {"direct", "secret"}, step \notin {"insert", "commit"},
             step = "delete" => op # "leave"
      PROVE  RequestOK(p)'
  BY <1>3, <1>4 DEF RequestOK, CoupleOK, AdderOK, LeaverOK, FreeOK, RoomOK, ThereOK, At
<1>5. ASSUME NEW v \in Users, CreateDirect(p, v) PROVE SharingInv'
  <2>1. v \in Users \ {Owner[p]} /\ UNCHANGED <<chat, made>>
    BY <1>5 DEF CreateDirect
  <2>2. PICK c, step : Asks(p, "direct", c, {Owner[p], v}, 0, step)
    BY <1>5 DEF CreateDirect
  <2>3. RequestOK(p)'
    BY <1>3, <2>1, <2>2 DEF RequestOK, CoupleOK, AdderOK, LeaverOK, FreeOK, RoomOK, ThereOK, At
  <2> QED BY <1>2, <2>1, <2>2, <2>3
<1>6. ASSUME NEW v \in Users, StartSecret(p, v) PROVE SharingInv'
  <2>1. v \in Users \ {Owner[p]} /\ UNCHANGED <<chat, made>>
    BY <1>6 DEF StartSecret
  <2>2. PICK c, step : /\ Asks(p, "secret", c, {Owner[p], v}, 0, step)
                       /\ step = "insert" => Shared({Owner[p], v}) = {}
    BY <1>6 DEF StartSecret
  <2>3. Shared({Owner[p], v})' = Shared({Owner[p], v})
    BY <2>1 DEF Shared
  <2>4. RequestOK(p)'
    BY <1>3, <2>1, <2>2, <2>3 DEF RequestOK, CoupleOK, AdderOK, LeaverOK, FreeOK, RoomOK, ThereOK, At
  <2> QED BY <1>2, <2>1, <2>2, <2>4
<1>7. ASSUME NEW others \in SUBSET Users, CreateGroup(p, others \cup {Owner[p]}) PROVE SharingInv'
  <2> DEFINE members == others \cup {Owner[p]}
             row == GroupRow(members)
  <2>1. /\ Inserts(row) /\ Asks(p, "group", made + 1, members, 0, "done")
        /\ Cardinality(members) \in 2 .. MaxMembers
    BY <1>7 DEF CreateGroup
  <2>2. /\ row \in ChatRow /\ row.members = members /\ row.kind = "group" /\ row.pair = {}
    <3>1. members \in SUBSET Users
      BY <1>1
    <3> QED BY <3>1, RowTypes DEF GroupRow, DirectRow
  <2>3. \A q \in Pages \ {p} : req'[q] = req[q]
    BY <1>1, <2>1 DEF Asks, ChatsInv, ChatsTypeOK
  <2>4. OverlapsKnown' /\ raced \subseteq raced'
    BY <1>1, <2>1, OverlapsNoticed
  <2>5. row.members # {} /\ Cardinality(row.members) <= MaxMembers
    BY <1>1, <2>1, <2>2
  <2> HIDE DEF row
  <2>6. SharingOK'
    BY <1>1, <2>1, <2>2, <2>4, <2>5, SharingInserts
  <2>7. \A q \in Pages \ {p} : Spares(req[q].op)
    BY <1>1, <2>1, <2>2, InsertsSpares
  <2>8. RequestOK(p)'
    BY <1>4, <2>1
  <2> QED BY <2>3, <2>4, <2>6, <2>7, <2>8, OthersStillSo
<1>8. ASSUME NEW c \in ChatIds, Accept(p, c) \/ Reject(p, c) \/ Destroy(p, c) \/ Purge(p, c)
      PROVE  SharingInv'
  <2>1. CASE Accept(p, c)
    BY <1>2, <1>4, <2>1 DEF Accept
  <2>2. CASE Reject(p, c)
    BY <1>2, <1>4, <2>2 DEF Reject
  <2>3. CASE Destroy(p, c)
    BY <1>2, <1>4, <2>3 DEF Destroy
  <2>4. CASE Purge(p, c)
    BY <1>2, <1>4, <2>4 DEF Purge
  <2> QED BY <1>8, <2>1, <2>2, <2>3, <2>4
<1>9. ASSUME NEW c \in ChatIds, NEW seconds \in Timers, SetTimer(p, c, seconds) PROVE SharingInv'
  <2>1. UNCHANGED <<chat, made>>
    BY <1>9 DEF SetTimer
  <2>2. PICK step \in {"update", "error"} : Asks(p, "timer", c, {}, seconds, step)
    BY <1>9 DEF SetTimer
  <2> QED BY <1>2, <1>4, <2>1, <2>2
<1>10. ASSUME NEW c \in ChatIds, Leave(p, c) PROVE SharingInv'
  <2>1. UNCHANGED <<chat, made>>
    BY <1>10 DEF Leave
  <2>2. PICK step \in {"delete", "error"} : /\ Asks(p, "leave", c, {}, 0, step)
                                            /\ step = "delete" => IsMember(p, c)
    BY <1>10 DEF Leave
  <2>3. IsMember(p, c) => c <= made
    BY <1>1 DEF IsMember, TableOK, Gone, ChatIds, ChatsAssumption
  <2>4. RequestOK(p)'
    BY <1>3, <2>1, <2>2, <2>3
       DEF RequestOK, CoupleOK, AdderOK, LeaverOK, FreeOK, RoomOK, ThereOK, At, IsMember
  <2> QED BY <1>2, <2>1, <2>2, <2>4
<1>11. ASSUME NEW c \in ChatIds, NEW v \in Users, AddMember(p, c, v) PROVE SharingInv'
  <2>1. UNCHANGED <<chat, made>>
    BY <1>11 DEF AddMember
  <2>2. PICK step \in {"insert", "error"} :
          /\ Asks(p, "add", c, {v}, 0, step)
          /\ step = "insert" => /\ IsMember(p, c) /\ chat[c].kind = "group"
                                /\ Cardinality(chat[c].members) < MaxMembers
    BY <1>11 DEF AddMember
  <2>3. IsMember(p, c) => c <= made
    BY <1>1 DEF IsMember, TableOK, Gone, ChatIds, ChatsAssumption
  <2>4. RequestOK(p)'
    BY <1>3, <2>1, <2>2, <2>3
       DEF RequestOK, CoupleOK, AdderOK, LeaverOK, FreeOK, RoomOK, ThereOK, At, Live
  <2> QED BY <1>2, <2>1, <2>2, <2>4
<1> QED BY <1>5, <1>6, <1>7, <1>8, <1>9, <1>10, <1>11 DEF Wishes

\* What their handlers do.
LEMMA HandlerSharing ==
  ASSUME ChatsAssumption, SharingInv, ChatsInv', NEW p \in Pages, Handles(p)
  PROVE  SharingInv'
<1> DEFINE r == req[p]  c == r.chat
<1>1. /\ ChatsInv /\ TableOK /\ SharingOK /\ OverlapsKnown /\ Owner[p] \in Users
      /\ RequestOK(p) /\ MaxMembers \in Nat \ {0, 1}
  BY DEF SharingInv, ChatsInv, ChatsTypeOK, TableOK, ChatsAssumption
<1>2. ASSUME NEW op, NEW step, op # "none", At(p, op, step)
      PROVE  /\ r \in Request /\ r.op = op /\ r.step = step
             /\ op \in About => c \in ChatIds
             /\ chat \in [ChatIds -> ChatRow \cup {Gone}]
  BY <1>1, <1>2 DEF At, ChatsInv, ChatsTypeOK, Idle, Aimed
\* The request goes on, past its check, and the chats are as they should be.
<1>3a. ASSUME r \in Request, \A q \in Pages \ {p} : req'[q] = req[q],
              req'[p].op = r.op, req'[p].whom = r.whom, UNCHANGED raced,
              req'[p].step \notin {"insert", "commit"}, req'[p].step = "delete" => r.op # "leave",
              SharingOK', \A q \in Pages \ {p} : Spares(req[q].op)
       PROVE  SharingInv'
  <2>1. OverlapsKnown'
    <3>1. \A q \in Pages : req'[q].op = req[q].op
      BY <1>3a
    <3> QED BY <1>1, <1>3a, <3>1 DEF OverlapsKnown
  <2>2. RequestOK(p)'
    BY <1>1, <1>3a, ThroughWithIt
  <2> QED BY <1>3a, <2>1, <2>2, OthersStillSo
<1>3b. ASSUME r \in Request, NEW step, NEW e, GoesOn(p, step, e), UNCHANGED raced,
              step \in {"done", "announce"},
              SharingOK', \A q \in Pages \ {p} : Spares(req[q].op)
       PROVE  SharingInv'
  <2>1. /\ req'[p].op = r.op /\ req'[p].whom = r.whom /\ req'[p].step = step
        /\ \A q \in Pages \ {p} : req'[q] = req[q]
    BY <1>1, <1>3b DEF GoesOn, ChatsInv, ChatsTypeOK, Request
  <2> QED BY <1>3a, <1>3b, <2>1
<1>3. ASSUME r \in Request, NEW step, Goes(p, step), UNCHANGED raced,
             step \notin {"insert", "commit"}, step = "delete" => r.op # "leave",
             SharingOK', \A q \in Pages \ {p} : Spares(req[q].op)
      PROVE  SharingInv'
  <2>1. /\ req'[p].op = r.op /\ req'[p].whom = r.whom /\ req'[p].step = step
        /\ \A q \in Pages \ {p} : req'[q] = req[q]
    BY <1>1, <1>3 DEF Goes, ChatsInv, ChatsTypeOK, Request
  <2> QED BY <1>3a, <1>3, <2>1
<1>4. ASSUME UNCHANGED <<chat, made, raced>>
      PROVE  SharingOK' /\ \A q \in Pages \ {p} : Spares(req[q].op)
  BY <1>1, <1>4, SharingStays, StaysSpares
<1>5. ASSUME NEW d \in ChatIds, Deletes(d), UNCHANGED <<made, raced>>
      PROVE  SharingOK' /\ \A q \in Pages \ {p} : Spares(req[q].op)
  BY <1>1, <1>5, SharingDeletes, DeletesSpares
<1>6. ASSUME NEW d \in ChatIds, NEW row, chat' = [chat EXCEPT ![d] = row], chat[d] # Gone,
             row.kind = chat[d].kind, row.members = chat[d].members, row.pair = chat[d].pair,
             UNCHANGED <<made, raced>>
      PROVE  SharingOK' /\ \A q \in Pages \ {p} : Spares(req[q].op)
  BY <1>1, <1>6, SharingKeeps, KeepsSpares
\* Whoever is at the same is known.
<1>7. \A q \in Pages \ {p} : req[q].op = r.op /\ r.op # "none" => r.op \in raced
  BY <1>1 DEF OverlapsKnown
<1>8. CASE DirectInsert(p)
  <2>1. r \in Request /\ r.op = "direct" /\ r.whom \in SUBSET Users
    BY <1>2, <1>8 DEF DirectInsert, Request
  <2>2. CASE Claimed(r.whom) = {} /\ Inserts(DirectRow(r.whom)) /\ GoesOn(p, "done", made + 1)
    <3>1. PICK v \in Users \ {Owner[p]} : r.whom = {Owner[p], v}
      BY <1>1, <2>1 DEF RequestOK, CoupleOK
    <3>2. Owner[p] # v
      BY <3>1
    <3>3. Cardinality({Owner[p], v}) = 2
      BY <3>2, TwoOfThem
    <3> DEFINE row == DirectRow(r.whom)
    <3>4. /\ row \in ChatRow /\ row.kind = "direct" /\ row.members = r.whom /\ row.pair = r.whom
      BY <2>1, RowTypes DEF DirectRow
    <3>5. /\ row.members # {} /\ Cardinality(row.members) <= MaxMembers
          /\ \E a, b \in Users : row.members = {a, b}
      <4>1. row.members = {Owner[p], v}
        BY <3>1, <3>4
      <4> HIDE DEF row
      <4>2. Cardinality(row.members) = 2
        BY <3>3, <4>1
      <4> QED BY <1>1, <4>1, <4>2
    <3>9. Claimed(row.pair) = {}
      BY <2>2, <3>4
    <3>6. Inserts(row) /\ UNCHANGED raced
      BY <1>8, <2>2 DEF DirectInsert
    <3> HIDE DEF row
    <3>7. SharingOK'
      BY <1>1, <3>4, <3>5, <3>6, <3>9, SharingInserts
    <3>8. \A q \in Pages \ {p} : Spares(req[q].op)
      BY <1>1, <3>4, <3>6, InsertsSpares
    <3> QED BY <1>3b, <2>1, <2>2, <3>6, <3>7, <3>8
  <2>3. CASE Goes(p, "lost") /\ UNCHANGED <<chat, made>>
    BY <1>3, <1>4, <1>8, <2>1, <2>3 DEF DirectInsert
  <2> QED BY <1>8, <2>2, <2>3 DEF DirectInsert
<1>9. CASE DirectLost(p)
  <2>1. r \in Request
    BY <1>2, <1>9 DEF DirectLost
  <2>2. CASE \E e \in Claimed(r.whom) : GoesOn(p, "done", e)
    BY <1>3b, <1>4, <1>9, <2>1, <2>2 DEF DirectLost
  <2>3. CASE Goes(p, "error")
    BY <1>3, <1>4, <1>9, <2>1, <2>3 DEF DirectLost
  <2> QED BY <1>9, <2>2, <2>3 DEF DirectLost
<1>10. CASE AddInsert(p)
  <2>1. r \in Request /\ r.op = "add" /\ r.step = "insert" /\ c \in ChatIds
    BY <1>2, <1>10 DEF AddInsert, About
  <2>2. CASE Live(c) /\ chat' = [chat EXCEPT ![c].members = @ \cup r.whom] /\ Goes(p, "done")
    <3>1. PICK v \in Users : r.whom = {v}
      BY <1>1, <2>1 DEF RequestOK, AdderOK, At
    <3>2. /\ chat[c] # Gone /\ chat[c].kind = "group"
          /\ Cardinality(chat[c].members) < MaxMembers \/ "add" \in raced
      BY <1>1, <2>1, <2>2 DEF RequestOK, AdderOK, RoomOK, At, Live
    <3> DEFINE row == [chat[c] EXCEPT !.members = @ \cup r.whom]
    <3>3. chat' = [chat EXCEPT ![c] = row] /\ UNCHANGED <<made, raced>>
      BY <1>10, <2>2 DEF AddInsert
    <3>4. row.kind = "group" /\ row.members = chat[c].members \cup {v} /\ row.pair = chat[c].pair
      BY <1>1, <2>1, <3>1, <3>2 DEF TableOK, ChatRow
    <3> HIDE DEF row
    <3>5. SharingOK'
      BY <1>1, <2>1, <3>2, <3>3, <3>4, SharingAdds
    <3>6. \A q \in Pages \ {p} : Spares(req[q].op)
      BY <1>1, <1>7, <2>1, <3>2, <3>3, <3>4, AddsSpares
    <3> QED BY <1>3, <2>1, <2>2, <3>3, <3>5, <3>6
  <2>3. CASE Goes(p, "error") /\ UNCHANGED chat
    BY <1>3, <1>4, <1>10, <2>1, <2>3 DEF AddInsert
  <2> QED BY <1>10, <2>2, <2>3 DEF AddInsert
<1>11. CASE SecretInsert(p)
  <2>1. r \in Request /\ r.op = "secret" /\ r.step = "insert"
    BY <1>2, <1>11 DEF SecretInsert
  <2>2. PICK v \in r.whom \ {Owner[p]} : Inserts(SecretRow(Owner[p], v))
    BY <1>11 DEF SecretInsert
  <2>3. v \in Users /\ v # Owner[p] /\ r.whom = {Owner[p], v}
    BY <1>1, <2>1, <2>2 DEF RequestOK, CoupleOK
  <2>4. Cardinality({Owner[p], v}) = 2
    BY <2>3, TwoOfThem
  <2> DEFINE row == SecretRow(Owner[p], v)
  <2>5. row \in ChatRow /\ row.kind = "secret" /\ row.members = {Owner[p], v} /\ row.pair = {}
    BY <1>1, <2>3, RowTypes DEF SecretRow, DirectRow
  <2>6. Inserts(row) /\ GoesOn(p, "announce", made + 1) /\ UNCHANGED raced
    BY <1>11, <2>2 DEF SecretInsert
  <2>7. Shared(row.members) = {} \/ "secret" \in raced
    BY <1>1, <2>1, <2>3, <2>5 DEF RequestOK, FreeOK, At
  <2> HIDE DEF row
  <2>8. SharingOK'
    <3>1. row.members # {} /\ Cardinality(row.members) <= MaxMembers
          /\ \E a, b \in Users : row.members = {a, b}
      BY <1>1, <2>3, <2>4, <2>5
    <3> QED BY <1>1, <2>5, <2>6, <2>7, <3>1, SharingInserts
  <2>9. \A q \in Pages \ {p} : Spares(req[q].op)
    BY <1>1, <1>7, <2>1, <2>5, <2>6, InsertsSpares
  <2> QED BY <1>3b, <2>1, <2>6, <2>8, <2>9
<1>12. CASE AcceptUpdate(p)
  <2>1. r \in Request /\ c \in ChatIds
    BY <1>2, <1>12 DEF AcceptUpdate, About
  <2>2. CASE Pending(c) /\ chat' = [chat EXCEPT ![c].enc = TRUE] /\ Goes(p, "announce")
    <3> DEFINE row == [chat[c] EXCEPT !.enc = TRUE]
    <3>1. chat' = [chat EXCEPT ![c] = row] /\ UNCHANGED <<made, raced>>
      BY <1>12, <2>2 DEF AcceptUpdate
    <3>2. chat[c] # Gone /\ row.kind = chat[c].kind /\ row.members = chat[c].members /\ row.pair = chat[c].pair
      BY <1>1, <2>1, <2>2 DEF TableOK, ChatRow, Gone, Pending
    <3> HIDE DEF row
    <3>3. SharingOK' /\ \A q \in Pages \ {p} : Spares(req[q].op)
      BY <1>6, <2>1, <3>1, <3>2
    <3> QED BY <1>3, <2>1, <2>2, <3>1, <3>3
  <2>3. CASE Goes(p, "error") /\ UNCHANGED chat
    BY <1>3, <1>4, <1>12, <2>1, <2>3 DEF AcceptUpdate
  <2> QED BY <1>12, <2>2, <2>3 DEF AcceptUpdate
<1>13. CASE RejectDelete(p)
  <2>1. r \in Request /\ c \in ChatIds
    BY <1>2, <1>13 DEF RejectDelete, About
  <2>2. SharingOK' /\ \A q \in Pages \ {p} : Spares(req[q].op)
    BY <1>4, <1>5, <1>13, <2>1 DEF RejectDelete
  <2> QED BY <1>3, <1>13, <2>1, <2>2 DEF RejectDelete
<1>14. CASE TimerUpdate(p)
  <2>1. r \in Request /\ c \in ChatIds
    BY <1>2, <1>14 DEF TimerUpdate, About
  <2>2. CASE Live(c)
    <3> DEFINE row == [chat[c] EXCEPT !.timer = r.timer]
    <3>1. chat' = [chat EXCEPT ![c] = row] /\ UNCHANGED <<made, raced>>
      BY <1>14, <2>2 DEF TimerUpdate
    <3>2. chat[c] # Gone /\ row.kind = chat[c].kind /\ row.members = chat[c].members /\ row.pair = chat[c].pair
      BY <1>1, <2>1, <2>2 DEF TableOK, ChatRow, Live
    <3> HIDE DEF row
    <3>3. SharingOK' /\ \A q \in Pages \ {p} : Spares(req[q].op)
      BY <1>6, <2>1, <3>1, <3>2
    <3> QED BY <1>3, <1>14, <2>1, <3>3 DEF TimerUpdate
  <2>3. CASE ~Live(c)
    BY <1>3, <1>4, <1>14, <2>1, <2>3 DEF TimerUpdate
  <2> QED BY <2>2, <2>3
<1>15. CASE DestroyDelete(p)
  <2>1. r \in Request /\ c \in ChatIds
    BY <1>2, <1>15 DEF DestroyDelete, About
  <2> QED BY <1>3, <1>5, <1>15, <2>1 DEF DestroyDelete
<1>16. CASE LeaveDelete(p)
  <2>1. r \in Request /\ r.op = "leave" /\ r.step = "delete" /\ c \in ChatIds
    BY <1>2, <1>16 DEF LeaveDelete, About
  <2>2. /\ req'[p].op = "leave" /\ req'[p].step = "commit" /\ req'[p].chat = c
        /\ req'[p].whom = chat[c].members \ {Owner[p]}
        /\ \A q \in Pages \ {p} : req'[q] = req[q]
    BY <1>1, <1>16, <2>1 DEF LeaveDelete, ChatsInv, ChatsTypeOK, Request
  <2>3. UNCHANGED <<chat, made, raced>>
    BY <1>16 DEF LeaveDelete
  <2>4. OverlapsKnown'
    <3>1. \A q \in Pages : req'[q].op = req[q].op
      BY <2>1, <2>2
    <3> QED BY <1>1, <2>3, <3>1 DEF OverlapsKnown
  <2>5. RequestOK(p)'
    <3>1. LeaverOK(p)'
      BY <1>1, <2>1, <2>2, <2>3 DEF RequestOK, LeaverOK, At
    <3>2. ThereOK(p)'
      BY <2>2, <2>3 DEF ThereOK
    <3> QED BY <2>2, <3>1, <3>2 DEF RequestOK, CoupleOK, AdderOK, FreeOK, RoomOK, At
  <2> QED BY <1>4, <2>2, <2>3, <2>4, <2>5, OthersStillSo
<1>17. CASE LeaveCommit(p)
  <2>1. r \in Request /\ r.op = "leave" /\ r.step = "commit" /\ c \in ChatIds
    BY <1>2, <1>17 DEF LeaveCommit, About
  <2>2. Goes(p, "announce") /\ UNCHANGED <<made, raced>>
    BY <1>17 DEF LeaveCommit
  <2>3. CASE Deletes(c)
    BY <1>3, <1>5, <2>1, <2>2, <2>3
  <2>4. CASE r.whom # {} /\ Live(c) /\ chat' = Without(p, c)
    <3> DEFINE row == [chat[c] EXCEPT !.members = chat[c].members \ {Owner[p]}, !.pair = {}]
    <3>1. chat' = [chat EXCEPT ![c] = row]
      BY <2>4 DEF Without
    <3>2. /\ chat[c] # Gone /\ row.kind = chat[c].kind /\ row.pair = {}
          /\ row.members = chat[c].members \ {Owner[p]}
      BY <1>1, <2>1, <2>4 DEF TableOK, ChatRow, Live
    <3>3. chat[c].pair # {} => Owner[p] \in chat[c].members
      BY <1>1, <2>1 DEF RequestOK, LeaverOK, At
    <3>4. row.members # {} \/ "leave" \in raced
      BY <1>1, <2>1, <2>4, <3>2 DEF RequestOK, ThereOK, At
    <3> HIDE DEF row
    <3>5. SharingOK'
      BY <1>1, <2>1, <2>2, <3>1, <3>2, <3>3, <3>4, SharingShrinks
    <3>6. \A q \in Pages \ {p} : Spares(req[q].op)
      BY <1>1, <1>7, <2>1, <2>2, <3>1, <3>2, ShrinksSpares
    <3> QED BY <1>3, <2>1, <2>2, <3>5, <3>6
  <2>5. CASE UNCHANGED chat
    BY <1>3, <1>4, <2>1, <2>2, <2>5
  <2> QED BY <1>17, <2>3, <2>4, <2>5 DEF LeaveCommit
<1>18. CASE PurgeDelete(p)
  <2>1. r \in Request /\ c \in ChatIds
    BY <1>2, <1>18 DEF PurgeDelete, About
  <2>2. SharingOK' /\ \A q \in Pages \ {p} : Spares(req[q].op)
    BY <1>4, <1>5, <1>18, <2>1 DEF PurgeDelete
  <2> QED BY <1>3, <1>18, <2>1, <2>2 DEF PurgeDelete
<1>19. CASE Announce(p)
  <2>1. r \in Request
    BY <1>1, <1>19 DEF Announce, ChatsInv, ChatsTypeOK, Idle
  <2>2. AfterEvent(p) \in {"delete", "note", "done"} /\ (AfterEvent(p) = "delete" => r.op # "leave")
    BY DEF AfterEvent
  <2> QED BY <1>3, <1>4, <1>19, <2>1, <2>2 DEF Announce
<1>20. CASE Note(p)
  <2>1. r \in Request
    BY <1>2, <1>20 DEF Note
  <2> QED BY <1>3, <1>4, <1>20, <2>1 DEF Note
<1> QED
  BY <1>8, <1>9, <1>10, <1>11, <1>12, <1>13, <1>14, <1>15, <1>16, <1>17, <1>18, <1>19, <1>20
     DEF Handles

\* A page that has its answer asks for nothing; the rest is none of the chats' business.
LEMMA PageSharing ==
  ASSUME ChatsAssumption, SharingInv, ChatsInv', UNCHANGED <<chat, made, raced>>, NEW p \in Pages,
         \A q \in Pages \ {p} : req'[q] = req[q], req'[p] \in {req[p], Idle}
  PROVE  SharingInv'
<1>1. ChatsInv /\ TableOK /\ SharingOK /\ OverlapsKnown
  BY DEF SharingInv, ChatsInv, ChatsTypeOK, TableOK
<1>2. SharingOK'
  BY <1>1, SharingStays
<1>3. \A q \in Pages : Spares(req[q].op)
  BY <1>1, StaysSpares
<1>4. OverlapsKnown'
  <2>1. \A q \in Pages : req'[q].op \in {req[q].op, "none"}
    BY DEF Idle
  <2> QED BY <1>1, <2>1 DEF OverlapsKnown
<1>5. RequestOK(p)'
  <2>1. CASE req'[p] = req[p]
    <3>1. TableOK'
      BY DEF ChatsInv, ChatsTypeOK, TableOK
    <3> QED BY <1>1, <1>3, <2>1, <3>1, StillSo DEF SharingInv
  <2>2. CASE req'[p] = Idle
    BY <2>2 DEF Idle, RequestOK, CoupleOK, AdderOK, LeaverOK, FreeOK, RoomOK, ThereOK, At
  <2> QED BY <2>1, <2>2
<1> QED BY <1>2, <1>3, <1>4, <1>5, OthersStillSo

LEMMA SharingStep == ASSUME ChatsAssumption, SharingInv, [Next]_vars PROVE SharingInv'
<1>1. ChatsInv /\ ChatsInv'
  BY ChatsInvStep DEF SharingInv
<1>2. ASSUME NEW p \in Pages, Return(p) \/ Connect(p) \/ HangUp(p) \/ Take(p) PROVE SharingInv'
  <2>1. /\ UNCHANGED <<chat, made, raced>>
        /\ \A q \in Pages \ {p} : req'[q] = req[q]
        /\ req'[p] \in {req[p], Idle}
    BY <1>1, <1>2 DEF Return, Connect, HangUp, Take, ChatsInv, ChatsTypeOK
  <2> QED BY <1>1, <2>1, PageSharing
<1>3. CASE UNCHANGED vars
  BY <1>3, <1>1
     DEF vars, SharingInv, OverlapsKnown, SharingOK, RowOK, OneClaim, NoOrphan, OneSecret, GroupFits,
         RequestOK, CoupleOK, AdderOK, LeaverOK, FreeOK, RoomOK, ThereOK, At, Shared, Live
<1> QED BY <1>1, <1>2, <1>3, WishSharing, HandlerSharing DEF Next

LEMMA InitSharing == ASSUME ChatsAssumption, Init PROVE SharingInv
<1>1. ChatsInv /\ MaxMembers \in Nat \ {0, 1}
  BY InitTypes DEF ChatsAssumption
<1>2. OverlapsKnown /\ \A p \in Pages : RequestOK(p)
  BY DEF Init, Idle, OverlapsKnown, RequestOK, CoupleOK, AdderOK, LeaverOK, FreeOK, RoomOK, ThereOK, At
<1>3. Cardinality({}) = 0
  BY FS_EmptySet
<1>4. ASSUME chat = [c \in ChatIds |-> Gone] PROVE SharingOK
  <2>1. \A c \in ChatIds : chat[c] = Gone
    BY <1>4
  <2>2. Gone.members = {} /\ Gone.pair = {} /\ Gone.kind = "gone"
    BY DEF Gone
  <2>3. (\A c \in ChatIds : RowOK(c)) /\ OneClaim /\ OneSecret
    BY <2>1, <2>2 DEF RowOK, OneClaim, OneSecret, Shared
  <2>4. NoOrphan
    BY <2>1 DEF NoOrphan, Live
  <2>5. GroupFits
    <3>1. \A c \in ChatIds : Cardinality(chat[c].members) = 0
      BY <1>3, <2>1, <2>2
    <3> QED BY <1>1, <3>1 DEF GroupFits
  <2> QED BY <2>3, <2>4, <2>5 DEF SharingOK
<1>5. ASSUME NEW u \in Peers, NEW v \in Peers, NEW row \in Existing(u, v), u # v,
             chat = [c \in ChatIds |-> IF c = 1 THEN row ELSE Gone]
      PROVE  SharingOK
  <2>1. /\ row.members = {u, v} /\ row.pair \in {{}, {u, v}}
        /\ row.kind = "direct" => row.pair = {u, v}
        /\ row.kind # "direct" => row.pair = {}
    <3>1. row = DirectRow({u, v}) \/ row = GroupRow({u, v}) \/ row = SecretRow(u, v)
          \/ row = [SecretRow(u, v) EXCEPT !.enc = TRUE]
      BY DEF Existing
    <3>2. DirectRow({u, v}).members = {u, v} /\ DirectRow({u, v}).pair = {u, v} /\ DirectRow({u, v}).kind = "direct"
      BY DEF DirectRow
    <3>3. GroupRow({u, v}).members = {u, v} /\ GroupRow({u, v}).pair = {} /\ GroupRow({u, v}).kind = "group"
      BY DEF GroupRow, DirectRow
    <3>4. SecretRow(u, v).members = {u, v} /\ SecretRow(u, v).pair = {} /\ SecretRow(u, v).kind = "secret"
      BY DEF SecretRow, DirectRow
    <3>5. CASE row = [SecretRow(u, v) EXCEPT !.enc = TRUE]
      BY <3>5 DEF SecretRow, DirectRow
    <3> QED BY <3>1, <3>2, <3>3, <3>4, <3>5
  <2>2. Cardinality({u, v}) = 2
    BY <1>5, TwoOfThem
  <2>3. u \in Users /\ v \in Users
    BY DEF ChatsAssumption
  <2>4. Gone.members = {} /\ Gone.pair = {} /\ Gone.kind = "gone"
    BY DEF Gone
  <2>5. \A c \in ChatIds : c # 1 => chat[c] = Gone
    BY <1>5
  <2>6. \A c \in ChatIds : c = 1 => chat[c] = row
    BY <1>5
  <2>7. \A c \in ChatIds : RowOK(c)
    BY <2>1, <2>3, <2>4, <2>5, <2>6 DEF RowOK
  <2>8. OneClaim
    BY <2>4, <2>5 DEF OneClaim
  <2>9. NoOrphan
    BY <2>1, <2>5, <2>6 DEF NoOrphan, Live
  <2>10. OneSecret
    BY <2>4, <2>5 DEF OneSecret, Shared
  <2>11. GroupFits
    <3>1. \A c \in ChatIds : chat[c].members \in {{}, {u, v}}
      BY <2>1, <2>4, <2>5, <2>6
    <3>2. \A c \in ChatIds : Cardinality(chat[c].members) \in {0, 2}
      BY <1>3, <2>2, <3>1
    <3> QED BY <1>1, <3>2 DEF GroupFits
  <2> QED BY <2>7, <2>8, <2>9, <2>10, <2>11 DEF SharingOK
<1>6. SharingOK
  <2>1. CASE chat = [c \in ChatIds |-> Gone]
    BY <1>4, <2>1
  <2>2. CASE \E u, v \in Peers : \E row \in Existing(u, v) :
               u # v /\ chat = [c \in ChatIds |-> IF c = 1 THEN row ELSE Gone]
    BY <1>5, <2>2
  <2> QED BY <2>1, <2>2 DEF Init
<1> QED BY <1>1, <1>2, <1>6 DEF SharingInv

LEMMA SharingHolds == ASSUME ChatsAssumption PROVE Spec => []SharingInv
<1>1. Init => SharingInv
  BY InitSharing
<1>2. SharingInv /\ [Next]_vars => SharingInv'
  BY SharingStep
<1> QED BY <1>1, <1>2, PTL DEF Spec

\* However requests to create, leave and delete overlap, two people never have two
\* ordinary conversations with each other: whoever has left one has freed its pair
\* (chats.go:75, deletions.go:192).
THEOREM PairIsUnique == ASSUME ChatsAssumption PROVE Spec => []OnePair
<1>1. ASSUME SharingInv PROVE OnePair
  <2>1. SUFFICES ASSUME NEW c \in ChatIds, NEW e \in ChatIds,
                        chat[c].kind = "direct", chat[e].kind = "direct",
                        chat[c].members = chat[e].members, Cardinality(chat[c].members) = 2
                 PROVE  c = e
    BY DEF OnePair
  <2>2. ASSUME NEW x \in ChatIds, chat[x].kind = "direct", Cardinality(chat[x].members) = 2
        PROVE  chat[x].pair = chat[x].members /\ chat[x].pair # {}
    <3>1. chat[x].pair # {}
      <4>1. SUFFICES ASSUME chat[x].pair = {} PROVE FALSE
        OBVIOUS
      <4>2. PICK u \in Users : chat[x].members \subseteq {u}
        BY <1>1, <2>2, <4>1 DEF SharingInv, SharingOK, RowOK
      <4>3. chat[x].members \in {{}, {u}}
        BY <4>2
      <4>4. Cardinality({}) = 0 /\ Cardinality({u}) = 1
        BY FS_EmptySet, FS_Singleton
      <4> QED BY <2>2, <4>3, <4>4
    <3> QED BY <1>1, <3>1 DEF SharingInv, SharingOK, RowOK
  <2> QED BY <1>1, <2>1, <2>2 DEF SharingInv, SharingOK, OneClaim
<1> QED BY <1>1, SharingHolds, PTL

\* A chat without members is deleted with its last one, unless two people left it at
\* the same time, each counted by the other (deletions.go:207).
THEOREM NobodyIsOrphaned == ASSUME ChatsAssumption PROVE Spec => []NoOrphan
<1>1. SharingInv => NoOrphan
  BY DEF SharingInv, SharingOK
<1> QED BY <1>1, SharingHolds, PTL

\* Two people share one secret chat, unless both were looking for it when neither had
\* inserted it (e2e_request.go:151): requests one after the other cannot make two.
THEOREM SecretIsUnique == ASSUME ChatsAssumption PROVE Spec => []OneSecret
<1>1. SharingInv => OneSecret
  BY DEF SharingInv, SharingOK
<1> QED BY <1>1, SharingHolds, PTL

\* A group outgrows its limit only by people who are added at the same time
\* (chats.go:366).
THEOREM GroupsFit == ASSUME ChatsAssumption PROVE Spec => []GroupFits
<1>1. SharingInv => GroupFits
  BY DEF SharingInv, SharingOK
<1> QED BY <1>1, SharingHolds, PTL
=============================================================================
