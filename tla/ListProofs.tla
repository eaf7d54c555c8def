------------------------------ MODULE ListProofs ------------------------------
(***************************************************************************)
(* The list of conversations, for any number of pages, chats and replies   *)
(* under way: the server behaves under the pages as Chats says, what pages *)
(* hold keeps its type, and once a page has caught up its list and the     *)
(* conversation it has open are what is stored. That follows from what is  *)
(* due to each page: whatever a row does not say of its chat yet, an event *)
(* in the page's queue or a handler on its way to one will say.            *)
(***************************************************************************)
EXTENDS ChatList, ChatsProofs, SequenceTheorems

\* Types. What follows load() opens a chat that has an id, and the page that is open is
\* of a chat and shows a row of one.

FollowUps == {NoMore, ThenSecured} \cup {ThenOpen(c) : c \in ChatIds}
Fetched == [rows : Rows, next : FollowUps, old : BOOLEAN]
Opened == [id : ChatIds, row : ChatRow, was : Timers]

ShownOK ==
  /\ list \in [Pages -> Rows]
  /\ open \in [Pages -> Opened \cup {Shut}]
  /\ early \subseteq ChatIds

TrafficOK ==
  /\ loading \in [Pages -> Seq(FollowUps)]
  /\ reply \in [Pages -> Seq(Fetched)]
  /\ \A p \in Pages : Len(loading[p]) + Len(reply[p]) <= MaxLoads

\* An answer that says "done" says of which chat.
Answerable == \A p \in Pages : req[p].step = "done" => req[p].chat \in ChatIds

ListInv ==
  ChatsInv /\ Answerable /\ ShownOK /\ TrafficOK /\ faults \in 0 .. MaxFaults

LEMMA ListInvTypes == ASSUME ListInv PROVE ListTypeOK
<1>1. \A p \in Pages : \A i \in DOMAIN reply[p] : reply[p][i] \in Fetched
  <2>1. SUFFICES ASSUME NEW p \in Pages, NEW i \in DOMAIN reply[p] PROVE reply[p][i] \in Fetched
    OBVIOUS
  <2>2. reply[p] \in Seq(Fetched)
    BY DEF ListInv, TrafficOK
  <2> QED BY <2>1, <2>2
<1>2. \A p \in Pages : /\ open[p].row \in ChatRow \cup {Gone}
                       /\ open[p].id = NoChat <=> open[p].row = Gone
  <2>1. SUFFICES ASSUME NEW p \in Pages
                 PROVE  /\ open[p].row \in ChatRow \cup {Gone}
                        /\ open[p].id = NoChat <=> open[p].row = Gone
    OBVIOUS
  <2>2. CASE open[p] = Shut
    BY <2>2 DEF Shut
  <2>3. CASE open[p] \in Opened
    BY <2>3 DEF Opened, ChatIds, NoChat, ChatRow, Gone
  <2> QED BY <2>2, <2>3 DEF ListInv, ShownOK
<1>3. \A p \in Pages : \A i \in DOMAIN reply[p] : reply[p][i].rows \in Rows
  BY <1>1 DEF Fetched
<1> QED BY <1>2, <1>3 DEF ListInv, ListTypeOK, ShownOK, TrafficOK, ChatsInv

-----------------------------------------------------------------------------
\* Helpers.

LEMMA RowsTypes ==
  ASSUME ChatsInv, NEW p \in Pages
  PROVE  Selected(p) \in Rows
<1>1. SUFFICES ASSUME NEW c \in ChatIds, IsMember(p, c)
               PROVE  [chat[c] EXCEPT !.pair = {}] \in ChatRow
  BY DEF Selected, Rows
<1>2. chat[c] \in ChatRow
  BY <1>1 DEF ChatsInv, ChatsTypeOK, IsMember, Gone
<1> QED BY <1>2 DEF ChatRow

LEMMA DropTypes ==
  ASSUME NEW S, NEW s \in Seq(S), NEW i \in DOMAIN s
  PROVE  Drop(s, i) \in Seq(S) /\ Len(Drop(s, i)) = Len(s) - 1
<1> DEFINE before == SubSeq(s, 1, i - 1)
           after == SubSeq(s, i + 1, Len(s))
<1>1. Len(s) \in Nat /\ i \in 1 .. Len(s) /\ \A j \in 1 .. Len(s) : s[j] \in S
  BY LenProperties
<1>2. before \in Seq(S) /\ Len(before) = i - 1
  <2>1. \A j \in 1 .. i - 1 : s[j] \in S
    BY <1>1
  <2>2. /\ SubSeq(s, 1, i - 1) \in Seq(S)
        /\ Len(SubSeq(s, 1, i - 1)) = IF 1 <= i - 1 THEN i - 1 - 1 + 1 ELSE 0
    BY <1>1, <2>1, SubSeqProperties
  <2> QED BY <1>1, <2>2
<1>3. after \in Seq(S) /\ Len(after) = Len(s) - i
  <2>1. \A j \in i + 1 .. Len(s) : s[j] \in S
    BY <1>1
  <2>2. /\ SubSeq(s, i + 1, Len(s)) \in Seq(S)
        /\ Len(SubSeq(s, i + 1, Len(s))) = IF i + 1 <= Len(s) THEN Len(s) - (i + 1) + 1 ELSE 0
    BY <1>1, <2>1, SubSeqProperties
  <2> QED BY <1>1, <2>2
<1>4. Drop(s, i) = before \o after
  BY DEF Drop
<1> HIDE DEF before, after
<1>5. before \o after \in Seq(S) /\ Len(before \o after) = Len(before) + Len(after)
  BY <1>2, <1>3, ConcatProperties
<1> QED BY <1>1, <1>2, <1>3, <1>4, <1>5

\* Replies stay replies when they are overtaken.
LEMMA OvertakenTypes ==
  ASSUME NEW s \in Seq(Fetched), NEW i
  PROVE  /\ [j \in DOMAIN s |-> IF j < i THEN [s[j] EXCEPT !.old = TRUE] ELSE s[j]] \in Seq(Fetched)
         /\ [j \in DOMAIN s |-> [s[j] EXCEPT !.old = TRUE]] \in Seq(Fetched)
         /\ Len([j \in DOMAIN s |-> IF j < i THEN [s[j] EXCEPT !.old = TRUE] ELSE s[j]]) = Len(s)
         /\ Len([j \in DOMAIN s |-> [s[j] EXCEPT !.old = TRUE]]) = Len(s)
<1>1. Len(s) \in Nat /\ DOMAIN s = 1 .. Len(s)
  BY LenProperties
<1>2. \A j \in 1 .. Len(s) : s[j] \in Fetched
  BY LenProperties
<1>3. \A j \in 1 .. Len(s) : [s[j] EXCEPT !.old = TRUE] \in Fetched
  BY <1>2 DEF Fetched
<1>4. \A f \in [1 .. Len(s) -> Fetched] : f \in Seq(Fetched) /\ Len(f) = Len(s)
  BY <1>1, SeqDef
<1>5. [j \in 1 .. Len(s) |-> IF j < i THEN [s[j] EXCEPT !.old = TRUE] ELSE s[j]]
        \in [1 .. Len(s) -> Fetched]
  BY <1>2, <1>3
<1>6. [j \in 1 .. Len(s) |-> [s[j] EXCEPT !.old = TRUE]] \in [1 .. Len(s) -> Fetched]
  BY <1>3
<1> QED BY <1>1, <1>4, <1>5, <1>6

LEMMA LoadTypes ==
  ASSUME TrafficOK, NEW p \in Pages, NEW next \in FollowUps, Load(p, next), UNCHANGED reply
  PROVE  TrafficOK'
<1>1. loading[p] \in Seq(FollowUps)
  BY DEF TrafficOK
<1>2. Append(loading[p], next) \in Seq(FollowUps) /\ Len(Append(loading[p], next)) = Len(loading[p]) + 1
  BY <1>1
<1>3. Len(loading[p]) \in Nat /\ Len(reply[p]) \in Nat
  BY DEF TrafficOK
<1> QED BY <1>2, <1>3, ChatListAssumption DEF TrafficOK, Load, ChatListAssumption

LEMMA SameTraffic == ASSUME TrafficOK, UNCHANGED <<loading, reply>> PROVE TrafficOK'
BY DEF TrafficOK

LEMMA SameShown == ASSUME ShownOK, UNCHANGED <<list, open, early>> PROVE ShownOK'
BY DEF ShownOK

LEMMA ClosesTypes ==
  ASSUME ShownOK, NEW p \in Pages, Closes(p)
  PROVE  open' \in [Pages -> Opened \cup {Shut}]
BY DEF ShownOK, Closes

LEMMA OpensTypes ==
  ASSUME ChatsAssumption, ShownOK, NEW p \in Pages, NEW c \in ChatIds, NEW row \in ChatRow, Opens(p, c, row)
  PROVE  open' \in [Pages -> Opened \cup {Shut}] /\ early' \subseteq ChatIds
<1>1. [id |-> c, row |-> row, was |-> 0] \in Opened
  BY DEF ChatsAssumption, Opened
<1> QED BY <1>1 DEF ShownOK, Opens

\* The open conversation with its encryption or its timer changed.
LEMMA PatchedTypes ==
  ASSUME ShownOK, NEW p \in Pages, open[p] # Shut
  PROVE  /\ [open EXCEPT ![p].row.enc = TRUE] \in [Pages -> Opened \cup {Shut}]
         /\ \A seconds \in Timers :
              [open EXCEPT ![p].row.timer = seconds] \in [Pages -> Opened \cup {Shut}]
         /\ \A seconds, was \in Timers :
              /\ [open EXCEPT ![p].row.timer = seconds, ![p].was = was] \in [Pages -> Opened \cup {Shut}]
              /\ [open EXCEPT ![p].was = was, ![p].row.timer = seconds] \in [Pages -> Opened \cup {Shut}]
<1>1. open[p] \in Opened
  BY DEF ShownOK
<1>2. open[p].row \in ChatRow
  BY <1>1 DEF Opened
<1>3. [open[p].row EXCEPT !.enc = TRUE] \in ChatRow
  BY <1>2 DEF ChatRow
<1>4. \A seconds \in Timers : [open[p].row EXCEPT !.timer = seconds] \in ChatRow
  BY <1>2 DEF ChatRow
<1>5. [open[p] EXCEPT !.row = [open[p].row EXCEPT !.enc = TRUE]] \in Opened
  BY <1>1, <1>3 DEF Opened
<1>6. \A seconds \in Timers : [open[p] EXCEPT !.row = [open[p].row EXCEPT !.timer = seconds]] \in Opened
  BY <1>1, <1>4 DEF Opened
<1>7. \A seconds, was \in Timers :
        [open[p] EXCEPT !.row = [open[p].row EXCEPT !.timer = seconds], !.was = was] \in Opened
  BY <1>1, <1>4 DEF Opened
<1>8. [open EXCEPT ![p].row.enc = TRUE] \in [Pages -> Opened \cup {Shut}]
  BY <1>5 DEF ShownOK
<1>9. \A seconds \in Timers :
        [open EXCEPT ![p].row.timer = seconds] \in [Pages -> Opened \cup {Shut}]
  BY <1>6 DEF ShownOK
<1>10. ASSUME NEW seconds \in Timers, NEW was \in Timers
       PROVE  [open EXCEPT ![p].row.timer = seconds, ![p].was = was] \in [Pages -> Opened \cup {Shut}]
  BY <1>1, <1>7 DEF ShownOK, Opened
<1>11. ASSUME NEW seconds \in Timers, NEW was \in Timers
       PROVE  [open EXCEPT ![p].was = was, ![p].row.timer = seconds] \in [Pages -> Opened \cup {Shut}]
  BY <1>1, <1>7 DEF ShownOK, Opened
<1> QED BY <1>8, <1>9, <1>10, <1>11

LEMMA ContinuesTypes ==
  ASSUME ChatsAssumption, ShownOK, NEW p \in Pages, NEW next \in FollowUps, NEW rows \in Rows,
         Continues(p, next, rows)
  PROVE  open' \in [Pages -> Opened \cup {Shut}] /\ early' \subseteq ChatIds
<1>1. CASE next.then = "open" /\ rows[next.chat] # Gone
  <2>1. next.chat \in ChatIds /\ rows[next.chat] \in ChatRow
    BY <1>1 DEF FollowUps, NoMore, ThenSecured, ThenOpen, Rows
  <2>2. Opens(p, next.chat, rows[next.chat])
    BY <1>1 DEF Continues
  <2> QED BY <2>1, <2>2, OpensTypes
<1>2. CASE next.then = "secured" /\ open[p] # Shut
  <2>1. Secured(p) /\ UNCHANGED early
    BY <1>2 DEF Continues
  <2> QED BY <1>2, <2>1, PatchedTypes DEF Secured, ShownOK
<1>3. CASE UNCHANGED <<open, outdated, early>>
  BY <1>3 DEF ShownOK
<1> QED BY <1>1, <1>2, <1>3 DEF Continues

-----------------------------------------------------------------------------
\* The server under the pages.

\* What a page asks for is among what any client may ask for.
LEMMA AsksIsWish ==
  ASSUME ChatsAssumption, ChatsInv, NEW p \in Pages, AsksAnything(p)
  PROVE  Wishes(p, Users, ChatIds, Users)
<1>1. Peers \subseteq Users /\ Joiners \subseteq Users /\ 1 .. made \subseteq ChatIds
  BY DEF ChatsAssumption, ChatsInv, ChatsTypeOK, ChatIds
<1> QED BY <1>1 DEF AsksAnything, Wishes

\* The people in the conversation that is open, and the chat itself.
LEMMA OpenKnown ==
  ASSUME ShownOK, NEW p \in Pages, open[p] # Shut
  PROVE  open[p].id \in ChatIds /\ open[p].row.members \in SUBSET Users
BY DEF ShownOK, Opened, ChatRow

\* What the user of a page asks for there is among it, too.
LEMMA UserIsWish ==
  ASSUME ChatsAssumption, ShownOK, NEW p \in Pages, UserStep(p)
  PROVE  Wishes(p, Users, ChatIds, Users) \/ UNCHANGED vars
<1>1. Peers \subseteq Users /\ Owner[p] \in Users
  BY DEF ChatsAssumption
<1>2. CASE \E c \in ChatIds : OpenRow(p, c)
  BY <1>2 DEF OpenRow
<1>3. CASE Back(p)
  BY <1>3 DEF Back
<1>4. CASE Pick(p)
  <2>1. CASE \E v \in Peers : CreateDirect(p, v) \/ StartSecret(p, v)
    BY <1>1, <2>1 DEF Wishes
  <2>2. CASE \E others \in SUBSET Peers : CreateGroup(p, others \cup {Owner[p]})
    BY <1>1, <2>2 DEF Wishes
  <2> QED BY <1>4, <2>1, <2>2 DEF Pick
<1>5. CASE StartSecretHere(p)
  <2>1. open[p] # Shut
    BY <1>5 DEF StartSecretHere, Shut, Gone
  <2>2. open[p].row.members \in SUBSET Users
    BY <2>1, OpenKnown
  <2> QED BY <1>5, <2>2 DEF StartSecretHere, Wishes
<1>6. CASE AnswerHere(p)
  <2>1. open[p] # Shut
    BY <1>6 DEF AnswerHere, Shut, Gone
  <2>2. open[p].id \in ChatIds
    BY <2>1, OpenKnown
  <2> QED BY <1>6, <2>2 DEF AnswerHere, Wishes
<1>7. CASE DeleteHere(p)
  <2>1. open[p].id \in ChatIds
    BY <1>7, OpenKnown DEF DeleteHere
  <2>2. Destroy(p, open[p].id) \/ Leave(p, open[p].id)
    BY <1>7 DEF DeleteHere
  <2> QED BY <2>1, <2>2 DEF Wishes
<1>8. CASE SetTimerHere(p)
  <2>1. open[p] # Shut
    BY <1>8 DEF SetTimerHere, Shut, Gone
  <2>2. open[p].id \in ChatIds
    BY <2>1, OpenKnown
  <2>3. \E seconds \in Timers : SetTimer(p, open[p].id, seconds)
    BY <1>8 DEF SetTimerHere
  <2> QED BY <2>2, <2>3 DEF Wishes
<1> QED BY <1>2, <1>3, <1>4, <1>5, <1>6, <1>7, <1>8 DEF UserStep

\* A step of the server and the pages is a step of the server, or none.
LEMMA ListStepIsServerStep ==
  ASSUME ChatsAssumption, ChatsInv, ShownOK, [ListNext]_allVars
  PROVE  [Next]_vars
<1>1. ASSUME NEW p \in Pages, UserStep(p) PROVE [Next]_vars
  BY <1>1, UserIsWish DEF Next
<1>2. ASSUME NEW p \in Pages, PageStep(p) PROVE [Next]_vars
  <2>1. CASE Serve(p) \/ Arrive(p) \/ LoadFails(p)
    BY <2>1 DEF Serve, Arrive, LoadFails
  <2>2. CASE Hear(p) \/ Disconnect(p) \/ Reconnect(p)
    BY <2>2 DEF Hear, Disconnect, Reconnect, Next
  <2> QED BY <1>2, <2>1, <2>2 DEF PageStep
<1>3. ASSUME NEW p \in Pages, AsksAnything(p) \/ HandlerStep(p) \/ Answers(p) PROVE [Next]_vars
  BY <1>3, AsksIsWish DEF Answers, HandlerStep, Next
<1>4. CASE UNCHANGED allVars
  BY <1>4 DEF allVars
<1> QED BY <1>1, <1>2, <1>3, <1>4 DEF ListNext

-----------------------------------------------------------------------------
\* Answers name their chat.

LEMMA AnswerableStep ==
  ASSUME ChatsAssumption, ChatsInv, Answerable, [Next]_vars
  PROVE  Answerable'
<1> USE DEF Answerable
<1>0. /\ TableOK /\ Aimed /\ req \in [Pages -> Request \cup {Idle}]
      /\ 0 \in Timers
  BY DEF ChatsInv, ChatsTypeOK, TableOK, ChatsAssumption
<1>1. ASSUME UNCHANGED req PROVE Answerable'
  BY <1>1
<1>2. ASSUME NEW p \in Pages, NEW op, NEW c, NEW whom, NEW timer, NEW step,
             Asks(p, op, c, whom, timer, step), step = "done" => c \in ChatIds
      PROVE  Answerable'
  BY <1>0, <1>2 DEF Asks
<1>3. ASSUME NEW p \in Pages, NEW c, NEW step, GoesOn(p, step, c), step = "done" => c \in ChatIds
      PROVE  Answerable'
  BY <1>0, <1>3 DEF GoesOn, Request, Idle
<1>4. ASSUME NEW p \in Pages, NEW step, Goes(p, step), step = "done" => req[p].chat \in ChatIds
      PROVE  Answerable'
  BY <1>0, <1>4 DEF Goes, Request, Idle
<1>5. ASSUME NEW p \in Pages, Wishes(p, Users, ChatIds, Users) PROVE Answerable'
  <2>1. ASSUME NEW v \in Users, CreateDirect(p, v) PROVE Answerable'
    BY <1>2, <2>1 DEF CreateDirect, Claimed
  <2>2. ASSUME NEW v \in Users, StartSecret(p, v) PROVE Answerable'
    BY <1>2, <2>2 DEF StartSecret, Shared
  <2>3. ASSUME NEW members, CreateGroup(p, members) PROVE Answerable'
    <3>1. made + 1 \in ChatIds
      BY <1>0, <2>3 DEF CreateGroup, Inserts, TableOK, ChatIds, ChatsAssumption
    <3> QED BY <1>2, <2>3, <3>1 DEF CreateGroup
  <2>4. ASSUME NEW c \in ChatIds,
               \/ Accept(p, c) \/ Reject(p, c) \/ Destroy(p, c) \/ Leave(p, c) \/ Purge(p, c)
               \/ \E v \in Users : AddMember(p, c, v)
               \/ \E seconds \in Timers : SetTimer(p, c, seconds)
        PROVE  Answerable'
    <3>1. CASE Accept(p, c)
      BY <1>2, <3>1 DEF Accept
    <3>2. CASE Reject(p, c)
      BY <1>2, <3>2 DEF Reject
    <3>3. CASE Destroy(p, c)
      BY <1>2, <3>3 DEF Destroy
    <3>4. CASE Leave(p, c)
      BY <1>2, <3>4 DEF Leave
    <3>5. CASE Purge(p, c)
      BY <1>2, <3>5 DEF Purge
    <3>6. ASSUME NEW v \in Users, AddMember(p, c, v) PROVE Answerable'
      BY <1>2, <3>6 DEF AddMember
    <3>7. ASSUME NEW seconds \in Timers, SetTimer(p, c, seconds) PROVE Answerable'
      BY <1>2, <3>7 DEF SetTimer
    <3> QED BY <2>4, <3>1, <3>2, <3>3, <3>4, <3>5, <3>6, <3>7
  <2> QED BY <1>5, <2>1, <2>2, <2>3, <2>4 DEF Wishes
<1>6. ASSUME NEW p \in Pages, Handles(p) PROVE Answerable'
  <2>1. ASSUME NEW row, Inserts(row) PROVE made + 1 \in ChatIds
    BY <1>0, <2>1 DEF Inserts, TableOK, ChatIds, ChatsAssumption
  <2>2. CASE DirectInsert(p)
    BY <1>3, <1>4, <2>1, <2>2 DEF DirectInsert
  <2>3. CASE DirectLost(p)
    BY <1>3, <1>4, <2>3 DEF DirectLost, Claimed
  <2>4. CASE SecretInsert(p)
    <3>1. GoesOn(p, "announce", made + 1)
      BY <2>4 DEF SecretInsert
    <3> QED BY <1>3, <3>1
  <2>5. CASE LeaveDelete(p)
    BY <1>0, <2>5 DEF LeaveDelete, Request, Idle
  <2>6. CASE AddInsert(p) \/ AcceptUpdate(p) \/ RejectDelete(p) \/ TimerUpdate(p)
             \/ DestroyDelete(p) \/ LeaveCommit(p) \/ PurgeDelete(p) \/ Note(p)
    <3>1. req[p].chat \in ChatIds
      BY <1>0, <2>6 DEF AddInsert, AcceptUpdate, RejectDelete, TimerUpdate, DestroyDelete,
                        LeaveCommit, PurgeDelete, Note, At, Aimed, About
    <3>2. \E step \in Steps : Goes(p, step)
      BY <2>6 DEF AddInsert, AcceptUpdate, RejectDelete, TimerUpdate, DestroyDelete,
                  LeaveCommit, PurgeDelete, Note, Steps
    <3> QED BY <1>4, <3>1, <3>2
  <2>7. CASE Announce(p)
    <3>1. req[p].chat \in ChatIds /\ Goes(p, AfterEvent(p))
      BY <1>0, <2>7 DEF Announce, Aimed
    <3> QED BY <1>4, <3>1
  <2> QED BY <1>6, <2>2, <2>3, <2>4, <2>5, <2>6, <2>7 DEF Handles
<1>7. ASSUME NEW p \in Pages, Return(p) PROVE Answerable'
  BY <1>0, <1>7 DEF Return, Idle
<1>8. ASSUME NEW p \in Pages, Connect(p) \/ HangUp(p) \/ Take(p) PROVE Answerable'
  BY <1>1, <1>8 DEF Connect, HangUp, Take
<1>9. CASE UNCHANGED vars
  BY <1>1, <1>9 DEF vars
<1> QED BY <1>5, <1>6, <1>7, <1>8, <1>9 DEF Next

-----------------------------------------------------------------------------
\* The types, step by step.

ListPagesOK == ShownOK /\ TrafficOK /\ faults \in 0 .. MaxFaults

\* An event taken off the queue has the type of events.
LEMMA HeardTypes ==
  ASSUME ChatsInv, NEW p \in Pages, Take(p)
  PROVE  Head(inbox[p]) \in Events
BY DEF ChatsInv, ChatsTypeOK, Take

LEMMA FaultTypes ==
  ASSUME faults \in 0 .. MaxFaults, faults < MaxFaults, faults' = faults + 1
  PROVE  faults' \in 0 .. MaxFaults
BY ChatListAssumption DEF ChatListAssumption

\* One request less under way, one reply more.
LEMMA ServeTypes ==
  ASSUME ListInv, NEW p \in Pages, Serve(p)
  PROVE  ListPagesOK'
<1>0. ShownOK /\ TrafficOK /\ ChatsInv
  BY DEF ListInv
<1>1. PICK i \in DOMAIN loading[p] :
        /\ loading' = [loading EXCEPT ![p] = Drop(@, i)]
        /\ reply' = [reply EXCEPT ![p] =
             Append(@, [rows |-> Selected(p), next |-> loading[p][i], old |-> FALSE])]
  BY DEF Serve
<1> DEFINE it == [rows |-> Selected(p), next |-> loading[p][i], old |-> FALSE]
<1>2. loading[p] \in Seq(FollowUps) /\ reply[p] \in Seq(Fetched)
  BY <1>0 DEF TrafficOK
<1>3. loading[p][i] \in FollowUps
  BY <1>2
<1>4. it \in Fetched
  BY <1>0, <1>3, RowsTypes DEF Fetched
<1>5. Drop(loading[p], i) \in Seq(FollowUps) /\ Len(Drop(loading[p], i)) = Len(loading[p]) - 1
  BY <1>2, DropTypes
<1> HIDE DEF it
<1>6. Append(reply[p], it) \in Seq(Fetched) /\ Len(Append(reply[p], it)) = Len(reply[p]) + 1
  BY <1>2, <1>4, AppendProperties
<1>7. reply' = [reply EXCEPT ![p] = Append(@, it)]
  BY <1>1 DEF it
<1>8. Len(loading[p]) \in Nat /\ Len(reply[p]) \in Nat
  BY <1>2
<1>9. TrafficOK'
  <2>1. Len(Drop(loading[p], i)) + Len(Append(reply[p], it)) <= MaxLoads
    BY <1>0, <1>5, <1>6, <1>8, ChatListAssumption DEF TrafficOK, ChatListAssumption
  <2> QED BY <1>0, <1>1, <1>5, <1>6, <1>7, <2>1 DEF TrafficOK
<1>10. ShownOK'
  BY <1>0 DEF Serve, ShownOK, Doomed
<1> QED BY <1>9, <1>10 DEF Serve, ListPagesOK, ListInv

\* A reply arrives: the others may have been overtaken.
LEMMA ArriveTypes ==
  ASSUME ChatsAssumption, ListInv, NEW p \in Pages, Arrive(p)
  PROVE  ListPagesOK'
<1>0. ShownOK /\ TrafficOK
  BY DEF ListInv
<1>1. PICK i \in DOMAIN reply[p] :
        LET it == reply[p][i] IN
        /\ list' = [list EXCEPT ![p] = it.rows]
        /\ behind' = [behind EXCEPT ![p] = it.old]
        /\ reply' = [reply EXCEPT ![p] =
             Drop([j \in DOMAIN @ |-> IF j < i THEN [@[j] EXCEPT !.old = TRUE] ELSE @[j]], i)]
        /\ Continues(p, it.next, it.rows)
  BY DEF Arrive
<1> DEFINE overtaken ==
      [j \in DOMAIN reply[p] |-> IF j < i THEN [reply[p][j] EXCEPT !.old = TRUE] ELSE reply[p][j]]
<1>2. loading[p] \in Seq(FollowUps) /\ reply[p] \in Seq(Fetched)
  BY <1>0 DEF TrafficOK
<1>3. reply[p][i] \in Fetched
  BY <1>2
<1>4. reply[p][i].rows \in Rows /\ reply[p][i].next \in FollowUps
  BY <1>3 DEF Fetched
<1>5. overtaken \in Seq(Fetched) /\ Len(overtaken) = Len(reply[p])
  BY <1>2, OvertakenTypes
<1>6. reply' = [reply EXCEPT ![p] = Drop(overtaken, i)]
  BY <1>1
<1>7. i \in DOMAIN overtaken
  OBVIOUS
<1> HIDE DEF overtaken
<1>8. Drop(overtaken, i) \in Seq(Fetched) /\ Len(Drop(overtaken, i)) = Len(overtaken) - 1
  BY <1>5, <1>7, DropTypes
<1>9. Len(loading[p]) \in Nat /\ Len(reply[p]) \in Nat
  BY <1>2
<1>10. TrafficOK'
  <2>1. UNCHANGED loading
    BY DEF Arrive
  <2>2. Len(loading[p]) + Len(Drop(overtaken, i)) <= MaxLoads
    BY <1>0, <1>5, <1>8, <1>9, ChatListAssumption DEF TrafficOK, ChatListAssumption
  <2> QED BY <1>0, <1>6, <1>8, <2>1, <2>2 DEF TrafficOK
<1>11. open' \in [Pages -> Opened \cup {Shut}] /\ early' \subseteq ChatIds
  BY <1>0, <1>1, <1>4, ContinuesTypes
<1>12. list' \in [Pages -> Rows]
  BY <1>0, <1>1, <1>4 DEF ShownOK
<1> QED BY <1>10, <1>11, <1>12 DEF Arrive, ListPagesOK, ShownOK, ListInv

\* A request fails: what it was for goes on with nothing.
LEMMA LoadFailsTypes ==
  ASSUME ChatsAssumption, ListInv, NEW p \in Pages, LoadFails(p)
  PROVE  ListPagesOK'
<1>0. ShownOK /\ TrafficOK
  BY DEF ListInv
<1>1. PICK i \in DOMAIN loading[p] :
        /\ loading' = [loading EXCEPT ![p] = Drop(@, i)]
        /\ Continues(p, loading[p][i], [c \in ChatIds |-> Gone])
  BY DEF LoadFails
<1> DEFINE overtaken == [j \in DOMAIN reply[p] |-> [reply[p][j] EXCEPT !.old = TRUE]]
<1>2. loading[p] \in Seq(FollowUps) /\ reply[p] \in Seq(Fetched)
  BY <1>0 DEF TrafficOK
<1>3. loading[p][i] \in FollowUps /\ [c \in ChatIds |-> Gone] \in Rows
  BY <1>2 DEF Rows
<1>4. overtaken \in Seq(Fetched) /\ Len(overtaken) = Len(reply[p])
  BY <1>2, OvertakenTypes
<1>5. reply' = [reply EXCEPT ![p] = overtaken]
  BY DEF LoadFails
<1> HIDE DEF overtaken
<1>6. Drop(loading[p], i) \in Seq(FollowUps) /\ Len(Drop(loading[p], i)) = Len(loading[p]) - 1
  BY <1>2, DropTypes
<1>7. Len(loading[p]) \in Nat /\ Len(reply[p]) \in Nat
  BY <1>2
<1>8. TrafficOK'
  <2>1. Len(Drop(loading[p], i)) + Len(overtaken) <= MaxLoads
    BY <1>0, <1>4, <1>6, <1>7, ChatListAssumption DEF TrafficOK, ChatListAssumption
  <2> QED BY <1>0, <1>1, <1>4, <1>5, <1>6, <2>1 DEF TrafficOK
<1>9. open' \in [Pages -> Opened \cup {Shut}] /\ early' \subseteq ChatIds
  BY <1>0, <1>1, <1>3, ContinuesTypes
<1>10. faults' \in 0 .. MaxFaults
  BY FaultTypes DEF LoadFails, ListInv
<1> QED BY <1>0, <1>8, <1>9, <1>10 DEF LoadFails, ListPagesOK, ShownOK

\* An event: only a conversation that is open is patched.
LEMMA HearTypes ==
  ASSUME ChatsAssumption, ListInv, NEW p \in Pages, Hear(p)
  PROVE  ListPagesOK'
<1>0. ShownOK /\ TrafficOK /\ ChatsInv
  BY DEF ListInv
<1> DEFINE m == Head(inbox[p])
<1>1. m.chat \in ChatIds /\ m.timer \in Timers
  BY <1>0, HeardTypes DEF Hear, Events
<1>2. TrafficOK'
  <2>1. CASE Load(p, NoMore)
    <3>1. NoMore \in FollowUps /\ UNCHANGED reply
      BY DEF Hear, FollowUps
    <3> QED BY <1>0, <2>1, <3>1, LoadTypes
  <2>2. CASE NoLoad
    BY <1>0, <2>2 DEF Hear, NoLoad, TrafficOK
  <2> QED BY <2>1, <2>2 DEF Hear
<1>3. open' \in [Pages -> Opened \cup {Shut}]
  <2>1. CASE UNCHANGED open
    BY <1>0, <2>1 DEF ShownOK
  <2>2. CASE m.chat = open[p].id /\ Patch(p, m)
    <3>1. open[p] # Shut
      BY <1>1, <2>2 DEF Shut, NoChat, ChatIds
    <3>2. CASE Closes(p)
      BY <1>0, <3>2, ClosesTypes
    <3>3. CASE open' = [open EXCEPT ![p].row.enc = TRUE]
      BY <1>0, <3>1, <3>3, PatchedTypes
    <3>4. CASE open' = [open EXCEPT ![p].row.timer = m.timer]
      BY <1>0, <1>1, <3>1, <3>4, PatchedTypes
    <3>5. CASE UNCHANGED open
      BY <2>1, <3>5
    <3> QED BY <2>2, <3>2, <3>3, <3>4, <3>5 DEF Patch
  <2> QED BY <2>1, <2>2 DEF Hear
<1> QED BY <1>0, <1>2, <1>3 DEF Hear, ListPagesOK, ShownOK, ListInv

\* The answer to a request.
LEMMA AnswersTypes ==
  ASSUME ChatsAssumption, ListInv, NEW p \in Pages, Answers(p)
  PROVE  ListPagesOK'
<1>0. ShownOK /\ TrafficOK /\ ChatsInv /\ Answerable
  BY DEF ListInv
<1> DEFINE c == req[p].chat
           here == open[p].id = c
           ok == req[p].step = "done"
           op == req[p].op
<1>1. req[p] \in Request
  BY <1>0 DEF ChatsInv, ChatsTypeOK, Answers, Return, Ended, Idle
<1>2. req[p].timer \in Timers
  BY <1>1 DEF Request
<1>3. ok => c \in ChatIds
  BY <1>0 DEF Answerable
<1>4. op = "timer" => c \in ChatIds
  BY <1>0 DEF ChatsInv, Aimed, About
<1>5. c \in ChatIds /\ here => open[p] # Shut /\ open[p].was \in Timers
  <2>1. SUFFICES ASSUME c \in ChatIds, open[p].id = c PROVE open[p] # Shut /\ open[p].was \in Timers
    OBVIOUS
  <2>2. open[p] # Shut
    BY <2>1 DEF Shut, NoChat, ChatIds
  <2>3. open[p] \in Opened
    BY <1>0, <2>2 DEF ShownOK
  <2> QED BY <2>2, <2>3 DEF Opened
<1>6. NoMore \in FollowUps /\ ThenSecured \in FollowUps /\ (ok => ThenOpen(c) \in FollowUps)
  BY <1>3 DEF FollowUps
<1>7. UNCHANGED reply /\ UNCHANGED list /\ UNCHANGED early /\ UNCHANGED faults
  BY DEF Answers
<1>8. open' \in [Pages -> Opened \cup {Shut}] /\ TrafficOK'
  <2>1. ASSUME UNCHANGED open PROVE open' \in [Pages -> Opened \cup {Shut}]
    BY <1>0, <2>1 DEF ShownOK
  <2>2. ASSUME UNCHANGED loading PROVE TrafficOK'
    BY <1>0, <1>7, <2>2 DEF TrafficOK
  <2>3. ASSUME NEW next \in FollowUps, Load(p, next) PROVE TrafficOK'
    BY <1>0, <1>7, <2>3, LoadTypes
  <2>4. CASE UNCHANGED <<open, outdated, loading>>
    BY <2>1, <2>2, <2>4
  <2>5. CASE Answered(p)
    <3>1. CASE op \in {"direct", "secret"} /\ ok
      BY <1>6, <2>1, <2>3, <2>5, <3>1 DEF Answered
    <3>2. CASE op = "group"
      BY <1>6, <2>1, <2>3, <2>5, <3>2 DEF Answered
    <3>3. CASE op = "accept" /\ ok
      <4>1. /\ Load(p, ThenSecured)
            /\ open' = IF here THEN [open EXCEPT ![p].row.enc = TRUE] ELSE open
        BY <2>5, <3>3 DEF Answered
      <4>2. CASE here
        <5>1. open[p] # Shut
          BY <1>3, <1>5, <3>3, <4>2
        <5> QED BY <1>0, <1>6, <2>3, <4>1, <4>2, <5>1, PatchedTypes
      <4> QED BY <1>6, <2>1, <2>3, <4>1, <4>2
    <3>4. CASE op = "reject" /\ ok
      <4>1. Closes(p) /\ Load(p, NoMore)
        BY <2>5, <3>4 DEF Answered
      <4> QED BY <1>0, <1>6, <2>3, <4>1, ClosesTypes
    <3>5. CASE op = "timer" /\ here
      <4>1. /\ open' = [open EXCEPT ![p].was = 0,
                          ![p].row.timer = IF ok THEN req[p].timer ELSE open[p].was]
            /\ NoLoad
        BY <2>5, <3>5 DEF Answered
      <4>2. open[p] # Shut /\ open[p].was \in Timers
        BY <1>4, <1>5, <3>5
      <4>3. (IF ok THEN req[p].timer ELSE open[p].was) \in Timers /\ 0 \in Timers
        BY <1>2, <4>2 DEF ChatsAssumption
      <4>4. open' \in [Pages -> Opened \cup {Shut}]
        BY <1>0, <4>1, <4>2, <4>3, PatchedTypes
      <4> QED BY <2>2, <4>1, <4>4 DEF NoLoad
    <3>6. CASE op \in {"leave", "destroy"} /\ ~ok
      BY <1>6, <2>1, <2>3, <2>5, <3>6 DEF Answered
    <3>7. CASE NoLoad /\ UNCHANGED <<open, outdated>>
      BY <2>1, <2>2, <3>7 DEF NoLoad
    <3> QED BY <2>5, <3>1, <3>2, <3>3, <3>4, <3>5, <3>6, <3>7 DEF Answered
  <2> QED BY <2>4, <2>5 DEF Answers
<1> QED BY <1>0, <1>7, <1>8 DEF ListPagesOK, ShownOK, ListInv

\* What the user does.
LEMMA UserTypes ==
  ASSUME ChatsAssumption, ListInv, NEW p \in Pages, UserStep(p)
  PROVE  ListPagesOK'
<1>0. ShownOK /\ TrafficOK /\ faults \in 0 .. MaxFaults
  BY DEF ListInv
<1>1. CASE \E c \in ChatIds : OpenRow(p, c)
  <2>1. PICK c \in ChatIds : OpenRow(p, c)
    BY <1>1
  <2>2. list[p][c] \in ChatRow
    BY <1>0, <2>1 DEF ShownOK, Rows, OpenRow
  <2>3. open' \in [Pages -> Opened \cup {Shut}] /\ early' \subseteq ChatIds
    BY <1>0, <2>1, <2>2, OpensTypes DEF OpenRow
  <2> QED BY <1>0, <2>1, <2>3, SameTraffic DEF OpenRow, ListPagesOK, ShownOK
<1>2. CASE Back(p)
  <2>1. open' \in [Pages -> Opened \cup {Shut}]
    BY <1>0, <1>2, ClosesTypes DEF Back
  <2>2. TrafficOK'
    BY <1>0, <1>2, LoadTypes DEF Back, FollowUps
  <2> QED BY <1>0, <1>2, <2>1, <2>2 DEF Back, ListPagesOK, ShownOK
<1>3. CASE Pick(p) \/ StartSecretHere(p) \/ AnswerHere(p)
  <2>1. UNCHANGED pageVars
    BY <1>3 DEF Pick, StartSecretHere, AnswerHere
  <2> QED BY <1>0, <2>1, SameTraffic, SameShown DEF pageVars, ListPagesOK
<1>4. CASE DeleteHere(p)
  <2>1. open' \in [Pages -> Opened \cup {Shut}]
    BY <1>0, <1>4, ClosesTypes DEF DeleteHere
  <2>2. list[p] \in Rows /\ open[p].id \in ChatIds
    BY <1>0, <1>4, OpenKnown DEF ShownOK, DeleteHere
  <2>3. [list[p] EXCEPT ![open[p].id] = Gone] \in Rows
    BY <2>2 DEF Rows
  <2>4. list' \in [Pages -> Rows]
    BY <1>0, <1>4, <2>3 DEF ShownOK, DeleteHere
  <2> QED BY <1>0, <1>4, <2>1, <2>4, SameTraffic DEF DeleteHere, ListPagesOK, ShownOK
<1>5. CASE SetTimerHere(p)
  <2>1. PICK seconds \in Timers :
          open' = [open EXCEPT ![p].row.timer = seconds, ![p].was = open[p].row.timer]
    BY <1>5 DEF SetTimerHere
  <2>2. open[p] # Shut
    BY <1>5 DEF SetTimerHere, Shut, Gone
  <2>3. open[p].row.timer \in Timers
    BY <1>0, <2>2 DEF ShownOK, Opened, ChatRow
  <2>4. open' \in [Pages -> Opened \cup {Shut}]
    BY <1>0, <2>1, <2>2, <2>3, PatchedTypes
  <2> QED BY <1>0, <1>5, <2>4, SameTraffic DEF SetTimerHere, ListPagesOK, ShownOK
<1> QED BY <1>1, <1>2, <1>3, <1>4, <1>5 DEF UserStep

LEMMA ListPagesStep ==
  ASSUME ChatsAssumption, ListInv, [ListNext]_allVars
  PROVE  ListPagesOK'
<1>0. ShownOK /\ TrafficOK /\ faults \in 0 .. MaxFaults
  BY DEF ListInv
<1>1. ASSUME UNCHANGED pageVars PROVE ListPagesOK'
  BY <1>0, <1>1, SameTraffic, SameShown DEF pageVars, ListPagesOK
<1>2. ASSUME NEW p \in Pages, PageStep(p) PROVE ListPagesOK'
  <2>1. CASE Disconnect(p)
    BY <1>0, <2>1, SameTraffic, SameShown, FaultTypes DEF Disconnect, ListPagesOK
  <2>2. CASE Reconnect(p)
    <3>1. TrafficOK'
      BY <1>0, <2>2, LoadTypes DEF Reconnect, FollowUps
    <3> QED BY <1>0, <2>2, <3>1, SameShown DEF Reconnect, ListPagesOK
  <2> QED BY <1>2, <2>1, <2>2, ServeTypes, ArriveTypes, LoadFailsTypes, HearTypes DEF PageStep
<1>3. CASE UNCHANGED allVars
  BY <1>1, <1>3 DEF allVars
<1>4. ASSUME NEW p \in Pages, HandlerStep(p) PROVE ListPagesOK'
  BY <1>0, <1>4, SameTraffic DEF HandlerStep, JoinedLate, ShownOK, ListPagesOK
<1> QED BY <1>1, <1>2, <1>3, <1>4, UserTypes, AnswersTypes DEF ListNext

LEMMA ListInvStep ==
  ASSUME ChatsAssumption, ListInv, [ListNext]_allVars
  PROVE  ListInv'
<1>1. [Next]_vars
  BY ListStepIsServerStep DEF ListInv
<1>2. ChatsInv' /\ Answerable'
  BY <1>1, ChatsInvStep, AnswerableStep DEF ListInv
<1> QED BY <1>2, ListPagesStep DEF ListInv, ListPagesOK

LEMMA ListInitInv == ASSUME ChatsAssumption, ListInit PROVE ListInv
<1>1. ChatsInv
  BY InitTypes DEF ListInit
<1>2. Answerable
  BY DEF ListInit, Init, Answerable, Idle
<1>3. ShownOK
  BY DEF ListInit, ShownOK, Rows
<1>4. TrafficOK
  <2>1. << >> \in Seq(FollowUps) /\ << >> \in Seq(Fetched) /\ <<NoMore>> \in Seq(FollowUps)
    BY DEF FollowUps
  <2>2. Len(<< >>) = 0 /\ Len(<<NoMore>>) = 1
    OBVIOUS
  <2> QED BY <2>1, <2>2, ChatListAssumption DEF ListInit, TrafficOK, ChatListAssumption
<1> QED BY <1>1, <1>2, <1>3, <1>4 DEF ListInit, ListInv

LEMMA ListInvHolds == ASSUME ChatsAssumption PROVE ListSpec => []ListInv
<1>1. ListInit => ListInv
  BY ListInitInv
<1>2. ListInv /\ [ListNext]_allVars => ListInv'
  BY ListInvStep
<1> QED BY <1>1, <1>2, PTL DEF ListSpec

\* Whatever pages show, patch and ask for, the server behaves as Chats says (ChatList.js on
\* top of handlers/chats.go): what is proved of Chats, who shares a chat with whom and that
\* encryption once agreed on is kept, holds under the pages.
THEOREM ListUsesChats == ASSUME ChatsAssumption PROVE ListSpec => Spec
<1>1. ListInit => Init
  BY DEF ListInit
<1>2. ListInv /\ [ListNext]_allVars => [Next]_vars
  BY ListStepIsServerStep DEF ListInv
<1> QED BY <1>1, <1>2, ListInvHolds, PTL DEF ListSpec, Spec

\* The rows of a page are rows of chats, what it has open is of a chat and never half of
\* one, and requests for the list stay within their bound (ChatList.js:142, 355).
THEOREM ListTypes == ASSUME ChatsAssumption PROVE ListSpec => []ListTypeOK
<1>1. ListInv => ListTypeOK
  BY ListInvTypes
<1> QED BY <1>1, ListInvHolds, PTL

-----------------------------------------------------------------------------
\* What pages show is true.
\*
\* What is known of requests besides their types: a handler that has told of a chat knows
\* what it did to it, unless the chat is gone.
AskedOK(q) ==
  LET c == req[q].chat IN
  /\ req[q].step # "error" => c <= made
  /\ req[q].op = "accept" /\ req[q].step \in {"announce", "done"} /\ Live(c) => chat[c].enc
  /\ req[q].op = "timer" /\ req[q].step # "error" /\ Live(c) =>
       /\ chat[c].kind = "secret"
       /\ req[q].step \in {"announce", "note", "done"} =>
            chat[c].timer = req[q].timer \/ "timer" \in raced
  /\ req[q].op \in {"destroy", "reject"} /\ req[q].step \in {"announce", "delete"} =>
       chat[c].kind # "group"

\* Ordinary conversations have neither encryption nor a timer.
Plain(row) == ~row.enc /\ row.timer = 0
PlainOK == \A c \in ChatIds : chat[c].kind # "secret" => Plain(chat[c])

\* An event is about a chat that was made, and says what has happened to it.
EventOK(m) ==
  /\ m.chat <= made
  /\ m.type = "e2e_accepted" /\ Live(m.chat) => chat[m.chat].enc
  /\ m.type = "timer" /\ Live(m.chat) => chat[m.chat].kind = "secret"
EventsOK == \A p \in Pages : \A i \in DOMAIN inbox[p] : EventOK(inbox[p][i])

ServerOK ==
  /\ SharingInv /\ PlainOK /\ EventsOK
  /\ \A q \in Pages : AskedOK(q)

\* What no step does to a chat that there is.
Moves ==
  /\ made <= made' /\ raced \subseteq raced'
  /\ \A c \in ChatIds : c <= made /\ chat'[c] # Gone =>
       /\ chat[c] # Gone /\ chat'[c].kind = chat[c].kind
       /\ chat[c].enc => chat'[c].enc
       /\ chat'[c].kind # "group" => chat'[c].members \subseteq chat[c].members

-----------------------------------------------------------------------------
\* The request of one page changes.

LEMMA GoesFields ==
  ASSUME ChatsInv, NEW p \in Pages, NEW step, req[p].op # "none", Goes(p, step)
  PROVE  /\ req'[p].op = req[p].op /\ req'[p].chat = req[p].chat /\ req'[p].whom = req[p].whom
         /\ req'[p].timer = req[p].timer /\ req'[p].step = step
         /\ \A q \in Pages \ {p} : req'[q] = req[q]
<1>1. req \in [Pages -> Request \cup {Idle}] /\ req[p] \in Request
  BY DEF ChatsInv, ChatsTypeOK, Idle
<1> QED BY <1>1 DEF Goes, Request

LEMMA GoesOnFields ==
  ASSUME ChatsInv, NEW p \in Pages, NEW step, NEW c, req[p].op # "none", GoesOn(p, step, c)
  PROVE  /\ req'[p].op = req[p].op /\ req'[p].chat = c /\ req'[p].whom = req[p].whom
         /\ req'[p].timer = req[p].timer /\ req'[p].step = step
         /\ \A q \in Pages \ {p} : req'[q] = req[q]
<1>1. req \in [Pages -> Request \cup {Idle}] /\ req[p] \in Request
  BY DEF ChatsInv, ChatsTypeOK, Idle
<1> QED BY <1>1 DEF GoesOn, Request

LEMMA AsksFields ==
  ASSUME ChatsInv, NEW p \in Pages, NEW op, NEW c, NEW whom, NEW timer, NEW step,
         Asks(p, op, c, whom, timer, step)
  PROVE  /\ req[p] = Idle
         /\ req'[p].op = op /\ req'[p].chat = c /\ req'[p].whom = whom
         /\ req'[p].timer = timer /\ req'[p].step = step
         /\ \A q \in Pages \ {p} : req'[q] = req[q]
         /\ raced \subseteq raced'
BY DEF Asks, ChatsInv, ChatsTypeOK

\* The row of one chat changes.
LEMMA UpdatesRow ==
  ASSUME ChatsInv, NEW d \in ChatIds, NEW row, chat' = [chat EXCEPT ![d] = row]
  PROVE  chat'[d] = row /\ \A c \in ChatIds \ {d} : chat'[c] = chat[c]
BY DEF ChatsInv, ChatsTypeOK

-----------------------------------------------------------------------------
\* Moves.

LEMMA StaysMoves == ASSUME ChatsInv, UNCHANGED <<chat, made>>, raced \subseteq raced' PROVE Moves
<1>1. made <= made'
  BY DEF ChatsInv, ChatsTypeOK
<1> QED BY <1>1 DEF Moves

LEMMA InsertsMoves ==
  ASSUME ChatsAssumption, ChatsInv, NEW row, Inserts(row), raced \subseteq raced'
  PROVE  Moves
<1>1. made \in Nat /\ made' = made + 1 /\ made + 1 \in ChatIds
  BY DEF Inserts, ChatsInv, ChatsTypeOK, ChatIds, ChatsAssumption
<1>2. \A c \in ChatIds \ {made + 1} : chat'[c] = chat[c]
  BY DEF Inserts, ChatsInv, ChatsTypeOK
<1>3. \A c \in ChatIds : c <= made => c # made + 1
  BY <1>1 DEF ChatIds
<1> QED BY <1>1, <1>2, <1>3 DEF Moves

LEMMA DeletesMoves ==
  ASSUME ChatsInv, NEW d \in ChatIds, Deletes(d), UNCHANGED made, raced \subseteq raced'
  PROVE  Moves
<1>1. made <= made'
  BY DEF ChatsInv, ChatsTypeOK
<1>2. chat'[d] = Gone /\ \A c \in ChatIds \ {d} : chat'[c] = chat[c]
  BY DEF Deletes, ChatsInv, ChatsTypeOK
<1> QED BY <1>1, <1>2 DEF Moves

LEMMA UpdatesMoves ==
  ASSUME ChatsInv, NEW d \in ChatIds, NEW row, chat' = [chat EXCEPT ![d] = row], UNCHANGED made,
         raced \subseteq raced', chat[d] # Gone, row.kind = chat[d].kind, chat[d].enc => row.enc,
         row.kind # "group" => row.members \subseteq chat[d].members
  PROVE  Moves
<1>1. made <= made'
  BY DEF ChatsInv, ChatsTypeOK
<1> QED BY <1>1, UpdatesRow DEF Moves

\* Requests leave the chats alone, except for a group.
LEMMA WishKeeps ==
  ASSUME ChatsAssumption, ChatsInv, NEW p \in Pages, NEW users, NEW chats, NEW members,
         Wishes(p, users, chats, members)
  PROVE  /\ req[p] = Idle /\ inbox' = inbox /\ online' = online
         /\ raced \subseteq raced' /\ \A q \in Pages \ {p} : req'[q] = req[q]
         /\ \/ UNCHANGED <<chat, made>>
            \/ /\ \E others \in SUBSET users : Inserts(GroupRow(others \cup {Owner[p]}))
               /\ req'[p].op = "group" /\ req'[p].step = "done" /\ req'[p].chat = made'
<1>1. \A op, c, whom, timer, step : Asks(p, op, c, whom, timer, step) =>
        /\ req[p] = Idle /\ raced \subseteq raced'
        /\ \A q \in Pages \ {p} : req'[q] = req[q]
        /\ req'[p].op = op /\ req'[p].step = step /\ req'[p].chat = c
  BY AsksFields
<1>2. ASSUME NEW v \in users, CreateDirect(p, v)
      PROVE  UNCHANGED <<chat, made, inbox, online>> /\ \E op, c, whom, timer, step : Asks(p, op, c, whom, timer, step)
  BY <1>2 DEF CreateDirect
<1>3. ASSUME NEW v \in users, StartSecret(p, v)
      PROVE  UNCHANGED <<chat, made, inbox, online>> /\ \E op, c, whom, timer, step : Asks(p, op, c, whom, timer, step)
  BY <1>3 DEF StartSecret
<1>4. ASSUME NEW others \in SUBSET users, CreateGroup(p, others \cup {Owner[p]})
      PROVE  /\ UNCHANGED <<inbox, online>> /\ Inserts(GroupRow(others \cup {Owner[p]}))
             /\ \E whom, timer : Asks(p, "group", made + 1, whom, timer, "done")
  BY <1>4 DEF CreateGroup
<1>5. ASSUME NEW c \in chats, Accept(p, c) \/ Reject(p, c) \/ Destroy(p, c) \/ Leave(p, c) \/ Purge(p, c)
      PROVE UNCHANGED <<chat, made, inbox, online>> /\ \E op, d, whom, timer, step : Asks(p, op, d, whom, timer, step)
  BY <1>5 DEF Accept, Reject, Destroy, Leave, Purge
<1>6. ASSUME NEW c \in chats, NEW v \in members, AddMember(p, c, v)
      PROVE UNCHANGED <<chat, made, inbox, online>> /\ \E op, d, whom, timer, step : Asks(p, op, d, whom, timer, step)
  BY <1>6 DEF AddMember
<1>7. ASSUME NEW c \in chats, NEW seconds \in Timers, SetTimer(p, c, seconds)
      PROVE UNCHANGED <<chat, made, inbox, online>> /\ \E op, d, whom, timer, step : Asks(p, op, d, whom, timer, step)
  BY <1>7 DEF SetTimer
<1>8. CASE UNCHANGED <<chat, made, inbox, online>> /\ \E op, c, whom, timer, step : Asks(p, op, c, whom, timer, step)
  BY <1>1, <1>8
<1>9. CASE \E others \in SUBSET users : CreateGroup(p, others \cup {Owner[p]})
  <2>1. PICK others \in SUBSET users : CreateGroup(p, others \cup {Owner[p]})
    BY <1>9
  <2>2. made' = made + 1
    BY <1>4, <2>1 DEF Inserts
  <2> QED BY <1>1, <1>4, <2>1, <2>2
<1> QED BY <1>2, <1>3, <1>5, <1>6, <1>7, <1>8, <1>9 DEF Wishes

LEMMA HandlerMoves ==
  ASSUME ChatsAssumption, SharingInv, NEW p \in Pages, Handles(p)
  PROVE  Moves
<1> DEFINE c == req[p].chat
<1>0. ChatsInv /\ RequestOK(p) /\ (req[p].op \in About => c \in ChatIds)
      /\ chat \in [ChatIds -> ChatRow \cup {Gone}]
  BY DEF SharingInv, ChatsInv, ChatsTypeOK, Aimed
<1>1. CASE UNCHANGED <<chat, made, raced>>
  BY <1>0, <1>1, StaysMoves
<1>2. ASSUME NEW row, Inserts(row), UNCHANGED raced PROVE Moves
  BY <1>0, <1>2, InsertsMoves
<1>3. ASSUME c \in ChatIds, Deletes(c), UNCHANGED <<made, raced>> PROVE Moves
  BY <1>0, <1>3, DeletesMoves
<1>4. ASSUME c \in ChatIds, NEW row, chat' = [chat EXCEPT ![c] = row], UNCHANGED <<made, raced>>,
             chat[c] # Gone, row.kind = chat[c].kind, chat[c].enc => row.enc,
             row.kind # "group" => row.members \subseteq chat[c].members
      PROVE  Moves
  BY <1>0, <1>4, UpdatesMoves
<1>5. CASE DirectInsert(p)
  BY <1>1, <1>2, <1>5 DEF DirectInsert
<1>6. CASE DirectLost(p)
  BY <1>1, <1>6 DEF DirectLost
<1>7. CASE AddInsert(p)
  <2>1. c \in ChatIds
    BY <1>0, <1>7 DEF AddInsert, At, About
  <2>2. CASE Live(c) /\ chat' = [chat EXCEPT ![c].members = @ \cup req[p].whom]
    <3>1. PICK row : row = [chat[c] EXCEPT !.members = @ \cup req[p].whom]
      OBVIOUS
    <3>2. chat[c] # Gone /\ chat[c].kind = "group" /\ chat[c] \in ChatRow
      BY <1>0, <1>7, <2>1, <2>2 DEF RequestOK, AdderOK, AddInsert, Live
    <3>3. row.kind = "group" /\ row.enc = chat[c].enc
      BY <3>1, <3>2 DEF ChatRow
    <3>4. chat' = [chat EXCEPT ![c] = row]
      BY <2>2, <3>1
    <3> QED BY <1>4, <1>7, <2>1, <3>2, <3>3, <3>4 DEF AddInsert
  <2> QED BY <1>1, <1>7, <2>2 DEF AddInsert
<1>8. CASE SecretInsert(p)
  BY <1>2, <1>8 DEF SecretInsert
<1>9. CASE AcceptUpdate(p)
  <2>1. c \in ChatIds
    BY <1>0, <1>9 DEF AcceptUpdate, At, About
  <2>2. CASE Pending(c) /\ chat' = [chat EXCEPT ![c].enc = TRUE]
    <3>1. PICK row : row = [chat[c] EXCEPT !.enc = TRUE]
      OBVIOUS
    <3>2. chat[c] # Gone /\ chat[c] \in ChatRow
      BY <1>0, <2>1, <2>2 DEF Pending, Gone
    <3>3. row.kind = chat[c].kind /\ row.enc /\ row.members = chat[c].members
      BY <3>1, <3>2 DEF ChatRow
    <3>4. chat' = [chat EXCEPT ![c] = row]
      BY <2>2, <3>1
    <3> QED BY <1>4, <1>9, <2>1, <3>2, <3>3, <3>4 DEF AcceptUpdate
  <2> QED BY <1>1, <1>9, <2>2 DEF AcceptUpdate
<1>10. CASE RejectDelete(p)
  BY <1>0, <1>1, <1>3, <1>10 DEF RejectDelete, At, About
<1>11. CASE TimerUpdate(p)
  <2>1. c \in ChatIds
    BY <1>0, <1>11 DEF TimerUpdate, At, About
  <2>2. CASE Live(c)
    <3>1. PICK row : row = [chat[c] EXCEPT !.timer = req[p].timer]
      OBVIOUS
    <3>2. chat[c] # Gone /\ chat[c] \in ChatRow
      BY <1>0, <2>1, <2>2 DEF Live
    <3>3. row.kind = chat[c].kind /\ row.enc = chat[c].enc /\ row.members = chat[c].members
      BY <3>1, <3>2 DEF ChatRow
    <3>4. chat' = [chat EXCEPT ![c] = row]
      BY <1>11, <2>2, <3>1 DEF TimerUpdate
    <3> QED BY <1>4, <1>11, <2>1, <3>2, <3>3, <3>4 DEF TimerUpdate
  <2>3. CASE ~Live(c)
    BY <1>1, <1>11, <2>3 DEF TimerUpdate
  <2> QED BY <2>2, <2>3
<1>12. CASE DestroyDelete(p)
  BY <1>0, <1>3, <1>12 DEF DestroyDelete, At, About
<1>13. CASE LeaveDelete(p)
  BY <1>1, <1>13 DEF LeaveDelete
<1>14. CASE LeaveCommit(p)
  <2>1. c \in ChatIds
    BY <1>0, <1>14 DEF LeaveCommit, At, About
  <2>2. CASE Deletes(c)
    BY <1>3, <1>14, <2>1, <2>2 DEF LeaveCommit
  <2>3. CASE Live(c) /\ chat' = Without(p, c)
    <3>1. PICK row : row = [chat[c] EXCEPT !.members = chat[c].members \ {Owner[p]}, !.pair = {}]
      OBVIOUS
    <3>2. chat[c] # Gone /\ chat[c] \in ChatRow
      BY <1>0, <2>1, <2>3 DEF Live
    <3>3. row.kind = chat[c].kind /\ row.enc = chat[c].enc /\ row.members \subseteq chat[c].members
      BY <3>1, <3>2 DEF ChatRow
    <3>4. chat' = [chat EXCEPT ![c] = row]
      BY <2>3, <3>1 DEF Without
    <3> QED BY <1>4, <1>14, <2>1, <3>2, <3>3, <3>4 DEF LeaveCommit
  <2> QED BY <1>1, <1>14, <2>2, <2>3 DEF LeaveCommit
<1>15. CASE PurgeDelete(p)
  <2>1. c \in ChatIds
    BY <1>0, <1>15 DEF PurgeDelete, At, About
  <2>2. CASE Live(c)
    BY <1>3, <1>15, <2>1, <2>2 DEF PurgeDelete
  <2>3. CASE ~Live(c)
    BY <1>1, <1>15, <2>3 DEF PurgeDelete
  <2> QED BY <2>2, <2>3
<1>16. CASE Announce(p)
  BY <1>1, <1>16 DEF Announce
<1>17. CASE Note(p)
  BY <1>1, <1>17 DEF Note
<1> QED BY <1>5, <1>6, <1>7, <1>8, <1>9, <1>10, <1>11, <1>12, <1>13, <1>14, <1>15, <1>16, <1>17 DEF Handles

\* What clients ask for about chats that there are, and what becomes of it.
Served(p) == Wishes(p, Users, 1 .. made, Users) \/ Handles(p) \/ Return(p)
Plugged(p) == Connect(p) \/ HangUp(p) \/ Take(p)

LEMMA ServedMoves ==
  ASSUME ChatsAssumption, SharingInv, NEW p \in Pages, Served(p) \/ Plugged(p) \/ UNCHANGED vars
  PROVE  Moves
<1>0. ChatsInv
  BY DEF SharingInv
<1>1. CASE Wishes(p, Users, 1 .. made, Users)
  BY <1>0, <1>1, WishKeeps, StaysMoves, InsertsMoves
<1>2. CASE Return(p) \/ Plugged(p) \/ UNCHANGED vars
  BY <1>0, <1>2, StaysMoves DEF Return, Plugged, Connect, HangUp, Take, vars
<1> QED BY <1>1, <1>2, HandlerMoves DEF Served

-----------------------------------------------------------------------------
\* What changes a chat.

\* The request of p goes on to tell of it.
Tells(p) ==
  /\ req'[p].step = "announce" /\ req'[p].op = req[p].op
  /\ req'[p].chat = req[p].chat /\ req'[p].whom = req[p].whom /\ req'[p].timer = req[p].timer

Caused(p, c) ==
  /\ c <= made /\ chat'[c] # Gone /\ chat'[c].timer # chat[c].timer =>
       At(p, "timer", "update") /\ req[p].chat = c /\ Tells(p)
  /\ c <= made /\ chat'[c] # Gone /\ chat'[c].enc # chat[c].enc =>
       At(p, "accept", "update") /\ req[p].chat = c /\ Tells(p) /\ chat[c].kind = "secret"
  /\ c <= made /\ ~(chat'[c].members \subseteq chat[c].members) =>
       /\ At(p, "add", "insert") /\ req[p].chat = c
       /\ chat[c].kind = "group" /\ chat'[c].kind = "group"
  /\ \A u \in chat[c].members \ chat'[c].members :
       /\ req[p].chat = c
       /\ \/ At(p, "leave", "commit") /\ Tells(p) /\ (u = Owner[p] \/ req[p].whom = {})
          \/ At(p, "purge", "delete") /\ Tells(p)
          \/ At(p, "destroy", "delete") \/ At(p, "reject", "delete")
  /\ c > made /\ chat'[c] # Gone =>
       /\ c = made'
       /\ chat'[c].kind # "secret" => Plain(chat'[c])
       /\ chat'[c].kind = "secret" =>
            /\ At(p, "secret", "insert")
            /\ req'[p].step = "announce" /\ req'[p].op = "secret" /\ req'[p].chat = c

LEMMA StaysCaused ==
  ASSUME ChatsInv, NEW p, NEW c \in ChatIds, chat'[c] = chat[c]
  PROVE  Caused(p, c)
<1>1. c > made => chat[c] = Gone
  BY DEF ChatsInv, ChatsTypeOK
<1> QED BY <1>1 DEF Caused

LEMMA InsertsCaused ==
  ASSUME ChatsAssumption, ChatsInv, NEW p \in Pages, NEW row, Inserts(row),
         row.kind # "secret" => Plain(row),
         row.kind = "secret" => /\ At(p, "secret", "insert")
                                /\ req'[p].step = "announce" /\ req'[p].op = "secret" /\ req'[p].chat = made',
         NEW c \in ChatIds
  PROVE  Caused(p, c)
<1>1. made \in Nat /\ made' = made + 1 /\ made + 1 \in ChatIds /\ ~(made + 1 <= made) /\ made + 1 > made
  BY DEF Inserts, ChatsInv, ChatsTypeOK, ChatIds, ChatsAssumption
<1>2. chat'[made + 1] = row /\ \A d \in ChatIds \ {made + 1} : chat'[d] = chat[d]
  BY <1>1 DEF Inserts, ChatsInv, ChatsTypeOK
<1>3. CASE c # made + 1
  BY <1>2, <1>3, StaysCaused
<1>4. CASE c = made + 1
  <2>1. chat[c] = Gone
    BY <1>1, <1>4 DEF ChatsInv, ChatsTypeOK
  <2>2. ~(c <= made) /\ c = made' /\ chat'[c] = row /\ chat[c].members = {}
    BY <1>1, <1>2, <1>4, <2>1 DEF Gone
  <2> QED BY <2>2 DEF Caused
<1> QED BY <1>3, <1>4

LEMMA HandlerCauses ==
  ASSUME ChatsAssumption, SharingInv, NEW p \in Pages, Handles(p), NEW e \in ChatIds
  PROVE  Caused(p, e)
<1> DEFINE c == req[p].chat
<1>0. ChatsInv /\ RequestOK(p) /\ (req[p].op \in About => c \in ChatIds)
      /\ chat \in [ChatIds -> ChatRow \cup {Gone}]
      /\ (c \in ChatIds => (c > made => chat[c] = Gone))
  BY DEF SharingInv, ChatsInv, ChatsTypeOK, Aimed
<1>1. CASE UNCHANGED chat
  BY <1>0, <1>1, StaysCaused
<1>2. ASSUME NEW op, NEW step, At(p, op, step), op # "none", Goes(p, "announce") PROVE Tells(p)
  BY <1>0, <1>2, GoesFields DEF Tells, At
<1>3. ASSUME c \in ChatIds, Deletes(c),
             \/ At(p, "leave", "commit") /\ Tells(p) /\ req[p].whom = {}
             \/ At(p, "purge", "delete") /\ Tells(p)
             \/ At(p, "destroy", "delete") \/ At(p, "reject", "delete")
      PROVE  Caused(p, e)
  <2>1. chat'[c] = Gone /\ \A d \in ChatIds \ {c} : chat'[d] = chat[d]
    BY <1>0, <1>3 DEF Deletes
  <2>2. CASE e # c
    BY <1>0, <2>1, <2>2, StaysCaused
  <2>3. CASE e = c
    BY <1>3, <2>1, <2>3 DEF Caused, Gone
  <2> QED BY <2>2, <2>3
<1>4. ASSUME c \in ChatIds, NEW row, chat' = [chat EXCEPT ![c] = row], chat[c] # Gone, chat[c] \in ChatRow,
             row.timer # chat[c].timer => At(p, "timer", "update") /\ Tells(p),
             row.enc # chat[c].enc => At(p, "accept", "update") /\ Tells(p) /\ chat[c].kind = "secret",
             ~(row.members \subseteq chat[c].members) =>
                At(p, "add", "insert") /\ chat[c].kind = "group" /\ row.kind = "group",
             \A u \in chat[c].members \ row.members : At(p, "leave", "commit") /\ Tells(p) /\ u = Owner[p]
      PROVE  Caused(p, e)
  <2>1. chat'[c] = row /\ \A d \in ChatIds \ {c} : chat'[d] = chat[d]
    BY <1>0, <1>4
  <2>2. CASE e # c
    BY <1>0, <2>1, <2>2, StaysCaused
  <2>3. CASE e = c
    <3>1. ~(c > made)
      BY <1>0, <1>4
    <3> QED BY <1>4, <2>1, <2>3, <3>1 DEF Caused
  <2> QED BY <2>2, <2>3
<1>5. CASE DirectInsert(p)
  <2>1. CASE Inserts(DirectRow(req[p].whom))
    <3>1. PICK row : row = DirectRow(req[p].whom)
      OBVIOUS
    <3>2. row.kind = "direct" /\ Plain(row)
      BY <3>1 DEF DirectRow, Plain
    <3>3. Inserts(row)
      BY <2>1, <3>1
    <3> QED BY <1>0, <3>2, <3>3, InsertsCaused
  <2> QED BY <1>1, <1>5, <2>1 DEF DirectInsert
<1>6. CASE DirectLost(p)
  BY <1>1, <1>6 DEF DirectLost
<1>7. CASE AddInsert(p)
  <2>1. c \in ChatIds
    BY <1>0, <1>7 DEF AddInsert, At, About
  <2>2. CASE Live(c) /\ chat' = [chat EXCEPT ![c].members = @ \cup req[p].whom]
    <3>1. PICK row : row = [chat[c] EXCEPT !.members = @ \cup req[p].whom]
      OBVIOUS
    <3>2. chat[c] # Gone /\ chat[c].kind = "group" /\ chat[c] \in ChatRow
      BY <1>0, <1>7, <2>1, <2>2 DEF RequestOK, AdderOK, AddInsert, Live
    <3>3. row.kind = "group" /\ row.enc = chat[c].enc /\ row.timer = chat[c].timer
          /\ row.members = chat[c].members \cup req[p].whom
      BY <3>1, <3>2 DEF ChatRow
    <3>4. chat' = [chat EXCEPT ![c] = row]
      BY <2>2, <3>1
    <3> QED BY <1>4, <1>7, <2>1, <3>2, <3>3, <3>4 DEF AddInsert
  <2> QED BY <1>1, <1>7, <2>2 DEF AddInsert
<1>8. CASE SecretInsert(p)
  <2>1. PICK v \in req[p].whom \ {Owner[p]} : Inserts(SecretRow(Owner[p], v))
    BY <1>8 DEF SecretInsert
  <2>2. PICK row : row = SecretRow(Owner[p], v)
    OBVIOUS
  <2>3. Inserts(row) /\ row.kind = "secret" /\ made' = made + 1
    BY <2>1, <2>2 DEF SecretRow, DirectRow, Inserts
  <2>4. At(p, "secret", "insert") /\ GoesOn(p, "announce", made + 1)
    BY <1>8 DEF SecretInsert
  <2>5. req'[p].step = "announce" /\ req'[p].op = "secret" /\ req'[p].chat = made'
    BY <1>0, <2>3, <2>4, GoesOnFields DEF At
  <2> QED BY <1>0, <2>3, <2>4, <2>5, InsertsCaused
<1>9. CASE AcceptUpdate(p)
  <2>1. c \in ChatIds
    BY <1>0, <1>9 DEF AcceptUpdate, At, About
  <2>2. CASE Pending(c) /\ chat' = [chat EXCEPT ![c].enc = TRUE] /\ Goes(p, "announce")
    <3>1. PICK row : row = [chat[c] EXCEPT !.enc = TRUE]
      OBVIOUS
    <3>2. chat[c] # Gone /\ chat[c] \in ChatRow /\ chat[c].kind = "secret"
      BY <1>0, <2>1, <2>2 DEF Pending, Gone
    <3>3. row.kind = chat[c].kind /\ row.timer = chat[c].timer /\ row.members = chat[c].members
      BY <3>1, <3>2 DEF ChatRow
    <3>4. chat' = [chat EXCEPT ![c] = row]
      BY <2>2, <3>1
    <3>5. At(p, "accept", "update") /\ Tells(p)
      BY <1>2, <1>9, <2>2 DEF AcceptUpdate
    <3> QED BY <1>4, <2>1, <3>2, <3>3, <3>4, <3>5
  <2> QED BY <1>1, <1>9, <2>2 DEF AcceptUpdate
<1>10. CASE RejectDelete(p)
  BY <1>0, <1>1, <1>3, <1>10 DEF RejectDelete, At, About
<1>11. CASE TimerUpdate(p)
  <2>1. c \in ChatIds
    BY <1>0, <1>11 DEF TimerUpdate, At, About
  <2>2. CASE Live(c)
    <3>1. PICK row : row = [chat[c] EXCEPT !.timer = req[p].timer]
      OBVIOUS
    <3>2. chat[c] # Gone /\ chat[c] \in ChatRow
      BY <1>0, <2>1, <2>2 DEF Live
    <3>3. row.kind = chat[c].kind /\ row.enc = chat[c].enc /\ row.members = chat[c].members
      BY <3>1, <3>2 DEF ChatRow
    <3>4. chat' = [chat EXCEPT ![c] = row]
      BY <1>11, <2>2, <3>1 DEF TimerUpdate
    <3>5. At(p, "timer", "update") /\ Tells(p)
      BY <1>2, <1>11 DEF TimerUpdate
    <3> QED BY <1>4, <2>1, <3>2, <3>3, <3>4, <3>5
  <2>3. CASE ~Live(c)
    BY <1>1, <1>11, <2>3 DEF TimerUpdate
  <2> QED BY <2>2, <2>3
<1>12. CASE DestroyDelete(p)
  BY <1>0, <1>3, <1>12 DEF DestroyDelete, At, About
<1>13. CASE LeaveDelete(p)
  BY <1>1, <1>13 DEF LeaveDelete
<1>14. CASE LeaveCommit(p)
  <2>1. c \in ChatIds /\ At(p, "leave", "commit") /\ Tells(p)
    BY <1>0, <1>2, <1>14 DEF LeaveCommit, At, About
  <2>2. CASE req[p].whom = {} /\ Deletes(c)
    BY <1>3, <2>1, <2>2
  <2>3. CASE Live(c) /\ chat' = Without(p, c)
    <3>1. PICK row : row = [chat[c] EXCEPT !.members = chat[c].members \ {Owner[p]}, !.pair = {}]
      OBVIOUS
    <3>2. chat[c] # Gone /\ chat[c] \in ChatRow
      BY <1>0, <2>1, <2>3 DEF Live
    <3>3. row.kind = chat[c].kind /\ row.enc = chat[c].enc /\ row.timer = chat[c].timer
          /\ row.members = chat[c].members \ {Owner[p]}
      BY <3>1, <3>2 DEF ChatRow
    <3>4. chat' = [chat EXCEPT ![c] = row]
      BY <2>3, <3>1 DEF Without
    <3> QED BY <1>4, <2>1, <3>2, <3>3, <3>4
  <2> QED BY <1>1, <1>14, <2>2, <2>3 DEF LeaveCommit
<1>15. CASE PurgeDelete(p)
  <2>1. c \in ChatIds
    BY <1>0, <1>15 DEF PurgeDelete, At, About
  <2>2. CASE Live(c)
    <3>1. At(p, "purge", "delete") /\ Tells(p) /\ Deletes(c)
      BY <1>2, <1>15, <2>2 DEF PurgeDelete
    <3> QED BY <1>3, <2>1, <3>1
  <2>3. CASE ~Live(c)
    BY <1>1, <1>15, <2>3 DEF PurgeDelete
  <2> QED BY <2>2, <2>3
<1>16. CASE Announce(p)
  BY <1>1, <1>16 DEF Announce
<1>17. CASE Note(p)
  BY <1>1, <1>17 DEF Note
<1> QED BY <1>5, <1>6, <1>7, <1>8, <1>9, <1>10, <1>11, <1>12, <1>13, <1>14, <1>15, <1>16, <1>17 DEF Handles

LEMMA ServedCauses ==
  ASSUME ChatsAssumption, SharingInv, NEW p \in Pages, Served(p) \/ Plugged(p) \/ UNCHANGED vars,
         NEW c \in ChatIds
  PROVE  Caused(p, c)
<1>0. ChatsInv
  BY DEF SharingInv
<1>1. CASE UNCHANGED chat
  BY <1>0, <1>1, StaysCaused
<1>2. CASE Wishes(p, Users, 1 .. made, Users)
  <2>1. CASE \E others \in SUBSET Users : Inserts(GroupRow(others \cup {Owner[p]}))
    <3>1. PICK row, members : row = GroupRow(members) /\ Inserts(row)
      BY <2>1
    <3>2. row.kind = "group" /\ Plain(row)
      BY <3>1 DEF GroupRow, DirectRow, Plain
    <3> QED BY <1>0, <3>1, <3>2, InsertsCaused
  <2> QED BY <1>0, <1>1, <1>2, <2>1, WishKeeps
<1>3. CASE Return(p) \/ Plugged(p) \/ UNCHANGED vars
  BY <1>1, <1>3 DEF Return, Plugged, Connect, HangUp, Take, vars
<1> QED BY <1>2, <1>3, HandlerCauses DEF Served

-----------------------------------------------------------------------------
\* What is known of requests and events stays known.

LEMMA RequestTypes ==
  ASSUME ChatsInv, NEW q \in Pages
  PROVE  /\ req[q].chat \in ChatIds \cup {NoChat} /\ req[q].chat \in Nat /\ made \in Nat
         /\ req[q].op \in About => req[q].chat \in ChatIds
         /\ req[q].step = "announce" => req[q].op \in Telling /\ req[q].chat \in ChatIds
BY DEF ChatsInv, ChatsTypeOK, Aimed, Request, Idle, ChatIds, NoChat

LEMMA OthersAskedOK ==
  ASSUME ChatsAssumption, ServerOK, NEW p \in Pages, Moves, \A c \in ChatIds : Caused(p, c),
         NEW q \in Pages \ {p}, req'[q] = req[q], made' \in Nat
  PROVE  AskedOK(q)'
<1> DEFINE c == req[q].chat
<1>0. ChatsInv /\ AskedOK(q) /\ OverlapsKnown
  BY DEF ServerOK, SharingInv
<1>1. /\ c \in Nat /\ made \in Nat /\ (req[q].op \in About => c \in ChatIds)
  BY <1>0, RequestTypes
<1>2. req[q].step # "error" => c <= made'
  BY <1>0, <1>1 DEF AskedOK, Moves
<1>3. ASSUME req[q].op = "accept", req[q].step \in {"announce", "done"}, Live(c)'
      PROVE  chat'[c].enc
  BY <1>0, <1>1, <1>3 DEF AskedOK, Moves, Live, About
<1>4. ASSUME req[q].op = "timer", req[q].step # "error", Live(c)'
      PROVE  /\ chat'[c].kind = "secret"
             /\ req[q].step \in {"announce", "note", "done"} =>
                  chat'[c].timer = req[q].timer \/ "timer" \in raced'
  <2>1. c \in ChatIds /\ c <= made /\ chat'[c] # Gone /\ chat[c] # Gone /\ chat'[c].kind = chat[c].kind
    BY <1>0, <1>1, <1>4 DEF AskedOK, Moves, Live, About
  <2>2. chat'[c].timer # chat[c].timer => req[p].op = "timer"
    BY <2>1 DEF Caused, At
  <2>3. req[p].op = "timer" => "timer" \in raced'
    BY <1>0, <1>4 DEF OverlapsKnown, Moves
  <2>4. raced \subseteq raced'
    BY DEF Moves
  <2> QED BY <1>0, <1>4, <2>1, <2>2, <2>3, <2>4 DEF AskedOK, Live
<1>5. ASSUME req[q].op \in {"destroy", "reject"}, req[q].step \in {"announce", "delete"}
      PROVE  chat'[c].kind # "group"
  <2>1. c \in ChatIds /\ c <= made /\ chat[c].kind # "group"
    BY <1>0, <1>1, <1>5 DEF AskedOK, About
  <2> QED BY <2>1 DEF Moves, Gone
<1>6. req'[q] = req[q]
  OBVIOUS
<1> QED BY <1>2, <1>3, <1>4, <1>5, <1>6 DEF AskedOK, Live

LEMMA PlainMoves ==
  ASSUME ChatsAssumption, ServerOK, NEW p \in Pages, Moves, \A c \in ChatIds : Caused(p, c)
  PROVE  PlainOK'
<1> SUFFICES ASSUME NEW c \in ChatIds, chat'[c].kind # "secret"
             PROVE  Plain(chat'[c])
  BY DEF PlainOK, Plain
<1>0. ChatsInv /\ AskedOK(p) /\ made \in Nat /\ Caused(p, c)
  BY RequestTypes DEF ServerOK, SharingInv
<1>1. CASE chat'[c] = Gone
  BY <1>1 DEF Gone, Plain
<1>2. CASE c > made /\ chat'[c] # Gone
  BY <1>0, <1>2 DEF Caused
<1>3. CASE c <= made /\ chat'[c] # Gone
  <2>1. chat[c] # Gone /\ chat[c].kind # "secret" /\ Plain(chat[c])
    BY <1>3 DEF Moves, ServerOK, PlainOK
  <2>2. chat'[c].enc = chat[c].enc
    BY <1>0, <1>3, <2>1 DEF Caused
  <2>3. chat'[c].timer = chat[c].timer
    BY <1>0, <1>3, <2>1 DEF Caused, AskedOK, At, Live
  <2> QED BY <2>1, <2>2, <2>3 DEF Plain
<1> QED BY <1>0, <1>1, <1>2, <1>3 DEF ChatIds

LEMMA EventMoves ==
  ASSUME ChatsInv, Moves, made' \in Nat, NEW m \in Events, EventOK(m)
  PROVE  EventOK(m)'
<1>1. m.chat \in ChatIds /\ m.chat \in Nat /\ made \in Nat
  BY DEF Events, ChatsInv, ChatsTypeOK, ChatIds
<1> QED BY <1>1 DEF EventOK, Moves, Live

\* A broadcast adds one event to some queues.
LEMMA BroadcastEvents ==
  ASSUME ChatsInv, EventsOK, UNCHANGED <<chat, made>>,
         NEW whom, NEW type, NEW c, NEW timer, Broadcast(whom, type, c, timer),
         NEW m, m = [type |-> type, chat |-> c, timer |-> timer], EventOK(m)
  PROVE  EventsOK'
<1> SUFFICES ASSUME NEW p \in Pages, NEW i \in DOMAIN inbox'[p],
                    NEW e, e = inbox'[p][i]
             PROVE  EventOK(e)'
  BY DEF EventsOK
<1>1. inbox[p] \in Seq(Events) /\ (inbox'[p] = Append(inbox[p], m) \/ inbox'[p] = inbox[p])
  BY DEF Broadcast, ChatsInv, ChatsTypeOK
<1>2. (i \in DOMAIN inbox[p] /\ inbox'[p][i] = inbox[p][i]) \/ inbox'[p][i] = m
  BY <1>1
<1>3. EventOK(e)
  BY <1>2 DEF EventsOK
<1> QED BY <1>3 DEF EventOK, Live

\* A request that goes on to nothing much.
LEMMA EasyAskedOK ==
  ASSUME NEW p \in Pages, req'[p].step # "error" => req'[p].chat <= made',
         req'[p].op = "accept" => req'[p].step \notin {"announce", "done"},
         req'[p].op = "timer" => req'[p].step = "error",
         req'[p].op \in {"destroy", "reject"} => req'[p].step \notin {"announce", "delete"}
  PROVE  AskedOK(p)'
BY DEF AskedOK

LEMMA WishAskedOK ==
  ASSUME ChatsAssumption, ServerOK, NEW p \in Pages, Wishes(p, Users, 1 .. made, Users)
  PROVE  AskedOK(p)'
<1>0. ChatsInv /\ made \in Nat /\ PlainOK
  BY RequestTypes DEF ServerOK, SharingInv
<1>1. \A c \in ChatIds : chat[c] # Gone => c <= made
  BY <1>0 DEF ChatsInv, ChatsTypeOK, ChatIds
<1>2. \A op, c, whom, timer, step : Asks(p, op, c, whom, timer, step) =>
        /\ req'[p].op = op /\ req'[p].step = step /\ req'[p].chat = c /\ req'[p].timer = timer
  BY <1>0, AsksFields
<1>3. ASSUME NEW op, NEW c, NEW whom, NEW timer, NEW step, Asks(p, op, c, whom, timer, step),
             step # "error" => c <= made', op = "accept" => step \notin {"announce", "done"},
             op = "timer" => step = "error", op \in {"destroy", "reject"} => step \notin {"announce", "delete"}
      PROVE  AskedOK(p)'
  <2>1. req'[p].op = op /\ req'[p].step = step /\ req'[p].chat = c
    BY <1>2, <1>3
  <2> QED BY <1>3, <2>1, EasyAskedOK
<1>4. ASSUME NEW v \in Users, CreateDirect(p, v) PROVE AskedOK(p)'
  <2>1. \A c \in ChatIds : chat[c].pair = {Owner[p], v} => c <= made
    BY <1>1 DEF Gone
  <2>2. UNCHANGED made
    BY <1>4 DEF CreateDirect
  <2>3. PICK pair : pair = {Owner[p], v}
    OBVIOUS
  <2>4. CASE \E c \in Claimed(pair) : Asks(p, "direct", c, pair, 0, "done")
    BY <1>3, <2>1, <2>2, <2>3, <2>4 DEF Claimed
  <2>5. CASE Asks(p, "direct", NoChat, pair, 0, "insert")
    <3>1. NoChat <= made'
      BY <1>0, <2>2 DEF NoChat
    <3> QED BY <1>3, <2>5, <3>1
  <2> QED BY <1>4, <2>3, <2>4, <2>5 DEF CreateDirect
<1>5. ASSUME NEW v \in Users, StartSecret(p, v) PROVE AskedOK(p)'
  <2>1. \A c \in ChatIds : chat[c].kind = "secret" => c <= made
    BY <1>1 DEF Gone
  <2>2. UNCHANGED made
    BY <1>5 DEF StartSecret
  <2>3. PICK pair : pair = {Owner[p], v}
    OBVIOUS
  <2>4. CASE \E c \in Shared(pair) : Asks(p, "secret", c, pair, 0, "done")
    BY <1>3, <2>1, <2>2, <2>3, <2>4 DEF Shared
  <2>5. CASE Asks(p, "secret", NoChat, pair, 0, "insert")
    <3>1. NoChat <= made'
      BY <1>0, <2>2 DEF NoChat
    <3> QED BY <1>3, <2>5, <3>1
  <2> QED BY <1>5, <2>3, <2>4, <2>5 DEF StartSecret
<1>6. ASSUME NEW members, CreateGroup(p, members) PROVE AskedOK(p)'
  <2>1. Asks(p, "group", made + 1, members, 0, "done") /\ made' = made + 1
    BY <1>6 DEF CreateGroup, Inserts
  <2>2. PICK c : c = made + 1
    OBVIOUS
  <2>3. c <= made' /\ Asks(p, "group", c, members, 0, "done")
    BY <1>0, <2>1, <2>2
  <2> QED BY <1>3, <2>3
<1>7. ASSUME NEW c \in 1 .. made, Accept(p, c) PROVE AskedOK(p)'
  <2>1. PICK step \in {"update", "error"} : Asks(p, "accept", c, {}, 0, step)
    BY <1>7 DEF Accept
  <2>2. c <= made'
    BY <1>7 DEF Accept
  <2> QED BY <1>3, <2>1, <2>2
<1>8. ASSUME NEW c \in 1 .. made, Reject(p, c) PROVE AskedOK(p)'
  <2>1. PICK step : step = IF MayAnswer(p, c) THEN "announce" ELSE "error"
    OBVIOUS
  <2>2. Asks(p, "reject", c, {}, 0, step) /\ c <= made' /\ UNCHANGED chat
    BY <1>8, <2>1 DEF Reject
  <2>3. req'[p].op = "reject" /\ req'[p].step = step /\ req'[p].chat = c
    BY <1>2, <2>2
  <2>4. step = "announce" => chat[c].kind = "secret"
    BY <2>1 DEF MayAnswer
  <2> QED BY <2>1, <2>2, <2>3, <2>4 DEF AskedOK
<1>9. ASSUME NEW c \in 1 .. made, Destroy(p, c) PROVE AskedOK(p)'
  <2>1. PICK step : step = IF IsMember(p, c) /\ chat[c].kind # "group" THEN "announce" ELSE "error"
    OBVIOUS
  <2>2. Asks(p, "destroy", c, {}, 0, step) /\ c <= made' /\ UNCHANGED chat
    BY <1>9, <2>1 DEF Destroy
  <2>3. req'[p].op = "destroy" /\ req'[p].step = step /\ req'[p].chat = c
    BY <1>2, <2>2
  <2> QED BY <2>1, <2>2, <2>3 DEF AskedOK
<1>10. ASSUME NEW c \in 1 .. made, Leave(p, c) PROVE AskedOK(p)'
  <2>1. PICK step \in {"delete", "error"} : Asks(p, "leave", c, {}, 0, step)
    BY <1>10 DEF Leave
  <2>2. c <= made'
    BY <1>10 DEF Leave
  <2> QED BY <1>3, <2>1, <2>2
<1>11. ASSUME NEW c \in 1 .. made, Purge(p, c) PROVE AskedOK(p)'
  <2>1. PICK whom : Asks(p, "purge", c, whom, 0, "delete")
    BY <1>11 DEF Purge
  <2>2. c <= made'
    BY <1>11 DEF Purge
  <2> QED BY <1>3, <2>1, <2>2
<1>12. ASSUME NEW c \in 1 .. made, NEW v \in Users, AddMember(p, c, v) PROVE AskedOK(p)'
  <2>1. \E whom : \E step \in {"insert", "error"} : Asks(p, "add", c, whom, 0, step)
    BY <1>12 DEF AddMember
  <2>2. c <= made'
    BY <1>12 DEF AddMember
  <2> QED BY <1>3, <2>1, <2>2
<1>13. ASSUME NEW c \in 1 .. made, NEW seconds \in Timers, SetTimer(p, c, seconds) PROVE AskedOK(p)'
  <2>1. PICK step : step = IF IsMember(p, c) /\ chat[c].kind = "secret" THEN "update" ELSE "error"
    OBVIOUS
  <2>2. Asks(p, "timer", c, {}, seconds, step) /\ c <= made' /\ UNCHANGED chat
    BY <1>13, <2>1 DEF SetTimer
  <2>3. req'[p].op = "timer" /\ req'[p].step = step /\ req'[p].chat = c
    BY <1>2, <2>2
  <2> QED BY <2>1, <2>2, <2>3 DEF AskedOK
<1> QED BY <1>4, <1>5, <1>6, <1>7, <1>8, <1>9, <1>10, <1>11, <1>12, <1>13 DEF Wishes

LEMMA HandlerAskedOK ==
  ASSUME ChatsAssumption, ServerOK, NEW p \in Pages, Handles(p), Moves, made' \in Nat
  PROVE  AskedOK(p)'
<1> DEFINE c == req[p].chat
<1>0. /\ ChatsInv /\ made \in Nat /\ AskedOK(p) /\ (req[p].op \in About => c \in ChatIds)
      /\ c \in Nat /\ made <= made' /\ chat \in [ChatIds -> ChatRow \cup {Gone}]
  BY RequestTypes DEF ServerOK, SharingInv, Moves, ChatsInv, ChatsTypeOK
<1>1. \A e \in ChatIds : chat[e] # Gone => e <= made
  BY <1>0 DEF ChatsInv, ChatsTypeOK, ChatIds
<1>2. ASSUME NEW step, req[p].op # "none", Goes(p, step)
      PROVE  /\ req'[p].op = req[p].op /\ req'[p].chat = c /\ req'[p].step = step
             /\ req'[p].timer = req[p].timer
  BY <1>0, <1>2, GoesFields
<1>3. ASSUME NEW step, NEW e, req[p].op # "none", GoesOn(p, step, e)
      PROVE  req'[p].op = req[p].op /\ req'[p].chat = e /\ req'[p].step = step
  BY <1>0, <1>3, GoesOnFields
<1>4. req[p].step # "error" => c <= made'
  BY <1>0 DEF AskedOK
<1>5. CASE DirectInsert(p)
  <2>1. CASE GoesOn(p, "done", made + 1) /\ Inserts(DirectRow(req[p].whom))
    <3>1. PICK e : e = made + 1
      OBVIOUS
    <3>2. e <= made' /\ req'[p].op = "direct" /\ req'[p].chat = e
      BY <1>0, <1>3, <1>5, <2>1, <3>1 DEF DirectInsert, At, Inserts
    <3> QED BY <3>2, EasyAskedOK
  <2>2. CASE Goes(p, "lost")
    BY <1>2, <1>4, <1>5, <2>2, EasyAskedOK DEF DirectInsert, At
  <2> QED BY <1>5, <2>1, <2>2 DEF DirectInsert
<1>6. CASE DirectLost(p)
  <2>1. CASE \E e \in Claimed(req[p].whom) : GoesOn(p, "done", e)
    <3>1. PICK e \in Claimed(req[p].whom) : GoesOn(p, "done", e)
      BY <2>1
    <3>2. \E v : v \in req[p].whom
      BY <1>6 DEF ServerOK, SharingInv, RequestOK, CoupleOK, DirectLost, At
    <3>3. e <= made'
      BY <1>0, <1>1, <3>1, <3>2 DEF Claimed, Gone, ChatIds
    <3>4. req'[p].op = "direct" /\ req'[p].chat = e
      BY <1>3, <1>6, <3>1 DEF DirectLost, At
    <3> QED BY <3>3, <3>4, EasyAskedOK
  <2>2. CASE Goes(p, "error")
    BY <1>2, <1>6, <2>2, EasyAskedOK DEF DirectLost, At
  <2> QED BY <1>6, <2>1, <2>2 DEF DirectLost
<1>7. CASE AddInsert(p)
  BY <1>2, <1>4, <1>7, EasyAskedOK DEF AddInsert, At
<1>8. CASE SecretInsert(p)
  <2>1. PICK e : e = made + 1
    OBVIOUS
  <2>2. e <= made'
    BY <1>0, <1>8, <2>1 DEF SecretInsert, Inserts
  <2>3. req'[p].op = "secret" /\ req'[p].chat = e
    BY <1>3, <1>8, <2>1 DEF SecretInsert, At
  <2> QED BY <2>2, <2>3, EasyAskedOK
<1>9. CASE AcceptUpdate(p)
  <2>1. c \in ChatIds /\ At(p, "accept", "update")
    BY <1>0, <1>9 DEF AcceptUpdate, At, About
  <2>2. CASE Pending(c) /\ chat' = [chat EXCEPT ![c].enc = TRUE] /\ Goes(p, "announce")
    <3>1. chat[c] \in ChatRow
      BY <1>0, <2>1, <2>2 DEF Pending, Gone
    <3>2. chat'[c].enc
      BY <1>0, <2>1, <2>2, <3>1 DEF ChatRow
    <3>3. req'[p].op = "accept" /\ req'[p].chat = c /\ req'[p].step = "announce"
      BY <1>2, <2>1, <2>2 DEF At
    <3> QED BY <1>4, <2>1, <3>2, <3>3 DEF AskedOK, At
  <2>3. CASE Goes(p, "error")
    BY <1>2, <2>1, <2>3, EasyAskedOK DEF At
  <2> QED BY <1>9, <2>2, <2>3 DEF AcceptUpdate
<1>10. CASE RejectDelete(p)
  BY <1>2, <1>4, <1>10, EasyAskedOK DEF RejectDelete, At
<1>11. CASE TimerUpdate(p)
  <2>1. c \in ChatIds /\ At(p, "timer", "update") /\ c <= made
    BY <1>0, <1>11 DEF TimerUpdate, At, About, AskedOK
  <2>2. req'[p].op = "timer" /\ req'[p].chat = c /\ req'[p].step = "announce" /\ req'[p].timer = req[p].timer
    BY <1>2, <1>11 DEF TimerUpdate, At
  <2>3. ASSUME chat'[c] # Gone PROVE chat'[c].kind = "secret" /\ chat'[c].timer = req[p].timer
    <3>1. chat[c] # Gone /\ chat'[c].kind = chat[c].kind
      BY <2>1, <2>3 DEF Moves
    <3>2. chat[c].kind = "secret" /\ chat[c] \in ChatRow
      BY <1>0, <2>1, <3>1 DEF AskedOK, At, Live
    <3>3. chat' = [chat EXCEPT ![c].timer = req[p].timer]
      BY <1>11, <3>1 DEF TimerUpdate, Live
    <3> QED BY <1>0, <2>1, <3>1, <3>2, <3>3 DEF ChatRow
  <2> QED BY <1>4, <2>1, <2>2, <2>3 DEF AskedOK, Live, At
<1>12. CASE DestroyDelete(p)
  BY <1>2, <1>4, <1>12, EasyAskedOK DEF DestroyDelete, At
<1>13. CASE LeaveDelete(p)
  <2>1. req[p] \in Request
    BY <1>0, <1>13 DEF LeaveDelete, At, ChatsInv, ChatsTypeOK, Idle
  <2>2. PICK whom : req' = [req EXCEPT ![p].step = "commit", ![p].whom = whom]
    BY <1>13 DEF LeaveDelete
  <2>3. req'[p].op = "leave" /\ req'[p].chat = c
    BY <1>0, <1>13, <2>1, <2>2 DEF LeaveDelete, At, Request, ChatsInv, ChatsTypeOK
  <2> QED BY <1>4, <1>13, <2>3, EasyAskedOK DEF LeaveDelete, At
<1>14. CASE LeaveCommit(p)
  BY <1>2, <1>4, <1>14, EasyAskedOK DEF LeaveCommit, At
<1>15. CASE PurgeDelete(p)
  BY <1>2, <1>4, <1>15, EasyAskedOK DEF PurgeDelete, At
<1>16. CASE Announce(p)
  <2>1. PICK step : step = AfterEvent(p)
    OBVIOUS
  <2>2. Goes(p, step) /\ UNCHANGED <<chat, raced>> /\ req[p].step = "announce" /\ req[p].op # "none"
    BY <1>0, <1>16, <2>1, RequestTypes DEF Announce, Telling
  <2>3. /\ req'[p].op = req[p].op /\ req'[p].chat = c /\ req'[p].step = step
        /\ req'[p].timer = req[p].timer
    BY <1>2, <2>2
  <2>4. /\ step \in {"delete", "note", "done"}
        /\ step = "delete" <=> req[p].op \in {"reject", "destroy"}
        /\ step = "note" <=> req[p].op = "timer"
    BY <2>1 DEF AfterEvent
  <2>5. (req[p].op = "timer" /\ chat[c] # Gone => chat[c].kind = "secret" /\ (chat[c].timer = req[p].timer \/ "timer" \in raced))
        /\ (req[p].op = "accept" /\ chat[c] # Gone => chat[c].enc)
        /\ (req[p].op \in {"reject", "destroy"} => chat[c].kind # "group")
    BY <1>0, <2>2 DEF AskedOK, Live
  <2> QED BY <1>4, <2>2, <2>3, <2>4, <2>5 DEF AskedOK, Live
<1>17. CASE Note(p)
  <2>1. /\ req'[p].op = "timer" /\ req'[p].chat = c /\ req'[p].step = "done"
        /\ req'[p].timer = req[p].timer /\ UNCHANGED <<chat, raced>> /\ At(p, "timer", "note")
    BY <1>2, <1>17 DEF Note, At
  <2>2. chat[c] # Gone => chat[c].kind = "secret" /\ (chat[c].timer = req[p].timer \/ "timer" \in raced)
    BY <1>0, <2>1 DEF AskedOK, Live, At
  <2> QED BY <1>4, <2>1, <2>2 DEF AskedOK, Live, At
<1> QED BY <1>5, <1>6, <1>7, <1>8, <1>9, <1>10, <1>11, <1>12, <1>13, <1>14, <1>15, <1>16, <1>17 DEF Handles

LEMMA HandlerInbox ==
  ASSUME NEW p, Handles(p)
  PROVE  /\ UNCHANGED online
         /\ UNCHANGED inbox \/ Announce(p) \/ Note(p)
BY DEF Handles, DirectInsert, DirectLost, AddInsert, SecretInsert, AcceptUpdate, RejectDelete,
       TimerUpdate, DestroyDelete, LeaveDelete, LeaveCommit, PurgeDelete, Announce, Note

LEMMA ServedIsNext ==
  ASSUME ChatsAssumption, ChatsInv, NEW p \in Pages, Served(p) \/ Plugged(p) \/ UNCHANGED vars
  PROVE  [Next]_vars
<1>1. 1 .. made \subseteq ChatIds
  BY DEF ChatsInv, ChatsTypeOK, ChatIds, ChatsAssumption
<1>2. ASSUME Wishes(p, Users, 1 .. made, Users) PROVE Wishes(p, Users, ChatIds, Users)
  BY <1>1, <1>2 DEF Wishes
<1> QED BY <1>2 DEF Served, Plugged, Next

LEMMA ServedOK ==
  ASSUME ChatsAssumption, ServerOK, NEW p \in Pages, Served(p) \/ Plugged(p) \/ UNCHANGED vars
  PROVE  ServerOK' /\ Moves /\ \A c \in ChatIds : Caused(p, c)
<1>0. ChatsInv /\ SharingInv /\ \A q \in Pages : AskedOK(q)
  BY DEF ServerOK, SharingInv
<1>1. SharingInv' /\ ChatsInv' /\ made' \in Nat
  BY <1>0, ServedIsNext, SharingStep DEF SharingInv, ChatsInv, ChatsTypeOK
<1>2. Moves /\ \A c \in ChatIds : Caused(p, c)
  BY <1>0, ServedMoves, ServedCauses
<1>3. PlainOK'
  BY <1>2, PlainMoves
<1>4. ASSUME NEW q \in Pages PROVE AskedOK(q)'
  <2>1. CASE Plugged(p) \/ UNCHANGED vars
    <3>1. UNCHANGED <<chat, made, req, raced>>
      BY <2>1 DEF Plugged, Connect, HangUp, Take, vars
    <3> QED BY <1>0, <3>1 DEF AskedOK, Live
  <2>2. CASE Served(p) /\ q # p
    <3>1. req'[q] = req[q]
      <4>1. CASE Wishes(p, Users, 1 .. made, Users)
        BY <1>0, <2>2, <4>1, WishKeeps
      <4>2. CASE Return(p)
        BY <1>0, <2>2, <4>2 DEF Return, ChatsInv, ChatsTypeOK
      <4>3. CASE Handles(p)
        BY <1>0, <2>2, <4>3 DEF Handles, DirectInsert, DirectLost, AddInsert, SecretInsert, AcceptUpdate,
           RejectDelete, TimerUpdate, DestroyDelete, LeaveDelete, LeaveCommit, PurgeDelete, Announce, Note,
           Goes, GoesOn, ChatsInv, ChatsTypeOK
      <4> QED BY <2>2, <4>1, <4>2, <4>3 DEF Served
    <3> QED BY <1>1, <1>2, <2>2, <3>1, OthersAskedOK
  <2>3. CASE Served(p) /\ q = p
    <3>1. CASE Return(p)
      <4>1. req'[p] = Idle
        BY <1>0, <3>1 DEF Return, ChatsInv, ChatsTypeOK
      <4>2. NoChat <= made'
        BY <1>1 DEF NoChat
      <4> QED BY <2>3, <4>1, <4>2, EasyAskedOK DEF Idle
    <3> QED BY <1>1, <1>2, <2>3, <3>1, WishAskedOK, HandlerAskedOK DEF Served
  <2> QED BY <2>1, <2>2, <2>3
<1>5. EventsOK'
  <2>1. CASE UNCHANGED inbox
    <3>1. ASSUME NEW q \in Pages, NEW i \in DOMAIN inbox[q], NEW m, m = inbox[q][i] PROVE EventOK(m)'
      <4>1. m \in Events /\ EventOK(m)
        BY <1>0, <3>1 DEF ServerOK, EventsOK, ChatsInv, ChatsTypeOK
      <4> QED BY <1>0, <1>1, <1>2, <4>1, EventMoves
    <3> QED BY <2>1, <3>1 DEF EventsOK
  <2>2. CASE Announce(p)
    <3>1. /\ req[p].step = "announce" /\ req[p].op \in Telling /\ UNCHANGED <<chat, made>>
          /\ Broadcast(Told(p), Says[req[p].op], req[p].chat, req[p].timer)
      BY <1>0, <2>2, RequestTypes DEF Announce
    <3>2. PICK m : m = [type |-> Says[req[p].op], chat |-> req[p].chat, timer |-> req[p].timer]
      OBVIOUS
    <3>3. m.chat = req[p].chat /\ m.type = Says[req[p].op]
      BY <3>2
    <3>4. (m.type = "e2e_accepted" => req[p].op = "accept") /\ (m.type = "timer" => req[p].op = "timer")
      BY <3>1, <3>3 DEF Says, Telling
    <3>5. EventOK(m)
      BY <1>0, <3>1, <3>3, <3>4 DEF AskedOK, EventOK
    <3> QED BY <1>0, <3>1, <3>2, <3>5, BroadcastEvents DEF ServerOK
  <2>3. CASE Note(p)
    <3>1. /\ At(p, "timer", "note") /\ UNCHANGED <<chat, made>>
          /\ Broadcast(chat[req[p].chat].members, "message", req[p].chat, 0)
      BY <2>3 DEF Note
    <3>2. PICK m : m = [type |-> "message", chat |-> req[p].chat, timer |-> 0]
      OBVIOUS
    <3>3. EventOK(m)
      BY <1>0, <3>1, <3>2 DEF AskedOK, EventOK, At
    <3> QED BY <1>0, <3>1, <3>2, <3>3, BroadcastEvents DEF ServerOK
  <2>4. CASE HangUp(p) \/ Take(p)
    <3>1. UNCHANGED <<chat, made>>
      BY <2>4 DEF HangUp, Take
    <3>2. SUFFICES ASSUME NEW q \in Pages, NEW i \in DOMAIN inbox'[q], NEW m, m = inbox'[q][i]
                   PROVE  EventOK(m)'
      BY DEF EventsOK
    <3>3. inbox[q] \in Seq(Events)
      BY <1>0 DEF ChatsInv, ChatsTypeOK
    <3>4. inbox'[q] = inbox[q] \/ inbox'[q] = << >> \/ (inbox[q] # << >> /\ inbox'[q] = Tail(inbox[q]))
      BY <1>0, <2>4 DEF HangUp, Take, ChatsInv, ChatsTypeOK
    <3>5. \E j \in DOMAIN inbox[q] : m = inbox[q][j]
      <4>1. CASE inbox[q] # << >> /\ inbox'[q] = Tail(inbox[q])
        <5>1. i + 1 \in DOMAIN inbox[q] /\ m = inbox[q][i + 1]
          BY <3>2, <3>3, <4>1
        <5> QED BY <5>1
      <4> QED BY <3>2, <3>3, <3>4, <4>1
    <3>6. EventOK(m)
      BY <3>5 DEF ServerOK, EventsOK
    <3> QED BY <3>1, <3>6 DEF EventOK, Live
  <2>5. UNCHANGED inbox \/ Announce(p) \/ Note(p) \/ HangUp(p) \/ Take(p)
    BY <1>0, HandlerInbox, WishKeeps DEF Served, Plugged, Return, Connect, vars
  <2> QED BY <2>1, <2>2, <2>3, <2>4, <2>5
<1> QED BY <1>1, <1>2, <1>3, <1>4, <1>5 DEF ServerOK

-----------------------------------------------------------------------------
\* What is due to a page, and how the server keeps it.

Ends == {"chat_deleted", "e2e_rejected"}
Notices == {"e2e_request", "e2e_accepted", "e2e_rejected", "chat_deleted", "message"}

\* An event of type t about c is on its way to p, or q is about to send one.
Queued(p, c, t) == \E i \in DOMAIN inbox[p] : inbox[p][i].chat = c /\ inbox[p][i].type = t
WillTell(q, p, c, t) ==
  req[q].step = "announce" /\ req[q].chat = c /\ Says[req[q].op] = t /\ Owner[p] \in Told(q)
Due(p, c, t) == Queued(p, c, t) \/ \E q \in Pages : WillTell(q, p, c, t)

LEMMA ComingIsDue ==
  ASSUME NEW p, NEW c, NEW types
  PROVE  Coming(p, c, types) <=> \E t \in types : Due(p, c, t)
BY DEF Coming, Due, Queued, WillTell

\* A new timer is told of twice, and the second event makes the page load the list.
TimerOnWay(p, c) ==
  IsMember(p, c) /\ \E q \in Pages :
    req[q].op = "timer" /\ req[q].step \in {"announce", "note"} /\ req[q].chat = c

\* Members of a chat whose end has been announced have been told.
Warned(p, c) == c \in Doomed /\ IsMember(p, c) => \E t \in Ends : Queued(p, c, t)

\* Who is told of the end of a chat is who is in it, unless somebody joined in between.
EndingOK(q) ==
  LET c == req[q].chat IN
  c \notin early =>
    /\ At(q, "purge", "delete") => chat[c].members \subseteq req[q].whom
    /\ At(q, "leave", "commit") /\ req[q].whom = {} => chat[c].members \subseteq {Owner[q]}

\* What a step of the server does to what p has to hear of c.
StaysDue(p, c) == \A t : Due(p, c, t) /\ (IsMember(p, c)' \/ ~IsMember(p, c)) => Due(p, c, t)'
StaysOnWay(p, c) == TimerOnWay(p, c) /\ IsMember(p, c)' => TimerOnWay(p, c)' \/ Due(p, c, "message")'
StaysWarned(p, c) == Warned(p, c) => Warned(p, c)'
TellsLoss(p, c) ==
  IsMember(p, c) /\ ~IsMember(p, c)' /\ c \notin early /\ Warned(p, c) => \E t \in Ends : Due(p, c, t)'
TellsChange(p, c) ==
  IsMember(p, c) /\ IsMember(p, c)' =>
    /\ chat'[c].enc # chat[c].enc => Due(p, c, "e2e_accepted")'
    /\ chat'[c].timer # chat[c].timer => Due(p, c, "timer")' /\ TimerOnWay(p, c)'
TellsNew(p, c) ==
  ~IsMember(p, c) /\ IsMember(p, c)' =>
    \/ c <= made /\ chat[c].kind = "group" /\ chat'[c].kind = "group"
    \/ c > made /\ (chat'[c].kind = "secret" => Due(p, c, "e2e_request")')

Turns(p, c) ==
  /\ StaysDue(p, c) /\ StaysOnWay(p, c) /\ StaysWarned(p, c)
  /\ TellsLoss(p, c) /\ TellsChange(p, c) /\ TellsNew(p, c)

\* Whoever was going to tell p still is, unless p is in the chat no more.
LEMMA StillTells ==
  ASSUME NEW r \in Pages, req'[r] = req[r], NEW p \in Pages, NEW c, NEW t, WillTell(r, p, c, t),
         IsMember(p, c)' \/ ~IsMember(p, c)
  PROVE  WillTell(r, p, c, t)'
<1>1. CASE req[r].op \in {"leave", "purge"}
  BY <1>1 DEF WillTell, Told
<1>2. CASE req[r].op \notin {"leave", "purge"}
  <2>1. Told(r) = chat[c].members /\ Told(r)' = chat'[c].members
    BY <1>2 DEF Told, WillTell
  <2> QED BY <2>1 DEF WillTell, IsMember
<1> QED BY <1>1, <1>2

\* A step that sends nothing.
LEMMA CalmStays ==
  ASSUME NEW p \in Pages, NEW q \in Pages, NEW c, inbox'[p] = inbox[p],
         \A r \in Pages \ {q} : req'[r] = req[r], req[q].step \notin {"announce", "note"}
  PROVE  StaysDue(p, c) /\ StaysOnWay(p, c)
<1>1. ASSUME NEW t, Due(p, c, t), IsMember(p, c)' \/ ~IsMember(p, c) PROVE Due(p, c, t)'
  <2>1. CASE Queued(p, c, t)
    BY <2>1 DEF Queued, Due
  <2>2. CASE \E r \in Pages : WillTell(r, p, c, t)
    <3>1. PICK r \in Pages : WillTell(r, p, c, t)
      BY <2>2
    <3>2. r # q
      BY <3>1 DEF WillTell
    <3> QED BY <1>1, <3>1, <3>2, StillTells DEF Due
  <2> QED BY <1>1, <2>1, <2>2 DEF Due
<1>2. ASSUME TimerOnWay(p, c), IsMember(p, c)' PROVE TimerOnWay(p, c)'
  BY <1>2 DEF TimerOnWay
<1> QED BY <1>1, <1>2 DEF StaysDue, StaysOnWay

LEMMA CalmTurns ==
  ASSUME ChatsAssumption, ServerOK, NEW p \in Pages, NEW q \in Pages, NEW c \in ChatIds, inbox'[p] = inbox[p],
         \A r \in Pages \ {q} : req'[r] = req[r], req[q].step \notin {"announce", "note"},
         ~(req'[q].op \in {"destroy", "reject"} /\ req'[q].step = "delete"),
         Caused(q, c), EndingOK(q)
  PROVE  Turns(p, c)
<1>0. /\ ChatsInv /\ made \in Nat /\ c \in Nat /\ \A r \in Pages : AskedOK(r)
      /\ (c > made => chat[c] = Gone)
  BY RequestTypes DEF ServerOK, SharingInv, ChatIds, ChatsInv, ChatsTypeOK
<1>1. IsMember(p, c) => chat[c] # Gone /\ c <= made
  BY <1>0 DEF IsMember, Gone
<1>2. IsMember(p, c)' => chat'[c] # Gone
  BY DEF IsMember, Gone
<1>3. TellsLoss(p, c)
  <2>1. SUFFICES ASSUME IsMember(p, c), ~IsMember(p, c)', c \notin early, Warned(p, c)
                 PROVE  \E t \in Ends : Due(p, c, t)'
    BY DEF TellsLoss
  <2>2. Owner[p] \in chat[c].members \ chat'[c].members
    BY <2>1 DEF IsMember
  <2>3. req[q].chat = c
    BY <2>2 DEF Caused
  <2>4. CASE At(q, "leave", "commit") /\ Tells(q) /\ (Owner[p] = Owner[q] \/ req[q].whom = {})
    <3>1. Owner[p] = Owner[q]
      BY <2>1, <2>2, <2>3, <2>4 DEF EndingOK
    <3>2. WillTell(q, p, c, "chat_deleted")'
      BY <2>3, <2>4, <3>1 DEF WillTell, Tells, Told, Says, At
    <3> QED BY <3>2 DEF Due, Ends
  <2>5. CASE At(q, "purge", "delete") /\ Tells(q)
    <3>1. Owner[p] \in req[q].whom
      BY <2>1, <2>2, <2>3, <2>5 DEF EndingOK
    <3>2. WillTell(q, p, c, "chat_deleted")'
      BY <2>3, <2>5, <3>1 DEF WillTell, Tells, Told, Says, At
    <3> QED BY <3>2 DEF Due, Ends
  <2>6. CASE At(q, "destroy", "delete") \/ At(q, "reject", "delete")
    <3>1. c \in Doomed
      BY <2>3, <2>6 DEF Doomed, At
    <3> QED BY <2>1, <3>1 DEF Warned, Due, Queued
  <2> QED BY <2>2, <2>4, <2>5, <2>6 DEF Caused
<1>4. TellsChange(p, c)
  <2>1. SUFFICES ASSUME IsMember(p, c), IsMember(p, c)'
                 PROVE  /\ chat'[c].enc # chat[c].enc => Due(p, c, "e2e_accepted")'
                        /\ chat'[c].timer # chat[c].timer => Due(p, c, "timer")' /\ TimerOnWay(p, c)'
    BY DEF TellsChange
  <2>2. ASSUME chat'[c].enc # chat[c].enc PROVE Due(p, c, "e2e_accepted")'
    <3>1. At(q, "accept", "update") /\ req[q].chat = c /\ Tells(q)
      BY <1>1, <1>2, <2>1, <2>2 DEF Caused
    <3>2. WillTell(q, p, c, "e2e_accepted")'
      BY <2>1, <3>1 DEF WillTell, Tells, Told, Says, At, IsMember
    <3> QED BY <3>2 DEF Due
  <2>3. ASSUME chat'[c].timer # chat[c].timer PROVE Due(p, c, "timer")' /\ TimerOnWay(p, c)'
    <3>1. At(q, "timer", "update") /\ req[q].chat = c /\ Tells(q)
      BY <1>1, <1>2, <2>1, <2>3 DEF Caused
    <3>2. WillTell(q, p, c, "timer")'
      BY <2>1, <3>1 DEF WillTell, Tells, Told, Says, At, IsMember
    <3>3. TimerOnWay(p, c)'
      BY <2>1, <3>1 DEF TimerOnWay, Tells, At
    <3> QED BY <3>2, <3>3 DEF Due
  <2> QED BY <2>2, <2>3
<1>5. TellsNew(p, c)
  <2>1. SUFFICES ASSUME ~IsMember(p, c), IsMember(p, c)'
                 PROVE  \/ c <= made /\ chat[c].kind = "group" /\ chat'[c].kind = "group"
                        \/ c > made /\ (chat'[c].kind = "secret" => Due(p, c, "e2e_request")')
    BY DEF TellsNew
  <2>2. ~(chat'[c].members \subseteq chat[c].members)
    BY <2>1 DEF IsMember
  <2>3. CASE c <= made
    BY <2>2, <2>3 DEF Caused
  <2>4. CASE c > made
    <3>1. ASSUME chat'[c].kind = "secret" PROVE Due(p, c, "e2e_request")'
      <4>1. req'[q].step = "announce" /\ req'[q].op = "secret" /\ req'[q].chat = c
        BY <1>2, <2>1, <2>4, <3>1 DEF Caused
      <4>2. WillTell(q, p, c, "e2e_request")'
        BY <2>1, <4>1 DEF WillTell, Told, Says, IsMember
      <4> QED BY <4>2 DEF Due
    <3> QED BY <2>4, <3>1
  <2> QED BY <1>0, <2>3, <2>4
<1>6. StaysWarned(p, c)
  <2>1. SUFFICES ASSUME Warned(p, c), c \in Doomed', IsMember(p, c)'
                 PROVE  \E t \in Ends : Queued(p, c, t)'
    BY DEF StaysWarned, Warned
  <2>2. PICK r \in Pages : req'[r].chat = c /\ req'[r].op \in {"destroy", "reject"} /\ req'[r].step = "delete"
    BY <2>1 DEF Doomed
  <2>3. r # q /\ req'[r] = req[r]
    BY <2>2
  <2>4. c \in Doomed /\ c <= made /\ chat[c].kind # "group"
    BY <1>0, <2>2, <2>3 DEF Doomed, AskedOK
  <2>5. IsMember(p, c)
    BY <1>0, <1>5, <2>1, <2>4 DEF TellsNew
  <2> QED BY <2>1, <2>4, <2>5 DEF Warned, Queued
<1> QED BY <1>3, <1>4, <1>5, <1>6, CalmStays DEF Turns

\* A broadcast reaches whoever is connected and among those it is for.
LEMMA BroadcastQueues ==
  ASSUME ChatsInv, NEW whom, NEW type, NEW d, NEW timer, Broadcast(whom, type, d, timer),
         NEW p \in Pages, p \in online
  PROVE  /\ \A c, t : Queued(p, c, t) => Queued(p, c, t)'
         /\ Owner[p] \in whom => Queued(p, d, type)'
<1>1. PICK m : m = [type |-> type, chat |-> d, timer |-> timer]
  OBVIOUS
<1>2. inbox[p] \in Seq(Events)
  BY DEF ChatsInv, ChatsTypeOK
<1>3. inbox'[p] = inbox[p] \/ inbox'[p] = Append(inbox[p], m)
  BY <1>1 DEF Broadcast
<1>4. \A i \in DOMAIN inbox[p] : i \in DOMAIN inbox'[p] /\ inbox'[p][i] = inbox[p][i]
  BY <1>2, <1>3
<1>5. ASSUME Owner[p] \in whom PROVE Queued(p, d, type)'
  <2>1. inbox'[p] = Append(inbox[p], m)
    BY <1>1, <1>5 DEF Broadcast
  <2>2. Len(inbox[p]) + 1 \in DOMAIN inbox'[p] /\ inbox'[p][Len(inbox[p]) + 1] = m
    BY <1>2, <2>1
  <2>3. m.chat = d /\ m.type = type
    BY <1>1
  <2> QED BY <2>2, <2>3 DEF Queued
<1> QED BY <1>4, <1>5 DEF Queued

\* The chats stay as they are.
LEMMA SameTurns ==
  ASSUME UNCHANGED chat, NEW p, NEW c, StaysDue(p, c), StaysOnWay(p, c), StaysWarned(p, c)
  PROVE  Turns(p, c)
<1>1. IsMember(p, c)' <=> IsMember(p, c)
  BY DEF IsMember
<1> QED BY <1>1 DEF Turns, TellsLoss, TellsChange, TellsNew

LEMMA AnnounceTurns ==
  ASSUME ChatsAssumption, ServerOK, NEW p \in Pages, p \in online, NEW q \in Pages, Announce(q), NEW c \in ChatIds
  PROVE  Turns(p, c)
<1>0. ChatsInv /\ req[q].op \in Telling /\ req[q].step = "announce" /\ UNCHANGED chat
      /\ Broadcast(Told(q), Says[req[q].op], req[q].chat, req[q].timer)
  BY RequestTypes DEF ServerOK, SharingInv, Announce
<1>a. PICK whom, type, d, timer : whom = Told(q) /\ type = Says[req[q].op] /\ d = req[q].chat /\ timer = req[q].timer
  OBVIOUS
<1>b. Broadcast(whom, type, d, timer)
  BY <1>0, <1>a
<1>1. /\ \A e, t : Queued(p, e, t) => Queued(p, e, t)'
      /\ Owner[p] \in whom => Queued(p, d, type)'
  BY <1>0, <1>b, BroadcastQueues
<1>2. PICK step : step = AfterEvent(q)
  OBVIOUS
<1>3. /\ req'[q].op = req[q].op /\ req'[q].chat = d /\ req'[q].step = step
      /\ \A r \in Pages \ {q} : req'[r] = req[r]
  BY <1>0, <1>a, <1>2, GoesFields DEF Announce, Telling
<1>4. IsMember(p, c)' <=> IsMember(p, c)
  BY <1>0 DEF IsMember
<1>5. StaysDue(p, c)
  <2>1. ASSUME NEW t, NEW r \in Pages, WillTell(r, p, c, t) PROVE Due(p, c, t)'
    <3>1. CASE r = q
      <4>1. c = d /\ t = type /\ Owner[p] \in whom
        BY <1>a, <2>1, <3>1 DEF WillTell
      <4> QED BY <1>1, <4>1 DEF Due
    <3>2. CASE r # q
      BY <1>3, <1>4, <2>1, <3>2, StillTells DEF Due
    <3> QED BY <3>1, <3>2
  <2> QED BY <1>1, <2>1 DEF StaysDue, Due
<1>6. StaysOnWay(p, c)
  <2>1. req[q].op = "timer" => step = "note"
    BY <1>2 DEF AfterEvent
  <2> QED BY <1>3, <1>4, <1>a, <2>1 DEF StaysOnWay, TimerOnWay
<1>7. StaysWarned(p, c)
  <2>1. SUFFICES ASSUME Warned(p, c), c \in Doomed', IsMember(p, c)
                 PROVE  \E t \in Ends : Queued(p, c, t)'
    BY <1>4 DEF StaysWarned, Warned
  <2>2. PICK r \in Pages : req'[r].chat = c /\ req'[r].op \in {"destroy", "reject"} /\ req'[r].step = "delete"
    BY <2>1 DEF Doomed
  <2>3. CASE r = q
    <3>1. d = c /\ req[q].op \in {"destroy", "reject"}
      BY <1>3, <2>2, <2>3
    <3>2. Owner[p] \in whom /\ type \in Ends
      BY <1>a, <2>1, <3>1 DEF Told, IsMember, Says, Ends
    <3> QED BY <1>1, <3>1, <3>2
  <2>4. CASE r # q
    <3>1. c \in Doomed
      BY <1>3, <2>2, <2>4 DEF Doomed
    <3> QED BY <1>1, <2>1, <3>1 DEF Warned
  <2> QED BY <2>3, <2>4
<1> QED BY <1>0, <1>5, <1>6, <1>7, SameTurns

LEMMA NoteTurns ==
  ASSUME ChatsAssumption, ServerOK, NEW p \in Pages, p \in online, NEW q \in Pages, Note(q), NEW c \in ChatIds
  PROVE  Turns(p, c)
<1>0. ChatsInv /\ At(q, "timer", "note") /\ UNCHANGED chat
      /\ Broadcast(chat[req[q].chat].members, "message", req[q].chat, 0)
  BY DEF ServerOK, SharingInv, Note
<1>a. PICK whom, type, d, timer : whom = chat[req[q].chat].members /\ type = "message" /\ d = req[q].chat /\ timer = 0
  OBVIOUS
<1>b. Broadcast(whom, type, d, timer)
  BY <1>0, <1>a
<1>1. /\ \A e, t : Queued(p, e, t) => Queued(p, e, t)'
      /\ Owner[p] \in whom => Queued(p, d, type)'
  BY <1>0, <1>b, BroadcastQueues
<1>3. /\ req'[q].op = "timer" /\ req'[q].chat = d /\ req'[q].step = "done"
      /\ \A r \in Pages \ {q} : req'[r] = req[r]
  BY <1>0, <1>a, GoesFields DEF Note, At
<1>4. IsMember(p, c)' <=> IsMember(p, c)
  BY <1>0 DEF IsMember
<1>5. StaysDue(p, c)
  <2>1. ASSUME NEW t, NEW r \in Pages, WillTell(r, p, c, t) PROVE Due(p, c, t)'
    <3>1. r # q
      BY <1>0, <2>1 DEF WillTell, At
    <3> QED BY <1>3, <1>4, <2>1, <3>1, StillTells DEF Due
  <2> QED BY <1>1, <2>1 DEF StaysDue, Due
<1>6. StaysOnWay(p, c)
  <2>1. ASSUME IsMember(p, c), NEW r \in Pages, req[r].op = "timer", req[r].step \in {"announce", "note"},
               req[r].chat = c
        PROVE  TimerOnWay(p, c)' \/ Due(p, c, "message")'
    <3>1. CASE r = q
      <4>1. Queued(p, d, type)' /\ d = c
        BY <1>1, <1>a, <2>1, <3>1 DEF IsMember
      <4> QED BY <1>a, <4>1 DEF Due
    <3>2. CASE r # q
      BY <1>3, <1>4, <2>1, <3>2 DEF TimerOnWay
    <3> QED BY <3>1, <3>2
  <2> QED BY <2>1 DEF StaysOnWay, TimerOnWay
<1>7. StaysWarned(p, c)
  <2>1. c \in Doomed' => c \in Doomed
    BY <1>3 DEF Doomed
  <2> QED BY <1>1, <1>4, <2>1 DEF StaysWarned, Warned
<1> QED BY <1>0, <1>5, <1>6, <1>7, SameTurns

\* What the handler that takes a step does to requests, unless it sends an event.
LEMMA HandlerRequests ==
  ASSUME ChatsInv, NEW q \in Pages, Handles(q)
  PROVE  /\ \A r \in Pages \ {q} : req'[r] = req[r]
         /\ \/ Announce(q) \/ Note(q)
            \/ /\ inbox' = inbox /\ req[q].step \notin {"announce", "note"}
               /\ req'[q].op = req[q].op /\ req'[q].step \in {"done", "lost", "error", "announce", "commit"}
<1>1. \A step : req[q].op # "none" /\ Goes(q, step) =>
        req'[q].op = req[q].op /\ req'[q].step = step /\ \A r \in Pages \ {q} : req'[r] = req[r]
  BY GoesFields
<1>2. \A step, c : req[q].op # "none" /\ GoesOn(q, step, c) =>
        req'[q].op = req[q].op /\ req'[q].step = step /\ \A r \in Pages \ {q} : req'[r] = req[r]
  BY GoesOnFields
<1>3. CASE DirectInsert(q) \/ DirectLost(q) \/ SecretInsert(q)
  BY <1>1, <1>2, <1>3 DEF DirectInsert, DirectLost, SecretInsert, At
<1>4. CASE AddInsert(q) \/ AcceptUpdate(q) \/ RejectDelete(q) \/ TimerUpdate(q)
  BY <1>1, <1>4 DEF AddInsert, AcceptUpdate, RejectDelete, TimerUpdate, At
<1>5. CASE DestroyDelete(q) \/ LeaveCommit(q) \/ PurgeDelete(q)
  BY <1>1, <1>5 DEF DestroyDelete, LeaveCommit, PurgeDelete, At
<1>6. CASE LeaveDelete(q)
  <2>1. req \in [Pages -> Request \cup {Idle}] /\ req[q] \in Request
    BY <1>6 DEF LeaveDelete, At, ChatsInv, ChatsTypeOK, Idle
  <2>2. PICK whom : req' = [req EXCEPT ![q].step = "commit", ![q].whom = whom]
    BY <1>6 DEF LeaveDelete
  <2>3. req'[q].op = req[q].op /\ req'[q].step = "commit" /\ \A r \in Pages \ {q} : req'[r] = req[r]
    BY <2>1, <2>2 DEF Request
  <2> QED BY <1>6, <2>3 DEF LeaveDelete, At
<1>7. CASE Announce(q)
  <2>1. req[q].op # "none"
    BY <1>7, RequestTypes DEF Announce, Telling
  <2> QED BY <1>1, <1>7, <2>1 DEF Announce
<1>8. CASE Note(q)
  BY <1>1, <1>8 DEF Note, At
<1> QED BY <1>3, <1>4, <1>5, <1>6, <1>7, <1>8 DEF Handles

\* Whatever the server does, and whoever else connects or is told, p hears of it.
LEMMA ServedTurns ==
  ASSUME ChatsAssumption, ServerOK, NEW p \in Pages, p \in online, NEW q \in Pages,
         Served(q) \/ (Plugged(q) /\ q # p) \/ UNCHANGED vars, EndingOK(q), NEW c \in ChatIds
  PROVE  Turns(p, c)
<1>0. ChatsInv /\ Caused(q, c)
  BY ServedCauses DEF ServerOK, SharingInv
<1>1. CASE Handles(q)
  BY <1>0, <1>1, HandlerRequests, AnnounceTurns, NoteTurns, CalmTurns
<1>2. CASE Wishes(q, Users, 1 .. made, Users)
  <2>1. /\ req[q] = Idle /\ inbox' = inbox /\ \A r \in Pages \ {q} : req'[r] = req[r]
    BY <1>0, <1>2, WishKeeps
  <2>2. ~(req'[q].op \in {"destroy", "reject"} /\ req'[q].step = "delete")
    <3>1. \A op, d, whom, timer, step : Asks(q, op, d, whom, timer, step) => req'[q].op = op /\ req'[q].step = step
      BY <1>0, AsksFields
    <3>2. ASSUME NEW v, CreateDirect(q, v) \/ StartSecret(q, v)
          PROVE  req'[q].op \notin {"destroy", "reject"}
      BY <3>1, <3>2 DEF CreateDirect, StartSecret
    <3>3. ASSUME NEW members, CreateGroup(q, members)
          PROVE  req'[q].op \notin {"destroy", "reject"}
      BY <3>1, <3>3 DEF CreateGroup
    <3>4. ASSUME NEW d, Accept(q, d) \/ Leave(q, d) \/ Purge(q, d)
          PROVE  req'[q].op \notin {"destroy", "reject"}
      BY <3>1, <3>4 DEF Accept, Leave, Purge
    <3>5. ASSUME NEW d, Reject(q, d) \/ Destroy(q, d)
          PROVE  req'[q].step # "delete"
      BY <3>1, <3>5 DEF Reject, Destroy
    <3>6. ASSUME NEW d, NEW v, AddMember(q, d, v) \/ SetTimer(q, d, v)
          PROVE  req'[q].op \notin {"destroy", "reject"}
      BY <3>1, <3>6 DEF AddMember, SetTimer
    <3> QED BY <1>2, <3>2, <3>3, <3>4, <3>5, <3>6 DEF Wishes
  <2> QED BY <1>0, <2>1, <2>2, CalmTurns DEF Idle
<1>3. CASE Return(q)
  <2>1. /\ req[q].step \in Ended /\ inbox' = inbox /\ req'[q] = Idle /\ \A r \in Pages \ {q} : req'[r] = req[r]
    BY <1>0, <1>3 DEF Return, ChatsInv, ChatsTypeOK
  <2> QED BY <1>0, <2>1, CalmTurns DEF Idle, Ended
<1>4. CASE (Plugged(q) /\ q # p) \/ UNCHANGED vars
  <2>1. UNCHANGED <<chat, req>> /\ inbox'[p] = inbox[p]
    BY <1>0, <1>4 DEF Plugged, Connect, HangUp, Take, vars, ChatsInv, ChatsTypeOK
  <2>2. IsMember(p, c)' <=> IsMember(p, c)
    BY <2>1 DEF IsMember
  <2>3. \A t : Due(p, c, t) => Due(p, c, t)'
    BY <2>1, <2>2, StillTells DEF Due, Queued
  <2>4. StaysDue(p, c) /\ StaysOnWay(p, c) /\ StaysWarned(p, c)
    BY <2>1, <2>2, <2>3 DEF StaysDue, StaysOnWay, StaysWarned, TimerOnWay, Warned, Doomed, Queued
  <2> QED BY <2>1, <2>4, SameTurns
<1> QED BY <1>1, <1>2, <1>3, <1>4 DEF Served

-----------------------------------------------------------------------------
\* What a page shows is what is stored, or it is going to be told.

\* An event that makes p load the list again is due.
Refetch(p, c) == (\E t \in Notices : Due(p, c, t)) \/ TimerOnWay(p, c)
\* The page has taken the row of c away and waits for the server to do the same.
Removing(p, c) ==
  /\ req[p].chat = c /\ req[p].op \in {"leave", "destroy"}
  /\ req[p].step \in {"announce", "delete", "commit", "error"}

Listed(p, c, row) ==
  /\ row # Gone => Current(p, c, row) \/ Refetch(p, c)
  /\ chat[c].kind = "secret" /\ IsMember(p, c) => row # Gone \/ Refetch(p, c) \/ Removing(p, c)

\* The list that p will show once the replies have come, unless one fails or comes late.
AllOld(p) == reply[p] = << >> \/ reply[p][Len(reply[p])].old
Newest(p) == IF AllOld(p) THEN list[p] ELSE reply[p][Len(reply[p])].rows
Stale(p) == loading[p] # << >> \/ (behind[p] /\ AllOld(p))
OldOK(p) == \A i, j \in DOMAIN reply[p] : i < j /\ reply[p][j].old => reply[p][i].old

ListOK(p) ==
  p \in mounted \cap online =>
    Stale(p) \/ \A c \in ChatIds \ early : Listed(p, c, Newest(p)[c]) /\ Warned(p, c)

Shown(p, c, row) ==
  IF IsMember(p, c)
  THEN /\ row.enc = chat[c].enc \/ Due(p, c, "e2e_accepted")
       /\ \/ row.timer = chat[c].timer \/ Due(p, c, "timer") \/ "timer" \in raced
          \/ req[p].op = "timer" /\ req[p].chat = c
  ELSE \E t \in Ends : Due(p, c, t)

OpenOK(p) ==
  p \in mounted \cap online /\ open[p] # Shut /\ ~outdated[p] /\ open[p].id \notin early =>
    Shown(p, open[p].id, open[p].row) /\ Warned(p, open[p].id)

\* A row is of a chat that was made, of its kind, and has nothing secret if it is not.
Fits(c, row) == c <= made /\ (Live(c) => row.kind = chat[c].kind)
Harmless(c, row) == Live(c) /\ chat[c].kind # "secret" => Plain(row)
RowFits(c, row) == row # Gone => Fits(c, row) /\ Harmless(c, row)
RowsFit(rows) == \A c \in ChatIds : RowFits(c, rows[c])
OpenFits(p) ==
  open[p] # Shut => Fits(open[p].id, open[p].row) /\ (outdated[p] \/ Harmless(open[p].id, open[p].row))
HoldsFit(p) ==
  /\ RowsFit(list[p])
  /\ \A i \in DOMAIN reply[p] : RowsFit(reply[p][i].rows)
  /\ OpenFits(p)

\* The last event about the timer of a chat tells how it is, or there is one to come.
TimerTold(p, i) ==
  LET c == inbox[p][i].chat IN
  inbox[p][i].type = "timer" /\ IsMember(p, c) /\ "timer" \notin raced =>
    \/ \E j \in DOMAIN inbox[p] : j > i /\ inbox[p][j].type = "timer" /\ inbox[p][j].chat = c
    \/ inbox[p][i].timer = chat[c].timer
    \/ \E q \in Pages : At(q, "timer", "announce") /\ req[q].chat = c
InboxOK(p) == (p \notin online => inbox[p] = << >>) /\ \A i \in DOMAIN inbox[p] : TimerTold(p, i)

\* A page changes the timer of a secret chat, and fails only when its user is in it no more.
OwnTimerOK(p) ==
  LET c == req[p].chat IN
  p \in mounted /\ req[p].op = "timer" =>
    c <= made /\ (Live(c) => chat[c].kind = "secret" /\ (req[p].step = "error" => ~IsMember(p, c)))

PageOK(p) == HoldsFit(p) /\ OldOK(p) /\ InboxOK(p) /\ EndingOK(p) /\ OwnTimerOK(p)
TruthOK(p) == ListOK(p) /\ OpenOK(p)
FlagsOK == DOMAIN behind = Pages /\ DOMAIN outdated = Pages
TruthInv == ListInv /\ ServerOK /\ FlagsOK /\ \A p \in Pages : PageOK(p) /\ TruthOK(p)

-----------------------------------------------------------------------------
\* What a step of the server leaves true of one row.

LEMMA RefetchStays ==
  ASSUME NEW p, NEW c, Turns(p, c), Refetch(p, c), c \notin early, Warned(p, c)
  PROVE  Refetch(p, c)'
<1>1. CASE IsMember(p, c)'
  <2>1. "message" \in Notices
    BY DEF Notices
  <2> QED BY <1>1, <2>1 DEF Turns, StaysDue, StaysOnWay, Refetch
<1>2. CASE IsMember(p, c) /\ ~IsMember(p, c)'
  <2>1. Ends \subseteq Notices
    BY DEF Ends, Notices
  <2> QED BY <1>2, <2>1 DEF Turns, TellsLoss, Refetch
<1>3. CASE ~IsMember(p, c)
  <2>1. ~TimerOnWay(p, c)
    BY <1>3 DEF TimerOnWay
  <2> QED BY <1>3, <2>1 DEF Turns, StaysDue, Refetch
<1> QED BY <1>1, <1>2, <1>3

LEMMA ListedStays ==
  ASSUME ChatsInv, Moves, NEW p, NEW c \in ChatIds, NEW row, c \notin early, Turns(p, c), Listed(p, c, row), Warned(p, c),
         Removing(p, c) /\ IsMember(p, c)' => Removing(p, c)' \/ Due(p, c, "chat_deleted")'
  PROVE  Listed(p, c, row)' /\ Warned(p, c)'
<1>0. /\ Ends \subseteq Notices /\ "e2e_accepted" \in Notices /\ "e2e_request" \in Notices
      /\ "chat_deleted" \in Notices
  BY DEF Ends, Notices
<1>1. ASSUME row # Gone PROVE Current(p, c, row)' \/ Refetch(p, c)'
  <2>1. CASE Refetch(p, c)
    BY <2>1, RefetchStays
  <2>2. CASE Current(p, c, row)
    <3>1. IsMember(p, c) /\ row.enc = chat[c].enc /\ row.timer = chat[c].timer
      BY <2>2 DEF Current
    <3>2. CASE ~IsMember(p, c)'
      BY <1>0, <3>1, <3>2 DEF Turns, TellsLoss, Refetch
    <3>3. CASE IsMember(p, c)' /\ chat'[c].enc = chat[c].enc /\ chat'[c].timer = chat[c].timer
      BY <3>1, <3>3 DEF Current
    <3>4. CASE IsMember(p, c)' /\ chat'[c].enc # chat[c].enc
      BY <1>0, <3>1, <3>4 DEF Turns, TellsChange, Refetch
    <3>5. CASE IsMember(p, c)' /\ chat'[c].timer # chat[c].timer
      BY <1>0, <3>1, <3>5 DEF Turns, TellsChange, Refetch
    <3> QED BY <3>2, <3>3, <3>4, <3>5
  <2> QED BY <1>1, <2>1, <2>2 DEF Listed
<1>2. ASSUME chat'[c].kind = "secret", IsMember(p, c)' PROVE row # Gone \/ Refetch(p, c)' \/ Removing(p, c)'
  <2>1. CASE ~IsMember(p, c)
    BY <1>0, <1>2, <2>1 DEF Turns, TellsNew, Refetch
  <2>2. CASE IsMember(p, c)
    <3>1. chat[c] # Gone /\ chat'[c] # Gone
      BY <1>2, <2>2 DEF IsMember, Gone
    <3>2. c <= made
      BY <3>1 DEF ChatsInv, ChatsTypeOK, ChatIds
    <3>3. chat[c].kind = "secret"
      BY <1>2, <3>1, <3>2 DEF Moves
    <3>4. row # Gone \/ Refetch(p, c) \/ Removing(p, c)
      BY <2>2, <3>3 DEF Listed
    <3>5. Refetch(p, c) => Refetch(p, c)'
      BY RefetchStays
    <3> QED BY <1>0, <1>2, <3>4, <3>5 DEF Refetch
  <2> QED BY <2>1, <2>2
<1> QED BY <1>1, <1>2 DEF Listed, Turns, StaysWarned

LEMMA ShownStays ==
  ASSUME ChatsInv, ChatsInv', Moves, PlainOK', NEW p \in Pages, NEW c \in ChatIds, NEW row \in ChatRow, c \notin early,
         Turns(p, c), Shown(p, c, row), Warned(p, c), Fits(c, row), Harmless(c, row),
         req[p].op = "timer" /\ req[p].chat = c => req'[p].op = "timer" /\ req'[p].chat = c
  PROVE  Shown(p, c, row)' /\ Warned(p, c)'
<1>0. raced \subseteq raced' /\ StaysDue(p, c) /\ (c > made => ~(c <= made))
  BY DEF Moves, Turns, ChatsInv, ChatsTypeOK, ChatIds
<1>a. Warned(p, c)'
  BY DEF Turns, StaysWarned
<1>b. /\ \A t : Due(p, c, t) /\ (IsMember(p, c)' \/ ~IsMember(p, c)) => Due(p, c, t)'
      /\ IsMember(p, c) /\ ~IsMember(p, c)' => \E t \in Ends : Due(p, c, t)'
      /\ IsMember(p, c) /\ IsMember(p, c)' =>
           /\ chat'[c].enc # chat[c].enc => Due(p, c, "e2e_accepted")'
           /\ chat'[c].timer # chat[c].timer => Due(p, c, "timer")'
  BY DEF Turns, StaysDue, TellsLoss, TellsChange
<1>1. ASSUME IsMember(p, c), IsMember(p, c)' PROVE Shown(p, c, row)'
  <2>1. row.enc = chat[c].enc \/ Due(p, c, "e2e_accepted")
    BY <1>1 DEF Shown
  <2>2. \/ row.timer = chat[c].timer \/ Due(p, c, "timer") \/ "timer" \in raced
        \/ req[p].op = "timer" /\ req[p].chat = c
    BY <1>1 DEF Shown
  <2>3. row.enc = chat'[c].enc \/ Due(p, c, "e2e_accepted")'
    BY <1>1, <1>b, <2>1
  <2>4. \/ row.timer = chat'[c].timer \/ Due(p, c, "timer")' \/ "timer" \in raced'
        \/ req'[p].op = "timer" /\ req'[p].chat = c
    BY <1>0, <1>1, <1>b, <2>2
  <2> QED BY <1>1, <2>3, <2>4 DEF Shown
<1>2. ASSUME ~IsMember(p, c), IsMember(p, c)' PROVE Shown(p, c, row)'
  <2>1. chat[c].kind = "group" /\ chat'[c].kind = "group"
    BY <1>0, <1>2 DEF Turns, TellsNew, Fits
  <2>2. Plain(chat'[c]) /\ Plain(row)
    BY <2>1 DEF PlainOK, Harmless, Live, Gone
  <2>3. chat'[c] \in ChatRow
    BY <2>1 DEF ChatsInv, ChatsTypeOK, Gone
  <2>4. row.enc = chat'[c].enc /\ row.timer = chat'[c].timer
    BY <2>2, <2>3 DEF Plain, ChatRow
  <2> QED BY <1>2, <2>4 DEF Shown
<1>3. ASSUME ~IsMember(p, c)' PROVE Shown(p, c, row)'
  <2>1. \E t \in Ends : Due(p, c, t)'
    <3>1. CASE IsMember(p, c)
      BY <1>3, <1>b, <3>1
    <3>2. CASE ~IsMember(p, c)
      BY <1>b, <3>2 DEF Shown
    <3> QED BY <3>1, <3>2
  <2> QED BY <1>3, <2>1 DEF Shown
<1> QED BY <1>1, <1>2, <1>3, <1>a

LEMMA FitsStays ==
  ASSUME Moves, NEW c \in ChatIds, NEW row, Fits(c, row), made \in Nat, made' \in Nat
  PROVE  Fits(c, row)' /\ (Harmless(c, row) => Harmless(c, row)')
BY DEF Moves, Fits, Harmless, Live, ChatIds

LEMMA RowsFitStays ==
  ASSUME Moves, NEW rows, RowsFit(rows), made \in Nat, made' \in Nat
  PROVE  RowsFit(rows)'
BY FitsStays DEF RowsFit, RowFits

-----------------------------------------------------------------------------
\* What the server's steps leave true of requests and events.

LEMMA ServedOthers ==
  ASSUME ChatsAssumption, ChatsInv, NEW q \in Pages, Served(q) \/ Plugged(q) \/ UNCHANGED vars,
         NEW r \in Pages \ {q}
  PROVE  req'[r] = req[r]
<1>1. CASE Wishes(q, Users, 1 .. made, Users)
  BY <1>1, WishKeeps
<1>2. CASE Return(q)
  BY <1>2 DEF Return, ChatsInv, ChatsTypeOK
<1>3. CASE Handles(q)
  BY <1>3, HandlerRequests
<1>4. CASE Plugged(q) \/ UNCHANGED vars
  BY <1>4 DEF Plugged, Connect, HangUp, Take, vars
<1> QED BY <1>1, <1>2, <1>3, <1>4 DEF Served

\* The request that a page sends.
LEMMA WishEnding ==
  ASSUME ChatsAssumption, ServerOK, NEW p \in Pages, Wishes(p, Users, 1 .. made, Users)
  PROVE  EndingOK(p)'
<1>0. ChatsInv
  BY DEF ServerOK, SharingInv
<1>1. \A op, c, whom, timer, step : Asks(p, op, c, whom, timer, step) =>
        req'[p].op = op /\ req'[p].chat = c /\ req'[p].whom = whom /\ req'[p].step = step
  BY <1>0, AsksFields
<1>2. ASSUME req'[p].op # "purge", req'[p].step # "commit" PROVE EndingOK(p)'
  BY <1>2 DEF EndingOK, At
<1>3. ASSUME NEW v, CreateDirect(p, v) \/ StartSecret(p, v) PROVE EndingOK(p)'
  BY <1>1, <1>2, <1>3 DEF CreateDirect, StartSecret
<1>4. ASSUME NEW members, CreateGroup(p, members) PROVE EndingOK(p)'
  BY <1>1, <1>2, <1>4 DEF CreateGroup
<1>5. ASSUME NEW d, Accept(p, d) \/ Leave(p, d) \/ Reject(p, d) \/ Destroy(p, d) PROVE EndingOK(p)'
  BY <1>1, <1>2, <1>5 DEF Accept, Leave, Reject, Destroy
<1>6. ASSUME NEW d, NEW v, AddMember(p, d, v) \/ SetTimer(p, d, v) PROVE EndingOK(p)'
  BY <1>1, <1>2, <1>6 DEF AddMember, SetTimer
<1>7. ASSUME NEW d, Purge(p, d) PROVE EndingOK(p)'
  <2>1. PICK whom : whom = chat[d].members
    OBVIOUS
  <2>2. req'[p].op = "purge" /\ req'[p].chat = d /\ req'[p].whom = whom /\ UNCHANGED chat
    BY <1>1, <1>7, <2>1 DEF Purge
  <2> QED BY <2>1, <2>2 DEF EndingOK, At
<1> QED BY <1>3, <1>4, <1>5, <1>6, <1>7 DEF Wishes

\* The step of its handler.
LEMMA HandlerEnding ==
  ASSUME ChatsAssumption, ServerOK, NEW p \in Pages, Handles(p)
  PROVE  EndingOK(p)'
<1>0. ChatsInv
  BY DEF ServerOK, SharingInv
<1>1. \A step : req[p].op # "none" /\ Goes(p, step) => req'[p].op = req[p].op /\ req'[p].step = step
  BY <1>0, GoesFields
<1>2. \A step, c : req[p].op # "none" /\ GoesOn(p, step, c) => req'[p].op = req[p].op /\ req'[p].step = step
  BY <1>0, GoesOnFields
<1>3. ASSUME req'[p].step \in {"done", "lost", "error", "announce", "note"} PROVE EndingOK(p)'
  BY <1>3 DEF EndingOK, At
<1>4. CASE DirectInsert(p) \/ DirectLost(p) \/ SecretInsert(p)
  BY <1>1, <1>2, <1>3, <1>4 DEF DirectInsert, DirectLost, SecretInsert, At
<1>5. CASE AddInsert(p) \/ AcceptUpdate(p) \/ RejectDelete(p) \/ TimerUpdate(p)
  BY <1>1, <1>3, <1>5 DEF AddInsert, AcceptUpdate, RejectDelete, TimerUpdate, At
<1>6. CASE DestroyDelete(p) \/ LeaveCommit(p) \/ PurgeDelete(p)
  BY <1>1, <1>3, <1>6 DEF DestroyDelete, LeaveCommit, PurgeDelete, At
<1>7. CASE LeaveDelete(p)
  <2>1. req \in [Pages -> Request \cup {Idle}] /\ req[p] \in Request
    BY <1>0, <1>7 DEF LeaveDelete, At, ChatsInv, ChatsTypeOK, Idle
  <2>2. PICK c, whom : c = req[p].chat /\ whom = chat[c].members \ {Owner[p]}
    OBVIOUS
  <2>3. req' = [req EXCEPT ![p].step = "commit", ![p].whom = whom]
    BY <1>7, <2>2 DEF LeaveDelete
  <2>4. req'[p].op = "leave" /\ req'[p].chat = c /\ req'[p].whom = whom /\ UNCHANGED chat
    BY <1>7, <2>1, <2>2, <2>3 DEF Request, LeaveDelete, At
  <2>5. whom = {} => chat[c].members \subseteq {Owner[p]}
    BY <2>2
  <2> QED BY <2>4, <2>5 DEF EndingOK, At
<1>8. CASE Announce(p)
  <2>1. req[p].op # "none"
    BY <1>0, <1>8, RequestTypes DEF Announce, Telling
  <2>2. PICK step : step = AfterEvent(p)
    OBVIOUS
  <2>3. req'[p].op = req[p].op /\ req'[p].step = step
    BY <1>1, <1>8, <2>1, <2>2 DEF Announce
  <2>4. step \in {"delete", "note", "done"} /\ (step = "delete" => req[p].op \in {"reject", "destroy"})
    BY <2>2 DEF AfterEvent
  <2> QED BY <2>3, <2>4 DEF EndingOK, At
<1>9. CASE Note(p)
  BY <1>1, <1>3, <1>9 DEF Note, At
<1> QED BY <1>4, <1>5, <1>6, <1>7, <1>8, <1>9 DEF Handles

LEMMA EndingsStay ==
  ASSUME ChatsAssumption, ServerOK, NEW p \in Pages, Served(p) \/ Plugged(p) \/ UNCHANGED vars,
         early \subseteq early', Handles(p) => JoinedLate(p) \subseteq early',
         NEW q \in Pages, EndingOK(q)
  PROVE  EndingOK(q)'
<1>0. ChatsInv /\ (\A c \in ChatIds : Caused(p, c)) /\ AskedOK(q)
  BY ServedCauses DEF ServerOK, SharingInv
<1>1. CASE req'[q] = req[q]
  <2>1. PICK c : c = req[q].chat
    OBVIOUS
  <2>2. SUFFICES ASSUME c \notin early', At(q, "purge", "delete") \/ (At(q, "leave", "commit") /\ req[q].whom = {})
                 PROVE  chat'[c].members \subseteq chat[c].members
    BY <1>1, <2>1 DEF EndingOK, At
  <2>3. c \in ChatIds /\ c <= made
    BY <1>0, <2>1, <2>2, RequestTypes DEF At, About, AskedOK
  <2>4. ASSUME ~(chat'[c].members \subseteq chat[c].members) PROVE FALSE
    <3>1. At(p, "add", "insert") /\ req[p].chat = c
      BY <1>0, <2>3, <2>4 DEF Caused
    <3>2. c \in JoinedLate(p)
      BY <2>1, <2>2, <2>3, <3>1 DEF JoinedLate
    <3>3. ~Handles(p)
      BY <2>2, <3>2
    <3>4. UNCHANGED chat
      <4>1. ~Wishes(p, Users, 1 .. made, Users)
        BY <1>0, <3>1, WishKeeps DEF At, Idle
      <4> QED BY <3>3, <4>1 DEF Served, Plugged, Return, Connect, HangUp, Take, vars
    <3> QED BY <2>4, <3>4
  <2> QED BY <2>4
<1>2. CASE q = p /\ Return(p)
  <2>1. req'[p] = Idle
    BY <1>0, <1>2 DEF Return, ChatsInv, ChatsTypeOK
  <2> QED BY <1>2, <2>1 DEF EndingOK, At, Idle
<1>3. CASE Plugged(p) \/ UNCHANGED vars
  <2>1. req'[q] = req[q]
    BY <1>3 DEF Plugged, Connect, HangUp, Take, vars
  <2> QED BY <1>1, <2>1
<1> QED BY <1>0, <1>1, <1>2, <1>3, ServedOthers, WishEnding, HandlerEnding DEF Served

-----------------------------------------------------------------------------
\* The last event about a timer is right, or not the last.

\* Somebody is about to tell of a new timer of c.
TimerComes(c) == \E r \in Pages : At(r, "timer", "announce") /\ req[r].chat = c

\* Nobody joins a secret chat.
LEMMA MemberBefore ==
  ASSUME Moves, NEW p, NEW c \in ChatIds, c <= made, Live(c) => chat[c].kind = "secret", IsMember(p, c)'
  PROVE  IsMember(p, c)
<1>1. chat'[c] # Gone
  BY DEF IsMember, Gone
<1>2. chat[c] # Gone /\ chat'[c].kind = "secret" /\ chat'[c].members \subseteq chat[c].members
  BY <1>1 DEF Moves, Live
<1> QED BY <1>2 DEF IsMember

LEMMA TimerKnown ==
  ASSUME ChatsAssumption, ServerOK, NEW q \in Pages, Served(q) \/ Plugged(q) \/ UNCHANGED vars, ~Announce(q),
         NEW c \in ChatIds, c <= made, chat'[c] # Gone, NEW t, t = chat[c].timer \/ TimerComes(c)
  PROVE  t = chat'[c].timer \/ TimerComes(c)'
<1>0. ChatsInv /\ Caused(q, c)
  BY ServedCauses DEF ServerOK, SharingInv
<1>1. CASE TimerComes(c)
  <2>1. PICK r \in Pages : At(r, "timer", "announce") /\ req[r].chat = c
    BY <1>1 DEF TimerComes
  <2>2. CASE r # q
    <3>1. req'[r] = req[r]
      BY <1>0, <2>2, ServedOthers
    <3> QED BY <2>1, <3>1 DEF TimerComes, At
  <2>3. CASE r = q
    <3>1. CASE Wishes(q, Users, 1 .. made, Users)
      BY <1>0, <2>1, <2>3, <3>1, WishKeeps DEF At, Idle
    <3>2. CASE Handles(q)
      BY <1>0, <2>1, <2>3, <3>2, HandlerRequests DEF At, Note
    <3>3. CASE Return(q)
      BY <2>1, <2>3, <3>3 DEF At, Return, Ended
    <3>4. CASE Plugged(q) \/ UNCHANGED vars
      <4>1. UNCHANGED req
        BY <3>4 DEF Plugged, Connect, HangUp, Take, vars
      <4> QED BY <2>1, <4>1 DEF TimerComes, At
    <3> QED BY <3>1, <3>2, <3>3, <3>4 DEF Served
  <2> QED BY <2>2, <2>3
<1>2. CASE t = chat[c].timer /\ chat'[c].timer # chat[c].timer
  <2>1. At(q, "timer", "update") /\ req[q].chat = c /\ Tells(q)
    BY <1>0, <1>2 DEF Caused
  <2> QED BY <2>1 DEF TimerComes, Tells, At
<1> QED BY <1>1, <1>2

\* The queue of p as it is: nobody sends anything to it.
LEMMA CalmInbox ==
  ASSUME ChatsAssumption, ServerOK, NEW q \in Pages, Served(q) \/ Plugged(q) \/ UNCHANGED vars, ~Announce(q),
         NEW p \in Pages, NEW i \in DOMAIN inbox[p], TimerTold(p, i), inbox'[p] = inbox[p]
  PROVE  TimerTold(p, i)'
<1>0. Moves /\ ChatsInv
  BY ServedMoves DEF ServerOK, SharingInv
<1>1. inbox[p][i] \in Events /\ EventOK(inbox[p][i])
  BY <1>0 DEF ChatsInv, ChatsTypeOK, ServerOK, EventsOK
<1>2. PICK m, c : m = inbox[p][i] /\ c = m.chat
  OBVIOUS
<1>3. m \in Events /\ c = m.chat /\ c \in ChatIds /\ EventOK(m)
  BY <1>1, <1>2 DEF Events
<1>4. SUFFICES ASSUME m.type = "timer", IsMember(p, c)', "timer" \notin raced',
                      ~ \E j \in DOMAIN inbox[p] : j > i /\ inbox[p][j].type = "timer" /\ inbox[p][j].chat = c
               PROVE  m.timer = chat'[c].timer \/ TimerComes(c)'
  BY <1>2 DEF TimerTold, TimerComes
<1>5. c <= made /\ (Live(c) => chat[c].kind = "secret")
  BY <1>3, <1>4 DEF EventOK
<1>6. IsMember(p, c) /\ "timer" \notin raced
  BY <1>0, <1>3, <1>4, <1>5, MemberBefore DEF Moves
<1>7. m.timer = chat[c].timer \/ TimerComes(c)
  BY <1>2, <1>4, <1>6 DEF TimerTold, TimerComes
<1>8. chat'[c] # Gone
  BY <1>4 DEF IsMember, Gone
<1> QED BY <1>3, <1>5, <1>7, <1>8, TimerKnown

\* Somebody tells of something.
LEMMA AnnounceInbox ==
  ASSUME ChatsAssumption, ServerOK, NEW q \in Pages, Announce(q), NEW p \in Pages, InboxOK(p)
  PROVE  InboxOK(p)'
<1>0. ChatsInv /\ UNCHANGED <<chat, raced, online>> /\ AskedOK(q) /\ inbox[p] \in Seq(Events)
      /\ req[q].op \in Telling /\ req[q].step = "announce"
      /\ Broadcast(Told(q), Says[req[q].op], req[q].chat, req[q].timer)
  BY RequestTypes DEF ServerOK, SharingInv, Announce, ChatsInv, ChatsTypeOK
<1>1. PICK whom, m : whom = Told(q) /\ m = [type |-> Says[req[q].op], chat |-> req[q].chat, timer |-> req[q].timer]
  OBVIOUS
<1>2. \/ p \in online /\ Owner[p] \in whom /\ inbox'[p] = Append(inbox[p], m)
      \/ ~(p \in online /\ Owner[p] \in whom) /\ inbox'[p] = inbox[p]
  BY <1>0, <1>1 DEF Broadcast
<1>3. \A r \in Pages \ {q} : req'[r] = req[r]
  BY <1>0, HandlerRequests DEF Handles
<1>4. m.type = "timer" => req[q].op = "timer"
  BY <1>0, <1>1 DEF Says, Telling
<1>5. ASSUME NEW i \in DOMAIN inbox[p], NEW c, c = inbox[p][i].chat, inbox[p][i].type = "timer", IsMember(p, c),
             "timer" \notin raced
      PROVE  \/ \E j \in DOMAIN inbox'[p] : j > i /\ inbox'[p][j].type = "timer" /\ inbox'[p][j].chat = c
             \/ inbox[p][i].timer = chat[c].timer
             \/ TimerComes(c)'
  <2>1. CASE \E j \in DOMAIN inbox[p] : j > i /\ inbox[p][j].type = "timer" /\ inbox[p][j].chat = c
    <3>1. PICK j \in DOMAIN inbox[p] : j > i /\ inbox[p][j].type = "timer" /\ inbox[p][j].chat = c
      BY <2>1
    <3>2. j \in DOMAIN inbox'[p] /\ inbox'[p][j] = inbox[p][j]
      BY <1>0, <1>2, <3>1
    <3> QED BY <3>1, <3>2
  <2>2. CASE \E r \in Pages : At(r, "timer", "announce") /\ req[r].chat = c
    <3>1. PICK r \in Pages : At(r, "timer", "announce") /\ req[r].chat = c
      BY <2>2
    <3>2. CASE r # q
      BY <1>3, <3>1, <3>2 DEF TimerComes, At
    <3>3. CASE r = q
      <4>1. Owner[p] \in whom /\ m.type = "timer" /\ m.chat = c
        BY <1>1, <1>5, <3>1, <3>3 DEF At, Told, Says, IsMember
      <4>2. p \in online
        BY <1>5 DEF InboxOK
      <4>3. inbox'[p] = Append(inbox[p], m)
        BY <1>2, <4>1, <4>2
      <4>4. Len(inbox[p]) + 1 \in DOMAIN inbox'[p] /\ Len(inbox[p]) + 1 > i /\ inbox'[p][Len(inbox[p]) + 1] = m
        BY <1>0, <4>3
      <4> QED BY <4>1, <4>4
    <3> QED BY <3>2, <3>3
  <2> QED BY <1>5, <2>1, <2>2 DEF InboxOK, TimerTold
<1>6. ASSUME NEW i \in DOMAIN inbox'[p] PROVE TimerTold(p, i)'
  <2>1. SUFFICES ASSUME NEW c, c = inbox'[p][i].chat, inbox'[p][i].type = "timer", IsMember(p, c), "timer" \notin raced
                 PROVE  \/ \E j \in DOMAIN inbox'[p] : j > i /\ inbox'[p][j].type = "timer" /\ inbox'[p][j].chat = c
                        \/ inbox'[p][i].timer = chat[c].timer
                        \/ TimerComes(c)'
    BY <1>0 DEF TimerTold, TimerComes, IsMember
  <2>2. CASE i \in DOMAIN inbox[p] /\ inbox'[p][i] = inbox[p][i]
    BY <1>5, <2>1, <2>2
  <2>3. CASE i = Len(inbox[p]) + 1 /\ inbox'[p][i] = m
    <3>1. req[q].op = "timer" /\ m.chat = req[q].chat /\ m.timer = req[q].timer
      BY <1>1, <1>4, <2>1, <2>3
    <3>2. Live(req[q].chat)
      BY <2>1, <2>3, <3>1 DEF IsMember, Live, Gone
    <3>3. chat[req[q].chat].timer = req[q].timer
      BY <1>0, <2>1, <3>1, <3>2 DEF AskedOK
    <3> QED BY <2>1, <2>3, <3>1, <3>3
  <2>4. (i \in DOMAIN inbox[p] /\ inbox'[p][i] = inbox[p][i]) \/ (i = Len(inbox[p]) + 1 /\ inbox'[p][i] = m)
    BY <1>0, <1>2
  <2> QED BY <2>2, <2>3, <2>4
<1>7. p \notin online => inbox'[p] = << >>
  BY <1>2 DEF InboxOK
<1> QED BY <1>0, <1>6, <1>7 DEF InboxOK

\* A message is sent after it.
LEMMA NoteInbox ==
  ASSUME ChatsAssumption, ServerOK, NEW q \in Pages, Note(q), NEW p \in Pages, InboxOK(p)
  PROVE  InboxOK(p)'
<1>0. ChatsInv /\ UNCHANGED <<chat, raced, online>> /\ inbox[p] \in Seq(Events) /\ At(q, "timer", "note")
      /\ Broadcast(chat[req[q].chat].members, "message", req[q].chat, 0)
  BY DEF ServerOK, SharingInv, Note, ChatsInv, ChatsTypeOK
<1>1. PICK whom, m : whom = chat[req[q].chat].members /\ m = [type |-> "message", chat |-> req[q].chat, timer |-> 0]
  OBVIOUS
<1>2. \/ p \in online /\ inbox'[p] = Append(inbox[p], m)
      \/ inbox'[p] = inbox[p]
  BY <1>0, <1>1 DEF Broadcast
<1>3. \A r \in Pages \ {q} : req'[r] = req[r]
  BY <1>0, HandlerRequests DEF Handles
<1>4. ASSUME NEW i \in DOMAIN inbox'[p] PROVE TimerTold(p, i)'
  <2>1. SUFFICES ASSUME NEW c, c = inbox'[p][i].chat, inbox'[p][i].type = "timer", IsMember(p, c), "timer" \notin raced
                 PROVE  \/ \E j \in DOMAIN inbox'[p] : j > i /\ inbox'[p][j].type = "timer" /\ inbox'[p][j].chat = c
                        \/ inbox'[p][i].timer = chat[c].timer
                        \/ TimerComes(c)'
    BY <1>0 DEF TimerTold, TimerComes, IsMember
  <2>2. i \in DOMAIN inbox[p] /\ inbox'[p][i] = inbox[p][i]
    <3>1. m.type # "timer"
      BY <1>1
    <3> QED BY <1>0, <1>2, <2>1, <3>1
  <2>3. CASE \E j \in DOMAIN inbox[p] : j > i /\ inbox[p][j].type = "timer" /\ inbox[p][j].chat = c
    BY <1>0, <1>2, <2>3
  <2>4. CASE \E r \in Pages : At(r, "timer", "announce") /\ req[r].chat = c
    BY <1>0, <1>3, <2>4 DEF TimerComes, At
  <2> QED BY <2>1, <2>2, <2>3, <2>4 DEF InboxOK, TimerTold
<1>5. p \notin online => inbox'[p] = << >>
  BY <1>2 DEF InboxOK
<1> QED BY <1>0, <1>4, <1>5 DEF InboxOK

\* The page takes the first event.
LEMMA TakeInbox ==
  ASSUME ChatsAssumption, ServerOK, NEW p \in Pages, Take(p), InboxOK(p)
  PROVE  InboxOK(p)'
<1>0. ChatsInv /\ inbox[p] \in Seq(Events) /\ inbox[p] # << >> /\ UNCHANGED <<chat, raced, online, req>>
      /\ inbox'[p] = Tail(inbox[p])
  BY DEF ServerOK, SharingInv, Take, ChatsInv, ChatsTypeOK
<1>1. p \in online
  BY <1>0 DEF InboxOK
<1>2. \A i \in DOMAIN inbox'[p] : i + 1 \in DOMAIN inbox[p] /\ inbox'[p][i] = inbox[p][i + 1]
  BY <1>0
<1>3. \A j \in DOMAIN inbox[p] : j > 1 => j - 1 \in DOMAIN inbox'[p] /\ inbox'[p][j - 1] = inbox[p][j]
  BY <1>0
<1>4. ASSUME NEW i \in DOMAIN inbox'[p] PROVE TimerTold(p, i)'
  <2>1. SUFFICES ASSUME NEW c, c = inbox'[p][i].chat, inbox'[p][i].type = "timer", IsMember(p, c), "timer" \notin raced
                 PROVE  \/ \E j \in DOMAIN inbox'[p] : j > i /\ inbox'[p][j].type = "timer" /\ inbox'[p][j].chat = c
                        \/ inbox'[p][i].timer = chat[c].timer
                        \/ TimerComes(c)
    BY <1>0 DEF TimerTold, TimerComes, IsMember, At
  <2>2. PICK k : k = i + 1
    OBVIOUS
  <2>3. k \in DOMAIN inbox[p] /\ inbox'[p][i] = inbox[p][k] /\ i \in Nat /\ k > 1
    BY <1>0, <1>2, <2>2
  <2>4. TimerTold(p, k)
    BY <2>3 DEF InboxOK
  <2>5. CASE \E j \in DOMAIN inbox[p] : j > k /\ inbox[p][j].type = "timer" /\ inbox[p][j].chat = c
    <3>1. PICK j \in DOMAIN inbox[p] : j > k /\ inbox[p][j].type = "timer" /\ inbox[p][j].chat = c
      BY <2>5
    <3>2. PICK n : n = j - 1
      OBVIOUS
    <3>3. n > i /\ j > 1
      BY <1>0, <2>2, <2>3, <3>1, <3>2
    <3>4. n \in DOMAIN inbox'[p] /\ inbox'[p][n] = inbox[p][j]
      BY <1>3, <3>2, <3>3
    <3> QED BY <3>1, <3>3, <3>4
  <2> QED BY <2>1, <2>3, <2>4, <2>5 DEF TimerTold, TimerComes
<1> QED BY <1>0, <1>1, <1>4 DEF InboxOK

LEMMA InboxStays ==
  ASSUME ChatsAssumption, ServerOK, NEW q \in Pages, Served(q) \/ Plugged(q) \/ UNCHANGED vars,
         NEW p \in Pages, InboxOK(p)
  PROVE  InboxOK(p)'
<1>0. ChatsInv /\ inbox \in [Pages -> Seq(Events)]
  BY DEF ServerOK, SharingInv, ChatsInv, ChatsTypeOK
<1>1. CASE Announce(q) \/ Note(q) \/ (Take(q) /\ q = p)
  BY <1>1, AnnounceInbox, NoteInbox, TakeInbox
<1>2. CASE HangUp(q) /\ q = p
  <2>1. inbox'[p] = << >>
    BY <1>0, <1>2 DEF HangUp
  <2> QED BY <2>1 DEF InboxOK
<1>3. CASE ~Announce(q) /\ inbox'[p] = inbox[p] /\ (p \in online => p \in online')
  <2>1. \A i \in DOMAIN inbox[p] : TimerTold(p, i)'
    BY <1>3, CalmInbox DEF InboxOK
  <2> QED BY <1>3, <2>1 DEF InboxOK
<1>4. CASE Handles(q)
  <2>1. UNCHANGED online /\ (UNCHANGED inbox \/ Announce(q) \/ Note(q))
    BY <1>4, HandlerInbox
  <2> QED BY <1>1, <1>3, <2>1
<1>5. CASE Wishes(q, Users, 1 .. made, Users) \/ Return(q)
  <2>1. UNCHANGED <<online, inbox>>
    BY <1>0, <1>5, WishKeeps DEF Return
  <2> QED BY <1>1, <1>3, <2>1
<1>6. CASE Plugged(q) \/ UNCHANGED vars
  <2>1. CASE q # p \/ Connect(q) \/ UNCHANGED vars
    <3>1. inbox'[p] = inbox[p] /\ (p \in online => p \in online')
      BY <1>0, <1>6, <2>1 DEF Plugged, Connect, HangUp, Take, vars
    <3> QED BY <1>1, <1>3, <3>1
  <2> QED BY <1>1, <1>2, <1>6, <2>1 DEF Plugged
<1> QED BY <1>4, <1>5, <1>6 DEF Served

-----------------------------------------------------------------------------
\* Steps that leave a page as it is.

\* What the handler of p does to a request about a timer, or to take a chat away.
LEMMA TimerHandled ==
  ASSUME ChatsAssumption, ServerOK, NEW p \in Pages, Handles(p), req[p].op = "timer"
  PROVE  req'[p].op = "timer" /\ req'[p].chat = req[p].chat /\ req'[p].step # "error"
<1>0. ChatsInv
  BY DEF ServerOK, SharingInv
<1>1. \A step : Goes(p, step) => req'[p].op = "timer" /\ req'[p].chat = req[p].chat /\ req'[p].step = step
  BY <1>0, GoesFields
<1>2. PICK step : step = AfterEvent(p)
  OBVIOUS
<1>3. step = "note"
  BY <1>2 DEF AfterEvent
<1>4. CASE Announce(p)
  BY <1>1, <1>2, <1>3, <1>4 DEF Announce
<1>5. CASE TimerUpdate(p) \/ Note(p)
  BY <1>1, <1>5 DEF TimerUpdate, Note
<1> QED BY <1>4, <1>5 DEF Handles, At, DirectInsert, DirectLost, AddInsert, SecretInsert, AcceptUpdate, RejectDelete,
       DestroyDelete, LeaveDelete, LeaveCommit, PurgeDelete

LEMMA RemovalHandled ==
  ASSUME ChatsAssumption, ServerOK, NEW p \in Pages, p \in online, Handles(p), NEW c \in ChatIds,
         Removing(p, c), IsMember(p, c)'
  PROVE  Removing(p, c)' \/ Due(p, c, "chat_deleted")'
<1>0. ChatsInv /\ req[p].op # "none"
  BY DEF ServerOK, SharingInv, Removing
<1>1. \A step : Goes(p, step) => req'[p].op = req[p].op /\ req'[p].chat = req[p].chat /\ req'[p].step = step
  BY <1>0, GoesFields
<1>2. CASE Announce(p)
  <2>1. PICK whom, type, d, timer : whom = Told(p) /\ type = Says[req[p].op] /\ d = req[p].chat /\ timer = req[p].timer
    OBVIOUS
  <2>2. Broadcast(whom, type, d, timer)
    BY <1>2, <2>1 DEF Announce
  <2>3. type = "chat_deleted" /\ d = c
    BY <2>1 DEF Removing, Says
  <2>4. Owner[p] \in whom
    <3>1. IsMember(p, c)
      BY <1>2 DEF Announce, IsMember
    <3> QED BY <2>1, <3>1 DEF Told, Removing, IsMember
  <2> QED BY <1>0, <2>2, <2>3, <2>4, BroadcastQueues DEF Due
<1>3. CASE LeaveDelete(p)
  <2>1. req \in [Pages -> Request \cup {Idle}] /\ req[p] \in Request
    BY <1>0 DEF ChatsInv, ChatsTypeOK, Idle
  <2>2. PICK whom : req' = [req EXCEPT ![p].step = "commit", ![p].whom = whom]
    BY <1>3 DEF LeaveDelete
  <2>3. req'[p].op = req[p].op /\ req'[p].chat = req[p].chat /\ req'[p].step = "commit"
    BY <2>1, <2>2 DEF Request
  <2> QED BY <2>3 DEF Removing
<1>4. CASE LeaveCommit(p)
  BY <1>1, <1>4 DEF LeaveCommit, Removing
<1>5. CASE DestroyDelete(p)
  <2>1. chat'[c] = Gone
    BY <1>0, <1>5 DEF DestroyDelete, Deletes, Removing, ChatsInv, ChatsTypeOK
  <2> QED BY <2>1 DEF IsMember, Gone
<1> QED BY <1>2, <1>3, <1>4, <1>5 DEF Handles, At, DirectInsert, DirectLost, AddInsert, SecretInsert, AcceptUpdate,
       RejectDelete, TimerUpdate, PurgeDelete, Note, Removing

LEMMA RemovalStays ==
  ASSUME ChatsAssumption, ServerOK, NEW p \in Pages, p \in online, NEW q \in Pages,
         Served(q) \/ Plugged(q) \/ UNCHANGED vars, ~(q = p /\ Return(q)),
         NEW c \in ChatIds, Removing(p, c), IsMember(p, c)'
  PROVE  Removing(p, c)' \/ Due(p, c, "chat_deleted")'
<1>0. ChatsInv
  BY DEF ServerOK, SharingInv
<1>1. CASE req'[p] = req[p]
  BY <1>1 DEF Removing
<1>2. CASE q # p
  BY <1>0, <1>1, <1>2, ServedOthers
<1>3. CASE Plugged(q) \/ UNCHANGED vars
  <2>1. req' = req
    BY <1>3 DEF Plugged, Connect, HangUp, Take, vars
  <2> QED BY <1>1, <2>1
<1>4. CASE q = p /\ Wishes(q, Users, 1 .. made, Users)
  BY <1>0, <1>4, WishKeeps DEF Removing, Idle
<1>5. CASE q = p /\ Handles(q)
  BY <1>5, RemovalHandled
<1> QED BY <1>2, <1>3, <1>4, <1>5 DEF Served

LEMMA TimerRequestStays ==
  ASSUME ChatsAssumption, ServerOK, NEW p \in Pages, NEW q \in Pages,
         Served(q) \/ Plugged(q) \/ UNCHANGED vars, ~(q = p /\ Return(q)), req[p].op = "timer"
  PROVE  req'[p].op = "timer" /\ req'[p].chat = req[p].chat
<1>0. ChatsInv
  BY DEF ServerOK, SharingInv
<1>2. CASE q # p
  BY <1>0, <1>2, ServedOthers
<1>3. CASE Plugged(q) \/ UNCHANGED vars
  BY <1>3 DEF Plugged, Connect, HangUp, Take, vars
<1>4. CASE q = p /\ Wishes(q, Users, 1 .. made, Users)
  BY <1>0, <1>4, WishKeeps DEF Idle
<1>5. CASE q = p /\ Handles(q)
  BY <1>5, TimerHandled
<1> QED BY <1>2, <1>3, <1>4, <1>5 DEF Served

LEMMA OwnTimerStays ==
  ASSUME ChatsAssumption, ServerOK, NEW p \in Pages, NEW q \in Pages,
         Served(q) \/ Plugged(q) \/ UNCHANGED vars, mounted' = mounted,
         p \in mounted /\ req'[p].op = "timer" => req[p].op = "timer", OwnTimerOK(p)
  PROVE  OwnTimerOK(p)'
<1>0. ChatsInv /\ Moves /\ req[p].chat \in Nat /\ made \in Nat /\ made' \in Nat
  BY ServedMoves, ServedOK, RequestTypes DEF ServerOK, SharingInv, ChatsInv, ChatsTypeOK
<1>1. SUFFICES ASSUME p \in mounted, req'[p].op = "timer", NEW c, c = req'[p].chat
               PROVE  c <= made' /\ (chat'[c] # Gone => chat'[c].kind = "secret" /\ (req'[p].step = "error" => ~IsMember(p, c)'))
  BY DEF OwnTimerOK, Live, IsMember
<1>2. ~(q = p /\ Return(q))
  BY <1>0, <1>1 DEF Return, ChatsInv, ChatsTypeOK, Idle
<1>3. req[p].op = "timer" /\ req[p].chat = c /\ c \in ChatIds
  BY <1>0, <1>1, <1>2, TimerRequestStays, RequestTypes DEF About
<1>4. req'[p].step = "error" => req[p].step = "error"
  <2>1. CASE q # p
    BY <1>0, <2>1, ServedOthers
  <2>2. CASE Plugged(q) \/ UNCHANGED vars
    BY <2>2 DEF Plugged, Connect, HangUp, Take, vars
  <2>3. CASE q = p /\ Wishes(q, Users, 1 .. made, Users)
    BY <1>0, <1>3, <2>3, WishKeeps DEF Idle
  <2>4. CASE q = p /\ Handles(q)
    BY <1>3, <2>4, TimerHandled
  <2> QED BY <1>2, <2>1, <2>2, <2>3, <2>4 DEF Served
<1>5. c <= made /\ (Live(c) => chat[c].kind = "secret" /\ (req[p].step = "error" => ~IsMember(p, c)))
  BY <1>1, <1>3 DEF OwnTimerOK
<1>6. c <= made'
  BY <1>0, <1>3, <1>5 DEF Moves, ChatIds
<1>7. ASSUME chat'[c] # Gone PROVE chat'[c].kind = "secret" /\ (req'[p].step = "error" => ~IsMember(p, c)')
  <2>1. Live(c) /\ chat'[c].kind = chat[c].kind
    BY <1>0, <1>3, <1>5, <1>7 DEF Moves, Live
  <2> QED BY <1>0, <1>3, <1>4, <1>5, <2>1, MemberBefore
<1> QED BY <1>6, <1>7

-----------------------------------------------------------------------------
\* A page shows what it did.

LEMMA HoldsFitStays ==
  ASSUME ListInv, Moves, made' \in Nat, NEW p \in Pages,
         list'[p] = list[p], open'[p] = open[p], reply'[p] = reply[p], outdated'[p] = outdated[p], HoldsFit(p)
  PROVE  HoldsFit(p)'
<1>1. made \in Nat
  BY DEF ListInv, ChatsInv, ChatsTypeOK
<1>2. PICK rows, replies, shown : rows = list[p] /\ replies = reply[p] /\ shown = open[p]
  OBVIOUS
<1>3. RowsFit(rows)'
  BY <1>1, <1>2, RowsFitStays DEF HoldsFit
<1>4. ASSUME NEW i \in DOMAIN replies, NEW some, some = replies[i].rows PROVE RowsFit(some)'
  BY <1>1, <1>2, <1>4, RowsFitStays DEF HoldsFit
<1>5. ASSUME shown # Shut, NEW c, NEW row, c = shown.id, row = shown.row
      PROVE  Fits(c, row)' /\ (outdated[p] \/ Harmless(c, row)')
  <2>1. c \in ChatIds
    BY <1>2, <1>5, OpenKnown DEF ListInv
  <2>2. Fits(c, row) /\ (outdated[p] \/ Harmless(c, row))
    BY <1>2, <1>5 DEF HoldsFit, OpenFits
  <2> QED BY <1>1, <2>1, <2>2, FitsStays
<1>6. RowsFit(list[p])'
  BY <1>2, <1>3 DEF RowsFit, RowFits, Fits, Harmless, Live
<1>7. \A i \in DOMAIN reply'[p] : RowsFit(reply[p][i].rows)'
  BY <1>2, <1>4 DEF RowsFit, RowFits, Fits, Harmless, Live
<1>8. open'[p] # Shut => Fits(open[p].id, open[p].row)' /\ (outdated'[p] \/ Harmless(open[p].id, open[p].row)')
  BY <1>2, <1>5 DEF Fits, Harmless, Live
<1> QED BY <1>6, <1>7, <1>8 DEF HoldsFit, OpenFits

\* The server stays true, and each page is going to be told.
ServedRow(p, c) ==
  Turns(p, c) /\ (Removing(p, c) /\ IsMember(p, c)' => Removing(p, c)' \/ Due(p, c, "chat_deleted")')

LEMMA ListStays ==
  ASSUME ListInv, Moves, NEW p \in Pages, p \in online, early \subseteq early', mounted' = mounted,
         \A c \in ChatIds : ServedRow(p, c), Newest(p)' = Newest(p), Stale(p) => Stale(p)', ListOK(p)
  PROVE  ListOK(p)'
<1>1. SUFFICES ASSUME p \in mounted, ~Stale(p), NEW c \in ChatIds, c \notin early, NEW row, row = Newest(p)[c]
               PROVE  Listed(p, c, row)' /\ Warned(p, c)'
  BY DEF ListOK, Listed, Current, IsMember, Refetch, Removing, Due, Queued, TimerOnWay, WillTell
<1>2. Listed(p, c, row) /\ Warned(p, c)
  BY <1>1 DEF ListOK
<1> QED BY <1>1, <1>2, ListedStays DEF ServedRow, ListInv

LEMMA OpenStays ==
  ASSUME ListInv, ListInv', ServerOK', Moves, NEW p \in Pages, p \in online, early \subseteq early', mounted' = mounted,
         \A c \in ChatIds : ServedRow(p, c), open'[p] = open[p], outdated'[p] = outdated[p],
         req[p].op = "timer" /\ req[p].chat = open[p].id => req'[p].op = "timer" /\ req'[p].chat = req[p].chat,
         HoldsFit(p), OpenOK(p)
  PROVE  OpenOK(p)'
<1>1. SUFFICES ASSUME p \in mounted, open[p] # Shut, ~outdated[p], NEW c, c = open[p].id, c \notin early,
                      NEW row, row = open[p].row
               PROVE  Shown(p, c, row)' /\ Warned(p, c)'
  BY DEF OpenOK, Shown, IsMember, Due, Queued, WillTell, Warned
<1>2. Shown(p, c, row) /\ Warned(p, c) /\ Fits(c, row) /\ Harmless(c, row)
  BY <1>1 DEF OpenOK, HoldsFit, OpenFits
<1>3. c \in ChatIds /\ row \in ChatRow
  BY <1>1 DEF ListInv, ShownOK, Opened
<1> QED BY <1>1, <1>2, <1>3, ShownStays DEF ServedRow, ListInv, ServerOK

\* Nothing but the page changes the page.
PageSame(p) ==
  /\ list'[p] = list[p] /\ open'[p] = open[p] /\ loading'[p] = loading[p]
  /\ reply'[p] = reply[p] /\ behind'[p] = behind[p] /\ outdated'[p] = outdated[p]

LEMMA ServedRows ==
  ASSUME ChatsAssumption, TruthInv, NEW p \in Pages, p \in online, NEW q \in Pages,
         Served(q) \/ (Plugged(q) /\ q # p) \/ UNCHANGED vars, ~(q = p /\ Return(q)), NEW c \in ChatIds
  PROVE  ServedRow(p, c)
<1>1. ServerOK /\ EndingOK(q)
  BY DEF TruthInv, PageOK
<1> QED BY <1>1, ServedTurns, RemovalStays DEF ServedRow

LEMMA PageStays ==
  ASSUME ChatsAssumption, TruthInv, ListInv', NEW p \in Pages, NEW q \in Pages,
         Served(q) \/ (Plugged(q) /\ q # p) \/ UNCHANGED vars, ~(q = p /\ Return(q)),
         PageSame(p), mounted' = mounted, early \subseteq early'
  PROVE  HoldsFit(p)' /\ OldOK(p)' /\ TruthOK(p)'
<1>0. ListInv /\ ServerOK /\ ServerOK' /\ Moves /\ made' \in Nat /\ HoldsFit(p) /\ OldOK(p) /\ ListOK(p) /\ OpenOK(p)
  BY ServedOK DEF TruthInv, PageOK, TruthOK, ListInv, ChatsInv, ChatsTypeOK
<1>1. HoldsFit(p)'
  BY <1>0, HoldsFitStays DEF PageSame
<1>2. OldOK(p)'
  BY <1>0 DEF PageSame, OldOK
<1>3. CASE p \in online
  <2>1. \A c \in ChatIds : ServedRow(p, c)
    BY <1>3, ServedRows
  <2>2. Newest(p)' = Newest(p) /\ (Stale(p) => Stale(p)')
    BY DEF PageSame, Newest, Stale, AllOld
  <2>3. req[p].op = "timer" => req'[p].op = "timer" /\ req'[p].chat = req[p].chat
    BY <1>0, TimerRequestStays
  <2>4. ListOK(p)'
    BY <1>0, <1>3, <2>1, <2>2, ListStays
  <2>5. OpenOK(p)'
    BY <1>0, <1>3, <2>1, <2>3, OpenStays DEF PageSame
  <2> QED BY <1>1, <1>2, <2>4, <2>5 DEF TruthOK
<1>4. CASE p \notin online
  <2>1. UNCHANGED online \/ (Plugged(q) /\ q # p)
    <3>1. Wishes(q, Users, 1 .. made, Users) => UNCHANGED online
      BY <1>0, WishKeeps DEF ServerOK, SharingInv
    <3>2. Handles(q) => UNCHANGED online
      BY HandlerInbox
    <3> QED BY <3>1, <3>2 DEF Served, Return, vars
  <2>2. p \notin online'
    BY <1>4, <2>1 DEF Plugged, Connect, HangUp, Take
  <2> QED BY <1>1, <1>2, <2>2 DEF TruthOK, ListOK, OpenOK
<1> QED BY <1>3, <1>4

-----------------------------------------------------------------------------
\* Sequences.

LEMMA DropAt ==
  ASSUME NEW S, NEW s \in Seq(S), NEW i \in DOMAIN s
  PROVE  /\ Len(Drop(s, i)) = Len(s) - 1 /\ DOMAIN Drop(s, i) = 1 .. Len(s) - 1
         /\ \A j \in 1 .. Len(s) - 1 : Drop(s, i)[j] = IF j < i THEN s[j] ELSE s[j + 1]
<1>1. Len(s) \in Nat /\ i \in 1 .. Len(s) /\ \A j \in 1 .. Len(s) : s[j] \in S
  BY LenProperties
<1>2. PICK before, after : before = SubSeq(s, 1, i - 1) /\ after = SubSeq(s, i + 1, Len(s))
  OBVIOUS
<1>3. before \in Seq(S) /\ Len(before) = i - 1 /\ \A j \in 1 .. i - 1 : before[j] = s[j]
  <2>1. \A j \in 1 .. i - 1 : s[j] \in S
    BY <1>1
  <2>2. /\ SubSeq(s, 1, i - 1) \in Seq(S)
        /\ Len(SubSeq(s, 1, i - 1)) = IF 1 <= i - 1 THEN i - 1 - 1 + 1 ELSE 0
        /\ \A j \in 1 .. i - 1 - 1 + 1 : SubSeq(s, 1, i - 1)[j] = s[1 + j - 1]
    BY <1>1, <2>1, SubSeqProperties
  <2> QED BY <1>1, <1>2, <2>2
<1>4. after \in Seq(S) /\ Len(after) = Len(s) - i /\ \A j \in 1 .. Len(s) - i : after[j] = s[i + j]
  <2>1. \A j \in i + 1 .. Len(s) : s[j] \in S
    BY <1>1
  <2>2. /\ SubSeq(s, i + 1, Len(s)) \in Seq(S)
        /\ Len(SubSeq(s, i + 1, Len(s))) = IF i + 1 <= Len(s) THEN Len(s) - (i + 1) + 1 ELSE 0
        /\ \A j \in 1 .. Len(s) - (i + 1) + 1 : SubSeq(s, i + 1, Len(s))[j] = s[i + 1 + j - 1]
    BY <1>1, <2>1, SubSeqProperties
  <2> QED BY <1>1, <1>2, <2>2
<1>5. Drop(s, i) = before \o after
  BY <1>2 DEF Drop
<1>6. PICK both : both = before \o after
  OBVIOUS
<1>7. both \in Seq(S) /\ Len(both) = Len(before) + Len(after)
  BY <1>3, <1>4, <1>6, ConcatProperties
<1>8. \A j \in 1 .. Len(before) + Len(after) :
        both[j] = IF j <= Len(before) THEN before[j] ELSE after[j - Len(before)]
  BY <1>3, <1>4, <1>6, ConcatProperties
<1>9. ASSUME NEW j \in 1 .. Len(s) - 1 PROVE both[j] = IF j < i THEN s[j] ELSE s[j + 1]
  <2>1. CASE j < i
    <3>1. j \in 1 .. i - 1 /\ j \in 1 .. Len(before) + Len(after) /\ j <= Len(before)
      BY <1>1, <1>3, <1>4, <2>1
    <3> QED BY <1>3, <1>8, <2>1, <3>1
  <2>2. CASE ~(j < i)
    <3>1. PICK k : k = j - Len(before)
      OBVIOUS
    <3>2. k \in 1 .. Len(s) - i /\ i + k = j + 1
      BY <1>1, <1>3, <2>2, <3>1
    <3>3. j \in 1 .. Len(before) + Len(after) /\ ~(j <= Len(before))
      BY <1>1, <1>3, <1>4, <2>2
    <3>4. both[j] = after[k]
      BY <1>8, <3>1, <3>3
    <3>5. after[k] = s[i + k]
      BY <1>4, <3>2
    <3> QED BY <2>2, <3>2, <3>4, <3>5
  <2> QED BY <2>1, <2>2
<1>10. Len(both) = Len(s) - 1 /\ DOMAIN both = 1 .. Len(s) - 1
  BY <1>1, <1>3, <1>4, <1>7, LenProperties
<1> QED BY <1>5, <1>6, <1>9, <1>10

-----------------------------------------------------------------------------
\* What the server answers is the truth.

LEMMA SelectedTrue ==
  ASSUME ServerOK, NEW p \in Pages, NEW rows, rows = Selected(p)
  PROVE  /\ RowsFit(rows)
         /\ \A c \in ChatIds : Listed(p, c, rows[c]) /\ (c \notin Doomed => Warned(p, c))
<1>0. ChatsInv
  BY DEF ServerOK, SharingInv
<1>1. ASSUME NEW c \in ChatIds PROVE RowFits(c, rows[c]) /\ Listed(p, c, rows[c])
  <2>1. CASE IsMember(p, c)
    <3>1. chat[c] \in ChatRow /\ chat[c] # Gone /\ c <= made
      BY <1>0, <2>1 DEF ChatsInv, ChatsTypeOK, IsMember, Gone, ChatIds
    <3>2. PICK row : row = [chat[c] EXCEPT !.pair = {}]
      OBVIOUS
    <3>3. rows[c] = row
      BY <2>1, <3>2 DEF Selected
    <3>4. row.kind = chat[c].kind /\ row.enc = chat[c].enc /\ row.timer = chat[c].timer /\ row.members = chat[c].members
      BY <3>1, <3>2 DEF ChatRow
    <3>5. row # Gone
      BY <2>1, <3>4 DEF IsMember, Gone
    <3>6. chat[c].kind # "secret" => Plain(row)
      BY <3>4 DEF ServerOK, PlainOK, Plain
    <3>7. Fits(c, row) /\ Harmless(c, row)
      BY <3>1, <3>4, <3>6 DEF Fits, Harmless
    <3>8. Current(p, c, row)
      BY <2>1, <3>4 DEF Current
    <3> QED BY <3>3, <3>5, <3>7, <3>8 DEF RowFits, Listed
  <2>2. CASE ~IsMember(p, c)
    <3>1. rows[c] = Gone
      BY <2>2 DEF Selected
    <3> QED BY <2>2, <3>1 DEF RowFits, Listed
  <2> QED BY <2>1, <2>2
<1> QED BY <1>1 DEF RowsFit, Warned

-----------------------------------------------------------------------------
\* What the page has open.

LEMMA EncPatched ==
  ASSUME ShownOK, NEW p \in Pages, open[p] # Shut, open' = [open EXCEPT ![p].row.enc = TRUE]
  PROVE  /\ open'[p].id = open[p].id /\ open'[p].row.kind = open[p].row.kind
         /\ open'[p].row.timer = open[p].row.timer /\ open'[p].row.enc = TRUE
<1>1. open[p] \in Opened /\ open[p].row \in ChatRow
  BY DEF ShownOK, Opened
<1>2. PICK row : row = [open[p].row EXCEPT !.enc = TRUE]
  OBVIOUS
<1>3. row.kind = open[p].row.kind /\ row.timer = open[p].row.timer /\ row.enc = TRUE
  BY <1>1, <1>2 DEF ChatRow
<1>4. PICK it : it = [open[p] EXCEPT !.row = row]
  OBVIOUS
<1>5. it.id = open[p].id /\ it.row = row
  BY <1>1, <1>4 DEF Opened
<1>6. open'[p] = it
  BY <1>2, <1>4 DEF ShownOK
<1> QED BY <1>3, <1>5, <1>6

\* It opens a chat.
LEMMA OpensTruth ==
  ASSUME ChatsAssumption, TruthInv, UNCHANGED vars, NEW p \in Pages, NEW c \in ChatIds, NEW row \in ChatRow,
         RowFits(c, row), Opens(p, c, row)
  PROVE  OpenOK(p)' /\ OpenFits(p)' /\ early \subseteq early'
<1>1. PICK it : it = [id |-> c, row |-> row, was |-> 0]
  OBVIOUS
<1>2. it.id = c /\ it.row = row
  BY <1>1
<1>3. open'[p] = it
  BY <1>1 DEF Opens, TruthInv, ListInv, ShownOK
<1>4. outdated'[p] <=> ~Completed(p, c, row)
  BY DEF Opens, TruthInv, FlagsOK
<1>5. row # Gone
  BY DEF ChatRow, Gone
<1>6. Fits(c, row) /\ Harmless(c, row)
  BY <1>5 DEF RowFits
<1>7. OpenFits(p)'
  BY <1>2, <1>3, <1>6 DEF OpenFits, Fits, Harmless, Live, vars
<1>8. ASSUME Completed(p, c, row) PROVE Shown(p, c, row)
  <2>1. CASE IsMember(p, c)
    <3>1. row.enc = chat[c].enc \/ Due(p, c, "e2e_accepted")
      BY <1>8, <2>1, ComingIsDue DEF Completed
    <3>2. row.timer = chat[c].timer \/ Due(p, c, "timer")
      BY <1>8, <2>1, ComingIsDue DEF Completed
    <3> QED BY <2>1, <3>1, <3>2 DEF Shown
  <2>2. CASE ~IsMember(p, c)
    <3>1. \E t \in Ends : Due(p, c, t)
      BY <1>8, <2>2, ComingIsDue DEF Completed, Ends
    <3> QED BY <2>2, <3>1 DEF Shown
  <2> QED BY <2>1, <2>2
<1>9. c \notin early' => Warned(p, c)
  BY DEF Opens, Warned
<1>10. OpenOK(p)'
  <2>1. SUFFICES ASSUME ~outdated'[p], c \notin early' PROVE Shown(p, c, row)' /\ Warned(p, c)'
    BY <1>2, <1>3 DEF OpenOK, Shown, Warned, IsMember, Due, Queued, WillTell
  <2>2. Shown(p, c, row) /\ Warned(p, c)
    BY <1>4, <1>8, <1>9, <2>1
  <2> QED BY <2>2 DEF Shown, Warned, IsMember, Due, Queued, WillTell, Told, Doomed, vars
<1> QED BY <1>7, <1>10 DEF Opens

\* It marks whatever is open as encrypted.
LEMMA SecuredTruth ==
  ASSUME ChatsAssumption, TruthInv, UNCHANGED <<vars, early, mounted>>, NEW p \in Pages, open[p] # Shut, Secured(p)
  PROVE  OpenOK(p)' /\ OpenFits(p)'
<1>1. PICK c, row, old : c = open[p].id /\ row = open'[p].row /\ old = open[p].row
  OBVIOUS
<1>2. open'[p].id = c /\ row.kind = old.kind /\ row.timer = old.timer /\ row.enc = TRUE
  BY <1>1, EncPatched DEF Secured, TruthInv, ListInv
<1>3. ~outdated'[p] => ~outdated[p] /\ chat[c].enc
  BY <1>1 DEF Secured, TruthInv, FlagsOK
<1>4. OpenOK(p) /\ OpenFits(p) /\ PlainOK /\ chat \in [ChatIds -> ChatRow \cup {Gone}] /\ c \in ChatIds
  BY <1>1, OpenKnown DEF TruthInv, TruthOK, PageOK, HoldsFit, ServerOK, ListInv, ChatsInv, ChatsTypeOK
<1>5. OpenFits(p)'
  <2>1. Fits(c, old)
    BY <1>1, <1>4 DEF OpenFits
  <2>2. Fits(c, row)
    BY <1>2, <2>1 DEF Fits
  <2>3. chat[c].enc => Harmless(c, row)
    BY <1>4 DEF PlainOK, Plain, Harmless
  <2> QED BY <1>1, <1>2, <1>3, <2>2, <2>3 DEF OpenFits, Fits, Harmless, Live, vars
<1>6. OpenOK(p)'
  <2>1. SUFFICES ASSUME p \in mounted \cap online, ~outdated'[p], c \notin early
                 PROVE  Shown(p, c, row)' /\ Warned(p, c)'
    BY <1>1, <1>2 DEF OpenOK, Shown, Warned, IsMember, Due, Queued, WillTell, vars
  <2>2. Shown(p, c, old) /\ Warned(p, c)
    BY <1>1, <1>3, <1>4, <2>1 DEF OpenOK
  <2>3. chat[c].enc = TRUE
    BY <1>3, <1>4, <2>1 DEF ChatRow, Gone
  <2>4. Shown(p, c, row)
    BY <1>2, <2>2, <2>3 DEF Shown
  <2> QED BY <2>2, <2>4 DEF Shown, Warned, IsMember, Due, Queued, WillTell, Told, Doomed, vars
<1> QED BY <1>5, <1>6

LEMMA ContinuesTruth ==
  ASSUME ChatsAssumption, TruthInv, UNCHANGED <<vars, mounted>>, NEW p \in Pages, NEW next \in FollowUps, NEW rows \in Rows,
         RowsFit(rows), Continues(p, next, rows)
  PROVE  OpenOK(p)' /\ OpenFits(p)' /\ early \subseteq early'
<1>1. CASE next.then = "open" /\ rows[next.chat] # Gone
  <2>1. PICK c, row : c = next.chat /\ row = rows[next.chat]
    OBVIOUS
  <2>2. c \in ChatIds /\ row \in ChatRow
    BY <1>1, <2>1 DEF FollowUps, NoMore, ThenSecured, ThenOpen, Rows
  <2>3. Opens(p, c, row)
    BY <1>1, <2>1 DEF Continues
  <2>4. RowFits(c, row)
    BY <2>1, <2>2 DEF RowsFit
  <2> QED BY <2>2, <2>3, <2>4, OpensTruth
<1>2. CASE next.then = "secured" /\ open[p] # Shut
  <2>1. Secured(p) /\ UNCHANGED early
    BY <1>2 DEF Continues
  <2> QED BY <1>2, <2>1, SecuredTruth
<1>3. CASE UNCHANGED <<open, outdated, early>>
  <2>1. OpenOK(p) /\ OpenFits(p)
    BY DEF TruthInv, TruthOK, PageOK, HoldsFit
  <2>2. OpenFits(p)'
    BY <1>3, <2>1 DEF OpenFits, Fits, Harmless, Live, vars
  <2>3. OpenOK(p)'
    BY <1>3, <2>1 DEF OpenOK, Shown, Warned, IsMember, Due, Queued, WillTell, Told, Doomed, vars
  <2> QED BY <1>3, <2>2, <2>3
<1> QED BY <1>1, <1>2, <1>3 DEF Continues

-----------------------------------------------------------------------------
\* Requests for the list and their replies.

LEMMA SameList ==
  ASSUME ChatsAssumption, TruthInv, UNCHANGED <<vars, mounted>>, NEW p \in Pages, early \subseteq early',
         Newest(p)' = Newest(p), Stale(p) => Stale(p)'
  PROVE  ListOK(p)'
<1>1. ListInv /\ ServerOK /\ Moves /\ ListOK(p)
  BY ServedMoves DEF TruthInv, TruthOK, ServerOK
<1>2. ~Return(p)
  <2>1. req \in [Pages -> Request \cup {Idle}]
    BY <1>1 DEF ListInv, ChatsInv, ChatsTypeOK
  <2>2. ASSUME Return(p) PROVE FALSE
    <3>1. req'[p] = Idle /\ req[p].step \in Ended /\ req' = req
      BY <2>1, <2>2 DEF Return, vars
    <3> QED BY <3>1 DEF Idle, Ended
  <2> QED BY <2>2
<1>3. CASE p \in online
  <2>1. \A c \in ChatIds : ServedRow(p, c)
    BY <1>2, <1>3, ServedRows
  <2> QED BY <1>1, <1>3, <2>1, ListStays
<1>4. CASE p \notin online
  BY <1>4 DEF ListOK, vars
<1> QED BY <1>3, <1>4

\* Rows fit as long as the chats are what they are.
LEMMA SameRowsFit == ASSUME UNCHANGED vars, NEW rows, RowsFit(rows) PROVE RowsFit(rows)'
BY DEF RowsFit, RowFits, Fits, Harmless, Live, vars

LEMMA SameOpen ==
  ASSUME TruthInv, UNCHANGED <<vars, mounted>>, NEW p \in Pages, early \subseteq early',
         open'[p] = open[p], outdated'[p] = outdated[p]
  PROVE  OpenOK(p)' /\ OpenFits(p)'
<1>1. OpenOK(p) /\ OpenFits(p)
  BY DEF TruthInv, TruthOK, PageOK, HoldsFit
<1>2. OpenFits(p)'
  BY <1>1 DEF OpenFits, Fits, Harmless, Live, vars
<1>3. OpenOK(p)'
  BY <1>1 DEF OpenOK, Shown, Warned, IsMember, Due, Queued, WillTell, Told, Doomed, vars
<1> QED BY <1>2, <1>3

LEMMA ServeTruth ==
  ASSUME ChatsAssumption, TruthInv, NEW p \in Pages, Serve(p)
  PROVE  HoldsFit(p)' /\ OldOK(p)' /\ TruthOK(p)' /\ early \subseteq early'
<1>0. /\ ServerOK /\ HoldsFit(p) /\ OldOK(p) /\ reply \in [Pages -> Seq(Fetched)] /\ reply[p] \in Seq(Fetched)
      /\ UNCHANGED <<vars, mounted, list, open, faults, behind, outdated>> /\ early' = early \cup Doomed
  BY DEF TruthInv, PageOK, ListInv, TrafficOK, Serve
<1>1. PICK i \in DOMAIN loading[p] :
        reply' = [reply EXCEPT ![p] = Append(@, [rows |-> Selected(p), next |-> loading[p][i], old |-> FALSE])]
  BY DEF Serve
<1>2. PICK rows : rows = Selected(p)
  OBVIOUS
<1>3. PICK it : it = [rows |-> rows, next |-> loading[p][i], old |-> FALSE]
  OBVIOUS
<1>4. it.rows = rows /\ it.old = FALSE
  BY <1>3
<1>5. reply'[p] = Append(reply[p], it)
  BY <1>0, <1>1, <1>2, <1>3
<1>6. PICK n : n = Len(reply[p]) + 1
  OBVIOUS
<1>7. /\ n \in Nat /\ Len(reply'[p]) = n /\ DOMAIN reply'[p] = 1 .. n /\ reply'[p][n] = it /\ reply'[p] # << >>
      /\ \A j \in 1 .. n - 1 : j \in DOMAIN reply[p] /\ reply'[p][j] = reply[p][j]
  BY <1>0, <1>5, <1>6
<1>8. /\ RowsFit(rows)
      /\ \A c \in ChatIds : Listed(p, c, rows[c]) /\ (c \notin Doomed => Warned(p, c))
  BY <1>0, <1>2, SelectedTrue
<1>9. HoldsFit(p)'
  <2>1. RowsFit(list[p])'
    BY <1>0, SameRowsFit DEF HoldsFit
  <2>2. ASSUME NEW j \in DOMAIN reply'[p], NEW some, some = reply'[p][j].rows PROVE RowsFit(some)'
    <3>1. RowsFit(some)
      BY <1>0, <1>4, <1>7, <1>8, <2>2 DEF HoldsFit
    <3> QED BY <1>0, <3>1, SameRowsFit
  <2>3. \A j \in DOMAIN reply'[p] : RowsFit(reply[p][j].rows)'
    BY <2>2 DEF RowsFit, RowFits, Fits, Harmless, Live
  <2>4. OpenFits(p)'
    BY <1>0, SameOpen
  <2> QED BY <2>1, <2>3, <2>4 DEF HoldsFit
<1>10. OldOK(p)'
  <2>1. SUFFICES ASSUME NEW j \in 1 .. n, NEW k \in 1 .. n, j < k, reply'[p][k].old PROVE reply'[p][j].old
    BY <1>7 DEF OldOK
  <2>2. k # n
    BY <1>4, <1>7, <2>1
  <2>3. j \in 1 .. n - 1 /\ k \in 1 .. n - 1
    BY <1>7, <2>1, <2>2
  <2> QED BY <1>0, <1>7, <2>1, <2>3 DEF OldOK
<1>11. ListOK(p)'
  <2>1. ~AllOld(p)' /\ Newest(p)' = rows
    BY <1>4, <1>7 DEF AllOld, Newest
  <2>2. SUFFICES ASSUME NEW c \in ChatIds, c \notin early', NEW row, row = rows[c]
                 PROVE  Listed(p, c, row)' /\ Warned(p, c)'
    BY <2>1 DEF ListOK, Listed, Current, IsMember, Refetch, Removing, Due, Queued, TimerOnWay, WillTell
  <2>3. Listed(p, c, row) /\ Warned(p, c)
    BY <1>0, <1>8, <2>2
  <2> QED BY <1>0, <2>3 DEF Listed, Warned, Current, IsMember, Refetch, Removing, Due, Queued, TimerOnWay, WillTell, Told, Doomed, vars
<1> QED BY <1>0, <1>9, <1>10, <1>11, SameOpen DEF TruthOK

\* Replies that are overtaken.
Overtaken(s, i) == [j \in DOMAIN s |-> IF j < i THEN [s[j] EXCEPT !.old = TRUE] ELSE s[j]]

LEMMA OvertakenAt ==
  ASSUME NEW s \in Seq(Fetched), NEW i
  PROVE  Overtaken(s, i) \in Seq(Fetched) /\ Len(Overtaken(s, i)) = Len(s) /\ DOMAIN Overtaken(s, i) = DOMAIN s
BY OvertakenTypes DEF Overtaken

LEMMA OvertakenRow ==
  ASSUME NEW s \in Seq(Fetched), NEW i, NEW j \in DOMAIN s, NEW row, row = Overtaken(s, i)[j]
  PROVE  row.rows = s[j].rows /\ (j < i => row.old) /\ (~(j < i) => row = s[j])
<1>1. PICK it : it = [s[j] EXCEPT !.old = TRUE]
  OBVIOUS
<1>2. s[j] \in Fetched
  BY LenProperties
<1>3. it.rows = s[j].rows /\ it.old = TRUE
  BY <1>1, <1>2 DEF Fetched
<1>4. row = IF j < i THEN it ELSE s[j]
  BY <1>1 DEF Overtaken
<1> QED BY <1>3, <1>4

LEMMA ArriveTruth ==
  ASSUME ChatsAssumption, TruthInv, NEW p \in Pages, Arrive(p)
  PROVE  HoldsFit(p)' /\ OldOK(p)' /\ TruthOK(p)' /\ early \subseteq early'
<1>0. /\ ServerOK /\ HoldsFit(p) /\ OldOK(p) /\ reply \in [Pages -> Seq(Fetched)] /\ reply[p] \in Seq(Fetched)
      /\ list \in [Pages -> Rows] /\ DOMAIN behind = Pages /\ UNCHANGED <<vars, mounted, loading>>
  BY DEF TruthInv, PageOK, ListInv, TrafficOK, ShownOK, FlagsOK, Arrive
<1>1. PICK i \in DOMAIN reply[p] :
        /\ list' = [list EXCEPT ![p] = reply[p][i].rows]
        /\ behind' = [behind EXCEPT ![p] = reply[p][i].old]
        /\ reply' = [reply EXCEPT ![p] =
             Drop([j \in DOMAIN @ |-> IF j < i THEN [@[j] EXCEPT !.old = TRUE] ELSE @[j]], i)]
        /\ Continues(p, reply[p][i].next, reply[p][i].rows)
  BY DEF Arrive
<1>2. PICK s, rows, next : s = reply[p] /\ rows = s[i].rows /\ next = s[i].next
  OBVIOUS
<1>3. PICK marked : marked = Overtaken(s, i)
  OBVIOUS
<1>a. s \in Seq(Fetched) /\ i \in DOMAIN s
  BY <1>0, <1>1, <1>2
<1>b. marked \in Seq(Fetched) /\ Len(marked) = Len(s) /\ DOMAIN marked = DOMAIN s
  BY <1>3, <1>a, OvertakenAt
<1>4. /\ marked \in Seq(Fetched) /\ Len(marked) = Len(s) /\ DOMAIN marked = DOMAIN s
      /\ \A j \in DOMAIN s : marked[j].rows = s[j].rows /\ (j < i => marked[j].old) /\ (~(j < i) => marked[j] = s[j])
  <2>1. ASSUME NEW j \in DOMAIN s, NEW row, row = marked[j]
        PROVE  row.rows = s[j].rows /\ (j < i => row.old) /\ (~(j < i) => row = s[j])
    BY <1>3, <1>a, <2>1, OvertakenRow
  <2> QED BY <1>b, <2>1
<1>5. PICK n, rest : n = Len(s) - 1 /\ rest = Drop(marked, i)
  OBVIOUS
<1>6. Len(rest) = n /\ DOMAIN rest = 1 .. n /\ \A j \in 1 .. n : rest[j] = IF j < i THEN marked[j] ELSE marked[j + 1]
  <2>1. i \in DOMAIN marked /\ marked \in Seq(Fetched) /\ n = Len(marked) - 1
    BY <1>4, <1>5, <1>a
  <2> QED BY <1>5, <2>1, DropAt
<1>7. n \in Nat /\ n + 1 = Len(s) /\ i \in 1 .. n + 1 /\ DOMAIN s = 1 .. n + 1
  BY <1>5, <1>a
<1>8. /\ \A j \in 1 .. n : j < i => rest[j].rows = s[j].rows /\ rest[j].old
      /\ \A j \in 1 .. n : ~(j < i) => rest[j] = s[j + 1]
  <2>1. ASSUME NEW j \in 1 .. n, j < i PROVE rest[j].rows = s[j].rows /\ rest[j].old
    <3>1. j \in DOMAIN s /\ rest[j] = marked[j]
      BY <1>6, <1>7, <2>1
    <3> QED BY <1>4, <2>1, <3>1
  <2>2. ASSUME NEW j \in 1 .. n, ~(j < i) PROVE rest[j] = s[j + 1]
    <3>1. PICK k : k = j + 1
      OBVIOUS
    <3>2. k \in DOMAIN s /\ ~(k < i) /\ rest[j] = marked[k]
      BY <1>6, <1>7, <2>2, <3>1
    <3> QED BY <1>4, <3>1, <3>2
  <2> QED BY <2>1, <2>2
<1>9. reply'[p] = rest /\ list'[p] = rows /\ behind'[p] = s[i].old
  BY <1>0, <1>1, <1>2, <1>3, <1>5 DEF Overtaken
<1>10. s[i] \in Fetched /\ rows \in Rows /\ next \in FollowUps /\ RowsFit(rows)
  <2>1. s[i] \in Fetched
    BY <1>a
  <2> QED BY <1>0, <1>2, <1>a, <2>1 DEF Fetched, HoldsFit
<1>11. OpenOK(p)' /\ OpenFits(p)' /\ early \subseteq early'
  BY <1>0, <1>1, <1>2, <1>10, ContinuesTruth
<1>12. HoldsFit(p)'
  <2>1. RowsFit(list[p])'
    BY <1>0, <1>9, <1>10, SameRowsFit DEF RowsFit, RowFits, Fits, Harmless, Live
  <2>2. ASSUME NEW j \in 1 .. n, NEW some, some = rest[j].rows PROVE RowsFit(some)'
    <3>1. \E k \in DOMAIN s : some = s[k].rows
      BY <1>7, <1>8, <2>2
    <3>2. RowsFit(some)
      BY <1>0, <1>2, <3>1 DEF HoldsFit
    <3> QED BY <1>0, <3>2, SameRowsFit
  <2>3. \A j \in DOMAIN reply'[p] : RowsFit(reply[p][j].rows)'
    BY <1>6, <1>9, <2>2 DEF RowsFit, RowFits, Fits, Harmless, Live
  <2> QED BY <1>11, <2>1, <2>3 DEF HoldsFit
<1>13. OldOK(p)'
  <2>1. SUFFICES ASSUME NEW j \in 1 .. n, NEW k \in 1 .. n, j < k, rest[k].old PROVE rest[j].old
    BY <1>6, <1>9 DEF OldOK
  <2>2. CASE j < i
    BY <1>8, <2>2
  <2>3. CASE ~(j < i)
    <3>1. ~(k < i) /\ j + 1 \in DOMAIN s /\ k + 1 \in DOMAIN s /\ j + 1 < k + 1
      BY <1>7, <2>1, <2>3
    <3> QED BY <1>0, <1>2, <1>8, <2>1, <2>3, <3>1 DEF OldOK
  <2> QED BY <2>2, <2>3
<1>14. ListOK(p)'
  <2>1. SUFFICES ASSUME ~Stale(p)' PROVE ListOK(p)'
    BY DEF ListOK
  <2>2. CASE i = n + 1
    <3>1. AllOld(p)'
      <4>1. CASE n = 0
        BY <1>6, <1>9, <4>1 DEF AllOld
      <4>2. CASE n # 0
        BY <1>6, <1>7, <1>8, <1>9, <2>2, <4>2 DEF AllOld
      <4> QED BY <4>1, <4>2
    <3>2. ~s[i].old
      BY <1>9, <2>1, <3>1 DEF Stale
    <3>3. ~AllOld(p) /\ Newest(p) = rows
      BY <1>2, <1>7, <2>2, <3>2 DEF AllOld, Newest
    <3>4. Newest(p)' = rows
      BY <1>9, <3>1 DEF Newest
    <3>5. ~Stale(p)
      BY <1>0, <2>1, <3>3 DEF Stale
    <3> QED BY <1>0, <1>11, <3>3, <3>4, <3>5, SameList
  <2>3. CASE i # n + 1
    <3>1. n \in 1 .. n /\ ~(n < i) /\ rest # << >> /\ n + 1 \in DOMAIN s /\ s # << >> /\ i < n + 1
      BY <1>6, <1>7, <2>3
    <3>2. rest[n] = s[n + 1]
      BY <1>8, <3>1
    <3>3. AllOld(p)' <=> s[n + 1].old
      BY <1>6, <1>9, <3>1, <3>2 DEF AllOld
    <3>4. ~s[n + 1].old
      <4>1. ASSUME s[n + 1].old PROVE FALSE
        <5>1. s[i].old
          BY <1>0, <1>1, <1>2, <3>1, <4>1 DEF OldOK
        <5> QED BY <1>9, <2>1, <3>3, <4>1, <5>1 DEF Stale
      <4> QED BY <4>1
    <3>5. ~AllOld(p) /\ Newest(p) = s[n + 1].rows
      BY <1>2, <1>7, <3>1, <3>4 DEF AllOld, Newest
    <3>6. Newest(p)' = s[n + 1].rows
      BY <1>6, <1>9, <3>2, <3>3, <3>4 DEF Newest
    <3>7. ~Stale(p)
      BY <1>0, <2>1, <3>5 DEF Stale
    <3> QED BY <1>0, <1>11, <3>5, <3>6, <3>7, SameList
  <2> QED BY <2>2, <2>3
<1> QED BY <1>11, <1>12, <1>13, <1>14 DEF TruthOK

LEMMA LoadFailsTruth ==
  ASSUME ChatsAssumption, TruthInv, NEW p \in Pages, LoadFails(p)
  PROVE  HoldsFit(p)' /\ OldOK(p)' /\ TruthOK(p)' /\ early \subseteq early'
<1>0. /\ HoldsFit(p) /\ reply \in [Pages -> Seq(Fetched)] /\ loading[p] \in Seq(FollowUps)
      /\ DOMAIN behind = Pages /\ UNCHANGED <<vars, mounted, list>>
      /\ behind' = [behind EXCEPT ![p] = TRUE]
      /\ reply' = [reply EXCEPT ![p] = [j \in DOMAIN @ |-> [@[j] EXCEPT !.old = TRUE]]]
  BY DEF TruthInv, PageOK, ListInv, TrafficOK, FlagsOK, LoadFails
<1>1. PICK i \in DOMAIN loading[p] : Continues(p, loading[p][i], [c \in ChatIds |-> Gone])
  BY DEF LoadFails
<1>2. PICK next, rows, s : next = loading[p][i] /\ rows = [c \in ChatIds |-> Gone] /\ s = reply[p]
  OBVIOUS
<1>3. next \in FollowUps /\ rows \in Rows /\ RowsFit(rows)
  BY <1>0, <1>1, <1>2 DEF Rows, RowsFit, RowFits
<1>4. OpenOK(p)' /\ OpenFits(p)' /\ early \subseteq early'
  BY <1>0, <1>1, <1>2, <1>3, ContinuesTruth
<1>5. s \in Seq(Fetched) /\ Len(s) \in Nat /\ DOMAIN s = 1 .. Len(s)
  BY <1>0, <1>2
<1>6. PICK marked : marked = [j \in DOMAIN s |-> [s[j] EXCEPT !.old = TRUE]]
  OBVIOUS
<1>7. marked \in Seq(Fetched) /\ Len(marked) = Len(s) /\ DOMAIN marked = DOMAIN s /\ reply'[p] = marked
  BY <1>0, <1>2, <1>5, <1>6, OvertakenTypes
<1>8. ASSUME NEW j \in DOMAIN s PROVE marked[j].rows = s[j].rows /\ marked[j].old = TRUE
  <2>1. PICK it : it = [s[j] EXCEPT !.old = TRUE]
    OBVIOUS
  <2>2. s[j] \in Fetched
    BY <1>5, <1>8
  <2>3. it.rows = s[j].rows /\ it.old = TRUE
    BY <2>1, <2>2 DEF Fetched
  <2> QED BY <1>6, <2>1, <2>3
<1>9. HoldsFit(p)'
  <2>1. RowsFit(list[p])'
    BY <1>0, SameRowsFit DEF HoldsFit
  <2>2. ASSUME NEW j \in DOMAIN s, NEW some, some = marked[j].rows PROVE RowsFit(some)'
    <3>1. RowsFit(some)
      BY <1>0, <1>2, <1>8, <2>2 DEF HoldsFit
    <3> QED BY <1>0, <3>1, SameRowsFit
  <2>3. \A j \in DOMAIN reply'[p] : RowsFit(reply[p][j].rows)'
    BY <1>7, <2>2 DEF RowsFit, RowFits, Fits, Harmless, Live
  <2> QED BY <1>4, <2>1, <2>3 DEF HoldsFit
<1>10. OldOK(p)'
  BY <1>7, <1>8 DEF OldOK
<1>11. Stale(p)'
  <2>1. behind'[p]
    BY <1>0
  <2>2. AllOld(p)'
    <3>1. CASE Len(s) = 0
      BY <1>5, <1>7, <3>1 DEF AllOld
    <3>2. CASE Len(s) # 0
      <4>1. Len(s) \in DOMAIN s
        BY <1>5, <3>2
      <4>2. marked[Len(marked)].old
        BY <1>7, <1>8, <4>1
      <4> QED BY <1>7, <4>2 DEF AllOld
    <3> QED BY <3>1, <3>2
  <2> QED BY <2>1, <2>2 DEF Stale
<1> QED BY <1>4, <1>9, <1>10, <1>11 DEF TruthOK, ListOK

-----------------------------------------------------------------------------
\* The user opens a conversation and goes back to the list.

\* Another request for the list is under way.
LEMMA LoadIsStale ==
  ASSUME TruthInv, NEW p \in Pages, NEW next \in FollowUps, Load(p, next)
  PROVE  Stale(p)'
<1>1. loading[p] \in Seq(FollowUps) /\ loading'[p] = Append(loading[p], next)
  BY DEF Load, TruthInv, ListInv, TrafficOK
<1>2. loading'[p] # << >>
  BY <1>1
<1> QED BY <1>2 DEF Stale

LEMMA OpenRowTruth ==
  ASSUME ChatsAssumption, TruthInv, NEW p \in Pages, NEW c \in ChatIds, OpenRow(p, c)
  PROVE  HoldsFit(p)' /\ OldOK(p)' /\ TruthOK(p)' /\ early \subseteq early'
<1>0. HoldsFit(p) /\ OldOK(p) /\ UNCHANGED <<vars, mounted, list, loading, reply, faults, behind>>
  BY DEF TruthInv, PageOK, OpenRow
<1>1. PICK row : row = list[p][c]
  OBVIOUS
<1>2. row \in ChatRow /\ RowFits(c, row) /\ Opens(p, c, row)
  <2>1. list[p] \in Rows
    BY DEF TruthInv, ListInv, ShownOK
  <2> QED BY <1>0, <1>1, <2>1 DEF Rows, OpenRow, HoldsFit, RowsFit
<1>3. OpenOK(p)' /\ OpenFits(p)' /\ early \subseteq early'
  BY <1>0, <1>2, OpensTruth
<1>4. HoldsFit(p)' /\ OldOK(p)'
  BY <1>0, <1>3 DEF HoldsFit, RowsFit, RowFits, Fits, Harmless, Live, OldOK, vars
<1>5. Newest(p)' = Newest(p) /\ (Stale(p) => Stale(p)')
  BY <1>0 DEF Newest, Stale, AllOld
<1> QED BY <1>0, <1>3, <1>4, <1>5, SameList DEF TruthOK

LEMMA BackTruth ==
  ASSUME ChatsAssumption, TruthInv, NEW p \in Pages, Back(p)
  PROVE  HoldsFit(p)' /\ OldOK(p)' /\ TruthOK(p)' /\ early \subseteq early'
<1>0. HoldsFit(p) /\ OldOK(p) /\ UNCHANGED <<vars, mounted, list, reply, faults, behind, early>>
  BY DEF TruthInv, PageOK, Back
<1>1. open'[p] = Shut
  BY DEF Back, Closes, TruthInv, ListInv, ShownOK
<1>2. HoldsFit(p)' /\ OldOK(p)'
  BY <1>0, <1>1 DEF HoldsFit, OpenFits, RowsFit, RowFits, Fits, Harmless, Live, OldOK, vars
<1>3. Stale(p)'
  BY LoadIsStale DEF Back, FollowUps
<1> QED BY <1>0, <1>1, <1>2, <1>3 DEF TruthOK, ListOK, OpenOK

-----------------------------------------------------------------------------
\* The page hears of something.

LEMMA TimerPatched ==
  ASSUME ShownOK, NEW p \in Pages, open[p] # Shut, NEW seconds, open' = [open EXCEPT ![p].row.timer = seconds]
  PROVE  /\ open'[p].id = open[p].id /\ open'[p].row.kind = open[p].row.kind
         /\ open'[p].row.enc = open[p].row.enc /\ open'[p].row.timer = seconds
<1>1. open[p] \in Opened /\ open[p].row \in ChatRow
  BY DEF ShownOK, Opened
<1>2. PICK row : row = [open[p].row EXCEPT !.timer = seconds]
  OBVIOUS
<1>3. row.kind = open[p].row.kind /\ row.enc = open[p].row.enc /\ row.timer = seconds
  BY <1>1, <1>2 DEF ChatRow
<1>4. PICK it : it = [open[p] EXCEPT !.row = row]
  OBVIOUS
<1>5. it.id = open[p].id /\ it.row = row
  BY <1>1, <1>4 DEF Opened
<1>6. open'[p] = it
  BY <1>2, <1>4 DEF ShownOK
<1> QED BY <1>3, <1>5, <1>6

\* What was due still is, except for the event that was taken.
LEMMA TakenDue ==
  ASSUME ServerOK, NEW p \in Pages, Take(p), NEW m, m = Head(inbox[p]), NEW c, NEW t
  PROVE  /\ Queued(p, c, t) => Queued(p, c, t)' \/ (m.chat = c /\ m.type = t)
         /\ Due(p, c, t) => Due(p, c, t)' \/ (m.chat = c /\ m.type = t)
<1>1. inbox[p] \in Seq(Events) /\ inbox[p] # << >> /\ inbox'[p] = Tail(inbox[p]) /\ UNCHANGED <<chat, req>>
  BY DEF ServerOK, SharingInv, ChatsInv, ChatsTypeOK, Take
<1>2. ASSUME Queued(p, c, t) PROVE Queued(p, c, t)' \/ (m.chat = c /\ m.type = t)
  <2>1. PICK i \in DOMAIN inbox[p] : inbox[p][i].chat = c /\ inbox[p][i].type = t
    BY <1>2 DEF Queued
  <2>2. CASE i = 1
    BY <1>1, <2>1, <2>2
  <2>3. CASE i # 1
    <3>1. PICK j : j = i - 1
      OBVIOUS
    <3>2. j \in DOMAIN inbox'[p] /\ inbox'[p][j] = inbox[p][i]
      BY <1>1, <2>3, <3>1
    <3> QED BY <2>1, <3>2 DEF Queued
  <2> QED BY <2>2, <2>3
<1>3. \A q \in Pages : WillTell(q, p, c, t) => WillTell(q, p, c, t)'
  BY <1>1 DEF WillTell, Told
<1> QED BY <1>2, <1>3 DEF Due

\* What an event about a timer leaves to be told.
LEMMA TimerTaken ==
  ASSUME ServerOK, NEW p \in Pages, InboxOK(p), Take(p), NEW m, m = Head(inbox[p]), m.type = "timer",
         NEW c, c = m.chat, IsMember(p, c), "timer" \notin raced
  PROVE  m.timer = chat[c].timer \/ Due(p, c, "timer")'
<1>1. inbox[p] \in Seq(Events) /\ inbox[p] # << >> /\ inbox'[p] = Tail(inbox[p]) /\ UNCHANGED <<chat, req>>
  BY DEF ServerOK, SharingInv, ChatsInv, ChatsTypeOK, Take
<1>2. PICK k : k = 1
  OBVIOUS
<1>3. k \in DOMAIN inbox[p] /\ inbox[p][k] = m
  BY <1>1, <1>2
<1>4. TimerTold(p, k)
  BY <1>3 DEF InboxOK
<1>5. CASE \E j \in DOMAIN inbox[p] : j > k /\ inbox[p][j].type = "timer" /\ inbox[p][j].chat = c
  <2>1. PICK i \in DOMAIN inbox[p] : i > k /\ inbox[p][i].type = "timer" /\ inbox[p][i].chat = c
    BY <1>5
  <2>2. PICK j : j = i - 1
    OBVIOUS
  <2>3. j \in DOMAIN inbox'[p] /\ inbox'[p][j] = inbox[p][i]
    BY <1>1, <1>2, <2>1, <2>2
  <2> QED BY <2>1, <2>3 DEF Due, Queued
<1>6. CASE \E q \in Pages : At(q, "timer", "announce") /\ req[q].chat = c
  <2>1. PICK q \in Pages : At(q, "timer", "announce") /\ req[q].chat = c
    BY <1>6
  <2>2. WillTell(q, p, c, "timer")'
    BY <1>1, <2>1 DEF WillTell, At, Told, Says, IsMember
  <2> QED BY <2>2 DEF Due
<1> QED BY <1>3, <1>4, <1>5, <1>6 DEF TimerTold

LEMMA HearTruth ==
  ASSUME ChatsAssumption, TruthInv, NEW p \in Pages, Hear(p)
  PROVE  HoldsFit(p)' /\ OldOK(p)' /\ TruthOK(p)'
<1>0. /\ ListInv /\ ShownOK /\ ServerOK /\ PlainOK /\ HoldsFit(p) /\ OldOK(p) /\ InboxOK(p) /\ ListOK(p) /\ OpenOK(p)
      /\ OpenFits(p) /\ inbox[p] \in Seq(Events) /\ inbox[p] # << >> /\ chat \in [ChatIds -> ChatRow \cup {Gone}]
      /\ UNCHANGED <<chat, made, req, online, raced, mounted, list, reply, behind, early>> /\ Take(p)
  BY DEF TruthInv, PageOK, TruthOK, HoldsFit, Hear, Take, ListInv, ChatsInv, ChatsTypeOK, ServerOK
<1>1. PICK m : m = Head(inbox[p])
  OBVIOUS
<1>2. /\ IF Refetches(m) THEN Load(p, NoMore) ELSE NoLoad
      /\ IF m.chat = open[p].id THEN Patch(p, m) ELSE UNCHANGED <<open, outdated>>
  BY <1>1 DEF Hear
<1>3. m \in Events /\ EventOK(m)
  <2>1. m = inbox[p][1] /\ 1 \in DOMAIN inbox[p]
    BY <1>0, <1>1
  <2> QED BY <1>0, <2>1 DEF ServerOK, EventsOK
<1>4. \A c, t : /\ Queued(p, c, t) => Queued(p, c, t)' \/ (m.chat = c /\ m.type = t)
                /\ Due(p, c, t) => Due(p, c, t)' \/ (m.chat = c /\ m.type = t)
  BY <1>0, <1>1, TakenDue
<1>5. m.chat = open[p].id => open[p] # Shut
  BY <1>3 DEF Events, ChatIds, Shut, NoChat
<1>6. PICK c, old : c = open[p].id /\ old = open[p].row
  OBVIOUS
<1>7. ASSUME m.chat = c, Live(c) PROVE /\ m.type = "e2e_accepted" => chat[c].enc = TRUE /\ chat[c].kind = "secret"
                                       /\ m.type = "timer" => chat[c].kind = "secret"
  <2>1. c \in ChatIds
    BY <1>3, <1>7 DEF Events
  <2>2. m.type = "e2e_accepted" => chat[c].enc
    BY <1>3, <1>7 DEF EventOK
  <2>3. chat[c] \in ChatRow
    BY <1>0, <1>7, <2>1 DEF Live
  <2> QED BY <1>0, <1>3, <1>7, <2>1, <2>2, <2>3 DEF EventOK, PlainOK, Plain, ChatRow
\* The page with the event taken into account.
<1>8. OpenFits(p)' /\ OpenOK(p)'
  <2>1. ASSUME NEW row, open[p] # Shut, open'[p].id = c, open'[p].row = row, row.kind = old.kind, outdated'[p] = outdated[p],
               Live(c) /\ chat[c].kind # "secret" => row = old
        PROVE  OpenFits(p)'
    <3>1. Fits(c, old) /\ (outdated[p] \/ Harmless(c, old))
      BY <1>0, <1>6, <2>1 DEF OpenFits
    <3>2. Fits(c, row) /\ (outdated[p] \/ Harmless(c, row))
      BY <2>1, <3>1 DEF Fits, Harmless
    <3> QED BY <1>0, <2>1, <3>2 DEF OpenFits, Fits, Harmless, Live
  <2>2. ASSUME NEW row, open[p] # Shut, open'[p].id = c, open'[p].row = row, outdated'[p] = outdated[p],
               m.chat = c => m.type \notin Ends,
               IsMember(p, c) => /\ row.enc = old.enc \/ row.enc = chat[c].enc
                                 /\ m.chat = c /\ m.type = "e2e_accepted" => row.enc = chat[c].enc
                                 /\ IF m.chat = c /\ m.type = "timer"
                                    THEN row.timer = chat[c].timer \/ Due(p, c, "timer")' \/ "timer" \in raced
                                    ELSE row.timer = old.timer
        PROVE  OpenOK(p)'
    <3>1. SUFFICES ASSUME p \in mounted \cap online, ~outdated[p], c \notin early
                   PROVE  Shown(p, c, row)' /\ Warned(p, c)'
      BY <1>0, <2>2 DEF OpenOK, Shown, Warned, IsMember, Due, Queued, WillTell
    <3>2. Shown(p, c, old) /\ Warned(p, c)
      BY <1>0, <1>6, <2>2, <3>1 DEF OpenOK
    <3>3. (IsMember(p, c)' <=> IsMember(p, c)) /\ (c \in Doomed' <=> c \in Doomed)
      BY <1>0 DEF IsMember, Doomed
    <3>4. Warned(p, c)'
      BY <1>4, <2>2, <3>2, <3>3 DEF Warned
    <3>5. ASSUME IsMember(p, c) PROVE Shown(p, c, row)'
      <4>1. row.enc = chat[c].enc \/ Due(p, c, "e2e_accepted")'
        BY <1>4, <2>2, <3>2, <3>5 DEF Shown
      <4>2. \/ row.timer = chat[c].timer \/ Due(p, c, "timer")' \/ "timer" \in raced
            \/ req[p].op = "timer" /\ req[p].chat = c
        BY <1>4, <2>2, <3>2, <3>5 DEF Shown
      <4> QED BY <1>0, <3>3, <3>5, <4>1, <4>2 DEF Shown
    <3>6. ASSUME ~IsMember(p, c) PROVE Shown(p, c, row)'
      BY <1>4, <2>2, <3>2, <3>3, <3>6 DEF Shown
    <3> QED BY <3>4, <3>5, <3>6
  <2>3. ASSUME open[p] = Shut, open' = open PROVE OpenFits(p)' /\ OpenOK(p)'
    BY <2>3 DEF OpenFits, OpenOK
  <2>4. CASE m.chat # c
    <3>1. UNCHANGED <<open, outdated>>
      BY <1>2, <1>6, <2>4
    <3> QED BY <1>6, <2>1, <2>2, <2>3, <2>4, <3>1
  <2>5. CASE m.chat = c /\ m.type \in Ends
    <3>1. open'[p] = Shut
      BY <1>0, <1>2, <1>6, <2>5 DEF Patch, Ends, Closes, ShownOK
    <3> QED BY <3>1 DEF OpenFits, OpenOK
  <2>6. CASE m.chat = c /\ m.type = "e2e_accepted"
    <3>1. open' = [open EXCEPT ![p].row.enc = TRUE] /\ outdated' = outdated
      BY <1>2, <1>6, <2>6 DEF Patch
    <3>2. PICK row : row = open'[p].row
      OBVIOUS
    <3>3. open'[p].id = c /\ row.kind = old.kind /\ row.timer = old.timer /\ row.enc = TRUE
      BY <1>0, <1>5, <1>6, <2>6, <3>1, <3>2, EncPatched
    <3>4. IsMember(p, c) => Live(c)
      BY DEF IsMember, Live, Gone
    <3> QED BY <1>5, <1>6, <1>7, <2>1, <2>2, <2>6, <3>1, <3>2, <3>3, <3>4 DEF Ends
  <2>7. CASE m.chat = c /\ m.type = "timer" /\ old.kind = "secret"
    <3>1. outdated' = outdated
      BY <1>2, <1>6, <2>7 DEF Patch
    <3>2. PICK seconds, row : seconds = m.timer /\ row = open'[p].row
      OBVIOUS
    <3>3. open' = [open EXCEPT ![p].row.timer = seconds]
      BY <1>2, <1>6, <2>7, <3>2 DEF Patch
    <3>4. open'[p].id = c /\ row.kind = old.kind /\ row.enc = old.enc /\ row.timer = m.timer
      <4>1. open[p] # Shut
        BY <1>5, <1>6, <2>7
      <4>2. /\ open'[p].id = open[p].id /\ open'[p].row.kind = open[p].row.kind
            /\ open'[p].row.enc = open[p].row.enc /\ open'[p].row.timer = seconds
        BY <1>0, <3>3, <4>1, TimerPatched
      <4> QED BY <1>6, <3>2, <4>2
    <3>5. IsMember(p, c) => m.timer = chat[c].timer \/ Due(p, c, "timer")' \/ "timer" \in raced
      BY <1>0, <1>1, <2>7, TimerTaken
    <3> QED BY <1>5, <1>6, <1>7, <2>1, <2>2, <2>7, <3>1, <3>2, <3>3, <3>4, <3>5 DEF Ends
  <2>8. CASE m.chat = c /\ m.type = "timer" /\ old.kind # "secret"
    <3>1. UNCHANGED <<open, outdated>>
      BY <1>2, <1>6, <2>8 DEF Patch
    <3>2. Fits(c, old)
      BY <1>0, <1>5, <1>6, <2>8 DEF OpenFits
    <3>3. ~IsMember(p, c)
      BY <1>7, <2>8, <3>2 DEF Fits, IsMember, Live, Gone
    <3> QED BY <1>5, <1>6, <2>1, <2>2, <2>8, <3>1, <3>3 DEF Ends
  <2>9. CASE m.chat = c /\ m.type \in {"message", "e2e_request"}
    <3>1. UNCHANGED <<open, outdated>>
      BY <1>2, <1>6, <2>9 DEF Patch
    <3> QED BY <1>5, <1>6, <2>1, <2>2, <2>9, <3>1 DEF Ends
  <2> QED BY <1>3, <2>4, <2>5, <2>6, <2>7, <2>8, <2>9 DEF Events, Ends
<1>9. HoldsFit(p)' /\ OldOK(p)'
  BY <1>0, <1>8 DEF HoldsFit, RowsFit, RowFits, Fits, Harmless, Live, OldOK
<1>10. ListOK(p)'
  <2>1. CASE Refetches(m)
    <3>1. Stale(p)'
      BY <1>2, <2>1, LoadIsStale DEF FollowUps
    <3> QED BY <3>1 DEF ListOK
  <2>2. CASE ~Refetches(m)
    <3>1. m.type = "timer" /\ loading' = loading
      BY <1>2, <2>2 DEF Refetches, NoLoad
    <3>2. Newest(p)' = Newest(p) /\ (Stale(p)' <=> Stale(p))
      BY <1>0, <3>1 DEF Newest, Stale, AllOld
    <3>3. SUFFICES ASSUME p \in mounted \cap online, ~Stale(p), NEW e \in ChatIds, e \notin early, NEW row, row = Newest(p)[e]
                   PROVE  Listed(p, e, row)' /\ Warned(p, e)'
      BY <1>0, <3>2 DEF ListOK, Listed, Current, IsMember, Refetch, Removing, Due, Queued, TimerOnWay, WillTell
    <3>4. Listed(p, e, row) /\ Warned(p, e)
      BY <1>0, <3>3 DEF ListOK
    <3>5. /\ (IsMember(p, e)' <=> IsMember(p, e)) /\ (e \in Doomed' <=> e \in Doomed)
          /\ (Current(p, e, row)' <=> Current(p, e, row)) /\ (Removing(p, e)' <=> Removing(p, e))
          /\ (TimerOnWay(p, e)' <=> TimerOnWay(p, e))
      BY <1>0 DEF IsMember, Doomed, Current, Removing, TimerOnWay
    <3>6. Refetch(p, e) => Refetch(p, e)'
      BY <1>4, <3>1, <3>5 DEF Refetch, Notices
    <3>7. Warned(p, e)'
      BY <1>4, <3>1, <3>4, <3>5 DEF Warned, Ends
    <3>8. Listed(p, e, row)'
      BY <1>0, <3>4, <3>5, <3>6 DEF Listed
    <3> QED BY <3>7, <3>8
  <2> QED BY <2>1, <2>2
<1> QED BY <1>8, <1>9, <1>10 DEF TruthOK

\* The socket is lost, and is back.
LEMMA DisconnectTruth ==
  ASSUME TruthInv, NEW p \in Pages, Disconnect(p)
  PROVE  HoldsFit(p)' /\ OldOK(p)' /\ TruthOK(p)'
<1>1. /\ HoldsFit(p) /\ OldOK(p) /\ p \notin online'
      /\ UNCHANGED <<chat, made, list, open, reply, outdated>>
  BY DEF TruthInv, PageOK, Disconnect, HangUp
<1>2. HoldsFit(p)' /\ OldOK(p)'
  BY <1>1 DEF HoldsFit, OpenFits, RowsFit, RowFits, Fits, Harmless, Live, OldOK
<1> QED BY <1>1, <1>2 DEF TruthOK, ListOK, OpenOK

LEMMA ReconnectTruth ==
  ASSUME TruthInv, NEW p \in Pages, Reconnect(p)
  PROVE  HoldsFit(p)' /\ OldOK(p)' /\ TruthOK(p)'
<1>1. /\ HoldsFit(p) /\ OldOK(p) /\ UNCHANGED <<chat, made, list, open, reply>>
      /\ (outdated'[p] <=> open[p] # Shut)
  BY DEF TruthInv, PageOK, FlagsOK, Reconnect, Connect
<1>2. HoldsFit(p)' /\ OldOK(p)'
  BY <1>1 DEF HoldsFit, OpenFits, RowsFit, RowFits, Fits, Harmless, Live, OldOK
<1>3. Stale(p)'
  BY LoadIsStale DEF Reconnect, FollowUps
<1> QED BY <1>1, <1>2, <1>3 DEF TruthOK, ListOK, OpenOK

-----------------------------------------------------------------------------
\* What the user asks for is about a chat that was made.
LEMMA UserIsServed ==
  ASSUME ChatsAssumption, TruthInv, NEW p \in Pages,
         Pick(p) \/ StartSecretHere(p) \/ AnswerHere(p) \/ DeleteHere(p) \/ SetTimerHere(p)
  PROVE  Wishes(p, Users, 1 .. made, Users)
<1>1. Peers \subseteq Users /\ Owner[p] \in Users /\ ShownOK /\ OpenFits(p) /\ made \in Nat
  BY DEF ChatsAssumption, TruthInv, PageOK, HoldsFit, ListInv, ChatsInv, ChatsTypeOK
<1>2. open[p] # Shut => open[p].id \in 1 .. made /\ open[p].row.members \in SUBSET Users
  BY <1>1, OpenKnown DEF OpenFits, Fits, ChatIds
<1>3. CASE Pick(p)
  <2>1. CASE \E v \in Peers : CreateDirect(p, v) \/ StartSecret(p, v)
    BY <1>1, <2>1 DEF Wishes
  <2>2. CASE \E others \in SUBSET Peers : CreateGroup(p, others \cup {Owner[p]})
    BY <1>1, <2>2 DEF Wishes
  <2> QED BY <1>3, <2>1, <2>2 DEF Pick
<1>4. CASE StartSecretHere(p)
  <2>1. open[p] # Shut
    BY <1>4 DEF StartSecretHere, Shut, Gone
  <2> QED BY <1>2, <1>4, <2>1 DEF StartSecretHere, Wishes
<1>5. CASE AnswerHere(p)
  <2>1. open[p] # Shut
    BY <1>5 DEF AnswerHere, Shut, Gone
  <2> QED BY <1>2, <1>5, <2>1 DEF AnswerHere, Wishes
<1>6. CASE DeleteHere(p)
  <2>1. open[p] # Shut /\ (Destroy(p, open[p].id) \/ Leave(p, open[p].id))
    BY <1>6 DEF DeleteHere
  <2> QED BY <1>2, <2>1 DEF Wishes
<1>7. CASE SetTimerHere(p)
  <2>1. open[p] # Shut
    BY <1>7 DEF SetTimerHere, Shut, Gone
  <2>2. \E seconds \in Timers : SetTimer(p, open[p].id, seconds)
    BY <1>7 DEF SetTimerHere
  <2> QED BY <1>2, <2>1, <2>2 DEF Wishes
<1> QED BY <1>3, <1>4, <1>5, <1>6, <1>7

\* The page takes a chat away that its user deletes or leaves.
LEMMA DeleteHereTruth ==
  ASSUME ChatsAssumption, TruthInv, NEW p \in Pages, DeleteHere(p)
  PROVE  HoldsFit(p)' /\ OldOK(p)' /\ TruthOK(p)'
<1>0. /\ ListInv /\ ChatsInv /\ ServerOK /\ HoldsFit(p) /\ OldOK(p) /\ ListOK(p) /\ list \in [Pages -> Rows]
      /\ open \in [Pages -> Opened \cup {Shut}]
      /\ UNCHANGED <<chat, made, inbox, online, mounted, loading, reply, faults, behind, early>>
  BY DEF TruthInv, PageOK, TruthOK, ListInv, ShownOK, DeleteHere, Destroy, Leave
<1>1. PICK c : c = open[p].id
  OBVIOUS
<1>2. c \in ChatIds
  BY <1>1, OpenKnown DEF DeleteHere, TruthInv, ListInv
<1>3. (Destroy(p, c) \/ Leave(p, c)) /\ list' = [list EXCEPT ![p][c] = Gone] /\ Closes(p)
  BY <1>1 DEF DeleteHere
<1>4. open'[p] = Shut
  BY <1>0, <1>3 DEF Closes
<1>5. Served(p)
  BY UserIsServed DEF Served
<1>6. req[p] = Idle /\ ~Return(p)
  <2>1. req[p] = Idle
    BY <1>3 DEF Destroy, Leave, Asks
  <2> QED BY <2>1 DEF Return, Idle, Ended
<1>7. req'[p].chat = c /\ req'[p].op \in {"leave", "destroy"} /\ req'[p].step \in {"announce", "delete", "error"}
  <2>1. \A op, d, whom, timer, step : Asks(p, op, d, whom, timer, step) =>
          req'[p].op = op /\ req'[p].chat = d /\ req'[p].step = step
    BY <1>0, AsksFields
  <2>2. CASE Destroy(p, c)
    BY <2>1, <2>2 DEF Destroy
  <2>3. CASE Leave(p, c)
    BY <2>1, <2>3 DEF Leave
  <2> QED BY <1>3, <2>2, <2>3
<1>8. list'[p][c] = Gone /\ \A e \in ChatIds \ {c} : list'[p][e] = list[p][e]
  BY <1>0, <1>2, <1>3 DEF Rows
<1>9. HoldsFit(p)'
  <2>1. RowsFit(list[p])'
    BY <1>0, <1>8 DEF HoldsFit, RowsFit, RowFits, Fits, Harmless, Live
  <2>2. \A i \in DOMAIN reply'[p] : RowsFit(reply[p][i].rows)'
    BY <1>0 DEF HoldsFit, RowsFit, RowFits, Fits, Harmless, Live
  <2> QED BY <1>4, <2>1, <2>2 DEF HoldsFit, OpenFits
<1>10. OldOK(p)'
  BY <1>0 DEF OldOK
<1>11. ListOK(p)'
  <2>1. SUFFICES ASSUME p \in mounted \cap online, ~Stale(p), NEW e \in ChatIds, e \notin early, NEW row, row = Newest(p)'[e]
                 PROVE  Listed(p, e, row)' /\ Warned(p, e)'
    BY <1>0 DEF ListOK, Stale, AllOld, Listed, Current, IsMember, Refetch, Removing, Due, Queued, TimerOnWay, WillTell
  <2>2. PICK old : old = Newest(p)[e]
    OBVIOUS
  <2>3. row = old \/ (e = c /\ row = Gone)
    BY <1>0, <1>8, <2>1, <2>2 DEF Newest, AllOld
  <2>4. Listed(p, e, old) /\ Warned(p, e)
    BY <2>1, <2>2 DEF ListOK, TruthInv, TruthOK
  <2>5. ServedRow(p, e) /\ Moves
    BY <1>0, <1>5, <1>6, <2>1, ServedRows, ServedMoves DEF ServerOK
  <2>6. Listed(p, e, old)' /\ Warned(p, e)'
    BY <1>0, <2>1, <2>4, <2>5, ListedStays DEF ServedRow
  <2>7. e = c => Removing(p, e)'
    BY <1>7 DEF Removing
  <2> QED BY <2>3, <2>6, <2>7 DEF Listed
<1> QED BY <1>4, <1>9, <1>10, <1>11 DEF TruthOK, OpenOK

\* The page shows a new timer at once.
LEMMA SetTimerHereTruth ==
  ASSUME ChatsAssumption, TruthInv, ListInv', NEW p \in Pages, SetTimerHere(p)
  PROVE  HoldsFit(p)' /\ OldOK(p)' /\ TruthOK(p)' /\ OwnTimerOK(p)'
<1>0. /\ ListInv /\ ChatsInv /\ ServerOK /\ HoldsFit(p) /\ OldOK(p) /\ ListOK(p) /\ OpenOK(p) /\ OpenFits(p)
      /\ open \in [Pages -> Opened \cup {Shut}] /\ ShownOK
      /\ UNCHANGED <<chat, made, inbox, online, mounted, list, loading, reply, faults, behind, outdated, early>>
  BY DEF TruthInv, PageOK, TruthOK, HoldsFit, ListInv, ShownOK, SetTimerHere, SetTimer
<1>1. PICK c, old : c = open[p].id /\ old = open[p].row
  OBVIOUS
<1>2. open[p] # Shut /\ old.kind = "secret"
  BY <1>1 DEF SetTimerHere, Shut, Gone
<1>3. PICK seconds \in Timers : /\ SetTimer(p, c, seconds)
                                /\ open' = [open EXCEPT ![p].row.timer = seconds, ![p].was = open[p].row.timer]
  BY <1>1 DEF SetTimerHere
<1>4. c \in ChatIds /\ old \in ChatRow /\ Fits(c, old) /\ (Live(c) => chat[c].kind = "secret")
  BY <1>0, <1>1, <1>2 DEF OpenFits, Fits, Opened
<1>5. PICK row : row = open'[p].row
  OBVIOUS
<1>6. open'[p].id = c /\ row.kind = old.kind /\ row.enc = old.enc /\ open'[p] # Shut
  <2>1. open[p] \in Opened
    BY <1>0, <1>2
  <2>2. PICK some : some = [old EXCEPT !.timer = seconds]
    OBVIOUS
  <2>3. some.kind = old.kind /\ some.enc = old.enc
    BY <1>4, <2>2 DEF ChatRow
  <2>4. PICK it : it = [open[p] EXCEPT !.row = some]
    OBVIOUS
  <2>5. it.id = c /\ it.row = some /\ it \in [id : {c}, row : {some}, was : Timers]
    BY <1>1, <2>1, <2>4 DEF Opened
  <2>6. PICK shown : shown = [it EXCEPT !.was = old.timer]
    OBVIOUS
  <2>7. shown.id = c /\ shown.row = some
    BY <2>5, <2>6
  <2>8. open'[p] = shown
    BY <1>0, <1>1, <1>3, <2>2, <2>4, <2>6
  <2> QED BY <1>2, <1>4, <1>5, <2>3, <2>7, <2>8 DEF Shut, NoChat, ChatIds
<1>7. Served(p)
  BY UserIsServed DEF Served
<1>8. req[p] = Idle /\ ~Return(p)
  <2>1. req[p] = Idle
    BY <1>3 DEF SetTimer, Asks
  <2> QED BY <2>1 DEF Return, Idle, Ended
<1>9. /\ req'[p].op = "timer" /\ req'[p].chat = c
      /\ req'[p].step = "error" => ~(IsMember(p, c) /\ chat[c].kind = "secret")
  <2>1. \A op, d, whom, timer, step : Asks(p, op, d, whom, timer, step) =>
          req'[p].op = op /\ req'[p].chat = d /\ req'[p].step = step
    BY <1>0, AsksFields
  <2> QED BY <1>3, <2>1 DEF SetTimer
<1>10. HoldsFit(p)' /\ OldOK(p)'
  <2>1. OpenFits(p)'
    BY <1>0, <1>2, <1>4, <1>5, <1>6 DEF OpenFits, Fits, Harmless, Live
  <2> QED BY <1>0, <2>1 DEF HoldsFit, RowsFit, RowFits, Fits, Harmless, Live, OldOK
<1>11. ServerOK' /\ Moves /\ (p \in online => \A e \in ChatIds : ServedRow(p, e))
  BY <1>0, <1>7, <1>8, ServedOK, ServedRows
<1>12. ListOK(p)'
  <2>1. Newest(p)' = Newest(p) /\ (Stale(p) => Stale(p)')
    BY <1>0 DEF Newest, Stale, AllOld
  <2>2. CASE p \in online
    BY <1>0, <1>11, <2>1, <2>2, ListStays
  <2>3. CASE p \notin online
    BY <1>0, <2>3 DEF ListOK
  <2> QED BY <2>2, <2>3
<1>13. OpenOK(p)'
  <2>1. SUFFICES ASSUME p \in mounted \cap online, ~outdated[p], c \notin early
                 PROVE  Shown(p, c, row)' /\ Warned(p, c)'
    BY <1>0, <1>5, <1>6 DEF OpenOK, Shown, Warned, IsMember, Due, Queued, WillTell
  <2>2. Shown(p, c, old) /\ Warned(p, c) /\ Harmless(c, old)
    BY <1>0, <1>1, <1>2, <2>1 DEF OpenOK, OpenFits
  <2>3. Shown(p, c, old)' /\ Warned(p, c)'
    BY <1>0, <1>4, <1>8, <1>11, <2>1, <2>2, ShownStays DEF ServedRow, ListInv, ServerOK, Idle
  <2> QED BY <1>6, <1>9, <2>3 DEF Shown
<1>14. OwnTimerOK(p)'
  <2>1. c <= made'
    BY <1>0, <1>4 DEF Fits
  <2> QED BY <1>0, <1>4, <1>9, <2>1 DEF OwnTimerOK, Live, IsMember
<1> QED BY <1>10, <1>12, <1>13, <1>14 DEF TruthOK

-----------------------------------------------------------------------------
\* The answer reaches the page.

\* What the answer makes of the conversation that is open.
LEMMA AnsweredOpen ==
  ASSUME ChatsAssumption, TruthInv, NEW p \in Pages, Answers(p), p \in mounted
  PROVE  OpenOK(p)' /\ OpenFits(p)'
<1>0. /\ ListInv /\ ShownOK /\ ChatsInv /\ ServerOK /\ PlainOK /\ OpenOK(p) /\ OpenFits(p) /\ AskedOK(p) /\ OwnTimerOK(p)
      /\ chat \in [ChatIds -> ChatRow \cup {Gone}] /\ open \in [Pages -> Opened \cup {Shut}]
      /\ UNCHANGED <<chat, made, inbox, online, raced, mounted, early>> /\ Return(p)
      /\ Answered(p)
  BY DEF TruthInv, PageOK, TruthOK, HoldsFit, ListInv, ShownOK, ChatsInv, ChatsTypeOK, ServerOK, Answers, Return
<1>1. PICK c, old, d, op : c = open[p].id /\ old = open[p].row /\ d = req[p].chat /\ op = req[p].op
  OBVIOUS
<1>2. req[p].step \in Ended
  BY <1>0 DEF Return
<1>3. p \in online /\ c \in ChatIds => Turns(p, c)
  <2>1. Served(p) /\ EndingOK(p)
    BY <1>0 DEF Served, TruthInv, PageOK
  <2> QED BY <1>0, <2>1, ServedTurns
<1>4. op \in {"accept", "timer"} => d \in ChatIds
  BY <1>0, <1>1, RequestTypes DEF About
<1>5. ASSUME d \in ChatIds, Live(d)
      PROVE  /\ op = "accept" /\ req[p].step = "done" => chat[d].enc = TRUE /\ chat[d].kind = "secret"
             /\ op = "timer" => chat[d].kind = "secret"
             /\ op = "timer" /\ req[p].step = "done" => chat[d].timer = req[p].timer \/ "timer" \in raced
             /\ op = "timer" /\ req[p].step = "error" => ~IsMember(p, d)
  <2>1. chat[d] \in ChatRow
    BY <1>0, <1>5 DEF Live
  <2>2. op = "accept" /\ req[p].step = "done" => chat[d].enc
    BY <1>0, <1>1, <1>5 DEF AskedOK
  <2>3. op = "timer" /\ req[p].step = "done" => chat[d].timer = req[p].timer \/ "timer" \in raced
    BY <1>0, <1>1, <1>5 DEF AskedOK
  <2>4. op = "timer" => chat[d].kind = "secret" /\ (req[p].step = "error" => ~IsMember(p, d))
    BY <1>0, <1>1, <1>5 DEF OwnTimerOK
  <2> QED BY <1>0, <1>5, <2>1, <2>2, <2>3, <2>4 DEF PlainOK, Plain, ChatRow
<1>6. ASSUME NEW row, open[p] # Shut, open'[p].id = c, open'[p].row = row, row.kind = old.kind, outdated'[p] = outdated[p],
             Live(c) /\ chat[c].kind # "secret" => row = old
      PROVE  OpenFits(p)'
  <2>1. Fits(c, old) /\ (outdated[p] \/ Harmless(c, old))
    BY <1>0, <1>1, <1>6 DEF OpenFits
  <2>2. Fits(c, row) /\ (outdated[p] \/ Harmless(c, row))
    BY <1>6, <2>1 DEF Fits, Harmless
  <2> QED BY <1>0, <1>6, <2>2 DEF OpenFits, Fits, Harmless, Live
<1>7. ASSUME NEW row, open[p] # Shut, open'[p].id = c, open'[p].row = row, outdated'[p] = outdated[p],
             IsMember(p, c) => /\ row.enc = old.enc \/ row.enc = chat[c].enc
                               /\ \/ row.timer = old.timer /\ ~(op = "timer" /\ d = c)
                                  \/ row.timer = chat[c].timer \/ "timer" \in raced
      PROVE  OpenOK(p)'
  <2>0. c \in ChatIds
    BY <1>0, <1>1, <1>7, OpenKnown
  <2>1. SUFFICES ASSUME p \in mounted \cap online, ~outdated[p], c \notin early
                 PROVE  Shown(p, c, row)' /\ Warned(p, c)'
    BY <1>0, <1>7 DEF OpenOK, Shown, Warned, IsMember, Due, Queued, WillTell
  <2>2. Shown(p, c, old) /\ Warned(p, c)
    BY <1>0, <1>1, <1>7, <2>1 DEF OpenOK
  <2>3. (IsMember(p, c)' <=> IsMember(p, c)) /\ StaysDue(p, c) /\ StaysWarned(p, c)
    BY <1>0, <1>3, <2>0, <2>1 DEF IsMember, Turns
  <2>4. \A t : Due(p, c, t) => Due(p, c, t)'
    BY <2>3 DEF StaysDue
  <2>5. ASSUME IsMember(p, c) PROVE Shown(p, c, row)'
    <3>1. row.enc = chat[c].enc \/ Due(p, c, "e2e_accepted")'
      BY <1>7, <2>2, <2>4, <2>5 DEF Shown
    <3>2. row.timer = chat[c].timer \/ Due(p, c, "timer")' \/ "timer" \in raced
      BY <1>1, <1>7, <2>2, <2>4, <2>5 DEF Shown
    <3> QED BY <1>0, <2>3, <2>5, <3>1, <3>2 DEF Shown
  <2>6. ASSUME ~IsMember(p, c) PROVE Shown(p, c, row)'
    BY <2>2, <2>3, <2>4, <2>6 DEF Shown
  <2> QED BY <2>2, <2>3, <2>5, <2>6 DEF StaysWarned
<1>8. ASSUME open'[p] = open[p], outdated'[p] = outdated[p], ~(op = "timer" /\ d = c) PROVE OpenOK(p)' /\ OpenFits(p)'
  <2>1. CASE open[p] = Shut
    BY <1>8, <2>1 DEF OpenOK, OpenFits
  <2>2. CASE open[p] # Shut
    <3>1. open'[p].id = c /\ open'[p].row = old
      BY <1>1, <1>8
    <3> QED BY <1>6, <1>7, <1>8, <2>2, <3>1
  <2> QED BY <2>1, <2>2
<1>9. ASSUME open'[p] = Shut PROVE OpenOK(p)' /\ OpenFits(p)'
  BY <1>9 DEF OpenOK, OpenFits
<1>10. d = c /\ op \in {"accept", "timer"} => open[p] # Shut
  BY <1>1, <1>4 DEF Shut, NoChat, ChatIds
<1>11. IsMember(p, c) => Live(c)
  BY DEF IsMember, Live, Gone
<1>12. CASE op = "accept" /\ req[p].step = "done" /\ d = c
  <2>1. open' = [open EXCEPT ![p].row.enc = TRUE] /\ UNCHANGED outdated
    BY <1>0, <1>1, <1>12 DEF Answered
  <2>2. open[p] # Shut
    BY <1>10, <1>12
  <2>3. PICK row : row = open'[p].row
    OBVIOUS
  <2>4. open'[p].id = c /\ row.kind = old.kind /\ row.timer = old.timer /\ row.enc = TRUE
    <3>1. /\ open'[p].id = open[p].id /\ open'[p].row.kind = open[p].row.kind
          /\ open'[p].row.timer = open[p].row.timer /\ open'[p].row.enc = TRUE
      BY <1>0, <2>1, <2>2, EncPatched
    <3> QED BY <1>1, <2>3, <3>1
  <2> QED BY <1>4, <1>5, <1>6, <1>7, <1>11, <1>12, <2>1, <2>2, <2>3, <2>4
<1>13. CASE op = "timer" /\ d = c
  <2>0. open[p] # Shut /\ open[p] \in Opened /\ old \in ChatRow
    BY <1>0, <1>1, <1>10, <1>13 DEF Opened
  <2>1. PICK seconds : seconds = IF req[p].step = "done" THEN req[p].timer ELSE open[p].was
    OBVIOUS
  <2>2. open' = [open EXCEPT ![p].was = 0, ![p].row.timer = seconds] /\ UNCHANGED outdated
    BY <1>0, <1>1, <1>13, <2>1 DEF Answered
  <2>3. PICK row : row = open'[p].row
    OBVIOUS
  <2>4. open'[p].id = c /\ row.kind = old.kind /\ row.enc = old.enc /\ row.timer = seconds
    <3>1. PICK some : some = [old EXCEPT !.timer = seconds]
      OBVIOUS
    <3>2. some.kind = old.kind /\ some.enc = old.enc /\ some.timer = seconds
      BY <2>0, <3>1 DEF ChatRow
    <3>3. PICK it : it = [open[p] EXCEPT !.was = 0]
      OBVIOUS
    <3>4. it.id = c /\ it.row = old /\ it \in [id : {c}, row : {old}, was : {0}]
      BY <1>1, <2>0, <3>3 DEF Opened
    <3>5. PICK shown : shown = [it EXCEPT !.row = some]
      OBVIOUS
    <3>6. shown.id = c /\ shown.row = some
      BY <3>4, <3>5
    <3>7. open'[p] = shown
      BY <1>0, <1>1, <2>2, <3>1, <3>3, <3>4, <3>5
    <3> QED BY <2>3, <3>2, <3>6, <3>7
  <2>5. IsMember(p, c) => seconds = chat[c].timer \/ "timer" \in raced
    BY <1>2, <1>4, <1>5, <1>11, <1>13, <2>1 DEF Ended
  <2> QED BY <1>4, <1>5, <1>6, <1>7, <1>13, <2>0, <2>2, <2>3, <2>4, <2>5
<1>14. CASE op = "reject" /\ req[p].step = "done"
  <2>1. Closes(p)
    BY <1>0, <1>1, <1>14 DEF Answered
  <2> QED BY <1>0, <1>9, <2>1 DEF Closes
<1>15. CASE ~(op = "timer" /\ d = c) /\ open' = open /\ outdated' = outdated
  BY <1>8, <1>15
<1> QED BY <1>0, <1>1, <1>12, <1>13, <1>14, <1>15 DEF Answered

LEMMA AnswersTruth ==
  ASSUME ChatsAssumption, TruthInv, NEW p \in Pages, Answers(p)
  PROVE  HoldsFit(p)' /\ OldOK(p)' /\ TruthOK(p)'
<1>0. /\ ListInv /\ ServerOK /\ HoldsFit(p) /\ OldOK(p) /\ ListOK(p) /\ Return(p) /\ EndingOK(p)
      /\ UNCHANGED <<chat, made, online, mounted, list, reply, faults, behind, early>>
  BY DEF TruthInv, PageOK, TruthOK, Answers, Return
<1>1. Served(p) /\ Moves
  BY <1>0, ServedMoves DEF Served, ServerOK
<1>2. CASE p \notin mounted
  <2>1. UNCHANGED <<open, outdated>>
    BY <1>2 DEF Answers
  <2>2. HoldsFit(p)' /\ OldOK(p)'
    BY <1>0, <2>1 DEF HoldsFit, OpenFits, RowsFit, RowFits, Fits, Harmless, Live, OldOK
  <2> QED BY <1>0, <1>2, <2>2 DEF TruthOK, ListOK, OpenOK
<1>3. CASE p \in mounted
  <2>1. OpenOK(p)' /\ OpenFits(p)'
    BY <1>3, AnsweredOpen
  <2>2. HoldsFit(p)' /\ OldOK(p)'
    BY <1>0, <2>1 DEF HoldsFit, RowsFit, RowFits, Fits, Harmless, Live, OldOK
  <2>3. Answered(p)
    BY <1>3 DEF Answers
  <2>4. CASE \E next \in FollowUps : Load(p, next)
    BY <2>1, <2>2, <2>4, LoadIsStale DEF TruthOK, ListOK
  <2>5. CASE NoLoad /\ ~(req[p].op \in {"leave", "destroy"} /\ req[p].step # "done")
    <3>1. Newest(p)' = Newest(p) /\ (Stale(p) => Stale(p)')
      BY <1>0, <2>5 DEF Newest, Stale, AllOld, NoLoad
    <3>2. \A c : ~Removing(p, c)
      BY <1>0, <2>5 DEF Removing, Return, Ended
    <3>3. CASE p \in online
      <4>1. \A c \in ChatIds : ServedRow(p, c)
        BY <1>0, <1>1, <3>2, <3>3, ServedTurns DEF ServedRow
      <4>2. early \subseteq early' /\ mounted' = mounted
        BY <1>0
      <4>3. ListOK(p)'
        BY <1>0, <1>1, <3>1, <3>3, <4>1, <4>2, ListStays
      <4> QED BY <2>1, <2>2, <4>3 DEF TruthOK
    <3>4. CASE p \notin online
      BY <1>0, <2>1, <2>2, <3>4 DEF TruthOK, ListOK
    <3> QED BY <3>3, <3>4
  <2>6. (\E next \in FollowUps : Load(p, next)) \/ (NoLoad /\ ~(req[p].op \in {"leave", "destroy"} /\ req[p].step # "done"))
    <3>1. ASSUME NEW next, next \in {NoMore, ThenSecured} \/ next = ThenOpen(req[p].chat), Load(p, next),
                 next = ThenOpen(req[p].chat) => req[p].step = "done"
          PROVE  \E some \in FollowUps : Load(p, some)
      BY <1>0, <3>1 DEF FollowUps, ListInv, Answerable
    <3>2. CASE req[p].op \in {"direct", "secret"} /\ req[p].step = "done"
      <4>1. PICK next : next = ThenOpen(req[p].chat)
        OBVIOUS
      <4>2. Load(p, next)
        BY <2>3, <3>2, <4>1 DEF Answered
      <4> QED BY <3>1, <3>2, <4>1, <4>2
    <3>3. CASE req[p].op = "group"
      BY <2>3, <3>3 DEF Answered, FollowUps
    <3>4. CASE req[p].op = "accept" /\ req[p].step = "done"
      BY <2>3, <3>4 DEF Answered, FollowUps
    <3>5. CASE req[p].op = "reject" /\ req[p].step = "done"
      BY <2>3, <3>5 DEF Answered, FollowUps
    <3>6. CASE req[p].op \in {"leave", "destroy"} /\ req[p].step # "done"
      BY <2>3, <3>6 DEF Answered, FollowUps
    <3> QED BY <2>3, <3>2, <3>3, <3>4, <3>5, <3>6 DEF Answered
  <2> QED BY <2>4, <2>5, <2>6
<1> QED BY <1>2, <1>3

-----------------------------------------------------------------------------
\* A step of the system, for one page.

StepOf(p) ==
  \/ p \in mounted /\ (UserStep(p) \/ PageStep(p))
  \/ p \notin mounted /\ AsksAnything(p) /\ UNCHANGED pageVars
  \/ HandlerStep(p)
  \/ Answers(p)

LEMMA PageStepIsPlugged ==
  ASSUME NEW p, PageStep(p)
  PROVE  (Plugged(p) \/ UNCHANGED vars) /\ UNCHANGED <<chat, req, mounted>>
<1>1. CASE Serve(p) \/ Arrive(p) \/ LoadFails(p)
  BY <1>1 DEF Serve, Arrive, LoadFails, vars
<1>2. CASE Hear(p)
  BY <1>2 DEF Hear, Take, Plugged
<1>3. CASE Disconnect(p) \/ Reconnect(p)
  BY <1>3 DEF Disconnect, HangUp, Reconnect, Connect, Plugged
<1> QED BY <1>1, <1>2, <1>3 DEF PageStep

LEMMA WishJoinsNobody ==
  ASSUME ChatsAssumption, ChatsInv, NEW p \in Pages, Wishes(p, Users, 1 .. made, Users)
  PROVE  req[p] = Idle /\ JoinedLate(p) = {} /\ ~Return(p)
<1>1. req[p] = Idle
  BY WishKeeps
<1> QED BY <1>1 DEF JoinedLate, At, Idle, Return, Ended

\* What page p does is a step of the server, and looks at no end of a chat unseen.
LEMMA StepServed ==
  ASSUME ChatsAssumption, TruthInv, NEW p \in Pages, StepOf(p)
  PROVE  /\ Served(p) \/ Plugged(p) \/ UNCHANGED vars
         /\ mounted' = mounted
         /\ UNCHANGED <<chat, req>> \/ JoinedLate(p) \subseteq early'
<1>0. ChatsInv
  BY DEF TruthInv, ListInv
<1>1. ASSUME Wishes(p, Users, 1 .. made, Users), mounted' = mounted
      PROVE  Served(p) /\ JoinedLate(p) \subseteq early' /\ mounted' = mounted
  BY <1>0, <1>1, WishJoinsNobody DEF Served
<1>2. CASE PageStep(p)
  BY <1>2, PageStepIsPlugged
<1>3. CASE Pick(p) \/ StartSecretHere(p) \/ AnswerHere(p) \/ DeleteHere(p) \/ SetTimerHere(p)
  <2>1. mounted' = mounted
    BY <1>3 DEF Pick, StartSecretHere, AnswerHere, DeleteHere, SetTimerHere, pageVars
  <2>2. Wishes(p, Users, 1 .. made, Users)
    BY <1>3, UserIsServed
  <2> QED BY <1>1, <2>1, <2>2
<1>4. CASE Back(p) \/ \E c \in ChatIds : OpenRow(p, c)
  <2>1. CASE Back(p)
    BY <2>1 DEF Back, vars
  <2>2. CASE \E c \in ChatIds : OpenRow(p, c)
    BY <2>2 DEF OpenRow, vars
  <2> QED BY <1>4, <2>1, <2>2
<1>5. CASE AsksAnything(p) /\ UNCHANGED pageVars
  <2>1. Peers \subseteq Users /\ Joiners \subseteq Users
    BY DEF ChatsAssumption
  <2>2. Wishes(p, Users, 1 .. made, Users)
    BY <1>5, <2>1 DEF AsksAnything, Wishes
  <2> QED BY <1>1, <1>5, <2>2 DEF pageVars
<1>6. CASE HandlerStep(p)
  BY <1>6 DEF HandlerStep, Served
<1>7. CASE Answers(p)
  BY <1>7 DEF Answers, Served, Return, JoinedLate, At, Ended
<1> QED BY <1>2, <1>3, <1>4, <1>5, <1>6, <1>7 DEF StepOf, UserStep

-----------------------------------------------------------------------------
\* What the page looks at, and what becomes of the pages that do nothing.

LEMMA ContinuesOthers ==
  ASSUME ListInv, FlagsOK, NEW p \in Pages, NEW next \in FollowUps, NEW rows \in Rows, Continues(p, next, rows)
  PROVE  /\ DOMAIN outdated' = Pages
         /\ \A r \in Pages \ {p} : open'[r] = open[r] /\ outdated'[r] = outdated[r]
<1>0. open \in [Pages -> Opened \cup {Shut}]
  BY DEF ListInv, ShownOK
<1>1. ASSUME NEW c, NEW row, Opens(p, c, row)
      PROVE  DOMAIN outdated' = Pages /\ \A r \in Pages \ {p} : open'[r] = open[r] /\ outdated'[r] = outdated[r]
  BY <1>0, <1>1 DEF Opens, FlagsOK
<1>2. CASE Secured(p)
  BY <1>0, <1>2 DEF Secured, FlagsOK
<1>3. CASE UNCHANGED <<open, outdated>>
  BY <1>3 DEF FlagsOK
<1> QED BY <1>1, <1>2, <1>3 DEF Continues

\* What one page looks at leaves the others alone.
OthersSame(p) == DOMAIN behind' = Pages /\ DOMAIN outdated' = Pages /\ \A r \in Pages \ {p} : PageSame(r)

LEMMA ShownSame ==
  ASSUME ListInv, FlagsOK, NEW p \in Pages, UNCHANGED <<list, reply, behind>>,
         NoLoad \/ (\E next : Load(p, next)),
         DOMAIN outdated' = Pages, \A r \in Pages \ {p} : open'[r] = open[r] /\ outdated'[r] = outdated[r]
  PROVE  OthersSame(p)
BY DEF ListInv, TrafficOK, FlagsOK, NoLoad, Load, OthersSame, PageSame

LEMMA PageStepOthers ==
  ASSUME ChatsAssumption, TruthInv, NEW p \in Pages, PageStep(p)
  PROVE  OthersSame(p)
<1>0. /\ ListInv /\ FlagsOK /\ list \in [Pages -> Rows] /\ open \in [Pages -> Opened \cup {Shut}]
      /\ loading \in [Pages -> Seq(FollowUps)] /\ reply \in [Pages -> Seq(Fetched)]
  BY DEF TruthInv, ListInv, ShownOK, TrafficOK
<1>1. CASE Serve(p)
  BY <1>0, <1>1 DEF Serve, OthersSame, PageSame, FlagsOK
<1>2. CASE Arrive(p)
  <2>1. PICK i \in DOMAIN reply[p] :
          LET it == reply[p][i] IN
          /\ list' = [list EXCEPT ![p] = it.rows]
          /\ behind' = [behind EXCEPT ![p] = it.old]
          /\ reply' = [reply EXCEPT ![p] =
               Drop([j \in DOMAIN @ |-> IF j < i THEN [@[j] EXCEPT !.old = TRUE] ELSE @[j]], i)]
          /\ Continues(p, it.next, it.rows)
    BY <1>2 DEF Arrive
  <2>2. reply[p][i] \in Fetched
    BY <1>0
  <2>3. PICK next, rows : next = reply[p][i].next /\ rows = reply[p][i].rows
    OBVIOUS
  <2>4. next \in FollowUps /\ rows \in Rows /\ Continues(p, next, rows)
    BY <2>1, <2>2, <2>3 DEF Fetched
  <2>5. DOMAIN outdated' = Pages /\ \A r \in Pages \ {p} : open'[r] = open[r] /\ outdated'[r] = outdated[r]
    BY <1>0, <2>4, ContinuesOthers
  <2>6. \A r \in Pages \ {p} : list'[r] = list[r] /\ reply'[r] = reply[r] /\ behind'[r] = behind[r]
    BY <1>0, <2>1 DEF FlagsOK
  <2>7. DOMAIN behind' = Pages /\ UNCHANGED loading
    BY <1>0, <1>2, <2>1 DEF FlagsOK, Arrive
  <2> QED BY <2>5, <2>6, <2>7 DEF OthersSame, PageSame
<1>3. CASE LoadFails(p)
  <2>1. PICK i \in DOMAIN loading[p] :
          /\ loading' = [loading EXCEPT ![p] = Drop(@, i)]
          /\ Continues(p, loading[p][i], [c \in ChatIds |-> Gone])
    BY <1>3 DEF LoadFails
  <2>2. PICK next, rows : next = loading[p][i] /\ rows = [c \in ChatIds |-> Gone]
    OBVIOUS
  <2>3. next \in FollowUps /\ rows \in Rows /\ Continues(p, next, rows)
    BY <1>0, <2>1, <2>2 DEF Rows
  <2>4. DOMAIN outdated' = Pages /\ \A r \in Pages \ {p} : open'[r] = open[r] /\ outdated'[r] = outdated[r]
    BY <1>0, <2>3, ContinuesOthers
  <2>5. /\ DOMAIN behind' = Pages /\ UNCHANGED list
        /\ \A r \in Pages \ {p} : behind'[r] = behind[r] /\ reply'[r] = reply[r] /\ loading'[r] = loading[r]
    BY <1>0, <1>3, <2>1 DEF FlagsOK, LoadFails
  <2> QED BY <2>4, <2>5 DEF OthersSame, PageSame
<1>4. CASE Hear(p)
  <2>1. PICK m : m = Head(inbox[p])
    OBVIOUS
  <2>2. /\ IF Refetches(m) THEN Load(p, NoMore) ELSE NoLoad
        /\ Patch(p, m) \/ UNCHANGED <<open, outdated>>
        /\ UNCHANGED <<list, reply, behind>>
    BY <1>4, <2>1 DEF Hear
  <2>3. Closes(p) \/ (UNCHANGED outdated /\ \A r \in Pages \ {p} : open'[r] = open[r])
    BY <1>0, <2>2 DEF Patch
  <2>4. DOMAIN outdated' = Pages /\ \A r \in Pages \ {p} : open'[r] = open[r] /\ outdated'[r] = outdated[r]
    BY <1>0, <2>3 DEF Closes, FlagsOK
  <2> QED BY <1>0, <2>2, <2>4, ShownSame
<1>5. CASE Disconnect(p)
  BY <1>0, <1>5 DEF Disconnect, OthersSame, PageSame, FlagsOK
<1>6. CASE Reconnect(p)
  <2>1. DOMAIN outdated' = Pages /\ \A r \in Pages \ {p} : open'[r] = open[r] /\ outdated'[r] = outdated[r]
    BY <1>0, <1>6 DEF Reconnect, FlagsOK
  <2> QED BY <1>0, <1>6, <2>1, ShownSame DEF Reconnect
<1> QED BY <1>1, <1>2, <1>3, <1>4, <1>5, <1>6 DEF PageStep

LEMMA StepOthers ==
  ASSUME ChatsAssumption, TruthInv, NEW p \in Pages, StepOf(p)
  PROVE  OthersSame(p)
<1>0. /\ ListInv /\ FlagsOK /\ list \in [Pages -> Rows] /\ open \in [Pages -> Opened \cup {Shut}]
      /\ loading \in [Pages -> Seq(FollowUps)] /\ reply \in [Pages -> Seq(Fetched)]
  BY DEF TruthInv, ListInv, ShownOK, TrafficOK
<1>1. ASSUME UNCHANGED <<list, open, loading, reply, behind, outdated>> PROVE OthersSame(p)
  BY <1>0, <1>1 DEF OthersSame, PageSame, FlagsOK
<1>2. CASE PageStep(p)
  BY <1>2, PageStepOthers
<1>3. CASE UNCHANGED pageVars
  BY <1>1, <1>3 DEF pageVars
<1>4. CASE Pick(p) \/ StartSecretHere(p) \/ AnswerHere(p)
  BY <1>3, <1>4 DEF Pick, StartSecretHere, AnswerHere
<1>5. CASE HandlerStep(p)
  BY <1>1, <1>5 DEF HandlerStep
<1>6. CASE \E c \in ChatIds : OpenRow(p, c)
  <2>1. PICK c \in ChatIds : OpenRow(p, c)
    BY <1>6
  <2>2. /\ UNCHANGED <<list, reply, behind, loading>>
        /\ DOMAIN outdated' = Pages /\ \A r \in Pages \ {p} : open'[r] = open[r] /\ outdated'[r] = outdated[r]
    BY <1>0, <2>1 DEF OpenRow, Opens, FlagsOK
  <2> QED BY <1>0, <2>2, ShownSame DEF NoLoad
<1>7. ASSUME Closes(p) PROVE DOMAIN outdated' = Pages /\ \A r \in Pages \ {p} : open'[r] = open[r] /\ outdated'[r] = outdated[r]
  BY <1>0, <1>7 DEF Closes, FlagsOK
<1>8. CASE Back(p)
  BY <1>0, <1>7, <1>8, ShownSame DEF Back
<1>9. CASE DeleteHere(p)
  <2>1. /\ UNCHANGED <<loading, reply, behind>> /\ Closes(p)
        /\ \A r \in Pages \ {p} : list'[r] = list[r]
    BY <1>0, <1>9 DEF DeleteHere
  <2> QED BY <1>0, <1>7, <2>1 DEF OthersSame, PageSame, FlagsOK
<1>10. CASE SetTimerHere(p)
  <2>1. /\ UNCHANGED <<list, loading, reply, behind, outdated>>
        /\ \A r \in Pages \ {p} : open'[r] = open[r]
    BY <1>0, <1>10 DEF SetTimerHere
  <2> QED BY <1>0, <2>1 DEF OthersSame, PageSame, FlagsOK
<1>11. CASE Answers(p)
  <2>1. UNCHANGED <<list, reply, behind>>
    BY <1>11 DEF Answers
  <2>2. Answered(p) \/ UNCHANGED <<open, outdated, loading>>
    BY <1>11 DEF Answers
  <2>3. CASE UNCHANGED <<open, outdated, loading>>
    BY <1>1, <2>1, <2>3
  <2>4. CASE Answered(p)
    <3>1. NoLoad \/ \E next : Load(p, next)
      BY <2>4 DEF Answered
    <3>2. Closes(p) \/ (UNCHANGED outdated /\ \A r \in Pages \ {p} : open'[r] = open[r])
      BY <1>0, <2>4 DEF Answered
    <3>3. DOMAIN outdated' = Pages /\ \A r \in Pages \ {p} : open'[r] = open[r] /\ outdated'[r] = outdated[r]
      BY <1>0, <1>7, <3>2 DEF FlagsOK
    <3> QED BY <1>0, <2>1, <3>1, <3>3, ShownSame
  <2> QED BY <2>2, <2>3, <2>4
<1> QED BY <1>2, <1>3, <1>4, <1>5, <1>6, <1>8, <1>9, <1>10, <1>11 DEF StepOf, UserStep

-----------------------------------------------------------------------------
\* What page p shows after its own step.

\* What the user asks for is about a timer only where a timer is chosen.
LEMMA UserTimer ==
  ASSUME ChatsInv, NEW p \in Pages, Pick(p) \/ StartSecretHere(p) \/ AnswerHere(p) \/ DeleteHere(p)
  PROVE  req'[p].op # "timer"
<1>1. \A op, c, whom, timer, step : Asks(p, op, c, whom, timer, step) => req'[p].op = op
  BY AsksFields
<1>2. ASSUME NEW v, CreateDirect(p, v) \/ StartSecret(p, v) PROVE req'[p].op # "timer"
  BY <1>1, <1>2 DEF CreateDirect, StartSecret
<1>3. ASSUME NEW members, CreateGroup(p, members) PROVE req'[p].op # "timer"
  BY <1>1, <1>3 DEF CreateGroup
<1>4. ASSUME NEW c, Accept(p, c) \/ Reject(p, c) \/ Destroy(p, c) \/ Leave(p, c) PROVE req'[p].op # "timer"
  BY <1>1, <1>4 DEF Accept, Reject, Destroy, Leave
<1>5. CASE Pick(p)
  BY <1>2, <1>3, <1>5 DEF Pick
<1>6. CASE StartSecretHere(p)
  BY <1>2, <1>6 DEF StartSecretHere
<1>7. CASE AnswerHere(p)
  BY <1>4, <1>7 DEF AnswerHere
<1>8. CASE DeleteHere(p)
  BY <1>4, <1>8 DEF DeleteHere
<1> QED BY <1>5, <1>6, <1>7, <1>8

\* A handler goes on with the request it has.
LEMMA HandlerGoesOn == ASSUME ChatsInv, NEW p \in Pages, Handles(p) PROVE req'[p].op = req[p].op /\ ~Return(p)
<1>1. ~Return(p)
  BY DEF Return, Ended, Handles, DirectInsert, DirectLost, AddInsert, SecretInsert, AcceptUpdate, RejectDelete,
         TimerUpdate, DestroyDelete, LeaveDelete, LeaveCommit, PurgeDelete, Announce, Note, At
<1>2. CASE Announce(p)
  <2>1. req[p].op # "none"
    BY <1>2, RequestTypes DEF Announce, Telling
  <2>2. PICK step : step = AfterEvent(p)
    OBVIOUS
  <2> QED BY <1>1, <1>2, <2>1, <2>2, GoesFields DEF Announce
<1>3. CASE Note(p)
  BY <1>1, <1>3, GoesFields DEF Note, At
<1> QED BY <1>1, <1>2, <1>3, HandlerRequests

LEMMA OwnTruth ==
  ASSUME ChatsAssumption, TruthInv, ListInv', NEW p \in Pages, StepOf(p)
  PROVE  HoldsFit(p)' /\ OldOK(p)' /\ TruthOK(p)' /\ OwnTimerOK(p)' /\ early \subseteq early'
<1>0. ChatsInv /\ ServerOK /\ OwnTimerOK(p)
  BY DEF TruthInv, ListInv, PageOK
<1>1. (Served(p) \/ Plugged(p) \/ UNCHANGED vars) /\ mounted' = mounted
  BY StepServed
<1>2. ASSUME p \in mounted /\ req'[p].op = "timer" => req[p].op = "timer" PROVE OwnTimerOK(p)'
  BY <1>0, <1>1, <1>2, OwnTimerStays
<1>3. ASSUME UNCHANGED <<list, open, loading, reply, behind, outdated>>, early \subseteq early',
             Served(p), ~Return(p)
      PROVE  HoldsFit(p)' /\ OldOK(p)' /\ TruthOK(p)'
  <2>1. PageSame(p)
    BY <1>3 DEF PageSame
  <2> QED BY <1>1, <1>3, <2>1, PageStays
<1>4. ASSUME UNCHANGED pageVars, Wishes(p, Users, 1 .. made, Users)
      PROVE  HoldsFit(p)' /\ OldOK(p)' /\ TruthOK(p)' /\ early \subseteq early'
  <2>1. Served(p) /\ ~Return(p)
    BY <1>0, <1>4, WishJoinsNobody DEF Served
  <2> QED BY <1>3, <1>4, <2>1 DEF pageVars
<1>5. CASE PageStep(p)
  <2>1. OwnTimerOK(p)'
    BY <1>2, <1>5, PageStepIsPlugged
  <2>2. CASE Serve(p) \/ Arrive(p) \/ LoadFails(p)
    BY <2>1, <2>2, ServeTruth, ArriveTruth, LoadFailsTruth
  <2>3. CASE Hear(p) \/ Disconnect(p) \/ Reconnect(p)
    <3>1. early \subseteq early'
      BY <2>3 DEF Hear, Disconnect, Reconnect
    <3> QED BY <2>1, <2>3, <3>1, HearTruth, DisconnectTruth, ReconnectTruth
  <2> QED BY <1>5, <2>2, <2>3 DEF PageStep
<1>6. CASE (\E c \in ChatIds : OpenRow(p, c)) \/ Back(p)
  <2>1. UNCHANGED req
    BY <1>6 DEF OpenRow, Back, vars
  <2> QED BY <1>2, <1>6, <2>1, OpenRowTruth, BackTruth
<1>7. CASE Pick(p) \/ StartSecretHere(p) \/ AnswerHere(p)
  <2>1. UNCHANGED pageVars /\ Wishes(p, Users, 1 .. made, Users) /\ OwnTimerOK(p)'
    BY <1>0, <1>2, <1>7, UserTimer, UserIsServed DEF Pick, StartSecretHere, AnswerHere
  <2> QED BY <1>4, <2>1
<1>8. CASE DeleteHere(p)
  <2>1. early \subseteq early' /\ OwnTimerOK(p)'
    BY <1>0, <1>2, <1>8, UserTimer DEF DeleteHere
  <2> QED BY <1>8, <2>1, DeleteHereTruth
<1>9. CASE SetTimerHere(p)
  BY <1>9, SetTimerHereTruth DEF SetTimerHere
<1>10. CASE p \notin mounted /\ AsksAnything(p) /\ UNCHANGED pageVars
  <2>1. Peers \subseteq Users /\ Joiners \subseteq Users
    BY DEF ChatsAssumption
  <2>2. Wishes(p, Users, 1 .. made, Users)
    BY <1>10, <2>1 DEF AsksAnything, Wishes
  <2> QED BY <1>2, <1>4, <1>10, <2>2
<1>11. CASE HandlerStep(p)
  <2>1. Served(p) /\ early \subseteq early' /\ UNCHANGED <<list, open, loading, reply, behind, outdated>>
    BY <1>11 DEF HandlerStep, Served
  <2>2. req'[p].op = req[p].op /\ ~Return(p)
    BY <1>0, <1>11, HandlerGoesOn DEF HandlerStep
  <2> QED BY <1>2, <1>3, <2>1, <2>2
<1>12. CASE Answers(p)
  <2>1. req'[p] = Idle /\ early \subseteq early'
    BY <1>0, <1>12 DEF Answers, Return, ChatsInv, ChatsTypeOK
  <2>2. OwnTimerOK(p)'
    BY <1>2, <2>1 DEF Idle
  <2> QED BY <1>12, <2>1, <2>2, AnswersTruth
<1> QED BY <1>5, <1>6, <1>7, <1>8, <1>9, <1>10, <1>11, <1>12 DEF StepOf, UserStep

-----------------------------------------------------------------------------
\* The inductive invariant.

LEMMA TruthStep ==
  ASSUME ChatsAssumption, TruthInv, [ListNext]_allVars
  PROVE  TruthInv'
<1>0. /\ ListInv /\ ServerOK /\ FlagsOK /\ ChatsInv
      /\ \A r \in Pages : HoldsFit(r) /\ OldOK(r) /\ InboxOK(r) /\ EndingOK(r) /\ OwnTimerOK(r) /\ TruthOK(r)
  BY DEF TruthInv, ListInv, PageOK
<1>1. ListInv'
  BY <1>0, ListInvStep
<1>2. CASE UNCHANGED allVars
  <2>1. /\ UNCHANGED <<chat, made, req, inbox, online, asked, raced>>
        /\ UNCHANGED <<mounted, list, open, loading, reply, behind, outdated, early>>
    BY <1>2 DEF allVars, vars, pageVars
  <2>2. UNCHANGED vars
    BY <2>1 DEF vars
  <2>3. ServerOK' /\ FlagsOK'
    <3>1. SharingInv'
      BY <1>0, <2>2, SharingStep DEF ServerOK
    <3>2. PlainOK' /\ EventsOK' /\ FlagsOK'
      BY <1>0, <2>1 DEF ServerOK, PlainOK, EventsOK, EventOK, Live, FlagsOK
    <3>3. \A q \in Pages : AskedOK(q)'
      BY <1>0, <2>1 DEF ServerOK, AskedOK, Live
    <3> QED BY <3>1, <3>2, <3>3 DEF ServerOK
  <2>4. ASSUME NEW p \in Pages PROVE PageOK(p)' /\ TruthOK(p)'
    <3>1. PageSame(p) /\ mounted' = mounted /\ early \subseteq early' /\ req'[p] = req[p]
      BY <2>1 DEF PageSame
    <3>2. ~Return(p)
      BY <1>0, <2>1 DEF Return, Ended, Idle, ChatsInv, ChatsTypeOK
    <3>3. HoldsFit(p)' /\ OldOK(p)' /\ TruthOK(p)'
      BY <1>1, <2>2, <3>1, <3>2, PageStays
    <3>4. InboxOK(p)' /\ OwnTimerOK(p)'
      BY <1>0, <2>2, <3>1, InboxStays, OwnTimerStays
    <3>5. EndingOK(p)'
      BY <1>0, <2>1 DEF EndingOK, At
    <3> QED BY <3>3, <3>4, <3>5 DEF PageOK
  <2> QED BY <1>1, <2>3, <2>4 DEF TruthInv
<1>3. ASSUME NEW p \in Pages, StepOf(p) PROVE TruthInv'
  <2>1. /\ Served(p) \/ Plugged(p) \/ UNCHANGED vars
        /\ mounted' = mounted /\ (UNCHANGED <<chat, req>> \/ JoinedLate(p) \subseteq early')
    BY <1>3, StepServed
  <2>2. OthersSame(p)
    BY <1>3, StepOthers
  <2>3. HoldsFit(p)' /\ OldOK(p)' /\ TruthOK(p)' /\ OwnTimerOK(p)' /\ early \subseteq early'
    BY <1>1, <1>3, OwnTruth
  <2>4. ServerOK' /\ FlagsOK'
    BY <1>0, <2>1, <2>2, ServedOK DEF OthersSame, FlagsOK
  <2>5. ASSUME NEW r \in Pages PROVE InboxOK(r)'
    BY <1>0, <2>1, InboxStays
  <2>6. ASSUME NEW r \in Pages PROVE EndingOK(r)'
    <3>1. CASE UNCHANGED <<chat, req>>
      BY <1>0, <2>3, <3>1 DEF EndingOK, At
    <3>2. CASE JoinedLate(p) \subseteq early'
      BY <1>0, <2>1, <2>3, <3>2, EndingsStay
    <3> QED BY <2>1, <3>1, <3>2
  <2>7. ASSUME NEW r \in Pages \ {p} PROVE HoldsFit(r)' /\ OldOK(r)' /\ TruthOK(r)' /\ OwnTimerOK(r)'
    <3>1. PageSame(r)
      BY <2>2 DEF OthersSame
    <3>2. HoldsFit(r)' /\ OldOK(r)' /\ TruthOK(r)'
      BY <1>1, <2>1, <2>3, <3>1, PageStays
    <3>3. req'[r] = req[r]
      BY <1>0, <2>1, ServedOthers
    <3>4. OwnTimerOK(r)'
      BY <1>0, <2>1, <3>3, OwnTimerStays
    <3> QED BY <3>2, <3>4
  <2>8. \A r \in Pages : PageOK(r)' /\ TruthOK(r)'
    BY <2>3, <2>5, <2>6, <2>7 DEF PageOK
  <2> QED BY <1>1, <2>4, <2>8 DEF TruthInv
<1> QED BY <1>2, <1>3 DEF ListNext, StepOf

LEMMA TruthInit == ASSUME ChatsAssumption, ListInit PROVE TruthInv
<1>0. /\ ListInv /\ SharingInv /\ ChatsInv
      /\ \A q \in Pages : req[q] = Idle /\ inbox[q] = << >> /\ reply[q] = << >> /\ open[q] = Shut
      /\ \A q \in Pages : \A c \in ChatIds : list[q][c] = Gone
      /\ \A q \in mounted : q \in Pages => loading[q] = <<NoMore>>
  BY ListInitInv, InitSharing, InitTypes DEF ListInit, Init
<1>1. PlainOK
  <2>1. SUFFICES ASSUME NEW c \in ChatIds, chat[c].kind # "secret" PROVE Plain(chat[c])
    BY DEF PlainOK
  <2>2. CASE chat[c] = Gone
    BY <2>2 DEF Plain, Gone
  <2>3. CASE chat[c] # Gone
    <3>1. PICK u, v \in Peers : \E row \in Existing(u, v) : chat[c] = row
      BY <2>3 DEF ListInit, Init
    <3>2. PICK row \in Existing(u, v) : chat[c] = row
      BY <3>1
    <3>3. CASE row = DirectRow({u, v})
      BY <3>2, <3>3 DEF DirectRow, Plain
    <3>4. CASE row = GroupRow({u, v})
      BY <3>2, <3>4 DEF GroupRow, DirectRow, Plain
    <3>5. CASE row = SecretRow(u, v) \/ row = [SecretRow(u, v) EXCEPT !.enc = TRUE]
      <4>1. row.kind = "secret"
        BY <3>5 DEF SecretRow, DirectRow
      <4> QED BY <2>1, <3>2, <4>1
    <3> QED BY <3>2, <3>3, <3>4, <3>5 DEF Existing
  <2> QED BY <2>2, <2>3
<1>2. ServerOK
  <2>1. \A q \in Pages : AskedOK(q)
    BY <1>0 DEF AskedOK, Idle, ChatsInv, ChatsTypeOK, NoChat
  <2>2. EventsOK
    BY <1>0 DEF EventsOK
  <2> QED BY <1>0, <1>1, <2>1, <2>2 DEF ServerOK
<1>3. FlagsOK
  BY DEF ListInit, FlagsOK
<1>4. ASSUME NEW p \in Pages PROVE PageOK(p) /\ TruthOK(p)
  <2>1. HoldsFit(p) /\ OldOK(p)
    BY <1>0 DEF HoldsFit, OldOK, RowsFit, RowFits, OpenFits
  <2>2. InboxOK(p)
    BY <1>0 DEF InboxOK
  <2>3. EndingOK(p) /\ OwnTimerOK(p)
    BY <1>0 DEF EndingOK, OwnTimerOK, At, Idle
  <2>4. p \in mounted => Stale(p)
    BY <1>0 DEF Stale
  <2>5. TruthOK(p)
    BY <1>0, <2>4 DEF TruthOK, ListOK, OpenOK
  <2> QED BY <2>1, <2>2, <2>3, <2>5 DEF PageOK
<1> QED BY <1>0, <1>2, <1>3, <1>4 DEF TruthInv

LEMMA TruthHolds == ASSUME ChatsAssumption PROVE ListSpec => []TruthInv
<1>1. ListInit => TruthInv
  BY TruthInit
<1>2. TruthInv /\ [ListNext]_allVars => TruthInv'
  BY TruthStep
<1> QED BY <1>1, <1>2, PTL DEF ListSpec

\* Nothing is due to a page that is quiet.
LEMMA QuietNotDue ==
  ASSUME NEW p, Quiet(p), NEW c
  PROVE  (\A t : ~Due(p, c, t)) /\ ~Refetch(p, c) /\ ~Removing(p, c) /\ req[p].op = "none"
<1>1. \A q \in Pages : req[q].step \notin {"announce", "note"}
  BY DEF Quiet, Ended
<1>2. \A t : ~Due(p, c, t)
  BY <1>1 DEF Quiet, Due, Queued, WillTell
<1> QED BY <1>1, <1>2 DEF Quiet, Refetch, TimerOnWay, Removing, Idle

LEMMA TruthList == TruthInv => ListIsTrue
<1>1. SUFFICES ASSUME TruthInv, NEW p \in Pages, Quiet(p), ~behind[p], NEW c \in ChatIds \ early
               PROVE  /\ list[p][c] # Gone => Current(p, c, list[p][c])
                      /\ chat[c].kind = "secret" /\ IsMember(p, c) => list[p][c] # Gone
  BY DEF ListIsTrue
<1>2. ListOK(p) /\ ~Stale(p) /\ Newest(p) = list[p]
  BY <1>1 DEF TruthInv, TruthOK, Stale, Quiet, Newest, AllOld
<1>3. Listed(p, c, list[p][c])
  BY <1>1, <1>2 DEF ListOK, Quiet
<1> QED BY <1>1, <1>3, QuietNotDue DEF Listed

LEMMA TruthOpen == TruthInv => OpenIsTrue
<1>1. SUFFICES ASSUME TruthInv, NEW p \in Pages, Quiet(p), open[p] # Shut, ~outdated[p], open[p].id \notin early,
                      NEW c, c = open[p].id
               PROVE  /\ IsMember(p, c)
                      /\ open[p].row.enc = chat[c].enc
                      /\ open[p].row.timer = chat[c].timer \/ "timer" \in raced
  BY DEF OpenIsTrue
<1>2. Shown(p, c, open[p].row)
  BY <1>1 DEF TruthInv, TruthOK, OpenOK, Quiet
<1>3. (\A t : ~Due(p, c, t)) /\ req[p].op # "timer"
  BY <1>1, QuietNotDue
<1> QED BY <1>2, <1>3 DEF Shown

-----------------------------------------------------------------------------
\* A page that has caught up lists what is stored and no chat that is gone or left, and
\* every secret chat there is to answer, whatever the order of events, answers and replies
\* (ChatList.js:355: each event makes the page fetch the list again).
THEOREM ListIsTrueTheorem == ASSUME ChatsAssumption PROVE ListSpec => []ListIsTrue
BY TruthHolds, TruthList, PTL

\* The conversation that is open exists, its user is in it, and it shows the encryption and
\* the timer that are stored, although it is patched by events and answers and never
\* fetched (ChatList.js:357).
THEOREM OpenIsTrueTheorem == ASSUME ChatsAssumption PROVE ListSpec => []OpenIsTrue
BY TruthHolds, TruthOpen, PTL
=============================================================================
