------------------------------ MODULE Delivery -------------------------------
(***************************************************************************)
(* The message pipeline of the backend: websocket connections, the hub     *)
(* goroutine of every replica, the Redis fan-out and presence set, and the *)
(* status column of the messages of one chat.                              *)
(*                                                                         *)
(* Each action is what one goroutine does between two points where another *)
(* goroutine, replica or the database can be observed: one SQL statement,  *)
(* one Redis command, one critical section of Hub.mu, one channel          *)
(* operation.                                                              *)
(***************************************************************************)
EXTENDS Naturals, Sequences, FiniteSets

CONSTANTS
  Users,        \* the members of the chat
  Muted,        \* those among them who muted it
  Conns,        \* websocket connections, each opened at most once
  Owner,        \* the user a connection was authenticated as
  Replicas,     \* backend processes
  Home,         \* the replica that accepted a connection
  Msgs,         \* ids the messages table can hand out (bounds the model)
  Viewers,      \* connections whose user opens the chat (bounds the model)
  KeySets,      \* sets of members a message may carry a readable copy for
  UseRedis,     \* cache.Enabled()
  IncomingCap,  \* capacity of Hub.Incoming (256)
  SendBuffer,   \* capacity of Client.Send (64)
  MaxLag,       \* envelopes Redis may still owe a replica (bounds the model)
  MaxFaults     \* failed database or Redis calls and killed replicas (bound)

ASSUME ConstantsAssumption ==
  /\ IsFiniteSet(Users) /\ Muted \subseteq Users
  /\ Owner \in [Conns -> Users]
  /\ Home \in [Conns -> Replicas]
  /\ IsFiniteSet(Msgs)
  /\ Viewers \subseteq Conns
  /\ KeySets \subseteq SUBSET Users
  /\ UseRedis \in BOOLEAN
  /\ IncomingCap \in Nat \ {0} /\ SendBuffer \in Nat \ {0}
  /\ MaxLag \in Nat \ {0} /\ MaxFaults \in Nat

\* Without Redis the deployment is a single process.
ASSUME SingleProcessAssumption ==
  ~UseRedis => \A r, q \in Replicas : r = q

VARIABLES
  conn,      \* where each connection is between HandleWS and Unregister
  clients,   \* Hub.clients of each replica
  closed,    \* connections whose done channel is closed
  sendq,     \* what Client.Send holds that the write pump will still write
  presence,  \* the presence sets in Redis, all users together
  incoming,  \* Hub.Incoming of each replica
  hub,       \* where Hub.Run of each replica is inside handleIncoming
  fanout,    \* what Redis has yet to hand to each replica's subscriber loop
  sender,    \* messages.sender_id
  status,    \* messages.status
  sweep,     \* the MarkDelivered goroutine of each connection
  task,      \* BroadcastStatus calls in progress
  drafts,    \* messages clients have submitted (bounds the model)
  faults,    \* faults so far
  orphaned   \* messages whose promotion a fault cut short

vars == <<conn, clients, closed, sendq, presence, incoming, hub, fanout, sender,
          status, sweep, task, drafts, faults, orphaned>>

sockets == <<conn, clients, closed, sendq, presence>>
database == <<sender, status>>
history == <<drafts, faults, orphaned>>

Statuses == {"none", "sent", "delivered", "seen"}
Rank(s) == IF s = "none" THEN 0
           ELSE IF s = "sent" THEN 1
           ELSE IF s = "delivered" THEN 2 ELSE 3

NoUser == "nobody"
NoMsg == "no message"

Phases == {"idle", "upgraded", "registered", "live", "leaving", "gone"}
Events == [kind : {"message", "status"}, ids : SUBSET Msgs, status : Statuses]
Envelopes == [user : Users, event : Events]
Drafts == [from : Users, keys : SUBSET Users]
HubStates == [pc : {"idle", "check", "promote", "dispatch", "push"},
              msg : Msgs \cup {NoMsg}, keys : SUBSET Users,
              todo : SUBSET Users, out : Statuses, pushed : SUBSET Users]
TaskIds == {"sweep", "read", "load"} \X Conns
Tasks == [ids : SUBSET Msgs, status : Statuses, todo : SUBSET Users]

IdleHub == [pc |-> "idle", msg |-> NoMsg, keys |-> {}, todo |-> {}, out |-> "none",
            pushed |-> {}]
IdleTask == [ids |-> {}, status |-> "none", todo |-> {}]

TypeOK ==
  /\ conn \in [Conns -> Phases]
  /\ clients \in [Replicas -> SUBSET Conns]
  /\ closed \in SUBSET Conns
  /\ sendq \in [Conns -> Seq(Events)]
  /\ \A c \in Conns : Len(sendq[c]) <= SendBuffer
  /\ presence \in SUBSET Conns
  /\ incoming \in [Replicas -> Seq(Drafts)]
  /\ \A r \in Replicas : Len(incoming[r]) <= IncomingCap
  /\ hub \in [Replicas -> HubStates]
  /\ \A r \in Replicas : hub[r].pc # "idle" => hub[r].msg \in Msgs
  /\ fanout \in [Replicas -> Seq(Envelopes)]
  /\ sender \in [Msgs -> Users \cup {NoUser}]
  /\ status \in [Msgs -> Statuses]
  /\ sweep \in [Conns -> {"no", "due", "done", "failed"}]
  /\ task \in [TaskIds -> Tasks]
  /\ drafts \in Nat
  /\ faults \in Nat
  /\ orphaned \in SUBSET Msgs

Init ==
  /\ conn = [c \in Conns |-> "idle"]
  /\ clients = [r \in Replicas |-> {}]
  /\ closed = {}
  /\ sendq = [c \in Conns |-> <<>>]
  /\ presence = {}
  /\ incoming = [r \in Replicas |-> <<>>]
  /\ hub = [r \in Replicas |-> IdleHub]
  /\ fanout = [r \in Replicas |-> <<>>]
  /\ sender = [m \in Msgs |-> NoUser]
  /\ status = [m \in Msgs |-> "none"]
  /\ sweep = [c \in Conns |-> "no"]
  /\ task = [t \in TaskIds |-> IdleTask]
  /\ drafts = 0
  /\ faults = 0
  /\ orphaned = {}

\* A call outside the process (database, Redis) fails.
Fault == faults < MaxFaults /\ faults' = faults + 1

-----------------------------------------------------------------------------
(* Presence and delivery to connections. *)

ConnsOf(r, u) == {c \in clients[r] : Owner[c] = u}

IsOnlineLocal(r, u) == ConnsOf(r, u) # {}
\* Mutant of IsOnline: without the presence set, as before there were replicas.
IsOnlineHere(r, u) == IsOnlineLocal(r, u)
IsOnline(r, u) ==
  IF UseRedis THEN \E c \in presence : Owner[c] = u ELSE IsOnlineLocal(r, u)

\* Mutant of SendTo: one event more than the buffer holds.
SendToOverfull(r, u, ev) ==
  LET open == ConnsOf(r, u) \ closed
      full == {c \in open : Len(sendq[c]) > SendBuffer}
  IN /\ sendq' = [c \in Conns |-> IF c \in full THEN <<>>
                                  ELSE IF c \in open THEN Append(sendq[c], ev)
                                  ELSE sendq[c]]
     /\ closed' = closed \cup full

\* sendTo: trySend to every connection of u on this replica.  A closed client
\* is skipped; one whose buffer is full is closed, to reconnect and resync.
SendTo(r, u, ev) ==
  LET open == ConnsOf(r, u) \ closed
      full == {c \in open : Len(sendq[c]) >= SendBuffer}
  IN /\ sendq' = [c \in Conns |-> IF c \in full THEN <<>>
                                  ELSE IF c \in open THEN Append(sendq[c], ev)
                                  ELSE sendq[c]]
     /\ closed' = closed \cup full

\* Mutant of Dispatch: never through the fan-out channel.
DispatchHere(r, u, ev) == SendTo(r, u, ev) /\ UNCHANGED <<fanout, faults>>

\* dispatch: locally without Redis, else through the fan-out channel; when the
\* publish fails, to this replica's own connections only.
Dispatch(r, u, ev) ==
  \/ /\ ~UseRedis
     /\ SendTo(r, u, ev)
     /\ UNCHANGED <<fanout, faults>>
  \/ /\ UseRedis /\ \A q \in Replicas : Len(fanout[q]) < MaxLag
     /\ fanout' = [q \in Replicas |->
                     Append(fanout[q], [user |-> u, event |-> ev])]
     /\ UNCHANGED <<closed, sendq, faults>>
  \/ /\ UseRedis /\ Fault
     /\ SendTo(r, u, ev)
     /\ UNCHANGED fanout

\* StartPubSub: the subscriber loop delivers what it finds on the channel.
Subscriber(r) ==
  /\ fanout[r] # <<>>
  /\ SendTo(r, Head(fanout[r]).user, Head(fanout[r]).event)
  /\ fanout' = [fanout EXCEPT ![r] = Tail(@)]
  /\ UNCHANGED <<conn, clients, presence, incoming, hub, sweep, task>>
  /\ UNCHANGED <<database, history>>

-----------------------------------------------------------------------------
(* The life of a connection. *)

\* HandleWS has redeemed the ticket and upgraded the request: the browser's
\* socket is open from here on.
Upgrade(c) ==
  /\ conn[c] = "idle"
  /\ conn' = [conn EXCEPT ![c] = "upgraded"]
  /\ UNCHANGED <<clients, closed, sendq, presence, incoming, hub, fanout, sweep, task>>
  /\ UNCHANGED <<database, history>>

\* Register, first half: the local map, under Hub.mu.
Register(c) ==
  /\ conn[c] = "upgraded"
  /\ conn' = [conn EXCEPT ![c] = "registered"]
  /\ clients' = [clients EXCEPT ![Home[c]] = @ \cup {c}]
  /\ UNCHANGED <<closed, sendq, presence, incoming, hub, fanout, sweep, task>>
  /\ UNCHANGED <<database, history>>

\* Register, second half: markOnline, whose failure is only logged.  HandleWS
\* then starts the pumps and the MarkDelivered goroutine.
MarkOnline(c) ==
  /\ conn[c] = "registered"
  /\ conn' = [conn EXCEPT ![c] = "live"]
  /\ sweep' = [sweep EXCEPT ![c] = "due"]
  /\ \/ /\ presence' = IF UseRedis THEN presence \cup {c} ELSE presence
        /\ UNCHANGED faults
     \/ UseRedis /\ Fault /\ UNCHANGED presence
  /\ UNCHANGED <<clients, closed, sendq, incoming, hub, fanout, task, drafts, orphaned>>
  /\ UNCHANGED database

\* writePump hands the next queued event to the socket.
WritePump(c) ==
  /\ conn[c] = "live" /\ c \notin closed
  /\ sendq[c] # <<>>
  /\ sendq' = [sendq EXCEPT ![c] = Tail(@)]
  /\ UNCHANGED <<conn, clients, closed, presence, incoming, hub, fanout, sweep, task>>
  /\ UNCHANGED <<database, history>>

\* writePump gives up: a write or a ping failed, so it closes the client.
WriteFails(c) ==
  /\ conn[c] = "live" /\ c \notin closed
  /\ closed' = closed \cup {c}
  /\ sendq' = [sendq EXCEPT ![c] = <<>>]
  /\ UNCHANGED <<conn, clients, presence, incoming, hub, fanout, sweep, task>>
  /\ UNCHANGED <<database, history>>

\* readPump sees the end of the connection: Unregister, first half.
Unregister(c) ==
  /\ conn[c] = "live"
  /\ task[<<"read", c>>].todo = {}
  /\ conn' = [conn EXCEPT ![c] = "leaving"]
  /\ clients' = [clients EXCEPT ![Home[c]] = @ \ {c}]
  /\ UNCHANGED <<closed, sendq, presence, incoming, hub, fanout, sweep, task>>
  /\ UNCHANGED <<database, history>>

\* Mutant of MarkOffline: presence is kept per user instead of per connection.
MarkUserOffline(c) ==
  /\ conn[c] = "leaving"
  /\ conn' = [conn EXCEPT ![c] = "gone"]
  /\ closed' = closed \cup {c}
  /\ sendq' = [sendq EXCEPT ![c] = <<>>]
  /\ presence' = {d \in presence : Owner[d] # Owner[c]}
  /\ UNCHANGED <<clients, incoming, hub, fanout, sweep, task>>
  /\ UNCHANGED <<database, history>>

\* Unregister, second half: markOffline, whose failure is only logged, and close.
MarkOffline(c) ==
  /\ conn[c] = "leaving"
  /\ conn' = [conn EXCEPT ![c] = "gone"]
  /\ closed' = closed \cup {c}
  /\ sendq' = [sendq EXCEPT ![c] = <<>>]
  /\ \/ presence' = presence \ {c} /\ UNCHANGED faults
     \/ UseRedis /\ Fault /\ UNCHANGED presence
  /\ UNCHANGED <<clients, incoming, hub, fanout, sweep, task, drafts, orphaned>>
  /\ UNCHANGED database

-----------------------------------------------------------------------------
(* Receipts. *)

\* Mutant of Unseen: the UPDATE has lost its condition on the status.
UnseenUnguarded(u, before) == {m \in Msgs : status[m] # "none" /\ sender[m] # u}
\* The rows an UPDATE of u's receipts touches: other people's messages.
Unseen(u, before) == {m \in Msgs : status[m] \in before /\ sender[m] # u}

Promote(S, next) == [m \in Msgs |-> IF m \in S THEN next ELSE status[m]]

\* Mutant of Announce: whatever was promoted is announced as read.
AnnounceSeen(S, next) ==
  IF S = {} THEN IdleTask ELSE [ids |-> S, status |-> "seen", todo |-> Users]
\* BroadcastStatus starts: nothing to say about no message.
Announce(S, next) ==
  IF S = {} THEN IdleTask ELSE [ids |-> S, status |-> next, todo |-> Users]

\* MarkDelivered: the sweep of a connection that has just come online.  A failed
\* UPDATE ends it; so does losing the rows the UPDATE returned.
MarkDelivered(c) ==
  LET ids == Unseen(Owner[c], {"sent"}) IN
  /\ sweep[c] = "due"
  /\ \/ /\ status' = Promote(ids, "delivered")
        /\ task' = [task EXCEPT ![<<"sweep", c>>] = Announce(ids, "delivered")]
        /\ sweep' = [sweep EXCEPT ![c] = "done"]
        /\ UNCHANGED faults
     \/ /\ Fault
        /\ status' \in {status, Promote(ids, "delivered")}
        /\ sweep' = [sweep EXCEPT ![c] = "failed"]
        /\ UNCHANGED task
  /\ UNCHANGED <<sockets, incoming, hub, fanout, sender, drafts, orphaned>>

\* markSeen, run by readPump on a "seen" event.
MarkSeen(c) ==
  LET ids == Unseen(Owner[c], {"sent", "delivered"}) IN
  /\ c \in Viewers
  /\ conn[c] = "live"
  /\ task[<<"read", c>>].todo = {}
  /\ status' = Promote(ids, "seen")
  /\ task' = [task EXCEPT ![<<"read", c>>] = Announce(ids, "seen")]
  /\ UNCHANGED <<sockets, incoming, hub, fanout, sender, sweep>>
  /\ UNCHANGED history

\* GetMessages, first half: opening the chat marks its history as seen.
FetchMarksSeen(c) ==
  LET ids == Unseen(Owner[c], {"sent", "delivered"}) IN
  /\ c \in Viewers
  /\ conn[c] # "idle"
  /\ task[<<"load", c>>].todo = {}
  /\ status' = Promote(ids, "seen")
  /\ task' = [task EXCEPT ![<<"load", c>>] = Announce(ids, "seen")]
  /\ UNCHANGED <<sockets, incoming, hub, fanout, sender, sweep>>
  /\ UNCHANGED history

\* BroadcastStatus: one member after the other, in no particular order.
BroadcastStatus(t) ==
  LET job == task[t] IN
  \E u \in job.todo :
    /\ Dispatch(Home[t[2]], u,
                [kind |-> "status", ids |-> job.ids, status |-> job.status])
    /\ task' = [task EXCEPT ![t] = IF job.todo = {u} THEN IdleTask
                                   ELSE [job EXCEPT !.todo = @ \ {u}]]
    /\ UNCHANGED <<conn, clients, presence, incoming, hub, sweep, drafts, orphaned>>
    /\ UNCHANGED database

-----------------------------------------------------------------------------
(* A message on its way through the hub. *)

\* readPump queues a message under the connection's own user; when the hub is
\* saturated the message is dropped.
Submit(c) ==
  /\ conn[c] = "live"
  /\ task[<<"read", c>>].todo = {}
  /\ drafts < Cardinality(Msgs)
  /\ drafts' = drafts + 1
  /\ IF Len(incoming[Home[c]]) < IncomingCap
     THEN \E K \in KeySets :
            incoming' = [incoming EXCEPT ![Home[c]] =
                           Append(@, [from |-> Owner[c], keys |-> K])]
     ELSE UNCHANGED incoming
  /\ UNCHANGED <<sockets, hub, fanout, sweep, task, faults, orphaned>>
  /\ UNCHANGED database

\* handleIncoming returns early: the author left the chat, the content is
\* invalid, its encryption is not the chat's, or the insert failed.
Refuse(r) ==
  /\ hub[r].pc = "idle" /\ incoming[r] # <<>>
  /\ incoming' = [incoming EXCEPT ![r] = Tail(@)]
  /\ UNCHANGED <<sockets, hub, fanout, sweep, task>>
  /\ UNCHANGED <<database, history>>

\* persist: the INSERT gives the message an id no row has yet.
Persist(r) ==
  LET draft == Head(incoming[r]) IN
  /\ hub[r].pc = "idle" /\ incoming[r] # <<>>
  /\ \E m \in Msgs :
       /\ status[m] = "none"
       /\ status' = [status EXCEPT ![m] = "sent"]
       /\ sender' = [sender EXCEPT ![m] = draft.from]
       /\ hub' = [hub EXCEPT ![r] =
                    [pc |-> "check", msg |-> m, keys |-> draft.keys,
                     todo |-> Users \ {draft.from}, out |-> "sent",
                     pushed |-> {}]]
  /\ incoming' = [incoming EXCEPT ![r] = Tail(@)]
  /\ UNCHANGED <<sockets, fanout, sweep, task>>
  /\ UNCHANGED history

\* The loop over the members for the first recipient who is online.  A failed
\* presence check falls back to this replica's own connections.
CheckOnline(r) ==
  /\ hub[r].pc = "check"
  /\ \E u \in hub[r].todo :
       \/ /\ hub' = [hub EXCEPT ![r].pc = IF IsOnline(r, u) THEN "promote" ELSE @,
                                ![r].todo = @ \ {u}]
          /\ UNCHANGED <<faults, orphaned>>
       \/ /\ UseRedis /\ Fault
          /\ hub' = [hub EXCEPT ![r].pc = IF IsOnlineLocal(r, u) THEN "promote" ELSE @,
                                ![r].todo = @ \ {u}]
          /\ orphaned' = IF IsOnlineLocal(r, u) THEN orphaned
                         ELSE orphaned \cup {hub[r].msg}
  /\ UNCHANGED <<sockets, incoming, fanout, sweep, task, drafts>>
  /\ UNCHANGED database

\* Mutant of PromoteDelivered: the error of the UPDATE is ignored.
PromoteUnchecked(r) ==
  LET m == hub[r].msg IN
  /\ hub[r].pc = "promote"
  /\ \/ /\ status' = Promote({m} \cap {x \in Msgs : status[x] = "sent"}, "delivered")
        /\ UNCHANGED <<faults, orphaned>>
     \/ Fault /\ orphaned' = orphaned \cup {m} /\ UNCHANGED status
  /\ hub' = [hub EXCEPT ![r].pc = "dispatch", ![r].todo = Users, ![r].out = "delivered"]
  /\ UNCHANGED <<sockets, incoming, fanout, sender, sweep, task, drafts>>

\* ... and the guarded UPDATE once one is found.  out.Status advances whenever
\* the UPDATE does not fail, even if it found the row already further on.
PromoteDelivered(r) ==
  LET m == hub[r].msg IN
  /\ hub[r].pc = "promote"
  /\ \/ /\ status' = Promote({m} \cap {x \in Msgs : status[x] = "sent"}, "delivered")
        /\ hub' = [hub EXCEPT ![r].pc = "dispatch", ![r].todo = Users,
                              ![r].out = "delivered"]
        /\ UNCHANGED <<faults, orphaned>>
     \/ /\ Fault
        /\ orphaned' = orphaned \cup {m}
        /\ hub' = [hub EXCEPT ![r].pc = "dispatch", ![r].todo = Users]
        /\ UNCHANGED status
  /\ UNCHANGED <<sockets, incoming, fanout, sender, sweep, task, drafts>>

\* Nobody was online: the message goes out as "sent".
NobodyOnline(r) ==
  /\ hub[r].pc = "check" /\ hub[r].todo = {}
  /\ hub' = [hub EXCEPT ![r].pc = "dispatch", ![r].todo = Users]
  /\ UNCHANGED <<sockets, incoming, fanout, sweep, task>>
  /\ UNCHANGED <<database, history>>

\* The message event to one member; one without a readable copy gets none.
DispatchMessage(r) ==
  /\ hub[r].pc = "dispatch"
  /\ \E u \in hub[r].todo :
       /\ IF u \in hub[r].keys
          THEN Dispatch(r, u, [kind |-> "message", ids |-> {hub[r].msg},
                               status |-> hub[r].out])
          ELSE UNCHANGED <<closed, sendq, fanout, faults>>
       /\ hub' = [hub EXCEPT ![r].todo = @ \ {u}]
  /\ UNCHANGED <<conn, clients, presence, incoming, sweep, task, drafts, orphaned>>
  /\ UNCHANGED database

StartPush(r) ==
  /\ hub[r].pc = "dispatch" /\ hub[r].todo = {}
  /\ hub' = [hub EXCEPT ![r].pc = "push",
                        ![r].todo = Users \ {sender[hub[r].msg]}]
  /\ UNCHANGED <<sockets, incoming, fanout, sweep, task>>
  /\ UNCHANGED <<database, history>>

\* pushToOffline: a notification for a recipient who is not online.
PushToOffline(r) ==
  /\ hub[r].pc = "push"
  /\ \E u \in hub[r].todo, checked \in BOOLEAN :
       LET online == IF checked THEN IsOnline(r, u) ELSE IsOnlineLocal(r, u) IN
       /\ IF checked THEN UNCHANGED faults ELSE UseRedis /\ Fault
       /\ hub' = [hub EXCEPT ![r].todo = @ \ {u},
                             ![r].pushed = IF online \/ u \in Muted THEN @
                                           ELSE @ \cup {u}]
  /\ UNCHANGED <<sockets, incoming, fanout, sweep, task, drafts, orphaned>>
  /\ UNCHANGED database

HandlingEnds(r) ==
  /\ hub[r].pc = "push" /\ hub[r].todo = {}
  /\ hub' = [hub EXCEPT ![r] = IdleHub]
  /\ UNCHANGED <<sockets, incoming, fanout, sweep, task>>
  /\ UNCHANGED <<database, history>>

-----------------------------------------------------------------------------
\* A replica is killed hard enough that no defer runs, and started again: what
\* it held in memory is gone, its entries in the presence sets are not.
Crash(r) ==
  LET dead == {c \in Conns : Home[c] = r /\ conn[c] \notin {"idle", "gone"}} IN
  /\ Fault
  /\ conn' = [c \in Conns |-> IF c \in dead THEN "gone" ELSE conn[c]]
  /\ clients' = [clients EXCEPT ![r] = {}]
  /\ closed' = closed \cup dead
  /\ sendq' = [c \in Conns |-> IF Home[c] = r THEN <<>> ELSE sendq[c]]
  /\ incoming' = [incoming EXCEPT ![r] = <<>>]
  /\ hub' = [hub EXCEPT ![r] = IdleHub]
  /\ orphaned' = IF hub[r].pc \in {"check", "promote"}
                 THEN orphaned \cup {hub[r].msg} ELSE orphaned
  /\ fanout' = [fanout EXCEPT ![r] = <<>>]
  /\ sweep' = [c \in Conns |->
                 IF Home[c] = r /\ sweep[c] = "due" THEN "failed" ELSE sweep[c]]
  /\ task' = [t \in TaskIds |-> IF Home[t[2]] = r THEN IdleTask ELSE task[t]]
  /\ UNCHANGED <<presence, drafts>>
  /\ UNCHANGED database

-----------------------------------------------------------------------------
Connection(c) ==
  \/ Upgrade(c) \/ Register(c) \/ MarkOnline(c)
  \/ WriteFails(c) \/ Unregister(c) \/ MarkOffline(c)

Receipt(c) == MarkDelivered(c) \/ MarkSeen(c)

HandleIncoming(r) ==
  \/ Refuse(r) \/ Persist(r)
  \/ CheckOnline(r) \/ NobodyOnline(r) \/ PromoteDelivered(r)
  \/ DispatchMessage(r) \/ StartPush(r) \/ PushToOffline(r) \/ HandlingEnds(r)

\* Every step but the two that also concern what the browser shows.
ServerNext ==
  \/ \E c \in Conns : Connection(c) \/ Receipt(c) \/ Submit(c)
  \/ \E t \in TaskIds : BroadcastStatus(t)
  \/ \E r \in Replicas : Subscriber(r) \/ HandleIncoming(r) \/ Crash(r)

Next ==
  \/ ServerNext
  \/ \E c \in Conns : WritePump(c) \/ FetchMarksSeen(c)

Spec == Init /\ [][Next]_vars

-----------------------------------------------------------------------------
(* Properties. *)

EventsIn(q) == {q[i] : i \in DOMAIN q}

\* No receipt runs ahead of the database: whatever event is on its way to a
\* device, for a new message or a new state, the row is at least as far on.  The
\* hub once marked messages read because the recipient was connected (hub.go
\* "turned every online recipient into a false read receipt").
Truthful(ev) == \A m \in ev.ids : Rank(ev.status) <= Rank(status[m])

NoFalseReceipt ==
  /\ \A c \in Conns : \A ev \in EventsIn(sendq[c]) : Truthful(ev)
  /\ \A r \in Replicas : \A e \in EventsIn(fanout[r]) : Truthful(e.event)

\* A connection that is registered here and, with Redis, visible everywhere.
Visible(c) == c \in clients[Home[c]] /\ (UseRedis => c \in presence)

\* The hub still holds message m and is yet to decide whether u is online.
Deciding(m, u) ==
  \E r \in Replicas :
    /\ hub[r].msg = m
    /\ \/ hub[r].pc = "promote"
       \/ hub[r].pc = "check" /\ u \in hub[r].todo

\* A message whose recipient is connected does not stay "sent": between the
\* hub's online check and the sweep of a connection coming up meanwhile, one of
\* the two always sees the other, whatever their order.
NoStuckSent ==
  \A m \in Msgs, c \in Conns :
    (/\ status[m] = "sent" /\ m \notin orphaned
     /\ Visible(c) /\ sweep[c] = "done" /\ Owner[c] # sender[m])
    => Deciding(m, Owner[c])

\* A connection that is up stays registered here, and stays in the presence set,
\* whatever other connections of the same user come and go: the bug the comment
\* above Hub describes, and the reason for Client.id.
LiveStaysRegistered ==
  \A c \in Conns :
    /\ conn[c] \in {"registered", "live"} <=> c \in clients[Home[c]]
    /\ (UseRedis /\ faults = 0) =>
         (conn[c] \in {"live", "leaving"} <=> c \in presence)

\* The status column implements the promise of MessageStatus.
MS == INSTANCE MessageStatus WITH status <- status
StatusForward == MS!Spec
=============================================================================
