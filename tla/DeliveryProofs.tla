--------------------------- MODULE DeliveryProofs ----------------------------
(***************************************************************************)
(* What Delivery guarantees, and what the pages of ChatScreen on top of it *)
(* show, for every number of users, connections, replicas and messages,    *)
(* with and without Redis, whatever fails. The theorems about Spec speak   *)
(* of Delivery alone; ChatScreen is shown to implement it.                 *)
(***************************************************************************)
EXTENDS ChatScreen, SequenceTheorems, TLAPS

-----------------------------------------------------------------------------
(* Delivery keeps its types. *)

\* What a step of sendTo leaves of the send buffers.
LEMMA SendToTypes ==
  ASSUME TypeOK, NEW r \in Replicas, NEW u \in Users, NEW ev \in Events, SendTo(r, u, ev)
  PROVE  /\ sendq' \in [Conns -> Seq(Events)]
         /\ \A c \in Conns : Len(sendq'[c]) <= SendBuffer
         /\ closed' \in SUBSET Conns
<1> DEFINE open == ConnsOf(r, u) \ closed
           full == {c \in open : Len(sendq[c]) >= SendBuffer}
<1>1. sendq' = [c \in Conns |-> IF c \in full THEN <<>>
                                ELSE IF c \in open THEN Append(sendq[c], ev)
                                ELSE sendq[c]]
      /\ closed' = closed \cup full
  BY Zenon DEF SendTo
<1>2. open \subseteq Conns /\ full \subseteq Conns
  BY DEF ConnsOf, TypeOK
<1>3. ASSUME NEW c \in Conns
      PROVE  sendq'[c] \in Seq(Events) /\ Len(sendq'[c]) <= SendBuffer
  <2>1. sendq[c] \in Seq(Events) /\ Len(sendq[c]) \in Nat /\ Len(sendq[c]) <= SendBuffer
    BY DEF TypeOK
  <2>2. CASE c \in full
    <3>1. sendq'[c] = <<>>
      BY <1>1, <2>2
    <3> QED BY <3>1, ConstantsAssumption DEF ConstantsAssumption
  <2>3. CASE c \in open /\ c \notin full
    <3>1. sendq'[c] = Append(sendq[c], ev)
      BY <1>1, <2>3
    <3>2. ~(Len(sendq[c]) >= SendBuffer)
      BY <2>3
    <3> QED BY <3>1, <3>2, <2>1, ConstantsAssumption DEF ConstantsAssumption
  <2>4. CASE c \notin open
    <3>1. sendq'[c] = sendq[c]
      BY <1>1, <2>4
    <3> QED BY <3>1, <2>1
  <2> QED BY <2>2, <2>3, <2>4
<1>4. sendq' \in [Conns -> Seq(Events)]
  <2>1. sendq' = [c \in Conns |-> sendq'[c]]
    BY <1>1
  <2> QED BY <2>1, <1>3
<1> QED BY <1>1, <1>2, <1>3, <1>4 DEF TypeOK

\* ... and a dispatch of the fan-out queues as well.
LEMMA DispatchTypes ==
  ASSUME TypeOK, NEW r \in Replicas, NEW u \in Users, NEW ev \in Events, Dispatch(r, u, ev)
  PROVE  /\ sendq' \in [Conns -> Seq(Events)]
         /\ \A c \in Conns : Len(sendq'[c]) <= SendBuffer
         /\ closed' \in SUBSET Conns
         /\ fanout' \in [Replicas -> Seq(Envelopes)]
         /\ faults' \in Nat
<1>1. CASE ~UseRedis /\ SendTo(r, u, ev) /\ UNCHANGED <<fanout, faults>>
  <2>1. /\ sendq' \in [Conns -> Seq(Events)]
        /\ \A c \in Conns : Len(sendq'[c]) <= SendBuffer
        /\ closed' \in SUBSET Conns
    BY <1>1, SendToTypes
  <2>2. fanout' \in [Replicas -> Seq(Envelopes)] /\ faults' \in Nat
    BY <1>1 DEF TypeOK
  <2> QED BY <2>1, <2>2
<1>2. CASE /\ fanout' = [q \in Replicas |->
                           Append(fanout[q], [user |-> u, event |-> ev])]
           /\ UNCHANGED <<closed, sendq, faults>>
  <2>1. [user |-> u, event |-> ev] \in Envelopes
    BY DEF Envelopes
  <2>2. ASSUME NEW q \in Replicas
        PROVE  Append(fanout[q], [user |-> u, event |-> ev])
                 \in Seq(Envelopes)
    <3>1. fanout[q] \in Seq(Envelopes)
      BY DEF TypeOK
    <3> QED BY <2>1, <3>1
  <2>3. fanout' \in [Replicas -> Seq(Envelopes)]
    BY <1>2, <2>2
  <2> QED BY <1>2, <2>3 DEF TypeOK
<1>3. CASE Fault /\ SendTo(r, u, ev) /\ UNCHANGED fanout
  <2>1. /\ sendq' \in [Conns -> Seq(Events)]
        /\ \A c \in Conns : Len(sendq'[c]) <= SendBuffer
        /\ closed' \in SUBSET Conns
    BY <1>3, SendToTypes
  <2>2. fanout' \in [Replicas -> Seq(Envelopes)]
    BY <1>3 DEF TypeOK
  <2>3. faults' \in Nat
    <3>1. faults \in Nat
      BY DEF TypeOK
    <3>2. Fault
      BY <1>3
    <3> QED BY <3>1, <3>2 DEF Fault
  <2> QED BY <2>1, <2>2, <2>3
<1> QED BY <1>1, <1>2, <1>3, Zenon DEF Dispatch

LEMMA FaultCounts ==
  ASSUME TypeOK, Fault
  PROVE  faults' \in Nat /\ faults' # 0
BY DEF TypeOK, Fault

\* The rows of a promotion stay rows.
LEMMA PromoteTypes ==
  ASSUME TypeOK, NEW S, NEW next \in Statuses
  PROVE  Promote(S, next) \in [Msgs -> Statuses]
BY DEF TypeOK, Promote

LEMMA AnnounceTypes ==
  ASSUME NEW S \in SUBSET Msgs, NEW next \in Statuses
  PROVE  Announce(S, next) \in Tasks /\ IdleTask \in Tasks
BY DEF Announce, IdleTask, Tasks, Statuses

LEMMA InitTypes == Init => TypeOK
<1> SUFFICES ASSUME Init PROVE TypeOK
  OBVIOUS
<1> USE DEF Init
<1>1. sendq \in [Conns -> Seq(Events)] /\ \A c \in Conns : Len(sendq[c]) <= SendBuffer
  BY ConstantsAssumption DEF ConstantsAssumption
<1>2. /\ incoming \in [Replicas -> Seq(Drafts)]
      /\ \A r \in Replicas : Len(incoming[r]) <= IncomingCap
  BY ConstantsAssumption DEF ConstantsAssumption
<1>3. hub \in [Replicas -> HubStates]
  BY DEF HubStates, IdleHub, Statuses
<1>4. /\ fanout \in [Replicas -> Seq(Envelopes)]
      /\ \A r \in Replicas : hub[r].pc = "idle"
  BY DEF IdleHub
<1>5. task \in [TaskIds -> Tasks]
  BY AnnounceTypes DEF Statuses
<1>6. status \in [Msgs -> Statuses]
  BY DEF Statuses
<1> QED BY <1>1, <1>2, <1>3, <1>4, <1>5, <1>6 DEF TypeOK, Phases

\* What every connection step leaves alone.
LEMMA ConnectionTypes ==
  ASSUME TypeOK, NEW c \in Conns, Connection(c)
  PROVE  TypeOK'
<1>0. Home[c] \in Replicas
  BY ConstantsAssumption DEF ConstantsAssumption
<1>f. Fault => faults' \in Nat
  BY FaultCounts
<1> USE DEF TypeOK, sockets, database, history, Phases
<1>1. CASE Upgrade(c)
  BY <1>1 DEF Upgrade
<1>2. CASE Register(c)
  BY <1>0, <1>2 DEF Register
<1>3. CASE MarkOnline(c)
  <2>1. faults' \in Nat
    BY <1>f, <1>3 DEF MarkOnline
  <2>2. presence' \in SUBSET Conns
    BY <1>3 DEF MarkOnline
  <2> QED BY <1>3, <2>1, <2>2 DEF MarkOnline
<1>4. CASE WriteFails(c)
  <2>1. sendq' \in [Conns -> Seq(Events)] /\ \A d \in Conns : Len(sendq'[d]) <= SendBuffer
    BY <1>4, ConstantsAssumption DEF WriteFails, ConstantsAssumption
  <2> QED BY <1>4, <2>1 DEF WriteFails
<1>5. CASE Unregister(c)
  BY <1>0, <1>5 DEF Unregister
<1>6. CASE MarkOffline(c)
  <2>1. faults' \in Nat
    BY <1>f, <1>6 DEF MarkOffline
  <2>2. sendq' \in [Conns -> Seq(Events)] /\ \A d \in Conns : Len(sendq'[d]) <= SendBuffer
    BY <1>6, ConstantsAssumption DEF MarkOffline, ConstantsAssumption
  <2>3. presence' \in SUBSET Conns
    BY <1>6 DEF MarkOffline
  <2> QED BY <1>6, <2>1, <2>2, <2>3 DEF MarkOffline
<1> QED BY <1>1, <1>2, <1>3, <1>4, <1>5, <1>6 DEF Connection

LEMMA ReceiptTypes ==
  ASSUME TypeOK, NEW c \in Conns, Receipt(c) \/ FetchMarksSeen(c)
  PROVE  TypeOK'
<1>1. /\ \A before : Unseen(Owner[c], before) \in SUBSET Msgs
      /\ \A S : Promote(S, "delivered") \in [Msgs -> Statuses]
      /\ \A S : Promote(S, "seen") \in [Msgs -> Statuses]
      /\ \A S \in SUBSET Msgs : Announce(S, "delivered") \in Tasks
      /\ \A S \in SUBSET Msgs : Announce(S, "seen") \in Tasks
  BY PromoteTypes, AnnounceTypes DEF Unseen, Statuses
<1>2. Fault => faults' \in Nat
  BY FaultCounts
<1>3. \A s \in {"sweep", "read", "load"} : <<s, c>> \in TaskIds
  BY DEF TaskIds
<1> USE DEF sockets, history
<1>4. CASE MarkDelivered(c)
  <2>1. status' \in [Msgs -> Statuses]
    BY <1>1, <1>4 DEF MarkDelivered, TypeOK
  <2>2. task' \in [TaskIds -> Tasks]
    <3>1. \/ task' = task
          \/ task' = [task EXCEPT ![<<"sweep", c>>] =
                        Announce(Unseen(Owner[c], {"sent"}), "delivered")]
      BY <1>4 DEF MarkDelivered
    <3>2. Announce(Unseen(Owner[c], {"sent"}), "delivered") \in Tasks
      BY <1>1
    <3> QED BY <1>3, <3>1, <3>2 DEF TypeOK
  <2>3. sweep' \in [Conns -> {"no", "due", "done", "failed"}]
    BY <1>4 DEF MarkDelivered, TypeOK
  <2>4. faults' \in Nat
    BY <1>2, <1>4 DEF MarkDelivered, TypeOK
  <2> QED BY <1>4, <2>1, <2>2, <2>3, <2>4 DEF MarkDelivered, TypeOK
<1>5. CASE MarkSeen(c) \/ FetchMarksSeen(c)
  <2>1. status' \in [Msgs -> Statuses]
    BY <1>1, <1>5 DEF MarkSeen, FetchMarksSeen
  <2>2. task' \in [TaskIds -> Tasks]
    <3>1. PICK s \in {"read", "load"} :
            task' = [task EXCEPT ![<<s, c>>] =
                       Announce(Unseen(Owner[c], {"sent", "delivered"}), "seen")]
      BY <1>5 DEF MarkSeen, FetchMarksSeen
    <3>2. Announce(Unseen(Owner[c], {"sent", "delivered"}), "seen") \in Tasks
      BY <1>1
    <3> QED BY <1>3, <3>1, <3>2 DEF TypeOK
  <2> QED BY <1>5, <2>1, <2>2 DEF MarkSeen, FetchMarksSeen, TypeOK
<1> QED BY <1>4, <1>5 DEF Receipt

LEMMA BroadcastTypes ==
  ASSUME TypeOK, NEW t \in TaskIds, BroadcastStatus(t)
  PROVE  TypeOK'
<1> DEFINE job == task[t]
           ev == [kind |-> "status", ids |-> job.ids, status |-> job.status]
<1>1. job \in Tasks
  BY DEF TypeOK
<1>2. PICK u \in job.todo :
        /\ Dispatch(Home[t[2]], u, ev)
        /\ task' = [task EXCEPT ![t] = IF job.todo = {u} THEN IdleTask
                                       ELSE [job EXCEPT !.todo = @ \ {u}]]
        /\ UNCHANGED <<conn, clients, presence, incoming, hub, sweep, drafts, orphaned>>
        /\ UNCHANGED database
  BY Zenon DEF BroadcastStatus
<1>3. u \in Users /\ ev \in Events /\ Home[t[2]] \in Replicas
  BY <1>1, ConstantsAssumption DEF Tasks, Events, TaskIds, ConstantsAssumption
<1>4. /\ sendq' \in [Conns -> Seq(Events)]
      /\ \A c \in Conns : Len(sendq'[c]) <= SendBuffer
      /\ closed' \in SUBSET Conns
      /\ fanout' \in [Replicas -> Seq(Envelopes)]
      /\ faults' \in Nat
  BY <1>2, <1>3, DispatchTypes
<1>5. IdleTask \in Tasks /\ [job EXCEPT !.todo = @ \ {u}] \in Tasks
  BY <1>1 DEF Tasks, IdleTask, Statuses
<1>6. task' \in [TaskIds -> Tasks]
  BY <1>2, <1>5 DEF TypeOK
<1> QED BY <1>2, <1>4, <1>6 DEF TypeOK, database

\* Taking an envelope off the fan-out queue, and handing it to sendTo.
LEMMA SubscriberTypes ==
  ASSUME TypeOK, NEW r \in Replicas, Subscriber(r)
  PROVE  TypeOK'
<1> DEFINE env == Head(fanout[r])
<1>1. fanout[r] \in Seq(Envelopes) /\ fanout[r] # <<>>
  BY DEF TypeOK, Subscriber
<1>2. env \in Envelopes
  BY <1>1, HeadTailProperties
<1>3. env.user \in Users /\ env.event \in Events
  BY <1>2 DEF Envelopes
<1>4. SendTo(r, env.user, env.event)
  BY DEF Subscriber
<1>5. /\ sendq' \in [Conns -> Seq(Events)]
      /\ \A c \in Conns : Len(sendq'[c]) <= SendBuffer
      /\ closed' \in SUBSET Conns
  BY <1>3, <1>4, SendToTypes
<1>6. fanout' \in [Replicas -> Seq(Envelopes)]
  <2>1. Tail(fanout[r]) \in Seq(Envelopes)
    BY <1>1
  <2> QED BY <2>1 DEF Subscriber, TypeOK
<1> QED BY <1>5, <1>6 DEF Subscriber, TypeOK, database, history

LEMMA SubmitTypes ==
  ASSUME TypeOK, NEW c \in Conns, Submit(c) \/ WritePump(c)
  PROVE  TypeOK'
<1>0. Home[c] \in Replicas /\ Owner[c] \in Users
  BY ConstantsAssumption DEF ConstantsAssumption
<1>1. CASE Submit(c)
  <2>1. drafts' \in Nat
    BY <1>1 DEF Submit, TypeOK
  <2>2. CASE Len(incoming[Home[c]]) < IncomingCap
    <3>1. PICK K \in KeySets :
            incoming' = [incoming EXCEPT ![Home[c]] =
                           Append(@, [from |-> Owner[c], keys |-> K])]
      BY <1>1, <2>2 DEF Submit
    <3>2. [from |-> Owner[c], keys |-> K] \in Drafts
      BY <1>0, ConstantsAssumption DEF Drafts, ConstantsAssumption
    <3>3. /\ incoming[Home[c]] \in Seq(Drafts)
          /\ Len(incoming[Home[c]]) \in Nat /\ IncomingCap \in Nat
      BY <1>0, ConstantsAssumption DEF TypeOK, ConstantsAssumption
    <3>4. /\ Append(incoming[Home[c]], [from |-> Owner[c], keys |-> K]) \in Seq(Drafts)
          /\ Len(Append(incoming[Home[c]], [from |-> Owner[c], keys |-> K])) <= IncomingCap
      BY <2>2, <3>2, <3>3
    <3>5. /\ incoming' \in [Replicas -> Seq(Drafts)]
          /\ \A r \in Replicas : Len(incoming'[r]) <= IncomingCap
      BY <1>0, <3>1, <3>4 DEF TypeOK
    <3> QED BY <1>1, <2>1, <3>5 DEF Submit, TypeOK, sockets, database
  <2>3. CASE ~(Len(incoming[Home[c]]) < IncomingCap)
    BY <1>1, <2>1, <2>3 DEF Submit, TypeOK, sockets, database
  <2> QED BY <2>2, <2>3
<1>2. CASE WritePump(c)
  <2>1. sendq[c] \in Seq(Events) /\ sendq[c] # <<>> /\ Len(sendq[c]) <= SendBuffer
    BY <1>2 DEF WritePump, TypeOK
  <2>2. Tail(sendq[c]) \in Seq(Events) /\ Len(Tail(sendq[c])) <= SendBuffer
    BY <2>1, ConstantsAssumption DEF ConstantsAssumption
  <2>3. /\ sendq' \in [Conns -> Seq(Events)]
        /\ \A d \in Conns : Len(sendq'[d]) <= SendBuffer
    BY <1>2, <2>2 DEF WritePump, TypeOK
  <2> QED BY <1>2, <2>3 DEF WritePump, TypeOK, database, history
<1> QED BY <1>1, <1>2

\* Every step of handleIncoming writes a hub record of the right type.
LEMMA HandlingTypes ==
  ASSUME TypeOK, NEW r \in Replicas, HandleIncoming(r)
  PROVE  hub' \in [Replicas -> HubStates]
<1>1. hub \in [Replicas -> HubStates] /\ hub[r] \in HubStates
  BY DEF TypeOK
<1>2. /\ hub[r].todo \subseteq Users /\ hub[r].keys \subseteq Users
      /\ hub[r].pushed \subseteq Users
      /\ hub[r].pc \in {"idle", "check", "promote", "dispatch", "push"}
  BY <1>1 DEF HubStates
<1>3. CASE Refuse(r)
  BY <1>1, <1>3 DEF Refuse
<1>4. CASE Persist(r)
  <2>1. Head(incoming[r]) \in Drafts
    BY <1>4, HeadTailProperties DEF Persist, TypeOK
  <2>2. PICK m \in Msgs :
          hub' = [hub EXCEPT ![r] =
                    [pc |-> "check", msg |-> m, keys |-> Head(incoming[r]).keys,
                     todo |-> Users \ {Head(incoming[r]).from}, out |-> "sent",
                     pushed |-> {}]]
    BY <1>4 DEF Persist
  <2>3. [pc |-> "check", msg |-> m, keys |-> Head(incoming[r]).keys,
         todo |-> Users \ {Head(incoming[r]).from}, out |-> "sent", pushed |-> {}]
           \in HubStates
    BY <2>1 DEF Drafts, HubStates, Statuses
  <2> QED BY <1>1, <2>2, <2>3
<1>5. CASE CheckOnline(r)
  <2>1. PICK u \in hub[r].todo, pc \in {hub[r].pc, "promote"} :
          hub' = [hub EXCEPT ![r] = [hub[r] EXCEPT !.pc = pc, !.todo = hub[r].todo \ {u}]]
    BY <1>1, <1>5 DEF CheckOnline
  <2>2. [hub[r] EXCEPT !.pc = pc, !.todo = hub[r].todo \ {u}] \in HubStates
    BY <1>1, <1>2 DEF HubStates
  <2> QED BY <1>1, <2>1, <2>2
<1>6. CASE NobodyOnline(r)
  <2>1. hub' = [hub EXCEPT ![r] = [hub[r] EXCEPT !.pc = "dispatch", !.todo = Users]]
    BY <1>1, <1>6 DEF NobodyOnline
  <2>2. [hub[r] EXCEPT !.pc = "dispatch", !.todo = Users] \in HubStates
    BY <1>1 DEF HubStates
  <2> QED BY <1>1, <2>1, <2>2
<1>7. CASE PromoteDelivered(r)
  <2>1. PICK out \in {hub[r].out, "delivered"} :
          hub' = [hub EXCEPT ![r] =
                    [hub[r] EXCEPT !.pc = "dispatch", !.todo = Users, !.out = out]]
    <3>1. CASE hub' = [hub EXCEPT ![r].pc = "dispatch", ![r].todo = Users,
                                  ![r].out = "delivered"]
      BY <1>1, <3>1
    <3>2. CASE hub' = [hub EXCEPT ![r].pc = "dispatch", ![r].todo = Users]
      <4>1. [hub[r] EXCEPT !.pc = "dispatch", !.todo = Users]
              = [hub[r] EXCEPT !.pc = "dispatch", !.todo = Users, !.out = hub[r].out]
        BY <1>1 DEF HubStates
      <4> QED BY <1>1, <3>2, <4>1
    <3> QED BY <1>7, <3>1, <3>2 DEF PromoteDelivered
  <2>2. [hub[r] EXCEPT !.pc = "dispatch", !.todo = Users, !.out = out] \in HubStates
    BY <1>1 DEF HubStates, Statuses
  <2> QED BY <1>1, <2>1, <2>2
<1>8. CASE DispatchMessage(r)
  <2>1. PICK u \in hub[r].todo :
          hub' = [hub EXCEPT ![r] = [hub[r] EXCEPT !.todo = hub[r].todo \ {u}]]
    BY <1>1, <1>8 DEF DispatchMessage
  <2>2. [hub[r] EXCEPT !.todo = hub[r].todo \ {u}] \in HubStates
    BY <1>1, <1>2 DEF HubStates
  <2> QED BY <1>1, <2>1, <2>2
<1>9. CASE StartPush(r)
  <2>1. hub' = [hub EXCEPT ![r] = [hub[r] EXCEPT !.pc = "push",
                                       !.todo = Users \ {sender[hub[r].msg]}]]
    BY <1>1, <1>9 DEF StartPush
  <2>2. [hub[r] EXCEPT !.pc = "push", !.todo = Users \ {sender[hub[r].msg]}] \in HubStates
    BY <1>1 DEF HubStates
  <2> QED BY <1>1, <2>1, <2>2
<1>10. CASE PushToOffline(r)
  <2>1. PICK u \in hub[r].todo, checked \in BOOLEAN :
          LET online == IF checked THEN IsOnline(r, u) ELSE IsOnlineLocal(r, u) IN
          hub' = [hub EXCEPT ![r].todo = @ \ {u},
                             ![r].pushed = IF online \/ u \in Muted THEN @
                                           ELSE @ \cup {u}]
    BY <1>10, Zenon DEF PushToOffline
  <2> DEFINE online == IF checked THEN IsOnline(r, u) ELSE IsOnlineLocal(r, u)
             pushed == IF online \/ u \in Muted THEN hub[r].pushed
                       ELSE hub[r].pushed \cup {u}
  <2>2. hub' = [hub EXCEPT ![r] = [hub[r] EXCEPT !.todo = hub[r].todo \ {u},
                                                 !.pushed = pushed]]
    BY <1>1, <2>1
  <2>3. pushed \in SUBSET Users
    BY <1>2
  <2>4. [hub[r] EXCEPT !.todo = hub[r].todo \ {u}, !.pushed = pushed] \in HubStates
    <3> HIDE DEF pushed
    <3> QED BY <1>1, <1>2, <2>3 DEF HubStates
  <2> QED BY <1>1, <2>2, <2>4
<1>11. CASE HandlingEnds(r)
  <2>1. IdleHub \in HubStates
    BY DEF IdleHub, HubStates, Statuses
  <2> QED BY <1>1, <1>11, <2>1 DEF HandlingEnds
<1> QED BY <1>3, <1>4, <1>5, <1>6, <1>7, <1>8, <1>9, <1>10, <1>11 DEF HandleIncoming

\* ... for a row of the messages table.
LEMMA HandledIsStored ==
  ASSUME TypeOK, NEW r \in Replicas, HandleIncoming(r)
  PROVE  \A q \in Replicas : hub'[q].pc # "idle" => hub'[q].msg \in Msgs
<1>1. /\ hub \in [Replicas -> HubStates]
      /\ \A q \in Replicas : hub[q].pc # "idle" => hub[q].msg \in Msgs
  BY DEF TypeOK
<1>2. SUFFICES /\ \A q \in Replicas \ {r} : hub'[q] = hub[q]
               /\ hub'[r].pc # "idle" => hub'[r].msg \in Msgs
  BY <1>1
<1>3. CASE Refuse(r)
  BY <1>1, <1>3 DEF Refuse
<1>4. CASE Persist(r)
  BY <1>1, <1>4 DEF Persist
<1>5. CASE CheckOnline(r) \/ PromoteDelivered(r) \/ NobodyOnline(r)
  <2>1. /\ hub[r].pc # "idle"
        /\ \A q \in Replicas \ {r} : hub'[q] = hub[q]
    BY <1>1, <1>5 DEF CheckOnline, PromoteDelivered, NobodyOnline
  <2>2. hub'[r].msg = hub[r].msg
    <3>1. CASE CheckOnline(r)
      BY <1>1, <3>1 DEF CheckOnline, HubStates
    <3>2. CASE PromoteDelivered(r)
      BY <1>1, <3>2 DEF PromoteDelivered, HubStates
    <3>3. CASE NobodyOnline(r)
      BY <1>1, <3>3 DEF NobodyOnline, HubStates
    <3> QED BY <1>5, <3>1, <3>2, <3>3
  <2> QED BY <1>1, <2>1, <2>2
<1>6. CASE DispatchMessage(r) \/ StartPush(r) \/ PushToOffline(r)
  BY <1>1, <1>6 DEF DispatchMessage, StartPush, PushToOffline, HubStates
<1>7. CASE HandlingEnds(r)
  BY <1>1, <1>7 DEF HandlingEnds, IdleHub
<1> QED BY <1>3, <1>4, <1>5, <1>6, <1>7 DEF HandleIncoming

LEMMA HandleTypes ==
  ASSUME TypeOK, NEW r \in Replicas, HandleIncoming(r)
  PROVE  TypeOK'
<1>1. /\ hub' \in [Replicas -> HubStates]
      /\ \A q \in Replicas : hub'[q].pc # "idle" => hub'[q].msg \in Msgs
  BY HandlingTypes, HandledIsStored
<1>2. Fault => faults' \in Nat
  BY FaultCounts
<1>3. CASE Refuse(r) \/ Persist(r)
  <2>1. /\ incoming[r] \in Seq(Drafts) /\ incoming[r] # <<>>
        /\ incoming' = [incoming EXCEPT ![r] = Tail(@)]
        /\ Len(incoming[r]) <= IncomingCap
    BY <1>3 DEF Refuse, Persist, TypeOK
  <2>2. Tail(incoming[r]) \in Seq(Drafts) /\ Len(Tail(incoming[r])) <= IncomingCap
    BY <2>1, ConstantsAssumption DEF ConstantsAssumption
  <2>3. /\ incoming' \in [Replicas -> Seq(Drafts)]
        /\ \A q \in Replicas : Len(incoming'[q]) <= IncomingCap
    BY <2>1, <2>2 DEF TypeOK
  <2>4. /\ status' \in [Msgs -> Statuses]
        /\ sender' \in [Msgs -> Users \cup {NoUser}]
    <3>1. Head(incoming[r]).from \in Users
      <4>1. Head(incoming[r]) \in Drafts
        BY <2>1, HeadTailProperties
      <4> QED BY <4>1 DEF Drafts
    <3> QED BY <1>3, <3>1 DEF Refuse, Persist, TypeOK, database, Statuses
  <2> QED BY <1>1, <1>3, <2>3, <2>4 DEF Refuse, Persist, TypeOK, sockets, history
<1>4. CASE CheckOnline(r)
  <2>1. hub[r].msg \in Msgs
    BY <1>4 DEF CheckOnline, TypeOK
  <2>2. orphaned' \in SUBSET Msgs /\ faults' \in Nat
    BY <1>2, <1>4, <2>1 DEF CheckOnline, TypeOK
  <2> QED BY <1>1, <1>4, <2>2 DEF CheckOnline, TypeOK, sockets, database
<1>5. CASE PromoteDelivered(r)
  <2>1. hub[r].msg \in Msgs
    BY <1>5 DEF PromoteDelivered, TypeOK
  <2>2. orphaned' \in SUBSET Msgs /\ faults' \in Nat
    BY <1>2, <1>5, <2>1 DEF PromoteDelivered, TypeOK
  <2>3. status' \in [Msgs -> Statuses]
    <3>1. \A S : Promote(S, "delivered") \in [Msgs -> Statuses]
      BY PromoteTypes DEF Statuses
    <3> QED BY <1>5, <3>1 DEF PromoteDelivered, TypeOK
  <2> QED BY <1>1, <1>5, <2>2, <2>3 DEF PromoteDelivered, TypeOK, sockets
<1>6. CASE NobodyOnline(r) \/ StartPush(r) \/ HandlingEnds(r)
  BY <1>1, <1>6 DEF NobodyOnline, StartPush, HandlingEnds, TypeOK, sockets, database, history
<1>7. CASE DispatchMessage(r)
  <2> DEFINE ev == [kind |-> "message", ids |-> {hub[r].msg}, status |-> hub[r].out]
  <2>1. PICK u \in hub[r].todo :
          IF u \in hub[r].keys THEN Dispatch(r, u, ev)
          ELSE UNCHANGED <<closed, sendq, fanout, faults>>
    BY <1>7, Zenon DEF DispatchMessage
  <2>2. u \in Users /\ ev \in Events
    <3>1. hub[r] \in HubStates /\ hub[r].msg \in Msgs
      BY <1>7 DEF DispatchMessage, TypeOK
    <3> QED BY <3>1 DEF HubStates, Events
  <2>3. /\ sendq' \in [Conns -> Seq(Events)]
        /\ \A c \in Conns : Len(sendq'[c]) <= SendBuffer
        /\ closed' \in SUBSET Conns
        /\ fanout' \in [Replicas -> Seq(Envelopes)]
        /\ faults' \in Nat
    <3>1. CASE u \in hub[r].keys
      <4>1. Dispatch(r, u, ev)
        BY <2>1, <3>1
      <4> HIDE DEF ev
      <4> QED BY <2>2, <4>1, DispatchTypes
    <3>2. CASE u \notin hub[r].keys
      BY <2>1, <3>2 DEF TypeOK
    <3> QED BY <3>1, <3>2
  <2> QED BY <1>1, <1>7, <2>3 DEF DispatchMessage, TypeOK, database
<1>8. CASE PushToOffline(r)
  <2>1. faults' \in Nat
    BY <1>2, <1>8 DEF PushToOffline, TypeOK
  <2> QED BY <1>1, <1>8, <2>1 DEF PushToOffline, TypeOK, sockets, database
<1> QED BY <1>3, <1>4, <1>5, <1>6, <1>7, <1>8 DEF HandleIncoming

LEMMA CrashTypes ==
  ASSUME TypeOK, NEW r \in Replicas, Crash(r)
  PROVE  TypeOK'
<1> USE DEF Crash
<1>1. conn' \in [Conns -> Phases]
  BY DEF TypeOK, Phases
<1>2. /\ sendq' \in [Conns -> Seq(Events)]
      /\ \A c \in Conns : Len(sendq'[c]) <= SendBuffer
  BY ConstantsAssumption DEF TypeOK, ConstantsAssumption
<1>3. /\ incoming' \in [Replicas -> Seq(Drafts)]
      /\ \A q \in Replicas : Len(incoming'[q]) <= IncomingCap
  BY ConstantsAssumption DEF TypeOK, ConstantsAssumption
<1>4. /\ hub' \in [Replicas -> HubStates]
      /\ \A q \in Replicas : hub'[q].pc # "idle" => hub'[q].msg \in Msgs
  <2>1. IdleHub \in HubStates /\ IdleHub.pc = "idle"
    BY DEF IdleHub, HubStates, Statuses
  <2> QED BY <2>1 DEF TypeOK
<1>5. fanout' \in [Replicas -> Seq(Envelopes)]
  <2>1. <<>> \in Seq(Envelopes)
    OBVIOUS
  <2>2. fanout \in [Replicas -> Seq(Envelopes)]
    BY DEF TypeOK
  <2>3. fanout' = [fanout EXCEPT ![r] = <<>>]
    OBVIOUS
  <2> QED BY ONLY <2>1, <2>2, <2>3
<1>6. task' \in [TaskIds -> Tasks]
  BY AnnounceTypes DEF TypeOK, Statuses
<1>7. sweep' \in [Conns -> {"no", "due", "done", "failed"}]
  BY DEF TypeOK
<1>8. faults' \in Nat
  BY FaultCounts
<1>9. orphaned' \in SUBSET Msgs
  BY DEF TypeOK
<1>10. clients' \in [Replicas -> SUBSET Conns] /\ closed' \in SUBSET Conns
  BY DEF TypeOK
<1> QED BY <1>1, <1>2, <1>3, <1>4, <1>5, <1>6, <1>7, <1>8, <1>9, <1>10 DEF TypeOK, database

\* No step takes a variable out of its type.
LEMMA StepTypes ==
  ASSUME TypeOK, [Next]_vars
  PROVE  TypeOK'
<1>1. ASSUME NEW c \in Conns, Connection(c) PROVE TypeOK'
  BY <1>1, ConnectionTypes
<1>2. ASSUME NEW c \in Conns, Receipt(c) \/ FetchMarksSeen(c) PROVE TypeOK'
  BY <1>2, ReceiptTypes
<1>3. ASSUME NEW c \in Conns, Submit(c) \/ WritePump(c) PROVE TypeOK'
  BY <1>3, SubmitTypes
<1>4. ASSUME NEW t \in TaskIds, BroadcastStatus(t) PROVE TypeOK'
  BY <1>4, BroadcastTypes
<1>5. ASSUME NEW r \in Replicas, Subscriber(r) PROVE TypeOK'
  BY <1>5, SubscriberTypes
<1>6. ASSUME NEW r \in Replicas, HandleIncoming(r) PROVE TypeOK'
  BY <1>6, HandleTypes
<1>7. ASSUME NEW r \in Replicas, Crash(r) PROVE TypeOK'
  BY <1>7, CrashTypes
<1>8. CASE UNCHANGED vars
  BY <1>8 DEF TypeOK, vars
<1> QED BY <1>1, <1>2, <1>3, <1>4, <1>5, <1>6, <1>7, <1>8 DEF Next, ServerNext

\* Every variable keeps its type; in particular no send buffer and no incoming
\* queue ever holds more than its channel's capacity, and the hub only handles
\* messages that have a row.
THEOREM TypeCorrect == Spec => []TypeOK
<1>1. Init => TypeOK
  BY InitTypes
<1>2. TypeOK /\ [Next]_vars => TypeOK'
  BY StepTypes
<1> QED BY <1>1, <1>2, PTL DEF Spec

-----------------------------------------------------------------------------
(* The status column only moves forwards. *)

\* A guarded UPDATE advances the rows it touches, or touches none.
LEMMA PromoteAdvances ==
  ASSUME NEW S \in SUBSET Msgs, NEW next \in {"delivered", "seen"},
         \A m \in S : 0 < Rank(status[m]) /\ Rank(status[m]) < Rank(next),
         status' = Promote(S, next)
  PROVE  MS!Next
<1>1. MS!Advance(S, next)
  BY DEF MS!Advance, MS!Rank, Rank, Promote
<1> QED BY <1>1 DEF MS!Next

LEMMA UnseenBehind ==
  ASSUME NEW u
  PROVE  /\ \A m \in Unseen(u, {"sent"}) :
              0 < Rank(status[m]) /\ Rank(status[m]) < Rank("delivered")
         /\ \A m \in Unseen(u, {"sent", "delivered"}) :
              0 < Rank(status[m]) /\ Rank(status[m]) < Rank("seen")
         /\ \A before : Unseen(u, before) \in SUBSET Msgs
BY DEF Unseen, Rank

LEMMA StepForward ==
  ASSUME [Next]_vars
  PROVE  [MS!Next]_status
<1>1. ASSUME NEW c \in Conns, MarkDelivered(c) PROVE [MS!Next]_status
  <2>1. CASE status' = Promote(Unseen(Owner[c], {"sent"}), "delivered")
    BY <2>1, UnseenBehind, PromoteAdvances
  <2>2. CASE status' = status
    BY <2>2
  <2> QED BY <1>1, <2>1, <2>2 DEF MarkDelivered
<1>2. ASSUME NEW c \in Conns, MarkSeen(c) \/ FetchMarksSeen(c) PROVE [MS!Next]_status
  <2>1. status' = Promote(Unseen(Owner[c], {"sent", "delivered"}), "seen")
    BY <1>2 DEF MarkSeen, FetchMarksSeen
  <2> QED BY <2>1, UnseenBehind, PromoteAdvances
<1>3. ASSUME NEW r \in Replicas, Persist(r) PROVE [MS!Next]_status
  <2>1. PICK m \in Msgs : status[m] = "none" /\ status' = [status EXCEPT ![m] = "sent"]
    BY <1>3 DEF Persist
  <2> QED BY <2>1 DEF MS!Next, MS!Store
<1>4. ASSUME NEW r \in Replicas, PromoteDelivered(r) PROVE [MS!Next]_status
  <2> DEFINE S == {hub[r].msg} \cap {x \in Msgs : status[x] = "sent"}
  <2>1. CASE status' = Promote(S, "delivered")
    <3>1. \A m \in S : 0 < Rank(status[m]) /\ Rank(status[m]) < Rank("delivered")
      BY DEF Rank
    <3>2. S \in SUBSET Msgs
      OBVIOUS
    <3> QED BY <2>1, <3>1, <3>2, PromoteAdvances
  <2>2. CASE status' = status
    BY <2>2
  <2> QED BY <1>4, <2>1, <2>2 DEF PromoteDelivered
<1>5. ASSUME NEW c \in Conns,
             Connection(c) \/ Submit(c) \/ WritePump(c)
      PROVE  [MS!Next]_status
  BY <1>5 DEF Connection, Upgrade, Register, MarkOnline, WriteFails, Unregister,
              MarkOffline, Submit, WritePump, database
<1>6. ASSUME NEW t \in TaskIds, BroadcastStatus(t) PROVE [MS!Next]_status
  BY <1>6 DEF BroadcastStatus, database
<1>7. ASSUME NEW r \in Replicas, Subscriber(r) \/ Crash(r) PROVE [MS!Next]_status
  BY <1>7 DEF Subscriber, Crash, database
<1>8. ASSUME NEW r \in Replicas, HandleIncoming(r) PROVE [MS!Next]_status
  BY <1>3, <1>4, <1>8 DEF HandleIncoming, Refuse, CheckOnline, NobodyOnline,
              DispatchMessage, StartPush, PushToOffline, HandlingEnds, database
<1>9. CASE UNCHANGED vars
  BY <1>9 DEF vars
<1> QED BY <1>1, <1>2, <1>5, <1>6, <1>7, <1>8, <1>9 DEF Next, ServerNext, Receipt

\* Delivery implements MessageStatus: whatever the hub, the sweeps, the readers,
\* the faults and the crashes do, in whatever order, every message is stored as
\* "sent" and its state never moves backwards.
THEOREM StatusMovesForward == Spec => StatusForward
<1>1. Init => MS!Init
  BY DEF Init, MS!Init
<1>2. [Next]_vars => [MS!Next]_status
  BY StepForward
<1> QED BY <1>1, <1>2, PTL DEF Spec, StatusForward, MS!Spec

-----------------------------------------------------------------------------
(* Connections stay registered. *)

LEMMA StepRegistered ==
  ASSUME TypeOK, LiveStaysRegistered, [Next]_vars
  PROVE  LiveStaysRegistered'
<1> USE DEF LiveStaysRegistered
<1>0. /\ faults \in Nat
      /\ Fault => faults' # 0
      /\ Home \in [Conns -> Replicas]
      /\ conn \in [Conns -> Phases]
      /\ clients \in [Replicas -> SUBSET Conns]
  BY FaultCounts, ConstantsAssumption DEF TypeOK, ConstantsAssumption
<1>1. ASSUME NEW c \in Conns, Upgrade(c) PROVE LiveStaysRegistered'
  BY <1>0, <1>1 DEF Upgrade, history
<1>2. ASSUME NEW c \in Conns, Register(c) PROVE LiveStaysRegistered'
  BY <1>0, <1>2 DEF Register, history
<1>3. ASSUME NEW c \in Conns, MarkOnline(c) PROVE LiveStaysRegistered'
  BY <1>0, <1>3 DEF MarkOnline
<1>4. ASSUME NEW c \in Conns, Unregister(c) PROVE LiveStaysRegistered'
  BY <1>0, <1>4 DEF Unregister, history
<1>5. ASSUME NEW c \in Conns, MarkOffline(c) PROVE LiveStaysRegistered'
  BY <1>0, <1>5 DEF MarkOffline
<1>6. ASSUME NEW r \in Replicas, Crash(r) PROVE LiveStaysRegistered'
  BY <1>0, <1>6 DEF Crash, Phases
<1>7. ASSUME UNCHANGED <<conn, clients, presence>>,
             faults' = faults \/ Fault
      PROVE  LiveStaysRegistered'
  BY <1>0, <1>7
<1>8. ASSUME NEW c \in Conns,
             WriteFails(c) \/ Receipt(c) \/ FetchMarksSeen(c) \/ Submit(c) \/ WritePump(c)
      PROVE  LiveStaysRegistered'
  BY <1>7, <1>8 DEF WriteFails, Receipt, MarkDelivered, MarkSeen, FetchMarksSeen,
              Submit, WritePump, sockets, history
<1>9. ASSUME NEW t \in TaskIds, BroadcastStatus(t) PROVE LiveStaysRegistered'
  BY <1>7, <1>9 DEF BroadcastStatus, Dispatch
<1>10. ASSUME NEW r \in Replicas, Subscriber(r) \/ HandleIncoming(r)
       PROVE  LiveStaysRegistered'
  BY <1>7, <1>10 DEF Subscriber, HandleIncoming, Refuse, Persist, CheckOnline, NobodyOnline,
              PromoteDelivered, DispatchMessage, Dispatch, StartPush, PushToOffline,
              HandlingEnds, sockets, history
<1>11. CASE UNCHANGED vars
  BY <1>7, <1>11 DEF vars
<1> QED BY <1>1, <1>2, <1>3, <1>4, <1>5, <1>6, <1>8, <1>9, <1>10, <1>11
        DEF Next, ServerNext, Connection

\* A connection is in its replica's map exactly while it is registered or live,
\* and in the presence set exactly from markOnline to markOffline as long as
\* nothing has failed, whatever other connections of the same user do: the
\* property the map of connection ids was introduced for (hub.go, Hub.clients).
THEOREM RegistrationHolds == Spec => []LiveStaysRegistered
<1>1. Init => LiveStaysRegistered
  BY ConstantsAssumption DEF Init, LiveStaysRegistered, ConstantsAssumption
<1>2. TypeOK /\ LiveStaysRegistered /\ [Next]_vars => LiveStaysRegistered'
  BY StepRegistered
<1> QED BY <1>1, <1>2, TypeCorrect, PTL DEF Spec

-----------------------------------------------------------------------------
(* A message whose recipient is connected does not stay "sent". *)

\* The sweep of a connection is only started by HandleWS, after Register.
SweepWaits ==
  \A c \in Conns : conn[c] \in {"idle", "upgraded", "registered"} => sweep[c] = "no"

StuckInv == TypeOK /\ SweepWaits /\ NoStuckSent

\* A step that leaves connections, sweeps and the hub's decisions alone, and
\* stores nothing, strands no message.
LEMMA NothingStranded ==
  ASSUME SweepWaits, NoStuckSent,
         UNCHANGED <<conn, clients, presence, sender, sweep>>,
         \A m \in Msgs : status'[m] = "sent" => status[m] = "sent",
         orphaned \subseteq orphaned',
         \A m \in Msgs, u \in Users :
           (status'[m] = "sent" /\ m \notin orphaned' /\ Deciding(m, u)) => Deciding(m, u)'
  PROVE  SweepWaits' /\ NoStuckSent'
BY ConstantsAssumption DEF SweepWaits, NoStuckSent, Visible, ConstantsAssumption

\* As long as a replica's hub is not at work on a message that is still to be
\* decided, what it does next decides nothing.
LEMMA OthersDecide ==
  ASSUME TypeOK, NEW r \in Replicas, NEW h, hub' = [hub EXCEPT ![r] = h],
         NEW m, hub[r].msg # m \/ hub[r].pc \notin {"check", "promote"},
         NEW u, Deciding(m, u)
  PROVE  Deciding(m, u)'
BY DEF Deciding, TypeOK

LEMMA ConnectionStrandsNothing ==
  ASSUME StuckInv, NEW c \in Conns, Connection(c)
  PROVE  SweepWaits' /\ NoStuckSent'
<1>0. /\ Home \in [Conns -> Replicas]
      /\ conn \in [Conns -> Phases]
      /\ sweep \in [Conns -> {"no", "due", "done", "failed"}]
      /\ clients \in [Replicas -> SUBSET Conns]
      /\ SweepWaits /\ NoStuckSent
  BY ConstantsAssumption DEF StuckInv, TypeOK, ConstantsAssumption
<1>1. \A m, u : Deciding(m, u) => Deciding(m, u)'
  BY DEF Connection, Upgrade, Register, MarkOnline, WriteFails, Unregister, MarkOffline,
         Deciding
<1>2. UNCHANGED <<status, sender, orphaned>>
  BY DEF Connection, Upgrade, Register, MarkOnline, WriteFails, Unregister, MarkOffline,
         database, history
<1>3. SweepWaits'
  BY <1>0 DEF SweepWaits, Connection, Upgrade, Register, MarkOnline, WriteFails,
              Unregister, MarkOffline
<1>4. \A d \in Conns : (Visible(d)' /\ sweep'[d] = "done") => (Visible(d) /\ sweep[d] = "done")
  <2>1. CASE Upgrade(c) \/ WriteFails(c)
    BY <1>0, <2>1 DEF Upgrade, WriteFails, Visible
  <2>2. CASE Register(c)
    BY <1>0, <2>2 DEF Register, Visible, SweepWaits
  <2>3. CASE MarkOnline(c)
    BY <1>0, <2>3 DEF MarkOnline, Visible
  <2>4. CASE Unregister(c) \/ MarkOffline(c)
    BY <1>0, <2>4 DEF Unregister, MarkOffline, Visible
  <2> QED BY <2>1, <2>2, <2>3, <2>4 DEF Connection
<1>5. NoStuckSent'
  BY <1>0, <1>1, <1>2, <1>4, ConstantsAssumption DEF NoStuckSent, ConstantsAssumption
<1> QED BY <1>3, <1>5

\* The sweep of a connection promotes everything that waited for its user.
LEMMA SweepStrandsNothing ==
  ASSUME StuckInv, NEW c \in Conns, Receipt(c) \/ FetchMarksSeen(c)
  PROVE  SweepWaits' /\ NoStuckSent'
<1>0. SweepWaits /\ NoStuckSent /\ TypeOK
  BY DEF StuckInv
<1>1. CASE MarkDelivered(c)
  <2>0. /\ sweep[c] = "due"
        /\ sweep' \in {[sweep EXCEPT ![c] = "done"], [sweep EXCEPT ![c] = "failed"]}
        /\ UNCHANGED <<conn, clients, presence, hub, sender, orphaned>>
        /\ \A m \in Msgs : status'[m] = "sent" => status[m] = "sent"
    BY <1>1 DEF MarkDelivered, sockets, Promote
  <2>1. sweep'[c] = "done" =>
          \A m \in Msgs : status'[m] = "sent" => sender[m] = Owner[c]
    BY <1>0, <1>1 DEF MarkDelivered, Promote, Unseen, TypeOK
  <2>2. SweepWaits'
    BY <1>0, <2>0 DEF SweepWaits, TypeOK
  <2>3. ASSUME NEW m \in Msgs, NEW d \in Conns,
               status'[m] = "sent", m \notin orphaned', Visible(d)', sweep'[d] = "done",
               Owner[d] # sender'[m]
        PROVE  Deciding(m, Owner[d])'
    <3>1. d # c
      BY <2>0, <2>1, <2>3
    <3>2. sweep[d] = "done" /\ status[m] = "sent" /\ m \notin orphaned /\ Visible(d)
      BY <1>0, <2>0, <2>3, <3>1 DEF Visible, TypeOK
    <3>3. Deciding(m, Owner[d])
      BY <1>0, <2>0, <2>3, <3>2 DEF NoStuckSent
    <3> QED BY <2>0, <3>3 DEF Deciding
  <2> QED BY <2>2, <2>3 DEF NoStuckSent
<1>2. CASE MarkSeen(c) \/ FetchMarksSeen(c)
  <2>1. /\ UNCHANGED <<conn, clients, presence, hub, sender, sweep, orphaned>>
        /\ \A m \in Msgs : status'[m] = "sent" => status[m] = "sent"
    BY <1>2 DEF MarkSeen, FetchMarksSeen, sockets, history, Promote
  <2>2. \A m, u : Deciding(m, u) => Deciding(m, u)'
    BY <2>1 DEF Deciding
  <2> QED BY <1>0, <2>1, <2>2, NothingStranded
<1> QED BY <1>1, <1>2 DEF Receipt

\* A new message is undecided for everyone but its author.
LEMMA PersistStrandsNothing ==
  ASSUME StuckInv, NEW r \in Replicas, Persist(r)
  PROVE  SweepWaits' /\ NoStuckSent'
<1>0. /\ SweepWaits /\ NoStuckSent /\ TypeOK
      /\ Owner \in [Conns -> Users]
  BY ConstantsAssumption DEF StuckInv, ConstantsAssumption
<1>1. /\ UNCHANGED <<conn, clients, presence, sweep, orphaned>>
      /\ hub[r].pc = "idle"
  BY DEF Persist, sockets, history
<1>2. PICK n \in Msgs :
        /\ status[n] = "none"
        /\ status' = [status EXCEPT ![n] = "sent"]
        /\ sender' = [sender EXCEPT ![n] = Head(incoming[r]).from]
        /\ hub' = [hub EXCEPT ![r] =
                     [pc |-> "check", msg |-> n, keys |-> Head(incoming[r]).keys,
                      todo |-> Users \ {Head(incoming[r]).from}, out |-> "sent",
                      pushed |-> {}]]
  BY DEF Persist
<1>3. SweepWaits'
  BY <1>0, <1>1 DEF SweepWaits
<1>4. ASSUME NEW m \in Msgs, NEW d \in Conns,
             status'[m] = "sent", m \notin orphaned', Visible(d)', sweep'[d] = "done",
             Owner[d] # sender'[m]
      PROVE  Deciding(m, Owner[d])'
  <2>1. CASE m = n
    <3>1. Owner[d] \in Users \ {Head(incoming[r]).from}
      BY <1>0, <1>2, <1>4, <2>1 DEF TypeOK
    <3>2. hub'[r].msg = m /\ hub'[r].pc = "check" /\ Owner[d] \in hub'[r].todo
      BY <1>0, <1>2, <2>1, <3>1 DEF TypeOK
    <3> QED BY <3>2 DEF Deciding
  <2>2. CASE m # n
    <3>1. Deciding(m, Owner[d])
      BY <1>0, <1>1, <1>2, <1>4, <2>2 DEF NoStuckSent, Visible, TypeOK
    <3> QED BY <1>0, <1>1, <1>2, <3>1, OthersDecide
  <2> QED BY <2>1, <2>2
<1> QED BY <1>3, <1>4 DEF NoStuckSent

\* Whoever the online check passes over is not registered anywhere the check
\* looks, so not visible either.
LEMMA CheckStrandsNothing ==
  ASSUME StuckInv, NEW r \in Replicas, CheckOnline(r)
  PROVE  SweepWaits' /\ NoStuckSent'
<1>0. /\ SweepWaits /\ NoStuckSent /\ TypeOK
      /\ Owner \in [Conns -> Users] /\ Home \in [Conns -> Replicas]
      /\ hub \in [Replicas -> HubStates]
  BY ConstantsAssumption DEF StuckInv, ConstantsAssumption, TypeOK
<1>1. /\ UNCHANGED <<conn, clients, presence, sweep, sender, status>>
      /\ hub[r].pc = "check"
  BY DEF CheckOnline, sockets, database
<1>2. PICK u \in hub[r].todo, online \in BOOLEAN :
        /\ hub' = [hub EXCEPT ![r].pc = IF online THEN "promote" ELSE @,
                              ![r].todo = @ \ {u}]
        /\ \/ online = IsOnline(r, u) /\ UNCHANGED orphaned
           \/ /\ online = IsOnlineLocal(r, u)
              /\ orphaned' = IF online THEN orphaned ELSE orphaned \cup {hub[r].msg}
  <2>1. PICK u \in hub[r].todo :
       \/ /\ hub' = [hub EXCEPT ![r].pc = IF IsOnline(r, u) THEN "promote" ELSE @,
                                ![r].todo = @ \ {u}]
          /\ UNCHANGED orphaned
       \/ /\ hub' = [hub EXCEPT ![r].pc = IF IsOnlineLocal(r, u) THEN "promote" ELSE @,
                                ![r].todo = @ \ {u}]
          /\ orphaned' = IF IsOnlineLocal(r, u) THEN orphaned
                         ELSE orphaned \cup {hub[r].msg}
    BY DEF CheckOnline
  <2>2. IsOnline(r, u) \in BOOLEAN /\ IsOnlineLocal(r, u) \in BOOLEAN
    BY DEF IsOnline, IsOnlineLocal
  <2> QED BY <2>1, <2>2
<1>3. SweepWaits'
  BY <1>0, <1>1 DEF SweepWaits
<1>4. ASSUME NEW m \in Msgs, NEW d \in Conns,
             status'[m] = "sent", m \notin orphaned', Visible(d)', sweep'[d] = "done",
             Owner[d] # sender'[m]
      PROVE  Deciding(m, Owner[d])'
  <2>1. m \notin orphaned /\ Visible(d)
    BY <1>1, <1>2, <1>4 DEF Visible
  <2>2. Deciding(m, Owner[d])
    BY <1>0, <1>1, <1>4, <2>1 DEF NoStuckSent
  <2>3. PICK q \in Replicas :
          /\ hub[q].msg = m
          /\ hub[q].pc = "promote" \/ (hub[q].pc = "check" /\ Owner[d] \in hub[q].todo)
    BY <2>2 DEF Deciding
  <2>4. CASE q # r
    BY <1>0, <1>2, <2>3, <2>4 DEF Deciding
  <2>5. CASE q = r
    <3>0. hub[r].msg = m /\ Owner[d] \in hub[r].todo
      BY <1>1, <2>3, <2>5
    <3>1. /\ hub'[r].msg = m
          /\ hub'[r].pc = IF online THEN "promote" ELSE "check"
          /\ hub'[r].todo = hub[r].todo \ {u}
      BY <1>0, <1>1, <1>2, <3>0 DEF HubStates
    <3>2. CASE online
      BY <3>1, <3>2 DEF Deciding
    <3>3. CASE ~online
      <4>1. ~IsOnline(r, u)
        BY <1>2, <1>4, <3>0, <3>3
      <4>2. Owner[d] # u
        BY <1>0, <2>1, <4>1, SingleProcessAssumption
           DEF Visible, IsOnline, IsOnlineLocal, ConnsOf
      <4> QED BY <3>0, <3>1, <3>3, <4>2 DEF Deciding
    <3> QED BY <3>2, <3>3
  <2> QED BY <2>4, <2>5
<1> QED BY <1>3, <1>4 DEF NoStuckSent

\* The rest of handleIncoming has the decision behind it.
LEMMA HandlingStrandsNothing ==
  ASSUME StuckInv, NEW r \in Replicas, HandleIncoming(r)
  PROVE  SweepWaits' /\ NoStuckSent'
<1>0. /\ SweepWaits /\ NoStuckSent /\ TypeOK
      /\ hub \in [Replicas -> HubStates]
  BY DEF StuckInv, TypeOK
<1>1. CASE Refuse(r)
  <2>1. UNCHANGED <<conn, clients, presence, hub, sender, status, sweep, orphaned>>
    BY <1>1 DEF Refuse, sockets, database, history
  <2>2. \A m, u : Deciding(m, u) => Deciding(m, u)'
    BY <2>1 DEF Deciding
  <2> QED BY <1>0, <2>1, <2>2, NothingStranded
<1>2. CASE NobodyOnline(r)
  <2>1. /\ UNCHANGED <<conn, clients, presence, sender, status, sweep, orphaned>>
        /\ hub[r].pc = "check" /\ hub[r].todo = {}
        /\ \A q \in Replicas \ {r} : hub'[q] = hub[q]
    BY <1>0, <1>2 DEF NobodyOnline, sockets, database, history
  <2>2. \A m, u : Deciding(m, u) => Deciding(m, u)'
    BY <2>1 DEF Deciding
  <2> QED BY <1>0, <2>1, <2>2, NothingStranded
<1>3. CASE PromoteDelivered(r)
  <2>1. /\ UNCHANGED <<conn, clients, presence, sender, sweep>>
        /\ hub[r].pc = "promote" /\ hub[r].msg \in Msgs
        /\ \A q \in Replicas \ {r} : hub'[q] = hub[q]
        /\ orphaned \subseteq orphaned'
        /\ \A m \in Msgs : status'[m] = "sent" => status[m] = "sent"
    BY <1>0, <1>3 DEF PromoteDelivered, Promote, TypeOK, sockets
  <2>2. status'[hub[r].msg] # "sent" \/ hub[r].msg \in orphaned'
    BY <1>3, <2>1 DEF PromoteDelivered, Promote
  <2>3. \A m \in Msgs, u \in Users :
          (status'[m] = "sent" /\ m \notin orphaned' /\ Deciding(m, u)) => Deciding(m, u)'
    BY <2>1, <2>2 DEF Deciding
  <2> QED BY <1>0, <2>1, <2>3, NothingStranded
<1>4. CASE DispatchMessage(r) \/ StartPush(r) \/ PushToOffline(r) \/ HandlingEnds(r)
  <2>1. /\ UNCHANGED <<conn, clients, presence, sender, status, sweep, orphaned>>
        /\ hub[r].pc \in {"dispatch", "push"}
        /\ \A q \in Replicas \ {r} : hub'[q] = hub[q]
    BY <1>0, <1>4 DEF DispatchMessage, StartPush, PushToOffline, HandlingEnds,
                      sockets, database, history
  <2>2. \A m, u : Deciding(m, u) => Deciding(m, u)'
    BY <2>1 DEF Deciding
  <2> QED BY <1>0, <2>1, <2>2, NothingStranded
<1> QED BY <1>1, <1>2, <1>3, <1>4, PersistStrandsNothing, CheckStrandsNothing
        DEF HandleIncoming

\* What a crash cuts short it orphans.
LEMMA CrashStrandsNothing ==
  ASSUME StuckInv, NEW r \in Replicas, Crash(r)
  PROVE  SweepWaits' /\ NoStuckSent'
<1>0. /\ SweepWaits /\ NoStuckSent /\ TypeOK
      /\ Owner \in [Conns -> Users] /\ Home \in [Conns -> Replicas]
  BY ConstantsAssumption DEF StuckInv, ConstantsAssumption
<1>1. SweepWaits'
  BY <1>0 DEF Crash, SweepWaits
<1>2. ASSUME NEW m \in Msgs, NEW d \in Conns,
             status'[m] = "sent", m \notin orphaned', Visible(d)', sweep'[d] = "done",
             Owner[d] # sender'[m]
      PROVE  Deciding(m, Owner[d])'
  <2>1. /\ status[m] = "sent" /\ m \notin orphaned /\ Visible(d) /\ sweep[d] = "done"
        /\ Owner[d] # sender[m]
    BY <1>0, <1>2 DEF Crash, Visible, database, TypeOK
  <2>2. Deciding(m, Owner[d])
    BY <1>0, <2>1 DEF NoStuckSent
  <2>3. hub[r].msg # m \/ hub[r].pc \notin {"check", "promote"}
    BY <1>2 DEF Crash
  <2> QED BY <1>0, <2>2, <2>3, OthersDecide DEF Crash
<1> QED BY <1>1, <1>2 DEF NoStuckSent

LEMMA StepStrandsNothing ==
  ASSUME StuckInv, [Next]_vars
  PROVE  StuckInv'
<1>0. SweepWaits /\ NoStuckSent /\ TypeOK /\ TypeOK'
  BY StepTypes DEF StuckInv
<1>1. ASSUME UNCHANGED <<conn, clients, presence, hub, sender, status, sweep, orphaned>>
      PROVE  SweepWaits' /\ NoStuckSent'
  <2>1. \A m, u : Deciding(m, u) => Deciding(m, u)'
    BY <1>1 DEF Deciding
  <2> QED BY <1>0, <1>1, <2>1, NothingStranded
<1>2. ASSUME NEW c \in Conns, Submit(c) \/ WritePump(c) PROVE SweepWaits' /\ NoStuckSent'
  BY <1>1, <1>2 DEF Submit, WritePump, sockets, database, history
<1>3. ASSUME NEW t \in TaskIds, BroadcastStatus(t) PROVE SweepWaits' /\ NoStuckSent'
  BY <1>1, <1>3 DEF BroadcastStatus, database
<1>4. ASSUME NEW r \in Replicas, Subscriber(r) PROVE SweepWaits' /\ NoStuckSent'
  BY <1>1, <1>4 DEF Subscriber, database, history
<1>5. ASSUME UNCHANGED vars PROVE SweepWaits' /\ NoStuckSent'
  BY <1>1, <1>5 DEF vars
<1>6. SweepWaits' /\ NoStuckSent'
  BY <1>2, <1>3, <1>4, <1>5, ConnectionStrandsNothing, SweepStrandsNothing,
     HandlingStrandsNothing, CrashStrandsNothing DEF Next, ServerNext
<1> QED BY <1>0, <1>6 DEF StuckInv

\* However the hub's online check interleaves with connections being opened,
\* swept and closed, on however many replicas: once the sweep of a connection is
\* over and it is still there for the check to see, no message of somebody else
\* is left at "sent" undecided, unless a fault or a crash cut its promotion short.
THEOREM NothingStaysSent == Spec => []NoStuckSent
<1>1. Init => StuckInv
  <2>1. Init => SweepWaits /\ NoStuckSent
    BY DEF Init, SweepWaits, NoStuckSent
  <2> QED BY <2>1, InitTypes DEF StuckInv
<1>2. StuckInv /\ [Next]_vars => StuckInv'
  BY StepStrandsNothing
<1>3. StuckInv => NoStuckSent
  BY DEF StuckInv
<1> QED BY <1>1, <1>2, <1>3, PTL DEF Spec

-----------------------------------------------------------------------------
(* No receipt runs ahead of the database. *)

\* What a receipt under way was read from the database, ...
TasksTruthful == \A t \in TaskIds : \A m \in task[t].ids : Rank(task[t].status) <= Rank(status[m])

\* ... and so was the status a message goes out with.
HubTruthful ==
  \A r \in Replicas : hub[r].pc # "idle" =>
    0 < Rank(hub[r].out) /\ Rank(hub[r].out) <= Rank(status[hub[r].msg])

ReceiptInv == TypeOK /\ TasksTruthful /\ HubTruthful /\ NoFalseReceipt

LEMMA RankIsNat ==
  ASSUME NEW s PROVE Rank(s) \in 0..3
BY DEF Rank

\* A status once reached is never lost, so that what was true stays true.
LEMMA RankGrows ==
  ASSUME TypeOK, [Next]_vars
  PROVE  \A m \in Msgs : Rank(status[m]) <= Rank(status'[m])
<1>1. [MS!Next]_status
  BY StepForward
<1>2. status \in [Msgs -> Statuses]
  BY DEF TypeOK
<1>3. CASE UNCHANGED status
  BY <1>3, RankIsNat
<1>4. ASSUME NEW m \in Msgs, MS!Store(m)
      PROVE  \A n \in Msgs : Rank(status[n]) <= Rank(status'[n])
  BY <1>2, <1>4 DEF MS!Store, Rank
<1>5. ASSUME NEW S \in SUBSET Msgs, NEW next \in {"delivered", "seen"}, MS!Advance(S, next)
      PROVE  \A n \in Msgs : Rank(status[n]) <= Rank(status'[n])
  BY <1>2, <1>5 DEF MS!Advance, MS!Rank, Rank
<1> QED BY <1>1, <1>3, <1>4, <1>5 DEF MS!Next

LEMMA TruthfulStays ==
  ASSUME TypeOK, NEW ev \in Events, Truthful(ev),
         \A m \in Msgs : Rank(status[m]) <= Rank(status'[m])
  PROVE  Truthful(ev)'
<1>1. ev.ids \subseteq Msgs
  BY DEF Events
<1>2. ASSUME NEW m \in ev.ids PROVE Rank(ev.status) <= Rank(status'[m])
  BY <1>1, RankIsNat DEF Truthful
<1> QED BY <1>2 DEF Truthful

\* What an appended or shortened queue holds.
LEMMA QueueContents ==
  ASSUME NEW S, NEW q \in Seq(S), NEW e \in S
  PROVE  /\ EventsIn(Append(q, e)) \subseteq EventsIn(q) \cup {e}
         /\ q # <<>> => /\ Head(q) \in EventsIn(q)
                        /\ EventsIn(Tail(q)) \subseteq EventsIn(q)
         /\ EventsIn(<<>>) = {}
         /\ EventsIn(q) \subseteq S
<1>1. EventsIn(Append(q, e)) \subseteq EventsIn(q) \cup {e}
  <2>1. DOMAIN Append(q, e) = 1..(Len(q) + 1) /\ DOMAIN q = 1..Len(q)
    OBVIOUS
  <2>2. \A i \in 1..(Len(q) + 1) :
          Append(q, e)[i] = IF i = Len(q) + 1 THEN e ELSE q[i]
    BY AppendProperties
  <2> QED BY <2>1, <2>2 DEF EventsIn
<1>2. ASSUME q # <<>>
      PROVE  Head(q) \in EventsIn(q) /\ EventsIn(Tail(q)) \subseteq EventsIn(q)
  <2>1. Len(q) \in Nat /\ Len(q) > 0 /\ DOMAIN q = 1..Len(q) /\ Head(q) = q[1]
    BY <1>2
  <2>2. /\ Tail(q) \in Seq(S) /\ Len(Tail(q)) = Len(q) - 1
        /\ \A i \in 1..Len(Tail(q)) : Tail(q)[i] = q[i + 1]
    BY <1>2, HeadTailProperties
  <2>3. DOMAIN Tail(q) = 1..(Len(q) - 1)
    BY <2>2
  <2>4. \A i \in 1..(Len(q) - 1) : i + 1 \in 1..Len(q)
    BY <2>1
  <2> QED BY <2>1, <2>2, <2>3, <2>4 DEF EventsIn
<1>3. EventsIn(<<>>) = {}
  BY DEF EventsIn
<1>4. EventsIn(q) \subseteq S
  BY DEF EventsIn
<1> QED BY <1>1, <1>2, <1>3, <1>4

\* Handing a truthful event to the connections of a user ...
LEMMA SendToTruthful ==
  ASSUME TypeOK, NEW r \in Replicas, NEW u \in Users, NEW ev \in Events, SendTo(r, u, ev)
  PROVE  \A c \in Conns : EventsIn(sendq'[c]) \subseteq EventsIn(sendq[c]) \cup {ev}
<1> SUFFICES ASSUME NEW c \in Conns
             PROVE  EventsIn(sendq'[c]) \subseteq EventsIn(sendq[c]) \cup {ev}
  OBVIOUS
<1>1. sendq'[c] \in {<<>>, Append(sendq[c], ev), sendq[c]}
  BY DEF SendTo
<1>2. sendq[c] \in Seq(Events)
  BY DEF TypeOK
<1> QED BY <1>1, <1>2, QueueContents

\* ... or to Redis adds nothing else to the queues.
LEMMA DispatchTruthful ==
  ASSUME TypeOK, NEW r \in Replicas, NEW u \in Users, NEW ev \in Events, Dispatch(r, u, ev)
  PROVE  /\ \A c \in Conns : EventsIn(sendq'[c]) \subseteq EventsIn(sendq[c]) \cup {ev}
         /\ \A q \in Replicas :
              EventsIn(fanout'[q]) \subseteq EventsIn(fanout[q]) \cup {[user |-> u, event |-> ev]}
<1>1. CASE ~UseRedis /\ SendTo(r, u, ev) /\ UNCHANGED <<fanout, faults>>
  BY <1>1, SendToTruthful
<1>2. CASE /\ fanout' = [q \in Replicas |->
                           Append(fanout[q], [user |-> u, event |-> ev])]
           /\ UNCHANGED <<closed, sendq, faults>>
  <2>1. [user |-> u, event |-> ev] \in Envelopes /\ fanout \in [Replicas -> Seq(Envelopes)]
    BY DEF Envelopes, TypeOK
  <2> QED BY <1>2, <2>1, QueueContents
<1>3. CASE Fault /\ SendTo(r, u, ev) /\ UNCHANGED fanout
  BY <1>3, SendToTruthful
<1> QED BY <1>1, <1>2, <1>3, Zenon DEF Dispatch

\* Queues that gain nothing, or one truthful event, stay truthful.
LEMMA QueuesStayTruthful ==
  ASSUME ReceiptInv, [Next]_vars,
         NEW ev \in Events, Truthful(ev), NEW u,
         \A c \in Conns : EventsIn(sendq'[c]) \subseteq EventsIn(sendq[c]) \cup {ev},
         \A q \in Replicas :
           EventsIn(fanout'[q]) \subseteq EventsIn(fanout[q]) \cup {[user |-> u, event |-> ev]}
  PROVE  NoFalseReceipt'
<1>1. \A m \in Msgs : Rank(status[m]) <= Rank(status'[m])
  BY RankGrows DEF ReceiptInv
<1>2. TypeOK /\ NoFalseReceipt
  BY DEF ReceiptInv
<1>3. \A e \in Events : Truthful(e) => Truthful(e)'
  BY <1>1, <1>2, TruthfulStays
<1>4. ASSUME NEW c \in Conns, NEW e \in EventsIn(sendq'[c]) PROVE Truthful(e)'
  <2>1. e \in Events /\ Truthful(e)
    <3>1. sendq[c] \in Seq(Events)
      BY <1>2 DEF TypeOK
    <3>2. EventsIn(sendq[c]) \subseteq Events
      BY <3>1, QueueContents
    <3> QED BY <1>2, <1>4, <3>2 DEF NoFalseReceipt
  <2> QED BY <1>3, <2>1
<1>5. ASSUME NEW q \in Replicas, NEW e \in EventsIn(fanout'[q]) PROVE Truthful(e.event)'
  <2>1. e.event \in Events /\ Truthful(e.event)
    <3>1. fanout[q] \in Seq(Envelopes)
      BY <1>2 DEF TypeOK
    <3>2. EventsIn(fanout[q]) \subseteq Envelopes
      <4>1. CASE Envelopes = {}
        BY <3>1, <4>1 DEF EventsIn
      <4>2. CASE Envelopes # {}
        BY <3>1, <4>2, QueueContents
      <4> QED BY <4>1, <4>2
    <3>3. CASE e \in EventsIn(fanout[q])
      BY <1>2, <3>2, <3>3 DEF NoFalseReceipt, Envelopes
    <3>4. CASE e = [user |-> u, event |-> ev]
      BY <3>4
    <3> QED BY <1>5, <3>3, <3>4
  <2> QED BY <1>3, <2>1
<1> QED BY <1>4, <1>5 DEF NoFalseReceipt

LEMMA QueuesShrink ==
  ASSUME ReceiptInv, [Next]_vars,
         \A c \in Conns : EventsIn(sendq'[c]) \subseteq EventsIn(sendq[c]),
         \A q \in Replicas : EventsIn(fanout'[q]) \subseteq EventsIn(fanout[q])
  PROVE  NoFalseReceipt'
<1> DEFINE ev == [kind |-> "status", ids |-> {}, status |-> "none"]
<1>1. ev \in Events /\ Truthful(ev)
  BY DEF Events, Statuses, Truthful
<1> HIDE DEF ev
<1> QED BY <1>1, QueuesStayTruthful

\* Every sender of a receipt has updated the rows first.
LEMMA StepTasksTruthful ==
  ASSUME ReceiptInv, [Next]_vars
  PROVE  TasksTruthful'
<1>0. /\ TypeOK /\ TasksTruthful
      /\ \A m \in Msgs : Rank(status[m]) <= Rank(status'[m])
      /\ \A m \in Msgs : Rank(status[m]) \in 0..3 /\ Rank(status'[m]) \in 0..3
      /\ \A t \in TaskIds : task[t].ids \subseteq Msgs /\ Rank(task[t].status) \in 0..3
      /\ task \in [TaskIds -> Tasks]
  BY RankGrows, RankIsNat DEF ReceiptInv, TypeOK, Tasks
<1>1. ASSUME \A t \in TaskIds :
               \/ task'[t].ids = task[t].ids /\ task'[t].status = task[t].status
               \/ task'[t].ids = {}
               \/ \A m \in task'[t].ids : Rank(task'[t].status) <= Rank(status'[m])
      PROVE  TasksTruthful'
  <2> SUFFICES ASSUME NEW t \in TaskIds, NEW m \in task'[t].ids
               PROVE  Rank(task'[t].status) <= Rank(status'[m])
    BY DEF TasksTruthful
  <2>1. CASE task'[t].ids = task[t].ids /\ task'[t].status = task[t].status
    <3>1. Rank(task[t].status) <= Rank(status[m]) /\ m \in Msgs
      BY <1>0, <2>1 DEF TasksTruthful
    <3> QED BY <1>0, <2>1, <3>1
  <2> QED BY <1>1, <2>1
<1>2. ASSUME task' = task PROVE TasksTruthful'
  BY <1>1, <1>2
<1>3. ASSUME NEW t \in TaskIds, NEW S \in SUBSET Msgs, NEW next,
             task' = [task EXCEPT ![t] = Announce(S, next)],
             status' = Promote(S, next)
      PROVE  TasksTruthful'
  <2>1. \A m \in S : Rank(next) <= Rank(status'[m])
    BY <1>3, RankIsNat DEF Promote
  <2>2. Announce(S, next).ids = S /\ (S # {} => Announce(S, next).status = next)
    BY DEF Announce, IdleTask
  <2> QED BY <1>0, <1>1, <1>3, <2>1, <2>2
<1>4. ASSUME NEW c \in Conns, Receipt(c) \/ FetchMarksSeen(c) PROVE TasksTruthful'
  <2>1. \A s \in {"sweep", "read", "load"} : <<s, c>> \in TaskIds
    BY DEF TaskIds
  <2> DEFINE waiting == Unseen(Owner[c], {"sent"})
             unread == Unseen(Owner[c], {"sent", "delivered"})
  <2>2. waiting \in SUBSET Msgs /\ unread \in SUBSET Msgs
    BY DEF Unseen
  <2>3. CASE MarkDelivered(c)
    <3>1. \/ task' = task
          \/ /\ task' = [task EXCEPT ![<<"sweep", c>>] = Announce(waiting, "delivered")]
             /\ status' = Promote(waiting, "delivered")
      BY <2>3 DEF MarkDelivered
    <3> HIDE DEF waiting
    <3> QED BY <1>2, <1>3, <2>1, <2>2, <3>1
  <2>4. CASE MarkSeen(c) \/ FetchMarksSeen(c)
    <3>1. PICK s \in {"read", "load"} :
            /\ task' = [task EXCEPT ![<<s, c>>] = Announce(unread, "seen")]
            /\ status' = Promote(unread, "seen")
      BY <2>4 DEF MarkSeen, FetchMarksSeen
    <3> HIDE DEF unread
    <3> QED BY <1>3, <2>1, <2>2, <3>1
  <2> QED BY <1>4, <2>3, <2>4 DEF Receipt
<1>5. ASSUME NEW t \in TaskIds, BroadcastStatus(t) PROVE TasksTruthful'
  <2>1. PICK u : task' = [task EXCEPT ![t] = IF task[t].todo = {u} THEN IdleTask
                                             ELSE [task[t] EXCEPT !.todo = @ \ {u}]]
    BY <1>5, Zenon DEF BroadcastStatus
  <2>2. \/ task'[t].ids = task[t].ids /\ task'[t].status = task[t].status
        \/ task'[t].ids = {}
    BY <1>0, <2>1 DEF IdleTask, Tasks
  <2> QED BY <1>0, <1>1, <2>1, <2>2
<1>6. ASSUME NEW r \in Replicas, Crash(r) PROVE TasksTruthful'
  BY <1>0, <1>1, <1>6 DEF Crash, IdleTask
<1>7. ASSUME NEW c \in Conns, Connection(c) \/ Submit(c) \/ WritePump(c)
      PROVE  TasksTruthful'
  BY <1>2, <1>7 DEF Connection, Upgrade, Register, MarkOnline, WriteFails, Unregister,
              MarkOffline, Submit, WritePump
<1>8. ASSUME NEW r \in Replicas, Subscriber(r) \/ HandleIncoming(r) PROVE TasksTruthful'
  BY <1>2, <1>8 DEF Subscriber, HandleIncoming, Refuse, Persist, CheckOnline, NobodyOnline,
              PromoteDelivered, DispatchMessage, StartPush, PushToOffline, HandlingEnds
<1>9. ASSUME UNCHANGED vars PROVE TasksTruthful'
  BY <1>2, <1>9 DEF vars
<1> QED BY <1>4, <1>5, <1>6, <1>7, <1>8, <1>9 DEF Next, ServerNext

\* The hub sends a message out with a status its row has reached.
LEMMA StepHubTruthful ==
  ASSUME ReceiptInv, [Next]_vars
  PROVE  HubTruthful'
<1>0. /\ TypeOK /\ HubTruthful
      /\ hub \in [Replicas -> HubStates]
      /\ status \in [Msgs -> Statuses]
      /\ \A q \in Replicas : hub[q].pc # "idle" => hub[q].msg \in Msgs
      /\ \A q \in Replicas : Rank(hub[q].out) \in 0..3
  BY RankIsNat DEF ReceiptInv, TypeOK
<1>g. /\ \A m \in Msgs : Rank(status[m]) <= Rank(status'[m])
      /\ \A m \in Msgs : Rank(status[m]) \in 0..3 /\ Rank(status'[m]) \in 0..3
  BY RankGrows, RankIsNat DEF ReceiptInv
<1>1. ASSUME \A q \in Replicas :
               \/ hub'[q].pc = "idle"
               \/ /\ hub[q].pc # "idle"
                  /\ hub'[q].msg = hub[q].msg /\ hub'[q].out = hub[q].out
               \/ /\ 0 < Rank(hub'[q].out)
                  /\ Rank(hub'[q].out) <= Rank(status'[hub'[q].msg])
      PROVE  HubTruthful'
  <2> SUFFICES ASSUME NEW q \in Replicas, hub'[q].pc # "idle"
               PROVE  /\ 0 < Rank(hub'[q].out)
                      /\ Rank(hub'[q].out) <= Rank(status'[hub'[q].msg])
    BY DEF HubTruthful
  <2>1. CASE /\ hub[q].pc # "idle"
             /\ hub'[q].msg = hub[q].msg /\ hub'[q].out = hub[q].out
    <3>1. /\ 0 < Rank(hub[q].out) /\ Rank(hub[q].out) <= Rank(status[hub[q].msg])
          /\ hub[q].msg \in Msgs
      BY <1>0, <2>1 DEF HubTruthful
    <3> QED BY <1>0, <1>g, <2>1, <3>1
  <2> QED BY <1>1, <2>1
<1>2. ASSUME hub' = hub PROVE HubTruthful'
  <2>1. \A q \in Replicas : hub'[q].pc = "idle" \/ hub[q].pc # "idle"
    BY <1>2
  <2> QED BY <1>1, <1>2, <2>1
<1>3. ASSUME NEW r \in Replicas, Persist(r) PROVE HubTruthful'
  <2>1. PICK n \in Msgs :
          /\ status' = [status EXCEPT ![n] = "sent"]
          /\ hub' = [hub EXCEPT ![r] =
                       [pc |-> "check", msg |-> n, keys |-> Head(incoming[r]).keys,
                        todo |-> Users \ {Head(incoming[r]).from}, out |-> "sent",
                        pushed |-> {}]]
    BY <1>3 DEF Persist
  <2>2. /\ hub'[r].msg = n /\ hub'[r].out = "sent" /\ status'[n] = "sent"
        /\ \A q \in Replicas \ {r} : hub'[q] = hub[q]
    BY <1>0, <2>1
  <2>3. 0 < Rank("sent") /\ Rank("sent") <= Rank("sent")
    BY DEF Rank
  <2> QED BY <1>1, <2>2, <2>3
<1>4. ASSUME NEW r \in Replicas, PromoteDelivered(r) PROVE HubTruthful'
  <2> DEFINE m == hub[r].msg
  <2>1. /\ hub[r].pc = "promote" /\ m \in Msgs /\ Rank(status[m]) > 0
        /\ \A q \in Replicas \ {r} : hub'[q] = hub[q]
        /\ hub'[r].msg = m
    <3>1. hub[r].pc = "promote"
      BY <1>4 DEF PromoteDelivered
    <3>2. \A q \in Replicas \ {r} : hub'[q] = hub[q]
      BY <1>0, <1>4 DEF PromoteDelivered
    <3>3. hub'[r].msg = m
      BY <1>0, <1>4 DEF PromoteDelivered, HubStates
    <3>4. Rank(status[m]) > 0
      BY <1>0, <1>g, <3>1 DEF HubTruthful
    <3> QED BY <1>0, <3>1, <3>2, <3>3, <3>4
  <2>2. CASE hub'[r].out = hub[r].out
    BY <1>1, <2>1, <2>2
  <2>3. CASE /\ hub'[r].out = "delivered"
             /\ status' = Promote({m} \cap {x \in Msgs : status[x] = "sent"}, "delivered")
    <3>1. 0 < Rank("delivered") /\ Rank("delivered") <= Rank(status'[m])
      BY <1>0, <2>1, <2>3 DEF Promote, Rank, Statuses
    <3> QED BY <1>1, <2>1, <2>3, <3>1
  <2>4. hub'[r].out = hub[r].out \/
          /\ hub'[r].out = "delivered"
          /\ status' = Promote({m} \cap {x \in Msgs : status[x] = "sent"}, "delivered")
    BY <1>0, <1>4 DEF PromoteDelivered, HubStates
  <2> QED BY <2>2, <2>3, <2>4
<1>5. ASSUME NEW r \in Replicas,
             \/ CheckOnline(r) \/ NobodyOnline(r) \/ DispatchMessage(r)
             \/ StartPush(r) \/ PushToOffline(r)
      PROVE  HubTruthful'
  <2>1. hub[r].pc # "idle" /\ \A q \in Replicas \ {r} : hub'[q] = hub[q]
    BY <1>0, <1>5 DEF CheckOnline, NobodyOnline, DispatchMessage, StartPush, PushToOffline
  <2>2. hub'[r].msg = hub[r].msg /\ hub'[r].out = hub[r].out
    <3>1. CASE CheckOnline(r)
      BY <1>0, <3>1 DEF CheckOnline, HubStates
    <3>2. CASE NobodyOnline(r) \/ StartPush(r)
      BY <1>0, <3>2 DEF NobodyOnline, StartPush, HubStates
    <3>3. CASE DispatchMessage(r) \/ PushToOffline(r)
      BY <1>0, <3>3 DEF DispatchMessage, PushToOffline, HubStates
    <3> QED BY <1>5, <3>1, <3>2, <3>3
  <2> QED BY <1>1, <2>1, <2>2
<1>6. ASSUME NEW r \in Replicas, HandlingEnds(r) \/ Crash(r) PROVE HubTruthful'
  <2>1. hub' = [hub EXCEPT ![r] = IdleHub] /\ IdleHub.pc = "idle"
    BY <1>6 DEF HandlingEnds, Crash, IdleHub
  <2> QED BY <1>0, <1>1, <2>1
<1>7. ASSUME NEW c \in Conns,
             Connection(c) \/ Receipt(c) \/ FetchMarksSeen(c) \/ Submit(c) \/ WritePump(c)
      PROVE  HubTruthful'
  BY <1>2, <1>7 DEF Connection, Upgrade, Register, MarkOnline, WriteFails, Unregister,
              MarkOffline, Receipt, MarkDelivered, MarkSeen, FetchMarksSeen, Submit, WritePump
<1>8. ASSUME NEW t \in TaskIds, BroadcastStatus(t) PROVE HubTruthful'
  BY <1>2, <1>8 DEF BroadcastStatus
<1>9. ASSUME NEW r \in Replicas, Subscriber(r) \/ Refuse(r) PROVE HubTruthful'
  BY <1>2, <1>9 DEF Subscriber, Refuse
<1>10. ASSUME UNCHANGED vars PROVE HubTruthful'
  BY <1>2, <1>10 DEF vars
<1> QED BY <1>3, <1>4, <1>5, <1>6, <1>7, <1>8, <1>9, <1>10
        DEF Next, ServerNext, HandleIncoming

\* Only sendTo and dispatch put events on a queue.
LEMMA StepQueuesTruthful ==
  ASSUME ReceiptInv, [Next]_vars
  PROVE  NoFalseReceipt'
<1>0. /\ TypeOK
      /\ sendq \in [Conns -> Seq(Events)] /\ fanout \in [Replicas -> Seq(Envelopes)]
      /\ Home \in [Conns -> Replicas] /\ NoFalseReceipt
  BY ConstantsAssumption DEF ReceiptInv, TypeOK, ConstantsAssumption
<1>1. ASSUME UNCHANGED <<sendq, fanout>> PROVE NoFalseReceipt'
  BY <1>1, QueuesShrink
<1>2. ASSUME NEW r \in Replicas, Subscriber(r) PROVE NoFalseReceipt'
  <2> DEFINE env == Head(fanout[r])
  <2>1. fanout[r] \in Seq(Envelopes) /\ fanout[r] # <<>>
    BY <1>0, <1>2 DEF Subscriber
  <2>2. env \in Envelopes
    BY <2>1, HeadTailProperties
  <2>3. env \in EventsIn(fanout[r]) /\ EventsIn(Tail(fanout[r])) \subseteq EventsIn(fanout[r])
    BY <2>1, <2>2, QueueContents
  <2>4. env.user \in Users /\ env.event \in Events /\ Truthful(env.event)
    BY <1>0, <2>2, <2>3 DEF Envelopes, NoFalseReceipt
  <2>5. SendTo(r, env.user, env.event)
    BY <1>2 DEF Subscriber
  <2> HIDE DEF env
  <2>6. \A c \in Conns : EventsIn(sendq'[c]) \subseteq EventsIn(sendq[c]) \cup {env.event}
    BY <1>0, <2>4, <2>5, SendToTruthful
  <2>7. \A q \in Replicas : EventsIn(fanout'[q]) \subseteq EventsIn(fanout[q])
    BY <1>0, <1>2, <2>3 DEF Subscriber
  <2> QED BY <2>4, <2>6, <2>7, QueuesStayTruthful
<1>3. ASSUME NEW t \in TaskIds, BroadcastStatus(t) PROVE NoFalseReceipt'
  <2> DEFINE ev == [kind |-> "status", ids |-> task[t].ids, status |-> task[t].status]
  <2>1. PICK u \in task[t].todo : Dispatch(Home[t[2]], u, ev)
    BY <1>3, Zenon DEF BroadcastStatus
  <2>2. task[t] \in Tasks
    BY <1>0 DEF TypeOK
  <2>3. u \in Users /\ ev \in Events /\ Home[t[2]] \in Replicas
    BY <1>0, <2>2 DEF Tasks, Events, TaskIds
  <2>4. Truthful(ev)
    BY DEF ReceiptInv, TasksTruthful, Truthful
  <2> HIDE DEF ev
  <2> QED BY <1>0, <2>1, <2>3, <2>4, DispatchTruthful, QueuesStayTruthful
<1>4. ASSUME NEW r \in Replicas, DispatchMessage(r) PROVE NoFalseReceipt'
  <2> DEFINE ev == [kind |-> "message", ids |-> {hub[r].msg}, status |-> hub[r].out]
  <2>1. PICK u \in hub[r].todo :
          IF u \in hub[r].keys THEN Dispatch(r, u, ev)
          ELSE UNCHANGED <<closed, sendq, fanout, faults>>
    BY <1>4, Zenon DEF DispatchMessage
  <2>2. /\ hub[r] \in HubStates /\ hub[r].msg \in Msgs /\ hub[r].pc # "idle"
    BY <1>0, <1>4 DEF DispatchMessage, TypeOK
  <2>3. u \in Users /\ ev \in Events
    BY <2>2 DEF HubStates, Events
  <2>4. Truthful(ev)
    BY <2>2 DEF ReceiptInv, HubTruthful, Truthful
  <2> HIDE DEF ev
  <2>5. CASE Dispatch(r, u, ev)
    BY <1>0, <2>3, <2>4, <2>5, DispatchTruthful, QueuesStayTruthful
  <2>6. CASE UNCHANGED <<closed, sendq, fanout, faults>>
    BY <1>1, <2>6
  <2> QED BY <2>1, <2>5, <2>6
<1>5. ASSUME NEW c \in Conns, WritePump(c) \/ WriteFails(c) \/ MarkOffline(c)
      PROVE  NoFalseReceipt'
  <2>1. /\ UNCHANGED fanout
        /\ \/ sendq[c] # <<>> /\ sendq' = [sendq EXCEPT ![c] = Tail(sendq[c])]
           \/ sendq' = [sendq EXCEPT ![c] = <<>>]
    BY <1>0, <1>5 DEF WritePump, WriteFails, MarkOffline
  <2>2. EventsIn(sendq'[c]) \subseteq EventsIn(sendq[c])
    <3>1. [kind |-> "status", ids |-> {}, status |-> "none"] \in Events
      BY DEF Events, Statuses
    <3>2. /\ sendq[c] \in Seq(Events)
          /\ (sendq[c] # <<>> /\ sendq'[c] = Tail(sendq[c])) \/ sendq'[c] = <<>>
      BY <1>0, <2>1
    <3> QED BY <3>1, <3>2, QueueContents
  <2> QED BY <1>0, <2>1, <2>2, QueuesShrink
<1>6. ASSUME NEW r \in Replicas, Crash(r) PROVE NoFalseReceipt'
  <2>1. EventsIn(<<>>) = {}
    BY DEF EventsIn
  <2>2. /\ \A c \in Conns : sendq'[c] = sendq[c] \/ sendq'[c] = <<>>
        /\ \A q \in Replicas : fanout'[q] = fanout[q] \/ fanout'[q] = <<>>
    BY <1>0, <1>6 DEF Crash
  <2> QED BY <2>1, <2>2, QueuesShrink
<1>7. ASSUME NEW c \in Conns,
             \/ Upgrade(c) \/ Register(c) \/ MarkOnline(c) \/ Unregister(c)
             \/ Receipt(c) \/ FetchMarksSeen(c) \/ Submit(c)
      PROVE  NoFalseReceipt'
  BY <1>1, <1>7 DEF Upgrade, Register, MarkOnline, Unregister, Receipt, MarkDelivered,
              MarkSeen, FetchMarksSeen, Submit, sockets
<1>8. ASSUME NEW r \in Replicas, HandleIncoming(r), ~DispatchMessage(r) PROVE NoFalseReceipt'
  BY <1>1, <1>8 DEF HandleIncoming, Refuse, Persist, CheckOnline, NobodyOnline,
              PromoteDelivered, StartPush, PushToOffline, HandlingEnds, sockets
<1>9. ASSUME UNCHANGED vars PROVE NoFalseReceipt'
  BY <1>1, <1>9 DEF vars
<1> QED BY <1>2, <1>3, <1>4, <1>5, <1>6, <1>7, <1>8, <1>9
        DEF Next, ServerNext, Connection

\* Whatever is on its way to a device, and on whichever replica, promises no more
\* about a message than its row already holds: nobody is ever shown "delivered"
\* or "read" before the database says so.
THEOREM ReceiptsAreTrue == Spec => []NoFalseReceipt
<1>1. Init => ReceiptInv
  <2>1. Init => TasksTruthful /\ HubTruthful
    BY DEF Init, TasksTruthful, HubTruthful, IdleTask, IdleHub
  <2>2. Init => NoFalseReceipt
    BY DEF Init, NoFalseReceipt, EventsIn
  <2> QED BY <2>1, <2>2, InitTypes DEF ReceiptInv
<1>2. ReceiptInv /\ [Next]_vars => ReceiptInv'
  BY StepTypes, StepTasksTruthful, StepHubTruthful, StepQueuesTruthful DEF ReceiptInv
<1>3. ReceiptInv => NoFalseReceipt
  BY DEF ReceiptInv
<1> QED BY <1>1, <1>2, <1>3, PTL DEF Spec

-----------------------------------------------------------------------------
(* What pages show: ChatScreen implements Delivery, and no screen is ahead of *)
(* the database. *)

\* A step of the server and the pages is a step of the server, or none.
LEMMA ScreenStepIsServerStep == ASSUME [ScreenNext]_allVars PROVE [Next]_vars
<1>1. ASSUME NEW c \in Conns, PageStep(c) PROVE [Next]_vars
  <2>1. CASE Receive(c)
    BY <2>1 DEF Receive, Next
  <2>2. CASE LoadMarksSeen(c)
    BY <2>2 DEF LoadMarksSeen, Next
  <2>3. CASE Materialised(c) \/ OnOpen(c) \/ LoadSelects(c) \/ LoadMerges(c)
    BY <2>3 DEF Materialised, OnOpen, LoadSelects, LoadMerges
  <2> QED BY <1>1, <2>1, <2>2, <2>3 DEF PageStep
<1>2. CASE ServerNext /\ UNCHANGED screenVars
  BY <1>2 DEF Next
<1>3. CASE UNCHANGED allVars
  BY <1>3 DEF allVars
<1> QED BY <1>1, <1>2, <1>3 DEF ScreenNext

\* Whatever pages do, the server behaves as Delivery says (useChat.js and messages.go on top
\* of the hub): what is proved of Delivery holds under the pages.
THEOREM ScreenUsesDelivery == ScreenSpec => Spec
<1>1. ScreenInit => Init
  BY DEF ScreenInit
<1>2. [ScreenNext]_allVars => [Next]_vars
  BY ScreenStepIsServerStep
<1> QED BY <1>1, <1>2, PTL DEF ScreenSpec, Spec

ScreenInv == ReceiptInv /\ ScreenTypeOK /\ ScreenTruthful

-----------------------------------------------------------------------------
\* Types.

\* What a page takes off its socket is an event that does not run ahead.
LEMMA ReceivedEvents ==
  ASSUME ReceiptInv, NEW c \in Conns, WritePump(c)
  PROVE  /\ Head(sendq[c]) \in Events /\ Truthful(Head(sendq[c]))
         /\ UNCHANGED status
<1>1. sendq[c] \in Seq(Events) /\ sendq[c] # <<>>
  BY DEF ReceiptInv, TypeOK, WritePump
<1>2. Head(sendq[c]) \in EventsIn(sendq[c]) /\ EventsIn(sendq[c]) \subseteq Events
  BY <1>1, QueueContents
<1>3. \A ev \in EventsIn(sendq[c]) : Truthful(ev)
  BY DEF ReceiptInv, NoFalseReceipt
<1>4. UNCHANGED status
  BY DEF WritePump, database
<1> QED BY <1>2, <1>3, <1>4

LEMMA MergeTypes ==
  ASSUME NEW shown \in [Msgs -> Statuses], NEW rows \in [Msgs -> Statuses]
  PROVE  MergeMessages(shown, rows) \in [Msgs -> Statuses]
BY DEF MergeMessages

LEMMA PageTypes ==
  ASSUME ReceiptInv, ScreenTypeOK, NEW c \in Conns, PageStep(c)
  PROVE  ScreenTypeOK'
<1> USE DEF ScreenTypeOK
<1>0. "none" \in Statuses /\ NoRows \in [Msgs -> Statuses] /\ status \in [Msgs -> Statuses]
  BY DEF Statuses, NoRows, ReceiptInv, TypeOK
<1>1. CASE Receive(c)
  <2> DEFINE ev == Head(sendq[c])
  <2>1. ev \in Events
    BY <1>1, ReceivedEvents DEF Receive
  <2>2. ev.ids \in SUBSET Msgs /\ ev.status \in Statuses
    BY <2>1 DEF Events
  <2>3. UNCHANGED <<page, reply>>
    BY <1>1 DEF Receive
  <2>4. CASE decrypting' = [decrypting EXCEPT ![c] = @ \cup (ev.ids \X {ev.status})] /\ UNCHANGED screen
    <3>1. ev.ids \X {ev.status} \in SUBSET (Msgs \X Statuses)
      BY <2>2
    <3> QED BY <2>3, <2>4, <3>1
  <2>5. CASE screen' = [screen EXCEPT ![c] = MergeMessages(@,
                         [m \in Msgs |-> IF m \in ev.ids THEN ev.status ELSE "none"])]
             /\ UNCHANGED decrypting
    <3>1. [m \in Msgs |-> IF m \in ev.ids THEN ev.status ELSE "none"] \in [Msgs -> Statuses]
      BY <1>0, <2>2
    <3>2. MergeMessages(screen[c], [m \in Msgs |-> IF m \in ev.ids THEN ev.status ELSE "none"])
            \in [Msgs -> Statuses]
      BY <3>1, MergeTypes
    <3> QED BY <2>3, <2>5, <3>2
  <2>6. CASE screen' = [screen EXCEPT ![c] = [m \in Msgs |->
                         IF m \in ev.ids /\ @[m] # "none"
                         THEN AdvanceStatus(@[m], ev.status) ELSE @[m]]]
             /\ UNCHANGED decrypting
    <3>1. \A m \in Msgs : AdvanceStatus(screen[c][m], ev.status) \in Statuses
      BY <2>2 DEF AdvanceStatus
    <3>2. [m \in Msgs |-> IF m \in ev.ids /\ screen[c][m] # "none"
                          THEN AdvanceStatus(screen[c][m], ev.status) ELSE screen[c][m]]
            \in [Msgs -> Statuses]
      BY <3>1
    <3> QED BY <2>3, <2>6, <3>2
  <2> QED BY <1>1, <2>4, <2>5, <2>6 DEF Receive
<1>2. CASE Materialised(c)
  <2>1. PICK row \in decrypting[c] :
          /\ screen' = [screen EXCEPT ![c] = MergeMessages(@,
                          [m \in Msgs |-> IF m = row[1] THEN row[2] ELSE "none"])]
          /\ decrypting' = [decrypting EXCEPT ![c] = @ \ {row}]
    BY <1>2 DEF Materialised
  <2>2. [m \in Msgs |-> IF m = row[1] THEN row[2] ELSE "none"] \in [Msgs -> Statuses]
    BY <1>0
  <2>3. MergeMessages(screen[c], [m \in Msgs |-> IF m = row[1] THEN row[2] ELSE "none"])
          \in [Msgs -> Statuses]
    BY <2>2, MergeTypes
  <2> QED BY <1>2, <2>1, <2>3 DEF Materialised
<1>3. CASE OnOpen(c)
  BY <1>3 DEF OnOpen
<1>4. CASE LoadMarksSeen(c)
  BY <1>4 DEF LoadMarksSeen
<1>5. CASE LoadSelects(c)
  BY <1>0, <1>5 DEF LoadSelects
<1>6. CASE LoadMerges(c)
  <2>1. MergeMessages(screen[c], reply[c]) \in [Msgs -> Statuses]
    BY MergeTypes
  <2> QED BY <1>0, <1>6, <2>1 DEF LoadMerges
<1> QED BY <1>1, <1>2, <1>3, <1>4, <1>5, <1>6 DEF PageStep

LEMMA ScreenStepTypes ==
  ASSUME ReceiptInv, ScreenTypeOK, [ScreenNext]_allVars
  PROVE  ScreenTypeOK'
<1>1. CASE ServerNext /\ UNCHANGED screenVars
  BY <1>1 DEF screenVars, ScreenTypeOK
<1>2. CASE UNCHANGED allVars
  BY <1>2 DEF allVars, screenVars, ScreenTypeOK
<1> QED BY <1>1, <1>2, PageTypes DEF ScreenNext

-----------------------------------------------------------------------------
\* No screen is ahead of the database.

\* Rows that are not ahead stay behind when they are merged.
LEMMA MergeTruthful ==
  ASSUME NEW shown, NEW rows, NEW m \in Msgs, NEW n,
         Rank(shown[m]) <= n, Rank(rows[m]) <= n
  PROVE  Rank(MergeMessages(shown, rows)[m]) <= n
BY DEF MergeMessages

\* While the row grows, what was not ahead of it is not ahead of it.
LEMMA StillBehind ==
  ASSUME ScreenInv, [ScreenNext]_allVars, NEW c \in Conns, NEW m \in Msgs
  PROVE  /\ Rank(screen[c][m]) <= Rank(status'[m])
         /\ Rank(reply[c][m]) <= Rank(status'[m])
         /\ \A row \in decrypting[c] : Rank(row[2]) <= Rank(status'[row[1]])
         /\ Rank("none") <= Rank(status'[m])
<1>1. TypeOK /\ [Next]_vars
  BY ScreenStepIsServerStep DEF ScreenInv, ReceiptInv
<1>2. \A x \in Msgs : Rank(status[x]) <= Rank(status'[x])
  BY <1>1, RankGrows
<1>3. \A row \in decrypting[c] : row[1] \in Msgs
  BY DEF ScreenInv, ScreenTypeOK
<1>4. \A s : Rank(s) \in 0 .. 3
  BY RankIsNat
<1>5. /\ Rank(screen[c][m]) <= Rank(status[m]) /\ Rank(reply[c][m]) <= Rank(status[m])
      /\ \A row \in decrypting[c] : Rank(row[2]) <= Rank(status[row[1]])
  BY DEF ScreenInv, ScreenTruthful
<1>6. Rank("none") = 0
  BY DEF Rank
<1>7. \A row \in decrypting[c] : Rank(row[2]) <= Rank(status'[row[1]])
  BY <1>2, <1>3, <1>4, <1>5
<1> QED BY <1>2, <1>4, <1>5, <1>6, <1>7

LEMMA PageTruthful ==
  ASSUME ScreenInv, [ScreenNext]_allVars, NEW c \in Conns, PageStep(c)
  PROVE  ScreenTruthful'
<1> USE DEF ScreenTruthful
<1>0. /\ ReceiptInv /\ ScreenTypeOK
      /\ \A d \in Conns : screen[d] \in [Msgs -> Statuses] /\ reply[d] \in [Msgs -> Statuses]
                         /\ decrypting[d] \subseteq Msgs \X Statuses
      /\ status \in [Msgs -> Statuses]
  BY DEF ScreenInv, ScreenTypeOK, ReceiptInv, TypeOK
<1>1. CASE Receive(c)
  <2> DEFINE ev == Head(sendq[c])
  <2>1. ev \in Events /\ Truthful(ev) /\ UNCHANGED status
    BY <1>0, <1>1, ReceivedEvents DEF Receive
  <2>2. \A m \in ev.ids : m \in Msgs /\ Rank(ev.status) <= Rank(status'[m])
    BY <2>1 DEF Events, Truthful
  <2>3. UNCHANGED <<page, reply>>
    BY <1>1 DEF Receive
  <2>4. CASE decrypting' = [decrypting EXCEPT ![c] = @ \cup (ev.ids \X {ev.status})] /\ UNCHANGED screen
    <3>1. \A d \in Conns : \A row \in decrypting'[d] : Rank(row[2]) <= Rank(status'[row[1]])
      BY <2>2, <2>4, StillBehind DEF ScreenInv, ScreenTypeOK
    <3> QED BY <2>3, <2>4, <3>1, StillBehind
  <2>5. CASE screen' = [screen EXCEPT ![c] = MergeMessages(@,
                         [m \in Msgs |-> IF m \in ev.ids THEN ev.status ELSE "none"])]
             /\ UNCHANGED decrypting
    <3> DEFINE rows == [m \in Msgs |-> IF m \in ev.ids THEN ev.status ELSE "none"]
    <3>1. \A m \in Msgs : Rank(rows[m]) <= Rank(status'[m])
      BY <2>2, StillBehind
    <3>2. \A m \in Msgs : Rank(MergeMessages(screen[c], rows)[m]) <= Rank(status'[m])
      <4> HIDE DEF rows
      <4> QED BY <3>1, MergeTruthful, StillBehind
    <3>3. \A d \in Conns, m \in Msgs : Rank(screen'[d][m]) <= Rank(status'[m])
      BY <2>5, <3>2, StillBehind DEF ScreenInv, ScreenTypeOK
    <3> QED BY <2>3, <2>5, <3>3, StillBehind
  <2>6. CASE screen' = [screen EXCEPT ![c] = [m \in Msgs |->
                         IF m \in ev.ids /\ @[m] # "none"
                         THEN AdvanceStatus(@[m], ev.status) ELSE @[m]]]
             /\ UNCHANGED decrypting
    <3>1. \A m \in Msgs : m \in ev.ids =>
            Rank(AdvanceStatus(screen[c][m], ev.status)) <= Rank(status'[m])
      BY <2>2, StillBehind DEF AdvanceStatus
    <3>2. \A d \in Conns, m \in Msgs : Rank(screen'[d][m]) <= Rank(status'[m])
      BY <1>0, <2>6, <3>1, StillBehind DEF ScreenInv, ScreenTypeOK
    <3> QED BY <2>3, <2>6, <3>2, StillBehind
  <2> QED BY <1>1, <2>4, <2>5, <2>6 DEF Receive
<1>2. CASE Materialised(c)
  <2>1. PICK row \in decrypting[c] :
          /\ screen' = [screen EXCEPT ![c] = MergeMessages(@,
                          [m \in Msgs |-> IF m = row[1] THEN row[2] ELSE "none"])]
          /\ decrypting' = [decrypting EXCEPT ![c] = @ \ {row}]
    BY <1>2 DEF Materialised
  <2> DEFINE rows == [m \in Msgs |-> IF m = row[1] THEN row[2] ELSE "none"]
  <2>2. \A m \in Msgs : Rank(rows[m]) <= Rank(status'[m])
    BY StillBehind
  <2>3. \A m \in Msgs : Rank(MergeMessages(screen[c], rows)[m]) <= Rank(status'[m])
    <3> HIDE DEF rows
    <3> QED BY <2>2, MergeTruthful, StillBehind
  <2>4. \A d \in Conns, m \in Msgs : Rank(screen'[d][m]) <= Rank(status'[m])
    BY <2>1, <2>3, StillBehind DEF ScreenInv, ScreenTypeOK
  <2>5. \A d \in Conns : decrypting'[d] \subseteq decrypting[d]
    BY <2>1 DEF ScreenInv, ScreenTypeOK
  <2> QED BY <1>2, <2>4, <2>5, StillBehind DEF Materialised
<1>3. CASE OnOpen(c)
  BY <1>3, StillBehind DEF OnOpen
<1>4. CASE LoadMarksSeen(c)
  BY <1>4, StillBehind DEF LoadMarksSeen
<1>5. CASE LoadSelects(c)
  <2>1. UNCHANGED status
    BY <1>5 DEF LoadSelects, vars, database
  <2>2. \A d \in Conns, m \in Msgs : Rank(reply'[d][m]) <= Rank(status'[m])
    BY <1>5, <2>1, RankIsNat, StillBehind DEF LoadSelects, ScreenInv, ScreenTypeOK
  <2> QED BY <1>5, <2>2, StillBehind DEF LoadSelects
<1>6. CASE LoadMerges(c)
  <2>1. \A m \in Msgs : Rank(MergeMessages(screen[c], reply[c])[m]) <= Rank(status'[m])
    BY MergeTruthful, StillBehind
  <2>2. \A d \in Conns, m \in Msgs : Rank(screen'[d][m]) <= Rank(status'[m])
    BY <1>6, <2>1, StillBehind DEF LoadMerges, ScreenInv, ScreenTypeOK
  <2>3. \A d \in Conns, m \in Msgs : Rank(reply'[d][m]) <= Rank(status'[m])
    BY <1>6, StillBehind DEF LoadMerges, NoRows, ScreenInv, ScreenTypeOK
  <2> QED BY <1>6, <2>2, <2>3, StillBehind DEF LoadMerges
<1> QED BY <1>1, <1>2, <1>3, <1>4, <1>5, <1>6 DEF PageStep

LEMMA ScreenInvStep == ASSUME ScreenInv, [ScreenNext]_allVars PROVE ScreenInv'
<1>1. [Next]_vars
  BY ScreenStepIsServerStep
<1>2. ReceiptInv'
  BY <1>1, StepTypes, StepTasksTruthful, StepHubTruthful, StepQueuesTruthful
     DEF ScreenInv, ReceiptInv
<1>3. ScreenTypeOK'
  BY ScreenStepTypes DEF ScreenInv
<1>4. ASSUME UNCHANGED screenVars PROVE ScreenTruthful'
  BY <1>4, StillBehind DEF screenVars, ScreenTruthful
<1>5. ScreenTruthful'
  BY <1>4, PageTruthful DEF ScreenNext, allVars
<1> QED BY <1>2, <1>3, <1>5 DEF ScreenInv

LEMMA ScreenInvHolds == ScreenSpec => []ScreenInv
<1>1. ASSUME ScreenInit PROVE ScreenInv
  <2>1. ReceiptInv
    <3>1. TypeOK
      BY <1>1, InitTypes DEF ScreenInit
    <3>2. TasksTruthful /\ HubTruthful /\ NoFalseReceipt
      BY <1>1 DEF ScreenInit, Init, TasksTruthful, HubTruthful, IdleTask, IdleHub, NoFalseReceipt, EventsIn
    <3> QED BY <3>1, <3>2 DEF ReceiptInv
  <2>2. ScreenTypeOK
    BY <1>1 DEF ScreenInit, ScreenTypeOK, NoRows, Statuses
  <2>3. ScreenTruthful
    BY <1>1, RankIsNat DEF ScreenInit, ScreenTruthful, NoRows, Rank
  <2> QED BY <2>1, <2>2, <2>3 DEF ScreenInv
<1>2. ScreenInv /\ [ScreenNext]_allVars => ScreenInv'
  BY ScreenInvStep
<1> QED BY <1>1, <1>2, PTL DEF ScreenSpec

\* Screens, replies and messages being decrypted keep their types, and only a page with a
\* reply holds rows (useChat.js).
THEOREM ScreenTypes == ScreenSpec => []ScreenTypeOK
<1>1. ScreenInv => ScreenTypeOK
  BY DEF ScreenInv
<1> QED BY <1>1, ScreenInvHolds, PTL

\* No page shows a message the database does not hold, or a receipt ahead of its row, in
\* whatever order events, decryption and refetches come (useChat.js:117, 204).
THEOREM ScreensAreTruthful == ScreenSpec => []ScreenTruthful
<1>1. ScreenInv => ScreenTruthful
  BY DEF ScreenInv
<1> QED BY <1>1, ScreenInvHolds, PTL
===============================================================================
