-------------------------------- MODULE Calls --------------------------------
(***************************************************************************)
(* Voice calls in a chat of two people: the CallManager of every signed-in *)
(* page and the relay of the server (internal/websocket/calls.go).  Most   *)
(* methods await the microphone, the ICE servers or the browser's WebRTC   *)
(* stack and then go on with whatever this.state and this.pc have become;  *)
(* each await is a step of its own.  WebRTC and its call_ice candidates    *)
(* are external: a pair of connections that have each other's description  *)
(* may connect or fail at any time.                                        *)
(***************************************************************************)
EXTENDS Naturals, Sequences

CONSTANTS
  Devices,     \* signed-in pages
  Owner,       \* whose page a device is
  MaxCalls,    \* bound: calls placed, hence call ids
  MaxPcs,      \* bound: peer connections made
  MaxDrops,    \* bound: times a device loses its socket or signs out
  MaxToggles   \* bound: presses of the mute button

None == 0   \* no device, call or connection

ASSUME CallAssumption ==
  /\ None \notin Devices
  /\ MaxCalls \in Nat /\ MaxPcs \in Nat /\ MaxDrops \in Nat /\ MaxToggles \in Nat

VARIABLES
  dev,         \* fields of each CallManager
  todo,        \* its suspended start() and accept() calls, per await
  pcs,         \* every RTCPeerConnection made, with the operation in progress
  made,        \* how many were made
  wire,        \* wire[s][d]: signalling of s on its way to d, in order
  online,      \* devices with a socket, listening
  placed,      \* calls placed so far
  drops, toggles,
  quit,        \* history: calls some page gave up or nobody could hear
  accepted,    \* history: the calls a device's user accepted
  overtaken    \* history: devices whose call ended inside one of its awaits

vars == <<dev, todo, pcs, made, wire, online, placed, drops, toggles,
          quit, accepted, overtaken>>
history == <<quit, accepted, overtaken>>

Calls == 1 .. MaxCalls
Pcs == 1 .. MaxPcs
Phases == {"idle", "outgoing", "ringing", "incoming", "connecting", "active", "ended"}
Timers == {"ring", "incoming", "connect"}
Awaits == {"startMic", "startIce", "acceptMic", "acceptIce"}
Kinds == {"offer", "ringing", "answer", "reject", "busy", "end", "unavailable"}

\* pc and for: the connection that wrote the description and the one it answers.
Message == [type : Kinds, call : Calls, pc : Pcs \cup {None}, for : Pcs \cup {None}]
Offer == [call : Calls \cup {None}, pc : Pcs \cup {None}]
NoOffer == [call |-> None, pc |-> None]
Manager == [phase : Phases, call : Calls \cup {None}, outgoing : BOOLEAN,
            muted : BOOLEAN, eager : BOOLEAN, remoteSet : BOOLEAN,
            track : {"none", "on", "off"}, leak : BOOLEAN,
            pc : Pcs \cup {None}, offer : Offer,
            timer : Timers \cup {"none"}, strays : SUBSET Timers]
Connection == [owner : Devices, remote : Pcs \cup {None}, open : BOOLEAN,
               op : {"none", "offer", "answer", "remote"},
               conn : {"new", "connected", "failed"}]
Unmade == [owner |-> None, remote |-> None, open |-> FALSE, op |-> "none", conn |-> "new"]

CallTypeOK ==
  /\ dev \in [Devices -> Manager]
  /\ todo \in [Devices -> [Awaits -> Nat]]
  /\ made \in 0 .. MaxPcs
  /\ pcs \in [Pcs -> Connection \cup {Unmade}]
  /\ \A p \in Pcs : (p \in 1 .. made) <=> (pcs[p] \in Connection)
  /\ wire \in [Devices -> [Devices -> Seq(Message)]]
  /\ online \in SUBSET Devices
  /\ placed \in 0 .. MaxCalls /\ drops \in 0 .. MaxDrops /\ toggles \in 0 .. MaxToggles
  /\ quit \in SUBSET Calls
  /\ accepted \in [Devices -> SUBSET Calls]
  /\ overtaken \in SUBSET Devices

NoTasks == [a \in Awaits |-> 0]

Init ==
  /\ dev = [d \in Devices |->
       [phase |-> "idle", call |-> None, outgoing |-> FALSE, muted |-> FALSE,
        eager |-> FALSE, remoteSet |-> FALSE, track |-> "none", leak |-> FALSE,
        pc |-> None, offer |-> NoOffer, timer |-> "none", strays |-> {}]]
  /\ todo = [d \in Devices |-> NoTasks]
  /\ pcs = [p \in Pcs |-> Unmade]
  /\ made = 0
  /\ wire = [s \in Devices |-> [d \in Devices |-> << >>]]
  /\ online \in SUBSET Devices
  /\ placed = 0 /\ drops = 0 /\ toggles = 0
  /\ quit = {} /\ accepted = [d \in Devices |-> {}] /\ overtaken = {}

-----------------------------------------------------------------------------
\* The relay (handleCallEvent).

Theirs(d) == {e \in Devices : Owner[e] # Owner[d]}
Siblings(d) == {e \in Devices : Owner[e] = Owner[d]}

Post(w, d, to, m) ==
  [w EXCEPT ![d] = [e \in Devices |-> IF e \in to THEN Append(@[e], m) ELSE @[e]]]

\* Everything goes to both people, on every device they have connected (the
\* sender drops its own echo); an offer nobody could hear comes back.
Relay(w, d, m) ==
  IF d \notin online THEN w
  ELSE IF m.type = "offer" /\ Theirs(d) \cap online = {}
       THEN Post(w, d, Siblings(d) \cap online, [m EXCEPT !.type = "unavailable"])
       ELSE Post(w, d, online \ {d}, m)

\* Mutant of Send: sends without a call too.
SendUnguarded(w, d, type, pc, for) ==
  Relay(w, d, [type |-> type, call |-> dev[d].call, pc |-> pc, for |-> for])

\* send(): nothing without a call.
Send(w, d, type, pc, for) ==
  IF dev[d].call = None THEN w
  ELSE Relay(w, d, [type |-> type, call |-> dev[d].call, pc |-> pc, for |-> for])

-----------------------------------------------------------------------------
\* The manager's own helpers, on its fields.

Busy(s) == s.phase \notin {"idle", "ended"}

\* teardown: the microphone and this.pc, whatever they are by now.
Teardown(s) == [s EXCEPT !.track = "none", !.pc = None]

\* reset: what start() and an offer begin with.
Reset(s) == [Teardown(s) EXCEPT !.timer = "none", !.remoteSet = FALSE, !.offer = NoOffer]

InitialState(s) == [s EXCEPT !.phase = "idle", !.call = None, !.outgoing = FALSE,
                             !.muted = FALSE, !.eager = FALSE]

\* Mutant of Finish: the call ends without teardown().
FinishOnly(s) == IF Busy(s) THEN [s EXCEPT !.timer = "none", !.phase = "ended"] ELSE s

\* finish().
Finish(s) ==
  IF Busy(s) THEN [Teardown(s) EXCEPT !.timer = "none", !.phase = "ended"] ELSE s

\* this.timeout = setTimeout(...): a timer that was not cleared keeps running.
SetTimeout(s, t) ==
  [s EXCEPT !.timer = t, !.strays = IF s.timer = "none" THEN @ ELSE @ \cup {s.timer}]
ClearTimeout(s) == [s EXCEPT !.timer = "none"]

CloseIn(table, p) ==
  IF p = None THEN table
  ELSE [table EXCEPT ![p] = [@ EXCEPT !.open = FALSE, !.op = "none"]]

Moved(d, from, to) == [todo EXCEPT ![d][from] = @ - 1, ![d][to] = @ + 1]
Dropped(d, from) == [todo EXCEPT ![d][from] = @ - 1]

\* finish(), of a device whose fields are s, after sending w.
Finishes(d, s, w, table) ==
  /\ wire' = w
  /\ dev' = [dev EXCEPT ![d] = Finish(s)]
  /\ pcs' = IF Busy(s) THEN CloseIn(table, s.pc) ELSE table
  /\ overtaken' = IF Busy(s) /\ todo'[d] # NoTasks THEN overtaken \cup {d} ELSE overtaken
  /\ UNCHANGED accepted

Quits(d) == quit' = IF dev[d].call = None THEN quit ELSE quit \cup {dev[d].call}

-----------------------------------------------------------------------------
\* What the person does.

\* start(), from the call button of a chat.
Start(d) ==
  /\ ~Busy(dev[d])
  /\ placed < MaxCalls
  /\ placed' = placed + 1
  /\ dev' = [dev EXCEPT ![d] = [InitialState(Reset(@)) EXCEPT
                !.phase = "outgoing", !.outgoing = TRUE, !.call = placed + 1]]
  /\ pcs' = CloseIn(pcs, dev[d].pc)
  /\ todo' = [todo EXCEPT ![d]["startMic"] = @ + 1]
  /\ UNCHANGED <<made, wire, online, drops, toggles, history>>

\* accept(): the timer of the offer keeps running.
Accept(d) ==
  /\ dev[d].phase = "incoming"
  /\ dev[d].offer # NoOffer
  /\ dev' = [dev EXCEPT ![d].phase = "connecting"]
  /\ todo' = [todo EXCEPT ![d]["acceptMic"] = @ + 1]
  /\ accepted' = [accepted EXCEPT ![d] = @ \cup {dev[d].call}]
  /\ UNCHANGED <<pcs, made, wire, online, placed, drops, toggles, quit, overtaken>>

\* hangUp(), which declines a call that is still ringing.
HangUpMessage(d) == IF dev[d].phase = "incoming" THEN "reject" ELSE "end"

HangUp(d) ==
  /\ Busy(dev[d])
  /\ UNCHANGED <<todo, made, online, placed, drops, toggles>>
  /\ Quits(d)
  /\ Finishes(d, dev[d], Send(wire, d, HangUpMessage(d), None, None), pcs)

\* Mutant of ToggleMute: only a conversation that is on is really muted.
ToggleMuteLater(d) ==
  /\ Busy(dev[d]) /\ dev[d].phase # "incoming"
  /\ toggles < MaxToggles
  /\ toggles' = toggles + 1
  /\ dev' = [dev EXCEPT ![d] =
       [dev[d] EXCEPT !.muted = ~@, !.eager = @ \/ dev[d].track = "none",
                      !.track = IF dev[d].phase = "active" THEN "off" ELSE @]]
  /\ UNCHANGED <<todo, pcs, made, wire, online, placed, drops, history>>

\* toggleMute(): only acts on a microphone that is already there.
ToggleMute(d) ==
  /\ Busy(dev[d]) /\ dev[d].phase # "incoming"
  /\ toggles < MaxToggles
  /\ toggles' = toggles + 1
  /\ dev' = [dev EXCEPT ![d] =
       [dev[d] EXCEPT !.muted = ~@,
                      !.eager = @ \/ dev[d].track = "none",
                      !.track = CASE @ = "none" -> "none"
                                  [] @ # "none" /\ dev[d].muted -> "on"
                                  [] OTHER -> "off"]]
  /\ UNCHANGED <<todo, pcs, made, wire, online, placed, drops, history>>

-----------------------------------------------------------------------------
\* The continuations.

\* The catch of start() and accept(); s and table as they are by then.
Catch(d, s, table) ==
  /\ Quits(d)
  /\ Finishes(d, s, Send(wire, d, "end", None, None), table)

\* getUserMedia: this.local is replaced, whatever it held.
MicGranted(d, mic, ice) ==
  /\ todo[d][mic] > 0
  /\ todo' = Moved(d, mic, ice)
  /\ dev' = [dev EXCEPT ![d] =
       [dev[d] EXCEPT !.leak = @ \/ dev[d].track # "none", !.track = "on"]]
  /\ UNCHANGED <<pcs, made, wire, online, placed, drops, toggles, history>>

\* The microphone is refused, or the ICE servers cannot be fetched.
PeerFails(d, await) ==
  /\ todo[d][await] > 0
  /\ todo' = Dropped(d, await)
  /\ UNCHANGED <<made, online, placed, drops, toggles>>
  /\ Catch(d, dev[d], pcs)

\* The ICE servers arrive: createPeer() goes on with this.local, accept() with
\* this.pendingOffer; without them it throws, the connection already made.
IceArrives(d, await, usable, op, remote) ==
  LET p == made + 1
      s == [dev[d] EXCEPT !.pc = p]
      opened == [owner |-> d, remote |-> None, open |-> TRUE, op |-> "none", conn |-> "new"]
  IN
  /\ todo[d][await] > 0
  /\ made < MaxPcs
  /\ made' = p
  /\ todo' = Dropped(d, await)
  /\ UNCHANGED <<online, placed, drops, toggles>>
  /\ \/ /\ dev[d].track # "none" /\ usable
        /\ dev' = [dev EXCEPT ![d] = s]
        /\ pcs' = [pcs EXCEPT ![p] = [opened EXCEPT !.op = op, !.remote = remote]]
        /\ UNCHANGED <<wire, history>>
     \/ /\ dev[d].track = "none" \/ ~usable
        /\ Catch(d, s, [pcs EXCEPT ![p] = opened])

StartIce(d) == IceArrives(d, "startIce", TRUE, "offer", None)
AcceptIce(d) ==
  IceArrives(d, "acceptIce", dev[d].offer # NoOffer, "answer", dev[d].offer.pc)

\* The offer is in place and goes out, under the call the page is in by now.
\* Another connection may have replaced this.pc before setLocalDescription was
\* called on it, which then throws.
OfferReady(p) ==
  LET d == pcs[p].owner
      idle == [pcs EXCEPT ![p].op = "none"]
  IN
  /\ pcs[p].op = "offer"
  /\ UNCHANGED <<todo, made, online, placed, drops, toggles>>
  /\ \/ /\ wire' = Send(wire, d, "offer", p, None)
        /\ dev' = [dev EXCEPT ![d] = SetTimeout(@, "ring")]
        /\ pcs' = idle
        /\ UNCHANGED history
     \/ /\ dev[d].pc # p
        /\ Catch(d, dev[d], idle)

\* The answer goes out, unless this.pc was replaced on the way.
AnswerReady(p) ==
  LET d == pcs[p].owner
      idle == [pcs EXCEPT ![p].op = "none"]
      s == [dev[d] EXCEPT !.remoteSet = TRUE]
  IN
  /\ pcs[p].op = "answer"
  /\ UNCHANGED <<todo, made, online, placed, drops, toggles>>
  /\ \/ /\ dev[d].pc = p
        /\ wire' = Send(wire, d, "answer", p, pcs[p].remote)
        /\ dev' = [dev EXCEPT ![d] = SetTimeout(ClearTimeout(s), "connect")]
        /\ pcs' = idle
        /\ UNCHANGED history
     \/ /\ dev[d].pc # p
        /\ Catch(d, s, idle)

\* Mutant of Answered: the timer of the connection is not armed.
AnsweredUntimed(s) == ClearTimeout([s EXCEPT !.remoteSet = TRUE])

\* The end of the call_answer handler.
Answered(s) == SetTimeout(ClearTimeout([s EXCEPT !.remoteSet = TRUE]), "connect")

RemoteSet(p) ==
  LET d == pcs[p].owner IN
  /\ pcs[p].op = "remote"
  /\ pcs' = [pcs EXCEPT ![p].op = "none"]
  /\ dev' = [dev EXCEPT ![d] = Answered(@)]
  /\ UNCHANGED <<todo, made, wire, online, placed, drops, toggles, history>>

-----------------------------------------------------------------------------
\* Timers and the browser's events.

\* What a timer still applies to.
Due(s, t) ==
  \/ t = "ring" /\ s.phase \in {"outgoing", "ringing"}
  \/ t = "incoming" /\ s.phase = "incoming"
  \/ t = "connect" /\ s.phase = "connecting"

Timeout(d, t) ==
  LET s == IF dev[d].timer = t THEN ClearTimeout(dev[d])
           ELSE [dev[d] EXCEPT !.strays = @ \ {t}]
  IN
  /\ t = dev[d].timer \/ t \in dev[d].strays
  /\ UNCHANGED <<todo, made, online, placed, drops, toggles>>
  /\ \/ /\ ~Due(s, t)
        /\ dev' = [dev EXCEPT ![d] = s]
        /\ UNCHANGED <<pcs, wire, history>>
     \/ /\ Due(s, t) /\ t = "incoming"
        /\ Finishes(d, s, wire, pcs)
        /\ UNCHANGED quit
     \/ /\ Due(s, t) /\ t # "incoming"
        /\ Catch(d, s, pcs)

\* The end timer of finish().
EndTimer(d) ==
  /\ dev[d].phase = "ended"
  /\ dev' = [dev EXCEPT ![d] = InitialState(@)]
  /\ UNCHANGED <<todo, pcs, made, wire, online, placed, drops, toggles, history>>

\* What the handlers read: the state of this.pc, whichever connection changed.
ConnectionState(d, table) == IF dev[d].pc = None THEN "none" ELSE table[dev[d].pc].conn

\* onconnectionstatechange of p.
Connects(p) ==
  LET q == pcs[p].remote
      d == pcs[p].owner
      after == [pcs EXCEPT ![p].conn = "connected"]
  IN
  /\ pcs[p].open /\ q # None /\ pcs[p].conn = "new"
  /\ pcs[q].open /\ pcs[q].remote = p
  /\ pcs' = after
  /\ dev' = IF ConnectionState(d, after) = "connected" /\ dev[d].phase # "active"
            THEN [dev EXCEPT ![d] = [ClearTimeout(@) EXCEPT !.phase = "active"]]
            ELSE dev
  /\ UNCHANGED <<todo, made, wire, online, placed, drops, toggles, history>>

ConnectionFails(p) ==
  LET d == pcs[p].owner
      after == [pcs EXCEPT ![p].conn = "failed"]
  IN
  /\ pcs[p].open /\ pcs[p].remote # None /\ pcs[p].conn # "failed"
  /\ UNCHANGED <<todo, made, online, placed, drops, toggles>>
  /\ \/ /\ ConnectionState(d, after) = "failed"
        /\ Catch(d, dev[d], after)
     \/ /\ ConnectionState(d, after) # "failed"
        /\ pcs' = after
        /\ UNCHANGED <<dev, wire, history>>

-----------------------------------------------------------------------------
\* Signalling arrives (onSocket).

\* Mutants of Reaction: calls are not told apart; an offer is taken in the middle
\* of a call; a page rings for its user's own call.
ReactionToAnyCall(s, m, mine) ==
  CASE m.type = "offer" -> IF mine THEN "ignore" ELSE IF Busy(s) THEN "busy" ELSE "ring"
    [] m.type = "ringing" -> IF s.phase = "outgoing" /\ ~mine THEN "ringing" ELSE "ignore"
    [] m.type = "answer" -> IF s.outgoing /\ ~s.remoteSet /\ ~mine THEN "answered" ELSE "ignore"
    [] OTHER -> IF ~mine THEN "finish" ELSE "ignore"
ReactionNeverBusy(s, m, mine) ==
  CASE m.type = "offer" /\ ~mine -> "ring"
    [] m.type # "offer" /\ m.call = s.call /\ m.type = "end" /\ ~mine -> "finish"
    [] OTHER -> "ignore"
ReactionToOwn(s, m, mine) ==
  CASE m.type = "offer" -> IF Busy(s) THEN "busy" ELSE "ring"
    [] m.type # "offer" /\ m.call # s.call -> "ignore"
    [] m.type = "answer" /\ m.call = s.call /\ s.outgoing /\ ~s.remoteSet -> "answered"
    [] m.type = "end" /\ m.call = s.call -> "finish"
    [] OTHER -> "ignore"

\* What a manager makes of a message, mine if from another page of its user.
Reaction(s, m, mine) ==
  CASE m.type = "offer" /\ ~mine -> IF Busy(s) THEN "busy" ELSE "ring"
    [] m.type = "offer" /\ mine -> "ignore"
    [] m.type # "offer" /\ m.call # s.call -> "ignore"
    [] m.type # "offer" /\ m.call = s.call /\ mine ->
         IF s.phase = "incoming" /\ m.type \in {"answer", "reject"} THEN "finish" ELSE "ignore"
    [] OTHER ->
         CASE m.type = "ringing" -> IF s.phase = "outgoing" THEN "ringing" ELSE "ignore"
           [] m.type = "answer" -> IF s.outgoing /\ ~s.remoteSet THEN "answered" ELSE "ignore"
           [] m.type = "end" -> "finish"
           [] OTHER -> IF s.outgoing THEN "finish" ELSE "ignore"

\* The next message from s to d and what d makes of it.
Msg(s, d) == Head(wire[s][d])
Hears(s, d, reaction) ==
  /\ wire[s][d] # << >>
  /\ Reaction(dev[d], Msg(s, d), Owner[s] = Owner[d] /\ Msg(s, d).type # "unavailable") = reaction
Taken(s, d) == [wire EXCEPT ![s][d] = Tail(@)]

\* An offer while another call is on: it is told so, whoever else may answer.
HearsBusy(s, d) ==
  /\ Hears(s, d, "busy")
  /\ wire' = Relay(Taken(s, d), d,
                [type |-> "busy", call |-> Msg(s, d).call, pc |-> None, for |-> None])
  /\ quit' = quit \cup {Msg(s, d).call}
  /\ UNCHANGED <<dev, todo, pcs, made, online, placed, drops, toggles, accepted, overtaken>>

HearsOffer(s, d) ==
  LET m == Msg(s, d) IN
  /\ Hears(s, d, "ring")
  /\ dev' = [dev EXCEPT ![d] = SetTimeout([InitialState(Reset(@)) EXCEPT
                !.phase = "incoming", !.call = m.call,
                !.offer = [call |-> m.call, pc |-> m.pc]], "incoming")]
  /\ pcs' = CloseIn(pcs, dev[d].pc)
  /\ wire' = Relay(Taken(s, d), d,
                [type |-> "ringing", call |-> m.call, pc |-> None, for |-> None])
  /\ UNCHANGED <<todo, made, online, placed, drops, toggles, history>>

HearsRinging(s, d) ==
  /\ Hears(s, d, "ringing")
  /\ wire' = Taken(s, d)
  /\ dev' = [dev EXCEPT ![d].phase = "ringing"]
  /\ UNCHANGED <<todo, pcs, made, online, placed, drops, toggles, history>>

\* Without a connection there is nothing to set; one that waits for its answer
\* takes it, any other refuses and the handler stops there.
HearsAnswer(s, d) ==
  LET m == Msg(s, d)
      p == dev[d].pc
      waiting == [ClearTimeout(dev[d]) EXCEPT !.phase = "connecting"]
  IN
  /\ Hears(s, d, "answered")
  /\ wire' = Taken(s, d)
  /\ \/ /\ p = None
        /\ dev' = [dev EXCEPT ![d] = Answered(waiting)]
        /\ UNCHANGED pcs
     \/ /\ p # None
        /\ dev' = [dev EXCEPT ![d] = waiting]
        /\ pcs' = IF pcs[p].remote = None /\ pcs[p].op = "none"
                  THEN [pcs EXCEPT ![p] = [@ EXCEPT !.remote = m.pc, !.op = "remote"]]
                  ELSE pcs
  /\ UNCHANGED <<todo, made, online, placed, drops, toggles, history>>

HearsEnd(s, d) ==
  /\ Hears(s, d, "finish")
  /\ UNCHANGED <<todo, made, online, placed, drops, toggles>>
  /\ quit' = IF Msg(s, d).type = "unavailable" THEN quit \cup {Msg(s, d).call} ELSE quit
  /\ Finishes(d, dev[d], Taken(s, d), pcs)

HearsNothing(s, d) ==
  /\ Hears(s, d, "ignore")
  /\ wire' = Taken(s, d)
  /\ UNCHANGED <<dev, todo, pcs, made, online, placed, drops, toggles, history>>

Hear(s, d) ==
  \/ HearsBusy(s, d) \/ HearsOffer(s, d) \/ HearsRinging(s, d)
  \/ HearsAnswer(s, d) \/ HearsEnd(s, d) \/ HearsNothing(s, d)

-----------------------------------------------------------------------------
\* Sockets come and go.

Unplugged(w, d) == [s \in Devices |-> [w[s] EXCEPT ![d] = << >>]]

\* The socket is lost: what was on its way is gone.
Disconnect(d) ==
  /\ d \in online /\ drops < MaxDrops
  /\ online' = online \ {d} /\ drops' = drops + 1
  /\ wire' = Unplugged(wire, d)
  /\ UNCHANGED <<dev, todo, pcs, made, placed, toggles, history>>

\* Signing out: detach() hangs up, then the socket is stopped.
Detach(d) ==
  /\ d \in online /\ drops < MaxDrops
  /\ online' = online \ {d} /\ drops' = drops + 1
  /\ UNCHANGED <<todo, made, placed, toggles>>
  /\ \/ /\ Busy(dev[d])
        /\ Quits(d)
        /\ Finishes(d, dev[d], Unplugged(Send(wire, d, HangUpMessage(d), None, None), d), pcs)
     \/ /\ ~Busy(dev[d])
        /\ wire' = Unplugged(wire, d)
        /\ UNCHANGED <<dev, pcs, history>>

Connect(d) ==
  /\ d \notin online
  /\ online' = online \cup {d}
  /\ UNCHANGED <<dev, todo, pcs, made, wire, placed, drops, toggles, history>>

User(d) == Start(d) \/ Accept(d) \/ HangUp(d) \/ ToggleMute(d)

Continue(d) ==
  \/ MicGranted(d, "startMic", "startIce") \/ MicGranted(d, "acceptMic", "acceptIce")
  \/ \E a \in Awaits : PeerFails(d, a)
  \/ StartIce(d) \/ AcceptIce(d)

Negotiate(p) == OfferReady(p) \/ AnswerReady(p) \/ RemoteSet(p)

\* What happens by itself: the browser answers, its timers run out, and
\* messages that are not lost are handled.
Machine ==
  \/ \E d \in Devices :
       \/ Continue(d) \/ EndTimer(d)
       \/ \E t \in Timers : Timeout(d, t)
       \/ \E s \in Devices : Hear(s, d)
  \/ \E p \in 1 .. made : Negotiate(p)

Next ==
  \/ Machine
  \/ \E d \in Devices : User(d) \/ Disconnect(d) \/ Detach(d) \/ Connect(d)
  \/ \E p \in 1 .. made : Connects(p) \/ ConnectionFails(p)

\* Nobody has to pick up and no connection has to come about.  Calls, messages
\* and timers are finite in number, so no part of Machine can starve another.
Fairness == WF_vars(Machine)

Spec == Init /\ [][Next]_vars
FairSpec == Spec /\ Fairness

-----------------------------------------------------------------------------
\* Between calls no microphone is open and no connection is left behind
\* (teardown), unless the call ended inside an await of start() or accept().
NothingLeftOpen ==
  \A d \in Devices \ overtaken :
    /\ ~dev[d].leak
    /\ ~Busy(dev[d]) => dev[d].track = "none" /\ todo[d] = NoTasks
    /\ \A p \in 1 .. made : pcs[p].open /\ pcs[p].owner = d => Busy(dev[d]) /\ dev[d].pc = p

\* A microphone is open only in a call its owner placed or accepted, never
\* while a call merely rings.
Consent ==
  \A d \in Devices \ overtaken :
    dev[d].track # "none" => dev[d].outgoing \/ dev[d].call \in accepted[d]

\* Two pages that talk to each other are in the same call, of two people.
TalkTogether ==
  \A d, e \in Devices \ overtaken :
    /\ dev[d].phase = "active" /\ dev[e].phase = "active"
    /\ pcs[dev[d].pc].remote = dev[e].pc /\ pcs[dev[e].pc].remote = dev[d].pc
    => dev[d].call = dev[e].call /\ Owner[d] # Owner[e]

\* "Muted" is what the microphone is, if it was there when it was muted, unless a call
\* ended inside an await, whose microphone may come on in the next one.
MutedIsSilent ==
  \A d \in Devices \ overtaken :
    dev[d].muted /\ ~dev[d].eager => dev[d].track # "on"

\* A call somebody placed or accepted ends only because some page gave up this
\* very call or nobody could hear it; what is still on its way of an earlier
\* call never ends a later one.
EndsByItsOwn ==
  [][\A d \in Devices :
       /\ Busy(dev[d]) /\ dev[d].phase # "incoming"
       /\ dev'[d].phase = "ended" /\ d \notin overtaken'
       => dev[d].call \in quit']_vars

\* A call that is being placed, rings or connects gets somewhere or is given
\* up, whatever is lost: again and again every page talks or is free.
Settled(d) == ~Busy(dev[d]) \/ dev[d].phase = "active"
Resolves == []<>(\A d \in Devices : Settled(d))
=============================================================================
