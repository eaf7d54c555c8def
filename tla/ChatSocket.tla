----------------------------- MODULE ChatSocket ------------------------------
(***************************************************************************)
(* The reconnecting socket of the web client (services/websocket.js): one  *)
(* object per page whose methods are called by timers, by the browser and  *)
(* by App, and whose connect() is suspended while it waits for a ticket.   *)
(*                                                                         *)
(* Back-off delays and the attempts they depend on are left out: a timer   *)
(* may fire any time after it is set.                                      *)
(***************************************************************************)
EXTENDS Naturals

CONSTANTS
  Sockets,      \* WebSocket objects that may exist at once (bounds the model)
  MaxFailures   \* failed requests, lost sockets and unanswered probes (bound)

NoSocket == "no socket"

ASSUME SocketAssumption == NoSocket \notin Sockets /\ MaxFailures \in Nat

VARIABLES
  started, closing, connecting,  \* the flags of the same names
  ws,          \* this.ws
  readyState,  \* of every socket; one that is "closed" is free for reuse
  silenced,    \* sockets whose onclose was set to null
  requests,    \* connect() calls waiting for their ticket
  reconnect,   \* reconnectTimer: "none", or what it was set for
  heartbeat, pong,  \* heartbeatTimer and pongTimer are set
  status,      \* what subscribers were told ("connecting" is "reconnecting")
  failures,    \* failures so far
  abandoned    \* a socket still CONNECTING was dropped (history variable)

socketVars == <<started, closing, connecting, ws, readyState, silenced, requests,
                reconnect, heartbeat, pong, status, failures, abandoned>>
flags == <<started, closing>>
timers == <<heartbeat, pong>>

SocketTypeOK ==
  /\ started \in BOOLEAN /\ closing \in BOOLEAN /\ connecting \in BOOLEAN
  /\ ws \in Sockets \cup {NoSocket}
  /\ readyState \in [Sockets -> {"connecting", "open", "closing", "closed"}]
  /\ silenced \in SUBSET Sockets
  /\ requests \in Nat
  /\ reconnect \in {"none", "backoff", "now"}
  /\ heartbeat \in BOOLEAN /\ pong \in BOOLEAN
  /\ status \in {"offline", "reconnecting", "online"}
  /\ failures \in Nat
  /\ abandoned \in BOOLEAN

SocketInit ==
  /\ started = FALSE /\ closing = FALSE /\ connecting = FALSE
  /\ ws = NoSocket
  /\ readyState = [w \in Sockets |-> "closed"]
  /\ silenced = {}
  /\ requests = 0
  /\ reconnect = "none"
  /\ heartbeat = FALSE /\ pong = FALSE
  /\ status = "offline"
  /\ failures = 0
  /\ abandoned = FALSE

Failure == failures < MaxFailures /\ failures' = failures + 1

CurrentIs(s) == ws # NoSocket /\ readyState[ws] = s

-----------------------------------------------------------------------------
(* Parts of the methods. *)

\* connect() up to its await.
Connect(isClosing) ==
  IF isClosing \/ connecting \/ CurrentIs("open")
  THEN UNCHANGED <<connecting, requests, status>>
  ELSE /\ connecting' = TRUE
       /\ requests' = requests + 1
       /\ status' = "reconnecting"

\* scheduleReconnect(): a timer that is pending is left alone.
ScheduleReconnect(delay) ==
  reconnect' = IF closing \/ reconnect # "none" THEN reconnect ELSE delay

ClearTimers == heartbeat' = FALSE /\ pong' = FALSE

\* Drops this.ws: its close event will not be noticed any more.
DropSocket ==
  /\ ws' = NoSocket
  /\ silenced' = silenced \cup ({ws} \ {NoSocket})
  /\ readyState' = [w \in Sockets |->
       IF w = ws /\ readyState[w] \in {"connecting", "open"} THEN "closing"
       ELSE readyState[w]]
  /\ abandoned' = (abandoned \/ CurrentIs("connecting"))

\* ping(): one outstanding probe at a time.
Ping == pong' = (pong \/ CurrentIs("open"))

\* stop(): closes what is there; the reconnect timer is left to expire.
StopSocket ==
  /\ started' = FALSE /\ closing' = TRUE
  /\ ClearTimers
  /\ DropSocket
  /\ status' = "offline"

-----------------------------------------------------------------------------
Start ==
  /\ ~started
  /\ started' = TRUE /\ closing' = FALSE
  /\ Connect(FALSE)
  /\ UNCHANGED <<ws, readyState, silenced, reconnect, timers, failures, abandoned>>

\* The user logs out, or any other request finds the session revoked.
Stop ==
  /\ started
  /\ StopSocket
  /\ UNCHANGED <<connecting, requests, reconnect, failures>>

\* onVisibility and onOnline: the page is looked at again.
EnsureAlive ==
  /\ started /\ ~closing
  /\ \/ Ping /\ CurrentIs("open") /\ UNCHANGED reconnect
     \/ /\ ~CurrentIs("open") /\ ~CurrentIs("connecting")
        /\ ScheduleReconnect("now")
        /\ UNCHANGED pong
  /\ UNCHANGED <<flags, connecting, ws, readyState, silenced, requests, heartbeat,
                 status, failures, abandoned>>

\* The ticket request fails, or the socket cannot even be constructed.
TicketFails ==
  /\ requests > 0 /\ Failure
  /\ requests' = requests - 1
  /\ connecting' = FALSE
  /\ ScheduleReconnect("backoff")
  /\ UNCHANGED <<flags, ws, readyState, silenced, timers, status, abandoned>>

\* The request is answered 401: App logs out.
TicketRefused ==
  /\ requests > 0
  /\ requests' = requests - 1
  /\ connecting' = FALSE
  /\ StopSocket
  /\ UNCHANGED <<reconnect, failures>>

\* The rest of connect(): a new socket takes the place of this.ws.
TicketArrives ==
  /\ requests > 0
  /\ requests' = requests - 1
  /\ \/ /\ closing
        /\ connecting' = FALSE
        /\ UNCHANGED <<ws, readyState>>
     \/ /\ ~closing
        /\ \E w \in Sockets :
             /\ readyState[w] = "closed"
             /\ readyState' = [readyState EXCEPT ![w] = "connecting"]
             /\ ws' = w
        /\ UNCHANGED connecting
  /\ UNCHANGED <<flags, silenced, reconnect, timers, status, failures, abandoned>>

\* onopen
SocketOpens(w) ==
  /\ readyState[w] = "connecting"
  /\ readyState' = [readyState EXCEPT ![w] = "open"]
  /\ connecting' = FALSE
  /\ status' = "online"
  /\ heartbeat' = TRUE /\ pong' = FALSE
  /\ UNCHANGED <<flags, ws, silenced, requests, reconnect, failures, abandoned>>

\* The server has sent a close frame; the close event is yet to come.
PeerCloses(w) ==
  /\ Failure
  /\ readyState[w] = "open"
  /\ readyState' = [readyState EXCEPT ![w] = "closing"]
  /\ UNCHANGED <<flags, connecting, ws, silenced, requests, reconnect, timers, status, abandoned>>

\* A socket is gone for good, at once or at the end of its closing handshake.
Gone(w) ==
  /\ \/ readyState[w] = "closing" /\ UNCHANGED failures
     \/ readyState[w] \in {"connecting", "open"} /\ Failure
  /\ readyState' = [readyState EXCEPT ![w] = "closed"]

\* Mutant of OnClose: subscribers are not told.
OnCloseQuietly(w) ==
  /\ w \notin silenced
  /\ Gone(w)
  /\ connecting' = FALSE
  /\ ClearTimers
  /\ ws' = IF ws = w THEN NoSocket ELSE ws
  /\ ScheduleReconnect("backoff")
  /\ UNCHANGED <<flags, silenced, requests, status, abandoned>>

\* Mutant of OnClose: `connecting` is not reset.
OnCloseStillConnecting(w) ==
  /\ w \notin silenced
  /\ Gone(w)
  /\ ClearTimers
  /\ ws' = IF ws = w THEN NoSocket ELSE ws
  /\ status' = IF closing THEN status ELSE "reconnecting"
  /\ ScheduleReconnect("backoff")
  /\ UNCHANGED <<flags, connecting, silenced, requests, abandoned>>

\* onclose
OnClose(w) ==
  /\ w \notin silenced
  /\ Gone(w)
  /\ connecting' = FALSE
  /\ ClearTimers
  /\ ws' = IF ws = w THEN NoSocket ELSE ws
  /\ status' = IF closing THEN status ELSE "reconnecting"
  /\ ScheduleReconnect("backoff")
  /\ UNCHANGED <<flags, silenced, requests, abandoned>>

\* The close event of a socket that was dropped finds no handler.
CloseUnnoticed(w) ==
  /\ w \in silenced
  /\ Gone(w)
  /\ silenced' = silenced \ {w}
  /\ UNCHANGED <<flags, connecting, ws, requests, reconnect, timers, status, abandoned>>

ReconnectTimer ==
  /\ reconnect # "none"
  /\ reconnect' = "none"
  /\ Connect(closing)
  /\ UNCHANGED <<flags, ws, readyState, silenced, timers, failures, abandoned>>

HeartbeatTimer ==
  /\ heartbeat
  /\ Ping
  /\ UNCHANGED <<flags, connecting, ws, readyState, silenced, requests, reconnect,
                 heartbeat, status, failures, abandoned>>

\* A pong arrives, on whichever socket is open.
Pong(w) ==
  /\ pong /\ readyState[w] = "open"
  /\ pong' = FALSE
  /\ UNCHANGED <<flags, connecting, ws, readyState, silenced, requests, reconnect,
                 heartbeat, status, failures, abandoned>>

\* No reply to the probe: forceReconnect.
PongTimer ==
  /\ pong /\ Failure
  /\ IF closing
     THEN pong' = FALSE /\ UNCHANGED <<heartbeat, ws, readyState, silenced, status, reconnect, abandoned>>
     ELSE /\ ClearTimers
          /\ DropSocket
          /\ status' = "reconnecting"
          /\ ScheduleReconnect("now")
  /\ UNCHANGED <<flags, connecting, requests>>

SocketNext ==
  \/ Start \/ Stop \/ EnsureAlive
  \/ TicketFails \/ TicketRefused \/ TicketArrives
  \/ ReconnectTimer \/ HeartbeatTimer \/ PongTimer
  \/ \E w \in Sockets :
       SocketOpens(w) \/ PeerCloses(w) \/ OnClose(w) \/ CloseUnnoticed(w) \/ Pong(w)

\* The ticket request is answered, the timer fires, and handshakes end, which
\* once MaxFailures failures have happened means that they succeed.
SocketSpec == SocketInit /\ [][SocketNext]_socketVars
FairSocketSpec ==
  /\ SocketSpec
  /\ WF_socketVars(TicketArrives) /\ WF_socketVars(ReconnectTimer)
  /\ \A w \in Sockets :
       /\ WF_socketVars(SocketOpens(w))
       /\ WF_socketVars(readyState[w] = "closing" /\ (OnClose(w) \/ CloseUnnoticed(w)))

-----------------------------------------------------------------------------
Live(w) == readyState[w] \in {"connecting", "open", "closing"} /\ w \notin silenced

\* Something is under way that ends in a connection: a socket whose opening or
\* end will be noticed, a request or a timer.
UnderWay ==
  requests > 0 \/ reconnect # "none" \/ \E w \in Sockets : w = ws /\ Live(w)

\* Between start() and stop() the client keeps reconnecting, as the header of
\* websocket.js says.
KeepsTrying == (started /\ ~closing) => UnderWay

\* It does so unless a socket that was still CONNECTING has been dropped, which
\* leaves the flag `connecting` set: no other order of calls stops it.
NeverStranded == abandoned \/ KeepsTrying

\* A running page never says it is online without a socket whose end it would
\* notice, though sockets overlap when connect() runs during a handshake.
OnlineIsTrue ==
  (status = "online" /\ ~closing) =>
    \E w \in Sockets : readyState[w] \in {"open", "closing"} /\ Live(w)

\* After every failure the page has an open socket again, unless it is stopped.
ComesBack == started ~> (CurrentIs("open") \/ ~started \/ abandoned)
=============================================================================
