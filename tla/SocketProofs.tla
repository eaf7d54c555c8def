---------------------------- MODULE SocketProofs -----------------------------
(***************************************************************************)
(* Theorems about ChatSocket: whatever the order in which timers, the      *)
(* browser and App call it, the client keeps trying to connect (unless a   *)
(* socket was dropped while CONNECTING), and "online" is never a claim     *)
(* without a socket.                                                       *)
(***************************************************************************)
EXTENDS ChatSocket, TLAPS

\* A dropped socket is closing; this.ws is neither dropped nor closed.
References ==
  /\ ws # NoSocket => ws \notin silenced /\ readyState[ws] # "closed"
  /\ \A w \in silenced : readyState[w] = "closing"

\* `connecting` is set only while connect() is waiting, for its ticket or for
\* its socket, until a CONNECTING socket is dropped.
ConnectingIsTrue ==
  connecting => requests > 0 \/ CurrentIs("connecting") \/ abandoned

\* Before the first start() nothing is under way.
Fresh ==
  /\ ~connecting /\ requests = 0 /\ reconnect = "none" /\ ~pong
  /\ status = "offline"
  /\ \A w \in Sockets : readyState[w] = "closed"

NotStarted ==
  /\ started => ~closing
  /\ ~started => ws = NoSocket /\ (closing \/ Fresh)
  /\ (closing /\ status = "online") => ~connecting

SocketInv ==
  SocketTypeOK /\ References /\ ConnectingIsTrue /\ NotStarted
  /\ NeverStranded /\ OnlineIsTrue

-----------------------------------------------------------------------------
(* The invariant is inductive: one lemma per group of actions. *)

LEMMA SocketInitially == SocketInit => SocketInv
<1> SUFFICES ASSUME SocketInit PROVE SocketInv
  OBVIOUS
<1>1. SocketTypeOK
  BY DEF SocketInit, SocketTypeOK
<1>2. References /\ ConnectingIsTrue
  BY DEF SocketInit, References, ConnectingIsTrue
<1>3. NotStarted
  BY DEF SocketInit, NotStarted, Fresh
<1>4. NeverStranded /\ OnlineIsTrue
  BY DEF SocketInit, NeverStranded, KeepsTrying, OnlineIsTrue
<1> QED BY <1>1, <1>2, <1>3, <1>4 DEF SocketInv

LEMMA ConnectTypes ==
  ASSUME SocketTypeOK, NEW isClosing, Connect(isClosing)
  PROVE  /\ connecting' \in BOOLEAN /\ requests' \in Nat
         /\ status' \in {"offline", "reconnecting", "online"}
<1>1. CASE UNCHANGED <<connecting, requests, status>>
  BY <1>1 DEF SocketTypeOK
<1>2. CASE connecting' = TRUE /\ requests' = requests + 1 /\ status' = "reconnecting"
  BY <1>2 DEF SocketTypeOK
<1> QED BY <1>1, <1>2 DEF Connect

LEMMA ScheduleTypes ==
  ASSUME SocketTypeOK, NEW delay \in {"backoff", "now"}, ScheduleReconnect(delay)
  PROVE  reconnect' \in {"none", "backoff", "now"}
<1>1. reconnect' = reconnect \/ reconnect' = delay
  BY DEF ScheduleReconnect
<1> QED BY <1>1 DEF SocketTypeOK

\* What start() and stop() do to the flags.
LEMMA LifecycleKeeps ==
  ASSUME SocketInv, Start \/ Stop \/ TicketRefused
  PROVE  SocketInv'
<1>1. CASE Start
  <2>1. SocketTypeOK'
    BY <1>1, ConnectTypes DEF SocketInv, SocketTypeOK, Start, timers
  <2>2. References' /\ ConnectingIsTrue' /\ NotStarted'
    BY <1>1 DEF SocketInv, SocketTypeOK, References, ConnectingIsTrue, Fresh, NotStarted,
                Start, Connect, CurrentIs, timers
  <2>3. NeverStranded' /\ OnlineIsTrue'
    BY <1>1 DEF SocketInv, SocketTypeOK, ConnectingIsTrue, Fresh, NotStarted, NeverStranded,
                KeepsTrying, UnderWay, OnlineIsTrue, Live, Start, Connect, CurrentIs, timers
  <2> QED BY <2>1, <2>2, <2>3 DEF SocketInv
<1>2. CASE Stop \/ TicketRefused
  <2>1. StopSocket
    BY <1>2 DEF Stop, TicketRefused
  <2>2. requests' \in Nat /\ (connecting' => connecting /\ requests' = requests)
    BY <1>2 DEF SocketInv, SocketTypeOK, Stop, TicketRefused
  <2>3. UNCHANGED <<reconnect, failures>> /\ connecting' \in BOOLEAN
    BY <1>2 DEF SocketInv, SocketTypeOK, Stop, TicketRefused
  <2>4. SocketTypeOK'
    BY <2>1, <2>2, <2>3 DEF SocketInv, SocketTypeOK, StopSocket, DropSocket, ClearTimers
  <2>5. References' /\ ConnectingIsTrue' /\ NotStarted'
    BY <2>1, <2>2 DEF SocketInv, SocketTypeOK, References, ConnectingIsTrue, NotStarted,
                      StopSocket, DropSocket, CurrentIs
  <2>6. NeverStranded' /\ OnlineIsTrue'
    BY <2>1 DEF NeverStranded, KeepsTrying, OnlineIsTrue, StopSocket
  <2> QED BY <2>4, <2>5, <2>6 DEF SocketInv
<1> QED BY <1>1, <1>2

\* What the timers, the browser and the pings do.
LEMMA TimersKeep ==
  ASSUME SocketInv,
         \/ EnsureAlive \/ ReconnectTimer \/ HeartbeatTimer
         \/ \E w \in Sockets : Pong(w)
  PROVE  SocketInv'
<1>1. CASE EnsureAlive
  BY <1>1 DEF SocketInv, SocketTypeOK, References, ConnectingIsTrue, Fresh, NotStarted,
              NeverStranded, KeepsTrying, UnderWay, OnlineIsTrue, Live,
              EnsureAlive, Ping, ScheduleReconnect, CurrentIs, flags
<1>2. CASE ReconnectTimer
  <2>1. SocketTypeOK' /\ References'
    BY <1>2, ConnectTypes DEF SocketInv, SocketTypeOK, References, ReconnectTimer, flags, timers
  <2>2. ConnectingIsTrue' /\ NotStarted'
    BY <1>2 DEF SocketInv, SocketTypeOK, ConnectingIsTrue, Fresh, NotStarted,
                ReconnectTimer, Connect, CurrentIs, flags, timers
  <2>3. NeverStranded' /\ OnlineIsTrue'
    BY <1>2 DEF SocketInv, SocketTypeOK, References, ConnectingIsTrue, NeverStranded,
                KeepsTrying, UnderWay, OnlineIsTrue, Live, ReconnectTimer, Connect,
                CurrentIs, flags, timers
  <2> QED BY <2>1, <2>2, <2>3 DEF SocketInv
<1>3. CASE HeartbeatTimer \/ \E w \in Sockets : Pong(w)
  <2>1. UNCHANGED <<flags, connecting, ws, readyState, silenced, requests, reconnect,
                    heartbeat, status, failures, abandoned>>
    BY <1>3 DEF HeartbeatTimer, Pong
  <2>2. pong' \in BOOLEAN /\ (pong' => pong \/ CurrentIs("open"))
    BY <1>3 DEF SocketInv, SocketTypeOK, HeartbeatTimer, Pong, Ping
  <2> QED
    BY <2>1, <2>2 DEF SocketInv, SocketTypeOK, References, ConnectingIsTrue, Fresh, NotStarted,
        NeverStranded, KeepsTrying, UnderWay, OnlineIsTrue, Live, CurrentIs, flags
<1> QED BY <1>1, <1>2, <1>3

\* A probe that is not answered in time.
LEMMA PongTimerKeeps ==
  ASSUME SocketInv, PongTimer
  PROVE  SocketInv'
<1>1. CASE closing
  <2>1. UNCHANGED <<flags, connecting, heartbeat, ws, readyState, silenced, requests,
                    status, reconnect, abandoned>>
    BY <1>1 DEF PongTimer
  <2>2. pong /\ pong' = FALSE /\ failures' \in Nat
    BY <1>1 DEF SocketInv, SocketTypeOK, PongTimer, Failure
  <2> QED
    BY <1>1, <2>1, <2>2 DEF SocketInv, SocketTypeOK, References, ConnectingIsTrue, Fresh,
        NotStarted, NeverStranded, KeepsTrying, OnlineIsTrue, CurrentIs, flags
<1>2. CASE ~closing
  <2>1. SocketTypeOK'
    <3>1. /\ ws' = NoSocket /\ status' = "reconnecting"
          /\ heartbeat' = FALSE /\ pong' = FALSE
          /\ UNCHANGED <<flags, connecting, requests>>
      BY <1>2 DEF PongTimer, ClearTimers, DropSocket
    <3>2. reconnect' \in {"none", "backoff", "now"}
      BY <1>2, ScheduleTypes DEF SocketInv, PongTimer
    <3>3. /\ silenced' \in SUBSET Sockets /\ failures' \in Nat /\ abandoned' \in BOOLEAN
          /\ readyState' \in [Sockets -> {"connecting", "open", "closing", "closed"}]
      BY <1>2 DEF SocketInv, SocketTypeOK, PongTimer, DropSocket, Failure
    <3> QED BY <3>1, <3>2, <3>3 DEF SocketInv, SocketTypeOK, flags
  <2>2. References' /\ ConnectingIsTrue'
    BY <1>2 DEF SocketInv, SocketTypeOK, References, ConnectingIsTrue,
                PongTimer, DropSocket, CurrentIs
  <2>3. NotStarted' /\ NeverStranded' /\ OnlineIsTrue'
    BY <1>2 DEF SocketInv, SocketTypeOK, NotStarted, Fresh, NeverStranded, KeepsTrying,
                UnderWay, OnlineIsTrue, PongTimer, ScheduleReconnect, flags
  <2> QED BY <2>1, <2>2, <2>3 DEF SocketInv
<1> QED BY <1>1, <1>2

\* What becomes of a request for a ticket that is not refused.
LEMMA TicketKeeps ==
  ASSUME SocketInv, TicketFails \/ TicketArrives
  PROVE  SocketInv'
<1>1. CASE TicketFails
  <2>1. SocketTypeOK' /\ References'
    <3>1. requests' \in Nat /\ failures' \in Nat /\ connecting' = FALSE
      BY <1>1 DEF SocketInv, SocketTypeOK, TicketFails, Failure
    <3>2. reconnect' \in {"none", "backoff", "now"}
      BY <1>1, ScheduleTypes DEF SocketInv, TicketFails
    <3>3. UNCHANGED <<flags, ws, readyState, silenced, timers, status, abandoned>>
      BY <1>1 DEF TicketFails
    <3> QED BY <3>1, <3>2, <3>3 DEF SocketInv, SocketTypeOK, References, flags, timers
  <2>2. ConnectingIsTrue' /\ NotStarted'
    BY <1>1 DEF SocketInv, SocketTypeOK, ConnectingIsTrue, Fresh, NotStarted, TicketFails, flags
  <2>3. NeverStranded' /\ OnlineIsTrue'
    BY <1>1 DEF SocketInv, SocketTypeOK, NeverStranded, KeepsTrying, UnderWay,
                OnlineIsTrue, Live, TicketFails, ScheduleReconnect, flags
  <2> QED BY <2>1, <2>2, <2>3 DEF SocketInv
<1>2. CASE TicketArrives /\ closing
  <2>1. /\ requests > 0 /\ requests' = requests - 1
        /\ ~connecting'
        /\ UNCHANGED <<flags, ws, readyState, silenced, reconnect, timers, status,
                       failures, abandoned>>
    BY <1>2 DEF TicketArrives
  <2>2. connecting' \in BOOLEAN
    BY <1>2 DEF TicketArrives
  <2> QED
    BY <1>2, <2>1, <2>2 DEF SocketInv, SocketTypeOK, References, ConnectingIsTrue, Fresh,
        NotStarted, NeverStranded, KeepsTrying, OnlineIsTrue, Live, flags, timers
<1>3. CASE TicketArrives /\ ~closing
  <2>1. PICK w \in Sockets :
          /\ readyState[w] = "closed" /\ ws' = w
          /\ readyState' = [readyState EXCEPT ![w] = "connecting"]
    BY <1>3 DEF TicketArrives
  <2>2. w \notin silenced /\ w # NoSocket
    BY <2>1, SocketAssumption DEF SocketInv, References
  <2>3. requests > 0 /\ requests' = requests - 1
    BY <1>3 DEF TicketArrives
  <2>4. UNCHANGED <<flags, connecting, silenced, reconnect, timers, status, failures, abandoned>>
    BY <1>3 DEF TicketArrives
  <2>5. SocketTypeOK' /\ References'
    BY <2>1, <2>2, <2>3, <2>4 DEF SocketInv, SocketTypeOK, References, flags, timers
  <2>6. ConnectingIsTrue' /\ NotStarted'
    BY <1>3, <2>1, <2>2, <2>3, <2>4 DEF SocketInv, SocketTypeOK, ConnectingIsTrue, Fresh,
        NotStarted, CurrentIs, flags, timers
  <2>7. NeverStranded' /\ OnlineIsTrue'
    BY <2>1, <2>2, <2>4 DEF SocketInv, SocketTypeOK, NeverStranded, KeepsTrying, UnderWay,
        OnlineIsTrue, Live, flags
  <2> QED BY <2>5, <2>6, <2>7 DEF SocketInv
<1> QED BY <1>1, <1>2, <1>3

\* What becomes of a socket: the current one, one it has replaced, or a dropped one.
LEMMA SocketKeeps ==
  ASSUME SocketInv, NEW w \in Sockets,
         SocketOpens(w) \/ PeerCloses(w) \/ OnClose(w) \/ CloseUnnoticed(w)
  PROVE  SocketInv'
<1>1. CASE SocketOpens(w)
  <2>1. SocketTypeOK' /\ References' /\ ConnectingIsTrue'
    BY <1>1 DEF SocketInv, SocketTypeOK, References, ConnectingIsTrue, SocketOpens, flags
  <2>2. NotStarted' /\ NeverStranded' /\ OnlineIsTrue'
    BY <1>1 DEF SocketInv, SocketTypeOK, References, NotStarted, Fresh, NeverStranded,
                KeepsTrying, UnderWay, OnlineIsTrue, Live, SocketOpens, flags
  <2> QED BY <2>1, <2>2 DEF SocketInv
<1>2. CASE PeerCloses(w)
  BY <1>2 DEF SocketInv, SocketTypeOK, References, ConnectingIsTrue, Fresh, NotStarted,
              NeverStranded, KeepsTrying, UnderWay, OnlineIsTrue, Live,
              PeerCloses, Failure, CurrentIs, flags, timers
<1>3. CASE OnClose(w)
  <2>1. SocketTypeOK'
    <3>1. readyState' = [readyState EXCEPT ![w] = "closed"] /\ failures' \in Nat
      BY <1>3 DEF SocketInv, SocketTypeOK, OnClose, Gone, Failure
    <3>2. status' \in {"offline", "reconnecting", "online"} /\ ws' \in Sockets \cup {NoSocket}
      BY <1>3 DEF SocketInv, SocketTypeOK, OnClose
    <3> QED
      BY <1>3, <3>1, <3>2, ScheduleTypes DEF SocketInv, SocketTypeOK, OnClose, ClearTimers, flags
  <2>2. References' /\ ConnectingIsTrue'
    BY <1>3 DEF SocketInv, SocketTypeOK, References, ConnectingIsTrue, OnClose, Gone
  <2>3. NotStarted' /\ NeverStranded' /\ OnlineIsTrue'
    BY <1>3 DEF SocketInv, SocketTypeOK, References, NotStarted, Fresh, NeverStranded,
                KeepsTrying, UnderWay, OnlineIsTrue, Live, OnClose, Gone,
                ClearTimers, ScheduleReconnect, flags
  <2> QED BY <2>1, <2>2, <2>3 DEF SocketInv
<1>4. CASE CloseUnnoticed(w)
  <2>1. SocketTypeOK' /\ References' /\ ConnectingIsTrue'
    BY <1>4 DEF SocketInv, SocketTypeOK, References, ConnectingIsTrue, CloseUnnoticed, Gone,
                Failure, CurrentIs, flags, timers
  <2>2. NotStarted' /\ NeverStranded' /\ OnlineIsTrue'
    BY <1>4 DEF SocketInv, SocketTypeOK, References, NotStarted, Fresh, NeverStranded,
                KeepsTrying, UnderWay, OnlineIsTrue, Live, CloseUnnoticed, Gone, flags, timers
  <2> QED BY <2>1, <2>2 DEF SocketInv
<1> QED BY <1>1, <1>2, <1>3, <1>4

LEMMA SocketStep == SocketInv /\ [SocketNext]_socketVars => SocketInv'
<1> SUFFICES ASSUME SocketInv, [SocketNext]_socketVars PROVE SocketInv'
  OBVIOUS
<1>1. CASE UNCHANGED socketVars
  BY <1>1 DEF socketVars, SocketInv, SocketTypeOK, References, ConnectingIsTrue, Fresh,
              NotStarted, NeverStranded, KeepsTrying, UnderWay, OnlineIsTrue, Live, CurrentIs
<1>2. CASE SocketNext
  BY <1>2, LifecycleKeeps, TimersKeep, PongTimerKeeps, TicketKeeps, SocketKeeps DEF SocketNext
<1> QED BY <1>1, <1>2

LEMMA SocketInvariant == SocketSpec => []SocketInv
BY SocketInitially, SocketStep, PTL DEF SocketSpec

-----------------------------------------------------------------------------
\* The fields of ChatSocket (websocket.js:28-41) keep their types.
THEOREM SocketTypes == SocketSpec => []SocketTypeOK
<1>1. SocketInv => SocketTypeOK
  BY DEF SocketInv
<1> QED BY <1>1, SocketInvariant, PTL

\* Between start() and stop() a request, a timer or a noticed socket is always
\* pending (websocket.js:10-16), unless a CONNECTING socket has been dropped.
THEOREM AlwaysTrying == SocketSpec => []NeverStranded
<1>1. SocketInv => NeverStranded
  BY DEF SocketInv
<1> QED BY <1>1, SocketInvariant, PTL

\* Subscribers that were told "online" (setStatus) have a socket that is open, or
\* whose close event is still to come, with its onclose in place.
THEOREM OnlineHasSocket == SocketSpec => []OnlineIsTrue
<1>1. SocketInv => OnlineIsTrue
  BY DEF SocketInv
<1> QED BY <1>1, SocketInvariant, PTL
=============================================================================
