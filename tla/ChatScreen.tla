----------------------------- MODULE ChatScreen ------------------------------
(***************************************************************************)
(* What an open conversation shows, composed with the server of Delivery:  *)
(* the useChat hook of the web client merges the events its socket hands   *)
(* over with the history it fetches on every (re)connect.                  *)
(*                                                                         *)
(* A page is named by the connection it has opened.                        *)
(***************************************************************************)
EXTENDS Delivery

CONSTANT Encrypted   \* the chat is end-to-end encrypted

VARIABLES
  screen,      \* the status shown for each message; "none": not shown
  decrypting,  \* message events whose materialise() has not resolved
  page,        \* progress of the load() a (re)connect starts
  reply        \* the rows GetMessages has selected for it

NoRows == [m \in Msgs |-> "none"]

screenVars == <<screen, decrypting, page, reply>>
allVars == <<vars, screenVars>>

ScreenTypeOK ==
  /\ screen \in [Conns -> [Msgs -> Statuses]]
  /\ decrypting \in [Conns -> SUBSET (Msgs \X Statuses)]
  /\ page \in [Conns -> {"closed", "due", "marked", "replied", "loaded"}]
  /\ reply \in [Conns -> [Msgs -> Statuses]]
  /\ \A c \in Conns : page[c] # "replied" => reply[c] = NoRows

ScreenInit ==
  /\ Init
  /\ screen = [c \in Conns |-> NoRows]
  /\ decrypting = [c \in Conns |-> {}]
  /\ page = [c \in Conns |-> "closed"]
  /\ reply = [c \in Conns |-> NoRows]

-----------------------------------------------------------------------------
\* Mutant of AdvanceStatus: every receipt reads as a read receipt.
AdvanceToSeen(current, next) == "seen"

\* advanceStatus: a status event never moves a bubble backwards.
AdvanceStatus(current, next) == IF Rank(next) > Rank(current) THEN next ELSE current

\* mergeMessages: server copies win, whatever was shown before.
MergeMessages(shown, rows) ==
  [m \in Msgs |-> IF rows[m] # "none" THEN rows[m] ELSE shown[m]]

\* The onMessage handler of useChat.  A message is merged once it is rendered,
\* at once unless it has to be decrypted; a status event only concerns messages
\* that are on screen.
Receive(c) ==
  LET ev == Head(sendq[c]) IN
  /\ WritePump(c)
  /\ \/ /\ ev.kind = "message" /\ Encrypted
        /\ decrypting' = [decrypting EXCEPT ![c] = @ \cup (ev.ids \X {ev.status})]
        /\ UNCHANGED screen
     \/ /\ ev.kind = "message" /\ ~Encrypted
        /\ screen' = [screen EXCEPT ![c] = MergeMessages(@,
                        [m \in Msgs |-> IF m \in ev.ids THEN ev.status ELSE "none"])]
        /\ UNCHANGED decrypting
     \/ /\ ev.kind = "status"
        /\ screen' = [screen EXCEPT ![c] = [m \in Msgs |->
                        IF m \in ev.ids /\ @[m] # "none"
                        THEN AdvanceStatus(@[m], ev.status) ELSE @[m]]]
        /\ UNCHANGED decrypting
  /\ UNCHANGED <<page, reply>>

\* materialise() resolves and the decrypted message is merged.
Materialised(c) ==
  /\ \E row \in decrypting[c] :
       /\ screen' = [screen EXCEPT ![c] = MergeMessages(@,
                       [m \in Msgs |-> IF m = row[1] THEN row[2] ELSE "none"])]
       /\ decrypting' = [decrypting EXCEPT ![c] = @ \ {row}]
  /\ UNCHANGED <<page, reply>>
  /\ UNCHANGED vars

\* The socket's onopen tells useChat "reconnected", which calls load().  The
\* browser sees the socket open as soon as the request is upgraded.
OnOpen(c) ==
  /\ conn[c] # "idle" /\ page[c] = "closed"
  /\ page' = [page EXCEPT ![c] = "due"]
  /\ UNCHANGED <<screen, decrypting, reply>>
  /\ UNCHANGED vars

\* GetMessages marks the history seen, announces that, then selects the rows.
LoadMarksSeen(c) ==
  /\ page[c] = "due"
  /\ FetchMarksSeen(c)
  /\ page' = [page EXCEPT ![c] = "marked"]
  /\ UNCHANGED <<screen, decrypting, reply>>

\* The SELECT sees the rows as they are by then.
LoadSelects(c) ==
  /\ page[c] = "marked" /\ task[<<"load", c>>].todo = {}
  /\ reply' = [reply EXCEPT ![c] = status]
  /\ page' = [page EXCEPT ![c] = "replied"]
  /\ UNCHANGED <<screen, decrypting>>
  /\ UNCHANGED vars

\* load() merges what the request returned.
LoadMerges(c) ==
  /\ page[c] = "replied"
  /\ screen' = [screen EXCEPT ![c] = MergeMessages(@, reply[c])]
  /\ reply' = [reply EXCEPT ![c] = NoRows]
  /\ page' = [page EXCEPT ![c] = "loaded"]
  /\ UNCHANGED decrypting
  /\ UNCHANGED vars

PageStep(c) ==
  \/ Receive(c) \/ Materialised(c)
  \/ OnOpen(c) \/ LoadMarksSeen(c) \/ LoadSelects(c) \/ LoadMerges(c)

ScreenNext ==
  \/ ServerNext /\ UNCHANGED screenVars
  \/ \E c \in Conns : PageStep(c)

\* What a replica's goroutines and the pages still have to do about messages
\* that are already on their way.
InFlight ==
  \/ /\ \/ \E r \in Replicas : HandleIncoming(r) \/ Subscriber(r)
        \/ \E t \in TaskIds : BroadcastStatus(t)
        \/ \E c \in Conns : MarkOnline(c)
     /\ UNCHANGED screenVars
  \/ \E c \in Conns : Receive(c) \/ Materialised(c)

\* Runnable goroutines are scheduled and Redis answers: some of that work is
\* always done in the end.  Nothing is assumed of users, of connections coming
\* and going, or of crashes.
ScreenSpec == ScreenInit /\ [][ScreenNext]_allVars
FairScreenSpec == ScreenSpec /\ WF_allVars(InFlight)

-----------------------------------------------------------------------------
\* No screen shows a message the database does not hold, or a receipt ahead of
\* the row's own status.
ScreenTruthful ==
  \A c \in Conns, m \in Msgs :
    /\ Rank(screen[c][m]) <= Rank(status[m])
    /\ Rank(reply[c][m]) <= Rank(status[m])
    /\ \A row \in decrypting[c] : Rank(row[2]) <= Rank(status[row[1]])

\* Message m has just been stored and its handling goes on.
InHand(m) == \E r \in Replicas : hub[r].msg = m /\ hub[r].pc \in {"check", "promote"}

Readable(m, u) == \A r \in Replicas : hub[r].msg = m => u \in hub[r].keys

\* A message stored while a device is registered is shown on that device unless
\* its connection ends first: the fan-out loses nothing on the way.
StoredIsShown ==
  \A m \in Msgs, c \in Conns :
    (InHand(m) /\ Readable(m, Owner[c]) /\ c \in clients[Home[c]])
      ~> (screen[c][m] # "none" \/ c \in closed \/ c \notin clients[Home[c]]
          \/ faults > 0)

\* The delivery state a page shows for a message only moves forwards, as the
\* comment of advanceStatus says.
ScreenForward ==
  [][\A c \in Conns, m \in Msgs : Rank(screen[c][m]) <= Rank(screen'[c][m])]_allVars

\* Nothing that concerns connection c is on its way any more.
Settled(c) ==
  /\ \A r \in Replicas : hub[r].pc = "idle" /\ fanout[r] = <<>>
  /\ \A t \in TaskIds : task[t].todo = {}
  /\ sendq[c] = <<>> /\ decrypting[c] = {} /\ page[c] = "loaded"

\* Once a page is connected, has refetched and everything has settled, it shows
\* every message of the chat.
CaughtUp ==
  \A c \in Conns :
    (conn[c] = "live" /\ c \notin closed /\ Settled(c) /\ faults = 0)
      => \A m \in Msgs : status[m] # "none" => screen[c][m] # "none"
=============================================================================
