------------------------------- MODULE MCPush --------------------------------
(***************************************************************************)
(* Delivery with a history variable, to ask whether every recipient of a   *)
(* message is reached one way or the other.                                *)
(***************************************************************************)
EXTENDS MCDelivery

\* For each message, the members no connection of whom has been registered on
\* any replica since the message was stored.
VARIABLE unreached

PushInit == Init /\ unreached = [m \in Msgs |-> Users]

PushNext ==
  /\ Next
  /\ unreached' = [m \in Msgs |->
       IF status'[m] = "none" THEN Users
       ELSE {u \in unreached[m] :
               \A r \in Replicas : \A c \in clients'[r] : Owner[c] # u}]

PushSpec == PushInit /\ [][PushNext]_<<vars, unreached>>

\* When the hub is done with a message, every recipient who did not mute the
\* chat has been pushed a notification or has had a live socket since the
\* message was stored (hub.go "pushToOffline wakes up recipients who have no
\* live socket").
NeverSilent ==
  \A r \in Replicas : (hub[r].pc = "push" /\ hub[r].todo = {}) =>
    \A u \in Users \ ({sender[hub[r].msg]} \cup Muted) :
      u \in hub[r].pushed \/ u \notin unreached[hub[r].msg]
=============================================================================
