---------------------------- MODULE MessageStatus ----------------------------
(***************************************************************************)
(* What the server promises about the delivery state of its messages: a    *)
(* message is stored as "sent", then only ever moves forwards, through     *)
(* "delivered" to "seen" (hub.go, the comment above StatusSent).  This is  *)
(* the abstract specification that Delivery is shown to implement.         *)
(***************************************************************************)
EXTENDS Naturals

CONSTANT Msgs                  \* rows of the messages table

VARIABLE status                \* the status column; "none": no such row yet

Statuses == {"none", "sent", "delivered", "seen"}

\* The order the states may advance in.
Rank(s) == IF s = "none" THEN 0
           ELSE IF s = "sent" THEN 1
           ELSE IF s = "delivered" THEN 2 ELSE 3

Init == status = [m \in Msgs |-> "none"]

\* A new row appears, always as "sent".
Store(m) ==
  /\ status[m] = "none"
  /\ status' = [status EXCEPT ![m] = "sent"]

\* Some stored rows, each of them behind `next`, catch up with it together.
Advance(S, next) ==
  /\ \A m \in S : 0 < Rank(status[m]) /\ Rank(status[m]) < Rank(next)
  /\ status' = [m \in Msgs |-> IF m \in S THEN next ELSE status[m]]

Next ==
  \/ \E m \in Msgs : Store(m)
  \/ \E S \in SUBSET Msgs, next \in {"delivered", "seen"} : Advance(S, next)

Spec == Init /\ [][Next]_status
=============================================================================
