------------------------------ MODULE Handshake ------------------------------
(***************************************************************************)
(* What secret chats promise (e2e_request.go, secret_chats.go): one is     *)
(* proposed, waits, and is encrypted from the moment somebody accepts it   *)
(* until it is deleted by somebody who wants it gone.  A rejection ends    *)
(* only what still waits, an ordinary chat never becomes a secret one, and *)
(* nothing comes back.  Chats is shown to implement this.                  *)
(***************************************************************************)
CONSTANT ChatIds

VARIABLES
  phase,    \* of each chat that there is, was or will be
  wishes    \* what is being asked for about it

Wishes == {"accept", "reject", "end"}
Phases == {"none", "plain", "waiting", "encrypted", "gone"}

HInit ==
  /\ phase \in [ChatIds -> {"none", "plain", "waiting", "encrypted"}]
  /\ wishes = [c \in ChatIds |-> {}]

Becomes(c, from, to) == phase[c] = from /\ phase' = [phase EXCEPT ![c] = to]

Open(c) == Becomes(c, "none", "plain")
Propose(c) == Becomes(c, "none", "waiting")
Accept(c) == "accept" \in wishes[c] /\ Becomes(c, "waiting", "encrypted")
Reject(c) == "reject" \in wishes[c] /\ Becomes(c, "waiting", "gone")
End(c) ==
  /\ "end" \in wishes[c]
  /\ \E from \in {"plain", "waiting", "encrypted"} : Becomes(c, from, "gone")

\* What people wish may change at any time.
HNext ==
  /\ wishes' \in [ChatIds -> SUBSET Wishes]
  /\ \/ UNCHANGED phase
     \/ \E c \in ChatIds : Open(c) \/ Propose(c) \/ Accept(c) \/ Reject(c) \/ End(c)

HSpec == HInit /\ [][HNext]_<<phase, wishes>>
=============================================================================
