------------------------------ MODULE MCCalls -------------------------------
(* The instance of Calls for TLC. *)
EXTENDS Calls

CONSTANTS a1, b1, b2

\* Ann has one page, Ben two.
MCOwner == [d \in Devices |-> IF d = a1 THEN "ann" ELSE "ben"]

Undisturbed == overtaken = {} /\ drops = 0 /\ toggles = 0

\* What TLC explores: two calls between two pages, one after the other or at
\* the same time; one call with losses, mute and calls that end inside an
\* await; and one call that rings on two pages.
Scope ==
  /\ {a1, b1} \subseteq online \/ drops > 0
  /\ \/ b2 \notin online /\ Undisturbed
     \/ b2 \notin online /\ placed <= 1 /\ ~({a1, b1} \subseteq overtaken)
     \/ /\ placed <= 1 /\ Undisturbed
        /\ \A s, d \in Devices : Len(wire[s][d]) <= 1
        /\ \A p \in 1 .. made : pcs[p].conn # "failed"

\* Ben's second page does not come later, and only a1 loses its socket.
Steady == \A d \in {b1, b2} : (d \in online) = (d \in online')
=============================================================================
