----------------------------- MODULE MCDelivery ------------------------------
(* Instances of Delivery for TLC. *)
EXTENDS Delivery, TLC

CONSTANTS alice, bob, a1, b1, b2, r1, r2, m1, m2

MCUsers == {alice, bob}
MCOwner == [c \in Conns |-> IF c = a1 THEN alice ELSE bob]
OneReplica == [c \in Conns |-> r1]
\* Bob's devices are spread over two replicas.
TwoReplicas == [c \in Conns |-> IF c = b2 THEN r2 ELSE r1]
Everyone == {Users}
\* A message may also lack a copy Bob can read.
SomeUnreadable == {Users, {alice}}
MsgSymmetry == Permutations(Msgs)
=============================================================================
