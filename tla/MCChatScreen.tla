---------------------------- MODULE MCChatScreen -----------------------------
(* Instances of ChatScreen for TLC. *)
EXTENDS ChatScreen

CONSTANTS alice, bob, a1, b1, b2, r1, r2, m1

MCUsers == {alice, bob}
MCOwner == [c \in Conns |-> IF c = a1 THEN alice ELSE bob]
OneReplica == [c \in Conns |-> r1]
\* Bob's second device is on a second replica.
TwoReplicas == [c \in Conns |-> IF c = b2 THEN r2 ELSE r1]
Everyone == {Users}
=============================================================================
