----------------------------- MODULE MCChatList -----------------------------
\* Two people with three devices, and two more who may be added to a group. At
\* most one device shows the web client, the others send requests as any client
\* of the server may: what a page shows depends on other pages only through the
\* requests they send.
EXTENDS ChatList, TLC

CONSTANTS ann, bob, cy, dee, a1, b1, b2

MCUsers == {ann, bob, cy, dee}
MCPeers == {ann, bob}
MCJoiners == {cy, dee}
MCOwner == (a1 :> ann) @@ (b1 :> bob) @@ (b2 :> bob)

\* Three requests of such clients; two while a device shows the web client over a
\* network without faults; one while another does, whose loads overlap and fail.
MCInit ==
  /\ ListInit
  /\ \/ mounted = {} /\ asked = 0 /\ faults = 0
     \/ mounted = {b1} /\ asked = 1 /\ faults = MaxFaults
     \/ mounted = {b2} /\ asked = 2 /\ faults = 0

OneLoad == Len(loading[b1]) + Len(reply[b1]) <= 1

MCSpec == MCInit /\ [][ListNext]_allVars

\* Other clients take their answers at once: a device that waits with it can do
\* nothing that one which has taken it cannot.
Steady ==
  LET waiting == {p \in Pages \ mounted : req[p].step \in Ended} IN
  waiting # {} => \E p \in waiting : req'[p] = Idle

Strangers == Permutations({cy, dee})
=============================================================================
