----------------------------- MODULE MC_AskRoom -----------------------------
(* AskRoom for TLC: one new room has no leader, the other an uninitialised *)
(* leader that is no seat, and all clients but one have joined the plug-in. *)
EXTENDS AskRoom, TLC

MCUninitialised == {-1, ROOM_CAPACITY}
Symmetry == Permutations(Client)

Joined == [room |-> NULL, ready |-> FALSE, finder |-> 0]

MCInit ==
  \E late \in Client :
    /\ room \in [Room -> NewRoom]
    /\ \A r \in Room : room[r].leader = -1 <=> r = 0
    /\ info = [c \in Client |-> IF c = late THEN NULL ELSE Joined]
    /\ seek = [c \in Client |-> NULL]
    /\ tasks = {} /\ up = TRUE /\ asked = [r \in Room |-> <<>>]

MCSpec == MCInit /\ [][Next]_vars
=============================================================================
