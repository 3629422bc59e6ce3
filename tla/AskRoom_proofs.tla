--------------------------- MODULE AskRoom_proofs ---------------------------
(***************************************************************************)
(* Proofs about AskRoom, for any number of clients, rooms, seats and       *)
(* questions: a running game has both teams, a player has one seat, the    *)
(* questions of a game come in turn, and a led room stays led.             *)
(***************************************************************************)
EXTENDS AskRoom, NumberFacts, TLAPS

-----------------------------------------------------------------------------
(* Arithmetic of the seats.                                                *)

LEMMA ModRange == ASSUME NEW x \in Int, NEW N \in Nat \ {0}
                  PROVE  x % N \in 0..N - 1
  OBVIOUS

LEMMA ModSmall == ASSUME NEW N \in Nat \ {0}, NEW s \in 0..N - 1
                  PROVE  s % N = s
  OBVIOUS

LEMMA ModOver == ASSUME NEW N \in Nat \ {0}, NEW s \in 0..N - 1
                 PROVE  (N + s) % N = s
  OBVIOUS

LEMMA SeatsAreNumbers == Seat \subseteq Nat /\ Room \subseteq Nat
  BY RoomsAssumption DEF Seat, Room

LEMMA LeastIsLeast ==
  ASSUME NEW S \in SUBSET Nat, S # {}
  PROVE  /\ Least(S) \in S
         /\ \A m \in S : Least(S) <= m
<1>1. PICK n \in S : \A m \in S : n <= m
  BY LeastNumber
<1> QED
  BY <1>1 DEF Least

LEMMA FreeSeat ==
  ASSUME NEW q \in rooms_, Taken(q) # Seat
  PROVE  /\ FreePos(q) \in Seat
         /\ q.clients[FreePos(q)] = NULL
         /\ Taken(q) = {} => FreePos(q) = 0
<1>1. Seat \ Taken(q) # {} /\ Seat \ Taken(q) \in SUBSET Nat
  BY SeatsAreNumbers DEF Taken
<1>2. /\ FreePos(q) \in Seat \ Taken(q)
      /\ \A m \in Seat \ Taken(q) : FreePos(q) <= m
  BY <1>1, LeastIsLeast DEF FreePos
<1>3. 0 \in Seat
  BY RoomsAssumption DEF Seat
<1>4. FreePos(q) \in Nat
  BY <1>2, SeatsAreNumbers
<1> QED
  BY <1>2, <1>3, <1>4 DEF Taken

-----------------------------------------------------------------------------
(* What the operations do to a room.                                       *)

LEMMA NextLeaderShape ==
  ASSUME NEW q \in rooms_, NEW from \in Int
  PROVE  \E l \in Int : NextLeader(q, from) = [q EXCEPT !.leader = l]
<1> DEFINE Nth(n) == (from + 1 + n) % ROOM_CAPACITY
           found == {n \in 0..ROOM_CAPACITY - 2 : Nth(n) \in Taken(q)}
<1>1. CASE found = {}
  <2>1. NextLeader(q, from) = q
    BY <1>1 DEF NextLeader
  <2>2. q = [q EXCEPT !.leader = q.leader] /\ q.leader \in Int
    BY DEF rooms_
  <2> QED
    BY <2>1, <2>2
<1>2. CASE found # {}
  <2>1. NextLeader(q, from) = [q EXCEPT !.leader = Nth(Least(found))]
    BY <1>2 DEF NextLeader
  <2>2. found \in SUBSET Nat
    BY RoomsAssumption
  <2>3. Least(found) \in found
    BY <1>2, <2>2, LeastIsLeast
  <2>4. PICK l \in Seat : l = Nth(Least(found))
    BY <2>3 DEF Taken
  <2>5. l \in Int
    BY SeatsAreNumbers
  <2> QED
    BY <2>1, <2>4, <2>5
<1> QED
  BY <1>1, <1>2

\* Every seat but the one the search starts behind is looked at.
LEMMA NextLeaderFound ==
  ASSUME NEW q \in rooms_, NEW from \in Seat, Taken(q) \ {from} # {}
  PROVE  NextLeader(q, from).leader \in Taken(q)
<1> DEFINE Nth(n) == (from + 1 + n) % ROOM_CAPACITY
           found == {n \in 0..ROOM_CAPACITY - 2 : Nth(n) \in Taken(q)}
<1>1. PICK s \in Taken(q) : s # from
  OBVIOUS
<1>2. s \in 0..ROOM_CAPACITY - 1 /\ from \in 0..ROOM_CAPACITY - 1
      /\ ROOM_CAPACITY \in Nat \ {0}
  BY RoomsAssumption DEF Taken, Seat
<1>3. \E n \in 0..ROOM_CAPACITY - 2 : Nth(n) = s
  <2>1. CASE s > from
    <3>1. s - from - 1 \in 0..ROOM_CAPACITY - 2
          /\ from + 1 + (s - from - 1) = s
      BY <1>2, <2>1
    <3>2. Nth(s - from - 1) = s
      BY <1>2, <3>1, ModSmall
    <3> QED
      BY <3>1, <3>2
  <2>2. CASE s < from
    <3>1. ROOM_CAPACITY + s - from - 1 \in 0..ROOM_CAPACITY - 2
          /\ from + 1 + (ROOM_CAPACITY + s - from - 1) = ROOM_CAPACITY + s
      BY <1>2, <2>2
    <3>2. Nth(ROOM_CAPACITY + s - from - 1) = s
      BY <1>2, <3>1, ModOver
    <3> QED
      BY <3>1, <3>2
  <2> QED
    BY <1>1, <1>2, <2>1, <2>2
<1>4. found # {} /\ found \in SUBSET Nat
  BY <1>3
<1>5. NextLeader(q, from) = [q EXCEPT !.leader = Nth(Least(found))]
  BY <1>4 DEF NextLeader
<1>6. Nth(Least(found)) \in Taken(q)
  <2>1. Least(found) \in found
    BY <1>4, LeastIsLeast
  <2> QED
    BY <2>1
<1>7. NextLeader(q, from).leader = Nth(Least(found))
  BY <1>5 DEF rooms_
<1> QED
  BY <1>6, <1>7

LEMMA GameStopShape ==
  ASSUME NEW q \in rooms_
  PROVE  \E l \in Int :
           GameStop(q) = [q EXCEPT !.running = FALSE, !.leader = l]
<1> DEFINE stopped == [q EXCEPT !.running = FALSE]
<1>1. stopped \in rooms_ /\ q.leader \in Int /\ stopped.leader = q.leader
  BY DEF rooms_
<1>2. CASE q.leader \in Taken(q)
  <2>1. GameStop(q) = stopped
    BY <1>2 DEF GameStop
  <2>2. stopped = [q EXCEPT !.running = FALSE, !.leader = q.leader]
    BY DEF rooms_
  <2> QED
    BY <1>1, <2>1, <2>2
<1>3. CASE q.leader \notin Taken(q)
  <2>1. GameStop(q) = NextLeader(stopped, q.leader)
    BY <1>3 DEF GameStop
  <2>2. PICK l \in Int :
          NextLeader(stopped, q.leader) = [stopped EXCEPT !.leader = l]
    BY <1>1, NextLeaderShape
  <2>3. [stopped EXCEPT !.leader = l]
          = [q EXCEPT !.running = FALSE, !.leader = l]
    BY DEF rooms_
  <2> QED
    BY <2>1, <2>2, <2>3
<1> QED
  BY <1>2, <1>3

Emptied(q, s) == [q EXCEPT !.clients[s] = NULL]

LEMMA EmptiedSeat ==
  ASSUME NEW q \in rooms_, NEW s \in Seat
  PROVE  /\ Emptied(q, s) \in rooms_
         /\ Taken(Emptied(q, s)) = Taken(q) \ {s}
         /\ Emptied(q, s).leader = q.leader
         /\ Emptied(q, s).running = q.running
  BY DEF Emptied, rooms_, Taken

BothSides(q) == \A team \in {0, 1} : Taken(q) \cap Side(team) # {}

LEMMA LeaveRoomShape ==
  ASSUME NEW q \in rooms_, NEW s \in Seat
  PROVE  \E b \in BOOLEAN, l \in Int :
           /\ LeaveRoom(q, s)
                = [Emptied(q, s) EXCEPT !.running = b, !.leader = l]
           /\ b => q.running
           /\ b /\ BothSides(q) => BothSides(Emptied(q, s))
<1> DEFINE left == Emptied(q, s)
<1>1. /\ left \in rooms_ /\ Taken(left) = Taken(q) \ {s}
      /\ left.leader = q.leader /\ left.running = q.running
      /\ left.leader \in Int /\ left.running \in BOOLEAN
  BY EmptiedSeat DEF rooms_
<1>2. left = [left EXCEPT !.running = left.running, !.leader = left.leader]
  BY <1>1 DEF rooms_
<1>3. LeaveRoom(q, s) =
        IF q.running
        THEN IF Side(s % 2) \cap Taken(left) = {} THEN GameStop(left) ELSE left
        ELSE IF s = q.leader
             THEN NextLeader([left EXCEPT !.leader = -1], s) ELSE left
  BY DEF LeaveRoom, Emptied
<1>4. CASE q.running /\ Side(s % 2) \cap Taken(left) = {}
  <2>1. PICK l \in Int :
          GameStop(left) = [left EXCEPT !.running = FALSE, !.leader = l]
    BY <1>1, GameStopShape
  <2> QED
    BY <1>3, <1>4, <2>1
<1>5. CASE q.running /\ Side(s % 2) \cap Taken(left) # {}
  <2>1. LeaveRoom(q, s) = left
    BY <1>3, <1>5
  <2>2. ASSUME BothSides(q) PROVE BothSides(left)
    <3>1. s % 2 \in {0, 1}
      BY SeatsAreNumbers
    <3>2. ASSUME NEW team \in {0, 1}, team # s % 2
          PROVE  Taken(left) \cap Side(team) = Taken(q) \cap Side(team)
      BY <1>1, <3>2 DEF Side
    <3> QED
      BY <1>5, <2>2, <3>1, <3>2 DEF BothSides
  <2> QED
    BY <1>1, <1>2, <2>1, <2>2
<1>6. CASE ~q.running /\ s = q.leader
  <2>1. [left EXCEPT !.leader = -1] \in rooms_ /\ s \in Int
    BY <1>1, SeatsAreNumbers DEF rooms_
  <2>2. PICK l \in Int : NextLeader([left EXCEPT !.leader = -1], s)
                           = [[left EXCEPT !.leader = -1] EXCEPT !.leader = l]
    BY <2>1, NextLeaderShape
  <2>3. [[left EXCEPT !.leader = -1] EXCEPT !.leader = l]
          = [left EXCEPT !.running = FALSE, !.leader = l]
    BY <1>1, <1>6 DEF rooms_
  <2> QED
    BY <1>3, <1>6, <2>2, <2>3
<1>7. CASE ~q.running /\ s # q.leader
  <2>1. LeaveRoom(q, s) = left
    BY <1>3, <1>7
  <2> QED
    BY <1>1, <1>2, <1>7, <2>1
<1> QED
  BY <1>4, <1>5, <1>6, <1>7

\* A game that stops leaves a led room, when somebody stays.
LEMMA LedStop ==
  ASSUME NEW q \in rooms_, q.leader \in Seat, Taken(q) # {}
  PROVE  Led(GameStop(q))
<1> DEFINE stopped == [q EXCEPT !.running = FALSE]
<1>1. /\ stopped \in rooms_ /\ Taken(stopped) = Taken(q)
      /\ stopped.leader = q.leader /\ stopped.running = FALSE
  BY DEF rooms_, Taken
<1>2. CASE q.leader \in Taken(q)
  <2>1. GameStop(q) = stopped
    BY <1>2 DEF GameStop
  <2> QED
    BY <1>1, <1>2, <2>1 DEF Led
<1>3. CASE q.leader \notin Taken(q)
  <2>1. GameStop(q) = NextLeader(stopped, q.leader)
    BY <1>3 DEF GameStop
  <2>2. NextLeader(stopped, q.leader).leader \in Taken(q)
    BY <1>1, <1>3, NextLeaderFound
  <2>3. PICK l \in Int :
          NextLeader(stopped, q.leader) = [stopped EXCEPT !.leader = l]
    BY <1>1, NextLeaderShape DEF rooms_
  <2>4. /\ Taken(NextLeader(stopped, q.leader)) = Taken(q)
        /\ NextLeader(stopped, q.leader).running = FALSE
    <3>1. /\ NextLeader(stopped, q.leader).clients = stopped.clients
          /\ NextLeader(stopped, q.leader).running = stopped.running
      BY <1>1, <2>3 DEF rooms_
    <3> HIDE DEF stopped
    <3> QED
      BY <1>1, <3>1 DEF Taken
  <2> HIDE DEF stopped
  <2> QED
    BY <2>1, <2>2, <2>4 DEF Led
<1> QED
  BY <1>2, <1>3

LEMMA LedLeave ==
  ASSUME NEW q \in rooms_, NEW s \in Taken(q), Led(q),
         q.running => BothSides(q)
  PROVE  Led(LeaveRoom(q, s))
<1> DEFINE left == Emptied(q, s)
<1>0. s \in Seat
  BY DEF Taken
<1>1. /\ left \in rooms_ /\ Taken(left) = Taken(q) \ {s}
      /\ left.leader = q.leader /\ left.running = q.running
  BY <1>0, EmptiedSeat
<1>2. LeaveRoom(q, s) =
        IF q.running
        THEN IF Side(s % 2) \cap Taken(left) = {} THEN GameStop(left) ELSE left
        ELSE IF s = q.leader
             THEN NextLeader([left EXCEPT !.leader = -1], s) ELSE left
  BY DEF LeaveRoom, Emptied
<1>3. CASE q.running
  <2>1. q.leader \in Seat
    BY <1>3 DEF Led
  <2>2. Taken(left) # {}
    <3>1. PICK t \in Taken(q) \cap Side(1 - (s % 2)) : TRUE
      <4>1. 1 - (s % 2) \in {0, 1}
        BY <1>0, SeatsAreNumbers
      <4> QED
        BY <1>3, <4>1 DEF BothSides
    <3>2. t # s
      BY <1>0, <3>1, SeatsAreNumbers DEF Side
    <3> QED
      BY <1>1, <3>1, <3>2
  <2>3. Led(GameStop(left))
    BY <1>1, <2>1, <2>2, LedStop
  <2>4. Led(left)
    BY <1>1, <1>3, <2>1 DEF Led
  <2> QED
    BY <1>2, <1>3, <2>3, <2>4
<1>4. CASE ~q.running /\ s = q.leader
  <2> DEFINE p == [left EXCEPT !.leader = -1]
  <2>1. /\ p \in rooms_ /\ Taken(p) = Taken(q) \ {s}
        /\ p.leader = -1 /\ p.running = FALSE
    BY <1>1, <1>4 DEF rooms_, Taken
  <2> HIDE DEF p
  <2>2. PICK l \in Int : NextLeader(p, s) = [p EXCEPT !.leader = l]
    <3>1. s \in Int
      BY <1>0, SeatsAreNumbers
    <3> QED
      BY <2>1, <3>1, NextLeaderShape
  <2>3. /\ Taken(NextLeader(p, s)) = Taken(p)
        /\ NextLeader(p, s).running = FALSE
    BY <2>1, <2>2 DEF rooms_, Taken
  <2>4. CASE Taken(p) = {}
    <3>1. NextLeader(p, s) = p
      BY <2>4 DEF NextLeader
    <3> QED
      BY <1>2, <1>4, <2>1, <2>4, <3>1 DEF Led, p
  <2>5. CASE Taken(p) # {}
    <3>1. Taken(p) \ {s} # {}
      BY <2>1, <2>5
    <3>2. NextLeader(p, s).leader \in Taken(p)
      BY <1>0, <2>1, <3>1, NextLeaderFound
    <3> QED
      BY <1>2, <1>4, <2>3, <2>5, <3>2 DEF Led, p
  <2> QED
    BY <2>4, <2>5
<1>5. CASE ~q.running /\ s # q.leader
  <2>1. q.leader \in Taken(left)
    BY <1>1, <1>5 DEF Led
  <2> QED
    BY <1>1, <1>2, <1>5, <2>1 DEF Led
<1> QED
  BY <1>3, <1>4, <1>5

\* A room that stays as it is, or whose seats and leader do.
LEMMA SameLead ==
  ASSUME NEW q, NEW n, n.clients = q.clients, n.running = q.running,
         n.leader = q.leader
  PROVE  KeepsLead(q, n)
  BY DEF KeepsLead, Led, SameLeader, Taken

\* Who leads and does not get up leads on.
LEMMA LeaderLeave ==
  ASSUME NEW q \in rooms_, NEW s \in Taken(q)
  PROVE  SameLeader(q, LeaveRoom(q, s))
<1> DEFINE left == Emptied(q, s)
<1>0. s \in Seat
  BY DEF Taken
<1>1. /\ left \in rooms_ /\ Taken(left) = Taken(q) \ {s}
      /\ left.leader = q.leader /\ left.running = q.running
      /\ left.clients[s] = NULL
  BY <1>0, EmptiedSeat DEF Emptied, rooms_
<1>2. LeaveRoom(q, s) =
        IF q.running
        THEN IF Side(s % 2) \cap Taken(left) = {} THEN GameStop(left) ELSE left
        ELSE IF s = q.leader
             THEN NextLeader([left EXCEPT !.leader = -1], s) ELSE left
  BY DEF LeaveRoom, Emptied
<1>3. CASE q.leader \in Taken(q) /\ s # q.leader
  <2>1. q.leader \in Taken(left)
    BY <1>1, <1>3
  <2>2. GameStop(left).leader = q.leader
    BY <1>1, <2>1 DEF GameStop, rooms_
  <2> HIDE DEF left
  <2> QED
    BY <1>1, <1>2, <1>3, <2>2 DEF SameLeader
<1>4. CASE q.leader \in Taken(q) /\ s = q.leader
  <2>1. LeaveRoom(q, s).clients[s] = NULL
    <3>1. PICK b \in BOOLEAN, l \in Int :
            /\ LeaveRoom(q, s)
                 = [Emptied(q, s) EXCEPT !.running = b, !.leader = l]
            /\ b => q.running
            /\ b /\ BothSides(q) => BothSides(Emptied(q, s))
      BY <1>0, LeaveRoomShape
    <3>2. LeaveRoom(q, s).clients = left.clients
      BY <1>1, <3>1 DEF rooms_
    <3> QED
      BY <1>1, <3>2
  <2>2. q.clients[s] # NULL
    BY DEF Taken
  <2> QED
    BY <1>4, <2>1, <2>2 DEF SameLeader
<1> QED
  BY <1>3, <1>4 DEF SameLeader

LEMMA JoinRoomShape ==
  ASSUME NEW q \in rooms_, NEW c \in Client, Taken(q) # Seat, ~q.running
  PROVE  /\ JoinRoom(q, c, FreePos(q)) \in rooms_
         /\ JoinRoom(q, c, FreePos(q)).clients
              = [q.clients EXCEPT ![FreePos(q)] = c]
         /\ ~JoinRoom(q, c, FreePos(q)).running
         /\ JoinRoom(q, c, FreePos(q)).question = q.question
         /\ JoinRoom(q, c, FreePos(q)).verify_code = q.verify_code
         /\ KeepsLead(q, JoinRoom(q, c, FreePos(q)))
<1> DEFINE s == FreePos(q)
           j == JoinRoom(q, c, s)
<1>1. s \in Seat /\ q.clients[s] = NULL /\ (Taken(q) = {} => s = 0)
  BY FreeSeat
<1> HIDE DEF s
<1>2. s \in Int /\ c # NULL
  BY <1>1, SeatsAreNumbers, NullAssumption
<1>3. /\ j \in rooms_ /\ j.clients = [q.clients EXCEPT ![s] = c]
      /\ j.running = FALSE
      /\ j.question = q.question /\ j.verify_code = q.verify_code
      /\ j.leader = IF q.leader = -1 THEN s ELSE q.leader
  BY <1>1, <1>2 DEF JoinRoom, rooms_
<1>4. Taken(j) = Taken(q) \cup {s}
  BY <1>1, <1>2, <1>3 DEF Taken, rooms_
<1>5. ASSUME Led(q) PROVE Led(j)
  <2>1. CASE Taken(q) = {}
    BY <1>1, <1>3, <1>4, <1>5, <2>1 DEF Led
  <2>2. CASE Taken(q) # {}
    <3>1. q.leader \in Taken(q) /\ q.leader # -1
      BY <1>5, <2>2, SeatsAreNumbers DEF Led, Taken
    <3> QED
      BY <1>3, <1>4, <3>1 DEF Led
  <2> QED
    BY <2>1, <2>2
<1>6. SameLeader(q, j)
  BY <1>3, SeatsAreNumbers DEF SameLeader, Taken
<1> QED
  BY <1>3, <1>5, <1>6 DEF s, KeepsLead

-----------------------------------------------------------------------------
(* The inductive invariant.                                                *)

In(c, r) == info[c] # NULL /\ info[c].room = r
SeatsOf(c, r) == {s \in Seat : room[r].clients[s] = c}

\* A client has one seat of the room its game info names and no other.
Seated ==
  \A c \in Client : \A r \in Room :
    /\ In(c, r) => \E s \in Seat : SeatsOf(c, r) = {s}
    /\ ~In(c, r) => SeatsOf(c, r) = {}

\* A client that looks for a room has none.
SeekersStand ==
  \A c \in Client : seek[c] # NULL => info[c] # NULL /\ info[c].room = NULL

SeatInv == TypeOK /\ Seated /\ SeekersStand /\ BothTeams

LEMMA SittingClient ==
  ASSUME SeatInv, NEW c \in Client, NEW r \in Room, In(c, r)
  PROVE  /\ IndexOf(room[r], c) \in Taken(room[r])
         /\ SeatsOf(c, r) = {IndexOf(room[r], c)}
         /\ room[r].clients[IndexOf(room[r], c)] = c
<1>1. PICK s \in Seat : SeatsOf(c, r) = {s}
  BY DEF SeatInv, Seated
<1>2. \A t \in Seat : room[r].clients[t] = c <=> t = s
  BY <1>1 DEF SeatsOf
<1>3. IndexOf(room[r], c) \in Seat /\ room[r].clients[IndexOf(room[r], c)] = c
  BY <1>2 DEF IndexOf
<1>4. c # NULL
  BY NullAssumption
<1> QED
  BY <1>1, <1>2, <1>3, <1>4 DEF Taken

\* What a step may do to a room, seen from its seats.
Vacated(c) ==
  \A r \in Room :
    /\ room'[r].clients
         = [s \in Seat |-> IF room[r].clients[s] = c
                           THEN NULL ELSE room[r].clients[s]]
    /\ room'[r].running => room[r].running /\ BothSides(room'[r])
    /\ room'[r].pos = room[r].pos /\ room'[r].question = room[r].question
    /\ room'[r].questions = room[r].questions
    /\ room'[r].verify_code = room[r].verify_code
    /\ KeepsLead(room[r], room'[r])

LEMMA GetUpVacates ==
  ASSUME SeatInv, NEW c \in Client, info[c] # NULL, GetUp(c)
  PROVE  room' \in [Room -> rooms_] /\ Vacated(c)
<1>1. /\ room \in [Room -> rooms_]
      /\ \A r \in Room : room[r].running => BothSides(room[r])
      /\ \A r \in Room : ~In(c, r) => SeatsOf(c, r) = {}
  BY DEF SeatInv, TypeOK, BothTeams, BothSides, Seated
<1>2. ASSUME NEW r \in Room, room'[r] = room[r], ~In(c, r)
      PROVE  /\ room'[r].clients
                  = [s \in Seat |-> IF room[r].clients[s] = c
                                    THEN NULL ELSE room[r].clients[s]]
             /\ room'[r].running => room[r].running /\ BothSides(room'[r])
  <2>1. \A s \in Seat : room[r].clients[s] # c
    BY <1>1, <1>2 DEF SeatsOf
  <2>2. room[r].clients \in [Seat -> Client \cup {NULL}]
    BY <1>1 DEF rooms_
  <2> QED
    BY <1>1, <1>2, <2>1, <2>2
<1>3. CASE info[c].room = NULL
  <2>1. \A r \in Room : ~In(c, r)
    BY <1>3, NullAssumption, SeatsAreNumbers DEF In
  <2>2. room' = room
    BY <1>3 DEF GetUp
  <2> QED
    BY <1>1, <1>2, <2>1, <2>2, SameLead DEF Vacated
<1>4. CASE info[c].room # NULL
  <2> DEFINE q == info[c].room
             s == IndexOf(room[q], c)
  <2>1. q \in Room /\ In(c, q) /\ \A r \in Room \ {q} : ~In(c, r)
    BY <1>4 DEF In, SeatInv, TypeOK, ask_game_info
  <2>2. /\ s \in Taken(room[q]) /\ s \in Seat
        /\ SeatsOf(c, q) = {s}
    BY <2>1, SittingClient DEF Taken
  <2>3. room' = [room EXCEPT ![q] = LeaveRoom(@, s)]
    BY <1>4, <2>1 DEF GetUp
  <2> HIDE DEF q, s
  <2>4. room[q] \in rooms_
    BY <1>1, <2>1
  <2>5. PICK b \in BOOLEAN, l \in Int :
          /\ LeaveRoom(room[q], s)
               = [Emptied(room[q], s) EXCEPT !.running = b, !.leader = l]
          /\ b => room[q].running
          /\ b /\ BothSides(room[q]) => BothSides(Emptied(room[q], s))
    BY <2>2, <2>4, LeaveRoomShape
  <2> DEFINE e == Emptied(room[q], s)
             v == LeaveRoom(room[q], s)
  <2>6. e \in rooms_
    BY <2>2, <2>4, EmptiedSeat
  <2>7. /\ v \in rooms_ /\ v.running = b /\ v.clients = e.clients
        /\ v.pos = e.pos /\ v.question = e.question
        /\ v.questions = e.questions /\ v.verify_code = e.verify_code
    BY <2>5, <2>6 DEF rooms_
  <2>8. /\ e.pos = room[q].pos /\ e.question = room[q].question
        /\ e.questions = room[q].questions
        /\ e.verify_code = room[q].verify_code
        /\ e.clients = [room[q].clients EXCEPT ![s] = NULL]
    BY <2>4 DEF Emptied, rooms_
  <2>9. e.clients = [t \in Seat |-> IF room[q].clients[t] = c
                                    THEN NULL ELSE room[q].clients[t]]
    <3>1. \A t \in Seat : room[q].clients[t] = c <=> t = s
      BY <2>2 DEF SeatsOf
    <3>2. room[q].clients \in [Seat -> Client \cup {NULL}]
      BY <2>4 DEF rooms_
    <3> QED
      BY <2>8, <3>1, <3>2
  <2>10. b => BothSides(v)
    <3>1. Taken(v) = Taken(e)
      BY <2>7 DEF Taken
    <3> QED
      BY <1>1, <2>1, <2>5, <3>1 DEF BothSides
  <2>11. KeepsLead(room[q], v)
    <3>1. Led(room[q]) => Led(v)
      BY <1>1, <2>1, <2>2, <2>4, LedLeave
    <3>2. SameLeader(room[q], v)
      BY <2>2, <2>4, LeaderLeave
    <3> QED
      BY <3>1, <3>2 DEF KeepsLead
  <2>12. room'[q] = v /\ \A r \in Room \ {q} : room'[r] = room[r]
    BY <1>1, <2>1, <2>3
  <2>13. room' \in [Room -> rooms_]
    BY <1>1, <2>1, <2>3, <2>7
  <2> HIDE DEF e, v
  <2>14. ASSUME NEW r \in Room
         PROVE  /\ room'[r].clients
                     = [t \in Seat |-> IF room[r].clients[t] = c
                                       THEN NULL ELSE room[r].clients[t]]
                /\ room'[r].running => room[r].running /\ BothSides(room'[r])
                /\ room'[r].pos = room[r].pos
                /\ room'[r].question = room[r].question
                /\ room'[r].questions = room[r].questions
                /\ room'[r].verify_code = room[r].verify_code
                /\ KeepsLead(room[r], room'[r])
    <3>1. CASE r = q
      BY <2>5, <2>7, <2>8, <2>9, <2>10, <2>11, <2>12, <3>1
    <3>2. CASE r # q
      BY <1>2, <2>1, <2>12, <3>2, SameLead
    <3> QED
      BY <3>1, <3>2
  <2> QED
    BY <2>13, <2>14 DEF Vacated
<1> QED
  BY <1>3, <1>4

-----------------------------------------------------------------------------
(* Every step keeps the seats.                                             *)

StaysLed == \A r \in Room : KeepsLead(room[r], room'[r])

\* Steps in which nobody sits down or gets up, and no game starts.
LEMMA SameSeats ==
  ASSUME SeatInv, TypeOK',
         \A r \in Room : /\ room'[r].clients = room[r].clients
                         /\ room'[r].running => room[r].running,
         \A c \in Client, r \in Room : In(c, r)' <=> In(c, r),
         SeekersStand'
  PROVE  SeatInv'
<1>1. \A r \in Room : Taken(room'[r]) = Taken(room[r])
  BY DEF Taken
<1>2. BothTeams'
  BY <1>1 DEF BothTeams, SeatInv
<1>3. \A c \in Client, r \in Room : SeatsOf(c, r)' = SeatsOf(c, r)
  BY DEF SeatsOf
<1>4. Seated'
  BY <1>3 DEF Seated, SeatInv
<1> QED
  BY <1>2, <1>4 DEF SeatInv

\* Steps that begin with getting up.
LEMMA VacatedSeats ==
  ASSUME SeatInv, TypeOK', NEW c \in Client, Vacated(c),
         \A r \in Room : ~In(c, r)',
         \A d \in Client \ {c} : info'[d] = info[d],
         SeekersStand'
  PROVE  SeatInv' /\ StaysLed
<1>1. BothTeams'
  BY DEF BothTeams, Vacated, BothSides
<1>2. ASSUME NEW d \in Client, NEW r \in Room
      PROVE  SeatsOf(d, r)' = IF d = c THEN {} ELSE SeatsOf(d, r)
  <2>1. \A s \in Seat : room'[r].clients[s] =
          IF room[r].clients[s] = c THEN NULL ELSE room[r].clients[s]
    BY DEF Vacated
  <2>2. c # NULL /\ d # NULL
    BY NullAssumption
  <2> QED
    BY <2>1, <2>2 DEF SeatsOf
<1>3. Seated'
  <2>1. \A d \in Client \ {c}, r \in Room : In(d, r)' <=> In(d, r)
    BY DEF In
  <2> QED
    BY <1>2, <2>1 DEF Seated, SeatInv
<1> QED
  BY <1>1, <1>3 DEF SeatInv, StaysLed, Vacated

LEMMA ClientJoinStep ==
  ASSUME SeatInv, NEW c \in Client, ClientJoin(c)
  PROVE  SeatInv' /\ StaysLed
<1>1. TypeOK'
  BY DEF ClientJoin, SeatInv, TypeOK, ask_game_info
<1>2. \A d \in Client, r \in Room : In(d, r)' <=> In(d, r)
  <2>1. \A r \in Room : ~In(c, r) /\ ~In(c, r)'
    BY NullAssumption, SeatsAreNumbers DEF ClientJoin, In, SeatInv, TypeOK, ask_game_info
  <2> QED
    BY <2>1 DEF ClientJoin, In, SeatInv, TypeOK, ask_game_info
<1>3. SeekersStand'
  BY DEF ClientJoin, SeekersStand, SeatInv, TypeOK, ask_game_info
<1>4. room' = room
  BY DEF ClientJoin
<1> QED
  BY <1>1, <1>2, <1>3, <1>4, SameSeats, SameLead DEF StaysLed

LEMMA FinderInRange ==
  ASSUME SeatInv, NEW c \in Client, info[c] # NULL
  PROVE  FinderStart(c) \in Room
<1>1. info[c].finder \in Nat /\ info[c].finder + 1 \in Int
  BY DEF SeatInv, TypeOK, ask_game_info
<1>2. ROOM_COUNT \in Nat \ {0}
  BY RoomsAssumption
<1>3. (info[c].finder + 1) % ROOM_COUNT \in 0..ROOM_COUNT - 1
  BY <1>1, <1>2, ModRange
<1> QED
  BY <1>2, <1>3 DEF FinderStart, Room

LEMMA AskStep ==
  ASSUME SeatInv, NEW c \in Client, info[c] # NULL, seek[c] = NULL, GetUp(c),
         info' = [info EXCEPT ![c].room = NULL],
         NEW v \in Searches \cup {NULL},
         seek' = [seek EXCEPT ![c] = v], UNCHANGED <<tasks, up, asked>>
  PROVE  SeatInv' /\ StaysLed
<1>1. room' \in [Room -> rooms_] /\ Vacated(c)
  BY GetUpVacates
<1>2. info'[c] # NULL /\ info'[c].room = NULL
  <2>1. PICK i \in ask_game_info : i = info[c]
    BY DEF SeatInv, TypeOK
  <2>2. info'[c] = [i EXCEPT !.room = NULL]
    BY <2>1 DEF SeatInv, TypeOK
  <2>3. /\ [i EXCEPT !.room = NULL] \in ask_game_info
        /\ [i EXCEPT !.room = NULL].room = NULL
    BY DEF ask_game_info
  <2> QED
    BY <2>2, <2>3, NullAssumption
<1>3. TypeOK'
  <2>1. info' \in [Client -> {NULL} \cup ask_game_info]
    <3>1. PICK i \in ask_game_info : i = info[c]
      BY DEF SeatInv, TypeOK
    <3>2. [i EXCEPT !.room = NULL] \in ask_game_info
      BY DEF ask_game_info
    <3> QED
      BY <3>1, <3>2 DEF SeatInv, TypeOK
  <2>2. seek' \in [Client -> {NULL} \cup Searches]
    BY DEF SeatInv, TypeOK
  <2> QED
    BY <1>1, <2>1, <2>2 DEF SeatInv, TypeOK
<1>4. \A r \in Room : ~In(c, r)'
  BY <1>2, NullAssumption, SeatsAreNumbers DEF In
<1>5. SeekersStand'
  BY <1>2 DEF SeekersStand, SeatInv, TypeOK
<1>6. \A d \in Client \ {c} : info'[d] = info[d]
  BY DEF SeatInv, TypeOK
<1> QED
  BY <1>1, <1>3, <1>4, <1>5, <1>6, VacatedSeats

LEMMA SearchRoomStep ==
  ASSUME SeatInv, NEW c \in Client, SearchRoom(c)
  PROVE  SeatInv' /\ StaysLed
<1>1. FinderStart(c) \in Room
  BY FinderInRange DEF SearchRoom
<1>2. [named |-> FALSE, at |-> FinderStart(c), start |-> FinderStart(c),
       visited |-> 0, nulls |-> 1] \in Searches
  BY <1>1 DEF Searches
<1> QED
  BY <1>2, AskStep DEF SearchRoom

LEMMA AskForRoomStep ==
  ASSUME SeatInv, NEW c \in Client, NEW k \in PARAMS, AskForRoom(c, k)
  PROVE  SeatInv' /\ StaysLed
<1>1. CASE 0 <= k /\ k < ROOM_CAPACITY
  <2>1. k \in Room
    BY <1>1, RoomsAssumption DEF Room
  <2>2. Named(k) \in Searches
    BY <2>1 DEF Named, Searches
  <2> QED
    BY <1>1, <2>2, AskStep DEF AskForRoom
<1>2. CASE ~(0 <= k /\ k < ROOM_CAPACITY)
  <2>1. seek' = [seek EXCEPT ![c] = NULL]
    BY <1>2 DEF AskForRoom, SeatInv, TypeOK
  <2> QED
    BY <2>1, AskStep DEF AskForRoom
<1> QED
  BY <1>1, <1>2

LEMMA SitDownStep ==
  ASSUME SeatInv, NEW c \in Client, seek[c] # NULL, NEW r \in Room,
         Taken(room[r]) # Seat, ~room[r].running,
         NEW f \in Nat, SitDown(c, r, f), UNCHANGED <<tasks, up, asked>>
  PROVE  SeatInv' /\ StaysLed
<1> DEFINE q == room[r]
           s == FreePos(q)
           j == JoinRoom(q, c, s)
<1>1. /\ q \in rooms_ /\ room \in [Room -> rooms_]
      /\ info[c] # NULL /\ info[c].room = NULL
      /\ \A t \in Room : SeatsOf(c, t) = {}
  <2>1. info[c] # NULL /\ info[c].room = NULL
    BY DEF SeatInv, SeekersStand
  <2>2. \A t \in Room : ~In(c, t)
    BY <2>1, NullAssumption, SeatsAreNumbers DEF In
  <2> QED
    BY <2>1, <2>2 DEF SeatInv, TypeOK, Seated
<1>2. s \in Seat /\ q.clients[s] = NULL
  BY <1>1, FreeSeat
<1>3. /\ j \in rooms_ /\ j.clients = [q.clients EXCEPT ![s] = c]
      /\ ~j.running /\ KeepsLead(q, j)
  BY <1>1, JoinRoomShape
<1>4. room' = [room EXCEPT ![r] = j]
  BY DEF SitDown
<1> HIDE DEF q, s, j
<1>5. room'[r] = j /\ \A t \in Room \ {r} : room'[t] = room[t]
  BY <1>1, <1>4
<1>6. /\ info'[c] # NULL /\ info'[c].room = r
      /\ info' \in [Client -> {NULL} \cup ask_game_info]
      /\ \A d \in Client \ {c} : info'[d] = info[d]
  <2>1. PICK i \in ask_game_info : i = info[c]
    BY <1>1 DEF SeatInv, TypeOK
  <2>2. info' = [info EXCEPT ![c] = [i EXCEPT !.room = r, !.finder = f]]
    BY <2>1 DEF SitDown, SeatInv, TypeOK
  <2>3. /\ [i EXCEPT !.room = r, !.finder = f] \in ask_game_info
        /\ [i EXCEPT !.room = r, !.finder = f].room = r
    BY DEF ask_game_info
  <2> QED
    BY <2>2, <2>3, NullAssumption DEF SeatInv, TypeOK
<1>7. TypeOK'
  BY <1>1, <1>3, <1>4, <1>6 DEF SitDown, SeatInv, TypeOK
<1>8. ASSUME NEW d \in Client, NEW t \in Room
      PROVE  SeatsOf(d, t)' =
               IF d = c /\ t = r THEN {s} ELSE SeatsOf(d, t)
  <2>1. c # NULL /\ d # NULL
    BY NullAssumption
  <2>2. q.clients \in [Seat -> Client \cup {NULL}]
    BY <1>1 DEF rooms_
  <2>3. CASE t # r
    BY <1>5, <2>3 DEF SeatsOf
  <2>4. CASE t = r
    <3>1. \A u \in Seat : room'[t].clients[u] =
                            IF u = s THEN c ELSE q.clients[u]
      BY <1>2, <1>3, <1>5, <2>2, <2>4
    <3>2. SeatsOf(d, t) = {u \in Seat : q.clients[u] = d}
      BY <2>4 DEF SeatsOf, q
    <3>3. SeatsOf(d, t)' = {u \in Seat : room'[t].clients[u] = d}
      BY DEF SeatsOf
    <3>4. CASE d = c
      <4>1. \A u \in Seat : q.clients[u] # d
        BY <1>1, <2>4, <3>2, <3>4
      <4> QED
        BY <1>2, <2>4, <3>1, <3>3, <3>4, <4>1
    <3>5. CASE d # c
      <4>1. \A u \in Seat : room'[t].clients[u] = d <=> q.clients[u] = d
        BY <1>2, <2>1, <3>1, <3>5
      <4> QED
        BY <3>2, <3>3, <3>5, <4>1
    <3> QED
      BY <3>4, <3>5
  <2> QED
    BY <2>3, <2>4
<1>9. Seated'
  <2>1. \A d \in Client, t \in Room :
          In(d, t)' <=> (d = c /\ t = r) \/ (d # c /\ In(d, t))
    BY <1>6 DEF In
  <2>2. \A t \in Room : SeatsOf(c, t) = {}
    BY <1>1
  <2> QED
    BY <1>2, <1>8, <2>1, <2>2 DEF Seated, SeatInv
<1>10. SeekersStand'
  BY <1>6 DEF SitDown, SeekersStand, SeatInv, TypeOK
<1>11. BothTeams'
  BY <1>3, <1>5 DEF BothTeams, SeatInv
<1>12. StaysLed
  BY <1>3, <1>5, SameLead DEF StaysLed, q
<1> QED
  BY <1>7, <1>9, <1>10, <1>11, <1>12 DEF SeatInv

LEMMA EnterRoomStep ==
  ASSUME SeatInv, NEW c \in Client, EnterRoom(c)
  PROVE  SeatInv' /\ StaysLed
<1>1. seek[c] \in Searches /\ seek[c].at \in Room /\ info[c] # NULL
  BY DEF EnterRoom, SeatInv, TypeOK, Searches, SeekersStand
<1>2. info[c].finder \in Nat
  BY <1>1 DEF SeatInv, TypeOK, ask_game_info
<1>3. room[seek[c].at] \in rooms_
  BY <1>1 DEF SeatInv, TypeOK
<1>4. CASE room[seek[c].at].running \/ Taken(room[seek[c].at]) = Seat
  <2>1. /\ seek' = [seek EXCEPT ![c] = NULL]
        /\ UNCHANGED <<room, info, tasks, up, asked>>
    BY <1>4 DEF EnterRoom
  <2>2. TypeOK'
    BY <2>1 DEF SeatInv, TypeOK
  <2>3. SeekersStand'
    BY <2>1 DEF SeatInv, TypeOK, SeekersStand
  <2>4. \A d \in Client, r \in Room : In(d, r)' <=> In(d, r)
    BY <2>1 DEF In
  <2> QED
    BY <2>1, <2>2, <2>3, <2>4, SameSeats, SameLead DEF StaysLed
<1>5. CASE ~(room[seek[c].at].running \/ Taken(room[seek[c].at]) = Seat)
  <2>1. SitDown(c, seek[c].at, info[c].finder)
        /\ UNCHANGED <<tasks, up, asked>> /\ seek[c] # NULL
    BY <1>5 DEF EnterRoom
  <2> QED
    BY <1>1, <1>2, <1>5, <2>1, SitDownStep
<1> QED
  BY <1>4, <1>5

\* The steps of a search that find no seat.
LEMMA VisitStep ==
  ASSUME SeatInv, NEW c \in Client, seek[c] # NULL,
         NEW v \in Searches \cup {NULL}, seek' = [seek EXCEPT ![c] = v],
         UNCHANGED <<room, info, tasks, up, asked>>
  PROVE  SeatInv' /\ StaysLed
<1>1. TypeOK'
  BY DEF SeatInv, TypeOK
<1>2. SeekersStand'
  BY DEF SeatInv, TypeOK, SeekersStand
<1>3. \A d \in Client, r \in Room : In(d, r)' <=> In(d, r)
  BY DEF In
<1> QED
  BY <1>1, <1>2, <1>3, SameSeats, SameLead DEF StaysLed

LEMMA VisitBusyStep ==
  ASSUME SeatInv, NEW c \in Client, VisitBusy(c)
  PROVE  SeatInv' /\ StaysLed
<1>1. PICK v \in Searches : v = seek[c]
  BY DEF VisitBusy, Searching, SeatInv, TypeOK
<1>2. v.at \in Room /\ v.at \in Int /\ v.visited + 1 \in Nat
  <2>1. v.at \in Room /\ v.visited \in Nat
    BY DEF Searches
  <2>2. v.at \in Int
    BY <2>1, RoomsAssumption DEF Room
  <2>3. v.visited + 1 \in Nat
    BY <2>1
  <2> QED
    BY <2>1, <2>2, <2>3
<1>3. (v.at + 1) % ROOM_COUNT \in Room
  <2>1. v.at + 1 \in Int /\ ROOM_COUNT \in Nat \ {0}
    BY <1>2, RoomsAssumption
  <2> QED
    BY <2>1, ModRange DEF Room
<1>4. [v EXCEPT !.visited = @ + 1, !.at = (@ + 1) % ROOM_COUNT] \in Searches
  <2>1. ASSUME NEW n \in Nat, NEW a \in Room
        PROVE  [v EXCEPT !.visited = n, !.at = a] \in Searches
    BY DEF Searches
  <2>2. [v EXCEPT !.visited = v.visited + 1, !.at = (v.at + 1) % ROOM_COUNT]
          \in Searches
    BY <1>2, <1>3, <2>1
  <2> QED
    BY <2>2
<1>5. /\ seek[c] # NULL
      /\ seek' = [seek EXCEPT ![c] =
           IF v.visited + 1 = ROOM_COUNT THEN NULL
           ELSE [v EXCEPT !.visited = @ + 1, !.at = (@ + 1) % ROOM_COUNT]]
      /\ UNCHANGED <<room, info, tasks, up, asked>>
  BY <1>1 DEF VisitBusy, Searching
<1> QED
  BY <1>4, <1>5, VisitStep

LEMMA VisitEmptyStep ==
  ASSUME SeatInv, NEW c \in Client, VisitEmpty(c)
  PROVE  SeatInv' /\ StaysLed
<1>1. PICK v \in Searches : v = seek[c]
  BY DEF VisitEmpty, Searching, SeatInv, TypeOK
<1>2. v.nulls > 0 /\ v.nulls \in {0, 1} /\ 0 \in Room
  BY <1>1, RoomsAssumption DEF VisitEmpty, TurnsBack, Searches, Room
<1>3. [v EXCEPT !.nulls = @ - 1, !.visited = 0, !.at = 0] \in Searches
  <2>1. v.nulls - 1 = 0
    BY <1>2
  <2>2. [v EXCEPT !.nulls = 0, !.visited = 0, !.at = 0] \in Searches
    BY <1>2 DEF Searches
  <2>3. [v EXCEPT !.nulls = @ - 1, !.visited = 0, !.at = 0]
          = [v EXCEPT !.nulls = 0, !.visited = 0, !.at = 0]
    BY <2>1
  <2> QED
    BY <2>2, <2>3
<1>4. /\ seek[c] # NULL
      /\ seek' = [seek EXCEPT ![c] =
           [v EXCEPT !.nulls = @ - 1, !.visited = 0, !.at = 0]]
      /\ UNCHANGED <<room, info, tasks, up, asked>>
  BY <1>1 DEF VisitEmpty, Searching, SeatInv, TypeOK
<1> QED
  BY <1>3, <1>4, VisitStep

LEMMA VisitFreeStep ==
  ASSUME SeatInv, NEW c \in Client, VisitFree(c)
  PROVE  SeatInv' /\ StaysLed
<1>1. seek[c] \in Searches /\ seek[c].at \in Room /\ seek[c].visited \in Nat
  BY DEF VisitFree, Searching, SeatInv, TypeOK, Searches
<1> QED
  BY <1>1, SitDownStep DEF VisitFree, Searching

LEMMA ReadyInfo ==
  ASSUME SeatInv, NEW c \in Client, info[c] # NULL,
         info' = [info EXCEPT ![c].ready = TRUE], seek' = seek
  PROVE  /\ info' \in [Client -> {NULL} \cup ask_game_info]
         /\ \A d \in Client, r \in Room : In(d, r)' <=> In(d, r)
         /\ SeekersStand'
<1>1. PICK i \in ask_game_info : i = info[c]
  BY DEF SeatInv, TypeOK
<1>2. info' = [info EXCEPT ![c] = [i EXCEPT !.ready = TRUE]]
  BY <1>1 DEF SeatInv, TypeOK
<1>3. /\ [i EXCEPT !.ready = TRUE] \in ask_game_info
      /\ [i EXCEPT !.ready = TRUE].room = i.room
  BY DEF ask_game_info
<1>4. /\ info' \in [Client -> {NULL} \cup ask_game_info]
      /\ info'[c] # NULL /\ info'[c].room = info[c].room
      /\ \A d \in Client \ {c} : info'[d] = info[d]
  BY <1>1, <1>2, <1>3, NullAssumption DEF SeatInv, TypeOK
<1> QED
  BY <1>4 DEF In, SeekersStand, SeatInv

LEMMA ReadyMemberStep ==
  ASSUME SeatInv, NEW c \in Client, ReadyMember(c)
  PROVE  SeatInv' /\ StaysLed
<1>1. /\ info' \in [Client -> {NULL} \cup ask_game_info]
      /\ \A d \in Client, r \in Room : In(d, r)' <=> In(d, r)
      /\ SeekersStand'
  BY ReadyInfo DEF ReadyMember, MayReady
<1>2. TypeOK'
  BY <1>1 DEF ReadyMember, SeatInv, TypeOK
<1>3. room' = room
  BY DEF ReadyMember
<1> QED
  BY <1>1, <1>2, <1>3, SameSeats, SameLead DEF StaysLed

\* The leader sits in one of two teams of one size.
LEMMA TeamsAtStart ==
  ASSUME NEW q \in rooms_, q.leader \in Taken(q), CanStart(q)
  PROVE  BothSides(q)
<1> DEFINE T(team) == Taken(q) \cap Side(team)
<1>1. /\ IsFiniteSet(T(0)) /\ IsFiniteSet(T(1))
      /\ Cardinality(T(0)) = Cardinality(T(1))
  <2>1. IsFiniteSet(Seat)
    BY FS_Interval, RoomsAssumption DEF Seat
  <2>2. \A team \in {0, 1} : T(team) \subseteq Seat
    BY DEF Side
  <2> QED
    BY <2>1, <2>2, FS_Subset DEF CanStart
<1>2. q.leader \in Seat /\ q.leader % 2 \in {0, 1}
  <2>1. q.leader \in Seat /\ q.leader \in Nat
    BY SeatsAreNumbers DEF Taken
  <2> QED
    BY <2>1
<1>3. T(0) # {} \/ T(1) # {}
  BY <1>2 DEF Side
<1>4. T(0) = {} <=> T(1) = {}
  BY <1>1, FS_EmptySet
<1> QED
  BY <1>3, <1>4 DEF BothSides

LEMMA GameFields ==
  ASSUME NEW q \in rooms_, NEW b \in BOOLEAN, NEW p \in {-1, 0, 1},
         NEW k \in Nat \cup {-1}, NEW n \in Nat, NEW v \in Nat
  PROVE  [q EXCEPT !.running = b, !.pos = p, !.question = k,
                   !.questions = n, !.verify_code = v] \in rooms_
  BY DEF rooms_

LEMMA ReadyLeaderStep ==
  ASSUME SeatInv, NEW c \in Client, ReadyLeader(c)
  PROVE  SeatInv' /\ StaysLed
<1> DEFINE r == info[c].room
           q == room[r]
           b == Begin(q)
<1>1. /\ r \in Room /\ In(c, r) /\ q \in rooms_
      /\ room \in [Room -> rooms_]
  BY DEF ReadyLeader, MayReady, In, SeatInv, TypeOK, ask_game_info
<1>2. /\ IndexOf(q, c) = q.leader /\ CanStart(q)
      /\ room' = [room EXCEPT ![r] = b]
      /\ tasks' = tasks \cup
           {[kind |-> "start", room |-> r, code |-> room'[r].verify_code]}
      /\ asked' = [asked EXCEPT ![r] = <<>>]
      /\ up' = up /\ seek' = seek
  BY DEF ReadyLeader
<1>3. q.leader \in Taken(q)
  BY <1>1, <1>2, SittingClient
<1>4. /\ info' \in [Client -> {NULL} \cup ask_game_info]
      /\ \A d \in Client, t \in Room : In(d, t)' <=> In(d, t)
      /\ SeekersStand'
  BY ReadyInfo DEF ReadyLeader, MayReady
<1>5. BothSides(q)
  BY <1>1, <1>2, <1>3, TeamsAtStart
<1> HIDE DEF r, q
<1>6. /\ b \in rooms_ /\ b.clients = q.clients /\ b.leader = q.leader
      /\ b.running = TRUE
  <2>1. /\ q.questions + QUESTION_COUNT \in Nat
        /\ q.verify_code + 1 \in Nat
    BY <1>1, QuestionsAssumption DEF rooms_
  <2>2. PICK n \in Nat, v \in Nat :
          n = q.questions + QUESTION_COUNT /\ v = q.verify_code + 1
    BY <2>1
  <2>3. b = [q EXCEPT !.running = TRUE, !.pos = -1, !.question = -1,
                      !.questions = n, !.verify_code = v]
    BY <2>2 DEF Begin
  <2>4. q \in rooms_
    BY <1>1
  <2> HIDE DEF b
  <2>5. b \in rooms_
    <3>1. -1 \in {-1, 0, 1} /\ -1 \in Nat \cup {-1}
      OBVIOUS
    <3> QED
      BY <2>3, <2>4, <3>1, GameFields
  <2>6. b.clients = q.clients /\ b.leader = q.leader /\ b.running = TRUE
    BY <2>3, <2>4 DEF rooms_
  <2> QED
    BY <2>5, <2>6
<1>7. Taken(b) = Taken(q)
  BY <1>6 DEF Taken
<1>8. room'[r] = b /\ \A t \in Room \ {r} : room'[t] = room[t]
  BY <1>1, <1>2
<1>9. Led(b)
  BY <1>3, <1>6 DEF Led, Taken
<1>10. BothTeams'
  BY <1>5, <1>7, <1>8 DEF BothTeams, BothSides, SeatInv
<1>11. TypeOK'
  <2>1. room'[r].verify_code \in Nat
    BY <1>6, <1>8 DEF rooms_
  <2>2. tasks' \subseteq Tasks
    <3>1. [kind |-> "start", room |-> r, code |-> room'[r].verify_code]
            \in Tasks
      BY <1>1, <2>1 DEF Tasks
    <3> QED
      BY <1>2, <3>1 DEF SeatInv, TypeOK
  <2>3. asked' \in [Room -> Seq(Nat \X {0, 1})]
    <3>1. <<>> \in Seq(Nat \X {0, 1})
      OBVIOUS
    <3> QED
      BY <1>2, <3>1 DEF SeatInv, TypeOK
  <2>4. room' \in [Room -> rooms_]
    BY <1>1, <1>2, <1>6
  <2> QED
    BY <1>2, <1>4, <2>2, <2>3, <2>4 DEF SeatInv, TypeOK
<1>12. \A d \in Client, t \in Room : SeatsOf(d, t)' = SeatsOf(d, t)
  BY <1>6, <1>8 DEF SeatsOf, q
<1>13. Seated'
  BY <1>4, <1>12 DEF Seated, SeatInv
<1>14. StaysLed
  <2>1. KeepsLead(q, b)
    BY <1>6, <1>9 DEF KeepsLead, SameLeader
  <2> QED
    BY <1>8, <2>1, SameLead DEF StaysLed, q
<1> QED
  BY <1>4, <1>10, <1>11, <1>13, <1>14 DEF SeatInv

\* A step of the timers or of an answer that goes on.
LEMMA SameGame ==
  ASSUME SeatInv, NEW r \in Room, NEW q \in rooms_,
         room' = [room EXCEPT ![r] = q],
         q.clients = room[r].clients, q.running = room[r].running,
         q.leader = room[r].leader,
         tasks' \subseteq Tasks, asked' \in [Room -> Seq(Nat \X {0, 1})],
         UNCHANGED <<info, seek, up>>
  PROVE  SeatInv' /\ StaysLed
<1>1. room \in [Room -> rooms_]
  BY DEF SeatInv, TypeOK
<1>2. room'[r] = q /\ \A t \in Room \ {r} : room'[t] = room[t]
  BY <1>1
<1>3. TypeOK'
  BY <1>1 DEF SeatInv, TypeOK
<1>4. SeekersStand'
  BY DEF SeekersStand, SeatInv
<1>5. \A c \in Client, t \in Room : In(c, t)' <=> In(c, t)
  BY DEF In
<1>6. \A t \in Room : /\ room'[t].clients = room[t].clients
                      /\ room'[t].running = room[t].running
                      /\ room'[t].leader = room[t].leader
  BY <1>2
<1>7. StaysLed
  BY <1>6, SameLead DEF StaysLed
<1> QED
  BY <1>3, <1>4, <1>5, <1>6, <1>7, SameSeats

LEMMA RoomGameStartStep ==
  ASSUME SeatInv, NEW t \in tasks, RoomGameStart(t)
  PROVE  SeatInv' /\ StaysLed
<1> DEFINE r == t.room
           q == room[r]
<1>1. /\ r \in Room /\ q \in rooms_ /\ q.verify_code + 1 \in Nat
      /\ room \in [Room -> rooms_]
  BY DEF SeatInv, TypeOK, Tasks, rooms_
<1>2. CASE Concerns(t) /\ q.questions > 0
  <2>1. /\ room' = [room EXCEPT ![r].pos = -1, ![r].verify_code = @ + 1]
        /\ tasks' = (tasks \ {t}) \cup
             {[kind |-> "question", room |-> r, code |-> room'[r].verify_code]}
        /\ UNCHANGED <<info, seek, up, asked>>
    BY <1>2 DEF RoomGameStart
  <2>2. PICK v \in Nat : v = q.verify_code + 1
    BY <1>1
  <2> DEFINE p == [q EXCEPT !.pos = -1, !.verify_code = v]
  <2> HIDE DEF r
  <2>3. room' = [room EXCEPT ![r] = p]
    BY <1>1, <2>1, <2>2
  <2>4. /\ p \in rooms_ /\ p.clients = q.clients /\ p.running = q.running
        /\ p.leader = q.leader /\ p.verify_code = v
    BY <1>1 DEF rooms_
  <2>5. tasks' \subseteq Tasks
    <3>1. room'[r].verify_code = v
      BY <1>1, <2>3, <2>4
    <3>2. [kind |-> "question", room |-> r, code |-> v] \in Tasks
      BY <1>1 DEF Tasks
    <3> QED
      BY <2>1, <3>1, <3>2 DEF SeatInv, TypeOK
  <2>6. asked' \in [Room -> Seq(Nat \X {0, 1})]
    BY <2>1 DEF SeatInv, TypeOK
  <2> HIDE DEF p
  <2> QED
    BY <1>1, <2>1, <2>3, <2>4, <2>5, <2>6, SameGame
<1>3. CASE ~(Concerns(t) /\ q.questions > 0)
  <2>1. tasks' = tasks \ {t} /\ UNCHANGED <<room, info, seek, up, asked>>
    BY <1>3 DEF RoomGameStart
  <2>2. /\ room' = [room EXCEPT ![r] = q]
        /\ tasks' \subseteq Tasks /\ asked' \in [Room -> Seq(Nat \X {0, 1})]
    BY <1>1, <2>1 DEF SeatInv, TypeOK
  <2> QED
    BY <1>1, <2>1, <2>2, SameGame
<1> QED
  BY <1>2, <1>3

LEMMA AskedFields ==
  ASSUME NEW q \in rooms_, NEW p \in {-1, 0, 1}, NEW k \in Nat
  PROVE  /\ [q EXCEPT !.pos = p, !.question = k] \in rooms_
         /\ [q EXCEPT !.pos = p, !.question = k].clients = q.clients
         /\ [q EXCEPT !.pos = p, !.question = k].running = q.running
         /\ [q EXCEPT !.pos = p, !.question = k].leader = q.leader
         /\ [q EXCEPT !.pos = p, !.question = k].pos = p
         /\ [q EXCEPT !.pos = p, !.question = k].question = k
         /\ [q EXCEPT !.pos = p, !.question = k].questions = q.questions
         /\ [q EXCEPT !.pos = p, !.question = k].verify_code = q.verify_code
  BY DEF rooms_

LEMMA RoomGameQuestionStep ==
  ASSUME SeatInv, NEW t \in tasks, RoomGameQuestion(t)
  PROVE  SeatInv' /\ StaysLed
<1> DEFINE r == t.room
           q == room[r]
<1>1. /\ r \in Room /\ q \in rooms_ /\ q.question + 1 \in Nat
      /\ room \in [Room -> rooms_]
  BY DEF SeatInv, TypeOK, Tasks, rooms_
<1>2. tasks' \subseteq Tasks /\ UNCHANGED <<info, seek, up>>
  BY DEF RoomGameQuestion, SeatInv, TypeOK
<1>3. CASE Concerns(t)
  <2>1. /\ room' = [room EXCEPT ![r].pos = 0, ![r].question = @ + 1]
        /\ asked' = IF room'[r].question < room[r].questions
                    THEN [asked EXCEPT ![r] =
                            Append(@, <<room'[r].question, 0>>)]
                    ELSE asked
    BY <1>3 DEF RoomGameQuestion
  <2>2. PICK k \in Nat : k = q.question + 1
    BY <1>1
  <2> DEFINE p == [q EXCEPT !.pos = 0, !.question = k]
  <2> HIDE DEF r
  <2>3. room' = [room EXCEPT ![r] = p]
    BY <1>1, <2>1, <2>2
  <2>4. /\ p \in rooms_ /\ p.clients = q.clients /\ p.running = q.running
        /\ p.leader = q.leader /\ p.question = k
    BY <1>1, AskedFields
  <2>5. asked' \in [Room -> Seq(Nat \X {0, 1})]
    <3>1. room'[r].question = k
      BY <1>1, <2>3, <2>4
    <3>2. asked \in [Room -> Seq(Nat \X {0, 1})]
      BY DEF SeatInv, TypeOK
    <3>3. Append(asked[r], <<k, 0>>) \in Seq(Nat \X {0, 1})
      BY <1>1, <3>2
    <3> QED
      BY <2>1, <3>1, <3>2, <3>3
  <2> HIDE DEF p
  <2> QED
    BY <1>1, <1>2, <2>3, <2>4, <2>5, SameGame
<1>4. CASE ~Concerns(t)
  <2>1. room' = room /\ asked' = asked
    BY <1>4 DEF RoomGameQuestion
  <2>2. room' = [room EXCEPT ![r] = q]
        /\ asked' \in [Room -> Seq(Nat \X {0, 1})]
    BY <1>1, <2>1 DEF SeatInv, TypeOK
  <2> QED
    BY <1>1, <1>2, <2>2, SameGame
<1> QED
  BY <1>3, <1>4

LEMMA AnswerStep ==
  ASSUME SeatInv, NEW c \in Client, NEW n, Answer(c, n)
  PROVE  SeatInv' /\ StaysLed
<1> DEFINE r == info[c].room
           q == room[r]
<1>1. /\ r \in Room /\ q \in rooms_ /\ room \in [Room -> rooms_]
      /\ q.running /\ n = q.question /\ n >= 0
      /\ UNCHANGED <<info, seek, tasks, up>>
  BY DEF Answer, MayAnswer, SeatInv, TypeOK, ask_game_info
<1>2. q.question + 1 \in Nat /\ (q.pos + 1) % 2 \in {0, 1}
  BY <1>1 DEF rooms_
<1>3. tasks' \subseteq Tasks
  BY <1>1 DEF SeatInv, TypeOK
<1>4. CASE n < q.questions - 1
  <2>1. /\ room' = [room EXCEPT ![r].question = @ + 1, ![r].pos = (@ + 1) % 2]
        /\ asked' = [asked EXCEPT ![r] =
                       Append(@, <<room'[r].question, room'[r].pos>>)]
    BY <1>4 DEF Answer
  <2>2. PICK k \in Nat, p \in {0, 1} : k = q.question + 1 /\ p = (q.pos + 1) % 2
    BY <1>2
  <2> DEFINE a == [q EXCEPT !.pos = p, !.question = k]
  <2> HIDE DEF r
  <2>3. room' = [room EXCEPT ![r] = a]
    BY <1>1, <2>1, <2>2 DEF rooms_
  <2>4. /\ a \in rooms_ /\ a.clients = q.clients /\ a.running = q.running
        /\ a.leader = q.leader /\ a.question = k /\ a.pos = p
    <3>1. PICK u \in rooms_ : u = q
      BY <1>1
    <3>2. PICK v \in {-1, 0, 1} : v = p
      OBVIOUS
    <3> DEFINE e == [u EXCEPT !.pos = v, !.question = k]
    <3>3. /\ e \in rooms_ /\ e.clients = u.clients
          /\ e.running = u.running /\ e.leader = u.leader
          /\ e.question = k /\ e.pos = v
      BY DEF rooms_
    <3> QED
      BY <3>1, <3>2, <3>3
  <2> HIDE DEF a
  <2>5. asked' \in [Room -> Seq(Nat \X {0, 1})]
    <3>1. room'[r].question = k /\ room'[r].pos = p
      BY <1>1, <2>3, <2>4
    <3>2. asked \in [Room -> Seq(Nat \X {0, 1})]
      BY DEF SeatInv, TypeOK
    <3>3. Append(asked[r], <<k, p>>) \in Seq(Nat \X {0, 1})
      BY <1>1, <3>2
    <3> QED
      BY <2>1, <3>1, <3>2, <3>3
  <2> QED
    BY <1>1, <1>3, <2>3, <2>4, <2>5, SameGame
<1>5. CASE ~(n < q.questions - 1)
  <2>1. room' = [room EXCEPT ![r] = GameStop(q)] /\ asked' = asked
    BY <1>5 DEF Answer
  <2>2. PICK l \in Int :
          GameStop(q) = [q EXCEPT !.running = FALSE, !.leader = l]
    BY <1>1, GameStopShape
  <2> DEFINE g == GameStop(q)
  <2>3. g \in rooms_ /\ g.clients = q.clients /\ g.running = FALSE
    BY <1>1, <2>2 DEF rooms_
  <2> HIDE DEF g
  <2>4. /\ room'[r] = g /\ \A t \in Room \ {r} : room'[t] = room[t]
        /\ room' \in [Room -> rooms_]
    BY <1>1, <2>1, <2>3 DEF g
  <2>5. TypeOK'
    BY <1>1, <2>1, <2>4 DEF SeatInv, TypeOK
  <2>6. SeekersStand'
    BY <1>1 DEF SeekersStand, SeatInv
  <2>7. \A d \in Client, t \in Room : In(d, t)' <=> In(d, t)
    BY <1>1 DEF In
  <2>8. \A t \in Room : /\ room'[t].clients = room[t].clients
                        /\ room'[t].running => room[t].running
    BY <2>3, <2>4
  <2>9. Led(q) => Led(g)
    <3>1. Taken(q) # {}
      BY <1>1 DEF SeatInv, BothTeams
    <3>2. Led(q) => q.leader \in Seat
      BY <1>1 DEF Led
    <3> QED
      BY <1>1, <3>1, <3>2, LedStop DEF g
  <2>10. StaysLed
    <3>1. SameLeader(q, g)
      BY <1>1 DEF SameLeader, GameStop, g, rooms_
    <3>2. KeepsLead(q, g)
      BY <2>9, <3>1 DEF KeepsLead
    <3> QED
      BY <2>4, <3>2, SameLead DEF StaysLed
  <2> QED
    BY <2>5, <2>6, <2>7, <2>8, <2>10, SameSeats
<1> QED
  BY <1>4, <1>5

LEMMA ClientLeaveStep ==
  ASSUME SeatInv, NEW c \in Client, ClientLeave(c)
  PROVE  SeatInv' /\ StaysLed
<1>1. /\ info[c] # NULL /\ seek[c] = NULL /\ GetUp(c)
      /\ info' = [info EXCEPT ![c] = NULL] /\ up' = FALSE
      /\ UNCHANGED <<seek, tasks, asked>>
  BY DEF ClientLeave
<1>2. room' \in [Room -> rooms_] /\ Vacated(c)
  BY <1>1, GetUpVacates
<1>3. info'[c] = NULL /\ \A d \in Client \ {c} : info'[d] = info[d]
  BY <1>1 DEF SeatInv, TypeOK
<1>4. TypeOK'
  BY <1>1, <1>2 DEF SeatInv, TypeOK
<1>5. \A r \in Room : ~In(c, r)'
  BY <1>3 DEF In
<1>6. SeekersStand'
  BY <1>1, <1>3 DEF SeekersStand, SeatInv
<1> QED
  BY <1>2, <1>3, <1>4, <1>5, <1>6, VacatedSeats

LEMMA SeatInit == Init => SeatInv
<1> SUFFICES ASSUME Init PROVE SeatInv
  OBVIOUS
<1>1. NewRoom \subseteq rooms_
  <2>1. ASSUME NEW g \in Int
        PROVE  [clients |-> [s \in Seat |-> NULL], running |-> FALSE,
                pos |-> -1, leader |-> g, question |-> 0, questions |-> 0,
                verify_code |-> 0] \in rooms_
    <3>1. -1 \in {-1, 0, 1} /\ 0 \in Nat
      OBVIOUS
    <3> QED
      BY <3>1 DEF rooms_
  <2> QED
    BY <2>1, UninitialisedAssumption DEF NewRoom
<1>2. \A r \in Room : /\ room[r].clients = [s \in Seat |-> NULL]
                      /\ room[r].running = FALSE
  BY DEF Init, NewRoom
<1>3. TypeOK
  <2>1. room \in [Room -> rooms_]
    BY <1>1 DEF Init
  <2>2. <<>> \in Seq(Nat \X {0, 1})
    OBVIOUS
  <2> QED
    BY <2>1, <2>2 DEF Init, TypeOK
<1>4. Seated
  <2>1. \A c \in Client, r \in Room : ~In(c, r) /\ SeatsOf(c, r) = {}
    BY <1>2, NullAssumption DEF Init, In, SeatsOf
  <2> QED
    BY <2>1 DEF Seated
<1>5. SeekersStand /\ BothTeams
  BY <1>2 DEF Init, SeekersStand, BothTeams
<1> QED
  BY <1>3, <1>4, <1>5 DEF SeatInv

LEMMA SeatNext ==
  ASSUME SeatInv, [Next]_vars
  PROVE  SeatInv' /\ StaysLed
<1>1. CASE UNCHANGED vars
  <2>1. TypeOK' /\ SeekersStand'
    BY <1>1 DEF SeatInv, TypeOK, SeekersStand, vars
  <2>2. room' = room /\ \A c \in Client, r \in Room : In(c, r)' <=> In(c, r)
    BY <1>1 DEF vars, In
  <2> QED
    BY <2>1, <2>2, SameSeats, SameLead DEF StaysLed
<1>2. ASSUME NEW c \in Client, ClientJoin(c) PROVE SeatInv' /\ StaysLed
  BY <1>2, ClientJoinStep
<1>3. ASSUME NEW c \in Client, SearchRoom(c) PROVE SeatInv' /\ StaysLed
  BY <1>3, SearchRoomStep
<1>4. ASSUME NEW c \in Client, EnterRoom(c) PROVE SeatInv' /\ StaysLed
  BY <1>4, EnterRoomStep
<1>5. ASSUME NEW c \in Client, VisitBusy(c) \/ VisitEmpty(c) \/ VisitFree(c)
      PROVE  SeatInv' /\ StaysLed
  BY <1>5, VisitBusyStep, VisitEmptyStep, VisitFreeStep
<1>6. ASSUME NEW c \in Client, ReadyMember(c) \/ ReadyLeader(c)
      PROVE  SeatInv' /\ StaysLed
  BY <1>6, ReadyMemberStep, ReadyLeaderStep
<1>7. ASSUME NEW c \in Client, ClientLeave(c) PROVE SeatInv' /\ StaysLed
  BY <1>7, ClientLeaveStep
<1>8. ASSUME NEW c \in Client, NEW k \in PARAMS, AskForRoom(c, k)
      PROVE  SeatInv' /\ StaysLed
  BY <1>8, AskForRoomStep
<1>9. ASSUME NEW c \in Client, NEW n \in 0..(MAX_CODE * QUESTION_COUNT),
             Answer(c, n)
      PROVE  SeatInv' /\ StaysLed
  BY <1>9, AnswerStep
<1>10. ASSUME NEW t \in tasks, RoomGameStart(t) \/ RoomGameQuestion(t)
       PROVE  SeatInv' /\ StaysLed
  BY <1>10, RoomGameStartStep, RoomGameQuestionStep
<1> QED
  BY <1>1, <1>2, <1>3, <1>4, <1>5, <1>6, <1>7, <1>8, <1>9, <1>10 DEF Next

LEMMA SeatSafe == Spec => []SeatInv
<1>1. SeatInv /\ [Next]_vars => SeatInv'
  BY SeatNext
<1> QED
  BY <1>1, SeatInit, PTL DEF Spec

(* The state of the rooms, the players and the timers has its types.       *)
THEOREM RoomsTyped == Spec => []TypeOK
  BY SeatSafe, PTL DEF SeatInv

(* A game that runs has players of both teams, for any number of players   *)
(* and rooms and however they leave and enter (ask_plugin.cpp:253-272).    *)
THEOREM GamesHaveBothTeams == Spec => []BothTeams
  BY SeatSafe, PTL DEF SeatInv

(* A player has one seat, and it is in the room its game info names.       *)
THEOREM PlayersHaveOneSeat == Spec => []OneSeat
<1>1. SeatInv => OneSeat
  <2> SUFFICES ASSUME SeatInv, NEW c \in Client, NEW r \in Room
               PROVE  Cardinality(SeatsOf(c, r)) = IF In(c, r) THEN 1 ELSE 0
    BY DEF OneSeat, SeatsOf, In
  <2>1. CASE In(c, r)
    <3>1. PICK s \in Seat : SeatsOf(c, r) = {s}
      BY <2>1 DEF SeatInv, Seated
    <3> QED
      BY <2>1, <3>1, FS_Singleton
  <2>2. CASE ~In(c, r)
    <3>1. SeatsOf(c, r) = {}
      BY <2>2 DEF SeatInv, Seated
    <3> QED
      BY <2>2, <3>1, FS_EmptySet
  <2> QED
    BY <2>1, <2>2
<1> QED
  BY <1>1, SeatSafe, PTL

(* A led room stays led: while somebody sits in a waiting room, one of     *)
(* those who sit there leads it, whoever left and whenever, and a leader   *)
(* that does not get up is not replaced (ask_plugin.cpp:214, 295-311,      *)
(* 560-574).                                                               *)
THEOREM RoomsStayLed == Spec => LeaderStays
<1>1. SeatInv /\ [Next]_vars =>
        [\A r \in Room : KeepsLead(room[r], room'[r])]_vars
  BY SeatNext DEF StaysLed
<1> QED
  BY <1>1, SeatSafe, PTL DEF Spec, LeaderStays

-----------------------------------------------------------------------------
(* The questions of a game come in turn.  While a task carries the code of *)
(* a running room, no question has been sent and there is no other such    *)
(* task; without one, the questions up to question_index_ have been sent.  *)

InTurn(k) == [n \in 1..k |-> <<n - 1, (n - 1) % 2>>]
Current(r) == {t \in tasks : t.room = r /\ t.code = room[r].verify_code}

Phase(r) ==
  /\ Current(r) # {} =>
       /\ room[r].question = -1
       /\ \E k \in {"start", "question"} :
            Current(r) =
              {[kind |-> k, room |-> r, code |-> room[r].verify_code]}
  /\ asked[r] = InTurn(room[r].question + 1)
  /\ Current(r) = {} =>
       room[r].question >= 0 /\ room[r].question < room[r].questions
  /\ room[r].question >= 0 => room[r].pos = room[r].question % 2
  /\ room[r].questions > 0

PhaseInv ==
  /\ \A t \in tasks : t.code <= room[t.room].verify_code
  /\ \A r \in Room : room[r].running => Phase(r)
  /\ QuestionsInTurn

LEMMA InTurnLen ==
  ASSUME NEW k \in Nat
  PROVE  /\ InTurn(k) \in Seq(Nat \X {0, 1}) /\ Len(InTurn(k)) = k
         /\ Append(InTurn(k), <<k, k % 2>>) = InTurn(k + 1)
<1>1. \A n \in 1..k + 1 : n - 1 \in Nat /\ (n - 1) % 2 \in {0, 1}
  OBVIOUS
<1>2. InTurn(k) \in Seq(Nat \X {0, 1}) /\ Len(InTurn(k)) = k
  BY <1>1 DEF InTurn
<1>3. /\ Append(InTurn(k), <<k, k % 2>>) \in Seq(Nat \X {0, 1})
      /\ Len(Append(InTurn(k), <<k, k % 2>>)) = k + 1
  BY <1>1, <1>2
<1>4. \A n \in 1..k + 1 :
        Append(InTurn(k), <<k, k % 2>>)[n] = <<n - 1, (n - 1) % 2>>
  <2>1. PICK q \in Seq(Nat \X {0, 1}) : q = InTurn(k) /\ Len(q) = k
    BY <1>2
  <2>2. PICK e \in Nat \X {0, 1} : e = <<k, k % 2>>
    <3>1. k % 2 \in {0, 1}
      OBVIOUS
    <3> QED
      BY <3>1
  <2>3. ASSUME NEW n \in 1..k
        PROVE  Append(q, e)[n] = <<n - 1, (n - 1) % 2>>
    <3>1. Append(q, e)[n] = q[n]
      BY <2>1
    <3> QED
      BY <2>1, <3>1 DEF InTurn
  <2>4. Append(q, e)[k + 1] = e
    BY <2>1
  <2>5. \A n \in 1..k + 1 : n \in 1..k \/ n = k + 1
    OBVIOUS
  <2>6. e = <<(k + 1) - 1, ((k + 1) - 1) % 2>>
    BY <2>2
  <2> QED
    BY <2>1, <2>2, <2>3, <2>4, <2>5, <2>6
<1>5. Append(InTurn(k), <<k, k % 2>>) = InTurn(k + 1)
  <2>1. InTurn(k + 1) = [n \in 1..k + 1 |-> <<n - 1, (n - 1) % 2>>]
    BY DEF InTurn
  <2> DEFINE q == Append(InTurn(k), <<k, k % 2>>)
  <2>2. q = [n \in 1..k + 1 |-> q[n]]
    BY <1>3
  <2> QED
    BY <1>4, <2>1, <2>2
<1> QED
  BY <1>2, <1>5

\* QuestionsInTurn, room by room.
LEMMA InTurnRooms ==
  ASSUME asked \in [Room -> Seq(Nat \X {0, 1})]
  PROVE  QuestionsInTurn <=> \A r \in Room : \E k \in Nat : asked[r] = InTurn(k)
<1>1. ASSUME QuestionsInTurn, NEW r \in Room
      PROVE  \E k \in Nat : asked[r] = InTurn(k)
  BY <1>1 DEF QuestionsInTurn, InTurn
<1>2. ASSUME NEW r \in Room, NEW k \in Nat, asked[r] = InTurn(k)
      PROVE  asked[r] = [n \in 1..Len(asked[r]) |-> <<n - 1, (n - 1) % 2>>]
  <2>1. Len(asked[r]) = k
    BY <1>2, InTurnLen
  <2> QED
    BY <1>2, <2>1 DEF InTurn
<1> QED
  BY <1>1, <1>2 DEF QuestionsInTurn

\* Steps that leave the games alone, or stop some.
LEMMA SamePhase ==
  ASSUME SeatInv, PhaseInv, tasks' = tasks, asked' = asked,
         \A r \in Room :
           /\ room'[r].verify_code = room[r].verify_code
           /\ room'[r].running =>
                /\ room[r].running
                /\ room'[r].question = room[r].question
                /\ room'[r].pos = room[r].pos
                /\ room'[r].questions = room[r].questions
  PROVE  PhaseInv'
<1>1. \A r \in Room : Current(r)' = Current(r)
  BY DEF Current
<1>2. \A r \in Room : room'[r].running /\ Phase(r) => Phase(r)'
  BY <1>1 DEF Phase
<1>3. \A t \in tasks : t.room \in Room
  BY DEF SeatInv, TypeOK, Tasks
<1>4. QuestionsInTurn'
  BY DEF PhaseInv, QuestionsInTurn
<1> QED
  BY <1>2, <1>3, <1>4 DEF PhaseInv

\* Steps of one room.
LEMMA OnePhase ==
  ASSUME SeatInv, PhaseInv, TypeOK', NEW r \in Room,
         \A t \in Room \ {r} : room'[t] = room[t] /\ asked'[t] = asked[t],
         \A t \in tasks' : t.code <= room'[t.room].verify_code,
         \A t \in tasks' : t.room # r => t \in tasks,
         \A t \in tasks : t.room # r => t \in tasks',
         room'[r].running => Phase(r)',
         \E k \in Nat : asked'[r] = InTurn(k)
  PROVE  PhaseInv'
<1>1. \A t \in Room \ {r} : Current(t)' = Current(t)
  BY DEF Current
<1>2. \A t \in Room \ {r} : Phase(t) => Phase(t)'
  BY <1>1 DEF Phase
<1>3. QuestionsInTurn'
  <2>1. asked \in [Room -> Seq(Nat \X {0, 1})]
        /\ asked' \in [Room -> Seq(Nat \X {0, 1})]
    BY DEF SeatInv, TypeOK
  <2>2. \A t \in Room : \E k \in Nat : asked[t] = InTurn(k)
    BY <2>1, InTurnRooms DEF PhaseInv
  <2>3. \A t \in Room : \E k \in Nat : asked'[t] = InTurn(k)
    BY <2>2
  <2>4. \A t \in Room :
          asked'[t] = [n \in 1..Len(asked'[t]) |-> <<n - 1, (n - 1) % 2>>]
    <3> SUFFICES ASSUME NEW t \in Room, NEW k \in Nat, asked'[t] = InTurn(k)
                 PROVE  asked'[t] =
                          [n \in 1..Len(asked'[t]) |-> <<n - 1, (n - 1) % 2>>]
      BY <2>3
    <3>1. Len(asked'[t]) = k
      BY InTurnLen
    <3> QED
      BY <3>1 DEF InTurn
  <2> QED
    BY <2>4 DEF QuestionsInTurn
<1> QED
  BY <1>2, <1>3 DEF PhaseInv

LEMMA BeginPhase ==
  ASSUME SeatInv, SeatInv', PhaseInv, NEW c \in Client, ReadyLeader(c)
  PROVE  PhaseInv'
<1>0. PICK r \in Room : r = info[c].room
  BY DEF ReadyLeader, MayReady, SeatInv, TypeOK, ask_game_info
<1> DEFINE q == room[r]
           t0 == [kind |-> "start", room |-> r, code |-> q.verify_code + 1]
<1>1. /\ q \in rooms_ /\ room \in [Room -> rooms_]
      /\ tasks \subseteq Tasks /\ asked \in [Room -> Seq(Nat \X {0, 1})]
      /\ TypeOK'
  BY DEF SeatInv, TypeOK
<1>2. /\ room' = [room EXCEPT ![r] = Begin(q)]
      /\ tasks' = tasks \cup
           {[kind |-> "start", room |-> r, code |-> room'[r].verify_code]}
      /\ asked' = [asked EXCEPT ![r] = <<>>]
  BY <1>0 DEF ReadyLeader
<1>3. /\ q.questions \in Nat /\ q.verify_code \in Nat
  BY <1>1 DEF rooms_
<1>4. /\ Begin(q).question = -1
      /\ Begin(q).questions = q.questions + QUESTION_COUNT
      /\ Begin(q).verify_code = q.verify_code + 1
  BY <1>1 DEF Begin, rooms_
<1> HIDE DEF q
<1>5. /\ room'[r] = Begin(q) /\ \A t \in Room \ {r} : room'[t] = room[t]
      /\ asked'[r] = <<>> /\ \A t \in Room \ {r} : asked'[t] = asked[t]
  BY <1>1, <1>2
<1>6. tasks' = tasks \cup {t0}
  BY <1>2, <1>4, <1>5
<1>7. t0.room = r /\ t0.code = q.verify_code + 1
  OBVIOUS
<1>8. \A t \in tasks : t.code \in Nat /\ t.room \in Room
  BY <1>1 DEF Tasks
<1>9. \A t \in tasks : t.room = r => t.code <= q.verify_code
  BY DEF PhaseInv, q
<1>10. Current(r)' = {t0}
  <2>1. Current(r)' =
          {t \in tasks \cup {t0} : t.room = r /\ t.code = q.verify_code + 1}
    BY <1>4, <1>5, <1>6 DEF Current
  <2>2. \A t \in tasks : ~(t.room = r /\ t.code = q.verify_code + 1)
    BY <1>3, <1>8, <1>9
  <2> HIDE DEF t0
  <2> QED
    BY <1>7, <2>1, <2>2
<1>11. InTurn(0) = <<>>
  BY DEF InTurn
<1>12. Phase(r)'
  <2>1. room'[r].question = -1 /\ room'[r].questions > 0
    BY <1>3, <1>4, <1>5, QuestionsAssumption
  <2>2. Current(r)' =
          {[kind |-> "start", room |-> r, code |-> room'[r].verify_code]}
    BY <1>4, <1>5, <1>10
  <2>3. asked'[r] = InTurn(room'[r].question + 1)
    BY <1>5, <1>11, <2>1
  <2>4. Current(r)' # {}
    BY <2>2
  <2>5. ~(room'[r].question >= 0)
    BY <2>1
  <2>6. \E k \in {"start", "question"} :
          Current(r)' =
            {[kind |-> k, room |-> r, code |-> room'[r].verify_code]}
    BY <2>2
  <2> QED
    BY <2>1, <2>3, <2>4, <2>5, <2>6, Zenon DEF Phase
<1>13. \A t \in tasks' : t.code <= room'[t.room].verify_code
  <2>1. ASSUME NEW t \in tasks
        PROVE  t.code <= room'[t.room].verify_code
    <3>1. CASE t.room = r
      BY <1>3, <1>4, <1>5, <1>8, <1>9, <3>1
    <3>2. CASE t.room # r
      BY <1>5, <1>8, <3>2 DEF PhaseInv
    <3> QED
      BY <3>1, <3>2
  <2>2. t0.code <= room'[t0.room].verify_code
    BY <1>3, <1>4, <1>5, <1>7
  <2> HIDE DEF t0
  <2> QED
    BY <1>6, <2>1, <2>2
<1>14. /\ \A t \in tasks' : t.room # r => t \in tasks
       /\ \A t \in tasks : t.room # r => t \in tasks'
  <2> HIDE DEF t0
  <2> QED
    BY <1>6, <1>7
<1> QED
  BY <1>1, <1>5, <1>11, <1>12, <1>13, <1>14, OnePhase

LEMMA StartPhase ==
  ASSUME SeatInv, SeatInv', PhaseInv, NEW t0 \in tasks, RoomGameStart(t0)
  PROVE  PhaseInv'
<1> DEFINE r == t0.room
           q == room[r]
<1>1. /\ r \in Room /\ q \in rooms_ /\ room \in [Room -> rooms_]
      /\ tasks \subseteq Tasks /\ asked \in [Room -> Seq(Nat \X {0, 1})]
      /\ TypeOK' /\ asked' = asked
  BY DEF RoomGameStart, SeatInv, TypeOK, Tasks
<1>2. \E k \in Nat : asked'[r] = InTurn(k)
  BY <1>1, InTurnRooms DEF PhaseInv
<1>3. q.verify_code \in Nat
  BY <1>1 DEF rooms_
<1>4. CASE Concerns(t0) /\ q.questions > 0
  <2> DEFINE t1 == [kind |-> "question", room |-> r, code |-> q.verify_code + 1]
             p == [q EXCEPT !.pos = -1, !.verify_code = q.verify_code + 1]
  <2>1. /\ room' = [room EXCEPT ![r].pos = -1, ![r].verify_code = @ + 1]
        /\ tasks' = (tasks \ {t0}) \cup
             {[kind |-> "question", room |-> r, code |-> room'[r].verify_code]}
        /\ q.running /\ t0.code = q.verify_code
    BY <1>4 DEF RoomGameStart, Concerns
  <2>2. Phase(r)
    BY <1>1, <2>1 DEF PhaseInv
  <2>3. t0 \in Current(r)
    BY <2>1 DEF Current
  <2>4. q.question = -1 /\ Current(r) = {t0}
    BY <2>2, <2>3 DEF Phase
  <2>4a. asked[r] = InTurn(q.question + 1)
    BY <2>2 DEF Phase
  <2> HIDE DEF r, q
  <2>5. room' = [room EXCEPT ![r] = p]
    BY <1>1, <2>1 DEF q
  <2>6. /\ p.question = q.question /\ p.questions = q.questions
        /\ p.verify_code = q.verify_code + 1
    BY <1>1 DEF rooms_
  <2> HIDE DEF p
  <2>7. room'[r] = p /\ \A t \in Room \ {r} : room'[t] = room[t]
    BY <1>1, <2>5
  <2>8. tasks' = (tasks \ {t0}) \cup {t1}
    BY <2>1, <2>6, <2>7
  <2>9. t1.room = r /\ t1.code = q.verify_code + 1
    OBVIOUS
  <2>10. \A t \in tasks : t.code \in Nat /\ t.room \in Room
    BY <1>1 DEF Tasks
  <2>11. \A t \in tasks : t.room = r => t.code <= q.verify_code
    BY DEF PhaseInv, q
  <2>12. Current(r)' = {t1}
    <3>1. Current(r)' = {t \in (tasks \ {t0}) \cup {t1} :
                           t.room = r /\ t.code = q.verify_code + 1}
      BY <2>6, <2>7, <2>8 DEF Current
    <3>2. \A t \in tasks : ~(t.room = r /\ t.code = q.verify_code + 1)
      BY <1>3, <2>10, <2>11
    <3> HIDE DEF t1
    <3> QED
      BY <2>9, <3>1, <3>2
  <2>13. Phase(r)'
    <3>1. Current(r)' =
            {[kind |-> "question", room |-> r, code |-> room'[r].verify_code]}
      BY <2>6, <2>7, <2>12
    <3>2. /\ room'[r].question = -1 /\ room'[r].questions > 0
          /\ asked'[r] = InTurn(room'[r].question + 1)
      BY <1>1, <1>4, <2>4, <2>4a, <2>6, <2>7
    <3>3. Current(r)' # {}
      BY <3>1
    <3>4. ~(room'[r].question >= 0)
      BY <3>2
    <3>5. \E k \in {"start", "question"} :
            Current(r)' =
              {[kind |-> k, room |-> r, code |-> room'[r].verify_code]}
      BY <3>1
    <3> QED
      BY <3>2, <3>3, <3>4, <3>5, Zenon DEF Phase
  <2>14. \A t \in tasks' : t.code <= room'[t.room].verify_code
    <3>1. ASSUME NEW t \in tasks
          PROVE  t.code <= room'[t.room].verify_code
      <4>1. CASE t.room = r
        BY <1>3, <2>6, <2>7, <2>10, <2>11, <4>1
      <4>2. CASE t.room # r
        BY <2>7, <2>10, <4>2 DEF PhaseInv
      <4> QED
        BY <4>1, <4>2
    <3>2. t1.code <= room'[t1.room].verify_code
      BY <1>3, <2>6, <2>7, <2>9
    <3> HIDE DEF t1
    <3> QED
      BY <2>8, <3>1, <3>2
  <2>15. /\ \A t \in tasks' : t.room # r => t \in tasks
         /\ \A t \in tasks : t.room # r => t \in tasks'
    <3> HIDE DEF t1
    <3> QED
      BY <2>8, <2>9 DEF r
  <2> QED
    BY <1>1, <1>2, <2>7, <2>13, <2>14, <2>15, OnePhase
<1>5. CASE ~(Concerns(t0) /\ q.questions > 0)
  <2>1. tasks' = tasks \ {t0} /\ room' = room
    BY <1>5 DEF RoomGameStart
  <2>2. ASSUME q.running
        PROVE  Phase(r)' /\ Current(r)' = Current(r)
    <3>1. Phase(r) /\ q.questions > 0
      BY <1>1, <2>2 DEF PhaseInv, Phase
    <3>2. t0 \notin Current(r)
      BY <1>5, <2>2, <3>1 DEF Current, Concerns
    <3>3. Current(r)' = Current(r)
      BY <2>1, <3>2 DEF Current
    <3> QED
      BY <1>1, <2>1, <3>1, <3>3 DEF Phase
  <2>3. \A t \in tasks' : t.code <= room'[t.room].verify_code
    BY <2>1 DEF PhaseInv
  <2>4. /\ \A t \in tasks' : t.room # r => t \in tasks
        /\ \A t \in tasks : t.room # r => t \in tasks'
    BY <2>1
  <2>5. room'[r].running => Phase(r)'
    BY <2>1, <2>2
  <2> QED
    BY <1>1, <1>2, <2>1, <2>3, <2>4, <2>5, OnePhase
<1> QED
  BY <1>4, <1>5

LEMMA QuestionPhase ==
  ASSUME SeatInv, SeatInv', PhaseInv, NEW t0 \in tasks, RoomGameQuestion(t0)
  PROVE  PhaseInv'
<1> DEFINE r == t0.room
           q == room[r]
<1>1. /\ r \in Room /\ q \in rooms_ /\ room \in [Room -> rooms_]
      /\ tasks \subseteq Tasks /\ asked \in [Room -> Seq(Nat \X {0, 1})]
      /\ TypeOK' /\ tasks' = tasks \ {t0}
  BY DEF RoomGameQuestion, SeatInv, TypeOK, Tasks
<1>2. /\ \A t \in tasks' : t.room # r => t \in tasks
      /\ \A t \in tasks : t.room # r => t \in tasks'
  BY <1>1
<1>3. CASE Concerns(t0)
  <2> DEFINE p == [q EXCEPT !.pos = 0, !.question = q.question + 1]
  <2>1. /\ room' = [room EXCEPT ![r].pos = 0, ![r].question = @ + 1]
        /\ asked' = IF room'[r].question < room[r].questions
                    THEN [asked EXCEPT ![r] =
                            Append(@, <<room'[r].question, 0>>)]
                    ELSE asked
        /\ q.running /\ t0.code = q.verify_code
    BY <1>3 DEF RoomGameQuestion, Concerns
  <2>2. Phase(r)
    BY <1>1, <2>1 DEF PhaseInv
  <2>3. t0 \in Current(r)
    BY <2>1 DEF Current
  <2>4. q.question = -1 /\ Current(r) = {t0} /\ q.questions > 0
        /\ asked[r] = InTurn(0)
    BY <2>2, <2>3 DEF Phase
  <2> HIDE DEF r, q
  <2>5. room' = [room EXCEPT ![r] = p]
    BY <1>1, <2>1 DEF q
  <2>6. /\ p.question = 0 /\ p.pos = 0 /\ p.questions = q.questions
        /\ p.verify_code = q.verify_code
    BY <1>1, <2>4 DEF rooms_
  <2> HIDE DEF p
  <2>7. room'[r] = p /\ \A t \in Room \ {r} : room'[t] = room[t]
    BY <1>1, <2>5
  <2>8. asked' = [asked EXCEPT ![r] = Append(InTurn(0), <<0, 0>>)]
    BY <1>1, <2>1, <2>4, <2>6, <2>7 DEF q
  <2>9. asked'[r] = InTurn(1) /\ \A t \in Room \ {r} : asked'[t] = asked[t]
    <3>1. Append(InTurn(0), <<0, 0 % 2>>) = InTurn(0 + 1)
      BY InTurnLen
    <3> QED
      BY <1>1, <2>8, <3>1
  <2>10. Current(r)' = {}
    <3>1. Current(r)' = Current(r) \ {t0}
      BY <1>1, <2>6, <2>7 DEF Current, q
    <3> QED
      BY <2>4, <3>1
  <2>11. Phase(r)'
    <3>1. /\ room'[r].question = 0 /\ room'[r].pos = 0
          /\ room'[r].questions > 0
      BY <2>4, <2>6, <2>7
    <3>2. asked'[r] = InTurn(room'[r].question + 1)
      BY <2>9, <3>1
    <3>3. room'[r].pos = room'[r].question % 2
      BY <3>1
    <3>4. room'[r].question < room'[r].questions
      BY <3>1
    <3> QED
      BY <2>10, <3>1, <3>2, <3>3, <3>4 DEF Phase
  <2>12. \A t \in tasks' : t.code <= room'[t.room].verify_code
    <3>1. \A t \in tasks : t.room \in Room
      BY <1>1 DEF Tasks
    <3>2. \A t \in Room : room'[t].verify_code = room[t].verify_code
      BY <2>6, <2>7 DEF q
    <3> QED
      BY <1>1, <3>1, <3>2 DEF PhaseInv
  <2> QED
    BY <1>1, <1>2, <2>7, <2>9, <2>11, <2>12, OnePhase DEF r
<1>4. CASE ~Concerns(t0)
  <2>1. room' = room /\ asked' = asked
    BY <1>4 DEF RoomGameQuestion
  <2>2. \E k \in Nat : asked'[r] = InTurn(k)
    BY <1>1, <2>1, InTurnRooms DEF PhaseInv
  <2>3. ASSUME q.running PROVE Phase(r)'
    <3>1. Phase(r)
      BY <1>1, <2>3 DEF PhaseInv
    <3>2. t0 \notin Current(r)
      BY <1>4, <2>3 DEF Current, Concerns
    <3>3. Current(r)' = Current(r)
      BY <1>1, <2>1, <3>2 DEF Current
    <3> QED
      BY <2>1, <3>1, <3>3 DEF Phase
  <2>4. \A t \in tasks' : t.code <= room'[t.room].verify_code
    BY <1>1, <2>1 DEF PhaseInv
  <2>5. room'[r].running => Phase(r)'
    BY <2>1, <2>3
  <2> QED
    BY <1>1, <1>2, <2>1, <2>2, <2>4, <2>5, OnePhase
<1> QED
  BY <1>3, <1>4

LEMMA AnswerPhase ==
  ASSUME SeatInv, SeatInv', PhaseInv, NEW c \in Client, NEW n, Answer(c, n)
  PROVE  PhaseInv'
<1>0. PICK r \in Room : r = info[c].room
  BY DEF Answer, MayAnswer, SeatInv, TypeOK, ask_game_info
<1> DEFINE q == room[r]
<1>1. /\ q \in rooms_ /\ room \in [Room -> rooms_]
      /\ tasks \subseteq Tasks /\ asked \in [Room -> Seq(Nat \X {0, 1})]
      /\ TypeOK' /\ tasks' = tasks
      /\ q.running /\ n = q.question /\ n >= 0 /\ n \in Nat
  <2>1. /\ q \in rooms_ /\ room \in [Room -> rooms_]
        /\ tasks \subseteq Tasks /\ asked \in [Room -> Seq(Nat \X {0, 1})]
        /\ TypeOK'
    BY <1>0 DEF SeatInv, TypeOK
  <2>2. tasks' = tasks /\ q.running /\ n = q.question /\ n >= 0
    BY <1>0 DEF Answer, MayAnswer
  <2>3. q.question \in Nat \cup {-1}
    BY <2>1 DEF rooms_
  <2> HIDE DEF q
  <2> QED
    BY <2>1, <2>2, <2>3
<1>2. Phase(r)
  BY <1>1 DEF PhaseInv
<1>3. /\ Current(r) = {} /\ asked[r] = InTurn(n + 1)
      /\ q.pos = n % 2 /\ q.questions > 0
  BY <1>1, <1>2 DEF Phase
<1>4. CASE n < q.questions - 1
  <2> DEFINE a == [q EXCEPT !.question = q.question + 1,
                            !.pos = (q.pos + 1) % 2]
  <2>1. /\ room' = [room EXCEPT ![r].question = @ + 1, ![r].pos = (@ + 1) % 2]
        /\ asked' = [asked EXCEPT ![r] =
                       Append(@, <<room'[r].question, room'[r].pos>>)]
    BY <1>0, <1>4 DEF Answer
  <2> HIDE DEF q
  <2>2. room' = [room EXCEPT ![r] = a]
    BY <1>1, <2>1 DEF q
  <2>3. (q.pos + 1) % 2 = (n + 1) % 2
    BY <1>1, <1>3
  <2>4. /\ a.question = n + 1 /\ a.pos = (n + 1) % 2
        /\ a.questions = q.questions /\ a.verify_code = q.verify_code
    BY <1>1, <2>3 DEF rooms_
  <2> HIDE DEF a
  <2>5. room'[r] = a /\ \A t \in Room \ {r} : room'[t] = room[t]
    BY <1>1, <2>2
  <2>6. asked' = [asked EXCEPT ![r] =
                    Append(InTurn(n + 1), <<n + 1, (n + 1) % 2>>)]
    BY <1>1, <1>3, <2>1, <2>4, <2>5
  <2>7. /\ asked'[r] = InTurn((n + 1) + 1)
        /\ \A t \in Room \ {r} : asked'[t] = asked[t]
    <3>1. PICK k \in Nat : k = n + 1
      BY <1>1
    <3>2. Append(InTurn(k), <<k, k % 2>>) = InTurn(k + 1)
      BY InTurnLen
    <3> QED
      BY <1>1, <2>6, <3>1, <3>2
  <2>8. Current(r)' = {}
    BY <1>1, <1>3, <2>4, <2>5 DEF Current, q
  <2>9. Phase(r)'
    <3>1. q.questions \in Nat
      BY <1>1 DEF rooms_
    <3>2. room'[r].question >= 0 /\ room'[r].question < room'[r].questions
      BY <1>1, <1>4, <2>4, <2>5, <3>1
    <3> QED
      BY <1>3, <2>4, <2>5, <2>7, <2>8, <3>2 DEF Phase
  <2>10. \A t \in tasks' : t.code <= room'[t.room].verify_code
    <3>1. \A t \in tasks : t.room \in Room
      BY <1>1 DEF Tasks
    <3>2. \A t \in Room : room'[t].verify_code = room[t].verify_code
      BY <2>4, <2>5 DEF q
    <3> QED
      BY <1>1, <3>1, <3>2 DEF PhaseInv
  <2>11. \E k \in Nat : asked'[r] = InTurn(k)
    BY <1>1, <2>7
  <2> QED
    BY <1>1, <2>5, <2>7, <2>9, <2>10, <2>11, OnePhase
<1>5. CASE ~(n < q.questions - 1)
  <2>1. room' = [room EXCEPT ![r] = GameStop(q)] /\ asked' = asked
    BY <1>0, <1>5 DEF Answer
  <2>2. PICK l \in Int :
          GameStop(q) = [q EXCEPT !.running = FALSE, !.leader = l]
    BY <1>1, GameStopShape
  <2>3. GameStop(q).running = FALSE /\ GameStop(q).verify_code = q.verify_code
    BY <1>1, <2>2 DEF rooms_
  <2>4. /\ room'[r] = GameStop(q)
        /\ \A t \in Room \ {r} : room'[t] = room[t]
    BY <1>1, <2>1
  <2> QED
    BY <1>1, <2>1, <2>3, <2>4, SamePhase
<1> QED
  BY <1>4, <1>5

LEMMA SitDownPhase ==
  ASSUME SeatInv, PhaseInv, NEW c \in Client, NEW r \in Room,
         Taken(room[r]) # Seat, ~room[r].running, NEW f, SitDown(c, r, f),
         tasks' = tasks, asked' = asked
  PROVE  PhaseInv'
<1>1. room[r] \in rooms_ /\ room \in [Room -> rooms_]
  BY DEF SeatInv, TypeOK
<1> DEFINE j == JoinRoom(room[r], c, FreePos(room[r]))
<1>2. ~j.running /\ j.verify_code = room[r].verify_code
  BY <1>1, JoinRoomShape
<1>3. room' = [room EXCEPT ![r] = j]
  BY DEF SitDown
<1> HIDE DEF j
<1>4. room'[r] = j /\ \A t \in Room \ {r} : room'[t] = room[t]
  BY <1>1, <1>3
<1> QED
  BY <1>2, <1>4, SamePhase

LEMMA GetUpPhase ==
  ASSUME SeatInv, PhaseInv, NEW c \in Client, info[c] # NULL, GetUp(c),
         tasks' = tasks, asked' = asked
  PROVE  PhaseInv'
  BY GetUpVacates, SamePhase DEF Vacated

LEMMA PhaseInit == Init => PhaseInv
<1> SUFFICES ASSUME Init PROVE PhaseInv
  OBVIOUS
<1>1. \A r \in Room : room[r].running = FALSE
  BY DEF Init, NewRoom
<1>2. QuestionsInTurn
  BY DEF Init, QuestionsInTurn
<1> QED
  BY <1>1, <1>2 DEF Init, PhaseInv

LEMMA PhaseNext ==
  ASSUME SeatInv, SeatInv', PhaseInv, [Next]_vars
  PROVE  PhaseInv'
<1>1. CASE UNCHANGED <<room, tasks, asked>>
  BY <1>1, SamePhase
<1>2. CASE UNCHANGED vars
  BY <1>1, <1>2 DEF vars
<1>3. ASSUME NEW c \in Client,
             \/ ClientJoin(c) \/ VisitBusy(c) \/ VisitEmpty(c)
             \/ ReadyMember(c)
      PROVE  PhaseInv'
  BY <1>1, <1>3 DEF ClientJoin, VisitBusy, VisitEmpty, ReadyMember
<1>4. ASSUME NEW c \in Client, SearchRoom(c) \/ ClientLeave(c)
      PROVE  PhaseInv'
  BY <1>4, GetUpPhase DEF SearchRoom, ClientLeave
<1>5. ASSUME NEW c \in Client, NEW k \in PARAMS, AskForRoom(c, k)
      PROVE  PhaseInv'
  BY <1>5, GetUpPhase DEF AskForRoom
<1>6. ASSUME NEW c \in Client, EnterRoom(c)
      PROVE  PhaseInv'
  <2>1. seek[c].at \in Room
    BY <1>6 DEF EnterRoom, SeatInv, TypeOK, Searches
  <2>2. CASE room[seek[c].at].running \/ Taken(room[seek[c].at]) = Seat
    BY <1>1, <1>6, <2>2 DEF EnterRoom
  <2>3. CASE ~(room[seek[c].at].running \/ Taken(room[seek[c].at]) = Seat)
    BY <1>6, <2>1, <2>3, SitDownPhase DEF EnterRoom
  <2> QED
    BY <2>2, <2>3
<1>7. ASSUME NEW c \in Client, VisitFree(c)
      PROVE  PhaseInv'
  <2>1. seek[c].at \in Room
    BY <1>7 DEF VisitFree, Searching, SeatInv, TypeOK, Searches
  <2> QED
    BY <1>7, <2>1, SitDownPhase DEF VisitFree
<1>8. ASSUME NEW c \in Client, ReadyLeader(c)
      PROVE  PhaseInv'
  BY <1>8, BeginPhase
<1>9. ASSUME NEW c \in Client, NEW n \in 0..(MAX_CODE * QUESTION_COUNT),
             Answer(c, n)
      PROVE  PhaseInv'
  BY <1>9, AnswerPhase
<1>10. ASSUME NEW t \in tasks, RoomGameStart(t) \/ RoomGameQuestion(t)
       PROVE  PhaseInv'
  BY <1>10, StartPhase, QuestionPhase
<1> QED
  BY <1>2, <1>3, <1>4, <1>5, <1>6, <1>7, <1>8, <1>9, <1>10 DEF Next

(* The questions of a game are sent in order, each once, to the teams in   *)
(* turn, whatever timers of earlier games are still to run                 *)
(* (ask_plugin.cpp:395-396, 411, 436-437, 448, 502-506).                   *)
THEOREM QuestionsComeInTurn == Spec => []QuestionsInTurn
<1>1. SeatInv /\ PhaseInv /\ [Next]_vars => PhaseInv'
  BY SeatNext, PhaseNext
<1>2. PhaseInv => QuestionsInTurn
  BY DEF PhaseInv
<1> QED
  BY <1>1, <1>2, PhaseInit, SeatSafe, PTL DEF Spec

(* A game does not come to a halt while its players stay: it waits for a   *)
(* task of its own, or for an answer that a player of the team that is     *)
(* asked may give, whatever timers of earlier games are still to run and   *)
(* whoever has left (ask_plugin.cpp:388, 425, 448, 502).                   *)
GamesGoOn ==
  up => \A r \in Room : room[r].running =>
    Current(r) # {} \/ \E c \in Client : MayAnswer(c, room[r].question)

THEOREM GamesAreAnswerable == Spec => []GamesGoOn
<1>1. ASSUME SeatInv, PhaseInv, up, NEW r \in Room, room[r].running,
             Current(r) = {}
      PROVE  \E c \in Client : MayAnswer(c, room[r].question)
  <2> DEFINE q == room[r]
  <2>1. /\ q.question >= 0 /\ q.question < q.questions
        /\ q.pos = q.question % 2
    BY <1>1 DEF PhaseInv, Phase
  <2>2. q \in rooms_
    BY <1>1 DEF SeatInv, TypeOK
  <2>3. q.question \in Nat /\ q.question % 2 \in {0, 1}
    <3>1. q.question \in Nat \cup {-1}
      BY <2>2 DEF rooms_
    <3> HIDE DEF q
    <3> QED
      BY <2>1, <3>1
  <2>4. PICK s \in Taken(q) : s \in Side(q.pos)
    BY <1>1, <2>1, <2>3 DEF SeatInv, BothTeams
  <2>5. s \in Seat /\ s % 2 = q.pos /\ q.clients[s] # NULL
    BY <2>4 DEF Taken, Side
  <2>6. PICK c \in Client : c = q.clients[s]
    BY <2>2, <2>5 DEF rooms_
  <2>7. In(c, r)
    <3>1. s \in SeatsOf(c, r)
      BY <2>5, <2>6 DEF SeatsOf
    <3> QED
      BY <1>1, <3>1 DEF SeatInv, Seated
  <2>8. IndexOf(q, c) = s
    <3>1. s \in SeatsOf(c, r)
      BY <2>5, <2>6 DEF SeatsOf
    <3> QED
      BY <1>1, <2>7, <3>1, SittingClient
  <2>9. seek[c] = NULL /\ info[c] # NULL /\ info[c].room = r /\ r # NULL
    BY <1>1, <2>7, NullAssumption DEF In, SeatInv, SeekersStand
  <2>10. MayAnswer(c, q.question)
    BY <1>1, <2>1, <2>5, <2>8, <2>9 DEF MayAnswer
  <2> QED
    BY <2>10
<1>2. SeatInv /\ PhaseInv => GamesGoOn
  BY <1>1 DEF GamesGoOn
<1>3. SeatInv /\ PhaseInv /\ [Next]_vars => PhaseInv'
  BY SeatNext, PhaseNext
<1> QED
  BY <1>2, <1>3, PhaseInit, SeatSafe, PTL DEF Spec
=============================================================================
