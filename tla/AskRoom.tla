------------------------------ MODULE AskRoom ------------------------------
(***************************************************************************)
(* The rooms of the quiz game (src/ask): players take seats of a room, one *)
(* of them leads it and starts the game, and the two teams, the even and   *)
(* the odd seats, answer the questions of a game in turn.                  *)
(*                                                                         *)
(* A handler runs on the thread of its client and holds the lock of the    *)
(* room it works on, so a step is what one holding of a lock does.  The    *)
(* search for a room (IDK) takes and releases the locks room by room: its  *)
(* progress is seek.  The timers of the zone may be late, so that a task   *)
(* may run in any later state; what a task finds is decided by the         *)
(* verify_code of the room.                                                *)
(*                                                                         *)
(* The fields of a room that the constructor leaves uninitialised are      *)
(* chosen in Init: the leader from UNINITIALISED; the others are written   *)
(* before they are read, or only compared with a later value of their own. *)
(***************************************************************************)
EXTENDS Integers, FiniteSets, Sequences

CONSTANTS
  Client,          \* players of the plug-in
  NULL,            \* no room, no client, no search
  ROOM_COUNT,      \* rooms of the plug-in
  ROOM_CAPACITY,   \* seats of a room
  QUESTION_COUNT,  \* questions of one game
  PARAMS,          \* room numbers a client sends with IDK
  UNINITIALISED,   \* what room_leader_index_ may hold in a new room
  MAX_CODE         \* bound: the last verify_code of a room

\* The handler compares the number of a room with ROOM_CAPACITY, and then
\* uses it as an index of rooms_ (ask_plugin.cpp:176-182).
ASSUME RoomsAssumption ==
  /\ ROOM_COUNT \in Nat \ {0} /\ ROOM_CAPACITY \in Nat \ {0}
  /\ PARAMS \subseteq Int
  /\ \A k \in PARAMS : 0 <= k /\ k < ROOM_CAPACITY => k < ROOM_COUNT
ASSUME QuestionsAssumption == QUESTION_COUNT \in Nat \ {0}
ASSUME UninitialisedAssumption == UNINITIALISED \subseteq Int

VARIABLES
  room,    \* the rooms_
  info,    \* ask_game_info of a player, NULL before it has joined
  seek,    \* how far the client's IDK has come, NULL when it has none
  tasks,   \* tasks of the zone's timers that have not run
  up,      \* the process runs
  asked    \* history: the questions of the room's current game, in the
           \* order they were sent, each with the team that has to answer

vars == <<room, info, seek, tasks, up, asked>>

Room == 0..ROOM_COUNT - 1
Seat == 0..ROOM_CAPACITY - 1
Side(team) == {s \in Seat : s % 2 = team}

rooms_ ==
  [clients : [Seat -> Client \cup {NULL}], running : BOOLEAN,
   pos : {-1, 0, 1}, leader : Int, question : Nat \cup {-1}, questions : Nat,
   verify_code : Nat]

ask_game_info == [room : Room \cup {NULL}, ready : BOOLEAN, finder : Nat]

\* An IDK that has not ended: a room that is named, or the search, with the
\* room it visits next and the rooms it has passed.
Searches ==
  [named : BOOLEAN, at : Room, start : Room, visited : Nat, nulls : {0, 1}]

ASSUME NullAssumption ==
  NULL \notin Client \cup Room \cup ask_game_info \cup Searches

Taken(q) == {s \in Seat : q.clients[s] # NULL}
Least(S) == CHOOSE n \in S : \A m \in S : n <= m

\* The seat of a client in a room, and the first seat that is free.
IndexOf(q, c) == CHOOSE s \in Seat : q.clients[s] = c
FreePos(q) == Least(Seat \ Taken(q))

Members == {c \in Client : info[c] # NULL}
-----------------------------------------------------------------------------
(* What happens to a room.                                                 *)

\* The slip: the search stops one seat earlier.
NextLeader_Short(q, from) ==
  LET Nth(n) == (from + 1 + n) % ROOM_CAPACITY
      found == {n \in 0..ROOM_CAPACITY - 3 : Nth(n) \in Taken(q)}
  IN  IF found = {} THEN q ELSE [q EXCEPT !.leader = Nth(Least(found))]

\* The first player found after a seat leads the room from now on.
NextLeader(q, from) ==
  LET Nth(n) == (from + 1 + n) % ROOM_CAPACITY
      found == {n \in 0..ROOM_CAPACITY - 2 : Nth(n) \in Taken(q)}
  IN  IF found = {} THEN q ELSE [q EXCEPT !.leader = Nth(Least(found))]

\* The game ends; a leader that left during the game is replaced now.
GameStop(q) ==
  LET stopped == [q EXCEPT !.running = FALSE]
  IN  IF q.leader \in Taken(q) THEN stopped ELSE NextLeader(stopped, q.leader)

\* The slip: the game goes on for the team that stays.
LeaveRoom_GoesOn(q, s) ==
  LET left == [q EXCEPT !.clients[s] = NULL]
  IN  IF q.running
      THEN IF Taken(left) = {} THEN GameStop(left) ELSE left
      ELSE IF s = q.leader
           THEN NextLeader([left EXCEPT !.leader = -1], s)
           ELSE left

\* A player gets up.  A running game stops when its team has gone; in a
\* waiting room a leader that leaves is replaced.
LeaveRoom(q, s) ==
  LET left == [q EXCEPT !.clients[s] = NULL]
  IN  IF q.running
      THEN IF Side(s % 2) \cap Taken(left) = {} THEN GameStop(left) ELSE left
      ELSE IF s = q.leader
           THEN NextLeader([left EXCEPT !.leader = -1], s)
           ELSE left

\* A player sits down; without a leader the player leads the room.
JoinRoom(q, c, s) ==
  [q EXCEPT !.clients[s] = c, !.leader = IF @ = -1 THEN s ELSE @]

\* The slip: the tasks of the last game keep their code.
Begin_SameCode(q) ==
  [q EXCEPT !.running = TRUE, !.pos = -1, !.question = -1,
            !.questions = @ + QUESTION_COUNT]
\* The leader has pressed ready: the game is on, its questions come later.
Begin(q) ==
  [q EXCEPT !.running = TRUE, !.pos = -1, !.question = -1,
            !.questions = @ + QUESTION_COUNT, !.verify_code = @ + 1]
-----------------------------------------------------------------------------
NewRoom ==
  {[clients |-> [s \in Seat |-> NULL], running |-> FALSE, pos |-> -1,
    leader |-> g, question |-> 0, questions |-> 0, verify_code |-> 0] :
     g \in UNINITIALISED}

Init ==
  /\ room \in [Room -> NewRoom]
  /\ info = [c \in Client |-> NULL]
  /\ seek = [c \in Client |-> NULL]
  /\ tasks = {}
  /\ up = TRUE
  /\ asked = [r \in Room |-> <<>>]

\* A client logs in (on_befor_client_join, on_client_join).
ClientJoin(c) ==
  /\ up /\ info[c] = NULL
  /\ Cardinality(Members) < ROOM_COUNT * ROOM_CAPACITY
  /\ info' = [info EXCEPT ![c] = [room |-> NULL, ready |-> FALSE, finder |-> 0]]
  /\ UNCHANGED <<room, seek, tasks, up, asked>>

\* The client gets up from the room it sits in, if it sits in one.
GetUp(c) ==
  LET r == info[c].room
  IN  IF r = NULL
      THEN UNCHANGED room
      ELSE room' = [room EXCEPT ![r] = LeaveRoom(@, IndexOf(@, c))]

\* The search starts behind the place where the last one ended.
FinderStart(c) ==
  IF info[c].finder > 0 THEN (info[c].finder + 1) % ROOM_COUNT ELSE 0

\* IDK without a parameter: any room, from the finder's index on.
SearchRoom(c) ==
  /\ up /\ info[c] # NULL /\ seek[c] = NULL
  /\ GetUp(c)
  /\ info' = [info EXCEPT ![c].room = NULL]
  /\ seek' = [seek EXCEPT ![c] =
       [named |-> FALSE, at |-> FinderStart(c), start |-> FinderStart(c),
        visited |-> 0, nulls |-> 1]]
  /\ UNCHANGED <<tasks, up, asked>>

\* The search that is none: the room is named.
Named(k) == [named |-> TRUE, at |-> k, start |-> k, visited |-> 0, nulls |-> 0]

\* The slip: the seat in the former room is kept.
AskForRoom_Stays(c, k) ==
  /\ up /\ info[c] # NULL /\ seek[c] = NULL
  /\ info' = [info EXCEPT ![c].room = NULL]
  /\ seek' = IF 0 <= k /\ k < ROOM_CAPACITY
             THEN [seek EXCEPT ![c] = Named(k)] ELSE seek
  /\ UNCHANGED <<room, tasks, up, asked>>

\* IDK with a number: the client leaves its room whatever the number is.
AskForRoom(c, k) ==
  /\ up /\ info[c] # NULL /\ seek[c] = NULL
  /\ GetUp(c)
  /\ info' = [info EXCEPT ![c].room = NULL]
  /\ seek' = IF 0 <= k /\ k < ROOM_CAPACITY
             THEN [seek EXCEPT ![c] = Named(k)] ELSE seek
  /\ UNCHANGED <<tasks, up, asked>>

SitDown(c, r, finder) ==
  /\ room' = [room EXCEPT ![r] = JoinRoom(@, c, FreePos(@))]
  /\ info' = [info EXCEPT ![c].room = r, ![c].finder = finder]
  /\ seek' = [seek EXCEPT ![c] = NULL]

\* The room that was asked for: -2 when it plays, -3 when it is full.
EnterRoom(c) ==
  /\ up /\ seek[c] # NULL /\ seek[c].named
  /\ LET q == room[seek[c].at]
     IN  IF q.running \/ Taken(q) = Seat
         THEN seek' = [seek EXCEPT ![c] = NULL] /\ UNCHANGED <<room, info>>
         ELSE SitDown(c, seek[c].at, info[c].finder)
  /\ UNCHANGED <<tasks, up, asked>>

Searching(c) == seek[c] # NULL /\ ~seek[c].named

\* The search visits a room.  A room that plays or is full is passed.
VisitBusy(c) ==
  /\ up /\ Searching(c)
  /\ LET v == seek[c]
     IN  /\ room[v.at].running \/ Taken(room[v.at]) = Seat
         /\ seek' = [seek EXCEPT ![c] =
              IF v.visited + 1 = ROOM_COUNT
              THEN NULL
              ELSE [v EXCEPT !.visited = @ + 1,
                             !.at = (@ + 1) % ROOM_COUNT]]
  /\ UNCHANGED <<room, info, tasks, up, asked>>

\* The first empty room of a search that did not start at room 0 turns the
\* search back to room 0.
TurnsBack(c) ==
  /\ Taken(room[seek[c].at]) = {}
  /\ seek[c].nulls > 0 /\ seek[c].start # 0 /\ info[c].finder # 0

VisitEmpty(c) ==
  /\ up /\ Searching(c)
  /\ ~room[seek[c].at].running /\ TurnsBack(c)
  /\ seek' = [seek EXCEPT ![c].nulls = @ - 1, ![c].visited = 0, ![c].at = 0]
  /\ UNCHANGED <<room, info, tasks, up, asked>>

\* Any other room with a free seat is taken.  The number of rooms visited,
\* not the number of the room, is kept for the next search.
VisitFree(c) ==
  /\ up /\ Searching(c)
  /\ ~room[seek[c].at].running /\ Taken(room[seek[c].at]) # Seat
  /\ ~TurnsBack(c)
  /\ SitDown(c, seek[c].at, seek[c].visited)
  /\ UNCHANGED <<tasks, up, asked>>

\* RDY of a player that was not ready before, in a waiting room.
MayReady(c) ==
  /\ up /\ info[c] # NULL /\ seek[c] = NULL
  /\ info[c].room # NULL /\ ~info[c].ready
  /\ ~room[info[c].room].running

ReadyMember(c) ==
  /\ MayReady(c)
  /\ LET q == room[info[c].room] IN IndexOf(q, c) # q.leader
  /\ info' = [info EXCEPT ![c].ready = TRUE]
  /\ UNCHANGED <<room, seek, tasks, up, asked>>

\* The leader starts the game when all others are ready and the teams are
\* of one size.
CanStart(q) ==
  /\ \A s \in Taken(q) \ {q.leader} : info[q.clients[s]].ready
  /\ Cardinality(Taken(q) \cap Side(0)) = Cardinality(Taken(q) \cap Side(1))

ReadyLeader(c) ==
  /\ MayReady(c)
  /\ LET r == info[c].room
     IN  /\ IndexOf(room[r], c) = room[r].leader
         /\ CanStart(room[r])
         /\ room[r].verify_code < MAX_CODE
         /\ room' = [room EXCEPT ![r] = Begin(@)]
         /\ tasks' = tasks \cup
              {[kind |-> "start", room |-> r, code |-> room'[r].verify_code]}
         /\ asked' = [asked EXCEPT ![r] = <<>>]
  /\ info' = [info EXCEPT ![c].ready = TRUE]
  /\ UNCHANGED <<seek, up>>

\* A task of another game, or of a game that has stopped, does nothing.
Concerns(t) == room[t.room].verify_code = t.code /\ room[t.room].running

\* on_room_game_start, 500 ms after the leader was ready.
RoomGameStart(t) ==
  /\ up /\ t \in tasks /\ t.kind = "start"
  /\ LET r == t.room
     IN  IF Concerns(t) /\ room[r].questions > 0
         THEN /\ room' = [room EXCEPT ![r].pos = -1, ![r].verify_code = @ + 1]
              /\ tasks' = (tasks \ {t}) \cup
                   {[kind |-> "question", room |-> r,
                     code |-> room'[r].verify_code]}
         ELSE tasks' = tasks \ {t} /\ UNCHANGED room
  /\ UNCHANGED <<info, seek, up, asked>>

\* on_room_game_question, 2 s later: the first question, for the even seats.
RoomGameQuestion(t) ==
  /\ up /\ t \in tasks /\ t.kind = "question"
  /\ tasks' = tasks \ {t}
  /\ LET r == t.room
     IN  IF Concerns(t)
         THEN /\ room' = [room EXCEPT ![r].pos = 0, ![r].question = @ + 1]
              /\ asked' =
                   IF room'[r].question < room[r].questions
                   THEN [asked EXCEPT ![r] =
                           Append(@, <<room'[r].question, 0>>)]
                   ELSE asked
         ELSE UNCHANGED <<room, asked>>
  /\ UNCHANGED <<info, seek, up>>

\* ASR of a player of the team whose turn it is, for the question that was
\* sent last: the other team gets the next one; the last answer ends the game.
MayAnswer(c, n) ==
  /\ up /\ info[c] # NULL /\ seek[c] = NULL /\ info[c].room # NULL
  /\ LET q == room[info[c].room]
     IN  /\ q.running
         /\ IndexOf(q, c) % 2 = q.pos
         /\ n >= 0 /\ n = q.question /\ n < q.questions

Answer(c, n) ==
  /\ MayAnswer(c, n)
  /\ LET r == info[c].room
         q == room[r]
     IN  IF n < q.questions - 1
         THEN /\ room' = [room EXCEPT ![r].question = @ + 1,
                                      ![r].pos = (@ + 1) % 2]
              /\ asked' = [asked EXCEPT ![r] =
                             Append(@, <<room'[r].question, room'[r].pos>>)]
         ELSE room' = [room EXCEPT ![r] = GameStop(@)] /\ UNCHANGED asked
  /\ UNCHANGED <<info, seek, tasks, up>>

\* A client leaves the plug-in.  on_client_leave calls itself, and the second
\* call reads the room of an ask_game_info that is gone: the process ends.
ClientLeave(c) ==
  /\ up /\ info[c] # NULL /\ seek[c] = NULL
  /\ GetUp(c)
  /\ info' = [info EXCEPT ![c] = NULL]
  /\ up' = FALSE
  /\ UNCHANGED <<seek, tasks, asked>>

Next ==
  \/ \E c \in Client :
       \/ ClientJoin(c) \/ SearchRoom(c) \/ EnterRoom(c)
       \/ VisitBusy(c) \/ VisitEmpty(c) \/ VisitFree(c)
       \/ ReadyMember(c) \/ ReadyLeader(c) \/ ClientLeave(c)
       \/ \E k \in PARAMS : AskForRoom(c, k)
       \/ \E n \in 0..(MAX_CODE * QUESTION_COUNT) : Answer(c, n)
  \/ \E t \in tasks : RoomGameStart(t) \/ RoomGameQuestion(t)

Spec == Init /\ [][Next]_vars
-----------------------------------------------------------------------------
Tasks == [kind : {"start", "question"}, room : Room, code : Nat]

TypeOK ==
  /\ room \in [Room -> rooms_]
  /\ info \in [Client -> {NULL} \cup ask_game_info]
  /\ seek \in [Client -> {NULL} \cup Searches]
  /\ tasks \subseteq Tasks
  /\ up \in BOOLEAN
  /\ asked \in [Room -> Seq(Nat \X {0, 1})]

(* A game that runs has players of both teams, however they came and left: *)
(* the start compares the sizes of the teams, nobody enters while it runs, *)
(* and the last one of a team to leave stops it (ask_plugin.cpp:253-272,   *)
(* 371).                                                                   *)
BothTeams ==
  \A r \in Room : room[r].running =>
    \A team \in {0, 1} : Taken(room[r]) \cap Side(team) # {}

(* A player and its seat know each other: a client sits in the room its    *)
(* ask_game_info names, on one seat, and in no other room, although the    *)
(* search gives up the locks between two rooms.                            *)
OneSeat ==
  \A c \in Client : \A r \in Room :
    Cardinality({s \in Seat : room[r].clients[s] = c})
      = IF info[c] # NULL /\ info[c].room = r THEN 1 ELSE 0

(* The questions of a game are sent in their order, each once, to the even *)
(* and to the odd seats in turn: no late timer of this game or of one      *)
(* before it and no second answer gets in between (the verify_code of      *)
(* on_room_game_start and on_room_game_question, ask_plugin.cpp:411, 448). *)
QuestionsInTurn ==
  \A r \in Room : asked[r] = [n \in 1..Len(asked[r]) |-> <<n - 1, (n - 1) % 2>>]

(* A room that is led stays so.  While somebody sits in a waiting room, one *)
(* of those who sit there leads it, whoever left, during a game or while   *)
(* waiting, and the lead passes on only when the leader gets up: no join,  *)
(* no end of a game and no leave of another moves it (ask_plugin.cpp:214,  *)
(* 295, 560).  The leader is the only one whose ready starts a game; that  *)
(* it can start one is not said here: is_ready_ is never reset, so who has *)
(* been ready once is not heard again (ask_plugin.cpp:320, 391).           *)
(* (A new room whose uninitialised leader is no seat never gets one.)      *)
Led(q) ==
  /\ q.running => q.leader \in Seat
  /\ ~q.running /\ Taken(q) = {} => q.leader \in {-1, 0}
  /\ ~q.running /\ Taken(q) # {} => q.leader \in Taken(q)

\* From q to n the leader is the same, unless it gets up.
SameLeader(q, n) ==
  q.leader \in Taken(q) /\ n.clients[q.leader] = q.clients[q.leader]
    => n.leader = q.leader

KeepsLead(q, n) == Led(q) => Led(n) /\ SameLeader(q, n)

LeaderStays == [][\A r \in Room : KeepsLead(room[r], room'[r])]_vars
=============================================================================
