------------------------------ MODULE DdzTable ------------------------------
(* The tables of ddz_plugin: clients sit down, get ready, are dealt cards, bid
   for the landlord, play in turn, and leave whenever they like.

   A handler works under the status_mutex of its table and is one action;
   on_game_bid looks at verifi_code before it locks and is two.  A search for a
   seat locks one table after the other, and each look is an action.  The game
   is driven by timers that carry the verifi_code of their table: ++verifi_code
   makes those that are pending stale, and a stale one returns at once, so
   `tasks' holds those that are not stale.

   A hand is a number of cards, and whether a play beats the last one is left
   open.  Money and experience are left out: no step depends on them.  The
   commands that are simulated for robots and idle players are commands these
   players could have sent themselves.  An on_update that finds a player idle
   too long may come at any time.

   A definition whose name ends in _ and a word is its namesake with a slip a
   programmer could make; no other definition uses it.                       *)
EXTENDS Integers, FiniteSets, FiniteSetsExt

CONSTANTS
  Client,       \* the clients of the plugin
  DeskCount,    \* the tables
  HandSize,     \* cards that a player is dealt
  BottomSize,   \* cards that the landlord is dealt on top
  NULL

ASSUME DdzTableAssumption ==
  /\ NULL \notin Client \cup 1..DeskCount
  /\ DeskCount \in Nat \ {0}
  /\ HandSize \in Nat \ {0} /\ BottomSize \in Nat

VARIABLES
  desk,     \* the fields of every ddz_desk
  info,     \* the ddz_game_info of every client
  tasks,    \* per table: pending timers that carry its present verifi_code
  checked,  \* per table: an on_game_bid has compared the code and is to lock
  search    \* per client: its search for a seat in on_join_desk_handle

vars == <<desk, info, tasks, checked, search>>

Desk == 1..DeskCount
Pos == 0..2                                 \* DESK_CAPACITY = 3
Seated == Client \cup {NULL}

DeskState ==
  [seats: [Pos -> Seated],                  \* clients_
   running: BOOLEAN,
   landlord: Seated, temp: Seated,          \* landlord_, temp_landlord
   multiple: Int, declares: Nat,            \* multiple_, declare_count_
   curr: {-1} \cup Pos, first: {-1} \cup Pos, bidpos: {-1} \cup Pos,
   bid: [Pos -> {-1, 0, 1}],                \* bid_info: passed, not asked, bid
   bided: BOOLEAN,
   free: BOOLEAN,                           \* curr_poker_.type is ZERO
   shower: Seated,                          \* curr_shower_
   hand: [Pos -> Nat]]                      \* sizes of pos_pokers_

Info == [desk: Desk \cup {NULL}, ready: BOOLEAN, declared: BOOLEAN]

Task == [kind: {"start", "bid"}, client: {NULL}]
          \cup [kind: {"landlord"}, client: Client]

Search == [last: Desk \cup {NULL}, required: 1..3, at: Desk]

TypeOK ==
  /\ desk \in [Desk -> DeskState]
  /\ info \in [Client -> Info]
  /\ tasks \in [Desk -> SUBSET Task]
  /\ checked \in [Desk -> BOOLEAN]
  /\ search \in [Client -> Search \cup {NULL}]

--------------------------------------------------------------------------
(* ddz_desk *)

NextPos(p) == (p + 1) % 3
Has(D, c) == \E p \in Pos : D.seats[p] = c
PosOf(D, c) == CHOOSE p \in Pos : D.seats[p] = c         \* pos_index_of
AnyNull(D) == \E p \in Pos : D.seats[p] = NULL
Current(D) == IF D.curr = -1 THEN NULL ELSE D.seats[D.curr]
MoveNext(D) == [D EXCEPT !.curr = NextPos(@)]
StartAt(D, p) == [D EXCEPT !.first = p, !.curr = p]      \* set_start_pos

\* A table between two games: reset() leaves the seats and bid_pos_.
Fresh(seats, bidpos) ==
  [seats |-> seats, running |-> FALSE, landlord |-> NULL, temp |-> NULL,
   multiple |-> -1, declares |-> 0, curr |-> -1, first |-> -1, bidpos |-> bidpos,
   bid |-> [p \in Pos |-> 0], bided |-> FALSE, free |-> TRUE, shower |-> NULL,
   hand |-> [p \in Pos |-> 0]]

Reset(D) == Fresh(D.seats, D.bidpos)

NewDesk == Fresh([p \in Pos |-> NULL], -1)

NewInfo == [desk |-> NULL, ready |-> FALSE, declared |-> FALSE]

\* verifi_code stays.
Queue_Unnumbered(d, kind, c) ==
  tasks' = [tasks EXCEPT ![d] = @ \cup {[kind |-> kind, client |-> c]}]

\* ++verifi_code and queue_task: what was pending is stale.
Queue(d, kind, c) == tasks' = [tasks EXCEPT ![d] = {[kind |-> kind, client |-> c]}]

--------------------------------------------------------------------------
(* Sitting down and leaving *)

\* The game goes on.
Stood_Running(D, c) == [D EXCEPT !.seats[PosOf(D, c)] = NULL]

\* on_client_leave_desk, and reset(true) of the client's info.  A game that ends
\* because the server closes is not reset; its fields are read by nobody before
\* Ready resets them, so the two are one.
Stood(D, c) ==
  LET Up == [D EXCEPT !.seats[PosOf(D, c)] = NULL] IN
  IF D.running THEN Reset(Up) ELSE Up

\* reset(false), and a reset that forgets is_ready_.
LeftInfo_Kept(i) == [i EXCEPT !.ready = FALSE, !.declared = FALSE]

LeftInfo_Ready(i) == [i EXCEPT !.declared = FALSE, !.desk = NULL]

LeftInfo(i) == [i EXCEPT !.ready = FALSE, !.declared = FALSE, !.desk = NULL]

Sits(c) == info[c].desk # NULL /\ Has(desk[info[c].desk], c)

StandUp(c) ==
  desk' = IF Sits(c) THEN [desk EXCEPT ![info[c].desk] = Stood(@, c)] ELSE desk

LeaveDesk(c) ==
  /\ StandUp(c)
  /\ info' = IF Sits(c) THEN [info EXCEPT ![c] = LeftInfo(@)] ELSE info

\* on_join_desk_handle: leave the present table, then look for a seat.
JoinDesk(c) ==
  /\ search[c] = NULL
  /\ LeaveDesk(c)
  /\ search' = [search EXCEPT ![c] =
       [last |-> info[c].desk, required |-> 1, at |-> 1]]
  /\ UNCHANGED <<tasks, checked>>

FreeSeats(D) == {p \in Pos : D.seats[p] = NULL}

Fits(s) ==
  /\ s.at # s.last
  /\ ~desk[s.at].running
  /\ Cardinality(FreeSeats(desk[s.at])) = s.required

SitDown(c) ==
  LET s == search[c] IN
  /\ s # NULL
  /\ Fits(s)
  /\ desk' = [desk EXCEPT ![s.at].seats[Min(FreeSeats(desk[s.at]))] = c]
  /\ info' = [info EXCEPT ![c].desk = s.at]
  /\ search' = [search EXCEPT ![c] = NULL]
  /\ UNCHANGED <<tasks, checked>>

\* The next table, the next number of free seats, or "IDK -1".
LookOn(c) ==
  LET s == search[c] IN
  /\ s # NULL
  /\ ~Fits(s)
  /\ search' = [search EXCEPT ![c] =
       IF s.at < DeskCount THEN [s EXCEPT !.at = @ + 1]
       ELSE IF s.required < 3 THEN [s EXCEPT !.required = @ + 1, !.at = 1]
       ELSE NULL]
  /\ UNCHANGED <<desk, info, tasks, checked>>

\* on_client_bye_handle
Bye(c) ==
  /\ search[c] = NULL
  /\ info[c].desk # NULL
  /\ LeaveDesk(c)
  /\ UNCHANGED <<tasks, checked, search>>

\* on_client_leave, and on_client_join of the next client of that name.
Leave(c) ==
  /\ search[c] = NULL
  /\ StandUp(c)
  /\ info' = [info EXCEPT ![c] = NewInfo]
  /\ UNCHANGED <<tasks, checked, search>>

--------------------------------------------------------------------------
(* From ready to the first bid *)

\* on_client_ready_handle
Ready(c) ==
  LET d == info[c].desk
      D == desk[d]
      All == \A p \in Pos : D.seats[p] # NULL /\ (D.seats[p] = c \/ info[D.seats[p]].ready)
  IN
  /\ search[c] = NULL
  /\ ~info[c].ready
  /\ d # NULL
  /\ ~D.running
  /\ Has(D, c)
  /\ info' = [info EXCEPT ![c].ready = TRUE]
  /\ IF All
     THEN /\ desk' = [desk EXCEPT ![d] = [Reset(@) EXCEPT !.running = TRUE]]
          /\ Queue(d, "start", NULL)
     ELSE UNCHANGED <<desk, tasks>>
  /\ UNCHANGED <<checked, search>>

StartTask == [kind |-> "start", client |-> NULL]
BidTask == [kind |-> "bid", client |-> NULL]

\* on_game_start
GameStart(d) ==
  LET D == desk[d] IN
  /\ StartTask \in tasks[d]
  /\ IF ~D.running \/ AnyNull(D)
     THEN /\ tasks' = [tasks EXCEPT ![d] = @ \ {StartTask}]
          /\ UNCHANGED <<desk, info>>
     ELSE /\ desk' = [desk EXCEPT ![d] =
            [D EXCEPT !.bid = [p \in Pos |-> 0], !.hand = [p \in Pos |-> HandSize]]]
          /\ info' = [c \in Client |->
               IF Has(D, c) THEN [info[c] EXCEPT !.ready = FALSE, !.declared = FALSE]
               ELSE info[c]]
          /\ Queue(d, "bid", NULL)
  /\ UNCHANGED <<checked, search>>

\* on_client_declare_handle
Declare(c) ==
  LET d == info[c].desk
      D == desk[d]
  IN
  /\ search[c] = NULL
  /\ d # NULL
  /\ D.running
  /\ ~info[c].declared
  /\ Has(D, c)
  /\ IF D.bided
     THEN /\ D.landlord = c
          /\ Current(D) = c
          /\ D.multiple # -1
          /\ D.hand[PosOf(D, c)] = HandSize + BottomSize
     ELSE D.multiple = -1
  /\ desk' = [desk EXCEPT ![d].bidpos = IF D.declares = 0 THEN PosOf(D, c) ELSE @,
                          ![d].declares = @ + 1]
  /\ info' = [info EXCEPT ![c].declared = TRUE]
  /\ UNCHANGED <<tasks, checked, search>>

\* on_game_bid up to its lock.  A lock is not held for the 4300 ms until the
\* next one fires, so at most one waits.
CheckBid(d) ==
  /\ BidTask \in tasks[d]
  /\ ~checked[d]
  /\ checked' = [checked EXCEPT ![d] = TRUE]
  /\ tasks' = [tasks EXCEPT ![d] = @ \ {BidTask}]
  /\ UNCHANGED <<desk, info, search>>

\* on_game_bid from its lock on
GameBid(d) ==
  LET D == desk[d]
      bidpos == IF D.declares = 0 THEN NextPos(D.bidpos) ELSE D.bidpos
  IN
  /\ checked[d]
  /\ checked' = [checked EXCEPT ![d] = FALSE]
  /\ IF ~D.running \/ AnyNull(D)
     THEN UNCHANGED desk
     ELSE desk' = [desk EXCEPT ![d] =
            [StartAt(D, bidpos) EXCEPT !.bidpos = bidpos, !.bided = TRUE]]
  /\ UNCHANGED <<info, tasks, search>>

--------------------------------------------------------------------------
(* Bidding *)

\* The landlord is found.
Landlord(d, D, c) ==
  /\ desk' = [desk EXCEPT ![d] = [D EXCEPT !.landlord = c]]
  /\ Queue(d, "landlord", c)

\* The player at curr is asked.
Ask(d, D) == desk' = [desk EXCEPT ![d] = D] /\ UNCHANGED tasks

\* Nobody has bid so far, and D is the table after c's answer.
FirstBid(d, D, c, yes) ==
  LET next == NextPos(D.curr)
      Bid == StartAt([D EXCEPT !.multiple = @ + 1, !.temp = c], next)
  IN
  CASE yes /\ D.bid[next] = -1
         -> Landlord(d, MoveNext(MoveNext(Bid)), c)
    [] yes /\ D.bid[next] # -1
         -> Ask(d, Bid)
    [] ~yes /\ D.seats[next] = D.seats[D.first] /\ D.declares = 0
         -> desk' = [desk EXCEPT ![d] = D] /\ Queue(d, "start", NULL)
    [] ~yes /\ D.seats[next] = D.seats[D.first] /\ D.declares # 0
         -> Landlord(d, D, D.seats[D.bidpos])
    [] OTHER -> Ask(d, MoveNext(D))

\* Somebody has bid: those who have not passed are asked until the first one is
\* met again or the highest bidder is.
LaterBid(d, D, c, yes) ==
  LET Raised == IF yes THEN [D EXCEPT !.multiple = @ + 1, !.temp = c] ELSE D
      One == MoveNext(Raised)
      Two == MoveNext(One)
      First(E) == E.seats[NextPos(E.curr)] = E.seats[E.first]
      Out(E) == E.bid[E.curr] = -1
      Met(E) == IF Current(E) = E.temp THEN Landlord(d, E, E.temp) ELSE Ask(d, E)
  IN
  CASE First(Raised)              -> Landlord(d, Raised, Raised.temp)
    [] ~First(Raised) /\ ~Out(One) -> Met(One)
    [] OTHER -> IF First(One) THEN Landlord(d, One, One.temp)
                ELSE IF Out(Two) THEN Ask(d, Two) ELSE Met(Two)

\* on_client_bid
Bids(d, c, yes) ==
  LET D == desk[d]
      Told == [D EXCEPT !.bid[PosOf(D, c)] = IF yes THEN 1 ELSE -1]
  IN
  /\ D.running
  /\ D.landlord = NULL
  /\ Current(D) = c
  /\ IF D.multiple = -1 THEN FirstBid(d, Told, c, yes) ELSE LaterBid(d, Told, c, yes)
  /\ UNCHANGED <<info, checked, search>>

\* on_client_bid_handle
Bid(c) ==
  /\ search[c] = NULL
  /\ info[c].desk # NULL
  /\ \E yes \in BOOLEAN : Bids(info[c].desk, c, yes)

\* on_game_landlord
GameLandlord(d) ==
  \E t \in tasks[d] :
    LET D == desk[d] IN
    /\ t.kind = "landlord"
    /\ tasks' = [tasks EXCEPT ![d] = @ \ {t}]
    /\ IF D.running /\ D.landlord = t.client /\ Has(D, t.client)
       THEN desk' = [desk EXCEPT ![d] =
              [StartAt(D, PosOf(D, t.client)) EXCEPT
                 !.hand[PosOf(D, t.client)] = @ + BottomSize]]
       ELSE UNCHANGED desk
    /\ UNCHANGED <<info, checked, search>>

--------------------------------------------------------------------------
(* Playing *)

\* on_game_stop at the end of a game
GameStop(d, D) ==
  /\ desk' = [desk EXCEPT ![d] = Reset(D)]
  /\ info' = [c \in Client |-> [info[c] EXCEPT !.ready = @ /\ ~Has(D, c)]]

\* on_client_show_poker: the turn goes on, or c's cards have run out.
ShowPoker(d, D, c) ==
  IF D.hand[PosOf(D, c)] = 0
  THEN GameStop(d, D)
  ELSE desk' = [desk EXCEPT ![d] = MoveNext(D)] /\ UNCHANGED info

MayPlay(d, c) ==
  /\ desk[d].running
  /\ desk[d].landlord # NULL
  /\ Current(desk[d]) = c

\* on_client_card_handle, "CAD 0"
Passes(d, c) ==
  LET D == desk[d] IN
  /\ MayPlay(d, c)
  /\ D.shower \notin {NULL, c}
  /\ ShowPoker(d, [D EXCEPT !.free = @ \/ D.seats[NextPos(D.curr)] = D.shower], c)
  /\ UNCHANGED <<tasks, checked, search>>

\* on_client_card_handle with n cards of the hand that beat the last play
Plays(d, c, n) ==
  LET D == desk[d] IN
  /\ MayPlay(d, c)
  /\ n \in 1..D.hand[D.curr]
  /\ ShowPoker(d, [D EXCEPT !.free = FALSE, !.shower = c, !.hand[D.curr] = @ - n], c)
  /\ UNCHANGED <<tasks, checked, search>>

\* on_client_card_handle
Card(c) ==
  LET d == info[c].desk IN
  /\ search[c] = NULL
  /\ d # NULL
  /\ Passes(d, c) \/ \E n \in 1..(HandSize + BottomSize) : Plays(d, c, n)

\* "CAD 0" for a player who leads, too.
Update_Passes(d) ==
  LET D == desk[d]
      c == Current(D)
  IN
  /\ D.running
  /\ c # NULL
  /\ IF D.landlord = NULL THEN Bids(d, c, FALSE)
     ELSE D.hand[D.curr] > 0 /\ Passes(d, c)

\* on_update: the current player has been idle for max_waiting_duration_.  It
\* passes the bid, leads its first card, or passes.
Update(d) ==
  LET D == desk[d]
      c == Current(D)
  IN
  /\ D.running
  /\ c # NULL
  /\ IF D.landlord = NULL THEN Bids(d, c, FALSE)
     ELSE /\ D.hand[D.curr] > 0
          /\ IF D.free THEN Plays(d, c, 1) ELSE Passes(d, c)

--------------------------------------------------------------------------

Init ==
  /\ desk = [d \in Desk |-> NewDesk]
  /\ info = [c \in Client |-> NewInfo]
  /\ tasks = [d \in Desk |-> {}]
  /\ checked = [d \in Desk |-> FALSE]
  /\ search = [c \in Client |-> NULL]

ClientStep(c) ==
  \/ JoinDesk(c) \/ SitDown(c) \/ LookOn(c) \/ Bye(c) \/ Leave(c)
  \/ Ready(c) \/ Declare(c) \/ Bid(c) \/ Card(c)

TimerStep(d) == GameStart(d) \/ CheckBid(d) \/ GameBid(d) \/ GameLandlord(d)

Next ==
  \/ \E c \in Client : ClientStep(c)
  \/ \E d \in Desk : TimerStep(d) \/ Update(d)

Spec == Init /\ [][Next]_vars

\* The timers of a table fire, and the update thread comes round.  Nothing is
\* assumed of the players.
Fairness == \A d \in Desk : WF_vars(TimerStep(d)) /\ WF_vars(Update(d))

FairSpec == Spec /\ Fairness

--------------------------------------------------------------------------
(* Properties *)

\* A client sits where its info says it does, on one chair: no handler reaches
\* a table that has forgotten the client, and no table keeps the pointer of a
\* client that has gone.
SeatsAgree ==
  \A c \in Client, d \in Desk :
    /\ info[c].desk = d <=> Has(desk[d], c)
    /\ \A p, q \in Pos : desk[d].seats[p] = c /\ desk[d].seats[q] = c => p = q

\* The handlers of a running game follow the pointers of all three seats, of
\* the landlord and of the bidders without a look: they point to players of
\* this table, however many have left and come since the last game.
PlayersSeated ==
  \A d \in Desk : LET D == desk[d] IN D.running =>
    /\ ~AnyNull(D)
    /\ \A c \in {D.landlord, D.temp, D.shower} : c = NULL \/ Has(D, c)
    /\ D.multiple # -1 => D.temp # NULL

\* A client that is ready cannot say so again, so the last one starts the game:
\* no table waits with three clients that are ready.
ReadyStarts ==
  \A d \in Desk :
    (\A p \in Pos : desk[d].seats[p] # NULL /\ info[desk[d].seats[p]].ready)
      => desk[d].running

\* At most one pending timer carries the code of its table, and a game that runs
\* is driven: by a timer, or by a player whose turn on_update can take.
OneDriver ==
  \A d \in Desk :
    /\ \A s, t \in tasks[d] : s = t
    /\ desk[d].running => tasks[d] # {} \/ checked[d] \/ Current(desk[d]) # NULL

\* The bottom cards are dealt once, to the landlord.
BottomOnce ==
  \A d \in Desk, p \in Pos : LET D == desk[d] IN
    /\ D.hand[p] <= HandSize + BottomSize
    /\ D.hand[p] > HandSize => D.landlord # NULL /\ D.seats[p] = D.landlord

\* The player whose turn it is has to beat its own cards, or has none, and
\* on_update does nothing that is accepted.
Stuck(D) ==
  /\ D.running /\ D.landlord # NULL
  /\ \/ ~D.free /\ D.shower = Current(D)
     \/ D.hand[D.curr] = 0

\* A game in which somebody has bid, or that has a landlord, ends, though the
\* players do nothing: bidding finds a landlord and cards run out, unless the
\* game is stuck.
GameEnds ==
  \A d \in Desk :
    desk[d].multiple # -1 \/ desk[d].landlord # NULL
      ~> ~desk[d].running \/ Stuck(desk[d])

=============================================================================
