------------------------------ MODULE DdzTrick ------------------------------
(* A game of ddz with its cards: from the moment the bidding has found the
   landlord until a player has no card left, with players who play, pass or do
   nothing, and robots that answer for those who have asked for one.  The landlord
   is dealt the bottom cards and is asked half a second after the bidding; until
   then the table already takes the cards of whoever was asked last to bid.

   DdzTable has the tables around it and counts cards only; here the cards are
   played, and a refused play changes nothing, so only accepted plays are steps.
   The players keep their seats.  The landlord sits at position 0.  A command
   that is simulated for a robot or an idle player is handled at once.

   A command names cards, and nothing in the code asks that it names a card once.
   So a play is the cards that are named, by which it is judged, and the cards
   that leave the hand.  A play that names more than four of a rank is none for
   the parser, and is left out.

   A robot answers from a timer that carries the verify_code of its player.  That
   is 0 again when the player has left the robot mode, so that two timers may
   carry the same code: they are told apart by how often the player had left the
   robot mode when they were queued.

   A definition whose name ends in _ and a word is its namesake with a slip a
   programmer could make; no other definition uses it.                       *)
EXTENDS PokerFinder

CONSTANTS
  Start,        \* the games: hands, who was asked last to bid, money, robots
  BottomSize,   \* the number of bottom cards, of the landlord's twenty
  Named,        \* the plays that players name
  Stake,        \* what the bidding has made of multiple_
  MaxCommands,  \* bound: the commands that players send in a game
  NULL

ASSUME DdzTrickAssumption ==
  /\ Stake \in Nat \ {0} /\ MaxCommands \in Nat /\ BottomSize \in 0..3
  /\ NULL \notin 0..2
  /\ Named \subseteq Counts
  /\ \A s \in Start :
       /\ s.hand \in [0..2 -> Hand \ {Empty}] /\ s.money \in [0..2 -> Nat]
       /\ s.bottom \in Hand /\ Size(s.bottom) = BottomSize
       /\ Plus(s.hand[0], s.bottom) \in Hand /\ s.curr \in 0..2
       /\ s.robot \in [0..2 -> BOOLEAN] /\ s.commands \in 0..MaxCommands

VARIABLES
  running,
  dealt,     \* on_game_landlord has run
  bottom,    \* the bottom cards, the last of desk_pokers_
  hand,      \* pos_pokers_
  curr,      \* the position whose turn it is
  poker,     \* curr_poker_
  shower,    \* the position of curr_shower_
  factor,    \* what the bombs have made of the stake: 2 to the bomb_count_
  money,     \* money_ of the players
  robot,     \* is_robot_mode_ of the players
  code,      \* verify_code of the players
  left,      \* how often the players have left the robot mode
  tasks,     \* pending on_robot_card timers
  commands,  \* what is left of MaxCommands
  early      \* history: the last play lay there before the landlord was asked

Table_vars == <<running, hand, curr, poker, shower, factor, money, early>>
Player_vars == <<robot, left, commands>>
Deal_vars == <<dealt, bottom>>
vars == <<Table_vars, Player_vars, Deal_vars, code, tasks>>

Pos == 0..2
Lord == 0
Next3(p) == (p + 1) % 3
Task == [pos: Pos, code: Nat, left: Nat]

\* poker_info
PokerInfo == [type: Type \cup {"zero"}, value: Nat, length: 0..19]

TypeOK ==
  /\ running \in BOOLEAN /\ dealt \in BOOLEAN /\ early \in BOOLEAN
  /\ bottom \in Hand
  /\ hand \in [Pos -> Hand]
  /\ curr \in Pos \cup {-1}
  /\ poker \in PokerInfo
  /\ shower \in Pos \cup {NULL}
  /\ factor \in Nat
  /\ money \in [Pos -> Nat]
  /\ robot \in [Pos -> BOOLEAN]
  /\ code \in [Pos -> Nat]
  /\ left \in [Pos -> Nat]
  /\ tasks \subseteq Task
  /\ commands \in 0..MaxCommands

--------------------------------------------------------------------------
(* The end of the game *)

Total == Stake * factor
Smaller(a, b) == IF a < b THEN a ELSE b

\* on_game_stop when the landlord has won.  What a peasant has lost is added to
\* its money, and the landlord's stays as it was.
LordWon == [p \in Pos |-> IF p = Lord THEN money[p]
                          ELSE money[p] + Smaller(2 * Total, money[p])]

\* on_game_stop when the landlord has lost: at most what it has, in halves.
LordLost_Uncapped ==
  LET lost == Smaller(4 * Total, money[Lord])
  IN [p \in Pos |-> IF p = Lord THEN money[p] - lost ELSE money[p] + 2 * Total]

LordLost ==
  LET lost == Smaller(4 * Total, money[Lord])
  IN [p \in Pos |-> IF p = Lord THEN money[p] - lost ELSE money[p] + lost \div 2]

\* on_game_stop and reset
GameStop(p) ==
  /\ running' = FALSE
  /\ money' = IF p = Lord THEN LordWon ELSE LordLost
  /\ hand' = [q \in Pos |-> Empty]
  /\ poker' = Zero /\ shower' = NULL /\ curr' = -1

--------------------------------------------------------------------------
(* Turns.  `pending' are the timers that are left before the step queues one. *)

\* The next player is asked, a robot by a timer with a new code.
Ask_Uncoded(p, pending) ==
  /\ code' = code
  /\ tasks' = IF robot[p]
              THEN pending \cup {[pos |-> p, code |-> code[p] + 1, left |-> left[p]]}
              ELSE pending

Ask(p, pending) ==
  IF robot[p]
  THEN /\ code' = [code EXCEPT ![p] = @ + 1]
       /\ tasks' = pending \cup {[pos |-> p, code |-> code[p] + 1, left |-> left[p]]}
  ELSE code' = code /\ tasks' = pending

\* on_client_show_poker: cards leave the hand, and the game is over or goes on
\* with the poker and the shower that are given.
ShowPoker(p, d, info, who, pending) ==
  IF hand[p] = d
  THEN GameStop(p) /\ code' = code /\ tasks' = pending
  ELSE /\ hand' = [hand EXCEPT ![p] = Minus(@, d)]
       /\ curr' = Next3(p)
       /\ poker' = info /\ shower' = who
       /\ UNCHANGED <<running, money>>
       /\ Ask(Next3(p), pending)

MayShow(p) == running /\ curr = p

\* What is named is cards of the hand, some of them perhaps more than once.
Names(g, d, h) ==
  Part(d, h) /\ \A r \in Rank : d[r] <= g[r] /\ (g[r] > 0 => d[r] > 0)

\* on_client_card_handle with cards: they are p's, are a play, and beat the last.
Accepted(g, d, p) ==
  Names(g, d, hand[p]) /\ LET info == Parse(g) IN info # Err /\ IsLarge(info, poker)

Plays(p, g, d, pending) ==
  /\ MayShow(p)
  /\ Accepted(g, d, p)
  /\ early' = FALSE
  /\ LET info == Parse(g) IN
     /\ factor' = IF info.type = "bomb" THEN 2 * factor ELSE factor
     /\ ShowPoker(p, d, info, p, pending)

\* The cards stay on the table when everybody else has passed.
Passes_Kept(p, pending) ==
  /\ MayShow(p)
  /\ shower \notin {NULL, p}
  /\ ShowPoker(p, Empty, poker, shower, pending)
  /\ UNCHANGED <<factor, early>>

\* on_client_card_handle with "0": not by who leads.
MayPass_Lead(p) == shower # p
MayPass(p) == shower \notin {NULL, p}
Passes(p, pending) ==
  /\ MayShow(p)
  /\ MayPass(p)
  /\ ShowPoker(p, Empty, IF Next3(p) = shower THEN Zero ELSE poker, shower, pending)
  /\ UNCHANGED <<factor, early>>

Nothing(pending) == tasks' = pending /\ UNCHANGED <<Table_vars, code>>

\* on_robot_card behind its checks; what the table refuses is not tried again.
Answer(p) == FindBigPokers(poker, hand[p])
Robot(p, pending) ==
  LET answer == Answer(p) IN
  CASE answer # Empty /\ Accepted(answer, answer, p) -> Plays(p, answer, answer, pending)
    [] answer = Empty /\ MayPass(p) -> Passes(p, pending)
    [] OTHER -> Nothing(pending)

--------------------------------------------------------------------------
(* The steps *)

Playable == UNION {Shape(t) : t \in Type}

\* The cards of the hand h that g can name.
Taken(g, h) ==
  {[r \in Rank |-> IF g[r] > 0 THEN n[r] ELSE 0] :
     n \in {n \in [AtLeast(g, 1) -> 1..4] : \A r \in AtLeast(g, 1) : n[r] <= h[r]}}

\* A player plays, or passes.
Card(p) ==
  /\ commands > 0 /\ commands' = commands - 1
  /\ \/ /\ MayShow(p)
        /\ \E g \in {g \in Named : AtLeast(g, 1) \subseteq AtLeast(hand[p], 1)} :
             \E d \in Taken(g, hand[p]) : Plays(p, g, d, tasks)
     \/ Passes(p, tasks)
  /\ UNCHANGED <<robot, left, Deal_vars>>

\* on_game_landlord: the landlord is dealt the bottom cards, and leads, or should:
\* what lies on the table stays there.
Landlord ==
  /\ ~dealt /\ dealt' = TRUE
  /\ IF running
     THEN /\ hand' = [hand EXCEPT ![Lord] = Plus(@, bottom)]
          /\ curr' = Lord
          /\ early' = (shower # NULL)
          /\ Ask(Lord, tasks)
     ELSE UNCHANGED <<hand, curr, early, code, tasks>>
  /\ UNCHANGED <<running, poker, shower, factor, money, bottom, Player_vars>>

\* on_update for an idle player: it leads its first card, or passes.  The timers
\* of a robot take a second and that of the landlord half of one, and
\* max_waiting_duration_ is longer than both.
Update ==
  LET first == Kind(1, {Min(AtLeast(hand[curr], 1))}) IN
  /\ dealt /\ tasks = {}
  /\ IF poker = Zero THEN Plays(curr, first, first, tasks) ELSE Passes(curr, tasks)
  /\ UNCHANGED <<Player_vars, Deal_vars>>

\* on_robot_card from a timer
Current(t) == running /\ curr = t.pos /\ robot[t.pos] /\ code[t.pos] = t.code
RobotCard(t) ==
  /\ t \in tasks
  /\ IF Current(t) THEN Robot(t.pos, tasks \ {t}) ELSE Nothing(tasks \ {t})
  /\ UNCHANGED <<Player_vars, Deal_vars>>

\* on_client_robot_handle, "RBT 1": whose turn it is answers at once.
RobotOn(p) ==
  /\ running /\ ~robot[p] /\ commands > 0
  /\ robot' = [robot EXCEPT ![p] = TRUE]
  /\ commands' = commands - 1
  /\ IF curr = p THEN Robot(p, tasks) ELSE Nothing(tasks)
  /\ UNCHANGED <<left, Deal_vars>>

\* "RBT 0"
RobotOff(p) ==
  /\ running /\ robot[p] /\ commands > 0
  /\ robot' = [robot EXCEPT ![p] = FALSE]
  /\ code' = [code EXCEPT ![p] = 0]
  /\ left' = [left EXCEPT ![p] = @ + 1]
  /\ commands' = commands - 1
  /\ UNCHANGED <<Table_vars, Deal_vars, tasks>>

\* on_client_bid has found the landlord, and queued on_game_landlord.  The turn is
\* where the bidding has left it.
Init ==
  \E s \in Start :
    /\ hand = s.hand /\ money = s.money /\ robot = s.robot
    /\ commands = s.commands
    /\ running = TRUE /\ curr = s.curr
    /\ dealt = FALSE /\ bottom = s.bottom /\ early = FALSE
    /\ poker = Zero /\ shower = NULL /\ factor = 1
    /\ left = [p \in Pos |-> 0] /\ code = [p \in Pos |-> 0]
    /\ tasks = {}

Next ==
  \/ \E p \in Pos : Card(p) \/ RobotOn(p) \/ RobotOff(p)
  \/ Landlord \/ Update
  \/ \E t \in tasks : RobotCard(t)

Spec == Init /\ [][Next]_vars

\* Timers fire: weak fairness of Landlord, and of RobotCard, which is enabled when
\* a timer is pending.  Nothing is assumed of players, or of on_update.
TimersFire ==
  /\ WF_vars(Landlord)
  /\ []<>(tasks = {}) \/ []<><<\E t \in tasks : RobotCard(t)>>_vars

FairSpec == Spec /\ TimersFire

--------------------------------------------------------------------------
(* Properties *)

\* Whose turn it is must beat its own cards: a pass is refused to the player of the
\* last play, and cards that do not beat it are.
Stuck == running /\ poker # Zero /\ shower = curr

\* Whoever leads finds the table free and has to beat nothing, and only who leads
\* does.  The cards that were taken before the landlord was asked are the exception,
\* until the next play; and nobody but the landlord has to beat its own because of
\* them.
LeadIsFree ==
  /\ running /\ ~early => (poker = Zero <=> shower \in {NULL, curr})
  /\ Stuck => early /\ curr = Lord

\* When the landlord has been dealt the bottom cards and leads, its hand is any hand:
\* the next two are about every such hand, taken as a play or asked for an answer to
\* every play of the deck.
Opening == running /\ dealt /\ shower = NULL

\* The parser knows the plays of the game, and nothing else.
Shapes == [t \in Type |-> Shape(t)]
ParserKnowsPlays ==
  Opening => \A t \in Type : Parse(hand[Lord]).type = t <=> hand[Lord] \in Shapes[t]

\* Every play, with the plays that beat it.
Worth == {[info |-> Parse(g), play |-> g] : g \in Playable}
LastPlays ==
  {[info |-> p, beaten |-> {w.play : w \in {w \in Worth : IsLarge(w.info, p)}}] :
     p \in {Zero} \cup {w.info : w \in Worth}}

\* What the finder finds is of the hand and beats the last play, and it gives up
\* only if nothing beats the last play, or nothing but the two jokers, which it
\* keeps while there are four cards or more.
Kept(h, p) == Size(h) >= 4 /\ p.type # "bomb"
AnswerBeats ==
  Opening => \A l \in LastPlays :
    LET h == hand[Lord]
        answer == FindBigPokers(l.info, h)
        beating == {g \in l.beaten : Part(g, h)}
    IN IF answer # Empty THEN answer \in beating
       ELSE \A g \in beating : Parse(g).type = "double_joker" /\ Kept(h, l.info)

\* What the peasants win is what the landlord loses, but for an odd coin.
Wealth(m) == m[0] + m[1] + m[2]
LordPays ==
  [][running /\ ~running' /\ curr # Lord => Wealth(money) - Wealth(money') \in {0, 1}]_vars

\* While all are robots the game goes on to its end, unless the landlord must beat
\* its own cards.
RobotsFinish ==
  (running /\ \A p \in Pos : robot[p])
    ~> (~running \/ Stuck \/ \E p \in Pos : ~robot[p])

\* The table in DdzTable that plays this game, with the sizes of the hands.
InGame(sizes, turn, free, who) ==
  [seats |-> [p \in Pos |-> p], running |-> TRUE, landlord |-> Lord, temp |-> Lord,
   multiple |-> 1, declares |-> 0, curr |-> turn, first |-> Lord, bidpos |-> Lord,
   bid |-> [p \in Pos |-> 1], bided |-> TRUE, free |-> free, shower |-> who,
   hand |-> sizes]
GameOver ==
  [seats |-> [p \in Pos |-> p], running |-> FALSE, landlord |-> NULL, temp |-> NULL,
   multiple |-> -1, declares |-> 0, curr |-> -1, first |-> -1, bidpos |-> Lord,
   bid |-> [p \in Pos |-> 0], bided |-> FALSE, free |-> TRUE, shower |-> NULL,
   hand |-> [p \in Pos |-> 0]]
Desk == IF running
        THEN InGame([p \in Pos |-> Size(hand[p])], curr, poker = Zero, shower)
        ELSE GameOver

LandlordTask == [kind |-> "landlord", client |-> Lord]

\* Every step is a step of the same game in DdzTable: its count of cards, its
\* free plays and its turns are what real cards give.
Table == INSTANCE DdzTable WITH
  Client <- Pos, DeskCount <- 1, HandSize <- 20 - BottomSize, BottomSize <- BottomSize,
  desk <- [d \in {1} |-> Desk],
  info <- [c \in Pos |-> [desk |-> 1, ready |-> FALSE, declared |-> FALSE]],
  tasks <- [d \in {1} |-> IF dealt THEN {} ELSE {LandlordTask}], checked <- [d \in {1} |-> FALSE],
  search <- [c \in Pos |-> NULL]
PlaysTable ==
  [][Table!GameLandlord(1) \/ \E c \in Pos : Table!Card(c)]_(Table!vars)

=============================================================================
