----------------------------- MODULE MC_DdzTrick -----------------------------
(* DdzTrick for TLC: games of players who play what they like, from a few hands
   of high cards, and games that robots play, from every hand of at most
   MaxCards cards and every hand that is a play or a play with a card more.
   There is one bottom card.                                                 *)
EXTENDS DdzTrick

CONSTANT MaxCards

MCGame(h, b, c, r, n) ==
  [hand |-> [p \in Pos |-> h[p + 1]], bottom |-> Kind(1, {b}), curr |-> c,
   money |-> [p \in Pos |-> 6 - p], robot |-> r, commands |-> n]

\* A pair of pairs against two jokers and a bomb, few cards, and pairs in runs.
MCBombs == <<Kind(2, {8, 9}), Plus(Kind(2, {11}), Kind(1, {14, 15})),
             Plus(Kind(4, {12}), Kind(1, {13}))>>
MCFew == <<Kind(1, {8, 10}), Kind(1, {11, 14}), Kind(1, {12, 13})>>
MCRuns == <<Kind(2, 8..10), Kind(2, 9..11), Kind(1, 11..12)>>

MCAll == [p \in Pos |-> TRUE]
MCNone == [p \in Pos |-> FALSE]

MCGames ==
  {MCGame(MCBombs, 10, c, r, 1) : c \in Pos, r \in [Pos -> BOOLEAN]}
    \cup {MCGame(MCBombs, 10, Lord, MCNone, MaxCommands)}
    \cup {MCGame(MCRuns, 13, 2, MCAll, 1)}
    \cup {MCGame(MCFew, 9, c, MCAll, MaxCommands) : c \in Pos}

\* What a player names is a play, or a joker that is named again.
MCNamed == Playable \cup {Kind(k, {r}) : k \in 2..4, r \in {LittleJoker, BigJoker}}

MCLordHands ==
  {h \in Hand : Size(h) \in 2..MaxCards} \cup {h \in Playable : Size(h) > 1}
    \cup {h \in {Plus(g, Kind(1, {r})) : g \in Playable, r \in Rank} : h \in Hand}

MCRobotGames ==
  {LET last == Kind(1, {Max(AtLeast(h, 1))}) IN
   [hand |-> [p \in Pos |-> IF p = Lord THEN Minus(h, last) ELSE Kind(1, {Two})],
    bottom |-> last, curr |-> Next3(Lord),
    money |-> [p \in Pos |-> 6], robot |-> [p \in Pos |-> TRUE], commands |-> 0] :
   h \in {h \in MCLordHands : h[Two] <= 2}}

MCStart == MCGames \cup MCRobotGames
=============================================================================
