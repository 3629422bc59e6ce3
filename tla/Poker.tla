------------------------------- MODULE Poker -------------------------------
(* poker_parser: what a set of cards is worth in ddz.

   Suits are left out, since the parser reads the first character of a card
   only, and so is the order, since it sorts the cards first: a hand is a bag of
   ranks.  Ranks are the characters 'A' to 'O': 3 to K, the ace, the two ('M')
   and the two jokers ('N' and 'O').  A deck without the lowest ranks is a bound
   for model checking.

   A definition whose name ends in _ and a word is its namesake with a slip a
   programmer could make; no other definition uses it.                       *)
EXTENDS Integers, FiniteSets, FiniteSetsExt

CONSTANT LowRank    \* the lowest rank of the deck

ASSUME PokerAssumption == LowRank \in 1..13

Rank == LowRank..15
Two == 13
LittleJoker == 14
BigJoker == 15

Copies(r) == IF r \in {LittleJoker, BigJoker} THEN 1 ELSE 4
Counts == [Rank -> 0..4]
Hand == {h \in Counts : \A r \in Rank : h[r] <= Copies(r)}

Empty == [r \in Rank |-> 0]
Kind(k, S) == [r \in Rank |-> IF r \in S THEN k ELSE 0]
Plus(h, g) == [r \in Rank |-> h[r] + g[r]]
Minus(h, g) == [r \in Rank |-> h[r] - g[r]]
Part(g, h) == \A r \in Rank : g[r] <= h[r]
Exactly(h, k) == {r \in Rank : h[r] = k}
AtLeast(h, k) == {r \in Rank : h[r] >= k}
Size(h) == Cardinality(AtLeast(h, 1)) + Cardinality(AtLeast(h, 2))
             + Cardinality(AtLeast(h, 3)) + Cardinality(AtLeast(h, 4))

Type == {"single", "double", "three", "three_one", "three_double",
         "four_two_single", "four_two_double", "single_chain", "double_chain",
         "three_chain", "three_chain_single", "three_chain_double", "bomb",
         "double_joker"}

\* poker_info
Info(t, v, n) == [type |-> t, value |-> v, length |-> n]
Err == Info("err", 0, 0)
Zero == Info("zero", 0, 0)

--------------------------------------------------------------------------
(* The parser *)

\* The two, and the jokers, are in no chain.
Run(S) == \A r \in S : r < Two /\ (r # Max(S) => r + 1 \in S)

\* Cards of one rank each, or two.
IsChain(h, k) == Exactly(h, k) = AtLeast(h, 1) /\ Run(AtLeast(h, 1))

\* Triples and as many cards, or pairs, or none; four of a rank never.
Wings(h) == Exactly(h, 1) \cup Exactly(h, 2)
Alike(h) == Exactly(h, 1) = {} \/ Exactly(h, 2) = {}
IsThreeChain_Any(h) ==
  /\ Exactly(h, 4) = {} /\ Alike(h)
  /\ Cardinality(Exactly(h, 3)) > 1 /\ Run(Exactly(h, 3))
  /\ Cardinality(Wings(h)) <= Cardinality(Exactly(h, 3))
IsThreeChain(h) ==
  /\ Exactly(h, 4) = {} /\ Alike(h)
  /\ Cardinality(Exactly(h, 3)) > 1 /\ Run(Exactly(h, 3))
  /\ Cardinality(Wings(h)) \in {0, Cardinality(Exactly(h, 3))}

ThreeChain(h) ==
  CASE Wings(h) = {}       -> "three_chain"
    [] Exactly(h, 1) # {}  -> "three_chain_single"
    [] Exactly(h, 2) # {}  -> "three_chain_double"

\* Three or four of one rank, and what goes with them.
ThreeOrFour(h) ==
  LET main == AtLeast(h, 3)
      wing == IF Exactly(h, 2) # {} THEN 2 ELSE 1
      Is(k, n, w) == Exactly(h, k) # {} /\ Cardinality(Wings(h)) = n /\ (n = 0 \/ wing = w)
  IN
  IF Cardinality(main) # 1 \/ ~Alike(h) THEN "err"
  ELSE CASE Is(3, 0, 1) -> "three"
         [] Is(3, 1, 1) -> "three_one"
         [] Is(3, 1, 2) -> "three_double"
         [] Is(4, 0, 1) -> "bomb"
         [] Is(4, 1, 2) -> "four_two_single"
         [] Is(4, 2, 1) -> "four_two_single"
         [] Is(4, 2, 2) -> "four_two_double"
         [] OTHER       -> "err"

\* What parse tries depends on the number of cards.
Parse(h) ==
  LET n == Size(h)
      low == Min(AtLeast(h, 1))
      main == Min(AtLeast(h, 3))
  IN
  IF n \notin 1..19 THEN Err
  ELSE
  CASE n = 1                       -> Info("single", low, 1)
    [] n = 2 /\ h[low] = 2         -> Info("double", low, 2)
    [] n = 2 /\ h[LittleJoker] = 1 /\ h[BigJoker] = 1 -> Info("double_joker", low, 2)
    [] n = 3 /\ h[low] = 3 /\ low < LittleJoker -> Info("three", low, 3)
    [] n >= 5 /\ IsChain(h, 1)     -> Info("single_chain", low, n)
    [] n >= 6 /\ IsChain(h, 2)     -> Info("double_chain", low, n)
    [] n \notin {7} /\ n >= 6 /\ IsThreeChain(h) -> Info(ThreeChain(h), main, n)
    [] n \in {4, 5, 6, 8} /\ ThreeOrFour(h) # "err" -> Info(ThreeOrFour(h), main, n)
    [] OTHER                       -> Err

\* is_large
IsLarge(p, q) ==
  \/ p.type = q.type /\ p.value > q.value /\ p.length = q.length
  \/ p.type # q.type /\ q.type = "zero" /\ p.type # "err"
  \/ p.type # q.type /\ p.type = "double_joker"
  \/ p.type # q.type /\ p.type = "bomb" /\ q.type # "double_joker"

--------------------------------------------------------------------------
(* The rules of the game: the hands of every type, put together from parts.  A
   play has fewer than twenty cards.                                         *)

Runs(n) == {S \in SUBSET (Rank \cap 1..12) :
              Cardinality(S) = n /\ \E r \in Rank : S = r..(r + n - 1)}
Winged(k, n, w) ==       \* a run of n ranks k times each, with n ranks w times each
  UNION {{Plus(Kind(k, S), Kind(w, W)) : W \in kSubset(n, Rank \ S)} : S \in Runs(n)}
Legal(hands) == {h \in hands : h \in Hand /\ Size(h) < 20}

Around(k, n, w) ==       \* k of one rank with n ranks w times each
  UNION {{Plus(Kind(k, {r}), Kind(w, W)) : W \in kSubset(n, Rank \ {r})} : r \in Rank}

Shape(t) == Legal(
  CASE t = "single"             -> Around(1, 0, 0)
    [] t = "double"             -> Around(2, 0, 0)
    [] t = "three"              -> Around(3, 0, 0)
    [] t = "three_one"          -> Around(3, 1, 1)
    [] t = "three_double"       -> Around(3, 1, 2)
    [] t = "four_two_single"    -> Around(4, 2, 1) \cup Around(4, 1, 2)
    [] t = "four_two_double"    -> Around(4, 2, 2)
    [] t = "single_chain"       -> {Kind(1, S) : S \in UNION {Runs(n) : n \in 5..12}}
    [] t = "double_chain"       -> {Kind(2, S) : S \in UNION {Runs(n) : n \in 3..12}}
    [] t = "three_chain"        -> {Kind(3, S) : S \in UNION {Runs(n) : n \in 2..12}}
    [] t = "three_chain_single" -> UNION {Winged(3, n, 1) : n \in 2..6}
    [] t = "three_chain_double" -> UNION {Winged(3, n, 2) : n \in 2..6}
    [] t = "bomb"               -> Around(4, 0, 0)
    [] t = "double_joker"       -> {Kind(1, {LittleJoker, BigJoker})})

=============================================================================
