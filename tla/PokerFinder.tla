---------------------------- MODULE PokerFinder ----------------------------
(* poker_finder: the cards with which a robot answers the last play.  A set of
   cards that is found is a hand, and Empty when nothing is found.

   The finder archives the hand by the number of cards of each rank and takes
   single cards before pairs, pairs before triples, triples before bombs, and
   low ranks before high ones.                                              *)
EXTENDS Poker

\* archive_poker_list
Before(h, r, s) == h[r] < h[s] \/ (h[r] = h[s] /\ r < s)

\* The first n of the ranks S.
First(h, S, n) == {r \in S : Cardinality({s \in S : Before(h, s, r)}) < n}

\* find_type_value in the archives of k cards and more: a rank above v, or none.
Above(S, v) == {r \in S : r > v}
FindKind(h, k, v) == First(h, Above(AtLeast(h, k), v), 1)

FindSingle(h, v) == Kind(1, FindKind(h, 1, v))
FindDouble(h, v) == Kind(2, FindKind(h, 2, v))
FindThree(h, v) == Kind(3, FindKind(h, 3, v))
FindFour(h, v) == Kind(4, FindKind(h, 4, v))

\* k cards of the ranks S with w cards of n other ranks, or nothing at all.
WithWings_Same(h, k, S, n, w) ==
  LET W == First(h, AtLeast(h, w), n)
  IN IF S = {} \/ Cardinality(W) < n THEN Empty ELSE Plus(Kind(k, S), Kind(w, W))

WithWings(h, k, S, n, w) ==
  LET W == First(h, AtLeast(h, w) \ S, n)
  IN IF S = {} \/ Cardinality(W) < n THEN Empty ELSE Plus(Kind(k, S), Kind(w, W))

FindThreeAndSingle(h, v) == WithWings(h, 3, FindKind(h, 3, v), 1, 1)
FindThreeAndDouble(h, v) == WithWings(h, 3, FindKind(h, 3, v), 1, 2)
FindFourAndTwoSingle(h, v) == WithWings(h, 4, FindKind(h, 4, v), 2, 1)
FindFourAndTwoDouble(h, v) == WithWings(h, 4, FindKind(h, 4, v), 2, 2)

\* find_single_chain_inner, find_double_chain_inner: the lowest run of n ranks
\* of S above v.
RunIn(S, v, n) ==
  LET start == {r \in S : r > v /\ r + n - 1 < Two /\ r..(r + n - 1) \subseteq S}
  IN IF start = {} THEN {} ELSE Min(start)..(Min(start) + n - 1)

\* The first of the growing sets of ranks that holds such a run.
FirstRun(stock, v, n) ==
  LET good == {i \in DOMAIN stock : RunIn(stock[i], v, n) # {}}
  IN IF good = {} THEN {} ELSE RunIn(stock[Min(good)], v, n)

AtMost(h, i) == {r \in Rank : h[r] <= i}
FindSingleChain(h, v, n) ==
  Kind(1, FirstRun([i \in 1..4 |-> AtLeast(h, 1) \cap AtMost(h, i)], v, n))
FindDoubleChain(h, v, n) ==
  Kind(2, FirstRun([i \in 2..4 |-> AtLeast(h, 2) \cap AtMost(h, i)], v, n \div 2))

\* Triples are taken one by one, in the order of the archive.
ThreeRun(h, v, n) ==
  LET three == Above(AtLeast(h, 3), v)
  IN FirstRun([i \in 1..Cardinality(three) |-> First(h, three, i)], v, n)
FindThreeChain(h, v, n) == Kind(3, ThreeRun(h, v, n \div 3))
FindThreeChainAndSingle(h, v, n) ==
  WithWings(h, 3, ThreeRun(h, v, n \div 4), n \div 4, 1)
FindThreeChainAndDouble(h, v, n) ==
  WithWings(h, 3, ThreeRun(h, v, n \div 5), n \div 5, 2)

FindDoubleJoker(h) ==
  IF h[LittleJoker] = 1 /\ h[BigJoker] = 1 THEN Kind(1, {LittleJoker, BigJoker}) ELSE Empty

\* With four cards or more the jokers are not tried.
FindBombOrDoubleJoker(h) == IF Size(h) >= 4 THEN FindFour(h, 0) ELSE FindDoubleJoker(h)

\* The same kind of play, as long and larger.
FindSame(p, h) ==
  LET v == p.value IN
  CASE p.type = "zero"               -> FindSingle(h, 0)
    [] p.type = "single"             -> FindSingle(h, v)
    [] p.type = "double"             -> FindDouble(h, v)
    [] p.type = "three"              -> FindThree(h, v)
    [] p.type = "three_one"          -> FindThreeAndSingle(h, v)
    [] p.type = "three_double"       -> FindThreeAndDouble(h, v)
    [] p.type = "bomb"               -> FindFour(h, v)
    [] p.type = "four_two_single"    -> FindFourAndTwoSingle(h, v)
    [] p.type = "four_two_double"    -> FindFourAndTwoDouble(h, v)
    [] p.type = "single_chain"       -> FindSingleChain(h, v, p.length)
    [] p.type = "double_chain"       -> FindDoubleChain(h, v, p.length)
    [] p.type = "three_chain"        -> FindThreeChain(h, v, p.length)
    [] p.type = "three_chain_single" -> FindThreeChainAndSingle(h, v, p.length)
    [] p.type = "three_chain_double" -> FindThreeChainAndDouble(h, v, p.length)
    [] p.type = "double_joker"       -> Empty

FindBigPokers(p, h) ==
  LET same == FindSame(p, h) IN
  IF same # Empty \/ p.type \in {"zero", "double_joker"} THEN same
  ELSE IF p.type = "bomb" THEN FindDoubleJoker(h)
  ELSE FindBombOrDoubleJoker(h)

=============================================================================
