--------------------------- MODULE DdzTrick_proofs ---------------------------
(* Theorems about DdzTrick, for every deck, deal and stake, for whatever is played
   before the landlord is asked, and for cards that are named more than once:
   whoever leads finds the table free, or leads over cards that were taken before
   the landlord was asked; what the landlord loses is what the peasants win; a
   game with cards is a game of DdzTable; the parser knows the plays of the rules
   and nothing else; the finder's answer beats the last play; and no turn of a
   robot or of an idle player is one that nothing follows, but the landlord's that
   must beat its own cards.                                                  *)
EXTENDS DdzTrick, NumberFacts, FiniteSetTheorems, FunctionTheorems, TLAPS

--------------------------------------------------------------------------
(* The size of a hand: the number of its cards, which are told apart by a number
   for each rank                                                             *)

Cards(h) == {x \in Rank \X (1..4) : x[2] <= h[x[1]]}
Level(h, k) == {x \in Cards(h) : x[2] = k}

LEMMA SameSize ==
  ASSUME NEW S, NEW T, IsFiniteSet(S), NEW f \in [S -> T],
         \A x, y \in S : f[x] = f[y] => x = y,
         \A t \in T : \E x \in S : f[x] = t
  PROVE  IsFiniteSet(T) /\ Cardinality(T) = Cardinality(S)
<1>1. f \in Bijection(S, T)
  BY Fun_IsBij
<1>2. ExistsBijection(S, T)
  BY <1>1 DEF ExistsBijection
<1> QED BY <1>2, FS_Bijection

LEMMA RanksAreFinite == IsFiniteSet(Rank) /\ Rank \subseteq Int /\ \A r \in Rank : r \in 1..15
<1>1. LowRank \in 1..13
  BY PokerAssumption
<1>2. IsFiniteSet(LowRank..15)
  BY <1>1, FS_Interval
<1> QED BY <1>1, <1>2 DEF Rank

LEMMA CardsAreFinite == ASSUME NEW h PROVE IsFiniteSet(Cards(h))
<1>1. IsFiniteSet(1..4)
  <2>1. \A a, b \in Int : IsFiniteSet(a..b)
    BY FS_Interval
  <2>2. 1 \in Int /\ 4 \in Int
    OBVIOUS
  <2> QED BY <2>1, <2>2, Zenon
<1>2. IsFiniteSet(Rank \X (1..4))
  BY <1>1, RanksAreFinite, FS_Product
<1>3. Cards(h) \in SUBSET (Rank \X (1..4))
  BY DEF Cards
<1> QED BY <1>2, <1>3, FS_Subset

LEMMA LevelSize ==
  ASSUME NEW h, NEW k \in 1..4
  PROVE  IsFiniteSet(Level(h, k)) /\ Cardinality(Level(h, k)) = Cardinality(AtLeast(h, k))
<1> DEFINE f == [r \in AtLeast(h, k) |-> <<r, k>>]
<1>1. IsFiniteSet(AtLeast(h, k))
  <2>1. AtLeast(h, k) \in SUBSET Rank
    BY DEF AtLeast
  <2> QED BY <2>1, RanksAreFinite, FS_Subset
<1>2. f \in [AtLeast(h, k) -> Level(h, k)]
  <2> SUFFICES ASSUME NEW r \in AtLeast(h, k) PROVE <<r, k>> \in Level(h, k)
    OBVIOUS
  <2>1. r \in Rank /\ k <= h[r]
    BY DEF AtLeast
  <2> QED BY <2>1 DEF Level, Cards
<1>3. \A q, r \in AtLeast(h, k) : f[q] = f[r] => q = r
  OBVIOUS
<1>4. \A x \in Level(h, k) : \E r \in AtLeast(h, k) : f[r] = x
  <2> SUFFICES ASSUME NEW x \in Level(h, k) PROVE x[1] \in AtLeast(h, k) /\ x = <<x[1], k>>
    BY Zenon
  <2> QED BY DEF Level, Cards, AtLeast
<1> HIDE DEF f
<1> QED BY <1>1, <1>2, <1>3, <1>4, SameSize

LEMMA DisjointUnion ==
  ASSUME NEW S, NEW T, IsFiniteSet(S), IsFiniteSet(T), S \cap T = {}
  PROVE  /\ IsFiniteSet(S \cup T)
         /\ Cardinality(S \cup T) = Cardinality(S) + Cardinality(T)
         /\ Cardinality(S) \in Nat /\ Cardinality(T) \in Nat
  BY FS_Union, FS_EmptySet, FS_CardinalityType, SMTT(30)

\* The size of a hand is the number of its cards.
LEMMA SizeIsCards ==
  ASSUME NEW h PROVE Size(h) = Cardinality(Cards(h)) /\ Size(h) \in Nat
<1> DEFINE L(k) == Level(h, k)
<1>1. \A k \in 1..4 : IsFiniteSet(L(k)) /\ Cardinality(L(k)) = Cardinality(AtLeast(h, k))
  BY LevelSize
<1>2. \A j, k \in 1..4 : j # k => L(j) \cap L(k) = {}
  BY DEF Level
<1>3. Cards(h) = L(1) \cup L(2) \cup L(3) \cup L(4)
  BY DEF Level, Cards
<1> HIDE DEF L
<1>4. /\ IsFiniteSet(L(1) \cup L(2))
      /\ Cardinality(L(1) \cup L(2)) = Cardinality(L(1)) + Cardinality(L(2))
      /\ Cardinality(L(1)) \in Nat /\ Cardinality(L(2)) \in Nat
  <2>1. IsFiniteSet(L(1)) /\ IsFiniteSet(L(2)) /\ L(1) \cap L(2) = {}
    BY <1>1, <1>2
  <2> QED BY <2>1, DisjointUnion
<1>5. /\ IsFiniteSet(L(3) \cup L(4))
      /\ Cardinality(L(3) \cup L(4)) = Cardinality(L(3)) + Cardinality(L(4))
      /\ Cardinality(L(3)) \in Nat /\ Cardinality(L(4)) \in Nat
  <2>1. IsFiniteSet(L(3)) /\ IsFiniteSet(L(4)) /\ L(3) \cap L(4) = {}
    BY <1>1, <1>2
  <2> QED BY <2>1, DisjointUnion
<1>6. Cardinality((L(1) \cup L(2)) \cup (L(3) \cup L(4)))
        = Cardinality(L(1) \cup L(2)) + Cardinality(L(3) \cup L(4))
  <2>1. (L(1) \cup L(2)) \cap (L(3) \cup L(4)) = {}
    <3>1. /\ L(1) \cap L(3) = {} /\ L(1) \cap L(4) = {}
          /\ L(2) \cap L(3) = {} /\ L(2) \cap L(4) = {}
      BY <1>2
    <3> QED BY <3>1
  <2> QED BY <2>1, <1>4, <1>5, DisjointUnion
<1>7. Cards(h) = (L(1) \cup L(2)) \cup (L(3) \cup L(4))
  BY <1>3
<1> QED BY <1>1, <1>4, <1>5, <1>6, <1>7 DEF Size

\* Cards that are taken out of a hand are missing afterwards.
LEMMA SizeOfRest ==
  ASSUME NEW h \in Counts, NEW g \in Counts, Part(g, h)
  PROVE  /\ Minus(h, g) \in Counts
         /\ Size(Minus(h, g)) = Size(h) - Size(g)
         /\ Size(g) <= Size(h)
<1> DEFINE rest == Cards(h) \ Cards(g)
           f == [x \in rest |-> <<x[1], x[2] - g[x[1]]>>]
<1>0. \A r \in Rank : h[r] \in 0..4 /\ g[r] \in 0..4 /\ g[r] <= h[r] /\ Minus(h, g)[r] = h[r] - g[r]
  BY DEF Counts, Part, Minus
<1>1. Minus(h, g) \in Counts
  BY <1>0 DEF Counts, Minus
<1>2. Cards(g) \subseteq Cards(h)
  BY <1>0 DEF Cards
<1>3. IsFiniteSet(rest) /\ Cardinality(rest) = Cardinality(Cards(h)) - Cardinality(Cards(g))
  <2>1. Cards(h) \cap Cards(g) = Cards(g)
    BY <1>2
  <2> QED BY <2>1, CardsAreFinite, FS_Difference
<1>4. \A x \in rest : /\ x[1] \in Rank /\ x[2] \in 1..4 /\ x = <<x[1], x[2]>>
                      /\ g[x[1]] < x[2] /\ x[2] <= h[x[1]]
  BY <1>0 DEF Cards
<1>5. f \in [rest -> Cards(Minus(h, g))]
  <2> SUFFICES ASSUME NEW x \in rest
               PROVE  <<x[1], x[2] - g[x[1]]>> \in Cards(Minus(h, g))
    OBVIOUS
  <2> DEFINE r == x[1]
             k == x[2] - g[x[1]]
  <2>1. r \in Rank /\ k \in 1..4 /\ k <= Minus(h, g)[r]
    BY <1>0, <1>4
  <2> HIDE DEF r, k
  <2>2. <<r, k>> \in Cards(Minus(h, g))
    BY <2>1 DEF Cards
  <2> QED BY <2>2 DEF r, k
<1>6. \A x, y \in rest : f[x] = f[y] => x = y
  <2> SUFFICES ASSUME NEW x \in rest, NEW y \in rest,
                      <<x[1], x[2] - g[x[1]]>> = <<y[1], y[2] - g[y[1]]>>
               PROVE  x = y
    OBVIOUS
  <2>1. x[1] = y[1] /\ x[2] - g[x[1]] = y[2] - g[y[1]]
    OBVIOUS
  <2>2. x[2] = y[2]
    BY <1>0, <1>4, <2>1
  <2> QED BY <1>4, <2>1, <2>2
<1>7. \A t \in Cards(Minus(h, g)) : \E x \in rest : f[x] = t
  <2> SUFFICES ASSUME NEW t \in Cards(Minus(h, g)) PROVE \E x \in rest : f[x] = t
    OBVIOUS
  <2> DEFINE r == t[1]
             k == t[2]
             x == <<r, k + g[r]>>
  <2>1. r \in Rank /\ k \in 1..4 /\ t = <<r, k>> /\ k <= h[r] - g[r]
    BY <1>0 DEF Cards
  <2>2. k + g[r] \in 1..4 /\ k + g[r] <= h[r] /\ ~(k + g[r] <= g[r])
        /\ (k + g[r]) - g[r] = k
    BY <1>0, <2>1
  <2>3. x \in rest
    BY <2>1, <2>2 DEF Cards
  <2>4. f[x] = t
    BY <2>1, <2>2, <2>3
  <2> QED BY <2>3, <2>4
<1>8. Cardinality(Cards(Minus(h, g))) = Cardinality(rest)
  <2> HIDE DEF f, rest
  <2> QED BY <1>3, <1>5, <1>6, <1>7, SameSize
<1>9. Size(Minus(h, g)) = Size(h) - Size(g)
  BY <1>3, <1>8, SizeIsCards
<1>10. Size(Minus(h, g)) \in Nat /\ Size(h) \in Nat /\ Size(g) \in Nat
  BY SizeIsCards
<1> QED BY <1>1, <1>9, <1>10

\* A hand without cards is empty, and so is what is left when all are played.
LEMMA SizeZero ==
  ASSUME NEW h \in Counts PROVE Size(h) = 0 <=> h = Empty
<1>1. Size(h) = 0 <=> Cards(h) = {}
  BY SizeIsCards, CardsAreFinite, FS_EmptySet
<1>2. Cards(h) = {} => h = Empty
  <2> SUFFICES ASSUME Cards(h) = {}, NEW r \in Rank PROVE h[r] = 0
    BY DEF Counts, Empty
  <2>1. h[r] \in 0..4
    BY DEF Counts
  <2>2. CASE h[r] # 0
    <3>1. <<r, 1>> \in Cards(h)
      BY <2>1, <2>2 DEF Cards
    <3> QED BY <3>1
  <2> QED BY <2>2
<1>3. h = Empty => Cards(h) = {}
  BY DEF Cards, Empty
<1> QED BY <1>1, <1>2, <1>3

LEMMA SizeOfAll ==
  ASSUME NEW h \in Counts, NEW g \in Counts, Part(g, h)
  PROVE  h = g <=> Size(Minus(h, g)) = 0
<1>1. Minus(h, g) \in Counts
  BY SizeOfRest
<1>2. h = g <=> Minus(h, g) = Empty
  <2>1. \A r \in Rank : h[r] \in 0..4 /\ g[r] \in 0..4
    BY DEF Counts
  <2>2. h = g <=> \A r \in Rank : h[r] = g[r]
    BY DEF Counts
  <2>3. Minus(h, g) = Empty <=> \A r \in Rank : h[r] - g[r] = 0
    BY DEF Minus, Empty
  <2> QED BY <2>1, <2>2, <2>3
<1> QED BY <1>1, <1>2, SizeZero

--------------------------------------------------------------------------
(* What the finder and the parser return *)

Bag == [Rank -> Nat]

LEMMA BagsAreBags ==
  /\ Empty \in Bag
  /\ \A k \in Nat : \A S : Kind(k, S) \in Bag
  /\ \A h, g \in Bag : Plus(h, g) \in Bag
  /\ Empty \in Counts /\ Hand \subseteq Counts /\ Counts \subseteq Bag
<1>1. Empty \in Bag /\ Empty \in Counts
  BY DEF Empty, Bag, Counts
<1>2. \A k \in Nat : \A S : Kind(k, S) \in Bag
  BY DEF Kind, Bag
<1>3. \A h, g \in Bag : Plus(h, g) \in Bag
  BY DEF Plus, Bag
<1>4. Hand \subseteq Counts /\ Counts \subseteq Bag
  BY DEF Hand, Counts, Bag
<1> QED BY <1>1, <1>2, <1>3, <1>4

LEMMA WithWingsIsBag ==
  ASSUME NEW h, NEW k \in Nat, NEW S, NEW n, NEW w \in Nat
  PROVE  WithWings(h, k, S, n, w) \in Bag
  BY BagsAreBags DEF WithWings

\* Whatever it is asked for, the finder returns cards.
LEMMA AnswerIsBag ==
  ASSUME NEW p, p.type \in Type \cup {"zero"}, NEW h PROVE FindBigPokers(p, h) \in Bag
<1>1. \A v, n : /\ FindSingle(h, v) \in Bag /\ FindDouble(h, v) \in Bag
                /\ FindThree(h, v) \in Bag /\ FindFour(h, v) \in Bag
                /\ FindSingleChain(h, v, n) \in Bag /\ FindDoubleChain(h, v, n) \in Bag
                /\ FindThreeChain(h, v, n) \in Bag
  BY BagsAreBags DEF FindSingle, FindDouble, FindThree, FindFour, FindSingleChain,
                     FindDoubleChain, FindThreeChain
<1>2. \A v, n : /\ FindThreeAndSingle(h, v) \in Bag /\ FindThreeAndDouble(h, v) \in Bag
                /\ FindFourAndTwoSingle(h, v) \in Bag /\ FindFourAndTwoDouble(h, v) \in Bag
                /\ FindThreeChainAndSingle(h, v, n) \in Bag
                /\ FindThreeChainAndDouble(h, v, n) \in Bag
  BY WithWingsIsBag
  DEF FindThreeAndSingle, FindThreeAndDouble, FindFourAndTwoSingle, FindFourAndTwoDouble,
      FindThreeChainAndSingle, FindThreeChainAndDouble
<1>3. FindSame(p, h) \in Bag
  BY <1>1, <1>2, BagsAreBags DEF FindSame, Type
<1>4. FindDoubleJoker(h) \in Bag /\ FindBombOrDoubleJoker(h) \in Bag
  BY <1>1, BagsAreBags DEF FindDoubleJoker, FindBombOrDoubleJoker
<1> QED BY <1>3, <1>4 DEF FindBigPokers

LEMMA PlayableAreBags == Playable \subseteq Bag
  BY BagsAreBags DEF Playable, Shape, Legal

LEMMA ThreeChainType == ASSUME NEW h PROVE ThreeChain(h) \in Type
<1>1. Wings(h) = {} \/ Exactly(h, 1) # {} \/ Exactly(h, 2) # {}
  BY DEF Wings
<1> QED BY <1>1 DEF ThreeChain, Type

LEMMA ThreeOrFourType == ASSUME NEW h PROVE ThreeOrFour(h) \in Type \cup {"err"}
  BY DEF ThreeOrFour, Type

\* What the parser accepts is from 1 to 19 cards, and never counts as none.
LEMMA ParsedType ==
  ASSUME NEW h, Parse(h) # Err
  PROVE  Size(h) \in 1..19 /\ Parse(h).type \in Type /\ Parse(h) # Zero
<1>1. Size(h) \in 1..19
  BY DEF Parse
<1>2. \A t, v, n : Info(t, v, n).type = t
  BY DEF Info
<1>3. {"single", "double", "double_joker", "three", "single_chain", "double_chain"}
        \subseteq Type
  BY DEF Type
<1> HIDE DEF Info, ThreeChain, ThreeOrFour, Type
<1>4. Parse(h).type \in Type
  BY <1>2, <1>3, ThreeChainType, ThreeOrFourType DEF Parse
<1>5. Zero.type \notin Type
  BY <1>2 DEF Zero, Type
<1> QED BY <1>1, <1>4, <1>5

\* What a player plays and the table accepts is taken from its hand.
LEMMA AcceptedCards ==
  ASSUME NEW p \in Pos, hand[p] \in Hand, NEW g, NEW d \in Bag, Accepted(g, d, p)
  PROVE  /\ d \in Counts /\ Part(d, hand[p]) /\ Parse(g) # Err
<1>1. Part(d, hand[p]) /\ Parse(g) # Err
  BY DEF Accepted, Names
<1>2. \A r \in Rank : d[r] \in Nat /\ d[r] <= hand[p][r] /\ hand[p][r] \in 0..4
  BY <1>1 DEF Part, Hand, Counts, Bag
<1>3. d \in Counts
  BY <1>2 DEF Bag, Counts
<1> QED BY <1>1, <1>3

\* However often cards are named, one at least leaves the hand, and no more than are
\* named.
LEMMA AcceptedSize ==
  ASSUME NEW p \in Pos, hand[p] \in Hand, NEW g \in Counts, NEW d \in Bag, Accepted(g, d, p)
  PROVE  d # Empty /\ Size(d) \in 1..19
<1>1. d \in Counts /\ Size(g) \in 1..19
  BY AcceptedCards, ParsedType
<1>2. \A r \in Rank : /\ g[r] \in 0..4 /\ d[r] \in 0..4
                      /\ d[r] <= g[r] /\ (g[r] > 0 => d[r] > 0)
  BY <1>1 DEF Accepted, Names, Counts
<1>3. d # Empty
  <2>1. g # Empty
    <3>1. Size(g) # 0
      BY <1>1
    <3> QED BY <3>1, SizeZero
  <2>2. PICK r \in Rank : g[r] # 0
    BY <2>1 DEF Counts, Empty
  <2>3. d[r] # 0
    BY <1>2, <2>2
  <2> QED BY <2>3 DEF Empty
<1>4. Size(d) <= Size(g)
  <2>1. Part(d, g)
    BY <1>2 DEF Part
  <2> QED BY <1>1, <2>1, SizeOfRest
<1>5. Size(d) \in Nat /\ Size(d) # 0
  BY <1>1, <1>3, SizeZero, SizeIsCards
<1> QED BY <1>1, <1>3, <1>4, <1>5

\* The rest of a hand is a hand.
LEMMA RestIsHand ==
  ASSUME NEW h \in Hand, NEW g \in Counts, Part(g, h) PROVE Minus(h, g) \in Hand
<1>1. \A r \in Rank : h[r] \in 0..4 /\ g[r] \in 0..4 /\ g[r] <= h[r] /\ h[r] <= Copies(r)
                      /\ Copies(r) \in Nat
  BY DEF Hand, Counts, Part, Copies
<1>2. \A r \in Rank : h[r] - g[r] \in 0..4 /\ h[r] - g[r] <= Copies(r)
  BY <1>1
<1>3. Minus(h, g) \in Counts /\ \A r \in Rank : Minus(h, g)[r] = h[r] - g[r]
  BY <1>2 DEF Minus, Counts
<1> QED BY <1>2, <1>3 DEF Hand

\* So it is with the bottom cards, if all of it is.
LEMMA RestWithBottom ==
  ASSUME NEW h \in Hand, NEW g \in Counts, Part(g, h), NEW b \in Hand, Plus(h, b) \in Hand
  PROVE  Plus(Minus(h, g), b) \in Hand
<1>1. \A r \in Rank : /\ h[r] \in 0..4 /\ g[r] \in 0..4 /\ b[r] \in 0..4 /\ g[r] <= h[r]
                      /\ Plus(h, b)[r] = h[r] + b[r] /\ Plus(h, b)[r] \in 0..4
                      /\ Plus(h, b)[r] <= Copies(r) /\ Copies(r) \in Nat
  BY DEF Hand, Counts, Part, Copies, Plus
<1>2. \A r \in Rank : (h[r] - g[r]) + b[r] \in 0..4 /\ (h[r] - g[r]) + b[r] <= Copies(r)
  BY <1>1
<1>3. \A r \in Rank : Plus(Minus(h, g), b)[r] = (h[r] - g[r]) + b[r]
  BY DEF Plus, Minus
<1>4. Plus(Minus(h, g), b) \in Counts
  BY <1>2, <1>3 DEF Plus, Counts
<1> QED BY <1>2, <1>3, <1>4 DEF Hand

LEMMA BottomAlone == ASSUME NEW b \in Hand PROVE Plus(Empty, b) \in Hand
<1>1. \A r \in Rank : b[r] \in 0..4 /\ 0 + b[r] = b[r]
  BY DEF Hand, Counts
<1>2. Plus(Empty, b) = [r \in Rank |-> b[r]]
  BY <1>1 DEF Plus, Empty
<1>3. b = [r \in Rank |-> b[r]]
  BY DEF Hand, Counts
<1> QED BY <1>2, <1>3

LEMMA EmptyIsHand == Empty \in Hand
<1>1. \A r \in Rank : Copies(r) \in Nat
  BY DEF Copies
<1> QED BY <1>1 DEF Empty, Hand, Counts

--------------------------------------------------------------------------
(* The invariant *)

LeadInv ==
  /\ hand \in [Pos -> Hand]
  /\ bottom \in Hand /\ (~dealt => Plus(hand[Lord], bottom) \in Hand)
  /\ poker.type \in Type \cup {"zero"}
  /\ running => curr \in Pos
  /\ shower \in Pos \cup {NULL}
  /\ shower = NULL => poker = Zero
  /\ early \in BOOLEAN
  /\ LeadIsFree

LEMMA NextIsAnother ==
  \A p \in Pos : Next3(p) \in Pos /\ Next3(p) # p /\ Next3(p) # NULL
  BY DdzTrickAssumption DEF Pos, Next3

LEMMA LordIsPos == Lord \in Pos
  BY DEF Lord, Pos

LEMMA ZeroType == Zero.type = "zero"
  BY DEF Zero, Info

\* After cards, or a pass, the game is over or the next player is asked.
LEMMA ShowPokerStep ==
  ASSUME LeadInv, NEW p \in Pos, NEW d \in Counts, Part(d, hand[p]),
         NEW info, info.type \in Type \cup {"zero"}, NEW who \in Pos, NEW pending,
         ShowPoker(p, d, info, who, pending), running,
         who = Next3(p) => info = Zero, early' \/ (info = Zero => who = Next3(p)),
         early' \in BOOLEAN, UNCHANGED Deal_vars
  PROVE  LeadInv'
<1>0. bottom' = bottom /\ dealt' = dealt
  BY DEF Deal_vars
<1>1. CASE hand[p] = d
  <2>1. /\ hand' = [q \in Pos |-> Empty] /\ running' = FALSE
        /\ poker' = Zero /\ shower' = NULL
    BY <1>1 DEF ShowPoker, GameStop
  <2>2. hand' \in [Pos -> Hand] /\ hand'[Lord] = Empty
    BY <2>1, EmptyIsHand, LordIsPos
  <2>3. Plus(hand'[Lord], bottom) \in Hand
    BY <2>2, BottomAlone DEF LeadInv
  <2>4. LeadIsFree'
    BY <2>1 DEF LeadIsFree, Stuck
  <2> QED BY <1>0, <2>1, <2>2, <2>3, <2>4, ZeroType DEF LeadInv
<1>2. CASE hand[p] # d
  <2>1. curr' = Next3(p) /\ poker' = info /\ shower' = who
        /\ hand' = [hand EXCEPT ![p] = Minus(@, d)]
    BY <1>2 DEF ShowPoker
  <2>2. hand' \in [Pos -> Hand]
    BY <2>1, RestIsHand DEF LeadInv
  <2>3. ~dealt => Plus(hand'[Lord], bottom) \in Hand
    <3>1. CASE p = Lord
      BY <2>1, <3>1, RestWithBottom DEF LeadInv
    <3>2. CASE p # Lord
      BY <2>1, <3>2, LordIsPos DEF LeadInv
    <3> QED BY <3>1, <3>2
  <2>4. LeadIsFree'
    BY <2>1, NextIsAnother, DdzTrickAssumption DEF LeadIsFree, Stuck, Pos
  <2>5. shower' # NULL /\ curr' \in Pos
    BY <2>1, NextIsAnother, DdzTrickAssumption DEF Pos
  <2> QED BY <1>0, <2>1, <2>2, <2>3, <2>4, <2>5 DEF LeadInv
<1> QED BY <1>1, <1>2

LEMMA PlaysStep ==
  ASSUME LeadInv, NEW p \in Pos, NEW g, NEW d \in Bag, NEW pending,
         Plays(p, g, d, pending), UNCHANGED Deal_vars
  PROVE  LeadInv'
<1>1. running /\ Accepted(g, d, p) /\ ShowPoker(p, d, Parse(g), p, pending) /\ early' = FALSE
  BY DEF Plays, MayShow
<1>2. d \in Counts /\ Part(d, hand[p]) /\ Parse(g) # Err
  BY <1>1, AcceptedCards DEF LeadInv
<1>3. Parse(g).type \in Type /\ Parse(g) # Zero /\ p # Next3(p)
  BY <1>2, ParsedType, NextIsAnother
<1> QED BY <1>1, <1>2, <1>3, ShowPokerStep

\* A pass takes nothing from the hand, and only who follows passes.
LEMMA PassesFacts ==
  ASSUME LeadInv, NEW p \in Pos, NEW pending, Passes(p, pending)
  PROVE  LET info == IF Next3(p) = shower THEN Zero ELSE poker IN
         /\ running /\ curr = p /\ shower \in Pos /\ shower # p
         /\ shower = Next3(p) => info = Zero
         /\ early \/ (info = Zero => shower = Next3(p))
         /\ early' = early
         /\ info.type \in Type \cup {"zero"}
         /\ ShowPoker(p, Empty, info, shower, pending)
         /\ Empty \in Counts /\ Part(Empty, hand[p])
<1> DEFINE info == IF Next3(p) = shower THEN Zero ELSE poker
<1>1. running /\ curr = p /\ shower \in Pos /\ shower # p /\ early' = early
  BY DEF Passes, MayShow, MayPass, LeadInv
<1>2. early \/ poker # Zero
  BY <1>1, DdzTrickAssumption DEF LeadInv, LeadIsFree, Pos
<1>3. (shower = Next3(p) => info = Zero) /\ (early \/ (info = Zero => shower = Next3(p)))
  BY <1>2
<1>4. ShowPoker(p, Empty, info, shower, pending)
  BY DEF Passes
<1>5. info.type \in Type \cup {"zero"}
  BY ZeroType DEF LeadInv
<1>6. Empty \in Counts /\ Part(Empty, hand[p])
  <2>1. hand[p] \in Hand
    BY DEF LeadInv
  <2> QED BY <2>1, BagsAreBags DEF Part, Empty, Hand, Counts
<1> QED BY <1>1, <1>3, <1>4, <1>5, <1>6

LEMMA PassesStep ==
  ASSUME LeadInv, NEW p \in Pos, NEW pending, Passes(p, pending), UNCHANGED Deal_vars
  PROVE  LeadInv'
<1>1. early \in BOOLEAN
  BY DEF LeadInv
<1> QED BY <1>1, PassesFacts, ShowPokerStep

LEMMA NothingStep ==
  ASSUME LeadInv, UNCHANGED Table_vars, UNCHANGED Deal_vars PROVE LeadInv'
  BY DEF LeadInv, LeadIsFree, Stuck, Table_vars, Deal_vars

\* The landlord gets the bottom cards and the turn.  What was played before lies on
\* the table; if nothing was, the table is free.
LEMMA LandlordStep ==
  ASSUME LeadInv, Landlord PROVE LeadInv'
<1>1. /\ ~dealt /\ dealt' = TRUE
      /\ UNCHANGED <<running, poker, shower, bottom>>
  BY DEF Landlord
<1>2. CASE running
  <2>1. /\ hand' = [hand EXCEPT ![Lord] = Plus(@, bottom)]
        /\ curr' = Lord /\ early' = (shower # NULL)
    BY <1>2 DEF Landlord
  <2>2. hand' \in [Pos -> Hand]
    BY <1>1, <2>1, LordIsPos DEF LeadInv
  <2>3. LeadIsFree'
    BY <1>1, <2>1 DEF LeadIsFree, Stuck, LeadInv
  <2> QED BY <1>1, <2>1, <2>2, <2>3, LordIsPos DEF LeadInv
<1>3. CASE ~running
  BY <1>1, <1>3 DEF Landlord, LeadInv, LeadIsFree, Stuck
<1> QED BY <1>2, <1>3

--------------------------------------------------------------------------
(* A step of the game is a play or a pass of the player whose turn it is, or
   nothing happens on the table, or the landlord is asked                    *)

Move ==
  /\ UNCHANGED Deal_vars
  /\ \/ \E p \in Pos, g \in Counts, d \in Bag,
          pending \in {tasks} \cup {tasks \ {t} : t \in tasks} : Plays(p, g, d, pending)
     \/ \E p \in Pos, pending \in {tasks} \cup {tasks \ {t} : t \in tasks} :
          Passes(p, pending)
     \/ UNCHANGED Table_vars

LEMMA RobotMoves ==
  ASSUME LeadInv, NEW p \in Pos, UNCHANGED Deal_vars,
         NEW pending \in {tasks} \cup {tasks \ {t} : t \in tasks}, Robot(p, pending)
  PROVE  Move
<1>1. Answer(p) \in Bag
  BY AnswerIsBag DEF Answer, LeadInv
<1>2. CASE Plays(p, Answer(p), Answer(p), pending)
  <2>1. Accepted(Answer(p), Answer(p), p) /\ hand[p] \in Hand
    BY <1>2 DEF Plays, LeadInv
  <2>2. Answer(p) \in Counts
    BY <1>1, <2>1, AcceptedCards
  <2> QED BY <1>1, <1>2, <2>2 DEF Move
<1>3. CASE Passes(p, pending)
  BY <1>3 DEF Move
<1>4. CASE Nothing(pending)
  BY <1>4 DEF Move, Nothing
<1>5. \/ Plays(p, Answer(p), Answer(p), pending) \/ Passes(p, pending)
      \/ Nothing(pending)
  BY DEF Robot
<1> QED BY <1>2, <1>3, <1>4, <1>5

LEMMA TakenAreBags == ASSUME NEW g \in Counts, NEW h PROVE Taken(g, h) \subseteq Bag
<1> SUFFICES ASSUME NEW n \in [AtLeast(g, 1) -> 1..4]
             PROVE  [r \in Rank |-> IF g[r] > 0 THEN n[r] ELSE 0] \in Bag
  BY DEF Taken
<1> SUFFICES ASSUME NEW r \in Rank PROVE (IF g[r] > 0 THEN n[r] ELSE 0) \in Nat
  BY DEF Bag
<1>1. CASE g[r] > 0
  <2>1. g[r] \in 0..4
    BY DEF Counts
  <2>2. r \in AtLeast(g, 1)
    BY <1>1, <2>1 DEF AtLeast
  <2> QED BY <1>1, <2>2
<1>2. CASE ~(g[r] > 0)
  BY <1>2
<1> QED BY <1>1, <1>2

LEMMA StepsAreMoves == ASSUME LeadInv, [Next]_vars PROVE Move \/ Landlord
<1>1. ASSUME NEW p \in Pos, Card(p) PROVE Move
  <2>1. UNCHANGED Deal_vars
    BY <1>1 DEF Card
  <2>2. \A g \in Named : g \in Counts /\ Taken(g, hand[p]) \subseteq Bag
    BY DdzTrickAssumption, TakenAreBags
  <2>3. \/ \E g \in Named : \E d \in Taken(g, hand[p]) : Plays(p, g, d, tasks)
        \/ Passes(p, tasks)
    BY <1>1 DEF Card
  <2> QED BY <2>1, <2>2, <2>3 DEF Move
<1>2. ASSUME NEW p \in Pos, RobotOn(p) PROVE Move
  <2>1. UNCHANGED Deal_vars
    BY <1>2 DEF RobotOn
  <2>2. CASE curr = p
    BY <1>2, <2>1, <2>2, RobotMoves DEF RobotOn
  <2>3. CASE curr # p
    BY <1>2, <2>1, <2>3 DEF RobotOn, Nothing, Move
  <2> QED BY <2>2, <2>3
<1>3. ASSUME NEW p \in Pos, RobotOff(p) PROVE Move
  BY <1>3 DEF RobotOff, Move
<1>4. CASE Update
  <2>1. running /\ UNCHANGED Deal_vars
    BY <1>4 DEF Update, Plays, Passes, MayShow
  <2>2. curr \in Pos
    BY <2>1 DEF LeadInv
  <2>3. \A S : Kind(1, S) \in Bag /\ Kind(1, S) \in Counts
    BY BagsAreBags DEF Kind, Counts
  <2> QED BY <1>4, <2>1, <2>2, <2>3 DEF Update, Move
<1>5. ASSUME NEW t \in tasks, RobotCard(t) PROVE Move
  <2>1. UNCHANGED Deal_vars
    BY <1>5 DEF RobotCard
  <2>2. CASE Current(t)
    <3>1. t.pos \in Pos /\ Robot(t.pos, tasks \ {t})
      BY <1>5, <2>2 DEF RobotCard, Current, LeadInv
    <3> QED BY <2>1, <3>1, RobotMoves
  <2>3. CASE ~Current(t)
    BY <1>5, <2>1, <2>3 DEF RobotCard, Nothing, Move
  <2> QED BY <2>2, <2>3
<1>6. CASE UNCHANGED vars
  BY <1>6 DEF vars, Move
<1> QED BY <1>1, <1>2, <1>3, <1>4, <1>5, <1>6 DEF Next

LEMMA LeadInvStep == LeadInv /\ [Next]_vars => LeadInv'
<1>1. ASSUME LeadInv, Move PROVE LeadInv'
  BY <1>1, PlaysStep, PassesStep, NothingStep DEF Move
<1> QED BY <1>1, StepsAreMoves, LandlordStep

LEMMA LeadInvInit == Init => LeadInv
<1> SUFFICES ASSUME Init PROVE LeadInv
  OBVIOUS
<1>1. PICK s \in Start : hand = s.hand /\ bottom = s.bottom /\ curr = s.curr
  BY DEF Init
<1>2. /\ hand \in [Pos -> Hand] /\ bottom \in Hand /\ curr \in Pos
      /\ Plus(hand[Lord], bottom) \in Hand
  BY <1>1, DdzTrickAssumption DEF Pos, Lord
<1>3. poker = Zero /\ shower = NULL /\ early = FALSE
  BY DEF Init
<1> QED BY <1>2, <1>3, ZeroType DEF LeadInv, LeadIsFree, Stuck

\* The turn, the last play and who played it agree after every play, pass and timer:
\* nobody who leads has to beat anything, and nobody who follows is let off, but for
\* cards that were taken before the landlord was asked; and nobody but the landlord
\* has to beat its own because of those.
THEOREM LeadsAreFree == Spec => []LeadIsFree
<1>1. LeadInv => LeadIsFree
  BY DEF LeadInv
<1> QED BY <1>1, LeadInvInit, LeadInvStep, PTL DEF Spec

--------------------------------------------------------------------------
(* The money *)

MoneyInv == factor \in Nat /\ money \in [Pos -> Nat]

\* What the end of the game makes of the money, for every stake: nobody owes, and
\* the peasants win what the landlord loses but for a coin that has no half.
LEMMA Settlement ==
  ASSUME MoneyInv
  PROVE  /\ Total \in Nat
         /\ LordWon \in [Pos -> Nat] /\ LordLost \in [Pos -> Nat]
         /\ Wealth(money) - Wealth(LordLost) \in {0, 1}
<1> DEFINE lost == Smaller(4 * Total, money[Lord])
<1>1. /\ 0 \in Pos /\ 1 \in Pos /\ 2 \in Pos /\ Lord = 0
      /\ \A p \in Pos : money[p] \in Nat
  BY DEF MoneyInv, Pos, Lord
<1>2. Total \in Nat
  <2>1. Stake \in Nat /\ factor \in Nat
    BY DdzTrickAssumption DEF MoneyInv
  <2> QED BY <2>1 DEF Total
<1>3. lost \in Nat /\ lost <= money[Lord]
  <2>1. 4 * Total \in Nat /\ money[Lord] \in Nat
    BY <1>1, <1>2
  <2> QED BY <2>1 DEF Smaller
<1>4. \A p \in Pos : Smaller(2 * Total, money[p]) \in Nat
  BY <1>1, <1>2 DEF Smaller
<1>5. LordWon \in [Pos -> Nat]
  BY <1>1, <1>4 DEF LordWon
<1>6. LordLost = [p \in Pos |-> IF p = Lord THEN money[p] - lost
                                 ELSE money[p] + lost \div 2]
  BY DEF LordLost
<1> HIDE DEF lost
<1>7. lost \div 2 \in Nat /\ lost - (lost \div 2) - (lost \div 2) \in {0, 1}
  BY <1>3
<1>8. LordLost \in [Pos -> Nat]
  BY <1>1, <1>3, <1>6, <1>7
<1>9. Wealth(money) - Wealth(LordLost) \in {0, 1}
  <2>1. /\ LordLost[0] = money[0] - lost
        /\ LordLost[1] = money[1] + lost \div 2 /\ LordLost[2] = money[2] + lost \div 2
    BY <1>1, <1>6
  <2>2. money[0] \in Nat /\ money[1] \in Nat /\ money[2] \in Nat
    BY <1>1
  <2> QED BY <1>3, <1>7, <2>1, <2>2 DEF Wealth
<1> QED BY <1>2, <1>5, <1>8, <1>9

\* Cards that are shown change the money only when the game is over.
LEMMA ShowPokerPays ==
  ASSUME MoneyInv, NEW p, NEW g, NEW info, NEW who, NEW pending,
         ShowPoker(p, g, info, who, pending), running
  PROVE  /\ money' \in [Pos -> Nat]
         /\ ~ running' /\ p # Lord => Wealth(money) - Wealth(money') \in {0, 1}
<1>1. CASE hand[p] = g
  BY <1>1, Settlement DEF ShowPoker, GameStop
<1>2. CASE hand[p] # g
  BY <1>2 DEF ShowPoker, MoneyInv
<1> QED BY <1>1, <1>2

LEMMA MovePays ==
  ASSUME MoneyInv, Move
  PROVE  /\ MoneyInv'
         /\ running /\ ~ running' /\ curr # Lord => Wealth(money) - Wealth(money') \in {0, 1}
<1>1. ASSUME NEW p \in Pos, NEW g, NEW d, NEW pending, Plays(p, g, d, pending)
      PROVE  /\ MoneyInv'
             /\ ~ running' /\ curr # Lord => Wealth(money) - Wealth(money') \in {0, 1}
  <2>1. /\ running /\ curr = p /\ ShowPoker(p, d, Parse(g), p, pending)
        /\ factor' = IF Parse(g).type = "bomb" THEN 2 * factor ELSE factor
    BY <1>1 DEF Plays, MayShow
  <2>2. factor' \in Nat
    BY <2>1 DEF MoneyInv
  <2> QED BY <2>1, <2>2, ShowPokerPays DEF MoneyInv
<1>2. ASSUME NEW p \in Pos, NEW pending, Passes(p, pending)
      PROVE  /\ MoneyInv'
             /\ ~ running' /\ curr # Lord => Wealth(money) - Wealth(money') \in {0, 1}
  <2>1. /\ running /\ curr = p /\ UNCHANGED factor
        /\ ShowPoker(p, Empty, IF Next3(p) = shower THEN Zero ELSE poker, shower, pending)
    BY <1>2 DEF Passes, MayShow
  <2> QED BY <2>1, ShowPokerPays DEF MoneyInv
<1>3. CASE UNCHANGED Table_vars
  BY <1>3 DEF MoneyInv, Table_vars
<1> QED BY <1>1, <1>2, <1>3 DEF Move

\* What the peasants win is what the landlord loses, for every stake and however
\* many bombs doubled it.
THEOREM LordHasToPay == Spec => LordPays
<1>1. Init => MoneyInv
  BY DdzTrickAssumption DEF Init, MoneyInv, Pos
<1>2. LeadInv /\ MoneyInv /\ [Next]_vars =>
        /\ MoneyInv'
        /\ running /\ ~ running' /\ curr # Lord => Wealth(money) - Wealth(money') \in {0, 1}
  <2>1. MoneyInv /\ Landlord => MoneyInv' /\ running' = running
    BY DEF Landlord, MoneyInv
  <2> QED BY <2>1, StepsAreMoves, MovePays
<1>3. LeadInv /\ MoneyInv /\ [Next]_vars =>
        [running /\ ~ running' /\ curr # Lord => Wealth(money) - Wealth(money') \in {0, 1}]_vars
  BY <1>2
<1> QED BY <1>1, <1>2, <1>3, LeadInvInit, LeadInvStep, PTL DEF Spec, LordPays

--------------------------------------------------------------------------
(* The refinement *)

Sizes == [p \in Pos |-> Size(hand[p])]

(* InGame has one value for each field of a table in a game.  What a handler of
   DdzTable changes is changed here one field at a time.                     *)

Fields(seats, go, lord, temp, multiple, declares, turn, first, bidpos, bid, bided,
       free, who, sizes) ==
  [seats |-> seats, running |-> go, landlord |-> lord, temp |-> temp,
   multiple |-> multiple, declares |-> declares, curr |-> turn, first |-> first,
   bidpos |-> bidpos, bid |-> bid, bided |-> bided, free |-> free, shower |-> who,
   hand |-> sizes]

WithCurr(D, x) == [D EXCEPT !.curr = x]
WithFree(D, x) == [D EXCEPT !.free = x]
WithShower(D, x) == [D EXCEPT !.shower = x]
WithHand(D, x) == [D EXCEPT !.hand = x]
WithFirst(D, x) == [D EXCEPT !.first = x]
Without(sizes, p, n) == [sizes EXCEPT ![p] = @ - n]
WithPlay(D, f, p, q, n) == [D EXCEPT !.free = f, !.shower = p, !.hand[q] = @ - n]

LEMMA FieldsChange ==
  ASSUME NEW a, NEW b, NEW c, NEW d, NEW e, NEW f, NEW g, NEW h, NEW i, NEW j, NEW k,
         NEW l, NEW m, NEW n, NEW x
  PROVE  /\ WithCurr(Fields(a, b, c, d, e, f, g, h, i, j, k, l, m, n), x)
              = Fields(a, b, c, d, e, f, x, h, i, j, k, l, m, n)
         /\ WithFree(Fields(a, b, c, d, e, f, g, h, i, j, k, l, m, n), x)
              = Fields(a, b, c, d, e, f, g, h, i, j, k, x, m, n)
         /\ WithShower(Fields(a, b, c, d, e, f, g, h, i, j, k, l, m, n), x)
              = Fields(a, b, c, d, e, f, g, h, i, j, k, l, x, n)
         /\ WithHand(Fields(a, b, c, d, e, f, g, h, i, j, k, l, m, n), x)
              = Fields(a, b, c, d, e, f, g, h, i, j, k, l, m, x)
         /\ WithFirst(Fields(a, b, c, d, e, f, g, h, i, j, k, l, m, n), x)
              = Fields(a, b, c, d, e, f, g, x, i, j, k, l, m, n)
         /\ Fields(a, b, c, d, e, f, g, h, i, j, k, l, m, n).hand = n
<1>1. WithCurr(Fields(a, b, c, d, e, f, g, h, i, j, k, l, m, n), x)
        = Fields(a, b, c, d, e, f, x, h, i, j, k, l, m, n)
  BY DEF WithCurr, Fields
<1>2. WithFree(Fields(a, b, c, d, e, f, g, h, i, j, k, l, m, n), x)
        = Fields(a, b, c, d, e, f, g, h, i, j, k, x, m, n)
  BY DEF WithFree, Fields
<1>3. WithShower(Fields(a, b, c, d, e, f, g, h, i, j, k, l, m, n), x)
        = Fields(a, b, c, d, e, f, g, h, i, j, k, l, x, n)
  BY DEF WithShower, Fields
<1>4. WithHand(Fields(a, b, c, d, e, f, g, h, i, j, k, l, m, n), x)
        = Fields(a, b, c, d, e, f, g, h, i, j, k, l, m, x)
  BY DEF WithHand, Fields
<1>5. WithFirst(Fields(a, b, c, d, e, f, g, h, i, j, k, l, m, n), x)
        = Fields(a, b, c, d, e, f, g, x, i, j, k, l, m, n)
  BY DEF WithFirst, Fields
<1>6. Fields(a, b, c, d, e, f, g, h, i, j, k, l, m, n).hand = n
  BY DEF Fields
<1> QED BY <1>1, <1>2, <1>3, <1>4, <1>5, <1>6

LEMMA InGameFields ==
  ASSUME NEW sizes, NEW turn, NEW free, NEW who
  PROVE  InGame(sizes, turn, free, who)
           = Fields([p \in Pos |-> p], TRUE, Lord, Lord, 1, 0, turn, Lord, Lord,
                    [p \in Pos |-> 1], TRUE, free, who, sizes)
  BY Zenon DEF InGame, Fields

LEMMA InGameChanges ==
  ASSUME NEW sizes, NEW turn, NEW free, NEW who, NEW x
  PROVE  /\ WithCurr(InGame(sizes, turn, free, who), x) = InGame(sizes, x, free, who)
         /\ WithFree(InGame(sizes, turn, free, who), x) = InGame(sizes, turn, x, who)
         /\ WithShower(InGame(sizes, turn, free, who), x) = InGame(sizes, turn, free, x)
         /\ WithHand(InGame(sizes, turn, free, who), x) = InGame(x, turn, free, who)
         /\ WithFirst(InGame(sizes, turn, free, who), Lord) = InGame(sizes, turn, free, who)
         /\ InGame(sizes, turn, free, who).hand = sizes
<1> DEFINE A == [p \in Pos |-> p]
           B == [p \in Pos |-> 1]
           T == TRUE
           L == Lord
           F(s, t, f, w) == Fields(A, T, L, L, 1, 0, t, L, L, B, T, f, w, s)
<1>1. \A s, t, f, w : InGame(s, t, f, w) = F(s, t, f, w)
  BY InGameFields
<1> HIDE DEF A, B, T, L
<1>2. /\ WithCurr(F(sizes, turn, free, who), x) = F(sizes, x, free, who)
      /\ WithFree(F(sizes, turn, free, who), x) = F(sizes, turn, x, who)
      /\ WithShower(F(sizes, turn, free, who), x) = F(sizes, turn, free, x)
      /\ WithHand(F(sizes, turn, free, who), x) = F(x, turn, free, who)
      /\ WithFirst(F(sizes, turn, free, who), L) = F(sizes, turn, free, who)
      /\ F(sizes, turn, free, who).hand = sizes
  BY FieldsChange
<1>3. L = Lord
  BY DEF L
<1> HIDE DEF F
<1> QED BY <1>1, <1>2, <1>3

LEMMA InGameReads ==
  ASSUME NEW sizes, NEW turn, NEW free, NEW who
  PROVE  /\ InGame(sizes, turn, free, who).seats = [q \in Pos |-> q]
         /\ InGame(sizes, turn, free, who).curr = turn
         /\ InGame(sizes, turn, free, who).shower = who
         /\ InGame(sizes, turn, free, who).landlord = Lord
  BY DEF InGame

LEMMA InGameRuns ==
  ASSUME NEW sizes, NEW turn, NEW free, NEW who
  PROVE  InGame(sizes, turn, free, who).running
  BY DEF InGame

LEMMA InGameFree ==
  ASSUME NEW sizes, NEW turn, NEW free, NEW who
  PROVE  InGame(sizes, turn, free, who).free = free
  BY DEF InGame

\* What the helpers of DdzTable make of a table in a game.
LEMMA TableMovesOn ==
  ASSUME NEW sizes, NEW turn, NEW free, NEW who
  PROVE  Table!MoveNext(InGame(sizes, turn, free, who))
           = InGame(sizes, Next3(turn), free, who)
<1> DEFINE D == InGame(sizes, turn, free, who)
<1>1. D.curr = turn
  BY DEF InGame
<1>2. WithCurr(D, Next3(turn)) = InGame(sizes, Next3(turn), free, who)
  BY InGameChanges
<1> HIDE DEF D
<1>3. Table!MoveNext(D) = WithCurr(D, Next3(turn))
  BY <1>1 DEF Table!MoveNext, Table!NextPos, Next3, WithCurr
<1> QED BY <1>2, <1>3 DEF D

LEMMA TableIsReset ==
  ASSUME NEW sizes, NEW turn, NEW free, NEW who
  PROVE  Table!Reset(InGame(sizes, turn, free, who)) = GameOver
  BY DEF Table!Reset, Table!Fresh, Table!Pos, Pos, GameOver, InGame

LEMMA TableShows ==
  ASSUME NEW sizes, NEW turn, NEW free, NEW who, NEW f, NEW p, NEW n
  PROVE  WithPlay(InGame(sizes, turn, free, who), f, p, turn, n)
           = InGame(Without(sizes, turn, n), turn, f, p)
<1> DEFINE D == InGame(sizes, turn, free, who)
           E == InGame(sizes, turn, f, p)
           cards == Without(sizes, turn, n)
<1>1. WithFree(D, f) = InGame(sizes, turn, f, who)
  BY InGameChanges
<1>2. WithShower(InGame(sizes, turn, f, who), p) = E
  BY InGameChanges
<1>3. E.hand = sizes /\ WithHand(E, cards) = InGame(cards, turn, f, p)
  BY InGameChanges
<1> HIDE DEF D, E
<1>4. WithPlay(D, f, p, turn, n) = [E EXCEPT !.hand[turn] = @ - n]
  BY <1>1, <1>2 DEF WithShower, WithFree, WithPlay
<1>5. [E EXCEPT !.hand[turn] = @ - n] = WithHand(E, [E.hand EXCEPT ![turn] = @ - n])
  BY Zenon DEF WithHand
<1>6. WithPlay(D, f, p, turn, n) = InGame(cards, turn, f, p)
  BY <1>3, <1>4, <1>5 DEF Without
<1> QED BY <1>6, Zenon DEF D

\* The table goes on, or is over, as in DdzTable.
LEMMA ShowPokerRefines ==
  ASSUME LeadInv, NEW p \in Pos, curr = p, running,
         NEW g \in Counts, Part(g, hand[p]), NEW info, NEW who \in Pos, NEW pending,
         ShowPoker(p, g, info, who, pending),
         NEW sizes, sizes = [Sizes EXCEPT ![p] = @ - Size(g)],
         NEW free, free = (info = Zero)
  PROVE  Table!ShowPoker(1, InGame(sizes, curr, free, who), p)
<1> DEFINE D == InGame(sizes, curr, free, who)
<1>1. hand[p] \in Counts
  BY BagsAreBags DEF LeadInv
<1>2. sizes[p] = Size(hand[p]) - Size(g) /\ sizes \in [Pos -> Int]
  BY SizeIsCards DEF Sizes
<1>3. D.hand = sizes
  BY DEF InGame
<1>4. D.seats = [q \in Pos |-> q]
  BY DEF InGame
<1>5. Table!MoveNext(D) = InGame(sizes, Next3(p), free, who)
  BY TableMovesOn
<1>6. Table!Reset(D) = GameOver
  BY TableIsReset
<1> HIDE DEF D
<1>7. Table!PosOf(D, p) = p
  BY <1>4 DEF Table!PosOf, Table!Pos, Pos
<1>8. sizes[p] = 0 <=> hand[p] = g
  <2>1. Size(Minus(hand[p], g)) = Size(hand[p]) - Size(g)
    BY <1>1, SizeOfRest
  <2> QED BY <1>1, <1>2, <2>1, SizeOfAll
<1>9. CASE hand[p] = g
  <2>1. ~running'
    BY <1>9 DEF ShowPoker, GameStop
  <2>2. Desk' = GameOver
    BY <2>1 DEF Desk, GameOver, Pos, Lord
  <2>3. Table!GameStop(1, D)
    BY <1>4, <1>6, <2>2 DEF Table!GameStop
  <2>4. Table!ShowPoker(1, D, p)
    BY <1>3, <1>7, <1>8, <1>9, <2>3 DEF Table!ShowPoker
  <2> QED BY <2>4 DEF D
<1>10. CASE hand[p] # g
  <2>1. /\ running' /\ curr' = Next3(p) /\ poker' = info /\ shower' = who
        /\ hand' = [hand EXCEPT ![p] = Minus(@, g)]
    BY <1>10 DEF ShowPoker
  <2>2. Sizes' = sizes
    <3>1. \A q \in Pos : Size(hand'[q]) = sizes[q]
      <4> SUFFICES ASSUME NEW q \in Pos PROVE Size(hand'[q]) = sizes[q]
        OBVIOUS
      <4>1. CASE q = p
        <5>1. hand'[q] = Minus(hand[p], g)
          BY <2>1, <4>1 DEF LeadInv
        <5> QED BY <1>1, <1>2, <4>1, <5>1, SizeOfRest
      <4>2. CASE q # p
        BY <2>1, <4>2 DEF LeadInv, Sizes
      <4> QED BY <4>1, <4>2
    <3> QED BY <1>2, <3>1 DEF Sizes
  <2>3. Desk' = InGame(Sizes', curr', poker' = Zero, shower')
    BY <2>1 DEF Desk, Sizes
  <2>4. Desk' = InGame(sizes, Next3(p), info = Zero, who)
    BY <2>1, <2>2, <2>3, Zenon
  <2>5. Desk' = Table!MoveNext(D)
    BY <1>5, <2>4, Zenon
  <2>6. Table!ShowPoker(1, D, p)
    BY <1>3, <1>7, <1>8, <1>10, <2>5 DEF Table!ShowPoker
  <2> QED BY <2>6 DEF D
<1> QED BY <1>9, <1>10

LEMMA MayPlayRefines ==
  ASSUME LeadInv, NEW p \in Pos, running, curr = p PROVE Table!MayPlay(1, p)
  BY DdzTrickAssumption DEF Table!MayPlay, Table!Current, Desk, InGame, Pos, Lord

Timers == [d \in {1} |-> IF dealt THEN {} ELSE {LandlordTask}]
LEMMA NoTimerFires ==
  ASSUME UNCHANGED Deal_vars
  PROVE  [d \in {1} |-> IF dealt THEN {} ELSE {LandlordTask}]'
           = [d \in {1} |-> IF dealt THEN {} ELSE {LandlordTask}]
  BY DEF Deal_vars, LandlordTask, Lord

LEMMA PassesRefines ==
  ASSUME LeadInv, NEW p \in Pos, NEW pending, Passes(p, pending), UNCHANGED Deal_vars
  PROVE  Table!Card(p)
<1> DEFINE info == IF Next3(p) = shower THEN Zero ELSE poker
           led == poker = Zero
           free == info = Zero
           D == InGame(Sizes, curr, led, shower)
           E == InGame(Sizes, curr, free, shower)
<1>1. /\ running /\ curr = p /\ shower \in Pos /\ shower # p /\ shower # NULL
      /\ ShowPoker(p, Empty, info, shower, pending)
      /\ Empty \in Counts /\ Part(Empty, hand[p])
  BY PassesFacts, DdzTrickAssumption DEF Pos
<1>2. Desk = D
  BY <1>1 DEF Desk, Sizes
<1>3. Sizes = [Sizes EXCEPT ![p] = @ - Size(Empty)]
  <2>1. Size(Empty) = 0 /\ Size(hand[p]) \in Nat
    BY <1>1, SizeZero, SizeIsCards
  <2> QED BY <2>1 DEF Sizes
<1>4. Table!ShowPoker(1, E, p)
  <2> HIDE DEF info
  <2> QED BY <1>1, <1>3, ShowPokerRefines
<1>5. (led \/ Next3(p) = shower) = free
  OBVIOUS
<1>6. D.seats = [q \in Pos |-> q] /\ D.curr = p
  BY <1>1 DEF InGame
<1>7. D.shower = shower
  BY DEF InGame
<1>8. D.free = led
  BY DEF InGame
<1> HIDE DEF info, led, free
<1>9. WithFree(D, free) = E
  BY InGameChanges
<1> HIDE DEF D, E
<1>10. [D EXCEPT !.free = D.free \/ D.seats[Table!NextPos(D.curr)] = D.shower] = E
  <2>1. D.seats[Table!NextPos(D.curr)] = Next3(p)
    BY <1>6, NextIsAnother DEF Table!NextPos, Next3
  <2>2. (D.free \/ D.seats[Table!NextPos(D.curr)] = D.shower) = free
    BY <1>5, <1>7, <1>8, <2>1
  <2> QED BY <1>9, <2>2, Zenon DEF WithFree
<1>11. Table!Passes(1, p)
  BY <1>1, <1>2, <1>4, <1>7, <1>10, MayPlayRefines, NoTimerFires DEF Table!Passes
<1> QED BY <1>11, DdzTrickAssumption DEF Table!Card

LEMMA PlaysRefines ==
  ASSUME LeadInv, NEW p \in Pos, NEW g \in Counts, NEW d \in Bag, NEW pending,
         Plays(p, g, d, pending), UNCHANGED Deal_vars
  PROVE  Table!Card(p)
<1> DEFINE n == Size(d)
           led == poker = Zero
           sizes == Without(Sizes, p, n)
           free == Parse(g) = Zero
           D == InGame(Sizes, curr, led, shower)
           E == InGame(sizes, curr, free, p)
<1>1. running /\ curr = p /\ ShowPoker(p, d, Parse(g), p, pending) /\ Accepted(g, d, p)
  BY DEF Plays, MayShow
<1>2. d \in Counts /\ Part(d, hand[p]) /\ n \in 1..19 /\ Parse(g) # Zero
  BY <1>1, AcceptedCards, AcceptedSize, ParsedType DEF LeadInv
<1>3. n \in 1..Sizes[p] /\ n \in 1..((20 - BottomSize) + BottomSize)
  <2>1. hand[p] \in Counts
    BY BagsAreBags DEF LeadInv
  <2>2. n <= Size(hand[p]) /\ Size(hand[p]) \in Nat
    BY <1>2, <2>1, SizeOfRest, SizeIsCards
  <2> QED BY <1>2, <2>2, DdzTrickAssumption DEF Sizes
<1>4. Table!ShowPoker(1, E, p)
  BY <1>1, <1>2, ShowPokerRefines DEF Without
<1>5. Desk = D
  BY <1>1 DEF Desk, Sizes
<1>6. D.hand = Sizes /\ D.curr = p
  BY <1>1 DEF InGame
<1>7. free = FALSE
  BY <1>2
<1> HIDE DEF n, led, free
<1>8. WithPlay(D, free, p, p, n) = E
  BY <1>1, TableShows
<1> HIDE DEF D, E
<1>9. [D EXCEPT !.free = FALSE, !.shower = p, !.hand[D.curr] = @ - n] = E
  BY <1>6, <1>7, <1>8, Zenon DEF WithPlay
<1>10. n \in 1..D.hand[D.curr]
  BY <1>3, <1>6
<1>11. Table!Plays(1, p, n)
  BY <1>1, <1>4, <1>5, <1>9, <1>10, MayPlayRefines, NoTimerFires DEF Table!Plays
<1> QED BY <1>3, <1>11, DdzTrickAssumption DEF Table!Card

\* The landlord is asked as in DdzTable, and has so many cards more.
LandlordInv ==
  /\ LeadInv
  /\ Size(bottom) = BottomSize

LEMMA BottomAdds ==
  ASSUME LandlordInv, Plus(hand[Lord], bottom) \in Hand
  PROVE  Size(Plus(hand[Lord], bottom)) = Size(hand[Lord]) + BottomSize
<1>1. /\ hand[Lord] \in Counts /\ bottom \in Counts
      /\ Plus(hand[Lord], bottom) \in Counts
  BY LordIsPos, BagsAreBags DEF LandlordInv, LeadInv
<1>2. \A r \in Rank : hand[Lord][r] \in 0..4 /\ bottom[r] \in 0..4
  BY <1>1 DEF Counts
<1>3. Part(bottom, Plus(hand[Lord], bottom))
  BY <1>2 DEF Part, Plus
<1>4. Minus(Plus(hand[Lord], bottom), bottom) = hand[Lord]
  <2>1. \A r \in Rank : (hand[Lord][r] + bottom[r]) - bottom[r] = hand[Lord][r]
    BY <1>2
  <2>2. Minus(Plus(hand[Lord], bottom), bottom) = [r \in Rank |-> hand[Lord][r]]
    BY <2>1 DEF Minus, Plus
  <2>3. hand[Lord] = [r \in Rank |-> hand[Lord][r]]
    BY <1>1 DEF Counts
  <2> QED BY <2>2, <2>3
<1>5. /\ Size(Plus(hand[Lord], bottom)) \in Nat /\ Size(hand[Lord]) \in Nat
      /\ BottomSize \in Nat
  BY <1>1, SizeIsCards, DdzTrickAssumption
<1> QED BY <1>1, <1>3, <1>4, <1>5, SizeOfRest DEF LandlordInv

LEMMA LandlordInvInit == Init => LandlordInv
  BY LeadInvInit, DdzTrickAssumption DEF Init, LandlordInv

LEMMA LandlordInvStep == LandlordInv /\ [Next]_vars => LandlordInv'
<1>1. Move => bottom' = bottom
  BY DEF Move, Deal_vars
<1>2. Landlord => bottom' = bottom
  BY DEF Landlord
<1> QED BY <1>1, <1>2, StepsAreMoves, LeadInvStep DEF LandlordInv

LEMMA LandlordRefines ==
  ASSUME LandlordInv, Landlord PROVE Table!GameLandlord(1)
<1> DEFINE t == LandlordTask
           free == poker = Zero
           D == Desk
<1>1. ~dealt /\ dealt' /\ UNCHANGED <<running, poker, shower>>
  BY DEF Landlord
<1>2. t \in Timers[1] /\ t.kind = "landlord" /\ t.client = Lord
  BY <1>1 DEF Timers, LandlordTask
<1>3. Timers' = [Timers EXCEPT ![1] = @ \ {t}]
  BY <1>1 DEF Timers, LandlordTask, Lord
<1>4. CASE running
  <2>1. /\ hand' = [hand EXCEPT ![Lord] = Plus(@, bottom)] /\ curr' = Lord
    BY <1>4 DEF Landlord
  <2>2. D = InGame(Sizes, curr, free, shower)
    BY <1>4 DEF Desk, Sizes
  <2>3. Desk' = InGame(Sizes', Lord, free, shower)
    BY <1>1, <1>4, <2>1 DEF Desk, Sizes
  <2>4. Sizes' = [Sizes EXCEPT ![Lord] = @ + BottomSize]
    <3>1. Size(Plus(hand[Lord], bottom)) = Size(hand[Lord]) + BottomSize
      BY <1>1, BottomAdds DEF LandlordInv, LeadInv
    <3>2. \A p \in Pos : p # Lord => hand'[p] = hand[p]
      BY <2>1 DEF LandlordInv, LeadInv
    <3>3. hand'[Lord] = Plus(hand[Lord], bottom)
      BY <2>1, LordIsPos DEF LandlordInv, LeadInv
    <3> QED BY <3>1, <3>2, <3>3, LordIsPos DEF Sizes
  <2>5. D.running /\ D.landlord = Lord /\ D.seats = [q \in Pos |-> q]
    BY <2>2, InGameRuns, InGameReads
  <2>6. Table!Has(D, Lord) /\ Table!PosOf(D, Lord) = Lord
    BY <2>5, LordIsPos DEF Table!Has, Table!PosOf, Table!Pos, Pos
  <2>7. Desk' = [Table!StartAt(D, Lord) EXCEPT !.hand[Lord] = @ + BottomSize]
    <3>1. Table!StartAt(D, Lord) = InGame(Sizes, Lord, free, shower)
      <4> HIDE DEF D, free
      <4>1. /\ WithFirst(D, Lord) = D
            /\ WithCurr(D, Lord) = InGame(Sizes, Lord, free, shower)
        BY <2>2, InGameChanges
      <4>2. Table!StartAt(D, Lord) = WithCurr(WithFirst(D, Lord), Lord)
        BY DEF Table!StartAt, WithCurr, WithFirst
      <4> QED BY <4>1, <4>2
    <3> DEFINE E == InGame(Sizes, Lord, free, shower)
               sizes == [Sizes EXCEPT ![Lord] = @ + BottomSize]
    <3>2. E.hand = Sizes /\ WithHand(E, sizes) = InGame(sizes, Lord, free, shower)
      BY InGameChanges
    <3> HIDE DEF E
    <3>3. [E EXCEPT !.hand[Lord] = @ + BottomSize]
            = WithHand(E, [E.hand EXCEPT ![Lord] = @ + BottomSize])
      BY Zenon DEF WithHand
    <3>4. [E EXCEPT !.hand[Lord] = @ + BottomSize] = InGame(sizes, Lord, free, shower)
      BY <3>2, <3>3
    <3> QED BY <2>3, <2>4, <3>1, <3>4, Zenon DEF E
  <2> HIDE DEF D
  <2> QED BY <1>2, <1>3, <2>5, <2>6, <2>7 DEF Table!GameLandlord, Timers, D
<1>5. CASE ~running
  <2>1. Desk = GameOver /\ Desk' = GameOver
    BY <1>1, <1>5 DEF Desk, GameOver, Pos, Lord
  <2>2. ~Desk.running
    BY <2>1 DEF GameOver
  <2> QED BY <1>2, <1>3, <2>1, <2>2 DEF Table!GameLandlord, Timers
<1> QED BY <1>4, <1>5

\* Playing with cards is what DdzTable says of playing with numbers of cards, for
\* every deck and every deal, in the half of a second before the landlord is asked
\* too: the bottom cards come once, and every play and pass is one that DdzTable
\* allows its player then.
THEOREM TableImplemented == Spec => PlaysTable
<1>1. LandlordInv /\ [Next]_vars
        => [Table!GameLandlord(1) \/ \E c \in Pos : Table!Card(c)]_(Table!vars)
  <2>1. ASSUME LeadInv, Move PROVE [\E c \in Pos : Table!Card(c)]_(Table!vars)
    <3>1. UNCHANGED Deal_vars
      BY <2>1 DEF Move
    <3>2. CASE UNCHANGED Table_vars
      BY <3>1, <3>2 DEF Table!vars, Desk, Table_vars, Deal_vars, LandlordTask, Lord
    <3> QED BY <2>1, <3>1, <3>2, PlaysRefines, PassesRefines DEF Move
  <2> QED BY <2>1, StepsAreMoves, LandlordRefines DEF LandlordInv
<1> QED BY <1>1, LandlordInvInit, LandlordInvStep, PTL DEF Spec, PlaysTable

--------------------------------------------------------------------------
(* Ranks, and sets of them *)

\* A deck has the ranks from LowRank to the big joker.
LEMMA RanksAreNumbers == Rank \in SUBSET Nat /\ Rank = LowRank..15 /\ LowRank \in 1..13
BY PokerAssumption DEF Rank

\* A set of ranks has a least one, and a greatest.
LEMMA LeastRank ==
  ASSUME NEW S \in SUBSET Rank, S # {}
  PROVE  Min(S) \in S /\ \A r \in S : Min(S) <= r
<1>1. S \in SUBSET Nat
  BY RanksAreNumbers
<1>2. \E q \in S : \A r \in S : q <= r
  BY <1>1, LeastNumber
<1> QED BY <1>2 DEF Min

LEMMA GreatestRank ==
  ASSUME NEW S \in SUBSET Rank, S # {}
  PROVE  Max(S) \in S /\ \A r \in S : r <= Max(S)
<1> DEFINE T == {n \in 0..15 : 15 - n \in S}
<1>1. \A r \in S : r \in 1..15
  BY RanksAreFinite
<1>2. T \in SUBSET Nat /\ T # {}
  <2>1. PICK r \in S : TRUE
    OBVIOUS
  <2>2. 15 - r \in T
    BY <1>1
  <2> QED BY <2>2
<1>3. PICK n \in T : \A m \in T : n <= m
  <2> HIDE DEF T
  <2> QED BY <1>2, LeastNumber
<1>4. 15 - n \in S
  OBVIOUS
<1>5. ASSUME NEW r \in S PROVE r <= 15 - n
  <2>1. 15 - r \in T
    BY <1>1
  <2>2. n <= 15 - r
    BY <1>3, <2>1
  <2> QED BY <1>1, <2>2
<1>6. \E q \in S : \A r \in S : q >= r
  BY <1>1, <1>4, <1>5
<1> QED BY <1>1, <1>6 DEF Max

\* A set without a gap is an interval.
LEMMA RunsAreIntervals ==
  ASSUME NEW S \in SUBSET Rank, S # {}
  PROVE  /\ Cardinality(S) \in Nat
         /\ Run(S) <=> S \in Runs(Cardinality(S))
<1> DEFINE lo == Min(S)
           hi == Max(S)
           n == Cardinality(S)
<1>1. lo \in S /\ hi \in S /\ \A r \in S : r \in lo..hi /\ r \in 1..15
  BY LeastRank, GreatestRank, RanksAreFinite
<1>2. n \in Nat
  BY RanksAreFinite, FS_Subset, FS_CardinalityType
<1>3. ASSUME Run(S) PROVE S \in Runs(n)
  <2>1. \A r \in lo..hi : r \in S /\ r < hi => r + 1 \in S
    BY <1>1, <1>3 DEF Run
  <2>2. lo..hi \subseteq S
    <3>1. lo \in Nat /\ hi \in Nat /\ lo \in S
      BY <1>1
    <3> HIDE DEF lo, hi
    <3> QED BY <2>1, <3>1, IntervalInduction
  <2>3. S = lo..hi
    BY <1>1, <2>2
  <2>4. n = hi - lo + 1
    <3>1. lo \in Int /\ hi \in Int /\ lo <= hi
      BY <1>1
    <3> HIDE DEF lo, hi
    <3> QED BY <2>3, <3>1, FS_Interval
  <2>5. S = lo..(lo + n - 1)
    <3>1. lo + n - 1 = hi
      BY <1>1, <2>4
    <3> QED BY <2>3, <3>1
  <2>6. S \in SUBSET (Rank \cap 1..12)
    BY <1>1, <1>3 DEF Run, Two
  <2> QED BY <1>1, <2>5, <2>6 DEF Runs
<1>4. ASSUME S \in Runs(n) PROVE Run(S)
  <2>1. PICK r \in Rank : S = r..(r + n - 1)
    BY <1>4 DEF Runs
  <2>2. r \in 1..15 /\ S \subseteq 1..12
    BY <1>4, RanksAreFinite DEF Runs
  <2>3. hi \in Int /\ hi = r + n - 1
    <3>1. r + n - 1 \in S
      BY <1>1, <1>2, <2>1, <2>2
    <3> QED BY <1>1, <1>2, <2>1, <2>2, <3>1
  <2>4. \A q \in S : q < Two /\ (q # hi => q + 1 \in S)
    BY <1>2, <2>1, <2>2, <2>3 DEF Two
  <2> QED BY <2>4 DEF Run
<1> QED BY <1>2, <1>3, <1>4

--------------------------------------------------------------------------
(* The cards of a hand by how many there are of their rank *)

Ranks(h, k) == Cardinality(Exactly(h, k))

LEMMA HandsAreBags == ASSUME NEW h \in Counts PROVE \A r \in Rank : h[r] \in 0..4
BY DEF Counts

LEMMA SubsetsOfRank ==
  ASSUME NEW S \in SUBSET Rank
  PROVE  IsFiniteSet(S) /\ Cardinality(S) \in Nat /\ (Cardinality(S) = 0 <=> S = {})
BY RanksAreFinite, FS_Subset, FS_CardinalityType, FS_EmptySet

\* A rank of a hand has no card, or one, two, three or four.
LEMMA ByCount ==
  ASSUME NEW h \in Counts
  PROVE  /\ \A k \in 0..4 : Exactly(h, k) \in SUBSET Rank /\ Ranks(h, k) \in Nat
                            /\ (Ranks(h, k) = 0 <=> Exactly(h, k) = {})
         /\ \A j, k \in 0..4 : j # k => Exactly(h, j) \cap Exactly(h, k) = {}
         /\ AtLeast(h, 4) = Exactly(h, 4)
         /\ AtLeast(h, 3) = Exactly(h, 3) \cup AtLeast(h, 4)
         /\ AtLeast(h, 2) = Exactly(h, 2) \cup AtLeast(h, 3)
         /\ AtLeast(h, 1) = Exactly(h, 1) \cup AtLeast(h, 2)
         /\ Exactly(h, 0) = Rank \ AtLeast(h, 1)
<1>1. \A r \in Rank : h[r] \in 0..4
  BY HandsAreBags
<1>2. ASSUME NEW k \in 0..4
      PROVE  Exactly(h, k) \in SUBSET Rank /\ Ranks(h, k) \in Nat
             /\ (Ranks(h, k) = 0 <=> Exactly(h, k) = {})
  <2>1. Exactly(h, k) \in SUBSET Rank
    BY DEF Exactly
  <2> QED BY <2>1, SubsetsOfRank DEF Ranks
<1>3. \A j, k \in 0..4 : j # k => Exactly(h, j) \cap Exactly(h, k) = {}
  BY DEF Exactly
<1>4. /\ AtLeast(h, 4) = Exactly(h, 4)
      /\ AtLeast(h, 3) = Exactly(h, 3) \cup AtLeast(h, 4)
      /\ AtLeast(h, 2) = Exactly(h, 2) \cup AtLeast(h, 3)
      /\ AtLeast(h, 1) = Exactly(h, 1) \cup AtLeast(h, 2)
  BY <1>1 DEF Exactly, AtLeast
<1>5. Exactly(h, 0) = Rank \ AtLeast(h, 1)
  BY <1>1 DEF Exactly, AtLeast
<1> QED BY <1>2, <1>3, <1>4, <1>5

\* What a hand counts: its cards, its ranks, its triples and its wings.
LEMMA SizeByCount ==
  ASSUME NEW h \in Counts
  PROVE  /\ Size(h) = Ranks(h, 1) + 2 * Ranks(h, 2) + 3 * Ranks(h, 3) + 4 * Ranks(h, 4)
         /\ Cardinality(AtLeast(h, 3)) = Ranks(h, 3) + Ranks(h, 4)
         /\ Cardinality(AtLeast(h, 1))
              = Ranks(h, 1) + Ranks(h, 2) + Ranks(h, 3) + Ranks(h, 4)
         /\ Cardinality(Wings(h)) = Ranks(h, 1) + Ranks(h, 2)
<1> DEFINE X(k) == Exactly(h, k)
           A(k) == AtLeast(h, k)
<1>1. \A S, T \in SUBSET Rank : S \cap T = {} =>
        Cardinality(S \cup T) = Cardinality(S) + Cardinality(T)
  BY SubsetsOfRank, DisjointUnion
<1>2. /\ X(1) \in SUBSET Rank /\ X(2) \in SUBSET Rank /\ X(3) \in SUBSET Rank
      /\ X(4) \in SUBSET Rank /\ A(2) \in SUBSET Rank /\ A(3) \in SUBSET Rank
  BY DEF Exactly, AtLeast
<1>3. A(4) = X(4) /\ A(3) = X(3) \cup X(4) /\ A(2) = X(2) \cup A(3) /\ A(1) = X(1) \cup A(2)
  BY ByCount
<1>4. X(1) \cap X(2) = {} /\ X(3) \cap X(4) = {} /\ X(2) \cap A(3) = {} /\ X(1) \cap A(2) = {}
  BY DEF Exactly, AtLeast
<1>5. /\ Cardinality(X(1)) \in Nat /\ Cardinality(X(2)) \in Nat
      /\ Cardinality(X(3)) \in Nat /\ Cardinality(X(4)) \in Nat
  BY <1>2, SubsetsOfRank
<1> HIDE DEF X, A
<1>6. Cardinality(A(3)) = Cardinality(X(3)) + Cardinality(X(4))
  BY <1>1, <1>2, <1>3, <1>4
<1>7. Cardinality(A(2)) = Cardinality(X(2)) + Cardinality(A(3))
  BY <1>1, <1>2, <1>3, <1>4
<1>8. Cardinality(A(1)) = Cardinality(X(1)) + Cardinality(A(2))
  BY <1>1, <1>2, <1>3, <1>4
<1>9. Cardinality(X(1) \cup X(2)) = Cardinality(X(1)) + Cardinality(X(2))
  BY <1>1, <1>2, <1>4
<1>10. Cardinality(A(4)) = Cardinality(X(4))
  BY <1>3
<1>11. Wings(h) = X(1) \cup X(2)
  BY DEF Wings, X
<1>12. Size(h) = Cardinality(A(1)) + Cardinality(A(2)) + Cardinality(A(3)) + Cardinality(A(4))
  BY DEF Size, A
<1>13. \A k \in 1..4 : Ranks(h, k) = Cardinality(X(k))
  BY DEF Ranks, X
<1>14. /\ Cardinality(A(3)) = Cardinality(AtLeast(h, 3))
       /\ Cardinality(A(1)) = Cardinality(AtLeast(h, 1))
  BY DEF A
<1>15. /\ Ranks(h, 1) = Cardinality(X(1)) /\ Ranks(h, 2) = Cardinality(X(2))
       /\ Ranks(h, 3) = Cardinality(X(3)) /\ Ranks(h, 4) = Cardinality(X(4))
  BY <1>13
<1> QED BY <1>5, <1>6, <1>7, <1>8, <1>9, <1>10, <1>11, <1>12, <1>14, <1>15

\* The hands that are put together from ranks.
LEMMA AlikeHands ==
  ASSUME NEW h \in Hand, NEW k \in 1..4, NEW S \in SUBSET Rank
  PROVE  h = Kind(k, S) <=> Exactly(h, k) = S /\ AtLeast(h, 1) = S
<1>1. \A r \in Rank : h[r] \in 0..4
  BY HandsAreBags, BagsAreBags
<1>2. ASSUME h = Kind(k, S) PROVE Exactly(h, k) = S /\ AtLeast(h, 1) = S
  BY <1>2 DEF Kind, Exactly, AtLeast
<1>3. ASSUME Exactly(h, k) = S, AtLeast(h, 1) = S PROVE h = Kind(k, S)
  <2>1. h \in [Rank -> 0..4]
    BY DEF Hand, Counts
  <2>2. \A r \in Rank : h[r] = IF r \in S THEN k ELSE 0
    <3> SUFFICES ASSUME NEW r \in Rank PROVE h[r] = IF r \in S THEN k ELSE 0
      OBVIOUS
    <3>1. r \in S => h[r] = k
      BY <1>3 DEF Exactly
    <3>2. r \notin S => ~(h[r] >= 1)
      BY <1>3 DEF AtLeast
    <3> QED BY <1>1, <3>1, <3>2
  <2> QED BY <2>1, <2>2 DEF Kind
<1> QED BY <1>2, <1>3

LEMMA JoinedHands ==
  ASSUME NEW h \in Hand, NEW k \in 1..4, NEW w \in 1..4, k # w,
         NEW S \in SUBSET Rank, NEW W \in SUBSET Rank, S \cap W = {}
  PROVE  h = Plus(Kind(k, S), Kind(w, W))
           <=> Exactly(h, k) = S /\ Exactly(h, w) = W /\ AtLeast(h, 1) = S \cup W
<1> DEFINE cards(r) == IF r \in S THEN k ELSE IF r \in W THEN w ELSE 0
<1>1. \A r \in Rank : h[r] \in 0..4
  BY HandsAreBags, BagsAreBags
<1>2. Plus(Kind(k, S), Kind(w, W)) = [r \in Rank |-> cards(r)]
  BY DEF Plus, Kind
<1>3. h = [r \in Rank |-> cards(r)] <=> \A r \in Rank : h[r] = cards(r)
  BY DEF Hand, Counts
<1>4. ASSUME \A r \in Rank : h[r] = cards(r)
      PROVE  Exactly(h, k) = S /\ Exactly(h, w) = W /\ AtLeast(h, 1) = S \cup W
  BY <1>4 DEF Exactly, AtLeast
<1>5. ASSUME Exactly(h, k) = S, Exactly(h, w) = W, AtLeast(h, 1) = S \cup W, NEW r \in Rank
      PROVE  h[r] = cards(r)
  <2>1. (r \in S => h[r] = k) /\ (r \in W => h[r] = w)
    BY <1>5 DEF Exactly
  <2>2. r \notin S \cup W => ~(h[r] >= 1)
    BY <1>5 DEF AtLeast
  <2> QED BY <1>1, <2>1, <2>2
<1> QED BY <1>2, <1>3, <1>4, <1>5

\* A hand has two kinds of ranks when all others have none.
LEMMA OnlyOf ==
  ASSUME NEW h \in Counts, NEW k \in 1..4, NEW w \in 1..4
  PROVE  AtLeast(h, 1) = Exactly(h, k) \cup Exactly(h, w)
           <=> \A j \in 1..4 : j \notin {k, w} => Ranks(h, j) = 0
<1>1. \A r \in Rank : h[r] \in 0..4
  BY HandsAreBags
<1>2. \A j \in 1..4 : Ranks(h, j) = 0 <=> \A r \in Rank : h[r] # j
  <2>1. \A j \in 1..4 : Ranks(h, j) = 0 <=> Exactly(h, j) = {}
    BY ByCount
  <2> QED BY <2>1 DEF Exactly
<1>3. ASSUME AtLeast(h, 1) = Exactly(h, k) \cup Exactly(h, w), NEW j \in 1..4, j \notin {k, w}
      PROVE  \A r \in Rank : h[r] # j
  BY <1>3 DEF AtLeast, Exactly
<1>4. ASSUME \A j \in 1..4 : j \notin {k, w} => \A r \in Rank : h[r] # j
      PROVE  AtLeast(h, 1) = Exactly(h, k) \cup Exactly(h, w)
  BY <1>1, <1>4 DEF AtLeast, Exactly
<1> QED BY <1>2, <1>3, <1>4

IsAround(h, k, n, w) ==
  \E r \in Rank : \E W \in SUBSET (Rank \ {r}) :
    Cardinality(W) = n /\ h = Plus(Kind(k, {r}), Kind(w, W))

\* The hands of Around, without a union of sets.
LEMMA AroundParts ==
  ASSUME NEW h \in Hand, NEW k \in 1..4, NEW n \in Nat, NEW w \in 0..4
  PROVE  h \in Around(k, n, w) <=> IsAround(h, k, n, w)
<1> DEFINE Joined(r) == {Plus(Kind(k, {r}), Kind(w, W)) : W \in kSubset(n, Rank \ {r})}
<1>1. \A r \in Rank : h \in Joined(r) <=>
        \E W \in SUBSET (Rank \ {r}) :
          Cardinality(W) = n /\ h = Plus(Kind(k, {r}), Kind(w, W))
  BY Zenon DEF kSubset
<1>2. Around(k, n, w) = UNION {Joined(r) : r \in Rank}
  BY Zenon DEF Around
<1> HIDE DEF Joined
<1>3. h \in UNION {Joined(r) : r \in Rank} <=> \E r \in Rank : h \in Joined(r)
  BY Zenon
<1> QED BY <1>1, <1>2, <1>3, Zenon DEF IsAround

LEMMA OneRank ==
  ASSUME NEW h \in Hand, NEW k \in 1..4
  PROVE  Ranks(h, k) = 1 <=> \E r \in Rank : Exactly(h, k) = {r}
<1>1. Exactly(h, k) \in SUBSET Rank
  BY DEF Exactly
<1>2. IsFiniteSet(Exactly(h, k))
  BY <1>1, SubsetsOfRank
<1>3. Ranks(h, k) = 1 <=> \E r : Exactly(h, k) = {r}
  BY <1>2, FS_Singleton DEF Ranks
<1> QED BY <1>1, <1>3

\* One rank with n others, told by the counts; next, without others.
LEMMA AroundByCount ==
  ASSUME NEW h \in Hand, NEW k \in 1..4, NEW w \in 1..4, k # w, NEW n \in Nat
  PROVE  h \in Around(k, n, w)
           <=> /\ Ranks(h, k) = 1 /\ Ranks(h, w) = n
               /\ \A j \in 1..4 : j \notin {k, w} => Ranks(h, j) = 0
<1>1. h \in Around(k, n, w) <=> IsAround(h, k, n, w)
  BY AroundParts
<1>2. \A r \in Rank : \A W \in SUBSET (Rank \ {r}) :
        h = Plus(Kind(k, {r}), Kind(w, W)) <=>
          Exactly(h, k) = {r} /\ Exactly(h, w) = W /\ AtLeast(h, 1) = {r} \cup W
  <2> SUFFICES ASSUME NEW r \in Rank, NEW W \in SUBSET (Rank \ {r})
               PROVE  h = Plus(Kind(k, {r}), Kind(w, W)) <=>
                        Exactly(h, k) = {r} /\ Exactly(h, w) = W /\ AtLeast(h, 1) = {r} \cup W
    OBVIOUS
  <2> DEFINE S == {r}
  <2>1. S \in SUBSET Rank /\ W \in SUBSET Rank /\ S \cap W = {}
    OBVIOUS
  <2> HIDE DEF S
  <2>2. h = Plus(Kind(k, S), Kind(w, W))
          <=> Exactly(h, k) = S /\ Exactly(h, w) = W /\ AtLeast(h, 1) = S \cup W
    BY <2>1, JoinedHands
  <2> QED BY <2>2 DEF S
<1>3. Ranks(h, k) = 1 <=> \E r \in Rank : Exactly(h, k) = {r}
  BY OneRank
<1>4. Exactly(h, w) \in SUBSET (Rank \ Exactly(h, k))
  BY DEF Exactly
<1>5. Ranks(h, w) = Cardinality(Exactly(h, w))
  BY DEF Ranks
<1>6. h \in Around(k, n, w) <=>
        /\ Ranks(h, k) = 1 /\ Ranks(h, w) = n
        /\ AtLeast(h, 1) = Exactly(h, k) \cup Exactly(h, w)
  <2>1. ASSUME h \in Around(k, n, w)
        PROVE  /\ Ranks(h, k) = 1 /\ Ranks(h, w) = n
               /\ AtLeast(h, 1) = Exactly(h, k) \cup Exactly(h, w)
    <3>1. PICK r \in Rank : \E W \in SUBSET (Rank \ {r}) :
            Cardinality(W) = n /\ h = Plus(Kind(k, {r}), Kind(w, W))
      BY <1>1, <2>1 DEF IsAround
    <3>2. PICK W \in SUBSET (Rank \ {r}) :
            Cardinality(W) = n /\ h = Plus(Kind(k, {r}), Kind(w, W))
      BY <3>1
    <3>3. Exactly(h, k) = {r} /\ Exactly(h, w) = W /\ AtLeast(h, 1) = {r} \cup W
      BY <1>2, <3>2
    <3> QED BY <1>3, <1>5, <3>2, <3>3
  <2>2. ASSUME Ranks(h, k) = 1, Ranks(h, w) = n,
               AtLeast(h, 1) = Exactly(h, k) \cup Exactly(h, w)
        PROVE  h \in Around(k, n, w)
    <3>1. PICK r \in Rank : Exactly(h, k) = {r}
      BY <1>3, <2>2
    <3>2. Exactly(h, w) \in SUBSET (Rank \ {r})
      BY <1>4, <3>1
    <3>3. h = Plus(Kind(k, {r}), Kind(w, Exactly(h, w)))
      BY <1>2, <2>2, <3>1, <3>2
    <3>4. Cardinality(Exactly(h, w)) = n
      BY <1>5, <2>2
    <3> QED BY <1>1, <3>2, <3>3, <3>4, Zenon DEF IsAround
  <2> QED BY <2>1, <2>2
<1> QED BY <1>6, OnlyOf, BagsAreBags

LEMMA PlainAround ==
  ASSUME NEW h \in Hand, NEW k \in 1..4
  PROVE  h \in Around(k, 0, 0)
           <=> Ranks(h, k) = 1 /\ \A j \in 1..4 : j # k => Ranks(h, j) = 0
<1>1. \A r \in Rank : Plus(Kind(k, {r}), Kind(0, {})) = Kind(k, {r})
  BY DEF Plus, Kind
<1>2. \A S \in SUBSET Rank : Cardinality(S) = 0 <=> S = {}
  BY SubsetsOfRank
<1>3. h \in Around(k, 0, 0) <=> \E r \in Rank : h = Kind(k, {r})
  <2>1. h \in Around(k, 0, 0) <=>
          IsAround(h, k, 0, 0)
    BY AroundParts
  <2>2. \A r \in Rank : \A W \in SUBSET (Rank \ {r}) : Cardinality(W) = 0 <=> W = {}
    BY <1>2
  <2>3. IsAround(h, k, 0, 0) <=> \E r \in Rank : h = Kind(k, {r})
    BY <1>1, <2>2, Zenon DEF IsAround
  <2> QED BY <2>1, <2>3
<1>4. \A r \in Rank : h = Kind(k, {r}) <=> Exactly(h, k) = {r} /\ AtLeast(h, 1) = {r}
  <2>1. \A S \in SUBSET Rank : h = Kind(k, S) <=> Exactly(h, k) = S /\ AtLeast(h, 1) = S
    BY AlikeHands
  <2> QED BY <2>1
<1>5. AtLeast(h, 1) = Exactly(h, k) \cup Exactly(h, k)
        <=> \A j \in 1..4 : j \notin {k, k} => Ranks(h, j) = 0
  BY OnlyOf, BagsAreBags
<1>6. Ranks(h, k) = 1 <=> \E r \in Rank : Exactly(h, k) = {r}
  BY OneRank
<1>7. h \in Around(k, 0, 0) <=> Ranks(h, k) = 1 /\ AtLeast(h, 1) = Exactly(h, k)
  BY <1>3, <1>4, <1>6
<1> QED BY <1>5, <1>7

\* A run of ranks, alike or with other ranks.
LEMMA PlainRun ==
  ASSUME NEW h \in Hand, NEW k \in 1..4, NEW N \in SUBSET Nat
  PROVE  h \in {Kind(k, S) : S \in UNION {Runs(n) : n \in N}}
           <=> /\ Ranks(h, k) \in N /\ Exactly(h, k) \in Runs(Ranks(h, k))
               /\ \A j \in 1..4 : j # k => Ranks(h, j) = 0
<1>1. \A n \in N : \A S \in Runs(n) : S \in SUBSET Rank /\ Cardinality(S) = n
  BY DEF Runs
<1>2. \A S \in SUBSET Rank : h = Kind(k, S) <=> Exactly(h, k) = S /\ AtLeast(h, 1) = S
  BY AlikeHands
<1>3. AtLeast(h, 1) = Exactly(h, k) \cup Exactly(h, k)
        <=> \A j \in 1..4 : j \notin {k, k} => Ranks(h, j) = 0
  BY OnlyOf, BagsAreBags
<1>4. ASSUME NEW n \in N, NEW S \in Runs(n), h = Kind(k, S)
      PROVE  Ranks(h, k) = n /\ Exactly(h, k) = S /\ AtLeast(h, 1) = S
  BY <1>1, <1>2, <1>4 DEF Ranks
<1>5. ASSUME Ranks(h, k) \in N, Exactly(h, k) \in Runs(Ranks(h, k)),
             AtLeast(h, 1) = Exactly(h, k)
      PROVE  h \in {Kind(k, S) : S \in UNION {Runs(n) : n \in N}}
  <2>1. h = Kind(k, Exactly(h, k))
    BY <1>1, <1>2, <1>5
  <2>2. Exactly(h, k) \in UNION {Runs(n) : n \in N}
    BY <1>5
  <2> QED BY <2>1, <2>2
<1>6. h \in {Kind(k, S) : S \in UNION {Runs(n) : n \in N}}
        <=> \E n \in N : \E S \in Runs(n) : h = Kind(k, S)
  OBVIOUS
<1> QED BY <1>3, <1>4, <1>5, <1>6

\* A run with as many other ranks, told by the counts.
LEMMA WingedByCount ==
  ASSUME NEW h \in Hand, NEW k \in 1..4, NEW w \in 1..4, k # w, NEW n \in Nat
  PROVE  h \in Winged(k, n, w)
           <=> /\ Exactly(h, k) \in Runs(n) /\ Ranks(h, k) = n /\ Ranks(h, w) = n
               /\ \A j \in 1..4 : j \notin {k, w} => Ranks(h, j) = 0
<1>1. h \in Winged(k, n, w) <=>
        \E S \in Runs(n) : \E W \in SUBSET (Rank \ S) :
          Cardinality(W) = n /\ h = Plus(Kind(k, S), Kind(w, W))
  BY DEF Winged, kSubset
<1>2. \A S \in Runs(n) : S \in SUBSET Rank /\ Cardinality(S) = n
  BY DEF Runs
<1>3. ASSUME NEW S \in Runs(n), NEW W \in SUBSET (Rank \ S)
      PROVE  h = Plus(Kind(k, S), Kind(w, W)) <=>
               Exactly(h, k) = S /\ Exactly(h, w) = W /\ AtLeast(h, 1) = S \cup W
  <2>1. S \in SUBSET Rank /\ W \in SUBSET Rank /\ S \cap W = {}
    BY <1>2
  <2> QED BY <2>1, JoinedHands
<1>4. Exactly(h, w) \in SUBSET (Rank \ Exactly(h, k))
  BY DEF Exactly
<1>5. Ranks(h, w) = Cardinality(Exactly(h, w)) /\ Ranks(h, k) = Cardinality(Exactly(h, k))
  BY DEF Ranks
<1>6. ASSUME h \in Winged(k, n, w)
      PROVE  /\ Exactly(h, k) \in Runs(n) /\ Ranks(h, k) = n /\ Ranks(h, w) = n
             /\ AtLeast(h, 1) = Exactly(h, k) \cup Exactly(h, w)
  <2>1. PICK S \in Runs(n) : \E W \in SUBSET (Rank \ S) :
          Cardinality(W) = n /\ h = Plus(Kind(k, S), Kind(w, W))
    BY <1>1, <1>6
  <2>2. PICK W \in SUBSET (Rank \ S) :
          Cardinality(W) = n /\ h = Plus(Kind(k, S), Kind(w, W))
    BY <2>1
  <2>3. Exactly(h, k) = S /\ Exactly(h, w) = W /\ AtLeast(h, 1) = S \cup W
    BY <1>3, <2>2
  <2> QED BY <1>2, <1>5, <2>2, <2>3
<1>7. ASSUME Exactly(h, k) \in Runs(n), Ranks(h, w) = n,
             AtLeast(h, 1) = Exactly(h, k) \cup Exactly(h, w)
      PROVE  h \in Winged(k, n, w)
  BY <1>1, <1>3, <1>4, <1>5, <1>7
<1> QED BY <1>6, <1>7, OnlyOf, BagsAreBags

LEMMA JokersByCount ==
  ASSUME NEW h \in Hand
  PROVE  h \in {Kind(1, {LittleJoker, BigJoker})}
           <=> /\ Exactly(h, 1) = {LittleJoker, BigJoker}
               /\ \A j \in 1..4 : j # 1 => Ranks(h, j) = 0
<1>1. {LittleJoker, BigJoker} \in SUBSET Rank
  BY PokerAssumption DEF Rank, LittleJoker, BigJoker
<1>2. h = Kind(1, {LittleJoker, BigJoker})
        <=> Exactly(h, 1) = {LittleJoker, BigJoker} /\ AtLeast(h, 1) = {LittleJoker, BigJoker}
  <2> DEFINE S == {LittleJoker, BigJoker}
  <2> HIDE DEF S
  <2>1. S \in SUBSET Rank
    BY <1>1 DEF S
  <2>2. h = Kind(1, S) <=> Exactly(h, 1) = S /\ AtLeast(h, 1) = S
    BY <2>1, AlikeHands
  <2> QED BY <2>2 DEF S
<1>3. AtLeast(h, 1) = Exactly(h, 1) \cup Exactly(h, 1)
        <=> \A j \in 1..4 : j \notin {1, 1} => Ranks(h, j) = 0
  BY OnlyOf, BagsAreBags
<1> QED BY <1>2, <1>3

\* A play told by the numbers of its ranks with one card, two, three and four.
Of(h, a, b, c, d) ==
  Ranks(h, 1) = a /\ Ranks(h, 2) = b /\ Ranks(h, 3) = c /\ Ranks(h, 4) = d
RunOf(h, k, n) == Ranks(h, k) >= n /\ Exactly(h, k) \in Runs(Ranks(h, k))

Low(h) == Min(AtLeast(h, 1))
Main(h) == Min(AtLeast(h, 3))

\* Three cards of a rank, that is no joker: of a hand it never is, but a joker may be
\* named three times.
Triple(h) == Of(h, 0, 0, 1, 0) /\ Low(h) < LittleJoker

IsPlay(h, t) ==
  \/ t = "single" /\ Of(h, 1, 0, 0, 0)
  \/ t = "double" /\ Of(h, 0, 1, 0, 0)
  \/ t = "three" /\ Triple(h)
  \/ t = "bomb" /\ Of(h, 0, 0, 0, 1)
  \/ t = "three_one" /\ Of(h, 1, 0, 1, 0)
  \/ t = "three_double" /\ Of(h, 0, 1, 1, 0)
  \/ t = "four_two_single" /\ (Of(h, 2, 0, 0, 1) \/ Of(h, 0, 1, 0, 1))
  \/ t = "four_two_double" /\ Of(h, 0, 2, 0, 1)
  \/ t = "single_chain" /\ RunOf(h, 1, 5) /\ Of(h, Ranks(h, 1), 0, 0, 0)
  \/ t = "double_chain" /\ RunOf(h, 2, 3) /\ Of(h, 0, Ranks(h, 2), 0, 0)
  \/ t = "three_chain" /\ RunOf(h, 3, 2) /\ Of(h, 0, 0, Ranks(h, 3), 0)
  \/ t = "three_chain_single" /\ RunOf(h, 3, 2) /\ Of(h, Ranks(h, 3), 0, Ranks(h, 3), 0)
  \/ t = "three_chain_double" /\ RunOf(h, 3, 2) /\ Of(h, 0, Ranks(h, 3), Ranks(h, 3), 0)
  \/ t = "double_joker" /\ Of(h, 2, 0, 0, 0) /\ Exactly(h, 1) = {LittleJoker, BigJoker}

\* No run is longer than from the three to the ace.
LEMMA RunsAreShort ==
  ASSUME NEW n \in Nat, NEW S \in Runs(n)
  PROVE  n <= 12
<1> DEFINE T == 1..12
<1>1. S \in SUBSET T /\ Cardinality(S) = n
  BY DEF Runs
<1>2. IsFiniteSet(1..12) /\ Cardinality(1..12) = 12
  <2>1. \A b \in Int : IsFiniteSet(1..b) /\ Cardinality(1..b) = IF 1 > b THEN 0 ELSE b - 1 + 1
    BY FS_Interval
  <2>2. 12 \in Int
    OBVIOUS
  <2>3. IsFiniteSet(1..12) /\ Cardinality(1..12) = IF 1 > 12 THEN 0 ELSE 12 - 1 + 1
    BY <2>1, <2>2, Zenon
  <2> QED BY <2>3
<1> HIDE DEF T
<1>3. IsFiniteSet(T) /\ Cardinality(T) = 12
  BY <1>2 DEF T
<1>4. Cardinality(S) <= Cardinality(T)
  BY <1>1, <1>3, FS_Subset
<1> QED BY <1>1, <1>3, <1>4

LEMMA RanksAreCounts ==
  ASSUME NEW h \in Counts
  PROVE  /\ Ranks(h, 1) \in Nat /\ Ranks(h, 2) \in Nat
         /\ Ranks(h, 3) \in Nat /\ Ranks(h, 4) \in Nat
BY ByCount

\* The hands of the rules for each group of types.
LEMMA PlainShapes ==
  ASSUME NEW h \in Hand
  PROVE  /\ h \in Around(1, 0, 0) <=> Of(h, 1, 0, 0, 0)
         /\ h \in Around(2, 0, 0) <=> Of(h, 0, 1, 0, 0)
         /\ h \in Around(3, 0, 0) <=> Of(h, 0, 0, 1, 0)
         /\ h \in Around(4, 0, 0) <=> Of(h, 0, 0, 0, 1)
<1>1. \A k \in 1..4 : h \in Around(k, 0, 0)
           <=> Ranks(h, k) = 1 /\ \A j \in 1..4 : j # k => Ranks(h, j) = 0
  BY PlainAround
<1> QED BY <1>1 DEF Of

LEMMA WingShapes ==
  ASSUME NEW h \in Hand
  PROVE  /\ h \in Around(3, 1, 1) <=> Of(h, 1, 0, 1, 0)
         /\ h \in Around(3, 1, 2) <=> Of(h, 0, 1, 1, 0)
         /\ h \in Around(4, 2, 1) <=> Of(h, 2, 0, 0, 1)
         /\ h \in Around(4, 1, 2) <=> Of(h, 0, 1, 0, 1)
         /\ h \in Around(4, 2, 2) <=> Of(h, 0, 2, 0, 1)
<1>1. \A k, w \in 1..4 : \A n \in Nat : k # w =>
        (h \in Around(k, n, w)
           <=> /\ Ranks(h, k) = 1 /\ Ranks(h, w) = n
               /\ \A j \in 1..4 : j \notin {k, w} => Ranks(h, j) = 0)
  BY AroundByCount
<1> QED BY <1>1 DEF Of

LEMMA RunShapes ==
  ASSUME NEW h \in Hand
  PROVE  /\ h \in {Kind(1, S) : S \in UNION {Runs(n) : n \in 5..12}}
              <=> RunOf(h, 1, 5) /\ Of(h, Ranks(h, 1), 0, 0, 0)
         /\ h \in {Kind(2, S) : S \in UNION {Runs(n) : n \in 3..12}}
              <=> RunOf(h, 2, 3) /\ Of(h, 0, Ranks(h, 2), 0, 0)
         /\ h \in {Kind(3, S) : S \in UNION {Runs(n) : n \in 2..12}}
              <=> RunOf(h, 3, 2) /\ Of(h, 0, 0, Ranks(h, 3), 0)
<1>1. ASSUME NEW k \in 1..4, NEW m \in Nat
      PROVE  h \in {Kind(k, S) : S \in UNION {Runs(n) : n \in m..12}}
               <=> RunOf(h, k, m) /\ \A j \in 1..4 : j # k => Ranks(h, j) = 0
  <2>1. m..12 \in SUBSET Nat
    OBVIOUS
  <2>2. h \in {Kind(k, S) : S \in UNION {Runs(n) : n \in m..12}}
           <=> /\ Ranks(h, k) \in m..12 /\ Exactly(h, k) \in Runs(Ranks(h, k))
               /\ \A j \in 1..4 : j # k => Ranks(h, j) = 0
    BY <2>1, PlainRun
  <2>3. Ranks(h, k) \in Nat
    BY ByCount, BagsAreBags
  <2>4. Exactly(h, k) \in Runs(Ranks(h, k)) => Ranks(h, k) <= 12
    BY <2>3, RunsAreShort
  <2> QED BY <2>2, <2>3, <2>4 DEF RunOf
<1>2. h \in {Kind(1, S) : S \in UNION {Runs(n) : n \in 5..12}}
        <=> RunOf(h, 1, 5) /\ \A j \in 1..4 : j # 1 => Ranks(h, j) = 0
  BY <1>1
<1>3. h \in {Kind(2, S) : S \in UNION {Runs(n) : n \in 3..12}}
        <=> RunOf(h, 2, 3) /\ \A j \in 1..4 : j # 2 => Ranks(h, j) = 0
  BY <1>1
<1>4. h \in {Kind(3, S) : S \in UNION {Runs(n) : n \in 2..12}}
        <=> RunOf(h, 3, 2) /\ \A j \in 1..4 : j # 3 => Ranks(h, j) = 0
  BY <1>1
<1> QED BY <1>2, <1>3, <1>4 DEF Of

LEMMA WingedShapes ==
  ASSUME NEW h \in Hand, Size(h) < 20
  PROVE  /\ h \in UNION {Winged(3, n, 1) : n \in 2..6}
              <=> RunOf(h, 3, 2) /\ Of(h, Ranks(h, 3), 0, Ranks(h, 3), 0)
         /\ h \in UNION {Winged(3, n, 2) : n \in 2..6}
              <=> RunOf(h, 3, 2) /\ Of(h, 0, Ranks(h, 3), Ranks(h, 3), 0)
<1>1. ASSUME NEW w \in 1..2
      PROVE  h \in UNION {Winged(3, n, w) : n \in 2..6}
               <=> /\ Ranks(h, 3) \in 2..6 /\ Exactly(h, 3) \in Runs(Ranks(h, 3))
                   /\ Ranks(h, w) = Ranks(h, 3)
                   /\ \A j \in 1..4 : j \notin {3, w} => Ranks(h, j) = 0
  <2>1. h \in UNION {Winged(3, n, w) : n \in 2..6} <=> \E n \in 2..6 : h \in Winged(3, n, w)
    BY Zenon
  <2>2. \A n \in 2..6 : h \in Winged(3, n, w)
           <=> /\ Exactly(h, 3) \in Runs(n) /\ Ranks(h, 3) = n /\ Ranks(h, w) = n
               /\ \A j \in 1..4 : j \notin {3, w} => Ranks(h, j) = 0
    BY WingedByCount
  <2> QED BY <2>1, <2>2
<1>2. RunOf(h, 3, 2) /\ (Ranks(h, 1) = Ranks(h, 3) \/ Ranks(h, 2) = Ranks(h, 3))
        => Ranks(h, 3) \in 2..6
  <2>1. \A a, b, c, d \in Nat : a + 2 * b + 3 * c + 4 * d < 20 /\ c >= 2 /\ (a = c \/ b = c)
                                => c \in 2..6
    OBVIOUS
  <2>2. Ranks(h, 1) + 2 * Ranks(h, 2) + 3 * Ranks(h, 3) + 4 * Ranks(h, 4) < 20
    BY SizeByCount, BagsAreBags
  <2> QED BY <2>1, <2>2, RanksAreCounts, BagsAreBags DEF RunOf
<1>3. h \in UNION {Winged(3, n, 1) : n \in 2..6}
        <=> /\ Ranks(h, 3) \in 2..6 /\ Exactly(h, 3) \in Runs(Ranks(h, 3))
            /\ Ranks(h, 1) = Ranks(h, 3)
            /\ \A j \in 1..4 : j \notin {3, 1} => Ranks(h, j) = 0
  BY <1>1
<1>4. h \in UNION {Winged(3, n, 2) : n \in 2..6}
        <=> /\ Ranks(h, 3) \in 2..6 /\ Exactly(h, 3) \in Runs(Ranks(h, 3))
            /\ Ranks(h, 2) = Ranks(h, 3)
            /\ \A j \in 1..4 : j \notin {3, 2} => Ranks(h, j) = 0
  BY <1>1
<1>5. Ranks(h, 3) \in Nat
  BY RanksAreCounts, BagsAreBags
<1> QED BY <1>2, <1>3, <1>4, <1>5 DEF Of, RunOf

LEMMA JokersAreTwo ==
  ASSUME NEW h, Exactly(h, 1) = {LittleJoker, BigJoker}
  PROVE  Ranks(h, 1) = 2
<1>1. IsFiniteSet({LittleJoker}) /\ Cardinality({LittleJoker}) = 1
  BY FS_Singleton
<1>2. {LittleJoker, BigJoker} = {LittleJoker} \cup {BigJoker} /\ BigJoker \notin {LittleJoker}
  BY DEF LittleJoker, BigJoker
<1>3. Cardinality({LittleJoker} \cup {BigJoker}) = 2
  BY <1>1, <1>2, FS_AddElement
<1> QED BY <1>2, <1>3 DEF Ranks

\* Whether a hand has ranks of each number of cards, by the counts.
LEMMA NoneOf ==
  ASSUME NEW h \in Counts
  PROVE  /\ Exactly(h, 1) = {} <=> Ranks(h, 1) = 0
         /\ Exactly(h, 2) = {} <=> Ranks(h, 2) = 0
         /\ Exactly(h, 3) = {} <=> Ranks(h, 3) = 0
         /\ Exactly(h, 4) = {} <=> Ranks(h, 4) = 0
BY ByCount

\* No hand has three of a joker.
LEMMA HandTriples ==
  ASSUME NEW h \in Hand, Of(h, 0, 0, 1, 0)
  PROVE  Triple(h)
<1>1. h \in Counts /\ Size(h) = 3
  BY BagsAreBags, SizeByCount DEF Of
<1>2. PICK r \in Rank : h[r] = 3
  BY <1>1, NoneOf, BagsAreBags DEF Of, Exactly
<1>3. AtLeast(h, 1) \in SUBSET Rank /\ r \in AtLeast(h, 1)
  BY <1>2 DEF AtLeast
<1>4. Low(h) \in Rank /\ Low(h) <= r
  BY <1>3, LeastRank DEF Low
<1>5. r \notin {LittleJoker, BigJoker} /\ r \in 1..15
  BY <1>2, RanksAreFinite DEF Hand, Copies
<1>6. \A a, b \in Int : a <= b /\ b \in 1..15 /\ b # 14 /\ b # 15 => a < 14
  OBVIOUS
<1> QED BY <1>1, <1>4, <1>5, <1>6, RanksAreFinite DEF Triple, LittleJoker, BigJoker

\* The plays of the rules, told by their counts.
LEMMA ShapeByCount ==
  ASSUME NEW h \in Hand, NEW t \in Type
  PROVE  h \in Shape(t) <=> Size(h) < 20 /\ IsPlay(h, t)
<1>1. \A hands : h \in Legal(hands) <=> h \in hands /\ Size(h) < 20
  BY DEF Legal
<1>2. ASSUME Size(h) >= 20 PROVE h \notin Shape(t)
  <2>1. Size(h) \in Nat
    BY SizeIsCards
  <2>2. ~(Size(h) < 20)
    BY <1>2, <2>1
  <2> QED BY <2>2, Zenon DEF Shape, Legal
<1> SUFFICES ASSUME Size(h) < 20 PROVE h \in Shape(t) <=> IsPlay(h, t)
  BY <1>2, SizeIsCards
<1>3. CASE t = "single"
  <2>1. Shape(t) = Legal(Around(1, 0, 0))
    BY <1>3 DEF Shape
  <2>2. h \in Shape(t) <=> h \in Around(1, 0, 0)
    BY <1>1, <2>1
  <2> QED BY <1>3, <2>2, PlainShapes DEF IsPlay
<1>4. CASE t = "double"
  <2>1. Shape(t) = Legal(Around(2, 0, 0))
    BY <1>4 DEF Shape
  <2>2. h \in Shape(t) <=> h \in Around(2, 0, 0)
    BY <1>1, <2>1
  <2> QED BY <1>4, <2>2, PlainShapes DEF IsPlay
<1>5. CASE t = "three"
  <2>1. Shape(t) = Legal(Around(3, 0, 0))
    BY <1>5 DEF Shape
  <2>2. h \in Shape(t) <=> h \in Around(3, 0, 0)
    BY <1>1, <2>1
  <2> QED BY <1>5, <2>2, PlainShapes, HandTriples DEF IsPlay, Triple
<1>6. CASE t = "bomb"
  <2>1. Shape(t) = Legal(Around(4, 0, 0))
    BY <1>6 DEF Shape
  <2>2. h \in Shape(t) <=> h \in Around(4, 0, 0)
    BY <1>1, <2>1
  <2> QED BY <1>6, <2>2, PlainShapes DEF IsPlay
<1>7. CASE t = "three_one"
  <2>1. Shape(t) = Legal(Around(3, 1, 1))
    BY <1>7 DEF Shape
  <2>2. h \in Shape(t) <=> h \in Around(3, 1, 1)
    BY <1>1, <2>1
  <2> QED BY <1>7, <2>2, WingShapes DEF IsPlay
<1>8. CASE t = "three_double"
  <2>1. Shape(t) = Legal(Around(3, 1, 2))
    BY <1>8 DEF Shape
  <2>2. h \in Shape(t) <=> h \in Around(3, 1, 2)
    BY <1>1, <2>1
  <2> QED BY <1>8, <2>2, WingShapes DEF IsPlay
<1>9. CASE t = "four_two_single"
  <2>1. Shape(t) = Legal(Around(4, 2, 1) \cup Around(4, 1, 2))
    BY <1>9 DEF Shape
  <2>2. h \in Shape(t) <=> h \in Around(4, 2, 1) \cup Around(4, 1, 2)
    BY <1>1, <2>1
  <2> QED BY <1>9, <2>2, WingShapes DEF IsPlay
<1>10. CASE t = "four_two_double"
  <2>1. Shape(t) = Legal(Around(4, 2, 2))
    BY <1>10 DEF Shape
  <2>2. h \in Shape(t) <=> h \in Around(4, 2, 2)
    BY <1>1, <2>1
  <2> QED BY <1>10, <2>2, WingShapes DEF IsPlay
<1>11. CASE t = "single_chain"
  <2>1. Shape(t) = Legal({Kind(1, S) : S \in UNION {Runs(n) : n \in 5..12}})
    BY <1>11 DEF Shape
  <2>2. h \in Shape(t) <=> h \in {Kind(1, S) : S \in UNION {Runs(n) : n \in 5..12}}
    BY <1>1, <2>1
  <2> QED BY <1>11, <2>2, RunShapes DEF IsPlay
<1>12. CASE t = "double_chain"
  <2>1. Shape(t) = Legal({Kind(2, S) : S \in UNION {Runs(n) : n \in 3..12}})
    BY <1>12 DEF Shape
  <2>2. h \in Shape(t) <=> h \in {Kind(2, S) : S \in UNION {Runs(n) : n \in 3..12}}
    BY <1>1, <2>1
  <2> QED BY <1>12, <2>2, RunShapes DEF IsPlay
<1>13. CASE t = "three_chain"
  <2>1. Shape(t) = Legal({Kind(3, S) : S \in UNION {Runs(n) : n \in 2..12}})
    BY <1>13 DEF Shape
  <2>2. h \in Shape(t) <=> h \in {Kind(3, S) : S \in UNION {Runs(n) : n \in 2..12}}
    BY <1>1, <2>1
  <2> QED BY <1>13, <2>2, RunShapes DEF IsPlay
<1>14. CASE t = "three_chain_single"
  <2>1. Shape(t) = Legal(UNION {Winged(3, n, 1) : n \in 2..6})
    BY <1>14 DEF Shape
  <2>2. h \in Shape(t) <=> h \in UNION {Winged(3, n, 1) : n \in 2..6}
    BY <1>1, <2>1
  <2> QED BY <1>14, <2>2, WingedShapes DEF IsPlay
<1>15. CASE t = "three_chain_double"
  <2>1. Shape(t) = Legal(UNION {Winged(3, n, 2) : n \in 2..6})
    BY <1>15 DEF Shape
  <2>2. h \in Shape(t) <=> h \in UNION {Winged(3, n, 2) : n \in 2..6}
    BY <1>1, <2>1
  <2> QED BY <1>15, <2>2, WingedShapes DEF IsPlay
<1>16. CASE t = "double_joker"
  <2>1. Shape(t) = Legal({Kind(1, {LittleJoker, BigJoker})})
    BY <1>16 DEF Shape
  <2>2. h \in Shape(t) <=> h \in {Kind(1, {LittleJoker, BigJoker})}
    BY <1>1, <2>1
  <2>3. IsPlay(h, t) <=> Of(h, 2, 0, 0, 0) /\ Exactly(h, 1) = {LittleJoker, BigJoker}
    BY <1>16 DEF IsPlay
  <2> QED BY <2>2, <2>3, JokersByCount, JokersAreTwo DEF Of
<1> QED BY <1>3, <1>4, <1>5, <1>6, <1>7, <1>8, <1>9, <1>10, <1>11, <1>12, <1>13, <1>14,
           <1>15, <1>16 DEF Type

--------------------------------------------------------------------------
(* What the parser says of every hand *)

\* ThreeOrFour of every hand, by the counts.
LEMMA ThreeOrFourByCount ==
  ASSUME NEW h \in Counts
  PROVE  /\ Of(h, 0, 0, 1, 0) => ThreeOrFour(h) = "three"
         /\ Of(h, 1, 0, 1, 0) => ThreeOrFour(h) = "three_one"
         /\ Of(h, 0, 1, 1, 0) => ThreeOrFour(h) = "three_double"
         /\ Of(h, 0, 0, 0, 1) => ThreeOrFour(h) = "bomb"
         /\ Of(h, 2, 0, 0, 1) => ThreeOrFour(h) = "four_two_single"
         /\ Of(h, 0, 1, 0, 1) => ThreeOrFour(h) = "four_two_single"
         /\ Of(h, 0, 2, 0, 1) => ThreeOrFour(h) = "four_two_double"
         /\ ~(Of(h, 0, 0, 1, 0)
              \/ Of(h, 1, 0, 1, 0)
              \/ Of(h, 0, 1, 1, 0)
              \/ Of(h, 0, 0, 0, 1)
              \/ Of(h, 2, 0, 0, 1)
              \/ Of(h, 0, 1, 0, 1)
              \/ Of(h, 0, 2, 0, 1))
            => ThreeOrFour(h) = "err"
<1> DEFINE a == Ranks(h, 1)
           b == Ranks(h, 2)
           c == Ranks(h, 3)
           d == Ranks(h, 4)
<1>1. a \in Nat /\ b \in Nat /\ c \in Nat /\ d \in Nat
  BY RanksAreCounts
<1>2. /\ Exactly(h, 1) = {} <=> a = 0
      /\ Exactly(h, 2) = {} <=> b = 0
      /\ Exactly(h, 3) = {} <=> c = 0
      /\ Exactly(h, 4) = {} <=> d = 0
  BY NoneOf
<1>3. Cardinality(Wings(h)) = a + b /\ Cardinality(AtLeast(h, 3)) = c + d
  BY SizeByCount
<1>4. Alike(h) <=> a = 0 \/ b = 0
  BY <1>2 DEF Alike
<1> DEFINE wing == IF b # 0 THEN 2 ELSE 1
           Is(k, n, w) == k # 0 /\ a + b = n /\ (n = 0 \/ wing = w)
<1>5. ThreeOrFour(h) =
        IF c + d # 1 \/ ~(a = 0 \/ b = 0) THEN "err"
        ELSE CASE Is(c, 0, 1) -> "three"
               [] Is(c, 1, 1) -> "three_one"
               [] Is(c, 1, 2) -> "three_double"
               [] Is(d, 0, 1) -> "bomb"
               [] Is(d, 1, 2) -> "four_two_single"
               [] Is(d, 2, 1) -> "four_two_single"
               [] Is(d, 2, 2) -> "four_two_double"
               [] OTHER       -> "err"
  BY <1>2, <1>3, <1>4 DEF ThreeOrFour
<1> HIDE DEF a, b, c, d
<1>6. a = 0 /\ b = 0 /\ c = 1 /\ d = 0 => ThreeOrFour(h) = "three"
  BY <1>5
<1>7. a = 1 /\ b = 0 /\ c = 1 /\ d = 0 => ThreeOrFour(h) = "three_one"
  BY <1>5
<1>8. a = 0 /\ b = 1 /\ c = 1 /\ d = 0 => ThreeOrFour(h) = "three_double"
  BY <1>5
<1>9. a = 0 /\ b = 0 /\ c = 0 /\ d = 1 => ThreeOrFour(h) = "bomb"
  BY <1>5
<1>10. a = 2 /\ b = 0 /\ c = 0 /\ d = 1 => ThreeOrFour(h) = "four_two_single"
  BY <1>5
<1>11. a = 0 /\ b = 1 /\ c = 0 /\ d = 1 => ThreeOrFour(h) = "four_two_single"
  BY <1>5
<1>12. a = 0 /\ b = 2 /\ c = 0 /\ d = 1 => ThreeOrFour(h) = "four_two_double"
  BY <1>5
<1>13. ~(\/ a = 0 /\ b = 0 /\ c = 1 /\ d = 0
         \/ a = 1 /\ b = 0 /\ c = 1 /\ d = 0
         \/ a = 0 /\ b = 1 /\ c = 1 /\ d = 0
         \/ a = 0 /\ b = 0 /\ c = 0 /\ d = 1
         \/ a = 2 /\ b = 0 /\ c = 0 /\ d = 1
         \/ a = 0 /\ b = 1 /\ c = 0 /\ d = 1
         \/ a = 0 /\ b = 2 /\ c = 0 /\ d = 1)
        => ThreeOrFour(h) = "err"
  BY <1>1, <1>5
<1> QED BY <1>6, <1>7, <1>8, <1>9, <1>10, <1>11, <1>12, <1>13 DEF Of, a, b, c, d

\* The lowest rank of few cards: one card of it, or as many as there are.
LEMMA LowOfAlike ==
  ASSUME NEW h \in Counts, Size(h) \in Nat, Size(h) > 0
  PROVE  /\ Low(h) \in AtLeast(h, 1)
         /\ \A k \in 1..4 : AtLeast(h, 1) = Exactly(h, k) => h[Low(h)] = k
<1>1. AtLeast(h, 1) \in SUBSET Rank
  BY DEF AtLeast
<1>2. AtLeast(h, 1) # {}
  <2>1. ASSUME AtLeast(h, 1) = {} PROVE FALSE
    <3>1. /\ Exactly(h, 1) = {} /\ Exactly(h, 2) = {}
          /\ Exactly(h, 3) = {} /\ Exactly(h, 4) = {}
      BY <2>1, ByCount
    <3>2. Size(h) = 0
      BY <3>1, NoneOf, SizeByCount
    <3> QED BY <3>2
  <2> QED BY <2>1
<1>3. Low(h) \in AtLeast(h, 1)
  BY <1>1, <1>2, LeastRank DEF Low
<1> QED BY <1>3 DEF Exactly

\* Only one kind of ranks.
LEMMA OnlyOne ==
  ASSUME NEW h \in Counts
  PROVE  /\ (\E a \in Nat : Of(h, a, 0, 0, 0)) <=> AtLeast(h, 1) = Exactly(h, 1)
         /\ (\E b \in Nat : Of(h, 0, b, 0, 0)) <=> AtLeast(h, 1) = Exactly(h, 2)
         /\ (\E c \in Nat : Of(h, 0, 0, c, 0)) <=> AtLeast(h, 1) = Exactly(h, 3)
<1>1. \A k \in 1..4 : AtLeast(h, 1) = Exactly(h, k) \cup Exactly(h, k)
        <=> \A j \in 1..4 : j \notin {k, k} => Ranks(h, j) = 0
  BY OnlyOf
<1>2. \A k \in 1..4 : AtLeast(h, 1) = Exactly(h, k)
        <=> \A j \in 1..4 : j # k => Ranks(h, j) = 0
  BY <1>1
<1> QED BY <1>2, RanksAreCounts DEF Of

\* The guards of the parser, told by counts.
LEMMA FewCards ==
  ASSUME NEW h \in Counts, Size(h) \in Nat
  PROVE  /\ Size(h) = 1 <=> Of(h, 1, 0, 0, 0)
         /\ Size(h) = 2 <=> Of(h, 2, 0, 0, 0) \/ Of(h, 0, 1, 0, 0)
         /\ Size(h) = 3 <=> Of(h, 3, 0, 0, 0) \/ Of(h, 1, 1, 0, 0) \/ Of(h, 0, 0, 1, 0)
<1>2. Size(h) = Ranks(h, 1) + 2 * Ranks(h, 2) + 3 * Ranks(h, 3) + 4 * Ranks(h, 4)
  BY SizeByCount
<1>3. /\ Ranks(h, 1) \in Nat /\ Ranks(h, 2) \in Nat
      /\ Ranks(h, 3) \in Nat /\ Ranks(h, 4) \in Nat
  BY RanksAreCounts
<1>4. ASSUME Size(h) = 1 PROVE Of(h, 1, 0, 0, 0)
  <2>1. \A a, b, c, d \in Nat : a + 2 * b + 3 * c + 4 * d = 1 =>
                 \/ a = 1 /\ b = 0 /\ c = 0 /\ d = 0
    OBVIOUS
  <2>2. Ranks(h, 1) + 2 * Ranks(h, 2) + 3 * Ranks(h, 3) + 4 * Ranks(h, 4) = 1
    BY <1>2, <1>4
  <2> QED BY <1>3, <2>1, <2>2 DEF Of
<1>5. Of(h, 1, 0, 0, 0) => Size(h) = 1
  BY ONLY <1>2 DEF Of
<1>6. ASSUME Size(h) = 2 PROVE Of(h, 2, 0, 0, 0) \/ Of(h, 0, 1, 0, 0)
  <2>1. Ranks(h, 1) + 2 * Ranks(h, 2) + 3 * Ranks(h, 3) + 4 * Ranks(h, 4) = 2
    BY <1>2, <1>6
  <2> DEFINE a == Ranks(h, 1)  b == Ranks(h, 2)  c == Ranks(h, 3)  d == Ranks(h, 4)
  <2>2. a \in Nat /\ b \in Nat /\ c \in Nat /\ d \in Nat
    BY <1>3
  <2>3. a + 2 * b + 3 * c + 4 * d = 2
    BY <2>1
  <2> HIDE DEF a, b, c, d
  <2>4. (a = 2 /\ b = 0 /\ c = 0 /\ d = 0) \/ (a = 0 /\ b = 1 /\ c = 0 /\ d = 0)
    BY ONLY <2>2, <2>3
  <2> QED BY <2>4, Zenon DEF Of, a, b, c, d
<1>7. Of(h, 2, 0, 0, 0) \/ Of(h, 0, 1, 0, 0) => Size(h) = 2
  BY ONLY <1>2 DEF Of
<1>8. ASSUME Size(h) = 3 PROVE Of(h, 3, 0, 0, 0) \/ Of(h, 1, 1, 0, 0) \/ Of(h, 0, 0, 1, 0)
  <2>1. Ranks(h, 1) + 2 * Ranks(h, 2) + 3 * Ranks(h, 3) + 4 * Ranks(h, 4) = 3
    BY <1>2, <1>8
  <2> DEFINE a == Ranks(h, 1)  b == Ranks(h, 2)  c == Ranks(h, 3)  d == Ranks(h, 4)
  <2>2. a \in Nat /\ b \in Nat /\ c \in Nat /\ d \in Nat
    BY <1>3
  <2>3. a + 2 * b + 3 * c + 4 * d = 3
    BY <2>1
  <2> HIDE DEF a, b, c, d
  <2>4. \/ a = 3 /\ b = 0 /\ c = 0 /\ d = 0
        \/ a = 1 /\ b = 1 /\ c = 0 /\ d = 0
        \/ a = 0 /\ b = 0 /\ c = 1 /\ d = 0
    BY ONLY <2>2, <2>3
  <2> QED BY <2>4, Zenon DEF Of, a, b, c, d
<1>9. Of(h, 3, 0, 0, 0) \/ Of(h, 1, 1, 0, 0) \/ Of(h, 0, 0, 1, 0) => Size(h) = 3
  BY ONLY <1>2 DEF Of
<1> QED BY <1>4, <1>5, <1>6, <1>7, <1>8, <1>9

LEMMA PairGuard ==
  ASSUME NEW h \in Counts, Size(h) \in Nat
  PROVE  /\ Size(h) = 2 /\ h[Low(h)] = 2 <=> Of(h, 0, 1, 0, 0)
         /\ Size(h) = 3 /\ h[Low(h)] = 3 /\ Low(h) < LittleJoker <=> Triple(h)
<1>1. Of(h, 0, 1, 0, 0) => Size(h) = 2 /\ h[Low(h)] = 2
  BY FewCards, OnlyOne, LowOfAlike
<1>2. Of(h, 2, 0, 0, 0) => Size(h) = 2 /\ h[Low(h)] = 1
  BY FewCards, OnlyOne, LowOfAlike
<1>3. Of(h, 0, 0, 1, 0) => Size(h) = 3 /\ h[Low(h)] = 3
  BY FewCards, OnlyOne, LowOfAlike
<1>4. Of(h, 3, 0, 0, 0) => h[Low(h)] = 1
  BY FewCards, OnlyOne, LowOfAlike
<1>5. ASSUME Of(h, 1, 1, 0, 0) PROVE h[Low(h)] # 3
  <2>1. Exactly(h, 3) = {} /\ Size(h) = 3
    BY <1>5, NoneOf, FewCards DEF Of
  <2>2. Low(h) \in AtLeast(h, 1)
    BY <2>1, LowOfAlike
  <2> QED BY <2>1, <2>2 DEF AtLeast, Exactly
<1> QED BY <1>1, <1>2, <1>3, <1>4, <1>5, FewCards DEF Triple

LEMMA JokerGuard ==
  ASSUME NEW h \in Counts, Size(h) \in Nat
  PROVE  Size(h) = 2 /\ h[LittleJoker] = 1 /\ h[BigJoker] = 1
           <=> Of(h, 2, 0, 0, 0) /\ Exactly(h, 1) = {LittleJoker, BigJoker}
<1>1. LittleJoker \in Rank /\ BigJoker \in Rank /\ LittleJoker # BigJoker
  BY PokerAssumption DEF Rank, LittleJoker, BigJoker
<1>2. ASSUME Size(h) = 2, h[LittleJoker] = 1, h[BigJoker] = 1
      PROVE  Of(h, 2, 0, 0, 0) /\ Exactly(h, 1) = {LittleJoker, BigJoker}
  <2> DEFINE J == {LittleJoker, BigJoker}
  <2>1. J \subseteq Exactly(h, 1)
    BY <1>1, <1>2 DEF Exactly
  <2>2. Cardinality(J) = 2
    <3>1. IsFiniteSet({LittleJoker}) /\ Cardinality({LittleJoker}) = 1
      BY FS_Singleton
    <3>2. J = {LittleJoker} \cup {BigJoker} /\ BigJoker \notin {LittleJoker}
      BY <1>1
    <3> HIDE DEF J
    <3>3. Cardinality({LittleJoker} \cup {BigJoker})
            = IF BigJoker \in {LittleJoker} THEN Cardinality({LittleJoker})
              ELSE Cardinality({LittleJoker}) + 1
      BY <3>1, FS_AddElement, Zenon
    <3>4. Cardinality({LittleJoker} \cup {BigJoker}) = 1 + 1
      BY <3>1, <3>2, <3>3, Zenon
    <3>5. 1 + 1 = 2
      OBVIOUS
    <3> QED BY <3>2, <3>4, <3>5, Zenon
  <2>3. Exactly(h, 1) \in SUBSET Rank
    BY DEF Exactly
  <2>4. IsFiniteSet(Exactly(h, 1)) /\ Cardinality(Exactly(h, 1)) \in Nat
    BY <2>3, SubsetsOfRank
  <2> HIDE DEF J
  <2>5. /\ Cardinality(J) <= Cardinality(Exactly(h, 1))
        /\ Cardinality(Exactly(h, 1)) = Cardinality(J) => Exactly(h, 1) = J
    BY <2>1, <2>4, FS_Subset
  <2>6. Ranks(h, 1) >= 2
    BY <2>2, <2>4, <2>5 DEF Ranks
  <2>7. Of(h, 2, 0, 0, 0)
    BY <1>2, <2>6, FewCards DEF Of
  <2> QED BY <2>2, <2>5, <2>7 DEF Of, Ranks, J
<1>3. ASSUME Of(h, 2, 0, 0, 0), Exactly(h, 1) = {LittleJoker, BigJoker}
      PROVE  Size(h) = 2 /\ h[LittleJoker] = 1 /\ h[BigJoker] = 1
  <2>1. LittleJoker \in Exactly(h, 1) /\ BigJoker \in Exactly(h, 1)
    BY <1>3
  <2> QED BY <1>3, <2>1, FewCards DEF Exactly
<1> QED BY <1>2, <1>3

LEMMA ChainGuard ==
  ASSUME NEW h \in Counts, Size(h) \in Nat
  PROVE  /\ Size(h) >= 5 /\ IsChain(h, 1) <=> RunOf(h, 1, 5) /\ Of(h, Ranks(h, 1), 0, 0, 0)
         /\ Size(h) >= 6 /\ IsChain(h, 2) <=> RunOf(h, 2, 3) /\ Of(h, 0, Ranks(h, 2), 0, 0)
<1>1. ASSUME NEW k \in 1..2
      PROVE  /\ Exactly(h, k) \in SUBSET Rank
             /\ IsChain(h, k) <=> AtLeast(h, 1) = Exactly(h, k) /\ Run(Exactly(h, k))
             /\ Exactly(h, k) # {} =>
                  (Run(Exactly(h, k)) <=> Exactly(h, k) \in Runs(Ranks(h, k)))
             /\ Exactly(h, k) = {} <=> Ranks(h, k) = 0
  <2>1. Exactly(h, k) \in SUBSET Rank
    BY DEF Exactly
  <2>2. IsChain(h, k) <=> AtLeast(h, 1) = Exactly(h, k) /\ Run(Exactly(h, k))
    BY DEF IsChain
  <2>3. Exactly(h, k) # {} => (Run(Exactly(h, k)) <=> Exactly(h, k) \in Runs(Ranks(h, k)))
    BY <2>1, RunsAreIntervals DEF Ranks
  <2> QED BY <2>1, <2>2, <2>3, NoneOf
<1>2. /\ AtLeast(h, 1) = Exactly(h, 1) <=> Of(h, Ranks(h, 1), 0, 0, 0)
      /\ AtLeast(h, 1) = Exactly(h, 2) <=> Of(h, 0, Ranks(h, 2), 0, 0)
  BY OnlyOne, RanksAreCounts DEF Of
<1>3. /\ Of(h, Ranks(h, 1), 0, 0, 0) => Size(h) = Ranks(h, 1)
      /\ Of(h, 0, Ranks(h, 2), 0, 0) => Size(h) = 2 * Ranks(h, 2)
  <2>1. Size(h) = Ranks(h, 1) + 2 * Ranks(h, 2) + 3 * Ranks(h, 3) + 4 * Ranks(h, 4)
    BY SizeByCount
  <2>2. Ranks(h, 1) \in Nat /\ Ranks(h, 2) \in Nat
    BY RanksAreCounts
  <2> QED BY <2>1, <2>2 DEF Of
<1>4. Size(h) >= 5 /\ IsChain(h, 1) <=> RunOf(h, 1, 5) /\ Of(h, Ranks(h, 1), 0, 0, 0)
  BY <1>1, <1>2, <1>3 DEF RunOf
<1>5. Size(h) >= 6 /\ IsChain(h, 2) <=> RunOf(h, 2, 3) /\ Of(h, 0, Ranks(h, 2), 0, 0)
  <2>1. Ranks(h, 2) \in Nat
    BY RanksAreCounts
  <2> QED BY <1>1, <1>2, <1>3, <2>1 DEF RunOf
<1> QED BY <1>4, <1>5

IsTriples(h) ==
  /\ RunOf(h, 3, 2)
  /\ \/ Of(h, 0, 0, Ranks(h, 3), 0)
     \/ Of(h, Ranks(h, 3), 0, Ranks(h, 3), 0)
     \/ Of(h, 0, Ranks(h, 3), Ranks(h, 3), 0)
IsThreeOrFour(h) ==
  \/ Of(h, 1, 0, 1, 0) \/ Of(h, 0, 1, 1, 0) \/ Of(h, 0, 0, 0, 1)
  \/ Of(h, 2, 0, 0, 1) \/ Of(h, 0, 1, 0, 1) \/ Of(h, 0, 2, 0, 1)

LEMMA ThreeChainGuard ==
  ASSUME NEW h \in Counts, Size(h) \in Nat
  PROVE  Size(h) \notin {7} /\ Size(h) >= 6 /\ IsThreeChain(h)
           <=> IsTriples(h)
<1>1. Exactly(h, 3) \in SUBSET Rank
  BY DEF Exactly
<1>2. Exactly(h, 3) # {} => (Run(Exactly(h, 3)) <=> Exactly(h, 3) \in Runs(Ranks(h, 3)))
  BY <1>1, RunsAreIntervals DEF Ranks
<1>3. /\ Exactly(h, 4) = {} <=> Ranks(h, 4) = 0
      /\ Alike(h) <=> Ranks(h, 1) = 0 \/ Ranks(h, 2) = 0
      /\ Cardinality(Exactly(h, 3)) = Ranks(h, 3)
      /\ Exactly(h, 3) = {} <=> Ranks(h, 3) = 0
      /\ Cardinality(Wings(h)) = Ranks(h, 1) + Ranks(h, 2)
  BY NoneOf, SizeByCount DEF Alike, Ranks
<1>4. IsThreeChain(h) <=>
        /\ Ranks(h, 4) = 0 /\ (Ranks(h, 1) = 0 \/ Ranks(h, 2) = 0)
        /\ Ranks(h, 3) > 1 /\ Exactly(h, 3) \in Runs(Ranks(h, 3))
        /\ Ranks(h, 1) + Ranks(h, 2) \in {0, Ranks(h, 3)}
  BY <1>2, <1>3, RanksAreCounts DEF IsThreeChain
<1>5. \A a, b, c, d \in Nat :
        /\ d = 0 /\ (a = 0 \/ b = 0) /\ c > 1 /\ a + b \in {0, c}
             <=> /\ c >= 2 /\ d = 0
                 /\ (a = 0 /\ b = 0) \/ (a = c /\ b = 0) \/ (a = 0 /\ b = c)
        /\ c >= 2 /\ d = 0 /\ ((a = 0 /\ b = 0) \/ (a = c /\ b = 0) \/ (a = 0 /\ b = c))
             => /\ a + 2 * b + 3 * c + 4 * d >= 6
                /\ a + 2 * b + 3 * c + 4 * d # 7
  OBVIOUS
<1>6. Size(h) = Ranks(h, 1) + 2 * Ranks(h, 2) + 3 * Ranks(h, 3) + 4 * Ranks(h, 4)
  BY SizeByCount
<1>7. IsThreeChain(h) <=> IsTriples(h)
  BY <1>4, <1>5, RanksAreCounts DEF Of, RunOf, IsTriples
<1>8. IsThreeChain(h) => Size(h) >= 6 /\ Size(h) # 7
  <2> SUFFICES ASSUME IsThreeChain(h) PROVE Size(h) >= 6 /\ Size(h) # 7
    OBVIOUS
  <2>1. /\ Ranks(h, 3) >= 2 /\ Ranks(h, 4) = 0
        /\ \/ Ranks(h, 1) = 0 /\ Ranks(h, 2) = 0
           \/ Ranks(h, 1) = Ranks(h, 3) /\ Ranks(h, 2) = 0
           \/ Ranks(h, 1) = 0 /\ Ranks(h, 2) = Ranks(h, 3)
    BY <1>7 DEF Of, RunOf, IsTriples
  <2>2. /\ Ranks(h, 1) \in Nat /\ Ranks(h, 2) \in Nat
        /\ Ranks(h, 3) \in Nat /\ Ranks(h, 4) \in Nat
    BY RanksAreCounts
  <2>3. \A a, b, c, d \in Nat :
          /\ c >= 2 /\ d = 0
          /\ (a = 0 /\ b = 0) \/ (a = c /\ b = 0) \/ (a = 0 /\ b = c)
          => LET n == a + 2 * b + 3 * c + 4 * d IN n >= 6 /\ n # 7
    OBVIOUS
  <2> QED BY ONLY <1>6, <2>1, <2>2, <2>3
<1> QED BY <1>7, <1>8


LEMMA WingGuard ==
  ASSUME NEW h \in Counts, Size(h) \in Nat
  PROVE  Size(h) \in {4, 5, 6, 8} /\ ThreeOrFour(h) # "err"
           <=> IsThreeOrFour(h)
<1>1. Size(h) = Ranks(h, 1) + 2 * Ranks(h, 2) + 3 * Ranks(h, 3) + 4 * Ranks(h, 4)
  BY SizeByCount
<1>2. /\ Of(h, 1, 0, 1, 0) => Size(h) = 4
      /\ Of(h, 0, 1, 1, 0) => Size(h) = 5
      /\ Of(h, 0, 0, 0, 1) => Size(h) = 4
      /\ Of(h, 2, 0, 0, 1) => Size(h) = 6
      /\ Of(h, 0, 1, 0, 1) => Size(h) = 6
      /\ Of(h, 0, 2, 0, 1) => Size(h) = 8
      /\ Of(h, 0, 0, 1, 0) => Size(h) = 3
  BY ONLY <1>1 DEF Of
<1> QED BY <1>2, ThreeOrFourByCount DEF IsThreeOrFour

\* The parser by the counts: which guard holds, and that the others do not.
LEMMA ParseByGuard ==
  ASSUME NEW h \in Counts, Size(h) \in 1..19
  PROVE  /\ (Of(h, 1, 0, 0, 0))
              => Parse(h) = Info("single", Low(h), 1)
         /\ (Of(h, 0, 1, 0, 0))
              => Parse(h) = Info("double", Low(h), 2)
         /\ (Of(h, 2, 0, 0, 0) /\ Exactly(h, 1) = {LittleJoker, BigJoker})
              => Parse(h) = Info("double_joker", Low(h), 2)
         /\ (Triple(h))
              => Parse(h) = Info("three", Low(h), 3)
         /\ (RunOf(h, 1, 5) /\ Of(h, Ranks(h, 1), 0, 0, 0))
              => Parse(h) = Info("single_chain", Low(h), Size(h))
         /\ (RunOf(h, 2, 3) /\ Of(h, 0, Ranks(h, 2), 0, 0))
              => Parse(h) = Info("double_chain", Low(h), Size(h))
         /\ (IsTriples(h))
              => Parse(h) = Info(ThreeChain(h), Main(h), Size(h))
         /\ (IsThreeOrFour(h))
              => Parse(h) = Info(ThreeOrFour(h), Main(h), Size(h))
         /\ ~((Of(h, 1, 0, 0, 0))
              \/ (Of(h, 0, 1, 0, 0))
              \/ (Of(h, 2, 0, 0, 0) /\ Exactly(h, 1) = {LittleJoker, BigJoker})
              \/ (Triple(h))
              \/ (RunOf(h, 1, 5) /\ Of(h, Ranks(h, 1), 0, 0, 0))
              \/ (RunOf(h, 2, 3) /\ Of(h, 0, Ranks(h, 2), 0, 0))
              \/ (IsTriples(h))
              \/ (IsThreeOrFour(h)))
              => Parse(h) = Err
<1> DEFINE G1 == Size(h) = 1
           G2 == Size(h) = 2 /\ h[Low(h)] = 2
           G3 == Size(h) = 2 /\ h[LittleJoker] = 1 /\ h[BigJoker] = 1
           G4 == Size(h) = 3 /\ h[Low(h)] = 3 /\ Low(h) < LittleJoker
           G5 == Size(h) >= 5 /\ IsChain(h, 1)
           G6 == Size(h) >= 6 /\ IsChain(h, 2)
           G7 == Size(h) \notin {7} /\ Size(h) >= 6 /\ IsThreeChain(h)
           G8 == Size(h) \in {4, 5, 6, 8} /\ ThreeOrFour(h) # "err"
<1>1. Parse(h) = CASE G1 -> Info("single", Low(h), 1)
                 [] G2 -> Info("double", Low(h), 2)
                 [] G3 -> Info("double_joker", Low(h), 2)
                 [] G4 -> Info("three", Low(h), 3)
                 [] G5 -> Info("single_chain", Low(h), Size(h))
                 [] G6 -> Info("double_chain", Low(h), Size(h))
                 [] G7 -> Info(ThreeChain(h), Main(h), Size(h))
                 [] G8 -> Info(ThreeOrFour(h), Main(h), Size(h))
                 [] OTHER -> Err
  BY DEF Parse, Low, Main
<1>2. Size(h) \in Nat
  OBVIOUS
<1>3. G1 <=> (Of(h, 1, 0, 0, 0))
  BY <1>2, FewCards
<1>4. G2 <=> (Of(h, 0, 1, 0, 0))
  BY <1>2, PairGuard
<1>5. G3 <=> (Of(h, 2, 0, 0, 0) /\ Exactly(h, 1) = {LittleJoker, BigJoker})
  BY <1>2, JokerGuard
<1>6. G4 <=> (Triple(h))
  BY <1>2, PairGuard
<1>7. G5 <=> (RunOf(h, 1, 5) /\ Of(h, Ranks(h, 1), 0, 0, 0))
  BY <1>2, ChainGuard
<1>8. G6 <=> (RunOf(h, 2, 3) /\ Of(h, 0, Ranks(h, 2), 0, 0))
  BY <1>2, ChainGuard
<1>9. G7 <=> (IsTriples(h))
  BY <1>2, ThreeChainGuard
<1>10. G8 <=> (IsThreeOrFour(h))
  BY <1>2, WingGuard
<1> HIDE DEF G1, G2, G3, G4, G5, G6, G7, G8
<1>11. G1 => ~G2 /\ ~G3 /\ ~G4 /\ ~G5 /\ ~G6 /\ ~G7 /\ ~G8
  BY <1>3, <1>4, <1>5, <1>6, <1>7, <1>8, <1>9, <1>10 DEF Of, RunOf, Triple, IsTriples, IsThreeOrFour
<1>12. G2 => ~G1 /\ ~G3 /\ ~G4 /\ ~G5 /\ ~G6 /\ ~G7 /\ ~G8
  BY <1>3, <1>4, <1>5, <1>6, <1>7, <1>8, <1>9, <1>10 DEF Of, RunOf, Triple, IsTriples, IsThreeOrFour
<1>13. G3 => ~G1 /\ ~G2 /\ ~G4 /\ ~G5 /\ ~G6 /\ ~G7 /\ ~G8
  BY <1>3, <1>4, <1>5, <1>6, <1>7, <1>8, <1>9, <1>10 DEF Of, RunOf, Triple, IsTriples, IsThreeOrFour
<1>14. G4 => ~G1 /\ ~G2 /\ ~G3 /\ ~G5 /\ ~G6 /\ ~G7 /\ ~G8
  BY <1>3, <1>4, <1>5, <1>6, <1>7, <1>8, <1>9, <1>10 DEF Of, RunOf, Triple, IsTriples, IsThreeOrFour
<1>15. G5 => ~G1 /\ ~G2 /\ ~G3 /\ ~G4 /\ ~G6 /\ ~G7 /\ ~G8
  BY <1>3, <1>4, <1>5, <1>6, <1>7, <1>8, <1>9, <1>10 DEF Of, RunOf, Triple, IsTriples, IsThreeOrFour
<1>16. G6 => ~G1 /\ ~G2 /\ ~G3 /\ ~G4 /\ ~G5 /\ ~G7 /\ ~G8
  BY <1>3, <1>4, <1>5, <1>6, <1>7, <1>8, <1>9, <1>10 DEF Of, RunOf, Triple, IsTriples, IsThreeOrFour
<1>17. G7 => ~G1 /\ ~G2 /\ ~G3 /\ ~G4 /\ ~G5 /\ ~G6 /\ ~G8
  BY <1>3, <1>4, <1>5, <1>6, <1>7, <1>8, <1>9, <1>10 DEF Of, RunOf, Triple, IsTriples, IsThreeOrFour
<1>18. G8 => ~G1 /\ ~G2 /\ ~G3 /\ ~G4 /\ ~G5 /\ ~G6 /\ ~G7
  BY <1>3, <1>4, <1>5, <1>6, <1>7, <1>8, <1>9, <1>10 DEF Of, RunOf, Triple, IsTriples, IsThreeOrFour
<1>19. G1 => Parse(h) = Info("single", Low(h), 1)
  BY <1>1, <1>11
<1>20. G2 => Parse(h) = Info("double", Low(h), 2)
  BY <1>1, <1>12
<1>21. G3 => Parse(h) = Info("double_joker", Low(h), 2)
  BY <1>1, <1>13
<1>22. G4 => Parse(h) = Info("three", Low(h), 3)
  BY <1>1, <1>14
<1>23. G5 => Parse(h) = Info("single_chain", Low(h), Size(h))
  BY <1>1, <1>15
<1>24. G6 => Parse(h) = Info("double_chain", Low(h), Size(h))
  BY <1>1, <1>16
<1>25. G7 => Parse(h) = Info(ThreeChain(h), Main(h), Size(h))
  BY <1>1, <1>17
<1>26. G8 => Parse(h) = Info(ThreeOrFour(h), Main(h), Size(h))
  BY <1>1, <1>18
<1>27. ~G1 /\ ~G2 /\ ~G3 /\ ~G4 /\ ~G5 /\ ~G6 /\ ~G7 /\ ~G8 => Parse(h) = Err
  BY <1>1
<1> QED BY <1>3, <1>4, <1>5, <1>6, <1>7, <1>8, <1>9, <1>10, <1>19, <1>20, <1>21, <1>22,
           <1>23, <1>24, <1>25, <1>26, <1>27, Zenon

LEMMA ThreeChainByCount ==
  ASSUME NEW h \in Counts, RunOf(h, 3, 2)
  PROVE  /\ Of(h, 0, 0, Ranks(h, 3), 0) => ThreeChain(h) = "three_chain"
         /\ Of(h, Ranks(h, 3), 0, Ranks(h, 3), 0) => ThreeChain(h) = "three_chain_single"
         /\ Of(h, 0, Ranks(h, 3), Ranks(h, 3), 0) => ThreeChain(h) = "three_chain_double"
<1>1. /\ Exactly(h, 1) = {} <=> Ranks(h, 1) = 0
      /\ Exactly(h, 2) = {} <=> Ranks(h, 2) = 0
      /\ Wings(h) = {} <=> Exactly(h, 1) = {} /\ Exactly(h, 2) = {}
      /\ Ranks(h, 3) # 0
  BY NoneOf DEF Wings, RunOf
<1>2. ThreeChain(h) =
        CASE Exactly(h, 1) = {} /\ Exactly(h, 2) = {} -> "three_chain"
          [] Exactly(h, 1) # {} -> "three_chain_single"
          [] Exactly(h, 2) # {} -> "three_chain_double"
  BY <1>1 DEF ThreeChain
<1> QED BY <1>1, <1>2 DEF Of

\* The rank that a play is compared by.
ValueOf(h, t) ==
  IF t \in {"single", "double", "three", "double_joker", "single_chain", "double_chain"}
  THEN Low(h) ELSE Main(h)

\* The parser finds the type of every play, and its value and its length.
LEMMA ParsesPlays ==
  ASSUME NEW h \in Counts, NEW t \in Type, Size(h) < 20, IsPlay(h, t)
  PROVE  Parse(h) = Info(t, ValueOf(h, t), Size(h)) /\ Size(h) \in 1..19
<1>1. Size(h) \in 1..19
  <2>1. Size(h) = Ranks(h, 1) + 2 * Ranks(h, 2) + 3 * Ranks(h, 3) + 4 * Ranks(h, 4)
    BY SizeByCount
  <2>2. \A a, b, c, d \in Nat : a + 2 * b + 3 * c + 4 * d < 20
          /\ (a >= 1 \/ b >= 1 \/ c >= 1 \/ d >= 1) => a + 2 * b + 3 * c + 4 * d \in 1..19
    OBVIOUS
  <2>3. Ranks(h, 1) >= 1 \/ Ranks(h, 2) >= 1 \/ Ranks(h, 3) >= 1 \/ Ranks(h, 4) >= 1
    BY RanksAreCounts DEF IsPlay, Of, RunOf, Triple
  <2> QED BY <2>1, <2>2, <2>3, RanksAreCounts
<1>2. Size(h) \in Nat
  BY <1>1
<1>3. CASE t = "single"
  <2>1. Of(h, 1, 0, 0, 0)
    BY <1>3 DEF IsPlay
  <2>2. Size(h) = 1
    BY <1>2, <2>1, FewCards
  <2>3. Parse(h) = Info(t, Low(h), 1)
    BY <1>1, <1>3, <2>1, ParseByGuard
  <2> QED BY <1>1, <1>3, <2>2, <2>3 DEF ValueOf
<1>4. CASE t = "double"
  <2>1. Of(h, 0, 1, 0, 0)
    BY <1>4 DEF IsPlay
  <2>2. Size(h) = 2
    BY <1>2, <2>1, FewCards
  <2>3. Parse(h) = Info(t, Low(h), 2)
    BY <1>1, <1>4, <2>1, ParseByGuard
  <2> QED BY <1>1, <1>4, <2>2, <2>3 DEF ValueOf
<1>5. CASE t = "three"
  <2>1. Triple(h)
    BY <1>5 DEF IsPlay
  <2>2. Size(h) = 3
    BY <1>2, <2>1, FewCards DEF Triple
  <2>3. Parse(h) = Info(t, Low(h), 3)
    BY <1>1, <1>5, <2>1, ParseByGuard
  <2> QED BY <1>1, <1>5, <2>2, <2>3 DEF ValueOf
<1>6. CASE t = "bomb"
  <2>1. IsThreeOrFour(h) /\ ThreeOrFour(h) = "bomb"
    BY <1>6, ThreeOrFourByCount DEF IsPlay, IsThreeOrFour
  <2>2. Parse(h) = Info(ThreeOrFour(h), Main(h), Size(h))
    BY <1>1, <2>1, ParseByGuard
  <2> QED BY <1>1, <1>6, <2>1, <2>2 DEF ValueOf
<1>7. CASE t = "three_one"
  <2>1. IsThreeOrFour(h) /\ ThreeOrFour(h) = "three_one"
    BY <1>7, ThreeOrFourByCount DEF IsPlay, IsThreeOrFour
  <2>2. Parse(h) = Info(ThreeOrFour(h), Main(h), Size(h))
    BY <1>1, <2>1, ParseByGuard
  <2> QED BY <1>1, <1>7, <2>1, <2>2 DEF ValueOf
<1>8. CASE t = "three_double"
  <2>1. IsThreeOrFour(h) /\ ThreeOrFour(h) = "three_double"
    BY <1>8, ThreeOrFourByCount DEF IsPlay, IsThreeOrFour
  <2>2. Parse(h) = Info(ThreeOrFour(h), Main(h), Size(h))
    BY <1>1, <2>1, ParseByGuard
  <2> QED BY <1>1, <1>8, <2>1, <2>2 DEF ValueOf
<1>9. CASE t = "four_two_single"
  <2>1. IsThreeOrFour(h) /\ ThreeOrFour(h) = "four_two_single"
    BY <1>9, ThreeOrFourByCount DEF IsPlay, IsThreeOrFour
  <2>2. Parse(h) = Info(ThreeOrFour(h), Main(h), Size(h))
    BY <1>1, <2>1, ParseByGuard
  <2> QED BY <1>1, <1>9, <2>1, <2>2 DEF ValueOf
<1>10. CASE t = "four_two_double"
  <2>1. IsThreeOrFour(h) /\ ThreeOrFour(h) = "four_two_double"
    BY <1>10, ThreeOrFourByCount DEF IsPlay, IsThreeOrFour
  <2>2. Parse(h) = Info(ThreeOrFour(h), Main(h), Size(h))
    BY <1>1, <2>1, ParseByGuard
  <2> QED BY <1>1, <1>10, <2>1, <2>2 DEF ValueOf
<1>11. CASE t = "single_chain"
  <2>1. RunOf(h, 1, 5) /\ Of(h, Ranks(h, 1), 0, 0, 0)
    BY <1>11 DEF IsPlay
  <2> QED BY <1>1, <1>11, <2>1, ParseByGuard DEF ValueOf
<1>12. CASE t = "double_chain"
  <2>1. RunOf(h, 2, 3) /\ Of(h, 0, Ranks(h, 2), 0, 0)
    BY <1>12 DEF IsPlay
  <2> QED BY <1>1, <1>12, <2>1, ParseByGuard DEF ValueOf
<1>13. CASE t = "three_chain"
  <2>1. RunOf(h, 3, 2) /\ Of(h, 0, 0, Ranks(h, 3), 0)
    BY <1>13 DEF IsPlay
  <2>2. ThreeChain(h) = "three_chain"
    BY <2>1, ThreeChainByCount
  <2>3. Parse(h) = Info(ThreeChain(h), Main(h), Size(h))
    BY <1>1, <2>1, ParseByGuard DEF IsTriples
  <2> QED BY <1>1, <1>13, <2>2, <2>3 DEF ValueOf
<1>14. CASE t = "three_chain_single"
  <2>1. RunOf(h, 3, 2) /\ Of(h, Ranks(h, 3), 0, Ranks(h, 3), 0)
    BY <1>14 DEF IsPlay
  <2>2. ThreeChain(h) = "three_chain_single"
    BY <2>1, ThreeChainByCount
  <2>3. Parse(h) = Info(ThreeChain(h), Main(h), Size(h))
    BY <1>1, <2>1, ParseByGuard DEF IsTriples
  <2> QED BY <1>1, <1>14, <2>2, <2>3 DEF ValueOf
<1>15. CASE t = "three_chain_double"
  <2>1. RunOf(h, 3, 2) /\ Of(h, 0, Ranks(h, 3), Ranks(h, 3), 0)
    BY <1>15 DEF IsPlay
  <2>2. ThreeChain(h) = "three_chain_double"
    BY <2>1, ThreeChainByCount
  <2>3. Parse(h) = Info(ThreeChain(h), Main(h), Size(h))
    BY <1>1, <2>1, ParseByGuard DEF IsTriples
  <2> QED BY <1>1, <1>15, <2>2, <2>3 DEF ValueOf
<1>16. CASE t = "double_joker"
  <2>1. Of(h, 2, 0, 0, 0) /\ Exactly(h, 1) = {LittleJoker, BigJoker}
    BY <1>16 DEF IsPlay
  <2>2. Size(h) = 2
    BY <1>2, <2>1, FewCards
  <2>3. Parse(h) = Info(t, Low(h), 2)
    BY <1>1, <1>16, <2>1, ParseByGuard
  <2> QED BY <1>1, <1>16, <2>2, <2>3 DEF ValueOf
<1> QED BY <1>3, <1>4, <1>5, <1>6, <1>7, <1>8, <1>9, <1>10, <1>11, <1>12, <1>13, <1>14,
           <1>15, <1>16 DEF Type

\* What is no play is none for the parser.
LEMMA ParsesNothingElse ==
  ASSUME NEW h \in Counts, \A t \in Type : ~(Size(h) < 20 /\ IsPlay(h, t))
  PROVE  Parse(h) = Err
<1>1. CASE Size(h) \notin 1..19
  BY <1>1, Zenon DEF Parse
<1>2. CASE Size(h) \in 1..19
  <2>1. \A t \in Type : ~IsPlay(h, t)
    BY <1>2
  <2>2. ~IsPlay(h, "single")
    BY <2>1 DEF Type
  <2>3. ~IsPlay(h, "double")
    BY <2>1 DEF Type
  <2>4. ~IsPlay(h, "three")
    BY <2>1 DEF Type
  <2>5. ~IsPlay(h, "bomb")
    BY <2>1 DEF Type
  <2>6. ~IsPlay(h, "three_one")
    BY <2>1 DEF Type
  <2>7. ~IsPlay(h, "three_double")
    BY <2>1 DEF Type
  <2>8. ~IsPlay(h, "four_two_single")
    BY <2>1 DEF Type
  <2>9. ~IsPlay(h, "four_two_double")
    BY <2>1 DEF Type
  <2>10. ~IsPlay(h, "single_chain")
    BY <2>1 DEF Type
  <2>11. ~IsPlay(h, "double_chain")
    BY <2>1 DEF Type
  <2>12. ~IsPlay(h, "three_chain")
    BY <2>1 DEF Type
  <2>13. ~IsPlay(h, "three_chain_single")
    BY <2>1 DEF Type
  <2>14. ~IsPlay(h, "three_chain_double")
    BY <2>1 DEF Type
  <2>15. ~IsPlay(h, "double_joker")
    BY <2>1 DEF Type
  <2>16. /\ ~(Of(h, 1, 0, 0, 0))
        /\ ~(Of(h, 0, 1, 0, 0))
        /\ ~(Of(h, 2, 0, 0, 0) /\ Exactly(h, 1) = {LittleJoker, BigJoker})
        /\ ~Triple(h)
        /\ ~(RunOf(h, 1, 5) /\ Of(h, Ranks(h, 1), 0, 0, 0))
        /\ ~(RunOf(h, 2, 3) /\ Of(h, 0, Ranks(h, 2), 0, 0))
        /\ ~(IsTriples(h))
        /\ ~(IsThreeOrFour(h))
    BY <2>2, <2>3, <2>4, <2>5, <2>6, <2>7, <2>8, <2>9, <2>10, <2>11, <2>12, <2>13,
       <2>14, <2>15 DEF IsPlay, IsTriples, IsThreeOrFour
  <2> QED BY <1>2, <2>16, ParseByGuard
<1> QED BY <1>1, <1>2

\* The parser knows the plays of the rules, and no others, for every hand of every
\* deck.
LEMMA ParserIsRight ==
  ASSUME NEW h \in Hand, NEW t \in Type
  PROVE  Parse(h).type = t <=> h \in Shape(t)
<1>1. \A s \in Type : h \in Shape(s) <=> Size(h) < 20 /\ IsPlay(h, s)
  BY ShapeByCount
<1>2. \A s \in Type : h \in Shape(s) => Parse(h).type = s
  <2>1. \A s \in Type : h \in Shape(s) => Parse(h) = Info(s, ValueOf(h, s), Size(h))
    BY <1>1, ParsesPlays, BagsAreBags
  <2> QED BY <2>1 DEF Info
<1>3. (\A s \in Type : h \notin Shape(s)) => Parse(h).type = "err"
  <2>1. (\A s \in Type : h \notin Shape(s)) => Parse(h) = Err
    BY <1>1, ParsesNothingElse, BagsAreBags
  <2> QED BY <2>1 DEF Err, Info
<1>4. "err" \notin Type
  BY DEF Type
<1> QED BY <1>2, <1>3, <1>4

\* The parser knows the plays of the rules and nothing else, whatever hand the
\* landlord opens the game with, for every deck.
THEOREM ParserKnowsThePlays == Spec => []ParserKnowsPlays
<1>1. LeadInv => ParserKnowsPlays
  <2> SUFFICES ASSUME LeadInv, running, NEW t \in Type
               PROVE  Parse(hand[Lord]).type = t <=> hand[Lord] \in Shapes[t]
    BY DEF ParserKnowsPlays, Opening
  <2>1. hand[Lord] \in Hand
    BY DEF LeadInv, Pos, Lord
  <2>2. Shapes[t] = Shape(t)
    BY DEF Shapes
  <2> QED BY <2>1, <2>2, ParserIsRight
<1>2. LeadInv /\ [Next]_vars => LeadInv'
  BY LeadInvStep
<1>3. Init => LeadInv
  BY LeadInvInit
<1> QED BY <1>1, <1>2, <1>3, PTL DEF Spec

--------------------------------------------------------------------------
(* What the finder finds *)

\* The ranks of a hand in the order of the archive are told apart by how many
\* come before each, so that the first n are n, if there are as many.
LEMMA FirstOnes ==
  ASSUME NEW h \in Hand, NEW S \in SUBSET Rank, NEW n \in Nat
  PROVE  /\ First(h, S, n) \in SUBSET S
         /\ Cardinality(First(h, S, n)) = IF n <= Cardinality(S) THEN n ELSE Cardinality(S)
<1> DEFINE Prior(r) == {s \in S : Before(h, s, r)}
           m == Cardinality(S)
           f == [r \in S |-> Cardinality(Prior(r))]
<1>1. IsFiniteSet(S) /\ m \in Nat
  BY SubsetsOfRank
<1>2. \A r \in S : r \in Int /\ h[r] \in Int
  BY RanksAreFinite, HandsAreBags, BagsAreBags
<1>3. \A r, s, q \in S : /\ ~Before(h, r, r)
                         /\ Before(h, r, s) /\ Before(h, s, q) => Before(h, r, q)
                         /\ r # s => Before(h, r, s) \/ Before(h, s, r)
  BY <1>2 DEF Before
<1>4. \A r \in S : IsFiniteSet(Prior(r)) /\ Cardinality(Prior(r)) \in 0..(m - 1)
  <2> SUFFICES ASSUME NEW r \in S
               PROVE  IsFiniteSet(Prior(r)) /\ Cardinality(Prior(r)) \in 0..(m - 1)
    OBVIOUS
  <2>1. Prior(r) \in SUBSET (S \ {r})
    BY <1>3
  <2>2. IsFiniteSet(S \ {r}) /\ Cardinality(S \ {r}) = m - 1
    BY <1>1, FS_RemoveElement
  <2> HIDE DEF Prior, m
  <2>3. IsFiniteSet(Prior(r)) /\ Cardinality(Prior(r)) <= m - 1
    BY <2>1, <2>2, FS_Subset
  <2>4. Cardinality(Prior(r)) \in Nat
    BY <2>3, FS_CardinalityType
  <2> QED BY <1>1, <2>3, <2>4
<1>5. ASSUME NEW r \in S, NEW s \in S, Before(h, r, s)
      PROVE  Cardinality(Prior(r)) # Cardinality(Prior(s))
  <2>1. Prior(r) \in SUBSET Prior(s) /\ r \in Prior(s) /\ r \notin Prior(r)
    BY <1>3, <1>5
  <2> HIDE DEF Prior
  <2>2. IsFiniteSet(Prior(s))
    BY <1>4
  <2>3. Cardinality(Prior(s)) = Cardinality(Prior(r)) => Prior(s) = Prior(r)
    BY <2>1, <2>2, FS_Subset
  <2> QED BY <2>1, <2>3
<1>6. \A r, s \in S : f[r] = f[s] => r = s
  <2> HIDE DEF Prior
  <2> QED BY <1>3, <1>5
<1>7. f \in [S -> 0..(m - 1)]
  <2> HIDE DEF Prior, m
  <2> QED BY <1>4
<1>8. IsFiniteSet(0..(m - 1)) /\ Cardinality(0..(m - 1)) = m
  <2>1. 0 \in Int /\ m - 1 \in Int
    BY <1>1
  <2>2. IsFiniteSet(0..(m - 1)) /\ Cardinality(0..(m - 1)) = IF 0 > m - 1 THEN 0 ELSE m - 1 - 0 + 1
    <3> HIDE DEF m
    <3> QED BY <2>1, FS_Interval
  <2> HIDE DEF m
  <2> QED BY <1>1, <2>2
<1>9. \A k \in 0..(m - 1) : \E r \in S : f[r] = k
  <2>1. f \in Injection(S, 0..(m - 1))
    <3> HIDE DEF f, m
    <3> QED BY <1>6, <1>7, Fun_IsInj
  <2>2. f \in Surjection(S, 0..(m - 1))
    <3> HIDE DEF f
    <3> QED BY <1>8, <2>1, FS_Injection
  <2> HIDE DEF f, m
  <2> QED BY <2>2 DEF Surjection
<1> DEFINE F == First(h, S, n)
           c == IF n <= m THEN n ELSE m
           g == [r \in F |-> f[r]]
<1>10. F = {r \in S : f[r] < n}
  BY DEF First
<1>11. c \in Nat /\ c <= m /\ c <= n /\ \A k \in 0..(m - 1) : k < n <=> k \in 0..(c - 1)
  <2> HIDE DEF m
  <2> QED BY <1>1
<1> HIDE DEF F, c, f, m
<1>12. g \in [F -> 0..(c - 1)]
  BY <1>7, <1>10, <1>11
<1>13. \A r, s \in F : g[r] = g[s] => r = s
  BY <1>6, <1>10
<1>14. \A k \in 0..(c - 1) : \E r \in F : g[r] = k
  <2> SUFFICES ASSUME NEW k \in 0..(c - 1) PROVE \E r \in F : f[r] = k
    OBVIOUS
  <2>1. k \in 0..(m - 1) /\ k < n
    BY <1>1, <1>11
  <2> QED BY <1>9, <1>10, <2>1
<1>15. F \in SUBSET S /\ IsFiniteSet(F)
  BY <1>1, <1>10, FS_Subset
<1>16. Cardinality(0..(c - 1)) = Cardinality(F)
  <2> HIDE DEF g
  <2> QED BY <1>12, <1>13, <1>14, <1>15, SameSize
<1>17. Cardinality(0..(c - 1)) = c
  <2>1. 0 \in Int /\ c - 1 \in Int
    BY <1>11
  <2>2. Cardinality(0..(c - 1)) = IF 0 > c - 1 THEN 0 ELSE c - 1 - 0 + 1
    BY <2>1, FS_Interval
  <2> QED BY <1>11, <2>2
<1> QED BY <1>15, <1>16, <1>17 DEF F, c, m

LEMMA LowestOf ==
  ASSUME NEW S \in SUBSET Nat, S # {}
  PROVE  Min(S) \in S
<1>1. \E q \in S : \A r \in S : q <= r
  BY LeastNumber
<1> QED BY <1>1 DEF Min

IsAbove(S, v) == \A r \in S : r > v

\* A run is found in a set of ranks if there is one.
LEMMA RunInFinds ==
  ASSUME NEW S \in SUBSET Rank, NEW v \in Nat, NEW n \in Nat \ {0}
  PROVE  /\ RunIn(S, v, n) # {} =>
              /\ RunIn(S, v, n) \in Runs(n) /\ RunIn(S, v, n) \subseteq S
              /\ IsAbove(RunIn(S, v, n), v)
         /\ \A R \in Runs(n) : R \subseteq S /\ IsAbove(R, v) => RunIn(S, v, n) # {}
<1> DEFINE start == {r \in S : r > v /\ r + n - 1 < Two /\ r..(r + n - 1) \subseteq S}
           m == Min(start)
<1>1. RunIn(S, v, n) = IF start = {} THEN {} ELSE m..(m + n - 1)
  BY DEF RunIn
<1>2. \A r \in S : r \in 1..15 /\ r \in Rank
  BY RanksAreFinite
<1>3. ASSUME start # {}
      PROVE  m \in S /\ m > v /\ m + n - 1 < Two /\ m..(m + n - 1) \subseteq S
  <2>1. start \in SUBSET Rank
    OBVIOUS
  <2>2. m \in start
    <3> HIDE DEF start
    <3> QED BY <1>3, <2>1, LeastRank
  <2> HIDE DEF m
  <2> QED BY <2>2
<1>4. ASSUME start # {}
      PROVE  /\ m..(m + n - 1) \in Runs(n) /\ m..(m + n - 1) \subseteq S
             /\ IsAbove(m..(m + n - 1), v) /\ m..(m + n - 1) # {}
  <2>1. m \in S /\ m > v /\ m + n - 1 < Two /\ m..(m + n - 1) \subseteq S
    BY <1>3, <1>4
  <2> HIDE DEF m, start
  <2>2. m \in 1..15 /\ m \in Rank
    BY <1>2, <2>1
  <2>3. m..(m + n - 1) \in SUBSET (Rank \cap 1..12)
    BY <1>2, <2>1, <2>2 DEF Two
  <2>4. Cardinality(m..(m + n - 1)) = n
    <3>1. m \in Int /\ m + n - 1 \in Int /\ m <= m + n - 1 /\ (m + n - 1) - m + 1 = n
      BY <2>2
    <3> QED BY <3>1, FS_Interval
  <2>5. m..(m + n - 1) \in Runs(n)
    BY <2>2, <2>3, <2>4 DEF Runs
  <2>6. IsAbove(m..(m + n - 1), v)
    BY <2>1, <2>2 DEF IsAbove
  <2>7. m \in m..(m + n - 1)
    BY <2>2
  <2> QED BY <2>1, <2>5, <2>6, <2>7
<1>5. ASSUME NEW R \in Runs(n), R \subseteq S, IsAbove(R, v)
      PROVE  start # {}
  <2>1. PICK r \in Rank : R = r..(r + n - 1)
    BY DEF Runs
  <2>2. r \in 1..15 /\ R \subseteq 1..12
    BY RanksAreFinite DEF Runs
  <2>3. r \in R /\ r + n - 1 \in R
    BY <2>1, <2>2
  <2>4. r + n - 1 < Two
    BY <2>2, <2>3 DEF Two
  <2>5. r \in start
    BY <1>5, <2>1, <2>3, <2>4 DEF IsAbove
  <2> QED BY <2>5
<1> HIDE DEF m, start
<1> QED BY <1>1, <1>4, <1>5

\* And in the first of some growing sets that holds one.
LEMMA FirstRunFinds ==
  ASSUME NEW T \in SUBSET Rank, NEW D \in SUBSET Nat, NEW stock \in [D -> SUBSET T],
         T # {} => \E i \in D : stock[i] = T,
         NEW v \in Nat, NEW n \in Nat \ {0}
  PROVE  /\ FirstRun(stock, v, n) # {} =>
              /\ FirstRun(stock, v, n) \in Runs(n) /\ FirstRun(stock, v, n) \subseteq T
              /\ IsAbove(FirstRun(stock, v, n), v)
         /\ \A R \in Runs(n) : R \subseteq T /\ IsAbove(R, v) => FirstRun(stock, v, n) # {}
<1> DEFINE good == {i \in D : RunIn(stock[i], v, n) # {}}
           least == Min(good)
<1>1. DOMAIN stock = D /\ \A i \in D : stock[i] \in SUBSET T
  OBVIOUS
<1>2. FirstRun(stock, v, n) = IF good = {} THEN {} ELSE RunIn(stock[least], v, n)
  BY <1>1 DEF FirstRun
<1>3. ASSUME good # {} PROVE least \in D /\ RunIn(stock[least], v, n) # {}
  <2>1. good \in SUBSET Nat
    OBVIOUS
  <2>2. least \in good
    <3> HIDE DEF good
    <3> QED BY <1>3, <2>1, LowestOf
  <2> HIDE DEF least
  <2> QED BY <2>2
<1>4. \A i \in D : stock[i] \in SUBSET Rank
  BY <1>1
<1>5. ASSUME good # {}
      PROVE  /\ RunIn(stock[least], v, n) \in Runs(n)
             /\ RunIn(stock[least], v, n) \subseteq T
             /\ IsAbove(RunIn(stock[least], v, n), v)
  <2> DEFINE S == stock[least]
  <2>1. S \in SUBSET Rank /\ S \subseteq T /\ RunIn(S, v, n) # {}
    BY <1>1, <1>3, <1>4, <1>5
  <2> HIDE DEF S
  <2>2. RunIn(S, v, n) \in Runs(n) /\ RunIn(S, v, n) \subseteq S /\ IsAbove(RunIn(S, v, n), v)
    BY <2>1, RunInFinds
  <2>3. RunIn(S, v, n) \subseteq T
    BY <2>1, <2>2
  <2> QED BY <2>2, <2>3 DEF S
<1>6. ASSUME NEW R \in Runs(n), R \subseteq T, IsAbove(R, v)
      PROVE  good # {}
  <2>1. T # {}
    <3>1. Cardinality(R) = n
      BY DEF Runs
    <3>2. R # {}
      BY <3>1, FS_EmptySet
    <3> QED BY <1>6, <3>2
  <2>2. PICK i \in D : stock[i] = T
    BY <2>1
  <2>3. RunIn(T, v, n) # {}
    BY <1>6, RunInFinds
  <2>4. i \in good
    BY <2>2, <2>3
  <2> QED BY <2>4
<1>7. ASSUME good # {} PROVE RunIn(stock[least], v, n) # {}
  BY <1>3, <1>7
<1> HIDE DEF good, least
<1> QED BY <1>2, <1>5, <1>6, <1>7

\* Cards that are taken from a hand are a hand of their own.
LEMMA PartsAreHands ==
  ASSUME NEW h \in Hand, NEW g \in Bag, Part(g, h)
  PROVE  g \in Hand
<1>1. \A r \in Rank : g[r] \in Nat /\ g[r] <= h[r] /\ h[r] \in 0..4 /\ h[r] <= Copies(r)
  BY DEF Part, Hand, Counts, Bag
<1>2. \A r \in Rank : Copies(r) \in Nat
  BY DEF Copies
<1>3. \A r \in Rank : g[r] \in 0..4 /\ g[r] <= Copies(r)
  BY <1>1, <1>2
<1>4. g \in [Rank -> 0..4]
  BY <1>3 DEF Bag
<1> QED BY <1>3, <1>4 DEF Hand, Counts

\* Cards of a hand, alike or of two kinds, are told by the counts.
LEMMA AlikeCards ==
  ASSUME NEW h \in Hand, NEW k \in 1..4, NEW S \in SUBSET AtLeast(h, k), S # {}
  PROVE  LET g == Kind(k, S) IN
         /\ g \in Hand /\ Part(g, h) /\ g # Empty
         /\ Exactly(g, k) = S /\ Ranks(g, k) = Cardinality(S)
         /\ \A j \in 1..4 : j # k => Ranks(g, j) = 0
         /\ AtLeast(g, 1) = S
<1> DEFINE g == Kind(k, S)
<1>1. S \in SUBSET Rank /\ \A r \in S : h[r] >= k
  BY DEF AtLeast
<1>2. \A r \in Rank : h[r] \in 0..4
  BY HandsAreBags, BagsAreBags
<1>3. g \in Bag
  BY BagsAreBags
<1>4. Part(g, h)
  BY <1>1, <1>2 DEF Part, Kind
<1>5. g \in Hand
  BY <1>3, <1>4, PartsAreHands
<1>6. g # Empty
  <2>1. PICK r \in S : TRUE
    OBVIOUS
  <2>2. g[r] = k /\ Empty[r] = 0
    BY <1>1 DEF Kind, Empty
  <2> QED BY <2>2
<1> HIDE DEF g
<1>7. Exactly(g, k) = S /\ AtLeast(g, 1) = S
  BY <1>1, <1>5, AlikeHands DEF g
<1>8. AtLeast(g, 1) = Exactly(g, k) \cup Exactly(g, k)
        <=> \A j \in 1..4 : j \notin {k, k} => Ranks(g, j) = 0
  BY <1>5, OnlyOf, BagsAreBags
<1> QED BY <1>4, <1>5, <1>6, <1>7, <1>8 DEF g, Ranks

LEMMA JoinedCards ==
  ASSUME NEW h \in Hand, NEW k \in 1..4, NEW w \in 1..4, k # w,
         NEW S \in SUBSET AtLeast(h, k), S # {}, NEW W \in SUBSET AtLeast(h, w),
         S \cap W = {}
  PROVE  LET g == Plus(Kind(k, S), Kind(w, W)) IN
         /\ g \in Hand /\ Part(g, h) /\ g # Empty
         /\ Exactly(g, k) = S /\ Ranks(g, k) = Cardinality(S)
         /\ Ranks(g, w) = Cardinality(W)
         /\ \A j \in 1..4 : j \notin {k, w} => Ranks(g, j) = 0
<1> DEFINE g == Plus(Kind(k, S), Kind(w, W))
<1>1. /\ S \in SUBSET Rank /\ \A r \in S : h[r] >= k
      /\ W \in SUBSET Rank /\ \A r \in W : h[r] >= w
  BY DEF AtLeast
<1>2. \A r \in Rank : h[r] \in 0..4
  BY HandsAreBags, BagsAreBags
<1>3. g \in Bag
  BY BagsAreBags
<1>4. \A r \in Rank : g[r] = IF r \in S THEN k ELSE IF r \in W THEN w ELSE 0
  BY DEF Plus, Kind
<1>5. Part(g, h)
  <2> HIDE DEF g
  <2> QED BY <1>1, <1>2, <1>4 DEF Part
<1>6. g \in Hand
  BY <1>3, <1>5, PartsAreHands
<1>7. g # Empty
  <2>1. PICK r \in S : TRUE
    OBVIOUS
  <2>2. g[r] = k /\ Empty[r] = 0
    BY <1>1, <1>4 DEF Empty
  <2> QED BY <2>2
<1> HIDE DEF g
<1>8. Exactly(g, k) = S /\ Exactly(g, w) = W /\ AtLeast(g, 1) = S \cup W
  BY <1>1, <1>6, JoinedHands DEF g
<1>9. AtLeast(g, 1) = Exactly(g, k) \cup Exactly(g, w)
        <=> \A j \in 1..4 : j \notin {k, w} => Ranks(g, j) = 0
  BY <1>6, OnlyOf, BagsAreBags
<1> QED BY <1>5, <1>6, <1>7, <1>8, <1>9 DEF g, Ranks

LEMMA NoCards == \A k \in Nat : Kind(k, {}) = Empty
BY DEF Kind, Empty

\* The lowest of the ranks above v, in the order of the archive.
LEMMA FindKindFinds ==
  ASSUME NEW h \in Hand, NEW k \in 1..4, NEW v \in Nat
  PROVE  /\ \/ FindKind(h, k, v) = {}
            \/ \E r \in AtLeast(h, k) : FindKind(h, k, v) = {r} /\ r > v
         /\ \A r \in AtLeast(h, k) : r > v => FindKind(h, k, v) # {}
<1> DEFINE T == Above(AtLeast(h, k), v)
           F == First(h, T, 1)
<1>1. T = {r \in AtLeast(h, k) : r > v} /\ T \in SUBSET Rank /\ FindKind(h, k, v) = F
  BY DEF Above, AtLeast, FindKind
<1> HIDE DEF T
<1>2. F \in SUBSET T /\ Cardinality(F) = IF 1 <= Cardinality(T) THEN 1 ELSE Cardinality(T)
  BY <1>1, FirstOnes
<1> HIDE DEF F
<1>3. /\ IsFiniteSet(T) /\ Cardinality(T) \in Nat /\ (Cardinality(T) = 0 <=> T = {})
      /\ IsFiniteSet(F) /\ Cardinality(F) \in Nat /\ (Cardinality(F) = 0 <=> F = {})
  <2>1. F \in SUBSET Rank
    BY <1>1, <1>2
  <2> QED BY <1>1, <2>1, SubsetsOfRank
<1>4. F = {} \/ \E r : F = {r}
  <2>1. Cardinality(F) = 0 \/ Cardinality(F) = 1
    BY <1>2, <1>3
  <2>2. Cardinality(F) = 1 => \E r : F = {r}
    BY <1>3, FS_Singleton
  <2> QED BY <1>3, <2>1, <2>2
<1>5. ASSUME T # {} PROVE F # {}
  BY <1>2, <1>3, <1>5
<1> QED BY <1>1, <1>2, <1>4, <1>5

HasWings(g, h, k, S, n, w) ==
  /\ S # {} /\ g \in Hand /\ Part(g, h)
  /\ Exactly(g, k) = S /\ Ranks(g, k) = Cardinality(S)
  /\ Ranks(g, w) = n
  /\ \A j \in 1..4 : j \notin {k, w} => Ranks(g, j) = 0

\* Cards with wings are found if there are enough other ranks for the wings.
LEMMA WithWingsFinds ==
  ASSUME NEW h \in Hand, NEW k \in 3..4, NEW w \in 1..2, NEW S \in SUBSET AtLeast(h, k),
         NEW n \in Nat \ {0}
  PROVE  /\ WithWings(h, k, S, n, w) # Empty => HasWings(WithWings(h, k, S, n, w), h, k, S, n, w)
         /\ S # {} /\ Cardinality(AtLeast(h, w) \ S) >= n => WithWings(h, k, S, n, w) # Empty
<1> DEFINE T == AtLeast(h, w) \ S
           W == First(h, T, n)
           g == WithWings(h, k, S, n, w)
<1>1. T \in SUBSET Rank /\ Cardinality(T) \in Nat
  <2>1. T \in SUBSET Rank
    BY DEF AtLeast
  <2> HIDE DEF T
  <2> QED BY <2>1, SubsetsOfRank
<1>2. W \in SUBSET T /\ Cardinality(W) = IF n <= Cardinality(T) THEN n ELSE Cardinality(T)
  <2> HIDE DEF T
  <2> QED BY <1>1, FirstOnes
<1>3. g = IF S = {} \/ Cardinality(W) < n THEN Empty ELSE Plus(Kind(k, S), Kind(w, W))
  BY DEF WithWings
<1>4. W \in SUBSET AtLeast(h, w) /\ S \cap W = {}
  BY <1>2
<1> HIDE DEF T, W, g
<1>5. ASSUME S # {}
      PROVE  LET p == Plus(Kind(k, S), Kind(w, W)) IN
             /\ p \in Hand /\ Part(p, h) /\ p # Empty
             /\ Exactly(p, k) = S /\ Ranks(p, k) = Cardinality(S)
             /\ Ranks(p, w) = Cardinality(W)
             /\ \A j \in 1..4 : j \notin {k, w} => Ranks(p, j) = 0
  <2>1. k \in 1..4 /\ w \in 1..4 /\ k # w
    OBVIOUS
  <2> QED BY <1>4, <1>5, <2>1, JoinedCards
<1>6. ASSUME S # {}, Cardinality(T) >= n
      PROVE  g # Empty
  <2>1. Cardinality(W) = n /\ ~(Cardinality(W) < n)
    BY <1>1, <1>2, <1>6
  <2> QED BY <1>3, <1>5, <1>6, <2>1
<1>7. ASSUME g # Empty
      PROVE  /\ S # {} /\ g \in Hand /\ Part(g, h)
             /\ Exactly(g, k) = S /\ Ranks(g, k) = Cardinality(S)
             /\ Ranks(g, w) = n
             /\ \A j \in 1..4 : j \notin {k, w} => Ranks(g, j) = 0
  <2>1. S # {} /\ ~(Cardinality(W) < n) /\ g = Plus(Kind(k, S), Kind(w, W))
    BY <1>3, <1>7
  <2>2. Cardinality(W) = n
    BY <1>1, <1>2, <2>1
  <2> QED BY <1>5, <2>1, <2>2
<1> QED BY <1>6, <1>7 DEF g, T, HasWings

\* g are cards of h that are a play of type t, worth more than v, with n cards.
Answers(g, h, t, v, n) ==
  /\ g \in Hand /\ Part(g, h) /\ g # Empty
  /\ IsPlay(g, t) /\ ValueOf(g, t) > v /\ Size(g) = n

LEMMA LowestAbove ==
  ASSUME NEW S \in SUBSET Rank, S # {}, NEW v \in Nat, IsAbove(S, v)
  PROVE  Min(S) > v
BY LeastRank DEF IsAbove

LEMMA MainCards ==
  ASSUME NEW g \in Hand
  PROVE  /\ Ranks(g, 4) = 0 => AtLeast(g, 3) = Exactly(g, 3)
         /\ Ranks(g, 3) = 0 => AtLeast(g, 3) = Exactly(g, 4)
<1>1. AtLeast(g, 4) = Exactly(g, 4) /\ AtLeast(g, 3) = Exactly(g, 3) \cup AtLeast(g, 4)
  BY ByCount, BagsAreBags
<1> QED BY <1>1, NoneOf, BagsAreBags

LEMMA PartsAtLeast ==
  ASSUME NEW h \in Hand, NEW g \in Hand, Part(g, h), NEW k \in 1..4
  PROVE  AtLeast(g, k) \subseteq AtLeast(h, k)
<1>1. \A r \in Rank : h[r] \in 0..4 /\ g[r] \in 0..4 /\ g[r] <= h[r]
  BY HandsAreBags, BagsAreBags DEF Part
<1> QED BY <1>1 DEF AtLeast

\* The number of cards, by the counts.
LEMMA SizesOfPlays ==
  ASSUME NEW g \in Counts
  PROVE  /\ Of(g, 1, 0, 0, 0) => Size(g) = 1
         /\ Of(g, 0, 1, 0, 0) => Size(g) = 2
         /\ Of(g, 2, 0, 0, 0) => Size(g) = 2
         /\ Of(g, 0, 0, 1, 0) => Size(g) = 3
         /\ Of(g, 0, 0, 0, 1) => Size(g) = 4
         /\ Of(g, 1, 0, 1, 0) => Size(g) = 4
         /\ Of(g, 0, 1, 1, 0) => Size(g) = 5
         /\ Of(g, 2, 0, 0, 1) => Size(g) = 6
         /\ Of(g, 0, 1, 0, 1) => Size(g) = 6
         /\ Of(g, 0, 2, 0, 1) => Size(g) = 8
<1>1. Size(g) = Ranks(g, 1) + 2 * Ranks(g, 2) + 3 * Ranks(g, 3) + 4 * Ranks(g, 4)
  BY SizeByCount
<1> QED BY ONLY <1>1 DEF Of

LEMMA SizesOfRuns ==
  ASSUME NEW g \in Counts, NEW c \in Nat
  PROVE  /\ Of(g, c, 0, 0, 0) => Size(g) = c
         /\ Of(g, 0, c, 0, 0) => Size(g) = 2 * c
         /\ Of(g, 0, 0, c, 0) => Size(g) = 3 * c
         /\ Of(g, c, 0, c, 0) => Size(g) = 4 * c
         /\ Of(g, 0, c, c, 0) => Size(g) = 5 * c
<1>1. Size(g) = Ranks(g, 1) + 2 * Ranks(g, 2) + 3 * Ranks(g, 3) + 4 * Ranks(g, 4)
  BY SizeByCount
<1> QED BY <1>1 DEF Of

\* One rank, of k cards.
LEMMA KindFinds ==
  ASSUME NEW h \in Hand, NEW k \in 1..4, NEW v \in Nat
  PROVE  LET g == Kind(k, FindKind(h, k, v)) IN
         /\ g # Empty => /\ g \in Hand /\ Part(g, h)
                         /\ Ranks(g, k) = 1 /\ \A j \in 1..4 : j # k => Ranks(g, j) = 0
                         /\ AtLeast(g, 1) # {} /\ IsAbove(AtLeast(g, 1), v)
                         /\ Exactly(g, k) = AtLeast(g, 1)
         /\ (\E r \in AtLeast(h, k) : r > v) => g # Empty
<1> DEFINE S == FindKind(h, k, v)
           g == Kind(k, S)
<1>1. S = {} => g = Empty
  BY NoCards
<1>2. S = {} \/ \E r \in AtLeast(h, k) : S = {r} /\ r > v
  BY FindKindFinds
<1>3. (\E r \in AtLeast(h, k) : r > v) => S # {}
  BY FindKindFinds
<1> HIDE DEF S
<1>4. ASSUME S # {}
      PROVE  /\ g \in Hand /\ Part(g, h) /\ g # Empty
             /\ Ranks(g, k) = 1 /\ \A j \in 1..4 : j # k => Ranks(g, j) = 0
             /\ AtLeast(g, 1) # {} /\ IsAbove(AtLeast(g, 1), v)
             /\ Exactly(g, k) = AtLeast(g, 1)
  <2>1. PICK r \in AtLeast(h, k) : S = {r} /\ r > v
    BY <1>2, <1>4
  <2>2. S \in SUBSET AtLeast(h, k) /\ S # {} /\ IsAbove(S, v)
    BY <2>1 DEF IsAbove
  <2>3. Cardinality(S) = 1
    BY <2>1, FS_Singleton
  <2>4. /\ g \in Hand /\ Part(g, h) /\ g # Empty
        /\ Exactly(g, k) = S /\ Ranks(g, k) = Cardinality(S)
        /\ \A j \in 1..4 : j # k => Ranks(g, j) = 0
        /\ AtLeast(g, 1) = S
    BY <2>2, AlikeCards
  <2> QED BY <2>2, <2>3, <2>4
<1> HIDE DEF g
<1> QED BY <1>1, <1>3, <1>4 DEF g, S

\* What the finder finds is of the type, of the length, and above the value: one
\* rank, a rank with wings, a run, and a run with wings.
LEMMA PlainAnswers ==
  ASSUME NEW h \in Hand, NEW v \in Nat
  PROVE  /\ FindSingle(h, v) # Empty => Answers(FindSingle(h, v), h, "single", v, 1)
         /\ FindDouble(h, v) # Empty => Answers(FindDouble(h, v), h, "double", v, 2)
         /\ FindThree(h, v) # Empty => Answers(FindThree(h, v), h, "three", v, 3)
         /\ FindFour(h, v) # Empty => Answers(FindFour(h, v), h, "bomb", v, 4)
<1>1. ASSUME FindSingle(h, v) # Empty PROVE Answers(FindSingle(h, v), h, "single", v, 1)
  <2> DEFINE g == FindSingle(h, v)
  <2>1. /\ g \in Hand /\ Part(g, h)
        /\ Ranks(g, 1) = 1 /\ \A j \in 1..4 : j # 1 => Ranks(g, j) = 0
        /\ AtLeast(g, 1) # {} /\ IsAbove(AtLeast(g, 1), v)
        /\ Exactly(g, 1) = AtLeast(g, 1)
    BY <1>1, KindFinds DEF FindSingle
  <2> HIDE DEF g
  <2>2. Of(g, 1, 0, 0, 0)
    BY <2>1 DEF Of
  <2>3. Low(g) > v
    BY <2>1, LowestAbove DEF Low, AtLeast
  <2>4. Size(g) = 1 /\ IsPlay(g, "single") /\ ValueOf(g, "single") > v
    BY <2>1, <2>2, <2>3, SizesOfPlays, BagsAreBags DEF IsPlay, ValueOf
  <2> QED BY <1>1, <2>1, <2>4 DEF Answers, g
<1>2. ASSUME FindDouble(h, v) # Empty PROVE Answers(FindDouble(h, v), h, "double", v, 2)
  <2> DEFINE g == FindDouble(h, v)
  <2>1. /\ g \in Hand /\ Part(g, h)
        /\ Ranks(g, 2) = 1 /\ \A j \in 1..4 : j # 2 => Ranks(g, j) = 0
        /\ AtLeast(g, 1) # {} /\ IsAbove(AtLeast(g, 1), v)
        /\ Exactly(g, 2) = AtLeast(g, 1)
    BY <1>2, KindFinds DEF FindDouble
  <2> HIDE DEF g
  <2>2. Of(g, 0, 1, 0, 0)
    BY <2>1 DEF Of
  <2>3. Low(g) > v
    BY <2>1, LowestAbove DEF Low, AtLeast
  <2>4. Size(g) = 2 /\ IsPlay(g, "double") /\ ValueOf(g, "double") > v
    BY <2>1, <2>2, <2>3, SizesOfPlays, BagsAreBags DEF IsPlay, ValueOf
  <2> QED BY <1>2, <2>1, <2>4 DEF Answers, g
<1>3. ASSUME FindThree(h, v) # Empty PROVE Answers(FindThree(h, v), h, "three", v, 3)
  <2> DEFINE g == FindThree(h, v)
  <2>1. /\ g \in Hand /\ Part(g, h)
        /\ Ranks(g, 3) = 1 /\ \A j \in 1..4 : j # 3 => Ranks(g, j) = 0
        /\ AtLeast(g, 1) # {} /\ IsAbove(AtLeast(g, 1), v)
        /\ Exactly(g, 3) = AtLeast(g, 1)
    BY <1>3, KindFinds DEF FindThree
  <2> HIDE DEF g
  <2>2. Of(g, 0, 0, 1, 0)
    BY <2>1 DEF Of
  <2>3. Low(g) > v
    BY <2>1, LowestAbove DEF Low, AtLeast
  <2>4. Size(g) = 3 /\ IsPlay(g, "three") /\ ValueOf(g, "three") > v
    BY <2>1, <2>2, <2>3, SizesOfPlays, HandTriples, BagsAreBags DEF IsPlay, ValueOf
  <2> QED BY <1>3, <2>1, <2>4 DEF Answers, g
<1>4. ASSUME FindFour(h, v) # Empty PROVE Answers(FindFour(h, v), h, "bomb", v, 4)
  <2> DEFINE g == FindFour(h, v)
  <2>1. /\ g \in Hand /\ Part(g, h)
        /\ Ranks(g, 4) = 1 /\ \A j \in 1..4 : j # 4 => Ranks(g, j) = 0
        /\ AtLeast(g, 1) # {} /\ IsAbove(AtLeast(g, 1), v)
        /\ Exactly(g, 4) = AtLeast(g, 1)
    BY <1>4, KindFinds DEF FindFour
  <2> HIDE DEF g
  <2>2. Of(g, 0, 0, 0, 1)
    BY <2>1 DEF Of
  <2>3. Main(g) > v
    BY <2>1, <2>2, LowestAbove, MainCards DEF Main, AtLeast, Of
  <2>4. Size(g) = 4 /\ IsPlay(g, "bomb") /\ ValueOf(g, "bomb") > v
    BY <2>1, <2>2, <2>3, SizesOfPlays, BagsAreBags DEF IsPlay, ValueOf
  <2> QED BY <1>4, <2>1, <2>4 DEF Answers, g
<1> QED BY <1>1, <1>2, <1>3, <1>4

LEMMA WingedAnswers ==
  ASSUME NEW h \in Hand, NEW v \in Nat
  PROVE  /\ FindThreeAndSingle(h, v) # Empty
              => Answers(FindThreeAndSingle(h, v), h, "three_one", v, 4)
         /\ FindThreeAndDouble(h, v) # Empty
              => Answers(FindThreeAndDouble(h, v), h, "three_double", v, 5)
         /\ FindFourAndTwoSingle(h, v) # Empty
              => Answers(FindFourAndTwoSingle(h, v), h, "four_two_single", v, 6)
         /\ FindFourAndTwoDouble(h, v) # Empty
              => Answers(FindFourAndTwoDouble(h, v), h, "four_two_double", v, 8)
<1>1. ASSUME FindThreeAndSingle(h, v) # Empty
      PROVE  Answers(FindThreeAndSingle(h, v), h, "three_one", v, 4)
  <2> DEFINE S == FindKind(h, 3, v)
             g == WithWings(h, 3, S, 1, 1)
  <2>1. S = {} \/ \E r \in AtLeast(h, 3) : S = {r} /\ r > v
    BY FindKindFinds
  <2>2. g = FindThreeAndSingle(h, v)
    BY DEF FindThreeAndSingle
  <2> HIDE DEF S
  <2>3. S \in SUBSET AtLeast(h, 3) /\ IsAbove(S, v)
    BY <2>1 DEF IsAbove
  <2> HIDE DEF g
  <2>4. /\ S # {} /\ g \in Hand /\ Part(g, h)
        /\ Exactly(g, 3) = S /\ Ranks(g, 3) = Cardinality(S)
        /\ Ranks(g, 1) = 1
        /\ \A j \in 1..4 : j \notin {3, 1} => Ranks(g, j) = 0
    <3>1. 3 \in 3..4 /\ 1 \in 1..2 /\ 1 \in Nat \ {0}
      OBVIOUS
    <3>2. g # Empty => HasWings(g, h, 3, S, 1, 1)
      BY <2>3, <3>1, WithWingsFinds DEF g
    <3>3. HasWings(g, h, 3, S, 1, 1)
      BY <1>1, <2>2, <3>2
    <3> QED BY <3>3 DEF HasWings
  <2>5. Cardinality(S) = 1
    BY <2>1, <2>4, FS_Singleton
  <2>6. Of(g, 1, 0, 1, 0)
    BY <2>4, <2>5 DEF Of
  <2>7. AtLeast(g, 3) = S /\ S \in SUBSET Rank
    BY <2>4, <2>6, MainCards DEF Of, Exactly
  <2>8. Main(g) > v
    BY <2>3, <2>4, <2>7, LowestAbove DEF Main
  <2>9. Size(g) = 4 /\ IsPlay(g, "three_one") /\ ValueOf(g, "three_one") > v
    BY <2>4, <2>6, <2>8, SizesOfPlays, BagsAreBags DEF IsPlay, ValueOf
  <2> QED BY <1>1, <2>2, <2>4, <2>9 DEF Answers
<1>2. ASSUME FindThreeAndDouble(h, v) # Empty
      PROVE  Answers(FindThreeAndDouble(h, v), h, "three_double", v, 5)
  <2> DEFINE S == FindKind(h, 3, v)
             g == WithWings(h, 3, S, 1, 2)
  <2>1. S = {} \/ \E r \in AtLeast(h, 3) : S = {r} /\ r > v
    BY FindKindFinds
  <2>2. g = FindThreeAndDouble(h, v)
    BY DEF FindThreeAndDouble
  <2> HIDE DEF S
  <2>3. S \in SUBSET AtLeast(h, 3) /\ IsAbove(S, v)
    BY <2>1 DEF IsAbove
  <2> HIDE DEF g
  <2>4. /\ S # {} /\ g \in Hand /\ Part(g, h)
        /\ Exactly(g, 3) = S /\ Ranks(g, 3) = Cardinality(S)
        /\ Ranks(g, 2) = 1
        /\ \A j \in 1..4 : j \notin {3, 2} => Ranks(g, j) = 0
    <3>1. 3 \in 3..4 /\ 2 \in 1..2 /\ 1 \in Nat \ {0}
      OBVIOUS
    <3>2. g # Empty => HasWings(g, h, 3, S, 1, 2)
      BY <2>3, <3>1, WithWingsFinds DEF g
    <3>3. HasWings(g, h, 3, S, 1, 2)
      BY <1>2, <2>2, <3>2
    <3> QED BY <3>3 DEF HasWings
  <2>5. Cardinality(S) = 1
    BY <2>1, <2>4, FS_Singleton
  <2>6. Of(g, 0, 1, 1, 0)
    BY <2>4, <2>5 DEF Of
  <2>7. AtLeast(g, 3) = S /\ S \in SUBSET Rank
    BY <2>4, <2>6, MainCards DEF Of, Exactly
  <2>8. Main(g) > v
    BY <2>3, <2>4, <2>7, LowestAbove DEF Main
  <2>9. Size(g) = 5 /\ IsPlay(g, "three_double") /\ ValueOf(g, "three_double") > v
    BY <2>4, <2>6, <2>8, SizesOfPlays, BagsAreBags DEF IsPlay, ValueOf
  <2> QED BY <1>2, <2>2, <2>4, <2>9 DEF Answers
<1>3. ASSUME FindFourAndTwoSingle(h, v) # Empty
      PROVE  Answers(FindFourAndTwoSingle(h, v), h, "four_two_single", v, 6)
  <2> DEFINE S == FindKind(h, 4, v)
             g == WithWings(h, 4, S, 2, 1)
  <2>1. S = {} \/ \E r \in AtLeast(h, 4) : S = {r} /\ r > v
    BY FindKindFinds
  <2>2. g = FindFourAndTwoSingle(h, v)
    BY DEF FindFourAndTwoSingle
  <2> HIDE DEF S
  <2>3. S \in SUBSET AtLeast(h, 4) /\ IsAbove(S, v)
    BY <2>1 DEF IsAbove
  <2> HIDE DEF g
  <2>4. /\ S # {} /\ g \in Hand /\ Part(g, h)
        /\ Exactly(g, 4) = S /\ Ranks(g, 4) = Cardinality(S)
        /\ Ranks(g, 1) = 2
        /\ \A j \in 1..4 : j \notin {4, 1} => Ranks(g, j) = 0
    <3>1. 4 \in 3..4 /\ 1 \in 1..2 /\ 2 \in Nat \ {0}
      OBVIOUS
    <3>2. g # Empty => HasWings(g, h, 4, S, 2, 1)
      BY <2>3, <3>1, WithWingsFinds DEF g
    <3>3. HasWings(g, h, 4, S, 2, 1)
      BY <1>3, <2>2, <3>2
    <3> QED BY <3>3 DEF HasWings
  <2>5. Cardinality(S) = 1
    BY <2>1, <2>4, FS_Singleton
  <2>6. Of(g, 2, 0, 0, 1)
    BY <2>4, <2>5 DEF Of
  <2>7. AtLeast(g, 3) = S /\ S \in SUBSET Rank
    BY <2>4, <2>6, MainCards DEF Of, Exactly
  <2>8. Main(g) > v
    BY <2>3, <2>4, <2>7, LowestAbove DEF Main
  <2>9. Size(g) = 6 /\ IsPlay(g, "four_two_single") /\ ValueOf(g, "four_two_single") > v
    BY <2>4, <2>6, <2>8, SizesOfPlays, BagsAreBags DEF IsPlay, ValueOf
  <2> QED BY <1>3, <2>2, <2>4, <2>9 DEF Answers
<1>4. ASSUME FindFourAndTwoDouble(h, v) # Empty
      PROVE  Answers(FindFourAndTwoDouble(h, v), h, "four_two_double", v, 8)
  <2> DEFINE S == FindKind(h, 4, v)
             g == WithWings(h, 4, S, 2, 2)
  <2>1. S = {} \/ \E r \in AtLeast(h, 4) : S = {r} /\ r > v
    BY FindKindFinds
  <2>2. g = FindFourAndTwoDouble(h, v)
    BY DEF FindFourAndTwoDouble
  <2> HIDE DEF S
  <2>3. S \in SUBSET AtLeast(h, 4) /\ IsAbove(S, v)
    BY <2>1 DEF IsAbove
  <2> HIDE DEF g
  <2>4. /\ S # {} /\ g \in Hand /\ Part(g, h)
        /\ Exactly(g, 4) = S /\ Ranks(g, 4) = Cardinality(S)
        /\ Ranks(g, 2) = 2
        /\ \A j \in 1..4 : j \notin {4, 2} => Ranks(g, j) = 0
    <3>1. 4 \in 3..4 /\ 2 \in 1..2 /\ 2 \in Nat \ {0}
      OBVIOUS
    <3>2. g # Empty => HasWings(g, h, 4, S, 2, 2)
      BY <2>3, <3>1, WithWingsFinds DEF g
    <3>3. HasWings(g, h, 4, S, 2, 2)
      BY <1>4, <2>2, <3>2
    <3> QED BY <3>3 DEF HasWings
  <2>5. Cardinality(S) = 1
    BY <2>1, <2>4, FS_Singleton
  <2>6. Of(g, 0, 2, 0, 1)
    BY <2>4, <2>5 DEF Of
  <2>7. AtLeast(g, 3) = S /\ S \in SUBSET Rank
    BY <2>4, <2>6, MainCards DEF Of, Exactly
  <2>8. Main(g) > v
    BY <2>3, <2>4, <2>7, LowestAbove DEF Main
  <2>9. Size(g) = 8 /\ IsPlay(g, "four_two_double") /\ ValueOf(g, "four_two_double") > v
    BY <2>4, <2>6, <2>8, SizesOfPlays, BagsAreBags DEF IsPlay, ValueOf
  <2> QED BY <1>4, <2>2, <2>4, <2>9 DEF Answers
<1> QED BY <1>1, <1>2, <1>3, <1>4

\* The stocks the finder looks for chains in.
LEMMA ChainStocks ==
  ASSUME NEW h \in Hand, NEW v \in Nat, NEW n \in Nat \ {0}
  PROVE  /\ LET R == FirstRun([i \in 1..4 |-> AtLeast(h, 1) \cap AtMost(h, i)], v, n) IN
            /\ R # {} => R \in Runs(n) /\ R \subseteq AtLeast(h, 1) /\ IsAbove(R, v)
            /\ \A Q \in Runs(n) : Q \subseteq AtLeast(h, 1) /\ IsAbove(Q, v) => R # {}
         /\ LET R == FirstRun([i \in 2..4 |-> AtLeast(h, 2) \cap AtMost(h, i)], v, n) IN
            /\ R # {} => R \in Runs(n) /\ R \subseteq AtLeast(h, 2) /\ IsAbove(R, v)
            /\ \A Q \in Runs(n) : Q \subseteq AtLeast(h, 2) /\ IsAbove(Q, v) => R # {}
         /\ LET R == ThreeRun(h, v, n) IN
            /\ R # {} => R \in Runs(n) /\ R \subseteq AtLeast(h, 3) /\ IsAbove(R, v)
            /\ \A Q \in Runs(n) : Q \subseteq AtLeast(h, 3) /\ IsAbove(Q, v) => R # {}
<1>1. \A r \in Rank : h[r] \in 0..4
  BY HandsAreBags, BagsAreBags
<1>2. LET R == FirstRun([i \in 1..4 |-> AtLeast(h, 1) \cap AtMost(h, i)], v, n) IN
      /\ R # {} => R \in Runs(n) /\ R \subseteq AtLeast(h, 1) /\ IsAbove(R, v)
      /\ \A Q \in Runs(n) : Q \subseteq AtLeast(h, 1) /\ IsAbove(Q, v) => R # {}
  <2> DEFINE T == AtLeast(h, 1)
             D == 1..4
             stock == [i \in D |-> T \cap AtMost(h, i)]
  <2>1. T \in SUBSET Rank /\ D \in SUBSET Nat
    BY DEF AtLeast
  <2>2. T # {} => \E i \in D : stock[i] = T
    <3>1. stock[4] = T /\ 4 \in D
      BY <1>1 DEF AtLeast, AtMost
    <3> QED BY <3>1, Zenon
  <2>3. stock \in [D -> SUBSET T]
    OBVIOUS
  <2> HIDE DEF T, D, stock
  <2>4. /\ FirstRun(stock, v, n) # {} =>
             /\ FirstRun(stock, v, n) \in Runs(n) /\ FirstRun(stock, v, n) \subseteq T
             /\ IsAbove(FirstRun(stock, v, n), v)
        /\ \A R \in Runs(n) : R \subseteq T /\ IsAbove(R, v) => FirstRun(stock, v, n) # {}
    BY <2>1, <2>2, <2>3, FirstRunFinds
  <2> QED BY <2>4, Zenon DEF T, D, stock
<1>3. LET R == FirstRun([i \in 2..4 |-> AtLeast(h, 2) \cap AtMost(h, i)], v, n) IN
      /\ R # {} => R \in Runs(n) /\ R \subseteq AtLeast(h, 2) /\ IsAbove(R, v)
      /\ \A Q \in Runs(n) : Q \subseteq AtLeast(h, 2) /\ IsAbove(Q, v) => R # {}
  <2> DEFINE T == AtLeast(h, 2)
             D == 2..4
             stock == [i \in D |-> T \cap AtMost(h, i)]
  <2>1. T \in SUBSET Rank /\ D \in SUBSET Nat
    BY DEF AtLeast
  <2>2. T # {} => \E i \in D : stock[i] = T
    <3>1. stock[4] = T /\ 4 \in D
      BY <1>1 DEF AtLeast, AtMost
    <3> QED BY <3>1, Zenon
  <2>3. stock \in [D -> SUBSET T]
    OBVIOUS
  <2> HIDE DEF T, D, stock
  <2>4. /\ FirstRun(stock, v, n) # {} =>
             /\ FirstRun(stock, v, n) \in Runs(n) /\ FirstRun(stock, v, n) \subseteq T
             /\ IsAbove(FirstRun(stock, v, n), v)
        /\ \A R \in Runs(n) : R \subseteq T /\ IsAbove(R, v) => FirstRun(stock, v, n) # {}
    BY <2>1, <2>2, <2>3, FirstRunFinds
  <2> QED BY <2>4, Zenon DEF T, D, stock
<1>4. LET R == ThreeRun(h, v, n) IN
      /\ R # {} => R \in Runs(n) /\ R \subseteq AtLeast(h, 3) /\ IsAbove(R, v)
      /\ \A Q \in Runs(n) : Q \subseteq AtLeast(h, 3) /\ IsAbove(Q, v) => R # {}
  <2> DEFINE T == Above(AtLeast(h, 3), v)
             D == 1..Cardinality(T)
             stock == [i \in D |-> First(h, T, i)]
  <2>1. T \in SUBSET Rank /\ T = {r \in AtLeast(h, 3) : r > v}
    BY DEF Above, AtLeast
  <2>2. ThreeRun(h, v, n) = FirstRun(stock, v, n)
    BY Zenon DEF ThreeRun
  <2> HIDE DEF T
  <2>3. /\ IsFiniteSet(T) /\ Cardinality(T) \in Nat /\ (Cardinality(T) = 0 <=> T = {})
        /\ D \in SUBSET Nat
    BY <2>1, SubsetsOfRank
  <2>4. \A i \in Nat : /\ First(h, T, i) \in SUBSET T
                       /\ Cardinality(First(h, T, i))
                            = IF i <= Cardinality(T) THEN i ELSE Cardinality(T)
    BY <2>1, FirstOnes
  <2>5. stock \in [D -> SUBSET T]
    BY <2>3, <2>4
  <2>6. ASSUME T # {} PROVE \E i \in D : stock[i] = T
    <3> DEFINE m == Cardinality(T)
    <3>1. m \in D /\ m \in Nat /\ m <= m
      BY <2>3, <2>6
    <3> HIDE DEF m
    <3>2. First(h, T, m) \in SUBSET T /\ Cardinality(First(h, T, m)) = m
      BY <2>4, <3>1 DEF m
    <3>3. First(h, T, m) = T
      BY <2>3, <3>2, FS_Subset DEF m
    <3>4. stock[m] = T
      BY <3>1, <3>3
    <3> QED BY <3>1, <3>4
  <2> HIDE DEF D, stock
  <2>7. /\ FirstRun(stock, v, n) # {} =>
             /\ FirstRun(stock, v, n) \in Runs(n) /\ FirstRun(stock, v, n) \subseteq T
             /\ IsAbove(FirstRun(stock, v, n), v)
        /\ \A R \in Runs(n) : R \subseteq T /\ IsAbove(R, v) => FirstRun(stock, v, n) # {}
    BY <2>1, <2>3, <2>5, <2>6, FirstRunFinds
  <2>8. \A Q : Q \subseteq AtLeast(h, 3) /\ IsAbove(Q, v) => Q \subseteq T
    BY <2>1 DEF IsAbove
  <2>9. T \subseteq AtLeast(h, 3)
    BY <2>1
  <2> QED BY <2>2, <2>7, <2>8, <2>9
<1> QED BY <1>2, <1>3, <1>4, Zenon

\* Cards of a run, with k of each rank.
RunCards(g, h, k, c, v) ==
  /\ g \in Hand /\ Part(g, h) /\ g # Empty
  /\ Exactly(g, k) \in Runs(c) /\ Ranks(g, k) = c
  /\ \A j \in 1..4 : j # k => Ranks(g, j) = 0
  /\ AtLeast(g, 1) = Exactly(g, k)
  /\ AtLeast(g, 1) # {} /\ IsAbove(AtLeast(g, 1), v)

LEMMA RunsAreCards ==
  ASSUME NEW h \in Hand, NEW k \in 1..4, NEW c \in Nat \ {0}, NEW R \in Runs(c),
         R \subseteq AtLeast(h, k), NEW v, IsAbove(R, v)
  PROVE  R # {} /\ RunCards(Kind(k, R), h, k, c, v)
<1>1. Cardinality(R) = c
  BY DEF Runs
<1>2. R # {}
  BY <1>1, FS_EmptySet
<1> DEFINE g == Kind(k, R)
<1>3. /\ g \in Hand /\ Part(g, h) /\ g # Empty
      /\ Exactly(g, k) = R /\ Ranks(g, k) = Cardinality(R)
      /\ \A j \in 1..4 : j # k => Ranks(g, j) = 0
      /\ AtLeast(g, 1) = R
  BY <1>2, AlikeCards
<1> HIDE DEF g
<1> QED BY <1>1, <1>2, <1>3 DEF RunCards, g

LEMMA ChainAnswers ==
  ASSUME NEW h \in Hand, NEW v \in Nat, NEW c \in Nat
  PROVE  /\ c >= 5 /\ FindSingleChain(h, v, c) # Empty
              => Answers(FindSingleChain(h, v, c), h, "single_chain", v, c)
         /\ c >= 3 /\ FindDoubleChain(h, v, 2 * c) # Empty
              => Answers(FindDoubleChain(h, v, 2 * c), h, "double_chain", v, 2 * c)
         /\ c >= 2 /\ FindThreeChain(h, v, 3 * c) # Empty
              => Answers(FindThreeChain(h, v, 3 * c), h, "three_chain", v, 3 * c)
<1>1. ASSUME c >= 5, FindSingleChain(h, v, c) # Empty
      PROVE  Answers(FindSingleChain(h, v, c), h, "single_chain", v, c)
  <2> DEFINE R == FirstRun([i \in 1..4 |-> AtLeast(h, 1) \cap AtMost(h, i)], v, c)
             g == FindSingleChain(h, v, c)
  <2>1. g = Kind(1, R)
    BY DEF FindSingleChain
  <2>2. c \in Nat \ {0}
    BY <1>1
  <2>3. R # {} => R \in Runs(c) /\ R \subseteq AtLeast(h, 1) /\ IsAbove(R, v)
    BY <2>2, ChainStocks
  <2> HIDE DEF R, g
  <2>4. R # {}
    BY <1>1, <2>1, NoCards DEF g
  <2>5. RunCards(g, h, 1, c, v)
    BY <2>1, <2>2, <2>3, <2>4, RunsAreCards
  <2>6. AtLeast(g, 1) \in SUBSET Rank
    BY DEF AtLeast
  <2>7. Of(g, c, 0, 0, 0) /\ RunOf(g, 1, 5) /\ Ranks(g, 1) = c
    BY <1>1, <2>5 DEF RunCards, Of, RunOf
  <2>8. Low(g) > v
    BY <2>5, <2>6, LowestAbove DEF Low , RunCards
  <2>9. Size(g) = c
    BY <2>5, <2>7, SizesOfRuns, BagsAreBags DEF RunCards
  <2>10. IsPlay(g, "single_chain")
    BY <2>7 DEF IsPlay
  <2>11. ValueOf(g, "single_chain") > v
    BY <2>8 DEF ValueOf
  <2>12. g \in Hand /\ Part(g, h) /\ g # Empty
    BY <2>5 DEF RunCards
  <2> QED BY <2>9, <2>10, <2>11, <2>12 DEF Answers, g
<1>2. ASSUME c >= 3, FindDoubleChain(h, v, 2 * c) # Empty
      PROVE  Answers(FindDoubleChain(h, v, 2 * c), h, "double_chain", v, 2 * c)
  <2> DEFINE R == FirstRun([i \in 2..4 |-> AtLeast(h, 2) \cap AtMost(h, i)], v, c)
             g == FindDoubleChain(h, v, 2 * c)
  <2>1. g = Kind(2, R)
    <3>1. (2 * c) \div 2 = c
      OBVIOUS
    <3> QED BY <3>1 DEF FindDoubleChain
  <2>2. c \in Nat \ {0}
    BY <1>2
  <2>3. R # {} => R \in Runs(c) /\ R \subseteq AtLeast(h, 2) /\ IsAbove(R, v)
    BY <2>2, ChainStocks
  <2> HIDE DEF R, g
  <2>4. R # {}
    BY <1>2, <2>1, NoCards DEF g
  <2>5. RunCards(g, h, 2, c, v)
    BY <2>1, <2>2, <2>3, <2>4, RunsAreCards
  <2>6. AtLeast(g, 1) \in SUBSET Rank
    BY DEF AtLeast
  <2>7. Of(g, 0, c, 0, 0) /\ RunOf(g, 2, 3) /\ Ranks(g, 2) = c
    BY <1>2, <2>5 DEF RunCards, Of, RunOf
  <2>8. Low(g) > v
    BY <2>5, <2>6, LowestAbove DEF Low , RunCards
  <2>9. Size(g) = 2 * c
    BY <2>5, <2>7, SizesOfRuns, BagsAreBags DEF RunCards
  <2>10. IsPlay(g, "double_chain")
    BY <2>7 DEF IsPlay
  <2>11. ValueOf(g, "double_chain") > v
    BY <2>8 DEF ValueOf
  <2>12. g \in Hand /\ Part(g, h) /\ g # Empty
    BY <2>5 DEF RunCards
  <2> QED BY <2>9, <2>10, <2>11, <2>12 DEF Answers, g
<1>3. ASSUME c >= 2, FindThreeChain(h, v, 3 * c) # Empty
      PROVE  Answers(FindThreeChain(h, v, 3 * c), h, "three_chain", v, 3 * c)
  <2> DEFINE R == ThreeRun(h, v, c)
             g == FindThreeChain(h, v, 3 * c)
  <2>1. g = Kind(3, R)
    <3>1. (3 * c) \div 3 = c
      OBVIOUS
    <3> QED BY <3>1 DEF FindThreeChain
  <2>2. c \in Nat \ {0}
    BY <1>3
  <2>3. R # {} => R \in Runs(c) /\ R \subseteq AtLeast(h, 3) /\ IsAbove(R, v)
    BY <2>2, ChainStocks
  <2> HIDE DEF R, g
  <2>4. R # {}
    BY <1>3, <2>1, NoCards DEF g
  <2>5. RunCards(g, h, 3, c, v)
    BY <2>1, <2>2, <2>3, <2>4, RunsAreCards
  <2>6. AtLeast(g, 1) \in SUBSET Rank
    BY DEF AtLeast
  <2>7. Of(g, 0, 0, c, 0) /\ RunOf(g, 3, 2) /\ Ranks(g, 3) = c
    BY <1>3, <2>5 DEF RunCards, Of, RunOf
  <2>8. Main(g) > v
    BY <2>5, <2>6, <2>7, LowestAbove, MainCards DEF Main, Of , RunCards
  <2>9. Size(g) = 3 * c
    BY <2>5, <2>7, SizesOfRuns, BagsAreBags DEF RunCards
  <2>10. IsPlay(g, "three_chain")
    BY <2>7 DEF IsPlay
  <2>11. ValueOf(g, "three_chain") > v
    BY <2>8 DEF ValueOf
  <2>12. g \in Hand /\ Part(g, h) /\ g # Empty
    BY <2>5 DEF RunCards
  <2> QED BY <2>9, <2>10, <2>11, <2>12 DEF Answers, g
<1> QED BY <1>1, <1>2, <1>3

LEMMA WingedChainAnswers ==
  ASSUME NEW h \in Hand, NEW v \in Nat, NEW c \in Nat, c >= 2
  PROVE  /\ FindThreeChainAndSingle(h, v, 4 * c) # Empty
              => Answers(FindThreeChainAndSingle(h, v, 4 * c), h, "three_chain_single", v, 4 * c)
         /\ FindThreeChainAndDouble(h, v, 5 * c) # Empty
              => Answers(FindThreeChainAndDouble(h, v, 5 * c), h, "three_chain_double", v, 5 * c)
<1> DEFINE R == ThreeRun(h, v, c)
<1>1. c \in Nat \ {0}
  OBVIOUS
<1>2. R # {} => R \in Runs(c) /\ R \subseteq AtLeast(h, 3) /\ IsAbove(R, v)
  BY <1>1, ChainStocks
<1>3. R \in SUBSET AtLeast(h, 3)
  BY <1>2
<1> HIDE DEF R
<1>4. ASSUME FindThreeChainAndSingle(h, v, 4 * c) # Empty
      PROVE  Answers(FindThreeChainAndSingle(h, v, 4 * c), h, "three_chain_single", v, 4 * c)
  <2> DEFINE g == FindThreeChainAndSingle(h, v, 4 * c)
  <2>1. g = WithWings(h, 3, R, c, 1)
    <3>1. (4 * c) \div 4 = c
      OBVIOUS
    <3> QED BY <3>1 DEF FindThreeChainAndSingle, R
  <2> HIDE DEF g
  <2>2. HasWings(g, h, 3, R, c, 1)
    <3>1. 3 \in 3..4 /\ 1 \in 1..2
      OBVIOUS
    <3>2. WithWings(h, 3, R, c, 1) # Empty
      BY <1>4, <2>1 DEF g
    <3> QED BY <1>1, <1>3, <2>1, <3>1, <3>2, WithWingsFinds
  <2>3. R # {} /\ Exactly(g, 3) = R /\ R \in Runs(c) /\ IsAbove(R, v) /\ g \in Hand
        /\ Part(g, h) /\ Cardinality(R) = c
    BY <1>2, <2>2 DEF HasWings, Runs
  <2>4. Of(g, c, 0, c, 0) /\ RunOf(g, 3, 2) /\ Ranks(g, 3) = c
    BY <2>2, <2>3 DEF HasWings, Of, RunOf
  <2>5. AtLeast(g, 3) = R /\ R \in SUBSET Rank
    BY <2>3, <2>4, MainCards DEF Of, Exactly
  <2>6. Main(g) > v
    BY <2>3, <2>5, LowestAbove DEF Main
  <2>7. Size(g) = 4 * c
    BY <2>3, <2>4, SizesOfRuns, BagsAreBags
  <2>8. IsPlay(g, "three_chain_single")
    BY <2>4 DEF IsPlay
  <2>9. ValueOf(g, "three_chain_single") > v
    BY <2>6 DEF ValueOf
  <2> QED BY <1>4, <2>3, <2>7, <2>8, <2>9 DEF Answers, g
<1>5. ASSUME FindThreeChainAndDouble(h, v, 5 * c) # Empty
      PROVE  Answers(FindThreeChainAndDouble(h, v, 5 * c), h, "three_chain_double", v, 5 * c)
  <2> DEFINE g == FindThreeChainAndDouble(h, v, 5 * c)
  <2>1. g = WithWings(h, 3, R, c, 2)
    <3>1. (5 * c) \div 5 = c
      OBVIOUS
    <3> QED BY <3>1 DEF FindThreeChainAndDouble, R
  <2> HIDE DEF g
  <2>2. HasWings(g, h, 3, R, c, 2)
    <3>1. 3 \in 3..4 /\ 2 \in 1..2
      OBVIOUS
    <3>2. WithWings(h, 3, R, c, 2) # Empty
      BY <1>5, <2>1 DEF g
    <3> QED BY <1>1, <1>3, <2>1, <3>1, <3>2, WithWingsFinds
  <2>3. R # {} /\ Exactly(g, 3) = R /\ R \in Runs(c) /\ IsAbove(R, v) /\ g \in Hand
        /\ Part(g, h) /\ Cardinality(R) = c
    BY <1>2, <2>2 DEF HasWings, Runs
  <2>4. Of(g, 0, c, c, 0) /\ RunOf(g, 3, 2) /\ Ranks(g, 3) = c
    BY <2>2, <2>3 DEF HasWings, Of, RunOf
  <2>5. AtLeast(g, 3) = R /\ R \in SUBSET Rank
    BY <2>3, <2>4, MainCards DEF Of, Exactly
  <2>6. Main(g) > v
    BY <2>3, <2>5, LowestAbove DEF Main
  <2>7. Size(g) = 5 * c
    BY <2>3, <2>4, SizesOfRuns, BagsAreBags
  <2>8. IsPlay(g, "three_chain_double")
    BY <2>4 DEF IsPlay
  <2>9. ValueOf(g, "three_chain_double") > v
    BY <2>6 DEF ValueOf
  <2> QED BY <1>5, <2>3, <2>7, <2>8, <2>9 DEF Answers, g
<1> QED BY <1>4, <1>5

\* If there is a play of the same type that is worth more, the finder finds one.
LEMMA SpareRanks ==
  ASSUME NEW A \in SUBSET Rank, NEW B \in SUBSET A, NEW S \in SUBSET A, NEW n \in Nat,
         Cardinality(B) >= Cardinality(S) + n
  PROVE  Cardinality(A \ S) >= n
<1>1. /\ IsFiniteSet(A) /\ Cardinality(A) \in Nat
      /\ Cardinality(B) \in Nat /\ Cardinality(S) \in Nat
  <2>1. B \in SUBSET Rank /\ S \in SUBSET Rank
    OBVIOUS
  <2> QED BY <2>1, SubsetsOfRank
<1>2. Cardinality(B) <= Cardinality(A)
  BY <1>1, FS_Subset
<1>3. A \cap S = S
  OBVIOUS
<1>4. Cardinality(A \ S) = Cardinality(A) - Cardinality(S)
  BY <1>1, <1>3, FS_Difference
<1> QED BY <1>1, <1>2, <1>4

LEMMA PlainFound ==
  ASSUME NEW h \in Hand, NEW v \in Nat, NEW g, NEW n
  PROVE  /\ Answers(g, h, "single", v, n) => FindSingle(h, v) # Empty
         /\ Answers(g, h, "double", v, n) => FindDouble(h, v) # Empty
         /\ Answers(g, h, "three", v, n) => FindThree(h, v) # Empty
         /\ Answers(g, h, "bomb", v, n) => FindFour(h, v) # Empty
<1>1. ASSUME Answers(g, h, "single", v, n) PROVE FindSingle(h, v) # Empty
  <2>1. g \in Hand /\ Part(g, h) /\ Of(g, 1, 0, 0, 0) /\ Low(g) > v
    BY <1>1 DEF Answers, IsPlay, ValueOf
  <2>2. AtLeast(g, 1) = Exactly(g, 1) /\ Exactly(g, 1) # {}
    BY <2>1, OnlyOne, NoneOf, BagsAreBags DEF Of
  <2>3. Low(g) \in Exactly(g, 1)
    <3>1. AtLeast(g, 1) \in SUBSET Rank
      BY DEF AtLeast
    <3> QED BY <2>2, <3>1, LeastRank DEF Low
  <2>4. Low(g) \in AtLeast(g, 1)
    BY <2>3 DEF Exactly, AtLeast
  <2>5. Low(g) \in AtLeast(h, 1)
    BY <2>1, <2>4, PartsAtLeast
  <2> QED BY <2>1, <2>5, KindFinds DEF FindSingle
<1>2. ASSUME Answers(g, h, "double", v, n) PROVE FindDouble(h, v) # Empty
  <2>1. g \in Hand /\ Part(g, h) /\ Of(g, 0, 1, 0, 0) /\ Low(g) > v
    BY <1>2 DEF Answers, IsPlay, ValueOf
  <2>2. AtLeast(g, 1) = Exactly(g, 2) /\ Exactly(g, 2) # {}
    BY <2>1, OnlyOne, NoneOf, BagsAreBags DEF Of
  <2>3. Low(g) \in Exactly(g, 2)
    <3>1. AtLeast(g, 1) \in SUBSET Rank
      BY DEF AtLeast
    <3> QED BY <2>2, <3>1, LeastRank DEF Low
  <2>4. Low(g) \in AtLeast(g, 2)
    BY <2>3 DEF Exactly, AtLeast
  <2>5. Low(g) \in AtLeast(h, 2)
    BY <2>1, <2>4, PartsAtLeast
  <2> QED BY <2>1, <2>5, KindFinds DEF FindDouble
<1>3. ASSUME Answers(g, h, "three", v, n) PROVE FindThree(h, v) # Empty
  <2>1. g \in Hand /\ Part(g, h) /\ Of(g, 0, 0, 1, 0) /\ Low(g) > v
    BY <1>3 DEF Answers, IsPlay, ValueOf, Triple
  <2>2. AtLeast(g, 1) = Exactly(g, 3) /\ Exactly(g, 3) # {}
    BY <2>1, OnlyOne, NoneOf, BagsAreBags DEF Of
  <2>3. Low(g) \in Exactly(g, 3)
    <3>1. AtLeast(g, 1) \in SUBSET Rank
      BY DEF AtLeast
    <3> QED BY <2>2, <3>1, LeastRank DEF Low
  <2>4. Low(g) \in AtLeast(g, 3)
    BY <2>3 DEF Exactly, AtLeast
  <2>5. Low(g) \in AtLeast(h, 3)
    BY <2>1, <2>4, PartsAtLeast
  <2> QED BY <2>1, <2>5, KindFinds DEF FindThree
<1>4. ASSUME Answers(g, h, "bomb", v, n) PROVE FindFour(h, v) # Empty
  <2>1. g \in Hand /\ Part(g, h) /\ Of(g, 0, 0, 0, 1) /\ Main(g) > v
    BY <1>4 DEF Answers, IsPlay, ValueOf
  <2>2. AtLeast(g, 3) = Exactly(g, 4) /\ Exactly(g, 4) # {}
    BY <2>1, MainCards, NoneOf, BagsAreBags DEF Of
  <2>3. Main(g) \in Exactly(g, 4)
    <3>1. AtLeast(g, 3) \in SUBSET Rank
      BY DEF AtLeast
    <3> QED BY <2>2, <3>1, LeastRank DEF Main
  <2>4. Main(g) \in AtLeast(g, 4)
    BY <2>3 DEF Exactly, AtLeast
  <2>5. Main(g) \in AtLeast(h, 4)
    BY <2>1, <2>4, PartsAtLeast
  <2> QED BY <2>1, <2>5, KindFinds DEF FindFour
<1> QED BY <1>1, <1>2, <1>3, <1>4

\* How many ranks of a hand have a card, or two.
LEMMA CountAtLeast ==
  ASSUME NEW g \in Hand
  PROVE  /\ Cardinality(AtLeast(g, 1))
              = Ranks(g, 1) + Ranks(g, 2) + Ranks(g, 3) + Ranks(g, 4)
         /\ Ranks(g, 1) = 0 => Cardinality(AtLeast(g, 2)) = Ranks(g, 2) + Ranks(g, 3) + Ranks(g, 4)
<1>1. Cardinality(AtLeast(g, 1)) = Ranks(g, 1) + Ranks(g, 2) + Ranks(g, 3) + Ranks(g, 4)
  BY SizeByCount, BagsAreBags
<1>2. Ranks(g, 1) = 0 => AtLeast(g, 1) = AtLeast(g, 2)
  <2>1. AtLeast(g, 1) = Exactly(g, 1) \cup AtLeast(g, 2)
    BY ByCount, BagsAreBags
  <2>2. Ranks(g, 1) = 0 => Exactly(g, 1) = {}
    BY NoneOf, BagsAreBags
  <2> QED BY <2>1, <2>2
<1> QED BY <1>1, <1>2, RanksAreCounts, BagsAreBags

LEMMA WingedFound ==
  ASSUME NEW h \in Hand, NEW v \in Nat, NEW g, NEW n
  PROVE  /\ Answers(g, h, "three_one", v, n) => FindThreeAndSingle(h, v) # Empty
         /\ Answers(g, h, "three_double", v, n) => FindThreeAndDouble(h, v) # Empty
<1> DEFINE S == FindKind(h, 3, v)
<1>1. /\ S = {} \/ \E r \in AtLeast(h, 3) : S = {r} /\ r > v
      /\ \A r \in AtLeast(h, 3) : r > v => S # {}
  BY FindKindFinds
<1> HIDE DEF S
<1>2. S \in SUBSET AtLeast(h, 3)
  BY <1>1
<1>3. S # {} => Cardinality(S) = 1
  BY <1>1, FS_Singleton
<1>4. \A w \in 1..2 : AtLeast(h, 3) \subseteq AtLeast(h, w) /\ AtLeast(h, w) \in SUBSET Rank
  BY HandsAreBags, BagsAreBags DEF AtLeast
<1>5. ASSUME Answers(g, h, "three_one", v, n) PROVE FindThreeAndSingle(h, v) # Empty
  <2>1. g \in Hand /\ Part(g, h) /\ Of(g, 1, 0, 1, 0) /\ Main(g) > v
    BY <1>5 DEF Answers, IsPlay, ValueOf
  <2>2. AtLeast(g, 3) = Exactly(g, 3) /\ Exactly(g, 3) # {}
    BY <2>1, MainCards, NoneOf, BagsAreBags DEF Of
  <2>3. Main(g) \in AtLeast(g, 3)
    <3>1. AtLeast(g, 3) \in SUBSET Rank
      BY DEF AtLeast
    <3> QED BY <2>2, <3>1, LeastRank DEF Main
  <2>4. S # {}
    BY <1>1, <2>1, <2>3, PartsAtLeast
  <2>5. Cardinality(AtLeast(g, 1)) = 2 /\ AtLeast(g, 1) \subseteq AtLeast(h, 1)
    BY <2>1, CountAtLeast, PartsAtLeast DEF Of
  <2>6. Cardinality(AtLeast(h, 1) \ S) >= 1
    <3>1. S \in SUBSET AtLeast(h, 1) /\ AtLeast(h, 1) \in SUBSET Rank
      BY <1>2, <1>4
    <3>2. Cardinality(AtLeast(g, 1)) >= Cardinality(S) + 1
      BY <1>3, <2>4, <2>5
    <3> QED BY <2>5, <3>1, <3>2, SpareRanks
  <2>7. WithWings(h, 3, S, 1, 1) # Empty
    <3>1. 3 \in 3..4 /\ 1 \in 1..2 /\ 1 \in Nat \ {0}
      OBVIOUS
    <3> QED BY <1>2, <2>4, <2>6, <3>1, WithWingsFinds
  <2> QED BY <2>7 DEF FindThreeAndSingle, S
<1>6. ASSUME Answers(g, h, "three_double", v, n) PROVE FindThreeAndDouble(h, v) # Empty
  <2>1. g \in Hand /\ Part(g, h) /\ Of(g, 0, 1, 1, 0) /\ Main(g) > v
    BY <1>6 DEF Answers, IsPlay, ValueOf
  <2>2. AtLeast(g, 3) = Exactly(g, 3) /\ Exactly(g, 3) # {}
    BY <2>1, MainCards, NoneOf, BagsAreBags DEF Of
  <2>3. Main(g) \in AtLeast(g, 3)
    <3>1. AtLeast(g, 3) \in SUBSET Rank
      BY DEF AtLeast
    <3> QED BY <2>2, <3>1, LeastRank DEF Main
  <2>4. S # {}
    BY <1>1, <2>1, <2>3, PartsAtLeast
  <2>5. Cardinality(AtLeast(g, 2)) = 2 /\ AtLeast(g, 2) \subseteq AtLeast(h, 2)
    BY <2>1, CountAtLeast, PartsAtLeast DEF Of
  <2>6. Cardinality(AtLeast(h, 2) \ S) >= 1
    <3>1. S \in SUBSET AtLeast(h, 2) /\ AtLeast(h, 2) \in SUBSET Rank
      BY <1>2, <1>4
    <3>2. Cardinality(AtLeast(g, 2)) >= Cardinality(S) + 1
      BY <1>3, <2>4, <2>5
    <3> QED BY <2>5, <3>1, <3>2, SpareRanks
  <2>7. WithWings(h, 3, S, 1, 2) # Empty
    <3>1. 3 \in 3..4 /\ 2 \in 1..2 /\ 1 \in Nat \ {0}
      OBVIOUS
    <3> QED BY <1>2, <2>4, <2>6, <3>1, WithWingsFinds
  <2> QED BY <2>7 DEF FindThreeAndDouble, S
<1> QED BY <1>5, <1>6

LEMMA NotBelow ==
  ASSUME NEW S \in SUBSET Rank, NEW v \in Nat, Min(S) > v
  PROVE  IsAbove(S, v)
<1>1. \A r \in S : r \in Nat /\ Min(S) <= r /\ Min(S) \in Nat
  BY LeastRank, RanksAreNumbers
<1> QED BY <1>1 DEF IsAbove

LEMMA ChainFound ==
  ASSUME NEW h \in Hand, NEW v \in Nat, NEW g, NEW n
  PROVE  /\ Answers(g, h, "single_chain", v, n) => FindSingleChain(h, v, n) # Empty
         /\ Answers(g, h, "double_chain", v, n) => FindDoubleChain(h, v, n) # Empty
         /\ Answers(g, h, "three_chain", v, n) => FindThreeChain(h, v, n) # Empty
<1>1. ASSUME Answers(g, h, "single_chain", v, n) PROVE FindSingleChain(h, v, n) # Empty
  <2> DEFINE c == Ranks(g, 1)
             R == FirstRun([i \in 1..4 |-> AtLeast(h, 1) \cap AtMost(h, i)], v, c)
  <2>1. /\ g \in Hand /\ Part(g, h) /\ Of(g, c, 0, 0, 0) /\ RunOf(g, 1, 5)
        /\ Low(g) > v /\ Size(g) = n
    BY <1>1 DEF Answers, IsPlay, ValueOf
  <2>2. c \in Nat \ {0} /\ c \in Nat
    BY <2>1, RanksAreCounts, BagsAreBags DEF RunOf
  <2>3. Exactly(g, 1) \in Runs(c)
    BY <2>1 DEF RunOf
  <2> HIDE DEF c, R
  <2>4. n = c
    BY <2>1, <2>2, SizesOfRuns, BagsAreBags
  <2>5. Low(g) = Min(Exactly(g, 1)) /\ Exactly(g, 1) \in SUBSET Rank
    BY <2>1, <2>2, OnlyOne, BagsAreBags DEF Low, Exactly
  <2>6. IsAbove(Exactly(g, 1), v)
    BY <2>1, <2>5, NotBelow
  <2>7. Exactly(g, 1) \subseteq AtLeast(h, 1)
    BY <2>1, PartsAtLeast DEF Exactly, AtLeast
  <2>8. R # {} /\ R \in Runs(c) /\ R \subseteq AtLeast(h, 1) /\ IsAbove(R, v)
    <3>1. /\ R # {} => R \in Runs(c) /\ R \subseteq AtLeast(h, 1) /\ IsAbove(R, v)
          /\ \A Q \in Runs(c) : Q \subseteq AtLeast(h, 1) /\ IsAbove(Q, v) => R # {}
      BY <2>2, ChainStocks DEF R
    <3> QED BY <2>3, <2>6, <2>7, <3>1
  <2>9. Kind(1, R) # Empty
    BY <2>2, <2>8, RunsAreCards DEF RunCards
  <2>10. FindSingleChain(h, v, n) = Kind(1, R)
    BY <2>4 DEF FindSingleChain, R
  <2> QED BY <2>9, <2>10
<1>2. ASSUME Answers(g, h, "double_chain", v, n) PROVE FindDoubleChain(h, v, n) # Empty
  <2> DEFINE c == Ranks(g, 2)
             R == FirstRun([i \in 2..4 |-> AtLeast(h, 2) \cap AtMost(h, i)], v, c)
  <2>1. /\ g \in Hand /\ Part(g, h) /\ Of(g, 0, c, 0, 0) /\ RunOf(g, 2, 3)
        /\ Low(g) > v /\ Size(g) = n
    BY <1>2 DEF Answers, IsPlay, ValueOf
  <2>2. c \in Nat \ {0} /\ c \in Nat
    BY <2>1, RanksAreCounts, BagsAreBags DEF RunOf
  <2>3. Exactly(g, 2) \in Runs(c)
    BY <2>1 DEF RunOf
  <2> HIDE DEF c, R
  <2>4. n = 2 * c
    BY <2>1, <2>2, SizesOfRuns, BagsAreBags
  <2>5. Low(g) = Min(Exactly(g, 2)) /\ Exactly(g, 2) \in SUBSET Rank
    BY <2>1, <2>2, OnlyOne, BagsAreBags DEF Low, Exactly
  <2>6. IsAbove(Exactly(g, 2), v)
    BY <2>1, <2>5, NotBelow
  <2>7. Exactly(g, 2) \subseteq AtLeast(h, 2)
    BY <2>1, PartsAtLeast DEF Exactly, AtLeast
  <2>8. R # {} /\ R \in Runs(c) /\ R \subseteq AtLeast(h, 2) /\ IsAbove(R, v)
    <3>1. /\ R # {} => R \in Runs(c) /\ R \subseteq AtLeast(h, 2) /\ IsAbove(R, v)
          /\ \A Q \in Runs(c) : Q \subseteq AtLeast(h, 2) /\ IsAbove(Q, v) => R # {}
      BY <2>2, ChainStocks DEF R
    <3> QED BY <2>3, <2>6, <2>7, <3>1
  <2>9. Kind(2, R) # Empty
    BY <2>2, <2>8, RunsAreCards DEF RunCards
  <2>10. FindDoubleChain(h, v, n) = Kind(2, R)
    <3>1. n \div 2 = c
      BY <2>2, <2>4
    <3> QED BY <3>1 DEF FindDoubleChain, R
  <2> QED BY <2>9, <2>10
<1>3. ASSUME Answers(g, h, "three_chain", v, n) PROVE FindThreeChain(h, v, n) # Empty
  <2> DEFINE c == Ranks(g, 3)
             R == ThreeRun(h, v, c)
  <2>1. /\ g \in Hand /\ Part(g, h) /\ Of(g, 0, 0, c, 0) /\ RunOf(g, 3, 2)
        /\ Main(g) > v /\ Size(g) = n
    BY <1>3 DEF Answers, IsPlay, ValueOf
  <2>2. c \in Nat \ {0} /\ c \in Nat
    BY <2>1, RanksAreCounts, BagsAreBags DEF RunOf
  <2>3. Exactly(g, 3) \in Runs(c)
    BY <2>1 DEF RunOf
  <2> HIDE DEF c, R
  <2>4. n = 3 * c
    BY <2>1, <2>2, SizesOfRuns, BagsAreBags
  <2>5. Main(g) = Min(Exactly(g, 3)) /\ Exactly(g, 3) \in SUBSET Rank
    BY <2>1, MainCards DEF Main, Exactly, Of
  <2>6. IsAbove(Exactly(g, 3), v)
    BY <2>1, <2>5, NotBelow
  <2>7. Exactly(g, 3) \subseteq AtLeast(h, 3)
    BY <2>1, PartsAtLeast DEF Exactly, AtLeast
  <2>8. R # {} /\ R \in Runs(c) /\ R \subseteq AtLeast(h, 3) /\ IsAbove(R, v)
    <3>1. /\ R # {} => R \in Runs(c) /\ R \subseteq AtLeast(h, 3) /\ IsAbove(R, v)
          /\ \A Q \in Runs(c) : Q \subseteq AtLeast(h, 3) /\ IsAbove(Q, v) => R # {}
      BY <2>2, ChainStocks DEF R
    <3> QED BY <2>3, <2>6, <2>7, <3>1
  <2>9. Kind(3, R) # Empty
    BY <2>2, <2>8, RunsAreCards DEF RunCards
  <2>10. FindThreeChain(h, v, n) = Kind(3, R)
    <3>1. n \div 3 = c
      BY <2>2, <2>4
    <3> QED BY <3>1 DEF FindThreeChain, R
  <2> QED BY <2>9, <2>10
<1> QED BY <1>1, <1>2, <1>3

LEMMA WingedChainFound ==
  ASSUME NEW h \in Hand, NEW v \in Nat, NEW g, NEW n
  PROVE  /\ Answers(g, h, "three_chain_single", v, n) => FindThreeChainAndSingle(h, v, n) # Empty
         /\ Answers(g, h, "three_chain_double", v, n) => FindThreeChainAndDouble(h, v, n) # Empty
<1> DEFINE c == Ranks(g, 3)
           R == ThreeRun(h, v, c)
<1>1. ASSUME g \in Hand, Part(g, h), RunOf(g, 3, 2), Ranks(g, 4) = 0, Main(g) > v
      PROVE  c \in Nat \ {0} /\ R # {} /\ R \in SUBSET AtLeast(h, 3) /\ Cardinality(R) = c
  <2>1. c \in Nat \ {0} /\ c \in Nat /\ Exactly(g, 3) \in Runs(c)
    BY <1>1, RanksAreCounts, BagsAreBags DEF RunOf
  <2> HIDE DEF c, R
  <2>2. Main(g) = Min(Exactly(g, 3)) /\ Exactly(g, 3) \in SUBSET Rank
    BY <1>1, MainCards DEF Main, Exactly
  <2>3. IsAbove(Exactly(g, 3), v)
    BY <1>1, <2>2, NotBelow
  <2>4. Exactly(g, 3) \subseteq AtLeast(h, 3)
    BY <1>1, PartsAtLeast DEF Exactly, AtLeast
  <2>5. /\ R # {} => R \in Runs(c) /\ R \subseteq AtLeast(h, 3) /\ IsAbove(R, v)
        /\ \A Q \in Runs(c) : Q \subseteq AtLeast(h, 3) /\ IsAbove(Q, v) => R # {}
    BY <2>1, ChainStocks DEF R
  <2>6. R # {} /\ R \in Runs(c)
    BY <2>1, <2>3, <2>4, <2>5
  <2>7. Cardinality(R) = c
    BY <2>6 DEF Runs
  <2> QED BY <2>1, <2>5, <2>6, <2>7
<1>2. \A w \in 1..2 : AtLeast(h, 3) \subseteq AtLeast(h, w) /\ AtLeast(h, w) \in SUBSET Rank
  BY HandsAreBags, BagsAreBags DEF AtLeast
<1>3. ASSUME Answers(g, h, "three_chain_single", v, n)
      PROVE  FindThreeChainAndSingle(h, v, n) # Empty
  <2>1. /\ g \in Hand /\ Part(g, h) /\ Of(g, c, 0, c, 0) /\ RunOf(g, 3, 2)
        /\ Main(g) > v /\ Size(g) = n
    BY <1>3 DEF Answers, IsPlay, ValueOf
  <2>2. Ranks(g, 4) = 0
    BY <2>1 DEF Of
  <2>3. c \in Nat \ {0} /\ R # {} /\ R \in SUBSET AtLeast(h, 3) /\ Cardinality(R) = c
    BY <1>1, <2>1, <2>2
  <2> HIDE DEF c, R
  <2>4. n = 4 * c
    BY <2>1, <2>3, SizesOfRuns, BagsAreBags
  <2>5. Cardinality(AtLeast(g, 1)) = c + c /\ AtLeast(g, 1) \subseteq AtLeast(h, 1)
    BY <2>1, <2>3, CountAtLeast, PartsAtLeast DEF Of
  <2>6. Cardinality(AtLeast(h, 1) \ R) >= c
    <3>1. R \in SUBSET AtLeast(h, 1) /\ AtLeast(h, 1) \in SUBSET Rank
      BY <1>2, <2>3
    <3>2. Cardinality(AtLeast(g, 1)) >= Cardinality(R) + c
      BY <2>3, <2>5
    <3> QED BY <2>3, <2>5, <3>1, <3>2, SpareRanks
  <2>7. WithWings(h, 3, R, c, 1) # Empty
    <3>1. 3 \in 3..4 /\ 1 \in 1..2
      OBVIOUS
    <3> QED BY <2>3, <2>6, <3>1, WithWingsFinds
  <2>8. n \div 4 = c
    BY <2>3, <2>4
  <2> QED BY <2>7, <2>8 DEF FindThreeChainAndSingle, R
<1>4. ASSUME Answers(g, h, "three_chain_double", v, n)
      PROVE  FindThreeChainAndDouble(h, v, n) # Empty
  <2>1. /\ g \in Hand /\ Part(g, h) /\ Of(g, 0, c, c, 0) /\ RunOf(g, 3, 2)
        /\ Main(g) > v /\ Size(g) = n
    BY <1>4 DEF Answers, IsPlay, ValueOf
  <2>2. Ranks(g, 4) = 0
    BY <2>1 DEF Of
  <2>3. c \in Nat \ {0} /\ R # {} /\ R \in SUBSET AtLeast(h, 3) /\ Cardinality(R) = c
    BY <1>1, <2>1, <2>2
  <2> HIDE DEF c, R
  <2>4. n = 5 * c
    BY <2>1, <2>3, SizesOfRuns, BagsAreBags
  <2>5. Cardinality(AtLeast(g, 2)) = c + c /\ AtLeast(g, 2) \subseteq AtLeast(h, 2)
    BY <2>1, <2>3, CountAtLeast, PartsAtLeast DEF Of
  <2>6. Cardinality(AtLeast(h, 2) \ R) >= c
    <3>1. R \in SUBSET AtLeast(h, 2) /\ AtLeast(h, 2) \in SUBSET Rank
      BY <1>2, <2>3
    <3>2. Cardinality(AtLeast(g, 2)) >= Cardinality(R) + c
      BY <2>3, <2>5
    <3> QED BY <2>3, <2>5, <3>1, <3>2, SpareRanks
  <2>7. WithWings(h, 3, R, c, 2) # Empty
    <3>1. 3 \in 3..4 /\ 2 \in 1..2
      OBVIOUS
    <3> QED BY <2>3, <2>6, <3>1, WithWingsFinds
  <2>8. n \div 5 = c
    BY <2>3, <2>4
  <2> QED BY <2>7, <2>8 DEF FindThreeChainAndDouble, R
<1> QED BY <1>3, <1>4

--------------------------------------------------------------------------
(* The answer to a last play *)

\* How many cards a play of a type has.
IsLength(t, n) ==
  \/ t = "single" /\ n = 1
  \/ t \in {"double", "double_joker"} /\ n = 2
  \/ t = "three" /\ n = 3
  \/ t \in {"bomb", "three_one"} /\ n = 4
  \/ t = "three_double" /\ n = 5
  \/ t = "four_two_single" /\ n = 6
  \/ t = "four_two_double" /\ n = 8
  \/ t = "single_chain" /\ \E c \in Nat : c >= 5 /\ n = c
  \/ t = "double_chain" /\ \E c \in Nat : c >= 3 /\ n = 2 * c
  \/ t = "three_chain" /\ \E c \in Nat : c >= 2 /\ n = 3 * c
  \/ t = "three_chain_single" /\ \E c \in Nat : c >= 2 /\ n = 4 * c
  \/ t = "three_chain_double" /\ \E c \in Nat : c >= 2 /\ n = 5 * c

\* A play has as many cards as its type says.
LEMMA LengthOfPlay ==
  ASSUME NEW g \in Counts, NEW t \in Type, IsPlay(g, t)
  PROVE  IsLength(t, Size(g))
<1> DEFINE n == Size(g)
<1>1. ASSUME IsPlay(g, "single_chain") PROVE \E c \in Nat : c >= 5 /\ n = c
  BY <1>1, SizesOfRuns, RanksAreCounts DEF IsPlay, RunOf
<1>2. ASSUME IsPlay(g, "double_chain") PROVE \E c \in Nat : c >= 3 /\ n = 2 * c
  BY <1>2, SizesOfRuns, RanksAreCounts DEF IsPlay, RunOf
<1>3. ASSUME IsPlay(g, "three_chain") PROVE \E c \in Nat : c >= 2 /\ n = 3 * c
  BY <1>3, SizesOfRuns, RanksAreCounts DEF IsPlay, RunOf
<1>4. ASSUME IsPlay(g, "three_chain_single") PROVE \E c \in Nat : c >= 2 /\ n = 4 * c
  BY <1>4, SizesOfRuns, RanksAreCounts DEF IsPlay, RunOf
<1>5. ASSUME IsPlay(g, "three_chain_double") PROVE \E c \in Nat : c >= 2 /\ n = 5 * c
  BY <1>5, SizesOfRuns, RanksAreCounts DEF IsPlay, RunOf
<1>6. CASE t \notin {"single_chain", "double_chain", "three_chain",
                     "three_chain_single", "three_chain_double"}
  BY <1>6, SizesOfPlays DEF IsPlay, IsLength, Triple
<1>7. CASE t \in {"single_chain", "double_chain", "three_chain",
                  "three_chain_single", "three_chain_double"}
  <2> HIDE DEF n
  <2>1. IsLength(t, n)
    BY <1>1, <1>2, <1>3, <1>4, <1>5, <1>7 DEF IsLength
  <2> QED BY <2>1 DEF n
<1> QED BY <1>6, <1>7

\* And a value that is a rank.
LEMMA ValueOfPlay ==
  ASSUME NEW g \in Counts, NEW t \in Type, IsPlay(g, t)
  PROVE  /\ ValueOf(g, t) \in Nat /\ ValueOf(g, t) > 0
         /\ t = "double_joker" => ValueOf(g, t) = LittleJoker
<1>1. \A k \in 1..4 : AtLeast(g, k) \in SUBSET Rank
  BY DEF AtLeast
<1>2. \A S \in SUBSET Rank : S # {} => Min(S) \in Nat /\ Min(S) > 0
  <2>1. \A r \in Rank : r \in Nat /\ r > 0
    BY RanksAreNumbers
  <2>2. \A S \in SUBSET Rank : S # {} => Min(S) \in Rank
    BY LeastRank
  <2> QED BY <2>1, <2>2
<1>3. AtLeast(g, 1) # {} => Low(g) \in Nat /\ Low(g) > 0
  BY <1>1, <1>2 DEF Low
<1>4. AtLeast(g, 3) # {} => Main(g) \in Nat /\ Main(g) > 0
  BY <1>1, <1>2 DEF Main
<1>5. \/ Ranks(g, 1) # 0 \/ Ranks(g, 2) # 0 \/ Ranks(g, 3) # 0 \/ Ranks(g, 4) # 0
  BY DEF IsPlay, Of, RunOf, Triple
<1>6. t \notin {"single", "double", "three", "double_joker", "single_chain", "double_chain"}
        => Ranks(g, 3) # 0 \/ Ranks(g, 4) # 0
  BY DEF IsPlay, Of, RunOf, Triple
<1>7. AtLeast(g, 1) # {}
  BY <1>5, ByCount, NoneOf
<1>8. Ranks(g, 3) # 0 \/ Ranks(g, 4) # 0 => AtLeast(g, 3) # {}
  BY ByCount, NoneOf
<1>9. t = "double_joker" => Low(g) = LittleJoker
  <2> SUFFICES ASSUME t = "double_joker" PROVE Low(g) = LittleJoker
    OBVIOUS
  <2>1. Of(g, 2, 0, 0, 0) /\ Exactly(g, 1) = {LittleJoker, BigJoker}
    BY DEF IsPlay
  <2>2. AtLeast(g, 1) = {LittleJoker, BigJoker}
    BY <2>1, OnlyOne
  <2>3. Low(g) \in AtLeast(g, 1) /\ \A r \in AtLeast(g, 1) : Low(g) <= r
    BY <1>1, <1>7, LeastRank DEF Low
  <2> QED BY <2>2, <2>3 DEF LittleJoker, BigJoker
<1> QED BY <1>3, <1>4, <1>6, <1>7, <1>8, <1>9 DEF ValueOf

\* What is found of the same type is worth more and is as long.
LEMMA SameAnswers ==
  ASSUME NEW h \in Hand, NEW t \in Type, NEW v \in Nat, NEW n, IsLength(t, n),
         FindSame(Info(t, v, n), h) # Empty
  PROVE  Answers(FindSame(Info(t, v, n), h), h, t, v, n)
<1> DEFINE p == Info(t, v, n)
           a == FindSame(p, h)
<1>1. p.type = t /\ p.value = v /\ p.length = n /\ a # Empty
  BY DEF Info
<1> HIDE DEF p
<1>2. /\ t = "single" => a = FindSingle(h, v)
      /\ t = "double" => a = FindDouble(h, v)
      /\ t = "three" => a = FindThree(h, v)
      /\ t = "bomb" => a = FindFour(h, v)
      /\ t = "three_one" => a = FindThreeAndSingle(h, v)
      /\ t = "three_double" => a = FindThreeAndDouble(h, v)
      /\ t = "four_two_single" => a = FindFourAndTwoSingle(h, v)
      /\ t = "four_two_double" => a = FindFourAndTwoDouble(h, v)
      /\ t = "single_chain" => a = FindSingleChain(h, v, n)
      /\ t = "double_chain" => a = FindDoubleChain(h, v, n)
      /\ t = "three_chain" => a = FindThreeChain(h, v, n)
      /\ t = "three_chain_single" => a = FindThreeChainAndSingle(h, v, n)
      /\ t = "three_chain_double" => a = FindThreeChainAndDouble(h, v, n)
      /\ t = "double_joker" => a = Empty
  BY <1>1 DEF FindSame
<1>3. a = FindSame(Info(t, v, n), h)
  BY DEF p
<1> HIDE DEF a
<1>4. ASSUME t \in {"single", "double", "three", "bomb"} PROVE Answers(a, h, t, v, n)
  BY <1>1, <1>2, <1>4, PlainAnswers DEF IsLength
<1>5. ASSUME t \in {"three_one", "three_double", "four_two_single", "four_two_double"}
      PROVE  Answers(a, h, t, v, n)
  BY <1>1, <1>2, <1>5, WingedAnswers DEF IsLength
<1>6. ASSUME t \in {"single_chain", "double_chain", "three_chain"}
      PROVE  Answers(a, h, t, v, n)
  BY <1>1, <1>2, <1>6, ChainAnswers DEF IsLength
<1>7. ASSUME t \in {"three_chain_single", "three_chain_double"}
      PROVE  Answers(a, h, t, v, n)
  BY <1>1, <1>2, <1>7, WingedChainAnswers DEF IsLength
<1>8. t # "double_joker"
  BY <1>1, <1>2
<1>9. Answers(a, h, t, v, n)
  BY <1>4, <1>5, <1>6, <1>7, <1>8 DEF Type
<1> QED BY <1>3, <1>9

\* And something is found when there is one.  Fours with two others are the
\* exception: the finder asks for two ranks where a pair would do.
LEMMA SameFound ==
  ASSUME NEW h \in Hand, NEW t \in Type, NEW v \in Nat, NEW n, NEW g,
         Answers(g, h, t, v, n),
         t \notin {"four_two_single", "four_two_double", "double_joker"}
  PROVE  FindSame(Info(t, v, n), h) # Empty
<1> DEFINE p == Info(t, v, n)
<1>1. p.type = t /\ p.value = v /\ p.length = n
  BY DEF Info
<1> HIDE DEF p
<1>2. CASE t \in {"single", "double", "three", "bomb"}
  BY <1>1, <1>2, PlainFound DEF FindSame, p
<1>3. CASE t \in {"three_one", "three_double"}
  BY <1>1, <1>3, WingedFound DEF FindSame, p
<1>4. CASE t \in {"single_chain", "double_chain", "three_chain"}
  BY <1>1, <1>4, ChainFound DEF FindSame, p
<1>5. CASE t \in {"three_chain_single", "three_chain_double"}
  BY <1>1, <1>5, WingedChainFound DEF FindSame, p
<1> QED BY <1>2, <1>3, <1>4, <1>5 DEF Type

\* The two jokers are found, and are the play of two jokers.
LEMMA JokersFound ==
  ASSUME NEW h \in Hand
  PROVE  /\ FindDoubleJoker(h) # Empty
              => Answers(FindDoubleJoker(h), h, "double_joker", 0, 2)
         /\ \A g \in Hand : Part(g, h) /\ IsPlay(g, "double_joker")
              => FindDoubleJoker(h) # Empty
<1> DEFINE S == {LittleJoker, BigJoker}
           J == Kind(1, S)
<1>1. LittleJoker \in Rank /\ BigJoker \in Rank /\ S \in SUBSET Rank /\ S # {}
  BY RanksAreNumbers DEF LittleJoker, BigJoker
<1>2. \A r \in Rank : h[r] \in 0..4
  BY HandsAreBags, BagsAreBags
<1>3. h[LittleJoker] <= 1 /\ h[BigJoker] <= 1
  BY <1>1 DEF Hand, Copies
<1>4. h[LittleJoker] = 1 /\ h[BigJoker] = 1 => S \in SUBSET AtLeast(h, 1)
  BY <1>1 DEF AtLeast
<1>5. FindDoubleJoker(h) = IF h[LittleJoker] = 1 /\ h[BigJoker] = 1 THEN J ELSE Empty
  BY DEF FindDoubleJoker
<1>6. Exactly(J, 1) = S => Ranks(J, 1) = 2
  BY JokersAreTwo
<1> HIDE DEF S
<1>7. ASSUME h[LittleJoker] = 1, h[BigJoker] = 1
      PROVE  J # Empty /\ Answers(J, h, "double_joker", 0, 2)
  <2>1. S \in SUBSET AtLeast(h, 1)
    BY <1>4, <1>7
  <2>2. 1 \in 1..4
    OBVIOUS
  <2>3. /\ J \in Hand /\ Part(J, h) /\ J # Empty
        /\ Exactly(J, 1) = S
        /\ \A j \in 1..4 : j # 1 => Ranks(J, j) = 0
    BY <1>1, <2>1, <2>2, AlikeCards
  <2> HIDE DEF J
  <2>4. Of(J, 2, 0, 0, 0)
    BY <1>6, <2>3 DEF Of
  <2>5. IsPlay(J, "double_joker")
    BY <2>3, <2>4 DEF IsPlay, S
  <2>6. "double_joker" \in Type
    BY DEF Type
  <2>7. ValueOf(J, "double_joker") > 0
    BY <2>3, <2>5, <2>6, ValueOfPlay, BagsAreBags
  <2>8. Size(J) = 2
    BY <2>3, <2>4, SizesOfPlays, BagsAreBags
  <2> QED BY <2>3, <2>5, <2>7, <2>8 DEF Answers
<1>8. ASSUME NEW g \in Hand, Part(g, h), IsPlay(g, "double_joker")
      PROVE  h[LittleJoker] = 1 /\ h[BigJoker] = 1
  <2>1. Exactly(g, 1) = {LittleJoker, BigJoker}
    BY <1>8 DEF IsPlay
  <2>2. g[LittleJoker] = 1 /\ g[BigJoker] = 1
    BY <2>1 DEF Exactly
  <2>3. h[LittleJoker] >= 1 /\ h[BigJoker] >= 1
    BY <1>1, <1>8, <2>2 DEF Part
  <2> QED BY <1>1, <1>2, <1>3, <2>3
<1> HIDE DEF J
<1> QED BY <1>5, <1>7, <1>8

\* Four of a rank are a bomb for whoever has them.
LEMMA BombsFound ==
  ASSUME NEW h \in Hand, NEW g \in Hand, Part(g, h), Ranks(g, 4) # 0
  PROVE  FindFour(h, 0) # Empty /\ Size(h) \in Nat /\ Size(h) >= 4
<1>1. AtLeast(g, 4) # {} /\ AtLeast(g, 4) \subseteq AtLeast(h, 4)
  BY ByCount, NoneOf, PartsAtLeast, BagsAreBags
<1>2. PICK r \in AtLeast(h, 4) : TRUE
  BY <1>1
<1>3. r > 0
  BY RanksAreNumbers DEF AtLeast
<1>4. FindFour(h, 0) # Empty
  BY <1>3, KindFinds DEF FindFour
<1>5. Ranks(h, 4) # 0
  BY <1>2, ByCount, NoneOf, BagsAreBags
<1>6. /\ Size(h) = Ranks(h, 1) + 2 * Ranks(h, 2) + 3 * Ranks(h, 3) + 4 * Ranks(h, 4)
      /\ Ranks(h, 1) \in Nat /\ Ranks(h, 2) \in Nat
      /\ Ranks(h, 3) \in Nat /\ Ranks(h, 4) \in Nat
  BY SizeByCount, RanksAreCounts, BagsAreBags
<1>7. \A a, b, c, d \in Nat : d # 0 =>
        a + 2 * b + 3 * c + 4 * d \in Nat /\ a + 2 * b + 3 * c + 4 * d >= 4
  OBVIOUS
<1>8. Size(h) \in Nat /\ Size(h) >= 4
  BY <1>5, <1>6, <1>7
<1> QED BY <1>4, <1>8

Beats(g, h, p) == g \in Playable /\ IsLarge(Parse(g), p) /\ Part(g, h)

\* The last plays that a robot can be asked to beat.
IsPlayInfo(p) ==
  \E t \in Type, v \in Nat, n \in 1..19 :
    /\ p = Info(t, v, n) /\ IsLength(t, n)
    /\ t = "double_joker" => v = LittleJoker

\* Every play is parsed, and its poker_info can be answered.
LEMMA PlaysAreParsed ==
  ASSUME NEW g \in Playable
  PROVE  /\ g \in Hand /\ IsPlayInfo(Parse(g))
         /\ \E t \in Type : /\ IsPlay(g, t)
                            /\ Parse(g) = Info(t, ValueOf(g, t), Size(g))
                            /\ Size(g) \in 1..19
<1>1. PICK t \in Type : g \in Shape(t)
  BY DEF Playable
<1>2. g \in Hand
  BY <1>1 DEF Shape, Legal
<1>3. Size(g) < 20 /\ IsPlay(g, t)
  BY <1>1, <1>2, ShapeByCount
<1>4. Parse(g) = Info(t, ValueOf(g, t), Size(g)) /\ Size(g) \in 1..19
  BY <1>2, <1>3, ParsesPlays, BagsAreBags
<1>5. IsLength(t, Size(g))
  BY <1>2, <1>3, LengthOfPlay, BagsAreBags
<1>6. ValueOf(g, t) \in Nat /\ (t = "double_joker" => ValueOf(g, t) = LittleJoker)
  BY <1>2, <1>3, ValueOfPlay, BagsAreBags
<1>7. IsPlayInfo(Parse(g))
  BY <1>4, <1>5, <1>6 DEF IsPlayInfo
<1> QED BY <1>2, <1>3, <1>4, <1>7

LEMMA AnswersArePlays ==
  ASSUME NEW h \in Hand, NEW t \in Type, NEW v, NEW n, NEW g, Answers(g, h, t, v, n), n < 20
  PROVE  g \in Playable /\ Part(g, h) /\ Parse(g) = Info(t, ValueOf(g, t), n)
<1>1. g \in Hand /\ Part(g, h) /\ IsPlay(g, t) /\ Size(g) = n
  BY DEF Answers
<1>2. Parse(g) = Info(t, ValueOf(g, t), n)
  BY <1>1, ParsesPlays, BagsAreBags
<1>3. g \in Shape(t)
  BY <1>1, ShapeByCount
<1> QED BY <1>1, <1>2, <1>3 DEF Playable

\* An answer is of the hand, is a play, and beats the last one.
LEMMA AnswerIsLarger ==
  ASSUME NEW h \in Hand, NEW p, p = Zero \/ IsPlayInfo(p), FindBigPokers(p, h) # Empty
  PROVE  Beats(FindBigPokers(p, h), h, p)
<1> DEFINE a == FindBigPokers(p, h)
           same == FindSame(p, h)
<1>1. \A t, v, n : /\ Info(t, v, n).type = t /\ Info(t, v, n).value = v
                   /\ Info(t, v, n).length = n
  BY DEF Info
<1>2. 0 \in Nat /\ {"single", "bomb", "double_joker"} \subseteq Type
  BY DEF Type
<1>3. a = IF same # Empty \/ p.type \in {"zero", "double_joker"} THEN same
          ELSE IF p.type = "bomb" THEN FindDoubleJoker(h)
          ELSE FindBombOrDoubleJoker(h)
  BY DEF FindBigPokers
<1>4. FindDoubleJoker(h) # Empty =>
        LET g == FindDoubleJoker(h) IN
        g \in Playable /\ Part(g, h) /\ Parse(g).type = "double_joker"
  BY <1>1, <1>2, JokersFound, AnswersArePlays
<1>5. FindFour(h, 0) # Empty =>
        LET g == FindFour(h, 0) IN
        g \in Playable /\ Part(g, h) /\ Parse(g).type = "bomb"
  BY <1>1, <1>2, PlainAnswers, AnswersArePlays
<1>6. FindSingle(h, 0) # Empty =>
        LET g == FindSingle(h, 0) IN
        g \in Playable /\ Part(g, h) /\ Parse(g).type = "single"
  BY <1>1, <1>2, PlainAnswers, AnswersArePlays
<1>7. Zero.type = "zero" /\ FindSame(Zero, h) = FindSingle(h, 0)
  <2>1. Zero.type = "zero"
    BY <1>1 DEF Zero
  <2> QED BY <2>1 DEF FindSame
<1> HIDE DEF a, same
<1>8. CASE p = Zero
  <2>1. a = FindSingle(h, 0)
    BY <1>3, <1>7, <1>8 DEF same
  <2>2. a \in Playable /\ Part(a, h) /\ Parse(a).type = "single"
    BY <1>6, <2>1 DEF a
  <2>3. IsLarge(Parse(a), p)
    BY <1>7, <1>8, <2>2 DEF IsLarge
  <2> QED BY <2>2, <2>3 DEF Beats, a
<1>9. CASE IsPlayInfo(p)
  <2>1. PICK t \in Type, v \in Nat, n \in 1..19 : p = Info(t, v, n) /\ IsLength(t, n)
    BY <1>9 DEF IsPlayInfo
  <2>2. p.type = t /\ p.value = v /\ p.length = n /\ t # "zero"
    BY <1>1, <2>1 DEF Type
  <2>3. CASE same # Empty
    <3>1. a = same /\ Answers(same, h, t, v, n) /\ n < 20
      BY <1>3, <2>1, <2>3, SameAnswers DEF same
    <3>2. a \in Playable /\ Part(a, h) /\ Parse(a) = Info(t, ValueOf(a, t), n)
      BY <3>1, AnswersArePlays
    <3>3. ValueOf(a, t) > v
      BY <3>1 DEF Answers
    <3>4. IsLarge(Parse(a), p)
      BY <1>1, <2>2, <3>2, <3>3 DEF IsLarge
    <3> QED BY <3>2, <3>4 DEF Beats, a
  <2>4. CASE same = Empty
    <3>1. t # "double_joker" /\ a # Empty
      BY <1>3, <2>2, <2>4 DEF a
    <3>2. \/ a = FindDoubleJoker(h)
          \/ a = FindFour(h, 0) /\ t # "bomb"
      BY <1>3, <2>2, <2>4, <3>1 DEF FindBombOrDoubleJoker
    <3>3. \/ a \in Playable /\ Part(a, h) /\ Parse(a).type = "double_joker"
          \/ a \in Playable /\ Part(a, h) /\ Parse(a).type = "bomb" /\ t # "bomb"
      BY <1>4, <1>5, <3>1, <3>2
    <3>4. IsLarge(Parse(a), p)
      BY <2>2, <3>1, <3>3 DEF IsLarge
    <3> QED BY <3>3, <3>4 DEF Beats, a
  <2> QED BY <2>3, <2>4
<1> QED BY <1>8, <1>9

\* No answer is given only if nothing beats the last play, or nothing but the two
\* jokers, which are kept.
LEMMA NoAnswerNoPlay ==
  ASSUME NEW h \in Hand, NEW p, p = Zero \/ IsPlayInfo(p), FindBigPokers(p, h) = Empty,
         NEW g, Beats(g, h, p)
  PROVE  Parse(g).type = "double_joker" /\ Kept(h, p)
<1>1. g \in Hand /\ Part(g, h) /\ IsLarge(Parse(g), p)
  BY PlaysAreParsed DEF Beats
<1>2. PICK s \in Type : /\ IsPlay(g, s) /\ Parse(g) = Info(s, ValueOf(g, s), Size(g))
                        /\ Size(g) \in 1..19
  BY PlaysAreParsed DEF Beats
<1>3. \A t, v, n : /\ Info(t, v, n).type = t /\ Info(t, v, n).value = v
                   /\ Info(t, v, n).length = n
  BY DEF Info
<1>4. ValueOf(g, s) > 0 /\ (s = "double_joker" => ValueOf(g, s) = LittleJoker)
  BY <1>1, <1>2, ValueOfPlay, BagsAreBags
<1>5. FindSame(p, h) = Empty
  BY DEF FindBigPokers
<1>6. s = "double_joker" => FindDoubleJoker(h) # Empty
  BY <1>1, <1>2, JokersFound
<1>7. s \in {"bomb", "four_two_single", "four_two_double"} =>
        FindFour(h, 0) # Empty /\ Size(h) \in Nat /\ Size(h) >= 4
  <2>1. s \in {"bomb", "four_two_single", "four_two_double"} => Ranks(g, 4) # 0
    BY <1>2 DEF IsPlay, Of
  <2> QED BY <1>1, <2>1, BombsFound
<1>8. g # Empty
  <2>1. g \in Counts /\ Size(g) # 0
    BY <1>1, <1>2 DEF Hand, Counts, Bag
  <2> QED BY <2>1, SizeZero
<1>9. CASE p = Zero
  <2>1. AtLeast(g, 1) # {} /\ AtLeast(g, 1) \subseteq AtLeast(h, 1)
    <3>1. Ranks(g, 1) + Ranks(g, 2) + Ranks(g, 3) + Ranks(g, 4) # 0
      <4>1. Size(g) = Ranks(g, 1) + 2 * Ranks(g, 2) + 3 * Ranks(g, 3) + 4 * Ranks(g, 4)
        BY <1>1, SizeByCount, BagsAreBags
      <4> QED BY <1>1, <1>2, <4>1, RanksAreCounts, BagsAreBags
    <3>2. Cardinality(AtLeast(g, 1)) # 0
      BY <1>1, <3>1, SizeByCount, BagsAreBags
    <3> QED BY <1>1, <3>2, FS_EmptySet, PartsAtLeast
  <2>2. PICK r \in AtLeast(h, 1) : TRUE
    BY <2>1
  <2>3. r > 0
    BY RanksAreNumbers DEF AtLeast
  <2>4. FindSingle(h, 0) # Empty
    BY <2>3, KindFinds DEF FindSingle
  <2>5. Zero.type = "zero"
    BY <1>3 DEF Zero
  <2>6. FindSame(Zero, h) = FindSingle(h, 0)
    BY <2>5 DEF FindSame
  <2> QED BY <1>5, <1>9, <2>4, <2>6
<1>10. CASE IsPlayInfo(p)
  <2>1. PICK t \in Type, v \in Nat, n \in 1..19 :
          p = Info(t, v, n) /\ (t = "double_joker" => v = LittleJoker)
    BY <1>10 DEF IsPlayInfo
  <2>2. p.type = t /\ p.value = v /\ p.length = n /\ t # "zero"
    BY <1>3, <2>1 DEF Type
  <2>3. CASE s = t
    <3>1. ValueOf(g, t) > v /\ Size(g) = n
      BY <1>1, <1>2, <1>3, <2>2, <2>3 DEF IsLarge
    <3>2. Answers(g, h, t, v, n)
      BY <1>1, <1>2, <1>8, <2>3, <3>1 DEF Answers
    <3>3. t \in {"four_two_single", "four_two_double", "double_joker"}
      BY <1>5, <2>1, <3>2, SameFound
    <3>4. t # "double_joker"
      BY <1>4, <2>1, <2>3, <3>1 DEF LittleJoker
    <3>5. FindBigPokers(p, h) = FindFour(h, 0)
      BY <1>5, <1>7, <2>2, <2>3, <3>3, <3>4 DEF FindBigPokers, FindBombOrDoubleJoker
    <3> QED BY <1>7, <2>3, <3>3, <3>4, <3>5
  <2>4. CASE s # t
    <3>1. \/ s = "double_joker"
          \/ s = "bomb" /\ t # "double_joker"
      BY <1>1, <1>2, <1>3, <2>2, <2>4 DEF IsLarge
    <3>2. CASE s = "bomb" /\ t # "double_joker"
      <4>1. FindBigPokers(p, h) = FindFour(h, 0)
        BY <1>5, <1>7, <2>2, <2>4, <3>2 DEF FindBigPokers, FindBombOrDoubleJoker
      <4> QED BY <1>7, <3>2, <4>1
    <3>3. CASE s = "double_joker"
      <4>1. FindBigPokers(p, h) = IF t # "bomb" /\ Size(h) >= 4 THEN FindFour(h, 0)
                                  ELSE FindDoubleJoker(h)
        BY <1>5, <2>2, <2>4, <3>3 DEF FindBigPokers, FindBombOrDoubleJoker
      <4>2. t # "bomb" /\ Size(h) >= 4
        BY <1>6, <3>3, <4>1
      <4> QED BY <1>2, <1>3, <2>2, <3>3, <4>2 DEF Kept
    <3> QED BY <3>1, <3>2, <3>3
  <2> QED BY <2>3, <2>4
<1> QED BY <1>9, <1>10

\* The last plays of the property, without a union of sets.
LEMMA LastPlaysAreParsed ==
  ASSUME NEW l \in LastPlays
  PROVE  /\ l.info = Zero \/ IsPlayInfo(l.info)
         /\ \A h, g : g \in {b \in l.beaten : Part(b, h)} <=> Beats(g, h, l.info)
<1>1. PICK p \in {Zero} \cup {w.info : w \in Worth} :
        l = [info |-> p, beaten |-> {w.play : w \in {w \in Worth : IsLarge(w.info, p)}}]
  BY DEF LastPlays
<1>2. l.info = p /\ l.beaten = {w.play : w \in {w \in Worth : IsLarge(w.info, p)}}
  BY <1>1
<1>3. \A w \in Worth : w.play \in Playable /\ w.info = Parse(w.play)
  <2> SUFFICES ASSUME NEW w \in Worth PROVE w.play \in Playable /\ w.info = Parse(w.play)
    OBVIOUS
  <2>1. PICK g \in Playable : w = [info |-> Parse(g), play |-> g]
    BY DEF Worth
  <2>2. w.info = Parse(g) /\ w.play = g
    BY <2>1
  <2> QED BY <2>2
<1>4. \A g \in Playable : \E w \in Worth : w.play = g /\ w.info = Parse(g)
  <2> SUFFICES ASSUME NEW g \in Playable
               PROVE  \E w \in Worth : w.play = g /\ w.info = Parse(g)
    OBVIOUS
  <2> DEFINE w == [info |-> Parse(g), play |-> g]
  <2>1. w.play = g /\ w.info = Parse(g)
    OBVIOUS
  <2>2. w \in Worth
    BY DEF Worth
  <2> QED BY <2>1, <2>2
<1>5. p = Zero \/ IsPlayInfo(p)
  BY <1>1, <1>3, PlaysAreParsed
<1>6. \A g : g \in l.beaten <=> g \in Playable /\ IsLarge(Parse(g), p)
  BY <1>2, <1>3, <1>4
<1> QED BY <1>2, <1>5, <1>6 DEF Beats

\* Whatever hand the landlord opens the game with, a robot that is asked to beat any play of
\* any deck beats it with cards of the hand, or cannot, or keeps the two jokers.
THEOREM RobotsAnswer == Spec => []AnswerBeats
<1>1. LeadInv => AnswerBeats
  <2> SUFFICES ASSUME LeadInv, Opening, NEW l \in LastPlays
               PROVE  LET h == hand[Lord]
                          answer == FindBigPokers(l.info, h)
                          beating == {g \in l.beaten : Part(g, h)}
                      IN IF answer # Empty THEN answer \in beating
                         ELSE \A g \in beating :
                                Parse(g).type = "double_joker" /\ Kept(h, l.info)
    BY DEF AnswerBeats
  <2>1. hand[Lord] \in Hand
    BY DEF LeadInv, Opening, Lord, Pos
  <2>2. /\ l.info = Zero \/ IsPlayInfo(l.info)
        /\ \A h, g : g \in {b \in l.beaten : Part(b, h)} <=> Beats(g, h, l.info)
    BY LastPlaysAreParsed
  <2>3. FindBigPokers(l.info, hand[Lord]) # Empty =>
          Beats(FindBigPokers(l.info, hand[Lord]), hand[Lord], l.info)
    BY <2>1, <2>2, AnswerIsLarger
  <2>4. FindBigPokers(l.info, hand[Lord]) = Empty =>
          \A g : Beats(g, hand[Lord], l.info) =>
            Parse(g).type = "double_joker" /\ Kept(hand[Lord], l.info)
    BY <2>1, <2>2, NoAnswerNoPlay
  <2> QED BY <2>2, <2>3, <2>4
<1>2. LeadInv /\ [Next]_vars => LeadInv'
  BY LeadInvStep
<1>3. Init => LeadInv
  BY LeadInvInit
<1> QED BY <1>1, <1>2, <1>3, PTL DEF Spec

--------------------------------------------------------------------------
(* The turn goes on *)

\* The value and the length of a play are those of a poker_info.
LEMMA PlayInfos ==
  ASSUME NEW p, p = Zero \/ IsPlayInfo(p)
  PROVE  p \in PokerInfo
<1>1. \A t \in Type \cup {"zero"}, v \in Nat, n \in 0..19 : Info(t, v, n) \in PokerInfo
  BY DEF Info, PokerInfo
<1>2. 0 \in Nat /\ 0 \in 0..19 /\ 1..19 \subseteq 0..19
  OBVIOUS
<1> QED BY <1>1, <1>2 DEF Zero, IsPlayInfo

\* What the parser takes, cards that are named twice among it, gives a poker_info
\* that can be answered.
LEMMA ParsedIsPlay ==
  ASSUME NEW g \in Counts, Parse(g) # Err
  PROVE  IsPlayInfo(Parse(g))
<1>1. PICK t \in Type : Size(g) < 20 /\ IsPlay(g, t)
  BY ParsesNothingElse
<1>2. Parse(g) = Info(t, ValueOf(g, t), Size(g)) /\ Size(g) \in 1..19
  BY <1>1, ParsesPlays
<1>3. IsLength(t, Size(g))
  BY <1>1, LengthOfPlay
<1>4. ValueOf(g, t) \in Nat /\ (t = "double_joker" => ValueOf(g, t) = LittleJoker)
  BY <1>1, ValueOfPlay
<1> QED BY <1>2, <1>3, <1>4 DEF IsPlayInfo

TurnInv ==
  /\ LeadInv
  /\ running => \A p \in Pos : hand[p] # Empty
  /\ poker = Zero \/ IsPlayInfo(poker)

\* A robot whose turn it is has a timer that will answer.
RobotIsAsked ==
  running /\ dealt /\ robot[curr] /\ ~Stuck => \E t \in tasks : Current(t)

\* And the table takes what it answers: cards that beat the last play, or a pass
\* when it does not lead.
RobotMayAnswer ==
  running /\ ~Stuck => IF Answer(curr) # Empty THEN Accepted(Answer(curr), Answer(curr), curr)
                       ELSE MayPass(curr)

\* So it takes what on_update does for a player who does nothing.
Lowest(h) == Kind(1, {Min(AtLeast(h, 1))})
IdleMayGoOn ==
  running /\ ~Stuck =>
    IF poker = Zero THEN Accepted(Lowest(hand[curr]), Lowest(hand[curr]), curr)
    ELSE MayPass(curr)

\* Cards of a hand that are named once each are the cards that leave it.
LEMMA NamedOnce ==
  ASSUME NEW h \in Hand, NEW g \in Bag, Part(g, h)
  PROVE  Names(g, g, h)
<1>1. \A r \in Rank : g[r] <= g[r]
  BY DEF Bag
<1> QED BY <1>1 DEF Names

LEMMA SingleIsFound ==
  ASSUME NEW h \in Hand, h # Empty
  PROVE  FindSingle(h, 0) # Empty /\ AtLeast(h, 1) # {}
<1>1. Size(h) # 0
  BY SizeZero DEF Hand, Counts
<1>2. AtLeast(h, 1) # {}
  <2> SUFFICES ASSUME AtLeast(h, 1) = {} PROVE FALSE
    OBVIOUS
  <2>1. \A r \in Rank : h[r] \in 0..4 /\ ~(h[r] >= 1)
    BY HandsAreBags, BagsAreBags DEF AtLeast
  <2>2. h = Empty
    BY <2>1 DEF Empty, Hand, Counts
  <2> QED BY <2>2
<1>3. PICK r \in AtLeast(h, 1) : TRUE
  BY <1>2
<1>4. r > 0
  BY RanksAreNumbers DEF AtLeast
<1> QED BY <1>2, <1>4, KindFinds DEF FindSingle

LEMMA TurnHolds ==
  ASSUME TurnInv, running, ~Stuck
  PROVE  /\ curr \in Pos /\ hand[curr] \in Hand /\ hand[curr] # Empty
         /\ poker # Zero => MayPass(curr)
<1>1. curr \in Pos /\ hand[curr] \in Hand /\ hand[curr] # Empty
  BY DEF TurnInv, LeadInv
<1>2. poker # Zero => MayPass(curr)
  BY DEF TurnInv, LeadInv, Stuck, MayPass
<1> QED BY <1>1, <1>2

LEMMA RobotsAreTaken == TurnInv => RobotMayAnswer
<1> SUFFICES ASSUME TurnInv, running, ~Stuck
             PROVE  IF Answer(curr) # Empty
                    THEN Accepted(Answer(curr), Answer(curr), curr) ELSE MayPass(curr)
  BY DEF RobotMayAnswer
<1> DEFINE h == hand[curr]
           a == FindBigPokers(poker, h)
<1>1. curr \in Pos /\ h \in Hand /\ h # Empty /\ (poker # Zero => MayPass(curr))
  BY TurnHolds
<1>2. poker = Zero \/ IsPlayInfo(poker)
  BY DEF TurnInv
<1>3. Answer(curr) = a
  BY DEF Answer
<1>4. a # Empty => Beats(a, h, poker)
  BY <1>1, <1>2, AnswerIsLarger
<1>5. \A g : Beats(g, h, poker) => Accepted(g, g, curr)
  <2> SUFFICES ASSUME NEW g, Beats(g, h, poker) PROVE Accepted(g, g, curr)
    OBVIOUS
  <2>1. g \in Playable /\ IsLarge(Parse(g), poker) /\ Part(g, h)
    BY DEF Beats
  <2>2. Parse(g) # Err
    <3>1. PICK t \in Type : Parse(g) = Info(t, ValueOf(g, t), Size(g))
      BY <2>1, PlaysAreParsed
    <3>2. Parse(g).type = t /\ Err.type = "err" /\ t # "err"
      BY <3>1 DEF Info, Err, Type
    <3> QED BY <3>2
  <2>3. Names(g, g, h)
    BY <1>1, <2>1, PlaysAreParsed, BagsAreBags, NamedOnce
  <2> QED BY <2>1, <2>2, <2>3 DEF Accepted
<1>6. poker = Zero => a # Empty
  <2>1. Zero.type = "zero"
    BY DEF Zero, Info
  <2>2. FindBigPokers(Zero, h) = FindSingle(h, 0)
    BY <2>1 DEF FindBigPokers, FindSame
  <2> QED BY <1>1, <2>2, SingleIsFound
<1> QED BY <1>1, <1>3, <1>4, <1>5, <1>6

LEMMA IdlesAreTaken == TurnInv => IdleMayGoOn
<1> SUFFICES ASSUME TurnInv, running, ~Stuck
             PROVE  IF poker = Zero
                    THEN Accepted(Lowest(hand[curr]), Lowest(hand[curr]), curr)
                    ELSE MayPass(curr)
  BY DEF IdleMayGoOn
<1> DEFINE h == hand[curr]
           S == {Min(AtLeast(h, 1))}
           g == Kind(1, S)
<1>1. curr \in Pos /\ h \in Hand /\ h # Empty /\ (poker # Zero => MayPass(curr))
  BY TurnHolds
<1>2. AtLeast(h, 1) # {} /\ AtLeast(h, 1) \in SUBSET Rank
  BY <1>1, SingleIsFound DEF AtLeast
<1>3. S \in SUBSET AtLeast(h, 1) /\ S # {} /\ Cardinality(S) = 1
  BY <1>2, LeastRank, FS_Singleton
<1>4. 1 \in 1..4 /\ "single" \in Type
  BY DEF Type
<1>5. Lowest(hand[curr]) = g
  BY DEF Lowest
<1> HIDE DEF S
<1>6. /\ g \in Hand /\ Part(g, h) /\ Ranks(g, 1) = Cardinality(S)
      /\ \A j \in 1..4 : j # 1 => Ranks(g, j) = 0
  BY <1>1, <1>3, <1>4, AlikeCards
<1> HIDE DEF g
<1>7. Of(g, 1, 0, 0, 0)
  BY <1>3, <1>6 DEF Of
<1>8. IsPlay(g, "single") /\ Size(g) = 1
  BY <1>6, <1>7, SizesOfPlays, BagsAreBags DEF IsPlay
<1>9. Parse(g) = Info("single", ValueOf(g, "single"), Size(g))
  BY <1>4, <1>6, <1>8, ParsesPlays, BagsAreBags
<1>10. ASSUME poker = Zero PROVE Accepted(g, g, curr)
  <2>1. Parse(g) # Err /\ IsLarge(Parse(g), poker)
    BY <1>9, <1>10 DEF IsLarge, Info, Zero, Err
  <2>2. Names(g, g, h)
    BY <1>1, <1>6, BagsAreBags, NamedOnce
  <2> QED BY <2>1, <2>2 DEF Accepted
<1> QED BY <1>1, <1>5, <1>10

\* What is left of a hand is no empty hand, unless all of it was played.
LEMMA RestIsLeft ==
  ASSUME NEW h \in Hand, NEW g \in Counts, h # g PROVE Minus(h, g) # Empty
<1>1. \A r \in Rank : h[r] \in 0..4 /\ g[r] \in 0..4
  BY HandsAreBags, BagsAreBags DEF Counts
<1>2. PICK r \in Rank : h[r] # g[r]
  BY DEF Hand, Counts
<1>3. Minus(h, g)[r] # 0
  BY <1>1, <1>2 DEF Minus
<1> QED BY <1>3 DEF Empty

LEMMA ShowPokerTurn ==
  ASSUME TurnInv, LeadInv', NEW p \in Pos, NEW g \in Counts, NEW info,
         info = Zero \/ IsPlayInfo(info), NEW who, NEW pending,
         ShowPoker(p, g, info, who, pending), running
  PROVE  TurnInv'
<1>1. CASE hand[p] = g
  BY <1>1 DEF TurnInv, ShowPoker, GameStop
<1>2. CASE hand[p] # g
  <2>1. hand' = [hand EXCEPT ![p] = Minus(@, g)] /\ poker' = info
    BY <1>2 DEF ShowPoker
  <2>2. hand \in [Pos -> Hand] /\ \A q \in Pos : hand[q] # Empty
    BY DEF TurnInv, LeadInv
  <2>3. \A q \in Pos : hand'[q] # Empty
    BY <1>2, <2>1, <2>2, RestIsLeft
  <2> QED BY <2>1, <2>3 DEF TurnInv
<1> QED BY <1>1, <1>2

LEMMA LandlordTurn ==
  ASSUME TurnInv, LeadInv', Landlord PROVE TurnInv'
<1>1. running' = running /\ poker' = poker
  BY DEF Landlord
<1>2. ASSUME running PROVE \A p \in Pos : hand'[p] # Empty
  <2>1. hand' = [hand EXCEPT ![Lord] = Plus(@, bottom)]
    BY <1>2 DEF Landlord
  <2>2. hand \in [Pos -> Hand] /\ bottom \in Hand /\ \A q \in Pos : hand[q] # Empty
    BY <1>2 DEF TurnInv, LeadInv
  <2>3. Plus(hand[Lord], bottom) # Empty
    <3>1. /\ hand[Lord] \in Counts /\ bottom \in Counts /\ hand[Lord] # Empty
      BY <2>2, LordIsPos, BagsAreBags
    <3>2. PICK r \in Rank : hand[Lord][r] # 0
      BY <3>1 DEF Counts, Empty
    <3>3. hand[Lord][r] \in 0..4 /\ bottom[r] \in 0..4
      BY <3>1 DEF Counts
    <3>4. Plus(hand[Lord], bottom)[r] # 0
      BY <3>2, <3>3 DEF Plus
    <3> QED BY <3>4 DEF Empty
  <2> QED BY <2>1, <2>2, <2>3, LordIsPos
<1> QED BY <1>1, <1>2 DEF TurnInv

LEMMA TurnInvStep == TurnInv /\ [Next]_vars => TurnInv'
<1> SUFFICES ASSUME TurnInv, [Next]_vars PROVE TurnInv'
  OBVIOUS
<1>1. LeadInv /\ LeadInv' /\ (Move \/ Landlord)
  BY LeadInvStep, StepsAreMoves DEF TurnInv
<1>2. ASSUME NEW p \in Pos, NEW g \in Counts, NEW d \in Bag, NEW pending,
             Plays(p, g, d, pending)
      PROVE  TurnInv'
  <2>1. running /\ Accepted(g, d, p) /\ ShowPoker(p, d, Parse(g), p, pending)
    BY <1>2 DEF Plays, MayShow
  <2>2. hand[p] \in Hand
    BY <1>1 DEF LeadInv
  <2>3. d \in Counts /\ Parse(g) # Err
    BY <2>1, <2>2, AcceptedCards
  <2>4. IsPlayInfo(Parse(g))
    BY <2>3, ParsedIsPlay
  <2> QED BY <1>1, <2>1, <2>3, <2>4, ShowPokerTurn
<1>3. ASSUME NEW p \in Pos, NEW pending, Passes(p, pending) PROVE TurnInv'
  <2> DEFINE info == IF Next3(p) = shower THEN Zero ELSE poker
  <2>1. running /\ ShowPoker(p, Empty, info, shower, pending) /\ Empty \in Counts
    BY <1>1, <1>3, PassesFacts
  <2>2. info = Zero \/ IsPlayInfo(info)
    BY DEF TurnInv
  <2> QED BY <1>1, <2>1, <2>2, ShowPokerTurn
<1>4. CASE UNCHANGED Table_vars
  BY <1>1, <1>4 DEF TurnInv, Table_vars
<1>5. CASE Landlord
  BY <1>1, <1>5, LandlordTurn
<1> QED BY <1>1, <1>2, <1>3, <1>4, <1>5 DEF Move

LEMMA TurnInvInit == Init => TurnInv
<1> SUFFICES ASSUME Init PROVE TurnInv
  OBVIOUS
<1>1. \A p \in Pos : hand[p] # Empty
  BY DdzTrickAssumption DEF Init, Pos
<1>2. poker = Zero
  BY DEF Init
<1> QED BY <1>1, <1>2, LeadInvInit DEF TurnInv

--------------------------------------------------------------------------
(* The timers of the robots *)

PlayersTyped ==
  robot \in [Pos -> BOOLEAN] /\ left \in [Pos -> Nat] /\ commands \in 0..MaxCommands
TurnTyped ==
  /\ running \in BOOLEAN /\ dealt \in BOOLEAN /\ curr \in Pos \cup {-1}
  /\ code \in [Pos -> Nat] /\ tasks \subseteq Task

RobotInv == PlayersTyped /\ TurnTyped /\ RobotIsAsked

\* Whoever is asked has a timer that is current.
LEMMA Asked ==
  ASSUME RobotInv, NEW q \in Pos, NEW pending \in SUBSET Task, Ask(q, pending),
         robot'[q] = robot[q], running, running' = running, curr' = q, dealt' \in BOOLEAN
  PROVE  TurnTyped' /\ RobotIsAsked'
<1> DEFINE t == [pos |-> q, code |-> code[q] + 1, left |-> left[q]]
<1>1. code \in [Pos -> Nat] /\ left \in [Pos -> Nat] /\ running \in BOOLEAN
  BY DEF RobotInv, PlayersTyped, TurnTyped
<1>2. t \in Task
  BY <1>1 DEF Task
<1>3. CASE robot[q]
  <2>1. /\ code' = [code EXCEPT ![q] = @ + 1]
        /\ tasks' = pending \cup {t}
    BY <1>3 DEF Ask
  <2>2. t.pos = q /\ t.code = code[q] + 1 /\ t \in tasks'
    BY <2>1
  <2> HIDE DEF t
  <2>3. code' \in [Pos -> Nat] /\ code'[q] = code[q] + 1
    BY <1>1, <2>1
  <2>4. TurnTyped'
    BY <1>1, <1>2, <2>1, <2>3 DEF TurnTyped
  <2>5. RobotIsAsked'
    BY <2>2, <2>3 DEF RobotIsAsked, Current
  <2> QED BY <2>4, <2>5
<1>4. CASE ~robot[q]
  <2>1. code' = code /\ tasks' = pending
    BY <1>4 DEF Ask
  <2> QED BY <1>1, <1>4, <2>1 DEF TurnTyped, RobotIsAsked
<1> QED BY <1>3, <1>4

LEMMA ShowPokerAsks ==
  ASSUME RobotInv, NEW p \in Pos, NEW g, NEW info, NEW who, NEW pending \in SUBSET Task,
         ShowPoker(p, g, info, who, pending), robot'[Next3(p)] = robot[Next3(p)], running,
         UNCHANGED Deal_vars
  PROVE  TurnTyped' /\ RobotIsAsked'
<1> DEFINE q == Next3(p)
<1>1. q \in Pos
  BY NextIsAnother
<1>2. code \in [Pos -> Nat] /\ left \in [Pos -> Nat] /\ curr \in Pos \cup {-1}
  BY DEF RobotInv, PlayersTyped, TurnTyped
<1>3. dealt' = dealt /\ dealt \in BOOLEAN
  BY DEF Deal_vars, RobotInv, TurnTyped
<1>4. CASE hand[p] = g
  BY <1>2, <1>3, <1>4 DEF ShowPoker, GameStop, TurnTyped, RobotIsAsked
<1>5. CASE hand[p] # g
  <2>1. curr' = q /\ running' = running /\ Ask(q, pending)
    BY <1>5 DEF ShowPoker
  <2> QED BY <1>1, <1>3, <2>1, Asked
<1> QED BY <1>4, <1>5

LEMMA MoveAsks ==
  ASSUME RobotInv, NEW p \in Pos, NEW pending \in SUBSET Task, UNCHANGED Deal_vars,
         (\E g, d : Plays(p, g, d, pending)) \/ Passes(p, pending),
         robot'[Next3(p)] = robot[Next3(p)]
  PROVE  TurnTyped' /\ RobotIsAsked'
<1>1. CASE \E g, d : Plays(p, g, d, pending)
  <2>1. PICK g, d : Plays(p, g, d, pending)
    BY <1>1
  <2>2. running /\ ShowPoker(p, d, Parse(g), p, pending)
    BY <2>1 DEF Plays, MayShow
  <2> QED BY <2>2, ShowPokerAsks
<1>2. CASE Passes(p, pending)
  <2>1. running /\ ShowPoker(p, Empty, IF Next3(p) = shower THEN Zero ELSE poker, shower, pending)
    BY <1>2 DEF Passes, MayShow
  <2> QED BY <2>1, ShowPokerAsks
<1> QED BY <1>1, <1>2

\* A timer that does nothing takes no current one with it, unless the landlord must
\* beat its own cards, and then it still must.
LEMMA NothingAsks ==
  ASSUME RobotInv, NEW pending \in SUBSET tasks, Nothing(pending), UNCHANGED Deal_vars,
         Stuck \/ \A t \in tasks : Current(t) => t \in pending,
         running => robot'[curr] = robot[curr] \/ Stuck
  PROVE  TurnTyped' /\ RobotIsAsked'
<1>1. /\ tasks' = pending /\ running' = running /\ curr' = curr /\ code' = code
      /\ poker' = poker /\ shower' = shower /\ dealt' = dealt
  BY DEF Nothing, Table_vars, Deal_vars
<1>2. TurnTyped'
  BY <1>1 DEF RobotInv, TurnTyped
<1>3. Stuck' <=> Stuck
  BY <1>1 DEF Stuck
<1>4. ASSUME running', dealt', robot'[curr'], ~Stuck' PROVE \E t \in tasks' : Current(t)'
  <2>1. running /\ dealt /\ robot[curr] /\ ~Stuck
    BY <1>1, <1>3, <1>4
  <2>2. PICK t \in tasks : Current(t)
    BY <2>1 DEF RobotInv, RobotIsAsked
  <2>3. t \in tasks' /\ curr = t.pos
    BY <1>1, <2>1, <2>2 DEF Current
  <2>4. Current(t)'
    BY <1>1, <1>4, <2>2, <2>3 DEF Current
  <2> QED BY <2>3, <2>4
<1> QED BY <1>2, <1>4 DEF RobotIsAsked

LEMMA RobotAsks ==
  ASSUME RobotInv, TurnInv, NEW p \in Pos, NEW pending \in SUBSET tasks, Robot(p, pending),
         UNCHANGED Deal_vars, running, curr = p, robot'[Next3(p)] = robot[Next3(p)]
  PROVE  TurnTyped' /\ RobotIsAsked'
<1>1. pending \in SUBSET Task
  BY DEF RobotInv, TurnTyped
<1>2. CASE ~Stuck
  <2>1. IF Answer(p) # Empty THEN Accepted(Answer(p), Answer(p), p) ELSE MayPass(p)
    BY <1>2, RobotsAreTaken DEF RobotMayAnswer
  <2>2. Plays(p, Answer(p), Answer(p), pending) \/ Passes(p, pending)
    BY <2>1 DEF Robot
  <2> QED BY <1>1, <2>2, MoveAsks
<1>3. CASE Stuck
  <2>1. \/ Plays(p, Answer(p), Answer(p), pending) \/ Passes(p, pending)
        \/ Nothing(pending)
    BY DEF Robot
  <2> QED BY <1>1, <1>3, <2>1, MoveAsks, NothingAsks
<1> QED BY <1>2, <1>3

LEMMA RobotInvStep ==
  ASSUME RobotInv, TurnInv, [Next]_vars PROVE RobotInv'
<1>1. tasks \in SUBSET Task /\ \A t \in tasks : tasks \ {t} \in SUBSET Task
  BY DEF RobotInv, TurnTyped
<1>2. /\ robot \in [Pos -> BOOLEAN] /\ left \in [Pos -> Nat] /\ commands \in 0..MaxCommands
      /\ MaxCommands \in Nat
  BY DdzTrickAssumption DEF RobotInv, PlayersTyped
<1>3. running => curr \in Pos
  BY DEF TurnInv, LeadInv
<1>4. ASSUME NEW p \in Pos, Card(p) PROVE RobotInv'
  <2>1. PlayersTyped'
    BY <1>2, <1>4 DEF Card, PlayersTyped
  <2>2. (\E g, d : Plays(p, g, d, tasks)) \/ Passes(p, tasks)
    BY <1>4 DEF Card
  <2>3. robot' = robot /\ UNCHANGED Deal_vars
    BY <1>4 DEF Card
  <2> QED BY <1>1, <2>1, <2>2, <2>3, MoveAsks DEF RobotInv
<1>5. ASSUME NEW p \in Pos, RobotOn(p) PROVE RobotInv'
  <2>1. PlayersTyped'
    BY <1>2, <1>5 DEF RobotOn, PlayersTyped
  <2>2. robot' = [robot EXCEPT ![p] = TRUE] /\ running /\ UNCHANGED Deal_vars
    BY <1>5 DEF RobotOn
  <2>3. \A q \in Pos : q # p => robot'[q] = robot[q]
    BY <1>2, <2>2
  <2>4. CASE curr = p
    <3>1. Robot(p, tasks)
      BY <1>5, <2>4 DEF RobotOn
    <3>2. robot'[Next3(p)] = robot[Next3(p)]
      BY <2>3, NextIsAnother
    <3> QED BY <1>1, <2>1, <2>2, <2>4, <3>1, <3>2, RobotAsks DEF RobotInv
  <2>5. CASE curr # p
    <3>1. Nothing(tasks) /\ robot'[curr] = robot[curr]
      BY <1>3, <1>5, <2>2, <2>3, <2>5 DEF RobotOn
    <3> QED BY <2>1, <2>2, <3>1, NothingAsks DEF RobotInv
  <2> QED BY <2>4, <2>5
<1>6. ASSUME NEW p \in Pos, RobotOff(p) PROVE RobotInv'
  <2>1. PlayersTyped'
    BY <1>2, <1>6 DEF RobotOff, PlayersTyped
  <2>2. /\ robot' = [robot EXCEPT ![p] = FALSE] /\ code' = [code EXCEPT ![p] = 0]
        /\ UNCHANGED <<running, curr, tasks, poker, shower, dealt>>
    BY <1>6 DEF RobotOff, Table_vars, Deal_vars
  <2>3. TurnTyped'
    BY <2>2 DEF RobotInv, TurnTyped
  <2>4. RobotIsAsked'
    <3> SUFFICES ASSUME running, dealt, robot'[curr], ~Stuck
                 PROVE  \E t \in tasks : Current(t)'
      BY <2>2 DEF RobotIsAsked, Stuck
    <3>1. curr \in Pos /\ curr # p /\ robot[curr]
      BY <1>2, <1>3, <2>2
    <3>2. PICK t \in tasks : Current(t)
      BY <3>1 DEF RobotInv, RobotIsAsked
    <3>3. curr = t.pos /\ code[curr] = t.code
      BY <3>2 DEF Current
    <3>4. code'[curr] = code[curr]
      BY <2>2, <3>1 DEF RobotInv, TurnTyped
    <3>5. Current(t)'
      BY <2>2, <3>3, <3>4 DEF Current
    <3> QED BY <3>5
  <2> QED BY <2>1, <2>3, <2>4 DEF RobotInv
<1>7. CASE Update
  <2>1. PlayersTyped' /\ robot' = robot /\ UNCHANGED Deal_vars
    BY <1>7 DEF Update, RobotInv, PlayersTyped, Player_vars
  <2>2. running /\ ((\E g, d : Plays(curr, g, d, tasks)) \/ Passes(curr, tasks))
    BY <1>7 DEF Update, Plays, Passes, MayShow
  <2> QED BY <1>1, <1>3, <2>1, <2>2, MoveAsks DEF RobotInv
<1>8. ASSUME NEW t \in tasks, RobotCard(t) PROVE RobotInv'
  <2>1. PlayersTyped' /\ robot' = robot /\ UNCHANGED Deal_vars
    BY <1>8 DEF RobotCard, RobotInv, PlayersTyped, Player_vars
  <2>2. CASE Current(t)
    <3>1. Robot(t.pos, tasks \ {t}) /\ running /\ curr = t.pos
      BY <1>8, <2>2 DEF RobotCard, Current
    <3> QED BY <1>1, <1>3, <2>1, <3>1, RobotAsks DEF RobotInv
  <2>3. CASE ~Current(t)
    <3>1. Nothing(tasks \ {t})
      BY <1>8, <2>3 DEF RobotCard
    <3>2. \A u \in tasks : Current(u) => u \in tasks \ {t}
      BY <2>3
    <3> QED BY <2>1, <3>1, <3>2, NothingAsks DEF RobotInv
  <2> QED BY <2>2, <2>3
<1>9. CASE Landlord
  <2>1. PlayersTyped' /\ robot' = robot /\ dealt' = TRUE /\ running' = running
    BY <1>9 DEF Landlord, RobotInv, PlayersTyped, Player_vars
  <2>2. CASE running
    <3>1. curr' = Lord /\ Ask(Lord, tasks)
      BY <1>9, <2>2 DEF Landlord
    <3> QED BY <1>1, <2>1, <2>2, <3>1, LordIsPos, Asked DEF RobotInv
  <2>3. CASE ~running
    <3>1. UNCHANGED <<curr, code, tasks>>
      BY <1>9, <2>3 DEF Landlord
    <3>2. TurnTyped'
      BY <2>1, <3>1 DEF RobotInv, TurnTyped
    <3> QED BY <2>1, <2>3, <3>2 DEF RobotInv, RobotIsAsked
  <2> QED BY <2>2, <2>3
<1>10. CASE UNCHANGED vars
  BY <1>10 DEF vars, Table_vars, Player_vars, Deal_vars, RobotInv, PlayersTyped, TurnTyped,
               RobotIsAsked, Current, Stuck
<1> QED BY <1>4, <1>5, <1>6, <1>7, <1>8, <1>9, <1>10 DEF Next

LEMMA RobotInvInit == Init => RobotInv
<1> SUFFICES ASSUME Init PROVE RobotInv
  OBVIOUS
<1>1. PICK s \in Start : robot = s.robot /\ commands = s.commands /\ curr = s.curr
  BY DEF Init
<1>2. /\ running = TRUE /\ dealt = FALSE /\ tasks = {}
      /\ left = [p \in Pos |-> 0] /\ code = [p \in Pos |-> 0]
  BY DEF Init
<1>3. PlayersTyped
  BY <1>1, <1>2, DdzTrickAssumption DEF PlayersTyped, Pos
<1>4. TurnTyped
  BY <1>1, <1>2, DdzTrickAssumption DEF TurnTyped, Pos
<1> QED BY <1>2, <1>3, <1>4 DEF RobotInv, RobotIsAsked

\* A game with robots does not come to a halt, unless the landlord must beat cards of
\* its own that were taken before it was asked: a robot whose turn it is has a timer
\* that is current, though other timers of it carry old codes; and what the robot
\* then answers is what the table takes, as is what on_update does for a player who
\* does nothing.
THEOREM TurnsGoOn == Spec => [](RobotIsAsked /\ RobotMayAnswer /\ IdleMayGoOn)
<1>1. Init => TurnInv /\ RobotInv
  BY TurnInvInit, RobotInvInit
<1>2. TurnInv /\ RobotInv /\ [Next]_vars => (TurnInv /\ RobotInv)'
  BY TurnInvStep, RobotInvStep
<1>3. TurnInv /\ RobotInv => RobotIsAsked /\ RobotMayAnswer /\ IdleMayGoOn
  BY RobotsAreTaken, IdlesAreTaken DEF RobotInv
<1> QED BY <1>1, <1>2, <1>3, PTL DEF Spec

--------------------------------------------------------------------------
(* The turns run out.  Each of them brings the end nearer: a play by its cards,
   and a pass by the players who are still to pass before the one whose play
   lies on the table leads.  The bottom cards come once.                     *)

Behind == IF shower \in {NULL, curr} THEN 0 ELSE (shower + 3 - curr) % 3
CardsLeft == Size(hand[0]) + Size(hand[1]) + Size(hand[2])
ToDeal == IF dealt THEN 0 ELSE 12
TurnsLeft == IF running THEN 3 * CardsLeft + Behind + ToDeal ELSE 0

TurnsRunOut ==
  [][/\ \/ TurnsLeft' < TurnsLeft
        \/ UNCHANGED <<running, hand, curr, poker, shower>>
     /\ \A t \in tasks : RobotCard(t) =>
          \/ TurnsLeft' < TurnsLeft
          \/ (Current(t) => Stuck) /\ tasks' = tasks \ {t}]_vars

LEMMA BehindCounts ==
  ASSUME NEW p \in Pos
  PROVE  /\ (p + 3 - Next3(p)) % 3 \in 0..2
         /\ \A q \in Pos \ {p} :
              IF q = Next3(p) THEN (q + 3 - p) % 3 = 1
              ELSE (q + 3 - p) % 3 = 2 /\ (q + 3 - Next3(p)) % 3 = 1
<1>1. \A x, y \in 0..2 :
        /\ (x + 3 - y) % 3 \in 0..2
        /\ x = y + 1 \/ x + 2 = y => (x + 3 - y) % 3 = 1
        /\ x = y + 2 \/ x + 1 = y => (x + 3 - y) % 3 = 2
  OBVIOUS
<1>2. /\ p \in 0..2 /\ Next3(p) \in 0..2
      /\ Next3(p) = p + 1 \/ Next3(p) + 2 = p
  BY DEF Pos, Next3
<1>3. ASSUME NEW q \in Pos \ {p}
      PROVE  IF q = Next3(p) THEN (q + 3 - p) % 3 = 1
             ELSE (q + 3 - p) % 3 = 2 /\ (q + 3 - Next3(p)) % 3 = 1
  <2>1. q \in 0..2 /\ q # p
    BY DEF Pos
  <2>2. CASE q = Next3(p)
    BY <1>1, <1>2, <2>1, <2>2
  <2>3. CASE q # Next3(p)
    <3>1. q = p + 2 \/ q + 1 = p
      BY <1>2, <2>1, <2>3
    <3>2. q = Next3(p) + 1 \/ q + 2 = Next3(p)
      BY <1>2, <2>1, <3>1
    <3> QED BY <1>1, <1>2, <2>1, <2>3, <3>1, <3>2
  <2> QED BY <2>2, <2>3
<1> QED BY <1>1, <1>2, <1>3

\* Cards that are played leave the hands.
LEMMA CardsLeave ==
  ASSUME LeadInv, NEW p \in Pos, NEW g \in Counts, Part(g, hand[p]),
         hand' = [hand EXCEPT ![p] = Minus(@, g)]
  PROVE  /\ CardsLeft \in Nat /\ Size(g) \in Nat
         /\ CardsLeft' = CardsLeft - Size(g)
<1>1. \A q \in Pos : hand[q] \in Hand /\ Size(hand[q]) \in Nat
  BY SizeIsCards DEF LeadInv
<1>2. hand[p] \in Counts /\ Size(g) \in Nat
  BY <1>1, BagsAreBags, SizeIsCards
<1>3. hand'[p] = Minus(hand[p], g) /\ \A q \in Pos \ {p} : hand'[q] = hand[q]
  BY DEF LeadInv
<1>4. Size(hand'[p]) = Size(hand[p]) - Size(g)
  BY <1>2, <1>3, SizeOfRest
<1>5. \A q \in Pos \ {p} : Size(hand'[q]) = Size(hand[q])
  BY <1>3
<1>6. 0 \in Pos /\ 1 \in Pos /\ 2 \in Pos /\ (p = 0 \/ p = 1 \/ p = 2)
  BY DEF Pos
<1>7. CardsLeft' = Size(hand'[0]) + Size(hand'[1]) + Size(hand'[2])
  BY DEF CardsLeft
<1>8. CASE p = 0
  BY <1>1, <1>2, <1>4, <1>5, <1>6, <1>7, <1>8 DEF CardsLeft
<1>9. CASE p = 1
  BY <1>1, <1>2, <1>4, <1>5, <1>6, <1>7, <1>9 DEF CardsLeft
<1>10. CASE p = 2
  BY <1>1, <1>2, <1>4, <1>5, <1>6, <1>7, <1>10 DEF CardsLeft
<1> QED BY <1>6, <1>8, <1>9, <1>10

LEMMA TurnsAreCounted ==
  ASSUME TurnInv, running
  PROVE  /\ CardsLeft \in Nat /\ CardsLeft > 0 /\ Behind \in 0..2 /\ ToDeal \in 0..12
         /\ TurnsLeft = 3 * CardsLeft + Behind + ToDeal
<1>1. \A q \in Pos : Size(hand[q]) \in Nat /\ Size(hand[q]) > 0
  <2> SUFFICES ASSUME NEW q \in Pos PROVE Size(hand[q]) \in Nat /\ Size(hand[q]) > 0
    OBVIOUS
  <2>1. hand[q] \in Counts /\ hand[q] # Empty
    BY BagsAreBags DEF TurnInv, LeadInv
  <2> QED BY <2>1, SizeIsCards, SizeZero
<1>2. CardsLeft \in Nat /\ CardsLeft > 0
  BY <1>1 DEF CardsLeft, Pos
<1>3. Behind \in 0..2
  <2>1. curr \in 0..2 /\ shower \in 0..2 \cup {NULL}
    BY DEF TurnInv, LeadInv, Pos
  <2>2. \A a, b \in 0..2 : (a + 3 - b) % 3 \in 0..2
    OBVIOUS
  <2> QED BY <2>1, <2>2 DEF Behind
<1> QED BY <1>2, <1>3 DEF TurnsLeft, ToDeal

\* The game is over, or cards or a pass bring its end nearer.
LEMMA ShowPokerCounts ==
  ASSUME TurnInv, running, NEW p \in Pos, curr = p, NEW g \in Counts, Part(g, hand[p]),
         NEW info, NEW who \in Pos, NEW pending, ShowPoker(p, g, info, who, pending),
         \/ who = p /\ g # Empty
         \/ who = shower /\ who # p,
         UNCHANGED Deal_vars
  PROVE  TurnsLeft' < TurnsLeft
<1>1. /\ CardsLeft \in Nat /\ CardsLeft > 0 /\ Behind \in 0..2 /\ ToDeal \in 0..12
      /\ TurnsLeft = 3 * CardsLeft + Behind + ToDeal
  BY TurnsAreCounted
<1>2. CASE hand[p] = g
  <2>1. TurnsLeft' = 0
    BY <1>2 DEF ShowPoker, GameStop, TurnsLeft
  <2> QED BY <1>1, <2>1
<1>3. CASE hand[p] # g
  <2>1. /\ curr' = Next3(p) /\ shower' = who /\ running'
        /\ hand' = [hand EXCEPT ![p] = Minus(@, g)]
    BY <1>3 DEF ShowPoker
  <2>2. CardsLeft' = CardsLeft - Size(g) /\ Size(g) \in Nat
    BY <2>1, CardsLeave DEF TurnInv
  <2>3. Behind' = IF who = Next3(p) THEN 0 ELSE (who + 3 - Next3(p)) % 3
    BY <2>1, DdzTrickAssumption DEF Behind, Pos
  <2>4. TurnsLeft' = 3 * (CardsLeft - Size(g)) + Behind' + ToDeal
    BY <2>1, <2>2 DEF TurnsLeft, ToDeal, Deal_vars
  <2>5. CASE who = p /\ g # Empty
    <3>1. Size(g) # 0
      BY <2>5, SizeZero
    <3>2. Behind' \in 0..2
      BY <2>3, <2>5, BehindCounts, NextIsAnother
    <3> QED BY <1>1, <2>2, <2>4, <3>1, <3>2
  <2>6. CASE who = shower /\ who # p
    <3>1. Behind = (who + 3 - p) % 3
      BY <2>6, DdzTrickAssumption DEF Behind, Pos
    <3>2. Behind' \in 0..1 /\ Behind' < Behind
      <4>1. CASE who = Next3(p)
        <5>1. Behind' = 0 /\ Behind = 1
          BY <2>3, <2>6, <3>1, <4>1, BehindCounts
        <5> QED BY <5>1
      <4>2. CASE who # Next3(p)
        <5>1. Behind' = 1 /\ Behind = 2
          BY <2>3, <2>6, <3>1, <4>2, BehindCounts
        <5> QED BY <5>1
      <4> QED BY <4>1, <4>2
    <3> QED BY <1>1, <2>2, <2>4, <3>2
  <2> QED BY <2>5, <2>6
<1> QED BY <1>2, <1>3

LEMMA PlaysCount ==
  ASSUME TurnInv, NEW p \in Pos, NEW g \in Counts, NEW d \in Bag, NEW pending,
         Plays(p, g, d, pending), UNCHANGED Deal_vars
  PROVE  TurnsLeft' < TurnsLeft
<1>1. running /\ curr = p /\ Accepted(g, d, p) /\ ShowPoker(p, d, Parse(g), p, pending)
  BY DEF Plays, MayShow
<1>2. d \in Counts /\ Part(d, hand[p]) /\ d # Empty
  BY <1>1, AcceptedCards, AcceptedSize DEF TurnInv, LeadInv
<1> QED BY <1>1, <1>2, ShowPokerCounts

LEMMA PassesCount ==
  ASSUME TurnInv, NEW p \in Pos, NEW pending, Passes(p, pending), UNCHANGED Deal_vars
  PROVE  TurnsLeft' < TurnsLeft
<1> DEFINE info == IF Next3(p) = shower THEN Zero ELSE poker
<1>1. /\ running /\ curr = p /\ shower \in Pos /\ shower # p
      /\ ShowPoker(p, Empty, info, shower, pending)
      /\ Empty \in Counts /\ Part(Empty, hand[p])
  BY PassesFacts DEF TurnInv
<1> HIDE DEF info
<1> QED BY <1>1, ShowPokerCounts

\* The bottom cards are three at most.
LEMMA LandlordCounts ==
  ASSUME TurnInv, LandlordInv, LandlordInv', Landlord
  PROVE  TurnsLeft' < TurnsLeft \/ UNCHANGED <<running, hand, curr, poker, shower>>
<1>1. ~dealt /\ dealt' /\ UNCHANGED <<running, poker, shower>>
  BY DEF Landlord
<1>2. CASE running
  <2>1. /\ hand' = [hand EXCEPT ![Lord] = Plus(@, bottom)] /\ curr' = Lord
    BY <1>2 DEF Landlord
  <2>2. /\ CardsLeft \in Nat /\ Behind \in 0..2
        /\ TurnsLeft = 3 * CardsLeft + Behind + 12
    BY <1>1, <1>2, TurnsAreCounted DEF ToDeal
  <2>3. Size(Plus(hand[Lord], bottom)) = Size(hand[Lord]) + BottomSize
    BY <1>1, BottomAdds DEF LandlordInv, LeadInv
  <2>4. hand'[0] = Plus(hand[Lord], bottom) /\ hand'[1] = hand[1] /\ hand'[2] = hand[2]
    BY <2>1 DEF LandlordInv, LeadInv, Lord, Pos
  <2>5. /\ Size(hand[0]) \in Nat /\ Size(hand[1]) \in Nat /\ Size(hand[2]) \in Nat
        /\ BottomSize \in 0..3
    BY SizeIsCards, DdzTrickAssumption DEF LandlordInv, LeadInv, Pos
  <2>6. CardsLeft' = CardsLeft + BottomSize
    <3>1. CardsLeft' = Size(hand'[0]) + Size(hand'[1]) + Size(hand'[2])
      BY DEF CardsLeft
    <3>2. Size(hand'[0]) = Size(hand[0]) + BottomSize
      BY <2>3, <2>4 DEF Lord
    <3> QED BY <2>4, <2>5, <3>1, <3>2 DEF CardsLeft
  <2>7. Behind' \in 0..2
    <3>1. curr' \in 0..2 /\ shower' \in 0..2 \cup {NULL}
      BY <1>1, <2>1 DEF LandlordInv, LeadInv, Pos, Lord
    <3>2. \A a, b \in 0..2 : (a + 3 - b) % 3 \in 0..2
      OBVIOUS
    <3> DEFINE b == (shower' + 3 - curr') % 3
    <3>3. Behind' = IF shower' \in {NULL, curr'} THEN 0 ELSE b
      BY DEF Behind
    <3>4. shower' # NULL => b \in 0..2
      BY <3>1, <3>2
    <3> HIDE DEF b
    <3> QED BY <3>3, <3>4
  <2>8. TurnsLeft' = 3 * CardsLeft' + Behind'
    <3>1. TurnsLeft' = 3 * CardsLeft' + Behind' + 0
      BY <1>1, <1>2 DEF TurnsLeft, ToDeal
    <3>2. 3 * CardsLeft' + Behind' \in Int
      BY <2>2, <2>5, <2>6, <2>7
    <3> QED BY <3>1, <3>2
  <2>9. \A c, b, d, n \in Nat :
          b \in 0..2 /\ n \in 0..3 /\ d \in 0..2 => 3 * (c + n) + d < 3 * c + b + 12
    OBVIOUS
  <2>10. TurnsLeft' = 3 * (CardsLeft + BottomSize) + Behind'
    BY <2>6, <2>8
  <2>11. Behind \in Nat /\ Behind' \in Nat /\ BottomSize \in Nat
    BY <2>2, <2>5, <2>7
  <2>12. 3 * (CardsLeft + BottomSize) + Behind' < 3 * CardsLeft + Behind + 12
    BY <2>2, <2>5, <2>7, <2>9, <2>11
  <2> QED BY <2>2, <2>10, <2>12
<1>3. CASE ~running
  BY <1>1, <1>3 DEF Landlord
<1> QED BY <1>2, <1>3

\* However robots, players and idle players mix, a game ends after at most three
\* turns to the card: a play takes cards, at least one of them however often it is
\* named, and two passes at most follow it.  And a timer never fires for nothing: it
\* answers, or it is an old one that is gone, or the landlord must beat its own
\* cards and is not asked again.
THEOREM TurnsAreBounded == Spec => TurnsRunOut
<1>1. ASSUME TurnInv, LandlordInv, LandlordInv', [Next]_vars
      PROVE  TurnsLeft' < TurnsLeft \/ UNCHANGED <<running, hand, curr, poker, shower>>
  <2>1. CASE Move
    <3>1. UNCHANGED Deal_vars
      BY <2>1 DEF Move
    <3>2. CASE UNCHANGED Table_vars
      BY <3>2 DEF Table_vars
    <3> QED BY <1>1, <2>1, <3>1, <3>2, PlaysCount, PassesCount DEF Move
  <2> QED BY <1>1, <2>1, StepsAreMoves, LandlordCounts DEF TurnInv
<1>2. ASSUME TurnInv, NEW t \in tasks, RobotCard(t)
      PROVE  \/ TurnsLeft' < TurnsLeft
             \/ (Current(t) => Stuck) /\ tasks' = tasks \ {t}
  <2>1. UNCHANGED Deal_vars
    BY <1>2 DEF RobotCard
  <2>2. CASE Current(t)
    <3>1. Robot(t.pos, tasks \ {t}) /\ running /\ curr = t.pos
      BY <1>2, <2>2 DEF RobotCard, Current
    <3>2. curr \in Pos /\ poker.type \in Type \cup {"zero"} /\ hand[curr] \in Hand
      BY <1>2, <3>1 DEF TurnInv, LeadInv
    <3>3. \/ Plays(curr, Answer(curr), Answer(curr), tasks \ {t})
          \/ Passes(curr, tasks \ {t}) \/ Nothing(tasks \ {t})
      BY <3>1 DEF Robot
    <3>4. Answer(curr) \in Bag
      BY <3>2, AnswerIsBag DEF Answer
    <3>5. CASE Plays(curr, Answer(curr), Answer(curr), tasks \ {t})
      <4>1. Accepted(Answer(curr), Answer(curr), curr)
        BY <3>5 DEF Plays
      <4>2. Answer(curr) \in Counts
        BY <3>2, <3>4, <4>1, AcceptedCards
      <4>3. \E p \in Pos, g \in Counts, d \in Bag, pending \in {tasks \ {t}} :
              Plays(p, g, d, pending)
        BY <3>2, <3>4, <3>5, <4>2
      <4> QED BY <1>2, <2>1, <4>3, PlaysCount
    <3>6. CASE Passes(curr, tasks \ {t})
      <4>1. \E p \in Pos, pending \in {tasks \ {t}} : Passes(p, pending)
        BY <3>2, <3>6
      <4> QED BY <1>2, <2>1, <4>1, PassesCount
    <3>7. CASE Nothing(tasks \ {t}) /\ ~Stuck
      <4>1. IF Answer(curr) # Empty THEN Accepted(Answer(curr), Answer(curr), curr)
            ELSE MayPass(curr)
        BY <1>2, <3>1, <3>7, RobotsAreTaken DEF RobotMayAnswer
      <4>2. \/ Plays(curr, Answer(curr), Answer(curr), tasks \ {t})
            \/ Passes(curr, tasks \ {t})
        BY <3>1, <4>1 DEF Robot
      <4> QED BY <3>5, <3>6, <4>2
    <3>8. CASE Nothing(tasks \ {t}) /\ Stuck
      BY <3>8 DEF Nothing
    <3> QED BY <3>3, <3>5, <3>6, <3>7, <3>8
  <2>3. CASE ~Current(t)
    BY <1>2, <2>3 DEF RobotCard, Nothing
  <2> QED BY <2>2, <2>3
<1>3. TurnInv /\ LandlordInv /\ LandlordInv' /\ [Next]_vars =>
        [/\ \/ TurnsLeft' < TurnsLeft
            \/ UNCHANGED <<running, hand, curr, poker, shower>>
         /\ \A t \in tasks : RobotCard(t) =>
              \/ TurnsLeft' < TurnsLeft
              \/ (Current(t) => Stuck) /\ tasks' = tasks \ {t}]_vars
  BY <1>1, <1>2
<1> QED BY <1>3, TurnInvInit, TurnInvStep, LandlordInvInit, LandlordInvStep, PTL
        DEF Spec, TurnsRunOut

\* The type invariant of a game with cards.
THEOREM TrickTypes == Spec => []TypeOK
<1>1. Init => TurnInv /\ RobotInv /\ MoneyInv
  <2>1. Init => MoneyInv
    BY DdzTrickAssumption DEF Init, MoneyInv, Pos
  <2> QED BY <2>1, TurnInvInit, RobotInvInit
<1>2. TurnInv /\ RobotInv /\ MoneyInv /\ [Next]_vars => (TurnInv /\ RobotInv /\ MoneyInv)'
  <2>1. MoneyInv /\ Landlord => MoneyInv'
    BY DEF Landlord, MoneyInv
  <2> QED BY <2>1, TurnInvStep, RobotInvStep, StepsAreMoves, MovePays DEF TurnInv
<1>3. TurnInv /\ RobotInv /\ MoneyInv => TypeOK
  BY PlayInfos DEF TurnInv, LeadInv, RobotInv, PlayersTyped, TurnTyped, MoneyInv, TypeOK
<1> QED BY <1>1, <1>2, <1>3, PTL DEF Spec

=============================================================================
