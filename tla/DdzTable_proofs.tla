-------------------------- MODULE DdzTable_proofs ---------------------------
(* Theorems about DdzTable, for any number of clients, tables and cards: its
   types, and the invariants that its handlers rely on.                      *)
EXTENDS DdzTable, FiniteSetTheorems, TLAPS

--------------------------------------------------------------------------
(* The inductive invariant: a part for each table, and one for the clients *)

\* A table without a game is as reset() left it, but for bid_pos_.
Idle(D) ==
  ~D.running =>
    /\ D.landlord = NULL /\ D.temp = NULL /\ D.shower = NULL /\ D.multiple = -1
    /\ \A p \in Pos : D.hand[p] = 0

Turns(D) ==
  /\ D.curr = -1 <=> D.first = -1
  /\ D.declares # 0 => D.bidpos # -1

AllSeated(D) ==
  D.running =>
    /\ ~AnyNull(D)
    /\ \A c \in {D.landlord, D.temp, D.shower} : c = NULL \/ Has(D, c)
    /\ D.multiple # -1 => D.temp # NULL

Bottom(D) ==
  \A p \in Pos :
    /\ D.hand[p] <= HandSize + BottomSize
    /\ D.hand[p] > HandSize => D.landlord # NULL /\ D.seats[p] = D.landlord

Driven(D, T, ch) ==
  /\ \A s, t \in T : s = t
  /\ D.running => T # {} \/ ch \/ D.curr # -1

\* A landlord who waits for the bottom cards has not got them.
Awaited(D, T) ==
  \A t \in T : t.kind = "landlord" =>
    /\ D.running => D.curr # -1
    /\ \A p \in Pos : D.hand[p] <= HandSize

DeskInv(D, T, ch) ==
  Idle(D) /\ Turns(D) /\ AllSeated(D) /\ Bottom(D) /\ Driven(D, T, ch) /\ Awaited(D, T)

ClientInv ==
  \A c \in Client :
    /\ search[c] # NULL => info[c].desk = NULL
    /\ info[c].desk = NULL => ~info[c].ready

TableInv ==
  /\ TypeOK
  /\ \A d \in Desk : DeskInv(desk[d], tasks[d], checked[d])
  /\ SeatsAgree /\ ReadyStarts /\ ClientInv

--------------------------------------------------------------------------
(* ddz_desk *)

LEMMA FreshDesk ==
  ASSUME NEW seats \in [Pos -> Seated], NEW bidpos \in {-1} \cup Pos
  PROVE  LET E == Fresh(seats, bidpos) IN
         /\ E \in DeskState
         /\ E.seats = seats /\ E.running = FALSE /\ E.landlord = NULL
         /\ E.temp = NULL /\ E.multiple = -1 /\ E.declares = 0 /\ E.curr = -1
         /\ E.first = -1 /\ E.shower = NULL /\ E.hand = [p \in Pos |-> 0]
<1>1. NULL \in Seated
  BY DEF Seated
<1> QED BY <1>1 DEF Fresh, DeskState

LEMMA ResetDesk ==
  ASSUME NEW D \in DeskState
  PROVE  /\ Reset(D) \in DeskState
         /\ Reset(D).seats = D.seats /\ ~Reset(D).running
         /\ Idle(Reset(D)) /\ Turns(Reset(D)) /\ AllSeated(Reset(D)) /\ Bottom(Reset(D))
         /\ \A T, ch : (\A s, t \in T : s = t) => DeskInv(Reset(D), T, ch)
<1> DEFINE E == Reset(D)
<1>1. /\ E \in DeskState
      /\ E.seats = D.seats /\ E.running = FALSE /\ E.landlord = NULL
      /\ E.temp = NULL /\ E.multiple = -1 /\ E.declares = 0 /\ E.curr = -1
      /\ E.first = -1 /\ E.shower = NULL /\ E.hand = [p \in Pos |-> 0]
  <2>1. D.seats \in [Pos -> Seated] /\ D.bidpos \in {-1} \cup Pos
    BY DEF DeskState
  <2> QED BY <2>1, FreshDesk DEF Reset
<1>2. Idle(E) /\ Turns(E) /\ AllSeated(E) /\ Bottom(E)
  BY <1>1, DdzTableAssumption DEF Idle, Turns, AllSeated, Bottom, Pos
<1>3. ASSUME NEW T, NEW ch, \A s, t \in T : s = t
      PROVE  DeskInv(E, T, ch)
  BY <1>1, <1>2, <1>3, DdzTableAssumption DEF DeskInv, Driven, Awaited, Pos
<1> QED BY <1>1, <1>2, <1>3

LEMMA PosOfIs ==
  ASSUME NEW D, NEW c, Has(D, c)
  PROVE  PosOf(D, c) \in Pos /\ D.seats[PosOf(D, c)] = c
BY DEF Has, PosOf

LEMMA NextPosIs == \A p \in Pos : NextPos(p) \in Pos
BY DEF NextPos, Pos

LEMMA TableInit == Init => TableInv
<1> SUFFICES ASSUME Init PROVE TableInv
  OBVIOUS
<1>1. /\ NewDesk \in DeskState
      /\ NewDesk.seats = [p \in Pos |-> NULL] /\ NewDesk.hand = [p \in Pos |-> 0]
      /\ NewDesk.running = FALSE /\ NewDesk.landlord = NULL /\ NewDesk.temp = NULL
      /\ NewDesk.shower = NULL /\ NewDesk.multiple = -1 /\ NewDesk.declares = 0
      /\ NewDesk.curr = -1 /\ NewDesk.first = -1
  <2>1. [p \in Pos |-> NULL] \in [Pos -> Seated] /\ -1 \in {-1} \cup Pos
    BY DEF Seated
  <2> HIDE DEF Pos, DeskState
  <2> QED BY <2>1, FreshDesk, ZenonT(40) DEF NewDesk
<1>2. TypeOK
  BY <1>1 DEF Init, TypeOK, NewInfo, Info
<1>3. ASSUME NEW d \in Desk PROVE DeskInv(desk[d], tasks[d], checked[d])
  BY <1>1, DdzTableAssumption DEF Init, DeskInv, Idle, Turns, AllSeated, Bottom, Driven,
     Awaited, Pos
<1>4. SeatsAgree
  <2>1. \A d \in Desk, p \in Pos : desk[d].seats[p] = NULL
    BY <1>1 DEF Init
  <2>2. \A c \in Client : info[c].desk = NULL
    BY DEF Init, NewInfo
  <2> QED BY <2>1, <2>2, DdzTableAssumption DEF SeatsAgree, Has, Desk
<1>5. ReadyStarts
  BY <1>1 DEF Init, ReadyStarts, Pos
<1>6. ClientInv
  BY DEF Init, NewInfo, ClientInv
<1> QED BY <1>2, <1>3, <1>4, <1>5, <1>6 DEF TableInv

--------------------------------------------------------------------------
(* What a step at one table leaves alone *)

\* The other tables keep their invariant.
LEMMA OneDesk ==
  ASSUME TableInv, NEW d \in Desk, NEW E \in DeskState, NEW T \in SUBSET Task,
         NEW ch \in BOOLEAN, DeskInv(E, T, ch),
         desk' = [desk EXCEPT ![d] = E], tasks' = [tasks EXCEPT ![d] = T],
         checked' = [checked EXCEPT ![d] = ch]
  PROVE  /\ desk' \in [Desk -> DeskState] /\ tasks' \in [Desk -> SUBSET Task]
         /\ checked' \in [Desk -> BOOLEAN]
         /\ \A o \in Desk : DeskInv(desk'[o], tasks'[o], checked'[o])
<1> USE DEF TableInv, TypeOK
<1>1. /\ desk' \in [Desk -> DeskState] /\ tasks' \in [Desk -> SUBSET Task]
      /\ checked' \in [Desk -> BOOLEAN]
  <2> HIDE DEF DeskState, Task
  <2> QED OBVIOUS
<1>2. ASSUME NEW o \in Desk PROVE DeskInv(desk'[o], tasks'[o], checked'[o])
  <2>1. CASE o = d
    <3>1. desk'[o] = E /\ tasks'[o] = T /\ checked'[o] = ch
      BY <2>1
    <3> QED BY <3>1
  <2>2. CASE o # d
    <3>1. desk'[o] = desk[o] /\ tasks'[o] = tasks[o] /\ checked'[o] = checked[o]
      BY <2>2
    <3> QED BY <3>1
  <2> QED BY <2>1, <2>2
<1> QED BY <1>1, <1>2

\* Nobody sits down, stands up or gets ready, and a game that does not go on
\* leaves somebody unready.
LEMMA SameSeats ==
  ASSUME TableInv, NEW d \in Desk, NEW E \in DeskState,
         desk' = [desk EXCEPT ![d] = E], E.seats = desk[d].seats,
         \/ E.running
         \/ \E p \in Pos : E.seats[p] # NULL => ~info'[E.seats[p]].ready
         \/ ~desk[d].running,
         \A c \in Client : info'[c].desk = info[c].desk,
         \A c \in Client : info'[c].ready => info[c].ready,
         search' = search
  PROVE  SeatsAgree' /\ ReadyStarts' /\ ClientInv'
<1>1. \A o \in Desk : desk'[o].seats = desk[o].seats /\ (o # d => desk'[o] = desk[o])
  BY DEF TableInv, TypeOK
<1>2. desk'[d] = E
  BY DEF TableInv, TypeOK
<1>3. SeatsAgree'
  <2>1. \A c \in Client, o \in Desk : Has(desk'[o], c) <=> Has(desk[o], c)
    BY <1>1 DEF Has
  <2> QED BY <1>1, <2>1 DEF TableInv, SeatsAgree
<1>4. ReadyStarts'
  <2>1. SUFFICES ASSUME NEW o \in Desk, ~desk'[o].running,
                        \A p \in Pos : desk'[o].seats[p] # NULL /\ info'[desk'[o].seats[p]].ready
                 PROVE  FALSE
    BY DEF ReadyStarts
  <2>2. \A p \in Pos : desk[o].seats[p] \in Client
    BY <1>1, <2>1 DEF TableInv, TypeOK, DeskState, Seated
  <2>3. \A p \in Pos : desk[o].seats[p] # NULL /\ info[desk[o].seats[p]].ready
    BY <1>1, <2>1, <2>2
  <2>4. desk[o].running
    BY <2>3 DEF TableInv, ReadyStarts
  <2>5. o = d
    BY <1>1, <2>1, <2>4
  <2> QED BY <1>1, <1>2, <2>1, <2>4, <2>5
<1>5. ClientInv'
  <2> SUFFICES ASSUME NEW c \in Client
               PROVE  /\ search'[c] # NULL => info'[c].desk = NULL
                      /\ info'[c].desk = NULL => ~info'[c].ready
    BY DEF ClientInv
  <2> QED BY DEF TableInv, ClientInv
<1> QED BY <1>3, <1>4, <1>5

\* A step at one table that keeps its seats.
LEMMA TableStep ==
  ASSUME TableInv, NEW d \in Desk, NEW E \in DeskState, NEW T \in SUBSET Task,
         NEW ch \in BOOLEAN, DeskInv(E, T, ch),
         desk' = [desk EXCEPT ![d] = E], tasks' = [tasks EXCEPT ![d] = T],
         checked' = [checked EXCEPT ![d] = ch],
         E.seats = desk[d].seats,
         \/ E.running
         \/ \E p \in Pos : E.seats[p] # NULL => ~info'[E.seats[p]].ready
         \/ ~desk[d].running,
         info' \in [Client -> Info],
         \A c \in Client : info'[c].desk = info[c].desk,
         \A c \in Client : info'[c].ready => info[c].ready,
         search' = search
  PROVE  TableInv'
<1>1. /\ desk' \in [Desk -> DeskState] /\ tasks' \in [Desk -> SUBSET Task]
      /\ checked' \in [Desk -> BOOLEAN]
      /\ \A o \in Desk : DeskInv(desk'[o], tasks'[o], checked'[o])
  BY OneDesk
<1>2. SeatsAgree' /\ ReadyStarts' /\ ClientInv'
  BY SameSeats
<1> QED BY <1>1, <1>2 DEF TableInv, TypeOK

LEMMA Untouched ==
  ASSUME TableInv, UNCHANGED info
  PROVE  /\ info' \in [Client -> Info]
         /\ \A c \in Client : info'[c].desk = info[c].desk
         /\ \A c \in Client : info'[c].ready => info[c].ready
BY DEF TableInv, TypeOK

LEMMA DeskFacts ==
  ASSUME TableInv, NEW d \in Desk
  PROVE  /\ desk[d] \in DeskState /\ tasks[d] \in SUBSET Task /\ checked[d] \in BOOLEAN
         /\ DeskInv(desk[d], tasks[d], checked[d])
         /\ desk = [desk EXCEPT ![d] = desk[d]] /\ tasks = [tasks EXCEPT ![d] = tasks[d]]
         /\ checked = [checked EXCEPT ![d] = checked[d]]
BY DEF TableInv, TypeOK

--------------------------------------------------------------------------
(* The timers *)

LEMMA GameStartKeeps ==
  ASSUME TableInv, NEW d \in Desk, GameStart(d)
  PROVE  TableInv'
<1> DEFINE D == desk[d]
<1>0. /\ D \in DeskState /\ tasks[d] \in SUBSET Task /\ checked[d] \in BOOLEAN
      /\ DeskInv(D, tasks[d], checked[d]) /\ StartTask \in tasks[d]
      /\ checked' = [checked EXCEPT ![d] = checked[d]] /\ search' = search
  BY DEF TableInv, TypeOK, GameStart
<1>1. CASE ~D.running \/ AnyNull(D)
  <2> DEFINE T == tasks[d] \ {StartTask}
  <2>1. desk' = [desk EXCEPT ![d] = D] /\ tasks' = [tasks EXCEPT ![d] = T] /\ info' = info
    BY <1>1 DEF GameStart, TableInv, TypeOK
  <2>2. ~D.running
    BY <1>0, <1>1 DEF DeskInv, AllSeated
  <2>3. DeskInv(D, T, checked[d]) /\ T \in SUBSET Task
    BY <1>0, <2>2 DEF DeskInv, Driven, Awaited
  <2> HIDE DEF D, T
  <2> QED BY <1>0, <2>1, <2>2, <2>3, TableStep, Untouched DEF D
<1>2. CASE D.running /\ ~AnyNull(D)
  <2> DEFINE E == [D EXCEPT !.bid = [p \in Pos |-> 0], !.hand = [p \in Pos |-> HandSize]]
             T == {BidTask}
  <2>1. desk' = [desk EXCEPT ![d] = E] /\ tasks' = [tasks EXCEPT ![d] = T]
    BY <1>2 DEF GameStart, Queue, BidTask
  <2>2. /\ info' \in [Client -> Info]
        /\ \A c \in Client : info'[c].desk = info[c].desk
        /\ \A c \in Client : info'[c].ready => info[c].ready
    <3>1. info' = [c \in Client |->
             IF Has(D, c) THEN [info[c] EXCEPT !.ready = FALSE, !.declared = FALSE]
             ELSE info[c]]
      BY <1>2 DEF GameStart
    <3> HIDE DEF D
    <3> QED BY <3>1, ZenonT(40) DEF TableInv, TypeOK, Info
  <2>3. /\ E \in DeskState /\ T \in SUBSET Task
        /\ E.seats = D.seats /\ E.running = D.running /\ E.landlord = D.landlord
        /\ E.temp = D.temp /\ E.multiple = D.multiple /\ E.declares = D.declares
        /\ E.curr = D.curr /\ E.first = D.first /\ E.bidpos = D.bidpos
        /\ E.shower = D.shower /\ E.hand = [p \in Pos |-> HandSize]
    <3>1. T \in SUBSET Task
      BY DEF Task, BidTask
    <3>2. [p \in Pos |-> 0] \in [Pos -> {-1, 0, 1}] /\ [p \in Pos |-> HandSize] \in [Pos -> Nat]
      BY DdzTableAssumption
    <3> HIDE DEF D
    <3> QED BY <1>0, <3>1, <3>2 DEF DeskState
  <2>4. DeskInv(E, T, checked[d])
    <3> HIDE DEF E
    <3>1. Idle(E) /\ Turns(E) /\ AllSeated(E)
      BY <1>0, <1>2, <2>3 DEF DeskInv, Idle, Turns, AllSeated, AnyNull, Has
    <3>2. Bottom(E)
      BY <2>3, DdzTableAssumption DEF Bottom
    <3>3. Driven(E, T, checked[d]) /\ Awaited(E, T)
      BY DEF Driven, Awaited, BidTask
    <3> QED BY <3>1, <3>2, <3>3 DEF DeskInv
  <2> HIDE DEF E, T
  <2> QED BY <1>0, <1>2, <2>1, <2>2, <2>3, <2>4, TableStep
<1> QED BY <1>1, <1>2

LEMMA CheckBidKeeps ==
  ASSUME TableInv, NEW d \in Desk, CheckBid(d)
  PROVE  TableInv'
<1> DEFINE T == tasks[d] \ {BidTask}
<1>1. /\ desk' = [desk EXCEPT ![d] = desk[d]] /\ tasks' = [tasks EXCEPT ![d] = T]
      /\ checked' = [checked EXCEPT ![d] = TRUE] /\ info' = info /\ search' = search
  BY DeskFacts DEF CheckBid
<1>2. T \in SUBSET Task /\ DeskInv(desk[d], T, TRUE)
  BY DeskFacts DEF DeskInv, Driven, Awaited
<1> HIDE DEF T
<1>3. desk[d].running \/ ~desk[d].running
  OBVIOUS
<1> QED BY <1>1, <1>2, <1>3, DeskFacts, TableStep, Untouched

LEMMA GameBidKeeps ==
  ASSUME TableInv, NEW d \in Desk, GameBid(d)
  PROVE  TableInv'
<1> DEFINE D == desk[d]
           bidpos == IF D.declares = 0 THEN NextPos(D.bidpos) ELSE D.bidpos
           E == [StartAt(D, bidpos) EXCEPT !.bidpos = bidpos, !.bided = TRUE]
<1>0. /\ tasks' = [tasks EXCEPT ![d] = tasks[d]] /\ info' = info /\ search' = search
      /\ checked' = [checked EXCEPT ![d] = FALSE]
  BY DeskFacts DEF GameBid
<1>1. CASE ~D.running \/ AnyNull(D)
  <2>1. ~D.running
    BY <1>1, DeskFacts DEF DeskInv, AllSeated
  <2>2. desk' = [desk EXCEPT ![d] = D]
    BY <1>1, DeskFacts DEF GameBid
  <2>3. DeskInv(D, tasks[d], FALSE)
    BY <2>1, DeskFacts DEF DeskInv, Driven
  <2> QED BY <1>0, <2>1, <2>2, <2>3, DeskFacts, TableStep, Untouched
<1>2. CASE D.running /\ ~AnyNull(D)
  <2>1. desk' = [desk EXCEPT ![d] = E]
    BY <1>2 DEF GameBid
  <2>2. bidpos \in Pos
    <3>1. D.bidpos \in {-1} \cup Pos
      BY DeskFacts DEF DeskState
    <3>2. NextPos(D.bidpos) \in Pos
      BY <3>1 DEF NextPos, Pos
    <3>3. D.declares # 0 => D.bidpos # -1
      BY DeskFacts DEF DeskInv, Turns
    <3> QED BY <3>1, <3>2, <3>3
  <2> HIDE DEF bidpos
  <2>3. /\ E \in DeskState
        /\ E.seats = D.seats /\ E.running = D.running /\ E.landlord = D.landlord
        /\ E.temp = D.temp /\ E.multiple = D.multiple /\ E.hand = D.hand
        /\ E.curr = bidpos /\ E.first = bidpos /\ E.bidpos = bidpos /\ E.shower = D.shower
    <3>1. D \in DeskState
      BY DeskFacts
    <3> HIDE DEF D
    <3> QED BY <2>2, <3>1 DEF DeskState, StartAt
  <2>4. -1 \notin Pos
    BY DEF Pos
  <2>5. DeskInv(E, tasks[d], FALSE)
    <3> HIDE DEF E
    <3>1. Idle(E) /\ Turns(E) /\ AllSeated(E) /\ Bottom(E)
      BY <1>2, <2>2, <2>3, <2>4, DeskFacts DEF DeskInv, Idle, Turns, AllSeated, Bottom, AnyNull, Has
    <3>2. Driven(E, tasks[d], FALSE) /\ Awaited(E, tasks[d])
      BY <2>2, <2>3, <2>4, DeskFacts DEF DeskInv, Driven, Awaited
    <3> QED BY <3>1, <3>2 DEF DeskInv
  <2> HIDE DEF E
  <2> QED BY <1>0, <1>2, <2>1, <2>3, <2>5, DeskFacts, TableStep, Untouched
<1> QED BY <1>1, <1>2

LEMMA GameLandlordKeeps ==
  ASSUME TableInv, NEW d \in Desk, GameLandlord(d)
  PROVE  TableInv'
<1> DEFINE D == desk[d]
<1>0. PICK t \in tasks[d] : 
        /\ t.kind = "landlord"
        /\ tasks' = [tasks EXCEPT ![d] = @ \ {t}]
        /\ IF D.running /\ D.landlord = t.client /\ Has(D, t.client)
           THEN desk' = [desk EXCEPT ![d] =
                  [StartAt(D, PosOf(D, t.client)) EXCEPT
                     !.hand[PosOf(D, t.client)] = @ + BottomSize]]
           ELSE UNCHANGED desk
        /\ UNCHANGED <<info, checked, search>>
  BY DEF GameLandlord
<1> DEFINE T == tasks[d] \ {t}
           p == PosOf(D, t.client)
           E == [StartAt(D, p) EXCEPT !.hand[p] = @ + BottomSize]
<1>1. /\ tasks' = [tasks EXCEPT ![d] = T] /\ info' = info /\ search' = search
      /\ checked' = [checked EXCEPT ![d] = checked[d]]
  BY <1>0, DeskFacts
<1>2. T \in SUBSET Task /\ T = {} /\ (D.running => D.curr # -1)
      /\ t.client # NULL /\ \A q \in Pos : D.hand[q] <= HandSize
  BY <1>0, DeskFacts, DdzTableAssumption DEF DeskInv, Driven, Awaited, Task
<1>3. /\ info' \in [Client -> Info]
      /\ \A c \in Client : info'[c].desk = info[c].desk
      /\ \A c \in Client : info'[c].ready => info[c].ready
  BY <1>1, Untouched
<1>4. CASE D.running /\ D.landlord = t.client /\ Has(D, t.client)
  <2>1. desk' = [desk EXCEPT ![d] = E]
    BY <1>0, <1>4
  <2>2. p \in Pos /\ D.seats[p] = t.client /\ -1 \notin Pos
    BY <1>4, PosOfIs DEF Pos
  <2> HIDE DEF p
  <2>3. /\ E \in DeskState
        /\ E.seats = D.seats /\ E.running = D.running /\ E.landlord = D.landlord
        /\ E.temp = D.temp /\ E.multiple = D.multiple /\ E.declares = D.declares
        /\ E.hand = [D.hand EXCEPT ![p] = @ + BottomSize]
        /\ E.curr = p /\ E.first = p /\ E.bidpos = D.bidpos /\ E.shower = D.shower
        /\ D.hand \in [Pos -> Nat]
    <3>1. D \in DeskState
      BY DeskFacts
    <3> HIDE DEF D
    <3> DEFINE S == StartAt(D, p)
    <3>2. /\ S \in DeskState
          /\ S.seats = D.seats /\ S.running = D.running /\ S.landlord = D.landlord
          /\ S.temp = D.temp /\ S.multiple = D.multiple /\ S.declares = D.declares
          /\ S.hand = D.hand /\ S.curr = p /\ S.first = p /\ S.bidpos = D.bidpos
          /\ S.shower = D.shower
      BY <2>2, <3>1 DEF DeskState, StartAt
    <3>3. E = [S EXCEPT !.hand = [D.hand EXCEPT ![p] = @ + BottomSize]]
      BY <3>2 DEF DeskState
    <3>4. D.hand \in [Pos -> Nat]
      BY <3>1 DEF DeskState
    <3>5. [D.hand EXCEPT ![p] = @ + BottomSize] \in [Pos -> Nat]
      BY <2>2, <3>4, DdzTableAssumption
    <3> HIDE DEF S, E
    <3> QED BY <3>2, <3>3, <3>4, <3>5 DEF DeskState
  <2>4. DeskInv(E, T, checked[d])
    <3> HIDE DEF E, T
    <3>1. Idle(E) /\ Turns(E) /\ AllSeated(E)
      BY <1>4, <2>2, <2>3, DeskFacts DEF DeskInv, Idle, Turns, AllSeated, AnyNull, Has
    <3>2. Bottom(E)
      BY <1>2, <1>4, <2>2, <2>3, DeskFacts, DdzTableAssumption DEF Bottom
    <3>3. Driven(E, T, checked[d]) /\ Awaited(E, T)
      BY <1>2, <2>2, <2>3 DEF Driven, Awaited
    <3> QED BY <3>1, <3>2, <3>3 DEF DeskInv
  <2>5. /\ T \in SUBSET Task /\ checked[d] \in BOOLEAN
        /\ E \in DeskState /\ E.running /\ E.seats = desk[d].seats
    BY <1>2, <1>4, <2>3, DeskFacts
  <2> HIDE DEF E, T
  <2> QED BY <1>1, <1>3, <2>1, <2>4, <2>5, TableStep
<1>5. CASE ~(D.running /\ D.landlord = t.client /\ Has(D, t.client))
  <2>1. desk' = [desk EXCEPT ![d] = D]
    BY <1>0, <1>5, DeskFacts
  <2>2. DeskInv(D, T, checked[d])
    BY <1>2, DeskFacts DEF DeskInv, Driven, Awaited
  <2>3. /\ T \in SUBSET Task /\ checked[d] \in BOOLEAN
        /\ D \in DeskState /\ (D.running \/ ~D.running)
    BY <1>2, DeskFacts
  <2> HIDE DEF T
  <2> QED BY <1>1, <1>3, <2>1, <2>2, <2>3, TableStep
<1> QED BY <1>4, <1>5

--------------------------------------------------------------------------
(* Bidding *)

\* A table at which somebody's answer is being worked on.
Bidding(d, E) ==
  /\ E \in DeskState
  /\ E.seats = desk[d].seats /\ E.hand = desk[d].hand
  /\ E.running /\ E.landlord = NULL
  /\ Turns(E) /\ AllSeated(E)
  /\ E.curr \in Pos /\ E.first \in Pos

LEMMA BiddingHands ==
  ASSUME TableInv, NEW d \in Desk, NEW E, Bidding(d, E), desk[d].landlord = NULL
  PROVE  \A p \in Pos : E.hand[p] \in Nat /\ E.hand[p] <= HandSize
<1>1. DeskInv(desk[d], tasks[d], checked[d]) /\ desk[d] \in DeskState
  BY DeskFacts
<1>2. ASSUME NEW p \in Pos PROVE desk[d].hand[p] \in Nat /\ desk[d].hand[p] <= HandSize
  <2>1. desk[d].hand[p] \in Nat /\ ~(desk[d].hand[p] > HandSize)
    BY <1>1 DEF DeskInv, Bottom, DeskState
  <2> QED BY <2>1, DdzTableAssumption
<1> QED BY <1>2 DEF Bidding

\* A step at one table whose game goes on.
LEMMA GameStep ==
  ASSUME TableInv, NEW d \in Desk, NEW F \in DeskState, NEW T \in SUBSET Task,
         DeskInv(F, T, checked[d]), F.running, F.seats = desk[d].seats,
         desk' = [desk EXCEPT ![d] = F], tasks' = [tasks EXCEPT ![d] = T],
         UNCHANGED <<info, checked, search>>
  PROVE  TableInv'
<1>1. /\ checked' = [checked EXCEPT ![d] = checked[d]] /\ search' = search
      /\ checked[d] \in BOOLEAN
  BY DeskFacts
<1>2. /\ info' \in [Client -> Info]
      /\ \A x \in Client : info'[x].desk = info[x].desk
      /\ \A x \in Client : info'[x].ready => info[x].ready
  BY Untouched
<1> QED BY <1>1, <1>2, TableStep, ZenonT(40)

LEMMA AskKeeps ==
  ASSUME TableInv, NEW d \in Desk, NEW E, Bidding(d, E), desk[d].landlord = NULL,
         Ask(d, E), UNCHANGED <<info, checked, search>>
  PROVE  TableInv'
<1>1. desk' = [desk EXCEPT ![d] = E] /\ tasks' = [tasks EXCEPT ![d] = tasks[d]]
  BY DeskFacts DEF Ask
<1>2. /\ E \in DeskState /\ tasks[d] \in SUBSET Task
      /\ E.running /\ E.seats = desk[d].seats
  BY DeskFacts DEF Bidding
<1>3. DeskInv(E, tasks[d], checked[d])
  <2>1. Idle(E) /\ Turns(E) /\ AllSeated(E)
    BY DEF Bidding, Idle
  <2>2. \A p \in Pos : E.hand[p] \in Nat /\ E.hand[p] <= HandSize
    BY BiddingHands
  <2>3. Bottom(E)
    BY <2>2, DdzTableAssumption DEF Bottom
  <2>4. E.curr # -1
    BY DEF Bidding, Pos
  <2>5. Driven(E, tasks[d], checked[d]) /\ Awaited(E, tasks[d])
    BY <2>2, <2>4, DeskFacts DEF DeskInv, Driven, Awaited
  <2> QED BY <2>1, <2>3, <2>5 DEF DeskInv
<1> QED BY <1>1, <1>2, <1>3, GameStep

\* Somebody's answer ends the bidding: a task is queued.
LEMMA QueueInv ==
  ASSUME TableInv, NEW d \in Desk, NEW E, Bidding(d, E), desk[d].landlord = NULL,
         NEW c \in Seated, c = NULL \/ Has(E, c), NEW t \in Task
  PROVE  LET F == [E EXCEPT !.landlord = c] IN
         /\ F \in DeskState /\ F.running /\ F.seats = desk[d].seats
         /\ DeskInv(F, {t}, checked[d])
<1> DEFINE F == [E EXCEPT !.landlord = c]
           T == {t}
<1>1. /\ F \in DeskState /\ F.seats = E.seats /\ F.hand = E.hand /\ F.running = E.running
      /\ F.landlord = c /\ F.temp = E.temp /\ F.multiple = E.multiple
      /\ F.declares = E.declares /\ F.curr = E.curr /\ F.first = E.first
      /\ F.bidpos = E.bidpos /\ F.shower = E.shower
  BY DEF Bidding, DeskState
<1>2. DeskInv(F, T, checked[d])
  <2> HIDE DEF F
  <2>1. Idle(F) /\ Turns(F) /\ AllSeated(F)
    BY <1>1 DEF Bidding, Idle, Turns, AllSeated, AnyNull, Has
  <2>2. \A p \in Pos : E.hand[p] \in Nat /\ E.hand[p] <= HandSize
    BY BiddingHands
  <2>3. Bottom(F)
    BY <1>1, <2>2, DdzTableAssumption DEF Bottom
  <2>4. F.curr # -1
    BY <1>1 DEF Bidding, Pos
  <2>5. Driven(F, T, checked[d]) /\ Awaited(F, T)
    BY <1>1, <2>2, <2>4 DEF Driven, Awaited
  <2> QED BY <2>1, <2>3, <2>5 DEF DeskInv
<1> QED BY <1>1, <1>2 DEF Bidding

LEMMA LandlordKeeps ==
  ASSUME TableInv, NEW d \in Desk, NEW E, Bidding(d, E), desk[d].landlord = NULL,
         NEW c \in Client, Has(E, c),
         Landlord(d, E, c), UNCHANGED <<info, checked, search>>
  PROVE  TableInv'
<1> DEFINE t == [kind |-> "landlord", client |-> c]
           T == {t}
           F == [E EXCEPT !.landlord = c]
<1>1. t \in Task /\ T \in SUBSET Task /\ c \in Seated /\ (c = NULL \/ Has(E, c))
  BY DEF Task, Seated
<1>2. desk' = [desk EXCEPT ![d] = F] /\ tasks' = [tasks EXCEPT ![d] = T]
  BY DEF Landlord, Queue
<1>3. F \in DeskState /\ F.running /\ F.seats = desk[d].seats /\ DeskInv(F, T, checked[d])
  <2> HIDE DEF t
  <2> QED BY <1>1, QueueInv
<1> HIDE DEF T, F
<1> QED BY <1>1, <1>2, <1>3, GameStep

LEMMA RestartKeeps ==
  ASSUME TableInv, NEW d \in Desk, NEW E, Bidding(d, E), desk[d].landlord = NULL,
         desk' = [desk EXCEPT ![d] = E], Queue(d, "start", NULL),
         UNCHANGED <<info, checked, search>>
  PROVE  TableInv'
<1> DEFINE t == [kind |-> "start", client |-> NULL]
           T == {t}
           F == [E EXCEPT !.landlord = NULL]
<1>1. t \in Task /\ T \in SUBSET Task /\ NULL \in Seated /\ F = E
  BY DEF Task, Seated, Bidding, DeskState
<1>2. desk' = [desk EXCEPT ![d] = F] /\ tasks' = [tasks EXCEPT ![d] = T]
  BY <1>1 DEF Queue
<1>3. F \in DeskState /\ F.running /\ F.seats = desk[d].seats /\ DeskInv(F, T, checked[d])
  <2> HIDE DEF t
  <2> QED BY <1>1, QueueInv
<1> HIDE DEF T, F
<1> QED BY <1>1, <1>2, <1>3, GameStep

LEMMA MoveNextBids ==
  ASSUME NEW d, NEW E, Bidding(d, E)
  PROVE  Bidding(d, MoveNext(E)) /\ MoveNext(E).seats = E.seats
         /\ MoveNext(E).temp = E.temp
<1> DEFINE F == MoveNext(E)
<1>1. NextPos(E.curr) \in Pos /\ -1 \notin Pos
  BY NextPosIs DEF Bidding, Pos
<1>2. /\ F \in DeskState /\ F.seats = E.seats /\ F.hand = E.hand /\ F.running = E.running
      /\ F.landlord = E.landlord /\ F.temp = E.temp /\ F.multiple = E.multiple
      /\ F.declares = E.declares /\ F.curr = NextPos(E.curr) /\ F.first = E.first
      /\ F.bidpos = E.bidpos /\ F.shower = E.shower
  BY <1>1 DEF Bidding, DeskState, MoveNext
<1> HIDE DEF F
<1>3. Bidding(d, F)
  BY <1>1, <1>2 DEF Bidding, Turns, AllSeated, AnyNull, Has
<1> QED BY <1>2, <1>3 DEF F

\* c raises: it is the highest bidder.
LEMMA RaiseBids ==
  ASSUME NEW d, NEW E, Bidding(d, E), NEW c \in Client, Has(E, c)
  PROVE  LET F == [E EXCEPT !.multiple = @ + 1, !.temp = c] IN
         Bidding(d, F) /\ F.seats = E.seats /\ F.temp = c
<1> DEFINE F == [E EXCEPT !.multiple = @ + 1, !.temp = c]
<1>1. /\ F \in DeskState /\ F.seats = E.seats /\ F.hand = E.hand /\ F.running = E.running
      /\ F.landlord = E.landlord /\ F.temp = c
      /\ F.declares = E.declares /\ F.curr = E.curr /\ F.first = E.first
      /\ F.bidpos = E.bidpos /\ F.shower = E.shower
  <2>1. E \in DeskState /\ c \in Seated
    BY DEF Bidding, Seated
  <2>2. E.multiple \in Int
    BY <2>1 DEF DeskState
  <2>3. E.multiple + 1 \in Int
    BY <2>2
  <2> DEFINE m == E.multiple + 1
  <2> HIDE DEF m
  <2>4. F = [E EXCEPT !.multiple = m, !.temp = c]
    BY DEF m
  <2> HIDE DEF F
  <2> QED BY <2>1, <2>3, <2>4 DEF DeskState, m
<1> HIDE DEF F
<1>2. Bidding(d, F)
  BY <1>1, DdzTableAssumption DEF Bidding, Turns, AllSeated, AnyNull, Has
<1> QED BY <1>1, <1>2 DEF F

LEMMA StartAtBids ==
  ASSUME NEW d, NEW E, Bidding(d, E), NEW p \in Pos
  PROVE  Bidding(d, StartAt(E, p)) /\ StartAt(E, p).seats = E.seats
<1> DEFINE F == StartAt(E, p)
<1>1. /\ F \in DeskState /\ F.seats = E.seats /\ F.hand = E.hand /\ F.running = E.running
      /\ F.landlord = E.landlord /\ F.temp = E.temp /\ F.multiple = E.multiple
      /\ F.declares = E.declares /\ F.curr = p /\ F.first = p
      /\ F.bidpos = E.bidpos /\ F.shower = E.shower
  BY DEF Bidding, DeskState, StartAt
<1>2. -1 \notin Pos
  BY DEF Pos
<1> HIDE DEF F
<1>3. Bidding(d, F)
  BY <1>1, <1>2 DEF Bidding, Turns, AllSeated, AnyNull, Has
<1> QED BY <1>1, <1>3 DEF F


\* The highest bidder sits at the table.
LEMMA AnswerKeeps ==
  ASSUME TableInv, NEW d \in Desk, NEW E, Bidding(d, E), desk[d].landlord = NULL,
         E.temp \in Client,
         Landlord(d, E, E.temp) \/ Ask(d, E), UNCHANGED <<info, checked, search>>
  PROVE  TableInv'
<1>1. Has(E, E.temp)
  BY DdzTableAssumption DEF Bidding, AllSeated
<1>2. CASE Landlord(d, E, E.temp)
  <2> DEFINE c == E.temp
  <2>1. c \in Client /\ Has(E, c) /\ Landlord(d, E, c)
    BY <1>1, <1>2
  <2> HIDE DEF c
  <2> QED BY <2>1, LandlordKeeps
<1>3. CASE Ask(d, E)
  BY <1>3, AskKeeps
<1> QED BY <1>2, <1>3

LEMMA FirstBidKeeps ==
  ASSUME TableInv, NEW d \in Desk, NEW D, Bidding(d, D), desk[d].landlord = NULL,
         NEW c \in Client, Has(D, c), NEW yes \in BOOLEAN,
         FirstBid(d, D, c, yes), UNCHANGED <<info, checked, search>>
  PROVE  TableInv'
<1> DEFINE next == NextPos(D.curr)
           Up == [D EXCEPT !.multiple = @ + 1, !.temp = c]
           Bid1 == StartAt(Up, next)
           Two == MoveNext(MoveNext(Bid1))
<1>1. next \in Pos
  BY NextPosIs DEF Bidding
<1>2. Bidding(d, Bid1) /\ Bid1.seats = D.seats
  <2>1. Bidding(d, Up) /\ Up.seats = D.seats
    BY RaiseBids
  <2> HIDE DEF Up, next
  <2> QED BY <1>1, <2>1, StartAtBids
<1>3. Bidding(d, Two) /\ Two.seats = D.seats
  <2> HIDE DEF Bid1
  <2> DEFINE One == MoveNext(Bid1)
  <2>1. Bidding(d, One) /\ One.seats = D.seats
    BY <1>2, MoveNextBids
  <2> HIDE DEF One
  <2>2. Bidding(d, MoveNext(One)) /\ MoveNext(One).seats = D.seats
    BY <2>1, MoveNextBids
  <2> QED BY <2>2 DEF One
<1>4. \/ Landlord(d, Two, c)
      \/ Ask(d, Bid1)
      \/ desk' = [desk EXCEPT ![d] = D] /\ Queue(d, "start", NULL)
      \/ D.declares # 0 /\ Landlord(d, D, D.seats[D.bidpos])
      \/ Ask(d, MoveNext(D))
  <2>1. CASE yes /\ D.bid[next] = -1
    BY <2>1 DEF FirstBid
  <2>2. CASE yes /\ D.bid[next] # -1
    BY <2>2 DEF FirstBid
  <2>3. CASE ~yes /\ D.seats[next] = D.seats[D.first] /\ D.declares = 0
    BY <2>3 DEF FirstBid
  <2>4. CASE ~yes /\ D.seats[next] = D.seats[D.first] /\ D.declares # 0
    BY <2>4 DEF FirstBid
  <2>5. CASE ~yes /\ D.seats[next] # D.seats[D.first]
    BY <2>5 DEF FirstBid
  <2> QED BY <2>1, <2>2, <2>3, <2>4, <2>5
<1>5. CASE Landlord(d, Two, c)
  <2>1. Has(Two, c)
    BY <1>3 DEF Has
  <2> HIDE DEF Two
  <2> QED BY <1>3, <1>5, <2>1, LandlordKeeps
<1>6. CASE Ask(d, Bid1)
  <2> HIDE DEF Bid1
  <2> QED BY <1>2, <1>6, AskKeeps
<1>7. CASE desk' = [desk EXCEPT ![d] = D] /\ Queue(d, "start", NULL)
  BY <1>7, RestartKeeps
<1>8. CASE D.declares # 0 /\ Landlord(d, D, D.seats[D.bidpos])
  <2> DEFINE l == D.seats[D.bidpos]
  <2>1. D.bidpos \in Pos
    BY <1>8 DEF Bidding, Turns, DeskState
  <2>2. l \in Client /\ Has(D, l)
    BY <2>1 DEF Bidding, DeskState, Seated, AllSeated, AnyNull, Has
  <2>3. Landlord(d, D, l)
    BY <1>8
  <2> HIDE DEF l
  <2> QED BY <2>2, <2>3, LandlordKeeps
<1>9. CASE Ask(d, MoveNext(D))
  <2> DEFINE N == MoveNext(D)
  <2>1. Bidding(d, N) /\ Ask(d, N)
    BY <1>9, MoveNextBids
  <2> HIDE DEF N
  <2> QED BY <2>1, AskKeeps
<1> QED BY <1>4, <1>5, <1>6, <1>7, <1>8, <1>9

LEMMA LaterBidKeeps ==
  ASSUME TableInv, NEW d \in Desk, NEW D, Bidding(d, D), desk[d].landlord = NULL,
         D.multiple # -1,
         NEW c \in Client, Has(D, c), NEW yes \in BOOLEAN,
         LaterBid(d, D, c, yes), UNCHANGED <<info, checked, search>>
  PROVE  TableInv'
<1> DEFINE Raised == IF yes THEN [D EXCEPT !.multiple = @ + 1, !.temp = c] ELSE D
           One == MoveNext(Raised)
           Two == MoveNext(One)
<1>1. Bidding(d, Raised) /\ Raised.temp \in Client
  <2>1. CASE yes
    <3> DEFINE Up == [D EXCEPT !.multiple = @ + 1, !.temp = c]
    <3>1. Bidding(d, Up) /\ Up.temp = c
      BY RaiseBids
    <3>2. Raised = Up
      BY <2>1
    <3> HIDE DEF Up, Raised
    <3> QED BY <3>1, <3>2
  <2>2. CASE ~yes
    <3>1. D.temp \in Seated /\ D.temp # NULL
      BY DEF Bidding, AllSeated, DeskState
    <3> QED BY <2>2, <3>1 DEF Seated
  <2> QED BY <2>1, <2>2
<1>2. Bidding(d, One) /\ One.temp \in Client
  <2> HIDE DEF Raised
  <2> QED BY <1>1, MoveNextBids
<1>3. Bidding(d, Two) /\ Two.temp \in Client
  <2> HIDE DEF One
  <2> QED BY <1>2, MoveNextBids
<1>4. \/ Landlord(d, Raised, Raised.temp)
      \/ Landlord(d, One, One.temp) \/ Ask(d, One)
      \/ Landlord(d, Two, Two.temp) \/ Ask(d, Two)
  <2> DEFINE First(E) == E.seats[NextPos(E.curr)] = E.seats[E.first]
             Out(E) == E.bid[E.curr] = -1
             Met(E) == IF Current(E) = E.temp THEN Landlord(d, E, E.temp) ELSE Ask(d, E)
  <2>0. /\ First(Raised) => Landlord(d, Raised, Raised.temp)
        /\ ~First(Raised) /\ ~Out(One) => Met(One)
        /\ ~First(Raised) /\ Out(One) =>
             IF First(One) THEN Landlord(d, One, One.temp)
             ELSE IF Out(Two) THEN Ask(d, Two) ELSE Met(Two)
    BY DEF LaterBid
  <2> HIDE DEF Raised, One, Two, First, Out
  <2>1. CASE First(Raised)
    BY <2>0, <2>1
  <2>2. CASE ~First(Raised) /\ ~Out(One)
    BY <2>0, <2>2
  <2>3. CASE ~First(Raised) /\ Out(One)
    BY <2>0, <2>3
  <2> QED BY <2>1, <2>2, <2>3
<1> HIDE DEF Raised, One, Two
<1> QED BY <1>1, <1>2, <1>3, <1>4, AnswerKeeps

LEMMA BidsKeeps ==
  ASSUME TableInv, NEW d \in Desk, NEW c \in Client, NEW yes \in BOOLEAN,
         Bids(d, c, yes)
  PROVE  TableInv'
<1> DEFINE D == desk[d]
           v == IF yes THEN 1 ELSE -1
           Told == [D EXCEPT !.bid[PosOf(D, c)] = v]
<1>1. /\ D.running /\ D.landlord = NULL /\ Current(D) = c
      /\ IF D.multiple = -1 THEN FirstBid(d, Told, c, yes) ELSE LaterBid(d, Told, c, yes)
      /\ UNCHANGED <<info, checked, search>>
  BY DEF Bids
<1>2. D \in DeskState /\ DeskInv(D, tasks[d], checked[d])
  BY DeskFacts
<1>3. D.curr \in Pos /\ D.seats[D.curr] = c /\ D.first \in Pos
  <2>1. D.curr \in {-1} \cup Pos /\ D.first \in {-1} \cup Pos
    BY <1>2 DEF DeskState
  <2>2. D.curr # -1 /\ D.seats[D.curr] = c
    BY <1>1, DdzTableAssumption DEF Current
  <2> QED BY <1>2, <2>1, <2>2 DEF DeskInv, Turns
<1>4. Has(D, c)
  BY <1>3 DEF Has
<1>5. PosOf(D, c) \in Pos
  BY <1>4, PosOfIs
<1>6. /\ Told \in DeskState /\ Told.seats = D.seats /\ Told.hand = D.hand
      /\ Told.running = D.running /\ Told.landlord = D.landlord /\ Told.temp = D.temp
      /\ Told.multiple = D.multiple /\ Told.declares = D.declares /\ Told.curr = D.curr
      /\ Told.first = D.first /\ Told.bidpos = D.bidpos /\ Told.shower = D.shower
  <2> DEFINE p == PosOf(D, c)
  <2>1. v \in {-1, 0, 1} /\ p \in Pos
    BY <1>5
  <2> HIDE DEF D, v, p
  <2>2. [D.bid EXCEPT ![p] = v] \in [Pos -> {-1, 0, 1}]
    BY <1>2, <2>1 DEF DeskState
  <2> QED BY <1>2, <2>1, <2>2 DEF DeskState, p
<1>7. Bidding(d, Told) /\ Has(Told, c)
  <2>1. Turns(D) /\ AllSeated(D)
    BY <1>2 DEF DeskInv
  <2> HIDE DEF Told
  <2> QED BY <1>1, <1>3, <1>4, <1>6, <2>1 DEF Bidding, Turns, AllSeated, AnyNull, Has
<1> HIDE DEF Told
<1>8. CASE D.multiple = -1
  BY <1>1, <1>7, <1>8, FirstBidKeeps
<1>9. CASE D.multiple # -1
  <2>1. Told.multiple # -1 /\ LaterBid(d, Told, c, yes)
    BY <1>1, <1>6, <1>9
  <2> QED BY <1>1, <1>7, <2>1, LaterBidKeeps
<1> QED BY <1>8, <1>9

LEMMA DeclareKeeps ==
  ASSUME TableInv, NEW c \in Client, Declare(c)
  PROVE  TableInv'
<1> DEFINE d == info[c].desk
           D == desk[d]
           b == IF D.declares = 0 THEN PosOf(D, c) ELSE D.bidpos
           n == D.declares + 1
           E == [D EXCEPT !.bidpos = b, !.declares = n]
<1>1. /\ d \in Desk /\ D.running /\ Has(D, c)
      /\ desk' = [desk EXCEPT ![d].bidpos = b, ![d].declares = n]
      /\ info' = [info EXCEPT ![c].declared = TRUE]
      /\ UNCHANGED <<tasks, checked, search>>
  <2>1. info[c].desk # NULL /\ info[c] \in Info
    BY DEF Declare, TableInv, TypeOK
  <2>2. info[c].desk \in Desk
    BY <2>1 DEF Info
  <2>3. /\ D.running /\ Has(D, c)
        /\ desk' = [desk EXCEPT ![d].bidpos = IF D.declares = 0 THEN PosOf(D, c) ELSE @,
                                ![d].declares = @ + 1]
        /\ info' = [info EXCEPT ![c].declared = TRUE]
        /\ UNCHANGED <<tasks, checked, search>>
    BY DEF Declare
  <2>4. desk[d] \in DeskState /\ desk \in [Desk -> DeskState]
    BY <2>2, DeskFacts DEF TableInv, TypeOK
  <2>5. desk' = [desk EXCEPT ![d].bidpos = b, ![d].declares = n]
    BY <2>2, <2>3, <2>4 DEF DeskState
  <2> QED BY <2>2, <2>3, <2>5
<1> HIDE DEF d
<1>2. D \in DeskState /\ DeskInv(D, tasks[d], checked[d])
  BY <1>1, DeskFacts
<1>3. b \in {-1} \cup Pos /\ b # -1 /\ n \in Nat
  <2>1. D.bidpos \in {-1} \cup Pos /\ D.declares \in Nat
    BY <1>2 DEF DeskState
  <2>2. PosOf(D, c) \in Pos /\ -1 \notin Pos
    BY <1>1, PosOfIs DEF Pos
  <2>3. D.declares # 0 => D.bidpos # -1
    BY <1>2 DEF DeskInv, Turns
  <2> QED BY <2>1, <2>2, <2>3
<1>4. /\ E \in DeskState /\ E.seats = D.seats /\ E.hand = D.hand
      /\ E.running = D.running /\ E.landlord = D.landlord /\ E.temp = D.temp
      /\ E.multiple = D.multiple /\ E.curr = D.curr /\ E.first = D.first
      /\ E.bidpos = b /\ E.shower = D.shower
  <2> HIDE DEF b, n, D
  <2> QED BY <1>2, <1>3 DEF DeskState
<1>5. desk' = [desk EXCEPT ![d] = E]
  BY <1>1 DEF TableInv, TypeOK
<1> HIDE DEF b, n, E
<1>6. DeskInv(E, tasks[d], checked[d])
  <2>1. Idle(E) /\ Turns(E) /\ AllSeated(E) /\ Bottom(E)
    BY <1>1, <1>2, <1>3, <1>4 DEF DeskInv, Idle, Turns, AllSeated, Bottom, AnyNull, Has
  <2>2. Driven(E, tasks[d], checked[d]) /\ Awaited(E, tasks[d])
    BY <1>2, <1>4 DEF DeskInv, Driven, Awaited
  <2> QED BY <2>1, <2>2 DEF DeskInv
<1>7. /\ info' \in [Client -> Info]
      /\ \A x \in Client : info'[x].desk = info[x].desk
      /\ \A x \in Client : info'[x].ready => info[x].ready
  BY <1>1 DEF TableInv, TypeOK, Info
<1>8. /\ tasks' = [tasks EXCEPT ![d] = tasks[d]] /\ tasks[d] \in SUBSET Task
      /\ checked' = [checked EXCEPT ![d] = checked[d]] /\ checked[d] \in BOOLEAN
      /\ search' = search
  BY <1>1, DeskFacts
<1>9. d \in Desk /\ E.running /\ E.seats = desk[d].seats /\ E \in DeskState
  BY <1>1, <1>4
<1> HIDE DEF D
<1> QED BY <1>5, <1>6, <1>7, <1>8, <1>9, TableStep

--------------------------------------------------------------------------
(* Playing *)

\* A table whose current player has put down cards, or none.
Played(d, E) ==
  /\ E \in DeskState
  /\ E.seats = desk[d].seats
  /\ \A p \in Pos : E.hand[p] <= desk[d].hand[p]
  /\ E.running /\ E.landlord = desk[d].landlord /\ E.landlord # NULL
  /\ Turns(E) /\ AllSeated(E)
  /\ E.curr \in Pos

\* A game is over, and one of its players is not ready.
LEMMA GameOver ==
  ASSUME TableInv, NEW d \in Desk, NEW F \in DeskState, DeskInv(F, tasks[d], checked[d]),
         F.seats = desk[d].seats, desk' = [desk EXCEPT ![d] = F],
         \E p \in Pos : F.seats[p] # NULL => ~info'[F.seats[p]].ready,
         info' \in [Client -> Info],
         \A x \in Client : info'[x].desk = info[x].desk,
         \A x \in Client : info'[x].ready => info[x].ready,
         UNCHANGED <<tasks, checked, search>>
  PROVE  TableInv'
<1>1. desk' \in [Desk -> DeskState] /\ TypeOK
  <2>1. TypeOK
    BY DEF TableInv
  <2> HIDE DEF DeskState
  <2> QED BY <2>1 DEF TypeOK
<1>2. TypeOK'
  BY <1>1 DEF TypeOK
<1>3. ASSUME NEW o \in Desk PROVE DeskInv(desk'[o], tasks'[o], checked'[o])
  <2>1. desk'[o] = IF o = d THEN F ELSE desk[o]
    BY <1>1 DEF TypeOK
  <2> QED BY <2>1 DEF TableInv
<1>4. SeatsAgree' /\ ReadyStarts' /\ ClientInv'
  BY SameSeats
<1> QED BY <1>2, <1>3, <1>4 DEF TableInv

LEMMA ShowPokerKeeps ==
  ASSUME TableInv, NEW d \in Desk, NEW E, Played(d, E), NEW c \in Client,
         ShowPoker(d, E, c), UNCHANGED <<tasks, checked, search>>
  PROVE  TableInv'
<1>0. /\ desk[d] \in DeskState /\ DeskInv(desk[d], tasks[d], checked[d])
      /\ E \in DeskState /\ E.seats = desk[d].seats
  BY DeskFacts DEF Played
<1>1. /\ tasks' = [tasks EXCEPT ![d] = tasks[d]] /\ tasks[d] \in SUBSET Task
      /\ checked' = [checked EXCEPT ![d] = checked[d]] /\ checked[d] \in BOOLEAN
      /\ search' = search
  BY DeskFacts
<1>2. CASE E.hand[PosOf(E, c)] = 0
  <2> DEFINE F == Reset(E)
  <2>1. /\ desk' = [desk EXCEPT ![d] = F]
        /\ info' = [x \in Client |-> [info[x] EXCEPT !.ready = @ /\ ~Has(E, x)]]
    BY <1>2 DEF ShowPoker, GameStop
  <2>2. /\ info' \in [Client -> Info]
        /\ \A x \in Client : info'[x].desk = info[x].desk
        /\ \A x \in Client : info'[x].ready => info[x].ready /\ ~Has(E, x)
    BY <2>1 DEF TableInv, TypeOK, Info
  <2>3. \A s, t \in tasks[d] : s = t
    BY <1>0 DEF DeskInv, Driven
  <2>4. F \in DeskState /\ F.seats = E.seats /\ DeskInv(F, tasks[d], checked[d])
    BY <1>0, <2>3, ResetDesk
  <2>5. 0 \in Pos /\ E.seats[0] \in Seated
    BY <1>0 DEF Pos, DeskState
  <2>6. E.seats[0] # NULL => ~info'[E.seats[0]].ready
    BY <2>2, <2>5 DEF Has, Seated
  <2>7. \E p \in Pos : F.seats[p] # NULL => ~info'[F.seats[p]].ready
    BY <2>4, <2>5, <2>6
  <2>8. /\ F \in DeskState /\ DeskInv(F, tasks[d], checked[d])
        /\ F.seats = desk[d].seats /\ desk' = [desk EXCEPT ![d] = F]
    BY <1>0, <2>1, <2>4
  <2>9. \A x \in Client : info'[x].ready => info[x].ready
    BY <2>2
  <2> HIDE DEF F
  <2> QED BY <2>2, <2>7, <2>8, <2>9, GameOver
<1>3. CASE E.hand[PosOf(E, c)] # 0
  <2> DEFINE F == MoveNext(E)
  <2>1. desk' = [desk EXCEPT ![d] = F] /\ info' = info
    BY <1>3 DEF ShowPoker
  <2>2. NextPos(E.curr) \in Pos /\ -1 \notin Pos
    BY NextPosIs DEF Played, Pos
  <2>3. /\ F \in DeskState /\ F.seats = E.seats /\ F.hand = E.hand
        /\ F.running = E.running /\ F.landlord = E.landlord /\ F.temp = E.temp
        /\ F.multiple = E.multiple /\ F.declares = E.declares
        /\ F.curr = NextPos(E.curr) /\ F.first = E.first /\ F.bidpos = E.bidpos
        /\ F.shower = E.shower
    BY <1>0, <2>2 DEF DeskState, MoveNext
  <2> HIDE DEF F
  <2>4. DeskInv(F, tasks[d], checked[d])
    <3>1. Idle(F) /\ Turns(F) /\ AllSeated(F)
      BY <2>2, <2>3 DEF Played, Idle, Turns, AllSeated, AnyNull, Has
    <3>2. \A p \in Pos : F.hand[p] \in Nat /\ F.hand[p] <= desk[d].hand[p] /\ desk[d].hand[p] \in Nat
      BY <1>0, <2>3 DEF Played, DeskState
    <3>3. Bottom(F)
      BY <1>0, <2>3, <3>2, DdzTableAssumption DEF Played, DeskInv, Bottom
    <3>4. Driven(F, tasks[d], checked[d])
      BY <1>0, <2>2, <2>3 DEF DeskInv, Driven
    <3>5. Awaited(F, tasks[d])
      BY <1>0, <2>2, <2>3, <3>2, DdzTableAssumption DEF DeskInv, Awaited
    <3> QED BY <3>1, <3>3, <3>4, <3>5 DEF DeskInv
  <2>5. F.running /\ F.seats = desk[d].seats /\ F \in DeskState
    BY <1>0, <2>3 DEF Played
  <2> QED BY <1>1, <2>1, <2>4, <2>5, GameStep
<1> QED BY <1>2, <1>3

\* The player whose turn it is.
LEMMA TurnIs ==
  ASSUME TableInv, NEW d \in Desk, NEW c \in Client, MayPlay(d, c)
  PROVE  /\ desk[d] \in DeskState /\ DeskInv(desk[d], tasks[d], checked[d])
         /\ desk[d].running /\ desk[d].landlord # NULL
         /\ desk[d].curr \in Pos /\ desk[d].seats[desk[d].curr] = c
<1>1. desk[d] \in DeskState /\ DeskInv(desk[d], tasks[d], checked[d])
  BY DeskFacts
<1>2. desk[d].curr \in {-1} \cup Pos
  BY <1>1 DEF DeskState
<1> QED BY <1>1, <1>2, DdzTableAssumption DEF MayPlay, Current

LEMMA PassesKeeps ==
  ASSUME TableInv, NEW d \in Desk, NEW c \in Client, Passes(d, c)
  PROVE  TableInv'
<1> DEFINE D == desk[d]
           f == D.free \/ D.seats[NextPos(D.curr)] = D.shower
           E == [D EXCEPT !.free = f]
<1>1. MayPlay(d, c) /\ ShowPoker(d, E, c) /\ UNCHANGED <<tasks, checked, search>>
  <2>1. [D EXCEPT !.free = @ \/ D.seats[NextPos(D.curr)] = D.shower] = E
    OBVIOUS
  <2> QED BY <2>1 DEF Passes
<1>2. /\ D \in DeskState /\ DeskInv(D, tasks[d], checked[d])
      /\ D.running /\ D.landlord # NULL /\ D.curr \in Pos
  BY <1>1, TurnIs
<1>3. f \in BOOLEAN
  BY <1>2 DEF DeskState
<1> HIDE DEF f
<1>4. /\ E \in DeskState /\ E.seats = D.seats /\ E.hand = D.hand
      /\ E.running = D.running /\ E.landlord = D.landlord /\ E.temp = D.temp
      /\ E.multiple = D.multiple /\ E.declares = D.declares /\ E.curr = D.curr
      /\ E.first = D.first /\ E.bidpos = D.bidpos /\ E.shower = D.shower
  <2> HIDE DEF D
  <2> QED BY <1>2, <1>3 DEF DeskState
<1> HIDE DEF E
<1>5. Played(d, E)
  <2>1. \A p \in Pos : E.hand[p] <= desk[d].hand[p]
    BY <1>2, <1>4 DEF DeskState
  <2> QED BY <1>2, <1>4, <2>1 DEF Played, DeskInv, Turns, AllSeated, AnyNull, Has
<1> QED BY <1>1, <1>5, ShowPokerKeeps

LEMMA PlaysKeeps ==
  ASSUME TableInv, NEW d \in Desk, NEW c \in Client, NEW n, Plays(d, c, n)
  PROVE  TableInv'
<1> DEFINE D == desk[d]
           h == [D.hand EXCEPT ![D.curr] = @ - n]
           E == [D EXCEPT !.free = FALSE, !.shower = c, !.hand = h]
<1>1. /\ MayPlay(d, c) /\ n \in 1..D.hand[D.curr]
      /\ ShowPoker(d, [D EXCEPT !.free = FALSE, !.shower = c, !.hand[D.curr] = @ - n], c)
      /\ UNCHANGED <<tasks, checked, search>>
  BY DEF Plays
<1>2. /\ D \in DeskState /\ DeskInv(D, tasks[d], checked[d])
      /\ D.running /\ D.landlord # NULL /\ D.curr \in Pos /\ D.seats[D.curr] = c
  BY <1>1, TurnIs
<1>3. ShowPoker(d, E, c)
  <2>1. [D EXCEPT !.free = FALSE, !.shower = c, !.hand[D.curr] = @ - n] = E
    BY <1>2 DEF DeskState
  <2> HIDE DEF D, E
  <2> QED BY <1>1, <2>1
<1>4. h \in [Pos -> Nat] /\ \A p \in Pos : h[p] <= D.hand[p]
  <2>1. D.hand \in [Pos -> Nat]
    BY <1>2 DEF DeskState
  <2> HIDE DEF D
  <2> QED BY <1>1, <1>2, <2>1
<1> HIDE DEF h
<1>5. /\ E \in DeskState /\ E.seats = D.seats /\ E.hand = h
      /\ E.running = D.running /\ E.landlord = D.landlord /\ E.temp = D.temp
      /\ E.multiple = D.multiple /\ E.declares = D.declares /\ E.curr = D.curr
      /\ E.first = D.first /\ E.bidpos = D.bidpos /\ E.shower = c
  <2>1. c \in Seated
    BY DEF Seated
  <2> HIDE DEF D
  <2> QED BY <1>2, <1>4, <2>1 DEF DeskState
<1> HIDE DEF E
<1>6. Played(d, E)
  <2>1. Has(D, c)
    BY <1>2 DEF Has
  <2> QED BY <1>2, <1>4, <1>5, <2>1 DEF Played, DeskInv, Turns, AllSeated, AnyNull, Has
<1> QED BY <1>1, <1>3, <1>6, ShowPokerKeeps

LEMMA UpdateKeeps ==
  ASSUME TableInv, NEW d \in Desk, Update(d)
  PROVE  TableInv'
<1> DEFINE c == Current(desk[d])
<1>1. c \in Client
  <2>1. desk[d] \in DeskState /\ c # NULL
    BY DeskFacts DEF Update
  <2>2. desk[d].curr \in {-1} \cup Pos /\ desk[d].seats \in [Pos -> Seated]
    BY <2>1 DEF DeskState
  <2> QED BY <2>1, <2>2 DEF Current, Seated
<1>2. Bids(d, c, FALSE) \/ Plays(d, c, 1) \/ Passes(d, c)
  BY DEF Update
<1> HIDE DEF c
<1> QED BY <1>1, <1>2, BidsKeeps, PlaysKeeps, PassesKeeps

--------------------------------------------------------------------------
(* Sitting down and leaving *)

\* A table without a game that somebody leaves or joins.
LEMMA ReseatedDesk ==
  ASSUME NEW D \in DeskState, NEW T, NEW ch, DeskInv(D, T, ch), ~D.running,
         NEW p \in Pos, NEW x \in Seated
  PROVE  LET F == [D EXCEPT !.seats[p] = x] IN
         /\ F \in DeskState /\ F.seats = [D.seats EXCEPT ![p] = x] /\ ~F.running
         /\ DeskInv(F, T, ch)
<1> DEFINE F == [D EXCEPT !.seats[p] = x]
           s == [D.seats EXCEPT ![p] = x]
<1>1. s \in [Pos -> Seated]
  BY DEF DeskState
<1>2. F = [D EXCEPT !.seats = s]
  BY DEF DeskState
<1> HIDE DEF s
<1>3. /\ F \in DeskState /\ F.seats = s /\ F.hand = D.hand /\ F.running = D.running
      /\ F.landlord = D.landlord /\ F.temp = D.temp /\ F.multiple = D.multiple
      /\ F.declares = D.declares /\ F.curr = D.curr /\ F.first = D.first
      /\ F.bidpos = D.bidpos /\ F.shower = D.shower
  <2> HIDE DEF F
  <2> QED BY <1>1, <1>2 DEF DeskState
<1> HIDE DEF F
<1>4. Idle(F) /\ Turns(F) /\ AllSeated(F)
  BY <1>3 DEF DeskInv, Idle, Turns, AllSeated
<1>5. \A q \in Pos : F.hand[q] = 0
  BY <1>3 DEF DeskInv, Idle
<1>6. Bottom(F) /\ Driven(F, T, ch) /\ Awaited(F, T)
  BY <1>3, <1>5, DdzTableAssumption DEF DeskInv, Bottom, Driven, Awaited
<1> QED BY <1>3, <1>4, <1>6 DEF DeskInv, F, s

LEMMA StoodDesk ==
  ASSUME NEW D \in DeskState, NEW T, NEW ch, DeskInv(D, T, ch), NEW c \in Client, Has(D, c)
  PROVE  LET F == Stood(D, c) IN
         /\ F \in DeskState /\ F.seats = [D.seats EXCEPT ![PosOf(D, c)] = NULL]
         /\ ~F.running /\ DeskInv(F, T, ch)
<1> DEFINE p == PosOf(D, c)
           Up == [D EXCEPT !.seats[p] = NULL]
<1>1. p \in Pos /\ NULL \in Seated
  BY PosOfIs DEF Seated
<1> HIDE DEF p
<1>2. CASE ~D.running
  BY <1>1, <1>2, ReseatedDesk DEF Stood, p
<1>3. CASE D.running
  <2> DEFINE s == [D.seats EXCEPT ![p] = NULL]
  <2>1. s \in [Pos -> Seated]
    BY <1>1 DEF DeskState
  <2>2. Up = [D EXCEPT !.seats = s]
    BY DEF DeskState
  <2> HIDE DEF s, Up
  <2>3. Up \in DeskState /\ Up.seats = s
    BY <2>1, <2>2 DEF DeskState
  <2>4. \A t, u \in T : t = u
    BY DEF DeskInv, Driven
  <2>5. Stood(D, c) = Reset(Up)
    BY <1>3 DEF Stood, Up, p
  <2>6. /\ Reset(Up) \in DeskState /\ Reset(Up).seats = Up.seats
        /\ ~Reset(Up).running /\ DeskInv(Reset(Up), T, ch)
    BY <2>3, <2>4, ResetDesk
  <2> QED BY <2>3, <2>5, <2>6 DEF s, p
<1> QED BY <1>2, <1>3

\* c leaves the table it sits at, if any, and its info forgets the table.
LEMMA StandUpKeeps ==
  ASSUME TableInv, NEW c \in Client, StandUp(c),
         NEW i \in Info, i.desk = NULL, ~i.ready, info' = [info EXCEPT ![c] = i],
         UNCHANGED <<tasks, checked>>,
         search' \in [Client -> Search \cup {NULL}],
         \A x \in Client : search'[x] # NULL => x = c \/ search[x] # NULL
  PROVE  TableInv'
<1> DEFINE d == info[c].desk
           p == PosOf(desk[d], c)
<1>1. /\ desk \in [Desk -> DeskState] /\ info \in [Client -> Info]
      /\ tasks \in [Desk -> SUBSET Task] /\ checked \in [Desk -> BOOLEAN]
      /\ \A o \in Desk : DeskInv(desk[o], tasks[o], checked[o])
      /\ SeatsAgree /\ ReadyStarts /\ ClientInv
  BY DEF TableInv, TypeOK
<1>2. NULL \notin Desk /\ NULL \notin Client
  BY DdzTableAssumption DEF Desk
<1>3. d # NULL => d \in Desk /\ Has(desk[d], c) /\ Sits(c)
  <2>1. d \in Desk \cup {NULL}
    BY <1>1 DEF Info
  <2>2. d \in Desk => Has(desk[d], c)
    BY <1>1 DEF SeatsAgree
  <2> QED BY <2>1, <2>2 DEF Sits
<1>4. /\ desk' \in [Desk -> DeskState]
      /\ \A o \in Desk : /\ DeskInv(desk'[o], tasks[o], checked[o])
                         /\ desk'[o].running => desk'[o] = desk[o] /\ o # d
                         /\ ~desk'[o].running /\ o # d => desk'[o] = desk[o]
                         /\ \A q \in Pos : desk'[o].seats[q] =
                              IF o = d /\ q = p THEN NULL ELSE desk[o].seats[q]
      /\ d # NULL => p \in Pos /\ desk[d].seats[p] = c
  <2>1. CASE d = NULL
    <3>1. desk' = desk
      BY <2>1 DEF StandUp, Sits
    <3> QED BY <1>1, <1>2, <2>1, <3>1
  <2>2. CASE d # NULL
    <3> DEFINE F == Stood(desk[d], c)
    <3>1. desk' = [desk EXCEPT ![d] = F]
      BY <1>3, <2>2 DEF StandUp
    <3>2. d \in Desk /\ Has(desk[d], c) /\ p \in Pos /\ desk[d].seats[p] = c
      BY <1>3, <2>2, PosOfIs
    <3>3. /\ F \in DeskState /\ F.seats = [desk[d].seats EXCEPT ![p] = NULL]
          /\ ~F.running /\ DeskInv(F, tasks[d], checked[d])
      BY <1>1, <3>2, StoodDesk
    <3> HIDE DEF F, p, d
    <3>4. desk' \in [Desk -> DeskState] /\ \A o \in Desk : desk'[o] = IF o = d THEN F ELSE desk[o]
      <4> HIDE DEF DeskState
      <4> QED BY <1>1, <3>1, <3>2, <3>3
    <3>5. desk[d].seats \in [Pos -> Seated]
      BY <1>1, <3>2 DEF DeskState
    <3>6. ASSUME NEW o \in Desk
          PROVE  /\ DeskInv(desk'[o], tasks[o], checked[o])
                 /\ desk'[o].running => desk'[o] = desk[o] /\ o # d
                 /\ ~desk'[o].running /\ o # d => desk'[o] = desk[o]
                 /\ \A q \in Pos : desk'[o].seats[q] =
                      IF o = d /\ q = p THEN NULL ELSE desk[o].seats[q]
      <4>1. CASE o = d
        BY <3>2, <3>3, <3>4, <3>5, <4>1
      <4>2. CASE o # d
        BY <1>1, <3>4, <4>2
      <4> QED BY <4>1, <4>2
    <3> QED BY <3>2, <3>4, <3>6
  <2> QED BY <2>1, <2>2
<1>5. /\ info' \in [Client -> Info]
      /\ \A x \in Client : info'[x] = IF x = c THEN i ELSE info[x]
  BY <1>1
<1> HIDE DEF p
<1>6. TypeOK'
  BY <1>1, <1>4, <1>5 DEF TypeOK
<1>7. \A o \in Desk : DeskInv(desk'[o], tasks'[o], checked'[o])
  BY <1>4
<1>8. SeatsAgree'
  <2> SUFFICES ASSUME NEW x \in Client, NEW o \in Desk
               PROVE  /\ info'[x].desk = o <=> Has(desk'[o], x)
                      /\ \A q, r \in Pos : 
                           desk'[o].seats[q] = x /\ desk'[o].seats[r] = x => q = r
    BY DEF SeatsAgree
  <2>1. /\ info[x].desk = o <=> Has(desk[o], x)
        /\ \A q, r \in Pos : desk[o].seats[q] = x /\ desk[o].seats[r] = x => q = r
    BY <1>1 DEF SeatsAgree
  <2>2. x # NULL /\ o # NULL
    BY <1>2
  <2>3. \A q \in Pos : desk'[o].seats[q] = IF o = d /\ q = p THEN NULL ELSE desk[o].seats[q]
    BY <1>4
  <2>4. CASE x = c
    <3>1. info'[x].desk = NULL
      BY <1>5, <2>4
    <3>2. ~Has(desk'[o], x)
      <4>1. CASE o = d
        BY <1>4, <2>1, <2>2, <2>3, <2>4, <4>1 DEF Has
      <4>2. CASE o # d
        BY <2>1, <2>3, <2>4, <4>2 DEF Has
      <4> QED BY <4>1, <4>2
    <3> QED BY <2>1, <2>2, <2>3, <3>1, <3>2
  <2>5. CASE x # c
    <3>1. info'[x].desk = info[x].desk
      BY <1>5, <2>5
    <3>2. Has(desk'[o], x) <=> Has(desk[o], x)
      BY <1>4, <2>2, <2>3, <2>5 DEF Has
    <3> QED BY <2>1, <2>2, <2>3, <3>1, <3>2
  <2> QED BY <2>4, <2>5
<1>9. ReadyStarts'
  <2> SUFFICES ASSUME NEW o \in Desk, ~desk'[o].running,
                      \A q \in Pos : desk'[o].seats[q] # NULL /\ info'[desk'[o].seats[q]].ready
               PROVE  FALSE
    BY DEF ReadyStarts
  <2>1. o # d
    BY <1>2, <1>4
  <2>2. desk'[o] = desk[o]
    BY <1>4, <2>1
  <2>3. \A q \in Pos : desk[o].seats[q] \in Client
    BY <1>1, <2>2 DEF DeskState, Seated
  <2>4. \A q \in Pos : desk[o].seats[q] # NULL /\ info[desk[o].seats[q]].ready
    BY <1>2, <1>5, <2>2, <2>3
  <2> QED BY <1>1, <2>2, <2>4 DEF ReadyStarts
<1>10. ClientInv'
  <2> SUFFICES ASSUME NEW x \in Client
               PROVE  /\ search'[x] # NULL => info'[x].desk = NULL
                      /\ info'[x].desk = NULL => ~info'[x].ready
    BY DEF ClientInv
  <2>1. /\ search[x] # NULL => info[x].desk = NULL
        /\ info[x].desk = NULL => ~info[x].ready
    BY <1>1 DEF ClientInv
  <2> QED BY <1>5, <2>1
<1> QED BY <1>6, <1>7, <1>8, <1>9, <1>10 DEF TableInv

\* The client's info, once it has left its table.
LEMMA LeftIs ==
  ASSUME TableInv, NEW c \in Client, LeaveDesk(c)
  PROVE  \E i \in Info : i.desk = NULL /\ ~i.ready /\ info' = [info EXCEPT ![c] = i]
<1>1. info \in [Client -> Info] /\ info[c] \in Info
  BY DEF TableInv, TypeOK
<1>2. CASE Sits(c)
  <2> DEFINE i == LeftInfo(info[c])
  <2>1. i \in Info /\ i.desk = NULL /\ ~i.ready
    BY <1>1 DEF LeftInfo, Info
  <2>2. info' = [info EXCEPT ![c] = i]
    BY <1>2 DEF LeaveDesk
  <2> HIDE DEF i
  <2> QED BY <2>1, <2>2
<1>3. CASE ~Sits(c)
  <2>1. info' = [info EXCEPT ![c] = info[c]]
    BY <1>1, <1>3 DEF LeaveDesk
  <2>2. info[c].desk = NULL
    <3>1. info[c].desk \in Desk \cup {NULL}
      BY <1>1 DEF Info
    <3> QED BY <1>3, <3>1 DEF Sits, TableInv, SeatsAgree
  <2>3. ~info[c].ready
    BY <2>2 DEF TableInv, ClientInv
  <2> QED BY <1>1, <2>1, <2>2, <2>3
<1> QED BY <1>2, <1>3

LEMMA JoinDeskKeeps ==
  ASSUME TableInv, NEW c \in Client, JoinDesk(c)
  PROVE  TableInv'
<1> DEFINE s == [last |-> info[c].desk, required |-> 1, at |-> 1]
<1>1. /\ LeaveDesk(c) /\ StandUp(c) /\ search' = [search EXCEPT ![c] = s]
      /\ UNCHANGED <<tasks, checked>>
  BY DEF JoinDesk, LeaveDesk
<1>2. PICK i \in Info : i.desk = NULL /\ ~i.ready /\ info' = [info EXCEPT ![c] = i]
  BY <1>1, LeftIs
<1>3. s \in Search
  BY DdzTableAssumption DEF Search, TableInv, TypeOK, Info, Desk
<1> HIDE DEF s
<1>4. /\ search' \in [Client -> Search \cup {NULL}]
      /\ \A x \in Client : search'[x] # NULL => x = c \/ search[x] # NULL
  BY <1>1, <1>3 DEF TableInv, TypeOK
<1> QED BY <1>1, <1>2, <1>4, StandUpKeeps

LEMMA ByeKeeps ==
  ASSUME TableInv, NEW c \in Client, Bye(c)
  PROVE  TableInv'
<1>1. LeaveDesk(c) /\ StandUp(c) /\ UNCHANGED <<tasks, checked, search>>
  BY DEF Bye, LeaveDesk
<1>2. PICK i \in Info : i.desk = NULL /\ ~i.ready /\ info' = [info EXCEPT ![c] = i]
  BY <1>1, LeftIs
<1>3. /\ search' \in [Client -> Search \cup {NULL}]
      /\ \A x \in Client : search'[x] # NULL => x = c \/ search[x] # NULL
  BY <1>1 DEF TableInv, TypeOK
<1> QED BY <1>1, <1>2, <1>3, StandUpKeeps

LEMMA LeaveKeeps ==
  ASSUME TableInv, NEW c \in Client, Leave(c)
  PROVE  TableInv'
<1>1. /\ StandUp(c) /\ info' = [info EXCEPT ![c] = NewInfo]
      /\ UNCHANGED <<tasks, checked, search>>
  BY DEF Leave
<1>2. NewInfo \in Info /\ NewInfo.desk = NULL /\ ~NewInfo.ready
  BY DEF NewInfo, Info
<1>3. /\ search' \in [Client -> Search \cup {NULL}]
      /\ \A x \in Client : search'[x] # NULL => x = c \/ search[x] # NULL
  BY <1>1 DEF TableInv, TypeOK
<1> QED BY <1>1, <1>2, <1>3, StandUpKeeps

LEMMA LookOnKeeps ==
  ASSUME TableInv, NEW c \in Client, LookOn(c)
  PROVE  TableInv'
<1> DEFINE s == search[c]
           n == IF s.at < DeskCount THEN [s EXCEPT !.at = @ + 1]
                ELSE IF s.required < 3 THEN [s EXCEPT !.required = @ + 1, !.at = 1]
                ELSE NULL
<1>1. /\ s # NULL /\ search' = [search EXCEPT ![c] = n]
      /\ UNCHANGED <<desk, info, tasks, checked>>
  BY DEF LookOn
<1>2. s \in Search
  BY <1>1 DEF TableInv, TypeOK
<1>3. n \in Search \cup {NULL}
  <2>1. s.at \in Desk /\ s.required \in 1..3
    BY <1>2 DEF Search
  <2>2. CASE s.at < DeskCount
    <3>1. s.at + 1 \in Desk
      BY <2>1, <2>2, DdzTableAssumption DEF Desk
    <3> HIDE DEF s
    <3> QED BY <1>2, <2>2, <3>1 DEF Search
  <2>3. CASE ~(s.at < DeskCount) /\ s.required < 3
    <3>1. s.required + 1 \in 1..3 /\ 1 \in Desk
      BY <2>1, <2>3, DdzTableAssumption DEF Desk
    <3> HIDE DEF s
    <3> QED BY <1>2, <2>3, <3>1 DEF Search
  <2>4. CASE ~(s.at < DeskCount) /\ ~(s.required < 3)
    BY <2>4
  <2> QED BY <2>2, <2>3, <2>4
<1> HIDE DEF n
<1>4. /\ search' \in [Client -> Search \cup {NULL}]
      /\ \A x \in Client : search'[x] # NULL => search[x] # NULL
  BY <1>1, <1>3 DEF TableInv, TypeOK
<1>5. TypeOK'
  BY <1>1, <1>4 DEF TableInv, TypeOK
<1>6. \A d \in Desk : DeskInv(desk'[d], tasks'[d], checked'[d])
  BY <1>1 DEF TableInv
<1>7. SeatsAgree' /\ ReadyStarts'
  BY <1>1 DEF TableInv, SeatsAgree, ReadyStarts
<1>8. ClientInv'
  BY <1>1, <1>4 DEF TableInv, ClientInv
<1> QED BY <1>5, <1>6, <1>7, <1>8 DEF TableInv

LEMMA SitDownKeeps ==
  ASSUME TableInv, NEW c \in Client, SitDown(c)
  PROVE  TableInv'
<1> DEFINE d == search[c].at
           D == desk[d]
           q == Min(FreeSeats(D))
           F == [D EXCEPT !.seats[q] = c]
<1>1. /\ search[c] # NULL /\ ~D.running
      /\ Cardinality(FreeSeats(D)) = search[c].required
      /\ desk' = [desk EXCEPT ![d].seats[q] = c]
      /\ info' = [info EXCEPT ![c].desk = d]
      /\ search' = [search EXCEPT ![c] = NULL]
      /\ UNCHANGED <<tasks, checked>>
  BY DEF SitDown, Fits
<1>2. /\ desk \in [Desk -> DeskState] /\ info \in [Client -> Info]
      /\ tasks \in [Desk -> SUBSET Task] /\ checked \in [Desk -> BOOLEAN]
      /\ search \in [Client -> Search \cup {NULL}]
      /\ \A o \in Desk : DeskInv(desk[o], tasks[o], checked[o])
      /\ SeatsAgree /\ ReadyStarts /\ ClientInv
  BY DEF TableInv, TypeOK
<1>3. d \in Desk /\ search[c].required \in 1..3 /\ D \in DeskState
  BY <1>1, <1>2 DEF Search
<1>4. q \in Pos /\ D.seats[q] = NULL
  <2> DEFINE S == FreeSeats(D)
  <2>1. S # {}
    <3>1. Cardinality({}) = 0
      BY FS_EmptySet, Zenon
    <3>2. Cardinality(S) # 0
      BY <1>1, <1>3
    <3> QED BY <3>1, <3>2
  <2>2. S \subseteq 0..2
    BY DEF FreeSeats, Pos
  <2>3. \E x \in S : \A y \in S : x <= y
    <3> HIDE DEF S
    <3>1. CASE 0 \in S
      BY <2>2, <3>1
    <3>2. CASE 0 \notin S /\ 1 \in S
      BY <2>2, <3>2
    <3>3. CASE 0 \notin S /\ 1 \notin S
      <4>1. \A y \in S : y = 2
        BY <2>2, <3>3
      <4> QED BY <2>1, <4>1
    <3> QED BY <3>1, <3>2, <3>3
  <2>4. q \in S
    BY <2>3 DEF Min
  <2> QED BY <2>4 DEF FreeSeats
<1>5. desk' = [desk EXCEPT ![d] = F]
  BY <1>1
<1>6. c \in Seated /\ NULL \notin Client /\ NULL \notin Desk
  BY DdzTableAssumption DEF Seated, Desk
<1> HIDE DEF q
<1>7. /\ F \in DeskState /\ F.seats = [D.seats EXCEPT ![q] = c] /\ ~F.running
      /\ DeskInv(F, tasks[d], checked[d])
  BY <1>1, <1>2, <1>3, <1>4, <1>6, ReseatedDesk
<1> HIDE DEF F, d
<1>8. /\ desk' \in [Desk -> DeskState]
      /\ \A o \in Desk : desk'[o] = IF o = d THEN F ELSE desk[o]
  <2> HIDE DEF DeskState
  <2> QED BY <1>2, <1>3, <1>5, <1>7
<1>9. \A o \in Desk, p \in Pos : 
        desk'[o].seats[p] = IF o = d /\ p = q THEN c ELSE desk[o].seats[p]
  <2>1. D.seats \in [Pos -> Seated]
    BY <1>3 DEF DeskState
  <2> QED BY <1>3, <1>7, <1>8, <2>1
<1>10. /\ info' \in [Client -> Info] /\ search' \in [Client -> Search \cup {NULL}]
       /\ \A x \in Client : /\ info'[x].desk = IF x = c THEN d ELSE info[x].desk
                            /\ info'[x].ready = info[x].ready
                            /\ search'[x] = IF x = c THEN NULL ELSE search[x]
  <2>1. info'[c] = [info[c] EXCEPT !.desk = d] /\ info[c] \in Info
    BY <1>1, <1>2
  <2>2. info'[c] \in Info /\ info'[c].desk = d /\ info'[c].ready = info[c].ready
    BY <1>3, <2>1 DEF Info
  <2>3. info' = [info EXCEPT ![c] = info'[c]]
    BY <1>1, <1>2
  <2> QED BY <1>1, <1>2, <2>2, <2>3
<1>11. info[c].desk = NULL /\ ~info[c].ready /\ \A o \in Desk : ~Has(desk[o], c)
  BY <1>1, <1>2, <1>6 DEF ClientInv, SeatsAgree
<1>12. TypeOK'
  BY <1>1, <1>2, <1>8, <1>10 DEF TypeOK
<1>13. ASSUME NEW o \in Desk PROVE DeskInv(desk'[o], tasks'[o], checked'[o])
  BY <1>1, <1>2, <1>7, <1>8
<1>14. SeatsAgree'
  <2> SUFFICES ASSUME NEW x \in Client, NEW o \in Desk
               PROVE  /\ info'[x].desk = o <=> Has(desk'[o], x)
                      /\ \A p, r \in Pos : 
                           desk'[o].seats[p] = x /\ desk'[o].seats[r] = x => p = r
    BY DEF SeatsAgree
  <2>1. /\ info[x].desk = o <=> Has(desk[o], x)
        /\ \A p, r \in Pos : desk[o].seats[p] = x /\ desk[o].seats[r] = x => p = r
    BY <1>2 DEF SeatsAgree
  <2>2. \A p \in Pos : desk'[o].seats[p] = IF o = d /\ p = q THEN c ELSE desk[o].seats[p]
    BY <1>9
  <2>3. CASE x = c
    <3>1. \A p \in Pos : desk[o].seats[p] # c
      BY <1>11 DEF Has
    <3>2. \A p \in Pos : desk'[o].seats[p] = c <=> o = d /\ p = q
      BY <2>2, <3>1
    <3>3. Has(desk'[o], c) <=> o = d
      BY <1>4, <3>2 DEF Has
    <3>4. info'[c].desk = d
      BY <1>10
    <3> QED BY <2>3, <3>2, <3>3, <3>4
  <2>4. CASE x # c
    <3>1. ASSUME NEW p \in Pos PROVE desk'[o].seats[p] = x <=> desk[o].seats[p] = x
      <4>1. CASE o = d /\ p = q
        BY <1>4, <1>6, <2>2, <2>4, <4>1 DEF D
      <4>2. CASE ~(o = d /\ p = q)
        BY <2>2, <4>2
      <4> QED BY <4>1, <4>2
    <3>2. Has(desk'[o], x) <=> Has(desk[o], x)
      BY <3>1 DEF Has
    <3> QED BY <1>10, <2>1, <2>4, <3>1, <3>2
  <2> QED BY <2>3, <2>4
<1>15. ReadyStarts'
  <2> SUFFICES ASSUME NEW o \in Desk, ~desk'[o].running,
                      \A p \in Pos : desk'[o].seats[p] # NULL /\ info'[desk'[o].seats[p]].ready
               PROVE  FALSE
    BY DEF ReadyStarts
  <2>1. o # d
    BY <1>4, <1>9, <1>10, <1>11
  <2>2. desk'[o] = desk[o]
    BY <1>8, <2>1
  <2>3. \A p \in Pos : desk[o].seats[p] \in Client
    BY <1>2, <2>2 DEF DeskState, Seated
  <2>4. \A p \in Pos : desk[o].seats[p] # NULL /\ info[desk[o].seats[p]].ready
    BY <1>10, <2>2, <2>3
  <2> QED BY <1>2, <2>2, <2>4 DEF ReadyStarts
<1>16. ClientInv'
  <2> SUFFICES ASSUME NEW x \in Client
               PROVE  /\ search'[x] # NULL => info'[x].desk = NULL
                      /\ info'[x].desk = NULL => ~info'[x].ready
    BY DEF ClientInv
  <2> QED BY <1>2, <1>10, <1>11 DEF ClientInv
<1> QED BY <1>12, <1>13, <1>14, <1>15, <1>16 DEF TableInv

--------------------------------------------------------------------------
(* Getting ready *)

LEMMA StartedDesk ==
  ASSUME NEW D \in DeskState, ~AnyNull(D), NEW t \in Task, t.kind = "start", NEW ch
  PROVE  LET F == [Reset(D) EXCEPT !.running = TRUE] IN
         /\ F \in DeskState /\ F.seats = D.seats /\ F.running
         /\ DeskInv(F, {t}, ch)
<1> DEFINE R == Reset(D)
           F == [R EXCEPT !.running = TRUE]
<1>1. /\ R \in DeskState
      /\ R.seats = D.seats /\ R.landlord = NULL
      /\ R.temp = NULL /\ R.multiple = -1 /\ R.declares = 0 /\ R.curr = -1
      /\ R.first = -1 /\ R.shower = NULL /\ R.hand = [p \in Pos |-> 0]
  <2>1. D.seats \in [Pos -> Seated] /\ D.bidpos \in {-1} \cup Pos
    BY DEF DeskState
  <2> QED BY <2>1, FreshDesk, ZenonT(40) DEF Reset
<1> HIDE DEF R
<1>2. /\ F \in DeskState
      /\ F.seats = D.seats /\ F.running = TRUE /\ F.landlord = NULL
      /\ F.temp = NULL /\ F.multiple = -1 /\ F.declares = 0 /\ F.curr = -1
      /\ F.first = -1 /\ F.shower = NULL /\ F.hand = [p \in Pos |-> 0]
  BY <1>1 DEF DeskState
<1> HIDE DEF F
<1>3. Idle(F) /\ Turns(F) /\ AllSeated(F) /\ Bottom(F)
  BY <1>2, DdzTableAssumption DEF Idle, Turns, AllSeated, AnyNull, Bottom
<1>4. Driven(F, {t}, ch) /\ Awaited(F, {t})
  BY DEF Driven, Awaited
<1> QED BY <1>2, <1>3, <1>4 DEF DeskInv, F, R

LEMMA ReadyKeeps ==
  ASSUME TableInv, NEW c \in Client, Ready(c)
  PROVE  TableInv'
<1> DEFINE d == info[c].desk
           D == desk[d]
           All == \A p \in Pos : 
                    D.seats[p] # NULL /\ (D.seats[p] = c \/ info[D.seats[p]].ready)
           F == [Reset(D) EXCEPT !.running = TRUE]
           T == {[kind |-> "start", client |-> NULL]}
<1>1. /\ d # NULL /\ ~D.running /\ Has(D, c)
      /\ info' = [info EXCEPT ![c].ready = TRUE]
      /\ All => desk' = [desk EXCEPT ![d] = F] /\ tasks' = [tasks EXCEPT ![d] = T]
      /\ ~All => desk' = desk /\ tasks' = tasks
      /\ checked' = checked /\ search' = search
  BY DEF Ready, Queue
<1>2. /\ desk \in [Desk -> DeskState] /\ info \in [Client -> Info]
      /\ tasks \in [Desk -> SUBSET Task] /\ checked \in [Desk -> BOOLEAN]
      /\ search \in [Client -> Search \cup {NULL}]
      /\ \A o \in Desk : DeskInv(desk[o], tasks[o], checked[o])
      /\ SeatsAgree /\ ReadyStarts /\ ClientInv
  BY DEF TableInv, TypeOK
<1>3. d \in Desk /\ D \in DeskState
  <2>1. d \in Desk \cup {NULL}
    BY <1>2 DEF Info
  <2> QED BY <1>1, <1>2, <2>1
<1>4. /\ info' \in [Client -> Info]
      /\ \A x \in Client : /\ info'[x].desk = info[x].desk
                           /\ info'[x].ready <=> x = c \/ info[x].ready
  <2> DEFINE i == [info[c] EXCEPT !.ready = TRUE]
  <2>1. i \in Info /\ i.desk = info[c].desk /\ i.ready
    BY <1>2 DEF Info
  <2>2. info' = [info EXCEPT ![c] = i]
    BY <1>1, <1>2
  <2> HIDE DEF i, d
  <2>3. info' \in [Client -> Info] /\ \A x \in Client : info'[x] = IF x = c THEN i ELSE info[x]
    BY <1>2, <2>1, <2>2
  <2> QED BY <2>1, <2>3
<1>5. /\ desk' \in [Desk -> DeskState] /\ tasks' \in [Desk -> SUBSET Task]
      /\ \A o \in Desk : /\ DeskInv(desk'[o], tasks'[o], checked'[o])
                         /\ desk'[o].seats = desk[o].seats
                         /\ o # d => desk'[o] = desk[o]
      /\ (desk'[d].running <=> All)
  <2>1. CASE All
    <3>1. ~AnyNull(D)
      BY <2>1 DEF AnyNull
    <3>2. [kind |-> "start", client |-> NULL] \in Task /\ T \in SUBSET Task
      BY DEF Task
    <3>3. /\ F \in DeskState /\ F.seats = D.seats /\ F.running
          /\ DeskInv(F, T, checked[d])
      BY <1>3, <3>1, <3>2, StartedDesk
    <3>4. F.running = TRUE
      <4>1. F.running \in BOOLEAN
        BY <3>3 DEF DeskState
      <4> QED BY <3>3, <4>1
    <3>5. desk' = [desk EXCEPT ![d] = F] /\ tasks' = [tasks EXCEPT ![d] = T] /\ checked' = checked
      BY <1>1, <2>1
    <3> HIDE DEF F, T, d, All
    <3>6. /\ desk' \in [Desk -> DeskState] /\ tasks' \in [Desk -> SUBSET Task]
          /\ \A o \in Desk : /\ desk'[o] = IF o = d THEN F ELSE desk[o]
                             /\ tasks'[o] = IF o = d THEN T ELSE tasks[o]
      <4> HIDE DEF DeskState, Task
      <4> QED BY <1>2, <1>3, <3>2, <3>3, <3>5
    <3>7. ASSUME NEW o \in Desk PROVE DeskInv(desk'[o], tasks'[o], checked'[o])
      BY <1>2, <3>3, <3>5, <3>6
    <3>8. (desk'[d].running <=> All)
      BY <1>3, <2>1, <3>4, <3>6
    <3>9. ASSUME NEW o \in Desk PROVE desk'[o].seats = desk[o].seats /\ (o # d => desk'[o] = desk[o])
      BY <3>3, <3>6
    <3> QED BY <3>6, <3>7, <3>8, <3>9
  <2>2. CASE ~All
    <3>1. D.running = FALSE
      BY <1>1, <1>3 DEF DeskState
    <3> HIDE DEF All
    <3> QED BY <1>1, <1>2, <1>3, <2>2, <3>1
  <2> QED BY <2>1, <2>2
<1>6. TypeOK'
  BY <1>1, <1>2, <1>4, <1>5 DEF TypeOK
<1>7. SeatsAgree'
  <2>1. \A x \in Client, o \in Desk : Has(desk'[o], x) <=> Has(desk[o], x)
    BY <1>5 DEF Has
  <2> HIDE DEF d
  <2> QED BY <1>2, <1>4, <1>5, <2>1 DEF SeatsAgree
<1>8. ReadyStarts'
  <2> SUFFICES ASSUME NEW o \in Desk, ~desk'[o].running,
                      \A p \in Pos : desk'[o].seats[p] # NULL /\ info'[desk'[o].seats[p]].ready
               PROVE  FALSE
    BY DEF ReadyStarts
  <2>1. \A p \in Pos : /\ desk[o].seats[p] # NULL /\ desk[o].seats[p] \in Client
                       /\ info'[desk[o].seats[p]].ready
    BY <1>2, <1>5 DEF DeskState, Seated
  <2>2. \A p \in Pos : desk[o].seats[p] = c \/ info[desk[o].seats[p]].ready
    BY <1>4, <2>1
  <2>3. CASE o = d
    <3>1. All
      <4>1. \A p \in Pos : D.seats[p] # NULL /\ (D.seats[p] = c \/ info[D.seats[p]].ready)
        BY <2>1, <2>2, <2>3
      <4> QED BY <4>1
    <3> QED BY <1>5, <2>3, <3>1
  <2>4. CASE o # d
    <3>1. \A p \in Pos : desk[o].seats[p] # c
      BY <1>2, <2>4 DEF SeatsAgree, Has
    <3>2. desk[o].running
      BY <1>2, <2>1, <2>2, <3>1 DEF ReadyStarts
    <3> QED BY <1>5, <2>4, <3>2
  <2> QED BY <2>3, <2>4
<1>9. ClientInv'
  <2> SUFFICES ASSUME NEW x \in Client
               PROVE  /\ search'[x] # NULL => info'[x].desk = NULL
                      /\ info'[x].desk = NULL => ~info'[x].ready
    BY DEF ClientInv
  <2> QED BY <1>1, <1>2, <1>4 DEF ClientInv
<1> QED BY <1>5, <1>6, <1>7, <1>8, <1>9 DEF TableInv

--------------------------------------------------------------------------
(* The specification *)

LEMMA TableNext == TableInv /\ [Next]_vars => TableInv'
<1> SUFFICES ASSUME TableInv, [Next]_vars PROVE TableInv'
  OBVIOUS
<1>1. ASSUME NEW c \in Client, ClientStep(c) PROVE TableInv'
  <2>1. CASE JoinDesk(c)
    BY <2>1, JoinDeskKeeps
  <2>2. CASE SitDown(c)
    BY <2>2, SitDownKeeps
  <2>3. CASE LookOn(c)
    BY <2>3, LookOnKeeps
  <2>4. CASE Bye(c)
    BY <2>4, ByeKeeps
  <2>5. CASE Leave(c)
    BY <2>5, LeaveKeeps
  <2>6. CASE Ready(c)
    BY <2>6, ReadyKeeps
  <2>7. CASE Declare(c)
    BY <2>7, DeclareKeeps
  <2>8. CASE Bid(c)
    <3>1. info[c].desk \in Desk
      BY <2>8 DEF Bid, TableInv, TypeOK, Info
    <3> QED BY <2>8, <3>1, BidsKeeps DEF Bid
  <2>9. CASE Card(c)
    <3>1. info[c].desk \in Desk
      BY <2>9 DEF Card, TableInv, TypeOK, Info
    <3> QED BY <2>9, <3>1, PassesKeeps, PlaysKeeps DEF Card
  <2> QED BY <1>1, <2>1, <2>2, <2>3, <2>4, <2>5, <2>6, <2>7, <2>8, <2>9 DEF ClientStep
<1>2. ASSUME NEW d \in Desk, TimerStep(d) PROVE TableInv'
  BY <1>2, GameStartKeeps, CheckBidKeeps, GameBidKeeps, GameLandlordKeeps DEF TimerStep
<1>3. ASSUME NEW d \in Desk, Update(d) PROVE TableInv'
  BY <1>3, UpdateKeeps
<1>4. CASE UNCHANGED vars
  BY <1>4 DEF vars, TableInv, TypeOK, SeatsAgree, ReadyStarts, ClientInv
<1> QED BY <1>1, <1>2, <1>3, <1>4 DEF Next

LEMMA TableInvHolds == Spec => []TableInv
BY TableInit, TableNext, PTL DEF Spec

\* Every field of the tables and the clients has its type: positions are ones of
\* the table or unset, and no count of cards falls below zero.
THEOREM Typing == Spec => []TypeOK
<1>1. TableInv => TypeOK
  BY DEF TableInv
<1> QED BY <1>1, TableInvHolds, PTL

\* A client's info names a table exactly if that table has the client, on one
\* chair, through joining, leaving and the search of the tables one by one.
THEOREM Seating == Spec => []SeatsAgree
<1>1. TableInv => SeatsAgree
  BY DEF TableInv
<1> QED BY <1>1, TableInvHolds, PTL

\* A running game has three players, and the landlord and the bidders are among
\* them.
THEOREM Playing == Spec => []PlayersSeated
<1>1. TableInv => PlayersSeated
  BY DEF TableInv, DeskInv, AllSeated, PlayersSeated
<1> QED BY <1>1, TableInvHolds, PTL

\* No table waits with three clients that are ready.
THEOREM Starting == Spec => []ReadyStarts
<1>1. TableInv => ReadyStarts
  BY DEF TableInv
<1> QED BY <1>1, TableInvHolds, PTL

\* At most one timer of a table is not stale, and a running game has a timer or
\* a current player.
THEOREM Driving == Spec => []OneDriver
<1>1. TableInv => OneDriver
  <2> SUFFICES ASSUME TableInv, NEW d \in Desk
               PROVE  /\ \A s, t \in tasks[d] : s = t
                      /\ desk[d].running => tasks[d] # {} \/ checked[d] \/ Current(desk[d]) # NULL
    BY DEF OneDriver
  <2>1. DeskInv(desk[d], tasks[d], checked[d]) /\ desk[d] \in DeskState
    BY DeskFacts
  <2>2. ASSUME desk[d].running, desk[d].curr # -1 PROVE Current(desk[d]) # NULL
    <3>1. desk[d].curr \in Pos
      BY <2>1, <2>2 DEF DeskState
    <3> QED BY <2>1, <2>2, <3>1 DEF DeskInv, AllSeated, AnyNull, Current
  <2> QED BY <2>1, <2>2 DEF DeskInv, Driven
<1> QED BY <1>1, TableInvHolds, PTL

\* No player but the landlord has more cards than it was dealt, and the landlord
\* has no more than those and the bottom cards.
THEOREM Dealing == Spec => []BottomOnce
<1>1. TableInv => BottomOnce
  BY DEF TableInv, DeskInv, Bottom, BottomOnce
<1> QED BY <1>1, TableInvHolds, PTL

--------------------------------------------------------------------------
(* How a game ends *)

\* A game in which somebody has bid, or that has a landlord.
Bidden(D) == D.running /\ (D.multiple # -1 \/ D.landlord # NULL)

\* The timers that may still fire in turn: the start, the bid, its lock, the
\* landlord.
TimersLeft(T, ch) ==
  (IF StartTask \in T THEN 4 ELSE IF BidTask \in T THEN 2 ELSE IF T = {} THEN 0 ELSE 1)
    + (IF ch THEN 1 ELSE 0)

\* Seats from the one that is asked to the one before the first.
ToFirst(D) == (D.first + 5 - D.curr) % 3

\* Seats from the one whose turn it is to the last that played.
ToShower(D) == IF D.shower = NULL THEN 0 ELSE (PosOf(D, D.shower) + 3 - D.curr) % 3

TurnsLeft(D) ==
  IF D.landlord = NULL THEN ToFirst(D)
  ELSE 3 * (D.hand[0] + D.hand[1] + D.hand[2]) + ToShower(D)

\* What a game has before it: a landlord to find, its timers, its turns.
Left(d) ==
  <<IF desk[d].landlord = NULL THEN 1 ELSE 0,
    TimersLeft(tasks[d], checked[d]),
    TurnsLeft(desk[d])>>

Measure == (0..1) \X (0..5) \X Nat

Sooner(m, n) ==
  \/ m[1] < n[1]
  \/ m[1] = n[1] /\ m[2] < n[2]
  \/ m[1] = n[1] /\ m[2] = n[2] /\ m[3] < n[3]

\* A player of the table answers or plays.
Turn(d) == \E c \in Client : info[c].desk = d /\ (Bid(c) \/ Card(c))

\* A game in which somebody has bid is not set back: each step of its timers, of
\* its players and of on_update brings its end nearer, in the order of its phases,
\* its timers and its turns, and no other step takes it away but one that ends
\* the game.
GamesRunOut ==
  [][\A d \in Desk : Bidden(desk[d]) =>
       /\ Left(d) \in Measure
       /\ desk'[d].running =>
            /\ Bidden(desk'[d])
            /\ IF TimerStep(d) \/ Turn(d) \/ Update(d) THEN Sooner(Left(d)', Left(d))
               ELSE Left(d)' = Left(d)]_vars

\* It is the turn of a player whom on_update can stand in for.
Waits(D) ==
  LET c == Current(D) IN
  /\ c # NULL
  /\ \/ D.landlord = NULL
     \/ D.hand[D.curr] > 0 /\ (D.free \/ D.shower \notin {NULL, c})

\* And it has such a step, unless it is stuck.
GamesGoOn ==
  \A d \in Desk : Bidden(desk[d]) =>
    Stuck(desk[d]) \/ tasks[d] # {} \/ checked[d] \/ Waits(desk[d])

\* Who leads has no one to beat, and a bid counts up from one.
Sane(D) ==
  /\ D.multiple \in Nat \cup {-1}
  /\ D.running /\ ~D.free => D.shower # NULL

SaneInv == \A d \in Desk : Sane(desk[d])

LEMMA SameTurns ==
  ASSUME NEW D, NEW E, E.seats = D.seats, E.landlord = D.landlord, E.first = D.first,
         E.curr = D.curr, E.hand = D.hand, E.shower = D.shower
  PROVE  TurnsLeft(E) = TurnsLeft(D)
<1>1. PosOf(E, D.shower) = PosOf(D, D.shower)
  BY Zenon DEF PosOf
<1> QED BY <1>1 DEF TurnsLeft, ToFirst, ToShower

LEMMA LeftIsMeasure ==
  ASSUME TableInv, NEW d \in Desk, Bidden(desk[d])
  PROVE  Left(d) \in Measure
<1> DEFINE D == desk[d]
<1>1. D \in DeskState /\ DeskInv(D, tasks[d], checked[d])
  BY DeskFacts
<1>2. TimersLeft(tasks[d], checked[d]) \in 0..5
  BY DEF TimersLeft
<1>3. /\ D.first \in {-1, 0, 1, 2} /\ D.curr \in {-1, 0, 1, 2}
      /\ D.hand[0] \in Nat /\ D.hand[1] \in Nat /\ D.hand[2] \in Nat
  BY <1>1 DEF DeskState, Pos
<1>4. D.shower # NULL => PosOf(D, D.shower) \in {0, 1, 2}
  <2>1. D.shower # NULL => Has(D, D.shower)
    BY <1>1 DEF DeskInv, AllSeated, Bidden
  <2> QED BY <2>1, PosOfIs DEF Pos
<1>5. TurnsLeft(D) \in Nat
  <2>1. ToFirst(D) \in Nat
    BY <1>3 DEF ToFirst
  <2>2. ToShower(D) \in Nat
    BY <1>3, <1>4 DEF ToShower
  <2> HIDE DEF D
  <2> QED BY <1>3, <2>1, <2>2 DEF TurnsLeft
<1> QED BY <1>2, <1>5 DEF Left, Measure

--------------------------------------------------------------------------
(* The timers bring the end nearer *)

\* A step at table d of its timers or in its game.
Nearer(d) ==
  /\ Sane(desk'[d])
  /\ Bidden(desk[d]) /\ desk'[d].running => Bidden(desk'[d]) /\ Sooner(Left(d)', Left(d))

\* A timer has fired.
LEMMA FiredNearer ==
  ASSUME TableInv, SaneInv, NEW d \in Desk, NEW E,
         desk'[d] = E, E.running = desk[d].running, E.landlord = desk[d].landlord,
         E.multiple = desk[d].multiple, E.free = desk[d].free, E.shower = desk[d].shower,
         Bidden(desk[d]) =>
           TimersLeft(tasks'[d], checked'[d]) < TimersLeft(tasks[d], checked[d])
  PROVE  Nearer(d)
<1>1. Sane(E)
  BY DEF SaneInv, Sane
<1> QED BY <1>1 DEF Nearer, Bidden, Sooner, Left

LEMMA GameStartNearer ==
  ASSUME TableInv, SaneInv, NEW d \in Desk, GameStart(d)
  PROVE  Nearer(d)
<1> DEFINE D == desk[d]
           E == [D EXCEPT !.bid = [p \in Pos |-> 0], !.hand = [p \in Pos |-> HandSize]]
<1>1. D \in DeskState /\ DeskInv(D, tasks[d], checked[d])
  BY DeskFacts
<1>2. CASE ~D.running \/ AnyNull(D)
  <2>1. ~D.running /\ desk' = desk
    BY <1>1, <1>2 DEF DeskInv, AllSeated, GameStart
  <2> QED BY <2>1, FiredNearer DEF Bidden
<1>3. CASE D.running /\ ~AnyNull(D)
  <2>1. desk'[d] = E
    BY <1>3 DEF GameStart, TableInv, TypeOK
  <2>2. tasks'[d] = {BidTask} /\ checked'[d] = checked[d]
    BY <1>3 DEF GameStart, Queue, BidTask, TableInv, TypeOK
  <2>3. TimersLeft(tasks'[d], checked'[d]) < TimersLeft(tasks[d], checked[d])
    <3>1. StartTask \in tasks[d] /\ StartTask # BidTask
      BY DEF GameStart, StartTask, BidTask
    <3> QED BY <2>2, <3>1 DEF TimersLeft
  <2>4. /\ E.running = D.running /\ E.landlord = D.landlord /\ E.multiple = D.multiple
        /\ E.free = D.free /\ E.shower = D.shower
    <3> HIDE DEF D
    <3> QED BY <1>1 DEF DeskState
  <2> HIDE DEF E
  <2> QED BY <2>1, <2>3, <2>4, FiredNearer
<1> QED BY <1>2, <1>3

LEMMA CheckBidNearer ==
  ASSUME TableInv, SaneInv, NEW d \in Desk, CheckBid(d)
  PROVE  Nearer(d)
<1>1. /\ desk'[d] = desk[d] /\ tasks'[d] = tasks[d] \ {BidTask} /\ checked'[d] = TRUE
      /\ ~checked[d] /\ BidTask \in tasks[d]
  BY DEF CheckBid, TableInv, TypeOK
<1>2. tasks'[d] = {} /\ StartTask \notin tasks[d]
  <2>1. \A s, t \in tasks[d] : s = t
    BY DeskFacts DEF DeskInv, Driven
  <2> QED BY <1>1, <2>1 DEF StartTask, BidTask
<1>3. TimersLeft(tasks'[d], checked'[d]) < TimersLeft(tasks[d], checked[d])
  BY <1>1, <1>2 DEF TimersLeft
<1> QED BY <1>1, <1>3, FiredNearer

LEMMA GameBidNearer ==
  ASSUME TableInv, SaneInv, NEW d \in Desk, GameBid(d)
  PROVE  Nearer(d)
<1> DEFINE D == desk[d]
           bidpos == IF D.declares = 0 THEN NextPos(D.bidpos) ELSE D.bidpos
           E == [StartAt(D, bidpos) EXCEPT !.bidpos = bidpos, !.bided = TRUE]
<1>1. D \in DeskState
  BY DeskFacts
<1>2. tasks'[d] = tasks[d] /\ checked'[d] = FALSE /\ checked[d]
  BY DEF GameBid, TableInv, TypeOK
<1>3. TimersLeft(tasks'[d], checked'[d]) < TimersLeft(tasks[d], checked[d])
  BY <1>2 DEF TimersLeft
<1>4. CASE ~D.running \/ AnyNull(D)
  <2>1. desk' = desk
    BY <1>4 DEF GameBid
  <2> QED BY <1>3, <2>1, FiredNearer
<1>5. CASE D.running /\ ~AnyNull(D)
  <2>1. desk'[d] = E
    BY <1>5 DEF GameBid, TableInv, TypeOK
  <2>2. /\ E.running = D.running /\ E.landlord = D.landlord /\ E.multiple = D.multiple
        /\ E.free = D.free /\ E.shower = D.shower
    <3> HIDE DEF D, bidpos
    <3> QED BY <1>1 DEF DeskState, StartAt
  <2> HIDE DEF E
  <2> QED BY <1>3, <2>1, <2>2, FiredNearer
<1> QED BY <1>4, <1>5

LEMMA GameLandlordNearer ==
  ASSUME TableInv, SaneInv, NEW d \in Desk, GameLandlord(d)
  PROVE  Nearer(d)
<1> DEFINE D == desk[d]
<1>0. D \in DeskState
  BY DeskFacts
<1>1. PICK t \in tasks[d] :
        /\ t.kind = "landlord"
        /\ tasks' = [tasks EXCEPT ![d] = @ \ {t}]
        /\ IF D.running /\ D.landlord = t.client /\ Has(D, t.client)
           THEN desk' = [desk EXCEPT ![d] =
                  [StartAt(D, PosOf(D, t.client)) EXCEPT
                     !.hand[PosOf(D, t.client)] = @ + BottomSize]]
           ELSE UNCHANGED desk
        /\ UNCHANGED <<info, checked, search>>
  BY DEF GameLandlord
<1>2. tasks'[d] = {} /\ StartTask \notin tasks[d] /\ BidTask \notin tasks[d] /\ tasks[d] # {}
  <2>1. \A s, u \in tasks[d] : s = u
    BY DeskFacts DEF DeskInv, Driven
  <2>2. tasks'[d] = tasks[d] \ {t}
    BY <1>1 DEF TableInv, TypeOK
  <2>3. StartTask # t /\ BidTask # t
    BY <1>1 DEF StartTask, BidTask
  <2> QED BY <2>1, <2>2, <2>3
<1>3. TimersLeft(tasks'[d], checked'[d]) < TimersLeft(tasks[d], checked[d])
  BY <1>1, <1>2 DEF TimersLeft
<1>4. PICK p, h : desk'[d] = D \/ desk'[d] = [StartAt(D, p) EXCEPT !.hand = h]
  <2> DEFINE p == PosOf(D, t.client)
             S == StartAt(D, p)
             h == [S.hand EXCEPT ![p] = @ + BottomSize]
  <2>1. CASE D.running /\ D.landlord = t.client /\ Has(D, t.client)
    <3>1. desk'[d] = [S EXCEPT !.hand[p] = @ + BottomSize]
      BY <1>1, <2>1 DEF TableInv, TypeOK
    <3> HIDE DEF p, S
    <3>2. desk'[d] = [S EXCEPT !.hand = h]
      BY <3>1
    <3> QED BY <3>2 DEF S
  <2>2. CASE ~(D.running /\ D.landlord = t.client /\ Has(D, t.client))
    BY <1>1, <2>2
  <2> QED BY <2>1, <2>2
<1> DEFINE E == [StartAt(D, p) EXCEPT !.hand = h]
<1>5. /\ E.running = D.running /\ E.landlord = D.landlord /\ E.multiple = D.multiple
      /\ E.free = D.free /\ E.shower = D.shower
  <2> HIDE DEF D
  <2> QED BY <1>0 DEF DeskState, StartAt
<1> HIDE DEF E
<1> QED BY <1>3, <1>4, <1>5, FiredNearer DEF E

LEMMA TimerNearer ==
  ASSUME TableInv, SaneInv, NEW d \in Desk, TimerStep(d)
  PROVE  Nearer(d)
BY GameStartNearer, CheckBidNearer, GameBidNearer, GameLandlordNearer DEF TimerStep

--------------------------------------------------------------------------
(* An answer to a bid brings the end nearer *)

\* A table at which somebody's answer is being worked on: a bid that was made
\* stays made.
Answering(d, E) ==
  /\ Bidding(d, E)
  /\ Sane(E)
  /\ desk[d].multiple # -1 => E.multiple # -1

LEMMA MoveNextAnswers ==
  ASSUME NEW d, NEW E, Answering(d, E)
  PROVE  /\ Answering(d, MoveNext(E))
         /\ MoveNext(E).first = E.first /\ MoveNext(E).curr = NextPos(E.curr)
<1> DEFINE F == MoveNext(E)
<1>1. Bidding(d, E) /\ E \in DeskState
  BY DEF Answering, Bidding
<1>2. Bidding(d, F)
  BY <1>1, MoveNextBids
<1>3. /\ F.running = E.running /\ F.multiple = E.multiple /\ F.free = E.free
      /\ F.shower = E.shower /\ F.first = E.first /\ F.curr = NextPos(E.curr)
  BY <1>1 DEF DeskState, MoveNext
<1> HIDE DEF F
<1>4. Answering(d, F)
  BY <1>2, <1>3 DEF Answering, Sane
<1> QED BY <1>3, <1>4 DEF F

LEMMA RaiseAnswers ==
  ASSUME NEW d, NEW E, Answering(d, E), NEW c \in Client, Has(E, c)
  PROVE  LET F == [E EXCEPT !.multiple = @ + 1, !.temp = c] IN
         Answering(d, F) /\ F.first = E.first /\ F.curr = E.curr
<1> DEFINE F == [E EXCEPT !.multiple = @ + 1, !.temp = c]
<1>1. Bidding(d, E) /\ E \in DeskState
  BY DEF Answering, Bidding
<1>2. Bidding(d, F)
  BY <1>1, RaiseBids
<1>3. /\ F.running = E.running /\ F.multiple = E.multiple + 1 /\ F.free = E.free
      /\ F.shower = E.shower /\ F.first = E.first /\ F.curr = E.curr
  BY <1>1 DEF DeskState
<1> HIDE DEF F
<1>4. Answering(d, F)
  BY <1>2, <1>3 DEF Answering, Sane
<1> QED BY <1>3, <1>4 DEF F

LEMMA StartAtAnswers ==
  ASSUME NEW d, NEW E, Answering(d, E), NEW p \in Pos
  PROVE  Answering(d, StartAt(E, p))
<1> DEFINE F == StartAt(E, p)
<1>1. Bidding(d, E) /\ E \in DeskState
  BY DEF Answering, Bidding
<1>2. Bidding(d, F)
  BY <1>1, StartAtBids
<1>3. /\ F.running = E.running /\ F.multiple = E.multiple /\ F.free = E.free
      /\ F.shower = E.shower
  BY <1>1 DEF DeskState, StartAt
<1> HIDE DEF F
<1>4. Answering(d, F)
  BY <1>2, <1>3 DEF Answering, Sane
<1> QED BY <1>4 DEF F

\* One seat on, if that is not the first.
LEMMA NextNearer ==
  ASSUME NEW d, NEW E, Answering(d, E), NextPos(E.curr) # E.first
  PROVE  ToFirst(MoveNext(E)) < ToFirst(E)
<1>1. MoveNext(E).first = E.first /\ MoveNext(E).curr = NextPos(E.curr)
  BY MoveNextAnswers
<1>2. E.first \in {0, 1, 2} /\ E.curr \in {0, 1, 2}
  BY DEF Answering, Bidding, Pos
<1>3. ASSUME NEW f \in {0, 1, 2}, NEW p \in {0, 1, 2}, (p + 1) % 3 # f
      PROVE  (f + 5 - ((p + 1) % 3)) % 3 < (f + 5 - p) % 3
  BY <1>3
<1> QED BY <1>1, <1>2, <1>3 DEF ToFirst, NextPos

LEMMA LandlordNearer ==
  ASSUME TableInv, NEW d \in Desk, NEW E, Answering(d, E), desk[d].landlord = NULL,
         NEW c \in Client, Landlord(d, E, c)
  PROVE  Nearer(d)
<1> DEFINE F == [E EXCEPT !.landlord = c]
<1>1. desk'[d] = F
  BY DEF Landlord, TableInv, TypeOK
<1>2. /\ F.running = E.running /\ F.landlord = c /\ F.multiple = E.multiple
      /\ F.free = E.free /\ F.shower = E.shower
  BY DEF Answering, Bidding, DeskState
<1> HIDE DEF F
<1>3. Sane(F) /\ c # NULL
  BY <1>2, DdzTableAssumption DEF Answering, Sane
<1> QED BY <1>1, <1>2, <1>3 DEF Nearer, Bidden, Sooner, Left

LEMMA AskNearer ==
  ASSUME TableInv, NEW d \in Desk, NEW E, Answering(d, E), desk[d].landlord = NULL,
         Ask(d, E), UNCHANGED checked, ToFirst(E) < ToFirst(desk[d])
  PROVE  Nearer(d)
<1>1. desk'[d] = E /\ tasks'[d] = tasks[d] /\ checked'[d] = checked[d]
  BY DEF Ask, TableInv, TypeOK
<1>2. Sane(E) /\ E.landlord = NULL /\ E.running
  BY DEF Answering, Bidding
<1>3. TurnsLeft(E) < TurnsLeft(desk[d])
  BY <1>2 DEF TurnsLeft
<1>4. Bidden(desk[d]) => Bidden(E)
  BY <1>2 DEF Answering, Bidden
<1> QED BY <1>1, <1>2, <1>3, <1>4 DEF Nearer, Sooner, Left

\* The first bid: nothing is to be brought nearer yet.
LEMMA FirstBidNearer ==
  ASSUME TableInv, NEW d \in Desk, NEW D, Answering(d, D), desk[d].landlord = NULL,
         desk[d].multiple = -1,
         NEW c \in Client, Has(D, c), NEW yes \in BOOLEAN,
         FirstBid(d, D, c, yes)
  PROVE  Nearer(d)
<1> DEFINE next == NextPos(D.curr)
           Up == [D EXCEPT !.multiple = @ + 1, !.temp = c]
           Bid1 == StartAt(Up, next)
           One == MoveNext(Bid1)
           Two == MoveNext(One)
<1>1. next \in Pos
  BY NextPosIs DEF Answering, Bidding
<1>2. Answering(d, Bid1)
  <2>1. Answering(d, Up)
    BY RaiseAnswers
  <2> HIDE DEF Up, next
  <2> QED BY <1>1, <2>1, StartAtAnswers
<1>3. Answering(d, Two)
  <2> HIDE DEF Bid1
  <2>1. Answering(d, One)
    BY <1>2, MoveNextAnswers
  <2> HIDE DEF One
  <2> QED BY <2>1, MoveNextAnswers
<1>4. Answering(d, MoveNext(D))
  BY MoveNextAnswers
<1>5. \/ Landlord(d, Two, c)
      \/ Ask(d, Bid1)
      \/ desk' = [desk EXCEPT ![d] = D]
      \/ D.declares # 0 /\ Landlord(d, D, D.seats[D.bidpos])
      \/ Ask(d, MoveNext(D))
  <2>1. CASE yes /\ D.bid[next] = -1
    BY <2>1 DEF FirstBid
  <2>2. CASE yes /\ D.bid[next] # -1
    BY <2>2 DEF FirstBid
  <2>3. CASE ~yes /\ D.seats[next] = D.seats[D.first] /\ D.declares = 0
    BY <2>3 DEF FirstBid
  <2>4. CASE ~yes /\ D.seats[next] = D.seats[D.first] /\ D.declares # 0
    BY <2>4 DEF FirstBid
  <2>5. CASE ~yes /\ D.seats[next] # D.seats[D.first]
    BY <2>5 DEF FirstBid
  <2> QED BY <2>1, <2>2, <2>3, <2>4, <2>5
<1>6. ASSUME NEW E, Answering(d, E), desk' = [desk EXCEPT ![d] = E]
      PROVE  Nearer(d)
  <2>1. desk'[d] = E /\ Sane(E) /\ ~Bidden(desk[d])
    BY <1>6 DEF Answering, Bidden, TableInv, TypeOK
  <2> QED BY <2>1 DEF Nearer
<1>7. CASE Landlord(d, Two, c)
  <2> HIDE DEF Two
  <2> QED BY <1>3, <1>7, LandlordNearer
<1>8. CASE Ask(d, Bid1)
  <2> HIDE DEF Bid1
  <2> QED BY <1>2, <1>6, <1>8 DEF Ask
<1>9. CASE desk' = [desk EXCEPT ![d] = D]
  BY <1>6, <1>9
<1>10. CASE D.declares # 0 /\ Landlord(d, D, D.seats[D.bidpos])
  <2> DEFINE l == D.seats[D.bidpos]
  <2>1. D.bidpos \in Pos
    BY <1>10 DEF Answering, Bidding, Turns, DeskState
  <2>2. l \in Client
    BY <2>1 DEF Answering, Bidding, DeskState, Seated, AllSeated, AnyNull
  <2>3. Landlord(d, D, l)
    BY <1>10
  <2> HIDE DEF l
  <2> QED BY <2>2, <2>3, LandlordNearer
<1>11. CASE Ask(d, MoveNext(D))
  <2> DEFINE N == MoveNext(D)
  <2>1. Answering(d, N) /\ desk' = [desk EXCEPT ![d] = N]
    BY <1>4, <1>11 DEF Ask
  <2> HIDE DEF N
  <2> QED BY <1>6, <2>1
<1> QED BY <1>5, <1>7, <1>8, <1>9, <1>10, <1>11

\* The others are asked in turn, or one of them is the landlord.
LEMMA LaterBidNearer ==
  ASSUME TableInv, NEW d \in Desk, NEW D, Answering(d, D), desk[d].landlord = NULL,
         D.multiple # -1, desk[d].multiple # -1, ToFirst(D) = ToFirst(desk[d]),
         NEW c \in Client, Has(D, c), NEW yes \in BOOLEAN,
         LaterBid(d, D, c, yes), UNCHANGED checked
  PROVE  Nearer(d)
<1> DEFINE Raised == IF yes THEN [D EXCEPT !.multiple = @ + 1, !.temp = c] ELSE D
           One == MoveNext(Raised)
           Two == MoveNext(One)
           First(E) == E.seats[NextPos(E.curr)] = E.seats[E.first]
           Out(E) == E.bid[E.curr] = -1
           Met(E) == IF Current(E) = E.temp THEN Landlord(d, E, E.temp) ELSE Ask(d, E)
<1>1. Answering(d, Raised) /\ ToFirst(Raised) = ToFirst(desk[d])
  <2>1. CASE yes
    <3> DEFINE Up == [D EXCEPT !.multiple = @ + 1, !.temp = c]
    <3>1. Answering(d, Up) /\ Up.first = D.first /\ Up.curr = D.curr
      BY RaiseAnswers
    <3>2. Raised = Up
      BY <2>1
    <3> HIDE DEF Up, Raised
    <3> QED BY <3>1, <3>2 DEF ToFirst
  <2>2. CASE ~yes
    BY <2>2
  <2> QED BY <2>1, <2>2
<1>2. Answering(d, One)
  <2> HIDE DEF Raised
  <2> QED BY <1>1, MoveNextAnswers
<1>3. Answering(d, Two)
  <2> HIDE DEF One
  <2> QED BY <1>2, MoveNextAnswers
<1>4. /\ First(Raised) => Landlord(d, Raised, Raised.temp)
      /\ ~First(Raised) /\ ~Out(One) => Met(One)
      /\ ~First(Raised) /\ Out(One) =>
           IF First(One) THEN Landlord(d, One, One.temp)
           ELSE IF Out(Two) THEN Ask(d, Two) ELSE Met(Two)
  BY DEF LaterBid
<1> HIDE DEF Raised
<1>5. ~First(Raised) => ToFirst(One) < ToFirst(desk[d])
  <2>1. ~First(Raised) => NextPos(Raised.curr) # Raised.first
    OBVIOUS
  <2> HIDE DEF First
  <2> QED BY <1>1, <2>1, NextNearer
<1> HIDE DEF One
<1>6. ~First(Raised) /\ ~First(One) => ToFirst(Two) < ToFirst(desk[d])
  <2>1. ~First(One) => NextPos(One.curr) # One.first
    OBVIOUS
  <2>2. ~First(One) => ToFirst(Two) < ToFirst(One)
    <3> HIDE DEF First
    <3> QED BY <1>2, <2>1, NextNearer
  <2>3. ToFirst(desk[d]) \in Int /\ ToFirst(One) \in Int /\ ToFirst(Two) \in Int
    <3> HIDE DEF Two
    <3>1. \A E : Answering(d, E) => E.first \in Int /\ E.curr \in Int
      BY DEF Answering, Bidding, Pos
    <3>2. \A E : Answering(d, E) => ToFirst(E) \in Int
      BY <3>1 DEF ToFirst
    <3> QED BY <1>1, <1>2, <1>3, <3>2
  <2> HIDE DEF First, Two
  <2> QED BY <1>5, <2>2, <2>3
<1> HIDE DEF Two
<1>7. ASSUME NEW E, Answering(d, E), Landlord(d, E, E.temp) PROVE Nearer(d)
  <2> DEFINE t == E.temp
  <2>1. t \in Client /\ Landlord(d, E, t)
    BY <1>7 DEF Answering, Bidding, AllSeated, DeskState, Seated
  <2> HIDE DEF t
  <2> QED BY <1>7, <2>1, LandlordNearer
<1>8. ASSUME NEW E, Answering(d, E), ToFirst(E) < ToFirst(desk[d]), Ask(d, E) PROVE Nearer(d)
  BY <1>8, AskNearer
<1>9. CASE First(Raised)
  BY <1>1, <1>4, <1>7, <1>9
<1>10. CASE ~First(Raised) /\ ~Out(One)
  <2>1. Landlord(d, One, One.temp) \/ Ask(d, One)
    BY <1>4, <1>10
  <2> QED BY <1>2, <1>5, <1>7, <1>8, <1>10, <2>1
<1>11. CASE ~First(Raised) /\ Out(One)
  <2>1. \/ First(One) /\ Landlord(d, One, One.temp)
        \/ ~First(One) /\ (Ask(d, Two) \/ Landlord(d, Two, Two.temp))
    BY <1>4, <1>11
  <2> QED BY <1>2, <1>3, <1>6, <1>7, <1>8, <1>11, <2>1
<1> QED BY <1>9, <1>10, <1>11

LEMMA BidsNearer ==
  ASSUME TableInv, SaneInv, NEW d \in Desk, NEW c \in Client, NEW yes \in BOOLEAN,
         Bids(d, c, yes)
  PROVE  Nearer(d)
<1> DEFINE D == desk[d]
           v == IF yes THEN 1 ELSE -1
           Told == [D EXCEPT !.bid[PosOf(D, c)] = v]
<1>1. /\ D.running /\ D.landlord = NULL /\ Current(D) = c
      /\ IF D.multiple = -1 THEN FirstBid(d, Told, c, yes) ELSE LaterBid(d, Told, c, yes)
      /\ UNCHANGED checked
  BY DEF Bids
<1>2. D \in DeskState /\ DeskInv(D, tasks[d], checked[d]) /\ Sane(D)
  BY DeskFacts DEF SaneInv
<1>3. D.curr \in Pos /\ D.seats[D.curr] = c /\ D.first \in Pos
  <2>1. D.curr \in {-1} \cup Pos /\ D.first \in {-1} \cup Pos
    BY <1>2 DEF DeskState
  <2>2. D.curr # -1 /\ D.seats[D.curr] = c
    BY <1>1, DdzTableAssumption DEF Current
  <2> QED BY <1>2, <2>1, <2>2 DEF DeskInv, Turns
<1>4. Has(D, c)
  BY <1>3 DEF Has
<1>5. PosOf(D, c) \in Pos
  BY <1>4, PosOfIs
<1>6. /\ Told \in DeskState /\ Told.seats = D.seats /\ Told.hand = D.hand
      /\ Told.running = D.running /\ Told.landlord = D.landlord /\ Told.temp = D.temp
      /\ Told.multiple = D.multiple /\ Told.declares = D.declares /\ Told.curr = D.curr
      /\ Told.first = D.first /\ Told.bidpos = D.bidpos /\ Told.shower = D.shower
      /\ Told.free = D.free
  <2> DEFINE p == PosOf(D, c)
  <2>1. v \in {-1, 0, 1} /\ p \in Pos
    BY <1>5
  <2> HIDE DEF D, v, p
  <2>2. [D.bid EXCEPT ![p] = v] \in [Pos -> {-1, 0, 1}]
    BY <1>2, <2>1 DEF DeskState
  <2> QED BY <1>2, <2>1, <2>2 DEF DeskState, p
<1>7. Answering(d, Told) /\ Has(Told, c)
  <2>1. Turns(D) /\ AllSeated(D)
    BY <1>2 DEF DeskInv
  <2> HIDE DEF Told
  <2>2. Bidding(d, Told) /\ Has(Told, c)
    BY <1>1, <1>3, <1>4, <1>6, <2>1 DEF Bidding, Turns, AllSeated, AnyNull, Has
  <2> QED BY <1>2, <1>6, <2>2 DEF Answering, Sane
<1> HIDE DEF Told
<1>8. CASE D.multiple = -1
  BY <1>1, <1>7, <1>8, FirstBidNearer
<1>9. CASE D.multiple # -1
  <2>1. /\ Told.multiple # -1 /\ LaterBid(d, Told, c, yes)
        /\ ToFirst(Told) = ToFirst(D)
    BY <1>1, <1>6, <1>9 DEF ToFirst
  <2> QED BY <1>1, <1>7, <1>9, <2>1, LaterBidNearer
<1> QED BY <1>8, <1>9

--------------------------------------------------------------------------
(* A turn brings the end nearer *)

\* The table E after what a player put down: its turns, when the next player is
\* to play, are fewer.
LEMMA ShowPokerNearer ==
  ASSUME TableInv, NEW d \in Desk, NEW c \in Client, NEW E \in DeskState, Sane(E),
         desk[d].landlord # NULL, E.landlord = desk[d].landlord,
         ShowPoker(d, E, c), UNCHANGED <<tasks, checked>>,
         Bidden(desk[d]) => TurnsLeft(MoveNext(E)) < TurnsLeft(desk[d])
  PROVE  Nearer(d)
<1>1. CASE E.hand[PosOf(E, c)] = 0
  <2>1. desk'[d] = Reset(E)
    BY <1>1 DEF ShowPoker, GameStop, TableInv, TypeOK
  <2>2. ~Reset(E).running /\ Reset(E).multiple = -1
    BY DEF Reset, Fresh
  <2> QED BY <2>1, <2>2 DEF Nearer, Sane
<1>2. CASE E.hand[PosOf(E, c)] # 0
  <2> DEFINE F == MoveNext(E)
  <2>1. desk'[d] = F
    BY <1>2 DEF ShowPoker, TableInv, TypeOK
  <2>2. /\ F.running = E.running /\ F.landlord = E.landlord /\ F.multiple = E.multiple
        /\ F.free = E.free /\ F.shower = E.shower
    BY DEF MoveNext, DeskState
  <2> HIDE DEF F
  <2>3. Sane(F)
    BY <2>2 DEF Sane
  <2>4. F.running => Bidden(F)
    BY <2>2 DEF Bidden
  <2>5. tasks'[d] = tasks[d] /\ checked'[d] = checked[d]
    OBVIOUS
  <2>6. Bidden(desk[d]) => TurnsLeft(F) < TurnsLeft(desk[d])
    BY DEF F
  <2> QED BY <2>1, <2>2, <2>3, <2>4, <2>5, <2>6 DEF Nearer, Sooner, Left
<1> QED BY <1>1, <1>2

LEMMA TurnMoves ==
  ASSUME NEW E \in DeskState, E.curr \in Pos
  PROVE  LET F == MoveNext(E) IN
         /\ F.curr = NextPos(E.curr) /\ F.seats = E.seats /\ F.hand = E.hand
         /\ F.shower = E.shower /\ F.landlord = E.landlord
BY DEF DeskState, MoveNext

\* Who passes is not the last that played, and so is one seat nearer to it.
LEMMA PassesNearer ==
  ASSUME TableInv, SaneInv, NEW d \in Desk, NEW c \in Client, Passes(d, c)
  PROVE  Nearer(d)
<1> DEFINE D == desk[d]
           f == D.free \/ D.seats[NextPos(D.curr)] = D.shower
           E == [D EXCEPT !.free = f]
           F == MoveNext(E)
<1>1. /\ MayPlay(d, c) /\ ShowPoker(d, E, c) /\ UNCHANGED <<tasks, checked>>
      /\ D.shower \notin {NULL, c}
  <2>1. [D EXCEPT !.free = @ \/ D.seats[NextPos(D.curr)] = D.shower] = E
    OBVIOUS
  <2> QED BY <2>1 DEF Passes
<1>2. /\ D \in DeskState /\ DeskInv(D, tasks[d], checked[d])
      /\ D.running /\ D.landlord # NULL /\ D.curr \in Pos /\ D.seats[D.curr] = c
  BY <1>1, TurnIs
<1>3. f \in BOOLEAN
  BY <1>2 DEF DeskState
<1> HIDE DEF f
<1>4. /\ E \in DeskState /\ E.seats = D.seats /\ E.hand = D.hand
      /\ E.running = D.running /\ E.landlord = D.landlord /\ E.multiple = D.multiple
      /\ E.curr = D.curr /\ E.shower = D.shower
  <2> HIDE DEF D
  <2> QED BY <1>2, <1>3 DEF DeskState
<1>5. Sane(E)
  BY <1>1, <1>4 DEF SaneInv, Sane
<1> HIDE DEF E
<1>6. /\ F.curr = NextPos(D.curr) /\ F.seats = D.seats /\ F.hand = D.hand
      /\ F.shower = D.shower /\ F.landlord = D.landlord
  BY <1>2, <1>4, TurnMoves
<1> HIDE DEF F
<1>7. TurnsLeft(F) < TurnsLeft(D)
  <2> DEFINE p == PosOf(D, D.shower)
  <2>1. p \in Pos /\ p # D.curr
    <3>1. Has(D, D.shower)
      BY <1>1, <1>2 DEF DeskInv, AllSeated
    <3> QED BY <1>1, <1>2, <3>1, PosOfIs
  <2>2. PosOf(F, D.shower) = p
    BY <1>6, Zenon DEF PosOf
  <2> HIDE DEF p
  <2>3. ToShower(F) = (p + 3 - NextPos(D.curr)) % 3 /\ ToShower(D) = (p + 3 - D.curr) % 3
    BY <1>1, <1>6, <2>2 DEF ToShower, p
  <2>4. ToShower(F) \in Int /\ ToShower(D) \in Int /\ ToShower(F) < ToShower(D)
    <3> DEFINE r == D.curr
    <3>1. p \in {0, 1, 2} /\ r \in {0, 1, 2} /\ p # r
      BY <1>2, <2>1 DEF Pos
    <3>2. ToShower(F) = (p + 3 - ((r + 1) % 3)) % 3 /\ ToShower(D) = (p + 3 - r) % 3
      BY <2>3 DEF NextPos
    <3> HIDE DEF r, D, F
    <3> QED BY <3>1, <3>2
  <2>5. D.hand[0] \in Nat /\ D.hand[1] \in Nat /\ D.hand[2] \in Nat
    BY <1>2 DEF DeskState, Pos
  <2> HIDE DEF D
  <2> QED BY <1>2, <1>6, <2>4, <2>5 DEF TurnsLeft
<1> QED BY <1>1, <1>2, <1>4, <1>5, <1>7, ShowPokerNearer DEF F

\* Who plays puts down a card at least, which is worth three turns, and is now
\* the last that played: the others have two.
LEMMA PlaysNearer ==
  ASSUME TableInv, SaneInv, NEW d \in Desk, NEW c \in Client, NEW n, Plays(d, c, n)
  PROVE  Nearer(d)
<1> DEFINE D == desk[d]
           h == [D.hand EXCEPT ![D.curr] = @ - n]
           E == [D EXCEPT !.free = FALSE, !.shower = c, !.hand = h]
           F == MoveNext(E)
<1>1. /\ MayPlay(d, c) /\ n \in 1..D.hand[D.curr]
      /\ ShowPoker(d, [D EXCEPT !.free = FALSE, !.shower = c, !.hand[D.curr] = @ - n], c)
      /\ UNCHANGED <<tasks, checked>>
  BY DEF Plays
<1>2. /\ D \in DeskState /\ DeskInv(D, tasks[d], checked[d])
      /\ D.running /\ D.landlord # NULL /\ D.curr \in Pos /\ D.seats[D.curr] = c
  BY <1>1, TurnIs
<1>3. ShowPoker(d, E, c)
  <2>1. [D EXCEPT !.free = FALSE, !.shower = c, !.hand[D.curr] = @ - n] = E
    BY <1>2 DEF DeskState
  <2> HIDE DEF D, E
  <2> QED BY <1>1, <2>1
<1>4. D.hand \in [Pos -> Nat]
  BY <1>2 DEF DeskState
<1>5. h \in [Pos -> Nat]
  <2> HIDE DEF D
  <2> QED BY <1>1, <1>2, <1>4
<1>6. /\ h[0] \in Nat /\ h[1] \in Nat /\ h[2] \in Nat
      /\ D.hand[0] \in Nat /\ D.hand[1] \in Nat /\ D.hand[2] \in Nat
      /\ h[0] + h[1] + h[2] < D.hand[0] + D.hand[1] + D.hand[2]
  <2> HIDE DEF D
  <2>1. n \in Nat /\ n >= 1
    BY <1>1, <1>2, <1>4
  <2>2. \A p \in Pos : h[p] = IF p = D.curr THEN D.hand[p] - n ELSE D.hand[p]
    BY <1>2, <1>4
  <2>3. D.curr = 0 \/ D.curr = 1 \/ D.curr = 2
    BY <1>2 DEF Pos
  <2> HIDE DEF h
  <2> QED BY <1>4, <1>5, <2>1, <2>2, <2>3 DEF Pos
<1> HIDE DEF h
<1>7. /\ E \in DeskState /\ E.seats = D.seats /\ E.hand = h
      /\ E.running = D.running /\ E.landlord = D.landlord /\ E.multiple = D.multiple
      /\ E.curr = D.curr /\ E.shower = c
  <2>1. c \in Seated
    BY DEF Seated
  <2> HIDE DEF D
  <2> QED BY <1>2, <1>5, <2>1 DEF DeskState
<1>8. Sane(E)
  BY <1>7, DdzTableAssumption DEF SaneInv, Sane
<1> HIDE DEF E
<1>9. /\ F.curr = NextPos(D.curr) /\ F.seats = D.seats /\ F.hand = h
      /\ F.shower = c /\ F.landlord = D.landlord
  BY <1>2, <1>7, TurnMoves
<1> HIDE DEF F
<1>10. TurnsLeft(F) < TurnsLeft(D)
  <2>1. ToShower(F) \in Int /\ ToShower(F) <= 2
    <3>1. Has(F, c)
      BY <1>2, <1>9 DEF Has
    <3>2. PosOf(F, c) \in {0, 1, 2} /\ NextPos(D.curr) \in {0, 1, 2}
      BY <1>2, <3>1, PosOfIs, NextPosIs DEF Pos
    <3> DEFINE q == PosOf(F, c)
               r == NextPos(D.curr)
    <3>3. q \in {0, 1, 2} /\ r \in {0, 1, 2} /\ ToShower(F) \in {0, (q + 3 - r) % 3}
      BY <1>9, <3>2 DEF ToShower
    <3> HIDE DEF q, r
    <3> QED BY <3>3
  <2>2. ToShower(D) \in Nat
    <3>1. D.shower # NULL => PosOf(D, D.shower) \in {0, 1, 2}
      <4>1. D.shower # NULL => Has(D, D.shower)
        BY <1>2 DEF DeskInv, AllSeated
      <4> QED BY <4>1, PosOfIs DEF Pos
    <3>2. D.curr \in {0, 1, 2}
      BY <1>2 DEF Pos
    <3> QED BY <3>1, <3>2 DEF ToShower
  <2> HIDE DEF D
  <2> QED BY <1>2, <1>6, <1>9, <2>1, <2>2 DEF TurnsLeft
<1> QED BY <1>1, <1>2, <1>3, <1>7, <1>8, <1>10, ShowPokerNearer DEF F

LEMMA UpdateNearer ==
  ASSUME TableInv, SaneInv, NEW d \in Desk, Update(d)
  PROVE  Nearer(d)
<1> DEFINE c == Current(desk[d])
<1>1. c \in Client
  <2>1. desk[d] \in DeskState /\ c # NULL
    BY DeskFacts DEF Update
  <2>2. desk[d].curr \in {-1} \cup Pos /\ desk[d].seats \in [Pos -> Seated]
    BY <2>1 DEF DeskState
  <2> QED BY <2>1, <2>2 DEF Current, Seated
<1>2. Bids(d, c, FALSE) \/ Plays(d, c, 1) \/ Passes(d, c)
  BY DEF Update
<1> HIDE DEF c
<1> QED BY <1>1, <1>2, BidsNearer, PlaysNearer, PassesNearer

LEMMA TurnNearer ==
  ASSUME TableInv, SaneInv, NEW d \in Desk, Turn(d)
  PROVE  Nearer(d)
<1>1. PICK c \in Client : info[c].desk = d /\ (Bid(c) \/ Card(c))
  BY DEF Turn
<1>2. CASE Bid(c)
  BY <1>1, <1>2, BidsNearer DEF Bid
<1>3. CASE Card(c)
  BY <1>1, <1>3, PassesNearer, PlaysNearer DEF Card
<1> QED BY <1>1, <1>2, <1>3

--------------------------------------------------------------------------
(* What leaves a game alone *)

\* A step that is not one of table d's game may end it, and else leaves it where
\* it was.
Unmoved(d) ==
  /\ Sane(desk'[d])
  /\ Bidden(desk[d]) /\ desk'[d].running => Bidden(desk'[d]) /\ Left(d)' = Left(d)

LEMMA SameUnmoved ==
  ASSUME SaneInv, NEW d \in Desk,
         desk'[d] = desk[d], tasks'[d] = tasks[d], checked'[d] = checked[d]
  PROVE  Unmoved(d)
BY DEF Unmoved, SaneInv, Left

\* A step at a table that has no game, or loses it.
LEMMA NoGameUnmoved ==
  ASSUME SaneInv, NEW d \in Desk, Sane(desk'[d]), ~Bidden(desk[d]) \/ ~desk'[d].running
  PROVE  Unmoved(d)
BY DEF Unmoved

LEMMA TimerElsewhere ==
  ASSUME TableInv, SaneInv, NEW d \in Desk, NEW o \in Desk, o # d, TimerStep(o)
  PROVE  Unmoved(d)
<1>1. desk'[d] = desk[d] /\ tasks'[d] = tasks[d] /\ checked'[d] = checked[d]
  <2> USE DEF TableInv, TypeOK
  <2>1. CASE GameStart(o)
    BY <2>1 DEF GameStart, Queue
  <2>2. CASE CheckBid(o)
    BY <2>2 DEF CheckBid
  <2>3. CASE GameBid(o)
    BY <2>3 DEF GameBid
  <2>4. CASE GameLandlord(o)
    BY <2>4 DEF GameLandlord
  <2> QED BY <2>1, <2>2, <2>3, <2>4 DEF TimerStep
<1> QED BY <1>1, SameUnmoved

LEMMA BidsElsewhere ==
  ASSUME TableInv, SaneInv, NEW d \in Desk, NEW o \in Desk, o # d,
         NEW c, NEW yes \in BOOLEAN, Bids(o, c, yes)
  PROVE  Unmoved(d)
<1> DEFINE Far == desk'[d] = desk[d] /\ tasks'[d] = tasks[d]
<1>1. ASSUME NEW E, NEW x, Landlord(o, E, x) PROVE Far
  BY <1>1 DEF Landlord, Queue, TableInv, TypeOK
<1>2. ASSUME NEW E, Ask(o, E) PROVE Far
  BY <1>2 DEF Ask, TableInv, TypeOK
<1>3. ASSUME NEW E, desk' = [desk EXCEPT ![o] = E], Queue(o, "start", NULL) PROVE Far
  BY <1>3 DEF Queue, TableInv, TypeOK
<1> HIDE DEF Far
<1>4. ASSUME NEW D, FirstBid(o, D, c, yes) PROVE Far
  <2> DEFINE next == NextPos(D.curr)
             Bid1 == StartAt([D EXCEPT !.multiple = @ + 1, !.temp = c], next)
  <2>1. CASE yes /\ D.bid[next] = -1
    <3>1. Landlord(o, MoveNext(MoveNext(Bid1)), c)
      BY <1>4, <2>1 DEF FirstBid
    <3> QED BY <1>1, <3>1
  <2>2. CASE yes /\ D.bid[next] # -1
    <3>1. Ask(o, Bid1)
      BY <1>4, <2>2 DEF FirstBid
    <3> QED BY <1>2, <3>1
  <2>3. CASE ~yes /\ D.seats[next] = D.seats[D.first] /\ D.declares = 0
    <3>1. desk' = [desk EXCEPT ![o] = D] /\ Queue(o, "start", NULL)
      BY <1>4, <2>3 DEF FirstBid
    <3> QED BY <1>3, <3>1
  <2>4. CASE ~yes /\ D.seats[next] = D.seats[D.first] /\ D.declares # 0
    <3>1. Landlord(o, D, D.seats[D.bidpos])
      BY <1>4, <2>4 DEF FirstBid
    <3> QED BY <1>1, <3>1
  <2>5. CASE ~yes /\ D.seats[next] # D.seats[D.first]
    <3>1. Ask(o, MoveNext(D))
      BY <1>4, <2>5 DEF FirstBid
    <3> QED BY <1>2, <3>1
  <2> QED BY <2>1, <2>2, <2>3, <2>4, <2>5
<1>5. ASSUME NEW D, LaterBid(o, D, c, yes) PROVE Far
  <2> DEFINE Raised == IF yes THEN [D EXCEPT !.multiple = @ + 1, !.temp = c] ELSE D
             One == MoveNext(Raised)
             Two == MoveNext(One)
             First(E) == E.seats[NextPos(E.curr)] = E.seats[E.first]
             Out(E) == E.bid[E.curr] = -1
             Met(E) == IF Current(E) = E.temp THEN Landlord(o, E, E.temp) ELSE Ask(o, E)
  <2>1. /\ First(Raised) => Landlord(o, Raised, Raised.temp)
        /\ ~First(Raised) /\ ~Out(One) => Met(One)
        /\ ~First(Raised) /\ Out(One) =>
             IF First(One) THEN Landlord(o, One, One.temp)
             ELSE IF Out(Two) THEN Ask(o, Two) ELSE Met(Two)
    BY <1>5 DEF LaterBid
  <2>2. ASSUME NEW E, Met(E) PROVE Far
    BY <1>1, <1>2, <2>2
  <2> HIDE DEF First, Out, Met, Raised, One, Two
  <2> QED BY <1>1, <1>2, <2>1, <2>2
<1>6. Far /\ UNCHANGED checked
  BY <1>4, <1>5 DEF Bids
<1> QED BY <1>6, SameUnmoved DEF Far

LEMMA PlayElsewhere ==
  ASSUME TableInv, SaneInv, NEW d \in Desk, NEW o \in Desk, o # d,
         NEW c, Passes(o, c) \/ \E n : Plays(o, c, n)
  PROVE  Unmoved(d)
<1>1. PICK E : ShowPoker(o, E, c) /\ UNCHANGED <<tasks, checked>>
  BY DEF Passes, Plays
<1>2. desk'[d] = desk[d]
  BY <1>1 DEF ShowPoker, GameStop, TableInv, TypeOK
<1> QED BY <1>1, <1>2, SameUnmoved

LEMMA UpdateElsewhere ==
  ASSUME TableInv, SaneInv, NEW d \in Desk, NEW o \in Desk, o # d, Update(o)
  PROVE  Unmoved(d)
<1> DEFINE c == Current(desk[o])
<1>1. Bids(o, c, FALSE) \/ Plays(o, c, 1) \/ Passes(o, c)
  BY DEF Update
<1> HIDE DEF c
<1> QED BY <1>1, BidsElsewhere, PlayElsewhere

\* Whoever stands up ends the game of the table.
LEMMA StandUpUnmoved ==
  ASSUME TableInv, SaneInv, NEW d \in Desk, NEW c \in Client, StandUp(c),
         UNCHANGED <<tasks, checked>>
  PROVE  Unmoved(d)
<1>1. CASE ~Sits(c) \/ info[c].desk # d
  <2>1. desk'[d] = desk[d]
    BY <1>1 DEF StandUp, TableInv, TypeOK
  <2> QED BY <2>1, SameUnmoved
<1>2. CASE Sits(c) /\ info[c].desk = d
  <2> DEFINE D == desk[d]
  <2>1. D \in DeskState /\ DeskInv(D, tasks[d], checked[d]) /\ Has(D, c)
    BY <1>2, DeskFacts DEF Sits
  <2>2. desk'[d] = Stood(D, c)
    BY <1>2 DEF StandUp, TableInv, TypeOK
  <2>3. ~desk'[d].running
    BY <2>1, <2>2, StoodDesk
  <2>4. desk'[d].multiple \in Nat \cup {-1}
    <3>1. CASE D.running
      BY <2>2, <3>1 DEF Stood, Reset, Fresh
    <3>2. CASE ~D.running
      <4> DEFINE p == PosOf(D, c)
                 Up == [D EXCEPT !.seats[p] = NULL]
      <4>1. desk'[d] = Up
        BY <2>2, <3>2 DEF Stood
      <4>2. Up.multiple = D.multiple
        <5> HIDE DEF D, p
        <5> QED BY <2>1 DEF DeskState
      <4> QED BY <4>1, <4>2 DEF SaneInv, Sane
    <3> QED BY <3>1, <3>2
  <2> QED BY <2>3, <2>4, NoGameUnmoved DEF Sane
<1> QED BY <1>1, <1>2

LEMMA SitDownUnmoved ==
  ASSUME TableInv, SaneInv, NEW d \in Desk, NEW c \in Client, SitDown(c)
  PROVE  Unmoved(d)
<1> DEFINE s == search[c]
           D == desk[d]
           p == Min(FreeSeats(desk[s.at]))
<1>1. ~desk[s.at].running /\ desk' = [desk EXCEPT ![s.at].seats[p] = c]
      /\ UNCHANGED <<tasks, checked>>
  BY DEF SitDown, Fits
<1>2. CASE s.at # d
  <2>1. desk'[d] = desk[d]
    BY <1>1, <1>2 DEF TableInv, TypeOK
  <2> QED BY <1>1, <2>1, SameUnmoved
<1>3. CASE s.at = d
  <2> HIDE DEF p
  <2>1. desk'[d] = [D EXCEPT !.seats[p] = c]
    BY <1>1, <1>3 DEF TableInv, TypeOK
  <2>2. D \in DeskState
    BY DeskFacts
  <2>3. desk'[d].running = D.running /\ desk'[d].multiple = D.multiple
    <3> HIDE DEF D
    <3> QED BY <2>1, <2>2 DEF DeskState
  <2> QED BY <1>1, <1>3, <2>3, NoGameUnmoved DEF Sane, SaneInv
<1> QED BY <1>2, <1>3

LEMMA ReadyUnmoved ==
  ASSUME TableInv, SaneInv, NEW d \in Desk, NEW c \in Client, Ready(c)
  PROVE  Unmoved(d)
<1> DEFINE o == info[c].desk
           D == desk[o]
           E == [Reset(D) EXCEPT !.running = TRUE]
<1>1. /\ o # NULL /\ ~D.running /\ checked' = checked
      /\ \/ UNCHANGED <<desk, tasks>>
         \/ desk' = [desk EXCEPT ![o] = E] /\ Queue(o, "start", NULL)
  BY DEF Ready
<1>2. CASE UNCHANGED <<desk, tasks>>
  BY <1>1, <1>2, SameUnmoved
<1>3. CASE desk' = [desk EXCEPT ![o] = E] /\ Queue(o, "start", NULL)
  <2>1. CASE o # d
    <3>1. desk'[d] = desk[d] /\ tasks'[d] = tasks[d]
      BY <1>3, <2>1 DEF Queue, TableInv, TypeOK
    <3> QED BY <1>1, <3>1, SameUnmoved
  <2>2. CASE o = d
    <3>1. desk'[d] = E
      BY <1>3, <2>2 DEF TableInv, TypeOK
    <3>2. E.free = TRUE /\ E.multiple = -1
      BY DEF Reset, Fresh
    <3> HIDE DEF E
    <3>3. Sane(E) /\ ~Bidden(desk[d])
      BY <1>1, <2>2, <3>2 DEF Sane, Bidden
    <3> QED BY <3>1, <3>3, NoGameUnmoved
  <2> QED BY <2>1, <2>2
<1> QED BY <1>1, <1>2, <1>3

LEMMA DeclareUnmoved ==
  ASSUME TableInv, SaneInv, NEW d \in Desk, NEW c \in Client, Declare(c)
  PROVE  Unmoved(d)
<1> DEFINE o == info[c].desk
           D == desk[d]
<1>1. PICK b, n : desk' = [desk EXCEPT ![o].bidpos = b, ![o].declares = n]
  BY DEF Declare
<1>2. tasks' = tasks /\ checked' = checked
  BY DEF Declare
<1>3. CASE o # d
  <2>1. desk'[d] = desk[d]
    BY <1>1, <1>3 DEF TableInv, TypeOK
  <2> QED BY <1>2, <2>1, SameUnmoved
<1>4. CASE o = d
  <2> DEFINE E == [D EXCEPT !.bidpos = b, !.declares = n]
  <2>1. desk'[d] = E
    BY <1>1, <1>4 DEF TableInv, TypeOK
  <2>2. D \in DeskState
    BY DeskFacts
  <2>3. /\ E.running = D.running /\ E.landlord = D.landlord /\ E.multiple = D.multiple
        /\ E.free = D.free /\ E.shower = D.shower /\ E.seats = D.seats
        /\ E.first = D.first /\ E.curr = D.curr /\ E.hand = D.hand
    <3> HIDE DEF D
    <3> QED BY <2>2 DEF DeskState
  <2> HIDE DEF E
  <2>4. TurnsLeft(E) = TurnsLeft(D)
    BY <2>3, SameTurns
  <2> QED BY <1>2, <2>1, <2>3, <2>4 DEF Unmoved, Sane, SaneInv, Bidden, Left
<1> QED BY <1>3, <1>4

--------------------------------------------------------------------------
(* Games end *)

LEMMA EveryStep ==
  ASSUME TableInv, SaneInv, NEW d \in Desk, [Next]_vars
  PROVE  IF TimerStep(d) \/ Turn(d) \/ Update(d) THEN Nearer(d) ELSE Unmoved(d)
<1>1. CASE TimerStep(d) \/ Turn(d) \/ Update(d)
  BY <1>1, TimerNearer, TurnNearer, UpdateNearer
<1>2. CASE ~(TimerStep(d) \/ Turn(d) \/ Update(d))
  <2>1. ASSUME NEW c \in Client, ClientStep(c) PROVE Unmoved(d)
    <3>1. CASE JoinDesk(c)
      BY <3>1, StandUpUnmoved DEF JoinDesk, LeaveDesk
    <3>2. CASE SitDown(c)
      BY <3>2, SitDownUnmoved
    <3>3. CASE LookOn(c)
      BY <3>3, SameUnmoved DEF LookOn
    <3>4. CASE Bye(c)
      BY <3>4, StandUpUnmoved DEF Bye, LeaveDesk
    <3>5. CASE Leave(c)
      BY <3>5, StandUpUnmoved DEF Leave
    <3>6. CASE Ready(c)
      BY <3>6, ReadyUnmoved
    <3>7. CASE Declare(c)
      BY <3>7, DeclareUnmoved
    <3>8. CASE Bid(c)
      <4>1. info[c].desk \in Desk /\ info[c].desk # d
        BY <1>2, <3>8 DEF Turn, Bid, TableInv, TypeOK, Info
      <4>2. PICK yes \in BOOLEAN : Bids(info[c].desk, c, yes)
        BY <3>8 DEF Bid
      <4> DEFINE o == info[c].desk
      <4>3. o \in Desk /\ o # d /\ Bids(o, c, yes)
        BY <4>1, <4>2
      <4> HIDE DEF o
      <4> QED BY <4>3, BidsElsewhere
    <3>9. CASE Card(c)
      <4> DEFINE o == info[c].desk
      <4>1. o \in Desk /\ o # d
        BY <1>2, <3>9 DEF Turn, Card, TableInv, TypeOK, Info
      <4>2. Passes(o, c) \/ \E n : Plays(o, c, n)
        BY <3>9 DEF Card
      <4> HIDE DEF o
      <4> QED BY <4>1, <4>2, PlayElsewhere
    <3> QED BY <2>1, <3>1, <3>2, <3>3, <3>4, <3>5, <3>6, <3>7, <3>8, <3>9 DEF ClientStep
  <2>2. ASSUME NEW o \in Desk, TimerStep(o) \/ Update(o) PROVE Unmoved(d)
    <3>1. o # d
      BY <1>2, <2>2
    <3> QED BY <2>2, <3>1, TimerElsewhere, UpdateElsewhere
  <2>3. ASSUME UNCHANGED vars PROVE Unmoved(d)
    BY <2>3, SameUnmoved DEF vars
  <2>4. Unmoved(d)
    BY <2>1, <2>2, <2>3 DEF Next
  <2> QED BY <1>2, <2>4
<1> QED BY <1>1, <1>2

LEMMA SaneHolds == Spec => []SaneInv
<1>1. Init => SaneInv
  BY DEF Init, SaneInv, Sane, NewDesk, Fresh
<1>2. TableInv /\ SaneInv /\ [Next]_vars => SaneInv'
  <2> SUFFICES ASSUME TableInv, SaneInv, [Next]_vars, NEW d \in Desk PROVE Sane(desk'[d])
    BY DEF SaneInv, Sane
  <2>1. Nearer(d) \/ Unmoved(d)
    BY EveryStep
  <2> QED BY <2>1 DEF Nearer, Unmoved
<1> QED BY <1>1, <1>2, TableInvHolds, PTL DEF Spec

\* A game in which somebody has bid, or that has a landlord, has finitely many
\* steps before it: its timers, its bids and its plays each take it nearer to its
\* end, by a measure without infinite descent, and no other step sets it back.
\* GameEnds is this and that the steps are taken.
THEOREM GamesAreFinite == Spec => GamesRunOut
<1>1. TableInv /\ SaneInv /\ [Next]_vars =>
        [\A d \in Desk : Bidden(desk[d]) =>
           /\ Left(d) \in Measure
           /\ desk'[d].running =>
                /\ Bidden(desk'[d])
                /\ IF TimerStep(d) \/ Turn(d) \/ Update(d) THEN Sooner(Left(d)', Left(d))
                   ELSE Left(d)' = Left(d)]_vars
  <2> SUFFICES ASSUME TableInv, SaneInv, [Next]_vars, NEW d \in Desk, Bidden(desk[d])
               PROVE  /\ Left(d) \in Measure
                      /\ desk'[d].running =>
                           /\ Bidden(desk'[d])
                           /\ IF TimerStep(d) \/ Turn(d) \/ Update(d)
                              THEN Sooner(Left(d)', Left(d)) ELSE Left(d)' = Left(d)
    OBVIOUS
  <2>1. Left(d) \in Measure
    BY LeftIsMeasure
  <2>2. IF TimerStep(d) \/ Turn(d) \/ Update(d) THEN Nearer(d) ELSE Unmoved(d)
    BY EveryStep
  <2> QED BY <2>1, <2>2 DEF Nearer, Unmoved
<1> QED BY <1>1, TableInvHolds, SaneHolds, PTL DEF Spec, GamesRunOut

\* Such a game always has one of these steps before it, a timer or a turn that
\* on_update can take, unless it is stuck: nobody waits for a player who is away.
THEOREM GamesDoNotHalt == Spec => []GamesGoOn
<1>1. TableInv /\ SaneInv => GamesGoOn
  <2> SUFFICES ASSUME TableInv, SaneInv, NEW d \in Desk, Bidden(desk[d]),
                      tasks[d] = {}, ~checked[d]
               PROVE  Stuck(desk[d]) \/ Waits(desk[d])
    BY DEF GamesGoOn
  <2> DEFINE D == desk[d]
  <2>1. D \in DeskState /\ DeskInv(D, tasks[d], checked[d])
    BY DeskFacts
  <2>2. D.running /\ D.curr \in Pos
    BY <2>1 DEF DeskInv, Driven, Bidden, DeskState
  <2>3. Current(D) # NULL
    BY <2>1, <2>2 DEF DeskInv, AllSeated, AnyNull, Current, Pos
  <2>4. D.hand[D.curr] \in Nat
    BY <2>1, <2>2 DEF DeskState
  <2>5. D.free \/ D.shower # NULL
    BY <2>2 DEF SaneInv, Sane
  <2> HIDE DEF D
  <2>6. Stuck(D) \/ Waits(D)
    BY <2>2, <2>3, <2>4, <2>5 DEF Stuck, Waits
  <2> QED BY <2>6 DEF D
<1> QED BY <1>1, TableInvHolds, SaneHolds, PTL

=============================================================================
