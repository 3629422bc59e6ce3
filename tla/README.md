# A TLA+ model of dooqu_service_ssl

dooqu_service_ssl is a game server: Boost.Asio carries WebSocket over SSL, a
service logs clients in and hands them to game plugins, and two games (a card
table, `ddz`, and a quiz room, `ask`) are plugins. Several worker threads run
one `io_service`; what they share is guarded by locks that are taken and
released many times in the life of a client. The repository has no tests. Its
documentation is its comments and assertions.

This directory models the parts in which threads meet, checks them with TLC on
small instances and proves their safety properties with TLAPS. Paths below are
relative to `src/src/`.

## 1. Inventory

| part | state it keeps | operations | what is hard | what makes it correct |
|---|---|---|---|---|
| `net/tcp_server` | `is_running_`, acceptor, worker threads | start, start_accept, accept_handle, stop | stop while connections arrive | stop returns; every accepted connection is registered or given back |
| `net/ws_client`, receiving | `available_`, receive buffer, `recv_lock_` | async_handshake, on_data_received | errors race a disconnect by another thread | the chain of receives ends in exactly one on_error |
| `net/ws_client`, sending | `send_buffer_sequence_`, `read_pos_`, `write_pos_`, `is_data_sending_`, `send_lock_` | alloc_available_buffer, write, write_frame, send_handle | many writers, one async_write at a time, reuse of buffers, failures half-way | accepted data leave once, in order; the buffer in flight is left alone |
| `net/ws_framedata_parser`, `net/ws_request_parser` | header fields, state, positions | feed bytes | frames and requests split over buffers | the result does not depend on the split |
| `service/game_client` | dispatcher, id, plugin address, `is_error_`, `error_code_`, retries | fill, on_frame_data, on_error, disconnect | called by the receive chain and by everybody else | one end, one reason, one bye |
| `service/command`, `command_dispatcher` | a line split in place, handlers by name | reset, init, null, on_client_command | blanks at the borders of the line; one object for all lines | the words of a line, and of no other |
| `service/game_service` | `clients_`, `plugins_`, `client_list_for_destroy_`, http request blocks | on_client_connected, client_login_handle, begin/end_auth, on_client_leave, on_check_timeout_clients, load/unload_plugin, on_stop | answers that come late, memory that is reused | nobody is lost, freed twice or logged in twice |
| `service/game_plugin` | `clients_` by name, `is_onlined_` | join_client, remove_client, begin/end_update_client, load, unload, broadcast | leave takes as long as an http request and its retries | the map and the clients agree; unload ends |
| `service/game_zone`, `service/async_task` | `free_timers_`, `working_timers_` | queue_task, task_handle | timers are returned and taken by several threads | a queued task runs once |
| `service/http_request` | blocks of two pools, a queue | start_http_request, queue_http_request, the handler | hand-over of the last free block | every queued request is sent |
| `service/post_monitor`, `util/tick_count` | ticks of recent posts | can_active | borders of the window | the rate limit |
| `data/mysql_connection_pool` | free and used connections | get, free | limit of the pool | a connection has one user |
| `ddz/ddz_plugin`, `ddz_desk` | seats, bids, cards, the turn | join, ready, bid, card, leave, stop, robots | a player leaves in the middle; timers and robots | the desk is reset; the turn is someone's who sits there |
| `ddz/poker_parser`, `poker_finder` | - (pure) | shape, comparison, search | borders of runs | what the finder finds the parser accepts |
| `ask/*` | rooms, questions, answers | join, ready, answer, leave, stop | the last answer races the timer | one question at a time |
| `main.cpp` | - | a console loop | | |

How the parts interact. `tcp_server` accepts a connection and calls
`on_client_connected`. `ws_client::on_data_received` parses what it reads and
hands each frame to `game_client::on_frame_data`, which passes its payload to
the client's current dispatcher: the service until login, then a plugin. There
`command` cuts it into words and the handler of the first word is called. The
login is an http request; its answer runs on any worker. A client that breaks
calls `on_error`, which *posts* the dispatcher's bye; a client that is
disconnected by the server only shuts its socket down, and the receive chain
finds out. A plugin that is left starts an http request (`on_begin_update`),
retries it with a timer of its zone, and finally calls the service's
`on_client_leave`, which puts the client on a list that a timer destroys.

`dispatch_data` and `simulate` of `game_client` are called by nobody. The games
and the mysql pool (`ddz/`, `ask/`, `data/`) are not in the project file that
builds the server, and `main.cpp` loads no plugin; `ddz` and `ask` are written
against an older version of the same classes. `ddz/poker_finder/` and
`ddz/poker_finder_ex/` hold former copies of the finder that nothing includes.

The full list of hazards, each at its line, is in `PROJECT.json`.

## 2. Plan

1. `ClientLifecycle` with the abstract `ConnectionLifetime` (done): accept to
   free, the heart of the server.
2. `SendQueue` with the abstract `MessageStream` (done).
3. `TimerPool` (the tasks of a zone) and `HttpPool` (the queue of pool 1, its
   blocks, the hand-over), and their composition `OfflineUpdate`: what a client
   that leaves goes through, under retries (done).
4. `FrameReceive` and `Command` (bytes cut into reads, a line cut into words),
   and their composition `Receive`: the line a handler is given (done).
5. `DdzTable`: seats, ready, bids, landlord, cards in turn, leave and stop, with
   the timers that are told apart by `verifi_code`; `Poker`, `PokerFinder` and
   `DdzTrick`: the cards, the robots and the settlement of one game, a refinement
   of the turns of `DdzTable` (done).
6. `AskRoom`: the rooms and the questions of the quiz (done).
7. Left, each small: `FrameCodec` (the header `write_frame` builds against the
   one `parse` reads), `RequestParser` (the upgrade request, character classes
   against a one-piece definition), `PostMonitor` (at most so many posts in a
   window), `MysqlPool` (a connection has one user).

A component that was only a part of a composition has no run of its own: the
composition takes all its steps, checks its invariants, and is proved to.

## 3. Modules

### ClientLifecycle

State. `client[c]` is the memory at address `c`: where it is in its life
(`mem`), and the fields of `game_client` and `ws_client` that the modelled code
reads. `incarnation` is history: it tells two connections at one address apart,
as the pools of `game_service` reuse addresses. `clients` is
`game_service::clients_`, `members[p]` is `game_plugin::clients_` (by name),
`plugins` and `onlined` are the loaded plugins and their flag. Everything that
the `io_service` holds is state as well: `exits[c]` counts the posted byes,
pending updates, retry timers, leave calls and entries of the destroy list of
`c`, `auths` holds login requests, `kicks` posted disconnects, `ending` the
answers of logins that are past the search in `clients_` (the lock is released
there). `svc` is the program counter of the thread that owns the service
(`unload_plugin` and `stop` block).

| actions | code |
|---|---|
| StartAccept, AcceptHandle, AcceptRefused, ClientConnected | `tcp_server::start_accept`, `accept_handle`, `game_service::on_client_connected` |
| ReceiveFailed, CommandRefused, Login | `ws_client::on_data_received` up to the handler of a command, `client_login_handle` with `begin_auth` |
| AuthAnswer, AuthJoin, AuthNotJoined, AuthReject | `end_auth`, cut where it releases `clients_mutex_`, with `game_plugin::join_client` |
| ServiceLeave, BeginUpdate, RemoveClient, EndUpdate, RetryUpdate | `on_client_leave`, `remove_client`, `end_update_client`, `remove_client_from_plugin` |
| CheckTimeout, RunKick | `on_check_timeout_clients`, `on_update_timeout_clients`, `on_destroy_clients_in_destroy_list`, posted `disconnect` |
| Broadcast, SendHandle | only whether a client is being sent to, which destroying waits for |
| LoadPlugin, UnloadPlugin, Unload, Unloaded, Stop... | `load_plugin`, `unload_plugin` with `game_plugin::unload`, `stop` with `on_stop` and the join of the workers |

`ConnectionLifetime` is what all of this promises for one address: accepted,
open, leaving, listed, destroyed, in this order, with one reason for the end.

Left out: simulated commands and the rate of commands (`post_monitor`), the
content of commands other than LOG, the update loop of a concrete game, the
memory pools below the addresses (a freed block is not unmapped: a posted
disconnect that comes too late finds a free block or the next connection).

### SendQueue

The buffers of one client by position, `write_pos_`, `read_pos_`,
`is_data_sending_`, and the pending `async_write`s as a *set*: that there is at
most one is a property, not an assumption. The content of a buffer is the
number of the call that filled it. `WriteFailed` is a format error (`write`)
or a payload that is too long (`write_frame`), after the buffer was taken.
Frames are shorter than 126 bytes. `MessageStream` is a first-in-first-out
stream; the queue implements it until a message fails to format (the history
variable `failed`).

### TimerPool

The timers of one `async_task`: the deque `free_timers_`, the map
`working_timers_`, and the pending waits. `queue_task` is cut where it releases
its locks: take a timer and arm it (`QueueTask`), insert it (`TrackTimer`).
`task_handle` is cut into the erase (`Expire`), the return to the pool with the
purge (`ReturnTimer`), the callback (`RunTask`). If a timer that waits is armed
again the wait is aborted, as in asio: nothing assumes this away. Timers that
may be cancelled (`cancel_enabled`) are used by no caller and left out.

### HttpPool

The blocks of pool 1 (`request_pool_[1]`), `task_queue_`, and the requests by
where they are: between the look at the pool and the push (`refused`), `sent`,
with their callback done (`reported`), about to drain the queue
(`draining`, `holder`). `queue_http_request` is cut between `malloc_http_request`
and the lock of the queue, `queue_http_request_handle` at each lock it takes:
`Answer`, `FreeRequest`, `LockQueue`, `StartTask` (one turn of the loop),
`EndDrain`. The handlers of one http exchange go on or run the callback and
return; they are one `Answer`. Blocks are distinct here: the arithmetic that
computes their addresses (game_service.cpp:161) is a hazard of its own.

### OfflineUpdate

The two pools under their user. A request is a client with the tries it has
left (`Request`), and the task that repeats it is named alike. Whatever the two
pools do between themselves they do in here as well (`Transfer`, `Timing`).

| actions | code |
|---|---|
| Leave | `game_plugin::remove_client` for a client: `begin_update_client`, or it is removed at once |
| Updated, Retry, GiveUp | `end_update_client`, called by the handler of the answer: done; queued again, with a try less; done without success |
| Returns | the callback is over and the request is freed: a `queue_task` in it has inserted its timer by then |
| RunRetry, RunOther, Other | tasks that repeat `remove_client`, in either way, and others of the same zone |
| End | the destructor of the zone, when nothing is left |

Whether a client needs an update is asked of the plugin at each call
(`need_update_offline_client`). Both plugins of the repository that answer say no
(game_plugin.cpp:307, ddz_plugin.cpp:1502); the mechanism is modelled for one that
may say either, each time.

`ClientLifecycle` has the same steps without the pools (a client has a stage and
any request is answered). What `OfflineUpdate` adds is that the hand-over
between callbacks, blocks and timers loses nobody.

### FrameReceive

The chain of receives of one client after the handshake. A byte is its position
in the stream that the peer sends, so that a property can say which bytes a
frame was made of, and `Stream` tells what each byte was sent as. When the
parser takes a byte for what it was not sent as, it may read any of `Misread`.
`frame` has the fields of `ws_framedata` the positions depend on; `parse` is one
action per case of its switch (`FetchFin`, `FetchLength`, `FetchMaskingKey`,
`FetchPayload`, or `Indeterminate` and `ParseError`), and the loop of
`on_data_received` is `FrameOk`, `FrameTooLong`, `FrameIncomplete`,
`FrameError`. Reads are as long as the network likes. The branch of
`FrameIncomplete` that moves a half frame is there as it is in the code, and no
run can reach it (`start_pos_` is 0 whenever a frame is incomplete). The bytes
behind a payload, which `strlen` may reach, are in `Receive`; opcodes are left out.

### Command

One `command` object and the lines it is reset with, one after the other.
Characters are blanks or not, pointers are positions in the line. `init` is one
action per turn of its loop: `SkipBlank`, `EndWord`, `SkipChar`, `LastWord`. The
reference is `WordBegins`: where the line has a word, whatever the code does.

### Receive

`FrameReceive` and `Command` together, on one piece of memory. `memory` is the
buffer as characters: a blank, a zero or another character. Before the first
frame it is one of `Upgraded`: the upgrade request was read into the same buffer
(`recv_buffer` is `frame_data_.data`, ws_client.cpp:12, 38), behind it is whatever
the memory of a new client held, and the history variable `before` keeps this.
`Arrives` writes to it, `Unmasks` writes the payload, `Loop` the zeros with which
`init` ends words.
`Dispatch` hands on the C string at the payload, which goes on to the next zero,
and past the buffer to `Behind` if there is none. The peer sends data frames, which
`on_client_framedata` treats alike. A control frame has no handler, and a frame that
the parser took for one that was not sent may or may not be one; a client that is
not available any more gets no line (command_dispatcher.cpp:64), and is read from
no more (`Handled`).

### DdzTable

The tables of `ddz_plugin`: `desk[d]` has the fields of `ddz_desk` that steps
depend on, `info[c]` those of `ddz_game_info`, `tasks[d]` the pending timers
whose code is the table's present `verifi_code`. `Queue` replaces them: that is
what `++verifi_code` does, as a stale timer returns at once. `checked[d]` stands
for an `on_game_bid` between its comparison of the code, which is outside of the
lock, and the lock; at most one can wait there. `search[c]` is the loop of
`on_join_desk_handle`, which locks one table at a time.

| actions | code |
|---|---|
| JoinDesk, SitDown, LookOn | `on_join_desk_handle`: leave the present table, then each look at a table |
| Bye, Leave | `on_client_bye_handle`, `on_client_leave` (and the join of the next client of that name) with `on_client_leave_desk` |
| Ready, GameStart, Declare | `on_client_ready_handle`, `on_game_start`, `on_client_declare_handle` |
| CheckBid, GameBid | `on_game_bid` up to its lock, and from it on |
| Bid, Update | `on_client_bid_handle`, `on_update`, both with `on_client_bid` (`FirstBid`, `LaterBid`) |
| GameLandlord | `on_game_landlord` |
| Card (Passes, Plays), Update | `on_client_card_handle` with `on_client_show_poker` and `on_game_stop` |

A hand is a number of cards. A play takes any number of them and may or may not
beat the last one; what `poker_parser` makes of that is in `DdzTrick`, whose
every step is a step of this module (`PlaysTable`). Since hands are sets and a
play may name a card twice (ddz_plugin.cpp:1249) fewer cards may leave the hand
than are named; a number of cards covers this. A leave while the server closes does
not reset the table in the code; its fields are not read again before `Ready`
resets them, and the model resets them at once. The commands that robots and
`on_update` simulate are commands that the same players could send.

### Poker, PokerFinder

`Poker` is `poker_parser` and, from the rules of the game, `Shape`: the sets of
cards that are a play of a type. A hand is a bag of ranks, since neither suits
nor order reach the parser's result. `Parse` says of every set of cards its type,
value and length, `IsLarge` which of two plays beats the other. Plays of 20
cards are no plays, as in the code.

`PokerFinder` is `poker_finder::find_big_pokers`: the archive by counts
(`Before`, `First`), the search of each kind above a value, the chains, and the
bombs behind them. The finder keeps two jokers back while there are four cards
or more, and searches them only for a hand of fewer.

### DdzTrick

One game from the moment the bidding has found the landlord: hands of real cards,
the turn where the bidding has left it, the last play (`poker`, `shower`), robots
with their `verify_code` and the timers that carry one, and the settlement. The
landlord is dealt the `bottom` cards half a second later (`dealt`); until then the
cards of whoever was asked last to bid are taken as in a game, and stay on the table
(`Stuck` if they are the landlord's own, section 7). `early` is history: the last
play was there before the landlord was asked.

| actions | code |
|---|---|
| Landlord | `on_game_landlord` |
| Card (Plays, Passes) | `on_client_card_handle`, `on_client_show_poker`, `on_game_stop` (`LordWon`, `LordLost`) |
| Update | `on_update` for a player who has done nothing in time |
| RobotOn, RobotOff | `on_client_robot_handle`, `RBT 1` and `RBT 0` |
| RobotCard | `on_robot_card`, from a timer or at once |

A play is what is named (`g`, which the parser judges) and the cards that leave the
hand (`d`): the code looks each name up in the hand and does not ask that names
differ (ddz_plugin.cpp:1249), so that one card named four times is a bomb.
`Named` is what players may name; more than four of a rank is no play for the parser.

The landlord sits at position 0 (positions are equal but for who begins). A
refused command changes nothing and is no step. A player who leaves is in
`DdzTable`. `left` is history: a timer remembers how often its player had left
the robot mode when it was queued, so that two timers with the same code stay two.
A game starts with cards in every hand (`DdzTrickAssumption`), since it was dealt.
`on_update` does nothing while a timer is pending, as a player is idle for it only
after longer than any timer takes.

### AskRoom

The rooms of `ask_plugin`. `room[r]` has the fields of `ask_room` and the seats,
`info[c]` those of `ask_game_info`, `seek[c]` is an `IDK` between two holdings of
a room's lock, `tasks` the pending timers, each with the code it carries, and
`up` whether the process runs. `asked` is history: the questions of a game as
they were sent.

| actions | code |
|---|---|
| ClientJoin, ClientLeave | `on_befor_client_join` with `on_client_join`, `on_client_leave` |
| SearchRoom, AskForRoom | `client_join_room_handle` up to its search, with `on_client_leave_room` |
| EnterRoom, VisitBusy, VisitEmpty, VisitFree | one look at a room, with `on_client_join_room` |
| ReadyMember, ReadyLeader | `client_ready_handle` |
| RoomGameStart, RoomGameQuestion | `on_room_game_start`, `on_room_game_question`, from timers |
| Answer | `client_answer_handler`, with the next question or `on_room_game_stop` |

Names, the text of questions, scores and broadcasts are left out. `on_update`
looks at rooms and does nothing (ask_plugin.cpp:34), and nothing queues
`on_question_no_answer`, which is not defined. What the code leaves
uninitialised is chosen from `UNINITIALISED`.

### NumberFacts

Induction over numbers for the proofs: `LeastNumber` and `IntervalInduction`, which
is stated with a set in place of a predicate.

## 4. Runs

| run | instance | shows |
|---|---|---|
| lifecycle_pair | 2 addresses, one plugin, one name, one connection per address, unload, stop | types; the assertion of `on_error`; one login per name; the plugin's map; the refinement of `ConnectionLifetime` |
| lifecycle_live | 1 address used twice, 2 plugins, unload, fair | one continuation per connection; an unloaded plugin is idle; who leaves is destroyed; `unload_plugin` returns |
| sendqueue | 3 buffers, 7 writes, failures, fair | one write at a time; the buffer in flight is untouched; the refinement of `MessageStream` and "what is accepted is sent" until a message fails to format |
| offline_update | 2 clients with 2 tries, 2 timers, 2 blocks and one other task, fair | a timer is in one place; waiting timers are listed; a block has one user; a request is in one place; a client that leaves is in one place, between the pools too; it is removed, with one exception |
| receive | buffer of 11 bytes, frames of 1, 2 (extended length) and 1 bytes of payload cut everywhere, every payload | what is handed on has arrived, is used once, is intact if short; one frame per read works; the words of the line, terminated; the line begins with the payload, ends with it if it has a zero, and runs on, while frames grow, only into what was there before the first one |
| ddz_table | 3 players, 1 table, hands of 1 card and 1 bottom card, fair | seats and infos agree; a running game has its players and a driver; ready players start; games end, with one exception |
| ddz_trick | a deck of 6 ranks and the jokers, 1 bottom card; all hands of up to 5 cards, all plays and all plays with a card more, of two twos at most; 2 commands; fair timers | the parser knows the plays of the rules and no others; a robot's answer beats, and it gives up only if nothing beats; who leads finds a free table, but for cards taken before the landlord was asked; peasants win what the landlord loses; robots end their game unless the landlord must beat its own cards; each step is one of `DdzTable` |
| ask_room | 4 clients, 3 rooms of 4 seats, 2 questions, one leader uninitialised | a running game has both teams; a player has one seat; questions come once and in turn; a room that is led stays so, and its leader leads until it gets up |
| join_broken, stale_answer, stop_returns, frames_sticky | small | where the code does not do what its comment or assertion says (section 7) |

Bounds, and why they are enough. Two clients with one name and one plugin are
the smallest instance in which a login meets a login, a leave or an update of
the same name, and one address used twice is the smallest in which a late
answer or a posted disconnect meets the next connection; both together add no
new kind of meeting, and the proofs cover all numbers. `UP_RE_TIMES` is 2 (3 in
the code): a first try, a retry and a last one. `MAX_AUTH_SESSION_COUNT` is 1,
so that its limit is met. Three buffers let the queue grow, fill, rest and
start again within 7 writes (8 buffers that grow to 32 in the code,
ws_client.cpp:20 and ws_client.h:166). Two
clients with two tries are four requests and as many tasks; with the other task
they meet two timers that are too few and two blocks that are too few, so that
handlers find several tasks and several free blocks, and one timer can be free
while another waits or is about to be inserted. `MIN_ACTIVED_TIMER` is 1, so
that the purge is met. The buffer of 11 bytes (1024 in the code) holds one frame
of the run and a part of the next one; the frame in the middle has an extended
length, so that its remains are in the buffer when the last one is parsed. A
line is up to eleven characters, as stale bytes may follow a payload: words, and
blanks at both ends or between two words. Before the first frame the buffer holds an
upgrade request that ends in front of zeros, or one that fills it (`MCUpgraded`).

Three players are the least that play; they leave and come back in every order,
so that a game meets the timers of the game before. One card each and one at the
bottom let the landlord play twice and the others once; more cards make games
longer and add no turn of another kind. The search of several tables is left to
the proofs, which have any number of them. Six ranks and the jokers (`LowRank`
is 8) hold a run of five single cards, runs of three to five pairs, of two to
four triples with wings, and the two and the jokers, which are in no run. A run
of single cards that is beaten by another one needs a larger deck, and hands with
three or four twos, of which the peasants keep one each, are not in the games of
robots: the proofs have every deck and hand. Two
commands are enough for a robot to be turned on and off while its timer is pending,
or for cards before the landlord is asked and a robot after; longer games are played
by robots. A card that is named twice is a joker (`MCNamed`). Four players make
two teams of two, three rooms let a search pass one and end in another, and two
questions are the first that goes to either team. `MAX_CODE` of 3 is one game
with its timers and the start of a second one, which a late timer of the first
may meet.

CHECK_DEADLOCK is off where the modelled part may really come to rest: after a
stop, when nobody writes, when the object is destroyed.

Fairness. The `io_service` runs every ready handler and expired timers expire,
so the server's handlers are weakly fair, each client's for itself. `http`
requests are answered or fail (their handler has both outcomes). `async_write`
completes, if with an error. Nothing is assumed of a peer but that it closes
after the server has shut the connection down (`ShutdownSeen`). The actions of
the owner are fair where they are steps of a call that has begun; nobody is
forced to call load, unload or stop. In `OfflineUpdate` all
work of the server together is weakly fair: each client takes finitely many
steps, so that none is put off by others for ever. In
`DdzTrick` a pending timer of a robot fires, and so does the landlord's
(`TimersFire`, with weak fairness of `Landlord`); players and
`on_update` may do nothing for ever. `AskRoom` has no fairness and no liveness:
a team that does not answer is waited for, since `on_update` does nothing when
the time is up. In
`DdzTable` the timers of a table and its turn in `on_update` are weakly fair, as
the zone's timers fire and the update loop comes round; the players may do
nothing for ever.

What these assumptions leave open. `http_request` has no timeout: that the http
server answers or fails is assumed. A request whose push comes after the last
handler has drained the queue waits until another one is queued
(`HttpPool!Stranded`), and `LeaverDestroyed` and `UnloadReturns` are relative to
its being answered. And a client whose receive buffer was filled by several
reads reads nothing, successfully, for ever: it never finds
out that its socket was shut down, and the same two properties are relative to
its being closed by the peer.

## 5. Proofs

All theorems are `Spec => []Inv`, action properties or refinements, for every value
of the constants under the named assumptions of the modules. Where the runs check
liveness, the part of it that is safety is proved: that something which is waited
for has a step to come, and that each step brings it nearer, by a measure with a
least value. What remains for the runs is fairness, that the step is taken.

* `ClientLifecycle_proofs`. `IndInv` is the type invariant and: `ReadState` (only a
  connected client is read from), `OneContinuation`, `ErrorFindsDispatcher`,
  `DispatchedIsMember` and `LeavingIsMember` (the two halves of `MembersKept`),
  `UnloadedHasNoMembers`, `OwnerBusy` (a plugin that is neither loaded nor being
  unloaded has nobody). Each is preserved on its own with one step per action;
  `OneContinuation` is the pivot: since a client has one pending handler, the
  step of one leave cannot meet another leave of the same client, and the
  erase by name removes the right client. `UniqueLogin` follows from
  `MembersKept`: two clients of one name are the same entry of the map.
  `LifetimeImplemented`, in the same module: under `IndInv` every step is a step of
  `ConnectionLifetime` for every address at once.
  `LeavesRunOut` counts what a leave still has to do: `HandlersLeft` adds the
  handlers a stage has behind it (`StageSteps`) to two for each try that is left,
  of which there are at most `UP_RE_TIMES` (`TriesLeft`). `LeaverDestroyed` is that and the
  fairness of the handlers. `WaitsForLeavers` is the same for `UnloadReturns`: the
  owner's place in `on_unload` names a plugin that is being unloaded (`OwnerState`),
  and of such a plugin each member that does not leave yet was told to disconnect, or
  is still to be told in the loop over them (`Told`).
* `SendQueue_proofs`. `QueueInv` says that the queue is at rest or sends the
  buffer `read_pos_` with a single pending write; the stream refinement adds,
  until a message fails to format, `InOrder`: buffers from `read_pos_` to
  `write_pos_` hold ascending messages.
  `DeliveredOnceInOrder` says what the peer has of it: each message once at most,
  ascending, and before all that wait. `OldestIsBeingSent` is the kernel of
  `AcceptedIsSent`: no message waits without a write under way, and that write is the
  oldest one's, so that each completion takes one message from all that wait before
  another.
* `OfflineUpdate_proofs`. `PoolInv` adds `TaskPlace` to the timers' invariants: a
  task waits, is handled, runs or has run, one of these. `HttpInv` adds
  `OnlyAsked`: only requests that were asked for are anywhere, and a handler's own
  request is answered. `OfflineRequests` and `OfflineTimers`: a step of the
  composition is a step of either pool or leaves it alone, so that each keeps its
  invariant; `OfflineSafe` is their conjunction with the types. `LeaveInv` adds the
  course of each client: it is at home, its request is out, it pauses between two
  tries, or it is gone (`Course`), and the tries it has left name the request and
  the task it may have, which makes every other one old. `LeaversInOnePlace`
  follows.
  The kernel of `LeaverRemoved`: `TimerLeft` counts the steps a task has before it
  (it is queued, its timer expires, is back, calls; and the insert of queue_task),
  `HttpLeft` those of a request (asked for, pushed, started, answered; block freed,
  lock taken, lock left). `OfflineIsFinite`: each step but the destructor's lowers
  one of them and raises none, or lets a client leave, which it does once: a client
  with UP_RE_TIMES tries has a bounded number of steps to go, whatever the other
  clients do. The lemmas of each pool show it there (`TimersAreFinite`, `RequestsAreFinite`), the latter with
  `DrainPlace`: a handler that drains the queue has had its answer and freed its
  block. `TasksNotLost` (`TasksAreKept`) says that no timer is aborted by being
  used for another task, which takes `OneCall`: queue_task is called once for a
  task. `LeaversAreNotForgotten`: when no handler is to come, each client that left
  is removed, but for the request that was pushed after the last handler
  (`Stranded`), which `LeaverRemoved` excepts too.
* `Receive_proofs`. `FrameInv`: the buffer holds the last `length` bytes that
  arrived (`BufferIsTail`), except between a frame and the reset after it; the
  positions are in order and inside the read (`Positions`); frames that were
  handed on end before the buffer begins (`UsedBefore`); a short frame at its
  head has been parsed as sent so far (`ShortFrameParsed`). It assumes of the
  peer only that it sends whole frames one after the other. `CommandInv` says
  that the words found so far are those that begin before `cmd_segment_pos`, and
  that the line is rewritten before `curr_index` and unchanged from it on.
  `FrameByFrame` holds as long as every read brings one frame (`OnePerRead`):
  the frames handed on are intact (`Intact`), all that arrived have been handed on
  but the one at hand (`Arrived`), which fills the buffer from its head
  (`HoldsFrame`) and is parsed as sent (`ParsedOf`); its step counts the
  frames that have arrived, by `IntervalInduction`. `FramePerRead` follows.
  `ReceiveImplementsParts`: every behaviour of the composition is one of
  `FrameReceive` and one of `Command`, so that what holds of either holds of it.
  `LineInv` is about both: behind every frame that has been in it the memory is
  as it was before the first one, but for zeros with which words found there were
  ended (`KeptBehind`), the payload lies where it was unmasked until
  the command takes it apart (`PayloadLies`), once (`OneCommand`). `LineIsPayload`
  follows: nothing is assumed of what the buffer held. `ReceiveSafe` is the
  conjunction of all.
* `AskRoom_proofs`. `SeatInv` is the agreement of seats and infos, with a client
  that searches having no room; `PhaseInv` tells for each room in which phase its
  game is (`Phase`) and that at most one pending timer is current (`Current`);
  `InTurn` is what has been asked, as a function of the question and the team
  that is to answer. `BothTeams` needs `SeatInv`, as the start counts seats;
  `QuestionsInTurn` needs all three; `LeaderStays` is an action property: one step for
  each handler that a room is kept led (`Led`), and that only the leader's own leave
  gives the lead to another (`SameLeader`).
  `GamesAreAnswerable` is why a game cannot come to a halt while its players stay:
  a game with no current task has a question out (`Phase`), both teams have players
  (`SeatInv`), and one who sits on the side that is asked may answer (`MayAnswer`).
* `DdzTable_proofs`. `TableInv` has a part for each table, `DeskInv`: without a
  game the table is as `reset` leaves it (`Idle`), start and turn are set together
  (`Turns`), a game has three players and its landlord and bidders among them
  (`AllSeated`), the bottom cards are the landlord's (`Bottom`) and, while the
  landlord waits for them, nobody's (`Awaited`), and one timer or a turn drives
  the game (`Driven`). The part for the clients is `SeatsAgree`, `ReadyStarts` and
  `ClientInv`: who looks for a seat has none, and who has none is not ready.
  Every handler works at one table and keeps or changes its seats; `TableStep`
  and `StandUpKeeps` say once what that leaves alone. `Bidding` is what holds in
  the middle of an answer to a bid, before it is known whom to ask next.
  `GamesRunOut` and `GamesGoOn` are the two halves of `GameEnds` that are safety.
  What a game has before it (`Left`) is compared in the order of its parts: a
  landlord to find, the timers that may still follow each other (`TimersLeft`), and
  the turns, counted in seats up to the first bidder (`ToFirst`) or in three for
  each card and the seats up to the last that played (`ToShower`). The order
  matters: `on_game_bid`, which compares the code before it locks, may set the turn
  back to the first bidder in the middle of the bidding, and a start that is still
  pending may deal again, but each time a timer is gone for good. Every
  step is one of the game's and is `Nearer`, or is not and leaves the game `Unmoved`; `Sane` (who has to beat a play knows whose) is
  what makes the turn one that `on_update` can take (`Waits`).
* `DdzTrick_proofs`. `LeadInv` adds to `LeadIsFree` that hands are hands of the deck,
  the landlord's with the bottom cards until they are dealt,
  and that the last play has a type of the parser, or is one from before (`early`); a
  step plays, passes or leaves the table alone (`Move`). The refinement `TableImplemented` maps a hand to its
  size: `SizeOfRest` says that a play takes its size from the hand's, and
  `SizeOfAll` that a hand runs out exactly when all of it is played. What a handler
  of `DdzTable` does to a table with real cards is shown field by field
  (`InGameChanges`). `MoneyInv`: nobody owes money, and the bombs multiply the
  stake; with it `LordPays` is arithmetic (`Settlement`).
  `ParserKnowsThePlays` and `RobotsAnswer` hold of any hand, so that `LeadInv` gives
  them for the landlord's; they are for the whole deck and the full hand, where the
  run has a small one. Both tell a play by counts: how many ranks of the hand have
  one card, two, three and four, and whether some of them are a run (`IsPlay`).
  `ShapeByCount` says so of the rules, whose hands are put together from parts, and
  `ParseByGuard` of the parser, whose guards count the cards first; of two readings
  of the same counts it is then arithmetic that one guard holds and the others do
  not. The finder's choice is a prefix of the archive (`FirstOnes`: the first n of
  a set of ranks are n, if it has as many) or the lowest run of a growing stock
  (`FirstRunFinds`, which loses nothing to the full stock). From there the lemmas
  in -`Answers` say that what is found is a play of the type, of the length and above
  the value (`SameAnswers`), and those in -`Found` that something is found whenever
  the hand holds such a play (`SameFound`). Fours with two others are left out of the
  second: the finder asks for two ranks where one pair would do, and answers with
  the bomb instead. `AnswerIsLarger` and `NoAnswerNoPlay` add bombs and jokers.
  `TurnsGoOn` is what `RobotsFinish` rests on, and holds of players and robots alike.
  `TurnInv` says that nobody has an empty hand while the game runs and that the last
  play is one; then the finder's answer is accepted (`RobotsAreTaken`), which matters
  since `on_robot_card` tries once only. `RobotInv`: the robot whose turn it is has a
  timer with its present code, and a timer that is not current takes none with it.
  The exception is `Stuck`, the landlord that must beat its own cards.
  `TurnsRunOut` bounds the turns: a game has three turns for each card that is still
  in a hand or at the bottom, and of these as many are gone as players have passed
  (`TurnsLeft`, which sets aside twelve for the deal).
  With `TurnsGoOn` this is all of `RobotsFinish` but its fairness.

Only model-checked: liveness (`LeaverDestroyed`, `UnloadReturns`,
`AcceptedIsSent`, `LeaverRemoved`, `RobotsFinish`, `GameEnds`), of which the prover
reaches only the measures above. Every safety property of a passing run is a
theorem. `DdzTable!BottomOnce`, the types of `SendQueue`, `DdzTable` and `DdzTrick`,
`TurnsGoOn`, `TurnsRunOut`, `GamesAreAnswerable`, `GamesRunOut`, `GamesGoOn`,
`OnceInOrder`, `SendsTheOldest`, `LeavesRunOut`, `WaitsForLeavers`, `TasksAreKept`,
`TimersRunOut`, `HttpRunsOut`, `OfflineRunsOut` and `LeaversAreServed` are proved and
have no run.

## 6. Not modelled

Planned and left (section 2): `net/ws_request_parser` (a character automaton
without concurrency, whose result is thrown away but for one header),
`net/ws_framedata_parser`'s counterpart in `write_frame` for frames of 126 bytes
and more, `service/post_monitor` (a ring of ticks) and the mysql pool, which no
project file builds.

Not planned. The table of handlers by name and `game_zone` hold no state that
changes after loading. `ws_util` and `util` compute digests and formats. `main.cpp`
is a console loop. `ip_monitor` has a declaration and no code. `chat`, `ping` and
experience points of the games pass through. The address arithmetic of the request
blocks (game_service.cpp:161) is below the level of blocks as values. A second
update loop (game_plugin.cpp:58, unload and load within one period) would run
the same steps more often. `RBT` of a player at no table reads a null desk
(ddz_plugin.cpp:1433); the model lets only seated players send it. Logging,
formatting, counters for diagnosis and the internals of Asio, SSL and curl are not
modelled.

## 7. Where the code and its words differ

* `join_broken`: a connection that breaks during its login joins the plugin
  although a comment says this is checked. The plugin keeps a pointer to
  memory that the destroy list frees, and its `unload` waits for ever.
* `stale_answer`: the answer of a login is matched by address; it can log in,
  or throw out, the next connection at that address.
* `stop_returns`: `on_stop` tells those to disconnect who are in `clients_` at that
  moment (game_service.cpp:181-188). A connection that arrives after this loop is told
  nothing, and `stop` waits for a worker that does not return while it stays. (That
  `on_stop` holds `plugins_mutex_` while it unloads is not the reason: no step of a
  leave takes it, only logins and timeout checks wait.)
* `frames_sticky`: of two frames in one read the second one is lost, where a
  comment says that parsing goes on.

Further observations, each met while modelling and shown by the models, but
without a run of its own:

* After a format error `write_pos_` and `read_pos_` disagree and the message that
  is written next is sent twice (ws_client.cpp:300-314, against the comment at
  367-370 about ordered delivery). After `failed` messages reach `received` of
  `SendQueue` twice.
* A message that finds all buffers in use is dropped in silence; the comment at
  ws_client.cpp:247 says that the user is disconnected (`WriteRefused`).
* A timer may expire before it is inserted and stays in `working_timers_`
  (async_task.cpp:53-59), which the destructor asserts to be empty (`TrackTimer`
  after `Expire`).
* A frame that comes in two reads is not completed by the second one, since
  `pos_` counts from the start of the buffer and `data_len` from the start of the
  read; the branch that moves a half frame (ws_client.cpp:206-211) is never taken.
* A receive buffer that several reads have filled is not reported
  (ws_client.cpp:198); reading goes on with no place to read to.
* For 500 ms between the last bid and `on_game_landlord` the last bidder is still
  the current player and its cards are accepted (ddz_plugin.cpp:1189-1214). If it
  is the landlord it must then beat its own cards, and may not pass (1220):
  `DdzTable!Stuck` and `DdzTrick!Stuck`, where `on_update` sends a pass that is refused
  for ever, and so does a robot that finds nothing larger. `LeadIsFree` and
  `RobotsFinish` except it, and show that it is the only exception.
  `Stuck` also has a player without cards whose turn it is, after an
  `on_game_bid` of an earlier game was let through (425-428).
* A command that names one card several times is accepted if the hand has that card
  (ddz_plugin.cpp:1249): one card named four times is a bomb, and one card leaves the
  hand.
* Cards may be declared before the deal and again after it, which counts twice
  (ddz_plugin.cpp:365-396), and not at all in a second deal, as `is_bided_` stays.
* The branch of a landlord's win in `on_game_stop` adds to the losers what they
  have lost and never updates the landlord (ddz_plugin.cpp:673, against the
  comments at 654 and 657). `DdzTrick!LordWon` does so too; `LordPays` is about
  the landlord's losses only.
* `doublejoker_count_` is set to 0 and never counted (ddz_plugin.cpp:1287), so
  that two jokers do not double the stake.
* Leaving the robot mode sets `verify_code` to 0 (ddz_plugin.cpp:1477); a comment
  there (1476) says that timers are void by that, but a few turns in the robot mode later
  a pending timer's code is the present one again. What such a timer does is what
  the present one would do.
* The finder keeps two jokers while the hand has four cards or more, although
  nothing else may beat the last play. `AnswerBeats` says so.
* The parser refuses plays of 20 cards, and with seven single cards beside others
  it writes one past the end of a local array before it refuses them.
* A payload is handed on without an end: when a shorter frame follows a longer
  one its command goes on with the rest of the longer one, and the first ones go on with
  the upgrade request, which was read into the same buffer (ws_client.cpp:12, 38, 69,
  84; nothing clears it). `LineIsPayload` says that this is all as long as frames
  grow, and fails for earlier frames without `FramesGrow`.
* A player who leaves the quiz ends the process: `ask_plugin::on_client_leave`
  calls itself where it means its base class (ask_plugin.cpp:88).
* `questions_` of a room is never cleared, so that a later game asks the questions
  of the former ones first, and as many more (ask_plugin.cpp:385,
  `AskRoom!Begin`).
* `is_ready_` of a quiz player is never reset, and a ready of one who is ready is not
  heard (ask_plugin.cpp:320, 391): the leader of a game cannot start a second one,
  and a player who was ready before it became the leader none. The room stays led
  (`LeaderStays`), and waits until the leader leaves for one who was not ready.
* `room_leader_index_` is not initialised: a room may start with a leader that is
  no seat, and then nobody can start its game.
* A room's number is compared with `ROOM_CAPACITY`, the seats of a room
  (ask_plugin.cpp:176), and the finder keeps the number of rooms it has visited
  where it means the room it has found (ask_plugin.cpp:147).
* `question_collection::get` does not end when fewer questions are loaded than
  are asked for.
* `queue_http_request` can push a request when nobody is left to take it
  (`HttpPool!Stranded`).

## 8. Running

`tlc -config <run>.cfg MC_<module>.tla`, `tlapm <module>_proofs.tla`.
