------------------------- MODULE ClientLifecycle -------------------------
(* A connection from the accept to the release of its memory: tcp_server's
   accept chain, the receive chain of ws_client, game_service (login, leave,
   destroy list, shutdown), game_client (on_error, disconnect) and game_plugin
   (join, leave, offline update, load and unload).

   game_client objects are addresses (Slot) of a pool that is used again after
   a free; the field "incarnation" is the only history: it tells two
   connections at one address apart, and the code never reads it.

   An action is a stretch of one handler during which the locks it holds keep
   the others out, or which only it can see: a command handler reads
   is_running_ and acts in one step, because recv_lock_ keeps every other
   writer of what it reads away from the client.  The io_service runs handlers
   on several threads and starts posted ones in any order.

   A definition whose name ends in _ and a word is its namesake with a slip a
   programmer could make; no other definition uses it.                        *)
EXTENDS Integers, FiniteSets, Functions

CONSTANTS
  Slot,                     \* addresses of the game_client pool
  Plugin,                   \* game ids
  Id,                       \* user names a LOG command may carry
  NoId,                     \* the empty name of a client that has not logged in
  NULL, SERVICE,            \* no dispatcher, game_service as a dispatcher
  Capacity,                 \* capacity_ of a plugin
  MAX_AUTH_SESSION_COUNT,   \* http_request blocks in pool 0
  UP_RE_TIMES,              \* tries of an offline update
  AcceptDepth,              \* accepts posted at a time
  MaxIncarnation,           \* bound: connections per address
  CanStop                   \* whether stop() is called

ASSUME DistinctValues ==
  /\ NULL # SERVICE /\ NULL \notin Plugin /\ SERVICE \notin Plugin
  /\ NULL \notin Slot /\ NoId \notin Id
ASSUME NumbersAssumption ==
  /\ Capacity \in Nat /\ MAX_AUTH_SESSION_COUNT \in Nat /\ AcceptDepth \in Nat
  /\ MaxIncarnation \in Nat /\ UP_RE_TIMES \in Nat \ {0} /\ CanStop \in BOOLEAN

VARIABLES
  is_running,
  client,       \* the memory of every game_client
  clients,      \* game_service.clients_: the connections that have not logged in
  plugins,      \* game_service.plugins_
  onlined,      \* the plugins with is_onlined_
  members,      \* game_plugin.clients_ of every plugin, a map from ids
  exits,        \* how often each handler that leads a client out is pending
  auths,        \* pool 0 requests whose answer is pending
  ending,       \* end_auth calls past the search in clients_
  kicks,        \* disconnect(code) handlers posted with a plain pointer
  svc           \* what the thread that owns the service is doing

vars == <<is_running, client, clients, plugins, onlined, members, exits,
          auths, ending, kicks, svc>>

Dispatcher == Plugin \cup {SERVICE}
LoginId == Id \cup {NoId}

\* The values of error_code_ that the modelled code assigns.
Code == {"CLIENT_NET_ERROR", "SERVER_CLOSEING", "CLIENT_HAS_LOGINED",
         "GAME_IS_FULL", "GAME_NOT_EXISTED", "TIME_OUT",
         "LOGIN_SERVICE_ERROR", "LOGIN_CONCURENCY_LIMIT",
         "CONSTANT_REQUEST", "COMMAND_ERROR"}

Client == [mem: {"free", "accepting", "arriving", "connected"},
           incarnation: 0..MaxIncarnation,
           available: BOOLEAN, is_error: BOOLEAN, error_code: Code,
           dispatcher: Dispatcher \cup {NULL}, plugin_addr: Plugin \cup {NULL},
           id: LoginId, retries: Int,
           reading: BOOLEAN,    \* a receive of the read chain is pending
           sending: BOOLEAN]    \* read_pos_ # -1

\* The handlers a leaving client passes through, one at a time: dispatch_bye,
\* the http request of the offline update, its retry timer, the call of
\* on_client_leave, the destroy list.
Stage == {"bye"} \X Dispatcher \cup {"update", "retry", "left"} \X Plugin
           \cup {<<"listed", SERVICE>>}
Listed == <<"listed", SERVICE>>
NoExit == [s \in Stage |-> 0]

AuthRequest == [client: Slot, incarnation: 0..MaxIncarnation, plugin: Plugin]
AuthEnd == [client: Slot, incarnation: 0..MaxIncarnation, plugin: Plugin,
            at: {"check", "reject"}, code: Code]
Posted == [client: Slot, incarnation: 0..MaxIncarnation, code: Code]

NoMembers == [i \in LoginId |-> NULL]
Idle == [pc |-> "idle", plugin |-> NULL]

--------------------------------------------------------------------------
(* Type invariant *)

TypeOK ==
  /\ is_running \in BOOLEAN
  /\ client \in [Slot -> Client]
  /\ clients \subseteq Slot
  /\ plugins \subseteq Plugin
  /\ onlined \subseteq Plugin
  /\ members \in [Plugin -> [LoginId -> Slot \cup {NULL}]]
  /\ exits \in [Slot -> [Stage -> Nat]]
  /\ auths \subseteq AuthRequest
  /\ ending \subseteq AuthEnd
  /\ kicks \subseteq Posted
  /\ svc \in [pc: {"idle", "erased", "unloading", "stop_clients", "stop_plugins",
                   "stop_wait", "joining", "stopped"},
              plugin: Plugin \cup {NULL}]

--------------------------------------------------------------------------
(* Helpers *)

\* The object the constructors leave in a pool block.
NewClient(n) ==
  [mem |-> "accepting", incarnation |-> n, available |-> FALSE,
   is_error |-> FALSE, error_code |-> "CLIENT_NET_ERROR", dispatcher |-> NULL,
   plugin_addr |-> NULL, id |-> NoId, retries |-> UP_RE_TIMES,
   reading |-> FALSE, sending |-> FALSE]

Connected(c) == client[c].mem = "connected"

\* disconnect(code) without its test of available_.
Disconnect_Unchecked(r, code) == [r EXCEPT !.available = FALSE, !.error_code = code]

\* game_client::disconnect(code): the first reason given stays.
Disconnect(r, code) ==
  IF r.available THEN [r EXCEPT !.available = FALSE, !.error_code = code] ELSE r

\* game_client::on_error, which also ends the read chain it is called from.
\* error_code_ starts as CLIENT_NET_ERROR and never is NO_ERROR: the argument
\* of on_error is not stored.
OnError(r) == [r EXCEPT !.is_error = TRUE, !.reading = FALSE]

PostBye(c) ==
  exits' = IF client[c].is_error \/ client[c].dispatcher = NULL THEN exits
           ELSE [exits EXCEPT ![c][<<"bye", client[c].dispatcher>>] = @ + 1]

\* The handler of stage "from" is done and leaves the one of stage "to" pending.
MoveExit(c, from, to) ==
  exits' = [exits EXCEPT ![c] = [exits[c] EXCEPT ![from] = @ - 1, ![to] = @ + 1]]

PluginsLocked == svc.pc \in {"stop_plugins", "stop_wait"}

MemberSlots(p) == {members[p][i] : i \in LoginId} \ {NULL}

\* unload and on_update_timeout_clients without the post.
PostKicks_Forgotten(S, code) == UNCHANGED kicks

\* The disconnect(code) handlers that a loop over the clients in S posts.
PostKicks(S, code) ==
  kicks' = kicks \cup
    {[client |-> c, incarnation |-> client[c].incarnation, code |-> code] : c \in S}

RequestBlockFree ==
  Cardinality(auths) + Cardinality(ending) < MAX_AUTH_SESSION_COUNT

--------------------------------------------------------------------------
(* Accepting *)

\* start_accept constructs the client of the next connection in advance.
StartAccept(c) ==
  /\ is_running
  /\ client[c].mem = "free"
  /\ client[c].incarnation < MaxIncarnation
  /\ Cardinality({d \in Slot : client[d].mem = "accepting"}) < AcceptDepth
  /\ client' = [client EXCEPT ![c] = NewClient(@.incarnation + 1)]
  /\ UNCHANGED <<is_running, clients, plugins, onlined, members, exits, auths,
                 ending, kicks, svc>>

\* accept_handle reads is_running_ before it takes any lock.
AcceptHandle(c) ==
  /\ client[c].mem = "accepting"
  /\ is_running
  /\ client' = [client EXCEPT ![c].mem = "arriving"]
  /\ UNCHANGED <<is_running, clients, plugins, onlined, members, exits, auths,
                 ending, kicks, svc>>

\* The acceptor was closed, or is_running_ was read as false.
AcceptRefused(c) ==
  /\ client[c].mem = "accepting"
  /\ ~is_running
  /\ client' = [client EXCEPT ![c].mem = "free"]
  /\ UNCHANGED <<is_running, clients, plugins, onlined, members, exits, auths,
                 ending, kicks, svc>>

\* on_client_connected: the client is registered and its read chain starts.
ClientConnected(c) ==
  /\ client[c].mem = "arriving"
  /\ client' = [client EXCEPT ![c] =
                  [@ EXCEPT !.mem = "connected", !.available = TRUE,
                            !.dispatcher = SERVICE, !.reading = TRUE]]
  /\ clients' = clients \cup {c}
  /\ UNCHANGED <<is_running, plugins, onlined, members, exits, auths, ending,
                 kicks, svc>>

--------------------------------------------------------------------------
(* The receive chain: one handler at a time, under recv_lock_ *)

\* A failed handshake or receive, or data after a disconnect by another thread.
ReceiveFailed(c) ==
  /\ client[c].reading
  /\ client' = [client EXCEPT ![c] = OnError(@)]
  /\ PostBye(c)
  /\ UNCHANGED <<is_running, clients, plugins, onlined, members, auths, ending,
                 kicks, svc>>

\* The commands whose handler answers with disconnect(code).
Refusals(c) ==
  LET r == client[c]
      guest == r.dispatcher = SERVICE
  IN {code \in Code :
       \/ code = "CONSTANT_REQUEST" /\ r.dispatcher # NULL
       \/ code = "COMMAND_ERROR" /\ guest
       \/ code = "CLIENT_HAS_LOGINED" /\ guest /\ r.plugin_addr # NULL
       \/ code = "GAME_NOT_EXISTED" /\ guest /\ r.plugin_addr = NULL
            /\ ~PluginsLocked /\ plugins # Plugin}

\* The handler disconnects its own client: on_data_received sees available_
\* cleared, calls on_error and ends the chain.
CommandRefused(c, code) ==
  /\ is_running
  /\ client[c].reading /\ client[c].available
  /\ code \in Refusals(c)
  /\ client' = [client EXCEPT ![c] = OnError(Disconnect(@, code))]
  /\ PostBye(c)
  /\ UNCHANGED <<is_running, clients, plugins, onlined, members, auths, ending,
                 kicks, svc>>

\* The line "client->set_command_dispatcher(NULL)" that is commented out at the
\* end of client_login_handle.
LoggingIn_Silenced(r, p, i) ==
  [r EXCEPT !.id = i, !.plugin_addr = p, !.dispatcher = NULL]

\* fill and the mark with the parameters of the command swapped.
LoggingIn_Swapped(r, p, i) == [r EXCEPT !.id = p, !.plugin_addr = i]

\* fill, and the mark that keeps a second LOG out.
LoggingIn(r, p, i) == [r EXCEPT !.id = i, !.plugin_addr = p]

\* client_login_handle and begin_auth for the command LOG <p> <i>.
Login(c, p, i) ==
  /\ is_running
  /\ client[c].reading /\ client[c].available
  /\ client[c].dispatcher = SERVICE
  /\ client[c].plugin_addr = NULL
  /\ ~PluginsLocked
  /\ p \in plugins
  /\ LET r == LoggingIn(client[c], p, i)
     IN IF RequestBlockFree
        THEN /\ client' = [client EXCEPT ![c] = r]
             /\ auths' = auths \cup {[client |-> c, plugin |-> p,
                                      incarnation |-> r.incarnation]}
             /\ UNCHANGED exits
        ELSE /\ client' = [client EXCEPT ![c] =
                             OnError(Disconnect(r, "LOGIN_CONCURENCY_LIMIT"))]
             /\ PostBye(c)
             /\ UNCHANGED auths
  /\ UNCHANGED <<is_running, clients, plugins, onlined, members, ending, kicks,
                 svc>>

--------------------------------------------------------------------------
(* The answer of the authentication server: end_auth *)

\* end_auth up to the search in clients_, by address only; ok: status 200.
AuthAnswer(a, ok) ==
  /\ a \in auths
  /\ auths' = auths \ {a}
  /\ IF is_running /\ a.client \in clients
     THEN /\ clients' = clients \ {a.client}
          /\ ending' = ending \cup
               {[client |-> a.client, incarnation |-> a.incarnation,
                 plugin |-> a.plugin, code |-> "LOGIN_SERVICE_ERROR",
                 at |-> IF ok THEN "check" ELSE "reject"]}
     ELSE UNCHANGED <<clients, ending>>
  /\ UNCHANGED <<is_running, client, plugins, onlined, members, exits, kicks, svc>>

PluginFull(p) == Cardinality({i \in LoginId : members[p][i] # NULL}) >= Capacity

\* on_befor_client_join without the check against a repeated login.
JoinRefusal_NoDuplicateCheck(c, p) == IF PluginFull(p) THEN "GAME_IS_FULL" ELSE ""

\* join_client with on_befor_client_join: the code it returns, "" for NO_ERROR.
JoinRefusal(c, p) ==
  IF PluginFull(p) THEN "GAME_IS_FULL"
  ELSE IF members[p][client[c].id] # NULL THEN "CLIENT_HAS_LOGINED" ELSE ""

\* end_auth without its second search of the plugin.
AuthRefusal_NoPluginCheck(e) == JoinRefusal(e.client, e.plugin)

\* What auth_client answers for the request e, or that its plugin is gone.
AuthRefusal(e) ==
  IF e.plugin \notin plugins THEN "GAME_NOT_EXISTED"
  ELSE JoinRefusal(e.client, e.plugin)

\* end_auth under recv_lock_ and plugins_mutex_, when the client is to join.
AuthJoin(e) ==
  LET c == e.client
  IN /\ e \in ending /\ e.at = "check"
     /\ ~PluginsLocked
     /\ client[c].available
     /\ AuthRefusal(e) = ""
     /\ client' = [client EXCEPT ![c].dispatcher = e.plugin]
     /\ members' = [members EXCEPT ![e.plugin][client[c].id] = c]
     /\ ending' = ending \ {e}
     /\ UNCHANGED <<is_running, clients, plugins, onlined, exits, auths, kicks,
                    svc>>

\* end_auth under recv_lock_, when the client was disconnected meanwhile or
\* is refused; the locks are released before it is disconnected.
AuthNotJoined(e) ==
  /\ e \in ending /\ e.at = "check"
  /\ \/ /\ ~client[e.client].available
        /\ ending' = ending \ {e}
     \/ /\ client[e.client].available
        /\ ~PluginsLocked
        /\ AuthRefusal(e) # ""
        /\ ending' = (ending \ {e}) \cup
                       {[e EXCEPT !.at = "reject", !.code = AuthRefusal(e)]}
  /\ UNCHANGED <<is_running, client, clients, plugins, onlined, members, exits,
                 auths, kicks, svc>>

\* The disconnect(ret) at the end of end_auth.
AuthReject(e) ==
  /\ e \in ending /\ e.at = "reject"
  /\ client' = [client EXCEPT ![e.client] = Disconnect(@, e.code)]
  /\ ending' = ending \ {e}
  /\ UNCHANGED <<is_running, clients, plugins, onlined, members, exits, auths,
                 kicks, svc>>

--------------------------------------------------------------------------
(* Leaving *)

\* game_service::on_client_leave, reached from stage s.
ServiceLeave(c, s) ==
  /\ exits[c][s] > 0
  /\ s \in {<<"bye", SERVICE>>} \cup {"left"} \X Plugin
  /\ client' = [client EXCEPT ![c].dispatcher = NULL]
  /\ clients' = clients \ {c}
  /\ MoveExit(c, s, Listed)
  /\ UNCHANGED <<is_running, plugins, onlined, members, auths, ending, kicks, svc>>

\* remove_client of plugin p, from dispatch_bye or the retry timer, when the
\* plugin wants an offline update: the http request is queued.
BeginUpdate(c, p, s) ==
  /\ exits[c][s] > 0
  /\ s \in {<<"bye", p>>, <<"retry", p>>}
  /\ client' = [client EXCEPT ![c].dispatcher = NULL]
  /\ MoveExit(c, s, <<"update", p>>)
  /\ UNCHANGED <<is_running, clients, plugins, onlined, members, auths, ending,
                 kicks, svc>>

\* remove_client of plugin p when it does not, up to the erase in clients_.
RemoveClient(c, p, s) ==
  /\ exits[c][s] > 0
  /\ s \in {<<"bye", p>>, <<"retry", p>>}
  /\ client' = [client EXCEPT ![c].dispatcher = NULL]
  /\ members' = [members EXCEPT ![p][client[c].id] = NULL]
  /\ MoveExit(c, s, <<"left", p>>)
  /\ UNCHANGED <<is_running, clients, plugins, onlined, auths, ending, kicks, svc>>

\* end_update_client: the update is done, or was tried often enough.
EndUpdate(c, p, ok) ==
  /\ exits[c][<<"update", p>>] > 0
  /\ ok \/ client[c].retries <= 1
  /\ client' = [client EXCEPT ![c].retries = IF ok THEN @ ELSE @ - 1]
  /\ members' = [members EXCEPT ![p][client[c].id] = NULL]
  /\ MoveExit(c, <<"update", p>>, <<"left", p>>)
  /\ UNCHANGED <<is_running, clients, plugins, onlined, auths, ending, kicks, svc>>

\* end_update_client without the return after queue_task.
RetryUpdate_NoReturn(c, p) ==
  /\ exits[c][<<"update", p>>] > 0
  /\ client[c].retries > 1
  /\ client' = [client EXCEPT ![c].retries = @ - 1]
  /\ members' = [members EXCEPT ![p][client[c].id] = NULL]
  /\ exits' = [exits EXCEPT ![c][<<"update", p>>] = @ - 1,
                            ![c][<<"retry", p>>] = @ + 1, ![c][<<"left", p>>] = @ + 1]
  /\ UNCHANGED <<is_running, clients, plugins, onlined, auths, ending, kicks, svc>>

\* end_update_client without the count of the tries.
RetryUpdate_Uncounted(c, p) ==
  /\ exits[c][<<"update", p>>] > 0
  /\ MoveExit(c, <<"update", p>>, <<"retry", p>>)
  /\ UNCHANGED <<is_running, client, clients, plugins, onlined, members, auths,
                 ending, kicks, svc>>

\* end_update_client: the update failed and remove_client is tried again later.
RetryUpdate(c, p) ==
  /\ exits[c][<<"update", p>>] > 0
  /\ client[c].retries > 1
  /\ client' = [client EXCEPT ![c].retries = @ - 1]
  /\ MoveExit(c, <<"update", p>>, <<"retry", p>>)
  /\ UNCHANGED <<is_running, clients, plugins, onlined, members, auths, ending,
                 kicks, svc>>

\* on_check_timeout_clients: for the silent members in S a disconnect is
\* posted (every 60 s), and the list is destroyed but for what is being sent.
Destroyable(c) == exits[c][Listed] > 0 /\ ~client[c].sending

CheckTimeout(S) ==
  /\ is_running
  /\ S \subseteq UNION {MemberSlots(p) : p \in plugins}
  /\ S # {} => ~PluginsLocked
  /\ PostKicks(S, "TIME_OUT")
  /\ client' = [c \in Slot |-> IF Destroyable(c)
                               THEN [client[c] EXCEPT !.mem = "free"] ELSE client[c]]
  /\ exits' = [c \in Slot |-> IF Destroyable(c)
                              THEN [exits[c] EXCEPT ![Listed] = 0] ELSE exits[c]]
  /\ UNCHANGED <<is_running, clients, plugins, onlined, members, auths, ending, svc>>

\* A posted disconnect runs on whatever the pointer points to by now.
RunKick(k) ==
  /\ k \in kicks
  /\ client' = [client EXCEPT ![k.client] = Disconnect(@, k.code)]
  /\ kicks' = kicks \ {k}
  /\ UNCHANGED <<is_running, clients, plugins, onlined, members, exits, auths,
                 ending, svc>>

--------------------------------------------------------------------------
(* Sending, as far as destroying depends on it *)

Broadcast(p) ==
  /\ p \in onlined
  /\ client' = [c \in Slot |-> IF c \in MemberSlots(p)
                               THEN [client[c] EXCEPT !.sending = TRUE] ELSE client[c]]
  /\ UNCHANGED <<is_running, clients, plugins, onlined, members, exits, auths,
                 ending, kicks, svc>>

SendHandle(c) ==
  /\ client[c].sending
  /\ client' = [client EXCEPT ![c].sending = FALSE]
  /\ UNCHANGED <<is_running, clients, plugins, onlined, members, exits, auths,
                 ending, kicks, svc>>

--------------------------------------------------------------------------
(* The thread that owns the service: plugins come and go, stop *)

LoadPlugin(p) ==
  /\ svc.pc = "idle" /\ is_running
  /\ p \notin onlined /\ p \notin plugins
  /\ members[p] = NoMembers
  /\ plugins' = plugins \cup {p}
  /\ onlined' = onlined \cup {p}
  /\ UNCHANGED <<is_running, client, clients, members, exits, auths, ending,
                 kicks, svc>>

\* unload_plugin erases the plugin under plugins_mutex_ ...
UnloadPlugin(p) ==
  /\ svc.pc = "idle" /\ is_running
  /\ p \in plugins
  /\ plugins' = plugins \ {p}
  /\ svc' = [pc |-> "erased", plugin |-> p]
  /\ UNCHANGED <<is_running, client, clients, onlined, members, exits, auths,
                 ending, kicks>>

\* ... then game_plugin::unload posts a disconnect for every member ...
Unload(p) ==
  /\ svc.plugin = p
  /\ \/ svc.pc = "erased" /\ svc' = [svc EXCEPT !.pc = "unloading"]
     \/ svc.pc = "stop_plugins" /\ svc' = [svc EXCEPT !.pc = "stop_wait"]
  /\ onlined' = onlined \ {p}
  /\ IF p \in onlined THEN PostKicks(MemberSlots(p), "SERVER_CLOSEING")
                      ELSE UNCHANGED kicks
  /\ UNCHANGED <<is_running, client, clients, plugins, members, exits, auths, ending>>

\* ... and waits until all of them have left.
Unloaded(p) ==
  /\ svc.plugin = p
  /\ members[p] = NoMembers
  /\ \/ svc.pc = "unloading" /\ svc' = Idle
     \/ svc.pc = "stop_wait" /\ svc' = [pc |-> "stop_plugins", plugin |-> NULL]
  /\ UNCHANGED <<is_running, client, clients, plugins, onlined, members, exits,
                 auths, ending, kicks>>

Stop ==
  /\ CanStop /\ is_running /\ svc.pc = "idle"
  /\ is_running' = FALSE
  /\ svc' = [svc EXCEPT !.pc = "stop_clients"]
  /\ UNCHANGED <<client, clients, plugins, onlined, members, exits, auths, ending,
                 kicks>>

\* on_stop disconnects who has not logged in, then takes plugins_mutex_.
StopClients ==
  /\ svc.pc = "stop_clients"
  /\ client' = [c \in Slot |-> IF c \in clients
                  THEN Disconnect(client[c], "SERVER_CLOSEING") ELSE client[c]]
  /\ svc' = [svc EXCEPT !.pc = "stop_plugins"]
  /\ UNCHANGED <<is_running, clients, plugins, onlined, members, exits, auths,
                 ending, kicks>>

\* The loop of on_stop over plugin_list_: the next plugin, or its end.
StopPlugin(p) ==
  /\ svc.pc = "stop_plugins" /\ svc.plugin = NULL
  /\ p \in plugins \cap onlined
  /\ svc' = [svc EXCEPT !.plugin = p]
  /\ UNCHANGED <<is_running, client, clients, plugins, onlined, members, exits,
                 auths, ending, kicks>>

StopPluginsDone ==
  /\ svc.pc = "stop_plugins" /\ svc.plugin = NULL
  /\ plugins \cap onlined = {}
  /\ svc' = [svc EXCEPT !.pc = "joining"]
  /\ UNCHANGED <<is_running, client, clients, plugins, onlined, members, exits,
                 auths, ending, kicks>>

\* The worker threads return when no handler is pending.
NothingPending ==
  /\ auths = {} /\ ending = {} /\ kicks = {}
  /\ \A c \in Slot : /\ client[c].mem \in {"free", "connected"}
                     /\ ~client[c].reading /\ ~client[c].sending
                     /\ \A s \in Stage \ {Listed} : exits[c][s] = 0

\* stop() joins the workers; on_stoped destroys the list by force.
Stopped ==
  /\ svc.pc = "joining"
  /\ NothingPending
  /\ svc' = [svc EXCEPT !.pc = "stopped"]
  /\ client' = [c \in Slot |-> IF exits[c][Listed] > 0
                               THEN [client[c] EXCEPT !.mem = "free"] ELSE client[c]]
  /\ exits' = [c \in Slot |-> [exits[c] EXCEPT ![Listed] = 0]]
  /\ UNCHANGED <<is_running, clients, plugins, onlined, members, auths, ending, kicks>>

--------------------------------------------------------------------------
Init ==
  /\ is_running = TRUE
  /\ client = [c \in Slot |-> [NewClient(0) EXCEPT !.mem = "free"]]
  /\ clients = {}
  /\ plugins = Plugin /\ onlined = Plugin
  /\ members = [p \in Plugin |-> NoMembers]
  /\ exits = [c \in Slot |-> NoExit]
  /\ auths = {} /\ ending = {} /\ kicks = {}
  /\ svc = Idle

AcceptStep(c) == StartAccept(c) \/ AcceptHandle(c) \/ AcceptRefused(c)
                   \/ ClientConnected(c)

ReceiveStep(c) == \/ ReceiveFailed(c)
                  \/ \E code \in Code : CommandRefused(c, code)
                  \/ \E p \in Plugin, i \in Id : Login(c, p, i)

AuthStep == \/ \E a \in auths, ok \in BOOLEAN : AuthAnswer(a, ok)
            \/ \E e \in ending : AuthJoin(e) \/ AuthNotJoined(e) \/ AuthReject(e)

LeaveStep(c) ==
  \/ \E s \in Stage : ServiceLeave(c, s)
  \/ \E p \in Plugin : \/ \E s \in Stage : BeginUpdate(c, p, s) \/ RemoveClient(c, p, s)
                       \/ \E ok \in BOOLEAN : EndUpdate(c, p, ok)
                       \/ RetryUpdate(c, p)

OwnerStep == \/ \E p \in Plugin : \/ LoadPlugin(p) \/ UnloadPlugin(p) \/ Unload(p)
                                  \/ Unloaded(p) \/ StopPlugin(p)
             \/ Stop \/ StopClients \/ StopPluginsDone \/ Stopped

Next ==
  \/ \E c \in Slot : AcceptStep(c) \/ ReceiveStep(c) \/ LeaveStep(c) \/ SendHandle(c)
  \/ AuthStep
  \/ \E S \in SUBSET Slot : CheckTimeout(S)
  \/ \E k \in kicks : RunKick(k)
  \/ \E p \in Plugin : Broadcast(p)
  \/ OwnerStep

Spec == Init /\ [][Next]_vars

--------------------------------------------------------------------------
(* Safety *)

\* A connection always has exactly one pending continuation: the next receive
\* of its read chain or, once on_error was called, one handler that leads to
\* the destroy list.  An address that is not connected has none.  So a client
\* is never forgotten, never leaves twice and is never put on the destroy list
\* twice (a double free).
OneContinuation ==
  \A c \in Slot :
    IF Connected(c) /\ ~client[c].reading
    THEN \E s \in Stage : \A t \in Stage : exits[c][t] = IF t = s THEN 1 ELSE 0
    ELSE \A t \in Stage : exits[c][t] = 0

\* The assertion of game_client::on_error: a client whose read chain is alive,
\* and which may therefore fail at any moment, has a dispatcher to post the
\* bye to - also while its login is being answered by another thread.
ErrorFindsDispatcher ==
  \A c \in Slot : client[c].reading => client[c].dispatcher # NULL

UpdatesFor(c, p) == exits[c][<<"update", p>>] > 0 \/ exits[c][<<"retry", p>>] > 0
LeavingFor(c, p) == exits[c][<<"bye", p>>] > 0 \/ UpdatesFor(c, p)

\* The map of a plugin holds, under its name, every live client the plugin
\* dispatches to, and holds it until the last bye, offline update or retry
\* for it has run: what game_plugin erases by name is always the client that
\* leaves, never one of the same name that joined while it was leaving.
MembersKept ==
  \A c \in Slot, p \in Plugin :
    /\ Connected(c) /\ client[c].dispatcher = p => members[p][client[c].id] = c
    /\ LeavingFor(c, p) => members[p][client[c].id] = c
    /\ UpdatesFor(c, p) => client[c].dispatcher # p

\* Two clients dispatched to the same plugin never have the same name: the
\* check in on_befor_client_join against a repeated login, with the joins,
\* leaves and offline updates of all other threads in between.
UniqueLogin ==
  \A c, d \in Slot :
    /\ Connected(c) /\ Connected(d)
    /\ client[c].dispatcher = client[d].dispatcher
    /\ client[c].dispatcher \in Plugin
    /\ client[c].id = client[d].id
    => c = d

\* When unload_plugin has returned, and until the plugin is loaded again, the
\* plugin has no member, no client is dispatched to it, and no bye, offline
\* update or retry for it is pending: only a call of on_client_leave may still
\* be running.
UnloadedPluginIdle ==
  \A p \in Plugin : p \notin plugins /\ svc.plugin # p =>
    /\ members[p] = NoMembers
    /\ \A c \in Slot :
         /\ Connected(c) => client[c].dispatcher # p
         /\ \A s \in {"bye", "update", "retry"} \X {p} : exits[c][s] = 0

--------------------------------------------------------------------------
(* What a connection promises: ConnectionLifetime *)

PhaseOf(r, x) ==
  IF r.mem = "free" THEN "none"
  ELSE IF r.mem # "connected" THEN "accepted"
  ELSE IF r.reading THEN "open"
  ELSE IF x[Listed] > 0 THEN "listed" ELSE "leaving"

ReasonOf(r) == IF r.mem = "connected" THEN r.error_code ELSE "CLIENT_NET_ERROR"

phase == [c \in Slot |-> PhaseOf(client[c], exits[c])]
reason == [c \in Slot |-> ReasonOf(client[c])]

Lifetime == INSTANCE ConnectionLifetime WITH
              Connection <- Slot, Reason <- Code, NoReason <- "CLIENT_NET_ERROR"

\* Every step of the server is, for every address, a step of the life of one
\* connection or none: accepted, open, leaving, listed, destroyed, in this
\* order, and with one reason that a later disconnect does not overwrite.
ImplementsLifetime == Lifetime!Spec

--------------------------------------------------------------------------
(* Liveness *)

\* The io_service runs every handler that is ready and every expired timer;
\* the http servers answer or the request fails; an async_write completes.
\* A peer is assumed to react to nothing but the shutdown of its connection.
ShutdownSeen(c) == ~client[c].available /\ ReceiveFailed(c)

Fairness ==
  /\ \A c \in Slot :
       /\ WF_vars(AcceptHandle(c)) /\ WF_vars(AcceptRefused(c))
       /\ WF_vars(ClientConnected(c))
       /\ WF_vars(ShutdownSeen(c))
       /\ WF_vars(LeaveStep(c))
       /\ WF_vars(SendHandle(c))
  /\ WF_vars(AuthStep)
  /\ WF_vars(\E k \in kicks : RunKick(k))
  /\ WF_vars(CheckTimeout({}) /\ vars' # vars)
  /\ WF_vars(\E p \in Plugin : Unload(p) \/ Unloaded(p) \/ StopPlugin(p))
  /\ WF_vars(StopClients) /\ WF_vars(StopPluginsDone) /\ WF_vars(Stopped)

FairSpec == Spec /\ Fairness

\* p holds a pointer to c, but c neither is a live client of p nor leaves
\* through it.
\* This happens only to a client whose connection broke during its login: see
\* JoinsOnlyUnbroken below.
Orphan(p, c) ==
  /\ c \in MemberSlots(p)
  /\ ~(client[c].reading /\ client[c].dispatcher = p)
  /\ \A s \in {"bye", "update", "retry"} \X {p} : exits[c][s] = 0

\* A client that the server disconnected, or whose connection broke, is
\* destroyed after finitely many steps, through the bye of its dispatcher, the
\* offline updates with their retries and the destroy list - unless a plugin
\* holds it as an orphan and goes on sending to it.
LeaverDestroyed ==
  \A c \in Slot :
    Connected(c) /\ (~client[c].available \/ client[c].is_error)
      ~> client[c].mem = "free" \/ \E p \in Plugin : Orphan(p, c)

\* unload_plugin returns, whatever logins, leaves and updates it overtakes,
\* unless an orphan keeps the count of its members above zero for ever.
UnloadReturns ==
  \A p \in Plugin : svc.pc = "erased" /\ svc.plugin = p
                      ~> svc.pc = "idle" \/ \E c \in Slot : Orphan(p, c)

--------------------------------------------------------------------------
(* What comments of the code say and the code does not do *)

\* game_service.cpp:526, "check whether the client has already been
\* disconnected in the process": no client whose connection broke joins a
\* plugin.
JoinsOnlyUnbroken ==
  [][\A p \in Plugin, i \in LoginId :
       members'[p][i] # NULL /\ members[p][i] = NULL
         => ~client[members'[p][i]].is_error]_vars

\* game_service.cpp:518, "if the client is not found in clients_ return, the
\* client has been destroyed": the answer of a login whose client is destroyed
\* does not take another connection out of clients_.
StaleAnswerIgnored ==
  [][\A a \in auths :
       a \notin auths' /\ a.client \in clients /\ a.client \notin clients'
         => client[a.client].incarnation = a.incarnation]_vars

\* tcp_server.cpp:119: on_stop brings all events to a halt, so that joining the
\* workers returns.
StopReturns == svc.pc = "stop_clients" ~> svc.pc = "stopped"

==========================================================================
