---------------------- MODULE ClientLifecycle_proofs ----------------------
(* Proofs about ClientLifecycle, for any number of addresses, plugins, names
   and connections.                                                        *)
EXTENDS ClientLifecycle, TLAPS

--------------------------------------------------------------------------
(* Types *)

ClientType == client \in [Slot -> Client]
ExitsType == exits \in [Slot -> [Stage -> Nat]]
MembersType == members \in [Plugin -> [LoginId -> Slot \cup {NULL}]]
SvcType == svc \in [pc: {"idle", "erased", "unloading", "stop_clients", "stop_plugins",
                        "stop_wait", "joining", "stopped"},
                   plugin: Plugin \cup {NULL}]

\* The stages the actions name are stages.
LEMMA StageMembers ==
  /\ Listed \in Stage
  /\ <<"bye", SERVICE>> \in Stage
  /\ \A p \in Plugin : /\ <<"bye", p>> \in Stage /\ <<"update", p>> \in Stage
                       /\ <<"retry", p>> \in Stage /\ <<"left", p>> \in Stage
  BY DEF Stage, Listed, Dispatcher

\* What the constructors leave is a client.
LEMMA NewClientType ==
  ASSUME NEW n \in 0..MaxIncarnation PROVE NewClient(n) \in Client
  BY NumbersAssumption DEF Client, NewClient, LoginId, Code

\* Every assignment the handlers make to a client yields a client.
LEMMA ClientUpdates ==
  ASSUME NEW r \in Client
  PROVE  /\ \A m \in {"free", "accepting", "arriving", "connected"} :
              [r EXCEPT !.mem = m] \in Client
         /\ [r EXCEPT !.mem = "connected", !.available = TRUE,
                      !.dispatcher = SERVICE, !.reading = TRUE] \in Client
         /\ \A d \in Dispatcher \cup {NULL} : [r EXCEPT !.dispatcher = d] \in Client
         /\ \A b \in BOOLEAN : [r EXCEPT !.sending = b] \in Client
         /\ OnError(r) \in Client
         /\ \A code \in Code : Disconnect(r, code) \in Client
         /\ \A p \in Plugin, i \in Id : LoggingIn(r, p, i) \in Client
<1>1. ASSUME NEW m \in {"free", "accepting", "arriving", "connected"}
      PROVE  [r EXCEPT !.mem = m] \in Client
  BY DEF Client
<1>2. [r EXCEPT !.mem = "connected", !.available = TRUE,
                !.dispatcher = SERVICE, !.reading = TRUE] \in Client
  BY DEF Client, Dispatcher
<1>3. ASSUME NEW d \in Dispatcher \cup {NULL}
      PROVE  [r EXCEPT !.dispatcher = d] \in Client
  BY DEF Client
<1>4. ASSUME NEW b \in BOOLEAN PROVE [r EXCEPT !.sending = b] \in Client
  BY DEF Client
<1>5. OnError(r) \in Client
  BY DEF Client, OnError
<1>6. ASSUME NEW code \in Code PROVE Disconnect(r, code) \in Client
  <2>1. [r EXCEPT !.available = FALSE, !.error_code = code] \in Client
    BY DEF Client
  <2> QED
    BY <2>1 DEF Disconnect
<1>7. ASSUME NEW p \in Plugin, NEW i \in Id PROVE LoggingIn(r, p, i) \in Client
  <2>1. i \in LoginId
    BY DEF LoginId
  <2> QED
    BY <2>1 DEF Client, LoggingIn
<1> QED
  BY <1>1, <1>2, <1>3, <1>4, <1>5, <1>6, <1>7

\* So does the count of the tries.
LEMMA RetriesUpdate ==
  ASSUME NEW r \in Client, NEW n \in Int
  PROVE  [r EXCEPT !.retries = n] \in Client
  BY DEF Client

\* Moving a client from one stage to the next keeps the counts natural.
LEMMA MoveExitType ==
  ASSUME ExitsType, NEW c \in Slot, NEW s \in Stage, NEW t \in Stage,
         exits[c][s] > 0, MoveExit(c, s, t)
  PROVE  ExitsType'
<1>1. [exits[c] EXCEPT ![s] = @ - 1, ![t] = @ + 1] \in [Stage -> Nat]
  BY DEF ExitsType
<1> QED
  BY <1>1 DEF ExitsType, MoveExit

\* Posting a bye names an existing stage.
LEMMA PostByeType ==
  ASSUME ExitsType, ClientType, NEW c \in Slot, PostBye(c)
  PROVE  ExitsType'
<1>1. client[c].dispatcher # NULL => <<"bye", client[c].dispatcher>> \in Stage
  BY StageMembers DEF ClientType, Client, Dispatcher
<1> QED
  BY <1>1 DEF ExitsType, PostBye

\* The initial state has the declared types.
LEMMA InitType == Init => TypeOK
<1> SUFFICES ASSUME Init PROVE TypeOK
  OBVIOUS
<1>1. ClientType
  <2>1. NewClient(0) \in Client
    BY NewClientType, NumbersAssumption
  <2>2. [NewClient(0) EXCEPT !.mem = "free"] \in Client
    BY <2>1, ClientUpdates
  <2> QED
    BY <2>2 DEF Init, ClientType
<1> QED
  BY <1>1 DEF Init, TypeOK, ClientType, NoMembers, NoExit, Idle

\* Every step keeps the declared types.
LEMMA TypeStep ==
  ASSUME TypeOK, [Next]_vars PROVE TypeOK'
<1>a. ClientType /\ ExitsType
  BY DEF TypeOK, ClientType, ExitsType
<1>b. /\ auths \subseteq AuthRequest /\ ending \subseteq AuthEnd
      /\ kicks \subseteq Posted
  BY DEF TypeOK
<1>1. ASSUME NEW c \in Slot, StartAccept(c) PROVE TypeOK'
  <2>1. ClientType'
    <3>1. client[c].incarnation + 1 \in 0..MaxIncarnation
      BY <1>a, <1>1, NumbersAssumption DEF ClientType, Client, StartAccept
    <3> QED
      BY <1>a, <1>1, <3>1, NewClientType DEF ClientType, StartAccept
  <2> QED
    BY <1>1, <2>1 DEF TypeOK, ClientType, ExitsType, StartAccept
<1>2. ASSUME NEW c \in Slot, AcceptHandle(c) PROVE TypeOK'
  <2>1. ClientType'
    BY <1>a, <1>b, <1>2, ClientUpdates DEF ClientType, AcceptHandle
  <2> QED
    BY <1>2, <2>1 DEF TypeOK, ClientType, ExitsType, AcceptHandle
<1>3. ASSUME NEW c \in Slot, AcceptRefused(c) PROVE TypeOK'
  <2>1. ClientType'
    BY <1>a, <1>b, <1>3, ClientUpdates DEF ClientType, AcceptRefused
  <2> QED
    BY <1>3, <2>1 DEF TypeOK, ClientType, ExitsType, AcceptRefused
<1>4. ASSUME NEW c \in Slot, ClientConnected(c) PROVE TypeOK'
  <2>1. ClientType'
    BY <1>a, <1>b, <1>4, ClientUpdates DEF ClientType, ClientConnected
  <2> QED
    BY <1>4, <2>1 DEF TypeOK, ClientType, ExitsType, ClientConnected
<1>5. ASSUME NEW c \in Slot, ReceiveFailed(c) PROVE TypeOK'
  <2>1. ClientType'
    BY <1>a, <1>b, <1>5, ClientUpdates DEF ClientType, ReceiveFailed
  <2>2. ExitsType'
    BY <1>a, <1>5, PostByeType DEF ReceiveFailed
  <2> QED
    BY <1>5, <2>1, <2>2 DEF TypeOK, ClientType, ExitsType, ReceiveFailed
<1>6. ASSUME NEW c \in Slot, NEW code \in Code, CommandRefused(c, code)
      PROVE  TypeOK'
  <2>1. ClientType'
    BY <1>a, <1>b, <1>6, ClientUpdates DEF ClientType, CommandRefused
  <2>2. ExitsType'
    BY <1>a, <1>6, PostByeType DEF CommandRefused
  <2> QED
    BY <1>6, <2>1, <2>2 DEF TypeOK, ClientType, ExitsType, CommandRefused
<1>7. ASSUME NEW c \in Slot, NEW p \in Plugin, NEW i \in Id, Login(c, p, i)
      PROVE  TypeOK'
  <2>1. ClientType'
    <3>1. LoggingIn(client[c], p, i) \in Client
      BY <1>a, ClientUpdates DEF ClientType
    <3>2. OnError(Disconnect(LoggingIn(client[c], p, i), "LOGIN_CONCURENCY_LIMIT")) \in Client
      BY <3>1, ClientUpdates DEF Code
    <3> QED
      BY <1>a, <1>7, <3>1, <3>2 DEF ClientType, Login
  <2>2. ExitsType'
    BY <1>a, <1>7, PostByeType DEF Login, ExitsType
  <2>3. auths' \subseteq AuthRequest
    <3>1. LoggingIn(client[c], p, i).incarnation \in 0..MaxIncarnation
      BY <1>a DEF ClientType, Client, LoggingIn
    <3> QED
      BY <1>b, <1>7, <3>1 DEF Login, AuthRequest
  <2> QED
    BY <1>7, <2>1, <2>2, <2>3 DEF TypeOK, ClientType, ExitsType, Login
<1>8. ASSUME NEW a \in auths, NEW ok \in BOOLEAN, AuthAnswer(a, ok)
      PROVE  TypeOK'
  BY <1>8
     DEF TypeOK, ClientType, ExitsType, AuthAnswer, AuthRequest, AuthEnd, Code
<1>9. ASSUME NEW e \in ending, AuthJoin(e) PROVE TypeOK'
  <2>1. ClientType'
    BY <1>a, <1>b, <1>9, ClientUpdates
       DEF ClientType, AuthJoin, Dispatcher, AuthEnd
  <2> QED
    BY <1>9, <2>1 DEF TypeOK, ClientType, ExitsType, AuthJoin, AuthEnd
<1>10. ASSUME NEW e \in ending, AuthNotJoined(e) PROVE TypeOK'
  BY <1>10
     DEF TypeOK, ClientType, ExitsType, AuthNotJoined, AuthEnd, AuthRefusal,
         JoinRefusal, Code
<1>11. ASSUME NEW e \in ending, AuthReject(e) PROVE TypeOK'
  <2>1. ClientType'
    BY <1>a, <1>b, <1>11, ClientUpdates DEF ClientType, AuthReject, AuthEnd
  <2> QED
    BY <1>11, <2>1 DEF TypeOK, ClientType, ExitsType, AuthReject
<1>12. ASSUME NEW c \in Slot, NEW s \in Stage, ServiceLeave(c, s) PROVE TypeOK'
  <2>1. ClientType'
    BY <1>a, <1>b, <1>12, ClientUpdates DEF ClientType, ServiceLeave
  <2>2. ExitsType'
    BY <1>a, <1>12, StageMembers, MoveExitType DEF ServiceLeave
  <2> QED
    BY <1>12, <2>1, <2>2 DEF TypeOK, ClientType, ExitsType, ServiceLeave
<1>13. ASSUME NEW c \in Slot, NEW p \in Plugin, NEW s \in Stage, BeginUpdate(c, p, s)
       PROVE  TypeOK'
  <2>1. ClientType'
    BY <1>a, <1>b, <1>13, ClientUpdates DEF ClientType, BeginUpdate
  <2>2. ExitsType'
    BY <1>a, <1>13, StageMembers, MoveExitType DEF BeginUpdate
  <2> QED
    BY <1>13, <2>1, <2>2 DEF TypeOK, ClientType, ExitsType, BeginUpdate
<1>14. ASSUME NEW c \in Slot, NEW p \in Plugin, NEW s \in Stage, RemoveClient(c, p, s)
       PROVE  TypeOK'
  <2>1. ClientType'
    BY <1>a, <1>b, <1>14, ClientUpdates DEF ClientType, RemoveClient
  <2>2. ExitsType'
    BY <1>a, <1>14, StageMembers, MoveExitType DEF RemoveClient
  <2> QED
    BY <1>14, <2>1, <2>2 DEF TypeOK, ClientType, ExitsType, RemoveClient
<1>15. ASSUME NEW c \in Slot, NEW p \in Plugin, NEW ok \in BOOLEAN, EndUpdate(c, p, ok)
       PROVE  TypeOK'
  <2>1. ClientType'
    <3>1. client[c].retries \in Int
      BY <1>a DEF ClientType, Client
    <3>2. [client[c] EXCEPT !.retries = IF ok THEN client[c].retries ELSE client[c].retries - 1] \in Client
      BY <1>a, <3>1, RetriesUpdate DEF ClientType
    <3> QED
      BY <1>a, <1>15, <3>2 DEF ClientType, EndUpdate
  <2>2. ExitsType'
    BY <1>a, <1>15, StageMembers, MoveExitType DEF EndUpdate
  <2> QED
    BY <1>15, <2>1, <2>2 DEF TypeOK, ClientType, ExitsType, EndUpdate
<1>16. ASSUME NEW c \in Slot, NEW p \in Plugin, RetryUpdate(c, p) PROVE TypeOK'
  <2>1. ClientType'
    <3>1. client[c].retries \in Int
      BY <1>a DEF ClientType, Client
    <3>2. [client[c] EXCEPT !.retries = client[c].retries - 1] \in Client
      BY <1>a, <3>1, RetriesUpdate DEF ClientType
    <3> QED
      BY <1>a, <1>16, <3>2 DEF ClientType, RetryUpdate
  <2>2. ExitsType'
    BY <1>a, <1>16, StageMembers, MoveExitType DEF RetryUpdate
  <2> QED
    BY <1>16, <2>1, <2>2 DEF TypeOK, ClientType, ExitsType, RetryUpdate
<1>17. ASSUME NEW S \in SUBSET Slot, CheckTimeout(S) PROVE TypeOK'
  <2>1. ClientType'
    BY <1>a, <1>b, <1>17, ClientUpdates DEF ClientType, CheckTimeout
  <2>2. ExitsType'
    BY <1>a, <1>17, StageMembers DEF CheckTimeout, ExitsType
  <2> QED
    BY <1>17, <2>1, <2>2
       DEF TypeOK, ClientType, ExitsType, CheckTimeout, PostKicks, Posted,
           Client, Code
<1>18. ASSUME NEW k \in kicks, RunKick(k) PROVE TypeOK'
  <2>1. ClientType'
    BY <1>a, <1>b, <1>18, ClientUpdates DEF ClientType, RunKick, Posted
  <2> QED
    BY <1>18, <2>1 DEF TypeOK, ClientType, ExitsType, RunKick
<1>19. ASSUME NEW p \in Plugin, Broadcast(p) PROVE TypeOK'
  <2>1. ClientType'
    BY <1>a, <1>b, <1>19, ClientUpdates DEF ClientType, Broadcast
  <2> QED
    BY <1>19, <2>1 DEF TypeOK, ClientType, ExitsType, Broadcast
<1>20. ASSUME NEW c \in Slot, SendHandle(c) PROVE TypeOK'
  <2>1. ClientType'
    BY <1>a, <1>b, <1>20, ClientUpdates DEF ClientType, SendHandle
  <2> QED
    BY <1>20, <2>1 DEF TypeOK, ClientType, ExitsType, SendHandle
<1>21. ASSUME NEW p \in Plugin, LoadPlugin(p) PROVE TypeOK'
  BY <1>21 DEF TypeOK, ClientType, ExitsType, LoadPlugin
<1>22. ASSUME NEW p \in Plugin, UnloadPlugin(p) PROVE TypeOK'
  BY <1>22 DEF TypeOK, ClientType, ExitsType, UnloadPlugin
<1>23. ASSUME NEW p \in Plugin, Unload(p) PROVE TypeOK'
  BY <1>23
     DEF TypeOK, ClientType, ExitsType, Unload, PostKicks, MemberSlots, Posted,
         Client, Code
<1>24. ASSUME NEW p \in Plugin, Unloaded(p) PROVE TypeOK'
  BY <1>24 DEF TypeOK, ClientType, ExitsType, Unloaded, Idle
<1>25. ASSUME Stop PROVE TypeOK'
  BY <1>25 DEF TypeOK, ClientType, ExitsType, Stop
<1>26. ASSUME StopClients PROVE TypeOK'
  <2>1. ClientType'
    BY <1>a, <1>b, <1>26, ClientUpdates DEF ClientType, StopClients, Code
  <2> QED
    BY <1>26, <2>1 DEF TypeOK, ClientType, ExitsType, StopClients
<1>27. ASSUME NEW p \in Plugin, StopPlugin(p) PROVE TypeOK'
  BY <1>27 DEF TypeOK, ClientType, ExitsType, StopPlugin
<1>28. ASSUME StopPluginsDone PROVE TypeOK'
  BY <1>28 DEF TypeOK, ClientType, ExitsType, StopPluginsDone
<1>29. ASSUME Stopped PROVE TypeOK'
  <2>1. ClientType'
    BY <1>a, <1>b, <1>29, ClientUpdates DEF ClientType, Stopped
  <2>2. ExitsType'
    BY <1>a, <1>29, StageMembers DEF Stopped, ExitsType
  <2> QED
    BY <1>29, <2>1, <2>2 DEF TypeOK, ClientType, ExitsType, Stopped
<1>30. CASE UNCHANGED vars
  BY <1>30 DEF vars, TypeOK
<1> QED
  BY <1>1, <1>2, <1>3, <1>4, <1>5, <1>6, <1>7, <1>8, <1>9, <1>10, <1>11, <1>12,
     <1>13, <1>14, <1>15, <1>16, <1>17, <1>18, <1>19, <1>20, <1>21, <1>22,
     <1>23, <1>24, <1>25, <1>26, <1>27, <1>28, <1>29, <1>30
     DEF Next, AcceptStep, ReceiveStep, AuthStep, LeaveStep, OwnerStep

\* Every variable keeps its type: in particular the reason of a disconnect is
\* always an error code, and no handler runs that was not posted.
THEOREM TypeCorrect == Spec => []TypeOK
<1>1. Init => TypeOK
  BY InitType
<1>2. TypeOK /\ [Next]_vars => TypeOK'
  BY TypeStep
<1> QED
  BY <1>1, <1>2, PTL DEF Spec

--------------------------------------------------------------------------
(* Groups of steps *)

\* The steps that touch no client, no member and no pending leave.
QuietStep ==
  \/ \E a \in auths, ok \in BOOLEAN : AuthAnswer(a, ok)
  \/ \E e \in ending : AuthNotJoined(e)
  \/ \E p \in Plugin : LoadPlugin(p) \/ UnloadPlugin(p) \/ Unload(p) \/ Unloaded(p)
                        \/ StopPlugin(p)
  \/ Stop \/ StopPluginsDone \/ UNCHANGED vars

\* They do not.
LEMMA QuietUnchanged == QuietStep => UNCHANGED <<client, exits, members>>
  BY DEF QuietStep, AuthAnswer, AuthNotJoined, LoadPlugin, UnloadPlugin, Unload,
         Unloaded, StopPlugin, Stop, StopPluginsDone, vars

\* The steps that touch neither the plugins, nor their members, nor their owner.
ServerStep ==
  \/ \E c \in Slot : \/ AcceptStep(c) \/ ReceiveStep(c) \/ SendHandle(c)
                     \/ \E s \in Stage : ServiceLeave(c, s)
                     \/ \E p \in Plugin : \/ \E s \in Stage : BeginUpdate(c, p, s)
                                          \/ RetryUpdate(c, p)
  \/ \E a \in auths, ok \in BOOLEAN : AuthAnswer(a, ok)
  \/ \E e \in ending : AuthNotJoined(e) \/ AuthReject(e)
  \/ \E S \in SUBSET Slot : CheckTimeout(S)
  \/ \E k \in kicks : RunKick(k)
  \/ \E p \in Plugin : Broadcast(p)
  \/ UNCHANGED vars

\* They do not.
LEMMA ServerUnchanged == ServerStep => UNCHANGED <<plugins, members, svc>>
  BY ZenonT(40) DEF ServerStep, AcceptStep, StartAccept, AcceptHandle, AcceptRefused,
         ClientConnected, ReceiveStep, ReceiveFailed, CommandRefused, Login,
         SendHandle, ServiceLeave, BeginUpdate, RetryUpdate, AuthAnswer,
         AuthNotJoined, AuthReject, CheckTimeout, RunKick, Broadcast, vars

--------------------------------------------------------------------------
(* One continuation, and a dispatcher for it *)

\* What the read chain leaves in a client: it runs until is_error is set, and
\* before it starts nothing has been said about why the client ends.
ReadState ==
  \A c \in Slot :
    /\ client[c].reading => Connected(c) /\ ~client[c].is_error
    /\ Connected(c) /\ ~client[c].reading => client[c].is_error
    /\ client[c].mem \in {"accepting", "arriving"} =>
         ~client[c].is_error /\ ~client[c].available
    /\ client[c].mem \in {"accepting", "arriving"} \/ (Connected(c) /\ client[c].available) =>
         client[c].error_code = "CLIENT_NET_ERROR"

\* Every step keeps ReadState; only a client on the destroy list is freed.
LEMMA ReadStateStep ==
  ASSUME ClientType, ExitsType, ReadState, OneContinuation, [Next]_vars
  PROVE  ReadState'
<1>1. ASSUME NEW c \in Slot, StartAccept(c) PROVE ReadState'
  BY <1>1 DEF ReadState, Connected, ClientType, Client, StartAccept, NewClient
<1>2. ASSUME NEW c \in Slot, AcceptHandle(c) PROVE ReadState'
  BY <1>2 DEF ReadState, Connected, ClientType, Client, AcceptHandle
<1>3. ASSUME NEW c \in Slot, AcceptRefused(c) PROVE ReadState'
  BY <1>3 DEF ReadState, Connected, ClientType, Client, AcceptRefused
<1>4. ASSUME NEW c \in Slot, ClientConnected(c) PROVE ReadState'
  BY <1>4 DEF ReadState, Connected, ClientType, Client, ClientConnected
<1>5. ASSUME NEW c \in Slot, ReceiveFailed(c) PROVE ReadState'
  BY <1>5 DEF ReadState, Connected, ClientType, Client, ReceiveFailed, OnError
<1>6. ASSUME NEW c \in Slot, NEW code \in Code, CommandRefused(c, code)
      PROVE  ReadState'
  BY <1>6
     DEF ReadState, Connected, ClientType, Client, CommandRefused, OnError,
         Disconnect
<1>7. ASSUME NEW c \in Slot, NEW p \in Plugin, NEW i \in Id, Login(c, p, i)
      PROVE  ReadState'
  <2>1. CASE RequestBlockFree
    <3>1. client' = [client EXCEPT ![c] = LoggingIn(client[c], p, i)]
      BY <1>7, <2>1 DEF Login
    <3> QED
      BY <3>1 DEF ReadState, Connected, ClientType, Client, LoggingIn
  <2>2. CASE ~RequestBlockFree
    <3>1. /\ client[c].reading
          /\ client' = [client EXCEPT ![c] =
               OnError(Disconnect(LoggingIn(client[c], p, i), "LOGIN_CONCURENCY_LIMIT"))]
      BY <1>7, <2>2 DEF Login
    <3> QED
      BY <3>1
         DEF ReadState, Connected, ClientType, Client, LoggingIn, OnError,
             Disconnect
  <2> QED
    BY <2>1, <2>2
<1>8. ASSUME NEW e \in ending, AuthJoin(e) PROVE ReadState'
  <2>1. client' = [client EXCEPT ![e.client].dispatcher = e.plugin]
    BY <1>8 DEF AuthJoin
  <2>2. \A d \in Slot : /\ client'[d].mem = client[d].mem
                        /\ client'[d].reading = client[d].reading
                        /\ client'[d].is_error = client[d].is_error
                        /\ client'[d].available = client[d].available
                        /\ client'[d].error_code = client[d].error_code
    BY <2>1 DEF ClientType, Client
  <2> QED
    BY <2>2 DEF ReadState, Connected
<1>9. ASSUME NEW e \in ending, AuthReject(e) PROVE ReadState'
  BY <1>9 DEF ReadState, Connected, ClientType, Client, AuthReject, Disconnect
<1>10. ASSUME NEW c \in Slot, NEW s \in Stage, ServiceLeave(c, s)
       PROVE  ReadState'
  BY <1>10 DEF ReadState, Connected, ClientType, Client, ServiceLeave
<1>11. ASSUME NEW c \in Slot, NEW p \in Plugin, NEW s \in Stage, BeginUpdate(c, p, s)
       PROVE  ReadState'
  BY <1>11 DEF ReadState, Connected, ClientType, Client, BeginUpdate
<1>12. ASSUME NEW c \in Slot, NEW p \in Plugin, NEW s \in Stage, RemoveClient(c, p, s)
       PROVE  ReadState'
  BY <1>12 DEF ReadState, Connected, ClientType, Client, RemoveClient
<1>13. ASSUME NEW c \in Slot, NEW p \in Plugin, NEW ok \in BOOLEAN, EndUpdate(c, p, ok)
       PROVE  ReadState'
  BY <1>13 DEF ReadState, Connected, ClientType, Client, EndUpdate
<1>14. ASSUME NEW c \in Slot, NEW p \in Plugin, RetryUpdate(c, p)
       PROVE  ReadState'
  BY <1>14 DEF ReadState, Connected, ClientType, Client, RetryUpdate
<1>15. ASSUME NEW S \in SUBSET Slot, CheckTimeout(S) PROVE ReadState'
  BY <1>15, StageMembers
     DEF ReadState, Connected, ClientType, Client, CheckTimeout, Destroyable,
         OneContinuation, ExitsType
<1>16. ASSUME NEW k \in kicks, RunKick(k) PROVE ReadState'
  BY <1>16 DEF ReadState, Connected, ClientType, Client, RunKick, Disconnect
<1>17. ASSUME NEW p \in Plugin, Broadcast(p) PROVE ReadState'
  BY <1>17 DEF ReadState, Connected, ClientType, Client, Broadcast
<1>18. ASSUME NEW c \in Slot, SendHandle(c) PROVE ReadState'
  BY <1>18 DEF ReadState, Connected, ClientType, Client, SendHandle
<1>19. ASSUME StopClients PROVE ReadState'
  BY <1>19, ZenonT(40) DEF ReadState, Connected, ClientType, Client, StopClients, Disconnect
<1>20. ASSUME Stopped PROVE ReadState'
  BY <1>20, StageMembers
     DEF ReadState, Connected, ClientType, Client, Stopped, OneContinuation,
         ExitsType
<1>21. CASE QuietStep
  BY <1>21, QuietUnchanged DEF ReadState, Connected
<1> QED
  BY <1>1, <1>2, <1>3, <1>4, <1>5, <1>6, <1>7, <1>8, <1>9, <1>10, <1>11, <1>12,
     <1>13, <1>14, <1>15, <1>16, <1>17, <1>18, <1>19, <1>20, <1>21
     DEF Next, AcceptStep, ReceiveStep, AuthStep, LeaveStep, OwnerStep, QuietStep

\* Every step keeps ErrorFindsDispatcher: who sets the dispatcher to NULL does so
\* for a leaving client, whose read chain has ended.
LEMMA ErrorStep ==
  ASSUME ClientType, ExitsType, OneContinuation, ErrorFindsDispatcher,
         DistinctValues, ending \subseteq AuthEnd, [Next]_vars
  PROVE  ErrorFindsDispatcher'
<1>1. ASSUME NEW c \in Slot, StartAccept(c) PROVE ErrorFindsDispatcher'
  BY <1>1 DEF ErrorFindsDispatcher, ClientType, Client, StartAccept, NewClient
<1>2. ASSUME NEW c \in Slot, AcceptHandle(c) PROVE ErrorFindsDispatcher'
  BY <1>2 DEF ErrorFindsDispatcher, ClientType, Client, AcceptHandle
<1>3. ASSUME NEW c \in Slot, AcceptRefused(c) PROVE ErrorFindsDispatcher'
  BY <1>3 DEF ErrorFindsDispatcher, ClientType, Client, AcceptRefused
<1>4. ASSUME NEW c \in Slot, ClientConnected(c) PROVE ErrorFindsDispatcher'
  BY <1>4, DistinctValues
     DEF ErrorFindsDispatcher, ClientType, Client, ClientConnected
<1>5. ASSUME NEW c \in Slot, ReceiveFailed(c) PROVE ErrorFindsDispatcher'
  BY <1>5 DEF ErrorFindsDispatcher, ClientType, Client, ReceiveFailed, OnError
<1>6. ASSUME NEW c \in Slot, NEW code \in Code, CommandRefused(c, code)
      PROVE  ErrorFindsDispatcher'
  BY <1>6
     DEF ErrorFindsDispatcher, ClientType, Client, CommandRefused, OnError,
         Disconnect
<1>7. ASSUME NEW c \in Slot, NEW p \in Plugin, NEW i \in Id, Login(c, p, i)
      PROVE  ErrorFindsDispatcher'
  <2>1. CASE RequestBlockFree
    <3>1. client' = [client EXCEPT ![c] = LoggingIn(client[c], p, i)]
      BY <1>7, <2>1 DEF Login
    <3> QED
      BY <3>1 DEF ErrorFindsDispatcher, ClientType, Client, LoggingIn
  <2>2. CASE ~RequestBlockFree
    <3>1. /\ client[c].reading
          /\ client' = [client EXCEPT ![c] =
               OnError(Disconnect(LoggingIn(client[c], p, i), "LOGIN_CONCURENCY_LIMIT"))]
      BY <1>7, <2>2 DEF Login
    <3> QED
      BY <3>1
         DEF ErrorFindsDispatcher, ClientType, Client, LoggingIn, OnError,
             Disconnect
  <2> QED
    BY <2>1, <2>2
<1>8. ASSUME NEW e \in ending, AuthJoin(e) PROVE ErrorFindsDispatcher'
  BY <1>8, DistinctValues, ZenonT(40)
     DEF ErrorFindsDispatcher, ClientType, Client, AuthJoin, AuthEnd
<1>9. ASSUME NEW e \in ending, AuthReject(e) PROVE ErrorFindsDispatcher'
  BY <1>9 DEF ErrorFindsDispatcher, ClientType, Client, AuthReject, Disconnect
<1>10. ASSUME NEW c \in Slot, NEW s \in Stage, ServiceLeave(c, s)
       PROVE  ErrorFindsDispatcher'
  BY <1>10
     DEF ErrorFindsDispatcher, ClientType, Client, ServiceLeave,
         OneContinuation, ExitsType
<1>11. ASSUME NEW c \in Slot, NEW p \in Plugin, NEW s \in Stage, BeginUpdate(c, p, s)
       PROVE  ErrorFindsDispatcher'
  BY <1>11
     DEF ErrorFindsDispatcher, ClientType, Client, BeginUpdate, OneContinuation,
         ExitsType
<1>12. ASSUME NEW c \in Slot, NEW p \in Plugin, NEW s \in Stage, RemoveClient(c, p, s)
       PROVE  ErrorFindsDispatcher'
  BY <1>12
     DEF ErrorFindsDispatcher, ClientType, Client, RemoveClient,
         OneContinuation, ExitsType
<1>13. ASSUME NEW c \in Slot, NEW p \in Plugin, NEW ok \in BOOLEAN, EndUpdate(c, p, ok)
       PROVE  ErrorFindsDispatcher'
  BY <1>13 DEF ErrorFindsDispatcher, ClientType, Client, EndUpdate
<1>14. ASSUME NEW c \in Slot, NEW p \in Plugin, RetryUpdate(c, p)
       PROVE  ErrorFindsDispatcher'
  BY <1>14 DEF ErrorFindsDispatcher, ClientType, Client, RetryUpdate
<1>15. ASSUME NEW S \in SUBSET Slot, CheckTimeout(S) PROVE ErrorFindsDispatcher'
  BY <1>15
     DEF ErrorFindsDispatcher, ClientType, Client, CheckTimeout, Destroyable
<1>16. ASSUME NEW k \in kicks, RunKick(k) PROVE ErrorFindsDispatcher'
  BY <1>16 DEF ErrorFindsDispatcher, ClientType, Client, RunKick, Disconnect
<1>17. ASSUME NEW p \in Plugin, Broadcast(p) PROVE ErrorFindsDispatcher'
  BY <1>17 DEF ErrorFindsDispatcher, ClientType, Client, Broadcast
<1>18. ASSUME NEW c \in Slot, SendHandle(c) PROVE ErrorFindsDispatcher'
  BY <1>18 DEF ErrorFindsDispatcher, ClientType, Client, SendHandle
<1>19. ASSUME StopClients PROVE ErrorFindsDispatcher'
  BY <1>19 DEF ErrorFindsDispatcher, ClientType, Client, StopClients, Disconnect
<1>20. ASSUME Stopped PROVE ErrorFindsDispatcher'
  BY <1>20 DEF ErrorFindsDispatcher, ClientType, Client, Stopped
<1>21. CASE QuietStep
  BY <1>21, QuietUnchanged DEF ErrorFindsDispatcher
<1> QED
  BY <1>1, <1>2, <1>3, <1>4, <1>5, <1>6, <1>7, <1>8, <1>9, <1>10, <1>11, <1>12,
     <1>13, <1>14, <1>15, <1>16, <1>17, <1>18, <1>19, <1>20, <1>21
     DEF Next, AcceptStep, ReceiveStep, AuthStep, LeaveStep, OwnerStep, QuietStep

\* A read chain that ends leaves exactly one handler pending, the bye.
LEMMA PostByeContinues ==
  ASSUME ClientType, ExitsType, ReadState, OneContinuation,
         ErrorFindsDispatcher,
         NEW c \in Slot, client[c].reading, PostBye(c)
  PROVE  /\ \E s \in Stage : \A t \in Stage : exits'[c][t] = IF t = s THEN 1 ELSE 0
         /\ \A d \in Slot \ {c} : exits'[d] = exits[d]
<1> DEFINE b == <<"bye", client[c].dispatcher>>
<1>1. ~client[c].is_error /\ client[c].dispatcher # NULL
  BY DEF ReadState, ErrorFindsDispatcher
<1>2. b \in Stage
  BY <1>1 DEF ClientType, Client, Stage, Dispatcher
<1>3. \A t \in Stage : exits[c][t] = 0
  BY DEF OneContinuation
<1>4. exits' = [exits EXCEPT ![c][b] = @ + 1]
  BY <1>1 DEF PostBye
<1>5. \A t \in Stage : exits'[c][t] = IF t = b THEN 1 ELSE 0
  BY <1>2, <1>3, <1>4 DEF ExitsType
<1> QED
  BY <1>2, <1>4, <1>5 DEF ExitsType

\* A handler that leads a client out leaves exactly one behind, too.
LEMMA MoveExitContinues ==
  ASSUME ExitsType, OneContinuation, NEW c \in Slot, NEW s \in Stage, NEW t \in
         Stage,
         exits[c][s] > 0, MoveExit(c, s, t),
         \A d \in Slot : client'[d].mem = client[d].mem /\ client'[d].reading = client[d].reading
  PROVE  OneContinuation'
<1>1. Connected(c) /\ ~client[c].reading
  BY DEF OneContinuation
<1>2. \A u \in Stage : exits[c][u] = IF u = s THEN 1 ELSE 0
  BY <1>1 DEF OneContinuation
<1>3. \A u \in Stage : exits'[c][u] = IF u = t THEN 1 ELSE 0
  BY <1>2 DEF MoveExit, ExitsType
<1>4. \A d \in Slot \ {c} : exits'[d] = exits[d]
  BY DEF MoveExit, ExitsType
<1> QED
  BY <1>1, <1>3, <1>4 DEF OneContinuation, Connected

\* Every step keeps OneContinuation.
LEMMA ContinuationStep ==
  ASSUME ClientType, ExitsType, ReadState, OneContinuation,
         ErrorFindsDispatcher, [Next]_vars
  PROVE  OneContinuation'
<1>1. ASSUME NEW c \in Slot, StartAccept(c) PROVE OneContinuation'
  BY <1>1
     DEF OneContinuation, Connected, ClientType, Client, StartAccept, NewClient,
         ReadState
<1>2. ASSUME NEW c \in Slot, AcceptHandle(c) PROVE OneContinuation'
  BY <1>2 DEF OneContinuation, Connected, ClientType, Client, AcceptHandle
<1>3. ASSUME NEW c \in Slot, AcceptRefused(c) PROVE OneContinuation'
  BY <1>3 DEF OneContinuation, Connected, ClientType, Client, AcceptRefused
<1>4. ASSUME NEW c \in Slot, ClientConnected(c) PROVE OneContinuation'
  BY <1>4
     DEF OneContinuation, Connected, ClientType, Client, ClientConnected,
         ReadState
<1>5. ASSUME NEW c \in Slot, ReceiveFailed(c) PROVE OneContinuation'
  <2>1. client[c].reading /\ PostBye(c)
    BY <1>5 DEF ReceiveFailed
  <2> QED
    BY <1>5, <2>1, PostByeContinues
       DEF OneContinuation, Connected, ClientType, Client, ReadState,
           ReceiveFailed, OnError
<1>6. ASSUME NEW c \in Slot, NEW code \in Code, CommandRefused(c, code)
      PROVE  OneContinuation'
  <2>1. client[c].reading /\ PostBye(c)
    BY <1>6 DEF CommandRefused
  <2> QED
    BY <1>6, <2>1, PostByeContinues
       DEF OneContinuation, Connected, ClientType, Client, ReadState,
           CommandRefused, OnError, Disconnect
<1>7. ASSUME NEW c \in Slot, NEW p \in Plugin, NEW i \in Id, Login(c, p, i)
      PROVE  OneContinuation'
  <2>1. CASE RequestBlockFree
    <3>1. /\ client' = [client EXCEPT ![c] = LoggingIn(client[c], p, i)]
          /\ UNCHANGED exits
      BY <1>7, <2>1 DEF Login
    <3> QED
      BY <3>1 DEF OneContinuation, Connected, ClientType, Client, LoggingIn
  <2>2. CASE ~RequestBlockFree
    <3>1. /\ client[c].reading /\ PostBye(c)
          /\ client' = [client EXCEPT ![c] =
                       OnError(Disconnect(LoggingIn(client[c], p, i), "LOGIN_CONCURENCY_LIMIT"))]
      BY <1>7, <2>2 DEF Login
    <3> QED
      BY <3>1, PostByeContinues
         DEF OneContinuation, Connected, ClientType, Client, ReadState,
             LoggingIn, OnError, Disconnect
  <2> QED
    BY <2>1, <2>2
<1>8. ASSUME NEW e \in ending, AuthJoin(e) PROVE OneContinuation'
  <2>1. \A d \in Slot : client'[d].mem = client[d].mem /\ client'[d].reading = client[d].reading
    BY <1>8, ZenonT(40) DEF AuthJoin, ClientType, Client
  <2>2. UNCHANGED exits
    BY <1>8 DEF AuthJoin
  <2> QED
    BY <2>1, <2>2 DEF OneContinuation, Connected
<1>9. ASSUME NEW e \in ending, AuthReject(e) PROVE OneContinuation'
  BY <1>9
     DEF OneContinuation, Connected, ClientType, Client, AuthReject, Disconnect
<1>10. ASSUME NEW c \in Slot, NEW s \in Stage, ServiceLeave(c, s)
       PROVE  OneContinuation'
  <2>1. /\ s \in Stage /\ Listed \in Stage
        /\ exits[c][s] > 0 /\ MoveExit(c, s, Listed)
    BY <1>10, StageMembers DEF ServiceLeave
  <2>2. \A d \in Slot : client'[d].mem = client[d].mem /\ client'[d].reading = client[d].reading
    BY <1>10 DEF ServiceLeave, ClientType, Client
  <2> QED
    BY <2>1, <2>2, MoveExitContinues
<1>11. ASSUME NEW c \in Slot, NEW p \in Plugin, NEW s \in Stage, BeginUpdate(c, p, s)
       PROVE  OneContinuation'
  <2>1. /\ s \in Stage /\ <<"update", p>> \in Stage
        /\ exits[c][s] > 0 /\ MoveExit(c, s, <<"update", p>>)
    BY <1>11, StageMembers DEF BeginUpdate
  <2>2. \A d \in Slot : client'[d].mem = client[d].mem /\ client'[d].reading = client[d].reading
    BY <1>11 DEF BeginUpdate, ClientType, Client
  <2> QED
    BY <2>1, <2>2, MoveExitContinues
<1>12. ASSUME NEW c \in Slot, NEW p \in Plugin, NEW s \in Stage, RemoveClient(c, p, s)
       PROVE  OneContinuation'
  <2>1. /\ s \in Stage /\ <<"left", p>> \in Stage
        /\ exits[c][s] > 0 /\ MoveExit(c, s, <<"left", p>>)
    BY <1>12, StageMembers DEF RemoveClient
  <2>2. \A d \in Slot : client'[d].mem = client[d].mem /\ client'[d].reading = client[d].reading
    BY <1>12 DEF RemoveClient, ClientType, Client
  <2> QED
    BY <2>1, <2>2, MoveExitContinues
<1>13. ASSUME NEW c \in Slot, NEW p \in Plugin, NEW ok \in BOOLEAN, EndUpdate(c, p, ok)
       PROVE  OneContinuation'
  <2>1. /\ <<"update", p>> \in Stage /\ <<"left", p>> \in Stage
        /\ exits[c][<<"update", p>>] > 0 /\ MoveExit(c, <<"update", p>>, <<"left", p>>)
    BY <1>13, StageMembers DEF EndUpdate
  <2>2. \A d \in Slot : client'[d].mem = client[d].mem /\ client'[d].reading = client[d].reading
    BY <1>13 DEF EndUpdate, ClientType, Client
  <2> QED
    BY <2>1, <2>2, MoveExitContinues
<1>14. ASSUME NEW c \in Slot, NEW p \in Plugin, RetryUpdate(c, p)
       PROVE  OneContinuation'
  <2>1. /\ <<"update", p>> \in Stage /\ <<"retry", p>> \in Stage
        /\ exits[c][<<"update", p>>] > 0 /\ MoveExit(c, <<"update", p>>, <<"retry", p>>)
    BY <1>14, StageMembers DEF RetryUpdate
  <2>2. \A d \in Slot : client'[d].mem = client[d].mem /\ client'[d].reading = client[d].reading
    BY <1>14 DEF RetryUpdate, ClientType, Client
  <2> QED
    BY <2>1, <2>2, MoveExitContinues
<1>15. ASSUME NEW S \in SUBSET Slot, CheckTimeout(S) PROVE OneContinuation'
  BY <1>15, StageMembers
     DEF OneContinuation, Connected, ClientType, Client, CheckTimeout,
         Destroyable, ExitsType
<1>16. ASSUME NEW k \in kicks, RunKick(k) PROVE OneContinuation'
  BY <1>16
     DEF OneContinuation, Connected, ClientType, Client, RunKick, Disconnect
<1>17. ASSUME NEW p \in Plugin, Broadcast(p) PROVE OneContinuation'
  BY <1>17 DEF OneContinuation, Connected, ClientType, Client, Broadcast
<1>18. ASSUME NEW c \in Slot, SendHandle(c) PROVE OneContinuation'
  BY <1>18 DEF OneContinuation, Connected, ClientType, Client, SendHandle
<1>19. ASSUME StopClients PROVE OneContinuation'
  BY <1>19, ZenonT(40)
     DEF OneContinuation, Connected, ClientType, Client, StopClients, Disconnect
<1>20. ASSUME Stopped PROVE OneContinuation'
  BY <1>20, StageMembers
     DEF OneContinuation, Connected, ClientType, Client, Stopped, ExitsType
<1>21. CASE QuietStep
  BY <1>21, QuietUnchanged DEF OneContinuation, Connected
<1> QED
  BY <1>1, <1>2, <1>3, <1>4, <1>5, <1>6, <1>7, <1>8, <1>9, <1>10, <1>11, <1>12,
     <1>13, <1>14, <1>15, <1>16, <1>17, <1>18, <1>19, <1>20, <1>21
     DEF Next, AcceptStep, ReceiveStep, AuthStep, LeaveStep, OwnerStep, QuietStep

--------------------------------------------------------------------------
(* The members of the plugins *)

\* The two halves of MembersKept.
DispatchedIsMember ==
  \A c \in Slot, p \in Plugin :
    Connected(c) /\ client[c].dispatcher = p => members[p][client[c].id] = c

LeavingIsMember ==
  \A c \in Slot, p \in Plugin :
    /\ LeavingFor(c, p) => members[p][client[c].id] = c
    /\ UpdatesFor(c, p) => client[c].dispatcher # p

\* Between the loads of a plugin it has no members.
UnloadedHasNoMembers ==
  \A p \in Plugin : p \notin plugins /\ svc.plugin # p => members[p] = NoMembers

\* The owner is busy with a plugin only inside unload.
OwnerBusy == svc.pc \in {"idle", "stop_clients", "joining", "stopped"} => svc.plugin = NULL

\* Every step keeps DispatchedIsMember: a plugin erases by name only who leaves it.
LEMMA DispatchedStep ==
  ASSUME ClientType, MembersType, LeavingIsMember, DispatchedIsMember, ending
         \subseteq AuthEnd, [Next]_vars
  PROVE  DispatchedIsMember'
<1>1. ASSUME NEW c \in Slot, StartAccept(c) PROVE DispatchedIsMember'
  BY <1>1, DistinctValues
     DEF DispatchedIsMember, Connected, ClientType, Client, StartAccept,
         NewClient
<1>2. ASSUME NEW c \in Slot, AcceptHandle(c) PROVE DispatchedIsMember'
  BY <1>2, DistinctValues
     DEF DispatchedIsMember, Connected, ClientType, Client, AcceptHandle
<1>3. ASSUME NEW c \in Slot, AcceptRefused(c) PROVE DispatchedIsMember'
  BY <1>3, DistinctValues
     DEF DispatchedIsMember, Connected, ClientType, Client, AcceptRefused
<1>4. ASSUME NEW c \in Slot, ClientConnected(c) PROVE DispatchedIsMember'
  BY <1>4, DistinctValues
     DEF DispatchedIsMember, Connected, ClientType, Client, ClientConnected
<1>5. ASSUME NEW c \in Slot, ReceiveFailed(c) PROVE DispatchedIsMember'
  BY <1>5, DistinctValues
     DEF DispatchedIsMember, Connected, ClientType, Client, ReceiveFailed,
         OnError
<1>6. ASSUME NEW c \in Slot, NEW code \in Code, CommandRefused(c, code)
      PROVE  DispatchedIsMember'
  BY <1>6, DistinctValues
     DEF DispatchedIsMember, Connected, ClientType, Client, CommandRefused,
         OnError, Disconnect
<1>7. ASSUME NEW c \in Slot, NEW p \in Plugin, NEW i \in Id, Login(c, p, i)
      PROVE  DispatchedIsMember'
  <2>1. /\ client[c].dispatcher = SERVICE
        /\ \/ client' = [client EXCEPT ![c] = LoggingIn(client[c], p, i)]
           \/ client' = [client EXCEPT ![c] =
                OnError(Disconnect(LoggingIn(client[c], p, i), "LOGIN_CONCURENCY_LIMIT"))]
        /\ UNCHANGED members
    BY <1>7 DEF Login
  <2>2. CASE client' = [client EXCEPT ![c] = LoggingIn(client[c], p, i)]
    BY <2>1, <2>2, DistinctValues
       DEF DispatchedIsMember, Connected, ClientType, Client, LoggingIn
  <2>3. CASE client' = [client EXCEPT ![c] =
               OnError(Disconnect(LoggingIn(client[c], p, i), "LOGIN_CONCURENCY_LIMIT"))]
    BY <2>1, <2>3, DistinctValues
       DEF DispatchedIsMember, Connected, ClientType, Client, LoggingIn,
           OnError, Disconnect
  <2> QED
    BY <2>1, <2>2, <2>3
<1>8. ASSUME NEW e \in ending, AuthJoin(e) PROVE DispatchedIsMember'
  <2>1. /\ e.client \in Slot /\ e.plugin \in Plugin
        /\ client[e.client].id \in LoginId
        /\ members[e.plugin][client[e.client].id] = NULL
    BY <1>8 DEF AuthJoin, AuthEnd, AuthRefusal, JoinRefusal, ClientType, Client
  <2>2. /\ client' = [client EXCEPT ![e.client].dispatcher = e.plugin]
        /\ members' = [members EXCEPT ![e.plugin][client[e.client].id] = e.client]
    BY <1>8 DEF AuthJoin
  <2> QED
    BY <2>1, <2>2, DistinctValues
       DEF DispatchedIsMember, Connected, ClientType, Client, MembersType
<1>9. ASSUME NEW e \in ending, AuthReject(e) PROVE DispatchedIsMember'
  BY <1>9, DistinctValues
     DEF DispatchedIsMember, Connected, ClientType, Client, AuthReject,
         Disconnect
<1>10. ASSUME NEW c \in Slot, NEW s \in Stage, ServiceLeave(c, s)
       PROVE  DispatchedIsMember'
  BY <1>10, DistinctValues
     DEF DispatchedIsMember, Connected, ClientType, Client, ServiceLeave
<1>11. ASSUME NEW c \in Slot, NEW p \in Plugin, NEW s \in Stage, BeginUpdate(c, p, s)
       PROVE  DispatchedIsMember'
  BY <1>11, DistinctValues
     DEF DispatchedIsMember, Connected, ClientType, Client, BeginUpdate
<1>12. ASSUME NEW c \in Slot, NEW p \in Plugin, NEW s \in Stage, RemoveClient(c, p, s)
       PROVE  DispatchedIsMember'
  <2>1. members[p][client[c].id] = c
    BY <1>12 DEF RemoveClient, LeavingIsMember, LeavingFor, UpdatesFor
  <2>2. /\ client' = [client EXCEPT ![c].dispatcher = NULL]
        /\ members' = [members EXCEPT ![p][client[c].id] = NULL]
    BY <1>12 DEF RemoveClient
  <2> QED
    BY <2>1, <2>2, DistinctValues, SMTT(30)
       DEF DispatchedIsMember, Connected, ClientType, Client, MembersType
<1>13. ASSUME NEW c \in Slot, NEW p \in Plugin, NEW ok \in BOOLEAN, EndUpdate(c, p, ok)
       PROVE  DispatchedIsMember'
  <2>1. members[p][client[c].id] = c /\ client[c].dispatcher # p
    BY <1>13 DEF EndUpdate, LeavingIsMember, LeavingFor, UpdatesFor
  <2>2. \A d \in Slot : /\ client'[d].mem = client[d].mem /\ client'[d].id = client[d].id
                       /\ client'[d].dispatcher = client[d].dispatcher
    BY <1>13 DEF EndUpdate, ClientType, Client
  <2>3. members' = [members EXCEPT ![p][client[c].id] = NULL]
    BY <1>13 DEF EndUpdate
  <2>4. \A d \in Slot : client[d].id \in LoginId
    BY DEF ClientType, Client
  <2> QED
    BY <2>1, <2>2, <2>3, <2>4 DEF DispatchedIsMember, Connected, MembersType
<1>14. ASSUME NEW c \in Slot, NEW p \in Plugin, RetryUpdate(c, p)
       PROVE  DispatchedIsMember'
  BY <1>14, DistinctValues
     DEF DispatchedIsMember, Connected, ClientType, Client, RetryUpdate
<1>15. ASSUME NEW S \in SUBSET Slot, CheckTimeout(S) PROVE DispatchedIsMember'
  BY <1>15, DistinctValues
     DEF DispatchedIsMember, Connected, ClientType, Client, CheckTimeout,
         Destroyable
<1>16. ASSUME NEW k \in kicks, RunKick(k) PROVE DispatchedIsMember'
  BY <1>16, DistinctValues
     DEF DispatchedIsMember, Connected, ClientType, Client, RunKick, Disconnect
<1>17. ASSUME NEW p \in Plugin, Broadcast(p) PROVE DispatchedIsMember'
  BY <1>17, DistinctValues
     DEF DispatchedIsMember, Connected, ClientType, Client, Broadcast
<1>18. ASSUME NEW c \in Slot, SendHandle(c) PROVE DispatchedIsMember'
  BY <1>18, DistinctValues
     DEF DispatchedIsMember, Connected, ClientType, Client, SendHandle
<1>19. ASSUME StopClients PROVE DispatchedIsMember'
  <2>1. \A d \in Slot : /\ client'[d].mem = client[d].mem /\ client'[d].id = client[d].id
                       /\ client'[d].dispatcher = client[d].dispatcher
    BY <1>19 DEF StopClients, Disconnect, ClientType, Client
  <2> QED
    BY <1>19, <2>1 DEF DispatchedIsMember, Connected, StopClients
<1>20. ASSUME Stopped PROVE DispatchedIsMember'
  BY <1>20, DistinctValues
     DEF DispatchedIsMember, Connected, ClientType, Client, Stopped
<1>21. CASE QuietStep
  BY <1>21, QuietUnchanged DEF DispatchedIsMember, Connected
<1> QED
  BY <1>1, <1>2, <1>3, <1>4, <1>5, <1>6, <1>7, <1>8, <1>9, <1>10, <1>11, <1>12,
     <1>13, <1>14, <1>15, <1>16, <1>17, <1>18, <1>19, <1>20, <1>21
     DEF Next, AcceptStep, ReceiveStep, AuthStep, LeaveStep, OwnerStep, QuietStep


\* A posted bye is the only pending handler of its client.
LEMMA PostByeLeaves ==
  ASSUME ClientType, ExitsType, ReadState, OneContinuation,
         NEW c \in Slot, client[c].reading, PostBye(c)
  PROVE  /\ \A t \in Stage : exits'[c][t] > 0 => t = <<"bye", client[c].dispatcher>>
         /\ \A d \in Slot \ {c} : exits'[d] = exits[d]
<1> DEFINE b == <<"bye", client[c].dispatcher>>
<1>1. \A t \in Stage : exits[c][t] = 0
  BY DEF OneContinuation
<1>2. exits' = exits \/ exits' = [exits EXCEPT ![c][b] = @ + 1]
  BY DEF PostBye
<1> QED
  BY <1>1, <1>2 DEF ExitsType

\* So is the handler a moved client is moved to.
LEMMA MoveExitLeaves ==
  ASSUME ExitsType, OneContinuation, NEW c \in Slot, NEW s \in Stage, NEW t \in
         Stage,
         exits[c][s] > 0, MoveExit(c, s, t)
  PROVE  /\ \A u \in Stage : exits[c][u] > 0 => u = s
         /\ \A u \in Stage : exits'[c][u] > 0 => u = t
         /\ \A d \in Slot \ {c} : exits'[d] = exits[d]
<1>1. Connected(c) /\ ~client[c].reading
  BY DEF OneContinuation
<1>2. \A u \in Stage : exits[c][u] = IF u = s THEN 1 ELSE 0
  BY <1>1 DEF OneContinuation
<1>3. \A u \in Stage : exits'[c][u] = IF u = t THEN 1 ELSE 0
  BY <1>2 DEF MoveExit, ExitsType
<1>4. \A d \in Slot \ {c} : exits'[d] = exits[d]
  BY DEF MoveExit, ExitsType
<1> QED
  BY <1>2, <1>3, <1>4


\* Who is not leaving has nothing pending in any plugin.
LEMMA NotLeaving ==
  ASSUME OneContinuation, NEW c \in Slot, ~Connected(c) \/ client[c].reading,
         NEW p \in Plugin
  PROVE  ~LeavingFor(c, p) /\ ~UpdatesFor(c, p)
<1>1. \A t \in Stage : exits[c][t] = 0
  BY DEF OneContinuation
<1>2. <<"bye", p>> \in Stage /\ <<"update", p>> \in Stage /\ <<"retry", p>> \in Stage
  BY StageMembers
<1>3. /\ exits[c][<<"bye", p>>] = 0
      /\ exits[c][<<"update", p>>] = 0 /\ exits[c][<<"retry", p>>] = 0
  BY <1>1, <1>2
<1> QED
  BY <1>3 DEF LeavingFor, UpdatesFor

\* LeavingIsMember survives when no client gets nearer to a plugin.
LEMMA LeavingKept ==
  ASSUME LeavingIsMember, UNCHANGED members,
         \A d \in Slot : /\ client'[d].id = client[d].id
                         /\ client'[d].dispatcher = client[d].dispatcher
                         /\ \A t \in Stage : exits'[d][t] > 0 => exits[d][t] > 0
  PROVE  LeavingIsMember'
<1>1. \A d \in Slot, p \in Plugin : /\ LeavingFor(d, p)' => LeavingFor(d, p)
                                    /\ UpdatesFor(d, p)' => UpdatesFor(d, p)
  BY StageMembers DEF LeavingFor, UpdatesFor
<1> QED
  BY <1>1 DEF LeavingIsMember

\* LeavingIsMember survives when it does for the one client that moves.
LEMMA LeavingOne ==
  ASSUME LeavingIsMember, NEW c \in Slot,
         \A d \in Slot \ {c} : client'[d] = client[d] /\ exits'[d] = exits[d],
         \A d \in Slot \ {c}, p \in Plugin :
           members[p][client[d].id] = d => members'[p][client[d].id] = d,
         \A p \in Plugin : LeavingFor(c, p)' => members'[p][client'[c].id] = c,
         \A p \in Plugin : UpdatesFor(c, p)' => client'[c].dispatcher # p
  PROVE  LeavingIsMember'
<1>1. \A d \in Slot \ {c}, p \in Plugin : /\ LeavingFor(d, p)' => LeavingFor(d, p)
                                          /\ UpdatesFor(d, p)' => UpdatesFor(d, p)
  BY DEF LeavingFor, UpdatesFor
<1> QED
  BY <1>1 DEF LeavingIsMember
\* Every step keeps LeavingIsMember.
LEMMA LeavingStep ==
  ASSUME ClientType, ExitsType, MembersType, ReadState, OneContinuation,
         DispatchedIsMember, LeavingIsMember, ending \subseteq AuthEnd,
         [Next]_vars
  PROVE  LeavingIsMember'
<1>1. ASSUME NEW c \in Slot, StartAccept(c) PROVE LeavingIsMember'
  <2>1. /\ ~Connected(c) /\ UNCHANGED <<exits, members>>
        /\ \A d \in Slot \ {c} : client'[d] = client[d]
    BY <1>1 DEF StartAccept, Connected, ClientType
  <2>2. \A p \in Plugin : ~LeavingFor(c, p)' /\ ~UpdatesFor(c, p)'
    BY <2>1, NotLeaving DEF LeavingFor, UpdatesFor
  <2> QED
    BY <2>1, <2>2, LeavingOne
<1>2. ASSUME NEW c \in Slot, AcceptHandle(c) PROVE LeavingIsMember'
  <2>1. /\ ~Connected(c) /\ UNCHANGED <<exits, members>>
        /\ \A d \in Slot \ {c} : client'[d] = client[d]
    BY <1>2 DEF AcceptHandle, Connected, ClientType
  <2>2. \A p \in Plugin : ~LeavingFor(c, p)' /\ ~UpdatesFor(c, p)'
    BY <2>1, NotLeaving DEF LeavingFor, UpdatesFor
  <2> QED
    BY <2>1, <2>2, LeavingOne
<1>3. ASSUME NEW c \in Slot, AcceptRefused(c) PROVE LeavingIsMember'
  <2>1. /\ ~Connected(c) /\ UNCHANGED <<exits, members>>
        /\ \A d \in Slot \ {c} : client'[d] = client[d]
    BY <1>3 DEF AcceptRefused, Connected, ClientType
  <2>2. \A p \in Plugin : ~LeavingFor(c, p)' /\ ~UpdatesFor(c, p)'
    BY <2>1, NotLeaving DEF LeavingFor, UpdatesFor
  <2> QED
    BY <2>1, <2>2, LeavingOne
<1>4. ASSUME NEW c \in Slot, ClientConnected(c) PROVE LeavingIsMember'
  <2>1. /\ ~Connected(c) /\ UNCHANGED <<exits, members>>
        /\ \A d \in Slot \ {c} : client'[d] = client[d]
    BY <1>4 DEF ClientConnected, Connected, ClientType
  <2>2. \A p \in Plugin : ~LeavingFor(c, p)' /\ ~UpdatesFor(c, p)'
    BY <2>1, NotLeaving DEF LeavingFor, UpdatesFor
  <2> QED
    BY <2>1, <2>2, LeavingOne
<1>5. ASSUME NEW c \in Slot, ReceiveFailed(c) PROVE LeavingIsMember'
  <2>1. /\ client[c].reading /\ PostBye(c) /\ UNCHANGED members
        /\ client'[c].id = client[c].id /\ client'[c].dispatcher = client[c].dispatcher
        /\ \A d \in Slot \ {c} : client'[d] = client[d]
    BY <1>5 DEF ReceiveFailed, OnError, ClientType, Client
  <2>2. Connected(c)
    BY <2>1 DEF ReadState
  <2>3. \A q \in Plugin : /\ LeavingFor(c, q)' => q = client[c].dispatcher
                         /\ ~UpdatesFor(c, q)'
    BY <2>1, StageMembers, PostByeLeaves DEF LeavingFor, UpdatesFor
  <2>4. \A q \in Plugin : LeavingFor(c, q)' => members'[q][client'[c].id] = c
    BY <2>1, <2>2, <2>3 DEF DispatchedIsMember
  <2> QED
    BY <2>1, <2>3, <2>4, PostByeLeaves, LeavingOne
<1>6. ASSUME NEW c \in Slot, NEW code \in Code, CommandRefused(c, code)
      PROVE  LeavingIsMember'
  <2>1. /\ client[c].reading /\ PostBye(c) /\ UNCHANGED members
        /\ client'[c].id = client[c].id /\ client'[c].dispatcher = client[c].dispatcher
        /\ \A d \in Slot \ {c} : client'[d] = client[d]
    BY <1>6 DEF CommandRefused, OnError, Disconnect, ClientType, Client
  <2>2. Connected(c)
    BY <2>1 DEF ReadState
  <2>3. \A q \in Plugin : /\ LeavingFor(c, q)' => q = client[c].dispatcher
                         /\ ~UpdatesFor(c, q)'
    BY <2>1, StageMembers, PostByeLeaves DEF LeavingFor, UpdatesFor
  <2>4. \A q \in Plugin : LeavingFor(c, q)' => members'[q][client'[c].id] = c
    BY <2>1, <2>2, <2>3 DEF DispatchedIsMember
  <2> QED
    BY <2>1, <2>3, <2>4, PostByeLeaves, LeavingOne
<1>7. ASSUME NEW c \in Slot, NEW p \in Plugin, NEW i \in Id, Login(c, p, i)
      PROVE  LeavingIsMember'
  <2>1. /\ client[c].reading /\ client[c].dispatcher = SERVICE
        /\ PostBye(c) \/ UNCHANGED exits
        /\ UNCHANGED members
        /\ \A d \in Slot \ {c} : client'[d] = client[d]
    BY <1>7 DEF Login, ClientType
  <2>2. \A t \in Stage : exits[c][t] = 0
    BY <2>1 DEF OneContinuation
  <2>3. /\ \A t \in Stage : exits'[c][t] > 0 => t = <<"bye", SERVICE>>
        /\ \A d \in Slot \ {c} : exits'[d] = exits[d]
    BY <2>1, <2>2, PostByeLeaves
  <2>4. \A q \in Plugin : ~LeavingFor(c, q)' /\ ~UpdatesFor(c, q)'
    BY <2>3, StageMembers, DistinctValues DEF LeavingFor, UpdatesFor
  <2> QED
    BY <2>1, <2>3, <2>4, LeavingOne
<1>8. ASSUME NEW e \in ending, AuthJoin(e) PROVE LeavingIsMember'
  <2>0. PICK c \in Slot : c = e.client
    BY <1>8 DEF AuthJoin, AuthEnd
  <2>1. /\ e.plugin \in Plugin
        /\ client[c].id \in LoginId
        /\ members[e.plugin][client[c].id] = NULL
    BY <1>8, <2>0
       DEF AuthJoin, AuthEnd, AuthRefusal, JoinRefusal, ClientType, Client
  <2>2. /\ client' = [client EXCEPT ![c].dispatcher = e.plugin]
        /\ members' = [members EXCEPT ![e.plugin][client[c].id] = c]
        /\ UNCHANGED exits
    BY <1>8, <2>0 DEF AuthJoin
  <2>3. /\ client'[c].id = client[c].id
        /\ client'[c].dispatcher = e.plugin
        /\ \A d \in Slot \ {c} : client'[d] = client[d]
    BY <2>1, <2>2 DEF ClientType, Client
  <2>4. ~LeavingFor(c, e.plugin) /\ ~UpdatesFor(c, e.plugin)
    BY <2>1, DistinctValues DEF LeavingIsMember, LeavingFor
  <2>5. \A d \in Slot, q \in Plugin :
          members[q][client[d].id] = d => members'[q][client[d].id] = d
    BY <2>1, <2>2, DistinctValues DEF MembersType, ClientType, Client
  <2>6. ASSUME NEW q \in Plugin, LeavingFor(c, q)'
        PROVE  members'[q][client'[c].id] = c
    <3>1. LeavingFor(c, q)
      BY <2>2, <2>6 DEF LeavingFor, UpdatesFor
    <3>2. members[q][client[c].id] = c
      BY <3>1 DEF LeavingIsMember
    <3> QED
      BY <2>3, <2>5, <3>2
  <2>7. ASSUME NEW q \in Plugin, UpdatesFor(c, q)'
        PROVE  client'[c].dispatcher # q
    <3>1. UpdatesFor(c, q)
      BY <2>2, <2>7 DEF UpdatesFor
    <3> QED
      BY <2>3, <2>4, <3>1
  <2> QED
    BY <2>1, <2>2, <2>3, <2>5, <2>6, <2>7, LeavingOne
<1>9. ASSUME NEW e \in ending, AuthReject(e) PROVE LeavingIsMember'
  <2>1. /\ UNCHANGED <<members, exits>>
        /\ \A d \in Slot : /\ client'[d].id = client[d].id
                          /\ client'[d].dispatcher = client[d].dispatcher
    BY <1>9 DEF AuthReject, Disconnect, ClientType, Client
  <2> QED
    BY <2>1, LeavingKept
<1>10. ASSUME NEW c \in Slot, NEW s \in Stage, ServiceLeave(c, s)
       PROVE  LeavingIsMember'
  <2>1. /\ s \in Stage /\ Listed \in Stage
        /\ exits[c][s] > 0 /\ MoveExit(c, s, Listed)
        /\ UNCHANGED members
    BY <1>10, StageMembers DEF ServiceLeave
  <2>2. /\ client[c].id \in LoginId
        /\ client'[c].id = client[c].id
        /\ client'[c].dispatcher = NULL
        /\ \A d \in Slot \ {c} : client'[d] = client[d]
    BY <1>10 DEF ServiceLeave, ClientType, Client
  <2>3. /\ \A u \in Stage : exits'[c][u] > 0 => u = Listed
        /\ \A d \in Slot \ {c} : exits'[d] = exits[d]
    BY <2>1, MoveExitLeaves
  <2>4. \A q \in Plugin : ~LeavingFor(c, q)' /\ ~UpdatesFor(c, q)'
    BY <2>3, StageMembers DEF LeavingFor, UpdatesFor, Listed
  <2> QED
    BY <2>1, <2>2, <2>3, <2>4, LeavingOne
<1>11. ASSUME NEW c \in Slot, NEW p \in Plugin, NEW s \in Stage, BeginUpdate(c, p, s)
       PROVE  LeavingIsMember'
  <2>1. /\ s \in Stage /\ <<"update", p>> \in Stage
        /\ exits[c][s] > 0 /\ MoveExit(c, s, <<"update", p>>)
        /\ UNCHANGED members
        /\ s \in {<<"bye", p>>, <<"retry", p>>}
    BY <1>11, StageMembers DEF BeginUpdate
  <2>2. /\ client[c].id \in LoginId
        /\ client'[c].id = client[c].id
        /\ client'[c].dispatcher = NULL
        /\ \A d \in Slot \ {c} : client'[d] = client[d]
    BY <1>11 DEF BeginUpdate, ClientType, Client
  <2>3. /\ \A u \in Stage : exits'[c][u] > 0 => u = <<"update", p>>
        /\ \A d \in Slot \ {c} : exits'[d] = exits[d]
    BY <2>1, MoveExitLeaves
  <2>4. LeavingFor(c, p) /\ members[p][client[c].id] = c
    BY <2>1 DEF LeavingFor, UpdatesFor, LeavingIsMember
  <2>5. \A q \in Plugin : LeavingFor(c, q)' \/ UpdatesFor(c, q)' => q = p
    BY <2>3, StageMembers DEF LeavingFor, UpdatesFor
  <2> QED
    BY <2>1, <2>2, <2>3, <2>4, <2>5, DistinctValues, LeavingOne
<1>12. ASSUME NEW c \in Slot, NEW p \in Plugin, NEW s \in Stage, RemoveClient(c, p, s)
       PROVE  LeavingIsMember'
  <2>1. /\ s \in Stage /\ <<"left", p>> \in Stage
        /\ exits[c][s] > 0 /\ MoveExit(c, s, <<"left", p>>)
        /\ members' = [members EXCEPT ![p][client[c].id] = NULL]
        /\ s \in {<<"bye", p>>, <<"retry", p>>}
    BY <1>12, StageMembers DEF RemoveClient
  <2>2. /\ client[c].id \in LoginId
        /\ client'[c].id = client[c].id
        /\ client'[c].dispatcher = NULL
        /\ \A d \in Slot \ {c} : client'[d] = client[d]
    BY <1>12 DEF RemoveClient, ClientType, Client
  <2>3. /\ \A u \in Stage : exits'[c][u] > 0 => u = <<"left", p>>
        /\ \A d \in Slot \ {c} : exits'[d] = exits[d]
    BY <2>1, MoveExitLeaves
  <2>4. LeavingFor(c, p) /\ members[p][client[c].id] = c
    BY <2>1 DEF LeavingFor, UpdatesFor, LeavingIsMember
  <2>5. \A q \in Plugin : ~LeavingFor(c, q)' /\ ~UpdatesFor(c, q)'
    BY <2>3, StageMembers DEF LeavingFor, UpdatesFor
  <2>6. \A d \in Slot \ {c}, q \in Plugin :
          members[q][client[d].id] = d => members'[q][client[d].id] = d
    BY <2>1, <2>2, <2>4 DEF MembersType, ClientType, Client
  <2> QED
    BY <2>2, <2>3, <2>5, <2>6, LeavingOne
<1>13. ASSUME NEW c \in Slot, NEW p \in Plugin, NEW ok \in BOOLEAN, EndUpdate(c, p, ok)
       PROVE  LeavingIsMember'
  <2>1. /\ <<"update", p>> \in Stage /\ <<"left", p>> \in Stage
        /\ exits[c][<<"update", p>>] > 0 /\ MoveExit(c, <<"update", p>>, <<"left", p>>)
        /\ members' = [members EXCEPT ![p][client[c].id] = NULL]
    BY <1>13, StageMembers DEF EndUpdate
  <2>2. /\ client[c].id \in LoginId
        /\ client'[c].id = client[c].id
        /\ client'[c].dispatcher = client[c].dispatcher
        /\ \A d \in Slot \ {c} : client'[d] = client[d]
    BY <1>13 DEF EndUpdate, ClientType, Client
  <2>3. /\ \A u \in Stage : exits'[c][u] > 0 => u = <<"left", p>>
        /\ \A d \in Slot \ {c} : exits'[d] = exits[d]
    BY <2>1, MoveExitLeaves
  <2>4. LeavingFor(c, p) /\ members[p][client[c].id] = c
    BY <2>1 DEF LeavingFor, UpdatesFor, LeavingIsMember
  <2>5. \A q \in Plugin : ~LeavingFor(c, q)' /\ ~UpdatesFor(c, q)'
    BY <2>3, StageMembers DEF LeavingFor, UpdatesFor
  <2>6. \A d \in Slot \ {c}, q \in Plugin :
          members[q][client[d].id] = d => members'[q][client[d].id] = d
    BY <2>1, <2>2, <2>4 DEF MembersType, ClientType, Client
  <2> QED
    BY <2>2, <2>3, <2>5, <2>6, LeavingOne
<1>14. ASSUME NEW c \in Slot, NEW p \in Plugin, RetryUpdate(c, p)
       PROVE  LeavingIsMember'
  <2>1. /\ <<"update", p>> \in Stage /\ <<"retry", p>> \in Stage
        /\ exits[c][<<"update", p>>] > 0 /\ MoveExit(c, <<"update", p>>, <<"retry", p>>)
        /\ UNCHANGED members
    BY <1>14, StageMembers DEF RetryUpdate
  <2>2. /\ client[c].id \in LoginId
        /\ client'[c].id = client[c].id
        /\ client'[c].dispatcher = client[c].dispatcher
        /\ \A d \in Slot \ {c} : client'[d] = client[d]
    BY <1>14 DEF RetryUpdate, ClientType, Client
  <2>3. /\ \A u \in Stage : exits'[c][u] > 0 => u = <<"retry", p>>
        /\ \A d \in Slot \ {c} : exits'[d] = exits[d]
    BY <2>1, MoveExitLeaves
  <2>4. LeavingFor(c, p) /\ members[p][client[c].id] = c /\ client[c].dispatcher # p
    BY <2>1 DEF LeavingFor, UpdatesFor, LeavingIsMember
  <2>5. \A q \in Plugin : LeavingFor(c, q)' \/ UpdatesFor(c, q)' => q = p
    BY <2>3, StageMembers DEF LeavingFor, UpdatesFor
  <2> QED
    BY <2>1, <2>2, <2>3, <2>4, <2>5, DistinctValues, LeavingOne
<1>15. ASSUME NEW S \in SUBSET Slot, CheckTimeout(S) PROVE LeavingIsMember'
  <2>1. /\ UNCHANGED members
        /\ \A d \in Slot : /\ client'[d].id = client[d].id
                          /\ client'[d].dispatcher = client[d].dispatcher
                          /\ \A t \in Stage : exits'[d][t] > 0 => exits[d][t] > 0
    BY <1>15, StageMembers DEF CheckTimeout, ClientType, Client, ExitsType
  <2> QED
    BY <2>1, LeavingKept
<1>16. ASSUME NEW k \in kicks, RunKick(k) PROVE LeavingIsMember'
  <2>1. /\ UNCHANGED <<members, exits>>
        /\ \A d \in Slot : /\ client'[d].id = client[d].id
                          /\ client'[d].dispatcher = client[d].dispatcher
    BY <1>16 DEF RunKick, Disconnect, ClientType, Client
  <2> QED
    BY <2>1, LeavingKept
<1>17. ASSUME NEW p \in Plugin, Broadcast(p) PROVE LeavingIsMember'
  <2>1. /\ UNCHANGED <<members, exits>>
        /\ \A d \in Slot : /\ client'[d].id = client[d].id
                          /\ client'[d].dispatcher = client[d].dispatcher
    BY <1>17 DEF Broadcast, ClientType, Client
  <2> QED
    BY <2>1, LeavingKept
<1>18. ASSUME NEW c \in Slot, SendHandle(c) PROVE LeavingIsMember'
  <2>1. /\ UNCHANGED <<members, exits>>
        /\ \A d \in Slot : /\ client'[d].id = client[d].id
                          /\ client'[d].dispatcher = client[d].dispatcher
    BY <1>18 DEF SendHandle, ClientType, Client
  <2> QED
    BY <2>1, LeavingKept
<1>19. ASSUME StopClients PROVE LeavingIsMember'
  <2>1. /\ UNCHANGED <<members, exits>>
        /\ \A d \in Slot : /\ client'[d].id = client[d].id
                          /\ client'[d].dispatcher = client[d].dispatcher
    BY <1>19 DEF StopClients, Disconnect, ClientType, Client
  <2> QED
    BY <2>1, LeavingKept
<1>20. ASSUME Stopped PROVE LeavingIsMember'
  <2>1. /\ UNCHANGED members
        /\ \A d \in Slot : /\ client'[d].id = client[d].id
                          /\ client'[d].dispatcher = client[d].dispatcher
                          /\ \A t \in Stage : exits'[d][t] > 0 => exits[d][t] > 0
    BY <1>20, StageMembers DEF Stopped, ClientType, Client, ExitsType
  <2> QED
    BY <2>1, LeavingKept
<1>21. CASE QuietStep
  BY <1>21, QuietUnchanged DEF LeavingIsMember, LeavingFor, UpdatesFor
<1> QED
  BY <1>1, <1>2, <1>3, <1>4, <1>5, <1>6, <1>7, <1>8, <1>9, <1>10, <1>11, <1>12,
     <1>13, <1>14, <1>15, <1>16, <1>17, <1>18, <1>19, <1>20, <1>21
     DEF Next, AcceptStep, ReceiveStep, AuthStep, LeaveStep, OwnerStep, QuietStep


\* Every step keeps UnloadedHasNoMembers: a login joins only a plugin in plugins_.
LEMMA UnloadedStep ==
  ASSUME ClientType, MembersType, SvcType, UnloadedHasNoMembers, OwnerBusy,
         ending \subseteq AuthEnd, [Next]_vars
  PROVE  UnloadedHasNoMembers'
<1>1. ASSUME NEW e \in ending, AuthJoin(e) PROVE UnloadedHasNoMembers'
  <2>1. e.plugin \in plugins
    BY <1>1 DEF AuthJoin, AuthRefusal
  <2> QED
    BY <1>1, <2>1 DEF UnloadedHasNoMembers, AuthJoin, MembersType
<1>2. ASSUME NEW c \in Slot, NEW p \in Plugin, NEW s \in Stage, RemoveClient(c, p, s)
      PROVE  UnloadedHasNoMembers'
  <2>1. client[c].id \in LoginId
    BY DEF ClientType, Client
  <2> QED
    BY <1>2, <2>1 DEF UnloadedHasNoMembers, RemoveClient, MembersType, NoMembers
<1>3. ASSUME NEW c \in Slot, NEW p \in Plugin, NEW ok \in BOOLEAN, EndUpdate(c, p, ok)
      PROVE  UnloadedHasNoMembers'
  <2>1. client[c].id \in LoginId
    BY DEF ClientType, Client
  <2> QED
    BY <1>3, <2>1 DEF UnloadedHasNoMembers, EndUpdate, MembersType, NoMembers
<1>4. ASSUME NEW p \in Plugin, LoadPlugin(p) PROVE UnloadedHasNoMembers'
  BY <1>4 DEF UnloadedHasNoMembers, LoadPlugin
<1>5. ASSUME NEW p \in Plugin, UnloadPlugin(p) PROVE UnloadedHasNoMembers'
  BY <1>5, DistinctValues
     DEF UnloadedHasNoMembers, UnloadPlugin, SvcType, OwnerBusy, Idle
<1>6. ASSUME NEW p \in Plugin, Unload(p) PROVE UnloadedHasNoMembers'
  BY <1>6 DEF UnloadedHasNoMembers, Unload, SvcType
<1>7. ASSUME NEW p \in Plugin, Unloaded(p) PROVE UnloadedHasNoMembers'
  BY <1>7, DistinctValues
     DEF UnloadedHasNoMembers, Unloaded, SvcType, OwnerBusy, Idle
<1>8. ASSUME Stop PROVE UnloadedHasNoMembers'
  BY <1>8 DEF UnloadedHasNoMembers, Stop, SvcType
<1>9. ASSUME StopClients PROVE UnloadedHasNoMembers'
  BY <1>9 DEF UnloadedHasNoMembers, StopClients, SvcType
<1>10. ASSUME NEW p \in Plugin, StopPlugin(p) PROVE UnloadedHasNoMembers'
  BY <1>10, DistinctValues
     DEF UnloadedHasNoMembers, StopPlugin, SvcType, OwnerBusy, Idle
<1>11. ASSUME StopPluginsDone PROVE UnloadedHasNoMembers'
  BY <1>11, DistinctValues
     DEF UnloadedHasNoMembers, StopPluginsDone, SvcType, OwnerBusy, Idle
<1>12. ASSUME Stopped PROVE UnloadedHasNoMembers'
  BY <1>12 DEF UnloadedHasNoMembers, Stopped, SvcType
<1>13. CASE ServerStep
  BY <1>13, ServerUnchanged DEF UnloadedHasNoMembers
<1> QED
  BY <1>1, <1>2, <1>3, <1>4, <1>5, <1>6, <1>7, <1>8, <1>9, <1>10, <1>11, <1>12,
     <1>13
     DEF Next, AcceptStep, ReceiveStep, AuthStep, LeaveStep, OwnerStep, ServerStep

\* Every step keeps OwnerBusy.
LEMMA OwnerBusyStep ==
  ASSUME SvcType, OwnerBusy, [Next]_vars
  PROVE  OwnerBusy'
<1>1. ASSUME NEW e \in ending, AuthJoin(e) PROVE OwnerBusy'
  BY <1>1 DEF OwnerBusy, AuthJoin
<1>2. ASSUME NEW c \in Slot, NEW p \in Plugin, NEW s \in Stage, RemoveClient(c, p, s)
      PROVE  OwnerBusy'
  BY <1>2 DEF OwnerBusy, RemoveClient
<1>3. ASSUME NEW c \in Slot, NEW p \in Plugin, NEW ok \in BOOLEAN, EndUpdate(c, p, ok)
      PROVE  OwnerBusy'
  BY <1>3 DEF OwnerBusy, EndUpdate
<1>4. ASSUME NEW p \in Plugin, LoadPlugin(p) PROVE OwnerBusy'
  BY <1>4 DEF OwnerBusy, LoadPlugin
<1>5. ASSUME NEW p \in Plugin, UnloadPlugin(p) PROVE OwnerBusy'
  BY <1>5 DEF OwnerBusy, UnloadPlugin, SvcType
<1>6. ASSUME NEW p \in Plugin, Unload(p) PROVE OwnerBusy'
  BY <1>6 DEF OwnerBusy, Unload, SvcType
<1>7. ASSUME NEW p \in Plugin, Unloaded(p) PROVE OwnerBusy'
  BY <1>7 DEF OwnerBusy, Unloaded, SvcType, Idle
<1>8. ASSUME Stop PROVE OwnerBusy'
  BY <1>8 DEF OwnerBusy, Stop, SvcType
<1>9. ASSUME StopClients PROVE OwnerBusy'
  BY <1>9 DEF OwnerBusy, StopClients, SvcType
<1>10. ASSUME NEW p \in Plugin, StopPlugin(p) PROVE OwnerBusy'
  BY <1>10 DEF OwnerBusy, StopPlugin, SvcType
<1>11. ASSUME StopPluginsDone PROVE OwnerBusy'
  BY <1>11 DEF OwnerBusy, StopPluginsDone, SvcType
<1>12. ASSUME Stopped PROVE OwnerBusy'
  BY <1>12 DEF OwnerBusy, Stopped, SvcType
<1>13. CASE ServerStep
  BY <1>13, ServerUnchanged DEF OwnerBusy
<1> QED
  BY <1>1, <1>2, <1>3, <1>4, <1>5, <1>6, <1>7, <1>8, <1>9, <1>10, <1>11, <1>12,
     <1>13
     DEF Next, AcceptStep, ReceiveStep, AuthStep, LeaveStep, OwnerStep, ServerStep

--------------------------------------------------------------------------
(* The inductive invariant *)

IndInv ==
  /\ TypeOK /\ ReadState /\ OneContinuation /\ ErrorFindsDispatcher
  /\ DispatchedIsMember /\ LeavingIsMember /\ UnloadedHasNoMembers /\ OwnerBusy

\* It holds initially.
LEMMA IndInvInit == Init => IndInv
<1> SUFFICES ASSUME Init PROVE IndInv
  OBVIOUS
<1>1. TypeOK
  BY InitType
<1>2. /\ \A c \in Slot : client[c] = [NewClient(0) EXCEPT !.mem = "free"]
      /\ \A c \in Slot, s \in Stage : exits[c][s] = 0
  BY DEF Init, NoExit
<1>3. \A c \in Slot : ~Connected(c) /\ client[c].mem = "free" /\ ~client[c].reading
  BY <1>2 DEF NewClient, Connected
<1>4. ReadState /\ ErrorFindsDispatcher
  BY <1>3 DEF ReadState, ErrorFindsDispatcher
<1>5. OneContinuation
  BY <1>2, <1>3 DEF OneContinuation
<1>6. DispatchedIsMember
  BY <1>3 DEF DispatchedIsMember
<1>7. \A c \in Slot, p \in Plugin : ~LeavingFor(c, p) /\ ~UpdatesFor(c, p)
  BY <1>3, <1>5, NotLeaving
<1>8. LeavingIsMember
  BY <1>7 DEF LeavingIsMember
<1>9. UnloadedHasNoMembers /\ OwnerBusy
  BY DEF Init, UnloadedHasNoMembers, OwnerBusy, Idle
<1> QED
  BY <1>1, <1>4, <1>5, <1>6, <1>8, <1>9 DEF IndInv

\* Every step keeps it.
LEMMA IndInvStep == IndInv /\ [Next]_vars => IndInv'
<1> SUFFICES ASSUME IndInv, [Next]_vars PROVE IndInv'
  OBVIOUS
<1>1. /\ TypeOK /\ ReadState /\ OneContinuation /\ ErrorFindsDispatcher
      /\ DispatchedIsMember /\ LeavingIsMember /\ UnloadedHasNoMembers /\ OwnerBusy
  BY DEF IndInv
<1>2. /\ ClientType /\ ExitsType /\ MembersType /\ SvcType
      /\ ending \subseteq AuthEnd
  BY <1>1 DEF TypeOK, ClientType, ExitsType, MembersType, SvcType
<1>3. TypeOK'
  BY <1>1, TypeStep
<1>4. ReadState' /\ OneContinuation' /\ ErrorFindsDispatcher'
  BY <1>1, <1>2, DistinctValues, ReadStateStep, ContinuationStep, ErrorStep
<1>5. DispatchedIsMember' /\ LeavingIsMember'
  BY <1>1, <1>2, DispatchedStep, LeavingStep
<1>6. UnloadedHasNoMembers' /\ OwnerBusy'
  BY <1>1, <1>2, UnloadedStep, OwnerBusyStep
<1> QED
  BY <1>3, <1>4, <1>5, <1>6 DEF IndInv

\* It holds in every reachable state.
THEOREM Inductive == Spec => []IndInv
  BY IndInvInit, IndInvStep, PTL DEF Spec

\* A connection has exactly one continuation: it is not forgotten, does not
\* leave twice and is not freed twice.
THEOREM NeverForgottenOrFreedTwice == Spec => []OneContinuation
<1>1. IndInv => OneContinuation
  BY DEF IndInv
<1> QED
  BY <1>1, Inductive, PTL

\* The assertion of game_client::on_error never fails.
THEOREM AssertionHolds == Spec => []ErrorFindsDispatcher
<1>1. IndInv => ErrorFindsDispatcher
  BY DEF IndInv
<1> QED
  BY <1>1, Inductive, PTL

\* What game_plugin erases by name is the client that leaves.
THEOREM MembersAreKept == Spec => []MembersKept
<1>1. IndInv => MembersKept
  BY DEF IndInv, DispatchedIsMember, LeavingIsMember, MembersKept
<1> QED
  BY <1>1, Inductive, PTL

\* No two clients of a plugin have one name, for any number of clients.
THEOREM LoginsAreUnique == Spec => []UniqueLogin
<1>1. IndInv => UniqueLogin
  <2> SUFFICES ASSUME DispatchedIsMember PROVE UniqueLogin
    BY DEF IndInv
  <2> SUFFICES ASSUME NEW c \in Slot, NEW d \in Slot, Connected(c), Connected(d),
                      client[c].dispatcher = client[d].dispatcher,
                      client[c].dispatcher \in Plugin, client[c].id = client[d].id
               PROVE  c = d
    BY DEF UniqueLogin
  <2>1. members[client[c].dispatcher][client[c].id] = c
    BY DEF DispatchedIsMember
  <2>2. members[client[d].dispatcher][client[d].id] = d
    BY DEF DispatchedIsMember
  <2> QED
    BY <2>1, <2>2
<1> QED
  BY <1>1, Inductive, PTL

\* When unload_plugin has returned nothing but on_client_leave is left of the
\* plugin.
THEOREM UnloadedIsIdle == Spec => []UnloadedPluginIdle
<1>1. IndInv => UnloadedPluginIdle
  <2> SUFFICES ASSUME IndInv, NEW p \in Plugin, p \notin plugins, svc.plugin # p
               PROVE  /\ members[p] = NoMembers
                      /\ \A c \in Slot :
                           /\ Connected(c) => client[c].dispatcher # p
                           /\ \A s \in {"bye", "update", "retry"} \X {p} : exits[c][s] = 0
    BY DEF UnloadedPluginIdle
  <2>1. members[p] = NoMembers
    BY DEF IndInv, UnloadedHasNoMembers
  <2>2. \A c \in Slot : client[c].id \in LoginId /\ members[p][client[c].id] # c
    BY <2>1, DistinctValues DEF IndInv, TypeOK, Client, NoMembers
  <2>3. \A c \in Slot : Connected(c) => client[c].dispatcher # p
    BY <2>2 DEF IndInv, DispatchedIsMember
  <2>4. ASSUME NEW c \in Slot, NEW s \in {"bye", "update", "retry"} \X {p}
        PROVE  exits[c][s] = 0
    <3>1. ~LeavingFor(c, p)
      BY <2>2 DEF IndInv, LeavingIsMember
    <3>2. s = <<"bye", p>> \/ s = <<"update", p>> \/ s = <<"retry", p>>
      OBVIOUS
    <3>3. s \in Stage /\ exits \in [Slot -> [Stage -> Nat]]
      BY <3>2, StageMembers DEF IndInv, TypeOK
    <3>4. exits[c][s] \in Nat
      BY <3>3
    <3> QED
      BY <3>1, <3>2, <3>4 DEF LeavingFor, UpdatesFor
  <2> QED
    BY <2>1, <2>3, <2>4
<1> QED
  BY <1>1, Inductive, PTL

--------------------------------------------------------------------------
(* ClientLifecycle implements ConnectionLifetime: every step of the server is a
   step of the life of each connection, or none. *)

\* A step from the record r and the pending handlers x to r2 and x2 is one that
\* ConnectionLifetime allows for a connection.
Advances(r, x, r2, x2) ==
  /\ \/ PhaseOf(r2, x2) = PhaseOf(r, x)
     \/ <<PhaseOf(r, x), PhaseOf(r2, x2)>> \in Lifetime!Follows
  /\ \/ ReasonOf(r2) = ReasonOf(r)
     \/ /\ PhaseOf(r, x) \in {"open", "leaving", "listed"}
        /\ ReasonOf(r) = "CLIENT_NET_ERROR"
     \/ PhaseOf(r2, x2) = "none" /\ ReasonOf(r2) = "CLIENT_NET_ERROR"

AllAdvance == \A d \in Slot : Advances(client[d], exits[d], client'[d], exits'[d])

\* What has the same memory, read chain and reason is in the same phase.
LEMMA SamePhase ==
  ASSUME NEW r, NEW r2, NEW x, r2.mem = r.mem, r2.reading = r.reading,
         r2.error_code = r.error_code
  PROVE  Advances(r, x, r2, x)
  BY DEF Advances, PhaseOf, ReasonOf

\* A disconnect gives a reason only to a connection that has none.
LEMMA DisconnectAdvances ==
  ASSUME NEW r \in Client, NEW x, NEW code \in Code,
         r.mem = "connected" /\ r.available => r.error_code = "CLIENT_NET_ERROR"
  PROVE  Advances(r, x, Disconnect(r, code), x)
<1>1. CASE ~r.available
  BY <1>1, SamePhase DEF Disconnect
<1>2. CASE r.available
  <2>1. /\ Disconnect(r, code).mem = r.mem
        /\ Disconnect(r, code).reading = r.reading
    BY <1>2 DEF Disconnect, Client
  <2>2. r.mem = "connected" => PhaseOf(r, x) \in {"open", "leaving", "listed"}
    BY DEF PhaseOf
  <2>3. PhaseOf(Disconnect(r, code), x) = PhaseOf(r, x)
    BY <2>1 DEF PhaseOf
  <2>4. CASE r.mem = "connected"
    <3>1. ReasonOf(r) = "CLIENT_NET_ERROR"
      BY <1>2, <2>4 DEF ReasonOf
    <3> QED
      BY <2>2, <2>3, <2>4, <3>1 DEF Advances
  <2>5. CASE r.mem # "connected"
    BY <2>1, <2>3, <2>5 DEF Advances, ReasonOf
  <2> QED
    BY <2>4, <2>5
<1> QED
  BY <1>1, <1>2

\* The end of the read chain: with the reason given before, or with one given
\* now to a connection that has none.
LEMMA EndOfReading ==
  ASSUME NEW r, NEW r2, NEW x, NEW x2,
         r.mem = "connected", r.reading, r2.mem = "connected", ~r2.reading,
         ~(x2[Listed] > 0),
         r2.error_code = r.error_code \/ r.error_code = "CLIENT_NET_ERROR"
  PROVE  Advances(r, x, r2, x2)
<1>1. PhaseOf(r, x) = "open" /\ PhaseOf(r2, x2) = "leaving"
  BY DEF PhaseOf
<1> QED
  BY <1>1 DEF Advances, ReasonOf, Lifetime!Follows

\* A leaving connection leaves, or is listed.
LEMMA LeavingAdvances ==
  ASSUME NEW r, NEW r2, NEW x, NEW x2,
         r.mem = "connected", ~r.reading, r2.mem = "connected", ~r2.reading,
         r2.error_code = r.error_code, x[Listed] > 0 => x2[Listed] > 0
  PROVE  Advances(r, x, r2, x2)
  BY DEF Advances, PhaseOf, ReasonOf, Lifetime!Follows

\* A destroyed connection was listed.
LEMMA FreedAdvances ==
  ASSUME NEW r, NEW r2, NEW x, NEW x2,
         r.mem = "connected", ~r.reading, x[Listed] > 0, r2.mem = "free"
  PROVE  Advances(r, x, r2, x2)
  BY DEF Advances, PhaseOf, ReasonOf, Lifetime!Follows

\* An accepted connection.
LEMMA AcceptAdvances ==
  ASSUME NEW r, NEW r2, NEW x,
         \/ r.mem = "free" /\ r2.mem = "accepting"
         \/ r.mem = "accepting" /\ r2.mem \in {"arriving", "free"}
         \/ /\ r.mem = "arriving" /\ r2.mem = "connected" /\ r2.reading
            /\ r2.error_code = "CLIENT_NET_ERROR"
  PROVE  Advances(r, x, r2, x)
  BY DEF Advances, PhaseOf, ReasonOf, Lifetime!Follows

--------------------------------------------------------------------------
(* All steps *)

\* No step takes any connection but to its next phase, or gives it a second
\* reason.
LEMMA Advance ==
  ASSUME ClientType, ExitsType, ReadState, OneContinuation,
         ErrorFindsDispatcher, ending \subseteq AuthEnd, kicks \subseteq Posted,
         [Next]_vars
  PROVE  AllAdvance
<1>1. ASSUME NEW c \in Slot, StartAccept(c) PROVE AllAdvance
  <2>1. /\ client[c].mem = "free" /\ client'[c].mem = "accepting"
        /\ \A d \in Slot \ {c} : client'[d] = client[d]
        /\ UNCHANGED exits
    BY <1>1 DEF StartAccept, NewClient, ReadState, ClientType, Client
  <2> QED
    BY <2>1, SamePhase, AcceptAdvances DEF AllAdvance
<1>2. ASSUME NEW c \in Slot, AcceptHandle(c) PROVE AllAdvance
  <2>1. /\ client[c].mem = "accepting" /\ client'[c].mem = "arriving"
        /\ \A d \in Slot \ {c} : client'[d] = client[d]
        /\ UNCHANGED exits
    BY <1>2 DEF AcceptHandle, ReadState, ClientType, Client
  <2> QED
    BY <2>1, SamePhase, AcceptAdvances DEF AllAdvance
<1>3. ASSUME NEW c \in Slot, AcceptRefused(c) PROVE AllAdvance
  <2>1. /\ client[c].mem = "accepting" /\ client'[c].mem = "free"
        /\ \A d \in Slot \ {c} : client'[d] = client[d]
        /\ UNCHANGED exits
    BY <1>3 DEF AcceptRefused, ReadState, ClientType, Client
  <2> QED
    BY <2>1, SamePhase, AcceptAdvances DEF AllAdvance
<1>4. ASSUME NEW c \in Slot, ClientConnected(c) PROVE AllAdvance
  <2>1. /\ client[c].mem = "arriving" /\ client'[c].mem = "connected"
        /\ client'[c].reading /\ client'[c].error_code = "CLIENT_NET_ERROR"
        /\ \A d \in Slot \ {c} : client'[d] = client[d]
        /\ UNCHANGED exits
    BY <1>4 DEF ClientConnected, ReadState, ClientType, Client
  <2> QED
    BY <2>1, SamePhase, AcceptAdvances DEF AllAdvance
<1>5. ASSUME NEW c \in Slot, ReceiveFailed(c) PROVE AllAdvance
  <2>1. /\ client[c].reading /\ PostBye(c)
        /\ client'[c].error_code = client[c].error_code
        /\ client'[c].mem = client[c].mem /\ ~client'[c].reading
        /\ \A d \in Slot \ {c} : client'[d] = client[d]
    BY <1>5 DEF ReceiveFailed, OnError, ClientType, Client
  <2>2. Connected(c)
    BY <2>1 DEF ReadState
  <2>3. /\ ~(exits'[c][Listed] > 0)
        /\ \A d \in Slot \ {c} : exits'[d] = exits[d]
    BY <2>1, StageMembers, PostByeLeaves DEF Listed
  <2> QED
    BY <2>1, <2>2, <2>3, SamePhase, EndOfReading DEF AllAdvance, Connected
<1>6. ASSUME NEW c \in Slot, NEW code \in Code, CommandRefused(c, code)
      PROVE  AllAdvance
  <2>1. /\ client[c].reading /\ PostBye(c)
        /\ client[c].available
        /\ client'[c].mem = client[c].mem /\ ~client'[c].reading
        /\ \A d \in Slot \ {c} : client'[d] = client[d]
    BY <1>6 DEF CommandRefused, OnError, Disconnect, ClientType, Client
  <2>2. Connected(c) /\ client[c].error_code = "CLIENT_NET_ERROR"
    BY <2>1 DEF ReadState
  <2>3. /\ ~(exits'[c][Listed] > 0)
        /\ \A d \in Slot \ {c} : exits'[d] = exits[d]
    BY <2>1, StageMembers, PostByeLeaves DEF Listed
  <2> QED
    BY <2>1, <2>2, <2>3, SamePhase, EndOfReading DEF AllAdvance, Connected
<1>7. ASSUME NEW c \in Slot, NEW p \in Plugin, NEW i \in Id, Login(c, p, i)
      PROVE  AllAdvance
  <2>1. CASE RequestBlockFree
    <3>1. /\ client' = [client EXCEPT ![c] = LoggingIn(client[c], p, i)]
          /\ UNCHANGED exits
      BY <1>7, <2>1 DEF Login
    <3>2. \A d \in Slot : /\ client'[d].mem = client[d].mem
                         /\ client'[d].reading = client[d].reading
                         /\ client'[d].error_code = client[d].error_code
      BY <3>1 DEF LoggingIn, ClientType, Client
    <3> QED
      BY <3>1, <3>2, SamePhase DEF AllAdvance
  <2>2. CASE ~RequestBlockFree
    <3>1. /\ client[c].reading /\ client[c].available /\ PostBye(c)
          /\ client' = [client EXCEPT ![c] =
               OnError(Disconnect(LoggingIn(client[c], p, i), "LOGIN_CONCURENCY_LIMIT"))]
      BY <1>7, <2>2 DEF Login
    <3>2. /\ client'[c].mem = client[c].mem /\ ~client'[c].reading
          /\ \A d \in Slot \ {c} : client'[d] = client[d]
      BY <3>1 DEF LoggingIn, OnError, Disconnect, ClientType, Client
    <3>3. Connected(c) /\ client[c].error_code = "CLIENT_NET_ERROR"
      BY <3>1 DEF ReadState
    <3>4. /\ ~(exits'[c][Listed] > 0)
          /\ \A d \in Slot \ {c} : exits'[d] = exits[d]
      BY <3>1, StageMembers, PostByeLeaves DEF Listed
    <3> QED
      BY <3>1, <3>2, <3>3, <3>4, SamePhase, EndOfReading
         DEF AllAdvance, Connected
  <2> QED
    BY <2>1, <2>2
<1>8. ASSUME NEW e \in ending, AuthJoin(e) PROVE AllAdvance
  <2>1. /\ \A d \in Slot : /\ client'[d].mem = client[d].mem
                          /\ client'[d].reading = client[d].reading
                          /\ client'[d].error_code = client[d].error_code
        /\ UNCHANGED exits
    BY <1>8 DEF AuthJoin, ClientType, Client
  <2> QED
    BY <2>1, SamePhase DEF AllAdvance
<1>9. ASSUME NEW e \in ending, AuthReject(e) PROVE AllAdvance
  <2>1. PICK c \in Slot : c = e.client
    BY <1>9 DEF AuthReject, AuthEnd
  <2>2. /\ e.code \in Code
        /\ client' = [client EXCEPT ![c] = Disconnect(client[c], e.code)]
        /\ UNCHANGED exits
    BY <1>9, <2>1 DEF AuthReject, AuthEnd
  <2>3. /\ client[c] \in Client
        /\ client[c].mem = "connected" /\ client[c].available
             => client[c].error_code = "CLIENT_NET_ERROR"
    BY DEF ClientType, ReadState, Connected
  <2>4. Advances(client[c], exits[c], Disconnect(client[c], e.code), exits[c])
    BY <2>2, <2>3, DisconnectAdvances
  <2> QED
    BY <2>2, <2>4, SamePhase DEF AllAdvance, ClientType
<1>10. ASSUME NEW c \in Slot, NEW s \in Stage, ServiceLeave(c, s)
       PROVE  AllAdvance
  <2>1. /\ s \in Stage /\ Listed \in Stage
        /\ exits[c][s] > 0 /\ MoveExit(c, s, Listed)
    BY <1>10, StageMembers DEF ServiceLeave
  <2>2. \A d \in Slot : /\ client'[d].mem = client[d].mem
                       /\ client'[d].reading = client[d].reading
                       /\ client'[d].error_code = client[d].error_code
    BY <1>10 DEF ServiceLeave, ClientType, Client
  <2>3. /\ \A u \in Stage : exits[c][u] > 0 => u = s
        /\ \A d \in Slot \ {c} : exits'[d] = exits[d]
    BY <2>1, MoveExitLeaves
  <2>4. exits'[c][Listed] > 0
    <3>1. exits'[c][Listed] = IF s = Listed THEN exits[c][Listed] ELSE exits[c][Listed] + 1
      BY <2>1, StageMembers DEF MoveExit, ExitsType
    <3> QED
      BY <2>1, <3>1, StageMembers DEF ExitsType
  <2>5. client[c].mem = "connected" /\ ~client[c].reading
    BY <2>1 DEF OneContinuation, Connected
  <2>6. Advances(client[c], exits[c], client'[c], exits'[c])
    BY <2>2, <2>4, <2>5, LeavingAdvances
  <2> QED
    BY <2>2, <2>3, <2>6, SamePhase DEF AllAdvance
<1>11. ASSUME NEW c \in Slot, NEW p \in Plugin, NEW s \in Stage, BeginUpdate(c, p, s)
       PROVE  AllAdvance
  <2>1. /\ s \in Stage /\ <<"update", p>> \in Stage
        /\ exits[c][s] > 0 /\ MoveExit(c, s, <<"update", p>>)
        /\ s \in {<<"bye", p>>, <<"retry", p>>}
    BY <1>11, StageMembers DEF BeginUpdate
  <2>2. \A d \in Slot : /\ client'[d].mem = client[d].mem
                       /\ client'[d].reading = client[d].reading
                       /\ client'[d].error_code = client[d].error_code
    BY <1>11 DEF BeginUpdate, ClientType, Client
  <2>3. /\ \A u \in Stage : exits[c][u] > 0 => u = s
        /\ \A d \in Slot \ {c} : exits'[d] = exits[d]
    BY <2>1, MoveExitLeaves
  <2>4. ~(exits[c][Listed] > 0)
    BY <2>1, <2>3, StageMembers DEF Listed
  <2>5. client[c].mem = "connected" /\ ~client[c].reading
    BY <2>1 DEF OneContinuation, Connected
  <2>6. Advances(client[c], exits[c], client'[c], exits'[c])
    BY <2>2, <2>4, <2>5, LeavingAdvances
  <2> QED
    BY <2>2, <2>3, <2>6, SamePhase DEF AllAdvance
<1>12. ASSUME NEW c \in Slot, NEW p \in Plugin, NEW s \in Stage, RemoveClient(c, p, s)
       PROVE  AllAdvance
  <2>1. /\ s \in Stage /\ <<"left", p>> \in Stage
        /\ exits[c][s] > 0 /\ MoveExit(c, s, <<"left", p>>)
        /\ s \in {<<"bye", p>>, <<"retry", p>>}
    BY <1>12, StageMembers DEF RemoveClient
  <2>2. \A d \in Slot : /\ client'[d].mem = client[d].mem
                       /\ client'[d].reading = client[d].reading
                       /\ client'[d].error_code = client[d].error_code
    BY <1>12 DEF RemoveClient, ClientType, Client
  <2>3. /\ \A u \in Stage : exits[c][u] > 0 => u = s
        /\ \A d \in Slot \ {c} : exits'[d] = exits[d]
    BY <2>1, MoveExitLeaves
  <2>4. ~(exits[c][Listed] > 0)
    BY <2>1, <2>3, StageMembers DEF Listed
  <2>5. client[c].mem = "connected" /\ ~client[c].reading
    BY <2>1 DEF OneContinuation, Connected
  <2>6. Advances(client[c], exits[c], client'[c], exits'[c])
    BY <2>2, <2>4, <2>5, LeavingAdvances
  <2> QED
    BY <2>2, <2>3, <2>6, SamePhase DEF AllAdvance
<1>13. ASSUME NEW c \in Slot, NEW p \in Plugin, NEW ok \in BOOLEAN, EndUpdate(c, p, ok)
       PROVE  AllAdvance
  <2>1. /\ <<"update", p>> \in Stage /\ <<"left", p>> \in Stage
        /\ exits[c][<<"update", p>>] > 0 /\ MoveExit(c, <<"update", p>>, <<"left", p>>)
    BY <1>13, StageMembers DEF EndUpdate
  <2>2. \A d \in Slot : /\ client'[d].mem = client[d].mem
                       /\ client'[d].reading = client[d].reading
                       /\ client'[d].error_code = client[d].error_code
    BY <1>13 DEF EndUpdate, ClientType, Client
  <2>3. /\ \A u \in Stage : exits[c][u] > 0 => u = <<"update", p>>
        /\ \A d \in Slot \ {c} : exits'[d] = exits[d]
    BY <2>1, MoveExitLeaves
  <2>4. ~(exits[c][Listed] > 0)
    BY <2>1, <2>3, StageMembers DEF Listed
  <2>5. client[c].mem = "connected" /\ ~client[c].reading
    BY <2>1 DEF OneContinuation, Connected
  <2>6. Advances(client[c], exits[c], client'[c], exits'[c])
    BY <2>2, <2>4, <2>5, LeavingAdvances
  <2> QED
    BY <2>2, <2>3, <2>6, SamePhase DEF AllAdvance
<1>14. ASSUME NEW c \in Slot, NEW p \in Plugin, RetryUpdate(c, p)
       PROVE  AllAdvance
  <2>1. /\ <<"update", p>> \in Stage /\ <<"retry", p>> \in Stage
        /\ exits[c][<<"update", p>>] > 0 /\ MoveExit(c, <<"update", p>>, <<"retry", p>>)
    BY <1>14, StageMembers DEF RetryUpdate
  <2>2. \A d \in Slot : /\ client'[d].mem = client[d].mem
                       /\ client'[d].reading = client[d].reading
                       /\ client'[d].error_code = client[d].error_code
    BY <1>14 DEF RetryUpdate, ClientType, Client
  <2>3. /\ \A u \in Stage : exits[c][u] > 0 => u = <<"update", p>>
        /\ \A d \in Slot \ {c} : exits'[d] = exits[d]
    BY <2>1, MoveExitLeaves
  <2>4. ~(exits[c][Listed] > 0)
    BY <2>1, <2>3, StageMembers DEF Listed
  <2>5. client[c].mem = "connected" /\ ~client[c].reading
    BY <2>1 DEF OneContinuation, Connected
  <2>6. Advances(client[c], exits[c], client'[c], exits'[c])
    BY <2>2, <2>4, <2>5, LeavingAdvances
  <2> QED
    BY <2>2, <2>3, <2>6, SamePhase DEF AllAdvance
<1>15. ASSUME NEW S \in SUBSET Slot, CheckTimeout(S) PROVE AllAdvance
  <2>1. \A d \in Slot : exits[d][Listed] > 0 => client[d].mem = "connected" /\ ~client[d].reading
    BY StageMembers DEF OneContinuation, Connected
  <2>2. \A d \in Slot :
          \/ /\ client'[d] = client[d]
             /\ exits'[d] = exits[d]
          \/ exits[d][Listed] > 0 /\ client'[d].mem = "free"
    BY <1>15, StageMembers
       DEF CheckTimeout, Destroyable, ClientType, Client, ExitsType
  <2> QED
    BY <2>1, <2>2, SamePhase, FreedAdvances DEF AllAdvance
<1>16. ASSUME NEW k \in kicks, RunKick(k) PROVE AllAdvance
  <2>1. PICK c \in Slot : c = k.client
    BY <1>16 DEF RunKick, Posted
  <2>2. /\ k.code \in Code
        /\ client' = [client EXCEPT ![c] = Disconnect(client[c], k.code)]
        /\ UNCHANGED exits
    BY <1>16, <2>1 DEF RunKick, Posted
  <2>3. /\ client[c] \in Client
        /\ client[c].mem = "connected" /\ client[c].available
             => client[c].error_code = "CLIENT_NET_ERROR"
    BY DEF ClientType, ReadState, Connected
  <2>4. Advances(client[c], exits[c], Disconnect(client[c], k.code), exits[c])
    BY <2>2, <2>3, DisconnectAdvances
  <2> QED
    BY <2>2, <2>4, SamePhase DEF AllAdvance, ClientType
<1>17. ASSUME NEW p \in Plugin, Broadcast(p) PROVE AllAdvance
  <2>1. /\ \A d \in Slot : /\ client'[d].mem = client[d].mem
                          /\ client'[d].reading = client[d].reading
                          /\ client'[d].error_code = client[d].error_code
        /\ UNCHANGED exits
    BY <1>17 DEF Broadcast, ClientType, Client
  <2> QED
    BY <2>1, SamePhase DEF AllAdvance
<1>18. ASSUME NEW c \in Slot, SendHandle(c) PROVE AllAdvance
  <2>1. /\ \A d \in Slot : /\ client'[d].mem = client[d].mem
                          /\ client'[d].reading = client[d].reading
                          /\ client'[d].error_code = client[d].error_code
        /\ UNCHANGED exits
    BY <1>18 DEF SendHandle, ClientType, Client
  <2> QED
    BY <2>1, SamePhase DEF AllAdvance
<1>19. ASSUME StopClients PROVE AllAdvance
  <2>1. /\ \A d \in Slot : \/ client'[d] = client[d]
                          \/ client'[d] = Disconnect(client[d], "SERVER_CLOSEING")
        /\ UNCHANGED exits
    BY <1>19 DEF StopClients
  <2>2. ASSUME NEW d \in Slot
        PROVE  Advances(client[d], exits[d],
                        Disconnect(client[d], "SERVER_CLOSEING"), exits[d])
    <3>1. /\ client[d] \in Client
          /\ client[d].mem = "connected" /\ client[d].available
               => client[d].error_code = "CLIENT_NET_ERROR"
      BY DEF ClientType, ReadState, Connected
    <3>2. "SERVER_CLOSEING" \in Code
      BY DEF Code
    <3> QED
      BY <3>1, <3>2, DisconnectAdvances
  <2> QED
    BY <2>1, <2>2, SamePhase DEF AllAdvance
<1>20. ASSUME Stopped PROVE AllAdvance
  <2>1. \A d \in Slot : exits[d][Listed] > 0 => client[d].mem = "connected" /\ ~client[d].reading
    BY StageMembers DEF OneContinuation, Connected
  <2>2. \A d \in Slot :
          \/ /\ client'[d] = client[d]
             /\ exits'[d] = exits[d]
          \/ exits[d][Listed] > 0 /\ client'[d].mem = "free"
    BY <1>20, StageMembers
       DEF Stopped, Destroyable, ClientType, Client, ExitsType
  <2> QED
    BY <2>1, <2>2, SamePhase, FreedAdvances DEF AllAdvance
<1>21. CASE QuietStep
  BY <1>21, QuietUnchanged, SamePhase DEF AllAdvance
<1> QED
  BY <1>1, <1>2, <1>3, <1>4, <1>5, <1>6, <1>7, <1>8, <1>9, <1>10, <1>11, <1>12,
     <1>13, <1>14, <1>15, <1>16, <1>17, <1>18, <1>19, <1>20, <1>21
     DEF Next, AcceptStep, ReceiveStep, AuthStep, LeaveStep, OwnerStep, QuietStep

\* The server implements ConnectionLifetime: for any number of addresses, and
\* with all handlers interleaved, a connection is accepted, open, leaving,
\* listed and destroyed in this order, for one reason.
THEOREM LifetimeImplemented == Spec => ImplementsLifetime
<1>1. Init => Lifetime!Init
  <2> SUFFICES ASSUME Init PROVE Lifetime!Init
    OBVIOUS
  <2>1. \A c \in Slot : client[c].mem = "free"
    BY DEF Init, NewClient
  <2> QED
    BY <2>1 DEF Lifetime!Init, phase, reason, PhaseOf, ReasonOf
<1>2. IndInv /\ [Next]_vars => [Lifetime!Next]_(Lifetime!lvars)
  <2> SUFFICES ASSUME IndInv, [Next]_vars PROVE Lifetime!Next
    OBVIOUS
  <2>1. /\ ClientType /\ ExitsType /\ ReadState /\ OneContinuation
        /\ ErrorFindsDispatcher /\ ending \subseteq AuthEnd /\ kicks \subseteq Posted
    BY DEF IndInv, TypeOK, ClientType, ExitsType
  <2>2. AllAdvance
    BY <2>1, Advance
  <2>3. phase' \in [Slot -> Lifetime!Phase]
    BY DEF phase, PhaseOf, Lifetime!Phase
  <2>4. reason' \in [Slot -> Code]
    <3>1. client' \in [Slot -> Client]
      BY TypeStep DEF IndInv, TypeOK
    <3>2. \A c \in Slot : ReasonOf(client'[c]) \in Code
      BY <3>1 DEF ReasonOf, Client, Code
    <3> QED
      BY <3>2 DEF reason
  <2>5. \A c \in Slot : /\ phase[c] = PhaseOf(client[c], exits[c])
                       /\ phase'[c] = PhaseOf(client'[c], exits'[c])
                       /\ reason[c] = ReasonOf(client[c])
                       /\ reason'[c] = ReasonOf(client'[c])
    BY DEF phase, reason
  <2>6. ASSUME NEW c \in Slot
        PROVE  /\ phase'[c] = phase[c] \/ <<phase[c], phase'[c]>> \in Lifetime!Follows
               /\ Lifetime!ReasonStep(c)
    BY <2>2, <2>5 DEF AllAdvance, Advances, Lifetime!ReasonStep
  <2> QED
    BY <2>3, <2>4, <2>6 DEF Lifetime!Next
<1> QED
  BY <1>1, <1>2, Inductive, PTL DEF Spec, ImplementsLifetime, Lifetime!Spec

--------------------------------------------------------------------------
(* A leave runs out: LeaverDestroyed, but for the fairness that makes every
   handler run.                                                            *)

\* How many handlers may still run, from the one of stage s with n tries left,
\* until the client is on the destroy list: an update that fails is followed by
\* its timer and one try less.
StageSteps(s, n) ==
  CASE s = Listed -> 0
    [] s \in {"left"} \X Plugin -> 1
    [] s \in {"update"} \X Plugin -> 2 * n
    [] OTHER -> 2 * n + 1

HandlersLeft(c, s) == StageSteps(s, client[c].retries)

\* A client that is pending on its way out never gets farther from the destroy
\* list, whatever the other threads, the owner and the peers do, and every
\* handler of its leave brings it nearer, from 2 * UP_RE_TIMES + 1 at most.
LeavesRunOut ==
  [][\A c \in Slot, s, t \in Stage :
       exits[c][s] > 0 /\ exits'[c][t] > 0 =>
         /\ HandlersLeft(c, s) \in 0..(2 * UP_RE_TIMES + 1)
         /\ HandlersLeft(c, t)' <= HandlersLeft(c, s)
         /\ LeaveStep(c) => HandlersLeft(c, t)' < HandlersLeft(c, s)]_vars

\* The tries of r are used up only when the last one has been answered.
Tries(r, x) ==
  /\ r.retries \in 0..UP_RE_TIMES
  /\ \/ r.retries > 0
     \/ r.mem = "free"
     \/ /\ r.mem = "connected" /\ ~r.reading
        /\ \E s \in {"left"} \X Plugin \cup {Listed} : x[s] > 0

TriesLeft == \A c \in Slot : Tries(client[c], exits[c])

NoFarther(c) ==
  \A s, t \in Stage : exits[c][s] > 0 /\ exits'[c][t] > 0 =>
                        HandlersLeft(c, t)' <= HandlersLeft(c, s)

\* What a step must leave of the address c.
OnItsWay(c) == Tries(client'[c], exits'[c]) /\ NoFarther(c)

\* Nothing is left to run for a client on the list.
LEMMA ListedStage == \A n : StageSteps(Listed, n) = 0
<1>1. Listed \notin {"left"} \X Plugin /\ Listed \notin {"update"} \X Plugin
  BY DEF Listed
<1> QED BY <1>1 DEF StageSteps

\* What the stages are worth.
LEMMA StageWorth ==
  ASSUME NEW n, NEW p \in Plugin
  PROVE  /\ StageSteps(Listed, n) = 0
         /\ StageSteps(<<"left", p>>, n) = 1
         /\ StageSteps(<<"update", p>>, n) = 2 * n
         /\ StageSteps(<<"retry", p>>, n) = 2 * n + 1
         /\ StageSteps(<<"bye", p>>, n) = 2 * n + 1
         /\ StageSteps(<<"bye", SERVICE>>, n) = 2 * n + 1
<1>1. /\ <<"left", p>> # Listed /\ <<"update", p>> # Listed
      /\ <<"retry", p>> # Listed /\ <<"bye", p>> # Listed /\ <<"bye", SERVICE>> # Listed
  BY DEF Listed
<1>2. /\ <<"left", p>> \in {"left"} \X Plugin
      /\ <<"update", p>> \notin {"left"} \X Plugin
      /\ <<"update", p>> \in {"update"} \X Plugin
      /\ <<"retry", p>> \notin {"left", "update"} \X Plugin
      /\ <<"bye", p>> \notin {"left", "update"} \X Plugin
      /\ <<"bye", SERVICE>> \notin {"left", "update"} \X Plugin
  OBVIOUS
<1>3. \A s : s \notin {"left", "update"} \X Plugin
               => s \notin {"left"} \X Plugin /\ s \notin {"update"} \X Plugin
  OBVIOUS
<1>4. StageSteps(Listed, n) = 0
  BY ListedStage
<1>5. StageSteps(<<"left", p>>, n) = 1
  BY <1>1, <1>2 DEF StageSteps
<1>6. StageSteps(<<"update", p>>, n) = 2 * n
  BY <1>1, <1>2 DEF StageSteps
<1>7. StageSteps(<<"retry", p>>, n) = 2 * n + 1
  BY <1>1, <1>2, <1>3 DEF StageSteps
<1>8. StageSteps(<<"bye", p>>, n) = 2 * n + 1
  BY <1>1, <1>2, <1>3 DEF StageSteps
<1>9. StageSteps(<<"bye", SERVICE>>, n) = 2 * n + 1
  BY <1>1, <1>2, <1>3 DEF StageSteps
<1> QED BY <1>4, <1>5, <1>6, <1>7, <1>8, <1>9

\* Between 0 and twice the tries plus one.
LEMMA StageRange ==
  ASSUME NEW s \in Stage, NEW n \in Nat, n > 0 \/ s \in {"left"} \X Plugin \cup {Listed}
  PROVE  StageSteps(s, n) \in 0..(2 * n + 1)
BY DEF StageSteps

\* Only one handler of a client is pending.
LEMMA OnePending ==
  ASSUME OneContinuation, NEW c \in Slot, NEW s \in Stage, exits[c][s] > 0
  PROVE  /\ client[c].mem = "connected" /\ ~client[c].reading
         /\ \A t \in Stage : exits[c][t] > 0 => t = s
BY DEF OneContinuation, Connected

\* An address that a step does not change in what matters here.
LEMMA SameWay ==
  ASSUME OneContinuation, TriesLeft, ClientType, NEW c \in Slot,
         exits'[c] = exits[c],
         client'[c].mem = client[c].mem, client'[c].reading = client[c].reading,
         client'[c].retries = client[c].retries
  PROVE  OnItsWay(c)
<1>1. Tries(client'[c], exits'[c])
  BY DEF TriesLeft, Tries
<1>2. NoFarther(c)
  <2> SUFFICES ASSUME NEW s \in Stage, NEW t \in Stage, exits[c][s] > 0, exits'[c][t] > 0
               PROVE  HandlersLeft(c, t)' <= HandlersLeft(c, s)
    BY DEF NoFarther
  <2>1. s = t
    BY OnePending
  <2>2. client[c].retries \in Nat
    BY DEF TriesLeft, Tries
  <2>3. StageSteps(s, client[c].retries) \in Int
    BY <2>2 DEF StageSteps
  <2> QED BY <2>1, <2>3 DEF HandlersLeft
<1> QED BY <1>1, <1>2 DEF OnItsWay

\* An address with no handler pending.
LEMMA NoWayYet ==
  ASSUME OneContinuation, NEW c \in Slot, ~Connected(c) \/ client[c].reading,
         client'[c].retries \in 0..UP_RE_TIMES,
         client'[c].retries > 0 \/ client'[c].mem = "free"
  PROVE  OnItsWay(c)
<1>1. \A t \in Stage : ~(exits[c][t] > 0)
  BY DEF OneContinuation
<1> QED BY <1>1 DEF OnItsWay, Tries, NoFarther

\* An address on the destroy list that is freed.
LEMMA EndOfWay ==
  ASSUME OneContinuation, TriesLeft, NEW c \in Slot, exits[c][Listed] > 0,
         exits'[c] = [exits[c] EXCEPT ![Listed] = 0], ExitsType,
         client'[c].mem = "free", client'[c].retries = client[c].retries
  PROVE  OnItsWay(c)
<1>1. \A t \in Stage : exits[c][t] > 0 => t = Listed
  BY StageMembers, OnePending
<1>2. \A t \in Stage : ~(exits'[c][t] > 0)
  BY <1>1, StageMembers DEF ExitsType
<1> QED BY <1>2 DEF OnItsWay, NoFarther, Tries, TriesLeft

\* A client that moves from stage s to stage t.
LEMMA OneMove ==
  ASSUME OneContinuation, TriesLeft, ExitsType, NEW c \in Slot,
         NEW s \in Stage, NEW t \in Stage, exits[c][s] > 0, MoveExit(c, s, t)
  PROVE  /\ \A u \in Stage : exits[c][u] > 0 => u = s
         /\ \A u \in Stage : exits'[c][u] > 0 => u = t
         /\ exits'[c][t] > 0
         /\ \A d \in Slot \ {c} : exits'[d] = exits[d]
         /\ client[c].mem = "connected" /\ ~client[c].reading
         /\ client[c].retries \in 0..UP_RE_TIMES
         /\ s \notin {"left"} \X Plugin \cup {Listed} => client[c].retries > 0
<1>1. \A u \in Stage : exits[c][u] > 0 => u = s
  BY MoveExitLeaves
<1>2. exits'[c][t] > 0
  <2>1. \A u \in Stage : exits[c][u] = IF u = s THEN 1 ELSE 0
    BY DEF OneContinuation
  <2>2. exits'[c][t] = 1
    BY <2>1 DEF MoveExit, ExitsType
  <2> QED BY <2>2
<1>3. s \notin {"left"} \X Plugin \cup {Listed} => client[c].retries > 0
  <2>1. {"left"} \X Plugin \cup {Listed} \subseteq Stage
    BY StageMembers DEF Stage
  <2> QED BY <1>1, <2>1, OnePending DEF TriesLeft, Tries
<1> QED BY <1>1, <1>2, <1>3, MoveExitLeaves, OnePending DEF TriesLeft, Tries

\* Every handler of a leave brings its client nearer to the list, and leaves
\* the others where they are.
LEMMA LeaveNearer ==
  ASSUME OneContinuation, TriesLeft, ExitsType, ClientType, NEW c \in Slot,
         LeaveStep(c)
  PROVE  /\ \A s, t \in Stage : exits[c][s] > 0 /\ exits'[c][t] > 0 =>
                HandlersLeft(c, t)' < HandlersLeft(c, s)
         /\ \A d \in Slot : OnItsWay(d)
<1> USE NumbersAssumption
<1> DEFINE n == client[c].retries
<1> DEFINE m == client'[c].retries
<1> DEFINE Others == \A d \in Slot \ {c} : /\ client'[d] = client[d]
                                         /\ exits'[d] = exits[d]
<1> DEFINE Nearer == \A s, t \in Stage : exits[c][s] > 0 /\ exits'[c][t] > 0 =>
                       StageSteps(t, m) < StageSteps(s, n)
<1>0. ASSUME NEW s \in Stage, NEW t \in Stage, exits[c][s] > 0, MoveExit(c, s, t),
             StageSteps(t, m) < StageSteps(s, n)
      PROVE  Nearer
  BY <1>0, OneMove
<1>1. ASSUME NEW s \in Stage, ServiceLeave(c, s)
      PROVE  Nearer /\ Tries(client'[c], exits'[c]) /\ Others
  <2>1. /\ exits[c][s] > 0 /\ MoveExit(c, s, Listed) /\ Listed \in Stage
        /\ s = <<"bye", SERVICE>> \/ \E p \in Plugin : s = <<"left", p>>
        /\ m = n /\ client'[c].mem = client[c].mem
        /\ client'[c].reading = client[c].reading
        /\ \A d \in Slot \ {c} : client'[d] = client[d]
    BY <1>1, StageMembers DEF ServiceLeave, ClientType, Client
  <2>2. n \in Nat /\ StageSteps(Listed, m) = 0
    BY <2>1, OneMove, ListedStage
  <2>3. StageSteps(s, n) > 0
    <3>1. CASE s = <<"bye", SERVICE>>
      <4>1. s # Listed /\ s \notin {"left"} \X Plugin /\ s \notin {"update"} \X Plugin
        BY <3>1 DEF Listed
      <4> QED BY <2>2, <4>1 DEF StageSteps
    <3>2. ASSUME NEW p \in Plugin, s = <<"left", p>> PROVE StageSteps(s, n) > 0
      <4>1. StageSteps(<<"left", p>>, n) = 1
        BY StageWorth
      <4> QED BY <3>2, <4>1
    <3> QED BY <2>1, <3>1, <3>2
  <2>4. Nearer
    BY <2>1, <2>2, <2>3, <1>0
  <2>5. Tries(client'[c], exits'[c]) /\ \A d \in Slot \ {c} : exits'[d] = exits[d]
    BY <2>1, OneMove DEF Tries
  <2> QED BY <2>1, <2>4, <2>5
<1>2. ASSUME NEW p \in Plugin, NEW s \in Stage, BeginUpdate(c, p, s)
      PROVE  Nearer /\ Tries(client'[c], exits'[c]) /\ Others
  <2> DEFINE u == <<"update", p>>
  <2>1. /\ exits[c][s] > 0 /\ MoveExit(c, s, u) /\ u \in Stage
        /\ s = <<"bye", p>> \/ s = <<"retry", p>>
        /\ m = n /\ \A d \in Slot \ {c} : client'[d] = client[d]
    BY <1>2, StageMembers DEF BeginUpdate, ClientType, Client
  <2>2. StageSteps(s, n) = 2 * n + 1 /\ StageSteps(u, m) = 2 * n
    BY <2>1, StageWorth
  <2>3. s \notin {"left"} \X Plugin \cup {Listed}
    BY <2>1 DEF Listed
  <2>4. n \in 1..UP_RE_TIMES /\ \A d \in Slot \ {c} : exits'[d] = exits[d]
    BY <2>1, <2>3, OneMove
  <2>5. Nearer
    BY <2>1, <2>2, <2>4, <1>0
  <2> QED BY <2>1, <2>4, <2>5 DEF Tries
<1>3. ASSUME NEW p \in Plugin, NEW s \in Stage, RemoveClient(c, p, s)
      PROVE  Nearer /\ Tries(client'[c], exits'[c]) /\ Others
  <2> DEFINE u == <<"left", p>>
  <2>1. /\ exits[c][s] > 0 /\ MoveExit(c, s, u) /\ u \in Stage
        /\ s = <<"bye", p>> \/ s = <<"retry", p>>
        /\ m = n /\ \A d \in Slot \ {c} : client'[d] = client[d]
    BY <1>3, StageMembers DEF RemoveClient, ClientType, Client
  <2>2. StageSteps(s, n) = 2 * n + 1 /\ StageSteps(u, m) = 1
    BY <2>1, StageWorth
  <2>3. s \notin {"left"} \X Plugin \cup {Listed}
    BY <2>1 DEF Listed
  <2>4. n \in 1..UP_RE_TIMES /\ \A d \in Slot \ {c} : exits'[d] = exits[d]
    BY <2>1, <2>3, OneMove
  <2>5. Nearer
    BY <2>1, <2>2, <2>4, <1>0
  <2> QED BY <2>1, <2>4, <2>5 DEF Tries
<1>4. ASSUME NEW p \in Plugin, NEW ok \in BOOLEAN, EndUpdate(c, p, ok)
      PROVE  Nearer /\ Tries(client'[c], exits'[c]) /\ Others
  <2> DEFINE s == <<"update", p>>
  <2> DEFINE u == <<"left", p>>
  <2>1. /\ exits[c][s] > 0 /\ MoveExit(c, s, u) /\ s \in Stage /\ u \in Stage
        /\ m = IF ok THEN n ELSE n - 1
        /\ client'[c].mem = client[c].mem /\ client'[c].reading = client[c].reading
        /\ \A d \in Slot \ {c} : client'[d] = client[d]
    BY <1>4, StageMembers DEF EndUpdate, ClientType, Client
  <2>2. StageSteps(s, n) = 2 * n /\ StageSteps(u, m) = 1
    BY StageWorth
  <2>3. s \notin {"left"} \X Plugin \cup {Listed} /\ u \in {"left"} \X Plugin
    BY DEF Listed
  <2>4. /\ n \in 1..UP_RE_TIMES /\ \A d \in Slot \ {c} : exits'[d] = exits[d]
        /\ exits'[c][u] > 0 /\ client[c].mem = "connected" /\ ~client[c].reading
    BY <2>1, <2>3, OneMove
  <2>5. Nearer
    BY <2>1, <2>2, <2>4, <1>0
  <2>6. m \in 0..UP_RE_TIMES
    BY <2>1, <2>4
  <2> QED BY <2>1, <2>3, <2>4, <2>5, <2>6 DEF Tries
<1>5. ASSUME NEW p \in Plugin, RetryUpdate(c, p)
      PROVE  Nearer /\ Tries(client'[c], exits'[c]) /\ Others
  <2> DEFINE s == <<"update", p>>
  <2> DEFINE u == <<"retry", p>>
  <2>1. /\ exits[c][s] > 0 /\ MoveExit(c, s, u) /\ s \in Stage /\ u \in Stage
        /\ m = n - 1 /\ n > 1
        /\ \A d \in Slot \ {c} : client'[d] = client[d]
    BY <1>5, StageMembers DEF RetryUpdate, ClientType, Client
  <2>2. StageSteps(s, n) = 2 * n /\ StageSteps(u, m) = 2 * m + 1
    BY StageWorth
  <2>3. n \in 0..UP_RE_TIMES /\ \A d \in Slot \ {c} : exits'[d] = exits[d]
    BY <2>1, OneMove
  <2>4. Nearer
    BY <2>1, <2>2, <2>3, <1>0
  <2> QED BY <2>1, <2>3, <2>4 DEF Tries
<1>6. Nearer /\ Tries(client'[c], exits'[c]) /\ Others
  BY <1>1, <1>2, <1>3, <1>4, <1>5 DEF LeaveStep
<1>7. \A s, t \in Stage : exits[c][s] > 0 /\ exits'[c][t] > 0 =>
        HandlersLeft(c, t)' < HandlersLeft(c, s)
  BY <1>6 DEF HandlersLeft
<1>8. OnItsWay(c)
  <2> SUFFICES ASSUME NEW s \in Stage, NEW t \in Stage, exits[c][s] > 0, exits'[c][t] > 0
               PROVE  HandlersLeft(c, t)' <= HandlersLeft(c, s)
    BY <1>6 DEF OnItsWay, NoFarther
  <2>1. n \in Nat /\ m \in Nat
    BY <1>6 DEF TriesLeft, Tries
  <2>2. StageSteps(t, m) \in Int /\ StageSteps(s, n) \in Int
    BY <2>1 DEF StageSteps
  <2> QED BY <1>6, <2>2 DEF HandlersLeft
<1> QED BY <1>6, <1>7, <1>8, SameWay

\* No step takes anybody away from the list.
LEMMA WayStep ==
  ASSUME ClientType, ExitsType, ReadState, OneContinuation, TriesLeft,
         ending \subseteq AuthEnd, kicks \subseteq Posted, [Next]_vars
  PROVE  \A d \in Slot : OnItsWay(d)
<1> DEFINE Fine == \A d \in Slot : OnItsWay(d)
<1>0. \A c \in Slot : client[c].retries \in 0..UP_RE_TIMES
  BY DEF TriesLeft, Tries
<1>1. ASSUME NEW c \in Slot, StartAccept(c) PROVE Fine
  <2>1. /\ ~Connected(c) /\ client'[c].retries = UP_RE_TIMES
        /\ \A d \in Slot \ {c} : client'[d] = client[d]
        /\ UNCHANGED exits
    BY <1>1 DEF StartAccept, NewClient, Connected, ClientType
  <2>2. OnItsWay(c)
    BY <2>1, NoWayYet, NumbersAssumption
  <2> QED BY <2>1, <2>2, SameWay
<1>2. ASSUME NEW c \in Slot, AcceptHandle(c) \/ AcceptRefused(c) \/ ClientConnected(c)
      PROVE  Fine
  <2>1. /\ ~Connected(c) /\ client[c].mem # "free"
        /\ client'[c].retries = client[c].retries
        /\ \A d \in Slot \ {c} : client'[d] = client[d]
        /\ UNCHANGED exits
    BY <1>2 DEF AcceptHandle, AcceptRefused, ClientConnected, Connected, ClientType, Client
  <2>2. client[c].retries > 0
    BY <2>1 DEF TriesLeft, Tries, Connected
  <2>3. OnItsWay(c)
    BY <2>1, <2>2, <1>0, NoWayYet
  <2> QED BY <2>1, <2>3, SameWay
<1>3. ASSUME NEW c \in Slot,
             \/ ReceiveFailed(c) \/ \E code \in Code : CommandRefused(c, code)
             \/ \E p \in Plugin, i \in Id : Login(c, p, i)
      PROVE  Fine
  <2>1. /\ client[c].reading /\ (PostBye(c) \/ UNCHANGED exits)
        /\ client'[c].retries = client[c].retries
        /\ \A d \in Slot \ {c} : client'[d] = client[d]
    <3>1. CASE ReceiveFailed(c)
      BY <3>1 DEF ReceiveFailed, OnError, ClientType, Client
    <3>2. ASSUME NEW code \in Code, CommandRefused(c, code)
          PROVE  /\ client[c].reading /\ PostBye(c)
                 /\ client'[c].retries = client[c].retries
                 /\ \A d \in Slot \ {c} : client'[d] = client[d]
      BY <3>2 DEF CommandRefused, OnError, Disconnect, ClientType, Client
    <3>3. ASSUME NEW p \in Plugin, NEW i \in Id, Login(c, p, i)
          PROVE  /\ client[c].reading /\ (PostBye(c) \/ UNCHANGED exits)
                 /\ client'[c].retries = client[c].retries
                 /\ \A d \in Slot \ {c} : client'[d] = client[d]
      <4>1. LoggingIn(client[c], p, i).retries = client[c].retries
        BY DEF LoggingIn, ClientType, Client
      <4>2. CASE RequestBlockFree
        <5>1. /\ client' = [client EXCEPT ![c] = LoggingIn(client[c], p, i)]
              /\ UNCHANGED exits /\ client[c].reading
          BY <3>3, <4>2 DEF Login
        <5> QED BY <4>1, <5>1 DEF ClientType
      <4>3. CASE ~RequestBlockFree
        <5>1. /\ client' = [client EXCEPT ![c] =
                   OnError(Disconnect(LoggingIn(client[c], p, i), "LOGIN_CONCURENCY_LIMIT"))]
              /\ client[c].reading /\ PostBye(c)
          BY <3>3, <4>3 DEF Login
        <5> QED BY <5>1 DEF LoggingIn, OnError, Disconnect, ClientType, Client
      <4> QED BY <4>2, <4>3
    <3> QED BY <1>3, <3>1, <3>2, <3>3
  <2>2. client[c].retries > 0
    BY <2>1 DEF TriesLeft, Tries, ReadState, Connected
  <2>3. OnItsWay(c)
    BY <2>1, <2>2, <1>0, NoWayYet
  <2>4. \A d \in Slot \ {c} : exits'[d] = exits[d]
    BY <2>1 DEF PostBye, ExitsType
  <2> QED BY <2>1, <2>3, <2>4, SameWay
<1>4. ASSUME NEW c \in Slot, LeaveStep(c) PROVE Fine
  BY <1>4, LeaveNearer
<1>5. ASSUME NEW e \in ending, AuthJoin(e) PROVE Fine
  <2>1. /\ \A d \in Slot : /\ client'[d].mem = client[d].mem
                          /\ client'[d].reading = client[d].reading
                          /\ client'[d].retries = client[d].retries
        /\ UNCHANGED exits
    BY <1>5 DEF AuthJoin, ClientType, Client
  <2> QED BY <2>1, SameWay
<1>6. ASSUME NEW e \in ending, AuthReject(e) PROVE Fine
  <2>1. /\ \A d \in Slot : /\ client'[d].mem = client[d].mem
                          /\ client'[d].reading = client[d].reading
                          /\ client'[d].retries = client[d].retries
        /\ UNCHANGED exits
    BY <1>6 DEF AuthReject, Disconnect, ClientType, Client
  <2> QED BY <2>1, SameWay
<1>7. ASSUME NEW k \in kicks, RunKick(k) PROVE Fine
  <2>1. /\ \A d \in Slot : /\ client'[d].mem = client[d].mem
                          /\ client'[d].reading = client[d].reading
                          /\ client'[d].retries = client[d].retries
        /\ UNCHANGED exits
    BY <1>7 DEF RunKick, Disconnect, ClientType, Client
  <2> QED BY <2>1, SameWay
<1>8. ASSUME NEW p \in Plugin, Broadcast(p) PROVE Fine
  <2>1. /\ \A d \in Slot : /\ client'[d].mem = client[d].mem
                          /\ client'[d].reading = client[d].reading
                          /\ client'[d].retries = client[d].retries
        /\ UNCHANGED exits
    BY <1>8 DEF Broadcast, ClientType, Client
  <2> QED BY <2>1, SameWay
<1>9. ASSUME NEW c \in Slot, SendHandle(c) PROVE Fine
  <2>1. /\ \A d \in Slot : /\ client'[d].mem = client[d].mem
                          /\ client'[d].reading = client[d].reading
                          /\ client'[d].retries = client[d].retries
        /\ UNCHANGED exits
    BY <1>9 DEF SendHandle, ClientType, Client
  <2> QED BY <2>1, SameWay
<1>10. ASSUME StopClients PROVE Fine
  <2>1. /\ \A d \in Slot : \/ client'[d] = client[d]
                          \/ client'[d] = Disconnect(client[d], "SERVER_CLOSEING")
        /\ UNCHANGED exits
    BY <1>10 DEF StopClients
  <2>2. \A d \in Slot : /\ client'[d].mem = client[d].mem
                       /\ client'[d].reading = client[d].reading
                       /\ client'[d].retries = client[d].retries
    BY <2>1 DEF Disconnect, ClientType, Client
  <2> QED BY <2>1, <2>2, SameWay
<1>11. ASSUME NEW S \in SUBSET Slot, CheckTimeout(S) PROVE Fine
  <2>1. ASSUME NEW d \in Slot PROVE OnItsWay(d)
    <3>1. CASE Destroyable(d)
      <4>1. /\ exits'[d] = [exits[d] EXCEPT ![Listed] = 0] /\ exits[d][Listed] > 0
            /\ client'[d].mem = "free" /\ client'[d].retries = client[d].retries
        BY <1>11, <3>1 DEF CheckTimeout, Destroyable, ClientType, Client
      <4> QED BY <4>1, EndOfWay
    <3>2. CASE ~Destroyable(d)
      <4>1. exits'[d] = exits[d] /\ client'[d] = client[d]
        BY <1>11, <3>2 DEF CheckTimeout
      <4> QED BY <4>1, SameWay
    <3> QED BY <3>1, <3>2
  <2> QED BY <2>1
<1>12. ASSUME Stopped PROVE Fine
  <2>1. ASSUME NEW d \in Slot PROVE OnItsWay(d)
    <3>1. CASE exits[d][Listed] > 0
      <4>1. /\ exits'[d] = [exits[d] EXCEPT ![Listed] = 0]
            /\ client'[d].mem = "free" /\ client'[d].retries = client[d].retries
        BY <1>12, <3>1 DEF Stopped, ClientType, Client
      <4> QED BY <3>1, <4>1, EndOfWay
    <3>2. CASE ~(exits[d][Listed] > 0)
      <4>1. exits'[d] = exits[d] /\ client'[d] = client[d]
        BY <1>12, <3>2, StageMembers DEF Stopped, ExitsType
      <4> QED BY <4>1, SameWay
    <3> QED BY <3>1, <3>2
  <2> QED BY <2>1
<1>13. CASE QuietStep
  BY <1>13, QuietUnchanged, SameWay
<1> QED
  BY <1>1, <1>2, <1>3, <1>4, <1>5, <1>6, <1>7, <1>8, <1>9, <1>10, <1>11, <1>12, <1>13
     DEF Next, AcceptStep, ReceiveStep, AuthStep, OwnerStep, QuietStep

\* A leave takes at most 2 * UP_RE_TIMES + 1 handlers, however they interleave
\* with those of the other clients, and however often updates fail: with a
\* scheduler that runs each of them, every leaver gets to the destroy list.
THEOREM LeavesAreFinite == Spec => LeavesRunOut
<1> DEFINE Inv == IndInv /\ TriesLeft
<1>1. Init => Inv
  <2>1. Init => TriesLeft
    BY NumbersAssumption DEF Init, NewClient, TriesLeft, Tries
  <2> QED BY <2>1, IndInvInit
<1>2. IndInv => /\ ClientType /\ ExitsType /\ ReadState /\ OneContinuation
                /\ ending \subseteq AuthEnd /\ kicks \subseteq Posted
  BY DEF IndInv, TypeOK, ClientType, ExitsType
<1>3. Inv /\ [Next]_vars => \A d \in Slot : OnItsWay(d)
  BY <1>2, WayStep
<1>4. Inv /\ [Next]_vars => Inv'
  BY <1>3, IndInvStep DEF OnItsWay, TriesLeft
<1>5. ASSUME Inv, [Next]_vars, NEW c \in Slot, NEW s \in Stage, NEW t \in Stage,
             exits[c][s] > 0, exits'[c][t] > 0
      PROVE  /\ HandlersLeft(c, s) \in 0..(2 * UP_RE_TIMES + 1)
             /\ HandlersLeft(c, t)' <= HandlersLeft(c, s)
             /\ LeaveStep(c) => HandlersLeft(c, t)' < HandlersLeft(c, s)
  <2>1. OnItsWay(c)
    BY <1>3, <1>5
  <2>2. LeaveStep(c) => HandlersLeft(c, t)' < HandlersLeft(c, s)
    BY <1>2, <1>5, LeaveNearer
  <2>3. client[c].retries \in 0..UP_RE_TIMES
    BY <1>5 DEF TriesLeft, Tries
  <2>4. client[c].retries > 0 \/ s \in {"left"} \X Plugin \cup {Listed}
    <3>1. client[c].mem = "connected" /\ \A u \in Stage : exits[c][u] > 0 => u = s
      BY <1>2, <1>5, OnePending
    <3>2. {"left"} \X Plugin \cup {Listed} \subseteq Stage
      BY StageMembers DEF Stage
    <3> QED BY <1>5, <3>1, <3>2 DEF TriesLeft, Tries
  <2>5. StageSteps(s, client[c].retries) \in 0..(2 * client[c].retries + 1)
    BY <2>3, <2>4, StageRange, NumbersAssumption
  <2>6. HandlersLeft(c, s) \in 0..(2 * UP_RE_TIMES + 1)
    BY <2>3, <2>5, NumbersAssumption DEF HandlersLeft
  <2> QED BY <1>5, <2>1, <2>2, <2>6 DEF OnItsWay, NoFarther
<1>6. Inv /\ [Next]_vars =>
        [\A c \in Slot, s, t \in Stage :
           exits[c][s] > 0 /\ exits'[c][t] > 0 =>
             /\ HandlersLeft(c, s) \in 0..(2 * UP_RE_TIMES + 1)
             /\ HandlersLeft(c, t)' <= HandlersLeft(c, s)
             /\ LeaveStep(c) => HandlersLeft(c, t)' < HandlersLeft(c, s)]_vars
  BY <1>5
<1> QED BY <1>1, <1>4, <1>6, PTL DEF Spec, LeavesRunOut

--------------------------------------------------------------------------
(* What unload waits for: UnloadReturns, but for fairness.                 *)

\* While unload_plugin or stop waits for the members of a plugin to leave,
\* every one of them is on its way out or was told to go: it is disconnected,
\* or a disconnect of it is pending.  Nobody joins behind the loop that posts
\* them, whatever logins are being answered - but for the orphans, which
\* nothing removes.
WaitsForLeavers ==
  svc.pc \in {"unloading", "stop_wait"} =>
    \A c \in Slot :
      c \in MemberSlots(svc.plugin) =>
        \/ Orphan(svc.plugin, c)
        \/ LeavingFor(c, svc.plugin)
        \/ ~client[c].available
        \/ \E k \in kicks : k.client = c

Waiting == svc.pc \in {"unloading", "stop_wait"}

\* What the owner of the service knows of the plugin it takes down.
OwnerState ==
  /\ svc.pc \in {"idle", "erased", "unloading", "stop_clients"} => plugins \subseteq onlined
  /\ svc.pc = "erased" => svc.plugin \in onlined /\ svc.plugin \notin plugins
  /\ svc.pc = "unloading" => svc.plugin \notin plugins
  /\ svc.pc = "stop_plugins" => svc.plugin = NULL \/ svc.plugin \in onlined
  /\ Waiting => svc.plugin \in Plugin

\* The live clients of the plugin were told to go.
Told ==
  Waiting => \A c \in Slot :
    client[c].reading /\ client[c].dispatcher = svc.plugin =>
      ~client[c].available \/ \E k \in kicks : k.client = c

\* Every step keeps OwnerState.
LEMMA OwnerStateStep ==
  ASSUME OwnerState, OwnerBusy, SvcType, [Next]_vars
  PROVE  OwnerState'
<1>1. ASSUME UNCHANGED <<plugins, onlined, svc>> PROVE OwnerState'
  BY <1>1 DEF OwnerState, Waiting
<1>2. ASSUME NEW c \in Slot, AcceptStep(c) \/ ReceiveStep(c) \/ LeaveStep(c) \/ SendHandle(c)
      PROVE  UNCHANGED <<plugins, onlined, svc>>
  <2>1. CASE AcceptStep(c)
    BY <2>1 DEF AcceptStep, StartAccept, AcceptHandle, AcceptRefused, ClientConnected
  <2>2. CASE ReceiveStep(c)
    BY <2>2 DEF ReceiveStep, ReceiveFailed, CommandRefused, Login
  <2>3. CASE LeaveStep(c)
    BY <2>3 DEF LeaveStep, ServiceLeave, BeginUpdate, RemoveClient, EndUpdate, RetryUpdate
  <2>4. CASE SendHandle(c)
    BY <2>4 DEF SendHandle
  <2> QED BY <1>2, <2>1, <2>2, <2>3, <2>4
<1>3. ASSUME \/ AuthStep
             \/ \E S \in SUBSET Slot : CheckTimeout(S)
             \/ \E k \in kicks : RunKick(k)
             \/ \E p \in Plugin : Broadcast(p)
             \/ UNCHANGED vars
      PROVE  UNCHANGED <<plugins, onlined, svc>>
  BY <1>3 DEF AuthStep, AuthAnswer, AuthJoin, AuthNotJoined, AuthReject, CheckTimeout,
              RunKick, Broadcast, vars
<1>4. ASSUME NEW p \in Plugin, LoadPlugin(p) PROVE OwnerState'
  BY <1>4 DEF LoadPlugin, OwnerState, Waiting
<1>5. ASSUME NEW p \in Plugin, UnloadPlugin(p) PROVE OwnerState'
  BY <1>5 DEF UnloadPlugin, OwnerState, Waiting
<1>6. ASSUME NEW p \in Plugin, Unload(p) PROVE OwnerState'
  <2>1. /\ svc.plugin = p /\ onlined' = onlined \ {p} /\ plugins' = plugins
        /\ \/ svc.pc = "erased" /\ svc' = [svc EXCEPT !.pc = "unloading"]
           \/ svc.pc = "stop_plugins" /\ svc' = [svc EXCEPT !.pc = "stop_wait"]
    BY <1>6 DEF Unload
  <2>2. CASE svc.pc = "erased"
    <3>1. svc'.pc = "unloading" /\ svc'.plugin = p
      BY <2>1, <2>2 DEF SvcType
    <3> QED BY <2>1, <2>2, <3>1 DEF OwnerState, Waiting
  <2>3. CASE svc.pc = "stop_plugins"
    <3>1. svc'.pc = "stop_wait" /\ svc'.plugin = p
      BY <2>1, <2>3 DEF SvcType
    <3> QED BY <3>1 DEF OwnerState, Waiting
  <2> QED BY <2>1, <2>2, <2>3
<1>7. ASSUME NEW p \in Plugin, Unloaded(p) PROVE OwnerState'
  BY <1>7 DEF Unloaded, OwnerState, Waiting, Idle
<1>8. ASSUME NEW p \in Plugin, StopPlugin(p) PROVE OwnerState'
  BY <1>8 DEF StopPlugin, OwnerState, Waiting, SvcType
<1>9. CASE Stop
  BY <1>9 DEF Stop, OwnerState, Waiting, SvcType
<1>10. CASE StopClients
  BY <1>10 DEF StopClients, OwnerState, Waiting, OwnerBusy, SvcType
<1>11. CASE StopPluginsDone
  BY <1>11 DEF StopPluginsDone, OwnerState, Waiting, SvcType
<1>12. CASE Stopped
  BY <1>12 DEF Stopped, OwnerState, Waiting, SvcType
<1> QED
  BY <1>1, <1>2, <1>3, <1>4, <1>5, <1>6, <1>7, <1>8, <1>9, <1>10, <1>11, <1>12
     DEF Next, OwnerStep

\* Nobody becomes a live client of the plugin that is waited for, none of them
\* is connected again, and a disconnect that is pending stays so.
LEMMA StillTold ==
  ASSUME Told, UNCHANGED svc, kicks \subseteq kicks',
         Waiting => \A c \in Slot :
           client'[c].reading /\ client'[c].dispatcher = svc.plugin =>
             /\ client[c].reading /\ client[c].dispatcher = svc.plugin
             /\ ~client[c].available => ~client'[c].available
  PROVE  Told'
BY DEF Told, Waiting

\* Every step keeps Told.
LEMMA ToldStep ==
  ASSUME ClientType, SvcType, MembersType, ReadState, OneContinuation, ExitsType,
         DispatchedIsMember, OwnerState, Told, ending \subseteq AuthEnd,
         kicks \subseteq Posted, [Next]_vars
  PROVE  Told'
<1>0. svc.plugin # SERVICE
  BY DistinctValues DEF SvcType
<1>1. ASSUME NEW c \in Slot, AcceptStep(c) PROVE Told'
  <2>1. UNCHANGED <<svc, kicks>>
    BY <1>1 DEF AcceptStep, StartAccept, AcceptHandle, AcceptRefused, ClientConnected
  <2>2. \A d \in Slot \ {c} : client'[d] = client[d]
    <3>1. CASE StartAccept(c)
      BY <3>1 DEF StartAccept, ClientType
    <3>2. CASE AcceptHandle(c)
      BY <3>2 DEF AcceptHandle, ClientType
    <3>3. CASE AcceptRefused(c)
      BY <3>3 DEF AcceptRefused, ClientType
    <3>4. CASE ClientConnected(c)
      BY <3>4 DEF ClientConnected, ClientType
    <3> QED BY <1>1, <3>1, <3>2, <3>3, <3>4 DEF AcceptStep
  <2>3. \/ ~client'[c].reading
        \/ client'[c].dispatcher = SERVICE
        \/ /\ client'[c].reading = client[c].reading
           /\ client'[c].dispatcher = client[c].dispatcher
           /\ client'[c].available = client[c].available
    <3>1. CASE StartAccept(c)
      BY <3>1 DEF StartAccept, NewClient, ClientType
    <3>2. CASE AcceptHandle(c) \/ AcceptRefused(c)
      BY <3>2 DEF AcceptHandle, AcceptRefused, ClientType, Client
    <3>3. CASE ClientConnected(c)
      BY <3>3 DEF ClientConnected, ClientType, Client
    <3> QED BY <1>1, <3>1, <3>2, <3>3 DEF AcceptStep
  <2> QED BY <1>0, <2>1, <2>2, <2>3, StillTold
<1>2. ASSUME NEW c \in Slot, ReceiveStep(c) PROVE Told'
  <2>1. UNCHANGED <<svc, kicks>>
    BY <1>2 DEF ReceiveStep, ReceiveFailed, CommandRefused, Login
  <2> DEFINE Kept ==
        /\ \A d \in Slot \ {c} : client'[d] = client[d]
        /\ \/ ~client'[c].reading
           \/ /\ client'[c].reading = client[c].reading
              /\ client'[c].dispatcher = client[c].dispatcher
              /\ client'[c].available = client[c].available
  <2>2. Kept
    <3>1. ASSUME ReceiveFailed(c) PROVE Kept
      BY <3>1 DEF ReceiveFailed, OnError, ClientType, Client
    <3>2. ASSUME NEW code \in Code, CommandRefused(c, code)
          PROVE  Kept
      BY <3>2 DEF CommandRefused, OnError, Disconnect, ClientType, Client
    <3>3. ASSUME NEW p \in Plugin, NEW i \in Id, Login(c, p, i) PROVE Kept
      <4>1. CASE RequestBlockFree
        <5>1. client' = [client EXCEPT ![c] = LoggingIn(client[c], p, i)]
          BY <3>3, <4>1 DEF Login
        <5> QED BY <5>1 DEF LoggingIn, ClientType, Client
      <4>2. CASE ~RequestBlockFree
        <5>1. client' = [client EXCEPT ![c] =
                OnError(Disconnect(LoggingIn(client[c], p, i), "LOGIN_CONCURENCY_LIMIT"))]
          BY <3>3, <4>2 DEF Login
        <5> QED BY <5>1 DEF LoggingIn, OnError, Disconnect, ClientType, Client
      <4> QED BY <4>1, <4>2
    <3> QED BY <1>2, <3>1, <3>2, <3>3 DEF ReceiveStep
  <2> QED BY <2>1, <2>2, StillTold
<1>3. ASSUME NEW c \in Slot, LeaveStep(c) PROVE Told'
  <2>1. UNCHANGED <<svc, kicks>>
    BY <1>3 DEF LeaveStep, ServiceLeave, BeginUpdate, RemoveClient, EndUpdate, RetryUpdate
  <2>2. \E s \in Stage : exits[c][s] > 0
    BY <1>3, StageMembers
       DEF LeaveStep, ServiceLeave, BeginUpdate, RemoveClient, EndUpdate, RetryUpdate
  <2>3. ~client[c].reading
    BY <2>2, OnePending
  <2> DEFINE Kept == /\ client'[c].reading = client[c].reading
                     /\ \A d \in Slot \ {c} : client'[d] = client[d]
  <2>4. Kept
    <3>1. ASSUME NEW s \in Stage, ServiceLeave(c, s) PROVE Kept
      BY <3>1 DEF ServiceLeave, ClientType, Client
    <3>2. ASSUME NEW p \in Plugin, NEW s \in Stage, BeginUpdate(c, p, s) PROVE Kept
      BY <3>2 DEF BeginUpdate, ClientType, Client
    <3>3. ASSUME NEW p \in Plugin, NEW s \in Stage, RemoveClient(c, p, s) PROVE Kept
      BY <3>3 DEF RemoveClient, ClientType, Client
    <3>4. ASSUME NEW p \in Plugin, NEW ok \in BOOLEAN, EndUpdate(c, p, ok) PROVE Kept
      BY <3>4 DEF EndUpdate, ClientType, Client
    <3>5. ASSUME NEW p \in Plugin, RetryUpdate(c, p) PROVE Kept
      BY <3>5 DEF RetryUpdate, ClientType, Client
    <3> QED BY <1>3, <3>1, <3>2, <3>3, <3>4, <3>5 DEF LeaveStep
  <2> QED BY <2>1, <2>3, <2>4, StillTold
<1>4. ASSUME NEW c \in Slot, SendHandle(c) PROVE Told'
  <2>1. /\ UNCHANGED <<svc, kicks>>
        /\ \A d \in Slot : /\ client'[d].reading = client[d].reading
                          /\ client'[d].dispatcher = client[d].dispatcher
                          /\ client'[d].available = client[d].available
    BY <1>4 DEF SendHandle, ClientType, Client
  <2> QED BY <2>1, StillTold
<1>5. ASSUME NEW e \in ending, AuthJoin(e) PROVE Told'
  <2>1. PICK c \in Slot : c = e.client
    BY <1>5 DEF AuthJoin, AuthEnd
  <2>2. /\ UNCHANGED <<svc, kicks, plugins>> /\ e.plugin \in plugins /\ ~PluginsLocked
        /\ client' = [client EXCEPT ![c].dispatcher = e.plugin]
    BY <1>5, <2>1 DEF AuthJoin, AuthRefusal
  <2>3. Waiting => svc.plugin # e.plugin
    BY <2>2 DEF Waiting, PluginsLocked, OwnerState
  <2>4. /\ \A d \in Slot \ {c} : client'[d] = client[d]
        /\ client'[c].dispatcher = e.plugin
    BY <2>2 DEF ClientType, Client
  <2> QED BY <2>2, <2>3, <2>4, StillTold
<1>6. ASSUME NEW e \in ending, AuthReject(e) PROVE Told'
  <2>1. svc' = svc /\ kicks' = kicks
    BY <1>6 DEF AuthReject
  <2>2. ASSUME NEW d \in Slot
        PROVE  /\ client'[d].reading = client[d].reading
               /\ client'[d].dispatcher = client[d].dispatcher
               /\ client'[d].available = client[d].available \/ ~client'[d].available
    BY <1>6 DEF AuthReject, Disconnect, ClientType, Client
  <2>3. ASSUME Waiting, NEW d \in Slot, client'[d].reading,
               client'[d].dispatcher = svc.plugin
        PROVE  ~client'[d].available \/ \E l \in kicks : l.client = d
    BY <2>2, <2>3 DEF Told
  <2> QED BY <2>1, <2>3 DEF Told, Waiting
<1>7. ASSUME NEW S \in SUBSET Slot, CheckTimeout(S) PROVE Told'
  <2>1. UNCHANGED svc /\ kicks \subseteq kicks'
    BY <1>7 DEF CheckTimeout, PostKicks
  <2>2. \A d \in Slot : /\ client'[d].reading = client[d].reading
                       /\ client'[d].dispatcher = client[d].dispatcher
                       /\ client'[d].available = client[d].available
    BY <1>7 DEF CheckTimeout, ClientType, Client
  <2> QED BY <2>1, <2>2, StillTold
<1>8. ASSUME NEW k \in kicks, RunKick(k) PROVE Told'
  <2>1. PICK c \in Slot : c = k.client
    BY <1>8 DEF RunKick, Posted
  <2>2. /\ UNCHANGED svc /\ kicks' = kicks \ {k}
        /\ client' = [client EXCEPT ![c] = Disconnect(client[c], k.code)]
    BY <1>8, <2>1 DEF RunKick
  <2>3. /\ ~client'[c].available
        /\ \A d \in Slot \ {c} : client'[d] = client[d]
    BY <2>2 DEF Disconnect, ClientType, Client
  <2>4. ASSUME Waiting, NEW d \in Slot, d # c, client'[d].reading,
               client'[d].dispatcher = svc.plugin
        PROVE  ~client'[d].available \/ \E l \in kicks' : l.client = d
    <3>1. ~client[d].available \/ \E l \in kicks : l.client = d
      BY <2>3, <2>4 DEF Told
    <3>2. \A l \in kicks : l.client = d => l \in kicks'
      BY <2>1, <2>2, <2>4
    <3> QED BY <2>3, <2>4, <3>1, <3>2
  <2> QED BY <2>2, <2>3, <2>4 DEF Told, Waiting
<1>9. ASSUME NEW p \in Plugin, Broadcast(p) PROVE Told'
  <2>1. /\ UNCHANGED <<svc, kicks>>
        /\ \A d \in Slot : /\ client'[d].reading = client[d].reading
                          /\ client'[d].dispatcher = client[d].dispatcher
                          /\ client'[d].available = client[d].available
    BY <1>9 DEF Broadcast, ClientType, Client
  <2> QED BY <2>1, StillTold
<1>10. ASSUME NEW p \in Plugin, Unload(p) PROVE Told'
  <2>1. svc.plugin = p /\ p \in onlined /\ svc'.plugin = p
    BY <1>10, DistinctValues DEF Unload, OwnerState, SvcType
  <2>2. PostKicks(MemberSlots(p), "SERVER_CLOSEING") /\ UNCHANGED <<client, members>>
    BY <1>10, <2>1 DEF Unload
  <2>3. ASSUME NEW c \in Slot, client[c].reading, client[c].dispatcher = p
        PROVE  \E k \in kicks' : k.client = c
    <3>1. members[p][client[c].id] = c
      BY <2>3 DEF DispatchedIsMember, ReadState
    <3>2. client[c].id \in LoginId /\ c # NULL
      BY DistinctValues DEF ClientType, Client
    <3>3. c \in MemberSlots(p)
      BY <3>1, <3>2 DEF MemberSlots
    <3>4. [client |-> c, incarnation |-> client[c].incarnation,
           code |-> "SERVER_CLOSEING"] \in kicks'
      BY <2>2, <3>3 DEF PostKicks
    <3> QED BY <3>4
  <2> QED BY <2>1, <2>2, <2>3 DEF Told
<1>11. ASSUME \/ \E p \in Plugin : LoadPlugin(p) \/ UnloadPlugin(p) \/ Unloaded(p)
                                    \/ StopPlugin(p)
              \/ Stop \/ StopClients \/ StopPluginsDone \/ Stopped
       PROVE  Told'
  <2>1. ~Waiting'
    BY <1>11 DEF LoadPlugin, UnloadPlugin, Unloaded, StopPlugin, Stop, StopClients,
                 StopPluginsDone, Stopped, Waiting, SvcType, Idle
  <2> QED BY <2>1 DEF Told
<1>12. ASSUME \/ \E a \in auths, ok \in BOOLEAN : AuthAnswer(a, ok)
              \/ \E e \in ending : AuthNotJoined(e)
              \/ UNCHANGED vars
       PROVE  Told'
  <2>1. UNCHANGED <<svc, kicks, client>>
    BY <1>12 DEF AuthAnswer, AuthNotJoined, vars
  <2> QED BY <2>1 DEF Told, Waiting
<1> QED
  BY <1>1, <1>2, <1>3, <1>4, <1>5, <1>6, <1>7, <1>8, <1>9, <1>10, <1>11, <1>12
     DEF Next, AuthStep, OwnerStep

\* unload_plugin and stop wait for nobody whom nobody told to leave, but for
\* the orphans; and a leave is finite (LeavesRunOut).
THEOREM UnloadWaitsForLeavers == Spec => []WaitsForLeavers
<1> DEFINE Inv == IndInv /\ OwnerState /\ Told
<1>1. Init => Inv
  <2>1. Init => OwnerState /\ Told
    BY DEF Init, Idle, OwnerState, Told, Waiting
  <2> QED BY <2>1, IndInvInit
<1>2. IndInv => /\ ClientType /\ ExitsType /\ MembersType /\ SvcType /\ ReadState
                /\ OneContinuation /\ DispatchedIsMember /\ OwnerBusy
                /\ ending \subseteq AuthEnd /\ kicks \subseteq Posted
  BY DEF IndInv, TypeOK, ClientType, ExitsType, MembersType, SvcType
<1>3. Inv /\ [Next]_vars => Inv'
  BY <1>2, IndInvStep, OwnerStateStep, ToldStep
<1>4. Inv => WaitsForLeavers
  <2> SUFFICES ASSUME Inv, Waiting, NEW c \in Slot, c \in MemberSlots(svc.plugin),
                      ~Orphan(svc.plugin, c), ~LeavingFor(c, svc.plugin)
               PROVE  ~client[c].available \/ \E k \in kicks : k.client = c
    BY DEF WaitsForLeavers, Waiting
  <2>1. svc.plugin \in Plugin
    BY DEF OwnerState
  <2>2. \A s \in {"bye", "update", "retry"} \X {svc.plugin} : exits[c][s] = 0
    <3> SUFFICES ASSUME NEW s \in {"bye", "update", "retry"} \X {svc.plugin}
                 PROVE  exits[c][s] = 0
      OBVIOUS
    <3>1. \/ s = <<"bye", svc.plugin>> \/ s = <<"update", svc.plugin>>
          \/ s = <<"retry", svc.plugin>>
      OBVIOUS
    <3>2. s \in Stage
      BY <2>1, <3>1, StageMembers
    <3>3. exits[c][s] \in Nat
      BY <1>2, <3>2 DEF ExitsType
    <3> QED BY <3>1, <3>3 DEF LeavingFor, UpdatesFor
  <2>3. client[c].reading /\ client[c].dispatcher = svc.plugin
    BY <2>2 DEF Orphan
  <2> QED BY <2>3 DEF Told
<1> QED BY <1>1, <1>3, <1>4, PTL DEF Spec
==========================================================================
