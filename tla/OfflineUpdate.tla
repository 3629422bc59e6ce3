--------------------------- MODULE OfflineUpdate ---------------------------
(* The offline updates of game_plugin: a client that leaves a plugin is removed
   when an http request about it has succeeded or its tries are used up.  The
   requests are those of HttpPool, and a try that failed is repeated by a task
   of TimerPool.  A request is a client with the tries it has left, and so is the
   task that repeats it; the io_service has other tasks too.

   A definition whose name ends in _ and a word is its namesake with a slip a
   programmer could make; no other definition uses it.                       *)
EXTENDS TimerPool, HttpPool

CONSTANTS Client, UP_RE_TIMES

ASSUME OfflineUpdateAssumption ==
  /\ UP_RE_TIMES \in Nat \ {0}
  /\ Request = Client \X (1..UP_RE_TIMES)
  /\ Request \subseteq Task

VARIABLES
  retry_update_times,   \* retry_update_times_ of the clients
  leaving,              \* the clients that remove_client was called for
  removed               \* how often remove_client_from_plugin was called

offline_vars == <<retry_update_times, leaving, removed>>
all_vars == <<vars, http_vars, offline_vars>>

--------------------------------------------------------------------------
BeginUpdateClient(c) ==
  \E r \in Request : r = <<c, retry_update_times[c]>> /\ Ask(r)

RemoveFromPlugin(c) == removed' = [removed EXCEPT ![c] = @ + 1]

\* remove_client: the plugin says, at each call, whether the client needs an
\* update (need_update_offline_client).
RemoveClient(c) ==
  \/ BeginUpdateClient(c) /\ UNCHANGED removed
  \/ RemoveFromPlugin(c) /\ UNCHANGED http_vars

Leave(c) ==
  /\ c \notin leaving
  /\ leaving' = leaving \cup {c}
  /\ RemoveClient(c)
  /\ UNCHANGED <<vars, retry_update_times>>

\* end_update_client: the update succeeded ...
Updated(w) ==
  /\ Answer(w)
  /\ RemoveFromPlugin(w.request[1])
  /\ UNCHANGED <<vars, retry_update_times, leaving>>

\* A return is missing behind queue_task.
Retry_NoReturn(w) ==
  /\ Answer(w)
  /\ retry_update_times[w.request[1]] > 1
  /\ retry_update_times' = [retry_update_times EXCEPT ![w.request[1]] = @ - 1]
  /\ \E t \in Timer : QueueTask(w.request, t)
  /\ RemoveFromPlugin(w.request[1])
  /\ UNCHANGED leaving

\* ... or failed, and remove_client is queued again ...
Retry(w) ==
  /\ Answer(w)
  /\ retry_update_times[w.request[1]] > 1
  /\ retry_update_times' = [retry_update_times EXCEPT ![w.request[1]] = @ - 1]
  /\ \E t \in Timer : QueueTask(w.request, t)
  /\ UNCHANGED <<leaving, removed>>

\* ... as long as there are tries left.
GiveUp(w) ==
  /\ Answer(w)
  /\ retry_update_times[w.request[1]] = 1
  /\ retry_update_times' = [retry_update_times EXCEPT ![w.request[1]] = @ - 1]
  /\ RemoveFromPlugin(w.request[1])
  /\ UNCHANGED <<vars, leaving>>

\* A callback ends, and with it its queue_task, before the request is freed.
Returns(w) ==
  /\ \A q \in queueing : q.task # w.request
  /\ FreeRequest(w)
  /\ UNCHANGED <<vars, offline_vars>>

\* The other steps of the requests are as in HttpPool.
Transfer(r) ==
  /\ PushTask(r) \/ LockQueue(r) \/ StartTask(r) \/ EndDrain(r)
  /\ UNCHANGED <<vars, offline_vars>>

\* A task calls remove_client again, or is none of ours.
RunRetry(k) ==
  /\ k \in Request
  /\ RunTask(k)
  /\ RemoveClient(k[1])
  /\ UNCHANGED <<retry_update_times, leaving>>

RunOther(k) ==
  /\ k \notin Request
  /\ RunTask(k)
  /\ UNCHANGED <<http_vars, offline_vars>>

\* Other tasks are queued without a delay.
Other(k) ==
  /\ k \notin Request
  /\ PostTask(k)
  /\ UNCHANGED <<http_vars, offline_vars>>

\* The other steps of the timers are as in TimerPool.
Timing ==
  /\ \/ \E w \in waits : Expire(w)
     \/ \E w \in handling, idle \in BOOLEAN : ReturnTimer(w, idle)
     \/ Track
  /\ UNCHANGED <<http_vars, offline_vars>>

\* ~async_task, when every client is gone.
End ==
  /\ leaving = Client
  /\ task_queue = <<>>
  /\ refused = {} /\ sent = {} /\ reported = {} /\ draining = {}
  /\ Destroy
  /\ UNCHANGED <<http_vars, offline_vars>>

--------------------------------------------------------------------------
OfflineInit ==
  /\ Init /\ HttpInit
  /\ retry_update_times = [c \in Client |-> UP_RE_TIMES]
  /\ leaving = {}
  /\ removed = [c \in Client |-> 0]

Server ==
  \/ \E w \in sent : Updated(w) \/ Retry(w) \/ GiveUp(w)
  \/ \E w \in reported : Returns(w)
  \/ \E r \in Request : Transfer(r)
  \/ \E k \in running : RunRetry(k) \/ RunOther(k)
  \/ Timing

OfflineNext ==
  \/ Server
  \/ \E c \in Client : Leave(c)
  \/ \E k \in Task : Other(k)
  \/ End

OfflineSpec == OfflineInit /\ [][OfflineNext]_all_vars

\* The io_service runs every handler, timers expire and the http server answers
\* or fails.  A client costs finitely many steps, so that none can be put off by
\* others for ever.
OfflineFairSpec == OfflineSpec /\ WF_all_vars(Server)

--------------------------------------------------------------------------
(* Properties *)

\* A client that leaves is in one place: a request about it is on its way, or a
\* timer to the next one, or it has been removed, once.  Handlers of the http
\* pool and of the timers pass it on to each other at any time.
Requesting(c) == {r \in asked : r[1] = c /\ answered[r] = 0}
Waiting(c) == {k \in queued : k \in Request /\ k[1] = c /\ ran[k] = 0}
LeaverInOnePlace ==
  \A c \in Client :
    Cardinality(Requesting(c)) + Cardinality(Waiting(c)) + removed[c]
      = (IF c \in leaving THEN 1 ELSE 0)

\* A client that leaves is removed, however its requests fare, unless the last
\* handler has drained before its request was pushed, and no other follows.
LeaverRemoved ==
  \A c \in Client : c \in leaving ~> (removed[c] = 1 \/ []Stranded)

=============================================================================
