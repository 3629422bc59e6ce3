------------------------------ MODULE HttpPool ------------------------------
(* The http requests of pool 1 of game_service, which carry the offline
   updates: queue_http_request sends a request if a block is free and queues it
   otherwise; the handler of an answered request gives its block back and sends
   what is queued, one request per free block.

   The pool and the queue have a lock each, and an action is what one call does
   while it holds one of them.  queue_http_request holds neither between its
   look at the pool and its push.  A handler is named by its request.

   A definition whose name ends in _ and a word is its namesake with a slip a
   programmer could make; no other definition uses it.                       *)
EXTENDS Naturals, Sequences, SequencesExt

CONSTANTS
  Block,      \* the memory blocks of pool 1
  Request,    \* the requests, each of which is queued once
  NULL

ASSUME HttpPoolAssumption == NULL \notin Request

VARIABLES
  request_pool,   \* request_pool_[1]: the free blocks
  task_queue,     \* task_queue_
  asked,          \* the requests queue_http_request was called for
  refused,        \* those that found no block and are not in the queue yet
  sent,           \* http_requests that have not been answered, with their blocks
  reported,       \* those whose callback has run, before free_http_request
  draining,       \* those whose handler has freed its block and is to drain
  holder,         \* the handler that holds task_queue_mutex_
  answered        \* how often the callback of a request has run

http_vars == <<request_pool, task_queue, asked, refused, sent, reported,
              draining, holder, answered>>

Use == [block: Block, request: Request]

HttpTypeOK ==
  /\ request_pool \subseteq Block
  /\ task_queue \in Seq(Request)
  /\ asked \subseteq Request /\ refused \subseteq Request
  /\ sent \subseteq Use /\ reported \subseteq Use
  /\ draining \subseteq Request
  /\ holder \in Request \cup {NULL}
  /\ answered \in [Request -> 0..1]

--------------------------------------------------------------------------
(* queue_http_request *)

StartRequest(b, r) ==
  /\ b \in request_pool
  /\ request_pool' = request_pool \ {b}
  /\ sent' = sent \cup {[block |-> b, request |-> r]}

\* A block is free: the request is constructed in it and sent.
QueueRequest(r) ==
  /\ r \notin asked
  /\ asked' = asked \cup {r}
  /\ \E b \in Block : StartRequest(b, r)
  /\ UNCHANGED <<task_queue, refused, reported, draining, holder, answered>>

\* malloc_http_request returns NULL ...
RefuseRequest(r) ==
  /\ r \notin asked
  /\ request_pool = {}
  /\ asked' = asked \cup {r}
  /\ refused' = refused \cup {r}
  /\ UNCHANGED <<request_pool, task_queue, sent, reported, draining, holder,
                 answered>>

\* ... and the task is pushed, whatever has happened to the pool meanwhile.
PushTask(r) ==
  /\ r \in refused
  /\ holder = NULL
  /\ refused' = refused \ {r}
  /\ task_queue' = Append(task_queue, r)
  /\ UNCHANGED <<request_pool, asked, sent, reported, draining, holder, answered>>

--------------------------------------------------------------------------
(* queue_http_request_handle *)

\* The block is given back before the callback and again after it.
Answer_FreesFirst(w) ==
  /\ w \in sent
  /\ sent' = sent \ {w}
  /\ reported' = reported \cup {w}
  /\ request_pool' = request_pool \cup {w.block}
  /\ answered' = [answered EXCEPT ![w.request] = @ + 1]
  /\ UNCHANGED <<task_queue, asked, refused, draining, holder>>

\* The answer, or an error, has come: the callback runs.
Answer(w) ==
  /\ w \in sent
  /\ sent' = sent \ {w}
  /\ reported' = reported \cup {w}
  /\ answered' = [answered EXCEPT ![w.request] = @ + 1]
  /\ UNCHANGED <<request_pool, task_queue, asked, refused, draining, holder>>

\* The destructor is called but the block is not given back.
FreeRequest_Leaked(w) ==
  /\ w \in reported
  /\ reported' = reported \ {w}
  /\ draining' = draining \cup {w.request}
  /\ UNCHANGED <<request_pool, task_queue, asked, refused, sent, holder, answered>>

FreeRequest(w) ==
  /\ w \in reported
  /\ reported' = reported \ {w}
  /\ request_pool' = request_pool \cup {w.block}
  /\ draining' = draining \cup {w.request}
  /\ UNCHANGED <<task_queue, asked, refused, sent, holder, answered>>

LockQueue(r) ==
  /\ r \in draining
  /\ holder = NULL
  /\ holder' = r
  /\ UNCHANGED <<request_pool, task_queue, asked, refused, sent, reported,
                 draining, answered>>

\* The task is not popped before the next turn of the loop.
StartTask_Unpopped(r) ==
  /\ holder = r
  /\ task_queue # <<>>
  /\ \E b \in Block : StartRequest(b, Head(task_queue))
  /\ UNCHANGED <<task_queue, asked, refused, reported, draining, holder, answered>>

\* A turn of the loop that gets a block.
StartTask(r) ==
  /\ holder = r
  /\ task_queue # <<>>
  /\ \E b \in Block : StartRequest(b, Head(task_queue))
  /\ task_queue' = Tail(task_queue)
  /\ UNCHANGED <<asked, refused, reported, draining, holder, answered>>

\* The end of the loop and of the handler.
EndDrain(r) ==
  /\ holder = r
  /\ task_queue = <<>> \/ request_pool = {}
  /\ holder' = NULL
  /\ draining' = draining \ {r}
  /\ UNCHANGED <<request_pool, task_queue, asked, refused, sent, reported, answered>>

--------------------------------------------------------------------------
HttpInit ==
  /\ request_pool = Block
  /\ task_queue = <<>>
  /\ asked = {} /\ refused = {}
  /\ sent = {} /\ reported = {} /\ draining = {}
  /\ holder = NULL
  /\ answered = [r \in Request |-> 0]

Ask(r) == QueueRequest(r) \/ RefuseRequest(r)

Work ==
  \/ \E r \in Request : PushTask(r) \/ LockQueue(r) \/ StartTask(r) \/ EndDrain(r)
  \/ \E w \in sent : Answer(w)
  \/ \E w \in reported : FreeRequest(w)

HttpNext == Work \/ \E r \in Request : Ask(r)

HttpSpec == HttpInit /\ [][HttpNext]_http_vars

--------------------------------------------------------------------------
(* Safety *)

Requested == {w.request : w \in sent \cup reported}
Used == {w.block : w \in sent \cup reported}

\* A block is free or carries one http_request: none is constructed in memory
\* that another one still lives in - also while its callback runs, which may
\* take long - and none is lost.
BlockHasOneUser ==
  /\ request_pool \cap Used = {}
  /\ request_pool \cup Used = Block
  /\ sent \cap reported = {}
  /\ \A v, w \in sent \cup reported : v.block = w.block => v = w

\* A request that was asked for is on its way to the queue, in it once, sent
\* or answered, one of these at a time: the hand-over from the queue to the
\* blocks neither loses nor repeats one.
RequestInOnePlace ==
  /\ IsInjective(task_queue)
  /\ \A v, w \in sent \cup reported : v.request = w.request => v = w
  /\ refused \cap (ToSet(task_queue) \cup Requested) = {}
  /\ ToSet(task_queue) \cap Requested = {}
  /\ \A r \in Request : answered[r] = 1 => r \notin refused \cup ToSet(task_queue)
  /\ \A w \in sent : answered[w.request] = 0
  /\ \A r \in asked : r \in refused \cup ToSet(task_queue) \cup Requested \/ answered[r] = 1

\* Everybody has gone home although a task waits and every block is free: its
\* push came after the last handler had drained, and it waits until another
\* request is queued.
Stranded ==
  /\ task_queue # <<>> /\ request_pool = Block
  /\ draining = {} /\ refused = {}

=============================================================================
