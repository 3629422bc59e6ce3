----------------------------- MODULE TimerPool -----------------------------
(* async_task: delayed tasks and the pool of deadline_timers they run on.  Any
   number of threads call queue_task, others run the expired handlers; the two
   mutexes cover one step each, so that a timer can expire, and even be used
   again, before the call that armed it has inserted it into working_timers_.

   Timers are addresses.  Tasks with cancel_enabled, which nothing in the
   repository asks for, are not modelled.

   A definition whose name ends in _ and a word is its namesake with a slip a
   programmer could make; no other definition uses it.                       *)
EXTENDS Integers, Sequences, FiniteSets, SequencesExt

CONSTANTS
  Timer,               \* addresses of the memory pool of task_timer
  Task,                \* calls of queue_task, which bound the behaviours
  MIN_ACTIVED_TIMER    \* pool size up to which no timer is destroyed

ASSUME TimerPoolAssumption == MIN_ACTIVED_TIMER \in Nat \ {0}

VARIABLES
  live,         \* the timers that exist
  free_timers,  \* free_timers_, the most recently used one first
  working,      \* working_timers_
  waits,        \* pending async_waits; "aborted" ones get an error
  queueing,     \* queue_task calls between async_wait and the insert
  handling,     \* task_handle calls between the erase and the push_front
  queued,       \* tasks that were given to queue_task
  running,      \* task_handle calls that are about to call back, by task
  ran,          \* how often each task was called back
  destroyed     \* ~async_task was called

vars == <<live, free_timers, working, waits, queueing, handling, queued,
          running, ran, destroyed>>

Wait == [timer: Timer, task: Task, aborted: BOOLEAN]

TypeOK ==
  /\ live \subseteq Timer
  /\ free_timers \in Seq(Timer)
  /\ working \subseteq Timer
  /\ waits \subseteq Wait
  /\ queueing \subseteq [timer: Timer, task: Task]
  /\ handling \subseteq Wait
  /\ queued \subseteq Task /\ running \subseteq Task
  /\ ran \in [Task -> 0..1]   \* no task is called back twice
  /\ destroyed \in BOOLEAN

--------------------------------------------------------------------------
(* queue_task *)

\* The timer at the front of the pool or, if there is none, a new one.
TakeTimer(t) ==
  IF free_timers # <<>>
  THEN /\ t = Head(free_timers)
       /\ free_timers' = Tail(free_timers)
       /\ UNCHANGED live
  ELSE /\ t \in Timer \ live
       /\ live' = live \cup {t}
       /\ UNCHANGED free_timers

\* expires_from_now aborts what t was waiting for, then async_wait.
Arm(t, k) ==
  waits' = {IF w.timer = t THEN [w EXCEPT !.aborted = TRUE] ELSE w : w \in waits}
             \cup {[timer |-> t, task |-> k, aborted |-> FALSE]}

QueueTask(k, t) ==
  /\ ~destroyed
  /\ k \notin queued
  /\ TakeTimer(t)
  /\ Arm(t, k)
  /\ queued' = queued \cup {k}
  /\ queueing' = queueing \cup {[timer |-> t, task |-> k]}
  /\ UNCHANGED <<working, handling, running, ran, destroyed>>

\* The insert is left to the caller, who forgets it.
TrackTimer_Forgotten(q) ==
  /\ q \in queueing
  /\ queueing' = queueing \ {q}
  /\ UNCHANGED <<live, free_timers, working, waits, handling, queued, running, ran,
                 destroyed>>

\* The insert at the end of queue_task.
TrackTimer(q) ==
  /\ q \in queueing
  /\ queueing' = queueing \ {q}
  /\ working' = working \cup {q.timer}
  /\ UNCHANGED <<live, free_timers, waits, handling, queued, running, ran, destroyed>>

\* Without a delay the task is posted.
PostTask(k) ==
  /\ ~destroyed
  /\ k \notin queued
  /\ queued' = queued \cup {k}
  /\ running' = running \cup {k}
  /\ UNCHANGED <<live, free_timers, working, waits, queueing, handling, ran, destroyed>>

--------------------------------------------------------------------------
(* task_handle *)

\* The wait is over, or aborted: the timer is erased from working_timers_.
Expire(w) ==
  /\ w \in waits
  /\ waits' = waits \ {w}
  /\ working' = working \ {w.timer}
  /\ handling' = handling \cup {w}
  /\ UNCHANGED <<live, free_timers, queueing, queued, running, ran, destroyed>>

\* The pool after t came back; idle: its last timer was not used for a minute.
Returned(t) == <<t>> \o free_timers
Purged(t, idle) == idle /\ Len(Returned(t)) > MIN_ACTIVED_TIMER

\* The timer at the back is destroyed but stays in the pool.
ReturnTimer_Kept(w, idle) ==
  /\ w \in handling
  /\ handling' = handling \ {w}
  /\ free_timers' = Returned(w.timer)
  /\ live' = IF Purged(w.timer, idle) THEN live \ {Last(Returned(w.timer))} ELSE live
  /\ running' = IF w.aborted THEN running ELSE running \cup {w.task}
  /\ UNCHANGED <<working, waits, queueing, queued, ran, destroyed>>

\* The timer goes to the front of the pool; one that was idle for long is
\* destroyed; then the callback is due.
ReturnTimer(w, idle) ==
  /\ w \in handling
  /\ handling' = handling \ {w}
  /\ IF Purged(w.timer, idle)
     THEN /\ free_timers' = Front(Returned(w.timer))
          /\ live' = live \ {Last(Returned(w.timer))}
     ELSE /\ free_timers' = Returned(w.timer)
          /\ UNCHANGED live
  /\ running' = IF w.aborted THEN running ELSE running \cup {w.task}
  /\ UNCHANGED <<working, waits, queueing, queued, ran, destroyed>>

RunTask(k) ==
  /\ k \in running
  /\ running' = running \ {k}
  /\ ran' = [ran EXCEPT ![k] = @ + 1]
  /\ UNCHANGED <<live, free_timers, working, waits, queueing, handling, queued,
                 destroyed>>

\* ~async_task, when the worker threads have ended.
Destroy ==
  /\ ~destroyed
  /\ waits = {} /\ queueing = {} /\ handling = {} /\ running = {}
  /\ destroyed' = TRUE
  /\ UNCHANGED <<live, free_timers, working, waits, queueing, handling, queued,
                 running, ran>>

--------------------------------------------------------------------------
Init ==
  /\ live = {} /\ free_timers = <<>> /\ working = {}
  /\ waits = {} /\ queueing = {} /\ handling = {}
  /\ queued = {} /\ running = {}
  /\ ran = [k \in Task |-> 0]
  /\ destroyed = FALSE

Queue == \E k \in Task : PostTask(k) \/ \E t \in Timer : QueueTask(k, t)
Track == \E q \in queueing : TrackTimer(q)
Handle == \/ \E w \in waits : Expire(w)
          \/ \E w \in handling, idle \in BOOLEAN : ReturnTimer(w, idle)
          \/ \E k \in running : RunTask(k)

Next == Queue \/ Track \/ Handle \/ Destroy

Spec == Init /\ [][Next]_vars

--------------------------------------------------------------------------
(* Safety *)

Busy == {w.timer : w \in waits \cup handling}

\* Every timer that exists is in one place only: waiting for one task, in the
\* hands of its handler, or once in the pool; and only existing timers are
\* anywhere.  A timer in two places would be armed twice, which aborts the
\* first task, or destroyed while it waits.
OnePlace ==
  /\ IsInjective(free_timers)
  /\ ToSet(free_timers) \cap Busy = {}
  /\ ToSet(free_timers) \cup Busy = live
  /\ waits \cap handling = {}
  /\ \A v, w \in waits \cup handling : v.timer = w.timer => v = w

\* working_timers_ names every timer that waits, except for those whose
\* queue_task call has not come to its insert - with the late insert of an
\* earlier use and the erase of the handler in any order.
WaitingIsTracked ==
  \A w \in waits : w.timer \in working \/ \E q \in queueing : q.timer = w.timer

============================================================================
