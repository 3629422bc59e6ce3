------------------------ MODULE OfflineUpdate_proofs ------------------------
(* Theorems about TimerPool, HttpPool and their composition OfflineUpdate, for
   any number of timers, tasks, blocks, requests and clients: their types, that a
   timer, a block and a request are in one place, and that the composition does
   nothing to the timers and the requests that their modules do not allow.   *)
EXTENDS OfflineUpdate, SequenceTheorems, FiniteSetTheorems, TLAPS

--------------------------------------------------------------------------
(* Sequences without repetitions, which stand for queues and pools of things
   that are in one place at a time: what taking from and adding to an end does
   to the elements.                                                          *)

\* An element that s does not have is put before it.
LEMMA PushFront ==
  ASSUME NEW S, NEW s \in Seq(S), IsInjective(s), NEW t \in S, t \notin ToSet(s)
  PROVE  /\ <<t>> \o s \in Seq(S)
         /\ Len(<<t>> \o s) = Len(s) + 1
         /\ IsInjective(<<t>> \o s)
         /\ ToSet(<<t>> \o s) = ToSet(s) \cup {t}
<1> DEFINE u == <<t>> \o s
<1>1. /\ u \in Seq(S) /\ Len(u) = Len(s) + 1
      /\ u[1] = t /\ \A i \in 2..Len(u) : u[i] = s[i - 1]
  OBVIOUS
<1>2. DOMAIN u = 1..Len(u) /\ DOMAIN s = 1..Len(s) /\ Len(s) \in Nat
  BY <1>1
<1>3. IsInjective(u)
  <2> SUFFICES ASSUME NEW i \in 1..Len(u), NEW j \in 1..Len(u), u[i] = u[j], i # j
               PROVE  FALSE
    BY <1>2 DEF IsInjective
  <2>1. \A k \in 2..Len(u) : u[k] # t
    BY <1>1, <1>2, SMTT(30) DEF ToSet
  <2>2. i \in 2..Len(u) /\ j \in 2..Len(u)
    BY <1>1, <1>2, <2>1
  <2>3. i - 1 \in DOMAIN s /\ j - 1 \in DOMAIN s /\ s[i - 1] = s[j - 1]
    BY <1>1, <1>2, <2>2
  <2> QED BY <2>2, <2>3, <1>2 DEF IsInjective
<1>4. ToSet(u) = ToSet(s) \cup {t}
  <2>1. \A i \in 1..Len(u) : u[i] \in ToSet(s) \cup {t}
    BY <1>1, <1>2 DEF ToSet
  <2>2. \A i \in 1..Len(s) : s[i] = u[i + 1] /\ i + 1 \in 1..Len(u)
    BY <1>1, <1>2
  <2>3. t = u[1] /\ 1 \in 1..Len(u)
    BY <1>1, <1>2
  <2>4. ToSet(u) \subseteq ToSet(s) \cup {t}
    BY <1>2, <2>1 DEF ToSet
  <2>5. ToSet(s) \subseteq ToSet(u)
    BY <1>2, <2>2 DEF ToSet
  <2>6. t \in ToSet(u)
    BY <1>2, <2>3 DEF ToSet
  <2> QED BY <2>4, <2>5, <2>6
<1> QED BY <1>1, <1>3, <1>4

\* An element that s does not have is put behind it.
LEMMA PushBack ==
  ASSUME NEW S, NEW s \in Seq(S), IsInjective(s), NEW t \in S, t \notin ToSet(s)
  PROVE  /\ Append(s, t) \in Seq(S)
         /\ IsInjective(Append(s, t))
         /\ ToSet(Append(s, t)) = ToSet(s) \cup {t}
<1> DEFINE u == Append(s, t)
<1>1. /\ u \in Seq(S) /\ Len(u) = Len(s) + 1 /\ Len(s) \in Nat
      /\ u[Len(u)] = t /\ \A i \in 1..Len(s) : u[i] = s[i]
  OBVIOUS
<1>2. DOMAIN u = 1..Len(u) /\ DOMAIN s = 1..Len(s)
  BY <1>1
<1>3. \A i \in 1..Len(s) : u[i] # t
  BY <1>1, <1>2 DEF ToSet
<1>4. IsInjective(u)
  <2> SUFFICES ASSUME NEW i \in 1..Len(u), NEW j \in 1..Len(u), u[i] = u[j]
               PROVE  i = j
    BY <1>2 DEF IsInjective
  <2>1. CASE i \in 1..Len(s) /\ j \in 1..Len(s)
    BY <2>1, <1>1, <1>2 DEF IsInjective
  <2>2. CASE i = Len(u) \/ j = Len(u)
    BY <2>2, <1>1, <1>3
  <2> QED BY <2>1, <2>2, <1>1
<1>5. ToSet(u) = ToSet(s) \cup {t}
  <2>1. \A i \in 1..Len(u) : u[i] \in ToSet(s) \cup {t}
    BY <1>1, <1>2 DEF ToSet
  <2>2. \A i \in 1..Len(s) : s[i] = u[i] /\ i \in 1..Len(u)
    BY <1>1
  <2>3. t = u[Len(u)] /\ Len(u) \in 1..Len(u)
    BY <1>1
  <2> QED BY <1>2, <2>1, <2>2, <2>3 DEF ToSet
<1> QED BY <1>1, <1>4, <1>5

\* The first element is taken away.
LEMMA PopFront ==
  ASSUME NEW S, NEW s \in Seq(S), IsInjective(s), s # <<>>
  PROVE  /\ Tail(s) \in Seq(S)
         /\ IsInjective(Tail(s))
         /\ Head(s) \in ToSet(s)
         /\ ToSet(Tail(s)) = ToSet(s) \ {Head(s)}
<1> DEFINE u == Tail(s)
<1>1. /\ u \in Seq(S) /\ Len(u) = Len(s) - 1 /\ Len(s) \in Nat \ {0}
      /\ \A i \in 1..Len(u) : u[i] = s[i + 1]
      /\ Head(s) = s[1]
  OBVIOUS
<1>2. DOMAIN u = 1..Len(u) /\ DOMAIN s = 1..Len(s)
  BY <1>1
<1>3. \A i, j \in 1..Len(s) : s[i] = s[j] => i = j
  BY <1>2 DEF IsInjective
<1>4. IsInjective(u)
  <2> SUFFICES ASSUME NEW i \in 1..Len(u), NEW j \in 1..Len(u), u[i] = u[j]
               PROVE  i = j
    BY <1>2 DEF IsInjective
  <2>1. i + 1 \in 1..Len(s) /\ j + 1 \in 1..Len(s) /\ s[i + 1] = s[j + 1]
    BY <1>1
  <2> QED BY <2>1, <1>1, <1>3
<1>5. ToSet(u) = ToSet(s) \ {Head(s)}
  <2>1. \A i \in 1..Len(u) : u[i] \in ToSet(s) /\ u[i] # Head(s)
    BY <1>1, <1>2, <1>3 DEF ToSet
  <2>2. \A i \in 1..Len(s) : i # 1 => i - 1 \in 1..Len(u) /\ u[i - 1] = s[i]
    BY <1>1
  <2>3. ToSet(u) \subseteq ToSet(s) \ {Head(s)}
    BY <1>2, <2>1 DEF ToSet
  <2>4. ToSet(s) \ {Head(s)} \subseteq ToSet(u)
    <3> SUFFICES ASSUME NEW i \in 1..Len(s), s[i] # Head(s) PROVE s[i] \in ToSet(u)
      BY <1>2 DEF ToSet
    <3>1. i # 1
      BY <1>1
    <3> QED BY <3>1, <2>2, <1>2 DEF ToSet
  <2> QED BY <2>3, <2>4
<1>6. Head(s) \in ToSet(s)
  BY <1>1, <1>2 DEF ToSet
<1> QED BY <1>1, <1>4, <1>5, <1>6

\* The last element is taken away.
LEMMA PopBack ==
  ASSUME NEW S, NEW s \in Seq(S), IsInjective(s), Len(s) > 1
  PROVE  /\ Front(s) \in Seq(S)
         /\ IsInjective(Front(s))
         /\ Last(s) \in ToSet(s) /\ Last(s) # s[1]
         /\ ToSet(Front(s)) = ToSet(s) \ {Last(s)}
<1> DEFINE u == Front(s)
<1>1. /\ u \in Seq(S) /\ Len(u) = Len(s) - 1 /\ Len(s) \in Nat /\ Len(s) > 1
      /\ \A i \in 1..Len(u) : u[i] = s[i]
      /\ Last(s) = s[Len(s)]
  BY DEF Front, Last
<1>2. DOMAIN u = 1..Len(u) /\ DOMAIN s = 1..Len(s)
  BY <1>1
<1>3. \A i, j \in 1..Len(s) : s[i] = s[j] => i = j
  BY <1>2 DEF IsInjective
<1>4. IsInjective(u)
  BY <1>1, <1>2, <1>3 DEF IsInjective
<1>5. ToSet(u) = ToSet(s) \ {Last(s)}
  <2>1. \A i \in 1..Len(u) : u[i] \in ToSet(s) /\ u[i] # Last(s)
    BY <1>1, <1>2, <1>3 DEF ToSet
  <2>2. \A i \in 1..Len(s) : i # Len(s) => s[i] = u[i] /\ i \in 1..Len(u)
    BY <1>1
  <2>3. ToSet(u) \subseteq ToSet(s) \ {Last(s)}
    BY <1>2, <2>1 DEF ToSet
  <2>4. ToSet(s) \ {Last(s)} \subseteq ToSet(u)
    <3> SUFFICES ASSUME NEW i \in 1..Len(s), s[i] # Last(s) PROVE s[i] \in ToSet(u)
      BY <1>2 DEF ToSet
    <3>1. i # Len(s)
      BY <1>1
    <3> QED BY <3>1, <2>2, <1>2 DEF ToSet
  <2> QED BY <2>3, <2>4
<1>6. Last(s) \in ToSet(s) /\ Last(s) # s[1]
  BY <1>1, <1>2, <1>3 DEF ToSet
<1> QED BY <1>1, <1>4, <1>5, <1>6

--------------------------------------------------------------------------
(* Tasks: each is in one place too, which bounds how often it runs *)

TaskPlace ==
  /\ \A w \in waits \cup handling :
       w.task \in queued /\ w.task \notin running /\ ran[w.task] = 0
  /\ \A v, w \in waits \cup handling : v.task = w.task => v = w
  /\ \A k \in running : k \in queued /\ ran[k] = 0
  /\ \A k \in Task : ran[k] # 0 => k \in queued

PoolInv == TypeOK /\ OnePlace /\ TaskPlace /\ WaitingIsTracked

LEMMA PoolInit == Init => PoolInv
<1> SUFFICES ASSUME Init PROVE PoolInv
  OBVIOUS
<1>1. TypeOK
  <2>1. ran \in [Task -> 0..1] /\ free_timers \in Seq(Timer)
    BY DEF Init
  <2> QED BY <2>1 DEF Init, TypeOK
<1>2. OnePlace
  BY DEF Init, OnePlace, Busy, ToSet, IsInjective
<1>3. TaskPlace
  BY DEF Init, TaskPlace
<1>4. WaitingIsTracked
  BY DEF Init, WaitingIsTracked
<1> QED BY <1>1, <1>2, <1>3, <1>4 DEF PoolInv

\* Where queue_task gets its timer from: it waits for nothing and nobody else
\* has it.
LEMMA TakenTimer ==
  ASSUME PoolInv, NEW t \in Timer, TakeTimer(t)
  PROVE  /\ t \notin Busy
         /\ free_timers' \in Seq(Timer) /\ live' \subseteq Timer
         /\ IsInjective(free_timers')
         /\ ToSet(free_timers') \cap Busy = {} /\ t \notin ToSet(free_timers')
         /\ ToSet(free_timers') \cup Busy \cup {t} = live'
<1>1. CASE free_timers # <<>>
  <2>1. t = Head(free_timers) /\ free_timers' = Tail(free_timers) /\ live' = live
    BY <1>1 DEF TakeTimer
  <2>2. /\ Tail(free_timers) \in Seq(Timer) /\ IsInjective(Tail(free_timers))
        /\ t \in ToSet(free_timers)
        /\ ToSet(Tail(free_timers)) = ToSet(free_timers) \ {t}
    BY <1>1, <2>1, PopFront DEF PoolInv, TypeOK, OnePlace
  <2> QED BY <2>1, <2>2 DEF PoolInv, TypeOK, OnePlace
<1>2. CASE free_timers = <<>>
  <2>1. t \notin live /\ live' = live \cup {t} /\ free_timers' = free_timers
    BY <1>2 DEF TakeTimer
  <2> QED BY <2>1 DEF PoolInv, TypeOK, OnePlace
<1> QED BY <1>1, <1>2

\* Arming a timer that waits for nothing aborts nothing.
LEMMA ArmedTimer ==
  ASSUME NEW t, NEW k, t \notin Busy, Arm(t, k)
  PROVE  waits' = waits \cup {[timer |-> t, task |-> k, aborted |-> FALSE]}
<1>1. \A w \in waits : w.timer # t
  BY DEF Busy
<1>2. {IF w.timer = t THEN [w EXCEPT !.aborted = TRUE] ELSE w : w \in waits} = waits
  BY <1>1
<1> QED BY <1>2 DEF Arm

LEMMA QueueTaskStep ==
  ASSUME PoolInv, NEW k \in Task, NEW t \in Timer, QueueTask(k, t)
  PROVE  PoolInv'
<1> DEFINE n == [timer |-> t, task |-> k, aborted |-> FALSE]
<1>1. /\ t \notin Busy
      /\ free_timers' \in Seq(Timer) /\ live' \subseteq Timer
      /\ IsInjective(free_timers')
      /\ ToSet(free_timers') \cap Busy = {} /\ t \notin ToSet(free_timers')
      /\ ToSet(free_timers') \cup Busy \cup {t} = live'
  BY TakenTimer DEF QueueTask
<1>2. waits' = waits \cup {n}
  BY <1>1, ArmedTimer DEF QueueTask
<1>3. /\ queueing' = queueing \cup {[timer |-> t, task |-> k]}
      /\ k \notin queued /\ queued' = queued \cup {k}
      /\ UNCHANGED <<working, handling, running, ran, destroyed>>
  BY DEF QueueTask
<1>4. n \in Wait /\ n.timer = t /\ n.task = k
  BY DEF Wait
<1>5. \A w \in waits \cup handling : w.timer # t /\ w.task # k
  BY <1>1, <1>3 DEF Busy, PoolInv, TaskPlace
<1>6. waits' \cup handling' = waits \cup handling \cup {n}
  BY <1>2, <1>3
<1>7. Busy' = Busy \cup {t}
  BY <1>4, <1>6 DEF Busy
<1>8. TypeOK'
  <2>1. waits' \subseteq Wait /\ queueing' \subseteq [timer: Timer, task: Task]
    <3> DEFINE q == [timer |-> t, task |-> k]
    <3>1. q \in [timer: Timer, task: Task] /\ queueing' = queueing \cup {q}
      BY <1>3
    <3>2. queueing' \subseteq [timer: Timer, task: Task]
      BY <3>1 DEF PoolInv, TypeOK
    <3>3. waits' \subseteq Wait
      BY <1>2, <1>4 DEF PoolInv, TypeOK
    <3> QED BY <3>2, <3>3
  <2>2. queued' \subseteq Task
    BY <1>3 DEF PoolInv, TypeOK
  <2> QED BY <1>1, <1>3, <2>1, <2>2 DEF PoolInv, TypeOK
<1>9. OnePlace'
  <2>1. waits' \cap handling' = {}
    BY <1>2, <1>3, <1>4, <1>5 DEF PoolInv, OnePlace
  <2>2. \A v, w \in waits' \cup handling' : v.timer = w.timer => v = w
    BY <1>4, <1>5, <1>6 DEF PoolInv, OnePlace
  <2> QED BY <1>1, <1>7, <2>1, <2>2 DEF OnePlace
<1>10. TaskPlace'
  <2>1. k \notin running /\ ran[k] = 0
    BY <1>3 DEF PoolInv, TaskPlace
  <2>2. \A w \in waits' \cup handling' :
          w.task \in queued' /\ w.task \notin running' /\ ran'[w.task] = 0
    BY <2>1, <1>3, <1>4, <1>6 DEF PoolInv, TaskPlace
  <2>3. \A v, w \in waits' \cup handling' : v.task = w.task => v = w
    BY <1>4, <1>5, <1>6 DEF PoolInv, TaskPlace
  <2> QED BY <2>2, <2>3, <1>3 DEF PoolInv, TaskPlace
<1>11. WaitingIsTracked'
  <2> DEFINE q == [timer |-> t, task |-> k]
  <2>1. q \in queueing' /\ q.timer = n.timer
    BY <1>3
  <2>2. \A w \in waits : w.timer \in working' \/ \E p \in queueing' : p.timer = w.timer
    BY <1>3 DEF PoolInv, WaitingIsTracked
  <2> QED BY <1>2, <2>1, <2>2 DEF WaitingIsTracked
<1> QED BY <1>8, <1>9, <1>10, <1>11 DEF PoolInv

LEMMA PostTaskStep == ASSUME PoolInv, NEW k \in Task, PostTask(k) PROVE PoolInv'
<1>1. /\ k \notin queued /\ queued' = queued \cup {k} /\ running' = running \cup {k}
      /\ UNCHANGED <<live, free_timers, working, waits, queueing, handling, ran, destroyed>>
  BY DEF PostTask
<1>2. TypeOK'
  BY <1>1 DEF PoolInv, TypeOK
<1>3. OnePlace'
  BY <1>1 DEF PoolInv, OnePlace, Busy
<1>4. TaskPlace'
  BY <1>1 DEF PoolInv, TaskPlace
<1>5. WaitingIsTracked'
  BY <1>1 DEF PoolInv, WaitingIsTracked
<1> QED BY <1>2, <1>3, <1>4, <1>5 DEF PoolInv

LEMMA TrackTimerStep == ASSUME PoolInv, NEW q \in queueing, TrackTimer(q) PROVE PoolInv'
<1>1. /\ queueing' = queueing \ {q} /\ working' = working \cup {q.timer}
      /\ UNCHANGED <<live, free_timers, waits, handling, queued, running, ran, destroyed>>
  BY DEF TrackTimer
<1>2. TypeOK'
  BY <1>1 DEF PoolInv, TypeOK
<1>3. OnePlace'
  BY <1>1 DEF PoolInv, OnePlace, Busy
<1>4. TaskPlace'
  BY <1>1 DEF PoolInv, TaskPlace
<1>5. WaitingIsTracked'
  BY <1>1 DEF PoolInv, WaitingIsTracked
<1> QED BY <1>2, <1>3, <1>4, <1>5 DEF PoolInv

LEMMA ExpireStep == ASSUME PoolInv, NEW w \in waits, Expire(w) PROVE PoolInv'
<1>1. /\ waits' = waits \ {w} /\ working' = working \ {w.timer}
      /\ handling' = handling \cup {w}
      /\ UNCHANGED <<live, free_timers, queueing, queued, running, ran, destroyed>>
  BY DEF Expire
<1>2. waits' \cup handling' = waits \cup handling
  BY <1>1
<1>3. Busy' = Busy
  BY <1>2 DEF Busy
<1>4. TypeOK'
  BY <1>1 DEF PoolInv, TypeOK
<1>5. OnePlace'
  BY <1>1, <1>2, <1>3 DEF PoolInv, OnePlace
<1>6. TaskPlace'
  BY <1>1, <1>2 DEF PoolInv, TaskPlace
<1>7. WaitingIsTracked'
  <2>1. \A v \in waits' : v.timer # w.timer
    BY <1>1 DEF PoolInv, OnePlace
  <2> QED BY <1>1, <2>1 DEF PoolInv, WaitingIsTracked
<1> QED BY <1>4, <1>5, <1>6, <1>7 DEF PoolInv

\* task_handle gives the timer back, and the purge of the pool destroys only a
\* timer that lies in it.
LEMMA ReturnTimerStep ==
  ASSUME PoolInv, NEW w \in handling, NEW idle \in BOOLEAN, ReturnTimer(w, idle)
  PROVE  PoolInv'
<1> USE TimerPoolAssumption
<1> DEFINE s == Returned(w.timer)
<1>1. w \in Wait /\ w.timer \in Timer /\ w.task \in Task /\ w \notin waits
  BY DEF PoolInv, TypeOK, OnePlace, Wait
<1>2. w.timer \in Busy /\ w.timer \notin ToSet(free_timers)
  BY DEF PoolInv, OnePlace, Busy
<1>3. /\ s \in Seq(Timer) /\ Len(s) = Len(free_timers) + 1 /\ IsInjective(s)
      /\ ToSet(s) = ToSet(free_timers) \cup {w.timer}
  BY <1>1, <1>2, PushFront DEF Returned, PoolInv, TypeOK, OnePlace
<1>4. waits' \cup handling' = (waits \cup handling) \ {w}
  BY <1>1 DEF ReturnTimer
<1>5. Busy' = Busy \ {w.timer}
  BY <1>4 DEF Busy, PoolInv, OnePlace
<1>6. /\ free_timers' \in Seq(Timer) /\ IsInjective(free_timers')
      /\ ToSet(free_timers') \cap Busy' = {}
      /\ ToSet(free_timers') \cup Busy' = live'
  <2>1. CASE Purged(w.timer, idle)
    <3>1. Len(s) > 1
      BY <2>1, <1>3 DEF Purged
    <3>2. /\ Front(s) \in Seq(Timer) /\ IsInjective(Front(s)) /\ Last(s) \in ToSet(s)
          /\ ToSet(Front(s)) = ToSet(s) \ {Last(s)}
      BY <1>3, <3>1, PopBack
    <3>3. free_timers' = Front(s) /\ live' = live \ {Last(s)}
      BY <2>1 DEF ReturnTimer
    <3> QED BY <1>2, <1>3, <1>5, <3>2, <3>3 DEF PoolInv, OnePlace
  <2>2. CASE ~Purged(w.timer, idle)
    <3>1. free_timers' = s /\ live' = live
      BY <2>2 DEF ReturnTimer
    <3> QED BY <1>2, <1>3, <1>5, <3>1 DEF PoolInv, OnePlace
  <2> QED BY <2>1, <2>2
<1>7. live' \subseteq live
  BY DEF ReturnTimer
<1>8. /\ handling' = handling \ {w} /\ running' \subseteq running \cup {w.task}
      /\ UNCHANGED <<working, waits, queueing, queued, ran, destroyed>>
  BY DEF ReturnTimer
<1>9. TypeOK'
  BY <1>1, <1>6, <1>7, <1>8 DEF PoolInv, TypeOK
<1>10. OnePlace'
  BY <1>4, <1>6, <1>8 DEF PoolInv, OnePlace
<1>11. TaskPlace'
  <2>1. w.task \in queued /\ ran[w.task] = 0
    BY DEF PoolInv, TaskPlace
  <2>2. \A v \in (waits \cup handling) \ {w} : v.task # w.task
    BY DEF PoolInv, TaskPlace
  <2> QED BY <1>4, <1>8, <2>1, <2>2 DEF PoolInv, TaskPlace
<1>12. WaitingIsTracked'
  BY <1>8 DEF PoolInv, WaitingIsTracked
<1> QED BY <1>9, <1>10, <1>11, <1>12 DEF PoolInv

LEMMA RunTaskStep == ASSUME PoolInv, NEW k \in running, RunTask(k) PROVE PoolInv'
<1>1. /\ running' = running \ {k} /\ ran' = [ran EXCEPT ![k] = ran[k] + 1]
      /\ UNCHANGED <<live, free_timers, working, waits, queueing, handling, queued, destroyed>>
  BY DEF RunTask
<1>2. k \in Task /\ k \in queued /\ ran[k] = 0
  BY DEF PoolInv, TypeOK, TaskPlace
<1>3. ran' \in [Task -> 0..1] /\ \A j \in Task : j # k => ran'[j] = ran[j]
  BY <1>1, <1>2 DEF PoolInv, TypeOK
<1>4. TypeOK'
  BY <1>1, <1>3 DEF PoolInv, TypeOK
<1>5. OnePlace'
  BY <1>1 DEF PoolInv, OnePlace, Busy
<1>6. TaskPlace'
  <2>1. \A w \in waits \cup handling : w.task # k /\ w.task \in Task
    BY DEF PoolInv, TaskPlace, TypeOK, Wait
  <2> QED BY <1>1, <1>2, <1>3, <2>1 DEF PoolInv, TaskPlace, TypeOK
<1>7. WaitingIsTracked'
  BY <1>1 DEF PoolInv, WaitingIsTracked
<1> QED BY <1>4, <1>5, <1>6, <1>7 DEF PoolInv

LEMMA PoolStep == PoolInv /\ [Next]_vars => PoolInv'
<1> SUFFICES ASSUME PoolInv, [Next]_vars PROVE PoolInv'
  OBVIOUS
<1>1. CASE Queue
  BY <1>1, QueueTaskStep, PostTaskStep DEF Queue
<1>2. CASE Track
  BY <1>2, TrackTimerStep DEF Track
<1>3. CASE Handle
  BY <1>3, ExpireStep, ReturnTimerStep, RunTaskStep DEF Handle
<1>4. CASE Destroy \/ UNCHANGED vars
  <2>1. /\ UNCHANGED <<live, free_timers, working, waits, queueing, handling, queued,
                       running, ran>>
        /\ destroyed' \in BOOLEAN
    BY <1>4 DEF Destroy, vars, PoolInv, TypeOK
  <2>2. TypeOK'
    BY <2>1 DEF PoolInv, TypeOK
  <2>3. OnePlace' /\ TaskPlace' /\ WaitingIsTracked'
    BY <2>1 DEF PoolInv, OnePlace, Busy, TaskPlace, WaitingIsTracked
  <2> QED BY <2>2, <2>3 DEF PoolInv
<1> QED BY <1>1, <1>2, <1>3, <1>4 DEF Next

--------------------------------------------------------------------------
THEOREM PoolInductive == Spec => []PoolInv
  BY PoolInit, PoolStep, PTL DEF Spec

\* Type correctness, with the bound that no task is called back twice.
THEOREM TasksRunAtMostOnce == Spec => []TypeOK
<1>1. PoolInv => TypeOK
  BY DEF PoolInv
<1> QED BY <1>1, PoolInductive, PTL

\* No timer is armed while it waits or lies in the pool, and none is destroyed
\* under its wait or its handler.
THEOREM TimersInOnePlace == Spec => []OnePlace
<1>1. PoolInv => OnePlace
  BY DEF PoolInv
<1> QED BY <1>1, PoolInductive, PTL

\* cancel_all_task would reach every waiting timer that queue_task has left.
THEOREM WaitingTimersTracked == Spec => []WaitingIsTracked
<1>1. PoolInv => WaitingIsTracked
  BY DEF PoolInv
<1> QED BY <1>1, PoolInductive, PTL

--------------------------------------------------------------------------
(* The requests *)

\* Only requests that were asked for are anywhere; a handler has run its
\* callback and knows that its request is answered.
OnlyAsked ==
  /\ refused \cup ToSet(task_queue) \cup Requested \subseteq asked
  /\ \A r \in Request : answered[r] = 1 => r \in asked
  /\ \A w \in reported : answered[w.request] = 1

HttpInv == HttpTypeOK /\ BlockHasOneUser /\ RequestInOnePlace /\ OnlyAsked

LEMMA HttpInvInit == HttpInit => HttpInv
<1> SUFFICES ASSUME HttpInit PROVE HttpInv
  OBVIOUS
<1>1. ToSet(task_queue) = {} /\ IsInjective(task_queue) /\ task_queue \in Seq(Request)
  BY DEF HttpInit, ToSet, IsInjective
<1>2. Requested = {} /\ Used = {}
  BY DEF HttpInit, Requested, Used
<1>3. HttpTypeOK
  BY <1>1 DEF HttpInit, HttpTypeOK
<1>4. BlockHasOneUser
  BY <1>2 DEF HttpInit, BlockHasOneUser
<1>5. RequestInOnePlace /\ OnlyAsked
  BY <1>1, <1>2 DEF HttpInit, RequestInOnePlace, OnlyAsked
<1> QED BY <1>3, <1>4, <1>5 DEF HttpInv

\* A request that is in no block takes a free one.
LEMMA Started ==
  ASSUME HttpInv, NEW b \in Block, NEW r \in Request, r \notin Requested,
         StartRequest(b, r), reported' = reported
  PROVE  /\ request_pool' \subseteq Block /\ sent' \subseteq Use
         /\ BlockHasOneUser'
         /\ Requested' = Requested \cup {r}
         /\ \A v, w \in sent' \cup reported' : v.request = w.request => v = w
         /\ \A w \in sent' : w \in sent \/ w.request = r
<1> DEFINE n == [block |-> b, request |-> r]
<1>1. n \in Use /\ n.block = b /\ n.request = r
  BY DEF Use
<1>2. /\ b \in request_pool /\ request_pool' = request_pool \ {b}
      /\ sent' = sent \cup {n} /\ reported' = reported
  BY DEF StartRequest
<1>3. \A w \in sent \cup reported : w.block # b /\ w.request # r
  BY <1>2 DEF HttpInv, BlockHasOneUser, Used, Requested
<1>4. Requested' = Requested \cup {r} /\ Used' = Used \cup {b}
  BY <1>1, <1>2 DEF Requested, Used
<1>5. request_pool' \cap Used' = {} /\ request_pool' \cup Used' = Block
  BY <1>2, <1>4 DEF HttpInv, BlockHasOneUser
<1>6. \A v, w \in sent' \cup reported' :
        (v.block = w.block => v = w) /\ (v.request = w.request => v = w)
  BY <1>1, <1>2, <1>3 DEF HttpInv, BlockHasOneUser, RequestInOnePlace
<1>7. sent' \cap reported' = {}
  BY <1>1, <1>2, <1>3 DEF HttpInv, BlockHasOneUser
<1>8. BlockHasOneUser'
  BY <1>5, <1>6, <1>7 DEF BlockHasOneUser
<1> QED BY <1>1, <1>2, <1>4, <1>6, <1>8 DEF HttpInv, HttpTypeOK

LEMMA QueueStep ==
  ASSUME HttpInv, NEW r \in Request, QueueRequest(r) PROVE HttpInv'
<1>1. PICK b \in Block : StartRequest(b, r)
  BY DEF QueueRequest
<1>2. /\ r \notin asked /\ asked' = asked \cup {r}
      /\ UNCHANGED <<task_queue, refused, reported, draining, holder, answered>>
  BY DEF QueueRequest
<1>3. r \notin refused \cup ToSet(task_queue) \cup Requested /\ answered[r] = 0
  BY <1>2 DEF HttpInv, OnlyAsked, HttpTypeOK
<1>4. /\ request_pool' \subseteq Block /\ sent' \subseteq Use
      /\ BlockHasOneUser'
      /\ Requested' = Requested \cup {r}
      /\ \A v, w \in sent' \cup reported' : v.request = w.request => v = w
      /\ \A w \in sent' : w \in sent \/ w.request = r
  BY <1>1, <1>2, <1>3, Started
<1>5. HttpTypeOK'
  BY <1>2, <1>4 DEF HttpInv, HttpTypeOK
<1>6. RequestInOnePlace'
  BY <1>2, <1>3, <1>4 DEF HttpInv, RequestInOnePlace
<1>7. OnlyAsked'
  BY <1>2, <1>4 DEF HttpInv, OnlyAsked
<1> QED BY <1>4, <1>5, <1>6, <1>7 DEF HttpInv

LEMMA StartTaskStep ==
  ASSUME HttpInv, NEW h \in Request, StartTask(h) PROVE HttpInv'
<1> DEFINE r == Head(task_queue)
<1>1. PICK b \in Block : StartRequest(b, r)
  BY DEF StartTask
<1>2. /\ task_queue # <<>> /\ task_queue' = Tail(task_queue)
      /\ UNCHANGED <<asked, refused, reported, draining, holder, answered>>
  BY DEF StartTask
<1>3. task_queue \in Seq(Request) /\ IsInjective(task_queue)
  BY DEF HttpInv, HttpTypeOK, RequestInOnePlace
<1>4. /\ task_queue' \in Seq(Request) /\ IsInjective(task_queue')
      /\ r \in ToSet(task_queue)
      /\ ToSet(task_queue') = ToSet(task_queue) \ {r}
  BY <1>2, <1>3, PopFront
<1>5. r \in Request
  BY <1>2, <1>3
<1>6. r \notin refused /\ r \notin Requested /\ answered[r] = 0 /\ r \in asked
  BY <1>4, <1>5 DEF HttpInv, RequestInOnePlace, OnlyAsked, HttpTypeOK
<1>7. /\ request_pool' \subseteq Block /\ sent' \subseteq Use
      /\ BlockHasOneUser'
      /\ Requested' = Requested \cup {r}
      /\ \A v, w \in sent' \cup reported' : v.request = w.request => v = w
      /\ \A w \in sent' : w \in sent \/ w.request = r
  BY <1>1, <1>2, <1>5, <1>6, Started
<1>8. HttpTypeOK'
  BY <1>2, <1>4, <1>7 DEF HttpInv, HttpTypeOK
<1>9. RequestInOnePlace'
  BY <1>2, <1>4, <1>6, <1>7 DEF HttpInv, RequestInOnePlace
<1>10. OnlyAsked'
  BY <1>2, <1>4, <1>6, <1>7 DEF HttpInv, OnlyAsked
<1> QED BY <1>7, <1>8, <1>9, <1>10 DEF HttpInv

LEMMA PushTaskStep ==
  ASSUME HttpInv, NEW r \in Request, PushTask(r) PROVE HttpInv'
<1>1. /\ r \in refused /\ refused' = refused \ {r}
      /\ task_queue' = Append(task_queue, r)
      /\ UNCHANGED <<request_pool, asked, sent, reported, draining, holder, answered>>
  BY DEF PushTask
<1>2. /\ task_queue \in Seq(Request) /\ IsInjective(task_queue)
      /\ r \notin ToSet(task_queue) \cup Requested /\ r \in asked
      /\ answered[r] = 0
  BY <1>1 DEF HttpInv, HttpTypeOK, RequestInOnePlace, OnlyAsked
<1>3. /\ task_queue' \in Seq(Request) /\ IsInjective(task_queue')
      /\ ToSet(task_queue') = ToSet(task_queue) \cup {r}
  BY <1>1, <1>2, PushBack
<1>4. Requested' = Requested /\ Used' = Used
  BY <1>1 DEF Requested, Used
<1>5. HttpTypeOK'
  BY <1>1, <1>3 DEF HttpInv, HttpTypeOK
<1>6. BlockHasOneUser'
  BY <1>1, <1>4 DEF HttpInv, BlockHasOneUser
<1>7. RequestInOnePlace'
  BY <1>1, <1>2, <1>3, <1>4 DEF HttpInv, RequestInOnePlace
<1>8. OnlyAsked'
  BY <1>1, <1>2, <1>3, <1>4 DEF HttpInv, OnlyAsked
<1> QED BY <1>5, <1>6, <1>7, <1>8 DEF HttpInv

LEMMA RefuseStep ==
  ASSUME HttpInv, NEW r \in Request, RefuseRequest(r) PROVE HttpInv'
<1>1. /\ r \notin asked /\ asked' = asked \cup {r} /\ refused' = refused \cup {r}
      /\ UNCHANGED <<request_pool, task_queue, sent, reported, draining, holder,
                     answered>>
  BY DEF RefuseRequest
<1>2. r \notin ToSet(task_queue) \cup Requested /\ answered[r] = 0
  BY <1>1 DEF HttpInv, OnlyAsked, HttpTypeOK
<1>3. Requested' = Requested /\ Used' = Used
  BY <1>1 DEF Requested, Used
<1>4. HttpTypeOK'
  BY <1>1 DEF HttpInv, HttpTypeOK
<1>5. BlockHasOneUser'
  BY <1>1, <1>3 DEF HttpInv, BlockHasOneUser
<1>6. RequestInOnePlace'
  BY <1>1, <1>2, <1>3 DEF HttpInv, RequestInOnePlace
<1>7. OnlyAsked'
  BY <1>1, <1>3 DEF HttpInv, OnlyAsked
<1> QED BY <1>4, <1>5, <1>6, <1>7 DEF HttpInv

LEMMA AnswerStep ==
  ASSUME HttpInv, NEW w \in sent, Answer(w) PROVE HttpInv'
<1>1. /\ sent' = sent \ {w} /\ reported' = reported \cup {w}
      /\ answered' = [answered EXCEPT ![w.request] = @ + 1]
      /\ UNCHANGED <<request_pool, task_queue, asked, refused, draining, holder>>
  BY DEF Answer
<1>2. sent' \cup reported' = sent \cup reported
  BY <1>1
<1>3. Requested' = Requested /\ Used' = Used
  BY <1>2 DEF Requested, Used
<1>4. w \in Use /\ w.request \in Request /\ answered[w.request] = 0
  BY DEF HttpInv, HttpTypeOK, Use, RequestInOnePlace
<1>5. /\ answered' \in [Request -> 0..1] /\ answered'[w.request] = 1
      /\ \A r \in Request \ {w.request} : answered'[r] = answered[r]
  BY <1>1, <1>4 DEF HttpInv, HttpTypeOK
<1>6. HttpTypeOK'
  BY <1>1, <1>4, <1>5 DEF HttpInv, HttpTypeOK
<1>7. BlockHasOneUser'
  BY <1>1, <1>2, <1>3 DEF HttpInv, BlockHasOneUser
<1>8. w.request \in Requested
  BY DEF Requested
<1>9. \A v \in sent' : v.request # w.request /\ v.request \in Request
  BY <1>1 DEF HttpInv, HttpTypeOK, Use, RequestInOnePlace
<1>10. \A v \in reported : v.request # w.request /\ v.request \in Request
  BY DEF HttpInv, HttpTypeOK, Use, RequestInOnePlace, BlockHasOneUser
<1>11. RequestInOnePlace'
  <2>1. \A r \in Request : answered'[r] = 1 => r \notin refused' \cup ToSet(task_queue')
    BY <1>1, <1>5, <1>8 DEF HttpInv, RequestInOnePlace
  <2>2. \A v \in sent' : answered'[v.request] = 0
    BY <1>1, <1>5, <1>9 DEF HttpInv, RequestInOnePlace
  <2>3. \A r \in asked' : r \in refused' \cup ToSet(task_queue') \cup Requested' \/ answered'[r] = 1
    BY <1>1, <1>3, <1>5 DEF HttpInv, RequestInOnePlace, HttpTypeOK
  <2> QED BY <1>1, <1>2, <1>3, <2>1, <2>2, <2>3 DEF HttpInv, RequestInOnePlace
<1>12. OnlyAsked'
  <2>1. \A r \in Request : answered'[r] = 1 => r \in asked'
    BY <1>1, <1>5, <1>8 DEF HttpInv, OnlyAsked
  <2>2. \A v \in reported' : answered'[v.request] = 1
    BY <1>1, <1>5, <1>10 DEF HttpInv, OnlyAsked
  <2> QED BY <1>1, <1>3, <2>1, <2>2 DEF HttpInv, OnlyAsked
<1> QED BY <1>6, <1>7, <1>11, <1>12 DEF HttpInv

LEMMA FreeStep ==
  ASSUME HttpInv, NEW w \in reported, FreeRequest(w) PROVE HttpInv'
<1>1. /\ reported' = reported \ {w} /\ request_pool' = request_pool \cup {w.block}
      /\ draining' = draining \cup {w.request}
      /\ UNCHANGED <<task_queue, asked, refused, sent, holder, answered>>
  BY DEF FreeRequest
<1>2. /\ w \in Use /\ w.request \in Request /\ w.block \in Block
      /\ answered[w.request] = 1
  BY DEF HttpInv, HttpTypeOK, Use, OnlyAsked
<1>3. \A v \in sent' \cup reported' :
        /\ v \in sent \cup reported /\ v # w
        /\ v.block # w.block /\ v.request # w.request
  BY <1>1 DEF HttpInv, BlockHasOneUser, RequestInOnePlace
<1>4. Requested' = Requested \ {w.request} /\ Used' = Used \ {w.block}
  <2>1. \A v \in sent \cup reported : v \in sent' \cup reported' \/ v = w
    BY <1>1
  <2> QED BY <1>3, <2>1 DEF Requested, Used
<1>5. HttpTypeOK'
  BY <1>1, <1>2 DEF HttpInv, HttpTypeOK
<1>6. BlockHasOneUser'
  <2>1. w.block \in Used
    BY DEF Used
  <2>2. request_pool' \cap Used' = {} /\ request_pool' \cup Used' = Block
    BY <1>1, <1>4, <2>1 DEF HttpInv, BlockHasOneUser
  <2> QED BY <1>1, <1>3, <2>2 DEF HttpInv, BlockHasOneUser
<1>7. RequestInOnePlace'
  BY <1>1, <1>2, <1>3, <1>4 DEF HttpInv, RequestInOnePlace
<1>8. OnlyAsked'
  BY <1>1, <1>4 DEF HttpInv, OnlyAsked
<1> QED BY <1>5, <1>6, <1>7, <1>8 DEF HttpInv

\* The steps that take and give back the lock.
LEMMA LockStep ==
  ASSUME HttpInv, NEW r \in Request, LockQueue(r) \/ EndDrain(r)
  PROVE  HttpInv'
<1>1. UNCHANGED <<request_pool, task_queue, asked, refused, sent, reported, answered>>
  BY DEF LockQueue, EndDrain
<1>2. holder' \in Request \cup {NULL} /\ draining' \subseteq Request
  BY DEF LockQueue, EndDrain, HttpInv, HttpTypeOK
<1>3. Requested' = Requested /\ Used' = Used
  BY <1>1 DEF Requested, Used
<1>4. HttpTypeOK'
  BY <1>1, <1>2 DEF HttpInv, HttpTypeOK
<1>5. BlockHasOneUser' /\ RequestInOnePlace' /\ OnlyAsked'
  BY <1>1, <1>3 DEF HttpInv, BlockHasOneUser, RequestInOnePlace, OnlyAsked
<1> QED BY <1>4, <1>5 DEF HttpInv

THEOREM HttpInductive == HttpSpec => []HttpInv
<1>1. HttpInv /\ [HttpNext]_http_vars => HttpInv'
  <2> SUFFICES ASSUME HttpInv, [HttpNext]_http_vars PROVE HttpInv'
    OBVIOUS
  <2>1. ASSUME NEW r \in Request, PushTask(r) PROVE HttpInv'
    BY <2>1, PushTaskStep
  <2>2. ASSUME NEW r \in Request, LockQueue(r) \/ EndDrain(r) PROVE HttpInv'
    BY <2>2, LockStep
  <2>3. ASSUME NEW r \in Request, StartTask(r) PROVE HttpInv'
    BY <2>3, StartTaskStep
  <2>4. ASSUME NEW w \in sent, Answer(w) PROVE HttpInv'
    BY <2>4, AnswerStep
  <2>5. ASSUME NEW w \in reported, FreeRequest(w) PROVE HttpInv'
    BY <2>5, FreeStep
  <2>6. ASSUME NEW r \in Request, Ask(r) PROVE HttpInv'
    BY <2>6, QueueStep, RefuseStep DEF Ask
  <2>7. CASE UNCHANGED http_vars
    <3>1. Requested' = Requested /\ Used' = Used
      BY <2>7 DEF Requested, Used, http_vars
    <3>2. HttpTypeOK'
      BY <2>7 DEF HttpInv, HttpTypeOK, http_vars
    <3> QED BY <2>7, <3>1, <3>2
            DEF HttpInv, BlockHasOneUser, RequestInOnePlace, OnlyAsked, http_vars
  <2> QED BY <2>1, <2>2, <2>3, <2>4, <2>5, <2>6, <2>7 DEF HttpNext, Work
<1> QED BY <1>1, HttpInvInit, PTL DEF HttpSpec

\* Type correctness, with the bound that no callback runs twice.
THEOREM CallbacksRunAtMostOnce == HttpSpec => []HttpTypeOK
<1>1. HttpInv => HttpTypeOK
  BY DEF HttpInv
<1> QED BY <1>1, HttpInductive, PTL

\* No http_request is constructed in memory that another one lives in, and no
\* block is lost.
THEOREM BlocksHaveOneUser == HttpSpec => []BlockHasOneUser
<1>1. HttpInv => BlockHasOneUser
  BY DEF HttpInv
<1> QED BY <1>1, HttpInductive, PTL

\* No request is lost or sent twice between the queue and the blocks.
THEOREM RequestsInOnePlace == HttpSpec => []RequestInOnePlace
<1>1. HttpInv => RequestInOnePlace
  BY DEF HttpInv
<1> QED BY <1>1, HttpInductive, PTL

--------------------------------------------------------------------------
(* The composition *)

\* A step of OfflineUpdate is a step of HttpPool, or none.
LEMMA OfflineHttpStep == [OfflineNext]_all_vars => [HttpNext]_http_vars
<1> SUFFICES ASSUME [OfflineNext]_all_vars PROVE [HttpNext]_http_vars
  OBVIOUS
<1>1. ASSUME NEW c, RemoveClient(c) PROVE [HttpNext]_http_vars
  BY <1>1 DEF RemoveClient, BeginUpdateClient, HttpNext
<1>2. ASSUME NEW w \in sent, Updated(w) \/ Retry(w) \/ GiveUp(w) PROVE HttpNext
  BY <1>2 DEF Updated, Retry, GiveUp, HttpNext, Work
<1>3. ASSUME NEW w \in reported, Returns(w) PROVE HttpNext
  BY <1>3 DEF Returns, HttpNext, Work
<1>4. ASSUME NEW r \in Request, Transfer(r) PROVE HttpNext
  BY <1>4 DEF Transfer, HttpNext, Work
<1>5. ASSUME NEW k \in running, RunRetry(k) \/ RunOther(k) PROVE [HttpNext]_http_vars
  BY <1>1, <1>5 DEF RunRetry, RunOther
<1>6. CASE Timing \/ End \/ \E k \in Task : Other(k)
  BY <1>6 DEF Timing, End, Other
<1>7. ASSUME NEW c \in Client, Leave(c) PROVE [HttpNext]_http_vars
  BY <1>1, <1>7 DEF Leave
<1>8. CASE UNCHANGED all_vars
  BY <1>8 DEF all_vars
<1> QED BY <1>2, <1>3, <1>4, <1>5, <1>6, <1>7, <1>8 DEF OfflineNext, Server

\* The requests of offline updates are requests of HttpPool.
THEOREM OfflineRequests == OfflineSpec => HttpSpec
<1>1. OfflineInit => HttpInit
  BY DEF OfflineInit
<1> QED BY <1>1, OfflineHttpStep, PTL DEF OfflineSpec, HttpSpec

\* If the requests have their types, it is a step of TimerPool, or none.
LEMMA OfflineTimerStep == HttpTypeOK /\ [OfflineNext]_all_vars => [Next]_vars
<1> SUFFICES ASSUME HttpTypeOK, [OfflineNext]_all_vars PROVE [Next]_vars
  OBVIOUS
<1>1. ASSUME NEW w \in sent, Retry(w) PROVE Next
  <2>1. w.request \in Task
    BY OfflineUpdateAssumption DEF HttpTypeOK, Use
  <2> QED BY <1>1, <2>1 DEF Retry, Next, Queue
<1>2. ASSUME NEW w \in sent, Updated(w) \/ GiveUp(w) PROVE UNCHANGED vars
  BY <1>2 DEF Updated, GiveUp
<1>3. ASSUME NEW w \in reported, Returns(w) PROVE UNCHANGED vars
  BY <1>3 DEF Returns
<1>4. ASSUME NEW r \in Request, Transfer(r) PROVE UNCHANGED vars
  BY <1>4 DEF Transfer
<1>5. ASSUME NEW k \in running, RunRetry(k) \/ RunOther(k) PROVE Next
  BY <1>5 DEF RunRetry, RunOther, Next, Handle
<1>6. CASE Timing
  BY <1>6 DEF Timing, Next, Handle
<1>7. CASE End \/ \E k \in Task : Other(k)
  BY <1>7 DEF End, Other, Next, Queue
<1>8. CASE UNCHANGED all_vars \/ \E c \in Client : Leave(c)
  BY <1>8 DEF all_vars, Leave
<1> QED BY <1>1, <1>2, <1>3, <1>4, <1>5, <1>6, <1>7, <1>8 DEF OfflineNext, Server

\* The retries, and the other tasks, are tasks of TimerPool.
THEOREM OfflineTimers == OfflineSpec => Spec
<1>1. OfflineInit => Init
  BY DEF OfflineInit
<1>2. OfflineSpec => []HttpTypeOK
  BY OfflineRequests, CallbacksRunAtMostOnce, PTL
<1> QED BY <1>1, <1>2, OfflineTimerStep, PTL DEF OfflineSpec, Spec

\* So what holds of the timers and the requests alone holds of offline updates.
THEOREM OfflineSafe ==
  OfflineSpec => [](OnePlace /\ WaitingIsTracked /\ BlockHasOneUser /\ RequestInOnePlace)
  BY OfflineRequests, OfflineTimers, TimersInOnePlace, WaitingTimersTracked,
     BlocksHaveOneUser, RequestsInOnePlace, PTL

--------------------------------------------------------------------------
(* The clients that leave *)

\* What has become of a client: it is at home, or its present try was asked for,
\* or the task that will ask for it waits, or it is gone.  The number of tries
\* that are left names the request, and the task is named by the try before.
Tried(c) == {k \in 1..UP_RE_TIMES : <<c, k>> \in asked}
Repeated(c) == {k \in 1..UP_RE_TIMES : <<c, k>> \in queued}
AtHome(c) ==
  /\ c \notin leaving /\ removed[c] = 0
  /\ retry_update_times[c] = UP_RE_TIMES
  /\ Requesting(c) = {} /\ Waiting(c) = {}
  /\ Tried(c) = {} /\ Repeated(c) = {}
Asking(c) ==
  /\ c \in leaving /\ removed[c] = 0
  /\ retry_update_times[c] \in 1..UP_RE_TIMES
  /\ Requesting(c) = {<<c, retry_update_times[c]>>} /\ Waiting(c) = {}
  /\ \A k \in Tried(c) : k >= retry_update_times[c]
  /\ \A k \in Repeated(c) : k > retry_update_times[c]
Paused(c) ==
  /\ c \in leaving /\ removed[c] = 0
  /\ retry_update_times[c] \in 1..UP_RE_TIMES - 1
  /\ Requesting(c) = {} /\ Waiting(c) = {<<c, retry_update_times[c] + 1>>}
  /\ \A k \in Tried(c) : k > retry_update_times[c]
  /\ \A k \in Repeated(c) : k > retry_update_times[c]
Gone(c) ==
  /\ c \in leaving /\ removed[c] = 1
  /\ Requesting(c) = {} /\ Waiting(c) = {}
Course(c) == AtHome(c) \/ Asking(c) \/ Paused(c) \/ Gone(c)

OfflineType ==
  /\ retry_update_times \in [Client -> 0..UP_RE_TIMES]
  /\ leaving \subseteq Client
  /\ removed \in [Client -> Nat]
LeaveInv == OfflineType /\ \A c \in Client : Course(c)

\* A request is a client with a number of tries.
LEMMA Named ==
  /\ \A r \in Request : r = <<r[1], r[2]>> /\ r[1] \in Client /\ r[2] \in 1..UP_RE_TIMES
  /\ \A c \in Client, k \in 1..UP_RE_TIMES : <<c, k>> \in Request
  BY OfflineUpdateAssumption

\* A client that nothing is done to stays where it is.
LEMMA Untouched ==
  ASSUME NEW c \in Client, Course(c),
         asked \subseteq Request, asked' \subseteq Request,
         \A r \in Request : r[1] = c =>
           /\ r \in asked' <=> r \in asked
           /\ answered'[r] = answered[r]
           /\ r \in queued' <=> r \in queued
           /\ ran'[r] = ran[r],
         c \in leaving' <=> c \in leaving,
         removed'[c] = removed[c],
         retry_update_times'[c] = retry_update_times[c]
  PROVE  Course(c)'
<1>1. Requesting(c)' = Requesting(c)
  BY DEF Requesting
<1>2. Waiting(c)' = Waiting(c)
  BY DEF Waiting
<1>3. Tried(c)' = Tried(c) /\ Repeated(c)' = Repeated(c)
  <2>1. \A k \in 1..UP_RE_TIMES : <<c, k>> \in Request /\ <<c, k>>[1] = c
    BY Named
  <2> QED BY <2>1 DEF Tried, Repeated
<1>4. CASE AtHome(c)
  BY <1>1, <1>2, <1>3, <1>4 DEF AtHome, Course
<1>5. CASE Asking(c)
  BY <1>1, <1>2, <1>3, <1>5 DEF Asking, Course
<1>6. CASE Paused(c)
  BY <1>1, <1>2, <1>3, <1>6 DEF Paused, Course
<1>7. CASE Gone(c)
  BY <1>1, <1>2, <1>7 DEF Gone, Course
<1> QED BY <1>4, <1>5, <1>6, <1>7 DEF Course

\* The step of one client leaves the others where they are.
LEMMA OthersUntouched ==
  ASSUME LeaveInv, HttpInv, NEW c \in Client,
         asked' \subseteq Request,
         \A r \in Request : r[1] # c =>
           /\ r \in asked' <=> r \in asked
           /\ answered'[r] = answered[r]
           /\ r \in queued' <=> r \in queued
           /\ ran'[r] = ran[r],
         \A d \in Client : d # c =>
           /\ d \in leaving' <=> d \in leaving
           /\ removed'[d] = removed[d]
           /\ retry_update_times'[d] = retry_update_times[d]
  PROVE  \A d \in Client : d # c => Course(d)'
<1> SUFFICES ASSUME NEW d \in Client, d # c PROVE Course(d)'
  OBVIOUS
<1>1. asked \subseteq Request
  BY DEF HttpInv, HttpTypeOK
<1>2. Course(d)
  BY DEF LeaveInv
<1> QED BY <1>1, <1>2, Untouched

\* begin_update_client asks for the present try.
LEMMA BeginUpdateAsks ==
  ASSUME HttpInv, NEW c \in Client, BeginUpdateClient(c),
         retry_update_times[c] \in 1..UP_RE_TIMES
  PROVE  LET r == <<c, retry_update_times[c]>> IN
         /\ r \in Request /\ r \notin asked /\ answered[r] = 0
         /\ asked' = asked \cup {r} /\ answered' = answered
<1> DEFINE r == <<c, retry_update_times[c]>>
<1>1. r \in Request /\ Ask(r)
  BY DEF BeginUpdateClient
<1>2. r \notin asked /\ asked' = asked \cup {r} /\ answered' = answered
  BY <1>1 DEF Ask, QueueRequest, RefuseRequest
<1>3. answered[r] = 0
  BY <1>1, <1>2 DEF HttpInv, HttpTypeOK, OnlyAsked
<1> QED BY <1>1, <1>2, <1>3

\* An answer is one to the present try of a client.
LEMMA AnswerIsCurrent ==
  ASSUME LeaveInv, HttpInv, NEW w \in sent, Answer(w)
  PROVE  LET c == w.request[1] IN
         /\ c \in Client /\ Asking(c)
         /\ w.request = <<c, retry_update_times[c]>>
         /\ asked' = asked /\ answered' = [answered EXCEPT ![w.request] = 1]
<1> DEFINE c == w.request[1]
<1>1. w.request \in Request /\ w.request \in asked /\ answered[w.request] = 0
  BY DEF HttpInv, HttpTypeOK, Use, OnlyAsked, Requested, RequestInOnePlace
<1>2. c \in Client
  BY <1>1, Named
<1>3. w.request \in Requesting(c)
  BY <1>1 DEF Requesting
<1>4. Course(c)
  BY <1>2 DEF LeaveInv
<1>5. Asking(c)
  BY <1>3, <1>4 DEF Course, AtHome, Paused, Gone
<1>6. w.request = <<c, retry_update_times[c]>>
  BY <1>3, <1>5 DEF Asking
<1>7. asked' = asked /\ answered' = [answered EXCEPT ![w.request] = 1]
  BY <1>1 DEF Answer, HttpInv, HttpTypeOK
<1> QED BY <1>2, <1>5, <1>6, <1>7

\* A client leaves: its first try is asked for.
LEMMA LeaveAsksStep ==
  ASSUME LeaveInv, HttpInv, NEW c \in Client, Leave(c), BeginUpdateClient(c),
         UNCHANGED removed
  PROVE  LeaveInv'
<1> DEFINE r == <<c, retry_update_times[c]>>
<1>1. AtHome(c) /\ leaving' = leaving \cup {c}
  BY DEF LeaveInv, Course, Asking, Paused, Gone, Leave
<1>2. retry_update_times[c] = UP_RE_TIMES /\ UP_RE_TIMES \in 1..UP_RE_TIMES
  BY <1>1, OfflineUpdateAssumption DEF AtHome
<1>3. /\ r \in Request /\ r \notin asked /\ answered[r] = 0
      /\ asked' = asked \cup {r} /\ answered' = answered
  BY <1>2, BeginUpdateAsks DEF Leave
<1>4. UNCHANGED <<queued, ran, retry_update_times, removed>>
  BY DEF Leave, vars
<1>5. OfflineType'
  BY <1>1, <1>4 DEF LeaveInv, OfflineType
<1>6. asked \subseteq Request /\ asked' \subseteq Request
  BY <1>3 DEF HttpInv, HttpTypeOK
<1>7. Course(c)'
  <2>1. Requesting(c)' = {r}
    BY <1>1, <1>3 DEF AtHome, Requesting
  <2>2. Waiting(c)' = {} /\ Repeated(c)' = {}
    BY <1>1, <1>4 DEF AtHome, Waiting, Repeated
  <2>3. \A k \in Tried(c)' : k >= UP_RE_TIMES
    BY <1>1, <1>2, <1>3 DEF AtHome, Tried
  <2> QED BY <1>1, <1>2, <1>4, <2>1, <2>2, <2>3 DEF AtHome, Asking, Course
<1>8. \A d \in Client : d # c => Course(d)'
  <2>1. \A q \in Request : q[1] # c => (q \in asked' <=> q \in asked)
    BY <1>3
  <2>2. \A d \in Client : d # c => (d \in leaving' <=> d \in leaving)
    BY <1>1
  <2> HIDE DEF r
  <2> QED BY <2>1, <2>2, <1>3, <1>4, <1>6, OthersUntouched
<1> QED BY <1>5, <1>7, <1>8 DEF LeaveInv

\* A client that needs no update is removed at once, when it leaves ...
LEMMA LeaveAtOnceStep ==
  ASSUME LeaveInv, HttpInv, NEW c \in Client, Leave(c), RemoveFromPlugin(c),
         UNCHANGED http_vars
  PROVE  LeaveInv'
<1>1. AtHome(c) /\ leaving' = leaving \cup {c}
  BY DEF LeaveInv, Course, Asking, Paused, Gone, Leave
<1>2. /\ removed' = [removed EXCEPT ![c] = @ + 1]
      /\ UNCHANGED <<asked, answered, queued, ran, retry_update_times>>
  BY DEF Leave, RemoveFromPlugin, vars, http_vars
<1>3. removed \in [Client -> Nat] /\ removed' \in [Client -> Nat]
  BY <1>2 DEF LeaveInv, OfflineType
<1>4. Course(c)'
  <2>1. Requesting(c)' = {} /\ Waiting(c)' = {}
    BY <1>1, <1>2 DEF AtHome, Requesting, Waiting
  <2>2. c \in leaving' /\ removed'[c] = 1
    BY <1>1, <1>2, <1>3 DEF AtHome
  <2> QED BY <2>1, <2>2 DEF Gone, Course
<1>5. \A d \in Client : d # c => Course(d)'
  <2>1. asked' \subseteq Request
    BY <1>2 DEF HttpInv, HttpTypeOK
  <2>2. \A d \in Client : d # c => removed'[d] = removed[d]
    BY <1>2, <1>3
  <2>3. \A d \in Client : d # c => (d \in leaving' <=> d \in leaving)
    BY <1>1
  <2> QED BY <1>2, <2>1, <2>2, <2>3, OthersUntouched
<1> QED BY <1>1, <1>2, <1>3, <1>4, <1>5 DEF LeaveInv, OfflineType

LEMMA LeaveStep ==
  ASSUME LeaveInv, HttpInv, NEW c \in Client, Leave(c) PROVE LeaveInv'
<1>1. (BeginUpdateClient(c) /\ UNCHANGED removed) \/ (RemoveFromPlugin(c) /\ UNCHANGED http_vars)
  BY DEF Leave, RemoveClient
<1> QED BY <1>1, LeaveAsksStep, LeaveAtOnceStep

\* An answer after which the client is removed.
LEMMA RemovedStep ==
  ASSUME LeaveInv, HttpInv, NEW w \in sent, Updated(w) \/ GiveUp(w) PROVE LeaveInv'
<1> DEFINE c == w.request[1]
<1>1. /\ c \in Client /\ Asking(c)
      /\ w.request = <<c, retry_update_times[c]>>
      /\ asked' = asked /\ answered' = [answered EXCEPT ![w.request] = 1]
  BY AnswerIsCurrent DEF Updated, GiveUp
<1>2. /\ removed' = [removed EXCEPT ![c] = @ + 1]
      /\ UNCHANGED <<queued, ran, leaving>>
  BY DEF Updated, GiveUp, RemoveFromPlugin, vars
<1>3. /\ retry_update_times' \in [Client -> 0..UP_RE_TIMES]
      /\ \A d \in Client : d # c => retry_update_times'[d] = retry_update_times[d]
  <2>1. CASE Updated(w)
    BY <2>1 DEF Updated, LeaveInv, OfflineType
  <2>2. CASE GiveUp(w)
    BY <1>1, <2>2, OfflineUpdateAssumption DEF GiveUp, LeaveInv, OfflineType
  <2> QED BY <2>1, <2>2
<1>4. OfflineType'
  <2>1. removed \in [Client -> Nat] /\ leaving \subseteq Client
    BY DEF LeaveInv, OfflineType
  <2>2. removed' \in [Client -> Nat]
    BY <1>1, <1>2, <2>1
  <2> QED BY <1>2, <1>3, <2>1, <2>2 DEF OfflineType
<1>5. asked \subseteq Request /\ w.request \in Request /\ answered \in [Request -> 0..1]
  BY DEF HttpInv, HttpTypeOK, Use
<1>6. Course(c)'
  <2>1. removed'[c] = 1 /\ c \in leaving'
    BY <1>1, <1>2 DEF Asking, LeaveInv, OfflineType
  <2>2. Waiting(c)' = {}
    BY <1>1, <1>2 DEF Asking, Waiting
  <2>3. Requesting(c)' = {}
    <3>1. \A q \in Request : q \in asked /\ q[1] = c /\ answered[q] = 0 => q = w.request
      BY <1>1 DEF Asking, Requesting
    <3> QED BY <1>1, <1>5, <3>1 DEF Requesting
  <2> QED BY <2>1, <2>2, <2>3 DEF Gone, Course
<1>7. \A d \in Client : d # c => Course(d)'
  <2>1. \A q \in Request : q[1] # c => answered'[q] = answered[q]
    BY <1>1, <1>5
  <2>2. \A d \in Client : d # c => removed'[d] = removed[d]
    BY <1>2 DEF LeaveInv, OfflineType
  <2> HIDE DEF c
  <2> QED BY <2>1, <2>2, <1>1, <1>2, <1>3, <1>5, OthersUntouched
<1> QED BY <1>4, <1>6, <1>7 DEF LeaveInv

\* An answer after which the next try is queued.
LEMMA RetryStep ==
  ASSUME LeaveInv, HttpInv, PoolInv, NEW w \in sent, Retry(w) PROVE LeaveInv'
<1> DEFINE c == w.request[1]
           n == retry_update_times[c]
<1>1. /\ c \in Client /\ Asking(c)
      /\ w.request = <<c, n>>
      /\ asked' = asked /\ answered' = [answered EXCEPT ![w.request] = 1]
  BY AnswerIsCurrent DEF Retry
<1>2. /\ n > 1 /\ n \in 1..UP_RE_TIMES
      /\ retry_update_times' = [retry_update_times EXCEPT ![c] = n - 1]
      /\ UNCHANGED <<leaving, removed>>
  BY <1>1 DEF Retry, Asking
<1>3. PICK t \in Timer : QueueTask(w.request, t)
  BY DEF Retry
<1>4. /\ w.request \notin queued /\ queued' = queued \cup {w.request}
      /\ ran' = ran
  BY <1>3 DEF QueueTask
<1>5. /\ asked \subseteq Request /\ w.request \in Request /\ answered \in [Request -> 0..1]
      /\ w.request \in Task
  BY OfflineUpdateAssumption DEF HttpInv, HttpTypeOK, Use
<1>6. ran[w.request] = 0
  BY <1>4, <1>5 DEF PoolInv, TaskPlace
<1>7. retry_update_times'[c] = n - 1 /\ n - 1 \in 1..UP_RE_TIMES - 1
  BY <1>1, <1>2, OfflineUpdateAssumption DEF LeaveInv, OfflineType
<1>8. OfflineType'
  <2>1. n - 1 \in 0..UP_RE_TIMES
    BY <1>7, OfflineUpdateAssumption
  <2> QED BY <1>1, <1>2, <2>1 DEF LeaveInv, OfflineType
<1>9. Course(c)'
  <2>1. Requesting(c)' = {}
    <3>1. \A q \in Request : q \in asked /\ q[1] = c /\ answered[q] = 0 => q = w.request
      BY <1>1 DEF Asking, Requesting
    <3> QED BY <1>1, <1>5, <3>1 DEF Requesting
  <2>2. Waiting(c)' = {w.request}
    <3>1. \A k \in queued : ~(k \in Request /\ k[1] = c /\ ran[k] = 0)
      BY <1>1 DEF Asking, Waiting
    <3>2. w.request[1] = c
      OBVIOUS
    <3> HIDE DEF c
    <3> QED BY <1>4, <1>5, <1>6, <3>1, <3>2 DEF Waiting
  <2>3. w.request = <<c, retry_update_times'[c] + 1>>
    BY <1>1, <1>2, <1>7
  <2>4. \A k \in Tried(c)' : k > n - 1
    BY <1>1, <1>2 DEF Asking, Tried
  <2>5. \A k \in Repeated(c)' : k > n - 1
    BY <1>1, <1>2, <1>4 DEF Asking, Repeated
  <2>6. c \in leaving' /\ removed'[c] = 0
    BY <1>1, <1>2 DEF Asking
  <2> QED BY <1>7, <2>1, <2>2, <2>3, <2>4, <2>5, <2>6 DEF Paused, Course
<1>10. \A d \in Client : d # c => Course(d)'
  <2>1. \A q \in Request : q[1] # c =>
          answered'[q] = answered[q] /\ (q \in queued' <=> q \in queued)
    BY <1>1, <1>4, <1>5
  <2>2. \A d \in Client : d # c => retry_update_times'[d] = retry_update_times[d]
    BY <1>2 DEF LeaveInv, OfflineType
  <2> HIDE DEF c, n
  <2> QED BY <2>1, <2>2, <1>1, <1>2, <1>4, <1>5, OthersUntouched
<1> QED BY <1>8, <1>9, <1>10 DEF LeaveInv

\* The task runs that asks for the next try.
LEMMA RetryAsksStep ==
  ASSUME LeaveInv, HttpInv, PoolInv, NEW k \in running, RunRetry(k),
         BeginUpdateClient(k[1]), UNCHANGED removed
  PROVE  LeaveInv'
<1> DEFINE c == k[1]
           n == retry_update_times[c]
           r == <<c, n>>
<1>1. k \in Request /\ c \in Client /\ k \in queued /\ ran[k] = 0
  BY Named DEF RunRetry, PoolInv, TaskPlace
<1>2. Course(c) /\ k \in Waiting(c)
  BY <1>1 DEF LeaveInv, Waiting
<1>3. Paused(c)
  BY <1>2 DEF Course, AtHome, Asking, Gone
<1>4. k = <<c, n + 1>> /\ n \in 1..UP_RE_TIMES
  BY <1>2, <1>3, OfflineUpdateAssumption DEF Paused
<1>5. /\ r \in Request /\ r \notin asked /\ answered[r] = 0
      /\ asked' = asked \cup {r} /\ answered' = answered
  BY <1>1, <1>4, BeginUpdateAsks DEF RunRetry
<1>6. /\ ran' = [ran EXCEPT ![k] = @ + 1] /\ queued' = queued
      /\ UNCHANGED <<retry_update_times, leaving, removed>>
  BY DEF RunRetry, RunTask
<1>7. ran \in [Task -> 0..1] /\ k \in Task /\ Request \subseteq Task
  BY <1>1, OfflineUpdateAssumption DEF PoolInv, TypeOK
<1>8. asked \subseteq Request /\ asked' \subseteq Request
  BY <1>5 DEF HttpInv, HttpTypeOK
<1>9. Course(c)'
  <2>1. Requesting(c)' = {r}
    BY <1>3, <1>5 DEF Paused, Requesting
  <2>2. Waiting(c)' = {}
    <3>1. \A q \in queued : q \in Request /\ q[1] = c /\ ran[q] = 0 => q = k
      BY <1>3, <1>4 DEF Paused, Waiting
    <3>2. ran'[k] = 1 /\ \A q \in Request : q # k => ran'[q] = ran[q]
      BY <1>1, <1>6, <1>7
    <3> HIDE DEF c
    <3> QED BY <1>6, <3>1, <3>2 DEF Waiting
  <2>3. \A j \in Tried(c)' : j >= n
    BY <1>3, <1>4, <1>5 DEF Paused, Tried
  <2>4. \A j \in Repeated(c)' : j > n
    BY <1>3, <1>4, <1>6 DEF Paused, Repeated
  <2> QED BY <1>3, <1>4, <1>6, <2>1, <2>2, <2>3, <2>4 DEF Paused, Asking, Course
<1>10. \A d \in Client : d # c => Course(d)'
  <2>1. \A q \in Request : q[1] # c => ran'[q] = ran[q] /\ (q \in asked' <=> q \in asked)
    BY <1>5, <1>6, <1>7
  <2> HIDE DEF c, n, r
  <2> QED BY <2>1, <1>1, <1>5, <1>6, <1>8, OthersUntouched
<1> QED BY <1>6, <1>9, <1>10 DEF LeaveInv, OfflineType

\* ... or when the task runs that would ask for the next try.
LEMMA RetryAtOnceStep ==
  ASSUME LeaveInv, HttpInv, PoolInv, NEW k \in running, RunRetry(k),
         RemoveFromPlugin(k[1]), UNCHANGED http_vars
  PROVE  LeaveInv'
<1> DEFINE c == k[1]
<1>1. k \in Request /\ c \in Client /\ k \in queued /\ ran[k] = 0
  BY Named DEF RunRetry, PoolInv, TaskPlace
<1>2. Course(c) /\ k \in Waiting(c)
  BY <1>1 DEF LeaveInv, Waiting
<1>3. Paused(c)
  BY <1>2 DEF Course, AtHome, Asking, Gone
<1>4. Waiting(c) = {k}
  BY <1>2, <1>3 DEF Paused
<1>5. /\ ran' = [ran EXCEPT ![k] = @ + 1] /\ queued' = queued
      /\ removed' = [removed EXCEPT ![c] = @ + 1]
      /\ UNCHANGED <<asked, answered, retry_update_times, leaving>>
  BY DEF RunRetry, RunTask, RemoveFromPlugin, http_vars
<1>6. ran \in [Task -> 0..1] /\ k \in Task /\ Request \subseteq Task
  BY <1>1, OfflineUpdateAssumption DEF PoolInv, TypeOK
<1>7. removed \in [Client -> Nat] /\ removed' \in [Client -> Nat]
  BY <1>1, <1>5 DEF LeaveInv, OfflineType
<1>8. asked' \subseteq Request
  BY <1>5 DEF HttpInv, HttpTypeOK
<1>9. Course(c)'
  <2>1. Requesting(c)' = {}
    BY <1>3, <1>5 DEF Paused, Requesting
  <2>2. Waiting(c)' = {}
    <3>1. \A q \in queued : q \in Request /\ q[1] = c /\ ran[q] = 0 => q = k
      BY <1>4 DEF Waiting
    <3>2. ran'[k] = 1 /\ \A q \in Request : q # k => ran'[q] = ran[q]
      BY <1>1, <1>5, <1>6
    <3> HIDE DEF c
    <3> QED BY <1>5, <3>1, <3>2 DEF Waiting
  <2>3. c \in leaving' /\ removed'[c] = 1
    BY <1>1, <1>3, <1>5, <1>7 DEF Paused
  <2> QED BY <2>1, <2>2, <2>3 DEF Gone, Course
<1>10. \A d \in Client : d # c => Course(d)'
  <2>1. \A q \in Request : q[1] # c => ran'[q] = ran[q]
    BY <1>1, <1>5, <1>6
  <2>2. \A d \in Client : d # c => removed'[d] = removed[d]
    BY <1>5, <1>7
  <2> HIDE DEF c
  <2> QED BY <2>1, <2>2, <1>1, <1>5, <1>8, OthersUntouched
<1> QED BY <1>5, <1>7, <1>9, <1>10 DEF LeaveInv, OfflineType

LEMMA RunRetryStep ==
  ASSUME LeaveInv, HttpInv, PoolInv, NEW k \in running, RunRetry(k) PROVE LeaveInv'
<1>1. \/ BeginUpdateClient(k[1]) /\ UNCHANGED removed
      \/ RemoveFromPlugin(k[1]) /\ UNCHANGED http_vars
  BY DEF RunRetry, RemoveClient
<1> QED BY <1>1, RetryAsksStep, RetryAtOnceStep

\* Everything else is about no client.
LEMMA OtherStep ==
  ASSUME LeaveInv, HttpInv, PoolInv,
         UNCHANGED <<asked, answered, retry_update_times, leaving, removed>>,
         \A k \in Request : k \in queued' <=> k \in queued,
         \A k \in Request : ran'[k] = ran[k]
  PROVE  LeaveInv'
<1>1. asked \subseteq Request
  BY DEF HttpInv, HttpTypeOK
<1>2. ASSUME NEW c \in Client PROVE Course(c)'
  <2>1. Course(c)
    BY DEF LeaveInv
  <2> QED BY <1>1, <2>1, Untouched
<1> QED BY <1>2 DEF LeaveInv, OfflineType

LEMMA LeaveInvStep ==
  LeaveInv /\ HttpInv /\ PoolInv /\ [OfflineNext]_all_vars => LeaveInv'
<1> SUFFICES ASSUME LeaveInv, HttpInv, PoolInv, [OfflineNext]_all_vars PROVE LeaveInv'
  OBVIOUS
<1>1. ASSUME NEW w \in sent, Updated(w) \/ Retry(w) \/ GiveUp(w) PROVE LeaveInv'
  BY <1>1, RemovedStep, RetryStep
<1>2. ASSUME NEW w \in reported, Returns(w) PROVE LeaveInv'
  BY <1>2, OtherStep DEF Returns, FreeRequest, vars, offline_vars
<1>3. ASSUME NEW r \in Request, Transfer(r) PROVE LeaveInv'
  BY <1>3, OtherStep
  DEF Transfer, PushTask, LockQueue, StartTask, EndDrain, vars, offline_vars
<1>4. ASSUME NEW k \in running, RunRetry(k) PROVE LeaveInv'
  BY <1>4, RunRetryStep
<1>5. ASSUME NEW k \in running, RunOther(k) PROVE LeaveInv'
  <2>1. ran \in [Task -> 0..1] /\ Request \subseteq Task
    BY OfflineUpdateAssumption DEF PoolInv, TypeOK
  <2>2. \A q \in Request : ran'[q] = ran[q]
    BY <1>5, <2>1 DEF RunOther, RunTask
  <2> QED BY <1>5, <2>2, OtherStep DEF RunOther, RunTask, http_vars, offline_vars
<1>6. CASE Timing
  BY <1>6, OtherStep
  DEF Timing, Expire, ReturnTimer, Track, TrackTimer, http_vars, offline_vars
<1>7. ASSUME NEW c \in Client, Leave(c) PROVE LeaveInv'
  BY <1>7, LeaveStep
<1>8. ASSUME NEW k \in Task, Other(k) PROVE LeaveInv'
  <2>1. \A q \in Request : q \in queued' <=> q \in queued
    BY <1>8 DEF Other, PostTask
  <2> QED BY <1>8, <2>1, OtherStep DEF Other, PostTask, http_vars, offline_vars
<1>9. CASE End \/ UNCHANGED all_vars
  BY <1>9, OtherStep DEF End, Destroy, all_vars, vars, http_vars, offline_vars
<1> QED
  BY <1>1, <1>2, <1>3, <1>4, <1>5, <1>6, <1>7, <1>8, <1>9 DEF OfflineNext, Server

LEMMA LeaveInvInit == OfflineInit => LeaveInv
<1> SUFFICES ASSUME OfflineInit PROVE LeaveInv
  OBVIOUS
<1>1. asked = {} /\ queued = {}
  BY DEF OfflineInit, Init, HttpInit
<1>2. OfflineType
  BY OfflineUpdateAssumption DEF OfflineInit, OfflineType
<1>3. ASSUME NEW c \in Client PROVE AtHome(c)
  BY <1>1 DEF OfflineInit, AtHome, Requesting, Waiting, Tried, Repeated
<1> QED BY <1>2, <1>3 DEF LeaveInv, Course

\* Whatever the handlers of the two pools pass to each other, a client that leaves
\* is with one of them only, until it is removed, once.
THEOREM LeaversInOnePlace == OfflineSpec => []LeaverInOnePlace
<1>1. OfflineSpec => []HttpInv
  BY OfflineRequests, HttpInductive, PTL
<1>2. OfflineSpec => []PoolInv
  BY OfflineTimers, PoolInductive, PTL
<1>3. LeaveInv => LeaverInOnePlace
  <2> SUFFICES ASSUME LeaveInv, NEW c \in Client
               PROVE  Cardinality(Requesting(c)) + Cardinality(Waiting(c)) + removed[c]
                        = (IF c \in leaving THEN 1 ELSE 0)
    BY DEF LeaverInOnePlace
  <2>1. Course(c)
    BY DEF LeaveInv
  <2>2. Cardinality({}) = 0 /\ \A x : Cardinality({x}) = 1
    BY FS_EmptySet, FS_Singleton
  <2>3. CASE AtHome(c)
    BY <2>2, <2>3 DEF AtHome
  <2>4. CASE Asking(c)
    <3> DEFINE r == <<c, retry_update_times[c]>>
    <3>1. Requesting(c) = {r} /\ Waiting(c) = {} /\ removed[c] = 0 /\ c \in leaving
      BY <2>4 DEF Asking
    <3>2. Cardinality({r}) = 1 /\ Cardinality({}) = 0
      BY <2>2
    <3> QED BY <3>1, <3>2
  <2>5. CASE Paused(c)
    <3> DEFINE r == <<c, retry_update_times[c] + 1>>
    <3>1. Requesting(c) = {} /\ Waiting(c) = {r} /\ removed[c] = 0 /\ c \in leaving
      BY <2>5 DEF Paused
    <3>2. Cardinality({r}) = 1 /\ Cardinality({}) = 0
      BY <2>2
    <3> QED BY <3>1, <3>2
  <2>6. CASE Gone(c)
    BY <2>2, <2>6 DEF Gone
  <2> QED BY <2>1, <2>3, <2>4, <2>5, <2>6 DEF Course
<1> QED BY <1>1, <1>2, <1>3, LeaveInvInit, LeaveInvStep, PTL DEF OfflineSpec

--------------------------------------------------------------------------
(* No timer forgets its task, and each task has a few steps *)

\* The steps a task has before it: it is queued, its timer expires and comes back,
\* it is called, and meanwhile queue_task has its insert to do.
TimerLeft(k) ==
  IF k \notin queued THEN 5
  ELSE (IF ran[k] # 0 THEN 0
        ELSE IF k \in running THEN 1
        ELSE IF \E w \in handling : w.task = k THEN 2 ELSE 3)
       + (IF \E q \in queueing : q.task = k THEN 1 ELSE 0)

\* No step of the timers takes a task back, and each takes one further, but the
\* last, which destroys the pool.
TimersRunOut ==
  [][/\ \A k \in Task : TimerLeft(k) \in 0..5 /\ TimerLeft(k)' <= TimerLeft(k)
     /\ (\E k \in Task : TimerLeft(k)' < TimerLeft(k)) \/ destroyed' # destroyed]_vars

\* A task that was queued is called back or still on its way: the timer that it
\* waits for is not used for another one, which would abort it.
TasksAreKept ==
  /\ \A w \in waits \cup handling : w.aborted = FALSE
  /\ \A k \in queued : ran[k] # 0 \/ k \in running \/ \E w \in waits \cup handling : w.task = k

\* A call of queue_task is the only one for its task.
OneCall ==
  \A p \in queueing : p.task \in queued /\ \A q \in queueing : p.task = q.task => p = q

KeptInv == TasksAreKept /\ OneCall

TimersNearer ==
  /\ KeptInv'
  /\ \A k \in Task : TimerLeft(k)' <= TimerLeft(k)
  /\ \E k \in Task : TimerLeft(k)' < TimerLeft(k)

LEMMA TimerLeftIs == \A k : TimerLeft(k) \in 0..5 /\ TimerLeft(k)' \in 0..5
  BY DEF TimerLeft

LEMMA QueueTaskNearer ==
  ASSUME PoolInv, KeptInv, NEW k \in Task, NEW t \in Timer, QueueTask(k, t)
  PROVE  TimersNearer
<1> DEFINE n == [timer |-> t, task |-> k, aborted |-> FALSE]
           p == [timer |-> t, task |-> k]
<1>1. waits' = waits \cup {n}
  BY TakenTimer, ArmedTimer DEF QueueTask
<1>2. /\ queueing' = queueing \cup {p} /\ k \notin queued /\ queued' = queued \cup {k}
      /\ UNCHANGED <<handling, running, ran>>
  BY DEF QueueTask
<1>3. n.task = k /\ n.aborted = FALSE /\ p.task = k
  OBVIOUS
<1> HIDE DEF n, p
<1>4. ran[k] = 0 /\ k \notin running /\ \A w \in handling : w.task # k
  BY <1>2 DEF PoolInv, TaskPlace
<1>5. TasksAreKept'
  BY <1>1, <1>2, <1>3 DEF KeptInv, TasksAreKept
<1>6. OneCall'
  BY <1>2, <1>3 DEF KeptInv, OneCall
<1>7. TimerLeft(k)' = 4 /\ TimerLeft(k) = 5
  BY <1>2, <1>3, <1>4 DEF TimerLeft
<1>8. \A j \in Task : j # k => TimerLeft(j)' = TimerLeft(j)
  BY <1>2, <1>3 DEF TimerLeft
<1> QED BY <1>5, <1>6, <1>7, <1>8, TimerLeftIs DEF KeptInv, TimersNearer

LEMMA PostTaskNearer ==
  ASSUME PoolInv, KeptInv, NEW k \in Task, PostTask(k)
  PROVE  TimersNearer
<1>1. /\ k \notin queued /\ queued' = queued \cup {k} /\ running' = running \cup {k}
      /\ UNCHANGED <<waits, queueing, handling, ran>>
  BY DEF PostTask
<1>2. ran[k] = 0 /\ \A q \in queueing : q.task # k
  BY <1>1 DEF PoolInv, TaskPlace, KeptInv, OneCall
<1>3. TasksAreKept' /\ OneCall'
  BY <1>1 DEF KeptInv, TasksAreKept, OneCall
<1>4. TimerLeft(k)' = 1 /\ TimerLeft(k) = 5
  BY <1>1, <1>2 DEF TimerLeft
<1>5. \A j \in Task : j # k => TimerLeft(j)' = TimerLeft(j)
  BY <1>1 DEF TimerLeft
<1> QED BY <1>3, <1>4, <1>5, TimerLeftIs DEF KeptInv, TimersNearer

LEMMA TrackTimerNearer ==
  ASSUME PoolInv, KeptInv, NEW p \in queueing, TrackTimer(p)
  PROVE  TimersNearer
<1> DEFINE k == p.task
<1>1. /\ queueing' = queueing \ {p}
      /\ UNCHANGED <<waits, handling, queued, running, ran>>
  BY DEF TrackTimer
<1>2. k \in Task /\ k \in queued /\ \A q \in queueing' : q.task # k
  BY <1>1 DEF PoolInv, TypeOK, KeptInv, OneCall
<1>3. TasksAreKept' /\ OneCall'
  BY <1>1 DEF KeptInv, TasksAreKept, OneCall
<1>4. TimerLeft(k)' < TimerLeft(k)
  BY <1>1, <1>2 DEF TimerLeft
<1>5. \A j \in Task : TimerLeft(j)' <= TimerLeft(j)
  BY <1>1 DEF TimerLeft
<1> QED BY <1>2, <1>3, <1>4, <1>5 DEF KeptInv, TimersNearer

LEMMA ExpireNearer ==
  ASSUME PoolInv, KeptInv, NEW w \in waits, Expire(w)
  PROVE  TimersNearer
<1> DEFINE k == w.task
<1>1. /\ waits' = waits \ {w} /\ handling' = handling \cup {w}
      /\ UNCHANGED <<queueing, queued, running, ran>>
  BY DEF Expire
<1>2. waits' \cup handling' = waits \cup handling
  BY <1>1
<1>3. /\ k \in Task /\ k \in queued /\ k \notin running /\ ran[k] = 0
      /\ \A v \in handling : v.task # k
  BY DEF PoolInv, TypeOK, TaskPlace, OnePlace, Wait
<1>4. TasksAreKept' /\ OneCall'
  BY <1>1, <1>2 DEF KeptInv, TasksAreKept, OneCall
<1>5. TimerLeft(k)' < TimerLeft(k)
  BY <1>1, <1>3 DEF TimerLeft
<1>6. \A j \in Task : j # k => TimerLeft(j)' = TimerLeft(j)
  BY <1>1 DEF TimerLeft
<1>7. \A j \in Task : TimerLeft(j)' <= TimerLeft(j)
  <2>1. \A j \in Task : TimerLeft(j)' < TimerLeft(j) \/ TimerLeft(j)' = TimerLeft(j)
    BY <1>5, <1>6
  <2> QED BY <2>1, TimerLeftIs
<1> QED BY <1>3, <1>4, <1>5, <1>7 DEF KeptInv, TimersNearer

LEMMA ReturnTimerNearer ==
  ASSUME PoolInv, KeptInv, NEW w \in handling, NEW idle \in BOOLEAN, ReturnTimer(w, idle)
  PROVE  TimersNearer
<1> DEFINE k == w.task
<1>1. /\ handling' = handling \ {w} /\ running' = running \cup {k}
      /\ UNCHANGED <<waits, queueing, queued, ran>>
  BY DEF ReturnTimer, KeptInv, TasksAreKept
<1>2. k \in Task /\ k \in queued /\ k \notin running /\ ran[k] = 0
  BY DEF PoolInv, TypeOK, TaskPlace, Wait
<1>3. \A v \in waits \cup handling : v = w \/ v \in waits' \cup handling'
  BY <1>1
<1>4. TasksAreKept'
  BY <1>1, <1>3 DEF KeptInv, TasksAreKept
<1>5. OneCall'
  BY <1>1 DEF KeptInv, OneCall
<1>6. TimerLeft(k)' < TimerLeft(k)
  BY <1>1, <1>2 DEF TimerLeft
<1>7. \A j \in Task : j # k => TimerLeft(j)' = TimerLeft(j)
  BY <1>1 DEF TimerLeft
<1>8. \A j \in Task : TimerLeft(j)' <= TimerLeft(j)
  <2>1. \A j \in Task : TimerLeft(j)' < TimerLeft(j) \/ TimerLeft(j)' = TimerLeft(j)
    BY <1>6, <1>7
  <2> QED BY <2>1, TimerLeftIs
<1> QED BY <1>2, <1>4, <1>5, <1>6, <1>8 DEF KeptInv, TimersNearer

LEMMA RunTaskNearer ==
  ASSUME PoolInv, KeptInv, NEW k \in running, RunTask(k)
  PROVE  TimersNearer
<1>1. /\ running' = running \ {k} /\ ran' = [ran EXCEPT ![k] = ran[k] + 1]
      /\ UNCHANGED <<waits, queueing, handling, queued>>
  BY DEF RunTask
<1>2. k \in Task /\ k \in queued /\ ran[k] = 0
  BY DEF PoolInv, TypeOK, TaskPlace
<1>3. ran'[k] = 1 /\ \A j \in Task : j # k => ran'[j] = ran[j]
  BY <1>1, <1>2 DEF PoolInv, TypeOK
<1>4. queued \subseteq Task
  BY DEF PoolInv, TypeOK
<1>5. TasksAreKept'
  BY <1>1, <1>3, <1>4 DEF KeptInv, TasksAreKept
<1>6. OneCall'
  BY <1>1 DEF KeptInv, OneCall
<1>7. TimerLeft(k)' < TimerLeft(k)
  BY <1>1, <1>2, <1>3 DEF TimerLeft
<1>8. \A j \in Task : j # k => TimerLeft(j)' = TimerLeft(j)
  BY <1>1, <1>3 DEF TimerLeft
<1>9. \A j \in Task : TimerLeft(j)' <= TimerLeft(j)
  <2>1. \A j \in Task : TimerLeft(j)' < TimerLeft(j) \/ TimerLeft(j)' = TimerLeft(j)
    BY <1>7, <1>8
  <2> QED BY <2>1, TimerLeftIs
<1> QED BY <1>2, <1>5, <1>6, <1>7, <1>9 DEF KeptInv, TimersNearer

LEMMA TimersStep ==
  ASSUME PoolInv, KeptInv, Next
  PROVE  TimersNearer \/ Destroy
<1>1. CASE Queue
  BY <1>1, QueueTaskNearer, PostTaskNearer DEF Queue
<1>2. CASE Track
  BY <1>2, TrackTimerNearer DEF Track
<1>3. CASE Handle
  BY <1>3, ExpireNearer, ReturnTimerNearer, RunTaskNearer DEF Handle
<1> QED BY <1>1, <1>2, <1>3 DEF Next

\* What neither ends a pool nor is about its tasks.
LEMMA TimersSame ==
  ASSUME KeptInv, Destroy \/ UNCHANGED vars
  PROVE  KeptInv' /\ \A k : TimerLeft(k)' = TimerLeft(k)
<1>1. UNCHANGED <<waits, queueing, handling, queued, running, ran>>
  BY DEF Destroy, vars
<1>2. KeptInv'
  BY <1>1 DEF KeptInv, TasksAreKept, OneCall
<1>3. \A k : TimerLeft(k)' = TimerLeft(k)
  BY <1>1 DEF TimerLeft
<1> QED BY <1>2, <1>3

LEMMA KeptHolds == Spec => []KeptInv
<1>1. Init => KeptInv
  BY DEF Init, KeptInv, TasksAreKept, OneCall
<1>2. PoolInv /\ KeptInv /\ [Next]_vars => KeptInv'
  BY TimersStep, TimersSame DEF TimersNearer
<1> QED BY <1>1, <1>2, PoolInductive, PTL DEF Spec

\* A task that is given to queue_task is called back or on its way to it; none is
\* aborted by the next use of its timer.
THEOREM TasksNotLost == Spec => []TasksAreKept
<1>1. KeptInv => TasksAreKept
  BY DEF KeptInv
<1> QED BY <1>1, KeptHolds, PTL

\* And it is called back after a few handlers, which nothing adds to.
THEOREM TimersAreFinite == Spec => TimersRunOut
<1>1. PoolInv /\ KeptInv /\ [Next]_vars =>
        [/\ \A k \in Task : TimerLeft(k) \in 0..5 /\ TimerLeft(k)' <= TimerLeft(k)
         /\ (\E k \in Task : TimerLeft(k)' < TimerLeft(k)) \/ destroyed' # destroyed]_vars
  <2> SUFFICES ASSUME PoolInv, KeptInv, Next
               PROVE  /\ \A k \in Task : TimerLeft(k) \in 0..5 /\ TimerLeft(k)' <= TimerLeft(k)
                      /\ (\E k \in Task : TimerLeft(k)' < TimerLeft(k)) \/ destroyed' # destroyed
    OBVIOUS
  <2>1. CASE TimersNearer
    BY <2>1, TimerLeftIs DEF TimersNearer
  <2>2. CASE Destroy
    <3>1. destroyed' # destroyed
      BY <2>2 DEF Destroy, PoolInv, TypeOK
    <3>2. \A k : TimerLeft(k)' = TimerLeft(k)
      BY <2>2, TimersSame
    <3> QED BY <3>1, <3>2, TimerLeftIs
  <2> QED BY <2>1, <2>2, TimersStep
<1> QED BY <1>1, PoolInductive, KeptHolds, PTL DEF Spec, TimersRunOut

--------------------------------------------------------------------------
(* Each request has a few steps *)

\* The steps a request has before it: it is asked for, pushed, started, answered;
\* its block is freed, its handler locks the queue and leaves it.
HttpLeft(r) ==
  IF answered[r] = 0
  THEN IF r \notin asked THEN 7 ELSE IF r \in refused THEN 6
       ELSE IF r \in ToSet(task_queue) THEN 5 ELSE 4
  ELSE IF \E w \in reported : w.request = r THEN 3
       ELSE IF r \notin draining THEN 0 ELSE IF holder = r THEN 1 ELSE 2

\* No step of the pool takes a request back, and each takes one further.
HttpRunsOut ==
  [][/\ \A r \in Request : HttpLeft(r) \in 0..7 /\ HttpLeft(r)' <= HttpLeft(r)
     /\ \E r \in Request : HttpLeft(r)' < HttpLeft(r)]_http_vars

\* A handler that drains has had its answer and freed its block, and only such a
\* handler holds the lock.
DrainPlace ==
  /\ \A r \in draining : answered[r] = 1 /\ \A w \in sent \cup reported : w.request # r
  /\ holder # NULL => holder \in draining

HttpNearer ==
  /\ DrainPlace'
  /\ \A r \in Request : HttpLeft(r)' <= HttpLeft(r)
  /\ \E r \in Request : HttpLeft(r)' < HttpLeft(r)

LEMMA HttpLeftIs == \A r : HttpLeft(r) \in 0..7 /\ HttpLeft(r)' \in 0..7
  BY DEF HttpLeft

\* One request has gone further, and the others are where they were.
LEMMA OneNearer ==
  ASSUME NEW r \in Request, DrainPlace', HttpLeft(r)' < HttpLeft(r),
         \A s \in Request : s # r => HttpLeft(s)' = HttpLeft(s)
  PROVE  HttpNearer
<1>1. \A s \in Request : HttpLeft(s)' < HttpLeft(s) \/ HttpLeft(s)' = HttpLeft(s)
  OBVIOUS
<1>2. \A s \in Request : HttpLeft(s)' <= HttpLeft(s)
  BY <1>1, HttpLeftIs
<1> QED BY <1>2 DEF HttpNearer

\* A request that has not been answered and is in no block gets one.
LEMMA StartedDrains ==
  ASSUME HttpInv, DrainPlace, NEW b \in Block, NEW r \in Request, answered[r] = 0,
         StartRequest(b, r), UNCHANGED <<reported, draining, holder, answered>>
  PROVE  DrainPlace'
<1> DEFINE n == [block |-> b, request |-> r]
<1>1. sent' = sent \cup {n} /\ n.request = r
  BY DEF StartRequest
<1> HIDE DEF n
<1>2. r \notin draining
  BY DEF DrainPlace
<1> QED BY <1>1, <1>2 DEF DrainPlace

LEMMA AskNearer ==
  ASSUME HttpInv, DrainPlace, NEW r \in Request, Ask(r)
  PROVE  HttpNearer
<1>1. /\ r \notin asked /\ asked' = asked \cup {r}
      /\ UNCHANGED <<task_queue, reported, draining, holder, answered>>
  BY DEF Ask, QueueRequest, RefuseRequest
<1>2. r \notin refused /\ r \notin ToSet(task_queue) /\ answered[r] = 0
  BY <1>1 DEF HttpInv, OnlyAsked, HttpTypeOK
<1>3. refused' = refused \/ refused' = refused \cup {r}
  BY DEF Ask, QueueRequest, RefuseRequest
<1>4. DrainPlace'
  <2>1. CASE QueueRequest(r)
    BY <1>1, <1>2, <2>1, StartedDrains DEF QueueRequest
  <2>2. CASE RefuseRequest(r)
    BY <2>2 DEF RefuseRequest, DrainPlace
  <2> QED BY <2>1, <2>2 DEF Ask
<1>5. HttpLeft(r)' < HttpLeft(r)
  BY <1>1, <1>2, <1>3 DEF HttpLeft
<1>6. \A s \in Request : s # r => HttpLeft(s)' = HttpLeft(s)
  BY <1>1, <1>3 DEF HttpLeft
<1> QED BY <1>4, <1>5, <1>6, OneNearer

LEMMA PushTaskNearer ==
  ASSUME HttpInv, DrainPlace, NEW r \in Request, PushTask(r)
  PROVE  HttpNearer
<1>1. /\ r \in refused /\ refused' = refused \ {r}
      /\ task_queue' = Append(task_queue, r)
      /\ UNCHANGED <<asked, sent, reported, draining, holder, answered>>
  BY DEF PushTask
<1>2. /\ task_queue \in Seq(Request) /\ IsInjective(task_queue)
      /\ r \notin ToSet(task_queue) /\ r \in asked /\ answered[r] = 0
  BY <1>1 DEF HttpInv, HttpTypeOK, RequestInOnePlace, OnlyAsked
<1>3. ToSet(task_queue') = ToSet(task_queue) \cup {r}
  BY <1>1, <1>2, PushBack
<1>4. DrainPlace'
  BY <1>1 DEF DrainPlace
<1>5. HttpLeft(r)' < HttpLeft(r)
  BY <1>1, <1>2, <1>3 DEF HttpLeft
<1>6. \A s \in Request : s # r => HttpLeft(s)' = HttpLeft(s)
  BY <1>1, <1>3 DEF HttpLeft
<1> QED BY <1>4, <1>5, <1>6, OneNearer

LEMMA StartTaskNearer ==
  ASSUME HttpInv, DrainPlace, NEW h \in Request, StartTask(h)
  PROVE  HttpNearer
<1>1. /\ task_queue # <<>> /\ task_queue' = Tail(task_queue)
      /\ UNCHANGED <<asked, refused, reported, draining, holder, answered>>
  BY DEF StartTask
<1>2. task_queue \in Seq(Request) /\ IsInjective(task_queue)
  BY DEF HttpInv, HttpTypeOK, RequestInOnePlace
<1>3. Head(task_queue) \in Request
  BY <1>1, <1>2
<1>4. PICK r \in Request, b \in Block : r = Head(task_queue) /\ StartRequest(b, r)
  BY <1>3 DEF StartTask
<1>5. r \in ToSet(task_queue) /\ ToSet(task_queue') = ToSet(task_queue) \ {r}
  BY <1>1, <1>2, <1>4, PopFront
<1>6. r \notin refused /\ answered[r] = 0 /\ r \in asked
  BY <1>5 DEF HttpInv, RequestInOnePlace, OnlyAsked, HttpTypeOK
<1>7. DrainPlace'
  BY <1>1, <1>4, <1>6, StartedDrains
<1>8. HttpLeft(r)' = 4 /\ HttpLeft(r) = 5
  BY <1>1, <1>5, <1>6 DEF HttpLeft
<1>9. \A s \in Request : s # r => HttpLeft(s)' = HttpLeft(s)
  BY <1>1, <1>5 DEF HttpLeft
<1> QED BY <1>7, <1>8, <1>9, OneNearer

LEMMA AnswerNearer ==
  ASSUME HttpInv, DrainPlace, NEW w \in sent, Answer(w)
  PROVE  HttpNearer
<1> DEFINE r == w.request
<1>1. /\ sent' = sent \ {w} /\ reported' = reported \cup {w}
      /\ answered' = [answered EXCEPT ![r] = @ + 1]
      /\ UNCHANGED <<task_queue, asked, refused, draining, holder>>
  BY DEF Answer
<1>2. r \in Request /\ answered[r] = 0 /\ r \in asked
  BY DEF HttpInv, HttpTypeOK, Use, RequestInOnePlace, OnlyAsked, Requested
<1>3. answered'[r] = 1 /\ \A s \in Request : s # r => answered'[s] = answered[s]
  BY <1>1, <1>2 DEF HttpInv, HttpTypeOK
<1>4. sent' \cup reported' = sent \cup reported /\ draining \subseteq Request
  BY <1>1 DEF HttpInv, HttpTypeOK
<1>5. DrainPlace'
  BY <1>1, <1>2, <1>3, <1>4 DEF DrainPlace
<1>6. HttpLeft(r)' = 3 /\ HttpLeft(r) \in {4, 5, 6, 7}
  BY <1>1, <1>2, <1>3 DEF HttpLeft
<1>7. \A s \in Request : s # r => HttpLeft(s)' = HttpLeft(s)
  BY <1>1, <1>3 DEF HttpLeft
<1> HIDE DEF r
<1>8. HttpLeft(r)' < HttpLeft(r)
  BY <1>6
<1> QED BY <1>2, <1>5, <1>7, <1>8, OneNearer

LEMMA FreeNearer ==
  ASSUME HttpInv, DrainPlace, NEW w \in reported, FreeRequest(w)
  PROVE  HttpNearer
<1> DEFINE r == w.request
<1>1. /\ reported' = reported \ {w} /\ draining' = draining \cup {r}
      /\ UNCHANGED <<task_queue, asked, refused, sent, holder, answered>>
  BY DEF FreeRequest
<1>2. r \in Request /\ answered[r] = 1
  BY DEF HttpInv, HttpTypeOK, Use, OnlyAsked
<1>3. \A v \in sent' \cup reported' : v \in sent \cup reported /\ v.request # r
  BY <1>1 DEF HttpInv, BlockHasOneUser, RequestInOnePlace
<1>4. r \notin draining /\ holder # r
  BY <1>2, HttpPoolAssumption DEF DrainPlace
<1>5. DrainPlace'
  BY <1>1, <1>2, <1>3 DEF DrainPlace
<1>6. HttpLeft(r)' = 2 /\ HttpLeft(r) = 3
  BY <1>1, <1>2, <1>3, <1>4 DEF HttpLeft
<1>7. \A s \in Request : s # r => HttpLeft(s)' = HttpLeft(s)
  BY <1>1 DEF HttpLeft
<1> HIDE DEF r
<1> QED BY <1>2, <1>5, <1>6, <1>7, OneNearer

LEMMA LockNearer ==
  ASSUME HttpInv, DrainPlace, NEW r \in Request, LockQueue(r) \/ EndDrain(r)
  PROVE  HttpNearer
<1>1. UNCHANGED <<task_queue, asked, refused, sent, reported, answered>>
  BY DEF LockQueue, EndDrain
<1>2. r \in draining /\ answered[r] = 1 /\ \A w \in reported : w.request # r
  BY HttpPoolAssumption DEF LockQueue, EndDrain, DrainPlace
<1>3. CASE LockQueue(r)
  <2>1. holder = NULL /\ holder' = r /\ draining' = draining
    BY <1>3 DEF LockQueue
  <2>2. DrainPlace'
    BY <1>1, <1>2, <2>1 DEF DrainPlace
  <2>3. HttpLeft(r)' = 1 /\ HttpLeft(r) = 2
    BY <1>1, <1>2, <2>1, HttpPoolAssumption DEF HttpLeft
  <2>4. \A s \in Request : s # r => HttpLeft(s)' = HttpLeft(s)
    BY <1>1, <2>1, HttpPoolAssumption DEF HttpLeft
  <2> QED BY <2>2, <2>3, <2>4, OneNearer
<1>4. CASE EndDrain(r)
  <2>1. holder = r /\ holder' = NULL /\ draining' = draining \ {r}
    BY <1>4 DEF EndDrain
  <2>2. DrainPlace'
    BY <1>1, <2>1 DEF DrainPlace
  <2>3. HttpLeft(r)' = 0 /\ HttpLeft(r) = 1
    BY <1>1, <1>2, <2>1 DEF HttpLeft
  <2>4. \A s \in Request : s # r => HttpLeft(s)' = HttpLeft(s)
    BY <1>1, <2>1, HttpPoolAssumption DEF HttpLeft
  <2> QED BY <2>2, <2>3, <2>4, OneNearer
<1> QED BY <1>3, <1>4

LEMMA HttpStepNearer ==
  ASSUME HttpInv, DrainPlace, HttpNext
  PROVE  HttpNearer
BY PushTaskNearer, LockNearer, StartTaskNearer, AnswerNearer, FreeNearer, AskNearer
DEF HttpNext, Work

LEMMA DrainPlaceHolds == HttpSpec => []DrainPlace
<1>1. HttpInit => DrainPlace
  BY DEF HttpInit, DrainPlace
<1>2. HttpInv /\ DrainPlace /\ [HttpNext]_http_vars => DrainPlace'
  <2>1. DrainPlace /\ UNCHANGED http_vars => DrainPlace'
    BY DEF DrainPlace, http_vars
  <2> QED BY <2>1, HttpStepNearer DEF HttpNearer
<1> QED BY <1>1, <1>2, HttpInductive, PTL DEF HttpSpec

\* A request has at most seven steps, which no other request repeats or takes back.
THEOREM RequestsAreFinite == HttpSpec => HttpRunsOut
<1>1. HttpInv /\ DrainPlace /\ [HttpNext]_http_vars =>
        [/\ \A r \in Request : HttpLeft(r) \in 0..7 /\ HttpLeft(r)' <= HttpLeft(r)
         /\ \E r \in Request : HttpLeft(r)' < HttpLeft(r)]_http_vars
  BY HttpStepNearer, HttpLeftIs DEF HttpNearer
<1> QED BY <1>1, HttpInductive, DrainPlaceHolds, PTL DEF HttpSpec, HttpRunsOut

--------------------------------------------------------------------------
(* So a client that leaves is removed after a few steps *)

\* Every step of the offline updates but the destructor's brings a request or a
\* task nearer to its end, and takes none back, or a client leaves, which it does
\* once: a try that is repeated is another request, and there are UP_RE_TIMES of
\* them for a client.
OfflineRunsOut ==
  [][/\ \A r \in Request : HttpLeft(r) \in 0..7 /\ HttpLeft(r)' <= HttpLeft(r)
     /\ \A k \in Task : TimerLeft(k) \in 0..5 /\ TimerLeft(k)' <= TimerLeft(k)
     /\ \/ \E r \in Request : HttpLeft(r)' < HttpLeft(r)
        \/ \E k \in Task : TimerLeft(k)' < TimerLeft(k)
        \/ leaving' # leaving
        \/ destroyed' # destroyed
     /\ leaving \subseteq leaving']_all_vars

\* A client that leaves has been removed, or a handler is to come, unless its
\* request is stranded in the queue.
LeaversAreServed ==
  \A c \in leaving :
    \/ removed[c] = 1
    \/ Stranded
    \/ sent # {} \/ reported # {} \/ draining # {} \/ refused # {}
    \/ waits # {} \/ handling # {} \/ running # {}

LEMMA OfflineStep ==
  ASSUME HttpTypeOK, OfflineNext
  PROVE  HttpNext \/ Next \/ leaving' # leaving
<1>2. ASSUME NEW w \in sent, Updated(w) \/ Retry(w) \/ GiveUp(w) PROVE HttpNext
  BY <1>2 DEF Updated, Retry, GiveUp, HttpNext, Work
<1>3. ASSUME NEW w \in reported, Returns(w) PROVE HttpNext
  BY <1>3 DEF Returns, HttpNext, Work
<1>4. ASSUME NEW r \in Request, Transfer(r) PROVE HttpNext
  BY <1>4 DEF Transfer, HttpNext, Work
<1>5. ASSUME NEW k \in running, RunRetry(k) \/ RunOther(k) PROVE Next
  BY <1>5 DEF RunRetry, RunOther, Next, Handle
<1>6. CASE Timing
  BY <1>6 DEF Timing, Next, Handle
<1>7. ASSUME NEW c \in Client, Leave(c) PROVE leaving' # leaving
  BY <1>7 DEF Leave
<1>8. CASE End \/ \E k \in Task : Other(k)
  BY <1>8 DEF End, Other, Next, Queue
<1> QED BY <1>2, <1>3, <1>4, <1>5, <1>6, <1>7, <1>8 DEF OfflineNext, Server

LEMMA LeavingGrows == OfflineNext => leaving \subseteq leaving'
<1> SUFFICES ASSUME OfflineNext PROVE leaving \subseteq leaving'
  OBVIOUS
<1>1. CASE Server
  BY <1>1 DEF Server, Updated, Retry, GiveUp, Returns, Transfer, RunRetry, RunOther,
              Timing, offline_vars
<1>2. CASE \E c \in Client : Leave(c)
  BY <1>2 DEF Leave
<1>3. CASE End \/ \E k \in Task : Other(k)
  BY <1>3 DEF End, Other, offline_vars
<1> QED BY <1>1, <1>2, <1>3 DEF OfflineNext

\* Clients that leave, their requests, the tasks that repeat them and all other
\* tasks cost finitely many steps, for any numbers of each: none is put off by
\* others for ever.
THEOREM OfflineIsFinite == OfflineSpec => OfflineRunsOut
<1> DEFINE H == /\ \A r \in Request : HttpLeft(r) \in 0..7 /\ HttpLeft(r)' <= HttpLeft(r)
                /\ \E r \in Request : HttpLeft(r)' < HttpLeft(r)
           T == /\ \A k \in Task : TimerLeft(k) \in 0..5 /\ TimerLeft(k)' <= TimerLeft(k)
                /\ (\E k \in Task : TimerLeft(k)' < TimerLeft(k)) \/ destroyed' # destroyed
           Both == /\ \A r \in Request : HttpLeft(r) \in 0..7 /\ HttpLeft(r)' <= HttpLeft(r)
                   /\ \A k \in Task : TimerLeft(k) \in 0..5 /\ TimerLeft(k)' <= TimerLeft(k)
                   /\ \/ \E r \in Request : HttpLeft(r)' < HttpLeft(r)
                      \/ \E k \in Task : TimerLeft(k)' < TimerLeft(k)
                      \/ leaving' # leaving
                      \/ destroyed' # destroyed
                   /\ leaving \subseteq leaving'
<1>1. HttpInv /\ DrainPlace /\ HttpNext => H
  BY HttpStepNearer, HttpLeftIs DEF HttpNearer
<1>2. PoolInv /\ KeptInv /\ Next => T
  <2>1. PoolInv /\ KeptInv /\ Next => TimersNearer \/ Destroy
    BY TimersStep
  <2>2. TimersNearer => T
    BY TimerLeftIs DEF TimersNearer
  <2>3. PoolInv /\ KeptInv /\ Destroy => T
    <3>1. ASSUME PoolInv, Destroy PROVE destroyed' # destroyed
      <4>1. ~destroyed BY <3>1 DEF Destroy
      <4>2. destroyed' BY <3>1 DEF Destroy
      <4> QED BY <4>1, <4>2
    <3>2. KeptInv /\ Destroy => \A k : TimerLeft(k)' = TimerLeft(k)
      BY TimersSame
    <3> QED BY <3>1, <3>2, TimerLeftIs
  <2> QED BY <2>1, <2>2, <2>3
<1>3. HttpInv => HttpTypeOK
  BY DEF HttpInv
<1>4. UNCHANGED http_vars => \A r \in Request : HttpLeft(r) \in 0..7 /\ HttpLeft(r)' <= HttpLeft(r)
  <2>1. UNCHANGED http_vars => \A r \in Request : HttpLeft(r)' = HttpLeft(r)
    BY DEF http_vars, HttpLeft
  <2> QED BY <2>1, HttpLeftIs
<1>5. KeptInv /\ UNCHANGED vars =>
        \A k \in Task : TimerLeft(k) \in 0..5 /\ TimerLeft(k)' <= TimerLeft(k)
  <2>1. KeptInv /\ UNCHANGED vars => \A k : TimerLeft(k)' = TimerLeft(k)
    BY TimersSame
  <2> QED BY <2>1, TimerLeftIs
<1>6. HttpInv /\ DrainPlace /\ PoolInv /\ KeptInv /\ [OfflineNext]_all_vars => [Both]_all_vars
  <2> SUFFICES ASSUME HttpInv, DrainPlace, PoolInv, KeptInv, OfflineNext
               PROVE  Both
    OBVIOUS
  <2>1. HttpNext \/ Next \/ leaving' # leaving
    BY <1>3, OfflineStep
  <2>2. HttpNext \/ UNCHANGED http_vars
    BY OfflineHttpStep
  <2>3. Next \/ UNCHANGED vars
    BY <1>3, OfflineTimerStep
  <2>4. \A r \in Request : HttpLeft(r) \in 0..7 /\ HttpLeft(r)' <= HttpLeft(r)
    BY <1>1, <1>4, <2>2
  <2>5. \A k \in Task : TimerLeft(k) \in 0..5 /\ TimerLeft(k)' <= TimerLeft(k)
    BY <1>2, <1>5, <2>3
  <2>6. leaving \subseteq leaving'
    BY LeavingGrows
  <2> QED BY <1>1, <1>2, <2>1, <2>4, <2>5, <2>6
<1>7. OfflineSpec => [](HttpInv /\ DrainPlace)
  BY OfflineRequests, HttpInductive, DrainPlaceHolds, PTL
<1>8. OfflineSpec => [](PoolInv /\ KeptInv)
  BY OfflineTimers, PoolInductive, KeptHolds, PTL
<1> QED BY <1>6, <1>7, <1>8, PTL DEF OfflineSpec, OfflineRunsOut

\* When all handlers have run, all clients that left have been removed, or a
\* request is stranded. With the bound on the steps this is LeaverRemoved but for
\* its fairness.
THEOREM LeaversAreNotForgotten == OfflineSpec => []LeaversAreServed
<1>1. LeaveInv /\ HttpInv /\ PoolInv /\ KeptInv => LeaversAreServed
  <2> SUFFICES ASSUME LeaveInv, HttpInv, PoolInv, KeptInv, NEW c \in leaving,
                      removed[c] # 1,
                      sent = {}, reported = {}, draining = {}, refused = {},
                      waits = {}, handling = {}, running = {}
               PROVE  Stranded
    BY DEF LeaversAreServed
  <2>1. c \in Client /\ (Asking(c) \/ Paused(c))
    BY DEF LeaveInv, OfflineType, Course, AtHome, Gone
  <2>2. Requesting(c) # {} \/ Waiting(c) # {}
    BY <2>1 DEF Asking, Paused
  <2>3. Waiting(c) = {}
    BY DEF Waiting, KeptInv, TasksAreKept
  <2>4. PICK r \in asked : answered[r] = 0
    BY <2>2, <2>3 DEF Requesting
  <2>5. r \in ToSet(task_queue)
    BY <2>4 DEF HttpInv, RequestInOnePlace, Requested
  <2>6. task_queue # <<>>
    BY <2>5 DEF ToSet
  <2>7. request_pool = Block
    BY DEF HttpInv, BlockHasOneUser, Used
  <2> QED BY <2>6, <2>7 DEF Stranded
<1>2. OfflineSpec => []HttpInv
  BY OfflineRequests, HttpInductive, PTL
<1>3. OfflineSpec => [](PoolInv /\ KeptInv)
  BY OfflineTimers, PoolInductive, KeptHolds, PTL
<1> QED BY <1>1, <1>2, <1>3, LeaveInvInit, LeaveInvStep, PTL DEF OfflineSpec

=============================================================================
