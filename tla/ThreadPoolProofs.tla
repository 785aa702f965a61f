-------------------------- MODULE ThreadPoolProofs --------------------------
(***************************************************************************)
(* The thread pool loses no wake-up and executes no task twice, for any    *)
(* tasks and any number of workers, whatever the threads that use it do.   *)
(***************************************************************************)
EXTENDS ThreadPool, Integers, TLAPS

(* What may happen to the pool: the halves of enqueue, the steps of the    *)
(* workers, and the end of the process.                                    *)
PoolNext ==
  /\ ~ exited
  /\ \/ \E t \in Tasks : Put(t) \/ Notify(t)
     \/ \E w \in Workers : Work(w) \/ WakeForNoReason(w)
     \/ exited' = TRUE /\ UNCHANGED pool

(* A task is in one place: once in the queue, with one worker, or done.    *)
Apart ==
  /\ \A i, j \in DOMAIN task_queue : task_queue[i] = task_queue[j] => i = j
  /\ \A v, w \in Workers :
       worker[v] = "running" /\ worker[w] = "running" /\ task[v] = task[w] => v = w
  /\ Queued \cap Running = {}
  /\ Queued \cap done = {}
  /\ Running \cap done = {}

PoolSpec == PoolInit /\ [][PoolNext]_pvars

PoolInv == PoolTypeOK /\ Apart /\ NoLostWakeup

-----------------------------------------------------------------------------
(* Enqueueing adds a task to those of the queue. *)
LEMMA PutQueues ==
  ASSUME PoolInv, NEW t \in Tasks, Put(t)
  PROVE  /\ task_queue' \in Seq(Tasks)
         /\ task_queue' # <<>>
         /\ Queued' = Queued \cup {t}
         /\ \A i, j \in DOMAIN task_queue' : task_queue'[i] = task_queue'[j] => i = j
<1>1. /\ task_queue \in Seq(Tasks)
      /\ t \notin Queued
      /\ task_queue' = Append(task_queue, t)
  BY DEF PoolInv, PoolTypeOK, Put
<1>2. /\ task_queue' \in Seq(Tasks)
      /\ Len(task_queue') = Len(task_queue) + 1
      /\ task_queue'[Len(task_queue) + 1] = t
      /\ \A i \in 1 .. Len(task_queue) : task_queue'[i] = task_queue[i]
  BY <1>1
<1>3. /\ DOMAIN task_queue = 1 .. Len(task_queue)
      /\ DOMAIN task_queue' = 1 .. Len(task_queue) + 1
      /\ Len(task_queue) \in Nat
  BY <1>1, <1>2
<1>4. Queued' = Queued \cup {t}
  BY <1>2, <1>3 DEF Queued
<1>5. QED
  BY <1>1, <1>2, <1>3, <1>4 DEF Queued, PoolInv, Apart

(* Dequeueing takes the first task away from them. *)
LEMMA TakeQueues ==
  ASSUME PoolInv, task_queue # <<>>, task_queue' = Tail(task_queue)
  PROVE  /\ task_queue' \in Seq(Tasks)
         /\ Head(task_queue) \in Queued
         /\ Queued' = Queued \ {Head(task_queue)}
         /\ \A i, j \in DOMAIN task_queue' : task_queue'[i] = task_queue'[j] => i = j
<1>1. task_queue \in Seq(Tasks)
  BY DEF PoolInv, PoolTypeOK
<1>2. /\ task_queue' \in Seq(Tasks)
      /\ Len(task_queue) \in Nat \ {0}
      /\ Len(task_queue') = Len(task_queue) - 1
      /\ Head(task_queue) = task_queue[1]
      /\ \A i \in 1 .. Len(task_queue) - 1 : task_queue'[i] = task_queue[i + 1]
  BY <1>1
<1>3. /\ DOMAIN task_queue = 1 .. Len(task_queue)
      /\ DOMAIN task_queue' = 1 .. Len(task_queue) - 1
  BY <1>1, <1>2
<1>4. \A i, j \in DOMAIN task_queue : task_queue[i] = task_queue[j] => i = j
  BY DEF PoolInv, Apart
<1>5. Queued' = Queued \ {Head(task_queue)}
  <2>1. ASSUME NEW x \in Queued'
        PROVE  x \in Queued \ {task_queue[1]}
    <3>1. PICK i \in 1 .. Len(task_queue) - 1 : x = task_queue[i + 1]
      BY <1>2, <1>3, <2>1 DEF Queued
    <3>2. i + 1 \in DOMAIN task_queue /\ 1 \in DOMAIN task_queue /\ i + 1 # 1
      BY <1>2, <1>3
    <3>3. QED
      BY <1>4, <3>1, <3>2 DEF Queued
  <2>2. ASSUME NEW x \in Queued, x # task_queue[1]
        PROVE  x \in Queued'
    <3>1. PICK i \in 1 .. Len(task_queue) : x = task_queue[i]
      BY <1>3, <2>2 DEF Queued
    <3>2. /\ i - 1 \in 1 .. Len(task_queue) - 1
          /\ task_queue'[i - 1] = x
      BY <1>2, <2>2, <3>1
    <3>3. QED
      BY <1>3, <3>2 DEF Queued
  <2>3. QED
    BY <1>2, <2>1, <2>2
<1>6. ASSUME NEW i \in DOMAIN task_queue', NEW j \in DOMAIN task_queue',
             task_queue'[i] = task_queue'[j]
      PROVE  i = j
  <2>1. i + 1 \in DOMAIN task_queue /\ j + 1 \in DOMAIN task_queue
    BY <1>2, <1>3
  <2>2. task_queue[i + 1] = task_queue[j + 1]
    BY <1>2, <1>3, <1>6
  <2>3. i + 1 = j + 1
    BY <1>4, <2>1, <2>2
  <2>4. QED
    BY <1>2, <1>3, <2>3
<1>7. Head(task_queue) \in Queued
  BY <1>2, <1>3 DEF Queued
<1>8. QED
  BY <1>2, <1>5, <1>6, <1>7

(* Who runs what depends on the workers alone; one that begins to run adds *)
(* its task, *)
LEMMA BeginRuns ==
  ASSUME PoolInv, NEW w \in Workers, NEW t, worker[w] # "running",
         task' = [task EXCEPT ![w] = t], worker' = [worker EXCEPT ![w] = "running"]
  PROVE  Running' = Running \cup {t}
<1>1. DOMAIN task = Workers /\ DOMAIN worker = Workers
  BY DEF PoolInv, PoolTypeOK
<1>2. /\ task'[w] = t /\ worker'[w] = "running"
      /\ \A v \in Workers \ {w} : task'[v] = task[v] /\ worker'[v] = worker[v]
  BY <1>1
<1>3. QED
  BY <1>2 DEF Running

(* one that has finished takes it away. *)
LEMMA EndRuns ==
  ASSUME PoolInv, NEW w \in Workers, worker[w] = "running",
         task' = [task EXCEPT ![w] = None], worker' = [worker EXCEPT ![w] = "ready"]
  PROVE  Running' = Running \ {task[w]}
<1>1. DOMAIN task = Workers /\ DOMAIN worker = Workers
  BY DEF PoolInv, PoolTypeOK
<1>2. /\ worker'[w] = "ready"
      /\ \A v \in Workers \ {w} : task'[v] = task[v] /\ worker'[v] = worker[v]
  BY <1>1
<1>3. \A v \in Workers \ {w} : worker[v] = "running" => task[v] # task[w]
  BY DEF PoolInv, Apart
<1>4. QED
  BY <1>2, <1>3 DEF Running

(* The steps of the pool, one by one.  A new task is nowhere else. *)
LEMMA PutKeeps ==
  ASSUME PoolInv, NEW t \in Tasks, Put(t)
  PROVE  PoolInv'
<1>1. /\ UNCHANGED <<worker, task, done, exited>>
      /\ unannounced' = unannounced \cup {t}
      /\ t \notin Queued \cup Running \cup done
  BY DEF Put
<1>2. Running' = Running
  BY <1>1 DEF Running
<1>3. QED
  BY <1>1, <1>2, PutQueues DEF PoolInv, PoolTypeOK, Apart, NoLostWakeup

(* A notification wakes a worker, or there is one awake already. *)
LEMMA NotifyKeeps ==
  ASSUME PoolInv, NEW t \in Tasks, Notify(t)
  PROVE  PoolInv'
<1>1. UNCHANGED <<task_queue, task, done, exited>> /\ unannounced' \subseteq unannounced
  BY DEF Notify
<1>2. Queued' = Queued
  BY <1>1 DEF Queued
<1>3. CASE \E w \in Workers : worker[w] = "waiting"
  <2>1. PICK w \in Workers : worker[w] = "waiting" /\ worker' = [worker EXCEPT ![w] = "ready"]
    BY <1>3 DEF Notify
  <2>2. /\ worker' \in [Workers -> {"ready", "waiting", "running"}]
        /\ worker'[w] = "ready"
        /\ \A v \in Workers : worker'[v] = "running" <=> worker[v] = "running"
    BY <2>1 DEF PoolInv, PoolTypeOK
  <2>3. Running' = Running
    BY <1>1, <2>2 DEF Running
  <2>4. QED
    BY <1>1, <1>2, <2>2, <2>3 DEF PoolInv, PoolTypeOK, Apart, NoLostWakeup
<1>4. CASE ~ \E w \in Workers : worker[w] = "waiting"
  <2>1. UNCHANGED worker
    BY <1>4 DEF Notify
  <2>2. Running' = Running
    BY <1>1, <2>1 DEF Running
  <2>3. QED
    BY <1>1, <1>2, <1>4, <2>1, <2>2, WorkersAssumption
       DEF PoolInv, PoolTypeOK, Apart, NoLostWakeup
<1>5. QED
  BY <1>3, <1>4

(* A worker that falls asleep has seen the queue empty; one that wakes up  *)
(* runs nothing.                                                           *)
LEMMA SleepKeeps ==
  ASSUME PoolInv, NEW w \in Workers, Wait(w) \/ WakeForNoReason(w)
  PROVE  PoolInv'
<1>1. /\ UNCHANGED <<task_queue, task, unannounced, done, exited>>
      /\ \/ task_queue = <<>> /\ worker' = [worker EXCEPT ![w] = "waiting"]
         \/ worker' = [worker EXCEPT ![w] = "ready"]
      /\ worker[w] # "running"
  BY DEF Wait, WakeForNoReason
<1>2. /\ worker' \in [Workers -> {"ready", "waiting", "running"}]
      /\ \A v \in Workers : worker'[v] = "running" <=> worker[v] = "running"
      /\ task_queue = <<>> \/ worker'[w] = "ready"
  BY <1>1 DEF PoolInv, PoolTypeOK
<1>3. Queued' = Queued /\ Running' = Running
  BY <1>1, <1>2 DEF Queued, Running
<1>4. QED
  BY <1>1, <1>2, <1>3 DEF PoolInv, PoolTypeOK, Apart, NoLostWakeup

(* A task goes from the queue to a worker, *)
LEMMA TakeKeeps ==
  ASSUME PoolInv, NEW w \in Workers, Take(w)
  PROVE  PoolInv'
<1>1. /\ UNCHANGED <<unannounced, done, exited>>
      /\ worker[w] = "ready"
      /\ task_queue # <<>> /\ task_queue' = Tail(task_queue)
      /\ task' = [task EXCEPT ![w] = Head(task_queue)]
      /\ worker' = [worker EXCEPT ![w] = "running"]
  BY DEF Take
<1>2. Running' = Running \cup {Head(task_queue)}
  BY <1>1, BeginRuns
<1>3. /\ task_queue' \in Seq(Tasks)
      /\ Head(task_queue) \in Queued
      /\ Queued' = Queued \ {Head(task_queue)}
      /\ \A i, j \in DOMAIN task_queue' : task_queue'[i] = task_queue'[j] => i = j
  BY <1>1, TakeQueues
<1>4. Queued \subseteq Tasks
  BY DEF Queued, PoolInv, PoolTypeOK
<1>5. /\ DOMAIN task' = Workers
      /\ worker' \in [Workers -> {"ready", "waiting", "running"}]
      /\ task'[w] = Head(task_queue) /\ worker'[w] = "running"
      /\ \A v \in Workers \ {w} : task'[v] = task[v] /\ worker'[v] = worker[v]
  BY <1>1 DEF PoolInv, PoolTypeOK
<1>6. \A v \in Workers : worker[v] = "running" => task[v] \in Running
  BY DEF Running
<1>7. Head(task_queue) \notin Running
  BY <1>3 DEF PoolInv, Apart
<1>8. PoolTypeOK'
  BY <1>1, <1>2, <1>3, <1>4, <1>5 DEF PoolInv, PoolTypeOK
<1>9. \A u, v \in Workers :
        worker'[u] = "running" /\ worker'[v] = "running" /\ task'[u] = task'[v] => u = v
  BY <1>5, <1>6, <1>7 DEF PoolInv, Apart
<1>10. Apart'
  BY <1>1, <1>2, <1>3, <1>9 DEF PoolInv, Apart
<1>11. NoLostWakeup'
  BY <1>5 DEF NoLostWakeup
<1>12. QED
  BY <1>8, <1>10, <1>11 DEF PoolInv

(* and from the worker to those that are done. *)
LEMMA ExecuteKeeps ==
  ASSUME PoolInv, NEW w \in Workers, Execute(w)
  PROVE  PoolInv'
<1>1. /\ UNCHANGED <<task_queue, unannounced, exited>>
      /\ worker[w] = "running"
      /\ done' = done \cup {task[w]}
      /\ task' = [task EXCEPT ![w] = None]
      /\ worker' = [worker EXCEPT ![w] = "ready"]
  BY DEF Execute
<1>2. Running' = Running \ {task[w]} /\ Queued' = Queued
  BY <1>1, EndRuns DEF Queued
<1>3. task[w] \in Running
  BY <1>1 DEF Running
<1>4. /\ DOMAIN task' = Workers
      /\ worker' \in [Workers -> {"ready", "waiting", "running"}]
      /\ worker'[w] = "ready"
      /\ \A v \in Workers \ {w} : task'[v] = task[v] /\ worker'[v] = worker[v]
  BY <1>1 DEF PoolInv, PoolTypeOK
<1>5. PoolTypeOK'
  BY <1>1, <1>2, <1>3, <1>4 DEF PoolInv, PoolTypeOK
<1>6. Apart'
  BY <1>1, <1>2, <1>3, <1>4 DEF PoolInv, Apart
<1>7. NoLostWakeup'
  BY <1>4 DEF NoLostWakeup
<1>8. QED
  BY <1>5, <1>6, <1>7 DEF PoolInv

(* The end of the process leaves the pool alone, and so do other steps.    *)
LEMMA PoolKept ==
  ASSUME PoolInv, UNCHANGED pool, exited' \in BOOLEAN
  PROVE  PoolInv'
BY DEF PoolInv, PoolTypeOK, Apart, NoLostWakeup, pool, Queued, Running

(* The invariant is inductive. *)
LEMMA PoolStep == PoolInv /\ [PoolNext]_pvars => PoolInv'
<1> SUFFICES ASSUME PoolInv, [PoolNext]_pvars
             PROVE  PoolInv'
  OBVIOUS
<1>1. CASE UNCHANGED pvars
  BY <1>1, PoolKept DEF pvars, PoolInv, PoolTypeOK
<1>2. CASE exited' = TRUE /\ UNCHANGED pool
  BY <1>2, PoolKept
<1>3. ASSUME NEW t \in Tasks, Put(t) \/ Notify(t)
      PROVE  PoolInv'
  BY <1>3, PutKeeps, NotifyKeeps
<1>4. ASSUME NEW w \in Workers, Work(w) \/ WakeForNoReason(w)
      PROVE  PoolInv'
  BY <1>4, SleepKeeps, TakeKeeps, ExecuteKeeps DEF Work
<1>5. QED
  BY <1>1, <1>2, <1>3, <1>4 DEF PoolNext

(* At the start the queue is empty and nobody runs anything. *)
LEMMA PoolStart == PoolInit => PoolInv
<1> SUFFICES ASSUME PoolInit
             PROVE  PoolInv
  OBVIOUS
<1>1. /\ task_queue = <<>> /\ unannounced = {} /\ done = {} /\ exited = FALSE
      /\ worker \in [Workers -> {"ready", "waiting", "running"}]
      /\ \A w \in Workers : worker[w] = "ready"
      /\ DOMAIN task = Workers
  BY DEF PoolInit
<1>2. Queued = {} /\ Running = {}
  BY <1>1 DEF Queued, Running
<1>3. PoolTypeOK /\ NoLostWakeup
  <2>1. task_queue \in Seq(Tasks)
    BY <1>1
  <2>2. PoolTypeOK
    BY <1>1, <1>2, <2>1 DEF PoolTypeOK
  <2>3. NoLostWakeup
    BY <1>1 DEF NoLostWakeup
  <2>4. QED
    BY <2>2, <2>3
<1>4. DOMAIN task_queue = {}
  BY <1>1
<1>5. Apart
  BY <1>1, <1>2, <1>4 DEF Apart
<1>6. QED
  BY <1>3, <1>5 DEF PoolInv

-----------------------------------------------------------------------------
(* What a step does to the tasks: one is enqueued, begun or finished, the  *)
(* process ends, or nothing happens.                                       *)
Effect ==
  \/ \E t \in Tasks : Put(t) /\ Bag!Add(t)
  \/ \E t \in Tasks : Bag!Begin(t) \/ Bag!Finish(t)
  \/ Bag!Exit
  \/ UNCHANGED Bag!bvars

(* Every step of the pool has such an effect. *)
LEMMA PoolEffect == PoolInv /\ [PoolNext]_pvars => Effect
<1> SUFFICES ASSUME PoolInv, [PoolNext]_pvars
             PROVE  Effect
  OBVIOUS
<1>1. ASSUME UNCHANGED <<task_queue, done, exited>>, Running' = Running
      PROVE  Effect
  BY <1>1 DEF Queued, Effect, Bag!bvars
<1>2. CASE UNCHANGED pvars
  BY <1>1, <1>2 DEF pvars, pool, Running
<1>3. CASE exited' = TRUE /\ UNCHANGED pool
  <2>1. Running' = Running /\ Queued' = Queued /\ done' = done
    BY <1>3 DEF pool, Running, Queued
  <2>2. QED
    BY <1>3, <2>1 DEF Effect, Bag!Exit
<1>4. ASSUME NEW t \in Tasks, Put(t), ~ exited
      PROVE  Effect
  <2>1. /\ Queued' = Queued \cup {t} /\ Running' = Running
        /\ t \notin Queued \cup Running \cup done
        /\ UNCHANGED <<done, exited>>
    BY <1>4, PutQueues DEF Put, Running
  <2>2. Bag!Add(t)
    BY <1>4, <2>1 DEF Bag!Add
  <2>3. QED
    BY <1>4, <2>2 DEF Effect
<1>5. ASSUME NEW t \in Tasks, Notify(t)
      PROVE  Effect
  <2>1. Running' = Running
    <3>1. \A w \in Workers : worker'[w] = "running" <=> worker[w] = "running"
      BY <1>5 DEF Notify, PoolInv, PoolTypeOK
    <3>2. QED
      BY <1>5, <3>1 DEF Notify, Running
  <2>2. QED
    BY <1>1, <1>5, <2>1 DEF Notify
<1>6. ASSUME NEW w \in Workers, Wait(w) \/ WakeForNoReason(w)
      PROVE  Effect
  <2>1. \A v \in Workers : worker'[v] = "running" <=> worker[v] = "running"
    BY <1>6 DEF Wait, WakeForNoReason, PoolInv, PoolTypeOK
  <2>2. UNCHANGED <<task_queue, task, done, exited>>
    BY <1>6 DEF Wait, WakeForNoReason
  <2>3. QED
    BY <1>1, <2>1, <2>2 DEF Running
<1>7. ASSUME NEW w \in Workers, Take(w), ~ exited
      PROVE  Effect
  <2>1. /\ Head(task_queue) \in Queued
        /\ Queued' = Queued \ {Head(task_queue)}
        /\ UNCHANGED <<done, exited>>
    BY <1>7, TakeQueues DEF Take
  <2>2. Running' = Running \cup {Head(task_queue)}
    BY <1>7, BeginRuns DEF Take
  <2>3. Bag!Begin(Head(task_queue))
    BY <1>7, <2>1, <2>2 DEF Bag!Begin
  <2>4. Head(task_queue) \in Tasks
    BY <2>1 DEF Queued, PoolInv, PoolTypeOK
  <2>5. QED
    BY <2>3, <2>4 DEF Effect
<1>8. ASSUME NEW w \in Workers, Execute(w), ~ exited
      PROVE  Effect
  <2>1. /\ task[w] \in Running
        /\ done' = done \cup {task[w]}
        /\ Queued' = Queued /\ UNCHANGED exited
    BY <1>8 DEF Execute, Running, Queued
  <2>2. Running' = Running \ {task[w]}
    BY <1>8, EndRuns DEF Execute
  <2>3. Bag!Finish(task[w])
    BY <1>8, <2>1, <2>2 DEF Bag!Finish
  <2>4. task[w] \in Tasks
    BY <2>1 DEF PoolInv, PoolTypeOK
  <2>5. QED
    BY <2>3, <2>4 DEF Effect
<1>9. QED
  BY <1>2, <1>3, <1>4, <1>5, <1>6, <1>7, <1>8 DEF PoolNext, Work

(* So every step of the pool is one of the bag, or none. *)
LEMMA PoolMaps == PoolInv /\ [PoolNext]_pvars => [Bag!BNext]_(Bag!bvars)
  BY PoolEffect DEF Effect, Bag!BNext

(* The tasks that were ever enqueued. *)
Enqueued == Queued \cup Running \cup done

(* Only an enqueue adds to them. *)
LEMMA EnqueuedByPut ==
  ASSUME PoolInv, [PoolNext]_pvars
  PROVE  \A t \in Enqueued' \ Enqueued : Put(t)
<1>1. Effect
  BY PoolEffect
<1>2. QED
  BY <1>1 DEF Effect, Enqueued, Bag!Add, Bag!Begin, Bag!Finish, Bag!Exit, Bag!bvars

(* At the start the bag is empty. *)
LEMMA BagStart == PoolInit => Bag!BInit
<1> SUFFICES ASSUME PoolInit
             PROVE  Bag!BInit
  OBVIOUS
<1>1. /\ task_queue = <<>> /\ done = {} /\ exited = FALSE
      /\ \A w \in Workers : worker[w] = "ready"
  BY DEF PoolInit
<1>2. Queued = {} /\ Running = {}
  BY <1>1 DEF Queued, Running
<1>3. QED
  BY <1>1, <1>2 DEF Bag!BInit

(* The pool never leaves a task in the queue with every worker asleep and  *)
(* no notification to come, although enqueue() notifies without the mutex. *)
THEOREM PoolIsAwake == PoolSpec => []NoLostWakeup
<1>1. PoolSpec => []PoolInv
  BY PoolStart, PoolStep, PTL DEF PoolSpec
<1>2. PoolInv => NoLostWakeup
  BY DEF PoolInv
<1>3. QED
  BY <1>1, <1>2, PTL

(* And it executes each task once, and none that was not enqueued. *)
THEOREM PoolIsBag == PoolSpec => ImplementsTaskBag
<1>1. PoolSpec => []PoolInv
  BY PoolStart, PoolStep, PTL DEF PoolSpec
<1>2. QED
  BY <1>1, BagStart, PoolMaps, PTL DEF PoolSpec, ImplementsTaskBag, Bag!BSpec
=============================================================================
