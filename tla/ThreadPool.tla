----------------------------- MODULE ThreadPool -----------------------------
(***************************************************************************)
(* The thread pool: a queue of tasks behind a mutex, and workers that wait *)
(* for it on a condition variable.  Every critical section is one action:  *)
(* the mutex is held throughout, and its sections touch nothing else.  The *)
(* notification of a new task comes after the mutex has been released, in  *)
(* a step of its own.                                                      *)
(*                                                                         *)
(* The destructor, which drains the queue, never runs: a validator ends    *)
(* with exit(), which destroys no local object, and takes the queue along. *)
(***************************************************************************)
EXTENDS Sequences, FiniteSets

CONSTANTS
  Tasks,     \* what may be enqueued, each of them once
  Workers,   \* the threads of the pool
  None       \* no task, no key

ASSUME WorkersAssumption == Workers # {} /\ IsFiniteSet(Workers)

VARIABLES
  task_queue,   \* the queue
  worker,       \* worker[w]: "ready" for the mutex, "waiting" or "running"
  task,         \* task[w]: the task worker w is running, or None
  unannounced,  \* tasks in the queue whose enqueue() has not notified yet
  done,         \* history: the tasks that were executed
  exited        \* the process has ended

pool  == <<task_queue, worker, task, unannounced, done>>
pvars == <<pool, exited>>

Queued == {task_queue[i] : i \in DOMAIN task_queue}

Running == {task[w] : w \in {x \in Workers : worker[x] = "running"}}

PoolTypeOK ==
  /\ task_queue \in Seq(Tasks)
  /\ worker \in [Workers -> {"ready", "waiting", "running"}]
  /\ DOMAIN task = Workers
  /\ Running \subseteq Tasks
  /\ unannounced \subseteq Tasks
  /\ done \subseteq Tasks
  /\ exited \in BOOLEAN

PoolInit ==
  /\ task_queue = <<>>
  /\ worker = [w \in Workers |-> "ready"]
  /\ task \in [Workers -> {None}]
  /\ unannounced = {}
  /\ done = {}
  /\ exited = FALSE

(* The first half of enqueue: lock, emplace, unlock; *)
Put(t) ==
  /\ t \notin Queued \cup Running \cup done
  /\ task_queue' = Append(task_queue, t)
  /\ unannounced' = unannounced \cup {t}
  /\ UNCHANGED <<worker, task, done, exited>>

NotifyNobody(t) ==          \* mutant: without notify_one
  /\ t \in unannounced
  /\ unannounced' = unannounced \ {t}
  /\ UNCHANGED <<task_queue, worker, task, done, exited>>

(* the second half: notify_one, lost when no worker waits. *)
Notify(t) ==
  /\ t \in unannounced
  /\ unannounced' = unannounced \ {t}
  /\ IF \E w \in Workers : worker[w] = "waiting"
       THEN \E w \in Workers : /\ worker[w] = "waiting"
                               /\ worker' = [worker EXCEPT ![w] = "ready"]
       ELSE UNCHANGED worker
  /\ UNCHANGED <<task_queue, task, done, exited>>

(* A worker that gets the mutex waits while there is nothing to do, *)
Wait(w) ==
  /\ worker[w] = "ready"
  /\ task_queue = <<>>
  /\ worker' = [worker EXCEPT ![w] = "waiting"]
  /\ UNCHANGED <<task_queue, task, unannounced, done, exited>>

(* looks again when it wakes up for no reason, *)
WakeForNoReason(w) ==
  /\ worker[w] = "waiting"
  /\ worker' = [worker EXCEPT ![w] = "ready"]
  /\ UNCHANGED <<task_queue, task, unannounced, done, exited>>

TakeAndLeave(w) ==          \* mutant: without task_queue.pop
  /\ worker[w] = "ready"
  /\ task_queue # <<>>
  /\ task' = [task EXCEPT ![w] = Head(task_queue)]
  /\ worker' = [worker EXCEPT ![w] = "running"]
  /\ UNCHANGED <<task_queue, unannounced, done, exited>>

(* takes the first task off the queue, *)
Take(w) ==
  /\ worker[w] = "ready"
  /\ task_queue # <<>>
  /\ task' = [task EXCEPT ![w] = Head(task_queue)]
  /\ task_queue' = Tail(task_queue)
  /\ worker' = [worker EXCEPT ![w] = "running"]
  /\ UNCHANGED <<unannounced, done, exited>>

(* and executes it without the mutex. *)
Execute(w) ==
  /\ worker[w] = "running"
  /\ done' = done \cup {task[w]}
  /\ task' = [task EXCEPT ![w] = None]
  /\ worker' = [worker EXCEPT ![w] = "ready"]
  /\ UNCHANGED <<task_queue, unannounced, exited>>

Work(w) == Wait(w) \/ Take(w) \/ Execute(w)

-----------------------------------------------------------------------------
(* No wake-up is lost: notify_one comes after the mutex is released, and   *)
(* may meet workers that are not waiting yet; still the queue is never     *)
(* left alone with every worker asleep and no notification to come.        *)
NoLostWakeup ==
  task_queue # <<>> =>
    \/ unannounced # {}
    \/ \E w \in Workers : worker[w] # "waiting"

(* The pool executes each task once and none that was not enqueued: it     *)
(* implements TaskBag.                                                     *)
Bag == INSTANCE TaskBag WITH added <- Queued, begun <- Running

ImplementsTaskBag == Bag!BSpec

(* Every task that is enqueued is executed, unless the process ends.       *)
TasksAreExecuted == \A t \in Tasks : t \in Queued ~> t \in done \/ exited
=============================================================================
