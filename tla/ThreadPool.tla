------------------------------ MODULE ThreadPool ------------------------------
(***************************************************************************)
(* src/thread_pool.cpp: workers that take tasks from a queue under a mutex *)
(* and sleep on a condition variable, AddTask, and the destructor, which   *)
(* stops and joins them.                                                   *)
(*                                                                         *)
(* A critical section is one step; condition_.notify_one and notify_all    *)
(* come after the unlock, hence in a step of their own.  A worker that is  *)
(* woken has to take the mutex again and to look at the queue once more,   *)
(* and may wake spuriously.  A task is added at most once, from outside    *)
(* while the pool lives, or by a task that runs on a worker, even while    *)
(* the destructor waits for that worker.                                   *)
(***************************************************************************)
EXTENDS Naturals, Sequences

CONSTANTS Workers,  \* workers_
          Tasks,    \* tasks, each added at most once
          Clients,  \* threads outside the pool that add tasks
          NoTask    \* "no task"

ASSUME WorkersAssumption == Workers # {} /\ NoTask \notin Tasks

VARIABLES
  stop_,
  tasks_,
  worker,    \* where each worker is
  task,      \* the task a worker runs, or NoTask
  notifying, \* threads between the unlock of AddTask and notify_one
  dtor,      \* where the destructor is
  accepted,  \* history: tasks AddTask has queued
  refused,   \* history: tasks AddTask has dropped
  done       \* history: tasks that have run

poolVars == <<stop_, tasks_, worker, task, notifying, dtor, accepted, refused, done>>

Threads == Workers \cup Clients

\* "lock": about to take the mutex, on its first round or after a wakeup.
WorkerPCs == {"lock", "waiting", "running", "exited"}
DtorPCs == {"alive", "notify", "join", "gone"}

ThreadPoolTypeOK ==
  /\ stop_ \in BOOLEAN
  /\ tasks_ \in Seq(Tasks)
  /\ worker \in [Workers -> WorkerPCs]
  /\ task \in [Workers -> Tasks \cup {NoTask}]
  /\ notifying \subseteq Threads
  /\ dtor \in DtorPCs
  /\ accepted \subseteq Tasks
  /\ refused \subseteq Tasks
  /\ done \subseteq Tasks

ThreadPoolInit ==
  /\ stop_ = FALSE
  /\ tasks_ = <<>>
  /\ worker = [w \in Workers |-> "lock"]
  /\ task = [w \in Workers |-> NoTask]
  /\ notifying = {}
  /\ dtor = "alive"
  /\ accepted = {}
  /\ refused = {}
  /\ done = {}
-------------------------------------------------------------------------------
\* A thread may call AddTask when it is outside the pool and the pool has not
\* been given up, or when it is running a task.
MayAdd(p) == /\ p \notin notifying
             /\ IF p \in Workers THEN worker[p] = "running" ELSE dtor = "alive"

\* AddTask up to the unlock: a pool that stops drops the task and returns.
AddTask(p, t) ==
  /\ MayAdd(p)
  /\ t \in Tasks \ (accepted \cup refused)
  /\ IF stop_
     THEN /\ refused' = refused \cup {t}
          /\ UNCHANGED <<tasks_, accepted, notifying>>
     ELSE /\ tasks_' = Append(tasks_, t)
          /\ accepted' = accepted \cup {t}
          /\ notifying' = notifying \cup {p}
          /\ UNCHANGED refused
  /\ UNCHANGED <<stop_, worker, task, dtor, done>>

\* Mutant: notify_one wakes nobody.
NotifyOneLost(p) ==
  /\ p \in notifying
  /\ notifying' = notifying \ {p}
  /\ UNCHANGED <<stop_, tasks_, worker, task, dtor, accepted, refused, done>>

\* The end of AddTask: notify_one wakes one of the workers that wait, if any.
NotifyOne(p) ==
  /\ p \in notifying
  /\ notifying' = notifying \ {p}
  /\ \/ /\ \A w \in Workers : worker[w] # "waiting"
        /\ UNCHANGED worker
     \/ \E w \in Workers : /\ worker[w] = "waiting"
                           /\ worker' = [worker EXCEPT ![w] = "lock"]
  /\ UNCHANGED <<stop_, tasks_, task, dtor, accepted, refused, done>>

\* A wait that returns without having been notified.
SpuriousWakeup(w) ==
  /\ worker[w] = "waiting"
  /\ worker' = [worker EXCEPT ![w] = "lock"]
  /\ UNCHANGED <<stop_, tasks_, task, notifying, dtor, accepted, refused, done>>

\* Mutant: the task is copied and stays in the queue.
LockAndTakeCopy(w) ==
  /\ worker[w] = "lock"
  /\ \/ /\ tasks_ = <<>>
        /\ worker' = [worker EXCEPT ![w] = IF stop_ THEN "exited" ELSE "waiting"]
        /\ UNCHANGED task
     \/ /\ tasks_ # <<>>
        /\ task' = [task EXCEPT ![w] = Head(tasks_)]
        /\ worker' = [worker EXCEPT ![w] = "running"]
  /\ UNCHANGED <<stop_, tasks_, notifying, dtor, accepted, refused, done>>

\* Worker's critical section: wait, or leave, or take the first task.
LockAndTake(w) ==
  /\ worker[w] = "lock"
  /\ \/ /\ tasks_ = <<>>
        /\ worker' = [worker EXCEPT ![w] = IF stop_ THEN "exited" ELSE "waiting"]
        /\ UNCHANGED <<tasks_, task>>
     \/ /\ tasks_ # <<>>
        /\ task' = [task EXCEPT ![w] = Head(tasks_)]
        /\ tasks_' = Tail(tasks_)
        /\ worker' = [worker EXCEPT ![w] = "running"]
  /\ UNCHANGED <<stop_, notifying, dtor, accepted, refused, done>>

\* The task returns, outside the lock.  It has finished its own calls.
TaskReturns(w) ==
  /\ worker[w] = "running"
  /\ w \notin notifying
  /\ done' = done \cup {task[w]}
  /\ task' = [task EXCEPT ![w] = NoTask]
  /\ worker' = [worker EXCEPT ![w] = "lock"]
  /\ UNCHANGED <<stop_, tasks_, notifying, dtor, accepted, refused>>

\* The destructor sets stop_ under the lock.  Its owner has seen to it that
\* nobody outside is inside AddTask.
DtorStop ==
  /\ dtor = "alive"
  /\ notifying \cap Clients = {}
  /\ stop_' = TRUE
  /\ dtor' = "notify"
  /\ UNCHANGED <<tasks_, worker, task, notifying, accepted, refused, done>>

\* Mutant: the destructor wakes one worker only.
DtorNotifyOne ==
  /\ dtor = "notify"
  /\ \/ /\ \A w \in Workers : worker[w] # "waiting"
        /\ UNCHANGED worker
     \/ \E w \in Workers : /\ worker[w] = "waiting"
                           /\ worker' = [worker EXCEPT ![w] = "lock"]
  /\ dtor' = "join"
  /\ UNCHANGED <<stop_, tasks_, task, notifying, accepted, refused, done>>

DtorNotifyAll ==
  /\ dtor = "notify"
  /\ worker' = [w \in Workers |-> IF worker[w] = "waiting" THEN "lock" ELSE worker[w]]
  /\ dtor' = "join"
  /\ UNCHANGED <<stop_, tasks_, task, notifying, accepted, refused, done>>

\* The last join returns.
DtorJoin ==
  /\ dtor = "join"
  /\ \A w \in Workers : worker[w] = "exited"
  /\ dtor' = "gone"
  /\ UNCHANGED <<stop_, tasks_, worker, task, notifying, accepted, refused, done>>

WorkerStep(w) == LockAndTake(w) \/ TaskReturns(w)

Destructor == DtorStop \/ DtorNotifyAll \/ DtorJoin

ThreadPoolNext ==
  \/ \E p \in Threads, t \in Tasks : AddTask(p, t)
  \/ \E p \in Threads : NotifyOne(p)
  \/ \E w \in Workers : WorkerStep(w) \/ SpuriousWakeup(w)
  \/ Destructor

ThreadPoolSpec == ThreadPoolInit /\ [][ThreadPoolNext]_poolVars
-------------------------------------------------------------------------------
\* No worker oversleeps: while there are tasks, some worker is awake or a
\* notification is on its way (AddTask notifies after the unlock, against the
\* wait of Worker).
AwakeForTasks ==
  tasks_ # <<>> => \/ \E w \in Workers : worker[w] \in {"lock", "running"}
                   \/ notifying # {}

\* No accepted task is dropped or run twice, not even by a destructor that
\* races with tasks which add tasks: it is queued, in one worker's hands, or
\* done; and all are done when the destructor returns.
TasksAccountedFor ==
  /\ \A t \in accepted :
       LET queued == {n \in 1 .. Len(tasks_) : tasks_[n] = t}
           held   == {w \in Workers : task[w] = t}
       IN  IF t \in done THEN queued = {} /\ held = {}
           ELSE \/ \E n \in 1 .. Len(tasks_) : queued = {n} /\ held = {}
                \/ \E w \in Workers : held = {w} /\ queued = {}
  /\ dtor = "gone" => accepted = done
===============================================================================
