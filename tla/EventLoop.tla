------------------------------ MODULE EventLoop ------------------------------
(***************************************************************************)
(* reactor/event_loop.cpp, event_loop_thread.cpp, event_loop_thread_pool   *)
(* .cpp: the threads of the pool, each running one EventLoop, the queue of *)
(* functors other threads hand to a loop, the eventfd that wakes it, and   *)
(* the controller that starts and stops the pool.                          *)
(*                                                                         *)
(* What a functor does is abstracted, except that it may queue another     *)
(* functor in its own loop.  A functor is queued at most once, so it also  *)
(* names the call that queued it.  epoll_wait always has a timeout (100 ms *)
(* or the next tick), so it may return whenever it likes; whether it       *)
(* returned because of the eventfd is what `woken' remembers.  Sockets and *)
(* timers are the subject of ConnectionReactor.  So ProcessTimers, which   *)
(* Loop() calls before epoll_wait, is left out: the program's only timer   *)
(* callback, Connection::OnTimeout, queues no functor.  One that did would *)
(* wake nobody from there and leave its functor to the end of the wait.    *)
(*                                                                         *)
(* Environment assumption: nobody queues functors once the pool is being   *)
(* stopped.  In the server it is so, because the thread that accepts       *)
(* connections is the one that later runs Server::Stop.                    *)
(***************************************************************************)
EXTENDS Naturals, Sequences

CONSTANTS NumLoops,  \* num_threads_
          Producers, \* threads outside the pool that call QueueInLoop
          Functors,  \* functors, each queued at most once
          None       \* "no loop"

ASSUME PoolAssumption == /\ NumLoops \in Nat \ {0}
                         /\ None \notin Nat

Loops == 1 .. NumLoops

VARIABLES
  ctl,                       \* where EventLoopThreadPool Start and Stop are
  i,                         \* their loop variable
  pc,                        \* where each loop's thread is
  quit_,
  pending_functors_,
  functors,                  \* DoPendingFunctors: what is left of its batch
  calling_pending_functors_,
  wakeup_fd_,                \* the eventfd's counter is not zero
  woken,                     \* this round of epoll_wait reported the eventfd
  waking,                    \* producer: the loop it is about to wake, or None
  queued,                    \* history: functors queued in each loop, in order
  executed                   \* history: functors each loop has run, in order

queueVars == <<pending_functors_, functors, calling_pending_functors_, queued, executed>>
vars == <<ctl, i, pc, quit_, wakeup_fd_, woken, waking, queueVars>>

\* "ctor": the thread runs, its EventLoop is not yet published in loop_.
\* "ready": published, Loop() not entered.  "exited": Loop() has returned and
\* the EventLoop, a local variable of ThreadFunc, is destroyed.
PCs == {"absent", "ctor", "ready", "check", "wait", "events", "swap", "run", "exited"}
Ctls == {"start", "starting", "running", "quit", "wake", "join", "stopped"}

TypeOK ==
  /\ ctl \in Ctls
  /\ i \in Loops
  /\ pc \in [Loops -> PCs]
  /\ quit_ \in [Loops -> BOOLEAN]
  /\ pending_functors_ \in [Loops -> Seq(Functors)]
  /\ functors \in [Loops -> Seq(Functors)]
  /\ calling_pending_functors_ \in [Loops -> BOOLEAN]
  /\ wakeup_fd_ \in [Loops -> BOOLEAN]
  /\ woken \in [Loops -> BOOLEAN]
  /\ waking \in [Producers -> Loops \cup {None}]
  /\ queued \in [Loops -> Seq(Functors)]
  /\ executed \in [Loops -> Seq(Functors)]

Init ==
  /\ ctl = "start"
  /\ i = 1
  /\ pc = [l \in Loops |-> "absent"]
  /\ quit_ = [l \in Loops |-> FALSE]
  /\ pending_functors_ = [l \in Loops |-> <<>>]
  /\ functors = [l \in Loops |-> <<>>]
  /\ calling_pending_functors_ = [l \in Loops |-> FALSE]
  /\ wakeup_fd_ = [l \in Loops |-> FALSE]
  /\ woken = [l \in Loops |-> FALSE]
  /\ waking = [p \in Producers |-> None]
  /\ queued = [l \in Loops |-> <<>>]
  /\ executed = [l \in Loops |-> <<>>]
-------------------------------------------------------------------------------
(* The loop's thread. *)

Goto(l, from, to) == /\ pc[l] = from
                     /\ pc' = [pc EXCEPT ![l] = to]

\* ThreadFunc constructs the EventLoop and publishes it under the mutex.
Publish(l) ==
  /\ Goto(l, "ctor", "ready")
  /\ UNCHANGED <<ctl, i, quit_, wakeup_fd_, woken, waking, queueVars>>

\* The first lines of Loop() reset quit_.
EnterLoop(l) ==
  /\ Goto(l, "ready", "check")
  /\ quit_' = [quit_ EXCEPT ![l] = FALSE]
  /\ UNCHANGED <<ctl, i, wakeup_fd_, woken, waking, queueVars>>

CheckQuit(l) ==
  /\ IF quit_[l] THEN Goto(l, "check", "exited") ELSE Goto(l, "check", "wait")
  /\ UNCHANGED <<ctl, i, quit_, wakeup_fd_, woken, waking, queueVars>>

EpollWait(l) ==
  /\ Goto(l, "wait", "events")
  /\ woken' = [woken EXCEPT ![l] = wakeup_fd_[l]]
  /\ UNCHANGED <<ctl, i, quit_, wakeup_fd_, waking, queueVars>>

\* Mutant: the eventfd is never read.
HandleReadForWakeupSkipped(l) ==
  /\ Goto(l, "events", "swap")
  /\ UNCHANGED <<ctl, i, quit_, wakeup_fd_, woken, waking, queueVars>>

\* The end of ProcessEvents: an eventfd that was reported is read, which
\* resets its counter.
HandleReadForWakeup(l) ==
  /\ Goto(l, "events", "swap")
  /\ wakeup_fd_' = [wakeup_fd_ EXCEPT ![l] = @ /\ ~woken[l]]
  /\ UNCHANGED <<ctl, i, quit_, woken, waking, queueVars>>

\* Mutant: the queue is copied and not swapped.
SwapFunctorsCopied(l) ==
  /\ Goto(l, "swap", "run")
  /\ calling_pending_functors_' = [calling_pending_functors_ EXCEPT ![l] = TRUE]
  /\ functors' = [functors EXCEPT ![l] = pending_functors_[l]]
  /\ UNCHANGED <<ctl, i, quit_, wakeup_fd_, woken, waking, pending_functors_,
                 queued, executed>>

\* Mutant: functors are taken only when the eventfd was reported.
SwapFunctorsIfWoken(l) ==
  /\ Goto(l, "swap", "run")
  /\ calling_pending_functors_' = [calling_pending_functors_ EXCEPT ![l] = TRUE]
  /\ functors' = [functors EXCEPT ![l] = IF woken[l] THEN pending_functors_[l] ELSE @]
  /\ pending_functors_' = [pending_functors_ EXCEPT ![l] = IF woken[l] THEN <<>> ELSE @]
  /\ UNCHANGED <<ctl, i, quit_, wakeup_fd_, woken, waking, queued, executed>>

\* DoPendingFunctors takes the whole queue under the lock.
SwapFunctors(l) ==
  /\ Goto(l, "swap", "run")
  /\ calling_pending_functors_' = [calling_pending_functors_ EXCEPT ![l] = TRUE]
  /\ functors' = [functors EXCEPT ![l] = pending_functors_[l]]
  /\ pending_functors_' = [pending_functors_ EXCEPT ![l] = <<>>]
  /\ UNCHANGED <<ctl, i, quit_, wakeup_fd_, woken, waking, queued, executed>>

Unqueued == Functors \ UNION {{queued[l][n] : n \in 1 .. Len(queued[l])} : l \in Loops}

\* Under the lock, QueueInLoop appends to the queue.
Push(l, g) ==
  /\ g \in Unqueued
  /\ pending_functors_' = [pending_functors_ EXCEPT ![l] = Append(@, g)]
  /\ queued' = [queued EXCEPT ![l] = Append(@, g)]

\* Mutant: the loop's own thread never wakes itself.
QueueInOwnLoopSilent(l, g) ==
  /\ Push(l, g)
  /\ UNCHANGED wakeup_fd_

\* QueueInLoop called by the loop's own thread: it wakes itself only while it
\* is running functors, for the batch being run no longer holds this one.
QueueInOwnLoop(l, g) ==
  /\ Push(l, g)
  /\ wakeup_fd_' = [wakeup_fd_ EXCEPT ![l] = @ \/ calling_pending_functors_[l]]

\* An I/O callback of ProcessEvents, run before the eventfd is read, queues.
HandlerQueues(l, g) ==
  /\ pc[l] = "events"
  /\ QueueInOwnLoop(l, g)
  /\ UNCHANGED <<ctl, i, pc, quit_, woken, waking, functors,
                 calling_pending_functors_, executed>>

\* The next functor of the batch runs, and may queue another.
RunFunctor(l) ==
  /\ pc[l] = "run"
  /\ functors[l] # <<>>
  /\ executed' = [executed EXCEPT ![l] = Append(@, Head(functors[l]))]
  /\ functors' = [functors EXCEPT ![l] = Tail(@)]
  /\ \/ UNCHANGED <<pending_functors_, queued, wakeup_fd_>>
     \/ \E g \in Functors : QueueInOwnLoop(l, g)
  /\ UNCHANGED <<ctl, i, pc, quit_, woken, waking, calling_pending_functors_>>

FunctorsDone(l) ==
  /\ functors[l] = <<>>
  /\ Goto(l, "run", "check")
  /\ calling_pending_functors_' = [calling_pending_functors_ EXCEPT ![l] = FALSE]
  /\ UNCHANGED <<ctl, i, quit_, wakeup_fd_, woken, waking, pending_functors_,
                 functors, queued, executed>>

LoopThread(l) ==
  \/ Publish(l)
  \/ EnterLoop(l)
  \/ CheckQuit(l)
  \/ EpollWait(l)
  \/ HandleReadForWakeup(l)
  \/ SwapFunctors(l)
  \/ RunFunctor(l)
  \/ FunctorsDone(l)
-------------------------------------------------------------------------------
(* Other threads that hand functors to a loop. *)

\* QueueInLoop from another thread, up to the unlock.
QueueInLoop(p, l, g) ==
  /\ ctl = "running"
  /\ waking[p] = None
  /\ Push(l, g)
  /\ waking' = [waking EXCEPT ![p] = l]
  /\ UNCHANGED <<ctl, i, pc, quit_, wakeup_fd_, woken, functors,
                 calling_pending_functors_, executed>>

\* The rest of it: Wakeup.
Wakeup(p) ==
  /\ waking[p] # None
  /\ wakeup_fd_' = [wakeup_fd_ EXCEPT ![waking[p]] = TRUE]
  /\ waking' = [waking EXCEPT ![p] = None]
  /\ UNCHANGED <<ctl, i, pc, quit_, woken, queueVars>>
-------------------------------------------------------------------------------
(* EventLoopThreadPool: Start and Stop. *)

\* Start: spawn the next thread.
SpawnThread ==
  /\ ctl = "start"
  /\ Goto(i, "absent", "ctor")
  /\ ctl' = "starting"
  /\ UNCHANGED <<i, quit_, wakeup_fd_, woken, waking, queueVars>>

\* StartLoop returns once loop_ is published; Start goes on with the next
\* thread or returns.
StartLoopReturns ==
  /\ ctl = "starting"
  /\ pc[i] \notin {"absent", "ctor"}
  /\ IF i < NumLoops THEN ctl' = "start" /\ i' = i + 1
                     ELSE ctl' = "running" /\ i' = 1
  /\ UNCHANGED <<pc, quit_, wakeup_fd_, woken, waking, queueVars>>

StopBegin ==
  /\ ctl = "running"
  /\ \A p \in Producers : waking[p] = None
  /\ ctl' = "quit"
  /\ UNCHANGED <<i, pc, quit_, wakeup_fd_, woken, waking, queueVars>>

\* Mutant: every Quit goes to the first loop.
QuitSetFirst ==
  /\ ctl = "quit"
  /\ quit_' = [quit_ EXCEPT ![1] = TRUE]
  /\ ctl' = "wake"
  /\ UNCHANGED <<i, pc, wakeup_fd_, woken, waking, queueVars>>

\* Quit, first half.
QuitSet ==
  /\ ctl = "quit"
  /\ quit_' = [quit_ EXCEPT ![i] = TRUE]
  /\ ctl' = "wake"
  /\ UNCHANGED <<i, pc, wakeup_fd_, woken, waking, queueVars>>

\* Quit, second half: Wakeup, by the controller.
QuitWakeup ==
  /\ ctl = "wake"
  /\ wakeup_fd_' = [wakeup_fd_ EXCEPT ![i] = TRUE]
  /\ IF i < NumLoops THEN ctl' = "quit" /\ i' = i + 1
                     ELSE ctl' = "join" /\ i' = 1
  /\ UNCHANGED <<pc, quit_, woken, waking, queueVars>>

\* Mutant: Stop walks past the last thread.
JoinPastEnd ==
  /\ ctl = "join"
  /\ pc[i] = "exited"
  /\ i' = i + 1
  /\ ctl' = IF i < NumLoops THEN ctl ELSE "stopped"
  /\ UNCHANGED <<pc, quit_, wakeup_fd_, woken, waking, queueVars>>

Join ==
  /\ ctl = "join"
  /\ pc[i] = "exited"
  /\ IF i < NumLoops THEN i' = i + 1 /\ UNCHANGED ctl
                     ELSE ctl' = "stopped" /\ i' = 1
  /\ UNCHANGED <<pc, quit_, wakeup_fd_, woken, waking, queueVars>>

Stop == QuitSet \/ QuitWakeup \/ Join

\* The pool has stopped for good.
Stopped == ctl = "stopped" /\ UNCHANGED vars

Next == \/ SpawnThread
        \/ StartLoopReturns
        \/ StopBegin
        \/ Stop
        \/ Stopped
        \/ \E l \in Loops : LoopThread(l)
        \/ \E l \in Loops, g \in Functors : HandlerQueues(l, g)
        \/ \E p \in Producers, l \in Loops, g \in Functors : QueueInLoop(p, l, g)
        \/ \E p \in Producers : Wakeup(p)

Spec == Init /\ [][Next]_vars

\* Every thread that can take a step of its own eventually does: the loop's
\* epoll_wait has a timeout, and a call once begun is completed.  Nobody has
\* to queue functors or to stop the pool.
Fairness == /\ \A l \in Loops : WF_vars(LoopThread(l))
            /\ \A p \in Producers : WF_vars(Wakeup(p))
            /\ WF_vars(SpawnThread \/ StartLoopReturns)
            /\ WF_vars(Stop)

FairSpec == Spec /\ Fairness
-------------------------------------------------------------------------------
\* No functor is lost, run twice or run out of order: what was queued in a
\* loop is what it ran, what is left of the batch and what is still pending
\* (QueueInLoop against the swap of DoPendingFunctors).
FunctorsInOrder ==
  \A l \in Loops :
    queued[l] = executed[l] \o functors[l] \o pending_functors_[l]

\* A loop never sleeps on pending work: when it goes to epoll_wait with a
\* functor in its queue, the eventfd is readable or the thread that queued
\* the functor has still to write to it (QueueInLoop, HandleReadForWakeup).
WakeupPending ==
  \A l \in Loops :
    pc[l] \in {"check", "wait"} /\ pending_functors_[l] # <<>>
      => wakeup_fd_[l] \/ \E p \in Producers : waking[p] = l

\* A wakeup does not make the loop spin: its eventfd is drained again and
\* again until the loop ends (HandleReadForWakeup).
WakeupDrained ==
  \A l \in Loops : []<>(~wakeup_fd_[l] \/ pc[l] = "exited")

\* Whatever is queued in a loop is run, unless the loop is told to quit.
FunctorsRun ==
  \A l \in Loops :
    pending_functors_[l] # <<>> ~> Len(executed[l]) = Len(queued[l]) \/ quit_[l]

\* Stop returns provided every loop had been entered when it was called.
StopReturnsOnceEntered ==
  (ctl = "quit" /\ i = 1 /\ \A l \in Loops : pc[l] # "ready") ~> ctl = "stopped"

\* event_loop_thread_pool.cpp:34-41, "stop all EventLoops", "wait for all
\* threads to end": Stop returns.  It does not when it overtakes Loop(), which
\* resets quit_ on entry.
StopReturns == ctl = "quit" ~> ctl = "stopped"

\* event_loop_thread.cpp:37, the EventLoop lives on its thread's stack "to
\* keep its lifetime in step with the thread": nobody touches a loop that is
\* gone.  Quit does, when the loop sees quit_ before Quit writes to wakeup_fd_.
NoWakeupAfterDestruction == ctl = "wake" => pc[i] # "exited"
===============================================================================
