------------------------------- MODULE MCPools -------------------------------
(***************************************************************************)
(* ThreadPool, TimerManager and MemoryPool know nothing of each other: a   *)
(* behaviour is one of ThreadPool, of TimerManager or of MemoryPool, with  *)
(* the other two at rest.                                                  *)
(*                                                                         *)
(* TimerManager says what the loops of its sifts come to, which can be     *)
(* proved about; here a loop goes round as in the code.                    *)
(***************************************************************************)
EXTENDS ThreadPool, TimerManager, MemoryPool

VARIABLE subject  \* the component this behaviour is about

vars == <<subject, poolVars, timerVars, memoryVars>>

MCLimit == [SMALL |-> 1, MEDIUM |-> 2, LARGE |-> 3]
MCBlockCount == [SMALL |-> 2, MEDIUM |-> 1, LARGE |-> 1]

Init == /\ subject \in {"threads", "timers", "memory"}
        /\ ThreadPoolInit
        /\ TimerManagerInit
        /\ MemoryPoolInit

ThreadPoolPart(A) == subject = "threads" /\ A /\ UNCHANGED <<subject, timerVars, memoryVars>>

Next == \/ ThreadPoolPart(ThreadPoolNext)
        \/ subject = "timers" /\ TimerManagerNext /\ UNCHANGED <<subject, poolVars, memoryVars>>
        \/ subject = "memory" /\ MemoryPoolNext /\ UNCHANGED <<subject, poolVars, timerVars>>

\* A thread that holds no lock and waits for nothing eventually goes on, and
\* the mutex is taken in turn.  Nobody has to add tasks or to end the pool,
\* and no wakeup is spurious by obligation.
Fairness == /\ \A w \in Workers : WF_vars(ThreadPoolPart(WorkerStep(w)))
            /\ \A p \in Threads : WF_vars(ThreadPoolPart(NotifyOne(p)))
            /\ WF_vars(ThreadPoolPart(DtorNotifyAll \/ DtorJoin))

Spec == Init /\ [][Next]_vars /\ Fairness

\* Every accepted task is run, and a destructor once begun returns, with
\* tasks that add tasks and workers that sleep (Worker against AddTask and
\* ~ThreadPool).
PoolFinishes == /\ \A t \in Tasks : t \in accepted ~> t \in done
                /\ dtor = "notify" ~> dtor = "gone"
-------------------------------------------------------------------------------
RECURSIVE siftup_Loop(_, _), siftdown_Loop(_, _, _)

siftup_Loop(hr, i) ==
  LET j == i \div 2
  IN  IF i > 1 /\ hr.heap[j].expire > hr.heap[i].expire
      THEN siftup_Loop(swap_node_(hr, i, j), j)
      ELSE hr

siftdown_Loop(hr, i, n) ==
  LET left == 2 * i
      j == IF left + 1 <= n /\ hr.heap[left + 1].expire < hr.heap[left].expire
           THEN left + 1 ELSE left
  IN  IF left <= n /\ hr.heap[j].expire < hr.heap[i].expire
      THEN siftdown_Loop(swap_node_(hr, i, j), j, n)
      ELSE hr

\* Any nodes with times below 3, ordered or not, and their map.
Heaps(k) == {[heap |-> [x \in 1 .. k |-> [fd |-> x, expire |-> time[x]]],
              ref  |-> [fd \in 1 .. k |-> fd]] : time \in [1 .. k -> 0 .. 2]}

\* What the loops of siftup_ and siftdown_ do to the heap and its map, swap by
\* swap, is what the path of the node says (timer_manager.cpp siftup_,
\* siftdown_).
ASSUME SiftsAreLoops ==
  \A k \in 1 .. 7 : \A hr \in Heaps(k), i \in 1 .. k :
    /\ siftup_(hr, i) = siftup_Loop(hr, i)
    /\ \A n \in {k - 1, k} : i <= n => siftdown_(hr, i, n) = siftdown_Loop(hr, i, n)
===============================================================================
