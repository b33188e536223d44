---------------------------- MODULE EventLoopProofs ----------------------------
(***************************************************************************)
(* Proofs about EventLoop, for any number of loops, producers and functors.*)
(***************************************************************************)
EXTENDS EventLoop, SequenceTheorems, TLAPS

-------------------------------------------------------------------------------
(* Type correctness. *)

\* Going through the loops one by one stays inside them.
LEMMA LoopIndex ==
  /\ 1 \in Loops
  /\ \A n \in Loops : n < NumLoops => n + 1 \in Loops
  /\ None \notin Loops
  BY PoolAssumption DEF Loops

\* An action of the loop's thread keeps the state well formed.
LEMMA LoopThreadType ==
  ASSUME TypeOK, NEW l \in Loops, LoopThread(l)
  PROVE  TypeOK'
<1>1. ASSUME Publish(l)
      PROVE  TypeOK'
  BY <1>1 DEF Publish, Goto, TypeOK, queueVars, PCs
<1>2. ASSUME EnterLoop(l)
      PROVE  TypeOK'
  BY <1>2 DEF EnterLoop, Goto, TypeOK, queueVars, PCs
<1>3. ASSUME CheckQuit(l)
      PROVE  TypeOK'
  BY <1>3 DEF CheckQuit, Goto, TypeOK, queueVars, PCs
<1>4. ASSUME EpollWait(l)
      PROVE  TypeOK'
  BY <1>4 DEF EpollWait, Goto, TypeOK, queueVars, PCs
<1>5. ASSUME HandleReadForWakeup(l)
      PROVE  TypeOK'
  BY <1>5 DEF HandleReadForWakeup, Goto, TypeOK, queueVars, PCs
<1>6. ASSUME SwapFunctors(l)
      PROVE  TypeOK'
  BY <1>6 DEF SwapFunctors, Goto, TypeOK, PCs
<1>7. ASSUME RunFunctor(l)
      PROVE  TypeOK'
  <2>1. /\ Head(functors[l]) \in Functors
        /\ Tail(functors[l]) \in Seq(Functors)
    BY <1>7, HeadTailProperties DEF RunFunctor, TypeOK
  <2>2. CASE UNCHANGED <<pending_functors_, queued, wakeup_fd_>>
    BY <1>7, <2>1, <2>2 DEF RunFunctor, TypeOK
  <2>3. ASSUME NEW g \in Functors, QueueInOwnLoop(l, g)
        PROVE  TypeOK'
    BY <1>7, <2>1, <2>3 DEF RunFunctor, QueueInOwnLoop, Push, TypeOK
  <2> QED
    BY <1>7, <2>2, <2>3 DEF RunFunctor
<1>8. ASSUME FunctorsDone(l)
      PROVE  TypeOK'
  BY <1>8 DEF FunctorsDone, Goto, TypeOK, PCs
<1> QED
  BY <1>1, <1>2, <1>3, <1>4, <1>5, <1>6, <1>7, <1>8 DEF LoopThread

\* Starting and stopping the pool keeps the state well formed.
LEMMA ControllerType ==
  ASSUME TypeOK, SpawnThread \/ StartLoopReturns \/ StopBegin \/ Stop \/ Stopped
  PROVE  TypeOK'
<1> USE LoopIndex
<1>1. ASSUME SpawnThread
      PROVE  TypeOK'
  BY <1>1 DEF SpawnThread, Goto, TypeOK, queueVars, PCs, Ctls
<1>2. ASSUME StartLoopReturns
      PROVE  TypeOK'
  BY <1>2 DEF StartLoopReturns, TypeOK, queueVars, Ctls
<1>3. ASSUME StopBegin
      PROVE  TypeOK'
  BY <1>3 DEF StopBegin, TypeOK, queueVars, Ctls
<1>4. ASSUME QuitSet
      PROVE  TypeOK'
  BY <1>4 DEF QuitSet, TypeOK, queueVars, Ctls
<1>5. ASSUME QuitWakeup
      PROVE  TypeOK'
  BY <1>5 DEF QuitWakeup, TypeOK, queueVars, Ctls
<1>6. ASSUME Join
      PROVE  TypeOK'
  BY <1>6 DEF Join, TypeOK, queueVars, Ctls
<1>7. ASSUME Stopped
      PROVE  TypeOK'
  BY <1>7 DEF Stopped, vars, queueVars, TypeOK
<1> QED
  BY <1>1, <1>2, <1>3, <1>4, <1>5, <1>6, <1>7 DEF Stop

\* The state of the loops, their queues and the controller is always well
\* formed, in particular the index of Start and Stop never leaves the vector
\* of loops (event_loop_thread_pool.cpp Start, Stop).
THEOREM LoopTypeOK == Spec => []TypeOK
<1>1. Init => TypeOK
  BY PoolAssumption DEF Init, TypeOK, PCs, Ctls, Loops
<1>2. TypeOK /\ [Next]_vars => TypeOK'
  <2> SUFFICES ASSUME TypeOK, [Next]_vars
               PROVE  TypeOK'
    OBVIOUS
  <2>1. CASE SpawnThread \/ StartLoopReturns \/ StopBegin \/ Stop \/ Stopped
    BY <2>1, ControllerType
  <2>2. ASSUME NEW l \in Loops, LoopThread(l)
        PROVE  TypeOK'
    BY <2>2, LoopThreadType
  <2>3. ASSUME NEW l \in Loops, NEW g \in Functors, HandlerQueues(l, g)
        PROVE  TypeOK'
    BY <2>3 DEF HandlerQueues, QueueInOwnLoop, Push, TypeOK
  <2>4. ASSUME NEW p \in Producers, NEW l \in Loops, NEW g \in Functors,
               QueueInLoop(p, l, g)
        PROVE  TypeOK'
    BY <2>4 DEF QueueInLoop, Push, TypeOK
  <2>5. ASSUME NEW p \in Producers, Wakeup(p)
        PROVE  TypeOK'
    BY <2>5 DEF Wakeup, TypeOK, queueVars
  <2>6. CASE UNCHANGED vars
    BY <2>6 DEF vars, queueVars, TypeOK
  <2> QED
    BY <2>1, <2>2, <2>3, <2>4, <2>5, <2>6 DEF Next
<1> QED
  BY <1>1, <1>2, PTL DEF Spec

-------------------------------------------------------------------------------
(* The queue. *)

\* Only a thread that is inside DoPendingFunctors has a batch in its hands.
BatchOnlyInRun == \A l \in Loops : functors[l] # <<>> => pc[l] = "run"

\* calling_pending_functors_ tells whether the thread is running functors.
CallingInRun == \A l \in Loops : calling_pending_functors_[l] <=> pc[l] = "run"

\* WakeupPending, extended to all places but those from where the queue is
\* sure to be emptied before the next epoll_wait.
WakeupOutsideEvents ==
  \A l \in Loops :
    pc[l] \notin {"events", "swap"} /\ pending_functors_[l] # <<>>
      => wakeup_fd_[l] \/ \E p \in Producers : waking[p] = l

\* The inductive invariant behind FunctorsInOrder and WakeupPending.
QueueInv == /\ BatchOnlyInRun
            /\ CallingInRun
            /\ FunctorsInOrder
            /\ WakeupOutsideEvents

\* Appending to a history and to the last of the three parts it consists of
\* keeps the parts in step.
LEMMA AppendConcat ==
  ASSUME NEW e \in Seq(Functors), NEW f \in Seq(Functors), NEW p \in Seq(Functors),
         NEW g \in Functors
  PROVE  Append(e \o f \o p, g) = e \o f \o Append(p, g)
<1>1. e \o f \in Seq(Functors)
  BY ConcatProperties
<1>2. /\ Append(e \o f \o p, g) = (e \o f \o p) \o <<g>>
      /\ Append(p, g) = p \o <<g>>
      /\ <<g>> \in Seq(Functors)
      /\ e \o f \o p \in Seq(Functors)
  BY <1>1, ConcatProperties, AppendIsConcat
<1> QED
  BY <1>1, <1>2, ConcatAssociative

\* Moving the head of the batch to the end of the history of executed
\* functors does not change their concatenation.
LEMMA MoveHead ==
  ASSUME NEW e \in Seq(Functors), NEW f \in Seq(Functors), f # <<>>
  PROVE  Append(e, Head(f)) \o Tail(f) = e \o f
<1>1. Head(f) \in Functors /\ Tail(f) \in Seq(Functors)
  BY HeadTailProperties
<1>2. f = <<Head(f)>> \o Tail(f)
  <2>1. Len(f) \in Nat \ {0} /\ Head(f) = f[1]
    BY EmptySeq
  <2>2. SubSeq(f, 1, Len(f)) = <<f[1]>> \o SubSeq(f, 1 + 1, Len(f))
    BY <2>1, SubSeqRecursiveFirst
  <2>3. SubSeq(f, 1, Len(f)) = f /\ Tail(f) = SubSeq(f, 1 + 1, Len(f))
    BY SubSeqFull, TailIsSubSeq
  <2> QED
    BY <2>1, <2>2, <2>3
<1>3. Append(e, Head(f)) = e \o <<Head(f)>> /\ <<Head(f)>> \in Seq(Functors)
  BY <1>1, AppendIsConcat
<1> QED
  BY <1>1, <1>2, <1>3, ConcatAssociative

\* The places of the loop's thread where the queue invariant asks nothing of
\* the batch and all of the wakeup.
Outside == {"ctor", "ready", "check", "wait", "exited"}

\* The steps of the loop's thread that do not touch the queue keep its
\* invariant.
LEMMA QuietThreadQueue ==
  ASSUME TypeOK, QueueInv, NEW k \in Loops,
         Publish(k) \/ EnterLoop(k) \/ CheckQuit(k) \/ EpollWait(k)
  PROVE  QueueInv'
<1>1. UNCHANGED <<wakeup_fd_, waking, pending_functors_, functors,
                  executed, queued, calling_pending_functors_>>
  <2>1. CASE Publish(k)
    BY <2>1 DEF Publish, queueVars
  <2>2. CASE EnterLoop(k)
    BY <2>2 DEF EnterLoop, queueVars
  <2>3. CASE CheckQuit(k)
    BY <2>3 DEF CheckQuit, queueVars
  <2>4. CASE EpollWait(k)
    BY <2>4 DEF EpollWait, queueVars
  <2> QED
    BY <2>1, <2>2, <2>3, <2>4
<1>2. pc[k] \in Outside
  <2>1. CASE Publish(k)
    BY <2>1 DEF Publish, Goto, Outside
  <2>2. CASE EnterLoop(k)
    BY <2>2 DEF EnterLoop, Goto, Outside
  <2>3. CASE CheckQuit(k)
    BY <2>3 DEF CheckQuit, Goto, Outside
  <2>4. CASE EpollWait(k)
    BY <2>4 DEF EpollWait, Goto, Outside
  <2> QED
    BY <2>1, <2>2, <2>3, <2>4
<1>3. \E to \in Outside \cup {"events"} : pc' = [pc EXCEPT ![k] = to]
  <2>1. CASE Publish(k)
    BY <2>1 DEF Publish, Goto, Outside
  <2>2. CASE EnterLoop(k)
    BY <2>2 DEF EnterLoop, Goto, Outside
  <2>3. CASE CheckQuit(k)
    BY <2>3 DEF CheckQuit, Goto, Outside
  <2>4. CASE EpollWait(k)
    BY <2>4 DEF EpollWait, Goto, Outside
  <2> QED
    BY <2>1, <2>2, <2>3, <2>4
<1>4. \A l \in Loops : \/ pc'[l] = pc[l]
                       \/ pc[l] \in Outside /\ pc'[l] \in Outside \cup {"events"}
  BY <1>2, <1>3 DEF TypeOK
<1>5. BatchOnlyInRun'
  BY <1>1, <1>4 DEF QueueInv, BatchOnlyInRun, Outside
<1>6. CallingInRun'
  BY <1>1, <1>4 DEF QueueInv, CallingInRun, Outside
<1>7. FunctorsInOrder'
  BY <1>1 DEF QueueInv, FunctorsInOrder
<1>8. WakeupOutsideEvents'
  BY <1>1, <1>4 DEF QueueInv, WakeupOutsideEvents, Outside
<1> QED
  BY <1>5, <1>6, <1>7, <1>8 DEF QueueInv

\* The loop's thread keeps the queue invariant.
LEMMA LoopThreadQueue ==
  ASSUME TypeOK, QueueInv, NEW k \in Loops, LoopThread(k)
  PROVE  QueueInv'
<1> USE DEF BatchOnlyInRun, CallingInRun, FunctorsInOrder, WakeupOutsideEvents
<1>1. ASSUME Publish(k) \/ EnterLoop(k) \/ CheckQuit(k) \/ EpollWait(k)
      PROVE  QueueInv'
  BY <1>1, QuietThreadQueue
<1>2. ASSUME HandleReadForWakeup(k)
      PROVE  QueueInv'
  BY <1>2 DEF QueueInv, HandleReadForWakeup, Goto, TypeOK, queueVars
<1>3. ASSUME SwapFunctors(k)
      PROVE  QueueInv'
  <2>1. functors[k] = <<>>
    BY <1>3 DEF QueueInv, SwapFunctors, Goto
  <2>2. queued[k] = executed[k] \o pending_functors_[k] \o <<>>
    <3>1. executed[k] \in Seq(Functors) /\ pending_functors_[k] \in Seq(Functors)
      BY DEF TypeOK
    <3>2. executed[k] \o pending_functors_[k] \in Seq(Functors)
      BY <3>1, ConcatProperties
    <3>3. /\ executed[k] \o <<>> = executed[k]
          /\ executed[k] \o pending_functors_[k] \o <<>>
               = executed[k] \o pending_functors_[k]
      BY <3>1, <3>2, ConcatEmptySeq
    <3>4. queued[k] = executed[k] \o <<>> \o pending_functors_[k]
      BY <2>1 DEF QueueInv
    <3> QED
      BY <3>3, <3>4
  <2>3. FunctorsInOrder'
    BY <1>3, <2>2 DEF QueueInv, SwapFunctors, TypeOK
  <2>4. BatchOnlyInRun' /\ CallingInRun'
    BY <1>3 DEF QueueInv, SwapFunctors, Goto, TypeOK
  <2>5. WakeupOutsideEvents'
    BY <1>3 DEF QueueInv, SwapFunctors, Goto, TypeOK
  <2> QED
    BY <2>3, <2>4, <2>5 DEF QueueInv
<1>4. ASSUME RunFunctor(k)
      PROVE  QueueInv'
  <2>1. /\ pc[k] = "run" /\ pc' = pc /\ waking' = waking
        /\ functors[k] # <<>> /\ functors[k] \in Seq(Functors)
        /\ executed[k] \in Seq(Functors) /\ pending_functors_[k] \in Seq(Functors)
        /\ Tail(functors[k]) \in Seq(Functors)
        /\ Append(executed[k], Head(functors[k])) \in Seq(Functors)
        /\ executed' = [executed EXCEPT ![k] = Append(@, Head(functors[k]))]
        /\ functors' = [functors EXCEPT ![k] = Tail(@)]
        /\ calling_pending_functors_' = calling_pending_functors_
    BY <1>4, HeadTailProperties, AppendProperties DEF RunFunctor, TypeOK
  <2>2. executed'[k] \o functors'[k] = executed[k] \o functors[k]
    BY <2>1, MoveHead DEF TypeOK
  <2>3. BatchOnlyInRun' /\ CallingInRun'
    BY <2>1 DEF QueueInv, TypeOK
  <2>4. CASE UNCHANGED <<pending_functors_, queued, wakeup_fd_>>
    <3>1. FunctorsInOrder'
      <4>1. \A l \in Loops \ {k} : /\ executed'[l] = executed[l]
                                  /\ functors'[l] = functors[l]
        BY <2>1 DEF TypeOK
      <4>2. \A l \in Loops :
              executed'[l] \o functors'[l] = executed[l] \o functors[l]
        BY <2>2, <4>1
      <4> QED
        BY <2>4, <4>2 DEF QueueInv
    <3>2. WakeupOutsideEvents'
      <4>1. WakeupOutsideEvents
        BY DEF QueueInv
      <4> QED
        BY <2>1, <2>4, <4>1
    <3> QED
      BY <2>3, <3>1, <3>2 DEF QueueInv
  <2>5. ASSUME NEW g \in Functors, QueueInOwnLoop(k, g)
        PROVE  QueueInv'
    <3>1. queued'[k] = executed'[k] \o functors'[k] \o pending_functors_'[k]
      <4>1. /\ queued'[k] = Append(queued[k], g)
            /\ pending_functors_'[k] = Append(pending_functors_[k], g)
        BY <2>5 DEF QueueInOwnLoop, Push, TypeOK
      <4>2. queued[k] = executed[k] \o functors[k] \o pending_functors_[k]
        BY DEF QueueInv
      <4>3. Append(executed[k] \o functors[k] \o pending_functors_[k], g)
              = executed[k] \o functors[k] \o Append(pending_functors_[k], g)
        <5> HIDE DEF BatchOnlyInRun, CallingInRun, FunctorsInOrder, WakeupOutsideEvents
        <5>1. /\ executed[k] \in Seq(Functors)
              /\ functors[k] \in Seq(Functors)
              /\ pending_functors_[k] \in Seq(Functors)
              /\ g \in Functors
          BY <2>1, <2>5
        <5>2. \A e, f, p \in Seq(Functors) : \A h \in Functors :
                Append(e \o f \o p, h) = e \o f \o Append(p, h)
          BY AppendConcat
        <5> QED
          BY <5>1, <5>2, ZenonT(60)
      <4> QED
        BY <2>2, <4>1, <4>2, <4>3
    <3>2. FunctorsInOrder'
      BY <2>1, <2>5, <3>1 DEF QueueInv, QueueInOwnLoop, Push, TypeOK
    <3>3. WakeupOutsideEvents'
      BY <2>1, <2>5 DEF QueueInv, QueueInOwnLoop, Push, TypeOK
    <3> QED
      BY <2>3, <3>2, <3>3 DEF QueueInv
  <2> QED
    BY <1>4, <2>4, <2>5 DEF RunFunctor
<1>5. ASSUME FunctorsDone(k)
      PROVE  QueueInv'
  BY <1>5 DEF QueueInv, FunctorsDone, Goto, TypeOK
<1> QED
  BY <1>1, <1>2, <1>3, <1>4, <1>5 DEF LoopThread

\* A step that leaves the queues, the program counters and the wakeups alone
\* keeps the queue invariant.
LEMMA QueueFrame ==
  ASSUME QueueInv,
         UNCHANGED <<pc, wakeup_fd_, waking, pending_functors_, functors,
                     executed, queued, calling_pending_functors_>>
  PROVE  QueueInv'
<1>1. BatchOnlyInRun' /\ CallingInRun'
  BY DEF QueueInv, BatchOnlyInRun, CallingInRun
<1>2. FunctorsInOrder'
  BY DEF QueueInv, FunctorsInOrder
<1>3. WakeupOutsideEvents'
  BY DEF QueueInv, WakeupOutsideEvents
<1> QED
  BY <1>1, <1>2, <1>3 DEF QueueInv

\* Starting and stopping the pool does not touch the queues.
LEMMA ControllerQueue ==
  ASSUME TypeOK, QueueInv,
         SpawnThread \/ StartLoopReturns \/ StopBegin \/ Stop \/ Stopped
  PROVE  QueueInv'
<1>1. ASSUME SpawnThread
      PROVE  QueueInv'
  <2>1. /\ pc[i] = "absent" /\ pc' = [pc EXCEPT ![i] = "ctor"]
        /\ UNCHANGED <<wakeup_fd_, waking, pending_functors_, functors,
                       executed, queued, calling_pending_functors_>>
    BY <1>1 DEF SpawnThread, Goto, queueVars
  <2>2. \A l \in Loops : \/ pc'[l] = pc[l]
                         \/ pc[l] = "absent" /\ pc'[l] = "ctor"
    BY <2>1 DEF TypeOK
  <2>3. BatchOnlyInRun'
    BY <2>1, <2>2 DEF QueueInv, BatchOnlyInRun
  <2>4. CallingInRun'
    BY <2>1, <2>2 DEF QueueInv, CallingInRun
  <2>5. FunctorsInOrder'
    BY <2>1 DEF QueueInv, FunctorsInOrder
  <2>6. WakeupOutsideEvents'
    BY <2>1, <2>2 DEF QueueInv, WakeupOutsideEvents
  <2> QED
    BY <2>3, <2>4, <2>5, <2>6 DEF QueueInv
<1>2. ASSUME StartLoopReturns
      PROVE  QueueInv'
  BY <1>2, QueueFrame DEF StartLoopReturns, queueVars
<1>3. ASSUME StopBegin
      PROVE  QueueInv'
  BY <1>3, QueueFrame DEF StopBegin, queueVars
<1>4. ASSUME QuitSet
      PROVE  QueueInv'
  BY <1>4, QueueFrame DEF QuitSet, queueVars
<1>5. ASSUME Join
      PROVE  QueueInv'
  BY <1>5, QueueFrame DEF Join, queueVars
<1>6. ASSUME QuitWakeup
      PROVE  QueueInv'
  <2>1. /\ wakeup_fd_' = [wakeup_fd_ EXCEPT ![i] = TRUE]
        /\ UNCHANGED <<pc, waking, pending_functors_, functors,
                       executed, queued, calling_pending_functors_>>
    BY <1>6 DEF QuitWakeup, queueVars
  <2>2. \A l \in Loops : wakeup_fd_[l] => wakeup_fd_'[l]
    BY <2>1 DEF TypeOK
  <2>3. BatchOnlyInRun' /\ CallingInRun'
    BY <2>1 DEF QueueInv, BatchOnlyInRun, CallingInRun
  <2>4. FunctorsInOrder'
    BY <2>1 DEF QueueInv, FunctorsInOrder
  <2>5. WakeupOutsideEvents'
    BY <2>1, <2>2 DEF QueueInv, WakeupOutsideEvents
  <2> QED
    BY <2>3, <2>4, <2>5 DEF QueueInv
<1>7. ASSUME Stopped
      PROVE  QueueInv'
  BY <1>7, QueueFrame DEF Stopped, vars, queueVars
<1> QED
  BY <1>1, <1>2, <1>3, <1>4, <1>5, <1>6, <1>7 DEF Stop

\* Functors queued from outside DoPendingFunctors, by an I/O callback or by
\* another thread, keep the queue invariant.
LEMMA QueueFromElsewhere ==
  ASSUME TypeOK, QueueInv, NEW k \in Loops, NEW g \in Functors,
         \/ HandlerQueues(k, g)
         \/ \E p \in Producers : QueueInLoop(p, k, g)
  PROVE  QueueInv'
<1>1. /\ Push(k, g) /\ pc' = pc /\ functors' = functors /\ executed' = executed
      /\ calling_pending_functors_' = calling_pending_functors_
  BY DEF HandlerQueues, QueueInLoop, QueueInOwnLoop
<1>2. queued'[k] = executed[k] \o functors[k] \o pending_functors_'[k]
  <2>1. /\ queued'[k] = Append(queued[k], g)
        /\ pending_functors_'[k] = Append(pending_functors_[k], g)
    BY <1>1 DEF Push, TypeOK
  <2>2. /\ executed[k] \in Seq(Functors) /\ functors[k] \in Seq(Functors)
        /\ pending_functors_[k] \in Seq(Functors)
        /\ queued[k] = executed[k] \o functors[k] \o pending_functors_[k]
    BY DEF QueueInv, FunctorsInOrder, TypeOK
  <2>3. Append(executed[k] \o functors[k] \o pending_functors_[k], g)
          = executed[k] \o functors[k] \o Append(pending_functors_[k], g)
    BY <2>2, AppendConcat, ZenonT(60)
  <2> QED
    BY <2>1, <2>2, <2>3
<1>3. FunctorsInOrder'
  BY <1>1, <1>2 DEF QueueInv, FunctorsInOrder, Push, TypeOK
<1>4. BatchOnlyInRun' /\ CallingInRun'
  BY <1>1 DEF QueueInv, BatchOnlyInRun, CallingInRun
<1>5. CASE HandlerQueues(k, g)
  <2>1. WakeupOutsideEvents'
    BY <1>5 DEF QueueInv, WakeupOutsideEvents, HandlerQueues, QueueInOwnLoop, Push, TypeOK
  <2> QED
    BY <1>3, <1>4, <2>1 DEF QueueInv
<1>6. ASSUME NEW p \in Producers, QueueInLoop(p, k, g)
      PROVE  QueueInv'
  <2>1. /\ waking[p] = None /\ waking' = [waking EXCEPT ![p] = k]
        /\ wakeup_fd_' = wakeup_fd_
        /\ pending_functors_' = [pending_functors_ EXCEPT ![k] = Append(@, g)]
    BY <1>6 DEF QueueInLoop, Push
  <2>2. waking'[p] = k /\ None \notin Loops
    BY <2>1, LoopIndex DEF TypeOK
  <2>3. \A q \in Producers : waking[q] \in Loops => waking'[q] = waking[q]
    BY <2>1, <2>2 DEF TypeOK
  <2>4. \A l \in Loops \ {k} : pending_functors_'[l] = pending_functors_[l]
    BY <2>1 DEF TypeOK
  <2>5. ASSUME NEW l \in Loops, pc'[l] \notin {"events", "swap"},
               pending_functors_'[l] # <<>>
        PROVE  wakeup_fd_'[l] \/ \E q \in Producers : waking'[q] = l
    <3>1. CASE l = k
      BY <2>2, <3>1
    <3>2. CASE l # k
      <4>1. wakeup_fd_[l] \/ \E q \in Producers : waking[q] = l
        BY <1>1, <2>4, <2>5, <3>2 DEF QueueInv, WakeupOutsideEvents
      <4> QED
        BY <2>1, <2>3, <4>1
    <3> QED
      BY <3>1, <3>2
  <2>6. WakeupOutsideEvents'
    BY <2>5 DEF WakeupOutsideEvents
  <2> QED
    BY <1>3, <1>4, <2>6 DEF QueueInv
<1> QED
  BY <1>5, <1>6

\* The queue invariant holds in every reachable state.
THEOREM LoopQueueInv == Spec => []QueueInv
<1>1. Init => QueueInv
  <2>1. <<>> \in Seq(Functors) /\ <<>> \o <<>> \o <<>> = <<>>
    BY ConcatEmptySeq
  <2> QED
    BY <2>1 DEF Init, QueueInv, BatchOnlyInRun, CallingInRun, FunctorsInOrder,
                WakeupOutsideEvents
<1>2. TypeOK /\ QueueInv /\ [Next]_vars => QueueInv'
  <2> SUFFICES ASSUME TypeOK, QueueInv, [Next]_vars
               PROVE  QueueInv'
    OBVIOUS
  <2>1. CASE SpawnThread \/ StartLoopReturns \/ StopBegin \/ Stop \/ Stopped
    BY <2>1, ControllerQueue
  <2>2. ASSUME NEW l \in Loops, LoopThread(l)
        PROVE  QueueInv'
    BY <2>2, LoopThreadQueue
  <2>3. ASSUME NEW l \in Loops, NEW g \in Functors, HandlerQueues(l, g)
        PROVE  QueueInv'
    BY <2>3, QueueFromElsewhere
  <2>4. ASSUME NEW p \in Producers, NEW l \in Loops, NEW g \in Functors,
               QueueInLoop(p, l, g)
        PROVE  QueueInv'
    BY <2>4, QueueFromElsewhere
  <2>5. ASSUME NEW p \in Producers, Wakeup(p)
        PROVE  QueueInv'
    BY <2>5 DEF Wakeup, TypeOK, QueueInv, BatchOnlyInRun, CallingInRun,
                FunctorsInOrder, WakeupOutsideEvents, queueVars
  <2>6. CASE UNCHANGED vars
    BY <2>6 DEF vars, queueVars, QueueInv, BatchOnlyInRun, CallingInRun,
                FunctorsInOrder, WakeupOutsideEvents
  <2> QED
    BY <2>1, <2>2, <2>3, <2>4, <2>5, <2>6 DEF Next
<1> QED
  BY <1>1, <1>2, LoopTypeOK, PTL DEF Spec

\* No functor is lost, run twice or run out of order, however many threads
\* queue functors while the loop swaps and runs its batches (event_loop.cpp
\* QueueInLoop, DoPendingFunctors).
THEOREM LoopFunctorsInOrder == Spec => []FunctorsInOrder
  BY LoopQueueInv, PTL DEF QueueInv

\* A loop never goes to sleep with a functor in its queue and nobody to wake
\* it (event_loop.cpp QueueInLoop, Wakeup, HandleReadForWakeup).
THEOREM LoopWakeupPending == Spec => []WakeupPending
<1>1. QueueInv => WakeupPending
  BY DEF QueueInv, WakeupOutsideEvents, WakeupPending
<1> QED
  BY <1>1, LoopQueueInv, PTL
===============================================================================
