--------------------------- MODULE StandaloneProofs ---------------------------
(***************************************************************************)
(* The components that stand alone: AsyncLogger, for any number of callers *)
(* and lines and any capacity of a buffer; ThreadPool, for any number of   *)
(* workers, clients and tasks; Hpack, for any sizes of names, values and   *)
(* tables; MemoryPool, for any classes and sizes; TimerManager, for any    *)
(* descriptors and timeouts.  They know nothing of each other; each has    *)
(* its part of this module.                                                *)
(***************************************************************************)
EXTENDS AsyncLogger, ThreadPool, Hpack, MemoryPool, TimerManager,
        SequenceTheorems, FiniteSetTheorems, WellFoundedInduction, TLAPS
-------------------------------------------------------------------------------
(* AsyncLogger *)

\* What AppendLine puts into the buffers, and that it stays within them.
LEMMA PutType ==
  ASSUME TypeOK, NEW x \in Lines, Put(x)
  PROVE  /\ current_buffer_' \in Seq(Lines) /\ Len(current_buffer_') <= Capacity
         /\ buffers_' \in Seq(Lines)
<1> USE LoggerAssumption DEF TypeOK
<1>0. <<x>> \in Seq(Lines) /\ Len(<<x>>) = 1 /\ <<>> \in Seq(Lines) /\ Len(<<>>) = 0
  OBVIOUS
<1>1. CASE current_buffer_' = Append(current_buffer_, x) /\ buffers_' = buffers_
           /\ Len(current_buffer_) < Capacity
  BY <1>1, AppendProperties
<1>2. CASE buffers_' = buffers_ \o current_buffer_ /\ current_buffer_' = <<x>>
  BY <1>0, <1>2, ConcatProperties
<1>3. CASE buffers_' = (buffers_ \o current_buffer_) \o <<x>> /\ current_buffer_' = <<>>
  BY <1>0, <1>3, ConcatProperties
<1> QED
  BY <1>1, <1>2, <1>3 DEF Put

\* WriteBuffersToFile keeps the buffers and the file well formed.
LEMMA WriteType ==
  ASSUME TypeOK, WriteBuffersToFile
  PROVE  /\ current_buffer_' \in Seq(Lines) /\ Len(current_buffer_') <= Capacity
         /\ buffers_' \in Seq(Lines) /\ file' \in Seq(Lines)
<1>1. buffers_ \o current_buffer_ \in Seq(Lines)
  BY ConcatProperties DEF TypeOK
<1>2. file \o (buffers_ \o current_buffer_) \in Seq(Lines)
  BY <1>1, ConcatProperties DEF TypeOK
<1>3. <<>> \in Seq(Lines) /\ Len(<<>>) <= Capacity
  BY LoggerAssumption
<1> QED
  BY <1>2, <1>3 DEF WriteBuffersToFile, TypeOK

\* The state of the log is well formed (async_Logger.cpp, the members of
\* AsyncLogger and the positions of its threads).
THEOREM LoggerTypeOK == Spec => []TypeOK
<1> USE LoggerAssumption
<1>1. Init => TypeOK
  <2> SUFFICES ASSUME Init
               PROVE  TypeOK
    OBVIOUS
  <2>1. <<>> \in Seq(Lines) /\ Len(<<>>) <= Capacity /\ 0 \in 0 .. MaxStarts /\ 0 \in Nat
    OBVIOUS
  <2>2. /\ caller \in [Callers -> {"idle", "append", "flush", "waiting", "woken"}]
        /\ flushMark \in [Callers -> Nat]
        /\ backend \in Backends
        /\ ctl \in {"idle", "join", "write", "stopped"}
    BY <2>1 DEF Init, Backends
  <2>3. running_ \in BOOLEAN /\ thread_started_ \in BOOLEAN /\ openable \in BOOLEAN
    BY Zenon DEF Init
  <2>4. /\ current_buffer_ \in Seq(Lines) /\ Len(current_buffer_) <= Capacity
        /\ buffers_ \in Seq(Lines) /\ buffers_to_write \in Seq(Lines)
        /\ file \in Seq(Lines) /\ appended \in Seq(Lines)
        /\ starts \in 0 .. MaxStarts /\ stopMark \in Nat
    BY <2>1, Zenon DEF Init
  <2> QED
    BY <2>2, <2>3, <2>4, Zenon DEF TypeOK
<1>2. TypeOK /\ [Next]_vars => TypeOK'
  <2> SUFFICES ASSUME TypeOK, [Next]_vars
               PROVE  TypeOK'
    OBVIOUS
  <2>0. <<>> \in Seq(Lines) /\ Len(<<>>) <= Capacity /\ Len(appended) \in Nat
        /\ buffers_ \o current_buffer_ \in Seq(Lines)
        /\ file \o buffers_to_write \in Seq(Lines)
    BY ConcatProperties, LenProperties DEF TypeOK
  <2>1. ASSUME NEW t \in Callers, AppendCheck(t) \/ FlushCheck(t) \/ FlushWoken(t)
        PROVE  TypeOK'
    BY <2>0, <2>1 DEF AppendCheck, FlushCheck, FlushWoken, CallerGoes, TypeOK,
                      bufferVars, flagVars, historyVars
  <2>2. ASSUME NEW t \in Callers, FlushLocked(t)
        PROVE  TypeOK'
    BY <2>0, <2>2 DEF FlushLocked, CallerGoes, TypeOK, flagVars, historyVars
  <2>3. ASSUME NEW t \in Callers, NEW x \in Lines, AppendLine(t, x)
        PROVE  TypeOK'
    <3>1. Put(x) /\ appended' \in Seq(Lines)
      BY <2>3, AppendProperties DEF AppendLine, TypeOK
    <3> QED
      BY <2>3, <3>1, PutType DEF AppendLine, CallerGoes, TypeOK, flagVars, historyVars
  <2>4. CASE OpenFile \/ CheckRunning \/ WaitForLines \/ NotifyFlush
    BY <2>4 DEF OpenFile, CheckRunning, WaitForLines, NotifyFlush, BackendGoes, TypeOK,
                Backends, bufferVars, flagVars, historyVars
  <2>5. CASE Swap \/ WriteFile
    BY <2>0, <2>5 DEF Swap, WriteFile, BackendGoes, TypeOK, Backends, flagVars, historyVars
  <2>6. CASE FinalWrite
    BY <2>6, WriteType DEF FinalWrite, WriteBuffersToFile, BackendGoes, TypeOK, Backends,
                           flagVars, historyVars
  <2>7. CASE StopWrite
    BY <2>7, WriteType DEF StopWrite, WriteBuffersToFile, TypeOK, flagVars, historyVars
  <2>8. CASE Start
    <3>1. starts' \in 0 .. MaxStarts
      BY <2>8 DEF Start, TypeOK
    <3> QED
      BY <2>8, <3>1 DEF Start, TypeOK, Backends, bufferVars, historyVars
  <2>9. CASE StopBegin \/ StopJoin
    BY <2>0, <2>9 DEF StopBegin, StopJoin, TypeOK, bufferVars, historyVars
  <2>10. CASE UNCHANGED vars
    BY <2>10 DEF vars, TypeOK, bufferVars, flagVars, historyVars
  <2> QED
    BY <2>1, <2>2, <2>3, <2>4, <2>5, <2>6, <2>7, <2>8, <2>9, <2>10
       DEF Next, Caller, ThreadFunc, Stop
<1> QED
  BY <1>1, <1>2, PTL DEF Spec
-------------------------------------------------------------------------------
(* The order of the lines. *)

\* The thread holds lines only while it writes them; it has ended, or never
\* begun, unless it has been started; Stop has joined it before it writes.
ThreadHolds ==
  /\ backend # "write" => buffers_to_write = <<>>
  /\ ~thread_started_ => backend \in {"none", "ended"}
  /\ ctl \in {"write", "stopped"} => ~thread_started_

\* The inductive invariant.
StreamInv ==
  /\ ThreadHolds
  /\ LinesInOrder
  /\ stopMark <= Len(appended)
  /\ StopWritesAll

\* Facts about concatenation that the steps below need.
LEMMA ConcatFacts ==
  ASSUME NEW f \in Seq(Lines), NEW w \in Seq(Lines), NEW q \in Seq(Lines)
  PROVE  /\ f \o (<<>> \o q) = f \o q
         /\ f \o (q \o (<<>> \o <<>>)) = f \o q
         /\ (f \o w) \o (<<>> \o q) = f \o (w \o q)
         /\ (f \o q) \o (<<>> \o (<<>> \o <<>>)) = f \o q
<1>1. /\ <<>> \in Seq(Lines) /\ <<>> \o <<>> = <<>>
      /\ <<>> \o q = q /\ q \o <<>> = q
  BY ConcatEmptySeq
<1>2. f \o q \in Seq(Lines)
  BY ConcatProperties
<1>3. (f \o q) \o <<>> = f \o q
  BY <1>2, ConcatEmptySeq
<1>4. (f \o w) \o q = f \o (w \o q)
  BY ConcatAssociative
<1> QED
  BY <1>1, <1>3, <1>4

\* A line put into the buffers is the last of what they hold.
LEMMA PutAppends ==
  ASSUME TypeOK, NEW x \in Lines, Put(x)
  PROVE  buffers_' \o current_buffer_' = Append(buffers_ \o current_buffer_, x)
<1>1. /\ buffers_ \in Seq(Lines) /\ current_buffer_ \in Seq(Lines) /\ <<x>> \in Seq(Lines)
      /\ (buffers_ \o current_buffer_) \o <<x>> \in Seq(Lines)
      /\ Append(buffers_ \o current_buffer_, x) = (buffers_ \o current_buffer_) \o <<x>>
  BY ConcatProperties, AppendIsConcat DEF TypeOK
<1>2. CASE current_buffer_' = Append(current_buffer_, x) /\ buffers_' = buffers_
  <2>1. Append(current_buffer_, x) = current_buffer_ \o <<x>>
    BY <1>1, AppendIsConcat
  <2> QED
    BY <1>1, <1>2, <2>1, ConcatAssociative
<1>3. CASE buffers_' = buffers_ \o current_buffer_ /\ current_buffer_' = <<x>>
  BY <1>1, <1>3
<1>4. CASE buffers_' = (buffers_ \o current_buffer_) \o <<x>> /\ current_buffer_' = <<>>
  BY <1>1, <1>4, ConcatEmptySeq
<1> QED
  BY <1>2, <1>3, <1>4 DEF Put

\* A line appended to the buffers is the last of the stream.
LEMMA StreamAppends ==
  ASSUME TypeOK, NEW x \in Lines
  PROVE  Append(file \o (buffers_to_write \o (buffers_ \o current_buffer_)), x)
           = file \o (buffers_to_write \o Append(buffers_ \o current_buffer_, x))
<1> DEFINE f == file
           w == buffers_to_write
           q == buffers_ \o current_buffer_
<1>0. f \in Seq(Lines) /\ w \in Seq(Lines) /\ q \in Seq(Lines)
  BY ConcatProperties DEF TypeOK
<1> HIDE DEF f, w, q
<1>1. /\ <<x>> \in Seq(Lines) /\ w \o q \in Seq(Lines)
  BY <1>0, ConcatProperties
<1>2. f \o (w \o q) \in Seq(Lines)
  BY <1>0, <1>1, ConcatProperties
<1>3. /\ Append(f \o (w \o q), x) = (f \o (w \o q)) \o <<x>>
      /\ Append(q, x) = q \o <<x>>
  BY <1>0, <1>2, AppendIsConcat
<1>4. (f \o (w \o q)) \o <<x>> = f \o ((w \o q) \o <<x>>)
  BY <1>0, <1>1, ConcatAssociative
<1>5. (w \o q) \o <<x>> = w \o (q \o <<x>>)
  BY <1>0, <1>1, ConcatAssociative
<1> QED
  BY <1>3, <1>4, <1>5 DEF f, w, q

\* WriteBuffersToFile, once the thread holds nothing, writes the whole stream.
LEMMA WriteAll ==
  ASSUME TypeOK, LinesInOrder, buffers_to_write = <<>>, WriteBuffersToFile
  PROVE  /\ openable => file' = appended
         /\ buffers_to_write' = <<>> /\ appended' = appended
         /\ file' \o (buffers_to_write' \o (buffers_' \o current_buffer_')) = file'
         /\ Len(file') >= Len(file)
<1> DEFINE q == buffers_ \o current_buffer_
<1>1. q \in Seq(Lines) /\ file \in Seq(Lines)
  BY ConcatProperties DEF TypeOK
<1> HIDE DEF q
<1>2. /\ file \o (<<>> \o q) = file \o q
      /\ (file \o q) \o (<<>> \o (<<>> \o <<>>)) = file \o q
  BY <1>1, ConcatFacts
<1>3. <<>> \in Seq(Lines) /\ file \o (<<>> \o (<<>> \o <<>>)) = file
  BY <1>1, ConcatEmptySeq
<1>4. Len(file \o q) >= Len(file)
  BY <1>1, ConcatProperties, LenProperties
<1>5. Len(file) \in Nat
  BY <1>1, LenProperties
<1>6. openable => appended = file \o (<<>> \o q)
  BY DEF LinesInOrder, q
<1>7. file' = IF openable THEN file \o q ELSE file
  BY DEF WriteBuffersToFile, q
<1>8. /\ buffers_' = <<>> /\ current_buffer_' = <<>>
      /\ buffers_to_write' = <<>> /\ appended' = appended
  BY DEF WriteBuffersToFile
<1>9. file' \o (buffers_to_write' \o (buffers_' \o current_buffer_')) = file'
  BY <1>2, <1>3, <1>7, <1>8
<1>10. Len(file') >= Len(file)
  BY <1>4, <1>5, <1>7
<1>11. openable => file' = appended
  BY <1>2, <1>6, <1>7
<1> QED
  BY <1>8, <1>9, <1>10, <1>11
\* No step loses, doubles or reorders a line, and Stop leaves none behind.
LEMMA StreamStep ==
  ASSUME TypeOK, StreamInv, [Next]_vars
  PROVE  StreamInv'
<1> USE DEF StreamInv, ThreadHolds
<1>0. /\ file \in Seq(Lines) /\ buffers_to_write \in Seq(Lines)
      /\ buffers_ \in Seq(Lines) /\ current_buffer_ \in Seq(Lines)
      /\ buffers_ \o current_buffer_ \in Seq(Lines)
      /\ appended \in Seq(Lines)
      /\ Len(file) \in Nat /\ Len(appended) \in Nat /\ stopMark \in Nat
  BY ConcatProperties, LenProperties DEF TypeOK
<1>1. ASSUME NEW t \in Callers, AppendCheck(t) \/ FlushCheck(t) \/ FlushWoken(t)
      PROVE  StreamInv'
  <2>1. UNCHANGED <<flagVars, bufferVars, backend, ctl, openable, stopMark>>
    BY <1>1 DEF AppendCheck, FlushCheck, FlushWoken, historyVars
  <2> QED
    BY <2>1 DEF LinesInOrder, StopWritesAll, bufferVars, flagVars
<1>2. ASSUME NEW t \in Callers, FlushLocked(t)
      PROVE  StreamInv'
  <2>1. buffers_' \o current_buffer_' = buffers_ \o current_buffer_
    BY <1>0, <1>2, ConcatEmptySeq DEF FlushLocked
  <2> QED
    BY <1>2, <2>1 DEF FlushLocked, LinesInOrder, StopWritesAll, flagVars, historyVars
<1>3. ASSUME NEW t \in Callers, NEW x \in Lines, AppendLine(t, x)
      PROVE  StreamInv'
  <2>1. /\ Put(x) /\ appended' = Append(appended, x)
        /\ UNCHANGED <<flagVars, buffers_to_write, file, backend, ctl, openable, historyVars>>
    BY <1>3 DEF AppendLine
  <2>2. buffers_' \o current_buffer_' = Append(buffers_ \o current_buffer_, x)
    BY <2>1, PutAppends
  <2>3. Append(file \o (buffers_to_write \o (buffers_ \o current_buffer_)), x)
          = file \o (buffers_to_write \o Append(buffers_ \o current_buffer_, x))
    BY <1>0, StreamAppends
  <2>4. LinesInOrder'
    BY <2>1, <2>2, <2>3 DEF LinesInOrder
  <2>5. stopMark' <= Len(appended')
    BY <1>0, <2>1, AppendProperties DEF historyVars
  <2>6. ThreadHolds' /\ StopWritesAll'
    BY <2>1 DEF StopWritesAll, flagVars, historyVars
  <2> QED
    BY <2>4, <2>5, <2>6
<1>4. CASE OpenFile \/ CheckRunning \/ WaitForLines \/ NotifyFlush
  <2>1. UNCHANGED <<thread_started_, bufferVars, ctl, openable, historyVars>>
    BY <1>4 DEF OpenFile, CheckRunning, WaitForLines, NotifyFlush, flagVars
  <2>2. LinesInOrder' /\ StopWritesAll' /\ stopMark' <= Len(appended')
    BY <2>1 DEF LinesInOrder, StopWritesAll, bufferVars, historyVars
  <2>3. ThreadHolds'
    BY <1>4, <2>1 DEF OpenFile, CheckRunning, WaitForLines, NotifyFlush, BackendGoes, bufferVars
  <2> QED
    BY <2>2, <2>3
<1>5. CASE Swap
  <2>1. /\ buffers_to_write = <<>> /\ backend' = "write" /\ thread_started_
        /\ buffers_to_write' = buffers_ \o current_buffer_
        /\ buffers_' = <<>> /\ current_buffer_' = <<>>
        /\ UNCHANGED <<flagVars, file, appended, ctl, openable, historyVars>>
    BY <1>5 DEF Swap, BackendGoes
  <2>2. /\ file \o (<<>> \o (buffers_ \o current_buffer_))
             = file \o (buffers_ \o current_buffer_)
        /\ file \o ((buffers_ \o current_buffer_) \o (<<>> \o <<>>))
             = file \o (buffers_ \o current_buffer_)
    BY <1>0, ConcatFacts, ZenonT(60)
  <2>3. LinesInOrder'
    BY <2>1, <2>2 DEF LinesInOrder
  <2>4. ThreadHolds' /\ StopWritesAll' /\ stopMark' <= Len(appended')
    BY <2>1 DEF StopWritesAll, flagVars, historyVars
  <2> QED
    BY <2>3, <2>4
<1>6. CASE WriteFile
  <2>1. /\ backend = "write" /\ backend' = "notify" /\ thread_started_
        /\ file' = file \o buffers_to_write /\ buffers_to_write' = <<>>
        /\ UNCHANGED <<flagVars, current_buffer_, buffers_, appended, ctl, openable, historyVars>>
    BY <1>6 DEF WriteFile, BackendGoes
  <2>2. (file \o buffers_to_write) \o (<<>> \o (buffers_ \o current_buffer_))
          = file \o (buffers_to_write \o (buffers_ \o current_buffer_))
    BY <1>0, ConcatFacts, ZenonT(60)
  <2>3. LinesInOrder'
    BY <2>1, <2>2 DEF LinesInOrder
  <2>4. ThreadHolds' /\ StopWritesAll' /\ stopMark' <= Len(appended')
    BY <2>1 DEF StopWritesAll, flagVars, historyVars
  <2> QED
    BY <2>3, <2>4
<1>7. CASE FinalWrite
  <2>1. /\ WriteBuffersToFile /\ buffers_to_write = <<>> /\ thread_started_
        /\ backend' = "ended"
        /\ UNCHANGED <<flagVars, ctl, openable, historyVars>>
    BY <1>7 DEF FinalWrite, BackendGoes
  <2>2. /\ openable => file' = appended
        /\ buffers_to_write' = <<>> /\ appended' = appended
        /\ file' \o (buffers_to_write' \o (buffers_' \o current_buffer_')) = file'
    BY <2>1, WriteAll
  <2> QED
    BY <2>1, <2>2 DEF LinesInOrder, StopWritesAll, flagVars, historyVars
<1>8. CASE StopWrite
  <2>1. /\ WriteBuffersToFile /\ buffers_to_write = <<>> /\ ~thread_started_
        /\ ctl' = "stopped"
        /\ UNCHANGED <<flagVars, backend, openable, historyVars>>
    BY <1>8 DEF StopWrite
  <2>2. /\ openable => file' = appended
        /\ buffers_to_write' = <<>> /\ appended' = appended
        /\ file' \o (buffers_to_write' \o (buffers_' \o current_buffer_')) = file'
    BY <2>1, WriteAll
  <2> QED
    BY <1>0, <2>1, <2>2 DEF LinesInOrder, StopWritesAll, flagVars, historyVars
<1>9. CASE Start
  BY <1>9 DEF Start, LinesInOrder, StopWritesAll, bufferVars, historyVars
<1>10. CASE StopBegin
  BY <1>0, <1>10 DEF StopBegin, LinesInOrder, StopWritesAll, bufferVars
<1>11. CASE StopJoin
  BY <1>11 DEF StopJoin, LinesInOrder, StopWritesAll, bufferVars, historyVars
<1>12. CASE UNCHANGED vars
  BY <1>12 DEF vars, LinesInOrder, StopWritesAll, bufferVars, flagVars, historyVars
<1> QED
  BY <1>1, <1>2, <1>3, <1>4, <1>5, <1>6, <1>7, <1>8, <1>9, <1>10, <1>11, <1>12
     DEF Next, Caller, ThreadFunc, Stop

\* The invariant of the stream of lines holds in every reachable state.
THEOREM LoggerStreamInv == Spec => []StreamInv
<1>1. Init => StreamInv
  <2>1. <<>> \in Seq(Lines) /\ <<>> \o (<<>> \o (<<>> \o <<>>)) = <<>> /\ Len(<<>>) = 0
    BY ConcatEmptySeq
  <2> QED
    BY <2>1 DEF Init, StreamInv, ThreadHolds, LinesInOrder, StopWritesAll
<1>2. TypeOK /\ StreamInv /\ [Next]_vars => StreamInv'
  BY StreamStep
<1> QED
  BY <1>1, <1>2, LoggerTypeOK, PTL DEF Spec

\* No line is lost, written twice or overtaken, however many threads append
\* while buffers are swapped, written, flushed and the log is stopped and
\* started again (async_Logger.cpp Append, Flush, ThreadFunc, Stop).
THEOREM LoggerLinesInOrder == Spec => []LinesInOrder
  BY LoggerStreamInv, PTL DEF StreamInv

\* When Stop returns, every line appended before the call is in the file
\* (async_Logger.cpp Stop, WriteBuffersToFile).
THEOREM LoggerStopWritesAll == Spec => []StopWritesAll
  BY LoggerStreamInv, PTL DEF StreamInv
-------------------------------------------------------------------------------
(* ThreadPool *)

\* A worker leaves only when the pool stops and the queue is empty, and from
\* then on it stays empty: hence a worker that is not waiting will look at the
\* queue, and hence nothing is left behind.
ExitedIsLast ==
  /\ \A w \in Workers : worker[w] = "exited" => stop_ /\ tasks_ = <<>>
  /\ dtor = "gone" => \A w \in Workers : worker[w] = "exited"

RunningHolds == \A w \in Workers : task[w] # NoTask <=> worker[w] = "running"

\* What is queued or held is pending, in one place only, and all that is
\* pending is queued or held.
Pending == accepted \ done

QueuedPending == \A n \in 1 .. Len(tasks_) : tasks_[n] \in Pending
HeldPending == \A w \in Workers : task[w] # NoTask => task[w] \in Pending
QueuedOnce == \A m, n \in 1 .. Len(tasks_) : tasks_[m] = tasks_[n] => m = n
HeldOnce == \A v, w \in Workers : task[v] # NoTask /\ task[v] = task[w] => v = w
NotBoth == \A n \in 1 .. Len(tasks_), w \in Workers : tasks_[n] # task[w]
DoneAccepted == done \subseteq accepted
PendingFound == \A t \in Pending : \/ \E n \in 1 .. Len(tasks_) : tasks_[n] = t
                                   \/ \E w \in Workers : task[w] = t

PoolInv == ThreadPoolTypeOK /\ ExitedIsLast /\ RunningHolds
PlacesInv == /\ QueuedPending /\ HeldPending /\ QueuedOnce /\ HeldOnce
             /\ NotBoth /\ DoneAccepted /\ PendingFound
-------------------------------------------------------------------------------
\* Threads and queues, for all the steps below.
LEMMA AppendFacts ==
  ASSUME NEW S, NEW s \in Seq(S), NEW e \in S
  PROVE  /\ Append(s, e) \in Seq(S)
         /\ Append(s, e) # <<>>
         /\ Len(Append(s, e)) = Len(s) + 1
         /\ \A n \in 1 .. Len(s) : Append(s, e)[n] = s[n]
         /\ Append(s, e)[Len(s) + 1] = e
BY AppendProperties

LEMMA TailFacts ==
  ASSUME NEW S, NEW s \in Seq(S), s # <<>>
  PROVE  /\ Head(s) \in S /\ Head(s) = s[1]
         /\ Tail(s) \in Seq(S)
         /\ Len(s) \in Nat \ {0}
         /\ Len(Tail(s)) = Len(s) - 1
         /\ \A n \in 1 .. Len(s) - 1 : Tail(s)[n] = s[n + 1]
BY HeadTailProperties, EmptySeq

\* Types, and when a worker leaves, are kept by every step.
LEMMA PoolInvStep == PoolInv /\ [ThreadPoolNext]_poolVars => PoolInv'
<1> SUFFICES ASSUME PoolInv, [ThreadPoolNext]_poolVars
             PROVE  PoolInv'
  OBVIOUS
<1> USE WorkersAssumption
    DEF PoolInv, ThreadPoolTypeOK, ExitedIsLast, RunningHolds, WorkerPCs, DtorPCs
<1>1. ASSUME NEW p \in Threads, NEW t \in Tasks, AddTask(p, t)
      PROVE  PoolInv'
  <2>1. CASE stop_
    BY <1>1, <2>1 DEF AddTask
  <2>2. CASE ~stop_
    <3>1. /\ tasks_' = Append(tasks_, t)
          /\ accepted' = accepted \cup {t}
          /\ notifying' = notifying \cup {p}
          /\ UNCHANGED <<refused, stop_, worker, task, dtor, done>>
      BY <1>1, <2>2 DEF AddTask
    <3>2. tasks_' \in Seq(Tasks)
      BY <3>1, AppendFacts
    <3> QED
      BY <2>2, <3>1, <3>2
  <2> QED
    BY <2>1, <2>2
<1>2. ASSUME NEW p \in Threads, NotifyOne(p)
      PROVE  PoolInv'
  BY <1>2 DEF NotifyOne
<1>3. ASSUME NEW w \in Workers, LockAndTake(w)
      PROVE  PoolInv'
  <2>1. CASE tasks_ = <<>>
    <3>1. /\ worker[w] = "lock"
          /\ worker' = [worker EXCEPT ![w] = IF stop_ THEN "exited" ELSE "waiting"]
          /\ UNCHANGED <<tasks_, task, stop_, notifying, dtor, accepted, refused, done>>
      BY <1>3, <2>1 DEF LockAndTake
    <3> QED
      BY <2>1, <3>1
  <2>2. CASE tasks_ # <<>>
    <3>1. /\ worker[w] = "lock"
          /\ task' = [task EXCEPT ![w] = Head(tasks_)]
          /\ tasks_' = Tail(tasks_)
          /\ worker' = [worker EXCEPT ![w] = "running"]
          /\ UNCHANGED <<stop_, notifying, dtor, accepted, refused, done>>
      BY <1>3, <2>2 DEF LockAndTake
    <3>2. Head(tasks_) \in Tasks /\ Tail(tasks_) \in Seq(Tasks)
      BY <2>2, TailFacts
    <3> QED
      BY <2>2, <3>1, <3>2
  <2> QED
    BY <2>1, <2>2
<1>4. ASSUME NEW w \in Workers, TaskReturns(w)
      PROVE  PoolInv'
  BY <1>4 DEF TaskReturns
<1>5. ASSUME NEW w \in Workers, SpuriousWakeup(w)
      PROVE  PoolInv'
  BY <1>5 DEF SpuriousWakeup
<1>6. CASE Destructor
  <2>1. CASE DtorStop
    BY <2>1 DEF DtorStop
  <2>2. CASE DtorNotifyAll
    BY <2>2 DEF DtorNotifyAll
  <2>3. CASE DtorJoin
    BY <2>3 DEF DtorJoin
  <2> QED
    BY <1>6, <2>1, <2>2, <2>3 DEF Destructor
<1>7. CASE UNCHANGED poolVars
  BY <1>7 DEF poolVars
<1> QED
  BY <1>1, <1>2, <1>3, <1>4, <1>5, <1>6, <1>7 DEF ThreadPoolNext, WorkerStep

\* A task is moved from place to place, never copied or dropped.
LEMMA PlacesStep == PoolInv /\ PlacesInv /\ [ThreadPoolNext]_poolVars => PlacesInv'
<1> SUFFICES ASSUME PoolInv, PlacesInv, [ThreadPoolNext]_poolVars
             PROVE  PlacesInv'
  OBVIOUS
<1> USE WorkersAssumption
<1>t. /\ tasks_ \in Seq(Tasks) /\ task \in [Workers -> Tasks \cup {NoTask}]
      /\ accepted \subseteq Tasks /\ done \subseteq Tasks
      /\ \A w \in Workers : task[w] # NoTask <=> worker[w] = "running"
      /\ Len(tasks_) \in Nat
  BY LenProperties DEF PoolInv, ThreadPoolTypeOK, RunningHolds
<1> USE DEF PlacesInv, QueuedPending, HeldPending, QueuedOnce, HeldOnce, NotBoth,
            DoneAccepted, PendingFound, Pending
<1>1. ASSUME NEW p \in Threads, NEW t \in Tasks, AddTask(p, t)
      PROVE  PlacesInv'
  <2>1. CASE stop_
    BY <1>1, <2>1 DEF AddTask
  <2>2. CASE ~stop_
    <3>1. /\ tasks_' = Append(tasks_, t)
          /\ accepted' = accepted \cup {t}
          /\ t \notin accepted
          /\ task' = task /\ done' = done
      BY <1>1, <2>2 DEF AddTask
    <3>2. /\ Len(tasks_') = Len(tasks_) + 1
          /\ \A n \in 1 .. Len(tasks_) : tasks_'[n] = tasks_[n]
          /\ tasks_'[Len(tasks_) + 1] = t
      BY <3>1, <1>t, AppendFacts
    <3>3. \A n \in 1 .. Len(tasks_') : n \in 1 .. Len(tasks_) \/ n = Len(tasks_) + 1
      BY <3>2, <1>t
    <3>4. t # NoTask /\ t \notin done
      BY <3>1
    <3>5. QueuedPending' /\ HeldPending' /\ DoneAccepted'
      BY <3>1, <3>2, <3>3, <3>4
    <3>6. QueuedOnce'
      BY <3>1, <3>2, <3>3, <3>4
    <3>7. HeldOnce'
      BY <3>1
    <3>8. NotBoth'
      BY <3>1, <3>2, <3>3, <3>4
    <3>9. PendingFound'
      <4> SUFFICES ASSUME NEW u \in Pending'
                   PROVE  \/ \E n \in 1 .. Len(tasks_') : tasks_'[n] = u
                          \/ \E w \in Workers : task'[w] = u
        OBVIOUS
      <4>1. CASE u = t
        BY <3>2, <4>1, <1>t
      <4>2. CASE u # t
        BY <3>1, <3>2, <4>2, <1>t
      <4> QED
        BY <4>1, <4>2
    <3> QED
      BY <3>5, <3>6, <3>7, <3>8, <3>9
  <2> QED
    BY <2>1, <2>2
<1>2. ASSUME NEW w \in Workers, LockAndTake(w)
      PROVE  PlacesInv'
  <2>1. CASE tasks_ = <<>>
    <3>1. UNCHANGED <<tasks_, task, accepted, done>>
      BY <1>2, <2>1 DEF LockAndTake
    <3> QED
      BY <3>1
  <2>2. CASE tasks_ # <<>>
    <3>1. /\ worker[w] = "lock"
          /\ task' = [task EXCEPT ![w] = Head(tasks_)]
          /\ tasks_' = Tail(tasks_)
          /\ accepted' = accepted /\ done' = done
      BY <1>2, <2>2 DEF LockAndTake
    <3>2. /\ Head(tasks_) = tasks_[1] /\ Head(tasks_) \in Tasks
          /\ Len(tasks_) \in Nat \ {0}
          /\ Len(tasks_') = Len(tasks_) - 1
          /\ \A n \in 1 .. Len(tasks_) - 1 : tasks_'[n] = tasks_[n + 1]
      BY <2>2, <3>1, <1>t, TailFacts
    <3>3. /\ task[w] = NoTask
          /\ task'[w] = tasks_[1]
          /\ tasks_[1] # NoTask
          /\ \A v \in Workers : v # w => task'[v] = task[v]
      BY <3>1, <3>2, <1>t
    <3>4. \A n \in 1 .. Len(tasks_') : /\ n + 1 \in 1 .. Len(tasks_)
                                       /\ n + 1 # 1
                                       /\ tasks_'[n] = tasks_[n + 1]
      BY <3>2
    <3>5. 1 \in 1 .. Len(tasks_)
      BY <3>2
    <3>6. QueuedPending' /\ DoneAccepted'
      BY <3>1, <3>4
    <3>7. HeldPending'
      BY <3>1, <3>3, <3>5
    <3>8. QueuedOnce'
      <4> SUFFICES ASSUME NEW m \in 1 .. Len(tasks_'), NEW n \in 1 .. Len(tasks_'),
                          tasks_'[m] = tasks_'[n]
                   PROVE  m = n
        OBVIOUS
      <4>1. m + 1 = n + 1
        BY <3>4
      <4> QED
        BY <4>1
    <3>9. HeldOnce'
      BY <3>3, <3>5
    <3>10. NotBoth'
      BY <3>3, <3>4, <3>5
    <3>11. PendingFound'
      <4> SUFFICES ASSUME NEW u \in Pending
                   PROVE  \/ \E n \in 1 .. Len(tasks_') : tasks_'[n] = u
                          \/ \E v \in Workers : task'[v] = u
        BY <3>1
      <4>1. CASE \E v \in Workers : task[v] = u
        <5> PICK v \in Workers : task[v] = u
          BY <4>1
        <5>1. v # w
          BY <3>3, <1>t
        <5> QED
          BY <5>1, <3>3
      <4>2. CASE \E n \in 1 .. Len(tasks_) : tasks_[n] = u
        <5> PICK n \in 1 .. Len(tasks_) : tasks_[n] = u
          BY <4>2
        <5>1. CASE n = 1
          BY <5>1, <3>3
        <5>2. CASE n # 1
          <6>1. n - 1 \in 1 .. Len(tasks_') /\ (n - 1) + 1 = n
            BY <5>2, <3>2
          <6>2. tasks_'[n - 1] = u
            BY <6>1, <3>4
          <6> QED
            BY <6>1, <6>2
        <5> QED
          BY <5>1, <5>2
      <4> QED
        BY <4>1, <4>2
    <3> QED
      BY <3>6, <3>7, <3>8, <3>9, <3>10, <3>11
  <2> QED
    BY <2>1, <2>2
<1>3. ASSUME NEW w \in Workers, TaskReturns(w)
      PROVE  PlacesInv'
  <2>1. /\ worker[w] = "running"
        /\ done' = done \cup {task[w]}
        /\ task' = [task EXCEPT ![w] = NoTask]
        /\ tasks_' = tasks_ /\ accepted' = accepted
    BY <1>3 DEF TaskReturns
  <2>2. /\ task[w] # NoTask
        /\ task'[w] = NoTask
        /\ \A v \in Workers : v # w => task'[v] = task[v]
    BY <2>1, <1>t
  <2>3. NoTask \notin accepted
    BY <1>t
  <2>4. QueuedPending' /\ DoneAccepted'
    BY <2>1, <2>2
  <2>5. HeldPending'
    BY <2>1, <2>2
  <2>6. QueuedOnce' /\ HeldOnce'
    BY <2>1, <2>2
  <2>7. NotBoth'
    BY <2>1, <2>2, <2>3
  <2>8. PendingFound'
    BY <2>1, <2>2
  <2> QED
    BY <2>4, <2>5, <2>6, <2>7, <2>8
<1>4. ASSUME UNCHANGED <<tasks_, task, accepted, done>>
      PROVE  PlacesInv'
  BY <1>4
<1>5. ASSUME NEW p \in Threads, NotifyOne(p)
      PROVE  PlacesInv'
  BY <1>4, <1>5 DEF NotifyOne
<1>6. ASSUME NEW w \in Workers, SpuriousWakeup(w)
      PROVE  PlacesInv'
  BY <1>4, <1>6 DEF SpuriousWakeup
<1>7. CASE Destructor
  BY <1>4, <1>7 DEF Destructor, DtorStop, DtorNotifyAll, DtorJoin
<1>8. CASE UNCHANGED poolVars
  BY <1>4, <1>8 DEF poolVars
<1> QED
  BY <1>1, <1>2, <1>3, <1>5, <1>6, <1>7, <1>8 DEF ThreadPoolNext, WorkerStep

\* The places of tasks say what TasksAccountedFor asks for: a worker that has
\* left holds nothing, and the last one has left an empty queue.
LEMMA PlacesAccount == PoolInv /\ PlacesInv => TasksAccountedFor
<1> SUFFICES ASSUME PoolInv, PlacesInv
             PROVE  TasksAccountedFor
  OBVIOUS
<1> USE WorkersAssumption
<1> USE DEF PlacesInv, QueuedPending, HeldPending, QueuedOnce, HeldOnce, NotBoth,
            DoneAccepted, PendingFound, Pending
<1>t. accepted \subseteq Tasks /\ NoTask \notin accepted
  BY DEF PoolInv, ThreadPoolTypeOK
<1>1. ASSUME NEW t \in accepted
      PROVE  LET queued == {n \in 1 .. Len(tasks_) : tasks_[n] = t}
                 held   == {w \in Workers : task[w] = t}
             IN  IF t \in done THEN queued = {} /\ held = {}
                 ELSE \/ \E n \in 1 .. Len(tasks_) : queued = {n} /\ held = {}
                      \/ \E w \in Workers : held = {w} /\ queued = {}
  <2> DEFINE queued == {n \in 1 .. Len(tasks_) : tasks_[n] = t}
             held   == {w \in Workers : task[w] = t}
  <2>1. CASE t \in done
    <3>1. queued = {}
      BY <2>1
    <3>2. held = {}
      BY <2>1, <1>t
    <3> QED
      BY <2>1, <3>1, <3>2
  <2>2. CASE t \notin done
    <3>1. CASE \E n \in 1 .. Len(tasks_) : tasks_[n] = t
      <4> PICK n \in 1 .. Len(tasks_) : tasks_[n] = t
        BY <3>1
      <4>1. queued = {n} /\ held = {}
        OBVIOUS
      <4> QED
        BY <2>2, <4>1
    <3>2. CASE \E w \in Workers : task[w] = t
      <4> PICK w \in Workers : task[w] = t
        BY <3>2
      <4>1. held = {w} /\ queued = {}
        BY <1>t
      <4> QED
        BY <2>2, <4>1
    <3> QED
      BY <2>2, <3>1, <3>2
  <2> QED
    BY <2>1, <2>2
<1>2. ASSUME dtor = "gone"
      PROVE  accepted = done
  <2>1. \A w \in Workers : worker[w] = "exited"
    BY <1>2 DEF PoolInv, ExitedIsLast
  <2>2. tasks_ = <<>> /\ \A w \in Workers : task[w] = NoTask
    BY <2>1 DEF PoolInv, ExitedIsLast, RunningHolds
  <2>3. Len(tasks_) = 0
    BY <2>2
  <2>4. Pending = {}
    BY <1>t, <2>2, <2>3
  <2> QED
    BY <2>4
<1> QED
  BY <1>1, <1>2 DEF TasksAccountedFor

\* A worker that does not wait has not left while there are tasks.
LEMMA AwakeStep == PoolInv /\ AwakeForTasks /\ [ThreadPoolNext]_poolVars => AwakeForTasks'
<1> SUFFICES ASSUME PoolInv, AwakeForTasks, [ThreadPoolNext]_poolVars
             PROVE  AwakeForTasks'
  OBVIOUS
<1>t. /\ worker \in [Workers -> WorkerPCs]
      /\ \A w \in Workers : worker[w] = "exited" => tasks_ = <<>>
  BY DEF PoolInv, ThreadPoolTypeOK, ExitedIsLast
<1>1. ASSUME NEW p \in Threads, NEW t \in Tasks, AddTask(p, t)
      PROVE  AwakeForTasks'
  BY <1>1 DEF AddTask, AwakeForTasks
<1>2. ASSUME NEW p \in Threads, NotifyOne(p)
      PROVE  AwakeForTasks'
  <2>1. CASE \A w \in Workers : worker[w] # "waiting"
    <3>1. UNCHANGED <<worker, tasks_>>
      BY <1>2, <2>1 DEF NotifyOne
    <3>2. PICK w \in Workers : TRUE
      BY WorkersAssumption
    <3>3. tasks_ # <<>> => worker[w] \in {"lock", "running"}
      BY <1>t, <2>1, <3>2 DEF WorkerPCs
    <3> QED
      BY <3>1, <3>3 DEF AwakeForTasks
  <2>2. ASSUME NEW w \in Workers, worker' = [worker EXCEPT ![w] = "lock"]
        PROVE  AwakeForTasks'
    BY <1>t, <2>2 DEF AwakeForTasks
  <2> QED
    BY <1>2, <2>1, <2>2 DEF NotifyOne
<1>3. ASSUME NEW w \in Workers, LockAndTake(w)
      PROVE  AwakeForTasks'
  BY <1>t, <1>3 DEF LockAndTake, AwakeForTasks
<1>4. ASSUME NEW w \in Workers, TaskReturns(w)
      PROVE  AwakeForTasks'
  BY <1>t, <1>4 DEF TaskReturns, AwakeForTasks
<1>5. ASSUME NEW w \in Workers, SpuriousWakeup(w)
      PROVE  AwakeForTasks'
  BY <1>t, <1>5 DEF SpuriousWakeup, AwakeForTasks
<1>6. CASE Destructor
  BY <1>t, <1>6 DEF Destructor, DtorStop, DtorNotifyAll, DtorJoin, AwakeForTasks
<1>7. CASE UNCHANGED poolVars
  BY <1>7 DEF poolVars, AwakeForTasks
<1> QED
  BY <1>1, <1>2, <1>3, <1>4, <1>5, <1>6, <1>7 DEF ThreadPoolNext, WorkerStep

LEMMA PoolInvariant == ThreadPoolSpec => [](PoolInv /\ PlacesInv /\ AwakeForTasks)
<1>1. ASSUME ThreadPoolInit
      PROVE  PoolInv /\ PlacesInv /\ AwakeForTasks
  <2>1. PoolInv
    <3>1. ThreadPoolTypeOK
      <4>1. stop_ \in BOOLEAN /\ dtor \in DtorPCs
        BY <1>1 DEF ThreadPoolInit, DtorPCs
      <4>3. tasks_ \in Seq(Tasks)
        BY <1>1, EmptySeq DEF ThreadPoolInit
      <4>2. /\ worker \in [Workers -> WorkerPCs]
            /\ task \in [Workers -> Tasks \cup {NoTask}]
        BY <1>1 DEF ThreadPoolInit, WorkerPCs
      <4> QED
        BY <1>1, <4>1, <4>2, <4>3 DEF ThreadPoolInit, ThreadPoolTypeOK
    <3>2. ExitedIsLast /\ RunningHolds
      BY <1>1 DEF ThreadPoolInit, ExitedIsLast, RunningHolds
    <3> QED
      BY <3>1, <3>2 DEF PoolInv
  <2>2. Len(tasks_) = 0 /\ tasks_ = <<>> /\ Pending = {} /\ done = {}
        /\ \A w \in Workers : task[w] = NoTask
    BY <1>1 DEF ThreadPoolInit, Pending
  <2>3. PlacesInv
    BY <2>2 DEF PlacesInv, QueuedPending, HeldPending, QueuedOnce, HeldOnce, NotBoth,
                DoneAccepted, PendingFound
  <2> QED
    BY <2>1, <2>2, <2>3 DEF AwakeForTasks
<1> QED
  BY <1>1, PoolInvStep, PlacesStep, AwakeStep, PTL DEF ThreadPoolSpec

\* Type correctness of the pool (thread_pool.cpp as a whole).
THEOREM PoolTypes == ThreadPoolSpec => []ThreadPoolTypeOK
BY PoolInvariant, PTL DEF PoolInv

\* No wakeup is lost between AddTask, which notifies after its unlock, and the
\* wait of Worker.
THEOREM PoolAwakeForTasks == ThreadPoolSpec => []AwakeForTasks
BY PoolInvariant, PTL

\* Every accepted task is in exactly one place until it is done, and all are
\* done when ~ThreadPool returns, whatever tasks are added while it stops.
THEOREM PoolTasksAccountedFor == ThreadPoolSpec => []TasksAccountedFor
BY PoolInvariant, PlacesAccount, PTL
-------------------------------------------------------------------------------
(* Sums: size[m] cells for every m of a set. *)

Rows(S, size) == UNION {{m} \X (1 .. size[m]) : m \in S}

LEMMA OneRow ==
  ASSUME NEW m, NEW n \in Nat
  PROVE  IsFiniteSet({m} \X (1 .. n)) /\ Cardinality({m} \X (1 .. n)) = n
<1>1. IsFiniteSet(1 .. n) /\ Cardinality(1 .. n) = n
  <2>1. n \in Int /\ 1 \in Int
    OBVIOUS
  <2>2. IsFiniteSet(1 .. n) /\ Cardinality(1 .. n) = IF 1 > n THEN 0 ELSE n - 1 + 1
    BY <2>1, FS_Interval
  <2> QED
    BY <2>2
<1>2. IsFiniteSet({m}) /\ Cardinality({m}) = 1
  BY FS_Singleton
<1>3. /\ IsFiniteSet({m} \X (1 .. n))
      /\ Cardinality({m} \X (1 .. n)) = 1 * Cardinality(1 .. n)
  BY <1>1, <1>2, FS_Product
<1> QED
  BY <1>1, <1>3

LEMMA RowsFinite ==
  ASSUME NEW S, IsFiniteSet(S), NEW size, \A m \in S : size[m] \in Nat
  PROVE  IsFiniteSet(Rows(S, size)) /\ Cardinality(Rows(S, size)) \in Nat
<1> DEFINE T == {{m} \X (1 .. size[m]) : m \in S}
           f == [m \in S |-> {m} \X (1 .. size[m])]
<1>1. f \in Surjection(S, T)
  BY DEF Surjection
<1>2. IsFiniteSet(T)
  BY <1>1, FS_Surjection
<1>3. \A R \in T : IsFiniteSet(R)
  <2>1. ASSUME NEW m \in S PROVE IsFiniteSet({m} \X (1 .. size[m]))
    BY OneRow, size[m] \in Nat
  <2> QED
    BY <2>1
<1>4. IsFiniteSet(UNION T)
  BY <1>2, <1>3, FS_UNION
<1> QED
  BY <1>4, FS_CardinalityType DEF Rows

LEMMA RowsTogether ==
  ASSUME NEW S, NEW T, IsFiniteSet(S), IsFiniteSet(T), S \cap T = {}, NEW size,
         \A m \in S \cup T : size[m] \in Nat
  PROVE  Cardinality(Rows(S \cup T, size)) =
           Cardinality(Rows(S, size)) + Cardinality(Rows(T, size))
<1>1. IsFiniteSet(Rows(S, size)) /\ IsFiniteSet(Rows(T, size))
  BY RowsFinite
<1>2. Rows(S \cup T, size) = Rows(S, size) \cup Rows(T, size)
  BY DEF Rows
<1>3. Rows(S, size) \cap Rows(T, size) = {}
  <2> SUFFICES ASSUME NEW x \in Rows(S, size), x \in Rows(T, size)
               PROVE  FALSE
    OBVIOUS
  <2>1. PICK m \in S : x \in {m} \X (1 .. size[m])
    BY DEF Rows
  <2>2. PICK n \in T : x \in {n} \X (1 .. size[n])
    BY DEF Rows
  <2>3. x[1] = m /\ x[1] = n
    BY <2>1, <2>2
  <2> QED
    BY <2>3
<1>4. Cardinality(Rows(S, size) \cap Rows(T, size)) = 0
  BY <1>3, FS_EmptySet
<1>5. Cardinality(Rows(S, size) \cup Rows(T, size)) =
        Cardinality(Rows(S, size)) + Cardinality(Rows(T, size))
          - Cardinality(Rows(S, size) \cap Rows(T, size))
  BY <1>1, FS_Union
<1>6. Cardinality(Rows(S, size)) \in Nat /\ Cardinality(Rows(T, size)) \in Nat
  BY <1>1, FS_CardinalityType
<1>7. \A a, b \in Nat : a + b - 0 = a + b
  OBVIOUS
<1> QED
  BY <1>2, <1>4, <1>5, <1>6, <1>7

LEMMA RowsOfOne ==
  ASSUME NEW m, NEW size, size[m] \in Nat
  PROVE  Cardinality(Rows({m}, size)) = size[m]
<1>1. Rows({m}, size) = {m} \X (1 .. size[m])
  BY DEF Rows
<1> QED
  BY <1>1, OneRow

LEMMA RowsAlike ==
  ASSUME NEW S, NEW e, NEW f, \A m \in S : e[m] = f[m]
  PROVE  Rows(S, e) = Rows(S, f)
BY DEF Rows

\* Rows keep their sum when each moves by one.
LEMMA RowsShifted ==
  ASSUME NEW n \in Nat, NEW e, NEW f, \A m \in 1 .. n : e[m] \in Nat /\ f[m + 1] = e[m]
  PROVE  Cardinality(Rows(2 .. n + 1, f)) = Cardinality(Rows(1 .. n, e))
<1> DEFINE A == Rows(1 .. n, e)
           B == Rows(2 .. n + 1, f)
           g == [x \in A |-> <<x[1] + 1, x[2]>>]
<1>1. ASSUME NEW x \in A
      PROVE  x = <<x[1], x[2]>> /\ x[1] \in 1 .. n /\ x[2] \in 1 .. e[x[1]]
  <2>1. PICK m \in 1 .. n : x \in {m} \X (1 .. e[m])
    BY DEF Rows
  <2> QED
    BY <2>1
<1>2. ASSUME NEW x \in A PROVE g[x] \in B
  <2>1. x[1] + 1 \in 2 .. n + 1 /\ x[2] \in 1 .. f[x[1] + 1]
    BY <1>1
  <2>2. <<x[1] + 1, x[2]>> \in {x[1] + 1} \X (1 .. f[x[1] + 1])
    BY <2>1
  <2>3. <<x[1] + 1, x[2]>> \in B
    BY <2>1, <2>2 DEF Rows
  <2> QED
    BY <2>3
<1>3. ASSUME NEW x \in A, NEW y \in A, g[x] = g[y] PROVE x = y
  <2>1. x[1] + 1 = y[1] + 1 /\ x[2] = y[2]
    BY <1>3
  <2>2. x[1] \in Int /\ y[1] \in Int
    BY <1>1
  <2>3. x[1] = y[1]
    BY <2>1, <2>2
  <2> QED
    BY <1>1, <2>1, <2>3
<1>4. ASSUME NEW y \in B PROVE \E x \in A : g[x] = y
  <2>1. PICK m \in 2 .. n + 1 : y \in {m} \X (1 .. f[m])
    BY DEF Rows
  <2>2. y = <<m, y[2]>> /\ y[2] \in 1 .. f[m]
    BY <2>1
  <2>3. m - 1 \in 1 .. n /\ m - 1 + 1 = m
    OBVIOUS
  <2>4. y[2] \in 1 .. e[m - 1]
    BY <2>2, <2>3
  <2>5. <<m - 1, y[2]>> \in {m - 1} \X (1 .. e[m - 1])
    BY <2>4
  <2>6. <<m - 1, y[2]>> \in A
    BY <2>3, <2>5 DEF Rows
  <2>7. g[<<m - 1, y[2]>>] = <<m, y[2]>>
    BY <2>3, <2>6
  <2> QED
    BY <2>2, <2>6, <2>7
<1>5. g \in Bijection(A, B)
  <2>1. g \in [A -> B]
    BY <1>2
  <2>2. (\A x, y \in A : g[x] = g[y] => x = y) /\ (\A y \in B : \E x \in A : g[x] = y)
    BY <1>3, <1>4
  <2> HIDE DEF g, A, B
  <2>3. g \in Injection(A, B)
    BY <2>1, <2>2 DEF Injection, IsInjective
  <2>4. g \in Surjection(A, B)
    BY <2>1, <2>2 DEF Surjection
  <2> QED
    BY <2>3, <2>4 DEF Bijection
<1>6. IsFiniteSet(A)
  <2>1. IsFiniteSet(1 .. n)
    BY FS_Interval
  <2> QED
    BY <2>1, RowsFinite
<1> HIDE DEF g, A, B
<1>7. ExistsBijection(A, B)
  BY <1>5 DEF ExistsBijection
<1>8. Cardinality(B) = Cardinality(A)
  BY <1>6, <1>7, FS_Bijection
<1> QED
  BY <1>8 DEF A, B

\* Every set of natural numbers has a least member.
LEMMA Smallest ==
  ASSUME NEW T, T \subseteq Nat, T # {}
  PROVE  \E x \in T : \A y \in T : x <= y
<1> DEFINE R == {ss \in Nat \X Nat : ss[1] < ss[2]}
<1>1. OpToRel(<, Nat) = R
  BY DEF OpToRel
<1>2. IsWellFoundedOn(R, Nat)
  BY <1>1, NatLessThanWellFounded
<1>3. PICK x \in T : \A y \in T : ~(<<y, x>> \in R)
  <2> HIDE DEF R
  <2> QED
    BY <1>2, WFMin
<1>4. ASSUME NEW y \in T PROVE x <= y
  <2>1. x \in Nat /\ y \in Nat /\ ~(<<y, x>> \in R)
    BY <1>3
  <2>2. ~(y < x)
    BY <2>1
  <2> QED
    BY <2>1, <2>2
<1> QED
  BY <1>4
-------------------------------------------------------------------------------
(* Hpack: the sizes of entries. *)

LEMMA SizesAdded ==
  ASSUME NEW e \in Seq(Nat), NEW k \in 0 .. Len(e)
  PROVE  /\ SizesOf(e, 1, k) \in Nat /\ SizesOf(e, k + 1, Len(e)) \in Nat
         /\ SizesOf(e, 1, Len(e)) = SizesOf(e, 1, k) + SizesOf(e, k + 1, Len(e))
<1>1. /\ Len(e) \in Nat
      /\ \A m \in 1 .. Len(e) : e[m] \in Nat
  BY LenProperties, ElementOfSeq
<1>2. /\ 1 .. Len(e) = (1 .. k) \cup (k + 1 .. Len(e))
      /\ (1 .. k) \cap (k + 1 .. Len(e)) = {}
  BY <1>1
<1>3. IsFiniteSet(1 .. k) /\ IsFiniteSet(k + 1 .. Len(e))
  <2>1. k \in Int /\ k + 1 \in Int /\ Len(e) \in Int
    BY <1>1
  <2> QED
    BY <2>1, FS_Interval
<1>4. (\A m \in 1 .. k : e[m] \in Nat) /\ (\A m \in k + 1 .. Len(e) : e[m] \in Nat)
  BY <1>1
<1>5. Cardinality(Rows(1 .. k, e)) \in Nat /\ Cardinality(Rows(k + 1 .. Len(e), e)) \in Nat
  BY <1>3, <1>4, RowsFinite
<1>6. Cardinality(Rows((1 .. k) \cup (k + 1 .. Len(e)), e)) =
        Cardinality(Rows(1 .. k, e)) + Cardinality(Rows(k + 1 .. Len(e), e))
  <2>1. \A m \in (1 .. k) \cup (k + 1 .. Len(e)) : e[m] \in Nat
    BY <1>4
  <2> QED
    BY <1>2, <1>3, <2>1, RowsTogether
<1> QED
  BY <1>2, <1>5, <1>6 DEF SizesOf, Rows

LEMMA SizesOfNone == ASSUME NEW e PROVE SizesOf(e, 1, 0) = 0
<1>1. 1 .. 0 = {}
  OBVIOUS
<1>2. Rows({}, e) = {}
  BY DEF Rows
<1> QED
  BY <1>1, <1>2, FS_EmptySet DEF SizesOf, Rows

LEMMA SizesLeft ==
  ASSUME NEW e \in Seq(Nat), NEW k \in 0 .. Len(e)
  PROVE  /\ SubSeq(e, 1, k) \in Seq(Nat) /\ Len(SubSeq(e, 1, k)) = k
         /\ SizesOf(SubSeq(e, 1, k), 1, k) = SizesOf(e, 1, k)
<1>1. Len(e) \in Nat
  BY LenProperties
<1>2. /\ SubSeq(e, 1, k) \in Seq(Nat)
      /\ Len(SubSeq(e, 1, k)) = k
      /\ \A m \in 1 .. k : SubSeq(e, 1, k)[m] = e[m]
  <2>1. \A m \in 1 .. k : e[m] \in Nat
    BY <1>1, ElementOfSeq
  <2> QED
    BY <1>1, <2>1, SubSeqProperties
<1>3. Rows(1 .. k, SubSeq(e, 1, k)) = Rows(1 .. k, e)
  BY <1>2, RowsAlike
<1> QED
  BY <1>2, <1>3 DEF SizesOf, Rows

LEMMA SizesInFront ==
  ASSUME NEW e \in Seq(Nat), NEW size \in Nat
  PROVE  /\ <<size>> \o e \in Seq(Nat) /\ Len(<<size>> \o e) = Len(e) + 1
         /\ SizesOf(<<size>> \o e, 1, Len(e) + 1) = size + SizesOf(e, 1, Len(e))
<1> DEFINE f == <<size>> \o e
           n == Len(e)
<1>1. n \in Nat
  BY LenProperties
<1>2. /\ f \in Seq(Nat) /\ Len(f) = n + 1 /\ f[1] = size
      /\ \A m \in 1 .. n : f[m + 1] = e[m]
  <2>1. /\ <<size>> \in Seq(Nat) /\ Len(<<size>>) = 1 /\ <<size>>[1] = size
    OBVIOUS
  <2>2. /\ f \in Seq(Nat) /\ Len(f) = 1 + n
        /\ \A m \in 1 .. 1 + n : f[m] = IF m <= 1 THEN <<size>>[m] ELSE e[m - 1]
    BY <2>1, ConcatProperties
  <2>3. ASSUME NEW m \in 1 .. n PROVE f[m + 1] = e[m]
    <3>1. m + 1 \in 1 .. 1 + n /\ ~(m + 1 <= 1) /\ m + 1 - 1 = m
      BY <1>1
    <3> HIDE DEF f, n
    <3> QED
      BY <2>2, <3>1
  <2> HIDE DEF f, n
  <2>4. 1 \in 1 .. 1 + n /\ 1 + n = n + 1
    BY <1>1
  <2> QED
    BY <2>1, <2>2, <2>3, <2>4
<1>3. \A m \in 1 .. n : e[m] \in Nat
  BY ElementOfSeq
<1> HIDE DEF f, n
<1>4. SizesOf(f, 1, n + 1) = SizesOf(f, 1, 1) + SizesOf(f, 2, n + 1)
  <2>1. 1 \in 0 .. Len(f) /\ 1 + 1 = 2
    BY <1>1, <1>2
  <2> QED
    BY <1>2, <2>1, SizesAdded
<1>5. SizesOf(f, 1, 1) = size
  <2>1. 1 .. 1 = {1}
    OBVIOUS
  <2>2. Cardinality(Rows({1}, f)) = size
    BY <1>2, RowsOfOne
  <2> QED
    BY <2>1, <2>2 DEF SizesOf, Rows
<1>6. SizesOf(f, 2, n + 1) = SizesOf(e, 1, n)
  <2>1. Cardinality(Rows(2 .. n + 1, f)) = Cardinality(Rows(1 .. n, e))
    BY <1>1, <1>2, <1>3, RowsShifted
  <2> QED
    BY <2>1 DEF SizesOf, Rows
<1> QED
  BY <1>2, <1>4, <1>5, <1>6 DEF f, n
-------------------------------------------------------------------------------
(* Hpack: the table. *)

\* The counters of table t tell the truth.
Exact(t) ==
  /\ t.entries \in Seq(Nat)
  /\ t.count = Len(t.entries)
  /\ t.usage = SizesOf(t.entries, 1, Len(t.entries))

LEMMA ExactNumbers ==
  ASSUME NEW t, Exact(t)
  PROVE  Len(t.entries) \in Nat /\ t.count \in Nat /\ t.usage \in Nat
<1>1. t.entries \in Seq(Nat) /\ Len(t.entries) \in Nat
  BY LenProperties DEF Exact
<1>2. Len(t.entries) \in 0 .. Len(t.entries)
  BY <1>1
<1>3. SizesOf(t.entries, 1, Len(t.entries)) \in Nat
  BY <1>1, <1>2, SizesAdded
<1> QED
  BY <1>1, <1>3 DEF Exact

\* EvictDynamicTable takes the sizes of what it drops off the usage.
LEMMA Evicted ==
  ASSUME NEW t, Exact(t), NEW k \in 0 .. Len(t.entries)
  PROVE  /\ Exact(EvictOldest(t, k))
         /\ EvictOldest(t, k).usage <= t.usage
         /\ EvictOldest(t, k).entries = SubSeq(t.entries, 1, Len(t.entries) - k)
         /\ Len(EvictOldest(t, k).entries) = Len(t.entries) - k
<1> DEFINE e == t.entries
           left == Len(e) - k
           u == EvictOldest(t, k)
<1>1. e \in Seq(Nat) /\ Len(e) \in Nat /\ t.count = Len(e) /\ t.usage = SizesOf(e, 1, Len(e))
  BY ExactNumbers DEF Exact
<1>2. u = [entries |-> SubSeq(e, 1, left), usage |-> t.usage - SizesOf(e, left + 1, Len(e)),
           count |-> t.count - k]
  BY DEF EvictOldest
<1>3. left \in 0 .. Len(e)
  BY <1>1
<1>4. /\ u.entries = SubSeq(e, 1, left) /\ u.usage = t.usage - SizesOf(e, left + 1, Len(e))
      /\ u.count = left
  BY <1>1, <1>2
<1> HIDE DEF u, left, e
<1>5. /\ SizesOf(e, 1, left) \in Nat /\ SizesOf(e, left + 1, Len(e)) \in Nat
      /\ SizesOf(e, 1, Len(e)) = SizesOf(e, 1, left) + SizesOf(e, left + 1, Len(e))
  BY <1>1, <1>3, SizesAdded
<1>6. /\ u.entries \in Seq(Nat) /\ Len(u.entries) = left
      /\ SizesOf(u.entries, 1, left) = SizesOf(e, 1, left)
  BY <1>1, <1>3, <1>4, SizesLeft
<1>7. u.usage = SizesOf(e, 1, left) /\ u.usage <= t.usage
  BY <1>1, <1>4, <1>5
<1>8. Exact(u)
  BY <1>4, <1>6, <1>7 DEF Exact
<1> QED
  BY <1>4, <1>6, <1>7, <1>8 DEF u, left, e

\* The loop of AddToDynamicTable makes room for an entry that is within the
\* limit: in the end the table may be empty, and its usage is zero then.
LEMMA RoomMade ==
  ASSUME NEW t, Exact(t), NEW size \in Nat, max_dynamic_table_size_ \in Nat,
         size <= max_dynamic_table_size_
  PROVE  /\ Exact(EvictFor(t, size))
         /\ EvictFor(t, size).usage + size <= max_dynamic_table_size_
         /\ Len(EvictFor(t, size).entries) <= Len(t.entries)
<1> DEFINE all == Len(t.entries)
           Enough(k) == k = all \/ EvictOldest(t, k).usage + size <= max_dynamic_table_size_
           T == {k \in 0 .. all : Enough(k)}
           n == Evictions(t, size)
<1>1. all \in Nat
  BY ExactNumbers
<1>2. all \in T /\ T \subseteq Nat
  BY <1>1
<1>3. n = Min(T)
  BY DEF Evictions
<1>4. n \in T
  <2> HIDE DEF T, n
  <2>1. \E x \in T : \A y \in T : x <= y
    BY <1>2, Smallest
  <2> QED
    BY <1>3, <2>1 DEF Min
<1>5. n \in 0 .. all /\ Enough(n)
  BY <1>4
<1> HIDE DEF n, T
<1>6. /\ Exact(EvictOldest(t, n)) /\ Len(EvictOldest(t, n).entries) = all - n
  BY <1>5, Evicted
<1>7. EvictOldest(t, n).usage + size <= max_dynamic_table_size_
  <2>1. CASE n = all
    <3>1. Len(EvictOldest(t, n).entries) = 0
      BY <1>1, <1>6, <2>1
    <3>2. EvictOldest(t, n).usage = 0
      BY <1>6, <3>1, SizesOfNone DEF Exact
    <3> QED
      BY <3>2
  <2>2. CASE EvictOldest(t, n).usage + size <= max_dynamic_table_size_
    BY <2>2
  <2> QED
    BY <1>5, <2>1, <2>2
<1>8. all - n <= all
  BY <1>1, <1>5
<1>9. EvictFor(t, size) = EvictOldest(t, n)
  BY DEF EvictFor, n
<1> QED
  BY <1>6, <1>7, <1>8, <1>9

LEMMA Inserted ==
  ASSUME NEW t, Exact(t), NEW size \in Nat
  PROVE  /\ Exact(Insert(t, size))
         /\ Insert(t, size).usage = t.usage + size
         /\ Len(Insert(t, size).entries) = Len(t.entries) + 1
<1> DEFINE u == Insert(t, size)
<1>1. u.entries = <<size>> \o t.entries /\ u.usage = t.usage + size /\ u.count = t.count + 1
  BY DEF Insert
<1>2. t.entries \in Seq(Nat) /\ t.usage \in Nat /\ t.count = Len(t.entries)
  BY ExactNumbers DEF Exact
<1>3. /\ <<size>> \o t.entries \in Seq(Nat)
      /\ Len(<<size>> \o t.entries) = Len(t.entries) + 1
      /\ SizesOf(<<size>> \o t.entries, 1, Len(t.entries) + 1)
           = size + SizesOf(t.entries, 1, Len(t.entries))
  BY <1>2, SizesInFront
<1> HIDE DEF u
<1>4. t.usage + size = size + SizesOf(t.entries, 1, Len(t.entries))
  BY <1>2 DEF Exact
<1>5. Exact(u)
  BY <1>1, <1>2, <1>3, <1>4 DEF Exact
<1> QED
  BY <1>1, <1>3, <1>5 DEF u

\* AddToDynamicTable leaves the table as it is, for an entry over the limit, or
\* within the limit.
LEMMA EntryAdded ==
  ASSUME NEW t, Exact(t), NEW size \in Nat, max_dynamic_table_size_ \in Nat
  PROVE  LET u == AddToDynamicTable(t, size)
         IN  /\ Exact(u) /\ Len(u.entries) <= Len(t.entries) + 1
             /\ IF size > max_dynamic_table_size_ THEN u = t
                ELSE u.usage <= max_dynamic_table_size_
<1>1. CASE size > max_dynamic_table_size_
  <2>1. AddToDynamicTable(t, size) = t
    BY <1>1 DEF AddToDynamicTable
  <2>2. Len(t.entries) <= Len(t.entries) + 1
    BY ExactNumbers
  <2> QED
    BY <1>1, <2>1, <2>2
<1>2. CASE ~(size > max_dynamic_table_size_)
  <2> DEFINE room == EvictFor(t, size)
  <2>1. AddToDynamicTable(t, size) = Insert(room, size)
    BY <1>2 DEF AddToDynamicTable
  <2>2. size <= max_dynamic_table_size_
    BY <1>2
  <2>3. /\ Exact(room) /\ room.usage + size <= max_dynamic_table_size_
        /\ Len(room.entries) <= Len(t.entries)
    BY <2>2, RoomMade
  <2> HIDE DEF room
  <2>4. /\ Exact(Insert(room, size)) /\ Insert(room, size).usage = room.usage + size
        /\ Len(Insert(room, size).entries) = Len(room.entries) + 1
    BY <2>3, Inserted
  <2>5. Len(room.entries) + 1 <= Len(t.entries) + 1
    <3>1. Len(room.entries) \in Nat /\ Len(t.entries) \in Nat
      BY <2>3, ExactNumbers
    <3> QED
      BY <2>3, <3>1
  <2> QED
    BY <1>2, <2>1, <2>3, <2>4, <2>5
<1> QED
  BY <1>1, <1>2
-------------------------------------------------------------------------------
\* The usage stays below the limit the table began with, whatever the limit is
\* now, so that usage and an entry within the limit add up to less than twice
\* that: far from the width of an unsigned.
HpackInv == TableUsageExact /\ dynamic_table_usage_ <= InitialTableSize

LEMMA HpackInitial == HpackInit => HpackInv
<1> SUFFICES ASSUME HpackInit PROVE HpackInv
  OBVIOUS
<1>1. <<>> \in Seq(Nat) /\ Len(<<>>) = 0
  OBVIOUS
<1>2. SizesOf(<<>>, 1, 0) = 0
  BY SizesOfNone
<1>3. /\ max_dynamic_table_size_ = InitialTableSize /\ InitialTableSize \in Nat
      /\ MaxEntries \in Nat /\ dynamic_table_size_ = 0 /\ dynamic_table_usage_ = 0
      /\ dynamic_table_ = <<>> /\ decoding = FALSE /\ pending_update = FALSE
  BY HpackAssumption DEF HpackInit
<1>4. HpackTypeOK
  <2>1. InitialTableSize \in 0 .. InitialTableSize /\ 0 \in 0 .. MaxEntries
    BY <1>3
  <2>2. dynamic_table_ \in Seq(Nat)
    BY <1>1, <1>3
  <2> QED
    BY <1>3, <2>1, <2>2 DEF HpackTypeOK
<1>5. dynamic_table_usage_ = SizesOf(dynamic_table_, 1, Len(dynamic_table_))
  BY <1>1, <1>2, <1>3
<1>6. dynamic_table_size_ = Len(dynamic_table_) /\ dynamic_table_usage_ <= InitialTableSize
  BY <1>1, <1>3
<1> QED
  BY <1>4, <1>5, <1>6 DEF HpackInv, TableUsageExact

LEMMA TableExact ==
  ASSUME HpackInv
  PROVE  Exact(Table) /\ Table.entries = dynamic_table_ /\ Table.usage = dynamic_table_usage_
BY DEF HpackInv, TableUsageExact, HpackTypeOK, Exact, Table

\* What TableBecomes shows of the table it is given shows of the variables.
LEMMA TableStep ==
  ASSUME HpackInv, NEW t, Exact(t), t.usage <= InitialTableSize,
         Len(t.entries) <= MaxEntries, TableBecomes(t),
         max_dynamic_table_size_' \in 0 .. InitialTableSize,
         decoding' \in BOOLEAN, pending_update' \in BOOLEAN
  PROVE  HpackInv'
<1>1. t.count \in 0 .. MaxEntries /\ t.usage \in Nat /\ t.entries \in Seq(Nat)
  BY ExactNumbers, HpackAssumption DEF Exact
<1>2. HpackTypeOK'
  BY <1>1 DEF TableBecomes, HpackTypeOK
<1> QED
  BY <1>2 DEF HpackInv, TableUsageExact, TableBecomes, Exact

\* A field that is entered keeps the invariant, and ends within the limit of
\* that time if its entry is not larger than that.
LEMMA FieldEntered ==
  ASSUME HpackInv, NEW name \in NameSizes, NEW value \in ValueSizes, LiteralField(name, value)
  PROVE  /\ HpackInv'
         /\ name + value + EntryOverhead <= max_dynamic_table_size_
              => dynamic_table_usage_' <= max_dynamic_table_size_'
<1> DEFINE size == name + value + EntryOverhead
           u == AddToDynamicTable(Table, size)
<1>1. /\ Exact(Table) /\ Table.entries = dynamic_table_ /\ Table.usage = dynamic_table_usage_
      /\ Len(dynamic_table_) \in Nat /\ dynamic_table_usage_ \in Nat
  BY TableExact, ExactNumbers
<1>2. /\ max_dynamic_table_size_ \in 0 .. InitialTableSize
      /\ decoding \in BOOLEAN /\ dynamic_table_usage_ <= InitialTableSize
      /\ InitialTableSize \in Nat /\ MaxEntries \in Nat
  BY HpackAssumption DEF HpackInv, TableUsageExact, HpackTypeOK
<1>3. size \in Nat
  BY HpackAssumption DEF EntryOverhead
<1>4. /\ TableBecomes(u) /\ Len(dynamic_table_) < MaxEntries
      /\ max_dynamic_table_size_' = max_dynamic_table_size_
      /\ decoding' \in BOOLEAN /\ pending_update' \in BOOLEAN
  BY <1>2 DEF LiteralField
<1> HIDE DEF size
<1>5. /\ Exact(u) /\ Len(u.entries) <= Len(dynamic_table_) + 1
      /\ IF size > max_dynamic_table_size_ THEN u = Table
         ELSE u.usage <= max_dynamic_table_size_
  <2>1. max_dynamic_table_size_ \in Nat
    BY <1>2
  <2> QED
    BY <1>1, <1>3, <2>1, EntryAdded
<1> HIDE DEF u
<1>6. Len(u.entries) \in Nat /\ u.usage \in Nat
  BY <1>5, ExactNumbers
<1>7. u.usage <= InitialTableSize
  BY <1>1, <1>2, <1>5, <1>6
<1>8. Len(u.entries) <= MaxEntries
  BY <1>1, <1>2, <1>4, <1>5, <1>6
<1>9. HpackInv'
  BY <1>2, <1>4, <1>5, <1>7, <1>8, TableStep
<1>10. ASSUME size <= max_dynamic_table_size_
       PROVE  dynamic_table_usage_' <= max_dynamic_table_size_'
  <2>1. u.usage <= max_dynamic_table_size_
    BY <1>2, <1>3, <1>5, <1>10
  <2> QED
    BY <1>4, <2>1 DEF TableBecomes
<1> QED
  BY <1>9, <1>10 DEF size

\* Every step keeps the invariant.
LEMMA HpackStep ==
  ASSUME HpackInv, [HpackNext]_hpackVars
  PROVE  HpackInv'
<1>1. /\ Exact(Table) /\ Table.entries = dynamic_table_ /\ Table.usage = dynamic_table_usage_
      /\ Len(dynamic_table_) \in Nat /\ dynamic_table_usage_ \in Nat
  BY TableExact, ExactNumbers
<1>2. /\ max_dynamic_table_size_ \in 0 .. InitialTableSize /\ Len(dynamic_table_) <= MaxEntries
      /\ decoding \in BOOLEAN /\ pending_update \in BOOLEAN
      /\ dynamic_table_usage_ <= InitialTableSize
      /\ dynamic_table_ \in Seq(Nat) /\ dynamic_table_ = SubSeq(dynamic_table_, 1, Len(dynamic_table_))
      /\ InitialTableSize \in Nat /\ MaxEntries \in Nat
  <2>1. dynamic_table_ \in Seq(Nat)
    BY DEF HpackInv, TableUsageExact, HpackTypeOK
  <2> QED
    BY <2>1, SubSeqFull, HpackAssumption DEF HpackInv, TableUsageExact, HpackTypeOK
<1>3. ASSUME UNCHANGED <<max_dynamic_table_size_, dynamic_table_size_, dynamic_table_usage_,
                         dynamic_table_>>,
             decoding' \in BOOLEAN, pending_update' \in BOOLEAN
      PROVE  HpackInv'
  BY <1>3 DEF HpackInv, TableUsageExact, HpackTypeOK
<1>4. CASE DecodeBegin
  BY <1>2, <1>3, <1>4 DEF DecodeBegin
<1>5. CASE IndexedField
  BY <1>2, <1>3, <1>5 DEF IndexedField
<1>6. ASSUME NEW name \in NameSizes, NEW value \in ValueSizes, LiteralField(name, value)
      PROVE  HpackInv'
  BY <1>6, FieldEntered
<1>7. ASSUME NEW new_size \in TableSizes, UpdateDynamicTableSize(new_size)
      PROVE  HpackInv'
  <2> DEFINE u == EvictDynamicTable(Table)
             k == IF dynamic_table_ = <<>> THEN 0 ELSE 1
  <2>1. /\ TableBecomes(u) /\ max_dynamic_table_size_' = new_size
        /\ new_size <= max_dynamic_table_size_ /\ new_size \in Nat
        /\ decoding' \in BOOLEAN /\ pending_update' \in BOOLEAN
    BY <1>2, <1>7, HpackAssumption DEF UpdateDynamicTableSize
  <2>2. k \in 0 .. Len(dynamic_table_)
    <3>1. dynamic_table_ # <<>> => Len(dynamic_table_) # 0
      BY <1>2, EmptySeq
    <3> QED
      BY <1>1, <3>1
  <2>3. /\ Exact(u) /\ u.usage <= dynamic_table_usage_
        /\ u.entries = SubSeq(dynamic_table_, 1, Len(dynamic_table_) - k)
        /\ Len(u.entries) = Len(dynamic_table_) - k
    <3>1. CASE dynamic_table_ = <<>>
      <4>1. u = Table /\ k = 0
        BY <1>1, <3>1 DEF EvictDynamicTable
      <4>2. Len(dynamic_table_) - 0 = Len(dynamic_table_)
        BY <1>1
      <4> HIDE DEF u, k
      <4>3. Len(dynamic_table_) - k = Len(dynamic_table_) /\ dynamic_table_usage_ <= dynamic_table_usage_
        BY <1>1, <4>1, <4>2
      <4>4. Exact(u) /\ u.usage = dynamic_table_usage_ /\ u.entries = dynamic_table_
        BY <1>1, <4>1
      <4> QED
        BY <1>2, <4>3, <4>4
    <3>2. CASE dynamic_table_ # <<>>
      <4>1. u = EvictOldest(Table, 1) /\ k = 1
        BY <1>1, <3>2 DEF EvictDynamicTable
      <4>2. 1 \in 0 .. Len(Table.entries)
        BY <1>1, <2>2, <4>1
      <4> HIDE DEF u, k
      <4>3. /\ Exact(EvictOldest(Table, 1)) /\ EvictOldest(Table, 1).usage <= Table.usage
            /\ EvictOldest(Table, 1).entries = SubSeq(Table.entries, 1, Len(Table.entries) - 1)
            /\ Len(EvictOldest(Table, 1).entries) = Len(Table.entries) - 1
        BY <1>1, <4>2, Evicted
      <4> QED
        BY <1>1, <4>1, <4>3
    <3> QED
      BY <3>1, <3>2
  <2> HIDE DEF u, k
  <2>4. Len(dynamic_table_) - k \in 0 .. Len(dynamic_table_)
    BY <1>1, <2>2
  <2>5. u.usage <= InitialTableSize /\ Len(u.entries) <= MaxEntries
    <3>1. u.usage \in Nat
      BY <2>3, ExactNumbers
    <3> QED
      BY <1>1, <1>2, <2>3, <2>4, <3>1
  <2>6. max_dynamic_table_size_' \in 0 .. InitialTableSize
    BY <1>2, <2>1
  <2> QED
    BY <2>1, <2>3, <2>5, <2>6, TableStep
<1>8. CASE DecodeFails
  BY <1>2, <1>3, <1>8 DEF DecodeFails
<1>9. CASE DecodeEnd
  BY <1>2, <1>3, <1>9 DEF DecodeEnd
<1>10. CASE Reset
  <2> DEFINE t == [entries |-> <<>>, usage |-> 0, count |-> 0]
  <2>1. /\ TableBecomes(t) /\ max_dynamic_table_size_' = max_dynamic_table_size_
        /\ decoding' = decoding /\ pending_update' = pending_update
    BY <1>10 DEF Reset
  <2>2. Exact(t) /\ t.usage <= InitialTableSize /\ Len(t.entries) <= MaxEntries
    <3>1. <<>> \in Seq(Nat) /\ Len(<<>>) = 0
      OBVIOUS
    <3> QED
      BY <1>2, <3>1, SizesOfNone DEF Exact
  <2> HIDE DEF t
  <2> QED
    BY <1>2, <2>1, <2>2, TableStep
<1>11. CASE UNCHANGED hpackVars
  BY <1>2, <1>3, <1>11 DEF hpackVars
<1> QED
  BY <1>4, <1>5, <1>6, <1>7, <1>8, <1>9, <1>10, <1>11 DEF HpackNext

LEMMA HpackAlways == HpackSpec => []HpackInv
<1>1. HpackInit => HpackInv
  BY HpackInitial
<1>2. HpackInv /\ [HpackNext]_hpackVars => HpackInv'
  BY HpackStep
<1> QED
  BY <1>1, <1>2, PTL DEF HpackSpec

\* The counters of the dynamic table are the number and the sizes of its
\* entries, whatever is added, dropped or refused in whatever order
\* (AddToDynamicTable, EvictDynamicTable, UpdateDynamicTableSize).
THEOREM HpackUsageExact == HpackSpec => []TableUsageExact
<1>1. HpackInv => TableUsageExact
  BY DEF HpackInv
<1> QED
  BY <1>1, HpackAlways, PTL

\* An entry that is not larger than the limit is added within it, even after
\* UpdateDynamicTableSize left the table above it (AddToDynamicTable).
THEOREM HpackInsertFits == HpackSpec => InsertFits
<1>1. HpackInv /\ [HpackNext]_hpackVars
        => [\A name \in NameSizes, value \in ValueSizes :
              LiteralField(name, value)
              /\ name + value + EntryOverhead <= max_dynamic_table_size_
                => dynamic_table_usage_' <= max_dynamic_table_size_']_hpackVars
  BY FieldEntered
<1> QED
  BY <1>1, HpackAlways, PTL DEF HpackSpec, InsertFits
-------------------------------------------------------------------------------
(* Arithmetic modulo the width of a type. *)

LEMMA Divided ==
  ASSUME NEW a \in Int, NEW m \in Nat \ {0}
  PROVE  a % m \in 0 .. m - 1 /\ \E q \in Int : a = q * m + (a % m)
<1>1. a % m \in 0 .. m - 1
  OBVIOUS
<1>2. a = (a \div m) * m + (a % m)
  OBVIOUS
<1>3. a \div m \in Int
  OBVIOUS
<1> QED BY <1>1, <1>2, <1>3

LEMMA Remainder ==
  ASSUME NEW m \in Nat \ {0}, NEW q \in Int, NEW r \in 0 .. m - 1
  PROVE  (q * m + r) % m = r
OBVIOUS

LEMMA Multiples ==
  ASSUME NEW a \in Int, NEW q \in Int, NEW m \in Nat \ {0}
  PROVE  (a + q * m) % m = a % m
<1>1. a % m \in 0 .. m - 1
  BY Divided
<1>2. PICK p \in Int : a = p * m + (a % m)
  BY Divided
<1> DEFINE r == a % m
<1> HIDE DEF r
<1>3. a + q * m = (p + q) * m + r
  <2>1. a = p * m + r
    BY <1>2 DEF r
  <2>2. (p + q) * m = p * m + q * m
    OBVIOUS
  <2>3. p * m \in Int /\ q * m \in Int /\ r \in Int
    BY <1>1 DEF r
  <2> QED
    BY <2>1, <2>2, <2>3
<1>4. ((p + q) * m + r) % m = r
  <2>1. p + q \in Int /\ r \in 0 .. m - 1
    BY <1>1 DEF r
  <2> QED
    BY <2>1, Remainder
<1> QED BY <1>3, <1>4 DEF r

\* What is counted modulo m may be added to before or after the remainder.
LEMMA AddedModulo ==
  ASSUME NEW a \in Int, NEW s \in Int, NEW m \in Nat \ {0}
  PROVE  ((a % m) + s) % m = (a + s) % m
<1>1. a % m \in Int
  BY Divided
<1>2. PICK q \in Int : a = q * m + (a % m)
  BY Divided
<1> DEFINE r == a % m
<1>3. a = q * m + r /\ r \in Int
  BY <1>1, <1>2
<1> HIDE DEF r
<1>4. a + s = (r + s) + q * m
  <2>1. q * m \in Int
    OBVIOUS
  <2> QED
    BY <1>3, <2>1
<1>5. ((r + s) + q * m) % m = (r + s) % m
  <2>1. r + s \in Int
    BY <1>3
  <2> QED
    BY <2>1, Multiples
<1> QED BY <1>4, <1>5 DEF r

\* A sum equal modulo m stays so when the same is added.
LEMMA EqualModulo ==
  ASSUME NEW a \in Int, NEW f \in Int, NEW l \in Int, NEW s \in Int, NEW m \in Nat \ {0},
         (a + f) % m = l % m
  PROVE  (((a + s) % m) + f) % m = (l + s) % m
<1> a + s \in Int /\ a + f \in Int
  OBVIOUS
<1>1. (((a + s) % m) + f) % m = ((a + s) + f) % m
  BY AddedModulo
<1>2. (a + s) + f = (a + f) + s
  OBVIOUS
<1>3. ((a + f) + s) % m = (((a + f) % m) + s) % m
  BY AddedModulo
<1>4. ((l % m) + s) % m = (l + s) % m
  BY AddedModulo
<1> QED BY <1>1, <1>2, <1>3, <1>4
-------------------------------------------------------------------------------
(* MemoryPool: slabs and the blocks that are out. *)

\* The blocks of live that belong to slab.
Out(slab, live1) == {b \in live1 : b.base = slab.base}

\* The places of a slab that are marked used, of the first size.
Marks(slab, size) == {k \in 1 .. size : slab.used[k]}

\* A slab of class c knows which of its blocks are out.
SlabAgrees(c, slab, live1) ==
  /\ slab \in Slab
  /\ Len(slab.used) = BlockCount[c]
  /\ {b.index : b \in Out(slab, live1)} = Marks(slab, BlockCount[c])
  /\ slab.free_count = BlockCount[c] - Cardinality(Out(slab, live1))
  /\ \A b \in Out(slab, live1) : b.size <= Limit[c]

\* Slabs sl and blocks bl after top allocations from the system.
PlacesAgree(sl, bl, top) ==
  /\ sl \in [SlabClasses -> Seq(Slab)]
  /\ bl \subseteq Block /\ IsFiniteSet(bl)
  /\ \A b \in bl : b.base <= top
  /\ \A b, d \in bl : b.base = d.base /\ b.index = d.index => b = d
  /\ \A c \in SlabClasses : \A n \in 1 .. Len(sl[c]) :
       sl[c][n].base <= top /\ SlabAgrees(c, sl[c][n], bl)
  /\ \A c, d \in SlabClasses : \A n \in 1 .. Len(sl[c]), m \in 1 .. Len(sl[d]) :
       sl[c][n].base = sl[d][m].base => c = d /\ n = m
  /\ \A b \in bl : (GetSizeClass(b.size) # "HUGE")
                     <=> \E c \in SlabClasses : \E n \in 1 .. Len(sl[c]) : sl[c][n].base = b.base

\* The places of slabs sl that are not in use.
FreeIn(sl) == UNION {Free(slab) : slab \in UNION {Range(sl[c]) : c \in SlabClasses}}

LEMMA Numbers ==
  ASSUME NEW sl, NEW bl, NEW top \in Nat, PlacesAgree(sl, bl, top),
         NEW c \in SlabClasses, NEW n \in 1 .. Len(sl[c])
  PROVE  /\ Len(sl[c]) \in Nat /\ sl[c] \in Seq(Slab) /\ BlockCount[c] \in Nat \ {0}
         /\ sl[c][n] \in Slab /\ sl[c][n].base \in Nat /\ sl[c][n].base <= top
         /\ sl[c][n].used \in Seq(BOOLEAN) /\ sl[c][n].free_count \in Nat
         /\ Len(sl[c][n].used) = BlockCount[c] /\ DOMAIN sl[c][n].used = 1 .. BlockCount[c]
         /\ \A k \in 1 .. BlockCount[c] : sl[c][n].used[k] \in BOOLEAN
         /\ SlabAgrees(c, sl[c][n], bl)
<1>1. sl[c] \in Seq(Slab) /\ BlockCount[c] \in Nat \ {0}
  BY MemoryAssumption DEF PlacesAgree
<1>2. Len(sl[c]) \in Nat /\ sl[c][n] \in Slab
  BY <1>1, LenProperties, ElementOfSeq
<1>3. SlabAgrees(c, sl[c][n], bl) /\ sl[c][n].base <= top
  BY DEF PlacesAgree
<1> DEFINE slab == sl[c][n]
<1>4. slab.base \in Nat /\ slab.used \in Seq(BOOLEAN) /\ slab.free_count \in Nat
  BY <1>2 DEF Slab
<1>5. Len(slab.used) = BlockCount[c]
  BY <1>3 DEF SlabAgrees
<1> HIDE DEF slab
<1>6. DOMAIN slab.used = 1 .. BlockCount[c]
  BY <1>4, <1>5, LenProperties
<1>7. \A k \in 1 .. BlockCount[c] : slab.used[k] \in BOOLEAN
  BY <1>4, <1>5, ElementOfSeq
<1> QED
  BY <1>1, <1>2, <1>3, <1>4, <1>5, <1>6, <1>7 DEF slab

LEMMA InFree ==
  ASSUME NEW sl \in [SlabClasses -> Seq(Slab)], NEW x
  PROVE  x \in FreeIn(sl)
           <=> \E c \in SlabClasses : \E n \in 1 .. Len(sl[c]) : x \in Free(sl[c][n])
<1>1. \A c \in SlabClasses : Range(sl[c]) = {sl[c][n] : n \in 1 .. Len(sl[c])}
  <2> SUFFICES ASSUME NEW c \in SlabClasses
               PROVE  Range(sl[c]) = {sl[c][n] : n \in 1 .. Len(sl[c])}
    OBVIOUS
  <2>1. DOMAIN sl[c] = 1 .. Len(sl[c])
    BY LenProperties
  <2> QED
    BY <2>1 DEF Range
<1>2. x \in FreeIn(sl) <=> \E c \in SlabClasses : \E slab \in Range(sl[c]) : x \in Free(slab)
  BY DEF FreeIn
<1> QED
  BY <1>1, <1>2

\* A slab that counts a free block has one, and FirstFree finds it.
LEMMA FirstFreeFound ==
  ASSUME NEW c \in SlabClasses, NEW slab, NEW bl, IsFiniteSet(bl), bl \subseteq Block,
         \A b, d \in bl : b.base = d.base /\ b.index = d.index => b = d,
         SlabAgrees(c, slab, bl), slab.free_count > 0
  PROVE  FirstFree(slab) \in 1 .. BlockCount[c] /\ ~slab.used[FirstFree(slab)]
<1> DEFINE out == Out(slab, bl)
           In == {k \in 1 .. BlockCount[c] : slab.used[k]}
           T == {k \in 1 .. BlockCount[c] : ~slab.used[k]}
           f == [b \in out |-> b.index]
<1>1. BlockCount[c] \in Nat /\ slab \in Slab /\ slab.used \in Seq(BOOLEAN)
      /\ Len(slab.used) = BlockCount[c] /\ slab.free_count \in Nat
      /\ slab.free_count = BlockCount[c] - Cardinality(out)
      /\ {b.index : b \in out} = In
  BY MemoryAssumption DEF SlabAgrees, Slab, Marks
<1>2. DOMAIN slab.used = 1 .. BlockCount[c]
  BY <1>1, LenProperties
<1>3. IsFiniteSet(out)
  BY FS_Subset DEF Out
<1>4. f \in Surjection(out, In)
  BY <1>1 DEF Surjection
<1>5. Cardinality(In) <= Cardinality(out)
  BY <1>3, <1>4, FS_Surjection
<1>6. IsFiniteSet(1 .. BlockCount[c]) /\ Cardinality(1 .. BlockCount[c]) = BlockCount[c]
  <2>1. 1 \in Int /\ BlockCount[c] \in Int
    BY <1>1
  <2>2. /\ IsFiniteSet(1 .. BlockCount[c])
        /\ Cardinality(1 .. BlockCount[c]) = IF 1 > BlockCount[c] THEN 0 ELSE BlockCount[c] - 1 + 1
    BY <2>1, FS_Interval
  <2> QED
    BY <1>1, <2>2
<1>7. IsFiniteSet(In) /\ Cardinality(In) \in Nat /\ Cardinality(out) \in Nat
  <2>1. In \in SUBSET (1 .. BlockCount[c])
    OBVIOUS
  <2> QED
    BY <1>3, <1>6, <2>1, FS_Subset, FS_CardinalityType
<1>8. T # {}
  <2> SUFFICES ASSUME T = {} PROVE FALSE
    OBVIOUS
  <2>1. In = 1 .. BlockCount[c]
    BY <1>1
  <2>2. Cardinality(In) = BlockCount[c]
    BY <1>6, <2>1
  <2> HIDE DEF In, out
  <2> QED
    BY <1>1, <1>5, <1>7, <2>2
<1>9. T \subseteq Nat
  BY <1>1
<1>10. PICK n \in T : \A k \in T : n <= k
  <2> HIDE DEF T
  <2> QED
    BY <1>8, <1>9, Smallest
<1>11. n \in DOMAIN slab.used /\ ~slab.used[n] /\ \A m \in 1 .. n - 1 : slab.used[m]
  <2>1. n \in 1 .. BlockCount[c] /\ ~slab.used[n]
    BY <1>10
  <2>2. ASSUME NEW m \in 1 .. n - 1 PROVE slab.used[m]
    <3>1. m \in 1 .. BlockCount[c] /\ ~(n <= m)
      BY <1>1, <2>1
    <3>2. m \notin T
      BY <1>10, <3>1
    <3> QED
      BY <3>1, <3>2
  <2> QED
    BY <1>2, <2>1, <2>2
<1>12. FirstFree(slab) \in DOMAIN slab.used /\ ~slab.used[FirstFree(slab)]
  BY <1>11 DEF FirstFree
<1> QED
  BY <1>2, <1>12

\* A free place of a slab becomes used.
Take(slab, i) == [slab EXCEPT !.used[i] = TRUE, !.free_count = @ - 1]

LEMMA PlaceTaken ==
  ASSUME NEW slab \in Slab, NEW size \in Nat, Len(slab.used) = size, NEW i \in 1 .. size,
         slab.free_count - 1 \in Nat, NEW slab2, slab2 = Take(slab, i)
  PROVE  /\ slab2 \in Slab /\ slab2.base = slab.base /\ slab2.free_count = slab.free_count - 1
         /\ Len(slab2.used) = size /\ DOMAIN slab2.used = 1 .. size
         /\ Marks(slab2, size) = Marks(slab, size) \cup {i}
<1> DEFINE u == [slab.used EXCEPT ![i] = TRUE]
           count == slab.free_count - 1
<1>1. /\ slab.base \in Nat /\ slab.used \in Seq(BOOLEAN) /\ slab.free_count \in Nat
      /\ slab = [base |-> slab.base, used |-> slab.used, free_count |-> slab.free_count]
  BY DEF Slab
<1>2. u \in Seq(BOOLEAN) /\ Len(u) = size
      /\ \A k \in 1 .. size : u[k] = IF k = i THEN TRUE ELSE slab.used[k]
  <2> DEFINE w == slab.used
  <2>1. w \in Seq(BOOLEAN) /\ Len(w) = size /\ TRUE \in BOOLEAN
    BY <1>1
  <2> HIDE DEF w
  <2>2. /\ [w EXCEPT ![i] = TRUE] \in Seq(BOOLEAN) /\ Len([w EXCEPT ![i] = TRUE]) = size
        /\ \A k \in 1 .. size : [w EXCEPT ![i] = TRUE][k] = IF k = i THEN TRUE ELSE w[k]
    BY <2>1, ExceptSeq
  <2> QED
    BY <2>2 DEF w
<1>3. DOMAIN u = 1 .. size
  <2> HIDE DEF u
  <2> QED
    BY <1>2, LenProperties
<1>4. slab2 = [base |-> slab.base, used |-> u, free_count |-> count]
  BY <1>1 DEF Take
<1>5. {k \in 1 .. size : u[k]} = {k \in 1 .. size : slab.used[k]} \cup {i}
  <2> HIDE DEF u
  <2> QED
    BY <1>2
<1> HIDE DEF u, count
<1>6. slab2.base = slab.base /\ slab2.used = u /\ slab2.free_count = count
  <2> DEFINE r == [base |-> slab.base, used |-> u, free_count |-> count]
  <2>1. r.base = slab.base /\ r.used = u /\ r.free_count = count
    OBVIOUS
  <2>2. slab2 = r
    BY <1>4
  <2> HIDE DEF r
  <2> QED
    BY <2>1, <2>2
<1>7. slab2 \in Slab
  <2>1. count \in Nat
    BY DEF count
  <2> QED
    BY <1>1, <1>2, <1>4, <2>1 DEF Slab
<1> QED
  BY <1>2, <1>3, <1>5, <1>6, <1>7 DEF Marks, count

\* A used place of a slab becomes free.
Return(slab, i) == [slab EXCEPT !.used[i] = FALSE, !.free_count = @ + 1]

LEMMA PlaceReturned ==
  ASSUME NEW slab \in Slab, NEW size \in Nat, Len(slab.used) = size, NEW i \in 1 .. size,
         slab.free_count + 1 \in Nat, NEW slab2, slab2 = Return(slab, i)
  PROVE  /\ slab2 \in Slab /\ slab2.base = slab.base /\ slab2.free_count = slab.free_count + 1
         /\ Len(slab2.used) = size /\ DOMAIN slab2.used = 1 .. size
         /\ Marks(slab2, size) = Marks(slab, size) \ {i}
<1> DEFINE u == [slab.used EXCEPT ![i] = FALSE]
           count == slab.free_count + 1
<1>1. /\ slab.base \in Nat /\ slab.used \in Seq(BOOLEAN) /\ slab.free_count \in Nat
      /\ slab = [base |-> slab.base, used |-> slab.used, free_count |-> slab.free_count]
  BY DEF Slab
<1>2. u \in Seq(BOOLEAN) /\ Len(u) = size
      /\ \A k \in 1 .. size : u[k] = IF k = i THEN FALSE ELSE slab.used[k]
  <2> DEFINE w == slab.used
  <2>1. w \in Seq(BOOLEAN) /\ Len(w) = size /\ FALSE \in BOOLEAN
    BY <1>1
  <2> HIDE DEF w
  <2>2. /\ [w EXCEPT ![i] = FALSE] \in Seq(BOOLEAN) /\ Len([w EXCEPT ![i] = FALSE]) = size
        /\ \A k \in 1 .. size : [w EXCEPT ![i] = FALSE][k] = IF k = i THEN FALSE ELSE w[k]
    BY <2>1, ExceptSeq
  <2> QED
    BY <2>2 DEF w
<1>3. DOMAIN u = 1 .. size
  <2> HIDE DEF u
  <2> QED
    BY <1>2, LenProperties
<1>4. slab2 = [base |-> slab.base, used |-> u, free_count |-> count]
  BY <1>1 DEF Return
<1>5. {k \in 1 .. size : u[k]} = {k \in 1 .. size : slab.used[k]} \ {i}
  <2> HIDE DEF u
  <2> QED
    BY <1>2
<1> HIDE DEF u, count
<1>6. slab2.base = slab.base /\ slab2.used = u /\ slab2.free_count = count
  <2> DEFINE r == [base |-> slab.base, used |-> u, free_count |-> count]
  <2>1. r.base = slab.base /\ r.used = u /\ r.free_count = count
    OBVIOUS
  <2>2. slab2 = r
    BY <1>4
  <2> HIDE DEF r
  <2> QED
    BY <2>1, <2>2
<1>7. slab2 \in Slab
  <2>1. count \in Nat
    BY DEF count
  <2> QED
    BY <1>1, <1>2, <1>4, <2>1 DEF Slab
<1> QED
  BY <1>2, <1>3, <1>5, <1>6, <1>7 DEF Marks, count

LEMMA FreeMarks ==
  ASSUME NEW slab, NEW size, DOMAIN slab.used = 1 .. size
  PROVE  Free(slab) = {slab.base} \X ((1 .. size) \ Marks(slab, size))
BY DEF Free, Marks

\* Only the slab changes that a block of is taken or given back.
LEMMA OneSlab ==
  ASSUME NEW sl \in [SlabClasses -> Seq(Slab)], NEW c \in SlabClasses,
         NEW n \in 1 .. Len(sl[c]), NEW slab \in Slab, NEW sl2,
         sl2 = [sl EXCEPT ![c] = [sl[c] EXCEPT ![n] = slab]]
  PROVE  /\ sl2 \in [SlabClasses -> Seq(Slab)]
         /\ \A d \in SlabClasses : Len(sl2[d]) = Len(sl[d])
         /\ \A d \in SlabClasses : \A m \in 1 .. Len(sl[d]) :
              sl2[d][m] = IF d = c /\ m = n THEN slab ELSE sl[d][m]
<1> DEFINE q == [sl[c] EXCEPT ![n] = slab]
<1>1. sl[c] \in Seq(Slab) /\ Len(sl[c]) \in Nat /\ DOMAIN sl[c] = 1 .. Len(sl[c])
  BY LenProperties
<1>2. /\ q \in Seq(Slab) /\ Len(q) = Len(sl[c])
      /\ \A m \in 1 .. Len(sl[c]) : q[m] = IF m = n THEN slab ELSE sl[c][m]
  BY <1>1, ExceptSeq
<1> HIDE DEF q
<1>3. sl2 \in [SlabClasses -> Seq(Slab)]
      /\ \A d \in SlabClasses : sl2[d] = IF d = c THEN q ELSE sl[d]
  BY <1>2 DEF q
<1> QED
  BY <1>2, <1>3

\* A list of slabs that agrees with what is out knows each block that is out
\* once: the slab it belongs to.
LEMMA TheSlab ==
  ASSUME NEW sl, NEW bl, NEW top, PlacesAgree(sl, bl, top),
         NEW c \in SlabClasses, NEW n \in 1 .. Len(sl[c]),
         NEW d \in SlabClasses, NEW m \in 1 .. Len(sl[d]),
         ~(d = c /\ m = n)
  PROVE  sl[d][m].base # sl[c][n].base
BY DEF PlacesAgree

\* A block of slab n is taken.
Taken(sl, c, n) == [sl EXCEPT ![c] = [sl[c] EXCEPT ![n] = AllocateBlock(@)]]
NewBlock(slab, size) == [base |-> slab.base, index |-> FirstFree(slab), size |-> size]

\* Slab n of class c has a block for size bytes.
HasRoom(sl, bl, top, c, n, size) ==
  /\ top \in Nat /\ PlacesAgree(sl, bl, top)
  /\ c \in SlabClasses /\ n \in 1 .. Len(sl[c]) /\ sl[c][n].free_count > 0
  /\ size \in Nat /\ GetSizeClass(size) = c

\* Slabs sl become sl2 as block b joins those that are out.
GivenOut(sl, sl2, bl, b, top) ==
  /\ PlacesAgree(sl2, bl \cup {b}, top) /\ b \notin bl
  /\ <<b.base, b.index>> \in FreeIn(sl)
  /\ FreeIn(sl2) = FreeIn(sl) \ {<<b.base, b.index>>}
  /\ \A d \in SlabClasses : Len(sl2[d]) = Len(sl[d])

LEMMA BlockTaken ==
  ASSUME NEW sl, NEW bl, NEW top, NEW c, NEW n, NEW size, HasRoom(sl, bl, top, c, n, size)
  PROVE  GivenOut(sl, Taken(sl, c, n), bl, NewBlock(sl[c][n], size), top)
<1> DEFINE slab == sl[c][n]
           i == FirstFree(slab)
           slab2 == Take(slab, i)
           sl2 == Taken(sl, c, n)
           b == NewBlock(slab, size)
<1> top \in Nat /\ PlacesAgree(sl, bl, top) /\ c \in SlabClasses
  BY DEF HasRoom
<1> n \in 1 .. Len(sl[c]) /\ slab.free_count > 0
  BY DEF HasRoom
<1> size \in Nat /\ GetSizeClass(size) = c
  BY DEF HasRoom
<1>0. /\ sl2 = [sl EXCEPT ![c] = [sl[c] EXCEPT ![n] = AllocateBlock(@)]]
      /\ b = [base |-> slab.base, index |-> i, size |-> size]
  BY DEF Taken, NewBlock
<1> HIDE DEF sl2, b
<1>1. /\ slab \in Slab /\ slab.base \in Nat /\ slab.base <= top /\ slab.used \in Seq(BOOLEAN)
      /\ slab.free_count \in Nat /\ slab.free_count > 0 /\ Len(slab.used) = BlockCount[c]
      /\ DOMAIN slab.used = 1 .. BlockCount[c] /\ BlockCount[c] \in Nat
      /\ SlabAgrees(c, slab, bl)
  BY <1>0, Numbers
<1>2. sl \in [SlabClasses -> Seq(Slab)] /\ bl \subseteq Block /\ IsFiniteSet(bl)
      /\ \A x, y \in bl : x.base = y.base /\ x.index = y.index => x = y
  BY DEF PlacesAgree
<1>3. i \in 1 .. BlockCount[c] /\ ~slab.used[i]
  <2> HIDE DEF slab
  <2> QED
    BY <1>1, <1>2, FirstFreeFound
<1>4. slab2 = Take(slab, i) /\ sl2 = [sl EXCEPT ![c] = [sl[c] EXCEPT ![n] = slab2]]
  <2>1. AllocateBlock(slab) = slab2 /\ slab2 = Take(slab, i)
    BY DEF AllocateBlock, Take
  <2>2. [sl[c] EXCEPT ![n] = AllocateBlock(@)] = [sl[c] EXCEPT ![n] = AllocateBlock(slab)]
    OBVIOUS
  <2>3. sl2 = [sl EXCEPT ![c] = [sl[c] EXCEPT ![n] = AllocateBlock(@)]]
    BY <1>0
  <2> HIDE DEF slab2, slab, i
  <2> QED
    BY <2>1, <2>2, <2>3
<1> HIDE DEF i, slab
<1>5. /\ slab2 \in Slab /\ slab2.base = slab.base /\ slab2.free_count = slab.free_count - 1
      /\ Len(slab2.used) = BlockCount[c] /\ DOMAIN slab2.used = 1 .. BlockCount[c]
      /\ Marks(slab2, BlockCount[c]) = Marks(slab, BlockCount[c]) \cup {i}
  <2>1. slab.free_count - 1 \in Nat
    BY <1>1
  <2> HIDE DEF slab2
  <2> QED
    BY <1>1, <1>3, <1>4, <2>1, PlaceTaken
<1> HIDE DEF slab2
<1>6. /\ sl2 \in [SlabClasses -> Seq(Slab)]
      /\ \A d \in SlabClasses : Len(sl2[d]) = Len(sl[d])
      /\ \A d \in SlabClasses : \A m \in 1 .. Len(sl[d]) :
           sl2[d][m] = IF d = c /\ m = n THEN slab2 ELSE sl[d][m]
  BY <1>2, <1>4, <1>5, OneSlab
<1>7. b \in Block /\ b.base = slab.base /\ b.index = i /\ b.size = size
  BY <1>0, <1>1, <1>3 DEF Block
<1>8. \A x \in bl : ~(x.base = b.base /\ x.index = b.index)
  <2> SUFFICES ASSUME NEW x \in bl, x.base = slab.base, x.index = i PROVE FALSE
    BY <1>7
  <2>1. x \in Out(slab, bl)
    BY DEF Out
  <2>2. x.index \in Marks(slab, BlockCount[c])
    BY <1>1, <2>1 DEF SlabAgrees
  <2> QED
    BY <1>3, <2>2 DEF Marks
<1>9. b \notin bl
  BY <1>8
<1>10. \A d \in SlabClasses : \A m \in 1 .. Len(sl[d]) :
         ~(d = c /\ m = n) => sl[d][m].base # slab.base
  BY TheSlab DEF slab
<1>11. size <= Limit[c] /\ c # "HUGE"
  <2>1. c # "HUGE"
    BY DEF SlabClasses
  <2> QED
    BY <2>1 DEF GetSizeClass
<1>12. ASSUME NEW d \in SlabClasses, NEW m \in 1 .. Len(sl2[d])
       PROVE  sl2[d][m].base <= top /\ SlabAgrees(d, sl2[d][m], bl \cup {b})
  <2>1. m \in 1 .. Len(sl[d])
    BY <1>6
  <2>2. CASE ~(d = c /\ m = n)
    <3> DEFINE other == sl[d][m]
    <3>1. sl2[d][m] = other /\ other.base # slab.base
      BY <1>6, <1>10, <2>1, <2>2
    <3>2. other.base <= top /\ SlabAgrees(d, other, bl)
      BY <2>1, Numbers
    <3>3. Out(other, bl \cup {b}) = Out(other, bl)
      BY <1>7, <3>1 DEF Out
    <3> HIDE DEF other
    <3> QED
      BY <3>1, <3>2, <3>3 DEF SlabAgrees
  <2>3. CASE d = c /\ m = n
    <3>1. sl2[d][m] = slab2
      BY <1>6, <2>1, <2>3
    <3>2. Out(slab2, bl \cup {b}) = Out(slab, bl) \cup {b}
      BY <1>5, <1>7 DEF Out
    <3>3. b \notin Out(slab, bl) /\ IsFiniteSet(Out(slab, bl))
      BY <1>2, <1>9, FS_Subset DEF Out
    <3>4. Cardinality(Out(slab2, bl \cup {b})) = Cardinality(Out(slab, bl)) + 1
      <4> DEFINE O == Out(slab, bl)
      <4>1. IsFiniteSet(O) /\ b \notin O
        BY <3>3
      <4> HIDE DEF O
      <4>2. Cardinality(O \cup {b}) = Cardinality(O) + 1
        BY <4>1, FS_AddElement
      <4> QED
        BY <3>2, <4>2 DEF O
    <3>5. Cardinality(Out(slab, bl)) \in Nat
      BY <3>3, FS_CardinalityType
    <3>6. slab2.free_count = BlockCount[c] - Cardinality(Out(slab2, bl \cup {b}))
      <4>1. slab.free_count = BlockCount[c] - Cardinality(Out(slab, bl))
        BY <1>1 DEF SlabAgrees
      <4> QED
        BY <1>1, <1>5, <3>4, <3>5, <4>1
    <3>7. {x.index : x \in Out(slab2, bl \cup {b})} = Marks(slab2, BlockCount[c])
      <4>1. {x.index : x \in Out(slab, bl) \cup {b}} = {x.index : x \in Out(slab, bl)} \cup {i}
        BY <1>7
      <4>2. {x.index : x \in Out(slab, bl)} = Marks(slab, BlockCount[c])
        BY <1>1 DEF SlabAgrees
      <4> QED
        BY <1>5, <3>2, <4>1, <4>2
    <3>8. \A x \in Out(slab2, bl \cup {b}) : x.size <= Limit[c]
      <4>1. \A x \in Out(slab, bl) : x.size <= Limit[c]
        BY <1>1 DEF SlabAgrees
      <4> QED
        BY <1>7, <1>11, <3>2, <4>1
    <3> QED
      BY <1>1, <1>5, <2>3, <3>1, <3>6, <3>7, <3>8 DEF SlabAgrees
  <2> QED
    BY <2>2, <2>3
<1>13. \A d \in SlabClasses : \A m \in 1 .. Len(sl[d]) : sl2[d][m].base = sl[d][m].base
  BY <1>5, <1>6 DEF slab
<1>14. \A x \in bl \cup {b} : (GetSizeClass(x.size) # "HUGE")
         <=> \E d \in SlabClasses : \E m \in 1 .. Len(sl2[d]) : sl2[d][m].base = x.base
  <2>1. \A x : (\E d \in SlabClasses : \E m \in 1 .. Len(sl2[d]) : sl2[d][m].base = x.base)
                 <=> \E d \in SlabClasses : \E m \in 1 .. Len(sl[d]) : sl[d][m].base = x.base
    BY <1>6, <1>13
  <2>2. \E d \in SlabClasses : \E m \in 1 .. Len(sl[d]) : sl[d][m].base = b.base
    BY <1>7 DEF slab
  <2>3. \A x \in bl : (GetSizeClass(x.size) # "HUGE")
          <=> \E d \in SlabClasses : \E m \in 1 .. Len(sl[d]) : sl[d][m].base = x.base
    BY DEF PlacesAgree
  <2>4. GetSizeClass(b.size) # "HUGE"
    BY <1>7, <1>11
  <2> SUFFICES ASSUME NEW x \in bl \cup {b}
               PROVE  (GetSizeClass(x.size) # "HUGE")
                        <=> \E d \in SlabClasses : \E m \in 1 .. Len(sl2[d]) : sl2[d][m].base = x.base
    OBVIOUS
  <2>5. CASE x = b
    BY <2>1, <2>2, <2>4, <2>5
  <2>6. CASE x \in bl
    BY <2>1, <2>3, <2>6
  <2> QED
    BY <2>5, <2>6
<1>15. PlacesAgree(sl2, bl \cup {b}, top)
  <2>1. bl \cup {b} \subseteq Block /\ IsFiniteSet(bl \cup {b})
    BY <1>2, <1>7, FS_AddElement
  <2>2. \A x \in bl \cup {b} : x.base <= top
    BY <1>1, <1>7 DEF PlacesAgree
  <2>3. \A x, y \in bl \cup {b} : x.base = y.base /\ x.index = y.index => x = y
    BY <1>2, <1>8
  <2>4. \A d, e \in SlabClasses : \A m \in 1 .. Len(sl2[d]), j \in 1 .. Len(sl2[e]) :
          sl2[d][m].base = sl2[e][j].base => d = e /\ m = j
    <3> SUFFICES ASSUME NEW d \in SlabClasses, NEW e \in SlabClasses,
                        NEW m \in 1 .. Len(sl2[d]), NEW j \in 1 .. Len(sl2[e]),
                        sl2[d][m].base = sl2[e][j].base
                 PROVE  d = e /\ m = j
      OBVIOUS
    <3>1. m \in 1 .. Len(sl[d]) /\ j \in 1 .. Len(sl[e]) /\ sl[d][m].base = sl[e][j].base
      BY <1>6, <1>13
    <3>2. \A p, q \in SlabClasses : \A k \in 1 .. Len(sl[p]), l \in 1 .. Len(sl[q]) :
            sl[p][k].base = sl[q][l].base => p = q /\ k = l
      BY DEF PlacesAgree
    <3> QED
      BY <3>1, <3>2
  <2> QED
    BY <1>6, <1>12, <1>14, <2>1, <2>2, <2>3, <2>4 DEF PlacesAgree
<1>16. \A x : x \in Free(slab2) <=> x \in Free(slab) /\ x # <<slab.base, i>>
  <2>1. /\ Free(slab) = {slab.base} \X ((1 .. BlockCount[c]) \ Marks(slab, BlockCount[c]))
        /\ Free(slab2) = {slab2.base} \X ((1 .. BlockCount[c]) \ Marks(slab2, BlockCount[c]))
    BY <1>1, <1>5, FreeMarks
  <2> QED
    BY <1>5, <2>1
<1>17. <<slab.base, i>> \in Free(slab)
  BY <1>1, <1>3 DEF Free
<1>18. \A d \in SlabClasses : \A m \in 1 .. Len(sl[d]) :
         ~(d = c /\ m = n) => <<slab.base, i>> \notin Free(sl[d][m])
  BY <1>10 DEF Free
<1>19. /\ <<b.base, b.index>> \in FreeIn(sl)
       /\ FreeIn(sl2) = FreeIn(sl) \ {<<b.base, b.index>>}
  <2>1. <<b.base, b.index>> = <<slab.base, i>>
    BY <1>7
  <2>2. <<slab.base, i>> \in FreeIn(sl)
    BY <1>2, <1>17, InFree DEF slab
  <2>3. ASSUME NEW x PROVE x \in FreeIn(sl2) <=> x \in FreeIn(sl) /\ x # <<slab.base, i>>
    <3>1. x \in FreeIn(sl2)
            <=> \E d \in SlabClasses : \E m \in 1 .. Len(sl2[d]) : x \in Free(sl2[d][m])
      BY <1>6, InFree
    <3>2. x \in FreeIn(sl)
            <=> \E d \in SlabClasses : \E m \in 1 .. Len(sl[d]) : x \in Free(sl[d][m])
      BY <1>2, InFree
    <3>3. \A d \in SlabClasses : \A m \in 1 .. Len(sl[d]) :
            x \in Free(sl2[d][m]) <=> x \in Free(sl[d][m]) /\ x # <<slab.base, i>>
      <4> SUFFICES ASSUME NEW d \in SlabClasses, NEW m \in 1 .. Len(sl[d])
                   PROVE  x \in Free(sl2[d][m]) <=> x \in Free(sl[d][m]) /\ x # <<slab.base, i>>
        OBVIOUS
      <4>1. CASE d = c /\ m = n
        BY <1>6, <1>16, <4>1 DEF slab
      <4>2. CASE ~(d = c /\ m = n)
        BY <1>6, <1>18, <4>2
      <4> QED
        BY <4>1, <4>2
    <3> QED
      BY <1>6, <3>1, <3>2, <3>3
  <2> QED
    BY <2>1, <2>2, <2>3
<1> QED
  BY <1>6, <1>9, <1>15, <1>19 DEF GivenOut, sl2, b, slab

\* A block that is out goes back to its slab.
Returned(sl, c, n, b) == [sl EXCEPT ![c] = [sl[c] EXCEPT ![n] = DeallocateBlock(@, b)]]

\* Block b, which is out, is one of slab n.
Belongs(sl, bl, top, c, n, b) ==
  /\ top \in Nat /\ PlacesAgree(sl, bl, top) /\ b \in bl
  /\ c \in SlabClasses /\ n \in 1 .. Len(sl[c]) /\ SlabContains(sl[c][n], b)

\* Slabs sl become sl2 as block b leaves those that are out.
TakenBack(sl, sl2, bl, b, top) ==
  /\ PlacesAgree(sl2, bl \ {b}, top)
  /\ <<b.base, b.index>> \notin FreeIn(sl)
  /\ FreeIn(sl2) = FreeIn(sl) \cup {<<b.base, b.index>>}
  /\ \A d \in SlabClasses : Len(sl2[d]) = Len(sl[d])

LEMMA BlockReturned ==
  ASSUME NEW sl, NEW bl, NEW top, NEW c, NEW n, NEW b, Belongs(sl, bl, top, c, n, b)
  PROVE  TakenBack(sl, Returned(sl, c, n, b), bl, b, top)
<1> DEFINE slab == sl[c][n]
           i == b.index
           slab2 == Return(slab, i)
           sl2 == Returned(sl, c, n, b)
<1> top \in Nat /\ PlacesAgree(sl, bl, top) /\ b \in bl /\ c \in SlabClasses
  BY DEF Belongs
<1> n \in 1 .. Len(sl[c]) /\ SlabContains(slab, b)
  BY DEF Belongs
<1>0. sl2 = [sl EXCEPT ![c] = [sl[c] EXCEPT ![n] = DeallocateBlock(@, b)]]
  BY DEF Returned
<1> HIDE DEF sl2
<1>1. /\ slab \in Slab /\ slab.base \in Nat /\ slab.base <= top /\ slab.used \in Seq(BOOLEAN)
      /\ slab.free_count \in Nat /\ Len(slab.used) = BlockCount[c]
      /\ DOMAIN slab.used = 1 .. BlockCount[c] /\ BlockCount[c] \in Nat
      /\ SlabAgrees(c, slab, bl)
  BY <1>0, Numbers
<1>2. sl \in [SlabClasses -> Seq(Slab)] /\ bl \subseteq Block /\ IsFiniteSet(bl)
      /\ \A x, y \in bl : x.base = y.base /\ x.index = y.index => x = y
  BY DEF PlacesAgree
<1>3. b \in Out(slab, bl) /\ b.base = slab.base
  BY DEF Out, SlabContains
<1>4. slab2 = Return(slab, i) /\ sl2 = [sl EXCEPT ![c] = [sl[c] EXCEPT ![n] = slab2]]
  <2>1. DeallocateBlock(slab, b) = slab2 /\ slab2 = Return(slab, i)
    BY DEF DeallocateBlock, Return
  <2>2. [sl[c] EXCEPT ![n] = DeallocateBlock(@, b)] = [sl[c] EXCEPT ![n] = DeallocateBlock(slab, b)]
    OBVIOUS
  <2>3. sl2 = [sl EXCEPT ![c] = [sl[c] EXCEPT ![n] = DeallocateBlock(@, b)]]
    BY <1>0
  <2> HIDE DEF slab2, slab, i
  <2> QED
    BY <2>1, <2>2, <2>3
<1> HIDE DEF i, slab
<1>5. i \in Marks(slab, BlockCount[c]) /\ i \in 1 .. BlockCount[c]
  <2>1. i \in {x.index : x \in Out(slab, bl)}
    BY <1>3 DEF i
  <2>2. i \in Marks(slab, BlockCount[c])
    BY <1>1, <2>1 DEF SlabAgrees
  <2> QED
    BY <2>2 DEF Marks
<1>6. /\ slab2 \in Slab /\ slab2.base = slab.base /\ slab2.free_count = slab.free_count + 1
      /\ Len(slab2.used) = BlockCount[c] /\ DOMAIN slab2.used = 1 .. BlockCount[c]
      /\ Marks(slab2, BlockCount[c]) = Marks(slab, BlockCount[c]) \ {i}
  <2>1. slab.free_count + 1 \in Nat
    BY <1>1
  <2> HIDE DEF slab2
  <2> QED
    BY <1>1, <1>4, <1>5, <2>1, PlaceReturned
<1> HIDE DEF slab2
<1>7. /\ sl2 \in [SlabClasses -> Seq(Slab)]
      /\ \A d \in SlabClasses : Len(sl2[d]) = Len(sl[d])
      /\ \A d \in SlabClasses : \A m \in 1 .. Len(sl[d]) :
           sl2[d][m] = IF d = c /\ m = n THEN slab2 ELSE sl[d][m]
  BY <1>2, <1>4, <1>6, OneSlab
<1>8. \A d \in SlabClasses : \A m \in 1 .. Len(sl[d]) :
        ~(d = c /\ m = n) => sl[d][m].base # slab.base
  BY TheSlab DEF slab
<1>9. ASSUME NEW d \in SlabClasses, NEW m \in 1 .. Len(sl2[d])
      PROVE  sl2[d][m].base <= top /\ SlabAgrees(d, sl2[d][m], bl \ {b})
  <2>1. m \in 1 .. Len(sl[d])
    BY <1>7
  <2>2. CASE ~(d = c /\ m = n)
    <3> DEFINE other == sl[d][m]
    <3>1. sl2[d][m] = other /\ other.base # slab.base
      BY <1>7, <1>8, <2>1, <2>2
    <3>2. other.base <= top /\ SlabAgrees(d, other, bl)
      BY <2>1, Numbers
    <3>3. Out(other, bl \ {b}) = Out(other, bl)
      BY <1>3, <3>1 DEF Out
    <3> HIDE DEF other
    <3> QED
      BY <3>1, <3>2, <3>3 DEF SlabAgrees
  <2>3. CASE d = c /\ m = n
    <3> DEFINE O == Out(slab, bl)
    <3>1. sl2[d][m] = slab2
      BY <1>7, <2>1, <2>3
    <3>2. Out(slab2, bl \ {b}) = O \ {b}
      BY <1>6 DEF Out
    <3>3. b \in O /\ IsFiniteSet(O) /\ O \subseteq bl
      <4>1. O \in SUBSET bl
        BY DEF Out
      <4> QED
        BY <1>2, <1>3, <4>1, FS_Subset
    <3>4. {x.index : x \in O} = Marks(slab, BlockCount[c])
          /\ slab.free_count = BlockCount[c] - Cardinality(O)
          /\ \A x \in O : x.size <= Limit[c]
      BY <1>1 DEF SlabAgrees
    <3>5. \A x \in O : x # b => x.index # i
      <4> SUFFICES ASSUME NEW x \in O, x.index = b.index PROVE x = b
        BY DEF i
      <4>1. x.base = b.base /\ x \in bl
        BY <1>3, <3>3 DEF Out
      <4> QED
        BY <1>2, <4>1
    <3> HIDE DEF O
    <3>6. Cardinality(O \ {b}) = Cardinality(O) - 1 /\ Cardinality(O) \in Nat
      BY <3>3, FS_RemoveElement, FS_CardinalityType
    <3>7. slab2.free_count = BlockCount[c] - Cardinality(O \ {b})
      <4> DEFINE B == BlockCount[c]
                 f == slab.free_count
                 f2 == slab2.free_count
                 o == Cardinality(O)
                 o2 == Cardinality(O \ {b})
      <4>1. f2 = f + 1 /\ B \in Nat
        BY <1>1, <1>6
      <4>2. f = B - o /\ o2 = o - 1 /\ o \in Nat
        BY <3>4, <3>6
      <4> HIDE DEF B, f, f2, o, o2
      <4>3. f2 = B - o2
        BY <4>1, <4>2
      <4> QED
        BY <4>3 DEF B, f2, o2
    <3>8. {x.index : x \in O \ {b}} = Marks(slab2, BlockCount[c])
      <4>1. {x.index : x \in O \ {b}} = {x.index : x \in O} \ {i}
        BY <3>5 DEF i
      <4> QED
        BY <1>6, <3>4, <4>1
    <3>9. \A x \in O \ {b} : x.size <= Limit[c]
      BY <3>4
    <3> QED
      BY <1>1, <1>6, <2>3, <3>1, <3>2, <3>7, <3>8, <3>9 DEF SlabAgrees
  <2> QED
    BY <2>2, <2>3
<1>10. \A d \in SlabClasses : \A m \in 1 .. Len(sl[d]) : sl2[d][m].base = sl[d][m].base
  BY <1>6, <1>7 DEF slab
<1>11. \A x \in bl \ {b} : (GetSizeClass(x.size) # "HUGE")
         <=> \E d \in SlabClasses : \E m \in 1 .. Len(sl2[d]) : sl2[d][m].base = x.base
  <2>1. \A x : (\E d \in SlabClasses : \E m \in 1 .. Len(sl2[d]) : sl2[d][m].base = x.base)
                 <=> \E d \in SlabClasses : \E m \in 1 .. Len(sl[d]) : sl[d][m].base = x.base
    BY <1>7, <1>10
  <2>2. \A x \in bl : (GetSizeClass(x.size) # "HUGE")
          <=> \E d \in SlabClasses : \E m \in 1 .. Len(sl[d]) : sl[d][m].base = x.base
    BY DEF PlacesAgree
  <2> QED
    BY <2>1, <2>2
<1>12. PlacesAgree(sl2, bl \ {b}, top)
  <2>1. bl \ {b} \subseteq Block /\ IsFiniteSet(bl \ {b})
    BY <1>2, FS_RemoveElement
  <2>2. \A x \in bl \ {b} : x.base <= top
    BY DEF PlacesAgree
  <2>3. \A x, y \in bl \ {b} : x.base = y.base /\ x.index = y.index => x = y
    BY <1>2
  <2>4. \A d, e \in SlabClasses : \A m \in 1 .. Len(sl2[d]), j \in 1 .. Len(sl2[e]) :
          sl2[d][m].base = sl2[e][j].base => d = e /\ m = j
    <3> SUFFICES ASSUME NEW d \in SlabClasses, NEW e \in SlabClasses,
                        NEW m \in 1 .. Len(sl2[d]), NEW j \in 1 .. Len(sl2[e]),
                        sl2[d][m].base = sl2[e][j].base
                 PROVE  d = e /\ m = j
      OBVIOUS
    <3>1. m \in 1 .. Len(sl[d]) /\ j \in 1 .. Len(sl[e]) /\ sl[d][m].base = sl[e][j].base
      BY <1>7, <1>10
    <3>2. \A p, q \in SlabClasses : \A k \in 1 .. Len(sl[p]), l \in 1 .. Len(sl[q]) :
            sl[p][k].base = sl[q][l].base => p = q /\ k = l
      BY DEF PlacesAgree
    <3> QED
      BY <3>1, <3>2
  <2> QED
    BY <1>7, <1>9, <1>11, <2>1, <2>2, <2>3, <2>4 DEF PlacesAgree
<1>13. /\ Free(slab) = {slab.base} \X ((1 .. BlockCount[c]) \ Marks(slab, BlockCount[c]))
       /\ Free(slab2) = {slab2.base} \X ((1 .. BlockCount[c]) \ Marks(slab2, BlockCount[c]))
  BY <1>1, <1>6, FreeMarks
<1>14. /\ <<slab.base, i>> \notin Free(slab)
       /\ \A x : x \in Free(slab2) <=> x \in Free(slab) \/ x = <<slab.base, i>>
  BY <1>5, <1>6, <1>13
<1>15. \A d \in SlabClasses : \A m \in 1 .. Len(sl[d]) :
         ~(d = c /\ m = n) => <<slab.base, i>> \notin Free(sl[d][m])
  BY <1>8 DEF Free
<1>16. <<slab.base, i>> \notin FreeIn(sl)
  BY <1>2, <1>14, <1>15, InFree DEF slab
<1>17. ASSUME NEW x PROVE x \in FreeIn(sl2) <=> x \in FreeIn(sl) \/ x = <<slab.base, i>>
  <2>1. x \in FreeIn(sl2)
          <=> \E d \in SlabClasses : \E m \in 1 .. Len(sl2[d]) : x \in Free(sl2[d][m])
    BY <1>7, InFree
  <2>2. x \in FreeIn(sl)
          <=> \E d \in SlabClasses : \E m \in 1 .. Len(sl[d]) : x \in Free(sl[d][m])
    BY <1>2, InFree
  <2>3. \A d \in SlabClasses : \A m \in 1 .. Len(sl[d]) :
          x \in Free(sl2[d][m])
            <=> x \in Free(sl[d][m]) \/ (d = c /\ m = n /\ x = <<slab.base, i>>)
    <3> SUFFICES ASSUME NEW d \in SlabClasses, NEW m \in 1 .. Len(sl[d])
                 PROVE  x \in Free(sl2[d][m])
                          <=> x \in Free(sl[d][m]) \/ (d = c /\ m = n /\ x = <<slab.base, i>>)
      OBVIOUS
    <3>1. CASE d = c /\ m = n
      BY <1>7, <1>14, <3>1 DEF slab
    <3>2. CASE ~(d = c /\ m = n)
      BY <1>7, <3>2
    <3> QED
      BY <3>1, <3>2
  <2> QED
    BY <1>7, <2>1, <2>2, <2>3
<1>18. <<b.base, b.index>> = <<slab.base, i>>
  BY <1>3 DEF i
<1>19. FreeIn(sl2) = FreeIn(sl) \cup {<<slab.base, i>>}
  BY <1>17
<1> QED
  BY <1>7, <1>12, <1>16, <1>18, <1>19 DEF TakenBack, sl2

LEMMA FunctionSeq ==
  ASSUME NEW S, NEW n \in Nat, NEW f \in [1 .. n -> S]
  PROVE  f \in Seq(S)
OBVIOUS

LEMMA SlabType ==
  ASSUME NEW b \in Nat, NEW u \in Seq(BOOLEAN), NEW count \in Nat
  PROVE  [base |-> b, used |-> u, free_count |-> count] \in Slab
BY DEF Slab

\* A slab is added, at a fresh address.
Grown(sl, c, slab) == [sl EXCEPT ![c] = Append(sl[c], slab)]

\* Slabs sl become sl2 as slab joins class c, with all its places free.
SlabJoined(sl, sl2, bl, c, slab, top) ==
  /\ PlacesAgree(sl2, bl, top + 1)
  /\ FreeIn(sl2) = FreeIn(sl) \cup ({top + 1} \X (1 .. BlockCount[c]))
  /\ FreeIn(sl) \cap ({top + 1} \X (1 .. BlockCount[c])) = {}
  /\ \A d \in SlabClasses : Len(sl2[d]) = IF d = c THEN Len(sl[d]) + 1 ELSE Len(sl[d])
  /\ sl2[c] = Append(sl[c], slab) /\ sl2[c][Len(sl[c]) + 1] = slab

EmptySlab(c, top) == [base |-> top + 1, used |-> [n \in 1 .. BlockCount[c] |-> FALSE],
                      free_count |-> BlockCount[c]]

\* Slabs sl are those of top allocations, and c is a class of theirs.
CanGrow(sl, bl, top, c) == top \in Nat /\ PlacesAgree(sl, bl, top) /\ c \in SlabClasses

LEMMA SlabAdded ==
  ASSUME NEW sl, NEW bl, NEW top, NEW c, CanGrow(sl, bl, top, c)
  PROVE  SlabJoined(sl, Grown(sl, c, EmptySlab(c, top)), bl, c, EmptySlab(c, top), top)
<1> DEFINE N == BlockCount[c]
<1> DEFINE slab == EmptySlab(c, top)
           sl2 == Grown(sl, c, slab)
<1> top \in Nat /\ PlacesAgree(sl, bl, top) /\ c \in SlabClasses
  BY DEF CanGrow
<1> slab = [base |-> top + 1, used |-> [n \in 1 .. BlockCount[c] |-> FALSE],
            free_count |-> BlockCount[c]]
  BY DEF EmptySlab
<1> HIDE DEF slab
<1> sl2 = [sl EXCEPT ![c] = Append(sl[c], slab)]
  BY DEF Grown
<1> HIDE DEF sl2
<1>1. /\ sl \in [SlabClasses -> Seq(Slab)] /\ bl \subseteq Block /\ IsFiniteSet(bl)
      /\ \A x \in bl : x.base <= top /\ x.base \in Nat
      /\ N \in Nat \ {0} /\ \A d \in SlabClasses : Len(sl[d]) \in Nat
  BY MemoryAssumption, LenProperties DEF PlacesAgree, Block
<1>2. /\ slab \in Slab /\ slab.base = top + 1 /\ slab.free_count = N
      /\ Len(slab.used) = N /\ DOMAIN slab.used = 1 .. N /\ Marks(slab, N) = {}
  <2> DEFINE u == [n \in 1 .. N |-> FALSE]
  <2>1. u \in Seq(BOOLEAN) /\ Len(u) = N /\ DOMAIN u = 1 .. N /\ \A k \in 1 .. N : ~u[k]
    <3>1. u \in [1 .. N -> BOOLEAN] /\ DOMAIN u = 1 .. N
      OBVIOUS
    <3>2. \A k \in 1 .. N : ~u[k]
      OBVIOUS
    <3> HIDE DEF u, N
    <3>3. u \in Seq(BOOLEAN)
      BY <1>1, <3>1, FunctionSeq
    <3>4. Len(u) = N
      BY <1>1, <3>1, <3>3, LenProperties
    <3> QED
      BY <3>1, <3>2, <3>3, <3>4
  <2>2. slab = [base |-> top + 1, used |-> u, free_count |-> N]
    OBVIOUS
  <2> HIDE DEF u, N
  <2>3. slab.base = top + 1 /\ slab.used = u /\ slab.free_count = N
    BY <2>2
  <2>4. slab \in Slab
    <3>1. top + 1 \in Nat /\ N \in Nat
      BY <1>1
    <3> QED
      BY <2>1, <2>2, <3>1, SlabType
  <2> QED
    BY <2>1, <2>3, <2>4 DEF Marks
<1> HIDE DEF N
<1>3. /\ sl2 \in [SlabClasses -> Seq(Slab)]
      /\ \A d \in SlabClasses : Len(sl2[d]) = IF d = c THEN Len(sl[d]) + 1 ELSE Len(sl[d])
      /\ \A d \in SlabClasses : \A m \in 1 .. Len(sl[d]) : sl2[d][m] = sl[d][m]
      /\ sl2[c] = Append(sl[c], slab) /\ sl2[c][Len(sl[c]) + 1] = slab
  <2> DEFINE q == Append(sl[c], slab)
  <2>1. /\ q \in Seq(Slab) /\ Len(q) = Len(sl[c]) + 1 /\ q[Len(sl[c]) + 1] = slab
        /\ \A m \in 1 .. Len(sl[c]) : q[m] = sl[c][m]
    BY <1>1, <1>2, AppendProperties
  <2> HIDE DEF q
  <2>2. sl2 \in [SlabClasses -> Seq(Slab)] /\ \A d \in SlabClasses : sl2[d] = IF d = c THEN q ELSE sl[d]
    BY <1>1, <2>1 DEF q
  <2> QED
    BY <2>1, <2>2 DEF q
<1>4. ASSUME NEW d \in SlabClasses, NEW m \in 1 .. Len(sl2[d]), m \notin 1 .. Len(sl[d])
      PROVE  d = c /\ m = Len(sl[c]) + 1 /\ sl2[d][m] = slab
  BY <1>1, <1>3, <1>4
<1>5. Out(slab, bl) = {}
  BY <1>1, <1>2 DEF Out
<1>6. SlabAgrees(c, slab, bl)
  <2>0. Cardinality(Out(slab, bl)) = 0
    BY <1>5, FS_EmptySet
  <2>1. N - Cardinality(Out(slab, bl)) = N
    BY <1>1, <2>0
  <2>2. {x.index : x \in Out(slab, bl)} = {}
    BY <1>5
  <2> QED
    BY <1>2, <1>5, <2>1, <2>2 DEF SlabAgrees, N
<1>7. \A d \in SlabClasses : \A m \in 1 .. Len(sl[d]) :
        /\ sl[d][m].base <= top /\ sl[d][m].base \in Nat /\ sl[d][m].base # slab.base
        /\ SlabAgrees(d, sl[d][m], bl)
  <2> SUFFICES ASSUME NEW d \in SlabClasses, NEW m \in 1 .. Len(sl[d])
               PROVE  /\ sl[d][m].base <= top /\ sl[d][m].base \in Nat /\ sl[d][m].base # slab.base
                      /\ SlabAgrees(d, sl[d][m], bl)
    OBVIOUS
  <2>1. sl[d][m].base <= top /\ sl[d][m].base \in Nat /\ SlabAgrees(d, sl[d][m], bl)
    BY Numbers
  <2> DEFINE base == sl[d][m].base
  <2>2. base <= top /\ base \in Nat /\ slab.base = top + 1
    BY <1>2, <2>1
  <2> HIDE DEF base
  <2>3. base # slab.base
    BY <2>2
  <2> QED
    BY <2>1, <2>3 DEF base
<1>8. ASSUME NEW d \in SlabClasses, NEW m \in 1 .. Len(sl2[d])
      PROVE  sl2[d][m].base <= top + 1 /\ SlabAgrees(d, sl2[d][m], bl)
  <2>1. CASE m \in 1 .. Len(sl[d])
    BY <1>3, <1>7, <2>1
  <2>2. CASE m \notin 1 .. Len(sl[d])
    <3>1. d = c /\ sl2[d][m] = slab
      BY <1>4, <2>2
    <3>2. slab.base <= top + 1
      BY <1>2
    <3> QED
      BY <1>6, <3>1, <3>2
  <2> QED
    BY <2>1, <2>2
<1>9. ASSUME NEW d \in SlabClasses, NEW e \in SlabClasses,
             NEW m \in 1 .. Len(sl2[d]), NEW j \in 1 .. Len(sl2[e]),
             sl2[d][m].base = sl2[e][j].base
      PROVE  d = e /\ m = j
  <2>1. CASE m \in 1 .. Len(sl[d]) /\ j \in 1 .. Len(sl[e])
    <3>1. sl[d][m].base = sl[e][j].base
      BY <1>3, <1>9, <2>1
    <3> QED
      BY <2>1, <3>1 DEF PlacesAgree
  <2>2. CASE m \in 1 .. Len(sl[d]) /\ j \notin 1 .. Len(sl[e])
    BY <1>3, <1>4, <1>7, <1>9, <2>2
  <2>3. CASE m \notin 1 .. Len(sl[d]) /\ j \in 1 .. Len(sl[e])
    BY <1>3, <1>4, <1>7, <1>9, <2>3
  <2>4. CASE m \notin 1 .. Len(sl[d]) /\ j \notin 1 .. Len(sl[e])
    BY <1>4, <2>4
  <2> QED
    BY <2>1, <2>2, <2>3, <2>4
<1>10. ASSUME NEW x \in bl
       PROVE  (GetSizeClass(x.size) # "HUGE")
                <=> \E d \in SlabClasses : \E m \in 1 .. Len(sl2[d]) : sl2[d][m].base = x.base
  <2>1. (GetSizeClass(x.size) # "HUGE")
          <=> \E d \in SlabClasses : \E m \in 1 .. Len(sl[d]) : sl[d][m].base = x.base
    BY DEF PlacesAgree
  <2>2. ASSUME NEW d \in SlabClasses, NEW m \in 1 .. Len(sl[d])
        PROVE  m \in 1 .. Len(sl2[d]) /\ sl2[d][m].base = sl[d][m].base
    BY <1>1, <1>3
  <2>3. ASSUME NEW d \in SlabClasses, NEW m \in 1 .. Len(sl2[d]), sl2[d][m].base = x.base
        PROVE  m \in 1 .. Len(sl[d]) /\ sl[d][m].base = x.base
    <3>1. x.base # slab.base
      BY <1>1, <1>2
    <3>2. m \in 1 .. Len(sl[d])
      BY <1>4, <2>3, <3>1
    <3> QED
      BY <1>3, <2>3, <3>2
  <2> QED
    BY <2>1, <2>2, <2>3
<1>11. PlacesAgree(sl2, bl, top + 1)
  <2>1. \A x \in bl : x.base <= top + 1
    BY <1>1
  <2>2. \A x, y \in bl : x.base = y.base /\ x.index = y.index => x = y
    BY DEF PlacesAgree
  <2>3. \A d, e \in SlabClasses : \A m \in 1 .. Len(sl2[d]), j \in 1 .. Len(sl2[e]) :
          sl2[d][m].base = sl2[e][j].base => d = e /\ m = j
    BY <1>9
  <2> QED
    BY <1>1, <1>3, <1>8, <1>10, <2>1, <2>2, <2>3 DEF PlacesAgree
<1>12. Free(slab) = {top + 1} \X (1 .. N)
  <2>1. Free(slab) = {slab.base} \X ((1 .. N) \ Marks(slab, N))
    BY <1>2, FreeMarks
  <2>2. (1 .. N) \ Marks(slab, N) = 1 .. N
    BY <1>2
  <2> QED
    BY <1>2, <2>1, <2>2
<1>13. ASSUME NEW x PROVE x \in FreeIn(sl2) <=> x \in FreeIn(sl) \/ x \in Free(slab)
  <2>1. x \in FreeIn(sl2)
          <=> \E d \in SlabClasses : \E m \in 1 .. Len(sl2[d]) : x \in Free(sl2[d][m])
    <3>1. sl2 \in [SlabClasses -> Seq(Slab)]
      BY <1>3
    <3> QED
      BY <3>1, InFree, Zenon
  <2>2. x \in FreeIn(sl)
          <=> \E d \in SlabClasses : \E m \in 1 .. Len(sl[d]) : x \in Free(sl[d][m])
    <3>1. sl \in [SlabClasses -> Seq(Slab)]
      BY <1>1
    <3> QED
      BY <3>1, InFree, Zenon
  <2>3. Len(sl[c]) + 1 \in 1 .. Len(sl2[c])
    BY <1>1, <1>3
  <2>4. \A d \in SlabClasses : \A m \in 1 .. Len(sl[d]) : m \in 1 .. Len(sl2[d])
    BY <1>1, <1>3
  <2>5. x \in Free(slab) => x \in FreeIn(sl2)
    BY <1>3, <2>1, <2>3
  <2>6. x \in FreeIn(sl) => x \in FreeIn(sl2)
    BY <1>3, <2>1, <2>2, <2>4
  <2>7. ASSUME NEW d \in SlabClasses, NEW m \in 1 .. Len(sl2[d]), x \in Free(sl2[d][m])
        PROVE  x \in FreeIn(sl) \/ x \in Free(slab)
    BY <1>3, <1>4, <2>2, <2>7
  <2> QED
    BY <2>1, <2>5, <2>6, <2>7
<1>14. \A x \in FreeIn(sl) : x \notin Free(slab)
  <2> SUFFICES ASSUME NEW x \in FreeIn(sl), x \in Free(slab) PROVE FALSE
    OBVIOUS
  <2>0. PICK d \in SlabClasses : \E m \in 1 .. Len(sl[d]) : x \in Free(sl[d][m])
    BY <1>1, InFree
  <2>1. PICK m \in 1 .. Len(sl[d]) : x \in Free(sl[d][m])
    BY <2>0
  <2>2. x[1] = sl[d][m].base /\ x[1] = slab.base
    BY <2>1 DEF Free
  <2> QED
    BY <1>7, <2>2
<1>15. SlabJoined(sl, sl2, bl, c, slab, top)
  BY <1>3, <1>11, <1>12, <1>13, <1>14 DEF N, SlabJoined
<1> QED
  BY <1>15 DEF sl2, slab

\* A block from malloc goes out, at a fresh address, and comes back.
LEMMA HugeTaken ==
  ASSUME NEW sl, NEW bl, NEW top \in Nat, PlacesAgree(sl, bl, top),
         NEW size \in Nat, GetSizeClass(size) = "HUGE",
         NEW b, b = [base |-> top + 1, index |-> 1, size |-> size]
  PROVE  PlacesAgree(sl, bl \cup {b}, top + 1) /\ b \notin bl /\ b \in Block
<1>1. /\ sl \in [SlabClasses -> Seq(Slab)] /\ bl \subseteq Block /\ IsFiniteSet(bl)
      /\ \A x \in bl : x.base <= top /\ x.base \in Nat
  BY DEF PlacesAgree, Block
<1>2. b \in Block /\ b.base = top + 1 /\ b.size = size
  BY DEF Block
<1>3. \A x \in bl : x.base # b.base
  BY <1>1, <1>2
<1>4. \A d \in SlabClasses : \A m \in 1 .. Len(sl[d]) :
        /\ sl[d][m].base <= top /\ sl[d][m].base \in Nat /\ sl[d][m].base # b.base
        /\ SlabAgrees(d, sl[d][m], bl)
  <2> SUFFICES ASSUME NEW d \in SlabClasses, NEW m \in 1 .. Len(sl[d])
               PROVE  /\ sl[d][m].base <= top /\ sl[d][m].base \in Nat /\ sl[d][m].base # b.base
                      /\ SlabAgrees(d, sl[d][m], bl)
    OBVIOUS
  <2>1. sl[d][m].base <= top /\ sl[d][m].base \in Nat /\ SlabAgrees(d, sl[d][m], bl)
    BY Numbers
  <2> DEFINE base == sl[d][m].base
  <2>2. base <= top /\ base \in Nat /\ b.base = top + 1
    BY <1>2, <2>1
  <2> HIDE DEF base
  <2>3. base # b.base
    BY <2>2
  <2> QED
    BY <2>1, <2>3 DEF base
<1>5. ASSUME NEW d \in SlabClasses, NEW m \in 1 .. Len(sl[d])
      PROVE  sl[d][m].base <= top + 1 /\ SlabAgrees(d, sl[d][m], bl \cup {b})
  <2> DEFINE slab == sl[d][m]
  <2>1. slab.base <= top /\ slab.base \in Nat /\ slab.base # b.base /\ SlabAgrees(d, slab, bl)
    BY <1>4
  <2>2. Out(slab, bl \cup {b}) = Out(slab, bl)
    BY <2>1 DEF Out
  <2>3. slab.base <= top + 1
    BY <2>1
  <2> HIDE DEF slab
  <2>4. SlabAgrees(d, slab, bl \cup {b})
    BY <2>1, <2>2 DEF SlabAgrees
  <2> QED
    BY <2>3, <2>4 DEF slab
<1>6. bl \cup {b} \subseteq Block /\ IsFiniteSet(bl \cup {b})
  BY <1>1, <1>2, FS_AddElement
<1>7. \A x \in bl \cup {b} : x.base <= top + 1
  BY <1>1, <1>2
<1>8. \A x, y \in bl \cup {b} : x.base = y.base /\ x.index = y.index => x = y
  BY <1>3 DEF PlacesAgree
<1>9. \A x \in bl \cup {b} : (GetSizeClass(x.size) # "HUGE")
        <=> \E d \in SlabClasses : \E m \in 1 .. Len(sl[d]) : sl[d][m].base = x.base
  <2>1. \A x \in bl : (GetSizeClass(x.size) # "HUGE")
          <=> \E d \in SlabClasses : \E m \in 1 .. Len(sl[d]) : sl[d][m].base = x.base
    BY DEF PlacesAgree
  <2>2. GetSizeClass(b.size) = "HUGE"
    BY <1>2
  <2>3. ~\E d \in SlabClasses : \E m \in 1 .. Len(sl[d]) : sl[d][m].base = b.base
    BY <1>4
  <2> QED
    BY <2>1, <2>2, <2>3
<1>10. \A c, d \in SlabClasses : \A n \in 1 .. Len(sl[c]), m \in 1 .. Len(sl[d]) :
         sl[c][n].base = sl[d][m].base => c = d /\ n = m
  BY DEF PlacesAgree
<1>11. PlacesAgree(sl, bl \cup {b}, top + 1)
  BY <1>1, <1>5, <1>6, <1>7, <1>8, <1>9, <1>10 DEF PlacesAgree
<1> QED
  BY <1>2, <1>3, <1>11

LEMMA HugeReturned ==
  ASSUME NEW sl, NEW bl, NEW top \in Nat, PlacesAgree(sl, bl, top), NEW b \in bl,
         GetSizeClass(b.size) = "HUGE"
  PROVE  PlacesAgree(sl, bl \ {b}, top)
<1>1. /\ sl \in [SlabClasses -> Seq(Slab)] /\ bl \subseteq Block /\ IsFiniteSet(bl)
      /\ \A x \in bl : x.base <= top
      /\ \A x, y \in bl : x.base = y.base /\ x.index = y.index => x = y
      /\ \A x \in bl : (GetSizeClass(x.size) # "HUGE")
           <=> \E d \in SlabClasses : \E m \in 1 .. Len(sl[d]) : sl[d][m].base = x.base
      /\ \A c, d \in SlabClasses : \A n \in 1 .. Len(sl[c]), m \in 1 .. Len(sl[d]) :
           sl[c][n].base = sl[d][m].base => c = d /\ n = m
  BY DEF PlacesAgree
<1>2. ASSUME NEW d \in SlabClasses, NEW m \in 1 .. Len(sl[d])
      PROVE  sl[d][m].base <= top /\ SlabAgrees(d, sl[d][m], bl \ {b})
  <2> DEFINE slab == sl[d][m]
  <2>1. slab.base <= top /\ SlabAgrees(d, slab, bl)
    BY Numbers
  <2>2. slab.base # b.base
    BY <1>1
  <2>3. Out(slab, bl \ {b}) = Out(slab, bl)
    BY <2>2 DEF Out
  <2> HIDE DEF slab
  <2>4. SlabAgrees(d, slab, bl \ {b})
    BY <2>1, <2>3 DEF SlabAgrees
  <2> QED
    BY <2>1, <2>4 DEF slab
<1>3. bl \ {b} \subseteq Block /\ IsFiniteSet(bl \ {b})
  BY <1>1, FS_RemoveElement
<1> QED
  BY <1>1, <1>2, <1>3 DEF PlacesAgree

LEMMA Cleared ==
  ASSUME NEW sl, NEW bl, NEW top \in Nat, PlacesAgree(sl, bl, top),
         \A b \in bl : GetSizeClass(b.size) = "HUGE",
         NEW sl2, sl2 = [c \in SlabClasses |-> <<>>]
  PROVE  PlacesAgree(sl2, bl, top) /\ FreeIn(sl2) = {}
<1>1. sl2 \in [SlabClasses -> Seq(Slab)] /\ \A c \in SlabClasses : 1 .. Len(sl2[c]) = {}
  <2>1. <<>> \in Seq(Slab) /\ Len(<<>>) = 0 /\ 1 .. 0 = {}
    OBVIOUS
  <2> QED
    BY <2>1
<1>2. PlacesAgree(sl2, bl, top)
  BY <1>1 DEF PlacesAgree
<1>3. \A x : x \notin FreeIn(sl2)
  BY <1>1, InFree
<1> QED
  BY <1>2, <1>3
-------------------------------------------------------------------------------
(* MemoryPool: the statistics. *)

StatsType ==
  [total_allocated_bytes : 0 .. SizeT - 1, total_freed_bytes : 0 .. SizeT - 1,
   current_used_bytes : 0 .. SizeT - 1, slab_count : Nat,
   free_blocks : Nat, allocated_blocks : 0 .. SizeT - 1]

\* StatsTellUsage, of statistics st, blocks bl and forgotten blocks fg.
TellsUsage(st, fg, bl) ==
  /\ (st.current_used_bytes + BytesOf(fg)) % SizeT = BytesOf(bl) % SizeT
  /\ (st.allocated_blocks + Cardinality(fg)) % SizeT = Cardinality(bl) % SizeT

LEMMA BytesRows ==
  ASSUME NEW bl, bl \subseteq Block
  PROVE  BytesOf(bl) = Cardinality(Rows(bl, [x \in Block |-> x.size]))
<1> DEFINE f == [x \in Block |-> x.size]
<1>1. \A b \in bl : f[b] = b.size
  OBVIOUS
<1>2. UNION {{b} \X (1 .. b.size) : b \in bl} = UNION {{b} \X (1 .. f[b]) : b \in bl}
  BY <1>1
<1> QED
  BY <1>2 DEF BytesOf, Rows

LEMMA BytesAdded ==
  ASSUME NEW bl, bl \subseteq Block, IsFiniteSet(bl), NEW b \in Block, b \notin bl
  PROVE  /\ BytesOf(bl) \in Nat /\ Cardinality(bl) \in Nat
         /\ BytesOf(bl \cup {b}) = BytesOf(bl) + b.size
         /\ Cardinality(bl \cup {b}) = Cardinality(bl) + 1
<1> DEFINE f == [x \in Block |-> x.size]
<1>1. \A x \in Block : f[x] \in Nat /\ f[x] = x.size
  BY DEF Block
<1>2. /\ BytesOf(bl) = Cardinality(Rows(bl, f))
      /\ BytesOf(bl \cup {b}) = Cardinality(Rows(bl \cup {b}, f))
  BY BytesRows
<1> HIDE DEF f
<1>3. IsFiniteSet({b}) /\ bl \cap {b} = {}
  BY FS_Singleton
<1>4. \A x \in bl \cup {b} : f[x] \in Nat
  BY <1>1
<1>5. Cardinality(Rows(bl \cup {b}, f)) = Cardinality(Rows(bl, f)) + Cardinality(Rows({b}, f))
  BY <1>3, <1>4, RowsTogether
<1>6. Cardinality(Rows({b}, f)) = b.size
  BY <1>1, RowsOfOne
<1>7. Cardinality(Rows(bl, f)) \in Nat
  BY <1>4, RowsFinite
<1>8. Cardinality(bl) \in Nat /\ Cardinality(bl \cup {b}) = Cardinality(bl) + 1
  BY FS_CardinalityType, FS_AddElement
<1> QED
  BY <1>2, <1>5, <1>6, <1>7, <1>8

LEMMA BytesType ==
  ASSUME NEW bl, bl \subseteq Block, IsFiniteSet(bl)
  PROVE  BytesOf(bl) \in Nat /\ Cardinality(bl) \in Nat
<1> DEFINE f == [x \in Block |-> x.size]
<1>1. \A x \in bl : f[x] \in Nat
  BY DEF Block
<1>2. BytesOf(bl) = Cardinality(Rows(bl, f))
  BY BytesRows
<1> HIDE DEF f
<1> QED
  BY <1>1, <1>2, RowsFinite, FS_CardinalityType

LEMMA Allocated ==
  ASSUME NEW st \in StatsType, NEW fg, NEW bl, fg \subseteq Block, IsFiniteSet(fg),
         bl \subseteq Block, IsFiniteSet(bl), TellsUsage(st, fg, bl),
         NEW b \in Block, b \notin bl
  PROVE  LET st2 == CountAllocated(st, b.size)
         IN  /\ st2 \in StatsType /\ TellsUsage(st2, fg, bl \cup {b})
             /\ st2.free_blocks = st.free_blocks /\ st2.slab_count = st.slab_count
<1> DEFINE size == b.size
           st2 == CountAllocated(st, size)
<1>1. /\ size \in Nat /\ SizeT \in Nat \ {0}
      /\ st.current_used_bytes \in Nat /\ st.allocated_blocks \in Nat
      /\ st.total_allocated_bytes \in Nat
  BY MemoryAssumption DEF Block, StatsType
<1> HIDE DEF size
<1>2. /\ (st.current_used_bytes + size) % SizeT \in 0 .. SizeT - 1
      /\ (st.allocated_blocks + 1) % SizeT \in 0 .. SizeT - 1
      /\ (st.total_allocated_bytes + size) % SizeT \in 0 .. SizeT - 1
  <2>1. /\ st.current_used_bytes + size \in Int /\ st.allocated_blocks + 1 \in Int
        /\ st.total_allocated_bytes + size \in Int
    BY <1>1
  <2> QED
    BY <1>1, <2>1, Divided
<1>3. /\ st2 \in StatsType
      /\ st2.current_used_bytes = (st.current_used_bytes + size) % SizeT
      /\ st2.allocated_blocks = (st.allocated_blocks + 1) % SizeT
      /\ st2.free_blocks = st.free_blocks /\ st2.slab_count = st.slab_count
  BY <1>2 DEF CountAllocated, StatsType
<1> HIDE DEF st2
<1>4. /\ BytesOf(bl) \in Nat /\ Cardinality(bl) \in Nat
      /\ BytesOf(bl \cup {b}) = BytesOf(bl) + size
      /\ Cardinality(bl \cup {b}) = Cardinality(bl) + 1
  BY BytesAdded DEF size
<1>5. BytesOf(fg) \in Nat /\ Cardinality(fg) \in Nat
  BY BytesType
<1>6. (((st.current_used_bytes + size) % SizeT) + BytesOf(fg)) % SizeT = (BytesOf(bl) + size) % SizeT
  BY <1>1, <1>4, <1>5, EqualModulo DEF TellsUsage
<1>7. (((st.allocated_blocks + 1) % SizeT) + Cardinality(fg)) % SizeT = (Cardinality(bl) + 1) % SizeT
  BY <1>1, <1>4, <1>5, EqualModulo DEF TellsUsage
<1>8. TellsUsage(st2, fg, bl \cup {b})
  BY <1>3, <1>4, <1>6, <1>7 DEF TellsUsage
<1> QED
  BY <1>3, <1>8 DEF st2, size

LEMMA Freed ==
  ASSUME NEW st \in StatsType, NEW fg, NEW bl, fg \subseteq Block, IsFiniteSet(fg),
         bl \subseteq Block, IsFiniteSet(bl), TellsUsage(st, fg, bl), NEW b \in bl
  PROVE  LET st2 == CountFreed(st, b.size)
         IN  /\ st2 \in StatsType /\ TellsUsage(st2, fg, bl \ {b})
             /\ st2.free_blocks = st.free_blocks /\ st2.slab_count = st.slab_count
<1> DEFINE size == b.size
           st2 == CountFreed(st, size)
           rest == bl \ {b}
<1>1. /\ size \in Nat /\ SizeT \in Nat \ {0}
      /\ st.current_used_bytes \in Nat /\ st.allocated_blocks \in Nat
      /\ st.total_freed_bytes \in Nat
  BY MemoryAssumption DEF Block, StatsType
<1> HIDE DEF size
<1>2. /\ (st.current_used_bytes - size) % SizeT \in 0 .. SizeT - 1
      /\ (st.allocated_blocks - 1) % SizeT \in 0 .. SizeT - 1
      /\ (st.total_freed_bytes + size) % SizeT \in 0 .. SizeT - 1
  <2>1. /\ st.current_used_bytes - size \in Int /\ st.allocated_blocks - 1 \in Int
        /\ st.total_freed_bytes + size \in Int
    BY <1>1
  <2> QED
    BY <1>1, <2>1, Divided
<1>3. /\ st2 \in StatsType
      /\ st2.current_used_bytes = (st.current_used_bytes - size) % SizeT
      /\ st2.allocated_blocks = (st.allocated_blocks - 1) % SizeT
      /\ st2.free_blocks = st.free_blocks /\ st2.slab_count = st.slab_count
  BY <1>2 DEF CountFreed, StatsType
<1> HIDE DEF st2
<1>4. /\ BytesOf(rest) \in Nat /\ Cardinality(rest) \in Nat
      /\ BytesOf(bl) = BytesOf(rest) + size
      /\ Cardinality(bl) = Cardinality(rest) + 1
  <2>1. rest \subseteq Block /\ IsFiniteSet(rest) /\ b \notin rest /\ b \in Block
        /\ bl = rest \cup {b}
    BY FS_RemoveElement
  <2> HIDE DEF rest
  <2> QED
    BY <2>1, BytesAdded DEF size
<1> HIDE DEF rest
<1>5. BytesOf(fg) \in Nat /\ Cardinality(fg) \in Nat
  BY BytesType
<1>6. (((st.current_used_bytes - size) % SizeT) + BytesOf(fg)) % SizeT = BytesOf(rest) % SizeT
  <2>1. /\ st.current_used_bytes - size = st.current_used_bytes + (-size)
        /\ BytesOf(bl) + (-size) = BytesOf(rest) /\ BytesOf(bl) \in Int /\ -size \in Int
    BY <1>1, <1>4
  <2>2. (((st.current_used_bytes + (-size)) % SizeT) + BytesOf(fg)) % SizeT
          = (BytesOf(bl) + (-size)) % SizeT
    BY <1>1, <1>5, <2>1, EqualModulo DEF TellsUsage
  <2> QED
    BY <2>1, <2>2
<1>7. (((st.allocated_blocks - 1) % SizeT) + Cardinality(fg)) % SizeT = Cardinality(rest) % SizeT
  <2>1. /\ st.allocated_blocks - 1 = st.allocated_blocks + (-1)
        /\ Cardinality(bl) + (-1) = Cardinality(rest) /\ Cardinality(bl) \in Int /\ -1 \in Int
    BY <1>1, <1>4
  <2>2. (((st.allocated_blocks + (-1)) % SizeT) + Cardinality(fg)) % SizeT
          = (Cardinality(bl) + (-1)) % SizeT
    BY <1>1, <1>5, <2>1, EqualModulo DEF TellsUsage
  <2> QED
    BY <2>1, <2>2
<1>8. TellsUsage(st2, fg, rest)
  BY <1>3, <1>6, <1>7 DEF TellsUsage
<1> QED
  BY <1>3, <1>8 DEF st2, size, rest
-------------------------------------------------------------------------------
(* MemoryPool: the invariant. *)

\* Slabs sl, blocks bl that are out and top allocations agree, and statistics
\* st with them, but for the blocks fg.
PoolHolds(sl, st, bl, fg, top) ==
  /\ PlacesAgree(sl, bl, top)
  /\ top \in 0 .. MaxBases
  /\ fg \subseteq Block /\ IsFiniteSet(fg)
  /\ st \in StatsType
  /\ IsFiniteSet(FreeIn(sl)) /\ st.free_blocks = Cardinality(FreeIn(sl))
  /\ st.slab_count = Len(sl["SMALL"]) + Len(sl["MEDIUM"]) + Len(sl["LARGE"])
  /\ TellsUsage(st, fg, bl)

MemoryInv == PoolHolds(slabs_, stats_, live, forgotten, bases)

LEMMA MemoryInvShows == MemoryInv => MemoryConsistent
<1> SUFFICES ASSUME MemoryInv PROVE MemoryConsistent
  OBVIOUS
<1>1. MemoryPoolTypeOK
  BY DEF MemoryInv, PoolHolds, PlacesAgree, MemoryPoolTypeOK, StatsType
<1>2. StatsTellUsage
  BY DEF MemoryInv, PoolHolds, TellsUsage, StatsTellUsage
<1>3. bases \in Nat /\ PlacesAgree(slabs_, live, bases)
  BY MemoryAssumption DEF MemoryInv, PoolHolds
<1>4. ASSUME NEW c \in SlabClasses, NEW n \in DOMAIN slabs_[c]
      PROVE  LET slab == slabs_[c][n]
                 out == {b \in live : SlabContains(slab, b)}
             IN  /\ {b.index : b \in out} = {k \in DOMAIN slab.used : slab.used[k]}
                 /\ slab.free_count = BlockCount[c] - Cardinality(out)
                 /\ \A b \in out : b.size <= Limit[c]
  <2> DEFINE slab == slabs_[c][n]
             out == {b \in live : SlabContains(slab, b)}
  <2>1. n \in 1 .. Len(slabs_[c])
    BY <1>3, LenProperties DEF PlacesAgree
  <2>2. DOMAIN slab.used = 1 .. BlockCount[c] /\ SlabAgrees(c, slab, live)
    BY <1>3, <2>1, Numbers
  <2>3. out = Out(slab, live)
    BY DEF Out, SlabContains
  <2> HIDE DEF slab, out
  <2>4. /\ {b.index : b \in out} = {k \in DOMAIN slab.used : slab.used[k]}
        /\ slab.free_count = BlockCount[c] - Cardinality(out)
        /\ \A b \in out : b.size <= Limit[c]
    BY <2>2, <2>3 DEF SlabAgrees, Marks
  <2> QED
    BY <2>4 DEF slab, out
<1>5. \A b, d \in live : b.base = d.base /\ b.index = d.index => b = d
  BY <1>3 DEF PlacesAgree
<1>6. FreeIn(slabs_) = UNION {Free(slab) : slab \in Slabs}
  BY DEF FreeIn, Slabs
<1>7. BlocksHandedOutOnce
  BY <1>4, <1>5, <1>6 DEF MemoryInv, PoolHolds, BlocksHandedOutOnce
<1> QED
  BY <1>1, <1>2, <1>7 DEF MemoryConsistent

LEMMA MemoryInitial == MemoryPoolInit => MemoryInv
<1> SUFFICES ASSUME MemoryPoolInit PROVE MemoryInv
  OBVIOUS
<1>1. /\ slabs_ = [c \in SlabClasses |-> <<>>] /\ live = {} /\ forgotten = {} /\ bases = 0
      /\ stats_ = ZeroStats /\ MaxBases \in Nat /\ SizeT \in Nat \ {0}
  BY MemoryAssumption DEF MemoryPoolInit
<1>2. slabs_ \in [SlabClasses -> Seq(Slab)] /\ \A c \in SlabClasses : 1 .. Len(slabs_[c]) = {}
  <2>1. <<>> \in Seq(Slab) /\ Len(<<>>) = 0 /\ 1 .. 0 = {}
    OBVIOUS
  <2> QED
    BY <1>1, <2>1
<1>3. IsFiniteSet({}) /\ Cardinality({}) = 0
  BY FS_EmptySet
<1>4. PlacesAgree(slabs_, live, bases)
  BY <1>1, <1>2, <1>3 DEF PlacesAgree
<1>5. 0 \in Nat /\ \A b \in live : GetSizeClass(b.size) = "HUGE"
  BY <1>1
<1>6. FreeIn(slabs_) = {}
  BY <1>1, <1>4, <1>5, Cleared
<1>7. stats_ \in StatsType /\ stats_.free_blocks = 0 /\ stats_.slab_count = 0
      /\ stats_.current_used_bytes = 0 /\ stats_.allocated_blocks = 0
  BY <1>1 DEF ZeroStats, StatsType
<1>8. TellsUsage(stats_, forgotten, live)
  <2>1. BytesOf({}) \in Nat /\ Cardinality({}) \in Nat
    BY <1>3, BytesType
  <2>2. \A n \in Nat : 0 + n = n
    OBVIOUS
  <2> QED
    BY <1>1, <1>7, <2>1, <2>2 DEF TellsUsage
<1>9. stats_.slab_count = Len(slabs_["SMALL"]) + Len(slabs_["MEDIUM"]) + Len(slabs_["LARGE"])
  <2>1. Len(<<>>) = 0 /\ 0 + 0 + 0 = 0
    OBVIOUS
  <2>2. slabs_["SMALL"] = <<>> /\ slabs_["MEDIUM"] = <<>> /\ slabs_["LARGE"] = <<>>
    BY <1>1 DEF SlabClasses
  <2> QED
    BY <1>7, <2>1, <2>2
<1>10. bases \in 0 .. MaxBases
  BY <1>1
<1> QED
  BY <1>1, <1>3, <1>4, <1>6, <1>7, <1>8, <1>9, <1>10 DEF MemoryInv, PoolHolds

\* TakeFrom, on the slabs as they are or with one more.
LEMMA TakeStep ==
  ASSUME NEW sl, NEW st, NEW top, NEW c, NEW n, NEW size,
         PoolHolds(sl, st, live, forgotten, top), HasRoom(sl, live, top, c, n, size),
         slabs_' = Taken(sl, c, n), live' = live \cup {NewBlock(sl[c][n], size)},
         stats_' = [CountAllocated(st, size) EXCEPT !.free_blocks = @ - 1],
         bases' = top, forgotten' = forgotten
  PROVE  MemoryInv'
<1> DEFINE b == NewBlock(sl[c][n], size)
<1> top \in 0 .. MaxBases /\ PlacesAgree(sl, live, top)
  BY DEF PoolHolds
<1> forgotten \subseteq Block /\ IsFiniteSet(forgotten)
  BY DEF PoolHolds
<1> st \in StatsType /\ TellsUsage(st, forgotten, live)
  BY DEF PoolHolds
<1> IsFiniteSet(FreeIn(sl)) /\ st.free_blocks = Cardinality(FreeIn(sl))
  BY DEF PoolHolds
<1> st.slab_count = Len(sl["SMALL"]) + Len(sl["MEDIUM"]) + Len(sl["LARGE"])
  BY DEF PoolHolds
<1> size \in Nat
  BY DEF HasRoom
<1>1. top \in Nat
  BY MemoryAssumption
<1>2. /\ PlacesAgree(slabs_', live', top) /\ b \notin live /\ live' = live \cup {b}
      /\ <<b.base, b.index>> \in FreeIn(sl)
      /\ FreeIn(slabs_') = FreeIn(sl) \ {<<b.base, b.index>>}
      /\ \A d \in SlabClasses : Len(slabs_'[d]) = Len(sl[d])
  <2>1. GivenOut(sl, Taken(sl, c, n), live, b, top)
    BY BlockTaken
  <2>2. live' = live \cup {b}
    OBVIOUS
  <2> HIDE DEF b
  <2> QED
    BY <2>1, <2>2 DEF GivenOut
<1>3. b.size = size
  BY DEF NewBlock
<1> HIDE DEF b
<1>4. live \subseteq Block /\ IsFiniteSet(live) /\ b \in Block
  BY <1>2 DEF PlacesAgree
<1> DEFINE st2 == CountAllocated(st, size)
<1>5. /\ st2 \in StatsType /\ TellsUsage(st2, forgotten, live')
      /\ st2.free_blocks = st.free_blocks /\ st2.slab_count = st.slab_count
  <2>1. LET s2 == CountAllocated(st, b.size)
        IN  /\ s2 \in StatsType /\ TellsUsage(s2, forgotten, live \cup {b})
            /\ s2.free_blocks = st.free_blocks /\ s2.slab_count = st.slab_count
    BY <1>2, <1>4, Allocated
  <2>2. CountAllocated(st, b.size) = st2
    BY <1>3
  <2> HIDE DEF st2
  <2> QED
    BY <1>2, <2>1, <2>2
<1> HIDE DEF st2
<1>6. /\ IsFiniteSet(FreeIn(slabs_')) /\ Cardinality(FreeIn(slabs_')) \in Nat
      /\ Cardinality(FreeIn(slabs_')) = st.free_blocks - 1
  <2> DEFINE F == FreeIn(sl)
             x == <<b.base, b.index>>
  <2>1. IsFiniteSet(F) /\ x \in F /\ st.free_blocks = Cardinality(F) /\ FreeIn(slabs_') = F \ {x}
    BY <1>2
  <2> HIDE DEF F, x
  <2>2. IsFiniteSet(F \ {x}) /\ Cardinality(F \ {x}) = Cardinality(F) - 1
    BY <2>1, FS_RemoveElement
  <2>3. Cardinality(F \ {x}) \in Nat
    BY <2>2, FS_CardinalityType
  <2> QED
    BY <2>1, <2>2, <2>3
<1>7. stats_' = [st2 EXCEPT !.free_blocks = @ - 1] /\ st2.free_blocks - 1 \in Nat
  BY <1>5, <1>6 DEF st2
<1>8. /\ stats_' \in StatsType /\ stats_'.free_blocks = st2.free_blocks - 1
      /\ stats_'.slab_count = st2.slab_count
      /\ stats_'.current_used_bytes = st2.current_used_bytes
      /\ stats_'.allocated_blocks = st2.allocated_blocks
  BY <1>5, <1>7 DEF StatsType
<1>9. TellsUsage(stats_', forgotten', live')
  BY <1>5, <1>8 DEF TellsUsage
<1>10. stats_'.free_blocks = Cardinality(FreeIn(slabs_'))
  BY <1>5, <1>6, <1>8
<1>11. stats_'.slab_count = Len(slabs_'["SMALL"]) + Len(slabs_'["MEDIUM"]) + Len(slabs_'["LARGE"])
  BY <1>2, <1>5, <1>8 DEF SlabClasses
<1> QED
  BY <1>2, <1>6, <1>8, <1>9, <1>10, <1>11 DEF MemoryInv, PoolHolds

\* Allocate with a slab: one that has room, or a new one.
LEMMA SmallStep ==
  ASSUME MemoryInv, NEW size \in Sizes, AllocateSmall(size)
  PROVE  MemoryInv'
<1> DEFINE c == GetSizeClass(size)
           room == {k \in DOMAIN slabs_[c] : slabs_[c][k].free_count > 0}
           n == SlabWithRoom(c)
<1>1. size \in Nat /\ c # "HUGE" /\ c \in SlabClasses
  <2>1. size \in Nat /\ c # "HUGE"
    BY MemoryAssumption DEF AllocateSmall
  <2> QED
    BY <2>1 DEF GetSizeClass, SlabClasses
<1> HIDE DEF c
<1>2. PoolHolds(slabs_, stats_, live, forgotten, bases)
  BY DEF MemoryInv
<1>3. PlacesAgree(slabs_, live, bases) /\ bases \in Nat /\ bases \in 0 .. MaxBases
      /\ stats_ \in StatsType /\ slabs_ \in [SlabClasses -> Seq(Slab)]
  BY <1>2, MemoryAssumption DEF PoolHolds, PlacesAgree
<1>4. slabs_[c] \in Seq(Slab) /\ Len(slabs_[c]) \in Nat /\ DOMAIN slabs_[c] = 1 .. Len(slabs_[c])
  BY <1>1, <1>3, LenProperties
<1>5. CASE n # 0
  <2>1. room # {} /\ n = Min(room)
    BY <1>5 DEF SlabWithRoom
  <2>2. room \subseteq Nat
    BY <1>4
  <2>3. n \in room
    <3> HIDE DEF room, n
    <3> QED
      BY <2>1, <2>2, Smallest DEF Min
  <2>4. HasRoom(slabs_, live, bases, c, n, size)
    BY <1>1, <1>3, <1>4, <2>3 DEF HasRoom, c
  <2>5. /\ TakeFrom(c, slabs_[c], n, stats_, size) /\ bases' = bases /\ forgotten' = forgotten
    BY <1>5 DEF AllocateSmall, c
  <2> HIDE DEF n
  <2>6. /\ slabs_' = Taken(slabs_, c, n) /\ live' = live \cup {NewBlock(slabs_[c][n], size)}
        /\ stats_' = [CountAllocated(stats_, size) EXCEPT !.free_blocks = @ - 1]
    BY <2>5 DEF TakeFrom, Taken, NewBlock
  <2> QED
    BY <1>2, <2>4, <2>5, <2>6, TakeStep
<1>6. CASE n = 0
  <2> DEFINE slab == EmptySlab(c, bases)
             m == Len(slabs_[c]) + 1
             sl == Grown(slabs_, c, slab)
             st == CreateSlab(stats_, c)
  <2>1. /\ TakeFrom(c, Append(slabs_[c], slab), m, st, size)
        /\ bases < MaxBases /\ bases' = bases + 1 /\ forgotten' = forgotten
    BY <1>6 DEF AllocateSmall, c, EmptySlab, NewSlab
  <2>2. SlabJoined(slabs_, sl, live, c, slab, bases)
    BY <1>1, <1>3, SlabAdded DEF CanGrow
  <2>3. /\ sl = [slabs_ EXCEPT ![c] = Append(slabs_[c], slab)]
        /\ sl[c] = Append(slabs_[c], slab) /\ sl[c][m] = slab
        /\ slab.free_count = BlockCount[c] /\ slab.base = bases + 1
    BY <2>2 DEF SlabJoined, Grown, EmptySlab
  <2>4. /\ PlacesAgree(sl, live, bases + 1)
        /\ FreeIn(sl) = FreeIn(slabs_) \cup ({bases + 1} \X (1 .. BlockCount[c]))
        /\ FreeIn(slabs_) \cap ({bases + 1} \X (1 .. BlockCount[c])) = {}
        /\ \A d \in SlabClasses :
             Len(sl[d]) = IF d = c THEN Len(slabs_[d]) + 1 ELSE Len(slabs_[d])
    BY <2>2 DEF SlabJoined
  <2> HIDE DEF slab, sl
  <2>5. BlockCount[c] \in Nat \ {0}
    BY <1>1, MemoryAssumption
  <2>6. HasRoom(sl, live, bases + 1, c, m, size)
    <3>1. Len(sl[c]) = Len(slabs_[c]) + 1
      BY <1>1, <2>4
    <3>2. m \in 1 .. Len(sl[c]) /\ bases + 1 \in Nat
      BY <1>3, <1>4, <3>1
    <3>3. sl[c][m].free_count > 0
      BY <2>3, <2>5
    <3> QED
      BY <1>1, <2>4, <3>2, <3>3 DEF HasRoom, c
  <2>7. PoolHolds(sl, st, live, forgotten, bases + 1)
    <3>1. bases + 1 \in 0 .. MaxBases
      BY <1>3, <2>1, MemoryAssumption
    <3>2. /\ st \in StatsType /\ st.free_blocks = stats_.free_blocks + BlockCount[c]
          /\ st.slab_count = stats_.slab_count + 1
          /\ st.current_used_bytes = stats_.current_used_bytes
          /\ st.allocated_blocks = stats_.allocated_blocks
      <4> DEFINE count == stats_.slab_count + 1
                 free == stats_.free_blocks + BlockCount[c]
      <4>1. count \in Nat /\ free \in Nat
        BY <1>3, <2>5 DEF StatsType
      <4>2. st = [stats_ EXCEPT !.slab_count = count, !.free_blocks = free]
        BY DEF CreateSlab
      <4> HIDE DEF count, free, st
      <4>3. /\ st \in StatsType /\ st.free_blocks = free /\ st.slab_count = count
            /\ st.current_used_bytes = stats_.current_used_bytes
            /\ st.allocated_blocks = stats_.allocated_blocks
        BY <1>3, <4>1, <4>2 DEF StatsType
      <4> QED
        BY <4>3 DEF count, free
    <3> HIDE DEF st
    <3>3. TellsUsage(st, forgotten, live)
      BY <1>2, <3>2 DEF PoolHolds, TellsUsage
    <3>4. st.slab_count = Len(sl["SMALL"]) + Len(sl["MEDIUM"]) + Len(sl["LARGE"])
      <4>1. stats_.slab_count
              = Len(slabs_["SMALL"]) + Len(slabs_["MEDIUM"]) + Len(slabs_["LARGE"])
        BY <1>2 DEF PoolHolds
      <4>2. \A d \in SlabClasses : Len(slabs_[d]) \in Nat
        BY <1>3, LenProperties
      <4> DEFINE S == "SMALL"
                 M == "MEDIUM"
                 L == "LARGE"
      <4>3. S \in SlabClasses /\ M \in SlabClasses /\ L \in SlabClasses /\ S # M /\ S # L /\ M # L
            /\ (c = S \/ c = M \/ c = L)
        BY <1>1 DEF SlabClasses
      <4> DEFINE old(d) == Len(slabs_[d])
                 new(d) == Len(sl[d])
      <4>4. /\ old(S) \in Nat /\ old(M) \in Nat /\ old(L) \in Nat
            /\ new(S) = IF S = c THEN old(S) + 1 ELSE old(S)
            /\ new(M) = IF M = c THEN old(M) + 1 ELSE old(M)
            /\ new(L) = IF L = c THEN old(L) + 1 ELSE old(L)
        BY <2>4, <4>2, <4>3
      <4>5. st.slab_count = old(S) + old(M) + old(L) + 1
        BY <3>2, <4>1
      <4> HIDE DEF old, new
      <4>6. st.slab_count = new(S) + new(M) + new(L)
        BY <4>3, <4>4, <4>5
      <4> QED
        BY <4>6 DEF new
    <3>5. IsFiniteSet(FreeIn(sl)) /\ Cardinality(FreeIn(sl)) = stats_.free_blocks + BlockCount[c]
      <4> DEFINE F == FreeIn(slabs_)
                 R == {bases + 1} \X (1 .. BlockCount[c])
      <4>1. IsFiniteSet(F) /\ Cardinality(F) = stats_.free_blocks
        BY <1>2 DEF PoolHolds
      <4>2. IsFiniteSet(R) /\ Cardinality(R) = BlockCount[c]
        BY <2>5, OneRow
      <4>3. FreeIn(sl) = F \cup R /\ F \cap R = {}
        BY <2>4
      <4> HIDE DEF F, R
      <4>4. IsFiniteSet(F \cup R) /\ Cardinality(F \cup R)
              = Cardinality(F) + Cardinality(R) - Cardinality(F \cap R)
        BY <4>1, <4>2, FS_Union
      <4>5. Cardinality(F \cap R) = 0
        BY <4>3, FS_EmptySet
      <4>6. stats_.free_blocks \in Nat
        BY <4>1, FS_CardinalityType
      <4> QED
        BY <2>5, <4>1, <4>2, <4>3, <4>4, <4>5, <4>6
    <3> QED
      BY <1>2, <2>4, <3>1, <3>2, <3>3, <3>4, <3>5 DEF PoolHolds
  <2>8. /\ slabs_' = Taken(sl, c, m) /\ live' = live \cup {NewBlock(sl[c][m], size)}
        /\ stats_' = [CountAllocated(st, size) EXCEPT !.free_blocks = @ - 1]
    <3> HIDE DEF st, m
    <3>1. /\ slabs_' = [slabs_ EXCEPT ![c] = [Append(slabs_[c], slab) EXCEPT ![m] = AllocateBlock(@)]]
          /\ live' = live \cup {NewBlock(Append(slabs_[c], slab)[m], size)}
          /\ stats_' = [CountAllocated(st, size) EXCEPT !.free_blocks = @ - 1]
      BY <2>1 DEF TakeFrom, NewBlock
    <3> DEFINE q == [Append(slabs_[c], slab) EXCEPT ![m] = AllocateBlock(@)]
    <3>2. Taken(sl, c, m) = [sl EXCEPT ![c] = q]
      BY <2>3 DEF Taken
    <3> HIDE DEF q
    <3>3. [sl EXCEPT ![c] = q] = [slabs_ EXCEPT ![c] = q]
      BY <1>1, <1>3, <2>3
    <3> QED
      BY <2>3, <3>1, <3>2, <3>3 DEF q
  <2> HIDE DEF st, m
  <2> QED
    BY <2>1, <2>6, <2>7, <2>8, TakeStep
<1> QED
  BY <1>5, <1>6

\* Allocate with malloc.
LEMMA HugeStep ==
  ASSUME MemoryInv, NEW size \in Sizes, AllocateHuge(size)
  PROVE  MemoryInv'
<1> DEFINE b == [base |-> bases + 1, index |-> 1, size |-> size]
<1>1. PoolHolds(slabs_, stats_, live, forgotten, bases)
  BY DEF MemoryInv
<1>2. PlacesAgree(slabs_, live, bases) /\ bases \in Nat /\ size \in Nat /\ MaxBases \in Nat
      /\ bases \in 0 .. MaxBases
  BY <1>1, MemoryAssumption DEF PoolHolds
<1>3. /\ GetSizeClass(size) = "HUGE" /\ bases < MaxBases /\ bases' = bases + 1
      /\ live' = live \cup {b} /\ stats_' = CountAllocated(stats_, size)
      /\ slabs_' = slabs_ /\ forgotten' = forgotten
  BY DEF AllocateHuge
<1>4. PlacesAgree(slabs_, live \cup {b}, bases + 1) /\ b \notin live /\ b \in Block
  BY <1>2, <1>3, HugeTaken
<1>5. b.size = size
  OBVIOUS
<1> HIDE DEF b
<1>6. /\ stats_ \in StatsType /\ forgotten \subseteq Block /\ IsFiniteSet(forgotten)
      /\ live \subseteq Block /\ IsFiniteSet(live) /\ TellsUsage(stats_, forgotten, live)
  BY <1>1 DEF PoolHolds, PlacesAgree
<1>7. LET s2 == CountAllocated(stats_, b.size)
      IN  /\ s2 \in StatsType /\ TellsUsage(s2, forgotten, live \cup {b})
          /\ s2.free_blocks = stats_.free_blocks /\ s2.slab_count = stats_.slab_count
  BY <1>4, <1>6, Allocated
<1>8. /\ stats_' \in StatsType /\ TellsUsage(stats_', forgotten, live \cup {b})
      /\ stats_'.free_blocks = stats_.free_blocks /\ stats_'.slab_count = stats_.slab_count
  BY <1>3, <1>5, <1>7
<1>9. bases + 1 \in 0 .. MaxBases
  BY <1>2, <1>3
<1>10. PoolHolds(slabs_, stats_', live \cup {b}, forgotten, bases + 1)
  BY <1>1, <1>4, <1>8, <1>9 DEF PoolHolds
<1> QED
  BY <1>3, <1>10 DEF MemoryInv

\* Deallocate, of a block from malloc or from a slab.
LEMMA FreeStep ==
  ASSUME MemoryInv, NEW block \in live, Deallocate(block)
  PROVE  MemoryInv'
<1>1. PoolHolds(slabs_, stats_, live, forgotten, bases)
  BY DEF MemoryInv
<1>2. PlacesAgree(slabs_, live, bases) /\ bases \in Nat
  BY <1>1, MemoryAssumption DEF PoolHolds
<1>3. live' = live \ {block} /\ forgotten' = forgotten /\ bases' = bases
  BY DEF Deallocate
<1>4. /\ stats_ \in StatsType /\ forgotten \subseteq Block /\ IsFiniteSet(forgotten)
      /\ live \subseteq Block /\ IsFiniteSet(live) /\ TellsUsage(stats_, forgotten, live)
  BY <1>1 DEF PoolHolds, PlacesAgree
<1> DEFINE st == CountFreed(stats_, block.size)
<1>5. /\ st \in StatsType /\ TellsUsage(st, forgotten, live \ {block})
      /\ st.free_blocks = stats_.free_blocks /\ st.slab_count = stats_.slab_count
  BY <1>4, Freed
<1> HIDE DEF st
<1>6. CASE GetSizeClass(block.size) = "HUGE"
  <2>1. stats_' = st /\ slabs_' = slabs_
    BY <1>6 DEF Deallocate, st
  <2>2. PlacesAgree(slabs_, live \ {block}, bases)
    BY <1>2, <1>6, HugeReturned
  <2>3. PoolHolds(slabs_, st, live \ {block}, forgotten, bases)
    BY <1>1, <1>5, <2>2 DEF PoolHolds
  <2> QED
    BY <1>3, <2>1, <2>3 DEF MemoryInv
<1>7. CASE GetSizeClass(block.size) # "HUGE"
  <2>1. PICK c \in SlabClasses : \E n \in DOMAIN slabs_[c] :
          /\ SlabContains(slabs_[c][n], block)
          /\ slabs_' = [slabs_ EXCEPT ![c][n] = DeallocateBlock(@, block)]
          /\ stats_' = [st EXCEPT !.free_blocks = @ + 1]
    BY <1>7 DEF Deallocate, st
  <2>2. PICK n \in DOMAIN slabs_[c] :
          /\ SlabContains(slabs_[c][n], block)
          /\ slabs_' = [slabs_ EXCEPT ![c][n] = DeallocateBlock(@, block)]
          /\ stats_' = [st EXCEPT !.free_blocks = @ + 1]
    BY <2>1
  <2>3. n \in 1 .. Len(slabs_[c])
    BY <1>2, LenProperties DEF PlacesAgree
  <2>4. Belongs(slabs_, live, bases, c, n, block)
    BY <1>2, <2>2, <2>3 DEF Belongs
  <2> DEFINE sl == Returned(slabs_, c, n, block)
             x == <<block.base, block.index>>
  <2>5. /\ PlacesAgree(sl, live \ {block}, bases)
        /\ x \notin FreeIn(slabs_) /\ FreeIn(sl) = FreeIn(slabs_) \cup {x}
        /\ \A d \in SlabClasses : Len(sl[d]) = Len(slabs_[d])
    <3>1. TakenBack(slabs_, Returned(slabs_, c, n, block), live, block, bases)
      BY <2>4, BlockReturned
    <3> QED
      BY <3>1 DEF TakenBack
  <2>6. slabs_' = sl
    BY <2>2 DEF Returned
  <2> HIDE DEF sl, x
  <2>7. /\ IsFiniteSet(FreeIn(sl)) /\ Cardinality(FreeIn(sl)) = stats_.free_blocks + 1
        /\ stats_.free_blocks + 1 \in Nat
    <3> DEFINE F == FreeIn(slabs_)
    <3>1. IsFiniteSet(F) /\ Cardinality(F) = stats_.free_blocks /\ x \notin F
      BY <1>1, <2>5 DEF PoolHolds
    <3>2. FreeIn(sl) = F \cup {x}
      BY <2>5
    <3> HIDE DEF F
    <3>3. IsFiniteSet(F \cup {x}) /\ Cardinality(F \cup {x}) = Cardinality(F) + 1
      BY <3>1, FS_AddElement
    <3>4. Cardinality(F) \in Nat
      BY <3>1, FS_CardinalityType
    <3> QED
      BY <3>1, <3>2, <3>3, <3>4
  <2>8. stats_' = [st EXCEPT !.free_blocks = st.free_blocks + 1]
    BY <2>2
  <2>9. /\ stats_' \in StatsType /\ stats_'.free_blocks = st.free_blocks + 1
        /\ stats_'.slab_count = st.slab_count
        /\ stats_'.current_used_bytes = st.current_used_bytes
        /\ stats_'.allocated_blocks = st.allocated_blocks
    <3> DEFINE s2 == stats_'
               free == st.free_blocks + 1
    <3>1. s2 = [st EXCEPT !.free_blocks = free] /\ free \in Nat
      BY <1>5, <2>7, <2>8
    <3> HIDE DEF s2, free
    <3>2. /\ s2 \in StatsType /\ s2.free_blocks = free /\ s2.slab_count = st.slab_count
          /\ s2.current_used_bytes = st.current_used_bytes
          /\ s2.allocated_blocks = st.allocated_blocks
      BY <1>5, <3>1 DEF StatsType
    <3> QED
      BY <3>2 DEF s2, free
  <2>10. TellsUsage(stats_', forgotten, live \ {block})
    BY <1>5, <2>9 DEF TellsUsage
  <2>11. stats_'.slab_count = Len(sl["SMALL"]) + Len(sl["MEDIUM"]) + Len(sl["LARGE"])
    BY <1>1, <1>5, <2>5, <2>9 DEF PoolHolds, SlabClasses
  <2>12. stats_'.free_blocks = Cardinality(FreeIn(sl))
    BY <1>5, <2>7, <2>9
  <2>13. PoolHolds(sl, stats_', live \ {block}, forgotten, bases)
    BY <1>1, <2>5, <2>7, <2>9, <2>10, <2>11, <2>12 DEF PoolHolds
  <2> QED
    BY <1>3, <2>6, <2>13 DEF MemoryInv
<1> QED
  BY <1>6, <1>7

\* Clear, when only blocks from malloc are out.
LEMMA ClearStep ==
  ASSUME MemoryInv, Clear
  PROVE  MemoryInv'
<1> DEFINE sl == [c \in SlabClasses |-> <<>>]
<1>1. PoolHolds(slabs_, stats_, live, forgotten, bases)
  BY DEF MemoryInv
<1>2. PlacesAgree(slabs_, live, bases) /\ bases \in Nat /\ live \subseteq Block /\ IsFiniteSet(live)
  BY <1>1, MemoryAssumption DEF PoolHolds, PlacesAgree
<1>3. /\ \A b \in live : GetSizeClass(b.size) = "HUGE"
      /\ slabs_' = sl /\ stats_' = ZeroStats /\ forgotten' = live /\ live' = live /\ bases' = bases
  BY DEF Clear
<1>4. PlacesAgree(sl, live, bases) /\ FreeIn(sl) = {}
  BY <1>2, <1>3, Cleared
<1>5. Len(sl["SMALL"]) + Len(sl["MEDIUM"]) + Len(sl["LARGE"]) = 0
  <2>1. Len(<<>>) = 0 /\ 0 + 0 + 0 = 0
    OBVIOUS
  <2>2. sl["SMALL"] = <<>> /\ sl["MEDIUM"] = <<>> /\ sl["LARGE"] = <<>>
    BY DEF SlabClasses
  <2> HIDE DEF sl
  <2> QED
    BY <2>1, <2>2
<1> HIDE DEF sl
<1>6. /\ ZeroStats \in StatsType /\ ZeroStats.free_blocks = 0 /\ ZeroStats.slab_count = 0
      /\ ZeroStats.current_used_bytes = 0 /\ ZeroStats.allocated_blocks = 0
  BY MemoryAssumption DEF ZeroStats, StatsType
<1>7. TellsUsage(ZeroStats, live, live)
  <2>1. BytesOf(live) \in Nat /\ Cardinality(live) \in Nat
    BY <1>2, BytesType
  <2>2. \A n \in Nat : 0 + n = n
    OBVIOUS
  <2> QED
    BY <1>6, <2>1, <2>2 DEF TellsUsage
<1>8. IsFiniteSet({}) /\ Cardinality({}) = 0
  BY FS_EmptySet
<1>9. PoolHolds(sl, ZeroStats, live, live, bases)
  BY <1>1, <1>2, <1>4, <1>5, <1>6, <1>7, <1>8 DEF PoolHolds
<1> QED
  BY <1>3, <1>9 DEF MemoryInv

LEMMA MemoryStep == MemoryInv /\ [MemoryPoolNext]_memoryVars => MemoryInv'
<1> SUFFICES ASSUME MemoryInv, [MemoryPoolNext]_memoryVars PROVE MemoryInv'
  OBVIOUS
<1>1. ASSUME UNCHANGED memoryVars PROVE MemoryInv'
  BY <1>1 DEF memoryVars, MemoryInv
<1>2. ASSUME NEW size \in Sizes, AllocateSmall(size) \/ AllocateHuge(size) \/ AllocateFails(size)
      PROVE  MemoryInv'
  BY <1>1, <1>2, SmallStep, HugeStep DEF AllocateFails
<1>3. ASSUME NEW block \in live, Deallocate(block) PROVE MemoryInv'
  BY <1>3, FreeStep
<1>4. CASE Clear
  BY <1>4, ClearStep
<1> QED
  BY <1>1, <1>2, <1>3, <1>4 DEF MemoryPoolNext

LEMMA MemoryAlways == MemoryPoolSpec => []MemoryInv
BY MemoryInitial, MemoryStep, PTL DEF MemoryPoolSpec

\* What the pool and its callers believe about memory agrees: no address is
\* handed out twice and none is lost, and the statistics tell what is out, after
\* any calls of Allocate, Deallocate and Clear, for any classes and sizes.
THEOREM PoolMemoryConsistent == MemoryPoolSpec => []MemoryConsistent
BY MemoryAlways, MemoryInvShows, PTL
-------------------------------------------------------------------------------
(* TimerManager: places of a heap. *)

\* The place above a place, and the two below it.
LEMMA Halves ==
  ASSUME NEW i \in Nat \ {0}
  PROVE  /\ i \div 2 \in Nat
         /\ i = 2 * (i \div 2) \/ i = 2 * (i \div 2) + 1
         /\ i > 1 => 1 <= i \div 2 /\ i \div 2 < i
         /\ (2 * i) \div 2 = i /\ (2 * i + 1) \div 2 = i
<1>1. i \in Int /\ i >= 1
  OBVIOUS
<1> QED
  BY <1>1

\* Sets of places that have the place above each of theirs.
UpwardClosed(S) == \A x \in S : x > 1 => x \div 2 \in S

\* The places of every upward closed set that has i.
AboveOf(i) == {p \in 1 .. i : \A S \in SUBSET (1 .. i) : i \in S /\ UpwardClosed(S) => p \in S}

LEMMA AboveRoot == AboveOf(1) = {1}
<1>1. 1 .. 1 = {1}
  OBVIOUS
<1> QED
  BY <1>1 DEF AboveOf

LEMMA AboveOther ==
  ASSUME NEW i \in Nat, i > 1
  PROVE  AboveOf(i) = {i} \cup AboveOf(i \div 2)
<1> DEFINE k == i \div 2
<1>1. k \in Nat /\ 1 <= k /\ k < i
  BY Halves
<1>2. \A x \in 1 .. i : x > 1 => x \div 2 \in 1 .. i /\ x \div 2 < x
  <2> TAKE x \in 1 .. i
  <2>1. x \in Nat \ {0} /\ x <= i
    OBVIOUS
  <2>2. /\ x \div 2 \in Nat
        /\ x > 1 => 1 <= x \div 2 /\ x \div 2 < x
    BY <2>1, Halves
  <2> HIDE DEF k
  <2> DEFINE h == x \div 2
  <2>3. h \in Nat /\ (x > 1 => 1 <= h /\ h < x)
    BY <2>2
  <2> HIDE DEF h
  <2>4. x > 1 => h \in 1 .. i /\ h < x
    BY <2>1, <2>3
  <2> QED
    BY <2>4 DEF h
<1> DEFINE up(x) == x \div 2
<1>3. /\ \A x \in 1 .. i : x > 1 => up(x) \in 1 .. i /\ up(x) < x
      /\ up(i) = k
  BY <1>2
<1>4. \A S : UpwardClosed(S) <=> \A x \in S : x > 1 => up(x) \in S
  BY DEF UpwardClosed
<1> HIDE DEF k, up
<1>5. ASSUME NEW p \in AboveOf(i), p # i
      PROVE  p \in AboveOf(k)
  <2>1. p \in 1 .. i /\ \A S \in SUBSET (1 .. i) : i \in S /\ UpwardClosed(S) => p \in S
    BY <1>5 DEF AboveOf
  <2>2. ASSUME NEW S \in SUBSET (1 .. k), k \in S, UpwardClosed(S)
        PROVE  p \in S
    <3> DEFINE C == {i} \cup S
    <3>1. C \in SUBSET (1 .. i) /\ i \in C
      BY <1>1
    <3>2. UpwardClosed(C)
      BY <1>3, <1>4, <2>2
    <3> QED
      BY <1>5, <2>1, <3>1, <3>2
  <2>3. UpwardClosed(1 .. k)
    <3>1. ASSUME NEW x \in 1 .. k, x > 1
          PROVE  up(x) \in 1 .. k
      <4>1. x \in 1 .. i
        BY <1>1
      <4>2. up(x) \in 1 .. i /\ up(x) < x
        BY <1>3, <3>1, <4>1
      <4> QED
        BY <1>1, <4>2
    <3> QED
      BY <1>4, <3>1
  <2>4. p \in 1 .. k
    BY <1>1, <2>2, <2>3
  <2> QED
    BY <2>2, <2>4 DEF AboveOf
<1>6. ASSUME NEW p \in AboveOf(k)
      PROVE  p \in AboveOf(i)
  <2>1. p \in 1 .. k /\ \A S \in SUBSET (1 .. k) : k \in S /\ UpwardClosed(S) => p \in S
    BY DEF AboveOf
  <2>2. ASSUME NEW S \in SUBSET (1 .. i), i \in S, UpwardClosed(S)
        PROVE  p \in S
    <3> DEFINE C == S \cap (1 .. k)
    <3>1. k \in C
      BY <1>1, <1>3, <1>4, <2>2
    <3>2. ASSUME NEW x \in C, x > 1
          PROVE  up(x) \in C
      <4>1. x \in 1 .. i /\ x <= k
        BY <1>1
      <4>2. up(x) \in 1 .. i /\ up(x) < x
        BY <1>3, <3>2, <4>1
      <4>3. up(x) \in 1 .. k
        BY <1>1, <4>1, <4>2
      <4> QED
        BY <1>4, <2>2, <3>2, <4>3
    <3>3. UpwardClosed(C)
      BY <1>4, <3>2
    <3> HIDE DEF C
    <3>4. C \in SUBSET (1 .. k)
      BY DEF C
    <3>5. p \in C
      BY <2>1, <3>1, <3>3, <3>4
    <3> QED
      BY <3>5 DEF C
  <2>3. p \in 1 .. i
    BY <1>1, <2>1
  <2> QED
    BY <2>2, <2>3 DEF AboveOf
<1>7. i \in AboveOf(i)
  BY DEF AboveOf
<1>8. AboveOf(i) = {i} \cup AboveOf(k)
  BY <1>5, <1>6, <1>7
<1> QED
  BY <1>8 DEF k

\* What the recursive definition of Ancestors says.
LEMMA AncestorsAre ==
  /\ Ancestors[1] = {1}
  /\ \A i \in Nat \ {0} : i > 1 => Ancestors[i] = {i} \cup Ancestors[i \div 2]
<1> DEFINE IsAncestors(f) ==
             f = [i \in Nat \ {0} |-> IF i = 1 THEN {1} ELSE {i} \cup f[i \div 2]]
           g == [i \in Nat \ {0} |-> AboveOf(i)]
<1>1. ASSUME NEW i \in Nat \ {0}
      PROVE  g[i] = IF i = 1 THEN {1} ELSE {i} \cup g[i \div 2]
  <2>1. CASE i = 1
    BY <2>1, AboveRoot
  <2>2. CASE i > 1
    <3>1. i \div 2 \in Nat \ {0}
      BY <2>2, Halves
    <3>2. AboveOf(i) = {i} \cup AboveOf(i \div 2)
      BY <2>2, AboveOther
    <3>3. g[i \div 2] = AboveOf(i \div 2)
      BY <3>1
    <3> QED
      BY <2>2, <3>2, <3>3
  <2> QED
    BY <2>1, <2>2
<1>2. IsAncestors(g)
  <2> DEFINE r == [i \in Nat \ {0} |-> IF i = 1 THEN {1} ELSE {i} \cup g[i \div 2]]
  <2>1. \A i \in Nat \ {0} : g[i] = r[i]
    BY <1>1, Zenon
  <2>2. g = r
    BY <2>1
  <2> QED
    BY <2>2, Zenon
<1> HIDE DEF g
<1>3. IsAncestors(Ancestors)
  <2>1. Ancestors = CHOOSE f : IsAncestors(f)
    BY DEF Ancestors
  <2> QED
    BY <1>2, <2>1, Zenon
<1>4. \A i \in Nat \ {0} : Ancestors[i] = IF i = 1 THEN {1} ELSE {i} \cup Ancestors[i \div 2]
  BY <1>3, Zenon
<1>5. 1 \in Nat \ {0}
  OBVIOUS
<1>6. ASSUME NEW i \in Nat \ {0}, i > 1
      PROVE  Ancestors[i] = {i} \cup Ancestors[i \div 2]
  <2>1. i # 1
    BY <1>6
  <2> QED
    BY <1>4, <2>1, Zenon
<1> QED
  BY <1>4, <1>5, <1>6, Zenon

\* The places above i form a chain from i to the root, in steps to the place above.
ChainUp(i) ==
  /\ Ancestors[i] \subseteq 1 .. i
  /\ i \in Ancestors[i]
  /\ \A x \in Ancestors[i] : x > 1 => x \div 2 \in Ancestors[i]
  /\ \A x \in Ancestors[i] : x # i => \E y \in Ancestors[i] : y > 1 /\ y \div 2 = x
  /\ \A x, y \in Ancestors[i] : y < x => y <= x \div 2

LEMMA AncestorsChain ==
  ASSUME NEW i \in Nat \ {0}
  PROVE  ChainUp(i)
<1> SUFFICES ASSUME ~ChainUp(i)
             PROVE  FALSE
  OBVIOUS
<1> DEFINE T == {j \in Nat \ {0} : ~ChainUp(j)}
<1>1. T \subseteq Nat /\ T # {}
  OBVIOUS
<1>2. PICK j \in T : \A m \in T : j <= m
  BY <1>1, Smallest
<1>3. j \in Nat \ {0} /\ ~ChainUp(j)
  BY <1>2
<1>4. CASE j = 1
  <2>1. Ancestors[1] = {1}
    BY AncestorsAre
  <2>2. ChainUp(1)
    BY <2>1 DEF ChainUp
  <2> QED
    BY <1>3, <1>4, <2>2
<1>5. CASE j > 1
  <2> DEFINE k == j \div 2
             up(x) == x \div 2
  <2>1. k \in Nat \ {0} /\ k < j /\ up(j) = k
    BY <1>3, <1>5, Halves
  <2>2. Ancestors[j] = {j} \cup Ancestors[k]
    BY <1>3, <1>5, AncestorsAre
  <2>3. ChainUp(k)
    <3>1. CASE k \in T
      <4>1. j <= k
        BY <1>2, <3>1
      <4> HIDE DEF k
      <4> QED
        BY <1>3, <2>1, <4>1
    <3>2. CASE k \notin T
      BY <2>1, <3>2
    <3> QED
      BY <3>1, <3>2
  <2>4. /\ Ancestors[k] \subseteq 1 .. k
        /\ k \in Ancestors[k]
        /\ \A x \in Ancestors[k] : x > 1 => up(x) \in Ancestors[k]
        /\ \A x \in Ancestors[k] : x # k => \E y \in Ancestors[k] : y > 1 /\ up(y) = x
        /\ \A x, y \in Ancestors[k] : y < x => y <= up(x)
    BY <2>3 DEF ChainUp
  <2> HIDE DEF k, up
  <2> DEFINE A == Ancestors[j]
             B == Ancestors[k]
  <2>5. A = {j} \cup B /\ B \subseteq 1 .. k /\ k \in B /\ j \notin B
    BY <1>3, <2>1, <2>2, <2>4
  <2> HIDE DEF A, B
  <2>6. A \subseteq 1 .. j /\ j \in A
    BY <1>3, <2>1, <2>5
  <2>7. \A x \in A : x > 1 => up(x) \in A
    BY <2>1, <2>4, <2>5 DEF B
  <2>8. \A x \in A : x # j => \E y \in A : y > 1 /\ up(y) = x
    <3> SUFFICES ASSUME NEW x \in B
                 PROVE  \E y \in A : y > 1 /\ up(y) = x
      BY <2>5
    <3>1. CASE x = k
      BY <1>5, <2>1, <2>6, <3>1
    <3>2. CASE x # k
      <4>1. \E y \in B : y > 1 /\ up(y) = x
        BY <2>4, <3>2 DEF B
      <4> QED
        BY <2>5, <4>1
    <3> QED
      BY <3>1, <3>2
  <2>9. ASSUME NEW x \in A, NEW y \in A, y < x
        PROVE  y <= up(x)
    <3>1. CASE x = j
      <4>1. y \in B
        BY <1>3, <2>5, <2>9, <3>1
      <4> QED
        BY <2>1, <2>5, <3>1, <4>1
    <3>2. CASE x # j
      <4>1. x \in B /\ x <= k
        BY <2>1, <2>5, <3>2
      <4>2. y \in B
        BY <1>3, <2>1, <2>5, <2>9, <4>1
      <4> QED
        BY <2>4, <2>9, <4>1, <4>2 DEF B
    <3> QED
      BY <3>1, <3>2
  <2>10. ChainUp(j)
    BY <2>6, <2>7, <2>8, <2>9 DEF ChainUp, A, up
  <2> QED
    BY <1>3, <2>10
<1> QED
  BY <1>3, <1>4, <1>5

\* The place above a place, named.
Over(x) == x \div 2

LEMMA OverFacts ==
  ASSUME NEW i \in Nat \ {0}
  PROVE  /\ Over(i) \in Nat
         /\ i = 2 * Over(i) \/ i = 2 * Over(i) + 1
         /\ i > 1 => 1 <= Over(i) /\ Over(i) < i
         /\ Over(2 * i) = i /\ Over(2 * i + 1) = i
  BY Halves DEF Over

\* The times of the nodes of a heap.
Time(hr, x) == hr.heap[x].expire

LEMMA TimeType ==
  ASSUME NEW hr, hr.heap \in Seq(TimerNode), NEW x \in 1 .. Len(hr.heap)
  PROVE  Time(hr, x) \in Int
<1>1. hr.heap[x] \in TimerNode
  BY ElementOfSeq
<1> QED
  BY <1>1 DEF Time, TimerNode

\* The places of a sift that lead upwards from i: all but the last have a
\* parent that expires later, and the node of each is to go there.
RisesFrom(hr, i, P) ==
  /\ P \subseteq 1 .. i
  /\ i \in P
  /\ \A x \in P : Climbs(hr, Time(hr, i), x) => Over(x) \in P
  /\ \A x \in P : x # i => Time(hr, x) > Time(hr, i) /\ \E y \in P : y > 1 /\ Over(y) = x
  /\ \A x, y \in P : y < x => Climbs(hr, Time(hr, i), x) /\ y <= Over(x)

LEMMA RiseIs ==
  ASSUME NEW hr, NEW i \in Nat \ {0}
  PROVE  RisesFrom(hr, i, Rise(hr, i))
<1> DEFINE A == Ancestors[i]
           t(x) == Time(hr, x)
           P == Rise(hr, i)
<1>1. /\ A \subseteq 1 .. i
      /\ i \in A
      /\ \A x \in A : x > 1 => Over(x) \in A
      /\ \A x \in A : x # i => \E y \in A : y > 1 /\ Over(y) = x
      /\ \A x, y \in A : y < x => y <= Over(x)
  BY AncestorsChain DEF ChainUp, Over
<1>2. P = {x \in A : \A y \in A : x <= y /\ y < i => t(y) > t(i)}
  BY DEF Rise, Time
<1>3. \A x : Climbs(hr, t(i), x) <=> x > 1 /\ t(Over(x)) > t(i)
  BY DEF Climbs, Time, Over
<1>4. \A x \in A : x \in Nat \ {0} /\ x <= i
  BY <1>1
<1>5. \A x \in A : x > 1 => Over(x) \in Nat /\ Over(x) < x
  BY <1>4, OverFacts
<1> HIDE DEF A, t, P
<1>6. P \subseteq 1 .. i /\ i \in P
  <2>1. \A y \in A : ~(i <= y /\ y < i)
    BY <1>4
  <2>2. i \in P
    BY <1>1, <1>2, <2>1
  <2>3. P \subseteq A
    BY <1>2
  <2> QED
    BY <1>1, <2>2, <2>3
<1>7. ASSUME NEW x \in P, Climbs(hr, t(i), x)
      PROVE  Over(x) \in P
  <2>1. x \in A /\ x > 1 /\ t(Over(x)) > t(i)
    BY <1>2, <1>3, <1>7
  <2>2. Over(x) \in A
    BY <1>1, <2>1
  <2>3. ASSUME NEW y \in A, Over(x) <= y, y < i
        PROVE  t(y) > t(i)
    <3>1. CASE y = Over(x)
      BY <2>1, <3>1
    <3>2. CASE y # Over(x) /\ x <= y
      BY <1>2, <2>3, <3>2
    <3>3. CASE y # Over(x) /\ y < x
      <4>1. y <= Over(x)
        BY <1>1, <2>1, <3>3
      <4> QED
        BY <1>4, <1>5, <2>1, <2>2, <2>3, <3>3, <4>1
    <3> QED
      BY <1>4, <2>1, <3>1, <3>2, <3>3
  <2> QED
    BY <1>2, <2>2, <2>3
<1>8. ASSUME NEW x \in P, x # i
      PROVE  t(x) > t(i) /\ \E y \in P : y > 1 /\ Over(y) = x
  <2>1. x \in A /\ x < i
    BY <1>2, <1>4, <1>8, <1>1
  <2>2. t(x) > t(i)
    BY <1>2, <1>4, <2>1
  <2>3. PICK y \in A : y > 1 /\ Over(y) = x
    BY <1>1, <1>8, <2>1
  <2>4. x <= y
    BY <1>4, <1>5, <2>1, <2>3
  <2>5. \A z \in A : y <= z /\ z < i => t(z) > t(i)
    BY <1>2, <1>4, <2>1, <2>3, <2>4
  <2>6. y \in P
    BY <1>2, <2>5
  <2> QED
    BY <2>2, <2>3, <2>6
<1>9. ASSUME NEW x \in P, NEW y \in P, y < x
      PROVE  Climbs(hr, t(i), x) /\ y <= Over(x)
  <2>1. x \in A /\ y \in A /\ x > 1 /\ y <= Over(x)
    BY <1>1, <1>2, <1>4, <1>9
  <2>2. Over(x) \in A /\ Over(x) < i
    BY <1>1, <1>4, <1>5, <2>1
  <2>3. t(Over(x)) > t(i)
    BY <1>2, <2>1, <2>2
  <2> QED
    BY <1>3, <2>1, <2>3
<1> QED
  BY <1>6, <1>7, <1>8, <1>9, Zenon DEF RisesFrom, P, t

\* The smaller child, where there is a child.
LEMMA ChildIs ==
  ASSUME NEW hr, NEW x \in Nat \ {0}, NEW n \in Nat, 2 * x <= n
  PROVE  /\ Child(hr, x, n) \in 1 .. n
         /\ x < Child(hr, x, n)
         /\ Over(Child(hr, x, n)) = x
<1>1. Child(hr, x, n) = 2 * x \/ (Child(hr, x, n) = 2 * x + 1 /\ 2 * x + 1 <= n)
  BY DEF Child
<1> DEFINE c == Child(hr, x, n)
<1>2. c = 2 * x \/ (c = 2 * x + 1 /\ 2 * x + 1 <= n)
  BY <1>1
<1> HIDE DEF c
<1>3. c \in 1 .. n /\ x < c
  BY <1>2
<1>4. Over(c) = x
  BY <1>2, OverFacts
<1> QED
  BY <1>3, <1>4 DEF c

LEMMA ChildIsSmaller ==
  ASSUME NEW hr, hr.heap \in Seq(TimerNode), NEW n \in 0 .. Len(hr.heap),
         NEW j \in 2 .. n
  PROVE  Time(hr, Child(hr, Over(j), n)) <= Time(hr, j)
<1> DEFINE k == Over(j)
<1>0. Len(hr.heap) \in Nat
  BY LenProperties
<1>1. k \in Nat \ {0} /\ (j = 2 * k \/ j = 2 * k + 1)
  BY OverFacts, <1>0
<1>2. Child(hr, k, n) = IF 2 * k + 1 <= n /\ Time(hr, 2 * k + 1) < Time(hr, 2 * k)
                        THEN 2 * k + 1 ELSE 2 * k
  BY DEF Child, Time
<1> HIDE DEF k
<1>3. 2 * k \in 1 .. Len(hr.heap)
  BY <1>0, <1>1
<1>4. Time(hr, 2 * k) \in Int
  BY <1>3, TimeType
<1>5. 2 * k + 1 <= n => Time(hr, 2 * k + 1) \in Int
  <2> SUFFICES ASSUME 2 * k + 1 <= n
               PROVE  Time(hr, 2 * k + 1) \in Int
    OBVIOUS
  <2>1. 2 * k + 1 \in 1 .. Len(hr.heap)
    BY <1>0, <1>1
  <2> QED
    BY <2>1, TimeType
<1>6. Time(hr, Child(hr, k, n)) <= Time(hr, j)
  BY <1>0, <1>1, <1>2, <1>4, <1>5
<1> QED
  BY <1>6 DEF k

\* The places of a sift that lead downwards from i, each to its smaller child.
FallsFrom(hr, i, n, F) ==
  /\ F \subseteq i .. n
  /\ i \in F
  /\ \A x \in F : Sinks(hr, Time(hr, i), x, n) => Child(hr, x, n) \in F
  /\ \A x \in F : x # i => /\ Over(x) \in F
                           /\ x = Child(hr, Over(x), n)
                           /\ Time(hr, x) < Time(hr, i)
                           /\ Sinks(hr, Time(hr, i), Over(x), n)
  /\ \A x, y \in F : x < y => Sinks(hr, Time(hr, i), x, n) /\ Child(hr, x, n) <= y

LEMMA FallIs ==
  ASSUME NEW hr, NEW n \in Nat, NEW i \in 1 .. n
  PROVE  FallsFrom(hr, i, n, Fall(hr, i, n))
<1> DEFINE t(x) == Time(hr, x)
           c(x) == Child(hr, x, n)
           s(x) == Sinks(hr, t(i), x, n)
           F == Fall(hr, i, n)
<1>1. F = {x \in i .. n : /\ i \in Ancestors[x]
                          /\ \A y \in Ancestors[x] : y > i => y = c(Over(y)) /\ t(y) < t(i)}
  BY DEF Fall, Time, Over
<1>2. \A x : s(x) <=> 2 * x <= n /\ t(c(x)) < t(i)
  BY DEF Sinks, Time
<1>3. \A x \in Nat \ {0} : 2 * x <= n => c(x) \in 1 .. n /\ x < c(x) /\ Over(c(x)) = x
  BY ChildIs
<1>4. \A x \in Nat \ {0} : Ancestors[x] \subseteq 1 .. x /\ x \in Ancestors[x]
  BY AncestorsChain DEF ChainUp
<1>5. \A x \in Nat \ {0} : x > 1 => Ancestors[x] = {x} \cup Ancestors[Over(x)]
  BY AncestorsAre DEF Over
<1>6. \A x \in Nat \ {0} : /\ Over(x) \in Nat
                           /\ x = 2 * Over(x) \/ x = 2 * Over(x) + 1
                           /\ x > 1 => 1 <= Over(x) /\ Over(x) < x
  BY OverFacts
<1>7. i .. n \subseteq Nat \ {0} /\ i \in Nat \ {0}
  OBVIOUS
<1> HIDE DEF t, c, s, F
<1>8. F \subseteq i .. n
  BY <1>1
<1>9. i \in F
  <2>1. \A y \in Ancestors[i] : ~(y > i)
    BY <1>4, <1>7
  <2>2. i \in i .. n /\ i \in Ancestors[i]
    BY <1>4, <1>7
  <2> QED
    BY <1>1, <2>1, <2>2
<1>10. ASSUME NEW x \in F, s(x)
       PROVE  c(x) \in F
  <2>1. x \in Nat \ {0} /\ x \in i .. n /\ 2 * x <= n /\ t(c(x)) < t(i)
    BY <1>2, <1>7, <1>8, <1>10
  <2>2. c(x) \in 1 .. n /\ x < c(x) /\ Over(c(x)) = x
    BY <1>3, <2>1
  <2>3. Ancestors[c(x)] = {c(x)} \cup Ancestors[x]
    <3>1. c(x) \in Nat \ {0} /\ c(x) > 1
      BY <2>1, <2>2
    <3> QED
      BY <1>5, <2>2, <3>1
  <2>4. i \in Ancestors[x] /\ \A y \in Ancestors[x] : y > i => y = c(Over(y)) /\ t(y) < t(i)
    BY <1>1
  <2>5. \A y \in Ancestors[c(x)] : y > i => y = c(Over(y)) /\ t(y) < t(i)
    BY <2>1, <2>2, <2>3, <2>4
  <2>6. c(x) \in i .. n
    BY <2>1, <2>2
  <2> QED
    BY <1>1, <2>3, <2>4, <2>5, <2>6
<1>11. ASSUME NEW x \in F, x # i
       PROVE  Over(x) \in F /\ x = c(Over(x)) /\ t(x) < t(i) /\ s(Over(x))
  <2>1. x \in Nat \ {0} /\ x \in i .. n /\ x > i /\ x > 1
    BY <1>7, <1>8, <1>11
  <2>2. i \in Ancestors[x] /\ \A y \in Ancestors[x] : y > i => y = c(Over(y)) /\ t(y) < t(i)
    BY <1>1
  <2>3. x = c(Over(x)) /\ t(x) < t(i)
    BY <1>4, <2>1, <2>2
  <2>4. Ancestors[x] = {x} \cup Ancestors[Over(x)]
    BY <1>5, <2>1
  <2>5. i \in Ancestors[Over(x)]
    BY <1>11, <2>2, <2>4
  <2>6. /\ Over(x) \in Nat \ {0} /\ Over(x) < x
        /\ x = 2 * Over(x) \/ x = 2 * Over(x) + 1
    BY <1>6, <2>1
  <2>7. i \in 1 .. Over(x)
    BY <1>4, <2>5, <2>6
  <2>8. Over(x) \in i .. n
    BY <2>1, <2>6, <2>7
  <2>9. Over(x) \in F
    BY <1>1, <2>2, <2>4, <2>5, <2>8
  <2>10. 2 * Over(x) <= n
    BY <2>1, <2>6
  <2> QED
    BY <1>2, <2>3, <2>9, <2>10
<1>12. ASSUME NEW x \in F, NEW y \in F, x < y
       PROVE  s(x) /\ c(x) <= y
  <2> DEFINE good(v) == \A w \in F : (w < v) => s(w) /\ c(w) <= v
             T == {v \in F : ~good(v)}
  <2>1. CASE T = {}
    BY <1>12, <2>1
  <2>2. CASE T # {}
    <3>1. T \subseteq Nat
      BY <1>7, <1>8
    <3>2. PICK v \in T : \A u \in T : v <= u
      BY <2>2, <3>1, Smallest
    <3>3. PICK w \in F : w < v /\ ~(s(w) /\ c(w) <= v)
      BY <3>2
    <3>4. /\ v \in F /\ v \in Nat \ {0} /\ v # i
          /\ w \in Nat \ {0} /\ w >= i
      BY <1>7, <1>8, <3>2, <3>3
    <3>5. Over(v) \in F /\ v = c(Over(v)) /\ s(Over(v)) /\ Over(v) \in Nat /\ Over(v) < v
      <4>1. v > 1
        BY <3>3, <3>4
      <4> QED
        BY <1>6, <1>11, <3>4, <4>1
    <3>6. ASSUME NEW u \in F, u < v
          PROVE  good(u)
      <4>1. u \in Nat /\ v \in Nat
        BY <1>7, <1>8, <3>4
      <4>2. CASE u \in T
        <5>1. v <= u
          BY <3>2, <4>2
        <5> QED
          BY <3>6, <4>1, <5>1
      <4>3. CASE u \notin T
        BY <4>3
      <4> QED
        BY <4>2, <4>3
    <3> HIDE DEF T
    <3>7. CASE Over(v) = w
      <4> HIDE DEF good
      <4> QED
        BY <3>3, <3>4, <3>5, <3>7
    <3>8. CASE Over(v) > w
      <4>1. s(w) /\ c(w) <= Over(v)
        BY <3>5, <3>6, <3>8
      <4>2. 2 * w <= n
        BY <1>2, <4>1
      <4>3. c(w) \in 1 .. n
        BY <1>3, <3>4, <4>2
      <4> HIDE DEF good
      <4> QED
        BY <3>3, <3>4, <3>5, <4>1, <4>3
    <3>9. CASE Over(v) < w
      <4>1. good(w)
        BY <3>3, <3>6
      <4>2. c(Over(v)) <= w
        BY <3>5, <3>9, <4>1
      <4> HIDE DEF good
      <4> QED
        BY <3>3, <3>4, <3>5, <4>2
    <3> HIDE DEF good
    <3> QED
      BY <3>4, <3>5, <3>7, <3>8, <3>9
  <2> HIDE DEF T
  <2> QED
    BY <2>1, <2>2
<1> QED
  BY <1>8, <1>9, <1>10, <1>11, <1>12, Zenon DEF FallsFrom, t, c, s, F

\* A way to rearrange the places of its domain among themselves.
Permutes(from) ==
  /\ \A x \in DOMAIN from : from[x] \in DOMAIN from
  /\ \A x, y \in DOMAIN from : from[x] = from[y] => x = y
  /\ \A y \in DOMAIN from : \E x \in DOMAIN from : from[x] = y

RisePlaces(hr, i) ==
  [x \in Rise(hr, i) |-> IF Climbs(hr, Time(hr, i), x) THEN Over(x) ELSE i]

FallPlaces(hr, i, n) ==
  [x \in Fall(hr, i, n) |-> IF Sinks(hr, Time(hr, i), x, n) THEN Child(hr, x, n) ELSE i]

LEMMA RisePermutes ==
  ASSUME NEW hr, NEW i \in Nat \ {0}
  PROVE  Permutes(RisePlaces(hr, i))
<1> DEFINE P == Rise(hr, i)
           goes(x) == Climbs(hr, Time(hr, i), x)
           f == RisePlaces(hr, i)
<1>1. DOMAIN f = P /\ \A x \in P : f[x] = IF goes(x) THEN Over(x) ELSE i
  BY DEF RisePlaces
<1>2. /\ P \subseteq 1 .. i
      /\ i \in P
      /\ \A x \in P : goes(x) => Over(x) \in P
      /\ \A x \in P : x # i => \E y \in P : y > 1 /\ Over(y) = x
      /\ \A x, y \in P : y < x => goes(x) /\ y <= Over(x)
  BY RiseIs DEF RisesFrom
<1>3. \A x \in P : goes(x) => x > 1
  BY DEF Climbs
<1>4. \A x \in P : x \in Nat \ {0} /\ x <= i
  BY <1>2
<1>5. \A x \in P : x > 1 => Over(x) \in Nat /\ Over(x) < x
  BY <1>4, OverFacts
<1> HIDE DEF P, goes, f
<1>6. \A x \in P : f[x] \in P
  BY <1>1, <1>2
<1>7. \A x \in P : goes(x) => f[x] # i
  BY <1>1, <1>3, <1>4, <1>5
<1>8. ASSUME NEW x \in P, NEW y \in P, y < x, f[x] = f[y]
      PROVE  FALSE
  <2>1. goes(x) /\ y <= Over(x) /\ f[x] = Over(x)
    BY <1>1, <1>2, <1>8
  <2>2. goes(y) /\ f[y] = Over(y)
    BY <1>1, <1>7, <1>8, <2>1
  <2>3. Over(x) = Over(y)
    BY <1>8, <2>1, <2>2
  <2>4. y \in Nat /\ Over(y) \in Nat /\ Over(y) < y
    BY <1>3, <1>4, <1>5, <2>2
  <2> QED
    BY <2>1, <2>3, <2>4
<1>9. \A x, y \in P : f[x] = f[y] => x = y
  BY <1>4, <1>8
<1>10. ASSUME NEW y \in P
       PROVE  \E x \in P : f[x] = y
  <2>1. CASE y = i
    <3>1. P \subseteq Nat /\ P # {}
      BY <1>2, <1>4
    <3>2. PICK x \in P : \A z \in P : x <= z
      BY <3>1, Smallest
    <3>3. ~goes(x)
      BY <1>2, <1>3, <1>4, <1>5, <3>2
    <3> QED
      BY <1>1, <2>1, <3>3
  <2>2. CASE y # i
    <3>1. PICK x \in P : x > 1 /\ Over(x) = y
      BY <1>2, <2>2
    <3>2. y < x
      BY <1>4, <1>5, <3>1
    <3>3. goes(x)
      BY <1>2, <3>2
    <3> QED
      BY <1>1, <3>1, <3>3
  <2> QED
    BY <2>1, <2>2
<1> QED
  BY <1>1, <1>6, <1>9, <1>10 DEF Permutes, f

LEMMA FallPermutes ==
  ASSUME NEW hr, NEW n \in Nat, NEW i \in 1 .. n
  PROVE  Permutes(FallPlaces(hr, i, n))
<1> DEFINE F == Fall(hr, i, n)
           goes(x) == Sinks(hr, Time(hr, i), x, n)
           c(x) == Child(hr, x, n)
           f == FallPlaces(hr, i, n)
<1>1. DOMAIN f = F /\ \A x \in F : f[x] = IF goes(x) THEN c(x) ELSE i
  BY DEF FallPlaces
<1>2. /\ F \subseteq i .. n
      /\ i \in F
      /\ \A x \in F : goes(x) => c(x) \in F
      /\ \A x \in F : x # i => Over(x) \in F /\ x = c(Over(x)) /\ goes(Over(x))
      /\ \A x, y \in F : x < y => goes(x) /\ c(x) <= y
  BY FallIs DEF FallsFrom
<1>3. \A x \in F : x \in Nat \ {0} /\ i <= x /\ x <= n
  BY <1>2
<1>4. \A x \in F : goes(x) => c(x) \in Nat /\ x < c(x)
  <2> SUFFICES ASSUME NEW x \in F, goes(x)
               PROVE  c(x) \in Nat /\ x < c(x)
    OBVIOUS
  <2>1. 2 * x <= n /\ x \in Nat \ {0}
    BY <1>3 DEF Sinks
  <2>2. c(x) \in 1 .. n /\ x < c(x)
    BY <2>1, ChildIs
  <2> QED
    BY <2>2
<1> HIDE DEF F, goes, c, f
<1>5. \A x \in F : f[x] \in F
  BY <1>1, <1>2
<1>6. \A x \in F : goes(x) => f[x] # i
  BY <1>1, <1>3, <1>4
<1>7. ASSUME NEW x \in F, NEW y \in F, x < y, f[x] = f[y]
      PROVE  FALSE
  <2>1. goes(x) /\ c(x) <= y /\ f[x] = c(x)
    BY <1>1, <1>2, <1>7
  <2>2. goes(y) /\ f[y] = c(y)
    BY <1>1, <1>6, <1>7, <2>1
  <2>3. c(x) = c(y)
    BY <1>7, <2>1, <2>2
  <2>4. y \in Nat /\ c(y) \in Nat /\ y < c(y)
    BY <1>3, <1>4, <2>2
  <2> QED
    BY <2>1, <2>3, <2>4
<1>8. \A x, y \in F : f[x] = f[y] => x = y
  BY <1>3, <1>7
<1>9. ASSUME NEW y \in F
      PROVE  \E x \in F : f[x] = y
  <2>1. CASE y = i
    <3> DEFINE T == {n - x : x \in F}
    <3>1. T \subseteq Nat /\ T # {}
      BY <1>2, <1>3
    <3>2. PICK m \in T : \A z \in T : m <= z
      <4> HIDE DEF T
      <4> QED
        BY <3>1, Smallest
    <3>3. PICK x \in F : m = n - x
      BY <3>2
    <3>4. \A z \in F : n - x <= n - z
      BY <3>2, <3>3
    <3>5. ~goes(x)
      <4> SUFFICES ASSUME goes(x)
                   PROVE  FALSE
        OBVIOUS
      <4>1. c(x) \in F /\ c(x) \in Nat /\ x < c(x)
        BY <1>2, <1>4
      <4>2. n - x <= n - c(x)
        BY <3>4, <4>1
      <4> QED
        BY <1>3, <4>1, <4>2
    <3> QED
      BY <1>1, <2>1, <3>5
  <2>2. CASE y # i
    BY <1>1, <1>2, <2>2
  <2> QED
    BY <2>1, <2>2
<1> QED
  BY <1>1, <1>5, <1>8, <1>9 DEF Permutes, f
-------------------------------------------------------------------------------
(* The map between descriptors and places. *)

\* The map leads from every descriptor to its own node and back.
Mapped(hr) ==
  /\ hr.heap \in Seq(TimerNode)
  /\ DOMAIN hr.ref \subseteq TimerFds
  /\ \A x \in 1 .. Len(hr.heap) : /\ hr.heap[x].fd \in DOMAIN hr.ref
                                  /\ hr.ref[hr.heap[x].fd] = x
  /\ \A fd \in DOMAIN hr.ref : /\ hr.ref[fd] \in 1 .. Len(hr.heap)
                               /\ hr.heap[hr.ref[fd]].fd = fd

\* Every descriptor keeps its node, and the places from n on keep theirs.
SameNodes(hr, c, n) ==
  /\ Len(c.heap) = Len(hr.heap)
  /\ DOMAIN c.ref = DOMAIN hr.ref
  /\ \A fd \in DOMAIN hr.ref : c.heap[c.ref[fd]] = hr.heap[hr.ref[fd]]
  /\ \A x \in 1 .. Len(hr.heap) : x > n => c.heap[x] = hr.heap[x]

LEMMA CarriedKeeps ==
  ASSUME NEW hr, Mapped(hr), NEW n \in Nat, NEW from, Permutes(from),
         DOMAIN from \subseteq 1 .. n, n <= Len(hr.heap)
  PROVE  /\ Mapped(Carried(hr, from))
         /\ SameNodes(hr, Carried(hr, from), n)
         /\ \A x \in 1 .. Len(hr.heap) :
              Carried(hr, from).heap[x] = hr.heap[IF x \in DOMAIN from THEN from[x] ELSE x]
<1> DEFINE h == hr.heap
           N == Len(hr.heap)
           D == DOMAIN from
           g(x) == IF x \in D THEN from[x] ELSE x
           c == Carried(hr, from)
           nodes == [x \in DOMAIN hr.heap |-> hr.heap[IF x \in DOMAIN from THEN from[x] ELSE x]]
           moved == {nodes[x].fd : x \in DOMAIN from}
<1>0. N \in Nat /\ DOMAIN h = 1 .. N /\ h \in Seq(TimerNode)
  BY LenProperties DEF Mapped
<1>1. D \subseteq 1 .. n /\ D \subseteq 1 .. N
  BY <1>0
<1>2. /\ \A x \in D : g(x) \in D
      /\ \A x, y \in D : g(x) = g(y) => x = y
      /\ \A y \in D : \E x \in D : g(x) = y
      /\ \A x : x \notin D => g(x) = x
  BY Zenon DEF Permutes
<1>3. /\ nodes = [x \in 1 .. N |-> h[g(x)]]
      /\ c.heap = nodes
      /\ DOMAIN c.ref = DOMAIN hr.ref \cup moved
      /\ \A fd \in DOMAIN hr.ref \cup moved :
           c.ref[fd] = IF fd \in moved THEN CHOOSE x \in D : nodes[x].fd = fd ELSE hr.ref[fd]
  <2>1. nodes = [x \in 1 .. N |-> h[g(x)]]
    BY <1>0
  <2> HIDE DEF nodes
  <2> DEFINE r == [fd \in DOMAIN hr.ref \cup moved |->
                    IF fd \in moved THEN CHOOSE x \in D : nodes[x].fd = fd ELSE hr.ref[fd]]
  <2>2. c = [heap |-> nodes, ref |-> r]
    BY DEF Carried, nodes
  <2> HIDE DEF moved
  <2>3. /\ DOMAIN r = DOMAIN hr.ref \cup moved
        /\ \A fd \in DOMAIN hr.ref \cup moved :
             r[fd] = IF fd \in moved THEN CHOOSE x \in D : nodes[x].fd = fd ELSE hr.ref[fd]
    BY Zenon
  <2> HIDE DEF r, c, D
  <2>4. c.heap = nodes /\ c.ref = r
    BY <2>2
  <2> QED
    BY <2>1, <2>3, <2>4, Zenon
<1>4. \A x \in 1 .. N : g(x) \in 1 .. N
  <2> HIDE DEF g, D
  <2> QED
    BY <1>1, <1>2
<1>5. \A x, y \in 1 .. N : g(x) = g(y) => x = y
  <2> HIDE DEF g, D
  <2> QED
    BY <1>2, Zenon
<1>6. \A y \in 1 .. N : \E x \in 1 .. N : g(x) = y
  <2> HIDE DEF g, D
  <2> TAKE y \in 1 .. N
  <2>1. CASE y \in D
    BY <1>1, <1>2, <2>1, Zenon
  <2>2. CASE y \notin D
    BY <1>2, <2>2, Zenon
  <2> QED
    BY <2>1, <2>2
<1>7. /\ \A x \in 1 .. N : h[x].fd \in DOMAIN hr.ref /\ hr.ref[h[x].fd] = x
      /\ \A fd \in DOMAIN hr.ref : hr.ref[fd] \in 1 .. N /\ h[hr.ref[fd]].fd = fd
  BY DEF Mapped
<1>8. moved = {h[g(x)].fd : x \in D}
  <2>1. \A x \in D : nodes[x] = h[g(x)]
    BY <1>1, <1>3
  <2> HIDE DEF nodes, g, D, h
  <2> QED
    BY <2>1 DEF D
<1> HIDE DEF h, N, D, g, c, nodes, moved
<1>9. DOMAIN c.ref = DOMAIN hr.ref
  <2>1. moved \subseteq DOMAIN hr.ref
    BY <1>1, <1>4, <1>7, <1>8
  <2> QED
    BY <1>3, <2>1
<1>10. \A x \in 1 .. N : c.heap[x] = h[g(x)]
  BY <1>3
<1>11. ASSUME NEW fd \in DOMAIN hr.ref
       PROVE  c.ref[fd] \in 1 .. N /\ g(c.ref[fd]) = hr.ref[fd]
  <2>1. CASE fd \in moved
    <3>1. PICK y \in D : nodes[y].fd = fd
      <4>1. PICK y \in D : h[g(y)].fd = fd
        BY <1>8, <2>1
      <4> QED
        BY <1>1, <1>3, <4>1
    <3>2. c.ref[fd] = CHOOSE x \in D : nodes[x].fd = fd
      BY <1>3, <2>1
    <3>3. c.ref[fd] \in D /\ nodes[c.ref[fd]].fd = fd
      BY <3>1, <3>2, Zenon
    <3> DEFINE y0 == c.ref[fd]
    <3>4. y0 \in 1 .. N /\ h[g(y0)].fd = fd
      BY <1>1, <1>3, <3>3
    <3> HIDE DEF y0
    <3>5. g(y0) = hr.ref[fd]
      BY <1>4, <1>7, <3>4
    <3> QED
      BY <3>4, <3>5 DEF y0
  <2>2. CASE fd \notin moved
    <3>1. c.ref[fd] = hr.ref[fd] /\ hr.ref[fd] \in 1 .. N
      BY <1>3, <1>7, <2>2
    <3>2. hr.ref[fd] \notin D
      <4> SUFFICES ASSUME hr.ref[fd] \in D
                   PROVE  FALSE
        OBVIOUS
      <4>1. PICK x \in D : g(x) = hr.ref[fd]
        BY <1>2
      <4> QED
        BY <1>7, <1>8, <2>2, <4>1
    <3> QED
      BY <1>2, <3>1, <3>2
  <2> QED
    BY <2>1, <2>2
<1>12. c.heap \in Seq(TimerNode) /\ Len(c.heap) = N
  <2>1. \A x \in 1 .. N : h[g(x)] \in TimerNode
    BY <1>0, <1>4, ElementOfSeq DEF h, N
  <2>2. c.heap \in [1 .. N -> TimerNode]
    BY <1>3, <2>1
  <2> HIDE DEF c
  <2> QED
    BY <1>0, <2>2, LenProperties, SeqDef
<1>13. Mapped(c)
  <2>1. ASSUME NEW x \in 1 .. N
        PROVE  c.heap[x].fd \in DOMAIN c.ref /\ c.ref[c.heap[x].fd] = x
    <3> DEFINE fd == h[g(x)].fd
    <3>1. fd \in DOMAIN hr.ref /\ hr.ref[fd] = g(x) /\ c.heap[x].fd = fd
      BY <1>4, <1>7, <1>10
    <3> HIDE DEF fd
    <3>2. c.ref[fd] \in 1 .. N /\ g(c.ref[fd]) = g(x)
      BY <1>11, <3>1
    <3>3. c.ref[fd] = x
      BY <1>5, <3>2
    <3> QED
      BY <1>9, <3>1, <3>3
  <2>2. ASSUME NEW fd \in DOMAIN c.ref
        PROVE  c.ref[fd] \in 1 .. N /\ c.heap[c.ref[fd]].fd = fd
    <3>1. fd \in DOMAIN hr.ref /\ c.ref[fd] \in 1 .. N /\ g(c.ref[fd]) = hr.ref[fd]
      BY <1>9, <1>11
    <3>2. c.heap[c.ref[fd]] = h[hr.ref[fd]]
      BY <1>10, <3>1
    <3> QED
      BY <1>7, <3>1, <3>2
  <2>3. DOMAIN c.ref \subseteq TimerFds
    BY <1>9 DEF Mapped
  <2> QED
    BY <1>12, <2>1, <2>2, <2>3 DEF Mapped
<1>14. SameNodes(hr, c, n)
  <2>1. ASSUME NEW fd \in DOMAIN hr.ref
        PROVE  c.heap[c.ref[fd]] = h[hr.ref[fd]]
    BY <1>10, <1>11
  <2>2. ASSUME NEW x \in 1 .. N, x > n
        PROVE  c.heap[x] = h[x]
    <3>1. x \notin D
      BY <1>1, <2>2
    <3> QED
      BY <1>2, <1>10, <3>1
  <2> QED
    BY <1>9, <1>12, <2>1, <2>2 DEF SameNodes, h, N
<1> QED
  BY <1>10, <1>13, <1>14 DEF h, N, D, g, c
-------------------------------------------------------------------------------
(* The order of a heap. *)

\* No node expires before the one above it.
OrderedTo(hr, n) == \A j \in 2 .. n : Time(hr, Over(j)) <= Time(hr, j)

\* Ordered but for the node at i, whatever its time.
OrderedBut(hr, n, i) ==
  /\ \A j \in 2 .. n : j # i /\ Over(j) # i => Time(hr, Over(j)) <= Time(hr, j)
  /\ i > 1 => \A j \in 2 .. n : Over(j) = i => Time(hr, Over(i)) <= Time(hr, j)

\* A node that does not sink expires before its children.
LEMMA StaysAbove ==
  ASSUME NEW hr, hr.heap \in Seq(TimerNode), NEW n \in Nat, n <= Len(hr.heap),
         NEW e \in Int, NEW j \in 2 .. n, ~Sinks(hr, e, Over(j), n)
  PROVE  e <= Time(hr, j)
<1> DEFINE k == Over(j)
           c == Child(hr, k, n)
<1>0. Len(hr.heap) \in Nat
  BY LenProperties
<1>1. k \in Nat \ {0} /\ 2 * k <= n
  <2>1. j \in Nat \ {0} /\ j > 1 /\ j <= n
    OBVIOUS
  <2>2. k \in Nat /\ 1 <= k /\ (j = 2 * k \/ j = 2 * k + 1)
    BY <2>1, OverFacts
  <2> HIDE DEF k
  <2> QED
    BY <2>1, <2>2
<1>2. c \in 1 .. n
  BY <1>1, ChildIs
<1>3. c \in 1 .. Len(hr.heap) /\ j \in 1 .. Len(hr.heap)
  BY <1>0, <1>2
<1>4. Time(hr, c) \in Int /\ Time(hr, j) \in Int
  BY <1>3, TimeType
<1>5. ~(Time(hr, c) < e)
  BY <1>1 DEF Sinks, Time
<1>6. n \in 0 .. Len(hr.heap)
  BY <1>0
<1>7. Time(hr, c) <= Time(hr, j)
  BY <1>6, ChildIsSmaller
<1> QED
  BY <1>4, <1>5, <1>7

\* The times of the places above and below, which the cases below compare.
LEMMA TimesAround ==
  ASSUME NEW hr, hr.heap \in Seq(TimerNode), NEW n \in Nat, n <= Len(hr.heap),
         NEW j \in 2 .. n
  PROVE  /\ Over(j) \in 1 .. n /\ Over(j) < j
         /\ Time(hr, j) \in Int /\ Time(hr, Over(j)) \in Int
<1>0. Len(hr.heap) \in Nat
  BY LenProperties
<1>1. Over(j) \in 1 .. n /\ Over(j) < j
  <2>1. j \in Nat \ {0} /\ j > 1 /\ j <= n
    OBVIOUS
  <2>2. Over(j) \in Nat /\ 1 <= Over(j) /\ Over(j) < j
    BY <2>1, OverFacts
  <2> QED
    BY <2>1, <2>2
<1>2. j \in 1 .. Len(hr.heap) /\ Over(j) \in 1 .. Len(hr.heap)
  BY <1>0, <1>1
<1>3. Time(hr, j) \in Int /\ Time(hr, Over(j)) \in Int
  BY <1>2, TimeType
<1> QED
  BY <1>1, <1>3

\* What is carried along a path of the first n places.
LEMMA CarriedTime ==
  ASSUME NEW hr, Mapped(hr), NEW n \in Nat, NEW from, Permutes(from),
         DOMAIN from \subseteq 1 .. n, n <= Len(hr.heap)
  PROVE  \A x \in 1 .. n :
           Time(Carried(hr, from), x) = Time(hr, IF x \in DOMAIN from THEN from[x] ELSE x)
<1>1. \A x \in 1 .. Len(hr.heap) :
        Carried(hr, from).heap[x] = hr.heap[IF x \in DOMAIN from THEN from[x] ELSE x]
  BY CarriedKeeps
<1>2. 1 .. n \subseteq 1 .. Len(hr.heap)
  BY LenProperties DEF Mapped
<1> QED
  BY <1>1, <1>2, Zenon DEF Time

LEMMA SiftupKeeps ==
  ASSUME NEW hr, Mapped(hr), NEW n \in Nat, n <= Len(hr.heap), NEW i \in 1 .. n
  PROVE  Mapped(siftup_(hr, i)) /\ SameNodes(hr, siftup_(hr, i), n)
<1>1. CASE ~Climbs(hr, Time(hr, i), i)
  <2>1. siftup_(hr, i) = hr
    BY <1>1 DEF siftup_, Time
  <2> QED
    BY <2>1 DEF SameNodes
<1>2. CASE Climbs(hr, Time(hr, i), i)
  <2>1. siftup_(hr, i) = Carried(hr, RisePlaces(hr, i))
    BY <1>2, Zenon DEF siftup_, RisePlaces, Time, Over
  <2>2. Permutes(RisePlaces(hr, i))
    BY RisePermutes
  <2>3. DOMAIN RisePlaces(hr, i) \subseteq 1 .. n
    <3>1. Rise(hr, i) \subseteq 1 .. i
      BY RiseIs DEF RisesFrom
    <3> QED
      BY <3>1 DEF RisePlaces
  <2> QED
    BY <2>1, <2>2, <2>3, CarriedKeeps
<1> QED
  BY <1>1, <1>2

LEMMA SiftupOrders ==
  ASSUME NEW hr, Mapped(hr), NEW n \in Nat, n <= Len(hr.heap), NEW i \in 1 .. n,
         OrderedBut(hr, n, i), ~Sinks(hr, Time(hr, i), i, n)
  PROVE  OrderedTo(siftup_(hr, i), n)
<1> DEFINE t(x) == Time(hr, x)
           goes(x) == Climbs(hr, t(i), x)
<1>0. hr.heap \in Seq(TimerNode) /\ i \in Nat \ {0}
  BY DEF Mapped
<1>1. \A j \in 2 .. n : Over(j) \in 1 .. n /\ Over(j) < j /\ t(j) \in Int /\ t(Over(j)) \in Int
  BY <1>0, TimesAround
<1>2. t(i) \in Int
  <2>1. i \in 1 .. Len(hr.heap)
    BY LenProperties, <1>0
  <2> QED
    BY <1>0, <2>1, TimeType
<1>3. \A j \in 2 .. n : Over(j) = i => t(i) <= t(j)
  BY <1>0, <1>2, StaysAbove
<1>4. \A x : goes(x) <=> x > 1 /\ t(Over(x)) > t(i)
  BY DEF Climbs, Time, Over
<1>5. CASE ~goes(i)
  <2>1. siftup_(hr, i) = hr
    BY <1>5 DEF siftup_, Time
  <2> HIDE DEF t, goes
  <2>2. ASSUME NEW j \in 2 .. n
        PROVE  t(Over(j)) <= t(j)
    <3>1. CASE j = i
      BY <1>1, <1>2, <1>4, <1>5, <3>1
    <3>2. CASE Over(j) = i
      BY <1>3, <3>2
    <3>3. CASE j # i /\ Over(j) # i
      BY <3>3 DEF OrderedBut, t
    <3> QED
      BY <3>1, <3>2, <3>3
  <2> QED
    BY <2>1, <2>2 DEF OrderedTo, t
<1>6. CASE goes(i)
  <2> DEFINE P == Rise(hr, i)
             c == siftup_(hr, i)
             s(x) == Time(c, x)
  <2>1. c = Carried(hr, RisePlaces(hr, i))
    BY <1>6, Zenon DEF siftup_, RisePlaces, Time, Over
  <2>2. /\ P \subseteq 1 .. i
        /\ i \in P
        /\ \A x \in P : goes(x) => Over(x) \in P
        /\ \A x \in P : x # i => t(x) > t(i)
        /\ \A x, y \in P : y < x => goes(x)
    BY <1>0, RiseIs DEF RisesFrom
  <2>3. \A x \in 1 .. n :
          s(x) = t(IF x \in P THEN IF goes(x) THEN Over(x) ELSE i ELSE x)
    <3>1. /\ DOMAIN RisePlaces(hr, i) = P
          /\ \A x \in P : RisePlaces(hr, i)[x] = IF goes(x) THEN Over(x) ELSE i
      BY DEF RisePlaces
    <3>2. P \subseteq 1 .. n
      BY <2>2
    <3>3. Permutes(RisePlaces(hr, i))
      BY <1>0, RisePermutes
    <3> DEFINE f == RisePlaces(hr, i)
    <3>4. \A x \in 1 .. n : Time(Carried(hr, f), x) = Time(hr, IF x \in DOMAIN f THEN f[x] ELSE x)
      <4> HIDE DEF f, P
      <4> QED
        BY <3>1, <3>2, <3>3, CarriedTime DEF f
    <3> HIDE DEF c, P
    <3> QED
      BY <2>1, <3>1, <3>4
  <2>4. /\ \A j \in 2 .. n : j # i /\ Over(j) # i => t(Over(j)) <= t(j)
        /\ i > 1 => \A j \in 2 .. n : Over(j) = i => t(Over(i)) <= t(j)
    BY DEF OrderedBut
  <2> HIDE DEF t, goes, P, c, s
  <2>5. /\ \A x \in P : x \in Nat \ {0} /\ x <= i
        /\ i \in 2 .. n
    BY <1>0, <1>4, <1>6, <2>2
  <2>6. ASSUME NEW x \in P, x # i, x > 1
        PROVE  /\ t(Over(x)) <= t(x)
               /\ t(x) \in Int /\ t(Over(x)) \in Int
    <3>1. x \in 2 .. n /\ x < i
      BY <2>5, <2>6
    <3>2. Over(x) # i
      BY <1>1, <2>5, <3>1
    <3> QED
      BY <1>1, <2>4, <2>6, <3>1, <3>2
  <2>7. ASSUME NEW j \in 2 .. n
        PROVE  s(Over(j)) <= s(j)
    <3> DEFINE k == Over(j)
    <3>1. k \in 1 .. n /\ k < j /\ t(j) \in Int /\ t(k) \in Int /\ j > 1
      BY <1>1
    <3>2. /\ s(j) = t(IF j \in P THEN IF goes(j) THEN k ELSE i ELSE j)
          /\ s(k) = t(IF k \in P THEN IF goes(k) THEN Over(k) ELSE i ELSE k)
      BY <2>3, <3>1
    <3> SUFFICES s(k) <= s(j)
      OBVIOUS
    <3> HIDE DEF k
    <3>3. CASE j \in P /\ k \in P
      <4>1. goes(j) /\ t(k) > t(i)
        BY <1>4, <2>2, <3>1, <3>3 DEF k
      <4>2. s(j) = t(k)
        BY <3>2, <3>3, <4>1
      <4>3. CASE ~goes(k)
        BY <1>2, <3>1, <3>2, <3>3, <4>1, <4>2, <4>3
      <4>4. CASE goes(k)
        <5>1. k # i /\ k > 1
          BY <1>4, <2>5, <3>1, <3>3, <4>4
        <5>2. t(Over(k)) <= t(k)
          BY <2>6, <3>3, <5>1
        <5> QED
          BY <3>2, <3>3, <4>2, <4>4, <5>2
      <4> QED
        BY <4>3, <4>4
    <3>4. CASE j \in P /\ k \notin P
      <4>1. ~goes(j)
        BY <2>2, <3>4 DEF k
      <4>2. t(k) <= t(i)
        BY <1>2, <1>4, <3>1, <4>1 DEF k
      <4> QED
        BY <3>2, <3>4, <4>1, <4>2
    <3>5. CASE j \notin P /\ k \in P /\ k = i
      <4>1. s(k) = t(Over(i)) /\ s(j) = t(j)
        BY <1>6, <3>2, <3>5
      <4> QED
        BY <2>4, <2>5, <3>1, <3>5, <4>1 DEF k
    <3>6. CASE j \notin P /\ k \in P /\ k # i
      <4>1. s(j) = t(j) /\ t(k) > t(i) /\ t(k) <= t(j)
        BY <2>2, <2>4, <3>2, <3>6 DEF k
      <4>2. CASE goes(k)
        <5>1. k > 1
          BY <1>4, <4>2
        <5>2. t(Over(k)) <= t(k) /\ t(Over(k)) \in Int
          BY <2>6, <3>6, <5>1
        <5> QED
          BY <3>1, <3>2, <3>6, <4>1, <4>2, <5>2
      <4>3. CASE ~goes(k)
        BY <1>2, <3>1, <3>2, <3>6, <4>1, <4>3
      <4> QED
        BY <4>2, <4>3
    <3>7. CASE j \notin P /\ k \notin P
      BY <2>2, <2>4, <3>2, <3>7 DEF k
    <3> QED
      BY <3>3, <3>4, <3>5, <3>6, <3>7
  <2> QED
    BY <2>7 DEF OrderedTo, s, c
<1> QED
  BY <1>5, <1>6

LEMMA SiftdownKeeps ==
  ASSUME NEW hr, Mapped(hr), NEW n \in Nat, n <= Len(hr.heap), NEW i \in 1 .. n
  PROVE  Mapped(siftdown_(hr, i, n)) /\ SameNodes(hr, siftdown_(hr, i, n), n)
<1>1. CASE ~Sinks(hr, Time(hr, i), i, n)
  <2>1. siftdown_(hr, i, n) = hr
    BY <1>1 DEF siftdown_, Time
  <2> QED
    BY <2>1 DEF SameNodes
<1>2. CASE Sinks(hr, Time(hr, i), i, n)
  <2>1. siftdown_(hr, i, n) = Carried(hr, FallPlaces(hr, i, n))
    BY <1>2, Zenon DEF siftdown_, FallPlaces, Time
  <2>2. Permutes(FallPlaces(hr, i, n))
    BY FallPermutes
  <2>3. DOMAIN FallPlaces(hr, i, n) \subseteq 1 .. n
    <3>1. Fall(hr, i, n) \subseteq i .. n
      BY FallIs DEF FallsFrom
    <3> QED
      BY <3>1 DEF FallPlaces
  <2> QED
    BY <2>1, <2>2, <2>3, CarriedKeeps
<1> QED
  BY <1>1, <1>2

LEMMA SiftdownOrders ==
  ASSUME NEW hr, Mapped(hr), NEW n \in Nat, n <= Len(hr.heap), NEW i \in 1 .. n,
         OrderedBut(hr, n, i), Sinks(hr, Time(hr, i), i, n)
  PROVE  OrderedTo(siftdown_(hr, i, n), n)
<1> DEFINE t(x) == Time(hr, x)
           goes(x) == Sinks(hr, t(i), x, n)
           d(x) == Child(hr, x, n)
           F == Fall(hr, i, n)
           c == siftdown_(hr, i, n)
           s(x) == Time(c, x)
<1>0. hr.heap \in Seq(TimerNode) /\ i \in Nat \ {0} /\ Len(hr.heap) \in Nat
  BY LenProperties DEF Mapped
<1>1. \A j \in 2 .. n : Over(j) \in 1 .. n /\ Over(j) < j /\ t(j) \in Int /\ t(Over(j)) \in Int
  BY <1>0, TimesAround
<1>2. t(i) \in Int
  <2>1. i \in 1 .. Len(hr.heap)
    BY <1>0
  <2> QED
    BY <1>0, <2>1, TimeType
<1>3. \A x \in Nat \ {0} : goes(x) => /\ d(x) \in 2 .. n /\ Over(d(x)) = x /\ x < d(x)
                                      /\ t(d(x)) < t(i)
  <2> SUFFICES ASSUME NEW x \in Nat \ {0}, goes(x)
               PROVE  d(x) \in 2 .. n /\ Over(d(x)) = x /\ x < d(x) /\ t(d(x)) < t(i)
    OBVIOUS
  <2>1. 2 * x <= n /\ t(d(x)) < t(i)
    BY DEF Sinks, Time
  <2>2. d(x) \in 1 .. n /\ x < d(x) /\ Over(d(x)) = x
    BY <2>1, ChildIs
  <2> HIDE DEF d, t
  <2> QED
    BY <2>1, <2>2
<1>4. \A j \in 2 .. n : /\ ~goes(Over(j)) => t(i) <= t(j)
                        /\ t(d(Over(j))) <= t(j)
  <2>1. n \in 0 .. Len(hr.heap)
    BY <1>0
  <2>2. \A j \in 2 .. n : t(d(Over(j))) <= t(j)
    BY <1>0, <2>1, ChildIsSmaller
  <2>3. \A j \in 2 .. n : ~goes(Over(j)) => t(i) <= t(j)
    BY <1>0, <1>2, StaysAbove
  <2> QED
    BY <2>2, <2>3
<1>5. c = Carried(hr, FallPlaces(hr, i, n))
  BY Zenon DEF siftdown_, FallPlaces, Time
<1>6. /\ F \subseteq i .. n
      /\ i \in F
      /\ \A x \in F : goes(x) => d(x) \in F
      /\ \A x \in F : x # i => Over(x) \in F /\ x = d(Over(x)) /\ goes(Over(x)) /\ t(x) < t(i)
  BY FallIs DEF FallsFrom
<1>7. \A x \in 1 .. n : s(x) = t(IF x \in F THEN IF goes(x) THEN d(x) ELSE i ELSE x)
  <2> DEFINE f == FallPlaces(hr, i, n)
  <2>1. DOMAIN f = F /\ \A x \in F : f[x] = IF goes(x) THEN d(x) ELSE i
    BY DEF FallPlaces
  <2>2. Permutes(f)
    BY FallPermutes
  <2> HIDE DEF f, F
  <2>3. F \subseteq 1 .. n
    BY <1>6
  <2>4. \A x \in 1 .. n : Time(Carried(hr, f), x) = Time(hr, IF x \in DOMAIN f THEN f[x] ELSE x)
    <3>1. DOMAIN f \subseteq 1 .. n
      BY <2>1, <2>3, Zenon
    <3> QED
      BY <2>2, <3>1, CarriedTime, Zenon
  <2> HIDE DEF c
  <2> QED
    BY <1>5, <2>1, <2>4 DEF f
<1>8. goes(i)
  OBVIOUS
<1>9. /\ \A j \in 2 .. n : j # i /\ Over(j) # i => t(Over(j)) <= t(j)
      /\ i > 1 => \A j \in 2 .. n : Over(j) = i => t(Over(i)) <= t(j)
  BY DEF OrderedBut
<1> HIDE DEF t, goes, d, F, c, s
<1>10. \A x \in F : x \in Nat \ {0} /\ i <= x /\ x <= n
  BY <1>6
<1>11. ASSUME NEW j \in 2 .. n
       PROVE  s(Over(j)) <= s(j)
  <2> DEFINE k == Over(j)
  <2>1. k \in 1 .. n /\ k < j /\ t(j) \in Int /\ t(k) \in Int
    BY <1>1
  <2>2. /\ s(j) = t(IF j \in F THEN IF goes(j) THEN d(j) ELSE i ELSE j)
        /\ s(k) = t(IF k \in F THEN IF goes(k) THEN d(k) ELSE i ELSE k)
    BY <1>7, <2>1
  <2> SUFFICES s(k) <= s(j)
    OBVIOUS
  <2> HIDE DEF k
  <2>3. CASE j \in F /\ k \in F
    <3>1. j # i
      BY <1>10, <2>1, <2>3
    <3>2. j = d(k) /\ goes(k) /\ t(j) < t(i)
      BY <1>6, <2>3, <3>1 DEF k
    <3>3. s(k) = t(j)
      BY <2>2, <2>3, <3>2
    <3>4. CASE ~goes(j)
      BY <1>2, <2>1, <2>2, <2>3, <3>2, <3>3, <3>4
    <3>5. CASE goes(j)
      <4> DEFINE u == d(j)
      <4>1. u \in 2 .. n /\ Over(u) = j /\ j < u
        BY <1>3, <1>10, <2>3, <3>5
      <4> HIDE DEF u
      <4>2. u # i
        BY <1>10, <2>3, <4>1
      <4>3. t(j) <= t(u)
        BY <1>9, <3>1, <4>1, <4>2
      <4> QED
        BY <2>2, <2>3, <3>3, <3>5, <4>3 DEF u
    <3> QED
      BY <3>4, <3>5
  <2>4. CASE j \in F /\ k \notin F
    <3>1. j = i
      BY <1>6, <2>4 DEF k
    <3>2. s(j) = t(d(i)) /\ s(k) = t(Over(i))
      BY <1>8, <2>2, <2>4, <3>1 DEF k
    <3>3. i > 1 /\ d(i) \in 2 .. n /\ Over(d(i)) = i
      BY <1>3, <1>8, <1>10, <1>6, <3>1
    <3> QED
      BY <1>9, <3>2, <3>3
  <2>5. CASE j \notin F /\ k \in F
    <3>1. s(j) = t(j)
      BY <2>2, <2>5
    <3> QED
      BY <1>4, <2>2, <2>5, <3>1 DEF k
  <2>6. CASE j \notin F /\ k \notin F
    BY <1>6, <1>9, <2>2, <2>6 DEF k
  <2> QED
    BY <2>3, <2>4, <2>5, <2>6
<1> QED
  BY <1>11 DEF OrderedTo, s, c

\* A sift puts the node at i where it belongs (siftdown_, else siftup_).
LEMMA Sifted ==
  ASSUME NEW hr, Mapped(hr), NEW n \in Nat, n <= Len(hr.heap), NEW i \in 1 .. n,
         OrderedBut(hr, n, i)
  PROVE  /\ Mapped(Sift(hr, i, n))
         /\ SameNodes(hr, Sift(hr, i, n), n)
         /\ OrderedTo(Sift(hr, i, n), n)
<1>1. CASE Sinks(hr, Time(hr, i), i, n)
  <2>1. Sift(hr, i, n) = siftdown_(hr, i, n)
    BY <1>1 DEF Sift, Time
  <2> QED
    BY <1>1, <2>1, SiftdownKeeps, SiftdownOrders
<1>2. CASE ~Sinks(hr, Time(hr, i), i, n)
  <2>1. Sift(hr, i, n) = siftup_(hr, i)
    BY <1>2 DEF Sift, Time
  <2> QED
    BY <1>2, <2>1, SiftupKeeps, SiftupOrders
<1> QED
  BY <1>1, <1>2
-------------------------------------------------------------------------------
(* The operations of the heap. *)

Consistent(hr) == Mapped(hr) /\ OrderedTo(hr, Len(hr.heap))

\* The timers of a heap as a map from descriptors to times.
ExpiresOf(hr) == [fd \in DOMAIN hr.ref |-> hr.heap[hr.ref[fd]].expire]

LEMMA SameExpires ==
  ASSUME NEW hr, NEW c, NEW n, SameNodes(hr, c, n)
  PROVE  ExpiresOf(c) = ExpiresOf(hr)
<1>1. DOMAIN c.ref = DOMAIN hr.ref
  BY DEF SameNodes
<1>2. \A fd \in DOMAIN hr.ref : c.heap[c.ref[fd]].expire = hr.heap[hr.ref[fd]].expire
  BY DEF SameNodes
<1> QED
  BY <1>1, <1>2 DEF ExpiresOf

\* A heap in which the node at i alone has another time.
LEMMA OrderedAround ==
  ASSUME NEW hr, hr.heap \in Seq(TimerNode), NEW n \in Nat, n <= Len(hr.heap),
         OrderedTo(hr, n), NEW u, NEW i \in 1 .. n,
         \A x \in 1 .. n : x # i => Time(u, x) = Time(hr, x)
  PROVE  OrderedBut(u, n, i)
<1> DEFINE t(x) == Time(hr, x)
           s(x) == Time(u, x)
<1>1. \A j \in 2 .. n : Over(j) \in 1 .. n /\ Over(j) < j /\ t(j) \in Int /\ t(Over(j)) \in Int
  BY TimesAround
<1>2. \A j \in 2 .. n : t(Over(j)) <= t(j)
  BY DEF OrderedTo
<1>3. \A x \in 1 .. n : x # i => s(x) = t(x)
  OBVIOUS
<1> HIDE DEF t, s
<1>4. ASSUME NEW j \in 2 .. n, j # i, Over(j) # i
      PROVE  s(Over(j)) <= s(j)
  <2>1. j \in 1 .. n
    OBVIOUS
  <2> QED
    BY <1>1, <1>2, <1>3, <1>4, <2>1
<1>5. ASSUME i > 1, NEW j \in 2 .. n, Over(j) = i
      PROVE  s(Over(i)) <= s(j)
  <2>1. i \in 2 .. n /\ j \in 1 .. n
    BY <1>5
  <2>2. Over(i) \in 1 .. n /\ Over(i) # i /\ j # i
    BY <1>1, <1>5, <2>1
  <2>3. s(Over(i)) = t(Over(i)) /\ s(j) = t(j)
    BY <1>3, <2>1, <2>2
  <2>4. t(Over(i)) <= t(i) /\ t(i) <= t(j) /\ t(i) \in Int /\ t(j) \in Int /\ t(Over(i)) \in Int
    BY <1>1, <1>2, <1>5, <2>1
  <2> QED
    BY <2>3, <2>4
<1> QED
  BY <1>4, <1>5 DEF OrderedBut, s

\* The first of the timers is the next to expire.
LEMMA FirstIsEarliest ==
  ASSUME NEW hr, Consistent(hr), NEW x \in 1 .. Len(hr.heap)
  PROVE  Time(hr, 1) <= Time(hr, x)
<1> DEFINE n == Len(hr.heap)
           t(y) == Time(hr, y)
           T == {y \in 1 .. n : ~(t(1) <= t(y))}
<1>0. hr.heap \in Seq(TimerNode) /\ n \in Nat
  BY LenProperties DEF Consistent, Mapped
<1>1. \A y \in 1 .. n : t(y) \in Int
  BY <1>0, TimeType
<1>2. \A j \in 2 .. n : t(Over(j)) <= t(j) /\ Over(j) \in 1 .. n /\ Over(j) < j
  BY <1>0, TimesAround DEF Consistent, OrderedTo
<1>3. 1 \in 1 .. n
  BY <1>0
<1> HIDE DEF t
<1>4. CASE T # {}
  <2>1. T \subseteq Nat
    OBVIOUS
  <2>2. PICK y \in T : \A z \in T : y <= z
    BY <1>4, <2>1, Smallest
  <2>3. y \in 2 .. n /\ ~(t(1) <= t(y))
    <3>1. y \in 1 .. n /\ ~(t(1) <= t(y))
      BY <2>2
    <3>2. y # 1
      BY <1>1, <1>3, <3>1
    <3> HIDE DEF n
    <3> QED
      BY <1>0, <3>1, <3>2
  <2>4. Over(y) \in 1 .. n /\ Over(y) < y /\ t(Over(y)) <= t(y)
    BY <1>2, <2>3
  <2>5. Over(y) \notin T
    <3> SUFFICES ASSUME Over(y) \in T PROVE FALSE
      OBVIOUS
    <3>1. y <= Over(y)
      BY <2>2
    <3> HIDE DEF T, n
    <3> QED
      BY <1>0, <2>3, <2>4, <3>1
  <2>6. t(1) <= t(Over(y))
    BY <2>4, <2>5
  <2>7. y \in 1 .. n
    BY <2>2
  <2> HIDE DEF T, n
  <2> QED
    BY <1>1, <1>3, <2>3, <2>4, <2>6, <2>7
<1>5. CASE T = {}
  <2>1. t(1) <= t(x)
    BY <1>5
  <2> QED
    BY <2>1 DEF t
<1> QED
  BY <1>4, <1>5

\* The time a call gives to a timer.
NewTime(timeout_ms) == now + TicksPerMs * timeout_ms

LEMMA NewTimeType ==
  ASSUME TimerManagerTypeOK, NEW t \in Timeouts
  PROVE  NewTime(t) \in Int
<1>1. t \in Int /\ now \in Int
  BY TimerAssumption DEF TimerManagerTypeOK
<1> QED
  BY <1>1 DEF NewTime, TicksPerMs

\* AdjustTimer moves the node of a descriptor to where its new time belongs.
LEMMA AdjustedKeeps ==
  ASSUME TimerManagerTypeOK, NEW hr, hr = [heap |-> hr.heap, ref |-> hr.ref],
         Consistent(hr), NEW fd \in DOMAIN hr.ref, NEW t \in Timeouts
  PROVE  /\ Consistent(Adjusted(hr, fd, t))
         /\ ExpiresOf(Adjusted(hr, fd, t)) = Queue!Put(ExpiresOf(hr), fd, t)
<1> DEFINE i == hr.ref[fd]
           N == Len(hr.heap)
           v == NewTime(t)
           u == [hr EXCEPT !.heap[i].expire = v]
           c == Sift(u, i, N)
<1>0. hr.heap \in Seq(TimerNode) /\ N \in Nat /\ Mapped(hr) /\ OrderedTo(hr, N)
  BY LenProperties DEF Consistent, Mapped
<1>1. i \in 1 .. N /\ hr.heap[i].fd = fd
  BY DEF Consistent, Mapped
<1>2. v \in Int
  BY NewTimeType
<1>3. Adjusted(hr, fd, t) = c
  BY DEF Adjusted, NewTime
<1>4. u.ref = hr.ref /\ u.heap = [hr.heap EXCEPT ![i].expire = v]
  <2> DEFINE a == hr.heap
             r == hr.ref
  <2>1. hr = [heap |-> a, ref |-> r]
    OBVIOUS
  <2> HIDE DEF a, r, v, i
  <2>2. u = [heap |-> [a EXCEPT ![i].expire = v], ref |-> r]
    BY <2>1
  <2> HIDE DEF u
  <2>3. u.heap = [a EXCEPT ![i].expire = v] /\ u.ref = r
    BY <2>2
  <2> QED
    BY <2>3 DEF a, r
<1>5. \A x \in 1 .. N : hr.heap[x] \in TimerNode
  BY <1>0, ElementOfSeq
<1> HIDE DEF v, u
<1>6. /\ u.heap \in Seq(TimerNode) /\ Len(u.heap) = N
      /\ \A x \in 1 .. N : /\ u.heap[x].fd = hr.heap[x].fd
                           /\ Time(u, x) = IF x = i THEN v ELSE Time(hr, x)
  <2>1. DOMAIN hr.heap = 1 .. N
    BY <1>0, LenProperties
  <2> DEFINE a == hr.heap
             b == u.heap
  <2>2. b = [x \in 1 .. N |-> IF x = i THEN [a[x] EXCEPT !.expire = v] ELSE a[x]]
    BY <1>1, <1>4, <2>1
  <2>3. \A x \in 1 .. N : a[x] \in TimerNode
    BY <1>5
  <2> HIDE DEF a, b, i, N
  <2>4. ASSUME NEW x \in 1 .. N
        PROVE  /\ b[x] \in TimerNode /\ b[x].fd = a[x].fd
               /\ b[x].expire = IF x = i THEN v ELSE a[x].expire
    BY <1>2, <2>2, <2>3 DEF TimerNode
  <2>5. b \in [1 .. N -> TimerNode]
    BY <2>2, <2>4
  <2>6. b \in Seq(TimerNode) /\ Len(b) = N
    BY <1>0, <2>5, SeqDef, LenProperties
  <2> QED
    BY <2>4, <2>6 DEF Time, a, b
<1>7. Mapped(u)
  BY <1>0, <1>4, <1>6 DEF Mapped
<1>8. OrderedBut(u, N, i)
  <2>1. \A x \in 1 .. N : x # i => Time(u, x) = Time(hr, x)
    BY <1>6
  <2> HIDE DEF N, i
  <2>2. N <= Len(hr.heap)
    BY <1>0 DEF N
  <2> QED
    BY <1>0, <1>1, <2>1, <2>2, OrderedAround
<1>9. Mapped(c) /\ SameNodes(u, c, N) /\ OrderedTo(c, N)
  <2> HIDE DEF N, i
  <2>1. N <= Len(u.heap)
    BY <1>0, <1>6
  <2> QED
    BY <1>0, <1>1, <1>7, <1>8, <2>1, Sifted
<1>10. Consistent(c)
  <2>1. Len(c.heap) = N
    BY <1>6, <1>9 DEF SameNodes
  <2> QED
    BY <1>9, <2>1 DEF Consistent
<1>11. ExpiresOf(u) = Queue!Put(ExpiresOf(hr), fd, t)
  <2>1. \A f \in DOMAIN hr.ref : hr.ref[f] \in 1 .. N /\ hr.heap[hr.ref[f]].fd = f
    BY DEF Consistent, Mapped
  <2>2. \A f \in DOMAIN hr.ref :
          u.heap[u.ref[f]].expire = IF f = fd THEN v ELSE hr.heap[hr.ref[f]].expire
    <3> TAKE f \in DOMAIN hr.ref
    <3>1. hr.ref[f] = i <=> f = fd
      BY <1>1, <2>1
    <3>2. Time(u, hr.ref[f]) = IF hr.ref[f] = i THEN v ELSE Time(hr, hr.ref[f])
      BY <1>6, <2>1
    <3> QED
      BY <1>4, <3>1, <3>2 DEF Time
  <2>3. DOMAIN hr.ref \cup {fd} = DOMAIN hr.ref
    OBVIOUS
  <2> QED
    BY <1>4, <2>2, <2>3 DEF ExpiresOf, Queue!Put, v, NewTime
<1>12. ExpiresOf(c) = ExpiresOf(u)
  BY <1>9, SameExpires
<1> QED
  BY <1>3, <1>10, <1>11, <1>12

\* AddTimer of a new descriptor puts its node last and moves it up.
LEMMA NewAdded ==
  ASSUME TimerManagerTypeOK, NEW hr, Consistent(hr), NEW fd \in TimerFds,
         fd \notin DOMAIN hr.ref, NEW t \in Timeouts
  PROVE  /\ Consistent(Added(hr, fd, t))
         /\ ExpiresOf(Added(hr, fd, t)) = Queue!Put(ExpiresOf(hr), fd, t)
<1> DEFINE N == Len(hr.heap)
           n == N + 1
           v == NewTime(t)
           node == [fd |-> fd, expire |-> v]
           u == [heap |-> Append(hr.heap, node), ref |-> PutRef(hr.ref, fd, n)]
           c == siftup_(u, n)
<1>0. hr.heap \in Seq(TimerNode) /\ N \in Nat /\ Mapped(hr) /\ OrderedTo(hr, N)
  BY LenProperties DEF Consistent, Mapped
<1>1. node \in TimerNode /\ node.fd = fd /\ node.expire = v
  BY NewTimeType DEF TimerNode
<1>2. Added(hr, fd, t) = c
  BY Zenon DEF Added, NewTime
<1>3. /\ u.heap = Append(hr.heap, node)
      /\ DOMAIN u.ref = DOMAIN hr.ref \cup {fd}
      /\ \A f \in DOMAIN hr.ref \cup {fd} : u.ref[f] = IF f = fd THEN n ELSE hr.ref[f]
  BY DEF PutRef
<1> HIDE DEF v, node, u
<1>4. /\ u.heap \in Seq(TimerNode) /\ Len(u.heap) = n
      /\ \A x \in 1 .. N : u.heap[x] = hr.heap[x]
      /\ u.heap[n] = node
  BY <1>0, <1>1, <1>3, AppendProperties
<1>5. /\ DOMAIN hr.ref \subseteq TimerFds
      /\ \A x \in 1 .. N : hr.heap[x].fd \in DOMAIN hr.ref /\ hr.ref[hr.heap[x].fd] = x
      /\ \A f \in DOMAIN hr.ref : hr.ref[f] \in 1 .. N /\ hr.heap[hr.ref[f]].fd = f
  BY <1>0 DEF Mapped
<1>6. n \in Nat /\ 1 .. n = (1 .. N) \cup {n} /\ n \in 1 .. n
  BY <1>0
<1> HIDE DEF N, n
<1>7. Mapped(u)
  <2>1. ASSUME NEW x \in 1 .. n
        PROVE  u.heap[x].fd \in DOMAIN u.ref /\ u.ref[u.heap[x].fd] = x
    <3>1. CASE x = n
      BY <1>1, <1>3, <1>4, <3>1
    <3>2. CASE x \in 1 .. N
      <4>1. u.heap[x].fd = hr.heap[x].fd /\ hr.heap[x].fd \in DOMAIN hr.ref
        BY <1>4, <1>5, <3>2
      <4>2. hr.heap[x].fd # fd
        BY <4>1
      <4> QED
        BY <1>3, <1>5, <3>2, <4>1, <4>2
    <3> QED
      BY <1>6, <3>1, <3>2
  <2>2. ASSUME NEW f \in DOMAIN u.ref
        PROVE  u.ref[f] \in 1 .. n /\ u.heap[u.ref[f]].fd = f
    <3>1. CASE f = fd
      BY <1>1, <1>3, <1>4, <1>6, <3>1
    <3>2. CASE f # fd
      <4>1. f \in DOMAIN hr.ref /\ u.ref[f] = hr.ref[f]
        BY <1>3, <3>2
      <4> QED
        BY <1>4, <1>5, <1>6, <4>1
    <3> QED
      BY <3>1, <3>2
  <2> QED
    BY <1>3, <1>4, <1>5, <2>1, <2>2 DEF Mapped
<1>8. OrderedBut(u, n, n)
  <2>1. ASSUME NEW j \in 2 .. n
        PROVE  Over(j) \in Nat /\ Over(j) >= 1 /\ Over(j) < j
    <3>1. j \in Nat \ {0} /\ j > 1
      OBVIOUS
    <3> QED
      BY <3>1, OverFacts
  <2>2. ASSUME NEW j \in 2 .. n, j # n
        PROVE  Time(u, Over(j)) <= Time(u, j)
    <3>1. j \in 2 .. N /\ j \in 1 .. N
      BY <1>0, <2>2 DEF n
    <3>2. Over(j) \in 1 .. N
      BY <1>0, <2>1, <3>1
    <3>3. Time(u, j) = Time(hr, j) /\ Time(u, Over(j)) = Time(hr, Over(j))
      BY <1>4, <3>1, <3>2 DEF Time
    <3> QED
      BY <1>0, <3>1, <3>3 DEF OrderedTo
  <2>3. \A j \in 2 .. n : Over(j) # n
    BY <1>6, <2>1
  <2> QED
    BY <2>2, <2>3 DEF OrderedBut
<1>9. ~Sinks(u, Time(u, n), n, n)
  <2>1. ~(2 * n <= n)
    BY <1>0 DEF n
  <2> QED
    BY <2>1 DEF Sinks
<1>10. Mapped(c) /\ SameNodes(u, c, n) /\ OrderedTo(c, n)
  <2>1. n <= Len(u.heap)
    BY <1>4, <1>6
  <2> QED
    BY <1>6, <1>7, <1>8, <1>9, <2>1, SiftupKeeps, SiftupOrders
<1>11. Consistent(c)
  <2>1. Len(c.heap) = n
    BY <1>4, <1>10 DEF SameNodes
  <2> QED
    BY <1>10, <2>1 DEF Consistent
<1>12. ExpiresOf(u) = Queue!Put(ExpiresOf(hr), fd, t)
  <2>1. ASSUME NEW f \in DOMAIN hr.ref \cup {fd}
        PROVE  u.heap[u.ref[f]].expire = IF f = fd THEN v ELSE hr.heap[hr.ref[f]].expire
    <3>1. CASE f = fd
      <4>1. u.ref[f] = n
        BY <1>3, <3>1
      <4> QED
        BY <1>1, <1>4, <3>1, <4>1
    <3>2. CASE f # fd
      <4>1. f \in DOMAIN hr.ref /\ u.ref[f] = hr.ref[f]
        BY <1>3, <3>2
      <4>2. u.heap[hr.ref[f]] = hr.heap[hr.ref[f]]
        BY <1>4, <1>5, <4>1
      <4> QED
        BY <3>2, <4>1, <4>2
    <3> QED
      BY <3>1, <3>2
  <2>2. DOMAIN ExpiresOf(hr) = DOMAIN hr.ref
    BY DEF ExpiresOf
  <2>3. \A f \in DOMAIN hr.ref : ExpiresOf(hr)[f] = hr.heap[hr.ref[f]].expire
    BY DEF ExpiresOf
  <2> QED
    BY <1>3, <2>1, <2>2, <2>3 DEF ExpiresOf, Queue!Put, v, NewTime
<1>13. ExpiresOf(c) = ExpiresOf(u)
  BY <1>10, SameExpires
<1> QED
  BY <1>2, <1>11, <1>12, <1>13

\* swap_node_ exchanges two nodes, and the map follows.
LEMMA Swapped ==
  ASSUME NEW hr, Mapped(hr), NEW i \in 1 .. Len(hr.heap), NEW j \in 1 .. Len(hr.heap), i # j
  PROVE  /\ Mapped(swap_node_(hr, i, j))
         /\ SameNodes(hr, swap_node_(hr, i, j), Len(hr.heap))
         /\ swap_node_(hr, i, j).heap = [hr.heap EXCEPT ![i] = hr.heap[j], ![j] = hr.heap[i]]
<1> DEFINE a == hr.heap
           N == Len(hr.heap)
           w == swap_node_(hr, i, j)
           g(x) == IF x = i THEN j ELSE IF x = j THEN i ELSE x
<1>0. a \in Seq(TimerNode) /\ N \in Nat /\ DOMAIN a = 1 .. N
  BY LenProperties DEF Mapped
<1>1. ~(i > N \/ j > N)
  BY <1>0
<1>2. w = [heap |-> [a EXCEPT ![i] = a[j], ![j] = a[i]],
           ref  |-> PutRef(PutRef(hr.ref, a[j].fd, i), a[i].fd, j)]
  BY <1>1 DEF swap_node_
<1>3. /\ DOMAIN hr.ref \subseteq TimerFds
      /\ \A x \in 1 .. N : a[x].fd \in DOMAIN hr.ref /\ hr.ref[a[x].fd] = x
      /\ \A f \in DOMAIN hr.ref : hr.ref[f] \in 1 .. N /\ a[hr.ref[f]].fd = f
  BY DEF Mapped
<1> HIDE DEF w
<1>4. w.heap = [a EXCEPT ![i] = a[j], ![j] = a[i]]
  BY <1>2
<1>5. w.ref = PutRef(PutRef(hr.ref, a[j].fd, i), a[i].fd, j)
  BY <1>2
<1> HIDE DEF a, N
<1>6. w.heap = [x \in 1 .. N |-> a[g(x)]]
  BY <1>0, <1>4
<1>7. /\ DOMAIN w.ref = DOMAIN hr.ref
      /\ \A f \in DOMAIN hr.ref :
           w.ref[f] = IF f = a[i].fd THEN j ELSE IF f = a[j].fd THEN i ELSE hr.ref[f]
  <2>1. i \in 1 .. N /\ j \in 1 .. N
    BY DEF N
  <2>2. a[i].fd \in DOMAIN hr.ref /\ a[j].fd \in DOMAIN hr.ref
    BY <1>3, <2>1
  <2>3. (DOMAIN hr.ref \cup {a[j].fd}) \cup {a[i].fd} = DOMAIN hr.ref
    BY <2>2
  <2> QED
    BY <1>5, <2>3 DEF PutRef
<1>8. \A x \in 1 .. N : g(x) \in 1 .. N /\ g(g(x)) = x
  BY DEF N
<1>9. \A f \in DOMAIN hr.ref : w.ref[f] = g(hr.ref[f])
  <2> TAKE f \in DOMAIN hr.ref
  <2>1. i \in 1 .. N /\ j \in 1 .. N
    BY DEF N
  <2>2. (f = a[i].fd <=> hr.ref[f] = i) /\ (f = a[j].fd <=> hr.ref[f] = j)
    BY <1>3, <2>1
  <2> QED
    BY <1>7, <2>2
<1> HIDE DEF g
<1>10. w.heap \in Seq(TimerNode) /\ Len(w.heap) = N /\ \A x \in 1 .. N : w.heap[x] = a[g(x)]
  <2>1. \A x \in 1 .. N : a[g(x)] \in TimerNode
    BY <1>0, <1>8, ElementOfSeq DEF a, N
  <2>2. w.heap \in [1 .. N -> TimerNode]
    BY <1>6, <2>1
  <2>3. w.heap \in Seq(TimerNode) /\ Len(w.heap) = N
    BY <1>0, <2>2, SeqDef, LenProperties
  <2> QED
    BY <1>6, <2>3
<1>11. Mapped(w)
  <2>1. ASSUME NEW x \in 1 .. N
        PROVE  w.heap[x].fd \in DOMAIN w.ref /\ w.ref[w.heap[x].fd] = x
    <3> DEFINE f == a[g(x)].fd
    <3>1. f \in DOMAIN hr.ref /\ hr.ref[f] = g(x) /\ w.heap[x].fd = f
      BY <1>3, <1>8, <1>10
    <3> HIDE DEF f
    <3>2. w.ref[f] = x
      BY <1>8, <1>9, <3>1
    <3> QED
      BY <1>7, <3>1, <3>2
  <2>2. ASSUME NEW f \in DOMAIN w.ref
        PROVE  w.ref[f] \in 1 .. N /\ w.heap[w.ref[f]].fd = f
    <3>1. f \in DOMAIN hr.ref /\ hr.ref[f] \in 1 .. N /\ w.ref[f] = g(hr.ref[f])
      BY <1>3, <1>7, <1>9
    <3>2. w.ref[f] \in 1 .. N /\ g(w.ref[f]) = hr.ref[f]
      BY <1>8, <3>1
    <3>3. w.heap[w.ref[f]] = a[hr.ref[f]]
      BY <1>10, <3>2
    <3> QED
      BY <1>3, <3>1, <3>2, <3>3
  <2> QED
    BY <1>3, <1>7, <1>10, <2>1, <2>2 DEF Mapped
<1>12. SameNodes(hr, w, N)
  <2>1. ASSUME NEW f \in DOMAIN hr.ref
        PROVE  w.heap[w.ref[f]] = a[hr.ref[f]]
    <3>1. hr.ref[f] \in 1 .. N /\ w.ref[f] = g(hr.ref[f])
      BY <1>3, <1>9
    <3>2. w.ref[f] \in 1 .. N /\ g(w.ref[f]) = hr.ref[f]
      BY <1>8, <3>1
    <3> QED
      BY <1>10, <3>2
  <2>2. \A x \in 1 .. N : ~(x > N)
    BY <1>0
  <2> QED
    BY <1>7, <1>10, <2>1, <2>2 DEF SameNodes, a, N
<1> QED
  BY <1>4, <1>11, <1>12 DEF a, N, w

\* A heap without its last node.
LEMMA LastDropped ==
  ASSUME NEW m, Mapped(m), NEW n \in Nat, Len(m.heap) = n + 1, OrderedTo(m, n),
         NEW c, c = [heap |-> SubSeq(m.heap, 1, n),
                     ref  |-> [f \in DOMAIN m.ref \ {m.heap[n + 1].fd} |-> m.ref[f]]]
  PROVE  /\ Consistent(c)
         /\ ExpiresOf(c) = Queue!Without(ExpiresOf(m), m.heap[n + 1].fd)
<1> DEFINE N == n + 1
           gone == m.heap[N].fd
<1>0. m.heap \in Seq(TimerNode) /\ Len(m.heap) = N /\ N \in 1 .. N /\ 1 .. N = (1 .. n) \cup {N}
      /\ N \notin 1 .. n
  BY DEF Mapped
<1>1. c.heap = SubSeq(m.heap, 1, n)
  OBVIOUS
<1>2. DOMAIN c.ref = DOMAIN m.ref \ {gone} /\ \A f \in DOMAIN m.ref \ {gone} : c.ref[f] = m.ref[f]
  OBVIOUS
<1>3. c.heap \in Seq(TimerNode) /\ Len(c.heap) = n /\ \A x \in 1 .. n : c.heap[x] = m.heap[x]
  <2>1. n \in 0 .. Len(m.heap)
    OBVIOUS
  <2> QED
    BY <1>0, <1>1, SubSeqProperties
<1>4. /\ DOMAIN m.ref \subseteq TimerFds
      /\ \A x \in 1 .. N : m.heap[x].fd \in DOMAIN m.ref /\ m.ref[m.heap[x].fd] = x
      /\ \A f \in DOMAIN m.ref : m.ref[f] \in 1 .. N /\ m.heap[m.ref[f]].fd = f
  BY DEF Mapped
<1> HIDE DEF N, gone
<1>5. \A f \in DOMAIN m.ref \ {gone} : m.ref[f] \in 1 .. n
  <2> TAKE f \in DOMAIN m.ref \ {gone}
  <2>1. m.ref[f] # N
    BY <1>4 DEF gone
  <2> QED
    BY <1>0, <1>4, <2>1
<1>6. Mapped(c)
  <2>1. ASSUME NEW x \in 1 .. n
        PROVE  c.heap[x].fd \in DOMAIN c.ref /\ c.ref[c.heap[x].fd] = x
    <3>1. x \in 1 .. N /\ x # N
      BY <1>0
    <3>2. c.heap[x].fd = m.heap[x].fd
      BY <1>3
    <3>3. m.heap[x].fd \in DOMAIN m.ref /\ m.ref[m.heap[x].fd] = x
      BY <1>4, <3>1
    <3>4. m.heap[x].fd # gone
      BY <1>0, <1>4, <3>1, <3>3 DEF gone
    <3> QED
      BY <1>2, <3>2, <3>3, <3>4
  <2>2. ASSUME NEW f \in DOMAIN c.ref
        PROVE  c.ref[f] \in 1 .. n /\ c.heap[c.ref[f]].fd = f
    BY <1>2, <1>3, <1>4, <1>5
  <2> QED
    BY <1>2, <1>3, <1>4, <2>1, <2>2 DEF Mapped
<1>7. OrderedTo(c, n)
  <2>1. \A j \in 2 .. n : Over(j) \in 1 .. n
    <3>1. n <= Len(m.heap)
      OBVIOUS
    <3> QED
      BY <1>0, <3>1, TimesAround
  <2>2. ASSUME NEW j \in 2 .. n
        PROVE  Time(c, Over(j)) <= Time(c, j)
    <3>1. j \in 1 .. n
      OBVIOUS
    <3>2. Time(c, j) = Time(m, j) /\ Time(c, Over(j)) = Time(m, Over(j))
      BY <1>3, <2>1, <3>1 DEF Time
    <3> QED
      BY <3>2 DEF OrderedTo
  <2> QED
    BY <2>2 DEF OrderedTo
<1>8. ExpiresOf(c) = Queue!Without(ExpiresOf(m), gone)
  <2>1. /\ DOMAIN ExpiresOf(m) = DOMAIN m.ref
        /\ \A f \in DOMAIN m.ref : ExpiresOf(m)[f] = m.heap[m.ref[f]].expire
    BY DEF ExpiresOf
  <2>2. \A f \in DOMAIN m.ref \ {gone} : c.heap[c.ref[f]].expire = m.heap[m.ref[f]].expire
    BY <1>2, <1>3, <1>5
  <2> QED
    BY <1>2, <2>1, <2>2 DEF ExpiresOf, Queue!Without
<1> QED
  BY <1>3, <1>6, <1>7, <1>8 DEF Consistent, gone, N

\* del_ takes out the node at a place and no other.
LEMMA Deleted ==
  ASSUME NEW hr, Consistent(hr), NEW i \in 1 .. Len(hr.heap)
  PROVE  /\ Consistent(del_(hr, i))
         /\ ExpiresOf(del_(hr, i)) = Queue!Without(ExpiresOf(hr), hr.heap[i].fd)
<1> DEFINE N == Len(hr.heap)
           n == N - 1
           w == swap_node_(hr, i, n + 1)
           m == IF i <= n THEN Sift(w, i, n) ELSE hr
<1>0. hr.heap \in Seq(TimerNode) /\ N \in Nat /\ Mapped(hr) /\ OrderedTo(hr, N)
  BY LenProperties DEF Consistent, Mapped
<1>1. i \in 1 .. N /\ n \in Nat /\ N = n + 1 /\ N \in 1 .. N
  BY <1>0
<1>2. hr.heap # <<>> /\ ~(i > N)
  <2>1. hr.heap # <<>>
    <3>1. Len(<<>>) = 0
      OBVIOUS
    <3> QED
      BY <1>1, <3>1
  <2> QED
    BY <1>1, <2>1
<1>3. del_(hr, i) = [heap |-> SubSeq(m.heap, 1, n),
                     ref  |-> [f \in DOMAIN m.ref \ {m.heap[n + 1].fd} |-> m.ref[f]]]
  BY <1>2 DEF del_
<1> HIDE DEF n, w, m, N
<1>4. OrderedTo(hr, n)
  <2>1. 2 .. n \subseteq 2 .. N
    BY <1>1
  <2> QED
    BY <1>0, <2>1 DEF OrderedTo
<1>5. /\ Mapped(m) /\ Len(m.heap) = N /\ OrderedTo(m, n)
      /\ m.heap[N].fd = hr.heap[i].fd
      /\ ExpiresOf(m) = ExpiresOf(hr)
  <2>1. CASE i <= n
    <3>1. i # N /\ i \in 1 .. n
      BY <1>1, <2>1
    <3>2. w = swap_node_(hr, i, N)
      BY <1>1 DEF w
    <3>3. /\ Mapped(w) /\ SameNodes(hr, w, N)
          /\ w.heap = [hr.heap EXCEPT ![i] = hr.heap[N], ![N] = hr.heap[i]]
      BY <1>0, <1>1, <3>1, <3>2, Swapped DEF N
    <3>4. Len(w.heap) = N /\ ExpiresOf(w) = ExpiresOf(hr)
      BY <3>3, SameExpires DEF SameNodes, N
    <3>5. /\ w.heap[N] = hr.heap[i]
          /\ \A x \in 1 .. n : x # i => w.heap[x] = hr.heap[x]
      <4>1. DOMAIN hr.heap = 1 .. N
        BY <1>0, LenProperties DEF N
      <4>2. \A x \in 1 .. n : x \in 1 .. N /\ x # N
        BY <1>1
      <4> QED
        BY <1>1, <3>1, <3>3, <4>1, <4>2
    <3>6. \A x \in 1 .. n : x # i => Time(w, x) = Time(hr, x)
      BY <3>5 DEF Time
    <3>7. OrderedBut(w, n, i)
      <4>1. n <= Len(hr.heap)
        BY <1>1 DEF N
      <4> QED
        BY <1>0, <1>1, <1>4, <3>1, <3>6, <4>1, OrderedAround
    <3>8. m = Sift(w, i, n)
      BY <2>1 DEF m
    <3>9. Mapped(m) /\ SameNodes(w, m, n) /\ OrderedTo(m, n)
      <4>1. n <= Len(w.heap)
        BY <1>1, <3>4
      <4> QED
        BY <1>1, <3>1, <3>3, <3>7, <3>8, <4>1, Sifted
    <3>10. Len(m.heap) = N /\ m.heap[N] = w.heap[N]
      <4>1. Len(m.heap) = N /\ \A x \in 1 .. N : x > n => m.heap[x] = w.heap[x]
        BY <3>4, <3>9 DEF SameNodes
      <4>2. N > n
        BY <1>1
      <4> QED
        BY <1>1, <4>1, <4>2
    <3>11. ExpiresOf(m) = ExpiresOf(w)
      BY <3>9, SameExpires
    <3> QED
      BY <3>4, <3>5, <3>9, <3>10, <3>11
  <2>2. CASE ~(i <= n)
    <3>1. i = N /\ m = hr
      BY <1>1, <2>2 DEF m
    <3> QED
      BY <1>0, <1>4, <3>1 DEF N
  <2> QED
    BY <2>1, <2>2
<1>6. /\ Consistent(del_(hr, i))
      /\ ExpiresOf(del_(hr, i)) = Queue!Without(ExpiresOf(m), m.heap[n + 1].fd)
  <2>1. Len(m.heap) = n + 1
    BY <1>1, <1>5
  <2> DEFINE c == del_(hr, i)
  <2>2. c = [heap |-> SubSeq(m.heap, 1, n),
             ref  |-> [f \in DOMAIN m.ref \ {m.heap[n + 1].fd} |-> m.ref[f]]]
    BY <1>3
  <2> HIDE DEF c
  <2>3. Consistent(c) /\ ExpiresOf(c) = Queue!Without(ExpiresOf(m), m.heap[n + 1].fd)
    BY <1>1, <1>5, <2>1, <2>2, LastDropped
  <2> QED
    BY <2>3 DEF c
<1>7. m.heap[n + 1].fd = hr.heap[i].fd
  BY <1>1, <1>5
<1> QED
  BY <1>5, <1>6, <1>7

LEMMA RemovedKeeps ==
  ASSUME NEW hr, Consistent(hr), NEW fd
  PROVE  /\ Consistent(Removed(hr, fd))
         /\ ExpiresOf(Removed(hr, fd)) = Queue!Without(ExpiresOf(hr), fd)
<1>1. CASE fd \in DOMAIN hr.ref
  <2>1. hr.ref[fd] \in 1 .. Len(hr.heap) /\ hr.heap[hr.ref[fd]].fd = fd
    BY <1>1 DEF Consistent, Mapped
  <2>2. Removed(hr, fd) = del_(hr, hr.ref[fd])
    BY <1>1 DEF Removed
  <2>3. /\ Consistent(del_(hr, hr.ref[fd]))
        /\ ExpiresOf(del_(hr, hr.ref[fd])) = Queue!Without(ExpiresOf(hr), hr.heap[hr.ref[fd]].fd)
    BY <2>1, Deleted
  <2> QED
    BY <2>1, <2>2, <2>3
<1>2. CASE fd \notin DOMAIN hr.ref
  <2>1. Removed(hr, fd) = hr
    BY <1>2 DEF Removed
  <2>2. DOMAIN hr.ref \ {fd} = DOMAIN hr.ref
    BY <1>2
  <2>3. ExpiresOf(hr) = Queue!Without(ExpiresOf(hr), fd)
    BY <2>2 DEF ExpiresOf, Queue!Without
  <2> QED
    BY <2>1, <2>3
<1> QED
  BY <1>1, <1>2

LEMMA AddedKeeps ==
  ASSUME TimerManagerTypeOK, NEW hr, hr = [heap |-> hr.heap, ref |-> hr.ref],
         Consistent(hr), NEW fd \in TimerFds, NEW t \in Timeouts
  PROVE  /\ Consistent(Added(hr, fd, t))
         /\ ExpiresOf(Added(hr, fd, t)) = Queue!Put(ExpiresOf(hr), fd, t)
<1>1. CASE fd \in DOMAIN hr.ref
  <2>1. Added(hr, fd, t) = Adjusted(hr, fd, t)
    BY <1>1 DEF Added
  <2> QED
    BY <1>1, <2>1, AdjustedKeeps
<1>2. CASE fd \notin DOMAIN hr.ref
  BY <1>2, NewAdded
<1> QED
  BY <1>1, <1>2
-------------------------------------------------------------------------------
(* The invariant, and the timers as a queue. *)

TimerInv == TimerManagerTypeOK /\ Consistent(Timers)

LEMMA SameHeap ==
  ASSUME NEW hr, Consistent(hr), NEW c, c.heap = hr.heap, c.ref = hr.ref
  PROVE  Consistent(c) /\ ExpiresOf(c) = ExpiresOf(hr)
<1>1. Mapped(c)
  BY DEF Consistent, Mapped
<1>2. OrderedTo(c, Len(c.heap))
  BY DEF Consistent, OrderedTo, Time
<1>3. ExpiresOf(c) = ExpiresOf(hr)
  BY DEF ExpiresOf
<1> QED
  BY <1>1, <1>2, <1>3 DEF Consistent

LEMMA BecomesHeap ==
  ASSUME NEW hr, Consistent(hr), Becomes(hr)
  PROVE  /\ heap_' \in Seq(TimerNode) /\ DOMAIN ref_' \subseteq TimerFds
         /\ Consistent(Timers)'
         /\ Expires' = ExpiresOf(hr)
<1> DEFINE c == [heap |-> heap_', ref |-> ref_']
<1>1. c.heap = hr.heap /\ c.ref = hr.ref
  BY DEF Becomes
<1>2. Timers' = c
  BY DEF Timers
<1> HIDE DEF c
<1>3. Consistent(c) /\ ExpiresOf(c) = ExpiresOf(hr)
  BY <1>1, SameHeap
<1>4. Consistent(Timers')
  BY <1>2, <1>3
<1>5. Expires' = ExpiresOf(c)
  BY DEF Expires, ExpiresOf, c
<1>6. heap_' \in Seq(TimerNode) /\ DOMAIN ref_' \subseteq TimerFds
  BY DEF Becomes, Consistent, Mapped
<1> QED
  BY <1>3, <1>4, <1>5, <1>6

LEMMA TimersAre ==
  /\ Timers = [heap |-> Timers.heap, ref |-> Timers.ref]
  /\ Timers.heap = heap_ /\ Timers.ref = ref_
  /\ ExpiresOf(Timers) = Expires
  BY DEF Timers, ExpiresOf, Expires

\* What a callback makes of the heap.
LEMMA CallbackKeeps ==
  ASSUME TimerInv, NEW hr \in CallbackEffect(Timers)
  PROVE  Consistent(hr) /\ ExpiresOf(hr) \in Queue!Effects(Expires)
<1> USE DEF TimerInv
<1>1. CASE hr = Timers
  BY <1>1, TimersAre DEF Queue!Effects
<1>2. ASSUME NEW fd \in TimerFds, hr = Removed(Timers, fd)
      PROVE  Consistent(hr) /\ ExpiresOf(hr) \in Queue!Effects(Expires)
  <2>1. Consistent(hr) /\ ExpiresOf(hr) = Queue!Without(Expires, fd)
    BY <1>2, RemovedKeeps, TimersAre
  <2> QED
    BY <2>1 DEF Queue!Effects
<1>3. ASSUME NEW fd \in TimerFds, NEW t \in Timeouts, hr = Added(Timers, fd, t)
      PROVE  Consistent(hr) /\ ExpiresOf(hr) \in Queue!Effects(Expires)
  <2>1. Consistent(hr) /\ ExpiresOf(hr) = Queue!Put(Expires, fd, t)
    BY <1>3, AddedKeeps, TimersAre
  <2> QED
    BY <2>1 DEF Queue!Effects
<1> QED
  BY <1>1, <1>2, <1>3 DEF CallbackEffect

\* The first node is that of an earliest timer.
LEMMA FirstTimer ==
  ASSUME NEW hr, Consistent(hr), hr.heap # <<>>
  PROVE  /\ 1 \in 1 .. Len(hr.heap)
         /\ hr.heap[1].fd \in Queue!Earliest(ExpiresOf(hr))
         /\ ExpiresOf(hr)[hr.heap[1].fd] = hr.heap[1].expire
<1> DEFINE N == Len(hr.heap)
           first == hr.heap[1].fd
<1>1. hr.heap \in Seq(TimerNode) /\ N \in Nat
  BY LenProperties DEF Consistent, Mapped
<1>2. 1 \in 1 .. N
  <2>1. N # 0
    BY <1>1, EmptySeq
  <2> QED
    BY <1>1, <2>1
<1>3. first \in DOMAIN hr.ref /\ hr.ref[first] = 1
  BY <1>2 DEF Consistent, Mapped
<1>4. /\ DOMAIN ExpiresOf(hr) = DOMAIN hr.ref
      /\ \A f \in DOMAIN hr.ref : ExpiresOf(hr)[f] = Time(hr, hr.ref[f])
  BY DEF ExpiresOf, Time
<1>5. \A f \in DOMAIN hr.ref : hr.ref[f] \in 1 .. N
  BY DEF Consistent, Mapped
<1>6. \A f \in DOMAIN hr.ref : Time(hr, 1) <= Time(hr, hr.ref[f])
  BY <1>5, FirstIsEarliest
<1> HIDE DEF first, N
<1>7. ExpiresOf(hr)[first] = Time(hr, 1)
  BY <1>3, <1>4
<1>8. first \in Queue!Earliest(ExpiresOf(hr))
  BY <1>3, <1>4, <1>6, <1>7 DEF Queue!Earliest
<1> QED
  BY <1>2, <1>7, <1>8 DEF first, N, Time

LEMMA NoTimer ==
  ASSUME NEW hr, Consistent(hr), hr.heap = <<>>
  PROVE  DOMAIN hr.ref = {} /\ ExpiresOf(hr) = [fd \in {} |-> 0]
<1>1. Len(hr.heap) = 0
  OBVIOUS
<1>2. \A f \in DOMAIN hr.ref : hr.ref[f] \in 1 .. 0
  BY <1>1 DEF Consistent, Mapped
<1>3. DOMAIN hr.ref = {}
  BY <1>2
<1> QED
  BY <1>3 DEF ExpiresOf

\* A round of HandleExpiredTimers takes out an earliest timer of what the
\* callback left, unless it left none.
LEMMA FirstDeleted ==
  ASSUME NEW hr, Consistent(hr)
  PROVE  /\ Consistent(del_(hr, 1))
         /\ \/ ExpiresOf(hr) = [fd \in {} |-> 0] /\ ExpiresOf(del_(hr, 1)) = ExpiresOf(hr)
            \/ \E fd \in Queue!Earliest(ExpiresOf(hr)) :
                 ExpiresOf(del_(hr, 1)) = Queue!Without(ExpiresOf(hr), fd)
<1>1. CASE hr.heap = <<>>
  <2>1. del_(hr, 1) = hr
    BY <1>1 DEF del_
  <2> QED
    BY <1>1, <2>1, NoTimer
<1>2. CASE hr.heap # <<>>
  <2>1. 1 \in 1 .. Len(hr.heap) /\ hr.heap[1].fd \in Queue!Earliest(ExpiresOf(hr))
    BY <1>2, FirstTimer
  <2>2. /\ Consistent(del_(hr, 1))
        /\ ExpiresOf(del_(hr, 1)) = Queue!Without(ExpiresOf(hr), hr.heap[1].fd)
    BY <2>1, Deleted
  <2> QED
    BY <2>1, <2>2
<1> QED
  BY <1>1, <1>2

\* The remaining time in whole milliseconds is none exactly when less than one is left.
LEMMA RemainingDue ==
  ASSUME TimerManagerTypeOK, NEW node \in TimerNode
  PROVE  RemainingMs(node) <= 0 <=> Queue!Due(node.expire)
<1> DEFINE d == node.expire - now
<1>1. node.expire \in Int /\ now \in Int
  BY DEF TimerNode, TimerManagerTypeOK
<1>2. RemainingMs(node) = IF d >= 0 THEN d \div 2 ELSE -((-d) \div 2)
  BY DEF RemainingMs, TicksPerMs
<1>3. Queue!Due(node.expire) <=> d < 2
  BY DEF Queue!Due, TicksPerMs
<1>4. d \in Int
  BY <1>1
<1> HIDE DEF d
<1>5. CASE d >= 0
  <2>1. d \div 2 <= 0 <=> d < 2
    BY <1>4, <1>5
  <2> QED
    BY <1>2, <1>3, <1>5, <2>1
<1>6. CASE ~(d >= 0)
  <2>1. -((-d) \div 2) <= 0 /\ d < 2
    BY <1>4, <1>6
  <2> QED
    BY <1>2, <1>3, <1>6, <2>1
<1> QED
  BY <1>5, <1>6

\* A call of the manager leaves a consistent heap, and changes the timers as it says.
LEMMA CallKeeps ==
  ASSUME TimerInv, NEW fd \in TimerFds, NEW t \in Timeouts
  PROVE  /\ AddTimer(fd, t) => /\ heap_' \in Seq(TimerNode) /\ DOMAIN ref_' \subseteq TimerFds
                               /\ Consistent(Timers)'
                               /\ Expires' = Queue!Put(Expires, fd, t)
         /\ AdjustTimer(fd, t) =>
              /\ heap_' \in Seq(TimerNode) /\ DOMAIN ref_' \subseteq TimerFds
              /\ Consistent(Timers)'
              /\ Expires' = IF fd \in DOMAIN Expires THEN Queue!Put(Expires, fd, t) ELSE Expires
<1> USE DEF TimerInv
<1>1. ASSUME AddTimer(fd, t)
      PROVE  /\ heap_' \in Seq(TimerNode) /\ DOMAIN ref_' \subseteq TimerFds
             /\ Consistent(Timers)' /\ Expires' = Queue!Put(Expires, fd, t)
  <2>1. Becomes(Added(Timers, fd, t))
    BY <1>1 DEF AddTimer
  <2>2. /\ Consistent(Added(Timers, fd, t))
        /\ ExpiresOf(Added(Timers, fd, t)) = Queue!Put(Expires, fd, t)
    BY AddedKeeps, TimersAre
  <2> QED
    BY <2>1, <2>2, BecomesHeap
<1>2. ASSUME AdjustTimer(fd, t)
      PROVE  /\ heap_' \in Seq(TimerNode) /\ DOMAIN ref_' \subseteq TimerFds
             /\ Consistent(Timers)'
             /\ Expires' = IF fd \in DOMAIN Expires THEN Queue!Put(Expires, fd, t) ELSE Expires
  <2>1. Becomes(Adjusted(Timers, fd, t))
    BY <1>2 DEF AdjustTimer
  <2>2. DOMAIN Expires = DOMAIN Timers.ref
    BY DEF Expires, Timers
  <2>3. CASE fd \in DOMAIN Expires
    <3>1. /\ Consistent(Adjusted(Timers, fd, t))
          /\ ExpiresOf(Adjusted(Timers, fd, t)) = Queue!Put(Expires, fd, t)
      BY <2>2, <2>3, AdjustedKeeps, TimersAre
    <3> QED
      BY <2>1, <2>3, <3>1, BecomesHeap
  <2>4. CASE fd \notin DOMAIN Expires
    <3>1. Adjusted(Timers, fd, t) = Timers
      BY <2>2, <2>4 DEF Adjusted
    <3> QED
      BY <2>1, <2>4, <3>1, BecomesHeap, TimersAre
  <2> QED
    BY <2>3, <2>4
<1> QED
  BY <1>1, <1>2

LEMMA RemoveKeeps ==
  ASSUME TimerInv, NEW fd \in TimerFds, RemoveTimer(fd)
  PROVE  /\ heap_' \in Seq(TimerNode) /\ DOMAIN ref_' \subseteq TimerFds
         /\ Consistent(Timers)'
         /\ Expires' = Queue!Without(Expires, fd)
<1>1. Becomes(Removed(Timers, fd))
  BY DEF RemoveTimer
<1>2. /\ Consistent(Removed(Timers, fd))
      /\ ExpiresOf(Removed(Timers, fd)) = Queue!Without(Expires, fd)
  BY RemovedKeeps, TimersAre DEF TimerInv
<1> QED
  BY <1>1, <1>2, BecomesHeap

LEMMA FireKeeps ==
  ASSUME TimerInv, FireFirst
  PROVE  /\ heap_' \in Seq(TimerNode) /\ DOMAIN ref_' \subseteq TimerFds
         /\ Consistent(Timers)'
         /\ Queue!Fire
<1>1. PICK hr \in CallbackEffect(Timers) : Becomes(del_(hr, 1))
  BY DEF FireFirst
<1>2. Consistent(hr) /\ ExpiresOf(hr) \in Queue!Effects(Expires)
  BY CallbackKeeps
<1>3. /\ Consistent(del_(hr, 1))
      /\ \/ ExpiresOf(hr) = [fd \in {} |-> 0] /\ ExpiresOf(del_(hr, 1)) = ExpiresOf(hr)
         \/ \E fd \in Queue!Earliest(ExpiresOf(hr)) :
              ExpiresOf(del_(hr, 1)) = Queue!Without(ExpiresOf(hr), fd)
  BY <1>2, FirstDeleted
<1>4. /\ heap_' \in Seq(TimerNode) /\ DOMAIN ref_' \subseteq TimerFds
      /\ Consistent(Timers)'
      /\ Expires' = ExpiresOf(del_(hr, 1))
  BY <1>1, <1>3, BecomesHeap
<1>5. \E fd \in Queue!Earliest(Expires) : Queue!Due(Expires[fd])
  <2>1. Consistent(Timers) /\ Timers.heap = heap_ /\ heap_ # <<>> /\ ExpiresOf(Timers) = Expires
    BY TimersAre DEF FireFirst, TimerInv
  <2>2. /\ 1 \in 1 .. Len(heap_)
        /\ heap_[1].fd \in Queue!Earliest(Expires)
        /\ Expires[heap_[1].fd] = heap_[1].expire
    BY <2>1, FirstTimer
  <2>3. heap_[1] \in TimerNode
    BY <2>2, ElementOfSeq DEF TimerInv, TimerManagerTypeOK
  <2>4. Queue!Due(heap_[1].expire)
    BY <2>3, RemainingDue DEF FireFirst, TimerInv
  <2> QED
    BY <2>2, <2>4
<1>6. \E q \in Queue!Effects(Expires) :
        \/ q = [fd \in {} |-> 0] /\ Expires' = q
        \/ \E fd \in Queue!Earliest(q) : Expires' = Queue!Without(q, fd)
  BY <1>2, <1>3, <1>4
<1>7. handling /\ UNCHANGED <<now, handling>>
  BY DEF FireFirst
<1>8. Queue!Fire
  BY <1>5, <1>6, <1>7 DEF Queue!Fire
<1> QED
  BY <1>4, <1>8

\* The loop ends only when no timer is due.
LEMMA EndsHandled ==
  ASSUME TimerInv, HandleExpiredTimersEnd
  PROVE  \A fd \in DOMAIN Expires : ~Queue!Due(Expires[fd])
<1>0. Consistent(Timers) /\ Timers.heap = heap_ /\ ExpiresOf(Timers) = Expires
  BY TimersAre DEF TimerInv
<1>1. CASE heap_ = <<>>
  <2>1. DOMAIN Expires = {}
    BY <1>0, <1>1, NoTimer
  <2> QED
    BY <2>1
<1>2. CASE heap_ # <<>>
  <2>1. /\ 1 \in 1 .. Len(heap_)
        /\ heap_[1].fd \in Queue!Earliest(Expires)
        /\ Expires[heap_[1].fd] = heap_[1].expire
    BY <1>0, <1>2, FirstTimer
  <2>2. \A i \in 1 .. Len(heap_) : heap_[i] \in TimerNode
    BY ElementOfSeq DEF TimerInv, TimerManagerTypeOK
  <2>3. RemainingMs(heap_[1]) \in Int /\ ~(RemainingMs(heap_[1]) <= 0)
    <3>1. heap_[1].expire - now \in Int
      BY <2>1, <2>2 DEF TimerNode, TimerInv, TimerManagerTypeOK
    <3> DEFINE d == heap_[1].expire - now
    <3>2. RemainingMs(heap_[1]) = IF d >= 0 THEN d \div 2 ELSE -((-d) \div 2)
      BY DEF RemainingMs, TicksPerMs
    <3>3. d \in Int
      BY <3>1
    <3>4. RemainingMs(heap_[1]) > 0
      BY <1>2 DEF HandleExpiredTimersEnd
    <3> HIDE DEF d
    <3>5. RemainingMs(heap_[1]) \in Int
      BY <3>2, <3>3
    <3> QED
      BY <3>4, <3>5
  <2>4. ~Queue!Due(heap_[1].expire)
    BY <2>1, <2>2, <2>3, RemainingDue DEF TimerInv
  <2>5. ASSUME NEW fd \in DOMAIN Expires
        PROVE  ~Queue!Due(Expires[fd])
    <3>1. heap_[1].expire <= Expires[fd]
      BY <2>1 DEF Queue!Earliest
    <3>2. heap_[1].expire \in Int /\ Expires[fd] \in Int /\ now \in Int
      <4>1. Expires[fd] = heap_[ref_[fd]].expire /\ ref_[fd] \in 1 .. Len(heap_)
        BY <1>0 DEF Expires, Timers, Consistent, Mapped
      <4> QED
        BY <2>1, <2>2, <4>1 DEF TimerNode, TimerInv, TimerManagerTypeOK
    <3>3. TicksPerMs = 2
      BY DEF TicksPerMs
    <3> QED
      BY <2>4, <3>1, <3>2, <3>3 DEF Queue!Due
  <2> QED
    BY <2>5
<1> QED
  BY <1>1, <1>2

LEMMA TimerInitial == TimerManagerInit => TimerInv
<1> SUFFICES ASSUME TimerManagerInit
             PROVE  TimerInv
  OBVIOUS
<1>1. heap_ = <<>> /\ ref_ = [fd \in {} |-> 0] /\ now = 0 /\ handling = FALSE
  BY DEF TimerManagerInit
<1>2. heap_ \in Seq(TimerNode) /\ Len(heap_) = 0 /\ DOMAIN ref_ = {}
  BY <1>1
<1>3. TimerManagerTypeOK
  <2>1. now \in 0 .. MaxTicks
    BY <1>1, TimerAssumption
  <2>2. handling \in BOOLEAN
    BY <1>1, Zenon
  <2> QED
    BY <1>2, <2>1, <2>2, Zenon DEF TimerManagerTypeOK
<1>4. Mapped(Timers)
  BY <1>2, TimersAre DEF Mapped
<1>5. OrderedTo(Timers, Len(Timers.heap))
  <2>1. 2 .. Len(Timers.heap) = {}
    BY <1>2, TimersAre
  <2> QED
    BY <2>1 DEF OrderedTo
<1> QED
  BY <1>3, <1>4, <1>5 DEF TimerInv, Consistent

LEMMA TimerStep == TimerInv /\ [TimerManagerNext]_timerVars => TimerInv'
<1> SUFFICES ASSUME TimerInv, [TimerManagerNext]_timerVars
             PROVE  TimerInv'
  OBVIOUS
<1>0. now \in 0 .. MaxTicks /\ handling \in BOOLEAN
  BY DEF TimerInv, TimerManagerTypeOK
<1>1. ASSUME heap_' \in Seq(TimerNode) /\ DOMAIN ref_' \subseteq TimerFds,
             Consistent(Timers)', UNCHANGED <<now, handling>>
      PROVE  TimerInv'
  BY <1>0, <1>1 DEF TimerInv, TimerManagerTypeOK
<1>2. ASSUME UNCHANGED <<heap_, ref_>>, now' \in 0 .. MaxTicks, handling' \in BOOLEAN
      PROVE  TimerInv'
  <2>1. Timers' = Timers
    BY <1>2 DEF Timers
  <2>2. Consistent(Timers)'
    BY <2>1 DEF TimerInv
  <2>3. TimerManagerTypeOK'
    BY <1>2 DEF TimerInv, TimerManagerTypeOK
  <2> QED
    BY <2>2, <2>3 DEF TimerInv
<1>3. ASSUME NEW fd \in TimerFds, NEW t \in Timeouts, AddTimer(fd, t) \/ AdjustTimer(fd, t)
      PROVE  TimerInv'
  <2>1. UNCHANGED <<now, handling>>
    BY <1>3 DEF AddTimer, AdjustTimer
  <2> QED
    BY <1>1, <1>3, <2>1, CallKeeps
<1>4. ASSUME NEW fd \in TimerFds, RemoveTimer(fd)
      PROVE  TimerInv'
  <2>1. UNCHANGED <<now, handling>>
    BY <1>4 DEF RemoveTimer
  <2> QED
    BY <1>1, <1>4, <2>1, RemoveKeeps
<1>5. CASE FireFirst
  <2>1. UNCHANGED <<now, handling>>
    BY <1>5 DEF FireFirst
  <2> QED
    BY <1>1, <1>5, <2>1, FireKeeps
<1>6. CASE HandleExpiredTimersBegin \/ HandleExpiredTimersEnd
  BY <1>0, <1>2, <1>6 DEF HandleExpiredTimersBegin, HandleExpiredTimersEnd
<1>7. CASE Elapse
  <2>1. now' \in 0 .. MaxTicks
    BY <1>0, <1>7, TimerAssumption DEF Elapse
  <2> QED
    BY <1>0, <1>2, <1>7, <2>1 DEF Elapse
<1>8. CASE UNCHANGED timerVars
  BY <1>0, <1>2, <1>8 DEF timerVars
<1> QED
  BY <1>3, <1>4, <1>5, <1>6, <1>7, <1>8 DEF TimerManagerNext

LEMMA TimerAlways == TimerManagerSpec => []TimerInv
<1>1. TimerManagerInit => TimerInv
  BY TimerInitial
<1>2. TimerInv /\ [TimerManagerNext]_timerVars => TimerInv'
  BY TimerStep
<1> QED
  BY <1>1, <1>2, PTL DEF TimerManagerSpec

\* There are as many descriptors as nodes.
LEMMA AsManyNodes ==
  ASSUME NEW hr, Mapped(hr)
  PROVE  Len(hr.heap) = Cardinality(DOMAIN hr.ref)
<1> DEFINE N == Len(hr.heap)
           D == DOMAIN hr.ref
           f == [x \in 1 .. N |-> hr.heap[x].fd]
<1>0. N \in Nat
  BY LenProperties DEF Mapped
<1>1. /\ \A x \in 1 .. N : f[x] \in D /\ hr.ref[f[x]] = x
      /\ \A fd \in D : hr.ref[fd] \in 1 .. N /\ f[hr.ref[fd]] = fd
  BY DEF Mapped
<1>2. f \in [1 .. N -> D]
  BY <1>1
<1>3. f \in Bijection(1 .. N, D)
  <2> HIDE DEF f, N, D
  <2>1. \A x, y \in 1 .. N : f[x] = f[y] => x = y
    BY <1>1, Zenon
  <2>2. \A fd \in D : \E x \in 1 .. N : f[x] = fd
    BY <1>1, Zenon
  <2> QED
    BY <1>2, <2>1, <2>2 DEF Bijection, Injection, IsInjective, Surjection
<1> HIDE DEF f, N, D
<1>4. IsFiniteSet(1 .. N) /\ Cardinality(1 .. N) = N
  <2>1. 1 \in Int /\ N \in Int
    BY <1>0
  <2>2. /\ IsFiniteSet(1 .. N)
        /\ Cardinality(1 .. N) = IF 1 > N THEN 0 ELSE N - 1 + 1
    BY <2>1, FS_Interval
  <2> QED
    BY <1>0, <2>2
<1>5. ExistsBijection(1 .. N, D)
  BY <1>3 DEF ExistsBijection
<1>6. Cardinality(D) = Cardinality(1 .. N)
  BY <1>4, <1>5, FS_Bijection
<1> QED
  BY <1>4, <1>6 DEF N, D

\* Whatever descriptors, timeouts and callbacks there are, the heap stays
\* ordered, and the map leads from every descriptor to its own node
\* (timer_manager.cpp siftup_, siftdown_, swap_node_, del_).
THEOREM TimerHeapConsistent == TimerManagerSpec => []HeapConsistent
<1>1. TimerInv => HeapConsistent
  <2> SUFFICES ASSUME TimerInv
               PROVE  HeapConsistent
    OBVIOUS
  <2>1. Mapped(Timers) /\ OrderedTo(Timers, Len(heap_)) /\ TimerManagerTypeOK
    BY TimersAre DEF TimerInv, Consistent
  <2>2. Len(heap_) = Cardinality(DOMAIN ref_)
    BY <2>1, AsManyNodes, TimersAre
  <2>3. \A i \in 2 .. Len(heap_) : heap_[i \div 2].expire <= heap_[i].expire
    BY <2>1, TimersAre DEF OrderedTo, Time, Over
  <2>4. \A fd \in DOMAIN ref_ : ref_[fd] \in 1 .. Len(heap_) /\ heap_[ref_[fd]].fd = fd
    BY <2>1, TimersAre DEF Mapped
  <2> QED
    BY <2>1, <2>2, <2>3, <2>4 DEF HeapConsistent
<1> QED
  BY <1>1, TimerAlways, PTL

\* A step of the manager is a step of the timers it keeps, or none.
LEMMA QueueStep ==
  TimerInv /\ [TimerManagerNext]_timerVars => [Queue!QueueNext]_(Queue!queueVars)
<1> SUFFICES ASSUME TimerInv, [TimerManagerNext]_timerVars
             PROVE  [Queue!QueueNext]_(Queue!queueVars)
  OBVIOUS
<1>1. ASSUME NEW fd \in TimerFds, NEW t \in Timeouts, AddTimer(fd, t)
      PROVE  Queue!QueueNext
  <2>1. Queue!Add(fd, t)
    BY <1>1, CallKeeps DEF AddTimer, Queue!Add
  <2> QED
    BY <2>1 DEF Queue!QueueNext
<1>2. ASSUME NEW fd \in TimerFds, NEW t \in Timeouts, AdjustTimer(fd, t)
      PROVE  [Queue!QueueNext]_(Queue!queueVars)
  <2>1. /\ ~handling /\ UNCHANGED <<now, handling>>
        /\ Expires' = IF fd \in DOMAIN Expires THEN Queue!Put(Expires, fd, t) ELSE Expires
    BY <1>2, CallKeeps DEF AdjustTimer
  <2>2. CASE fd \in DOMAIN Expires
    <3>1. Queue!Adjust(fd, t)
      BY <2>1, <2>2 DEF Queue!Adjust
    <3> QED
      BY <3>1 DEF Queue!QueueNext
  <2>3. CASE fd \notin DOMAIN Expires
    BY <2>1, <2>3 DEF Queue!queueVars
  <2> QED
    BY <2>2, <2>3
<1>3. ASSUME NEW fd \in TimerFds, RemoveTimer(fd)
      PROVE  Queue!QueueNext
  <2>1. Queue!Remove(fd)
    BY <1>3, RemoveKeeps DEF RemoveTimer, Queue!Remove
  <2> QED
    BY <2>1 DEF Queue!QueueNext
<1>4. CASE FireFirst
  BY <1>4, FireKeeps DEF Queue!QueueNext
<1>5. ASSUME UNCHANGED <<heap_, ref_>>
      PROVE  Expires' = Expires
  BY <1>5 DEF Expires
<1>6. CASE HandleExpiredTimersBegin
  <2>1. Queue!Begin
    BY <1>5, <1>6 DEF HandleExpiredTimersBegin, Queue!Begin
  <2> QED
    BY <2>1 DEF Queue!QueueNext
<1>7. CASE HandleExpiredTimersEnd
  <2>1. Queue!End
    BY <1>5, <1>7, EndsHandled DEF HandleExpiredTimersEnd, Queue!End
  <2> QED
    BY <2>1 DEF Queue!QueueNext
<1>8. CASE Elapse
  <2>1. Queue!Advance
    BY <1>5, <1>8 DEF Elapse, Queue!Advance
  <2> QED
    BY <2>1 DEF Queue!QueueNext
<1>9. CASE UNCHANGED timerVars
  BY <1>5, <1>9 DEF timerVars, Queue!queueVars
<1> QED
  BY <1>1, <1>2, <1>3, <1>4, <1>6, <1>7, <1>8, <1>9 DEF TimerManagerNext

\* For any descriptors and timeouts, the heap and its map are timers kept by
\* their time: callbacks run earliest first and never early, and none that is
\* due is left behind (timer_manager.cpp AddTimer, AdjustTimer, RemoveTimer,
\* HandleExpiredTimers).
THEOREM TimerImplementsQueue == TimerManagerSpec => ImplementsQueue
<1>1. TimerManagerInit => Queue!QueueInit
  BY DEF TimerManagerInit, Queue!QueueInit, Expires
<1>2. TimerInv /\ [TimerManagerNext]_timerVars => [Queue!QueueNext]_(Queue!queueVars)
  BY QueueStep
<1> QED
  BY <1>1, <1>2, TimerAlways, PTL DEF TimerManagerSpec, ImplementsQueue, Queue!QueueSpec
===============================================================================
