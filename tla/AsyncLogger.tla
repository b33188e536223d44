------------------------------ MODULE AsyncLogger ------------------------------
(***************************************************************************)
(* The double-buffered log of src/async_Logger.cpp: threads append lines   *)
(* and flush, a controller starts and stops the log, a thread of its own   *)
(* writes the file.                                                        *)
(*                                                                         *)
(* A caller's test of running_ and what it does under the mutex are steps  *)
(* of their own, and so are the swap of the buffers, the writing of the    *)
(* file (outside the mutex) and the wakeup of those who flush.             *)
(*                                                                         *)
(* Data: a buffer is the lines in it, a vector of buffers the lines in all *)
(* of them; a buffer that is missing (moved away) is an empty one, for     *)
(* every reader takes it so and Append makes a new one.  So next_buffer_   *)
(* and the two spare buffers, which only save allocations, are left out.   *)
(* An oversize line is truncated and written, although Append returns      *)
(* false.  cond_ is waited for with a time limit, so that no notification  *)
(* of it is needed to end the wait.                                        *)
(*                                                                         *)
(* Environment assumption: once the file is open, fwrite writes all of a   *)
(* buffer.  After a short write (a full disk) the thread only complains on *)
(* stderr; the rest of that buffer is lost.                                *)
(***************************************************************************)
EXTENDS Integers, Sequences

CONSTANTS
  Callers,   \* threads that append and flush
  Lines,     \* the lines, each appended at most once
  Oversize,  \* those longer than a buffer
  Capacity,  \* other lines in a buffer
  MaxStarts  \* bound on the calls of Start, for model checking

ASSUME LoggerAssumption ==
  /\ Oversize \subseteq Lines
  /\ Capacity \in Nat \ {0}
  /\ MaxStarts \in Nat

VARIABLES
  running_,
  thread_started_,
  current_buffer_,
  buffers_,
  buffers_to_write, \* of the thread
  backend,          \* where the thread is
  caller,           \* where each caller is
  ctl,              \* where the controller is
  starts,           \* calls of Start so far
  file,             \* the lines of the file
  openable,         \* fopen succeeds
  appended,         \* history: the lines put into a buffer, in this order
  flushMark,        \* history: how many there were when a caller flushed
  stopMark          \* history: how many there were when Stop was called

bufferVars == <<current_buffer_, buffers_, buffers_to_write, file, appended>>
flagVars == <<running_, thread_started_>>
historyVars == <<flushMark, stopMark>>

vars == <<flagVars, bufferVars, backend, caller, ctl, starts, openable, historyVars>>

Backends == {"none", "open", "check", "lock", "waiting", "write", "notify",
             "final", "ended"}

TypeOK ==
  /\ running_ \in BOOLEAN
  /\ thread_started_ \in BOOLEAN
  /\ current_buffer_ \in Seq(Lines) /\ Len(current_buffer_) <= Capacity
  /\ buffers_ \in Seq(Lines)
  /\ buffers_to_write \in Seq(Lines)
  /\ backend \in Backends
  /\ caller \in [Callers -> {"idle", "append", "flush", "waiting", "woken"}]
  /\ ctl \in {"idle", "join", "write", "stopped"}
  /\ starts \in 0 .. MaxStarts
  /\ file \in Seq(Lines)
  /\ openable \in BOOLEAN
  /\ appended \in Seq(Lines)
  /\ flushMark \in [Callers -> Nat]
  /\ stopMark \in Nat

Init ==
  /\ running_ = FALSE
  /\ thread_started_ = FALSE
  /\ current_buffer_ = <<>>
  /\ buffers_ = <<>>
  /\ buffers_to_write = <<>>
  /\ backend = "none"
  /\ caller = [t \in Callers |-> "idle"]
  /\ ctl = "idle"
  /\ starts = 0
  /\ file = <<>>
  /\ openable \in BOOLEAN
  /\ appended = <<>>
  /\ flushMark = [t \in Callers |-> 0]
  /\ stopMark = 0
-------------------------------------------------------------------------------
(* Append. *)

CallerGoes(t, from, to) ==
  caller[t] = from /\ caller' = [caller EXCEPT ![t] = to]

\* Append of a log that does not run returns at once and is no step.
AppendCheck(t) ==
  /\ running_
  /\ CallerGoes(t, "idle", "append")
  /\ UNCHANGED <<flagVars, bufferVars, backend, ctl, starts, openable, historyVars>>

\* Mutant: the room in the buffer is not looked at.
PutUnchecked(x) ==
  /\ current_buffer_' = Append(current_buffer_, x)
  /\ UNCHANGED buffers_

\* Mutant: an oversize line overtakes the buffer it did not fit in.
PutOvertaking(x) ==
  IF x \in Oversize
  THEN /\ buffers_' = Append(buffers_, x)
       /\ UNCHANGED current_buffer_
  ELSE IF Len(current_buffer_) < Capacity
  THEN /\ current_buffer_' = Append(current_buffer_, x)
       /\ UNCHANGED buffers_
  ELSE /\ buffers_' = buffers_ \o current_buffer_
       /\ current_buffer_' = <<x>>

\* Where the line goes: into the current buffer; into a fresh one, when the
\* current one is full and joins the vector; or, oversize, into a buffer of
\* its own that joins the vector after the current one.
Put(x) ==
  \/ /\ x \notin Oversize /\ Len(current_buffer_) < Capacity
     /\ current_buffer_' = Append(current_buffer_, x)
     /\ UNCHANGED buffers_
  \/ /\ x \notin Oversize /\ Len(current_buffer_) >= Capacity
     /\ buffers_' = buffers_ \o current_buffer_
     /\ current_buffer_' = <<x>>
  \/ /\ x \in Oversize
     /\ buffers_' = (buffers_ \o current_buffer_) \o <<x>>
     /\ current_buffer_' = <<>>

\* The rest of Append, under the mutex.
AppendLine(t, x) ==
  /\ CallerGoes(t, "append", "idle")
  /\ \A n \in 1 .. Len(appended) : appended[n] # x
  /\ Put(x)
  /\ appended' = Append(appended, x)
  /\ UNCHANGED <<flagVars, buffers_to_write, file, backend, ctl, starts, openable,
                 historyVars>>
-------------------------------------------------------------------------------
(* Flush. *)

FlushCheck(t) ==
  /\ running_
  /\ CallerGoes(t, "idle", "flush")
  /\ flushMark' = [flushMark EXCEPT ![t] = Len(appended)]
  /\ UNCHANGED <<flagVars, bufferVars, backend, ctl, starts, openable, stopMark>>

\* Under the mutex: the current buffer joins the vector, and the caller waits
\* until the vector is empty.
FlushLocked(t) ==
  /\ buffers_' = buffers_ \o current_buffer_
  /\ current_buffer_' = <<>>
  /\ CallerGoes(t, "flush", IF buffers_' = <<>> THEN "idle" ELSE "waiting")
  /\ UNCHANGED <<flagVars, buffers_to_write, file, appended, backend, ctl, starts,
                 openable, historyVars>>

\* A caller that was woken looks again.
FlushWoken(t) ==
  /\ CallerGoes(t, "woken", IF buffers_ = <<>> THEN "idle" ELSE "waiting")
  /\ UNCHANGED <<flagVars, bufferVars, backend, ctl, starts, openable, historyVars>>
-------------------------------------------------------------------------------
(* ThreadFunc. *)

BackendGoes(from, to) == backend = from /\ backend' = to

\* The file is opened; without it the log stops running.
OpenFile ==
  /\ \/ openable /\ BackendGoes("open", "check") /\ UNCHANGED running_
     \/ ~openable /\ BackendGoes("open", "ended") /\ running_' = FALSE
  /\ UNCHANGED <<thread_started_, bufferVars, caller, ctl, starts, openable, historyVars>>

CheckRunning ==
  /\ BackendGoes("check", IF running_ THEN "lock" ELSE "final")
  /\ UNCHANGED <<flagVars, bufferVars, caller, ctl, starts, openable, historyVars>>

\* Nothing to write: wait for cond_, for flush_interval_ at most.
WaitForLines ==
  /\ buffers_ = <<>>
  /\ BackendGoes("lock", "waiting")
  /\ UNCHANGED <<flagVars, bufferVars, caller, ctl, starts, openable, historyVars>>

\* Mutant: the buffer that is being filled is not taken.
SwapFull ==
  /\ \/ BackendGoes("waiting", "write")
     \/ buffers_ # <<>> /\ BackendGoes("lock", "write")
  /\ buffers_to_write' = buffers_
  /\ buffers_' = <<>>
  /\ UNCHANGED <<flagVars, current_buffer_, file, appended, caller, ctl, starts,
                 openable, historyVars>>

\* Everything is taken, the buffer that is being filled too.
Swap ==
  /\ \/ BackendGoes("waiting", "write")
     \/ buffers_ # <<>> /\ BackendGoes("lock", "write")
  /\ buffers_to_write' = buffers_ \o current_buffer_
  /\ buffers_' = <<>>
  /\ current_buffer_' = <<>>
  /\ UNCHANGED <<flagVars, file, appended, caller, ctl, starts, openable, historyVars>>

WriteFile ==
  /\ BackendGoes("write", "notify")
  /\ file' = file \o buffers_to_write
  /\ buffers_to_write' = <<>>
  /\ UNCHANGED <<flagVars, current_buffer_, buffers_, appended, caller, ctl, starts,
                 openable, historyVars>>

\* Mutant: nobody is told that the vector has been written.
NotifyNobody ==
  /\ BackendGoes("notify", "check")
  /\ UNCHANGED <<flagVars, bufferVars, caller, ctl, starts, openable, historyVars>>

\* flush_cond_.notify_all().
NotifyFlush ==
  /\ BackendGoes("notify", "check")
  /\ caller' = [t \in Callers |-> IF caller[t] = "waiting" THEN "woken" ELSE caller[t]]
  /\ UNCHANGED <<flagVars, bufferVars, ctl, starts, openable, historyVars>>

\* Mutant: only full buffers are written at the end.
WriteFullBuffersToFile ==
  /\ file' = IF openable THEN file \o buffers_ ELSE file
  /\ buffers_' = <<>>
  /\ UNCHANGED <<current_buffer_, buffers_to_write, appended>>

\* WriteBuffersToFile.  What it has taken is gone even if the file does not open.
WriteBuffersToFile ==
  /\ file' = IF openable THEN file \o (buffers_ \o current_buffer_) ELSE file
  /\ buffers_' = <<>>
  /\ current_buffer_' = <<>>
  /\ UNCHANGED <<buffers_to_write, appended>>

FinalWrite ==
  /\ BackendGoes("final", "ended")
  /\ WriteBuffersToFile
  /\ UNCHANGED <<flagVars, caller, ctl, starts, openable, historyVars>>

ThreadFunc == \/ OpenFile
              \/ CheckRunning
              \/ WaitForLines
              \/ Swap
              \/ WriteFile
              \/ NotifyFlush
              \/ FinalWrite
-------------------------------------------------------------------------------
(* Start and Stop, by one thread. *)

Start ==
  /\ ctl \in {"idle", "stopped"}
  /\ ~thread_started_
  /\ starts < MaxStarts
  /\ ctl' = "idle"
  /\ starts' = starts + 1
  /\ running_' = TRUE
  /\ thread_started_' = TRUE
  /\ backend' = "open"
  /\ UNCHANGED <<bufferVars, caller, openable, historyVars>>

StopBegin ==
  /\ ctl = "idle" /\ thread_started_
  /\ ctl' = "join"
  /\ running_' = FALSE
  /\ stopMark' = Len(appended)
  /\ UNCHANGED <<thread_started_, bufferVars, backend, caller, starts, openable, flushMark>>

StopJoin ==
  /\ ctl = "join" /\ backend = "ended"
  /\ ctl' = "write"
  /\ thread_started_' = FALSE
  /\ UNCHANGED <<running_, bufferVars, backend, caller, starts, openable, historyVars>>

StopWrite ==
  /\ ctl = "write"
  /\ ctl' = "stopped"
  /\ WriteBuffersToFile
  /\ UNCHANGED <<flagVars, backend, caller, starts, openable, historyVars>>

Stop == StopJoin \/ StopWrite
-------------------------------------------------------------------------------
Caller(t) == FlushLocked(t) \/ FlushWoken(t) \/ \E x \in Lines : AppendLine(t, x)

Next == \/ \E t \in Callers : AppendCheck(t) \/ FlushCheck(t) \/ Caller(t)
        \/ ThreadFunc
        \/ Start
        \/ StopBegin
        \/ Stop

Spec == Init /\ [][Next]_vars

\* A thread that can go on does; nobody has to append, flush, start or stop.
Fairness == /\ WF_vars(ThreadFunc)
            /\ WF_vars(Stop)
            /\ \A t \in Callers : WF_vars(Caller(t))

FairSpec == Spec /\ Fairness
-------------------------------------------------------------------------------
\* No line is lost, written twice or overtaken, as long as the file can be
\* opened: the file, what the thread is writing, the vector and the current
\* buffer are together the lines appended, in their order (Append, ThreadFunc,
\* WriteBuffersToFile).
LinesInOrder ==
  openable => appended = file \o (buffers_to_write \o (buffers_ \o current_buffer_))

\* When Stop returns, what was appended before the call is in the file
\* (async_Logger.cpp:126 and 221, "write the remaining logs").
StopWritesAll == openable /\ ctl = "stopped" => Len(file) >= stopMark

Written(x) == \E n \in 1 .. Len(file) : file[n] = x
Appended(x) == \E n \in 1 .. Len(appended) : appended[n] = x

\* A line reaches the file while the log runs, even if no other follows
\* (wait_for and the swap of the current buffer).
LinesWritten == \A x \in Lines : Appended(x) ~> Written(x) \/ ~running_

\* Flush returns while the log runs (flush_cond_).
FlushReturns ==
  \A t \in Callers : caller[t] = "waiting" ~> caller[t] = "idle" \/ ~running_
-------------------------------------------------------------------------------
(* Statements of the documentation that the code does not keep. *)

\* async_logger.h:61, Flush "waits until the logs of all buffers have been
\* written".  It waits until the vector is empty, which it is as soon as the
\* thread has taken it.
FlushWaits ==
  [][\A t \in Callers :
       caller[t] \in {"flush", "woken"} /\ caller'[t] = "idle" => Len(file) >= flushMark[t]]_vars

\* doc/v5.md:40-41 names as an error of the past that Flush waits for ever when
\* the thread fails to notify it.  The thread that is stopped still does not.
FlushNeverStuck == \A t \in Callers : caller[t] = "waiting" ~> caller[t] = "idle"
===============================================================================
