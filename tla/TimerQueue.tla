------------------------------ MODULE TimerQueue ------------------------------
(***************************************************************************)
(* What timers kept by their time promise, whatever structure keeps them:  *)
(* a time for each descriptor that has a timer, callbacks that run in the  *)
(* order of these times and not before, and none due when all is handled.  *)
(*                                                                         *)
(* What is taken out after a callback is an earliest timer at that moment: *)
(* the one whose callback ran, unless the callback itself changed which    *)
(* timer comes first.                                                      *)
(***************************************************************************)
EXTENDS Integers

CONSTANTS TimerFds,    \* descriptors that may have a timer
          Timeouts,    \* timeouts, in milliseconds
          TicksPerMs,  \* ticks of the clock in a millisecond
          MaxTicks     \* bound: how far time advances

VARIABLES expires,   \* descriptor with a timer -> its time
          now,       \* the time
          handling   \* callbacks are being run

queueVars == <<expires, now, handling>>

QueueInit ==
  /\ expires = [fd \in {} |-> 0]
  /\ now = 0
  /\ handling = FALSE

Put(q, fd, timeout_ms) ==
  [f \in DOMAIN q \cup {fd} |-> IF f = fd THEN now + TicksPerMs * timeout_ms ELSE q[f]]

Without(q, fd) == [f \in DOMAIN q \ {fd} |-> q[f]]

Earliest(q) == {fd \in DOMAIN q : \A f \in DOMAIN q : q[fd] <= q[f]}

\* Less than a millisecond is left.
Due(time) == time - now < TicksPerMs

Add(fd, timeout_ms) ==
  /\ ~handling
  /\ expires' = Put(expires, fd, timeout_ms)
  /\ UNCHANGED <<now, handling>>

\* Adjusting a timer that is not there does nothing.
Adjust(fd, timeout_ms) ==
  /\ ~handling
  /\ fd \in DOMAIN expires
  /\ expires' = Put(expires, fd, timeout_ms)
  /\ UNCHANGED <<now, handling>>

Remove(fd) ==
  /\ ~handling
  /\ expires' = Without(expires, fd)
  /\ UNCHANGED <<now, handling>>

Begin ==
  /\ ~handling
  /\ handling' = TRUE
  /\ UNCHANGED <<expires, now>>

\* What a callback may make of the timers.
Effects(q) == {q} \cup {Without(q, fd) : fd \in TimerFds}
                  \cup {Put(q, fd, t) : fd \in TimerFds, t \in Timeouts}

\* The callback of an earliest timer that is due, and the removal after it.
Fire ==
  /\ handling
  /\ \E fd \in Earliest(expires) : Due(expires[fd])
  /\ \E q \in Effects(expires) :
       \/ q = [fd \in {} |-> 0] /\ expires' = q
       \/ \E fd \in Earliest(q) : expires' = Without(q, fd)
  /\ UNCHANGED <<now, handling>>

\* All is handled: no timer is due.
End ==
  /\ handling
  /\ \A fd \in DOMAIN expires : ~Due(expires[fd])
  /\ handling' = FALSE
  /\ UNCHANGED <<expires, now>>

Advance ==
  /\ now < MaxTicks
  /\ now' = now + 1
  /\ UNCHANGED <<expires, handling>>

QueueNext ==
  \/ \E fd \in TimerFds, t \in Timeouts : Add(fd, t) \/ Adjust(fd, t)
  \/ \E fd \in TimerFds : Remove(fd)
  \/ Begin
  \/ Fire
  \/ End
  \/ Advance

QueueSpec == QueueInit /\ [][QueueNext]_queueVars
===============================================================================
