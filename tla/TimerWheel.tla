------------------------------ MODULE TimerWheel ------------------------------
(***************************************************************************)
(* include/timer/timer_wheel.h, src/timer/timer_wheel.cpp: a wheel of      *)
(* wheel_size_ slots, each a list of tasks, and a map from a descriptor to *)
(* its task.  Every public method holds mutex_ from beginning to end, so   *)
(* each is one action.  Callbacks that do not call back into the wheel are *)
(* assumed here; ConnectionReactor models the one that does.               *)
(*                                                                         *)
(* The order of tasks inside a slot and what callbacks do are abstracted:  *)
(* a task is its slot and its remaining_ticks, and `fired' is the set of   *)
(* descriptors whose callback the last tick ran.  The three statistics     *)
(* total_tasks_{added,triggered,cancelled}_ are kept as the number of      *)
(* tasks they leave unaccounted for, added - triggered - cancelled.        *)
(*                                                                         *)
(* Removing a task computes its slot from remaining_ticks and erases the   *)
(* iterator from that slot's list, often not the list the task is in.      *)
(* libstdc++ unlinks the node from the list that holds it, whatever list   *)
(* erase is called on (only the cached list sizes drift), and that is the  *)
(* effect modelled.                                                        *)
(***************************************************************************)
EXTENDS Integers, FiniteSets

CONSTANTS Fds,            \* descriptors
          WheelSize,      \* wheel_size_: 60 in the server
          MaxCycles,      \* kMaxCycles: 10 in the server
          Timeouts,       \* the timeouts, in seconds, that callers request
          MaxUnaccounted, \* bound on `unaccounted', for model checking
          None            \* "no task"

ASSUME WheelAssumption ==
  /\ WheelSize \in Nat \ {0}
  /\ MaxCycles \in Nat \ {0}
  /\ Timeouts \subseteq Int
  /\ IsFiniteSet(Fds)
  /\ None \notin Nat

VARIABLES timers_,       \* timers_[f]: the task of f, or None
          current_slot_,
          fired,         \* descriptors triggered by the last tick
          unaccounted    \* total_tasks_added_ - triggered_ - cancelled_

vars == <<timers_, current_slot_, fired, unaccounted>>

Slots == 0 .. WheelSize - 1
NoTask == [slot |-> None, remaining_ticks |-> None]
Task == [slot : Slots, remaining_ticks : Nat]

HasTimer(f) == timers_[f] # NoTask
Active == {f \in Fds : HasTimer(f)}

TypeOK == /\ timers_ \in [Fds -> Task \cup {NoTask}]
          /\ current_slot_ \in Slots
          /\ fired \subseteq Fds
          /\ unaccounted \in Int

Init == /\ timers_ = [f \in Fds |-> NoTask]
        /\ current_slot_ = 0
        /\ fired = {}
        /\ unaccounted = 0
-------------------------------------------------------------------------------
Accepted(t) == t > 0 /\ t <= WheelSize * MaxCycles

\* Slot and remaining ticks of a task that is due in t ticks.
CalculateSlot(t) ==
  IF t <= WheelSize
  THEN [slot |-> (current_slot_ + t) % WheelSize, remaining_ticks |-> 0]
  ELSE [slot |-> (current_slot_ + (t % WheelSize)) % WheelSize,
        remaining_ticks |-> t \div WheelSize]

\* A timeout out of range is refused and changes nothing.  An older task of f
\* is removed first and counted as cancelled.
AddTimeout(f, t) ==
  /\ Accepted(t)
  /\ unaccounted < MaxUnaccounted
  /\ timers_' = [timers_ EXCEPT ![f] = CalculateSlot(t)]
  /\ unaccounted' = IF HasTimer(f) THEN unaccounted ELSE unaccounted + 1
  /\ fired' = {}
  /\ UNCHANGED current_slot_

\* Mutant: removing an absent timer is counted as a cancellation too.
RemoveTimeoutUnchecked(f) ==
  /\ timers_' = [timers_ EXCEPT ![f] = NoTask]
  /\ unaccounted' = unaccounted - 1
  /\ fired' = {}
  /\ UNCHANGED current_slot_

\* Removing an absent timer succeeds without effect.
RemoveTimeout(f) ==
  /\ timers_' = [timers_ EXCEPT ![f] = NoTask]
  /\ unaccounted' = IF HasTimer(f) THEN unaccounted - 1 ELSE unaccounted
  /\ fired' = {}
  /\ UNCHANGED current_slot_

\* Mutant: the rounds left are compared with 1, so the last one is skipped.
ProcessSlotEarly(task) ==
  IF task.slot # current_slot_ THEN task
  ELSE IF task.remaining_ticks > 1
       THEN [slot |-> (current_slot_ + 1) % WheelSize,
             remaining_ticks |-> task.remaining_ticks - 1]
       ELSE NoTask

\* ProcessSlot: a task with rounds left loses one and moves one slot on;
\* any other task of the slot is triggered and dropped.
ProcessSlot(task) ==
  IF task.slot # current_slot_ THEN task
  ELSE IF task.remaining_ticks > 0
       THEN [slot |-> (current_slot_ + 1) % WheelSize,
             remaining_ticks |-> task.remaining_ticks - 1]
       ELSE NoTask

Due == {f \in Fds : timers_[f].slot = current_slot_
                      /\ timers_[f].remaining_ticks = 0}

Tick ==
  /\ fired' = Due
  /\ timers_' = [f \in Fds |-> ProcessSlot(timers_[f])]
  /\ unaccounted' = unaccounted - Cardinality(Due)
  /\ current_slot_' = (current_slot_ + 1) % WheelSize

\* Clear empties the map before it adds the map's size to the cancelled
\* tasks, so the tasks it drops stay unaccounted for.
Clear ==
  /\ timers_' = [f \in Fds |-> NoTask]
  /\ current_slot_' = 0
  /\ fired' = {}
  /\ UNCHANGED unaccounted

Next == \/ \E f \in Fds, t \in Timeouts : AddTimeout(f, t)
        \/ \E f \in Fds : RemoveTimeout(f)
        \/ Tick
        \/ Clear

Spec == Init /\ [][Next]_vars
-------------------------------------------------------------------------------
\* Slots between the current one and s, going forward.
Ahead(s) == IF s >= current_slot_ THEN s - current_slot_
                                  ELSE s - current_slot_ + WheelSize

\* The ticks that pass before f fires, read off its task.
TicksLeft(f) == IF HasTimer(f)
                THEN Ahead(timers_[f].slot) + timers_[f].remaining_ticks
                ELSE None

\* The delay, in ticks, that a timeout of t seconds really gets.
WheelDelay ==
  [t \in {s \in Timeouts : Accepted(s)} |->
     CASE t < WheelSize -> t
       [] t = WheelSize -> 0
       [] OTHER         -> (t % WheelSize) + (t \div WheelSize)]

\* The delay the header promises: timeout_seconds, one tick being one second.
DocumentedDelay == [t \in {s \in Timeouts : Accepted(s)} |-> t]

TicksLeftMap == [f \in Fds |-> TicksLeft(f)]

Countdown == INSTANCE CountdownTimers
               WITH Delay <- WheelDelay, Idle <- None, left <- TicksLeftMap

Documented == INSTANCE CountdownTimers
               WITH Delay <- DocumentedDelay, Idle <- None, left <- TicksLeftMap

\* The wheel is a set of independent countdowns: adding, removing, moving
\* tasks between slots and wrapping around never makes one timer disturb
\* another, fire twice, fire early or late with respect to the delay given by
\* WheelDelay, or be lost (timer_wheel.cpp AddTimeout, RemoveTimeout, Tick).
ImplementsCountdown == Countdown!Spec

\* timer_wheel.h:70 with timer_wheel.cpp:180: a timeout of t seconds, one tick
\* per second, fires after t ticks.  Longer than one turn of the wheel it
\* does not.
ImplementsSeconds == Documented!Spec

\* The statistics never lose a live task: what they leave unaccounted for is
\* at least the number of active timers (a shortfall would mean that one task
\* was counted as triggered or cancelled twice).
StatsCoverActive == unaccounted >= Cardinality(Active)

\* Slots stay on the wheel and the statistics cover what is on it, whatever
\* AddTimeout, RemoveTimeout, Tick and Clear do to one descriptor after another.
WheelConsistent == TypeOK /\ StatsCoverActive

\* timer_wheel.cpp:148, "update the statistics": after every operation added
\* tasks are triggered, cancelled or active.  Clear breaks it.
StatsBalance == unaccounted = Cardinality(Active)
===============================================================================
