--------------------------- MODULE TimerWheelProofs ---------------------------
(***************************************************************************)
(* Proofs about TimerWheel, for every set of descriptors, wheel size and   *)
(* set of timeouts.                                                        *)
(***************************************************************************)
EXTENDS TimerWheel, FiniteSetTheorems, TLAPS

-------------------------------------------------------------------------------
(* Arithmetic of the wheel. *)

\* Going forward x <= WheelSize slots from a slot wraps at most once
\* (timer_wheel.cpp CalculateSlot and Tick).
LEMMA SlotWrap ==
  ASSUME NEW a \in Slots, NEW x \in 0 .. WheelSize
  PROVE  /\ (a + x) % WheelSize \in Slots
         /\ a + x < WheelSize => (a + x) % WheelSize = a + x
         /\ a + x >= WheelSize => (a + x) % WheelSize = a + x - WheelSize
<1>1. WheelSize \in Nat \ {0}
  BY WheelAssumption
<1>2. CASE a + x < WheelSize
  <2>1. PICK n \in 0 .. WheelSize - 1 : n = a + x
    BY <1>1, <1>2 DEF Slots
  <2>2. n % WheelSize = n
    BY <1>1, <2>1
  <2> QED
    BY <1>1, <1>2, <2>1, <2>2 DEF Slots
<1>3. CASE a + x >= WheelSize
  <2>1. PICK n \in WheelSize .. 2 * WheelSize - 1 : n = a + x
    BY <1>1, <1>3 DEF Slots
  <2>2. n % WheelSize = n - WheelSize
    BY <1>1, <2>1
  <2> QED
    BY <1>1, <1>3, <2>1, <2>2 DEF Slots
<1> QED
  BY <1>1, <1>2, <1>3 DEF Slots

\* A timeout splits into whole turns and an offset inside the wheel.
LEMMA TurnSplit ==
  ASSUME NEW t \in Nat
  PROVE  /\ t % WheelSize \in 0 .. WheelSize - 1
         /\ t \div WheelSize \in Nat
  BY WheelAssumption

\* The task CalculateSlot builds is well formed.
LEMMA CalculateSlotType ==
  ASSUME current_slot_ \in Slots, NEW t \in Int, Accepted(t)
  PROVE  CalculateSlot(t) \in Task
<1>1. t \in Nat
  BY DEF Accepted
<1>2. CASE t <= WheelSize
  <2>1. t \in 0 .. WheelSize
    BY <1>1, <1>2, WheelAssumption
  <2> QED
    BY <1>2, <2>1, SlotWrap DEF CalculateSlot, Task
<1>3. CASE ~(t <= WheelSize)
  <2>1. t % WheelSize \in 0 .. WheelSize /\ t \div WheelSize \in Nat
    BY <1>1, TurnSplit, WheelAssumption
  <2> QED
    BY <1>3, <2>1, SlotWrap DEF CalculateSlot, Task
<1> QED
  BY <1>2, <1>3, WheelAssumption DEF Slots

\* Moving the wheel on by one slot stays inside it.
LEMMA NextSlot ==
  ASSUME current_slot_ \in Slots
  PROVE  /\ (current_slot_ + 1) % WheelSize \in Slots
         /\ current_slot_ + 1 < WheelSize
              => (current_slot_ + 1) % WheelSize = current_slot_ + 1
         /\ current_slot_ + 1 >= WheelSize
              => current_slot_ + 1 = WheelSize /\ (current_slot_ + 1) % WheelSize = 0
<1>1. 1 \in 0 .. WheelSize
  BY WheelAssumption
<1>2. /\ (current_slot_ + 1) % WheelSize \in Slots
      /\ current_slot_ + 1 < WheelSize
           => (current_slot_ + 1) % WheelSize = current_slot_ + 1
      /\ current_slot_ + 1 >= WheelSize
           => (current_slot_ + 1) % WheelSize = current_slot_ + 1 - WheelSize
  BY <1>1, SlotWrap
<1>3. current_slot_ + 1 >= WheelSize => current_slot_ + 1 = WheelSize
  BY WheelAssumption DEF Slots
<1> QED
  BY <1>2, <1>3, WheelAssumption DEF Slots

\* Processing a slot leaves well-formed tasks.
LEMMA ProcessSlotType ==
  ASSUME current_slot_ \in Slots, NEW task \in Task \cup {NoTask}
  PROVE  ProcessSlot(task) \in Task \cup {NoTask}
<1>1. CASE task \in Task
  BY <1>1, NextSlot DEF ProcessSlot, Task
<1>2. CASE task = NoTask
  BY <1>2, WheelAssumption DEF ProcessSlot, NoTask, Slots
<1> QED
  BY <1>1, <1>2

-------------------------------------------------------------------------------
(* Type correctness. *)

\* The wheel's state is always well formed: every task sits in a slot of the
\* wheel and its rounds never go below zero (AddTimeout, RemoveTimeout, Tick,
\* Clear).
THEOREM WheelTypeOK == Spec => []TypeOK
<1>1. Init => TypeOK
  BY WheelAssumption DEF Init, TypeOK, Slots
<1>2. TypeOK /\ [Next]_vars => TypeOK'
  <2> SUFFICES ASSUME TypeOK, [Next]_vars
               PROVE  TypeOK'
    OBVIOUS
  <2>1. ASSUME NEW f \in Fds, NEW t \in Timeouts, AddTimeout(f, t)
        PROVE  TypeOK'
    <3>1. CalculateSlot(t) \in Task
      BY <2>1, CalculateSlotType, WheelAssumption DEF TypeOK, AddTimeout
    <3> QED
      BY <2>1, <3>1 DEF AddTimeout, TypeOK
  <2>2. ASSUME NEW f \in Fds, RemoveTimeout(f)
        PROVE  TypeOK'
    BY <2>2 DEF RemoveTimeout, TypeOK
  <2>3. CASE Tick
    <3>1. Due \subseteq Fds
      BY DEF Due
    <3>2. Cardinality(Due) \in Nat
      BY <3>1, WheelAssumption, FS_Subset, FS_CardinalityType
    <3>3. \A f \in Fds : ProcessSlot(timers_[f]) \in Task \cup {NoTask}
      BY ProcessSlotType DEF TypeOK
    <3> QED
      BY <2>3, <3>1, <3>2, <3>3, NextSlot DEF Tick, TypeOK
  <2>4. CASE Clear
    BY <2>4, WheelAssumption DEF Clear, TypeOK, Slots
  <2>5. CASE UNCHANGED vars
    BY <2>5 DEF vars, TypeOK
  <2> QED
    BY <2>1, <2>2, <2>3, <2>4, <2>5 DEF Next
<1> QED
  BY <1>1, <1>2, PTL DEF Spec

-------------------------------------------------------------------------------
(* The statistics. *)

\* The active timers are a finite set.
LEMMA ActiveFinite ==
  /\ IsFiniteSet(Active)
  /\ Cardinality(Active) \in Nat
<1>1. Active \subseteq Fds
  BY DEF Active
<1> QED
  BY <1>1, WheelAssumption, FS_Subset, FS_CardinalityType

\* A task that is due is active, and an idle descriptor is never due.
LEMMA DueActive ==
  ASSUME TypeOK
  PROVE  Due \subseteq Active
  BY WheelAssumption DEF Due, Active, HasTimer, NoTask, TypeOK, Slots, Task

\* What the counters of the wheel leave unaccounted for always covers the
\* active timers: no task is counted as triggered or cancelled twice
\* (timer_wheel.cpp AddTimeout, RemoveTimeout, ProcessSlot).
THEOREM WheelStatsCoverActive == Spec => []StatsCoverActive
<1>1. Init => StatsCoverActive
  <2>1. Init => Active = {}
    BY DEF Init, Active, HasTimer
  <2> QED
    BY <2>1, FS_EmptySet DEF Init, StatsCoverActive
<1>2. TypeOK /\ StatsCoverActive /\ [Next]_vars => StatsCoverActive'
  <2> SUFFICES ASSUME TypeOK, StatsCoverActive, [Next]_vars
               PROVE  StatsCoverActive'
    OBVIOUS
  <2> USE ActiveFinite
  <2>0. unaccounted \in Int
    BY DEF TypeOK
  <2>1. ASSUME NEW f \in Fds, NEW t \in Timeouts, AddTimeout(f, t)
        PROVE  StatsCoverActive'
    <3>1. CalculateSlot(t) \in Task
      BY <2>1, CalculateSlotType, WheelAssumption DEF TypeOK, AddTimeout
    <3>2. CalculateSlot(t) # NoTask
      BY <3>1, WheelAssumption DEF Task, NoTask, Slots
    <3>3. Active' = Active \cup {f}
      BY <2>1, <3>2 DEF AddTimeout, TypeOK, Active, HasTimer
    <3>4. f \in Active <=> HasTimer(f)
      BY DEF Active
    <3>5. Cardinality(Active \cup {f}) =
            IF f \in Active THEN Cardinality(Active) ELSE Cardinality(Active) + 1
      BY FS_AddElement
    <3> QED
      BY <2>0, <2>1, <3>3, <3>4, <3>5 DEF AddTimeout, StatsCoverActive
  <2>2. ASSUME NEW f \in Fds, RemoveTimeout(f)
        PROVE  StatsCoverActive'
    <3>1. Active' = Active \ {f}
      BY <2>2 DEF RemoveTimeout, TypeOK, Active, HasTimer
    <3>2. f \in Active <=> HasTimer(f)
      BY DEF Active
    <3>3. Cardinality(Active \ {f}) =
            IF f \in Active THEN Cardinality(Active) - 1 ELSE Cardinality(Active)
      BY FS_RemoveElement
    <3> QED
      BY <2>0, <2>2, <3>1, <3>2, <3>3 DEF RemoveTimeout, StatsCoverActive
  <2>3. CASE Tick
    <3>1. Active' = Active \ Due
      <4>1. \A f \in Fds : timers_'[f] = ProcessSlot(timers_[f])
        BY <2>3 DEF Tick
      <4>2. ASSUME NEW f \in Fds
            PROVE  f \in Active' <=> f \in Active /\ f \notin Due
        <5>1. CASE timers_[f] = NoTask
          <6>1. timers_[f].slot # current_slot_
            BY <5>1, WheelAssumption DEF TypeOK, NoTask, Slots
          <6> QED
            BY <4>1, <5>1, <6>1 DEF ProcessSlot, Active, HasTimer
        <5>2. CASE timers_[f] \in Task
          <6>1. ProcessSlot(timers_[f]) = NoTask <=> f \in Due
            BY <5>2, NextSlot, WheelAssumption
               DEF ProcessSlot, Due, Task, NoTask, Slots, TypeOK
          <6>2. timers_[f] # NoTask
            BY <5>2, WheelAssumption DEF Task, NoTask, Slots
          <6> QED
            BY <4>1, <6>1, <6>2 DEF Active, HasTimer
        <5> QED
          BY <5>1, <5>2 DEF TypeOK
      <4> QED
        BY <4>2 DEF Active
    <3>2. IsFiniteSet(Due) /\ Cardinality(Due) \in Nat
      BY DueActive, FS_Subset, FS_CardinalityType
    <3>3. Active \cap Due = Due
      BY DueActive
    <3>4. Cardinality(Active \ Due) = Cardinality(Active) - Cardinality(Due)
      BY <3>3, FS_Difference
    <3> QED
      BY <2>0, <2>3, <3>1, <3>2, <3>4 DEF Tick, StatsCoverActive
  <2>4. CASE Clear
    <3>1. Active' = {}
      BY <2>4 DEF Clear, Active, HasTimer
    <3> QED
      BY <2>0, <2>4, <3>1, FS_EmptySet DEF Clear, StatsCoverActive
  <2>5. CASE UNCHANGED vars
    BY <2>5 DEF vars, StatsCoverActive, Active, HasTimer
  <2> QED
    BY <2>1, <2>2, <2>3, <2>4, <2>5 DEF Next
<1> QED
  BY <1>1, <1>2, WheelTypeOK, PTL DEF Spec

\* Both together, as the run checks them.
THEOREM WheelAlwaysConsistent == Spec => []WheelConsistent
  BY WheelTypeOK, WheelStatsCoverActive, PTL DEF WheelConsistent

-------------------------------------------------------------------------------
(* The wheel implements a set of independent countdowns. *)

\* A countdown is a natural number, and idle exactly when there is no task.
LEMMA TicksLeftType ==
  ASSUME TypeOK, NEW f \in Fds
  PROVE  /\ HasTimer(f) <=> timers_[f] \in Task
         /\ HasTimer(f) => TicksLeft(f) \in Nat
         /\ ~HasTimer(f) => timers_[f] = NoTask /\ TicksLeft(f) = None
  BY WheelAssumption DEF TypeOK, HasTimer, TicksLeft, Ahead, Task, NoTask, Slots

\* A new task starts with exactly the delay of its timeout, wherever the
\* wheel stands (timer_wheel.cpp CalculateSlot).
LEMMA NewTaskDelay ==
  ASSUME TypeOK, NEW f \in Fds, NEW t \in Timeouts, AddTimeout(f, t)
  PROVE  /\ t \in DOMAIN WheelDelay
         /\ TicksLeft(f)' = WheelDelay[t]
<1>1. t \in Nat \ {0} /\ t \in DOMAIN WheelDelay
  BY WheelAssumption DEF AddTimeout, Accepted, WheelDelay
<1>2. /\ timers_'[f] = CalculateSlot(t)
      /\ current_slot_' = current_slot_
  BY DEF AddTimeout, TypeOK
<1>3. CalculateSlot(t) \in Task /\ CalculateSlot(t) # NoTask
  BY CalculateSlotType, WheelAssumption DEF AddTimeout, TypeOK, Task, NoTask, Slots
<1>4. TicksLeft(f)' = Ahead(CalculateSlot(t).slot) + CalculateSlot(t).remaining_ticks
  BY <1>2, <1>3 DEF TicksLeft, HasTimer, Ahead
<1>5. ASSUME NEW x \in 0 .. WheelSize - 1
      PROVE  Ahead((current_slot_ + x) % WheelSize) = x
  <2> DEFINE s == (current_slot_ + x) % WheelSize
  <2>1. current_slot_ \in Slots /\ x \in 0 .. WheelSize
    BY WheelAssumption DEF TypeOK
  <2>2. /\ s \in Slots
        /\ current_slot_ + x < WheelSize => s = current_slot_ + x
        /\ current_slot_ + x >= WheelSize => s = current_slot_ + x - WheelSize
    BY <2>1, SlotWrap
  <2> HIDE DEF s
  <2> QED
    BY <2>1, <2>2, WheelAssumption DEF Ahead, Slots
<1>6. CASE t < WheelSize
  <2>1. t \in 0 .. WheelSize - 1
    BY <1>1, <1>6, WheelAssumption
  <2>2. CalculateSlot(t).slot = (current_slot_ + t) % WheelSize
        /\ CalculateSlot(t).remaining_ticks = 0
    BY <1>1, <1>6, WheelAssumption DEF CalculateSlot
  <2>3. WheelDelay[t] = t
    BY <1>1, <1>6 DEF WheelDelay
  <2> QED
    BY <1>1, <1>4, <1>5, <2>1, <2>2, <2>3
<1>7. CASE t = WheelSize
  <2>1. CalculateSlot(t).slot = (current_slot_ + WheelSize) % WheelSize
        /\ CalculateSlot(t).remaining_ticks = 0
    BY <1>1, <1>7, WheelAssumption DEF CalculateSlot
  <2>2. (current_slot_ + WheelSize) % WheelSize = current_slot_
    <3>1. current_slot_ \in Slots /\ WheelSize \in 0 .. WheelSize
      BY WheelAssumption DEF TypeOK
    <3>2. current_slot_ + WheelSize >= WheelSize
            => (current_slot_ + WheelSize) % WheelSize
                 = current_slot_ + WheelSize - WheelSize
      BY <3>1, SlotWrap
    <3> QED
      BY <3>1, <3>2, WheelAssumption DEF Slots
  <2>3. WheelDelay[t] = 0
    BY <1>1, <1>7, WheelAssumption DEF WheelDelay
  <2> QED
    BY <1>1, <1>4, <2>1, <2>2, <2>3, WheelAssumption DEF Ahead, TypeOK, Slots
<1>8. CASE t > WheelSize
  <2>1. t % WheelSize \in 0 .. WheelSize - 1 /\ t \div WheelSize \in Nat
    BY <1>1, TurnSplit
  <2>2. CalculateSlot(t).slot = (current_slot_ + (t % WheelSize)) % WheelSize
        /\ CalculateSlot(t).remaining_ticks = t \div WheelSize
    BY <1>1, <1>8, WheelAssumption DEF CalculateSlot
  <2>3. WheelDelay[t] = (t % WheelSize) + (t \div WheelSize)
    BY <1>1, <1>8, WheelAssumption DEF WheelDelay
  <2>4. Ahead((current_slot_ + (t % WheelSize)) % WheelSize) = t % WheelSize
    BY <1>5, <2>1
  <2> QED
    BY <1>1, <1>4, <2>2, <2>3, <2>4
<1> QED
  BY <1>1, <1>6, <1>7, <1>8, WheelAssumption

\* One tick takes one off every countdown, whether the task stays in its slot
\* or moves on with one round less, and ends those that had reached zero
\* (timer_wheel.cpp Tick, ProcessSlot).
LEMMA TickCountsDown ==
  ASSUME TypeOK, Tick, NEW f \in Fds
  PROVE  /\ TicksLeft(f)' = IF TicksLeft(f) \in {None, 0} THEN None
                            ELSE TicksLeft(f) - 1
         /\ f \in Due <=> TicksLeft(f) = 0
<1>1. /\ timers_'[f] = ProcessSlot(timers_[f])
      /\ current_slot_' = (current_slot_ + 1) % WheelSize
  BY DEF Tick
<1>2. CASE timers_[f] = NoTask
  <2>1. timers_[f].slot # current_slot_
    BY <1>2, WheelAssumption DEF TypeOK, NoTask, Slots
  <2>2. timers_'[f] = NoTask /\ f \notin Due
    BY <1>1, <1>2, <2>1 DEF ProcessSlot, Due
  <2>3. TicksLeft(f) = None /\ TicksLeft(f)' = None
    BY <1>2, <2>2 DEF TicksLeft, HasTimer
  <2> QED
    BY <2>2, <2>3, WheelAssumption
<1>3. CASE timers_[f] \in Task
  <2> DEFINE s == timers_[f].slot
             r == timers_[f].remaining_ticks
  <2>1. s \in Slots /\ r \in Nat /\ current_slot_ \in Slots
        /\ timers_[f] # NoTask
    BY <1>3, WheelAssumption DEF Task, TypeOK, NoTask, Slots
  <2>2. TicksLeft(f) = Ahead(s) + r
    BY <2>1 DEF TicksLeft, HasTimer
  <2>3. Ahead(s) \in Nat /\ (Ahead(s) = 0 <=> s = current_slot_)
    BY <2>1, WheelAssumption DEF Ahead, Slots
  <2>4. CASE s # current_slot_
    <3>1. timers_'[f] = timers_[f]
      BY <1>1, <2>4 DEF ProcessSlot
    <3>2. TicksLeft(f)' = Ahead(s)' + r
      BY <2>1, <3>1 DEF TicksLeft, HasTimer, Ahead
    <3>3. Ahead(s)' = Ahead(s) - 1
      <4>1. Ahead(s)' = IF s >= current_slot_' THEN s - current_slot_'
                        ELSE s - current_slot_' + WheelSize
        BY <3>1 DEF Ahead
      <4> QED
        BY <1>1, <2>1, <2>4, <4>1, NextSlot, WheelAssumption DEF Ahead, Slots
    <3> QED
      BY <2>1, <2>2, <2>3, <2>4, <3>2, <3>3, WheelAssumption DEF Due
  <2>5. CASE s = current_slot_ /\ r > 0
    <3>1. timers_'[f] = [slot |-> current_slot_', remaining_ticks |-> r - 1]
      BY <1>1, <2>5 DEF ProcessSlot
    <3>2. timers_'[f] # NoTask
      BY <1>1, <2>1, <3>1, NextSlot, WheelAssumption DEF NoTask, Slots
    <3>3. TicksLeft(f)' = 0 + (r - 1)
      BY <1>1, <2>1, <3>1, <3>2, NextSlot DEF TicksLeft, HasTimer, Ahead, Slots
    <3> QED
      BY <2>1, <2>2, <2>3, <2>5, <3>3, WheelAssumption DEF Due
  <2>6. CASE s = current_slot_ /\ r = 0
    <3>1. timers_'[f] = NoTask /\ f \in Due
      BY <1>1, <2>6 DEF ProcessSlot, Due
    <3>2. TicksLeft(f)' = None
      BY <3>1 DEF TicksLeft, HasTimer
    <3> QED
      BY <2>2, <2>3, <2>6, <3>1, <3>2
  <2> QED
    BY <2>1, <2>4, <2>5, <2>6
<1> QED
  BY <1>2, <1>3 DEF TypeOK

\* The countdown of a descriptor is a function of its task and of the slot
\* the wheel stands at, so an operation that touches neither leaves it alone.
LEMMA CountdownFrame ==
  ASSUME NEW f \in Fds, timers_'[f] = timers_[f], current_slot_' = current_slot_
  PROVE  TicksLeft(f)' = TicksLeft(f)
  BY DEF TicksLeft, HasTimer, Ahead

\* A descriptor without a task has no countdown.
LEMMA CountdownIdle ==
  ASSUME NEW f \in Fds, timers_'[f] = NoTask
  PROVE  TicksLeft(f)' = None
  BY DEF TicksLeft, HasTimer

\* The wheel implements independent countdowns: whatever the size of the
\* wheel and the history of its slots, each timer fires exactly after the
\* delay of its timeout unless it is replaced, removed or cleared
\* (timer_wheel.cpp AddTimeout, RemoveTimeout, Tick, Clear).
THEOREM WheelImplementsCountdown == Spec => ImplementsCountdown
<1>1. Init => Countdown!Init
  BY DEF Init, Countdown!Init, TicksLeftMap, TicksLeft, HasTimer
<1>2. TypeOK /\ [Next]_vars => [Countdown!Next]_(Countdown!vars)
  <2> SUFFICES ASSUME TypeOK, [Next]_vars
               PROVE  [Countdown!Next]_(Countdown!vars)
    OBVIOUS
  <2>1. ASSUME NEW f \in Fds, NEW t \in Timeouts, AddTimeout(f, t)
        PROVE  Countdown!Next
    <3>1. t \in DOMAIN WheelDelay /\ TicksLeft(f)' = WheelDelay[t]
      BY <2>1, NewTaskDelay
    <3>2. \A g \in Fds \ {f} : TicksLeft(g)' = TicksLeft(g)
      BY <2>1, CountdownFrame DEF AddTimeout, TypeOK
    <3>3. TicksLeftMap' = [TicksLeftMap EXCEPT ![f] = WheelDelay[t]]
      BY <3>1, <3>2 DEF TicksLeftMap
    <3>4. Countdown!Arm(f, t)
      BY <2>1, <3>3 DEF AddTimeout, Countdown!Arm
    <3> QED
      BY <3>1, <3>4 DEF Countdown!Next
  <2>2. ASSUME NEW f \in Fds, RemoveTimeout(f)
        PROVE  Countdown!Next
    <3>1. TicksLeft(f)' = None
      BY <2>2, CountdownIdle DEF RemoveTimeout, TypeOK
    <3>2. \A g \in Fds \ {f} : TicksLeft(g)' = TicksLeft(g)
      BY <2>2, CountdownFrame DEF RemoveTimeout, TypeOK
    <3>3. TicksLeftMap' = [TicksLeftMap EXCEPT ![f] = None]
      BY <3>1, <3>2 DEF TicksLeftMap
    <3>4. Countdown!Disarm(f)
      BY <2>2, <3>3 DEF RemoveTimeout, Countdown!Disarm
    <3> QED
      BY <3>4 DEF Countdown!Next
  <2>3. CASE Tick
    <3>1. ASSUME NEW f \in Fds
          PROVE  /\ TicksLeft(f)' = IF TicksLeft(f) \in {None, 0} THEN None
                                    ELSE TicksLeft(f) - 1
                 /\ f \in Due <=> TicksLeft(f) = 0
      BY <2>3, TickCountsDown
    <3>2. fired' = {f \in Fds : TicksLeftMap[f] = 0}
      BY <2>3, <3>1 DEF Tick, TicksLeftMap, Due
    <3>3. TicksLeftMap' = [f \in Fds |-> IF TicksLeftMap[f] \in {None, 0}
                                         THEN None ELSE TicksLeftMap[f] - 1]
      BY <3>1 DEF TicksLeftMap
    <3>4. Countdown!Tick
      BY <3>2, <3>3 DEF Countdown!Tick
    <3> QED
      BY <3>4 DEF Countdown!Next
  <2>4. CASE Clear
    <3>1. \A f \in Fds : TicksLeft(f)' = None
      BY <2>4, CountdownIdle DEF Clear
    <3>2. Countdown!DisarmAll
      BY <2>4, <3>1 DEF Clear, TicksLeftMap, Countdown!DisarmAll
    <3> QED
      BY <3>2 DEF Countdown!Next
  <2>5. CASE UNCHANGED vars
    <3>1. \A f \in Fds : TicksLeft(f)' = TicksLeft(f)
      BY <2>5, CountdownFrame DEF vars
    <3> QED
      BY <2>5, <3>1 DEF vars, TicksLeftMap, Countdown!vars
  <2> QED
    BY <2>1, <2>2, <2>3, <2>4, <2>5 DEF Next
<1> QED
  BY <1>1, <1>2, WheelTypeOK, PTL DEF Spec, ImplementsCountdown, Countdown!Spec
===============================================================================
