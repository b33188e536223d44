----------------------------- MODULE TimerManager -----------------------------
(***************************************************************************)
(* src/timer_manager.cpp: timers in a binary heap, and the map from        *)
(* descriptors to places in the heap.                                      *)
(*                                                                         *)
(* Time advances in ticks of half a millisecond, since duration_cast cuts  *)
(* the remaining time off to whole milliseconds.  Indices of the heap      *)
(* start at 1 here, at 0 in the code.  A callback may call the manager     *)
(* again; that this may move or destroy the callback while it runs is      *)
(* left out.                                                               *)
(***************************************************************************)
EXTENDS Integers, Sequences, FiniteSets

CONSTANTS TimerFds,   \* descriptors
          Timeouts,   \* timeout_ms arguments, in milliseconds
          MaxTicks    \* bound: how far time advances

ASSUME TimerAssumption == Timeouts \subseteq Int /\ MaxTicks \in Nat

VARIABLES
  heap_,     \* sequence of TimerNode
  ref_,      \* descriptor -> place in the heap
  now,       \* Clock::now(), in ticks
  handling   \* inside HandleExpiredTimers

timerVars == <<heap_, ref_, now, handling>>

TicksPerMs == 2

TimerNode == [fd : TimerFds, expire : Int]

TimerManagerTypeOK ==
  /\ heap_ \in Seq(TimerNode)
  /\ DOMAIN ref_ \subseteq TimerFds
  /\ now \in 0 .. MaxTicks
  /\ handling \in BOOLEAN

TimerManagerInit ==
  /\ heap_ = <<>>
  /\ ref_ = [fd \in {} |-> 0]
  /\ now = 0
  /\ handling = FALSE
-------------------------------------------------------------------------------
(* The heap: a pair of the sequence of nodes and the map. *)

\* ref_[fd] = i, whether or not fd is in the map.
PutRef(ref, fd, i) == [f \in DOMAIN ref \cup {fd} |-> IF f = fd THEN i ELSE ref[f]]

swap_node_(hr, i, j) ==
  IF i > Len(hr.heap) \/ j > Len(hr.heap) THEN hr
  ELSE [heap |-> [hr.heap EXCEPT ![i] = hr.heap[j], ![j] = hr.heap[i]],
        ref  |-> PutRef(PutRef(hr.ref, hr.heap[j].fd, i), hr.heap[i].fd, j)]

\* A place and the places above it, up to the root.
Ancestors[i \in Nat \ {0}] == IF i = 1 THEN {1} ELSE {i} \cup Ancestors[i \div 2]

\* What a run of swap_node_ along a path comes to: place x of the path has the
\* node that was at from[x], and the map knows.
Carried(hr, from) ==
  LET nodes == [x \in DOMAIN hr.heap |-> hr.heap[IF x \in DOMAIN from THEN from[x] ELSE x]]
      moved == {nodes[x].fd : x \in DOMAIN from}
  IN  [heap |-> nodes,
       ref  |-> [fd \in DOMAIN hr.ref \cup moved |->
                  IF fd \in moved THEN CHOOSE x \in DOMAIN from : nodes[x].fd = fd
                  ELSE hr.ref[fd]]]

\* A node of time e goes on from place x: up, past a parent that expires later.
Climbs(hr, e, x) == x > 1 /\ hr.heap[x \div 2].expire > e

\* The places of the loop of siftup_: i, and up past every parent that expires later.
Rise(hr, i) ==
  {x \in Ancestors[i] :
     \A y \in Ancestors[i] : x <= y /\ y < i => hr.heap[y].expire > hr.heap[i].expire}

siftup_(hr, i) ==
  LET e == hr.heap[i].expire
  IN  IF ~Climbs(hr, e, i) THEN hr
      ELSE Carried(hr, [x \in Rise(hr, i) |-> IF Climbs(hr, e, x) THEN x \div 2 ELSE i])

\* The smaller child of i among the first n nodes.
Child(hr, i, n) ==
  IF 2 * i + 1 <= n /\ hr.heap[2 * i + 1].expire < hr.heap[2 * i].expire
  THEN 2 * i + 1 ELSE 2 * i

\* Down, below a smaller child that expires earlier.
Sinks(hr, e, x, n) == 2 * x <= n /\ hr.heap[Child(hr, x, n)].expire < e

\* The places of the loop of siftdown_: i, and down below each such child.
Fall(hr, i, n) ==
  {x \in i .. n :
     /\ i \in Ancestors[x]
     /\ \A y \in Ancestors[x] : y > i => /\ y = Child(hr, y \div 2, n)
                                        /\ hr.heap[y].expire < hr.heap[i].expire}

siftdown_(hr, i, n) ==
  LET e == hr.heap[i].expire
  IN  IF ~Sinks(hr, e, i, n) THEN hr
      ELSE Carried(hr, [x \in Fall(hr, i, n) |->
                          IF Sinks(hr, e, x, n) THEN Child(hr, x, n) ELSE i])

\* "if (!siftdown_(i, n)) siftup_(i)": siftdown_ tells whether it moved the node.
Sift(hr, i, n) ==
  IF Sinks(hr, hr.heap[i].expire, i, n) THEN siftdown_(hr, i, n) ELSE siftup_(hr, i)

\* Mutant: the node that takes the place of the deleted one only sinks.
del_SinkOnly(hr, index) ==
  IF hr.heap = <<>> \/ index > Len(hr.heap) THEN hr
  ELSE LET n == Len(hr.heap) - 1
           moved == IF index <= n THEN siftdown_(swap_node_(hr, index, n + 1), index, n) ELSE hr
           gone == moved.heap[n + 1].fd
       IN  [heap |-> SubSeq(moved.heap, 1, n),
            ref  |-> [f \in DOMAIN moved.ref \ {gone} |-> moved.ref[f]]]

del_(hr, index) ==
  IF hr.heap = <<>> \/ index > Len(hr.heap) THEN hr
  ELSE LET n == Len(hr.heap) - 1
           moved == IF index <= n THEN Sift(swap_node_(hr, index, n + 1), index, n) ELSE hr
           gone == moved.heap[n + 1].fd
       IN  [heap |-> SubSeq(moved.heap, 1, n),
            ref  |-> [f \in DOMAIN moved.ref \ {gone} |-> moved.ref[f]]]

\* Mutant: a timer that gets a later time is not moved down.
AdjustedUpOnly(hr, fd, timeout_ms) ==
  IF fd \notin DOMAIN hr.ref THEN hr
  ELSE LET i == hr.ref[fd]
       IN  siftup_([hr EXCEPT !.heap[i].expire = now + TicksPerMs * timeout_ms], i)

Adjusted(hr, fd, timeout_ms) ==
  IF fd \notin DOMAIN hr.ref THEN hr
  ELSE LET i == hr.ref[fd]
       IN  Sift([hr EXCEPT !.heap[i].expire = now + TicksPerMs * timeout_ms], i, Len(hr.heap))

Added(hr, fd, timeout_ms) ==
  IF fd \in DOMAIN hr.ref THEN Adjusted(hr, fd, timeout_ms)
  ELSE siftup_([heap |-> Append(hr.heap, [fd |-> fd, expire |-> now + TicksPerMs * timeout_ms]),
                ref  |-> PutRef(hr.ref, fd, Len(hr.heap) + 1)],
               Len(hr.heap) + 1)

Removed(hr, fd) == IF fd \in DOMAIN hr.ref THEN del_(hr, hr.ref[fd]) ELSE hr

Timers == [heap |-> heap_, ref |-> ref_]

Becomes(hr) == heap_' = hr.heap /\ ref_' = hr.ref
-------------------------------------------------------------------------------
(* The calls of the class.  Between two of them time passes. *)

AddTimer(fd, timeout_ms) ==
  /\ ~handling
  /\ Becomes(Added(Timers, fd, timeout_ms))
  /\ UNCHANGED <<now, handling>>

AdjustTimer(fd, timeout_ms) ==
  /\ ~handling
  /\ Becomes(Adjusted(Timers, fd, timeout_ms))
  /\ UNCHANGED <<now, handling>>

RemoveTimer(fd) ==
  /\ ~handling
  /\ Becomes(Removed(Timers, fd))
  /\ UNCHANGED <<now, handling>>

\* What the callback of a timer does to the manager: nothing, or a call.
CallbackEffect(hr) ==
  {hr} \cup {Removed(hr, fd) : fd \in TimerFds}
       \cup {Added(hr, fd, t) : fd \in TimerFds, t \in Timeouts}

\* HandleExpiredTimers is called, directly or by GetNextTimeout.
HandleExpiredTimersBegin ==
  /\ ~handling
  /\ handling' = TRUE
  /\ UNCHANGED <<heap_, ref_, now>>

\* What is left of the first timer's time, in whole milliseconds.
RemainingMs(node) ==
  LET d == node.expire - now
  IN  IF d >= 0 THEN d \div TicksPerMs ELSE -((-d) \div TicksPerMs)

\* One round of its loop: the callback of the first timer, if its time has
\* come, and then del_(0), whatever is first by now.
FireFirst ==
  /\ handling
  /\ heap_ # <<>>
  /\ RemainingMs(heap_[1]) <= 0
  /\ \E hr \in CallbackEffect(Timers) : Becomes(del_(hr, 1))
  /\ UNCHANGED <<now, handling>>

\* The loop ends at a timer whose time has not come.
HandleExpiredTimersEnd ==
  /\ handling
  /\ heap_ # <<>> => RemainingMs(heap_[1]) > 0
  /\ handling' = FALSE
  /\ UNCHANGED <<heap_, ref_, now>>

Elapse ==
  /\ now < MaxTicks
  /\ now' = now + 1
  /\ UNCHANGED <<heap_, ref_, handling>>

TimerManagerNext ==
  \/ \E fd \in TimerFds, t \in Timeouts : AddTimer(fd, t) \/ AdjustTimer(fd, t)
  \/ \E fd \in TimerFds : RemoveTimer(fd)
  \/ HandleExpiredTimersBegin
  \/ FireFirst
  \/ HandleExpiredTimersEnd
  \/ Elapse

TimerManagerSpec == TimerManagerInit /\ [][TimerManagerNext]_timerVars
-------------------------------------------------------------------------------
\* Whatever the calls and the callbacks do, the first timer is the next to
\* expire, and the map leads from every descriptor to its own node (the sifts
\* of AddTimer, AdjustTimer and del_ on a heap that callbacks change).
HeapConsistent ==
  /\ TimerManagerTypeOK
  /\ \A i \in 2 .. Len(heap_) : heap_[i \div 2].expire <= heap_[i].expire
  /\ Len(heap_) = Cardinality(DOMAIN ref_)
  /\ \A fd \in DOMAIN ref_ : ref_[fd] \in 1 .. Len(heap_) /\ heap_[ref_[fd]].fd = fd

\* The timers as a map from descriptors to times.
Expires == [fd \in DOMAIN ref_ |-> heap_[ref_[fd]].expire]

Queue == INSTANCE TimerQueue WITH expires <- Expires

\* The heap and its map are timers kept by their time: a call changes the timer
\* of its descriptor and no other, callbacks run earliest first and never
\* early, and HandleExpiredTimers, which looks at the first timer only, leaves
\* none that is due.
ImplementsQueue == Queue!QueueSpec
===============================================================================
