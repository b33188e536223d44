--------------------------- MODULE CountdownTimers ---------------------------
(***************************************************************************)
(* What a timer service promises, whatever data structure implements it:   *)
(* one countdown per descriptor.  Arming gives the descriptor a number of  *)
(* ticks, Delay[t], that depends on the requested timeout only.  A tick    *)
(* fires exactly the countdowns that have reached zero and takes one off   *)
(* every other.  Arming again replaces the countdown, disarming forgets it.*)
(*                                                                         *)
(* Delay is a parameter, so that one specification serves for the delay    *)
(* the wheel really gives and for the one its documentation announces.     *)
(***************************************************************************)
EXTENDS Naturals

CONSTANTS Fds,   \* descriptors that may own a timer
          Delay, \* Delay[t]: ticks that pass before a timeout of t fires
          Idle   \* "no countdown"; not a natural number

VARIABLES left,  \* left[f]: ticks still to pass before f fires, or Idle
          fired  \* descriptors whose callback ran in the last tick

vars == <<left, fired>>

Init == /\ left = [f \in Fds |-> Idle]
        /\ fired = {}

\* A timeout t is requested for f; a countdown f already has is forgotten.
Arm(f, t) == /\ left' = [left EXCEPT ![f] = Delay[t]]
             /\ fired' = {}

Disarm(f) == /\ left' = [left EXCEPT ![f] = Idle]
             /\ fired' = {}

Tick == /\ fired' = {f \in Fds : left[f] = 0}
        /\ left' = [f \in Fds |-> IF left[f] \in {Idle, 0} THEN Idle
                                                           ELSE left[f] - 1]

DisarmAll == /\ left' = [f \in Fds |-> Idle]
             /\ fired' = {}

Next == \/ \E f \in Fds : \E t \in DOMAIN Delay : Arm(f, t)
        \/ \E f \in Fds : Disarm(f)
        \/ Tick
        \/ DisarmAll

Spec == Init /\ [][Next]_vars
=============================================================================
