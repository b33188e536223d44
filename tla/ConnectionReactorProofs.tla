----------------------- MODULE ConnectionReactorProofs -----------------------
(***************************************************************************)
(* DescriptorOwner, ClosedIsReleased and HalfClosedWhenDrained of          *)
(* ConnectionReactor, for any number of connections, descriptors and       *)
(* loops.                                                                  *)
(*                                                                         *)
(* The argument: a connection is handled by the thread of its own loop     *)
(* only, and through the one callback registered for its descriptor        *)
(* (Current, Callbacks, TimersOwned); a descriptor has one owner at a time *)
(* (OneOwner); hence what closes a connection takes exactly its own        *)
(* entries out of the tables (Closed).  All steps of a callback have the   *)
(* same effect as far as this is concerned, CallbackOn.                    *)
(***************************************************************************)
EXTENDS ConnectionReactor, SequenceTheorems, WellFoundedInduction, TLAPS

ReactorTypes ==
  /\ state_ \in [Conns -> ConnStates]
  /\ output_buffer_ \in [Conns -> Nat]
  /\ fd_ \in [Conns -> Fds \cup {None}]
  /\ loop_ \in [Conns -> Loops \cup {None}]
  /\ sock \in [Conns -> Sockets]
  /\ interest \in [Conns -> Masks]
  /\ read_callbacks_ \in [Loops -> [Fds -> Conns \cup {None}]]
  /\ timers_ \in [Loops -> [Fds -> Conns \cup {None}]]
  /\ pending_functors_ \in [Loops -> Seq(Conns)]
  /\ pc \in [Loops -> PCs]
  /\ cur \in [Loops -> Conns \cup {None}]
  /\ connections_ \in [Fds -> Conns \cup {None}]
  /\ next_ \in Loops

\* A connection has a descriptor and a loop from accept to its destructor.
AliveState ==
  \A c \in Conns : IF state_[c] \in {"none", "destroyed"} THEN fd_[c] = None
                   ELSE fd_[c] \in Fds /\ loop_[c] \in Loops

OneOwner == \A c, d \in Conns : fd_[c] \in Fds /\ fd_[c] = fd_[d] => c = d

\* A queued ConnectEstablished is the first thing that happens to its connection.
Queued ==
  \A l \in Loops : \A n \in 1 .. Len(pending_functors_[l]) :
    LET c == pending_functors_[l][n]
    IN  /\ state_[c] = "kConnecting" /\ loop_[c] = l
        /\ \A m \in 1 .. Len(pending_functors_[l]) : pending_functors_[l][m] = c => m = n

Callbacks ==
  \A l \in Loops, f \in Fds, c \in Conns :
    read_callbacks_[l][f] = c => /\ loop_[c] = l
                                 /\ state_[c] \notin {"none", "kConnecting"}
                                 /\ fd_[c] \in {f, None}

Current ==
  \A l \in Loops :
    /\ cur[l] = None <=> pc[l] \in {"poll", "batch"}
    /\ \A c \in Conns : cur[l] = c => /\ loop_[c] = l
                                      /\ fd_[c] \in Fds
                                      /\ read_callbacks_[l][fd_[c]] = c

EntriesOwned == \A f \in Fds, c \in Conns : connections_[f] = c => fd_[c] = f

TimersOwned ==
  \A l \in Loops, f \in Fds, c \in Conns :
    timers_[l][f] = c => fd_[c] = f /\ loop_[c] = l /\ read_callbacks_[l][f] = c

InterestOwned ==
  \A c \in Conns : interest[c] # {} => fd_[c] \in Fds /\ read_callbacks_[loop_[c]][fd_[c]] = c

Closed ==
  \A c \in Conns : state_[c] = "kClosed" =>
    /\ cur[loop_[c]] = c
    /\ pc[loop_[c]] # "deadlock" => /\ \A f \in Fds : connections_[f] # c
                                    /\ \A l \in Loops, f \in Fds : timers_[l][f] # c

\* The half-close of c; it is never connected again afterwards.
HalfClosed(c) ==
  /\ sock[c].wr_shut => output_buffer_[c] = 0
  /\ state_[c] = "kClosing" /\ output_buffer_[c] = 0 => sock[c].wr_shut
  /\ sock[c].wr_shut => state_[c] \in {"kClosing", "kClosed"}

ReactorInv ==
  /\ ReactorTypes /\ AliveState /\ OneOwner /\ Queued /\ Callbacks /\ Current
  /\ EntriesOwned /\ TimersOwned /\ InterestOwned /\ Closed
  /\ \A c \in Conns : HalfClosed(c)
------------------------------------------------------------------------------
(* What the step of a callback does. *)

\* The thread of loop l may handle c.
Here(l, c) ==
  /\ loop_[c] = l /\ fd_[c] \in Fds /\ read_callbacks_[l][fd_[c]] = c
  /\ cur[l] \in {c, None}
  /\ pc[l] # "deadlock"

\* It may shut or close it; closing takes its entries out of the tables.
StateEffect(c) ==
  /\ state_' \in [Conns -> ConnStates]
  /\ \A d \in Conns : d # c => state_'[d] = state_[d]
  /\ state_'[c] \in {state_[c], "kClosing", "kClosed"}

TimerEffect(l, c) ==
  /\ timers_' \in [Loops -> [Fds -> Conns \cup {None}]]
  /\ \A k \in Loops, f \in Fds : k # l \/ f # fd_[c] => timers_'[k][f] = timers_[k][f]
  /\ timers_'[l][fd_[c]] \in {timers_[l][fd_[c]], c, None}

EntryEffect(c) ==
  /\ connections_' \in [Fds -> Conns \cup {None}]
  /\ \A f \in Fds : f # fd_[c] => connections_'[f] = connections_[f]
  /\ connections_'[fd_[c]] \in {connections_[fd_[c]], None}

InterestEffect(c) ==
  /\ interest' \in [Conns -> Masks]
  /\ \A d \in Conns : d # c => interest'[d] \in {interest[d], {}}

ClosingEffect(l, c) ==
  state_'[c] = "kClosed" =>
    \/ state_[c] = "kClosed" /\ UNCHANGED <<connections_, timers_>>
    \/ connections_'[fd_[c]] = None /\ timers_'[l][fd_[c]] = None

OutputEffect(c) ==
  /\ sock' \in [Conns -> Sockets]
  /\ output_buffer_' \in [Conns -> Nat]
  /\ \A d \in Conns : d # c => sock'[d] = sock[d] /\ output_buffer_'[d] = output_buffer_[d]
  /\ HalfClosed(c)'

Effect(l, c) ==
  /\ StateEffect(c) /\ TimerEffect(l, c) /\ EntryEffect(c) /\ InterestEffect(c)
  /\ ClosingEffect(l, c) /\ OutputEffect(c)

InCallback == {"limit", "dispatch", "header", "body", "complete", "return"}

CallbackOn(l, c) ==
  /\ Effect(l, c)
  /\ cur' = [cur EXCEPT ![l] = c]
  /\ \E p \in InCallback : pc' = [pc EXCEPT ![l] = p]
  /\ UNCHANGED <<fd_, loop_, read_callbacks_, pending_functors_, next_>>

\* A connection in the hands of its thread has been established and not yet
\* destroyed.
LEMMA HereEstablished ==
  ASSUME ReactorInv, NEW l \in Loops, NEW c \in Conns, Here(l, c)
  PROVE  state_[c] \in {"kConnected", "kClosing", "kClosed"}
<1>1. state_[c] \notin {"none", "kConnecting"}
  BY DEF ReactorInv, Callbacks, Here
<1>2. state_[c] # "destroyed"
  BY ReactorAssumption DEF ReactorInv, AliveState, Here
<1> QED
  BY <1>1, <1>2 DEF ReactorInv, ReactorTypes, ConnStates

LEMMA CallbackStep ==
  ASSUME ReactorInv, NEW l \in Loops, NEW c \in Conns, Here(l, c), CallbackOn(l, c)
  PROVE  ReactorInv'
<1> DEFINE f == fd_[c]
<1>h. /\ loop_[c] = l /\ f \in Fds /\ read_callbacks_[l][f] = c
      /\ cur[l] \in {c, None} /\ pc[l] # "deadlock"
      /\ c # None /\ None \notin Fds /\ None \notin Conns
  BY ReactorAssumption DEF Here
<1>e. state_[c] \in {"kConnected", "kClosing", "kClosed"}
  BY HereEstablished
<1>u. UNCHANGED <<fd_, loop_, read_callbacks_, pending_functors_, next_>>
  BY DEF CallbackOn
<1>s. StateEffect(c) /\ TimerEffect(l, c) /\ EntryEffect(c) /\ InterestEffect(c)
      /\ ClosingEffect(l, c) /\ OutputEffect(c)
  BY DEF CallbackOn, Effect
<1>p. PICK p \in InCallback : pc' = [pc EXCEPT ![l] = p]
  BY DEF CallbackOn
<1>c. cur' = [cur EXCEPT ![l] = c]
  BY DEF CallbackOn
<1>t. ReactorTypes
  BY DEF ReactorInv
<1>k. /\ pc' \in [Loops -> PCs] /\ pc'[l] \in InCallback
      /\ \A k \in Loops : k # l => pc'[k] = pc[k]
      /\ cur' \in [Loops -> Conns \cup {None}] /\ cur'[l] = c
      /\ \A k \in Loops : k # l => cur'[k] = cur[k]
  BY <1>p, <1>c, <1>t DEF ReactorTypes, InCallback, PCs
<1>1. ReactorTypes'
  BY <1>t, <1>u, <1>s, <1>k
     DEF ReactorTypes, StateEffect, TimerEffect, EntryEffect, InterestEffect, OutputEffect
<1>2. AliveState' /\ OneOwner'
  <2>1. \A d \in Conns : state_'[d] \in {"none", "destroyed"} <=> state_[d] \in {"none", "destroyed"}
    BY <1>s, <1>e DEF StateEffect
  <2> QED
    BY <1>u, <2>1 DEF ReactorInv, AliveState, OneOwner
<1>3. Queued'
  <2>1. \A d \in Conns : state_[d] = "kConnecting" => state_'[d] = "kConnecting"
    BY <1>s, <1>e DEF StateEffect
  <2>2. \A k \in Loops : \A n \in 1 .. Len(pending_functors_[k]) : pending_functors_[k][n] \in Conns
    BY <1>t, ElementOfSeq DEF ReactorTypes
  <2> QED
    BY <1>u, <2>1, <2>2 DEF ReactorInv, Queued
<1>4. Callbacks'
  <2>1. \A d \in Conns : state_[d] \notin {"none", "kConnecting"} => state_'[d] \notin {"none", "kConnecting"}
    BY <1>s, <1>e DEF StateEffect
  <2> QED
    BY <1>u, <2>1 DEF ReactorInv, Callbacks
<1>5. Current'
  BY <1>h, <1>u, <1>k DEF ReactorInv, Current, InCallback
<1>6. EntriesOwned'
  BY <1>h, <1>u, <1>s DEF ReactorInv, EntriesOwned, EntryEffect
<1>7. TimersOwned'
  BY <1>h, <1>u, <1>s DEF ReactorInv, TimersOwned, TimerEffect
<1>8. InterestOwned'
  BY <1>h, <1>u, <1>s DEF ReactorInv, InterestOwned, InterestEffect
<1>9. Closed'
  <2> SUFFICES ASSUME NEW d \in Conns, state_'[d] = "kClosed"
               PROVE  /\ cur'[loop_[d]] = d
                      /\ pc'[loop_[d]] # "deadlock" =>
                           /\ \A g \in Fds : connections_'[g] # d
                           /\ \A k \in Loops, g \in Fds : timers_'[k][g] # d
    BY <1>u DEF Closed
  <2>1. CASE d = c
    <3>1. cur'[loop_[d]] = d
      BY <2>1, <1>h, <1>k
    <3>2. CASE state_[c] = "kClosed" /\ UNCHANGED <<connections_, timers_>>
      BY <2>1, <3>1, <3>2, <1>h DEF ReactorInv, Closed
    <3>3. CASE connections_'[f] = None /\ timers_'[l][f] = None
      <4>1. \A g \in Fds : connections_'[g] # d
        BY <2>1, <3>3, <1>h, <1>s DEF EntryEffect, ReactorInv, EntriesOwned
      <4>2. \A k \in Loops, g \in Fds : timers_'[k][g] # d
        BY <2>1, <3>3, <1>h, <1>s DEF TimerEffect, ReactorInv, TimersOwned
      <4> QED
        BY <3>1, <4>1, <4>2
    <3> QED
      BY <2>1, <3>2, <3>3, <1>s DEF ClosingEffect
  <2>2. CASE d # c
    <3>1. state_[d] = "kClosed"
      BY <2>2, <1>s DEF StateEffect
    <3>2. loop_[d] \in Loops /\ cur[loop_[d]] = d
      BY <3>1 DEF ReactorInv, Closed, AliveState
    <3>3. loop_[d] # l
      BY <2>2, <3>2, <1>h
    <3>4. cur'[loop_[d]] = d /\ pc'[loop_[d]] = pc[loop_[d]]
      BY <3>2, <3>3, <1>k
    <3>5. ASSUME pc[loop_[d]] # "deadlock"
          PROVE  /\ \A g \in Fds : connections_'[g] # d
                 /\ \A k \in Loops, g \in Fds : timers_'[k][g] # d
      <4>1. /\ \A g \in Fds : connections_[g] # d
            /\ \A k \in Loops, g \in Fds : timers_[k][g] # d
        BY <3>1, <3>5 DEF ReactorInv, Closed
      <4> QED
        BY <2>2, <4>1, <1>h, <1>s DEF EntryEffect, TimerEffect
    <3> QED
      BY <3>4, <3>5
  <2> QED
    BY <2>1, <2>2
<1>10. ASSUME NEW d \in Conns PROVE HalfClosed(d)'
  <2>1. CASE d = c
    BY <2>1, <1>s DEF OutputEffect
  <2>2. CASE d # c
    BY <2>2, <1>s DEF ReactorInv, HalfClosed, OutputEffect, StateEffect
  <2> QED
    BY <2>1, <2>2
<1> QED
  BY <1>1, <1>2, <1>3, <1>4, <1>5, <1>6, <1>7, <1>8, <1>9, <1>10 DEF ReactorInv
------------------------------------------------------------------------------
(* What the functions of Connection do has that effect. *)

\* The state of a connection that has its callback, for the leaves below.
LEMMA HereFacts ==
  ASSUME ReactorInv, NEW l \in Loops, NEW c \in Conns, Here(l, c)
  PROVE  /\ loop_[c] = l /\ fd_[c] \in Fds /\ c # None /\ None \notin Conns
         /\ state_ \in [Conns -> ConnStates] /\ interest \in [Conns -> Masks]
         /\ timers_ \in [Loops -> [Fds -> Conns \cup {None}]]
         /\ connections_ \in [Fds -> Conns \cup {None}]
         /\ sock \in [Conns -> Sockets] /\ output_buffer_ \in [Conns -> Nat]
         /\ HalfClosed(c)
         /\ state_[c] \in {"kConnected", "kClosing", "kClosed"}
<1>1. state_[c] \in {"kConnected", "kClosing", "kClosed"}
  BY HereEstablished
<1>2. ReactorTypes /\ HalfClosed(c)
  BY DEF ReactorInv
<1> QED
  BY <1>1, <1>2, ReactorAssumption DEF Here, ReactorTypes

LEMMA StateIdle ==
  ASSUME ReactorInv, NEW l \in Loops, NEW c \in Conns, Here(l, c), UNCHANGED state_
  PROVE  StateEffect(c)
BY HereFacts DEF StateEffect

LEMMA TimerIdle ==
  ASSUME ReactorInv, NEW l \in Loops, NEW c \in Conns, Here(l, c), UNCHANGED timers_
  PROVE  TimerEffect(l, c)
BY HereFacts DEF TimerEffect

LEMMA EntryIdle ==
  ASSUME ReactorInv, NEW l \in Loops, NEW c \in Conns, Here(l, c), UNCHANGED connections_
  PROVE  EntryEffect(c)
BY HereFacts DEF EntryEffect

LEMMA InterestIdle ==
  ASSUME ReactorInv, NEW l \in Loops, NEW c \in Conns, Here(l, c), UNCHANGED interest
  PROVE  InterestEffect(c)
BY HereFacts DEF InterestEffect

\* A connection that is not closed by a step has nothing to release.
LEMMA NotClosing ==
  ASSUME ReactorInv, NEW l \in Loops, NEW c \in Conns, Here(l, c),
         state_'[c] # "kClosed" \/ (state_'[c] = state_[c] /\ UNCHANGED <<connections_, timers_>>)
  PROVE  ClosingEffect(l, c)
BY DEF ClosingEffect

LEMMA Armed ==
  ASSUME ReactorInv, NEW l \in Loops, NEW c \in Conns, Here(l, c),
         ArmIdleTimer(c, l, fd_[c])
  PROVE  TimerEffect(l, c)
<1>1. CASE IdleTimers
  <2>1. timers_' = [timers_ EXCEPT ![l][fd_[c]] = c]
    BY <1>1 DEF ArmIdleTimer
  <2> QED
    BY <2>1, HereFacts DEF TimerEffect
<1>2. CASE ~IdleTimers
  BY <1>2, TimerIdle DEF ArmIdleTimer
<1> QED
  BY <1>1, <1>2

LEMMA Disarmed ==
  ASSUME ReactorInv, NEW l \in Loops, NEW c \in Conns, Here(l, c),
         timers_' = [timers_ EXCEPT ![l][fd_[c]] = None]
  PROVE  TimerEffect(l, c) /\ timers_'[l][fd_[c]] = None
BY HereFacts DEF TimerEffect

LEMMA Watching ==
  ASSUME ReactorInv, NEW l \in Loops, NEW c \in Conns, Here(l, c),
         NEW mask \in Masks, NEW s, UpdateEvent(l, fd_[c], c, mask, s)
  PROVE  InterestEffect(c)
<1>1. interest' = [interest EXCEPT ![c] = mask] \/ UNCHANGED interest
  BY DEF UpdateEvent, epollVars
<1> QED
  BY <1>1, HereFacts DEF InterestEffect

LEMMA Closing ==
  ASSUME ReactorInv, NEW l \in Loops, NEW c \in Conns, Here(l, c), HandleClose(c)
  PROVE  /\ StateEffect(c) /\ TimerEffect(l, c) /\ EntryEffect(c) /\ InterestEffect(c)
         /\ ClosingEffect(l, c) /\ state_'[c] = "kClosed"
<1>f. /\ loop_[c] = l /\ fd_[c] \in Fds
      /\ state_ \in [Conns -> ConnStates] /\ interest \in [Conns -> Masks]
      /\ connections_ \in [Fds -> Conns \cup {None}]
  BY HereFacts
<1>1. /\ state_' = [state_ EXCEPT ![c] = "kClosed"]
      /\ timers_' = [timers_ EXCEPT ![l][fd_[c]] = None]
      /\ connections_' = [connections_ EXCEPT ![fd_[c]] = None]
  BY <1>f DEF HandleClose, Transition, RemoveConnection
<1>2. /\ StateEffect(c) /\ state_'[c] = "kClosed"
  BY <1>1, <1>f DEF StateEffect, ConnStates
<1>3. TimerEffect(l, c) /\ timers_'[l][fd_[c]] = None
  BY <1>1, Disarmed
<1>4. EntryEffect(c) /\ connections_'[fd_[c]] = None
  BY <1>1, <1>f DEF EntryEffect
<1>5. InterestEffect(c)
  <2>1. PICK gone : interest' = [d \in Conns |-> IF d \in gone THEN {} ELSE interest[d]]
    BY DEF HandleClose, RemoveEvent
  <2>2. {} \in Masks
    BY DEF Masks
  <2> QED
    BY <2>1, <2>2, <1>f DEF InterestEffect
<1> QED
  BY <1>2, <1>3, <1>4, <1>5 DEF ClosingEffect

\* No byte goes out; o bytes are in the chain.
LEMMA OutputKept ==
  ASSUME ReactorInv, NEW l \in Loops, NEW c \in Conns, Here(l, c), NEW o \in Nat,
         UNCHANGED sock, output_buffer_' = [output_buffer_ EXCEPT ![c] = o],
         o = output_buffer_[c] \/ (IsConnected(c) /\ o > 0),
         state_'[c] = state_[c] \/ state_'[c] = "kClosed"
  PROVE  OutputEffect(c)
<1>1. /\ sock \in [Conns -> Sockets] /\ output_buffer_ \in [Conns -> Nat] /\ HalfClosed(c)
  BY HereFacts
<1>2. output_buffer_' \in [Conns -> Nat] /\ output_buffer_'[c] = o
      /\ \A d \in Conns : d # c => output_buffer_'[d] = output_buffer_[d]
  BY <1>1
<1>3. HalfClosed(c)'
  BY <1>1, <1>2 DEF HalfClosed, IsConnected
<1> QED
  BY <1>1, <1>2, <1>3 DEF OutputEffect

LEMMA Writing ==
  ASSUME ReactorInv, NEW l \in Loops, NEW c \in Conns, Here(l, c), NEW o \in Nat,
         o = output_buffer_[c] \/ (IsConnected(c) /\ o > 0),
         HandleWrite(c, o)
  PROVE  Effect(l, c)
<1>f. /\ loop_[c] = l /\ fd_[c] \in Fds
      /\ sock \in [Conns -> Sockets] /\ output_buffer_ \in [Conns -> Nat]
      /\ HalfClosed(c)
      /\ state_[c] \in {"kConnected", "kClosing", "kClosed"}
  BY HereFacts
<1>m. {"in"} \in Masks /\ {"in", "out"} \in Masks
  BY DEF Masks
<1>1. CASE /\ output_buffer_' = [output_buffer_ EXCEPT ![c] = o]
           /\ UNCHANGED <<state_, sock, timers_, epollVars, serverVars>>
  <2>1. UNCHANGED <<interest, connections_>>
    BY <1>1 DEF epollVars, serverVars
  <2>2. OutputEffect(c)
    BY <1>1, OutputKept
  <2> QED
    BY <1>1, <2>1, <2>2, StateIdle, TimerIdle, EntryIdle, InterestIdle, NotClosing DEF Effect
<1>2. CASE /\ HandleClose(c)
           /\ output_buffer_' = [output_buffer_ EXCEPT ![c] = o]
           /\ UNCHANGED sock
  <2>1. /\ StateEffect(c) /\ TimerEffect(l, c) /\ EntryEffect(c) /\ InterestEffect(c)
        /\ ClosingEffect(l, c) /\ state_'[c] = "kClosed"
    BY <1>2, Closing
  <2>2. OutputEffect(c)
    BY <1>2, <2>1, OutputKept
  <2> QED
    BY <2>1, <2>2 DEF Effect
<1>3. CASE /\ output_buffer_' = [output_buffer_ EXCEPT ![c] = o]
           /\ UpdateEvent(loop_[c], fd_[c], c, {"in", "out"}, sock[c])
           /\ UNCHANGED <<state_, sock, timers_, serverVars>>
  <2>1. UNCHANGED connections_
    BY <1>3 DEF serverVars
  <2>2. OutputEffect(c)
    BY <1>3, OutputKept
  <2>3. InterestEffect(c)
    BY <1>3, <1>f, <1>m, Watching
  <2> QED
    BY <1>3, <2>1, <2>2, <2>3, StateIdle, TimerIdle, EntryIdle, NotClosing DEF Effect
<1>4. ASSUME o > 0, state_[c] # "kClosed",
             NEW n \in 1 .. SndBuf - sock[c].sndq, n <= o,
             LET t == [sock[c] EXCEPT !.sndq = @ + n,
                                      !.wr_shut = @ \/ (n = o /\ state_[c] = "kClosing")]
             IN  /\ sock' = [sock EXCEPT ![c] = t]
                 /\ UpdateEvent(loop_[c], fd_[c], c, IF n = o THEN {"in"} ELSE {"in", "out"}, t),
             output_buffer_' = [output_buffer_ EXCEPT ![c] = o - n],
             ArmIdleTimer(c, loop_[c], fd_[c]),
             UNCHANGED <<state_, serverVars>>
      PROVE  Effect(l, c)
  <2> DEFINE shut == sock[c].wr_shut \/ (n = o /\ state_[c] = "kClosing")
             t == [sock[c] EXCEPT !.sndq = @ + n, !.wr_shut = shut]
             mask == IF n = o THEN {"in"} ELSE {"in", "out"}
  <2>1. UNCHANGED connections_
    BY <1>4 DEF serverVars
  <2>2. InterestEffect(c)
    <3>1. mask \in Masks
      BY <1>m
    <3>2. UpdateEvent(l, fd_[c], c, mask, t)
      BY <1>4, <1>f
    <3> HIDE DEF mask, t
    <3> QED
      BY <3>1, <3>2, Watching
  <2>3. TimerEffect(l, c)
    BY <1>4, <1>f, Armed
  <2>4. OutputEffect(c)
    <3>1. sock' = [sock EXCEPT ![c] = t]
      BY <1>4
    <3>2. shut \in BOOLEAN
      OBVIOUS
    <3>3. t \in Sockets /\ t.wr_shut = shut
      <4>1. sock[c] \in Sockets
        BY <1>f
      <4>2. sock[c].sndq \in 0 .. SndBuf /\ SndBuf \in Nat
        BY <4>1, ReactorAssumption DEF Sockets
      <4>3. sock[c].sndq + n \in 0 .. SndBuf
        BY <4>2
      <4> HIDE DEF shut
      <4> QED
        BY <4>1, <4>3, <3>2 DEF Sockets
    <3>4. /\ sock' \in [Conns -> Sockets] /\ sock'[c].wr_shut = shut
          /\ \A d \in Conns : d # c => sock'[d] = sock[d]
      <4> HIDE DEF t, shut
      <4> QED
        BY <3>1, <3>3, <1>f
    <3>5. o - n \in Nat /\ (o - n = 0 <=> n = o)
      BY <1>4
    <3>6. /\ output_buffer_' \in [Conns -> Nat] /\ output_buffer_'[c] = o - n
          /\ \A d \in Conns : d # c => output_buffer_'[d] = output_buffer_[d]
      BY <1>4, <1>f, <3>5
    <3>7. ~sock[c].wr_shut
      BY <1>f, <1>4 DEF HalfClosed, IsConnected
    <3>8. HalfClosed(c)'
      BY <3>4, <3>5, <3>6, <3>7, <1>4 DEF HalfClosed
    <3> QED
      BY <3>4, <3>6, <3>8 DEF OutputEffect
  <2>5. state_'[c] # "kClosed"
    BY <1>4
  <2> QED
    BY <1>4, <2>1, <2>2, <2>3, <2>4, <2>5, StateIdle, EntryIdle, NotClosing DEF Effect
<1> QED
  BY <1>1, <1>2, <1>3, <1>4 DEF HandleWrite

LEMMA Sending ==
  ASSUME ReactorInv, NEW l \in Loops, NEW c \in Conns, Here(l, c), NEW n \in Nat, Send(c, n)
  PROVE  Effect(l, c)
<1>f. output_buffer_ \in [Conns -> Nat] /\ sock \in [Conns -> Sockets] /\ HalfClosed(c)
  BY HereFacts
<1>1. CASE UNCHANGED <<state_, output_buffer_, sock, timers_, epollVars, serverVars>>
  <2>1. UNCHANGED <<interest, connections_>>
    BY <1>1 DEF epollVars, serverVars
  <2>2. OutputEffect(c)
    BY <1>1, <1>f DEF OutputEffect, HalfClosed
  <2> QED
    BY <1>1, <2>1, <2>2, StateIdle, TimerIdle, EntryIdle, InterestIdle, NotClosing DEF Effect
<1>2. CASE HandleClose(c) /\ UNCHANGED <<output_buffer_, sock>>
  <2>1. /\ StateEffect(c) /\ TimerEffect(l, c) /\ EntryEffect(c) /\ InterestEffect(c)
        /\ ClosingEffect(l, c) /\ state_'[c] = "kClosed"
    BY <1>2, Closing
  <2>2. OutputEffect(c)
    BY <1>2, <2>1, <1>f DEF OutputEffect, HalfClosed
  <2> QED
    BY <2>1, <2>2 DEF Effect
<1>3. CASE IsConnected(c) /\ n > 0 /\ HandleWrite(c, output_buffer_[c] + n)
  <2>1. output_buffer_[c] + n \in Nat /\ output_buffer_[c] + n > 0
    BY <1>3, <1>f
  <2> QED
    BY <1>3, <2>1, Writing
<1> QED
  BY <1>1, <1>2, <1>3 DEF Send

LEMMA ShuttingDown ==
  ASSUME ReactorInv, NEW l \in Loops, NEW c \in Conns, Here(l, c), Shutdown(c),
         UNCHANGED <<output_buffer_, connections_>>
  PROVE  Effect(l, c)
<1>f. /\ loop_[c] = l /\ fd_[c] \in Fds /\ state_ \in [Conns -> ConnStates]
      /\ sock \in [Conns -> Sockets] /\ output_buffer_ \in [Conns -> Nat]
      /\ HalfClosed(c)
  BY HereFacts
<1>i. UNCHANGED interest
  BY DEF Shutdown
<1>1. CASE IsConnected(c)
  <2> DEFINE drained == output_buffer_[c] = 0
             t == [sock[c] EXCEPT !.wr_shut = drained]
  <2>1. /\ state_' = [state_ EXCEPT ![c] = "kClosing"]
        /\ timers_' = [timers_ EXCEPT ![l][fd_[c]] = None]
        /\ sock' = [sock EXCEPT ![c] = t]
    BY <1>1, <1>f DEF Shutdown, Transition
  <2>2. StateEffect(c) /\ state_'[c] = "kClosing"
    BY <2>1, <1>f DEF StateEffect, ConnStates
  <2>3. TimerEffect(l, c)
    BY <2>1, Disarmed
  <2>4. OutputEffect(c)
    <3>1. drained \in BOOLEAN
      OBVIOUS
    <3>2. t \in Sockets /\ t.wr_shut = drained
      <4>1. sock[c] \in Sockets
        BY <1>f
      <4> HIDE DEF drained
      <4> QED
        BY <4>1, <3>1 DEF Sockets
    <3>3. /\ sock' \in [Conns -> Sockets] /\ sock'[c].wr_shut = drained
          /\ \A d \in Conns : d # c => sock'[d] = sock[d]
      <4> HIDE DEF t, drained
      <4> QED
        BY <2>1, <3>2, <1>f
    <3>4. HalfClosed(c)'
      BY <2>2, <3>3 DEF HalfClosed
    <3> QED
      BY <3>3, <3>4, <1>f DEF OutputEffect
  <2> QED
    BY <2>2, <2>3, <2>4, <1>i, EntryIdle, InterestIdle, NotClosing DEF Effect
<1>2. CASE ~IsConnected(c)
  <2>1. UNCHANGED <<state_, timers_, sock>>
    BY <1>2 DEF Shutdown
  <2>2. OutputEffect(c)
    BY <2>1, <1>f DEF OutputEffect, HalfClosed
  <2> QED
    BY <2>1, <2>2, <1>i, StateIdle, TimerIdle, EntryIdle, InterestIdle, NotClosing DEF Effect
<1> QED
  BY <1>1, <1>2
------------------------------------------------------------------------------
(* The steps of a callback. *)

\* In the middle of a callback the thread has its connection.
LEMMA InHand ==
  ASSUME ReactorInv, NEW l \in Loops, NEW c \in Conns, cur[l] = c, pc[l] # "deadlock"
  PROVE  Here(l, c)
BY DEF ReactorInv, Current, Here

\* An event is handled by the connection that has registered the callback.
LEMMA EventInHand ==
  ASSUME ReactorInv, NEW l \in Loops, NEW c \in Conns,
         pc[l] = "batch", Reachable(l), Target(l) = c
  PROVE  Here(l, c) /\ state_[c] \in {"kConnected", "kClosing"}
<1> DEFINE f == Head(batch[l]).fd
<1>1. read_callbacks_ \in [Loops -> [Fds -> Conns \cup {None}]]
  BY DEF ReactorInv, ReactorTypes
<1>2. f \in Fds /\ read_callbacks_[l][f] = c
  BY <1>1 DEF Reachable, Target
<1>3. fd_[c] # None
  BY DEF Reachable, Alive
<1>4. loop_[c] = l /\ fd_[c] = f
  <2> HIDE DEF f
  <2> QED
    BY <1>2, <1>3 DEF ReactorInv, Callbacks
<1>5. cur[l] = None
  BY DEF ReactorInv, Current
<1>6. Here(l, c)
  <2> HIDE DEF f
  <2> QED
    BY <1>2, <1>4, <1>5 DEF Here
<1>7. state_[c] # "kClosed"
  BY <1>4, <1>5, ReactorAssumption DEF ReactorInv, Closed
<1> QED
  BY <1>6, <1>7, HereEstablished

\* What a callback leaves alone besides the state of its connection.
Rest == UNCHANGED <<fd_, loop_, read_callbacks_, pending_functors_, next_>>

LEMMA CallbackResumes ==
  ASSUME ReactorInv, NEW l \in Loops, NEW c \in Conns, cur[l] = c, UNCHANGED cur, Rest,
         NEW from \in InCallback, NEW to \in InCallback, Goto(l, from, to),
         Here(l, c) => Effect(l, c)
  PROVE  Here(l, c) /\ CallbackOn(l, c)
<1>1. pc[l] # "deadlock"
  BY DEF Goto, InCallback
<1>2. Here(l, c) /\ Effect(l, c)
  BY <1>1, InHand
<1>3. cur \in [Loops -> Conns \cup {None}]
  BY DEF ReactorInv, ReactorTypes
<1>4. cur' = [cur EXCEPT ![l] = c]
  BY <1>3
<1>5. CallbackOn(l, c)
  BY <1>2, <1>4 DEF CallbackOn, Goto, Rest
<1> QED
  BY <1>2, <1>5

LEMMA HandleReadCallback ==
  ASSUME ReactorInv, NEW l \in Loops, NEW c \in Conns, HandleRead(l, c)
  PROVE  Here(l, c) /\ CallbackOn(l, c)
<1>1. Here(l, c) /\ state_[c] \in {"kConnected", "kClosing"}
  BY EventInHand DEF HandleRead, Event
<1>f. /\ loop_[c] = l /\ sock \in [Conns -> Sockets] /\ output_buffer_ \in [Conns -> Nat]
      /\ HalfClosed(c)
  BY <1>1, HereFacts
<1>2. /\ sock' = [sock EXCEPT ![c] = [sock[c] EXCEPT !.rcvq = <<>>]]
      /\ UNCHANGED output_buffer_
  BY <1>f DEF HandleRead
<1>3. /\ sock' \in [Conns -> Sockets] /\ sock'[c].wr_shut = sock[c].wr_shut
      /\ \A d \in Conns : d # c => sock'[d] = sock[d]
  <2>1. sock[c] \in Sockets /\ <<>> \in Seq(Kinds)
    BY <1>f, EmptySeq
  <2>2. [sock[c] EXCEPT !.rcvq = <<>>] \in Sockets
    BY <2>1 DEF Sockets
  <2> QED
    BY <1>2, <1>f, <2>1, <2>2 DEF Sockets
<1>4. Effect(l, c)
  <2>1. CASE HandleClose(c)
    <3>1. /\ StateEffect(c) /\ TimerEffect(l, c) /\ EntryEffect(c) /\ InterestEffect(c)
          /\ ClosingEffect(l, c) /\ state_'[c] = "kClosed"
      BY <2>1, <1>1, Closing
    <3>2. OutputEffect(c)
      BY <1>f, <1>2, <1>3, <3>1 DEF OutputEffect, HalfClosed
    <3> QED
      BY <3>1, <3>2 DEF Effect
  <2>2. CASE /\ ArmIdleTimer(c, l, fd_[c]) \/ UNCHANGED timers_
             /\ UNCHANGED <<state_, epollVars, serverVars>>
    <3>1. UNCHANGED <<interest, connections_>> /\ UNCHANGED state_
      BY <2>2 DEF epollVars, serverVars
    <3>2. TimerEffect(l, c)
      BY <2>2, <1>1, Armed, TimerIdle
    <3>3. OutputEffect(c)
      BY <1>f, <1>2, <1>3, <3>1 DEF OutputEffect, HalfClosed
    <3>4. state_'[c] # "kClosed"
      BY <3>1, <1>1
    <3> QED
      BY <1>1, <3>1, <3>2, <3>3, <3>4, StateIdle, EntryIdle, InterestIdle, NotClosing DEF Effect
  <2> QED
    BY <2>1, <2>2 DEF HandleRead
<1>5. CallbackOn(l, c)
  <2>1. \E p \in InCallback : pc' = [pc EXCEPT ![l] = p]
    BY DEF HandleRead, InCallback
  <2> QED
    BY <1>4, <2>1 DEF CallbackOn, HandleRead, acceptVars
<1> QED
  BY <1>1, <1>5

LEMMA HandleWriteCallback ==
  ASSUME ReactorInv, NEW l \in Loops, NEW c \in Conns, HandleWriteEvent(l, c)
  PROVE  Here(l, c) /\ CallbackOn(l, c)
<1>1. Here(l, c)
  BY EventInHand DEF HandleWriteEvent, Event
<1>2. output_buffer_[c] \in Nat
  BY <1>1, HereFacts
<1>3. Effect(l, c)
  BY <1>1, <1>2, Writing DEF HandleWriteEvent
<1>4. CallbackOn(l, c)
  <2>1. \E p \in InCallback : pc' = [pc EXCEPT ![l] = p]
    BY DEF HandleWriteEvent, InCallback
  <2> QED
    BY <1>3, <2>1 DEF CallbackOn, HandleWriteEvent, acceptVars, connVars
<1> QED
  BY <1>1, <1>4

LEMMA OtherCallbacks ==
  ASSUME ReactorInv, NEW l \in Loops, NEW c \in Conns,
         \/ PauseReading(l, c) \/ NoHeader(l, c) \/ BadRequest(l, c) \/ RequestStart(l, c)
         \/ SendHeader(l, c) \/ SendBody(l, c) \/ RequestComplete(l, c)
  PROVE  Here(l, c) /\ CallbackOn(l, c)
<1>0. {"limit", "dispatch", "header", "body", "complete", "return"} \subseteq InCallback
  BY DEF InCallback
<1>idle. ASSUME Here(l, c),
                UNCHANGED <<state_, timers_, connections_, interest, sock, output_buffer_>>
         PROVE  Effect(l, c)
  <2>1. OutputEffect(c)
    BY <1>idle, HereFacts DEF OutputEffect, HalfClosed
  <2> QED
    BY <1>idle, <2>1, StateIdle, TimerIdle, EntryIdle, InterestIdle, NotClosing DEF Effect
<1>1. ASSUME PauseReading(l, c)
      PROVE  Here(l, c) /\ CallbackOn(l, c)
  <2>1. /\ cur[l] = c /\ Goto(l, "limit", "dispatch") /\ UNCHANGED cur /\ Rest
        /\ UpdateEvent(loop_[c], fd_[c], c, {"out"}, sock[c])
        /\ UNCHANGED <<state_, output_buffer_, sock, timers_, connections_>>
    BY <1>1 DEF PauseReading, Rest, connVars, serverVars, acceptVars
  <2>2. ASSUME Here(l, c) PROVE Effect(l, c)
    <3>1. OutputEffect(c)
      BY <2>1, <2>2, HereFacts DEF OutputEffect, HalfClosed
    <3>2. InterestEffect(c)
      <4>1. {"out"} \in Masks /\ loop_[c] = l
        BY <2>2 DEF Masks, Here
      <4> QED
        BY <2>1, <2>2, <4>1, Watching
    <3> QED
      BY <2>1, <2>2, <3>1, <3>2, StateIdle, TimerIdle, EntryIdle, NotClosing DEF Effect
  <2> QED
    BY <1>0, <2>1, <2>2, CallbackResumes
<1>2. ASSUME NoHeader(l, c)
      PROVE  Here(l, c) /\ CallbackOn(l, c)
  <2>1. /\ cur[l] = c /\ Goto(l, "dispatch", "return") /\ UNCHANGED cur /\ Rest
        /\ UNCHANGED <<state_, timers_, connections_, interest, sock, output_buffer_>>
    BY <1>2 DEF NoHeader, Rest, connVars, serverVars, epollVars, acceptVars
  <2> QED
    BY <1>0, <1>idle, <2>1, CallbackResumes
<1>3. ASSUME BadRequest(l, c)
      PROVE  Here(l, c) /\ CallbackOn(l, c)
  <2>1. /\ cur[l] = c /\ Goto(l, "dispatch", "return") /\ UNCHANGED cur /\ Rest
        /\ Shutdown(c) /\ UNCHANGED <<output_buffer_, connections_>>
    BY <1>3 DEF BadRequest, Rest, serverVars, acceptVars
  <2> QED
    BY <1>0, <2>1, ShuttingDown, CallbackResumes
<1>4. ASSUME RequestStart(l, c)
      PROVE  Here(l, c) /\ CallbackOn(l, c)
  <2>1. /\ cur[l] = c /\ Goto(l, "dispatch", "header") /\ UNCHANGED cur /\ Rest
        /\ UNCHANGED <<state_, timers_, connections_, interest, sock, output_buffer_>>
    BY <1>4 DEF RequestStart, Rest, connVars, epollVars, acceptVars
  <2> QED
    BY <1>0, <1>idle, <2>1, CallbackResumes
<1>5. ASSUME SendHeader(l, c)
      PROVE  Here(l, c) /\ CallbackOn(l, c)
  <2>1. /\ cur[l] = c /\ Goto(l, "header", "body") /\ UNCHANGED cur /\ Rest /\ Send(c, 1)
    BY <1>5 DEF SendHeader, Rest, connVars, acceptVars
  <2> QED
    BY <1>0, <2>1, Sending, CallbackResumes
<1>6. ASSUME SendBody(l, c)
      PROVE  Here(l, c) /\ CallbackOn(l, c)
  <2>1. /\ cur[l] = c /\ Goto(l, "body", "complete") /\ UNCHANGED cur /\ Rest
        /\ Send(c, BodySize) /\ BodySize \in Nat
    BY <1>6, ReactorAssumption DEF SendBody, Rest, connVars, acceptVars
  <2> QED
    BY <1>0, <2>1, Sending, CallbackResumes
<1>7. ASSUME RequestComplete(l, c)
      PROVE  Here(l, c) /\ CallbackOn(l, c)
  <2>1. cur[l] = c /\ UNCHANGED cur /\ Rest /\ UNCHANGED <<output_buffer_, connections_>>
    BY <1>7 DEF RequestComplete, Rest, serverVars, acceptVars
  <2>2. CASE Shutdown(c) /\ Goto(l, "complete", "return")
    BY <1>0, <2>1, <2>2, ShuttingDown, CallbackResumes
  <2>3. CASE Goto(l, "complete", "dispatch") /\ UNCHANGED <<state_, timers_, sock, epollVars>>
    <3>1. UNCHANGED <<state_, timers_, connections_, interest, sock, output_buffer_>>
      BY <2>1, <2>3 DEF epollVars
    <3> QED
      BY <1>0, <1>idle, <2>1, <2>3, <3>1, CallbackResumes
  <2> QED
    BY <1>7, <2>2, <2>3 DEF RequestComplete
<1> QED
  BY <1>1, <1>2, <1>3, <1>4, <1>5, <1>6, <1>7
------------------------------------------------------------------------------
(* The other steps. *)

\* A step between two callbacks: events are collected, a registration is
\* dropped, a peer does something to its socket.
LEMMA Background ==
  ASSUME ReactorInv,
         UNCHANGED <<state_, output_buffer_, fd_, loop_, timers_, read_callbacks_,
                     pending_functors_, connections_, cur, next_>>,
         interest' \in [Conns -> Masks],
         \A c \in Conns : interest'[c] \in {interest[c], {}},
         sock' \in [Conns -> Sockets],
         \A c \in Conns : sock'[c].wr_shut = sock[c].wr_shut,
         pc' \in [Loops -> PCs],
         \A l \in Loops : pc'[l] = pc[l] \/ {pc'[l], pc[l]} \subseteq {"poll", "batch"}
  PROVE  ReactorInv'
<1>1. ReactorTypes'
  BY DEF ReactorInv, ReactorTypes
<1>2. AliveState' /\ OneOwner' /\ Queued' /\ Callbacks'
  BY DEF ReactorInv, AliveState, OneOwner, Queued, Callbacks
<1>3. Current'
  BY DEF ReactorInv, Current
<1>4. EntriesOwned' /\ TimersOwned'
  BY DEF ReactorInv, EntriesOwned, TimersOwned
<1>5. InterestOwned'
  BY DEF ReactorInv, InterestOwned
<1>6. Closed'
  <2>1. \A c \in Conns : state_[c] = "kClosed" => loop_[c] \in Loops
    BY DEF ReactorInv, AliveState
  <2>2. \A l \in Loops : pc[l] = "deadlock" => pc'[l] = "deadlock"
    OBVIOUS
  <2> QED
    BY <2>1, <2>2 DEF ReactorInv, Closed
<1>7. \A c \in Conns : HalfClosed(c)'
  BY DEF ReactorInv, HalfClosed
<1> QED
  BY <1>1, <1>2, <1>3, <1>4, <1>5, <1>6, <1>7 DEF ReactorInv

LEMMA LoopBackground ==
  ASSUME ReactorInv, NEW l \in Loops, EpollWait(l) \/ NextRound(l) \/ HandleErrorEvent(l)
  PROVE  ReactorInv'
<1>1. UNCHANGED <<state_, output_buffer_, fd_, loop_, timers_, read_callbacks_,
                  pending_functors_, connections_, cur, next_, sock>>
  BY DEF EpollWait, NextRound, HandleErrorEvent, connVars, serverVars, acceptVars
<1>2. /\ sock \in [Conns -> Sockets] /\ interest \in [Conns -> Masks]
      /\ pc \in [Loops -> PCs]
  BY DEF ReactorInv, ReactorTypes
<1>3. interest' \in [Conns -> Masks] /\ \A c \in Conns : interest'[c] \in {interest[c], {}}
  <2>1. CASE EpollWait(l) \/ NextRound(l)
    BY <2>1, <1>2 DEF EpollWait, NextRound, epollVars
  <2>2. CASE HandleErrorEvent(l)
    <3>1. PICK gone : interest' = [d \in Conns |-> IF d \in gone THEN {} ELSE interest[d]]
      BY <2>2 DEF HandleErrorEvent, RemoveEvent
    <3>2. {} \in Masks
      BY DEF Masks
    <3> QED
      BY <3>1, <3>2, <1>2
  <2> QED
    BY <2>1, <2>2
<1>4. /\ pc' \in [Loops -> PCs]
      /\ \A k \in Loops : pc'[k] = pc[k] \/ {pc'[k], pc[k]} \subseteq {"poll", "batch"}
  BY <1>2 DEF EpollWait, NextRound, HandleErrorEvent, Goto, PCs
<1> QED
  BY <1>1, <1>2, <1>3, <1>4, Background

LEMMA SocketReset ==
  ASSUME NEW s \in Sockets, NEW n \in 0 .. SndBuf, NEW p \in Peers
  PROVE  /\ [s EXCEPT !.sndq = n, !.peer = p] \in Sockets
         /\ [s EXCEPT !.sndq = n, !.peer = p].wr_shut = s.wr_shut
BY DEF Sockets

LEMMA PeerStep ==
  ASSUME ReactorInv, NEW c \in Conns, Peer(c)
  PROVE  ReactorInv'
<1>0. sock \in [Conns -> Sockets] /\ SndBuf \in Nat
  BY ReactorAssumption DEF ReactorInv, ReactorTypes
<1>1. sock[c] \in Sockets
  BY <1>0
<1>2. ASSUME NEW t \in Sockets, t.wr_shut = sock[c].wr_shut, SocketBecomes(c, t)
      PROVE  ReactorInv'
  <2>1. sock' = [sock EXCEPT ![c] = t]
    BY <1>2 DEF SocketBecomes
  <2>2. sock' \in [Conns -> Sockets] /\ \A d \in Conns : sock'[d].wr_shut = sock[d].wr_shut
    BY <1>0, <1>2, <2>1
  <2>3. UNCHANGED <<state_, output_buffer_, fd_, loop_, timers_, read_callbacks_,
                    pending_functors_, connections_, cur, next_, interest, pc>>
    BY <1>2 DEF SocketBecomes, connVars, serverVars, threadVars
  <2>4. interest \in [Conns -> Masks] /\ pc \in [Loops -> PCs]
    BY DEF ReactorInv, ReactorTypes
  <2> QED
    BY <2>2, <2>3, <2>4, Background
<1>3. ASSUME NEW kind \in Kinds, PeerSend(c, kind)
      PROVE  ReactorInv'
  <2>1. Append(sock[c].rcvq, kind) \in Seq(Kinds)
    BY <1>1, AppendProperties DEF Sockets
  <2>2. /\ [sock[c] EXCEPT !.rcvq = Append(@, kind)] \in Sockets
        /\ [sock[c] EXCEPT !.rcvq = Append(@, kind)].wr_shut = sock[c].wr_shut
    BY <1>1, <2>1 DEF Sockets
  <2> QED
    BY <1>2, <1>3, <2>2 DEF PeerSend
<1>4. ASSUME PeerFin(c)
      PROVE  ReactorInv'
  <2>1. /\ [sock[c] EXCEPT !.peer = "fin"] \in Sockets
        /\ [sock[c] EXCEPT !.peer = "fin"].wr_shut = sock[c].wr_shut
    BY <1>1 DEF Sockets, Peers
  <2> QED
    BY <1>2, <1>4, <2>1 DEF PeerFin
<1>5. ASSUME PeerReset(c)
      PROVE  ReactorInv'
  <2> DEFINE p == IF sock[c].peer = "fin" THEN "broken" ELSE "reset"
             t == [sock[c] EXCEPT !.sndq = 0, !.peer = p]
  <2>1. p \in Peers
    BY DEF Peers
  <2>2. SocketBecomes(c, t)
    BY <1>5 DEF PeerReset
  <2>3. t \in Sockets /\ t.wr_shut = sock[c].wr_shut
    <3>1. 0 \in 0 .. SndBuf
      BY <1>0
    <3> HIDE DEF p
    <3> QED
      BY <1>1, <2>1, <3>1, SocketReset
  <2> HIDE DEF t
  <2> QED
    BY <1>2, <2>2, <2>3
<1>6. ASSUME PeerRead(c)
      PROVE  ReactorInv'
  <2>1. /\ [sock[c] EXCEPT !.sndq = 0] \in Sockets
        /\ [sock[c] EXCEPT !.sndq = 0].wr_shut = sock[c].wr_shut
    BY <1>0, <1>1 DEF Sockets
  <2> QED
    BY <1>2, <1>6, <2>1 DEF PeerRead
<1> QED
  BY <1>3, <1>4, <1>5, <1>6 DEF Peer

LEMMA TimerStep ==
  ASSUME ReactorInv, NEW l \in Loops, TimerFires(l)
  PROVE  ReactorInv'
<1>t. ReactorTypes /\ None \notin Conns
  BY ReactorAssumption DEF ReactorInv
<1>1. PICK f \in Fds : /\ timers_[l][f] # None
                       /\ state_' = [state_ EXCEPT ![timers_[l][f]] = "kClosed"]
                       /\ cur' = [cur EXCEPT ![l] = timers_[l][f]]
  BY DEF TimerFires
<1>2. PICK c \in Conns : c = timers_[l][f]
  BY <1>1, <1>t DEF ReactorTypes
<1>3. pc[l] = "poll" /\ cur[l] = None /\ pc' = [pc EXCEPT ![l] = "deadlock"]
  BY DEF TimerFires, Goto, ReactorInv, Current
<1>4. loop_[c] = l /\ fd_[c] = f /\ read_callbacks_[l][f] = c
  BY <1>2 DEF ReactorInv, TimersOwned
<1>5. Here(l, c)
  BY <1>3, <1>4 DEF Here
<1>6. state_[c] \in {"kConnected", "kClosing", "kClosed"}
  BY <1>5, HereEstablished
<1>7. UNCHANGED <<output_buffer_, sock, timers_, interest, connections_, fd_, loop_,
                  read_callbacks_, pending_functors_, next_>>
  BY DEF TimerFires, connVars, epollVars, serverVars, acceptVars
<1>8. /\ state_' \in [Conns -> ConnStates] /\ state_'[c] = "kClosed"
      /\ \A d \in Conns : d # c => state_'[d] = state_[d]
      /\ pc' \in [Loops -> PCs] /\ pc'[l] = "deadlock"
      /\ \A k \in Loops : k # l => pc'[k] = pc[k]
      /\ cur' \in [Loops -> Conns \cup {None}] /\ cur'[l] = c
      /\ \A k \in Loops : k # l => cur'[k] = cur[k]
  BY <1>t, <1>1, <1>2, <1>3 DEF ReactorTypes, ConnStates, PCs
<1>9. ReactorTypes'
  BY <1>t, <1>7, <1>8 DEF ReactorTypes
<1>10. AliveState' /\ OneOwner'
  BY <1>6, <1>7, <1>8 DEF ReactorInv, AliveState, OneOwner
<1>11. Queued'
  <2>1. \A k \in Loops : \A n \in 1 .. Len(pending_functors_[k]) : pending_functors_[k][n] \in Conns
    BY <1>t, ElementOfSeq DEF ReactorTypes
  <2>2. \A d \in Conns : state_[d] = "kConnecting" => state_'[d] = "kConnecting"
    BY <1>6, <1>8
  <2> QED
    BY <1>7, <2>1, <2>2 DEF ReactorInv, Queued
<1>12. Callbacks'
  <2>1. \A d \in Conns : state_[d] \notin {"none", "kConnecting"} => state_'[d] \notin {"none", "kConnecting"}
    BY <1>8
  <2> QED
    BY <1>7, <2>1 DEF ReactorInv, Callbacks
<1>13. Current'
  BY <1>t, <1>4, <1>7, <1>8 DEF ReactorInv, Current
<1>14. EntriesOwned' /\ TimersOwned' /\ InterestOwned'
  BY <1>7 DEF ReactorInv, EntriesOwned, TimersOwned, InterestOwned
<1>15. Closed'
  <2> SUFFICES ASSUME NEW d \in Conns, d # c, state_[d] = "kClosed"
               PROVE  /\ cur'[loop_[d]] = d
                      /\ pc'[loop_[d]] # "deadlock" =>
                           /\ \A g \in Fds : connections_[g] # d
                           /\ \A k \in Loops, g \in Fds : timers_[k][g] # d
    BY <1>4, <1>7, <1>8 DEF Closed
  <2>1. loop_[d] \in Loops /\ cur[loop_[d]] = d
    BY DEF ReactorInv, AliveState, Closed
  <2>2. loop_[d] # l
    BY <2>1, <1>3, <1>t
  <2> QED
    BY <2>1, <2>2, <1>8 DEF ReactorInv, Closed
<1>16. \A d \in Conns : HalfClosed(d)'
  BY <1>7, <1>8 DEF ReactorInv, HalfClosed
<1> QED
  BY <1>9, <1>10, <1>11, <1>12, <1>13, <1>14, <1>15, <1>16 DEF ReactorInv

\* The callback returns; a connection that nothing else keeps is destroyed.
LEMMA ReturnStep ==
  ASSUME ReactorInv, NEW l \in Loops, NEW c \in Conns, Return(l, c)
  PROVE  ReactorInv'
<1> DEFINE last == connections_[fd_[c]] # c /\ timers_[loop_[c]][fd_[c]] # c
<1>t. ReactorTypes /\ None \notin Conns /\ None \notin Fds
  BY ReactorAssumption DEF ReactorInv
<1>1. /\ cur[l] = c /\ pc[l] = "return"
      /\ pc' = [pc EXCEPT ![l] = "batch"] /\ cur' = [cur EXCEPT ![l] = None]
  BY DEF Return, Goto
<1>2. Here(l, c)
  BY <1>1, InHand
<1>3. /\ loop_[c] = l /\ fd_[c] \in Fds
      /\ state_[c] \in {"kConnected", "kClosing", "kClosed"}
  BY <1>2, HereFacts
<1>4. UNCHANGED <<timers_, connections_, loop_, read_callbacks_, pending_functors_, next_>>
  BY DEF Return, serverVars, acceptVars
<1>5. /\ pc' \in [Loops -> PCs] /\ pc'[l] = "batch"
      /\ \A k \in Loops : k # l => pc'[k] = pc[k]
      /\ cur' \in [Loops -> Conns \cup {None}] /\ cur'[l] = None
      /\ \A k \in Loops : k # l => cur'[k] = cur[k]
  BY <1>t, <1>1 DEF ReactorTypes, PCs
<1>6. \A d \in Conns : state_[d] = "kClosed" /\ d # c => loop_[d] \in Loops /\ loop_[d] # l
  BY <1>1 DEF ReactorInv, Closed, AliveState
<1>7. CASE ~last
  <2>1. UNCHANGED <<state_, fd_, output_buffer_, sock, interest>>
    BY <1>7 DEF Return
  <2>2. state_[c] # "kClosed"
    BY <1>7, <1>1, <1>3 DEF ReactorInv, Closed
  <2>3. ReactorTypes'
    BY <1>t, <1>4, <1>5, <2>1 DEF ReactorTypes
  <2>4. AliveState' /\ OneOwner' /\ Queued' /\ Callbacks'
    BY <1>4, <2>1 DEF ReactorInv, AliveState, OneOwner, Queued, Callbacks
  <2>5. Current'
    BY <1>t, <1>4, <1>5, <2>1 DEF ReactorInv, Current
  <2>6. EntriesOwned' /\ TimersOwned' /\ InterestOwned'
    BY <1>4, <2>1 DEF ReactorInv, EntriesOwned, TimersOwned, InterestOwned
  <2>7. Closed'
    BY <1>4, <1>5, <1>6, <2>1, <2>2 DEF ReactorInv, Closed
  <2>8. \A d \in Conns : HalfClosed(d)'
    BY <2>1 DEF ReactorInv, HalfClosed
  <2> QED
    BY <2>3, <2>4, <2>5, <2>6, <2>7, <2>8 DEF ReactorInv
<1>8. CASE last
  <2>1. /\ state_' = [state_ EXCEPT ![c] = "destroyed"]
        /\ fd_' = [fd_ EXCEPT ![c] = None]
        /\ output_buffer_' = [output_buffer_ EXCEPT ![c] = 0]
        /\ sock' = [sock EXCEPT ![c] = FreshSocket]
        /\ interest' = [interest EXCEPT ![c] = {}]
    BY <1>8 DEF Return
  <2>2. FreshSocket \in Sockets /\ FreshSocket.wr_shut = FALSE /\ {} \in Masks
    <3>1. <<>> \in Seq(Kinds) /\ 0 \in 0 .. SndBuf
      BY EmptySeq, ReactorAssumption
    <3> QED
      BY <3>1 DEF FreshSocket, Sockets, Peers, Masks
  <2>3. /\ state_' \in [Conns -> ConnStates] /\ state_'[c] = "destroyed"
        /\ fd_' \in [Conns -> Fds \cup {None}] /\ fd_'[c] = None
        /\ output_buffer_' \in [Conns -> Nat] /\ output_buffer_'[c] = 0
        /\ sock' \in [Conns -> Sockets] /\ sock'[c].wr_shut = FALSE
        /\ interest' \in [Conns -> Masks] /\ interest'[c] = {}
        /\ \A d \in Conns : d # c =>
             /\ state_'[d] = state_[d] /\ fd_'[d] = fd_[d] /\ sock'[d] = sock[d]
             /\ output_buffer_'[d] = output_buffer_[d] /\ interest'[d] = interest[d]
    BY <1>t, <2>1, <2>2 DEF ReactorTypes, ConnStates
  <2>4. ReactorTypes'
    BY <1>t, <1>4, <1>5, <2>3 DEF ReactorTypes
  <2>5. AliveState' /\ OneOwner'
    BY <1>t, <1>4, <2>3 DEF ReactorInv, AliveState, OneOwner
  <2>6. Queued'
    <3>1. \A k \in Loops : \A n \in 1 .. Len(pending_functors_[k]) : pending_functors_[k][n] \in Conns
      BY <1>t, ElementOfSeq DEF ReactorTypes
    <3>2. \A d \in Conns : state_[d] = "kConnecting" => state_'[d] = "kConnecting"
      BY <1>3, <2>3
    <3> QED
      BY <1>4, <3>1, <3>2 DEF ReactorInv, Queued
  <2>7. Callbacks'
    BY <1>4, <2>3 DEF ReactorInv, Callbacks
  <2>8. Current'
    <3>1. \A k \in Loops : k # l => cur[k] # c
      BY <1>3 DEF ReactorInv, Current
    <3> QED
      BY <1>t, <1>4, <1>5, <2>3, <3>1 DEF ReactorInv, Current
  <2>9. EntriesOwned' /\ TimersOwned' /\ InterestOwned'
    <3>1. \A f \in Fds : connections_[f] # c
      BY <1>8 DEF ReactorInv, EntriesOwned
    <3>2. \A k \in Loops, f \in Fds : timers_[k][f] # c
      BY <1>8 DEF ReactorInv, TimersOwned
    <3> QED
      BY <1>4, <2>3, <3>1, <3>2 DEF ReactorInv, EntriesOwned, TimersOwned, InterestOwned
  <2>10. Closed'
    BY <1>4, <1>5, <1>6, <2>3 DEF ReactorInv, Closed
  <2>11. \A d \in Conns : HalfClosed(d)'
    BY <2>3 DEF ReactorInv, HalfClosed
  <2> QED
    BY <2>4, <2>5, <2>6, <2>7, <2>8, <2>9, <2>10, <2>11 DEF ReactorInv
<1> QED
  BY <1>7, <1>8

LEMMA LeastExists ==
  ASSUME NEW T, T \subseteq Nat, T # {}
  PROVE  \E x \in T : \A y \in T : x <= y
<1>1. IsWellFoundedOn(OpToRel(<, Nat), Nat)
  BY NatLessThanWellFounded
<1>2. PICK x \in T : \A y \in T : ~(<<y, x>> \in OpToRel(<, Nat))
  BY <1>1, WFMin
<1>3. ASSUME NEW y \in T
      PROVE  x <= y
  <2>1. x \in Nat /\ y \in Nat
    BY <1>3
  <2>2. ASSUME y < x PROVE <<y, x>> \in OpToRel(<, Nat)
    BY <2>1, <2>2 DEF OpToRel
  <2>3. ~(<<y, x>> \in OpToRel(<, Nat))
    BY <1>2, <1>3
  <2>4. ~(y < x)
    BY <2>2, <2>3
  <2> QED
    BY <2>1, <2>4
<1> QED
  BY <1>3

\* accept4 gives a descriptor that nobody has.
LEMMA FreeFdIsFree ==
  ASSUME Fds \ OpenFds # {}
  PROVE  FreeFd \in Fds \ OpenFds
<1>1. Fds \ OpenFds \subseteq Nat
  BY ReactorAssumption
<1> QED
  BY <1>1, LeastExists DEF FreeFd

\* A connection that has not been accepted yet is nowhere to be found.
LEMMA NewIsNowhere ==
  ASSUME ReactorInv, NEW c \in Conns, state_[c] = "none"
  PROVE  /\ fd_[c] = None /\ interest[c] = {} /\ ~sock[c].wr_shut
         /\ \A l \in Loops : cur[l] # c
         /\ \A f \in Fds : connections_[f] # c
         /\ \A l \in Loops, f \in Fds : timers_[l][f] # c /\ read_callbacks_[l][f] # c
         /\ \A l \in Loops : \A n \in 1 .. Len(pending_functors_[l]) : pending_functors_[l][n] # c
<1>1. fd_[c] = None /\ None \notin Fds
  BY ReactorAssumption DEF ReactorInv, AliveState
<1>2. sock[c].wr_shut \in BOOLEAN
  BY DEF ReactorInv, ReactorTypes, Sockets
<1>3. ~sock[c].wr_shut
  BY <1>2 DEF ReactorInv, HalfClosed
<1>4. interest[c] = {}
  BY <1>1 DEF ReactorInv, InterestOwned
<1>5. \A l \in Loops : cur[l] # c
  BY <1>1 DEF ReactorInv, Current
<1>6. \A f \in Fds : connections_[f] # c
  BY <1>1 DEF ReactorInv, EntriesOwned
<1>7. \A l \in Loops, f \in Fds : timers_[l][f] # c /\ read_callbacks_[l][f] # c
  BY <1>1 DEF ReactorInv, TimersOwned, Callbacks
<1>8. \A l \in Loops : \A n \in 1 .. Len(pending_functors_[l]) : pending_functors_[l][n] # c
  BY DEF ReactorInv, Queued
<1> QED
  BY <1>1, <1>3, <1>4, <1>5, <1>6, <1>7, <1>8

\* What accepting has in common, in either mode: c gets the free descriptor f,
\* loop l and the entry of f.
LEMMA AcceptedFacts ==
  ASSUME ReactorInv, NEW c \in Conns, NEW l \in Loops, NewConnection(c, FreeFd, l)
  PROVE  /\ state_[c] = "none" /\ FreeFd \in Fds
         /\ \A d \in Conns : fd_[d] # FreeFd
         /\ fd_' \in [Conns -> Fds \cup {None}] /\ fd_'[c] = FreeFd
         /\ \A d \in Conns : d # c => fd_'[d] = fd_[d]
         /\ loop_' \in [Conns -> Loops \cup {None}] /\ loop_'[c] = l
         /\ \A d \in Conns : d # c => loop_'[d] = loop_[d]
         /\ connections_' \in [Fds -> Conns \cup {None}] /\ connections_'[FreeFd] = c
         /\ \A g \in Fds : g # FreeFd => connections_'[g] = connections_[g]
<1>1. FreeFd \in Fds \ OpenFds
  BY FreeFdIsFree DEF NewConnection
<1> DEFINE f == FreeFd
<1>2. /\ f \in Fds /\ f \notin OpenFds /\ f # None
  BY <1>1, ReactorAssumption
<1>3. /\ state_[c] = "none"
      /\ fd_' = [fd_ EXCEPT ![c] = f]
      /\ loop_' = [loop_ EXCEPT ![c] = l]
      /\ connections_' = [connections_ EXCEPT ![f] = c]
  BY DEF NewConnection
<1> HIDE DEF f
<1>4. \A d \in Conns : fd_[d] # f
  BY <1>2 DEF OpenFds, Alive
<1>5. /\ fd_ \in [Conns -> Fds \cup {None}] /\ loop_ \in [Conns -> Loops \cup {None}]
      /\ connections_ \in [Fds -> Conns \cup {None}]
  BY DEF ReactorInv, ReactorTypes
<1>6. /\ fd_' \in [Conns -> Fds \cup {None}] /\ fd_'[c] = f
      /\ \A d \in Conns : d # c => fd_'[d] = fd_[d]
      /\ loop_' \in [Conns -> Loops \cup {None}] /\ loop_'[c] = l
      /\ \A d \in Conns : d # c => loop_'[d] = loop_[d]
      /\ connections_' \in [Fds -> Conns \cup {None}] /\ connections_'[f] = c
      /\ \A g \in Fds : g # f => connections_'[g] = connections_[g]
  BY <1>2, <1>3, <1>5
<1> QED
  BY <1>2, <1>3, <1>4, <1>6 DEF f

LEMMA AcceptStep ==
  ASSUME ReactorInv, NEW c \in Conns, Accept(c)
  PROVE  ReactorInv'
<1> DEFINE l == next_
           f == FreeFd
           q == pending_functors_[l]
<1>t. ReactorTypes /\ None \notin Conns /\ None \notin Fds /\ NumLoops \in Nat \ {0}
  BY ReactorAssumption DEF ReactorInv
<1>l. l \in Loops
  BY <1>t DEF ReactorTypes
<1>a. NewConnection(c, FreeFd, next_)
  BY DEF Accept
<1>b. /\ state_[c] = "none" /\ f \in Fds
      /\ \A d \in Conns : fd_[d] # f
      /\ fd_' \in [Conns -> Fds \cup {None}] /\ fd_'[c] = f
      /\ \A d \in Conns : d # c => fd_'[d] = fd_[d]
      /\ loop_' \in [Conns -> Loops \cup {None}] /\ loop_'[c] = l
      /\ \A d \in Conns : d # c => loop_'[d] = loop_[d]
      /\ connections_' \in [Fds -> Conns \cup {None}] /\ connections_'[f] = c
      /\ \A g \in Fds : g # f => connections_'[g] = connections_[g]
  BY <1>a, <1>l, AcceptedFacts
<1>n. /\ fd_[c] = None /\ interest[c] = {} /\ ~sock[c].wr_shut
      /\ \A k \in Loops : cur[k] # c
      /\ \A g \in Fds : connections_[g] # c
      /\ \A k \in Loops, g \in Fds : timers_[k][g] # c /\ read_callbacks_[k][g] # c
      /\ \A k \in Loops : \A n \in 1 .. Len(pending_functors_[k]) : pending_functors_[k][n] # c
  BY <1>b, NewIsNowhere
<1>1. UNCHANGED <<output_buffer_, sock, timers_, interest, pc, cur, read_callbacks_>>
  BY DEF Accept, epollVars, threadVars
<1>2. /\ state_' \in [Conns -> ConnStates] /\ state_'[c] = "kConnecting"
      /\ \A d \in Conns : d # c => state_'[d] = state_[d]
  BY <1>t DEF Accept, ReactorTypes, ConnStates
<1>q. q \in Seq(Conns)
  BY <1>t, <1>l DEF ReactorTypes
<1>3. /\ Append(q, c) \in Seq(Conns) /\ Len(Append(q, c)) = Len(q) + 1
      /\ Append(q, c)[Len(q) + 1] = c
      /\ \A n \in 1 .. Len(q) : Append(q, c)[n] = q[n]
      /\ Len(q) \in Nat
  <2> HIDE DEF q
  <2> QED
    BY <1>q, AppendProperties, LenProperties
<1>4. /\ pending_functors_' \in [Loops -> Seq(Conns)] /\ pending_functors_'[l] = Append(q, c)
      /\ \A k \in Loops : k # l => pending_functors_'[k] = pending_functors_[k]
  BY <1>t, <1>l, <1>3 DEF Accept, ReactorTypes
<1>5. next_' \in Loops
  <2>1. next_' = (next_ % NumLoops) + 1 /\ next_ \in Nat
    BY <1>l DEF Accept, Loops
  <2>2. next_ % NumLoops \in 0 .. NumLoops - 1
    BY <1>t, <2>1
  <2> QED
    BY <1>t, <2>1, <2>2 DEF Loops
<1> HIDE DEF l, f, q
<1>6. ReactorTypes'
  BY <1>t, <1>b, <1>1, <1>2, <1>4, <1>5 DEF ReactorTypes
<1>7. AliveState' /\ OneOwner'
  BY <1>b, <1>l, <1>2 DEF ReactorInv, AliveState, OneOwner
<1>8. Queued'
  <2> SUFFICES ASSUME NEW k \in Loops, NEW n \in 1 .. Len(pending_functors_'[k])
               PROVE  /\ state_'[pending_functors_'[k][n]] = "kConnecting"
                      /\ loop_'[pending_functors_'[k][n]] = k
                      /\ \A m \in 1 .. Len(pending_functors_'[k]) :
                           pending_functors_'[k][m] = pending_functors_'[k][n] => m = n
    BY DEF Queued
  <2>1. \A j \in Loops : \A m \in 1 .. Len(pending_functors_[j]) :
          /\ pending_functors_[j][m] \in Conns \ {c}
          /\ state_'[pending_functors_[j][m]] = "kConnecting"
          /\ loop_'[pending_functors_[j][m]] = j
    <3>1. \A j \in Loops : \A m \in 1 .. Len(pending_functors_[j]) : pending_functors_[j][m] \in Conns
      BY <1>t, ElementOfSeq DEF ReactorTypes
    <3> QED
      BY <3>1, <1>n, <1>b, <1>2 DEF ReactorInv, Queued
  <2>2. CASE k # l
    BY <2>1, <2>2, <1>4 DEF ReactorInv, Queued
  <2>3. CASE k = l
    <3>1. \A m \in 1 .. Len(q) : /\ q[m] \in Conns \ {c} /\ state_'[q[m]] = "kConnecting"
                                  /\ loop_'[q[m]] = l
      BY <2>1, <1>l DEF q
    <3>2. \A m, j \in 1 .. Len(q) : q[m] = q[j] => m = j
      BY <1>l DEF q, ReactorInv, Queued
    <3> QED
      BY <2>3, <3>1, <3>2, <1>3, <1>4, <1>b, <1>2
  <2> QED
    BY <2>2, <2>3
<1>9. Callbacks'
  BY <1>n, <1>b, <1>1, <1>2 DEF ReactorInv, Callbacks
<1>10. Current'
  BY <1>n, <1>b, <1>1 DEF ReactorInv, Current
<1>11. EntriesOwned'
  BY <1>n, <1>b DEF ReactorInv, EntriesOwned
<1>12. TimersOwned' /\ InterestOwned'
  BY <1>n, <1>b, <1>1 DEF ReactorInv, TimersOwned, InterestOwned
<1>13. Closed'
  BY <1>n, <1>b, <1>1, <1>2 DEF ReactorInv, Closed
<1>14. \A d \in Conns : HalfClosed(d)'
  BY <1>n, <1>1, <1>2 DEF ReactorInv, HalfClosed
<1> QED
  BY <1>6, <1>7, <1>8, <1>9, <1>10, <1>11, <1>12, <1>13, <1>14 DEF ReactorInv

\* What ConnectEstablished changes, for a connection c on descriptor f of loop l.
Established(l, c, f) ==
  /\ state_' \in [Conns -> ConnStates] /\ state_'[c] = "kConnected"
  /\ \A d \in Conns : d # c => state_'[d] = state_[d]
  /\ timers_' \in [Loops -> [Fds -> Conns \cup {None}]]
  /\ \A k \in Loops, g \in Fds : k # l \/ g # f => timers_'[k][g] = timers_[k][g]
  /\ timers_'[l][f] \in {timers_[l][f], c}
  /\ read_callbacks_' \in [Loops -> [Fds -> Conns \cup {None}]]
  /\ \A k \in Loops, g \in Fds : k # l \/ g # f => read_callbacks_'[k][g] = read_callbacks_[k][g]
  /\ read_callbacks_'[l][f] = c
  /\ interest' \in [Conns -> Masks]
  /\ \A d \in Conns : d # c => interest'[d] = interest[d]

LEMMA Establishing ==
  ASSUME ReactorInv, NEW l \in Loops, NEW c \in Conns, NEW f \in Fds, ConnectEstablished(l, c, f)
  PROVE  Established(l, c, f)
<1>t. /\ state_ \in [Conns -> ConnStates] /\ interest \in [Conns -> Masks]
      /\ timers_ \in [Loops -> [Fds -> Conns \cup {None}]]
      /\ read_callbacks_ \in [Loops -> [Fds -> Conns \cup {None}]]
  BY DEF ReactorInv, ReactorTypes
<1>1. /\ state_' \in [Conns -> ConnStates] /\ state_'[c] = "kConnected"
      /\ \A d \in Conns : d # c => state_'[d] = state_[d]
  BY <1>t DEF ConnectEstablished, Transition, ConnStates
<1>2. /\ timers_' \in [Loops -> [Fds -> Conns \cup {None}]]
      /\ \A k \in Loops, g \in Fds : k # l \/ g # f => timers_'[k][g] = timers_[k][g]
      /\ timers_'[l][f] \in {timers_[l][f], c}
  <2>1. timers_' = [timers_ EXCEPT ![l][f] = c] \/ timers_' = timers_
    BY DEF ConnectEstablished, Transition, ArmIdleTimer
  <2> QED
    BY <1>t, <2>1
<1>3. /\ read_callbacks_' \in [Loops -> [Fds -> Conns \cup {None}]]
      /\ \A k \in Loops, g \in Fds : k # l \/ g # f => read_callbacks_'[k][g] = read_callbacks_[k][g]
      /\ read_callbacks_'[l][f] = c
  <2>1. read_callbacks_' = [read_callbacks_ EXCEPT ![l][f] = c]
    BY DEF ConnectEstablished
  <2> QED
    BY <1>t, <2>1
<1>4. /\ interest' \in [Conns -> Masks]
      /\ \A d \in Conns : d # c => interest'[d] = interest[d]
  <2>1. interest' = [interest EXCEPT ![c] = {"in"}] \/ UNCHANGED interest
    BY DEF ConnectEstablished, UpdateEvent, epollVars
  <2>2. {"in"} \in Masks
    BY DEF Masks
  <2> QED
    BY <1>t, <2>1, <2>2
<1> QED
  BY <1>1, <1>2, <1>3, <1>4 DEF Established

LEMMA SubAcceptStep ==
  ASSUME ReactorInv, NEW l \in Loops, NEW c \in Conns, AcceptInSubReactor(l, c)
  PROVE  ReactorInv'
<1> DEFINE f == FreeFd
<1>t. ReactorTypes /\ None \notin Conns /\ None \notin Fds
  BY ReactorAssumption DEF ReactorInv
<1>a. NewConnection(c, FreeFd, l) /\ ConnectEstablished(l, c, FreeFd)
  BY DEF AcceptInSubReactor
<1>b. /\ state_[c] = "none" /\ f \in Fds
      /\ \A d \in Conns : fd_[d] # f
      /\ fd_' \in [Conns -> Fds \cup {None}] /\ fd_'[c] = f
      /\ \A d \in Conns : d # c => fd_'[d] = fd_[d]
      /\ loop_' \in [Conns -> Loops \cup {None}] /\ loop_'[c] = l
      /\ \A d \in Conns : d # c => loop_'[d] = loop_[d]
      /\ connections_' \in [Fds -> Conns \cup {None}] /\ connections_'[f] = c
      /\ \A g \in Fds : g # f => connections_'[g] = connections_[g]
  BY <1>a, AcceptedFacts
<1>n. /\ fd_[c] = None /\ interest[c] = {} /\ ~sock[c].wr_shut
      /\ \A k \in Loops : cur[k] # c
      /\ \A g \in Fds : connections_[g] # c
      /\ \A k \in Loops, g \in Fds : timers_[k][g] # c /\ read_callbacks_[k][g] # c
      /\ \A k \in Loops : \A n \in 1 .. Len(pending_functors_[k]) : pending_functors_[k][n] # c
  BY <1>b, NewIsNowhere
<1>e. Established(l, c, f)
  BY <1>a, <1>b, Establishing
<1>1. UNCHANGED <<output_buffer_, sock, pc, cur, pending_functors_, next_>>
  BY DEF AcceptInSubReactor, threadVars
<1> HIDE DEF f
<1>s. /\ state_'[c] = "kConnected"
      /\ \A d \in Conns : d # c => state_'[d] = state_[d]
  BY <1>e DEF Established
<1>m. /\ \A k \in Loops, g \in Fds : k # l \/ g # f => timers_'[k][g] = timers_[k][g]
      /\ timers_'[l][f] \in {timers_[l][f], c}
  BY <1>e DEF Established
<1>r. /\ \A k \in Loops, g \in Fds : k # l \/ g # f => read_callbacks_'[k][g] = read_callbacks_[k][g]
      /\ read_callbacks_'[l][f] = c
  BY <1>e DEF Established
<1>i. \A d \in Conns : d # c => interest'[d] = interest[d]
  BY <1>e DEF Established
<1>2. ReactorTypes'
  BY <1>t, <1>b, <1>e, <1>1 DEF ReactorTypes, Established
<1>3. AliveState'
  BY <1>b, <1>s DEF ReactorInv, AliveState
<1>12. OneOwner'
  BY <1>b DEF ReactorInv, OneOwner
<1>4. Queued'
  <2>1. \A k \in Loops : \A n \in 1 .. Len(pending_functors_[k]) :
          pending_functors_[k][n] \in Conns \ {c}
    BY <1>t, <1>n, ElementOfSeq DEF ReactorTypes
  <2>2. \A k \in Loops : \A n \in 1 .. Len(pending_functors_[k]) :
          /\ state_'[pending_functors_[k][n]] = "kConnecting"
          /\ loop_'[pending_functors_[k][n]] = k
    BY <2>1, <1>s, <1>b DEF ReactorInv, Queued
  <2> QED
    BY <2>2, <1>1 DEF ReactorInv, Queued
<1>5. Callbacks'
  <2> SUFFICES ASSUME NEW k \in Loops, NEW g \in Fds, NEW d \in Conns, read_callbacks_'[k][g] = d
               PROVE  /\ loop_'[d] = k /\ state_'[d] \notin {"none", "kConnecting"}
                      /\ fd_'[d] \in {g, None}
    BY DEF Callbacks
  <2>1. CASE d = c
    BY <2>1, <1>n, <1>b, <1>r, <1>s
  <2>2. CASE d # c
    <3>1. read_callbacks_[k][g] = d
      BY <2>2, <1>r
    <3> QED
      BY <2>2, <3>1, <1>b, <1>s DEF ReactorInv, Callbacks
  <2> QED
    BY <2>1, <2>2
<1>6. Current'
  BY <1>n, <1>b, <1>r, <1>1 DEF ReactorInv, Current
<1>7. EntriesOwned'
  BY <1>n, <1>b DEF ReactorInv, EntriesOwned
<1>8. TimersOwned'
  <2> SUFFICES ASSUME NEW k \in Loops, NEW g \in Fds, NEW d \in Conns, timers_'[k][g] = d
               PROVE  fd_'[d] = g /\ loop_'[d] = k /\ read_callbacks_'[k][g] = d
    BY DEF TimersOwned
  <2>1. CASE d = c
    BY <2>1, <1>n, <1>b, <1>m, <1>r
  <2>2. CASE d # c
    <3>1. timers_[k][g] = d
      BY <2>2, <1>m
    <3>2. fd_[d] = g /\ loop_[d] = k /\ read_callbacks_[k][g] = d
      BY <3>1 DEF ReactorInv, TimersOwned
    <3> QED
      BY <2>2, <3>2, <1>b, <1>r
  <2> QED
    BY <2>1, <2>2
<1>9. InterestOwned'
  <2> SUFFICES ASSUME NEW d \in Conns, interest'[d] # {}
               PROVE  fd_'[d] \in Fds /\ read_callbacks_'[loop_'[d]][fd_'[d]] = d
    BY DEF InterestOwned
  <2>1. CASE d = c
    BY <2>1, <1>b, <1>r
  <2>2. CASE d # c
    <3>1. fd_[d] \in Fds /\ read_callbacks_[loop_[d]][fd_[d]] = d
      BY <2>2, <1>i DEF ReactorInv, InterestOwned
    <3>2. loop_[d] \in Loops
      BY <3>1, <1>t DEF ReactorInv, AliveState
    <3> QED
      BY <2>2, <3>1, <3>2, <1>b, <1>r
  <2> QED
    BY <2>1, <2>2
<1>10. Closed'
  <2> SUFFICES ASSUME NEW d \in Conns, state_'[d] = "kClosed"
               PROVE  /\ cur'[loop_'[d]] = d
                      /\ pc'[loop_'[d]] # "deadlock" =>
                           /\ \A g \in Fds : connections_'[g] # d
                           /\ \A k \in Loops, g \in Fds : timers_'[k][g] # d
    BY DEF Closed
  <2>1. d # c /\ state_[d] = "kClosed" /\ loop_'[d] = loop_[d]
    BY <1>b, <1>s
  <2>2. cur'[loop_'[d]] = d
    BY <2>1, <1>1 DEF ReactorInv, Closed
  <2>3. ASSUME pc'[loop_'[d]] # "deadlock"
        PROVE  /\ \A g \in Fds : connections_'[g] # d
               /\ \A k \in Loops, g \in Fds : timers_'[k][g] # d
    <3>1. /\ \A g \in Fds : connections_[g] # d
          /\ \A k \in Loops, g \in Fds : timers_[k][g] # d
      BY <2>1, <2>3, <1>1 DEF ReactorInv, Closed
    <3> QED
      BY <2>1, <3>1, <1>b, <1>m
  <2> QED
    BY <2>2, <2>3
<1>11. \A d \in Conns : HalfClosed(d)'
  BY <1>n, <1>s, <1>1 DEF ReactorInv, HalfClosed
<1> QED
  BY <1>2, <1>3, <1>4, <1>5, <1>6, <1>7, <1>8, <1>9, <1>10, <1>11, <1>12 DEF ReactorInv

LEMMA FunctorStep ==
  ASSUME ReactorInv, NEW l \in Loops, RunFunctor(l)
  PROVE  ReactorInv'
<1> DEFINE q == pending_functors_[l]
           c == Head(q)
           f == fd_[c]
<1>t. ReactorTypes /\ None \notin Conns /\ None \notin Fds
  BY ReactorAssumption DEF ReactorInv
<1>q. q \in Seq(Conns) /\ q # <<>>
  BY <1>t DEF ReactorTypes, RunFunctor
<1>h. /\ c \in Conns /\ Tail(q) \in Seq(Conns) /\ Len(q) \in Nat \ {0} /\ c = q[1]
      /\ Len(Tail(q)) = Len(q) - 1
      /\ \A n \in 1 .. Len(Tail(q)) : Tail(q)[n] = q[n + 1]
  <2>1. Len(q) \in Nat /\ Len(q) # 0
    BY <1>q, EmptySeq, LenProperties
  <2> HIDE DEF q
  <2> QED
    BY <1>q, <2>1, HeadTailProperties
<1>c. state_[c] = "kConnecting" /\ loop_[c] = l /\ f \in Fds
  <2>1. 1 \in 1 .. Len(q)
    BY <1>h
  <2>2. state_[q[1]] = "kConnecting" /\ loop_[q[1]] = l
    BY <2>1 DEF ReactorInv, Queued
  <2>3. state_[c] = "kConnecting" /\ loop_[c] = l
    BY <1>h, <2>2
  <2> HIDE DEF c
  <2> QED
    BY <1>h, <2>3 DEF ReactorInv, AliveState
<1>p. /\ pending_functors_' = [pending_functors_ EXCEPT ![l] = Tail(q)]
      /\ ConnectEstablished(l, c, f)
      /\ pc[l] = "batch"
  BY DEF RunFunctor
<1>1. UNCHANGED <<output_buffer_, sock, fd_, loop_, connections_, pc, cur, next_>>
  BY DEF RunFunctor, connVars, serverVars, threadVars
<1>e. Established(l, c, f)
  <2> HIDE DEF c, f
  <2> QED
    BY <1>h, <1>c, <1>p, Establishing
<1>2. /\ pending_functors_' \in [Loops -> Seq(Conns)] /\ pending_functors_'[l] = Tail(q)
      /\ \A k \in Loops : k # l => pending_functors_'[k] = pending_functors_[k]
  BY <1>t, <1>h, <1>p DEF ReactorTypes
<1>s. /\ state_'[c] = "kConnected"
      /\ \A d \in Conns : d # c => state_'[d] = state_[d]
  BY <1>e DEF Established
<1>m. /\ \A k \in Loops, g \in Fds : k # l \/ g # f => timers_'[k][g] = timers_[k][g]
      /\ timers_'[l][f] \in {timers_[l][f], c}
  BY <1>e DEF Established
<1>r. /\ \A k \in Loops, g \in Fds : k # l \/ g # f => read_callbacks_'[k][g] = read_callbacks_[k][g]
      /\ read_callbacks_'[l][f] = c
  BY <1>e DEF Established
<1>i. \A d \in Conns : d # c => interest'[d] = interest[d]
  BY <1>e DEF Established
<1>o. f = fd_[c] /\ \A d \in Conns : fd_[d] = f => d = c
  BY <1>h, <1>c DEF ReactorInv, OneOwner
<1>3. Queued'
  <2> SUFFICES ASSUME NEW k \in Loops, NEW n \in 1 .. Len(pending_functors_'[k])
               PROVE  /\ state_'[pending_functors_'[k][n]] = "kConnecting"
                      /\ loop_[pending_functors_'[k][n]] = k
                      /\ \A m \in 1 .. Len(pending_functors_'[k]) :
                           pending_functors_'[k][m] = pending_functors_'[k][n] => m = n
    BY <1>1 DEF Queued
  <2>1. CASE k # l
    <3>1. pending_functors_[k][n] \in Conns
      BY <2>1, <1>2, <1>t, ElementOfSeq DEF ReactorTypes
    <3>2. /\ state_[pending_functors_[k][n]] = "kConnecting" /\ loop_[pending_functors_[k][n]] = k
          /\ \A m \in 1 .. Len(pending_functors_[k]) :
               pending_functors_[k][m] = pending_functors_[k][n] => m = n
      BY <2>1, <1>2 DEF ReactorInv, Queued
    <3>3. pending_functors_[k][n] # c
      BY <2>1, <3>2, <1>c
    <3> HIDE DEF c
    <3> QED
      BY <2>1, <3>1, <3>2, <3>3, <1>2, <1>s
  <2>2. CASE k = l
    <3>1. \A m, j \in 1 .. Len(q) : q[m] = q[j] => m = j
      BY DEF ReactorInv, Queued
    <3>2. \A m \in 1 .. Len(q) : q[m] \in Conns /\ state_[q[m]] = "kConnecting" /\ loop_[q[m]] = l
      BY <1>q, ElementOfSeq DEF ReactorInv, Queued
    <3> HIDE DEF q
    <3>3. \A m \in 1 .. Len(Tail(q)) : m + 1 \in 1 .. Len(q) /\ q[m + 1] # q[1]
      BY <1>h, <3>1
    <3> HIDE DEF c
    <3>4. \A m \in 1 .. Len(Tail(q)) :
            state_'[Tail(q)[m]] = "kConnecting" /\ loop_[Tail(q)[m]] = l
      BY <1>h, <1>s, <3>2, <3>3
    <3>5. \A m, j \in 1 .. Len(Tail(q)) : Tail(q)[m] = Tail(q)[j] => m = j
      BY <1>h, <3>1, <3>3
    <3> QED
      BY <2>2, <1>2, <3>4, <3>5
  <2> QED
    BY <2>1, <2>2
<1>4. cur[l] = None
  BY <1>p DEF ReactorInv, Current
<1> HIDE DEF c, f, q
<1>5. ReactorTypes'
  BY <1>t, <1>e, <1>1, <1>2 DEF ReactorTypes, Established
<1>6. AliveState'
  BY <1>c, <1>s, <1>1, <1>h, <1>o DEF ReactorInv, AliveState
<1>7. OneOwner' /\ EntriesOwned'
  BY <1>1 DEF ReactorInv, OneOwner, EntriesOwned
<1>8. Callbacks'
  <2> SUFFICES ASSUME NEW k \in Loops, NEW g \in Fds, NEW d \in Conns, read_callbacks_'[k][g] = d
               PROVE  /\ loop_[d] = k /\ state_'[d] \notin {"none", "kConnecting"}
                      /\ fd_[d] \in {g, None}
    BY <1>1 DEF Callbacks
  <2>1. CASE k = l /\ g = f
    BY <2>1, <1>c, <1>o, <1>r, <1>s
  <2>2. CASE k # l \/ g # f
    <3>1. /\ loop_[d] = k /\ state_[d] \notin {"none", "kConnecting"}
          /\ fd_[d] \in {g, None}
      BY <2>2, <1>r DEF ReactorInv, Callbacks
    <3> QED
      BY <3>1, <1>c, <1>s
  <2> QED
    BY <2>1, <2>2
<1>9. Current'
  <2>1. \A k \in Loops : cur[k] # None => k # l
    BY <1>4
  <2> QED
    BY <2>1, <1>1, <1>r, <1>t DEF ReactorInv, Current
<1>10. TimersOwned'
  <2> SUFFICES ASSUME NEW k \in Loops, NEW g \in Fds, NEW d \in Conns, timers_'[k][g] = d
               PROVE  fd_[d] = g /\ loop_[d] = k /\ read_callbacks_'[k][g] = d
    BY <1>1 DEF TimersOwned
  <2>1. CASE k = l /\ g = f
    <3>1. d = c
      BY <2>1, <1>m, <1>o DEF ReactorInv, TimersOwned
    <3> QED
      BY <2>1, <3>1, <1>c, <1>o, <1>r
  <2>2. CASE k # l \/ g # f
    BY <2>2, <1>m, <1>r DEF ReactorInv, TimersOwned
  <2> QED
    BY <2>1, <2>2
<1>11. InterestOwned'
  <2> SUFFICES ASSUME NEW d \in Conns, interest'[d] # {}
               PROVE  fd_[d] \in Fds /\ read_callbacks_'[loop_[d]][fd_[d]] = d
    BY <1>1 DEF InterestOwned
  <2>1. CASE d = c
    BY <2>1, <1>c, <1>o, <1>r
  <2>2. CASE d # c
    <3>1. fd_[d] \in Fds /\ read_callbacks_[loop_[d]][fd_[d]] = d
      BY <2>2, <1>i DEF ReactorInv, InterestOwned
    <3>2. loop_[d] \in Loops
      BY <3>1, <1>t DEF ReactorInv, AliveState
    <3> QED
      BY <2>2, <3>1, <3>2, <1>o, <1>r
  <2> QED
    BY <2>1, <2>2
<1>12. Closed'
  <2> SUFFICES ASSUME NEW d \in Conns, state_'[d] = "kClosed"
               PROVE  /\ cur[loop_[d]] = d
                      /\ pc[loop_[d]] # "deadlock" =>
                           /\ \A g \in Fds : connections_[g] # d
                           /\ \A k \in Loops, g \in Fds : timers_'[k][g] # d
    BY <1>1 DEF Closed
  <2>1. d # c /\ state_[d] = "kClosed"
    BY <1>s
  <2>2. /\ cur[loop_[d]] = d
        /\ pc[loop_[d]] # "deadlock" =>
             /\ \A g \in Fds : connections_[g] # d
             /\ \A k \in Loops, g \in Fds : timers_[k][g] # d
    BY <2>1 DEF ReactorInv, Closed
  <2> QED
    BY <2>1, <2>2, <1>m
<1>13. \A d \in Conns : HalfClosed(d)'
  <2>1. sock[c].wr_shut \in BOOLEAN
    BY <1>t, <1>h DEF ReactorTypes, Sockets
  <2>2. ~sock[c].wr_shut
    BY <2>1, <1>h, <1>c DEF ReactorInv, HalfClosed
  <2> QED
    BY <2>2, <1>1, <1>s DEF ReactorInv, HalfClosed
<1> QED
  BY <1>3, <1>5, <1>6, <1>7, <1>8, <1>9, <1>10, <1>11, <1>12, <1>13 DEF ReactorInv
------------------------------------------------------------------------------
LEMMA ReactorInit ==
  Init => ReactorInv
<1> SUFFICES ASSUME Init
             PROVE  ReactorInv
  OBVIOUS
<1>1. FreshSocket \in Sockets /\ FreshSocket.wr_shut = FALSE /\ {} \in Masks /\ 1 \in Loops
      /\ <<>> \in Seq(Conns) /\ Len(<<>>) = 0 /\ None \notin Fds /\ None \notin Conns
  <2>1. <<>> \in Seq(Kinds) /\ 0 \in 0 .. SndBuf /\ 1 \in Loops
    BY EmptySeq, ReactorAssumption DEF Loops
  <2>2. <<>> \in Seq(Conns) /\ Len(<<>>) = 0
    BY EmptySeq
  <2> QED
    BY <2>1, <2>2, ReactorAssumption DEF FreshSocket, Sockets, Peers, Masks
<1>2. ReactorTypes
  BY <1>1 DEF Init, ReactorTypes, ConnStates, PCs
<1>3. AliveState /\ OneOwner /\ Callbacks /\ Current /\ EntriesOwned /\ TimersOwned
  BY <1>1 DEF Init, AliveState, OneOwner, Callbacks, Current, EntriesOwned, TimersOwned
<1>4. Queued
  BY <1>1 DEF Init, Queued
<1>5. InterestOwned /\ Closed
  BY DEF Init, InterestOwned, Closed
<1>6. \A c \in Conns : HalfClosed(c)
  BY <1>1 DEF Init, HalfClosed
<1> QED
  BY <1>2, <1>3, <1>4, <1>5, <1>6 DEF ReactorInv

LEMMA ReactorStep ==
  ASSUME ReactorInv, [Next]_vars
  PROVE  ReactorInv'
<1>1. ASSUME NEW l \in Loops, LoopThread(l)
      PROVE  ReactorInv'
  BY <1>1, LoopBackground, FunctorStep, CallbackStep, HandleReadCallback, HandleWriteCallback,
     OtherCallbacks,
     ReturnStep DEF LoopThread
<1>2. ASSUME UNCHANGED vars
      PROVE  ReactorInv'
  <2>1. UNCHANGED <<state_, output_buffer_, fd_, loop_, timers_, read_callbacks_,
                    pending_functors_, connections_, cur, next_, interest, sock, pc>>
    BY <1>2 DEF vars, connVars, epollVars, serverVars, threadVars, acceptVars
  <2>2. sock \in [Conns -> Sockets] /\ interest \in [Conns -> Masks] /\ pc \in [Loops -> PCs]
    BY DEF ReactorInv, ReactorTypes
  <2> QED
    BY <2>1, <2>2, Background
<1> QED
  BY <1>1, <1>2, TimerStep, AcceptStep, SubAcceptStep, PeerStep DEF Next, Killed

\* The inductive invariant: connections, descriptors, callbacks and timers
\* belong together, through accepts, callbacks, closes and reuse.
THEOREM ReactorAlwaysConsistent == Spec => []ReactorInv
BY ReactorInit, ReactorStep, PTL DEF Spec

\* A descriptor's entry in the server's table, its timer and its callback are
\* the connection that owns it (RemoveConnection and the maps of EventLoop,
\* keyed by numbers that accept4 hands out again).
THEOREM ReactorDescriptorOwner == Spec => []DescriptorOwner
<1>1. ReactorInv => DescriptorOwner
  <2> SUFFICES ASSUME ReactorInv
               PROVE  DescriptorOwner
    OBVIOUS
  <2>1. ReactorTypes
    BY DEF ReactorInv
  <2>2. \A f \in Fds : connections_[f] # None => fd_[connections_[f]] = f
    BY <2>1 DEF ReactorInv, ReactorTypes, EntriesOwned
  <2>3. \A l \in Loops, f \in Fds :
          timers_[l][f] # None => fd_[timers_[l][f]] = f /\ loop_[timers_[l][f]] = l
    <3> SUFFICES ASSUME NEW l \in Loops, NEW f \in Fds, timers_[l][f] # None
                 PROVE  fd_[timers_[l][f]] = f /\ loop_[timers_[l][f]] = l
      OBVIOUS
    <3>1. timers_[l][f] \in Conns
      BY <2>1 DEF ReactorTypes
    <3> QED
      BY <3>1 DEF ReactorInv, TimersOwned
  <2>4. \A c \in Conns : interest[c] # {} => read_callbacks_[loop_[c]][fd_[c]] = c
    BY DEF ReactorInv, InterestOwned
  <2> QED
    BY <2>2, <2>3, <2>4 DEF DescriptorOwner
<1> QED
  BY <1>1, ReactorAlwaysConsistent, PTL

\* A closed connection exists only until the callback that closed it returns
\* (HandleClose and RemoveConnection drop every other reference).
THEOREM ReactorClosedIsReleased == Spec => []ClosedIsReleased
<1>1. ReactorInv => ClosedIsReleased
  BY DEF ReactorInv, Closed, AliveState, ClosedIsReleased, Handled
<1> QED
  BY <1>1, ReactorAlwaysConsistent, PTL

\* A connection that is being shut down is half-closed when its output is
\* drained and not before (Shutdown, Send and HandleWrite).
THEOREM ReactorHalfClosedWhenDrained == Spec => []HalfClosedWhenDrained
<1>1. ReactorInv => HalfClosedWhenDrained
  BY DEF ReactorInv, HalfClosed, HalfClosedWhenDrained
<1> QED
  BY <1>1, ReactorAlwaysConsistent, PTL
==============================================================================
