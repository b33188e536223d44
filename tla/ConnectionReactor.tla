--------------------------- MODULE ConnectionReactor ---------------------------
(***************************************************************************)
(* The life of a connection across the components that share it:           *)
(* Server (src/server.cpp) accepts it, the EventLoop of one thread         *)
(* (reactor/event_loop.cpp, batch_io_handler.cpp) waits for its events,    *)
(* Connection (src/connection.cpp) reads, writes and closes it, the        *)
(* message callback of src/main.cpp answers its requests, and              *)
(* KeepAliveManager (src/http/keep_alive_manager.cpp) books them.          *)
(* The socket and epoll are in Kernel.                                     *)
(*                                                                         *)
(* Every loop's thread, the thread that accepts and the peers take steps   *)
(* of their own.  A loop's thread is cut into steps where another actor's  *)
(* step makes a difference: between epoll_wait and each event of its       *)
(* batch, between the two Sends of a response, before each request.        *)
(*                                                                         *)
(* Data: a request is its kind; "part" is a piece of a request whose       *)
(* header has not ended.  A response is a header of one byte and a body of *)
(* BodySize.  Logging, plugins and metrics are left out.  The queue of     *)
(* functors holds only ConnectEstablished calls; EventLoop shows that it   *)
(* loses none.  Timers have no delays here: an armed one may fire in any   *)
(* round (TimerWheel has the delays).                                      *)
(***************************************************************************)
EXTENDS Kernel, SequencesExt

CONSTANTS
  Conns,       \* connections, each accepted at most once
  Fds,         \* descriptors, numbers; accept4 takes the lowest free one
  NumLoops,    \* threads of the pool
  ReusePort,   \* sub-reactors accept themselves (SO_REUSEPORT mode)
  IdleTimers,  \* a configuration is loaded: connections have an idle timer
  BodySize,    \* bytes of a response body
  MaxInput,    \* max_input_buffer, in requests or pieces of one
  MaxOutput,   \* max_output_buffer, in bytes
  MaxRequests, \* bound on what one peer sends, for model checking
  Resets,      \* peers may reset connections
  None

ASSUME ReactorAssumption ==
  /\ Fds \subseteq Nat /\ IsFiniteSet(Fds)
  /\ NumLoops \in Nat \ {0}
  /\ MaxInput \in Nat /\ MaxOutput \in Nat
  /\ MaxRequests \in Nat
  /\ SndBuf \in Nat \ {0}
  /\ BodySize \in Nat
  /\ None \notin Fds \cup Conns

Loops == 1 .. NumLoops

VARIABLES
  \* Connection
  state_,          \* "none" before accept, "destroyed" after ~Connection
  input_buffer_,
  output_buffer_,  \* bytes in the chain
  fd_,             \* the descriptor while it is open, else None
  loop_,
  \* the kernel
  sock,
  interest,        \* mask of the connection in its loop's epoll, {} if absent
  ready,           \* connections on the ready list of their epoll
  budget,          \* what each peer may still send
  \* EventLoop, one of each per loop
  registered_fds_, \* the keys of the map
  read_callbacks_, \* the connection the callback refers to, weakly
  timers_,         \* the timers of the wheel
  pending_functors_,
  batch,           \* events of this round still to be handled
  pc,
  cur,             \* the connection whose callback runs
  \* Server and KeepAliveManager
  connections_,
  keep_alive,      \* per descriptor: "none", "keep" or "close"
  next_,
  killed           \* SIGPIPE has ended the process

connVars == <<input_buffer_, fd_, loop_>>
epollVars == <<registered_fds_, interest, ready>>
serverVars == <<connections_, keep_alive>>
threadVars == <<batch, pc, cur>>
acceptVars == <<budget, next_, read_callbacks_, pending_functors_>>

vars == <<state_, output_buffer_, sock, timers_, killed,
          connVars, epollVars, serverVars, threadVars, acceptVars>>

ConnStates == {"none", "kConnecting", "kConnected", "kClosing", "kClosed", "destroyed"}
Masks == SUBSET {"in", "out"}
Events == [kind : {"read", "write", "error"}, fd : Fds, of : Conns]
PCs == {"poll", "batch", "limit", "dispatch", "header", "body", "complete",
        "return", "deadlock"}

TypeOK ==
  /\ state_ \in [Conns -> ConnStates]
  /\ input_buffer_ \in [Conns -> Seq(Kinds)]
  /\ output_buffer_ \in [Conns -> 0 .. MaxOutput]
  /\ fd_ \in [Conns -> Fds \cup {None}]
  /\ loop_ \in [Conns -> Loops \cup {None}]
  /\ sock \in [Conns -> Sockets]
  /\ interest \in [Conns -> Masks]
  /\ ready \subseteq Conns
  /\ budget \in [Conns -> 0 .. MaxRequests]
  /\ registered_fds_ \in [Loops -> SUBSET Fds]
  /\ read_callbacks_ \in [Loops -> [Fds -> Conns \cup {None}]]
  /\ timers_ \in [Loops -> [Fds -> Conns \cup {None}]]
  /\ pending_functors_ \in [Loops -> Seq(Conns)]
  /\ batch \in [Loops -> Seq(Events)]
  /\ pc \in [Loops -> PCs]
  /\ cur \in [Loops -> Conns \cup {None}]
  /\ connections_ \in [Fds -> Conns \cup {None}]
  /\ keep_alive \in [Fds -> {"none", "keep", "close"}]
  /\ next_ \in Loops
  /\ killed \in BOOLEAN

Init ==
  /\ state_ = [c \in Conns |-> "none"]
  /\ input_buffer_ = [c \in Conns |-> <<>>]
  /\ output_buffer_ = [c \in Conns |-> 0]
  /\ fd_ = [c \in Conns |-> None]
  /\ loop_ = [c \in Conns |-> None]
  /\ sock = [c \in Conns |-> FreshSocket]
  /\ interest = [c \in Conns |-> {}]
  /\ ready = {}
  /\ budget = [c \in Conns |-> MaxRequests]
  /\ registered_fds_ = [l \in Loops |-> {}]
  /\ read_callbacks_ = [l \in Loops |-> [f \in Fds |-> None]]
  /\ timers_ = [l \in Loops |-> [f \in Fds |-> None]]
  /\ pending_functors_ = [l \in Loops |-> <<>>]
  /\ batch = [l \in Loops |-> <<>>]
  /\ pc = [l \in Loops |-> "poll"]
  /\ cur = [l \in Loops |-> None]
  /\ connections_ = [f \in Fds |-> None]
  /\ keep_alive = [f \in Fds |-> "none"]
  /\ next_ = 1
  /\ killed = FALSE
-------------------------------------------------------------------------------
(* EventLoop: registration. *)

Alive(c) == fd_[c] # None
OpenFds == {fd_[c] : c \in {d \in Conns : Alive(d)}}

\* Mutant: a descriptor in the table is left as it is, its mask not modified.
UpdateEventAddOnly(l, f, c, mask, s) ==
  IF f \notin registered_fds_[l]
  THEN /\ registered_fds_' = [registered_fds_ EXCEPT ![l] = @ \cup {f}]
       /\ interest' = [interest EXCEPT ![c] = mask]
       /\ ready' = IF Revents(s, mask) # {} THEN ready \cup {c} ELSE ready
  ELSE UNCHANGED epollVars

\* UpdateEvent for connection c whose socket is (now) s: ADD or MOD as the
\* table says.  MOD of a descriptor epoll does not know fails and is only
\* logged.  Both report an event that holds already.
UpdateEvent(l, f, c, mask, s) ==
  IF f \notin registered_fds_[l] \/ interest[c] # {}
  THEN /\ registered_fds_' = [registered_fds_ EXCEPT ![l] = @ \cup {f}]
       /\ interest' = [interest EXCEPT ![c] = mask]
       /\ ready' = IF Revents(s, mask) # {} THEN ready \cup {c} ELSE ready
  ELSE UNCHANGED epollVars

\* RemoveEvent: a descriptor found in the table leaves it and the epoll.
RemoveEvent(l, f) ==
  LET gone == {c \in Conns : f \in registered_fds_[l] /\ fd_[c] = f /\ loop_[c] = l}
  IN /\ registered_fds_' = [registered_fds_ EXCEPT ![l] = @ \ {f}]
     /\ interest' = [c \in Conns |-> IF c \in gone THEN {} ELSE interest[c]]
     /\ ready' = ready \ gone

-------------------------------------------------------------------------------
(* Connection. *)

IsConnected(c) == state_[c] \notin {"kClosed", "kClosing", "kConnecting"}

\* UpdateActivityTimestamp, SetupTimeout("idle"): the descriptor's timer in the
\* loop's wheel; an older one is replaced.
ArmIdleTimer(c, l, f) ==
  timers_' = IF IdleTimers THEN [timers_ EXCEPT ![l][f] = c] ELSE timers_

\* Transition(new), every one of which CanTransition allows here.  Its
\* CheckAndSetTimeouts arms the idle timer of a connection that is now
\* connected and removes the timer of any other.
Transition(c, new, l, f) ==
  /\ state_' = [state_ EXCEPT ![c] = new]
  /\ IF new = "kConnected" THEN ArmIdleTimer(c, l, f)
                           ELSE timers_' = [timers_ EXCEPT ![l][f] = None]

\* Server::RemoveConnection and KeepAliveManager::OnConnectionClose erase by
\* number, whatever they find.
RemoveConnection(f) == connections_' = [connections_ EXCEPT ![f] = None]
OnConnectionClose(f) == keep_alive' = [keep_alive EXCEPT ![f] = "none"]

\* Mutant: closing forgets to unregister the descriptor.
HandleCloseRegistered(c) ==
  /\ Transition(c, "kClosed", loop_[c], fd_[c])
  /\ OnConnectionClose(fd_[c])
  /\ RemoveConnection(fd_[c])
  /\ UNCHANGED epollVars

\* Mutant: closing leaves the connection in the server's table.
HandleCloseKept(c) ==
  /\ Transition(c, "kClosed", loop_[c], fd_[c])
  /\ RemoveEvent(loop_[c], fd_[c])
  /\ OnConnectionClose(fd_[c])
  /\ UNCHANGED connections_

\* HandleClose, also for an error.  The close callback is RemoveConnection.
HandleClose(c) ==
  /\ Transition(c, "kClosed", loop_[c], fd_[c])
  /\ RemoveEvent(loop_[c], fd_[c])
  /\ OnConnectionClose(fd_[c])
  /\ RemoveConnection(fd_[c])

\* HandleWrite with o bytes in the chain.  A short write (the send buffer is
\* nearly full, or the chain has more than 16 pieces) leaves some behind.
HandleWrite(c, o) ==
  LET s == sock[c]
      Watch(mask, t) == UpdateEvent(loop_[c], fd_[c], c, mask, t)
  IN
  \/ \* nothing to write
     /\ o = 0 \/ state_[c] = "kClosed"
     /\ output_buffer_' = [output_buffer_ EXCEPT ![c] = o]
     /\ UNCHANGED <<state_, sock, timers_, killed, epollVars, serverVars>>
  \/ \* EPIPE, and SIGPIPE, which nobody ignores or handles
     /\ o > 0 /\ state_[c] # "kClosed" /\ s.peer = "broken"
     /\ killed' = TRUE
     /\ output_buffer_' = [output_buffer_ EXCEPT ![c] = o]
     /\ UNCHANGED <<state_, sock, timers_, epollVars, serverVars>>
  \/ \* ECONNRESET: HandleError
     /\ o > 0 /\ state_[c] # "kClosed" /\ s.peer = "reset"
     /\ HandleClose(c)
     /\ output_buffer_' = [output_buffer_ EXCEPT ![c] = o]
     /\ UNCHANGED <<sock, killed>>
  \/ \* EAGAIN
     /\ o > 0 /\ state_[c] # "kClosed" /\ ~HasReset(s) /\ s.sndq = SndBuf
     /\ output_buffer_' = [output_buffer_ EXCEPT ![c] = o]
     /\ Watch({"in", "out"}, s)
     /\ UNCHANGED <<state_, sock, timers_, killed, serverVars>>
  \/ \* some bytes go out
     /\ o > 0 /\ state_[c] # "kClosed" /\ ~HasReset(s)
     /\ \E n \in 1 .. SndBuf - s.sndq :
          /\ n <= o
          /\ LET t == [s EXCEPT !.sndq = @ + n,
                                !.wr_shut = @ \/ (n = o /\ state_[c] = "kClosing")]
             IN /\ sock' = [sock EXCEPT ![c] = t]
                /\ Watch(IF n = o THEN {"in"} ELSE {"in", "out"}, t)
          /\ output_buffer_' = [output_buffer_ EXCEPT ![c] = o - n]
     /\ ArmIdleTimer(c, loop_[c], fd_[c])
     /\ UNCHANGED <<state_, killed, serverVars>>

\* Mutant: no limit on the output buffer.
SendUnlimited(c, n) ==
  \/ /\ ~IsConnected(c) \/ n = 0
     /\ UNCHANGED <<state_, output_buffer_, sock, timers_, killed, epollVars, serverVars>>
  \/ /\ IsConnected(c) /\ n > 0
     /\ HandleWrite(c, output_buffer_[c] + n)

\* Mutant: a closed connection is not told from an open one.
SendUnguarded(c, n) ==
  \/ /\ n = 0
     /\ UNCHANGED <<state_, output_buffer_, sock, timers_, killed, epollVars, serverVars>>
  \/ /\ n > 0 /\ output_buffer_[c] + n > MaxOutput
     /\ HandleClose(c)
     /\ UNCHANGED <<output_buffer_, sock, killed>>
  \/ /\ n > 0 /\ output_buffer_[c] + n <= MaxOutput
     /\ HandleWrite(c, output_buffer_[c] + n)

\* Send in the loop's thread: nothing once the connection is closing; over
\* the limit the connection is closed; else append and try to write.
Send(c, n) ==
  \/ /\ ~IsConnected(c) \/ n = 0
     /\ UNCHANGED <<state_, output_buffer_, sock, timers_, killed, epollVars, serverVars>>
  \/ /\ IsConnected(c) /\ n > 0 /\ output_buffer_[c] + n > MaxOutput
     /\ HandleClose(c)
     /\ UNCHANGED <<output_buffer_, sock, killed>>
  \/ /\ IsConnected(c) /\ n > 0 /\ output_buffer_[c] + n <= MaxOutput
     /\ HandleWrite(c, output_buffer_[c] + n)

\* Mutant: the write side is shut down at once, drained or not.
ShutdownAtOnce(c) ==
  /\ IF IsConnected(c)
     THEN LET t == [sock[c] EXCEPT !.wr_shut = TRUE]
          IN /\ Transition(c, "kClosing", loop_[c], fd_[c])
             /\ sock' = [sock EXCEPT ![c] = t]
             /\ ready' = IF Edge(sock[c], t, interest[c]) THEN ready \cup {c} ELSE ready
     ELSE UNCHANGED <<state_, timers_, sock, ready>>
  /\ UNCHANGED <<registered_fds_, interest>>

\* Shutdown: half-close once the output is drained.  Otherwise HandleWrite
\* does it when the last byte has gone.
Shutdown(c) ==
  /\ IF IsConnected(c)
     THEN LET t == [sock[c] EXCEPT !.wr_shut = output_buffer_[c] = 0]
          IN /\ Transition(c, "kClosing", loop_[c], fd_[c])
             /\ sock' = [sock EXCEPT ![c] = t]
             /\ ready' = IF Edge(sock[c], t, interest[c]) THEN ready \cup {c} ELSE ready
     ELSE UNCHANGED <<state_, timers_, sock, ready>>
  /\ UNCHANGED <<registered_fds_, interest>>

\* Mutant: a callback that is already there is kept (emplace for operator[]).
ConnectEstablishedEmplace(l, c, f) ==
  /\ Transition(c, "kConnected", l, f)
  /\ read_callbacks_' = [read_callbacks_ EXCEPT ![l][f] = IF @ = None THEN c ELSE @]
  /\ UpdateEvent(l, f, c, {"in"}, sock[c])

\* ConnectEstablished, in the loop's thread.
ConnectEstablished(l, c, f) ==
  /\ Transition(c, "kConnected", l, f)
  /\ read_callbacks_' = [read_callbacks_ EXCEPT ![l][f] = c]
  /\ UpdateEvent(l, f, c, {"in"}, sock[c])
-------------------------------------------------------------------------------
(* Server. *)

FreeFd == CHOOSE f \in Fds \ OpenFds : \A g \in Fds \ OpenFds : f <= g

\* The connection object: constructed on descriptor f, owned by loop l.
NewConnection(c, f, l) ==
  /\ ~killed
  /\ state_[c] = "none"
  /\ Fds \ OpenFds # {}
  /\ fd_' = [fd_ EXCEPT ![c] = f]
  /\ loop_' = [loop_ EXCEPT ![c] = l]
  /\ connections_' = [connections_ EXCEPT ![f] = c]

\* HandleAccept, by the main thread: the next loop gets the connection.
Accept(c) ==
  /\ ~ReusePort
  /\ NewConnection(c, FreeFd, next_)
  /\ state_' = [state_ EXCEPT ![c] = "kConnecting"]
  /\ pending_functors_' = [pending_functors_ EXCEPT ![next_] = Append(@, c)]
  /\ next_' = (next_ % NumLoops) + 1
  /\ UNCHANGED <<input_buffer_, output_buffer_, sock, timers_, killed, epollVars,
                 keep_alive, threadVars, budget, read_callbacks_>>

\* HandleAcceptInSubReactor: the loop accepts while it handles its events.
AcceptInSubReactor(l, c) ==
  /\ ReusePort
  /\ pc[l] = "batch"
  /\ NewConnection(c, FreeFd, l)
  /\ ConnectEstablished(l, c, FreeFd)
  /\ UNCHANGED <<input_buffer_, output_buffer_, sock, killed, keep_alive,
                 threadVars, budget, next_, pending_functors_>>
-------------------------------------------------------------------------------
(* The loop's thread: one round of EventLoop::Loop. *)

Goto(l, from, to) == ~killed /\ pc[l] = from /\ pc' = [pc EXCEPT ![l] = to]

\* ProcessTimers finds the idle timer of a connection due.  The wheel holds
\* its mutex while OnTimeout runs; OnTimeout closes the connection, and the
\* first thing Transition(kClosed) does after storing the state is to remove
\* the timer, which locks the same mutex.  The thread never comes back.
TimerFires(l) ==
  /\ Goto(l, "poll", "deadlock")
  /\ \E f \in Fds :
       /\ timers_[l][f] # None
       /\ state_' = [state_ EXCEPT ![timers_[l][f]] = "kClosed"]
       /\ cur' = [cur EXCEPT ![l] = timers_[l][f]]
  /\ UNCHANGED <<output_buffer_, sock, timers_, killed, connVars, epollVars,
                 serverVars, batch, acceptVars>>

\* The events of E in the order of their descriptors.
ByFd(E) == [n \in 1 .. Cardinality(E) |->
              CHOOSE e \in E : Cardinality({d \in E : d.fd <= e.fd}) = n]

\* Mutant: one list per event, without the priority of errors.
GroupEventsOverlapping(C) ==
  LET Pick(kind, ev) == ByFd({[kind |-> kind, fd |-> fd_[c], of |-> c] :
                                c \in {d \in C : ev \in Revents(sock[d], interest[d])}})
  IN Pick("read", "in") \o Pick("write", "out") \o Pick("error", "err")

\* GroupEvents: an event is an error, else a read, else a write, never two of
\* them.  Reads are handled before writes, writes before errors, each in the
\* order of the descriptors.
Class(c) == LET r == Revents(sock[c], interest[c])
            IN  IF "err" \in r THEN "error" ELSE IF "in" \in r THEN "read" ELSE "write"

GroupEvents(C) ==
  LET Pick(kind) == ByFd({[kind |-> kind, fd |-> fd_[c], of |-> c] :
                            c \in {d \in C : Class(d) = kind}})
  IN Pick("read") \o Pick("write") \o Pick("error")

\* epoll_wait, then GroupEvents.  What is reported leaves the ready list.
EpollWait(l) ==
  LET mine == {c \in ready : loop_[c] = l}
  IN /\ Goto(l, "poll", "batch")
     /\ batch' = [batch EXCEPT ![l] =
                    GroupEvents({c \in mine : Revents(sock[c], interest[c]) # {}})]
     /\ ready' = ready \ mine
     /\ UNCHANGED <<state_, output_buffer_, sock, timers_, killed, connVars,
                    registered_fds_, interest, serverVars, cur, acceptVars>>

\* The next event of the batch, and the connection its callback refers to, if
\* there is a callback for the descriptor.  It would do nothing for a connection
\* that is gone; EventsRouted says that there is no such event.
Event(l, kind) ==
  ~killed /\ pc[l] = "batch" /\ batch[l] # <<>> /\ Head(batch[l]).kind = kind
Target(l) == read_callbacks_[l][Head(batch[l]).fd]
Reachable(l) == /\ Head(batch[l]).fd \in DOMAIN read_callbacks_[l]
                /\ Target(l) # None /\ Alive(Target(l))

\* Mutant: what one callback throws ends the batch (BatchRead without its try).
NextEventLast(l) == batch' = [batch EXCEPT ![l] = <<>>]

NextEvent(l) == batch' = [batch EXCEPT ![l] = Tail(@)]

\* HandleRead reads until EAGAIN, end of file or an error; the last two close
\* the connection, and what was read before is still handed on.
HandleRead(l, c) ==
  LET s == sock[c]
      buffer == input_buffer_[c] \o s.rcvq
  IN /\ Event(l, "read") /\ Reachable(l) /\ Target(l) = c
     /\ NextEvent(l)
     /\ cur' = [cur EXCEPT ![l] = c]
     /\ input_buffer_' = [input_buffer_ EXCEPT ![c] = buffer]
     /\ sock' = [sock EXCEPT ![c].rcvq = <<>>]
     /\ IF s.peer # "open" THEN HandleClose(c)
        ELSE /\ IF s.rcvq # <<>> THEN ArmIdleTimer(c, l, fd_[c]) ELSE UNCHANGED timers_
             /\ UNCHANGED <<state_, epollVars, serverVars>>
     /\ pc' = [pc EXCEPT ![l] = IF Len(buffer) > MaxInput THEN "limit" ELSE "dispatch"]
     /\ UNCHANGED <<output_buffer_, killed, fd_, loop_, acceptVars>>

\* PauseReading, when the input buffer is over its limit.
PauseReading(l, c) ==
  /\ cur[l] = c
  /\ Goto(l, "limit", "dispatch")
  /\ UpdateEvent(loop_[c], fd_[c], c, {"out"}, sock[c])
  /\ UNCHANGED <<state_, output_buffer_, sock, timers_, killed, connVars, serverVars,
                 batch, cur, acceptVars>>

\* The write callback.
HandleWriteEvent(l, c) ==
  /\ Event(l, "write") /\ Reachable(l) /\ Target(l) = c
  /\ NextEvent(l)
  /\ cur' = [cur EXCEPT ![l] = c]
  /\ pc' = [pc EXCEPT ![l] = "return"]
  /\ HandleWrite(c, output_buffer_[c])
  /\ UNCHANGED <<connVars, acceptVars>>

\* The error callback of ProcessEvents: RemoveEvent and nothing else.
HandleErrorEvent(l) ==
  /\ Event(l, "error")
  /\ NextEvent(l)
  /\ RemoveEvent(l, Head(batch[l]).fd)
  /\ UNCHANGED <<state_, output_buffer_, sock, timers_, killed, connVars, serverVars,
                 pc, cur, acceptVars>>

\* The batch is done: DoPendingFunctors.
RunFunctor(l) ==
  /\ ~killed
  /\ pc[l] = "batch" /\ batch[l] = <<>> /\ pending_functors_[l] # <<>>
  /\ pending_functors_' = [pending_functors_ EXCEPT ![l] = Tail(@)]
  /\ LET c == Head(pending_functors_[l]) IN ConnectEstablished(l, c, fd_[c])
  /\ UNCHANGED <<output_buffer_, sock, killed, connVars, serverVars, threadVars,
                 budget, next_>>

NextRound(l) ==
  /\ batch[l] = <<>> /\ pending_functors_[l] = <<>>
  /\ Goto(l, "batch", "poll")
  /\ UNCHANGED <<state_, output_buffer_, sock, timers_, killed, connVars, epollVars,
                 serverVars, batch, cur, acceptVars>>
-------------------------------------------------------------------------------
(* The message callback of main.cpp, run by the loop's thread for cur[l]. *)

\* The header of the first request ends with the first thing in the buffer
\* that is not a mere piece.
Ends(b) == {n \in 1 .. Len(b) : b[n] # "part"}
HeaderEnd(b) == CHOOSE n \in Ends(b) : \A m \in Ends(b) : n <= m
Request(c) == input_buffer_[c][HeaderEnd(input_buffer_[c])]

\* No complete header: wait for the next read.
NoHeader(l, c) ==
  /\ cur[l] = c
  /\ Goto(l, "dispatch", "return")
  /\ Ends(input_buffer_[c]) = {}
  /\ UNCHANGED <<state_, output_buffer_, sock, timers_, killed, connVars, epollVars,
                 serverVars, batch, cur, acceptVars>>

\* The parser refuses the request: the buffer is cleared, the connection shut.
BadRequest(l, c) ==
  /\ cur[l] = c
  /\ Goto(l, "dispatch", "return")
  /\ Ends(input_buffer_[c]) # {} /\ Request(c) = "bad"
  /\ input_buffer_' = [input_buffer_ EXCEPT ![c] = <<>>]
  /\ Shutdown(c)
  /\ UNCHANGED <<output_buffer_, killed, fd_, loop_, serverVars, batch, cur, acceptVars>>

\* OnRequestStart books the request, on the connection's descriptor.
OnRequestStart(f, keep) ==
  keep_alive' = [keep_alive EXCEPT ![f] = IF keep THEN "keep" ELSE "close"]

RequestStart(l, c) ==
  /\ cur[l] = c
  /\ Goto(l, "dispatch", "header")
  /\ Ends(input_buffer_[c]) # {} /\ Request(c) # "bad"
  /\ OnRequestStart(fd_[c], Request(c) # "last")
  /\ UNCHANGED <<state_, output_buffer_, sock, timers_, killed, connVars, epollVars,
                 connections_, batch, cur, acceptVars>>

SendHeader(l, c) ==
  /\ cur[l] = c
  /\ Goto(l, "header", "body")
  /\ Send(c, 1)
  /\ UNCHANGED <<connVars, batch, cur, acceptVars>>

SendBody(l, c) ==
  /\ cur[l] = c
  /\ Goto(l, "body", "complete")
  /\ Send(c, BodySize)
  /\ UNCHANGED <<connVars, batch, cur, acceptVars>>

\* The request is erased from the buffer; an error status shuts the
\* connection, any other goes on with the rest of the buffer.
RequestComplete(l, c) ==
  LET b == input_buffer_[c]
  IN /\ cur[l] = c /\ pc[l] = "complete"
     /\ input_buffer_' = [input_buffer_ EXCEPT ![c] = SubSeq(b, HeaderEnd(b) + 1, Len(b))]
     /\ \/ Request(c) = "err" /\ Shutdown(c) /\ Goto(l, "complete", "return")
        \/ /\ Request(c) # "err" /\ Goto(l, "complete", "dispatch")
           /\ UNCHANGED <<state_, timers_, sock, epollVars>>
     /\ UNCHANGED <<output_buffer_, killed, fd_, loop_, serverVars, batch, cur, acceptVars>>

\* The callback returns and drops its reference.  If the server's and the
\* timer's are gone too, ~Connection closes the descriptor, which also takes
\* the socket out of epoll.
Return(l, c) ==
  LET last == connections_[fd_[c]] # c /\ timers_[loop_[c]][fd_[c]] # c
      Reset(v, x) == IF last THEN [v EXCEPT ![c] = x] ELSE v
  IN /\ cur[l] = c
     /\ Goto(l, "return", "batch")
     /\ cur' = [cur EXCEPT ![l] = None]
     /\ state_' = Reset(state_, "destroyed")
     /\ fd_' = Reset(fd_, None)
     /\ input_buffer_' = Reset(input_buffer_, <<>>)
     /\ output_buffer_' = Reset(output_buffer_, 0)
     /\ sock' = Reset(sock, FreshSocket)
     /\ interest' = Reset(interest, {})
     /\ ready' = IF last THEN ready \ {c} ELSE ready
     /\ UNCHANGED <<timers_, killed, loop_, registered_fds_, serverVars, batch, acceptVars>>
-------------------------------------------------------------------------------
(* The peer. *)

\* The peer or the network changes the socket of c to t.
SocketBecomes(c, t) ==
  /\ ~killed
  /\ Alive(c)
  /\ sock' = [sock EXCEPT ![c] = t]
  /\ ready' = IF Edge(sock[c], t, interest[c]) THEN ready \cup {c} ELSE ready
  /\ UNCHANGED <<state_, output_buffer_, timers_, killed, connVars, registered_fds_,
                 interest, serverVars, threadVars, next_, read_callbacks_, pending_functors_>>

PeerSend(c, kind) ==
  /\ sock[c].peer = "open" /\ budget[c] > 0
  /\ SocketBecomes(c, [sock[c] EXCEPT !.rcvq = Append(@, kind)])
  /\ budget' = [budget EXCEPT ![c] = @ - 1]

PeerFin(c) ==
  /\ sock[c].peer = "open"
  /\ SocketBecomes(c, [sock[c] EXCEPT !.peer = "fin"])
  /\ UNCHANGED budget

PeerReset(c) ==
  /\ Resets
  /\ ~HasReset(sock[c])
  /\ SocketBecomes(c, [sock[c] EXCEPT !.sndq = 0,
                         !.peer = IF @ = "fin" THEN "broken" ELSE "reset"])
  /\ UNCHANGED budget

PeerRead(c) ==
  /\ sock[c].sndq > 0
  /\ SocketBecomes(c, [sock[c] EXCEPT !.sndq = 0])
  /\ UNCHANGED budget
-------------------------------------------------------------------------------
LoopThread(l) ==
  \/ EpollWait(l)
  \/ HandleErrorEvent(l)
  \/ RunFunctor(l)
  \/ NextRound(l)
  \/ \E c \in Conns :
       \/ HandleRead(l, c)
       \/ PauseReading(l, c)
       \/ HandleWriteEvent(l, c)
       \/ NoHeader(l, c)
       \/ BadRequest(l, c)
       \/ RequestStart(l, c)
       \/ SendHeader(l, c)
       \/ SendBody(l, c)
       \/ RequestComplete(l, c)
       \/ Return(l, c)

Peer(c) ==
  \/ \E kind \in Kinds : PeerSend(c, kind)
  \/ PeerFin(c)
  \/ PeerReset(c)
  \/ PeerRead(c)

\* A process that was killed takes no step.
Killed == killed /\ UNCHANGED vars

Next ==
  \/ \E l \in Loops : LoopThread(l)
  \/ \E l \in Loops : TimerFires(l)
  \/ \E c \in Conns : Accept(c)
  \/ \E l \in Loops, c \in Conns : AcceptInSubReactor(l, c)
  \/ \E c \in Conns : Peer(c)
  \/ Killed

Spec == Init /\ [][Next]_vars

\* A loop's thread goes on as long as it can, and a peer that reads goes on
\* reading.  No peer has to send, no connection has to be accepted.
Fairness == /\ \A l \in Loops : WF_vars(LoopThread(l))
            /\ \A c \in Conns : WF_vars(PeerRead(c))

FairSpec == Spec /\ Fairness
-------------------------------------------------------------------------------
(* Properties that hold. *)

Handled(c) == \E l \in Loops : cur[l] = c

\* A descriptor's entry in the server's table, its timer and its callback are
\* the connection that owns it, never one that had the descriptor before
\* (connections_ and read_callbacks_ are keyed by numbers that are reused).
DescriptorOwner ==
  /\ \A f \in Fds : connections_[f] # None => fd_[connections_[f]] = f
  /\ \A l \in Loops, f \in Fds :
       timers_[l][f] # None => fd_[timers_[l][f]] = f /\ loop_[timers_[l][f]] = l
  /\ \A c \in Conns : interest[c] # {} => read_callbacks_[loop_[c]][fd_[c]] = c

\* A closed connection exists only until the callback that closed it returns:
\* nothing keeps it, nothing can reach it (HandleClose, RemoveConnection).
ClosedIsReleased ==
  \A c \in Conns : state_[c] = "kClosed" => Handled(c)

\* An event raised for a connection finds that connection, alive, and not
\* another that got its descriptor in the meantime (ProcessBatch and the maps
\* of callbacks work on descriptors only).
EventsRouted ==
  \A l \in Loops : \A n \in 1 .. Len(batch[l]) :
    LET e == batch[l][n]
    IN /\ fd_[e.of] = e.fd /\ loop_[e.of] = l
       /\ read_callbacks_[l][e.fd] = e.of

\* As long as no input exceeds its limit, the loop's table of registered
\* descriptors says exactly what epoll knows (UpdateEvent, RemoveEvent, close).
RegistrationAgrees ==
  \A l \in Loops :
    registered_fds_[l] = {fd_[c] : c \in {d \in Conns : loop_[d] = l /\ interest[d] # {}}}

\* Output that could not be sent waits for the socket to become writable
\* (HandleWrite, UpdateEvent).
OutputWatched ==
  \A c \in Conns :
    output_buffer_[c] > 0 /\ interest[c] # {} /\ ~Handled(c) => "out" \in interest[c]

\* A connection that is being shut down is half-closed when its output is
\* drained, and not before (Shutdown, ShutdownInLoop, HandleWrite).
HalfClosedWhenDrained ==
  \A c \in Conns :
    /\ sock[c].wr_shut => output_buffer_[c] = 0
    /\ state_[c] = "kClosing" /\ output_buffer_[c] = 0 => sock[c].wr_shut

\* HandleClose takes a connection out of epoll, unless the timer wheel stops its
\* thread half-way, and it is for good: what the same callback still does with
\* the connection does not open it, send or queue a byte, or have it watched
\* (Send, Shutdown, HandleWrite after HandleClose).  The one exception is an
\* input over its limit: PauseReading follows the close in the same HandleRead
\* and registers the descriptor again, for writing.
ClosedForGood ==
  [][\A c \in Conns :
       /\ state_[c] # "kClosed" /\ state_'[c] = "kClosed" =>
            interest'[c] = {} \/ pc'[loop_[c]] = "deadlock"
       /\ state_[c] = "kClosed" =>
            /\ state_'[c] \in {"kClosed", "destroyed"}
            /\ sock'[c].sndq <= sock[c].sndq
            /\ output_buffer_'[c] <= output_buffer_[c]
            /\ \/ interest'[c] \subseteq interest[c]
               \/ Len(input_buffer_[c]) > MaxInput /\ interest'[c] = {"out"}]_vars

\* What a peer sends is read, even if it came before the loop knew the socket
\* (ConnectEstablished, edge-triggered epoll).
RequestsRead ==
  \A c \in Conns :
    state_[c] # "none" /\ sock[c].rcvq # <<>> ~> sock[c].rcvq = <<>>

\* A connection whose peer has closed is destroyed (HandleRead, HandleClose,
\* ~Connection).
FinReaped ==
  \A c \in Conns :
    sock[c].peer = "fin" /\ state_[c] = "kConnected" ~> state_[c] = "destroyed"

\* No output stays behind for ever when the peer goes on reading and sends
\* complete requests only: it is sent, or dropped with a connection that is
\* closed and destroyed (HandleWrite, GroupEvents, ~Connection).
OutputDrained ==
  \A c \in Conns : output_buffer_[c] > 0 ~> output_buffer_[c] = 0
-------------------------------------------------------------------------------
(* Statements of the documentation that the code does not keep. *)

\* event_loop.h:93, "the registered descriptors": what the table lists, epoll
\* watches.  PauseReading after HandleClose registers a descriptor that is
\* about to be closed, and its next owner is never watched.
RegisteredIsWatched ==
  \A l \in Loops : \A f \in registered_fds_[l] :
    \E c \in Conns : fd_[c] = f /\ loop_[c] = l /\ interest[c] # {}

\* doc/v3 troubleshooting notes, line 42, name as an error fixed that after
\* EAGAIN the rest of the data is never sent: what could not be written is
\* written when the peer makes room.  An event that
\* is both readable and writable is handled as a read only, and a read that
\* completes no request writes nothing.
OutputReachesPeer == OutputDrained

\* doc/v7.md:63-65: the input buffer has a limit, so that one connection's
\* memory does not grow without bound.  HandleRead reads everything first.
InputBounded == \A c \in Conns : Len(input_buffer_[c]) <= MaxInput

\* diff.md:598: the keep-alive manager tracks connections and leaks nothing, so
\* that its entries go with their connections.  A request handled after the close books its descriptor anew.
KeepAliveReleased ==
  \A f \in Fds : keep_alive[f] # "none" => f \in OpenFds

\* doc/v7.md:103, "keep-alive ? reuse : close", and keep_alive_manager.cpp:62,
\* "the caller closes": a connection that is not to be kept alive is closed
\* after its response.  Nobody does.
CloseHonoured ==
  \A f \in Fds :
    keep_alive[f] = "close" /\ connections_[f] # None /\ ~Handled(connections_[f])
      => state_[connections_[f]] # "kConnected"

\* README.md:170-171: a half-close by the peer must not lose the response.
HalfCloseAnswered ==
  \A l \in Loops, c \in Conns :
    cur[l] = c /\ pc[l] = "header" /\ sock[c].peer = "fin" => IsConnected(c)

\* doc/v7.md:146: a connection whose timer runs out is cleaned up; its thread
\* is not lost.
NoSelfDeadlock == \A l \in Loops : pc[l] # "deadlock"

\* doc/ troubleshooting guide, lines 121-122: a peer that is gone must not kill
\* the process through SIGPIPE.
NeverKilled == ~killed

\* README.md:106 and 135: ERR and HUP drive the state machine to its one way
\* of closing.  The error callback unregisters and leaves the connection.
ErrorReaped ==
  \A c \in Conns : HasReset(sock[c]) /\ state_[c] = "kConnected" ~> state_[c] = "destroyed"
===============================================================================
