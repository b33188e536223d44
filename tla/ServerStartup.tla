---------------------------- MODULE ServerStartup ----------------------------
(***************************************************************************)
(* How the server comes up: the constructor of Server and its two modes    *)
(* (src/server.cpp), the listening sockets of MultiListenSocket            *)
(* (reactor/multi_listen_socket.cpp), the pool of loops                    *)
(* (reactor/event_loop_thread_pool.cpp), PluginManager, and the order in   *)
(* which main calls them - against connections that arrive meanwhile.      *)
(*                                                                         *)
(* Loop 0 is the main loop; the loops of the pool are 1, 2, ...  A socket  *)
(* listens from its creation on, and the kernel puts a connection into the *)
(* queue of any of them.  The registration with epoll is edge-triggered:   *)
(* "edge" holds the loops to which epoll owes a report.  What becomes of   *)
(* an established connection, and which loop it goes to, is in             *)
(* ConnectionReactor; here it just closes.                                 *)
(***************************************************************************)
EXTENDS Integers, SequencesExt

CONSTANTS Options,    \* the server options a start may have
          Clients,    \* connections, each made at most once
          MaxThreads, \* bounds the threads an option asks for
          MaxSockets, \* bounds the listening descriptors
          NoOne       \* "no descriptor", "no connection"

VARIABLES
  opts,
  main,         \* what the main thread does next
  fds,          \* open listening descriptors
  socket_fds_,  \* MultiListenSocket's, or the one of the traditional mode
  loops_,       \* threads of the pool
  functors,     \* the listening descriptor a queued registration is about
  registered,   \* the listening descriptor in each loop's epoll
  edge,
  backlog,      \* per descriptor: connections not accepted yet
  accepting,    \* the loops inside HandleAccept
  cur,          \* the connection such a loop has accepted and not handed over
  on_message_,  \* "unset", "setting" or "set"
  plugins_,     \* "none", "registered" or "loaded"
  connections_,
  callback,     \* per connection: the message callback it was given
  told,         \* per connection: what the plugin was told
  stalled       \* history: descriptors whose last HandleAccept met an error

mainVars == <<opts, main, fds, socket_fds_, loops_>>
loopVars == <<functors, registered>>
pluginVars == <<on_message_, plugins_>>
connVars == <<connections_, callback, told>>
acceptVars == <<edge, backlog, accepting, cur, stalled>>
startupVars == <<mainVars, loopVars, pluginVars, connVars, acceptVars>>

\* The pool is started twice in SO_REUSEPORT mode.
Loops == 0 .. 2 * MaxThreads
Sockets == 1 .. MaxSockets

ASSUME StartupAssumption ==
  /\ MaxThreads \in Nat
  /\ MaxSockets \in Nat \ {0}
  /\ NoOne \notin Sockets \cup Clients
  /\ \A o \in Options :
       /\ o.use_so_reuseport \in BOOLEAN /\ o.ip_valid \in BOOLEAN
       /\ o.threads \in Int /\ o.threads <= MaxThreads
       /\ o.so_reuseport_sockets \in Int /\ o.so_reuseport_sockets <= MaxSockets
       /\ o.use_so_reuseport /\ o.so_reuseport_sockets = 0 => o.threads <= MaxSockets

MainPCs == {"construct", "pool", "assign", "plugin", "load", "message", "messageset",
            "start", "run", "loop", "threw"}

StartupTypeOK ==
  /\ opts \in Options
  /\ main \in MainPCs
  /\ fds \subseteq Sockets
  /\ socket_fds_ \in Seq(Sockets)
  /\ loops_ \in Loops
  /\ functors \in [Loops -> Sockets \cup {NoOne}]
  /\ registered \in [Loops -> Sockets \cup {NoOne}]
  /\ edge \subseteq Loops
  /\ backlog \in [Sockets -> Seq(Clients)]
  /\ accepting \subseteq Loops
  /\ cur \in [Loops -> Clients \cup {NoOne}]
  /\ on_message_ \in {"unset", "setting", "set"}
  /\ plugins_ \in {"none", "registered", "loaded"}
  /\ connections_ \subseteq Clients
  /\ callback \in [Clients -> {"none", "unset", "set", "torn"}]
  /\ told \in [Clients -> Seq({"open", "close"})]
  /\ stalled \subseteq Sockets

StartupInit ==
  /\ opts \in Options
  /\ main = "construct"
  /\ fds = {}
  /\ socket_fds_ = <<>>
  /\ loops_ = 0
  /\ functors = [l \in Loops |-> NoOne]
  /\ registered = [l \in Loops |-> NoOne]
  /\ edge = {}
  /\ backlog = [s \in Sockets |-> <<>>]
  /\ accepting = {}
  /\ cur = [l \in Loops |-> NoOne]
  /\ on_message_ = "unset"
  /\ plugins_ = "none"
  /\ connections_ = {}
  /\ callback = [c \in Clients |-> "none"]
  /\ told = [c \in Clients |-> <<>>]
  /\ stalled = {}
-------------------------------------------------------------------------------
(* The constructor, in the main thread *)

Goto(from, to) == main = from /\ main' = to

\* SetupTraditionalMode: CreateListenSocket closes what it opened when it
\* fails, and the constructor throws.
SetupTraditionalMode ==
  /\ ~opts.use_so_reuseport
  /\ \/ /\ Goto("construct", "plugin")
        /\ fds' = {1}
        /\ socket_fds_' = <<1>>
     \/ /\ Goto("construct", "threw")
        /\ UNCHANGED <<fds, socket_fds_>>
  /\ UNCHANGED <<opts, loops_, loopVars, pluginVars, connVars, acceptVars>>

\* The sockets asked for; a count of zero is the number of threads.
NumSockets == IF opts.so_reuseport_sockets = 0 THEN opts.threads
              ELSE opts.so_reuseport_sockets

\* CreateAndBindSockets, a socket at a time.
CreateListenSocket ==
  /\ opts.use_so_reuseport
  /\ opts.ip_valid
  /\ Len(socket_fds_) < NumSockets
  /\ LET fd == Len(socket_fds_) + 1
     IN  /\ fds' = fds \cup {fd}
         /\ socket_fds_' = Append(socket_fds_, fd)
  /\ IF Len(socket_fds_) + 1 = NumSockets THEN Goto("construct", "pool")
     ELSE main = "construct" /\ UNCHANGED main
  /\ UNCHANGED <<opts, loops_, loopVars, pluginVars, connVars, acceptVars>>

\* CloseAll: the kernel resets what waits in the queues of the sockets.
CloseAll == /\ fds' = fds \ Range(socket_fds_)
            /\ socket_fds_' = <<>>
            /\ backlog' = [s \in Sockets |-> <<>>]

\* No socket to create, SO_REUSEPORT not supported, or one of the calls on a
\* new socket fails: the object closes all and is invalid, and the
\* constructor throws.
CreateFails ==
  /\ opts.use_so_reuseport
  /\ Goto("construct", "threw")
  /\ CloseAll
  /\ UNCHANGED <<opts, loops_, loopVars, pluginVars, connVars, edge, accepting, cur, stalled>>

\* CreateSocketAddress throws on an invalid address, with the new socket open
\* and in nobody's hands.
AddressThrows ==
  /\ opts.use_so_reuseport
  /\ ~opts.ip_valid
  /\ NumSockets > 0
  /\ Goto("construct", "threw")
  /\ fds' = fds \cup {1}
  /\ UNCHANGED <<opts, socket_fds_, loops_, loopVars, pluginVars, connVars, acceptVars>>

\* EventLoopThreadPool::Start: that many more threads, none if not positive.
PoolStart == loops_' = loops_ + (IF opts.threads > 0 THEN opts.threads ELSE 0)

\* SetupSOReusePortMode starts the pool; AssignListenSockets would start it
\* once more if it had no threads, which changes nothing.
StartPoolInConstructor ==
  /\ Goto("pool", "assign")
  /\ PoolStart
  /\ UNCHANGED <<opts, fds, socket_fds_, loopVars, pluginVars, connVars, acceptVars>>

\* The socket of thread l, counted from one.
SocketOf(l) == socket_fds_[((l - 1) % Len(socket_fds_)) + 1]

\* The loop over the threads: each is sent the registration of its socket.
AssignSocket(l) ==
  /\ main = "assign"
  /\ l \in 1 .. loops_
  /\ \A k \in 1 .. l - 1 : functors[k] # NoOne \/ registered[k] # NoOne
  /\ functors[l] = NoOne /\ registered[l] = NoOne
  /\ functors' = [functors EXCEPT ![l] = SocketOf(l)]
  /\ UNCHANGED <<mainVars, registered, pluginVars, connVars, acceptVars>>

AssignDone ==
  /\ \A l \in 1 .. loops_ : functors[l] # NoOne \/ registered[l] # NoOne
  /\ Goto("assign", "plugin")
  /\ UNCHANGED <<opts, fds, socket_fds_, loops_, loopVars, pluginVars, connVars, acceptVars>>
-------------------------------------------------------------------------------
(* The rest of main *)

RegisterPlugin ==
  /\ Goto("plugin", "load")
  /\ plugins_' = "registered"
  /\ UNCHANGED <<opts, fds, socket_fds_, loops_, loopVars, on_message_, connVars, acceptVars>>

LoadPlugins ==
  /\ Goto("load", "message")
  /\ plugins_' = "loaded"
  /\ UNCHANGED <<opts, fds, socket_fds_, loops_, loopVars, on_message_, connVars, acceptVars>>

\* The assignment of on_message_ is not atomic, nor under a lock.
SetOnMessage ==
  /\ \/ Goto("message", "messageset") /\ on_message_' = "setting"
     \/ Goto("messageset", "start") /\ on_message_' = "set"
  /\ UNCHANGED <<opts, fds, socket_fds_, loops_, loopVars, plugins_, connVars, acceptVars>>

\* Start starts the pool: for a second time in SO_REUSEPORT mode.
Start ==
  /\ Goto("start", "run")
  /\ PoolStart
  /\ UNCHANGED <<opts, fds, socket_fds_, loopVars, pluginVars, connVars, acceptVars>>

\* EPOLL_CTL_ADD reports what waits already.
UpdateEvent(l, s) ==
  /\ registered' = [registered EXCEPT ![l] = s]
  /\ edge' = IF backlog[s] # <<>> THEN edge \cup {l} ELSE edge

Run ==
  /\ Goto("run", "loop")
  /\ IF opts.use_so_reuseport THEN UNCHANGED <<registered, edge>>
     ELSE UpdateEvent(0, socket_fds_[1])
  /\ UNCHANGED <<opts, fds, socket_fds_, loops_, functors, pluginVars, connVars,
                 backlog, accepting, cur, stalled>>
-------------------------------------------------------------------------------
(* The loops *)

\* A loop of the pool runs the functor SetupSOReusePortMode sent it.
RunRegistration(l) ==
  /\ functors[l] # NoOne
  /\ l \notin accepting
  /\ functors' = [functors EXCEPT ![l] = NoOne]
  /\ UpdateEvent(l, functors[l])
  /\ UNCHANGED <<mainVars, pluginVars, connVars, backlog, accepting, cur, stalled>>

\* epoll reports the listening socket: HandleAccept or
\* HandleAcceptInSubReactor begins.  The main loop runs in Run.
AcceptBegin(l) ==
  /\ l \in edge \ accepting
  /\ l = 0 => main = "loop"
  /\ edge' = edge \ {l}
  /\ accepting' = accepting \cup {l}
  /\ stalled' = stalled \ {registered[l]}
  /\ UNCHANGED <<mainVars, loopVars, pluginVars, connVars, backlog, cur>>

\* accept4 gives a connection, which gets what on_message_ holds, or anything
\* if it is being assigned, and enters connections_.
Accept(l) ==
  LET s == registered[l]
      c == Head(backlog[s])
  IN  /\ l \in accepting
      /\ cur[l] = NoOne
      /\ backlog[s] # <<>>
      /\ backlog' = [backlog EXCEPT ![s] = Tail(@)]
      /\ cur' = [cur EXCEPT ![l] = c]
      /\ connections_' = connections_ \cup {c}
      /\ \E f \in IF on_message_ = "setting" THEN {"unset", "set", "torn"} ELSE {on_message_} :
           callback' = [callback EXCEPT ![c] = f]
      /\ UNCHANGED <<mainVars, loopVars, pluginVars, told, edge, accepting, stalled>>

Tell(c, event) ==
  told' = IF plugins_ = "none" THEN told ELSE [told EXCEPT ![c] = Append(@, event)]

\* NotifyConnectionOpen, and the connection is handed to its loop.
HandOver(l) ==
  /\ cur[l] # NoOne
  /\ Tell(cur[l], "open")
  /\ cur' = [cur EXCEPT ![l] = NoOne]
  /\ UNCHANGED <<mainVars, loopVars, pluginVars, connections_, callback, edge, backlog,
                 accepting, stalled>>

\* Mutant: one connection for each report.
AcceptEndsAtOnce(l) ==
  /\ l \in accepting
  /\ cur[l] = NoOne
  /\ accepting' = accepting \ {l}
  /\ UNCHANGED <<mainVars, loopVars, pluginVars, connVars, edge, backlog, cur, stalled>>

\* accept4 says EAGAIN: the queue is empty.
AcceptEnds(l) ==
  /\ l \in accepting
  /\ cur[l] = NoOne
  /\ backlog[registered[l]] = <<>>
  /\ accepting' = accepting \ {l}
  /\ UNCHANGED <<mainVars, loopVars, pluginVars, connVars, edge, backlog, cur, stalled>>

\* accept4 fails otherwise (no descriptors left): the loop is left with the
\* queue as it is.
AcceptFails(l) ==
  /\ l \in accepting
  /\ cur[l] = NoOne
  /\ backlog[registered[l]] # <<>>
  /\ accepting' = accepting \ {l}
  /\ stalled' = stalled \cup {registered[l]}
  /\ UNCHANGED <<mainVars, loopVars, pluginVars, connVars, edge, backlog, cur>>

\* Mutant: a connection may close while its accept goes on.
RemoveConnectionEarly(c) ==
  /\ c \in connections_
  /\ connections_' = connections_ \ {c}
  /\ Tell(c, "close")
  /\ UNCHANGED <<mainVars, loopVars, pluginVars, callback, acceptVars>>

\* The connection has been established in its loop and closes.
RemoveConnection(c) ==
  /\ c \in connections_
  /\ \A l \in Loops : cur[l] # c
  /\ connections_' = connections_ \ {c}
  /\ Tell(c, "close")
  /\ UNCHANGED <<mainVars, loopVars, pluginVars, callback, acceptVars>>

\* A client connects: the kernel picks a listening socket and reports it to
\* every epoll that watches it.
Connect(c, s) ==
  /\ s \in fds
  /\ callback[c] = "none" /\ \A t \in Sockets : c \notin Range(backlog[t])
  /\ backlog' = [backlog EXCEPT ![s] = Append(@, c)]
  /\ edge' = edge \cup {l \in Loops : registered[l] = s}
  /\ stalled' = stalled \ {s}
  /\ UNCHANGED <<mainVars, loopVars, pluginVars, connVars, accepting, cur>>

Constructor ==
  \/ SetupTraditionalMode \/ CreateListenSocket \/ CreateFails \/ AddressThrows
  \/ StartPoolInConstructor \/ AssignDone
  \/ \E l \in Loops : AssignSocket(l)

MainNext == Constructor \/ RegisterPlugin \/ LoadPlugins \/ SetOnMessage \/ Start \/ Run

LoopNext(l) ==
  \/ RunRegistration(l) \/ AcceptBegin(l) \/ Accept(l) \/ HandOver(l)
  \/ AcceptEnds(l) \/ AcceptFails(l)

StartupNext ==
  \/ MainNext
  \/ \E l \in Loops : LoopNext(l)
  \/ \E c \in Clients : RemoveConnection(c) \/ \E s \in Sockets : Connect(c, s)

StartupSpec == StartupInit /\ [][StartupNext]_startupVars
-------------------------------------------------------------------------------
Watched(s) == \E l \in Loops : functors[l] = s \/ registered[l] = s

\* No connection waits in vain: once the server runs, every listening socket
\* has a loop (when there are threads enough, however the sockets are spread)
\* and a loop owes a visit to every queue that is not empty, unless accept4
\* failed and nobody has connected since (edge-triggered, with the loop of
\* HandleAccept).  A start that fails leaves no socket open, except the one
\* CreateSocketAddress loses.
NoClientForgotten ==
  /\ main = "loop" /\ (opts.use_so_reuseport => NumSockets <= opts.threads)
       => \A s \in fds : Watched(s)
  /\ \A s \in fds : backlog[s] # <<>> /\ (\E l \in Loops : registered[l] = s) =>
       \/ \E l \in Loops : registered[l] = s /\ l \in edge \cup accepting
       \/ s \in stalled
  /\ main = "threw" /\ opts.ip_valid => fds = {}

\* In the traditional mode a connection is accepted by a server that is ready
\* for it: with the message callback, and with the plugin told of its opening
\* first, of its closing last, and of nothing twice.
ReadyForConnections ==
  ~opts.use_so_reuseport =>
    \A c \in Clients :
      /\ callback[c] \in {"none", "set"}
      /\ told[c] = IF callback[c] = "none" \/ \E l \in Loops : cur[l] = c THEN <<>>
                   ELSE IF c \in connections_ THEN <<"open">> ELSE <<"open", "close">>

\* The same of the callback in every mode.  In SO_REUSEPORT mode the loops
\* accept from within the constructor on, before SetOnMessage.
CallbackInEveryMode == \A c \in Clients : callback[c] \in {"none", "set"}
===============================================================================
