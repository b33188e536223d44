-------------------------------- MODULE Kernel --------------------------------
(***************************************************************************)
(* The part of the operating system the reactor stands on: a non-blocking  *)
(* TCP socket, seen from the server, and what epoll reports of it.  Not    *)
(* code of the repository: modelled from how connection.cpp,               *)
(* event_loop.cpp and batch_io_handler.cpp use it (Linux semantics).       *)
(*                                                                         *)
(* A socket is a record:                                                   *)
(*   rcvq    requests received and not yet read, oldest first              *)
(*   sndq    bytes written and not yet taken by the peer                   *)
(*   wr_shut shutdown(SHUT_WR) was called                                  *)
(*   peer    "open"; "fin": it has closed its sending side and still       *)
(*           reads; "reset": it sent RST; "broken": RST after FIN          *)
(***************************************************************************)
EXTENDS Naturals, Sequences

CONSTANTS Kinds,  \* the kinds of request a peer may send
          SndBuf  \* size of a socket's send buffer

Peers == {"open", "fin", "reset", "broken"}

Sockets == [rcvq : Seq(Kinds), sndq : 0 .. SndBuf, wr_shut : BOOLEAN, peer : Peers]

FreshSocket == [rcvq |-> <<>>, sndq |-> 0, wr_shut |-> FALSE, peer |-> "open"]

HasReset(s) == s.peer \in {"reset", "broken"}

\* The events that hold of a socket.  "err" stands for EPOLLERR and EPOLLHUP;
\* the latter holds when both directions are shut down.
Poll(s) ==
  (IF s.rcvq # <<>> \/ s.peer # "open" THEN {"in"} ELSE {})
  \cup (IF s.sndq < SndBuf \/ s.wr_shut \/ HasReset(s) THEN {"out"} ELSE {})
  \cup (IF HasReset(s) \/ (s.wr_shut /\ s.peer = "fin") THEN {"err"} ELSE {})

\* What epoll_wait reports to a caller that asked for mask.  Errors are
\* reported unasked.
Revents(s, mask) == Poll(s) \cap (mask \cup {"err"})

\* Does the change of a socket from s to t put it on the ready list of an
\* edge-triggered epoll that watches it with mask?  New data and new room
\* notify those who asked for it; a change of the connection's state, by
\* either side, notifies everybody.
Edge(s, t, mask) ==
  /\ mask # {}
  /\ \/ "in" \in mask /\ Len(t.rcvq) > Len(s.rcvq)
     \/ "out" \in mask /\ s.sndq = SndBuf /\ t.sndq < SndBuf
     \/ t.peer # s.peer
     \/ t.wr_shut # s.wr_shut
===============================================================================
