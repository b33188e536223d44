------------------------- MODULE ReactorRoutingProofs -------------------------
(***************************************************************************)
(* Where the events of a connection go: who watches its descriptor, which  *)
(* edges are owed, which are being handled - for any connections,          *)
(* descriptors and loops.                                                  *)
(*                                                                         *)
(* None of the properties is inductive.  RouteInv has what they lean on:   *)
(* an edge is owed only for what epoll watches, and that is in the table   *)
(* of the connection's loop; the batch of a loop names a connection once,  *)
(* and not the one whose callback runs; output that waits has its mask,    *)
(* or is in the hands of the thread SIGPIPE has struck.  RegInv adds that  *)
(* what the table lists is watched, and that a closed connection is not;   *)
(* it needs the hypothesis InputBounded, for PauseReading enters a closed  *)
(* descriptor again (ReactorDeaf.cfg).  ClosedForGood names that exception *)
(* itself and has no hypothesis: OverLimit says that only a connection     *)
(* over its input limit is about to pause, ClosesWell what closing leaves. *)
(***************************************************************************)
EXTENDS ConnectionReactorProofs, FiniteSetTheorems

\* Sorting by descriptor keeps every event, once.
LEMMA ByFdSorts ==
  ASSUME NEW E, IsFiniteSet(E), \A e \in E : e.fd \in Nat,
         \A d, e \in E : d.fd = e.fd => d = e
  PROVE  /\ ByFd(E) \in Seq(E)
         /\ \A m, n \in 1 .. Len(ByFd(E)) : ByFd(E)[m] = ByFd(E)[n] => m = n
<1> DEFINE N == Cardinality(E)
           Below(e) == {d \in E : d.fd <= e.fd}
           rank == [e \in E |-> Cardinality(Below(e))]
<1>1. N \in Nat
  BY FS_CardinalityType
<1>2. \A e \in E : /\ IsFiniteSet(Below(e)) /\ Cardinality(Below(e)) \in Nat
                   /\ Cardinality(Below(e)) <= N
  <2> SUFFICES ASSUME NEW e \in E
               PROVE  /\ IsFiniteSet(Below(e)) /\ Cardinality(Below(e)) \in Nat
                      /\ Cardinality(Below(e)) <= N
    OBVIOUS
  <2>1. Below(e) \in SUBSET E
    OBVIOUS
  <2> HIDE DEF Below
  <2> QED
    BY <2>1, FS_Subset, FS_CardinalityType
<1>3. \A e \in E : Cardinality(Below(e)) # 0
  <2>1. ASSUME NEW e \in E PROVE e \in Below(e)
    OBVIOUS
  <2> HIDE DEF Below
  <2> QED
    BY <2>1, <1>2, FS_EmptySet
<1>4. rank \in [E -> 1 .. N]
  <2> HIDE DEF Below
  <2> QED
    BY <1>1, <1>2, <1>3
<1>5. \A d, e \in E : d.fd < e.fd => rank[d] # rank[e]
  <2> SUFFICES ASSUME NEW d \in E, NEW e \in E, d.fd < e.fd
               PROVE  Cardinality(Below(d)) # Cardinality(Below(e))
    OBVIOUS
  <2>1. Below(d) \in SUBSET Below(e) /\ e \in Below(e) /\ e \notin Below(d)
    OBVIOUS
  <2> HIDE DEF Below
  <2> QED
    BY <2>1, <1>2, FS_Subset
<1>6. \A d, e \in E : rank[d] = rank[e] => d = e
  <2> HIDE DEF rank
  <2> QED
    BY <1>5
<1>7. rank \in Injection(E, 1 .. N)
  <2> HIDE DEF rank
  <2> QED
    BY <1>4, <1>6 DEF Injection, IsInjective
<1>8. rank \in Surjection(E, 1 .. N)
  <2>1. IsFiniteSet(1 .. N) /\ Cardinality(1 .. N) = N
    BY <1>1, FS_Interval
  <2> HIDE DEF rank
  <2> QED
    BY <1>7, <2>1, FS_Injection
<1>9. \A n \in 1 .. N : \E e \in E : Cardinality(Below(e)) = n
  <2>1. \A n \in 1 .. N : \E e \in E : rank[e] = n
    <3> HIDE DEF rank
    <3> QED
      BY <1>8 DEF Surjection
  <2> QED
    BY <2>1
<1>10. \A n \in 1 .. N : ByFd(E)[n] \in E /\ Cardinality(Below(ByFd(E)[n])) = n
  BY <1>9 DEF ByFd
<1>11. ByFd(E) \in [1 .. N -> E] /\ ByFd(E) \in Seq(E) /\ Len(ByFd(E)) = N
  <2>1. ByFd(E) \in [1 .. N -> E]
    BY <1>10 DEF ByFd
  <2> QED
    BY <2>1, <1>1
<1> HIDE DEF Below
<1> QED
  BY <1>1, <1>10, <1>11

\* The events GroupEvents makes of the connections that epoll reports.
EventsOf(C, kind) ==
  {[kind |-> kind, fd |-> fd_[c], of |-> c] : c \in {d \in C : Class(d) = kind}}

LEMMA EventsOfSorted ==
  ASSUME ReactorInv, NEW C \in SUBSET Conns, \A c \in C : fd_[c] \in Fds,
         NEW kind \in {"read", "write", "error"}
  PROVE  LET q == ByFd(EventsOf(C, kind))
         IN  /\ q \in Seq(Events)
             /\ \A n \in 1 .. Len(q) : /\ q[n].of \in C /\ q[n].fd = fd_[q[n].of]
                                       /\ Class(q[n].of) = kind
             /\ \A m, n \in 1 .. Len(q) : q[m].of = q[n].of => m = n
<1> DEFINE E == EventsOf(C, kind)
           q == ByFd(E)
<1>1. \A e \in E : /\ e \in Events /\ e.fd \in Fds /\ e.of \in C /\ e.fd = fd_[e.of]
                   /\ Class(e.of) = kind
                   /\ e = [kind |-> kind, fd |-> fd_[e.of], of |-> e.of]
  BY DEF EventsOf, Events
<1>2. \A d, e \in E : d.of = e.of => d = e
  BY <1>1
<1>3. \A d, e \in E : d.fd = e.fd => d = e
  <2> HIDE DEF E
  <2> QED
    BY <1>1, <1>2 DEF ReactorInv, OneOwner
<1>4. IsFiniteSet(E)
  <2> DEFINE g == [e \in E |-> e.fd]
  <2> HIDE DEF E
  <2>1. g \in Injection(E, Fds)
    BY <1>1, <1>3 DEF Injection, IsInjective
  <2> QED
    BY <2>1, FS_Injection, ReactorAssumption
<1>5. \A e \in E : e.fd \in Nat
  BY <1>1, ReactorAssumption
<1> HIDE DEF E
<1>6. /\ q \in Seq(E)
      /\ \A m, n \in 1 .. Len(q) : q[m] = q[n] => m = n
  BY <1>3, <1>4, <1>5, ByFdSorts
<1>7. \A n \in 1 .. Len(q) : q[n] \in E
  BY <1>6, ElementOfSeq
<1>8. q \in Seq(Events)
  <2>1. E \subseteq Events
    BY <1>1
  <2> HIDE DEF q
  <2> QED
    BY <1>6, <2>1, SeqMonotonic
<1> QED
  BY <1>1, <1>2, <1>6, <1>7, <1>8 DEF E

LEMMA GroupEventsRoutes ==
  ASSUME ReactorInv, NEW C \in SUBSET Conns, \A c \in C : fd_[c] \in Fds
  PROVE  LET q == GroupEvents(C)
         IN  /\ q \in Seq(Events)
             /\ \A n \in 1 .. Len(q) : q[n].of \in C /\ q[n].fd = fd_[q[n].of]
             /\ \A m, n \in 1 .. Len(q) : q[m].of = q[n].of => m = n
<1> DEFINE r == ByFd(EventsOf(C, "read"))
           w == ByFd(EventsOf(C, "write"))
           x == ByFd(EventsOf(C, "error"))
           q == r \o w \o x
<1>1. GroupEvents(C) = q
  BY DEF GroupEvents, EventsOf
<1>2. /\ r \in Seq(Events)
      /\ \A n \in 1 .. Len(r) : r[n].of \in C /\ r[n].fd = fd_[r[n].of] /\ Class(r[n].of) = "read"
      /\ \A m, n \in 1 .. Len(r) : r[m].of = r[n].of => m = n
  BY EventsOfSorted
<1>3. /\ w \in Seq(Events)
      /\ \A n \in 1 .. Len(w) : w[n].of \in C /\ w[n].fd = fd_[w[n].of] /\ Class(w[n].of) = "write"
      /\ \A m, n \in 1 .. Len(w) : w[m].of = w[n].of => m = n
  BY EventsOfSorted
<1>4. /\ x \in Seq(Events)
      /\ \A n \in 1 .. Len(x) : x[n].of \in C /\ x[n].fd = fd_[x[n].of] /\ Class(x[n].of) = "error"
      /\ \A m, n \in 1 .. Len(x) : x[m].of = x[n].of => m = n
  BY EventsOfSorted
<1> HIDE DEF r, w, x
<1>5. /\ q \in Seq(Events) /\ Len(r) \in Nat /\ Len(w) \in Nat /\ Len(x) \in Nat
      /\ Len(q) = Len(r) + Len(w) + Len(x)
      /\ \A n \in 1 .. Len(q) : q[n] = IF n <= Len(r) THEN r[n]
                                       ELSE IF n <= Len(r) + Len(w) THEN w[n - Len(r)]
                                       ELSE x[n - Len(r) - Len(w)]
  BY <1>2, <1>3, <1>4
<1> HIDE DEF q
<1>6. \A n \in 1 .. Len(q) : q[n].of \in C /\ q[n].fd = fd_[q[n].of]
  <2> TAKE n \in 1 .. Len(q)
  <2>1. CASE n <= Len(r)
    BY <2>1, <1>2, <1>5
  <2>2. CASE n > Len(r) /\ n <= Len(r) + Len(w)
    <3>1. n - Len(r) \in 1 .. Len(w) /\ q[n] = w[n - Len(r)]
      BY <2>2, <1>5
    <3> QED
      BY <3>1, <1>3
  <2>3. CASE n > Len(r) + Len(w)
    <3>1. n - Len(r) - Len(w) \in 1 .. Len(x) /\ q[n] = x[n - Len(r) - Len(w)]
      BY <2>3, <1>5
    <3> QED
      BY <3>1, <1>4
  <2> QED
    BY <2>1, <2>2, <2>3, <1>5
<1>7. \A n \in 1 .. Len(q) : \/ n <= Len(r) /\ Class(q[n].of) = "read"
                             \/ n > Len(r) /\ n <= Len(r) + Len(w) /\ Class(q[n].of) = "write"
                             \/ n > Len(r) + Len(w) /\ Class(q[n].of) = "error"
  <2> TAKE n \in 1 .. Len(q)
  <2>1. CASE n <= Len(r)
    BY <2>1, <1>2, <1>5
  <2>2. CASE n > Len(r) /\ n <= Len(r) + Len(w)
    <3>1. n - Len(r) \in 1 .. Len(w) /\ q[n] = w[n - Len(r)]
      BY <2>2, <1>5
    <3> QED
      BY <2>2, <3>1, <1>3
  <2>3. CASE n > Len(r) + Len(w)
    <3>1. n - Len(r) - Len(w) \in 1 .. Len(x) /\ q[n] = x[n - Len(r) - Len(w)]
      BY <2>3, <1>5
    <3> QED
      BY <2>3, <3>1, <1>4
  <2> QED
    BY <2>1, <2>2, <2>3, <1>5
<1>8. ASSUME NEW m \in 1 .. Len(q), NEW n \in 1 .. Len(q), q[m].of = q[n].of
      PROVE  m = n
  <2>1. CASE m <= Len(r) /\ n <= Len(r)
    <3>1. m \in 1 .. Len(r) /\ n \in 1 .. Len(r) /\ q[m] = r[m] /\ q[n] = r[n]
      BY <2>1, <1>5
    <3> QED
      BY <3>1, <1>2, <1>8
  <2>2. CASE m > Len(r) /\ n > Len(r) /\ m <= Len(r) + Len(w) /\ n <= Len(r) + Len(w)
    <3>1. /\ m - Len(r) \in 1 .. Len(w) /\ q[m] = w[m - Len(r)]
          /\ n - Len(r) \in 1 .. Len(w) /\ q[n] = w[n - Len(r)]
      BY <2>2, <1>5
    <3>2. m - Len(r) = n - Len(r)
      BY <3>1, <1>3, <1>8
    <3> QED
      BY <3>2, <1>5
  <2>3. CASE m > Len(r) + Len(w) /\ n > Len(r) + Len(w)
    <3>1. /\ m - Len(r) - Len(w) \in 1 .. Len(x) /\ q[m] = x[m - Len(r) - Len(w)]
          /\ n - Len(r) - Len(w) \in 1 .. Len(x) /\ q[n] = x[n - Len(r) - Len(w)]
      BY <2>3, <1>5
    <3>2. m - Len(r) - Len(w) = n - Len(r) - Len(w)
      BY <3>1, <1>4, <1>8
    <3> QED
      BY <3>2, <1>5
  <2> QED
    BY <2>1, <2>2, <2>3, <1>7, <1>8
<1> QED
  BY <1>1, <1>5, <1>6, <1>8
-------------------------------------------------------------------------------
(* The invariant. *)

RouteTypes ==
  /\ input_buffer_ \in [Conns -> Seq(Kinds)]
  /\ ready \subseteq Conns
  /\ budget \in [Conns -> 0 .. MaxRequests]
  /\ registered_fds_ \in [Loops -> SUBSET Fds]
  /\ batch \in [Loops -> Seq(Events)]
  /\ keep_alive \in [Fds -> {"none", "keep", "close"}]
  /\ killed \in BOOLEAN

\* epoll has on its ready list, and the loop in its table, what is watched.
ReadyWatched == \A c \in ready : interest[c] # {}
WatchedRegistered ==
  \A c \in Conns : interest[c] # {} => fd_[c] \in registered_fds_[loop_[c]]

\* A batch has one event at most for a connection, and none for the one whose
\* callback runs: nothing that callback does concerns an event still to come.
OneEventEach ==
  \A l \in Loops : \A m, n \in 1 .. Len(batch[l]) : batch[l][m].of = batch[l][n].of => m = n

OthersWait ==
  \A l \in Loops :
    /\ pc[l] = "poll" => batch[l] = <<>>
    /\ \A n \in 1 .. Len(batch[l]) : batch[l][n].of # cur[l]

\* Waiting output has its mask, unless SIGPIPE has struck the writer.
OutWatched(c) ==
  /\ output_buffer_[c] <= MaxOutput
  /\ state_[c] \in {"none", "kConnecting"} => output_buffer_[c] = 0
  /\ output_buffer_[c] > 0 /\ interest[c] # {} =>
       "out" \in interest[c] \/ (killed /\ Handled(c))

\* A response is sent for a request whose header is in the buffer.
Parsed ==
  \A l \in Loops : pc[l] \in {"header", "body", "complete"} => Ends(input_buffer_[cur[l]]) # {}

RouteInv ==
  /\ RouteTypes /\ ReadyWatched /\ WatchedRegistered /\ Parsed
  /\ EventsRouted /\ OneEventEach /\ OthersWait
  /\ \A c \in Conns : OutWatched(c)
-------------------------------------------------------------------------------
(* What the functions of EventLoop do to epoll, for the connection in hand. *)

EpollOn(l, f, c) ==
  /\ registered_fds_' \in [Loops -> SUBSET Fds]
  /\ \A k \in Loops, g \in Fds :
       k # l \/ g # f => (g \in registered_fds_'[k] <=> g \in registered_fds_[k])
  /\ interest'[c] # {} => f \in registered_fds_'[l]
  /\ ready' \subseteq Conns
  /\ \A d \in Conns : d # c => interest'[d] = interest[d] /\ (d \in ready' => d \in ready)
  /\ interest'[c] = {} => c \notin ready'

EpollEffect(l, c) == EpollOn(l, fd_[c], c)

LEMMA EpollIdle ==
  ASSUME ReactorInv, RouteInv, NEW l \in Loops, NEW c \in Conns, loop_[c] = l,
         UNCHANGED <<registered_fds_, interest>>, ready' \subseteq Conns,
         \A d \in Conns : d \in ready' => d \in ready \/ (d = c /\ interest[c] # {})
  PROVE  EpollEffect(l, c)
BY DEF RouteInv, RouteTypes, ReadyWatched, WatchedRegistered, EpollEffect, EpollOn

LEMMA WatchUpdated ==
  ASSUME ReactorInv, RouteInv, NEW l \in Loops, NEW c \in Conns, NEW f \in Fds,
         NEW mask \in Masks, mask # {}, NEW s, UpdateEvent(l, f, c, mask, s)
  PROVE  /\ EpollOn(l, f, c)
         /\ interest'[c] = mask \/ interest'[c] = {}
         /\ (f \in registered_fds_[l] => interest[c] # {}) => interest'[c] = mask
         /\ interest'[c] # {} \/ registered_fds_' = registered_fds_
<1>1. /\ interest \in [Conns -> Masks]
      /\ registered_fds_ \in [Loops -> SUBSET Fds] /\ ready \subseteq Conns /\ ReadyWatched
  BY DEF RouteInv, RouteTypes, ReactorInv, ReactorTypes
<1>2. CASE /\ registered_fds_' = [registered_fds_ EXCEPT ![l] = @ \cup {f}]
           /\ interest' = [interest EXCEPT ![c] = mask]
           /\ ready' = ready \cup {c} \/ ready' = ready
  <2>1. /\ registered_fds_' \in [Loops -> SUBSET Fds]
        /\ \A k \in Loops, g \in Fds :
             k # l \/ g # f => (g \in registered_fds_'[k] <=> g \in registered_fds_[k])
        /\ f \in registered_fds_'[l]
    BY <1>1, <1>2
  <2>2. interest'[c] = mask /\ \A d \in Conns : d # c => interest'[d] = interest[d]
    BY <1>1, <1>2
  <2>3. ready' \subseteq Conns /\ \A d \in Conns : d # c => (d \in ready' => d \in ready)
    BY <1>1, <1>2
  <2> QED
    BY <2>1, <2>2, <2>3 DEF EpollOn
<1>3. CASE f \in registered_fds_[l] /\ interest[c] = {} /\ UNCHANGED epollVars
  <2>1. UNCHANGED <<registered_fds_, interest, ready>>
    BY <1>3 DEF epollVars
  <2>2. EpollOn(l, f, c)
    BY <1>1, <1>3, <2>1 DEF EpollOn, ReadyWatched
  <2> QED
    BY <1>3, <2>1, <2>2
<1> QED
  BY <1>2, <1>3 DEF UpdateEvent

LEMMA EpollUpdated ==
  ASSUME ReactorInv, RouteInv, NEW l \in Loops, NEW c \in Conns, loop_[c] = l, fd_[c] \in Fds,
         NEW mask \in Masks, mask # {}, NEW s, UpdateEvent(l, fd_[c], c, mask, s)
  PROVE  /\ EpollEffect(l, c)
         /\ interest'[c] = mask \/ interest'[c] = {}
BY WatchUpdated DEF EpollEffect

LEMMA EpollRemoved ==
  ASSUME ReactorInv, RouteInv, NEW l \in Loops, NEW c \in Conns, loop_[c] = l, fd_[c] \in Fds,
         RemoveEvent(l, fd_[c])
  PROVE  EpollEffect(l, c) /\ interest'[c] = {} /\ fd_[c] \notin registered_fds_'[l]
<1> DEFINE gone == {d \in Conns : /\ fd_[c] \in registered_fds_[l]
                                  /\ fd_[d] = fd_[c] /\ loop_[d] = l}
<1>1. /\ interest \in [Conns -> Masks] /\ registered_fds_ \in [Loops -> SUBSET Fds]
      /\ ready \subseteq Conns /\ ReadyWatched /\ WatchedRegistered
  BY DEF RouteInv, RouteTypes, ReactorInv, ReactorTypes
<1>2. gone \subseteq {c}
  BY DEF ReactorInv, OneOwner
<1>3. /\ registered_fds_' = [registered_fds_ EXCEPT ![l] = @ \ {fd_[c]}]
      /\ interest' = [d \in Conns |-> IF d \in gone THEN {} ELSE interest[d]]
      /\ ready' = ready \ gone
  BY DEF RemoveEvent
<1>4. interest[c] # {} => c \in gone
  BY <1>1 DEF WatchedRegistered
<1> HIDE DEF gone
<1>5. /\ registered_fds_' \in [Loops -> SUBSET Fds]
      /\ \A k \in Loops, f \in Fds :
           k # l \/ f # fd_[c] => (f \in registered_fds_'[k] <=> f \in registered_fds_[k])
      /\ fd_[c] \notin registered_fds_'[l]
  BY <1>1, <1>3
<1>6. interest'[c] = {} /\ \A d \in Conns : d # c => interest'[d] = interest[d]
  BY <1>1, <1>2, <1>3, <1>4
<1>7. ready' \subseteq ready /\ c \notin ready'
  BY <1>1, <1>3, <1>4 DEF ReadyWatched
<1> QED
  BY <1>1, <1>5, <1>6, <1>7 DEF EpollEffect, EpollOn

LEMMA EpollClosed ==
  ASSUME ReactorInv, RouteInv, NEW l \in Loops, NEW c \in Conns, Here(l, c), HandleClose(c)
  PROVE  /\ EpollEffect(l, c) /\ interest'[c] = {} /\ fd_[c] \notin registered_fds_'[l]
         /\ keep_alive' \in [Fds -> {"none", "keep", "close"}]
<1>1. fd_[c] \in Fds /\ loop_[c] = l /\ keep_alive \in [Fds -> {"none", "keep", "close"}]
  BY DEF Here, RouteInv, RouteTypes
<1>2. RemoveEvent(l, fd_[c]) /\ keep_alive' = [keep_alive EXCEPT ![fd_[c]] = "none"]
  BY <1>1 DEF HandleClose, OnConnectionClose
<1> QED
  BY <1>1, <1>2, EpollRemoved
-------------------------------------------------------------------------------
(* What the functions of Connection do to the output and its mask. *)

\* The output of c after the step, against its limit and its mask.
OutMasked(c) == output_buffer_'[c] > 0 /\ interest'[c] # {} => "out" \in interest'[c]
OutputRouted(c) ==
  /\ output_buffer_'[c] <= MaxOutput
  /\ killed' \in BOOLEAN
  /\ killed' \/ OutMasked(c)
  /\ keep_alive' \in [Fds -> {"none", "keep", "close"}]

\* A connection that was left as it is, or drained, or closed, or is now
\* watched for writing.
LEMMA Masked ==
  ASSUME RouteInv, ~killed, NEW c \in Conns, output_buffer_[c] \in Nat,
         \/ UNCHANGED <<output_buffer_, interest>>
         \/ output_buffer_'[c] = output_buffer_[c] /\ UNCHANGED interest
         \/ output_buffer_'[c] = 0
         \/ interest'[c] = {}
         \/ interest'[c] = {"in", "out"} \/ interest'[c] = {"out"}
  PROVE  OutMasked(c)
<1>1. output_buffer_[c] > 0 /\ interest[c] # {} => "out" \in interest[c]
  BY DEF RouteInv, OutWatched
<1> QED
  BY <1>1 DEF OutMasked

LEMMA WritingRoutes ==
  ASSUME ReactorInv, RouteInv, ~killed, NEW l \in Loops, NEW c \in Conns, Here(l, c),
         NEW o \in Nat, o <= MaxOutput, o = output_buffer_[c] \/ IsConnected(c),
         HandleWrite(c, o)
  PROVE  EpollEffect(l, c) /\ OutputRouted(c)
<1>t. /\ output_buffer_ \in [Conns -> Nat] /\ loop_[c] = l /\ fd_[c] \in Fds
      /\ SndBuf \in Nat /\ MaxOutput \in Nat
      /\ keep_alive \in [Fds -> {"none", "keep", "close"}] /\ killed \in BOOLEAN
      /\ output_buffer_[c] \in Nat /\ ready \subseteq Conns
  BY HereFacts, ReactorAssumption DEF RouteInv, RouteTypes
<1>m. /\ {"in"} \in Masks /\ {"in", "out"} \in Masks /\ {"in"} # {} /\ {"in", "out"} # {}
  BY DEF Masks
<1>o. ASSUME output_buffer_' = [output_buffer_ EXCEPT ![c] = o]
      PROVE  output_buffer_'[c] = o
  BY <1>o, <1>t
<1>k. ASSUME UNCHANGED killed
      PROVE  killed' \in BOOLEAN
  BY <1>k, <1>t
<1>1. CASE /\ o = 0 \/ state_[c] = "kClosed"
           /\ output_buffer_' = [output_buffer_ EXCEPT ![c] = o]
           /\ UNCHANGED <<state_, sock, timers_, killed, epollVars, serverVars>>
  <2>1. UNCHANGED <<registered_fds_, interest, ready, keep_alive, killed>> /\ output_buffer_'[c] = o
    BY <1>1, <1>o DEF epollVars, serverVars
  <2>2. o = 0 \/ o = output_buffer_[c]
    BY <1>1 DEF IsConnected
  <2>3. OutMasked(c)
    BY <1>t, <2>1, <2>2, Masked
  <2>4. EpollEffect(l, c)
    BY <1>t, <2>1, EpollIdle
  <2> QED
    BY <1>t, <1>k, <2>1, <2>3, <2>4 DEF OutputRouted
<1>2. CASE /\ killed' = TRUE
           /\ output_buffer_' = [output_buffer_ EXCEPT ![c] = o]
           /\ UNCHANGED <<state_, sock, timers_, epollVars, serverVars>>
  <2>1. UNCHANGED <<registered_fds_, interest, ready, keep_alive>> /\ output_buffer_'[c] = o
    BY <1>2, <1>o DEF epollVars, serverVars
  <2>4. EpollEffect(l, c)
    BY <1>t, <2>1, EpollIdle
  <2> QED
    BY <1>2, <1>t, <2>1, <2>4 DEF OutputRouted
<1>3. CASE /\ HandleClose(c)
           /\ output_buffer_' = [output_buffer_ EXCEPT ![c] = o]
           /\ UNCHANGED <<sock, killed>>
  <2>1. /\ EpollEffect(l, c) /\ interest'[c] = {}
        /\ keep_alive' \in [Fds -> {"none", "keep", "close"}]
    BY <1>3, EpollClosed
  <2>3. OutMasked(c)
    BY <1>t, <2>1, Masked
  <2> QED
    BY <1>3, <1>t, <1>o, <1>k, <2>1, <2>3 DEF OutputRouted
<1>4. CASE /\ output_buffer_' = [output_buffer_ EXCEPT ![c] = o]
           /\ UpdateEvent(loop_[c], fd_[c], c, {"in", "out"}, sock[c])
           /\ UNCHANGED <<state_, sock, timers_, killed, serverVars>>
  <2>1. UNCHANGED <<keep_alive, killed>> /\ output_buffer_'[c] = o
    BY <1>4, <1>o DEF serverVars
  <2>2. EpollEffect(l, c) /\ (interest'[c] = {"in", "out"} \/ interest'[c] = {})
    BY <1>4, <1>t, <1>m, EpollUpdated
  <2>3. OutMasked(c)
    BY <1>t, <2>2, Masked
  <2> QED
    BY <1>t, <1>k, <2>1, <2>2, <2>3 DEF OutputRouted
<1>5. CASE /\ \E n \in 1 .. SndBuf - sock[c].sndq :
                /\ n <= o
                /\ LET t == [sock[c] EXCEPT !.sndq = @ + n,
                                      !.wr_shut = @ \/ (n = o /\ state_[c] = "kClosing")]
                   IN UpdateEvent(loop_[c], fd_[c], c, IF n = o THEN {"in"} ELSE {"in", "out"}, t)
                /\ output_buffer_' = [output_buffer_ EXCEPT ![c] = o - n]
           /\ UNCHANGED <<killed, serverVars>>
  <2>0. PICK n \in 1 .. SndBuf - sock[c].sndq :
                /\ n <= o
                /\ \E t : UpdateEvent(l, fd_[c], c, IF n = o THEN {"in"} ELSE {"in", "out"}, t)
                /\ output_buffer_' = [output_buffer_ EXCEPT ![c] = o - n]
    BY <1>5, <1>t
  <2>1. PICK t : /\ n <= o
                 /\ UpdateEvent(l, fd_[c], c, IF n = o THEN {"in"} ELSE {"in", "out"}, t)
                 /\ output_buffer_' = [output_buffer_ EXCEPT ![c] = o - n]
    BY <2>0
  <2>2. n \in Nat \ {0}
    OBVIOUS
  <2>3. output_buffer_'[c] = o - n /\ UNCHANGED <<keep_alive, killed>>
    BY <1>5, <1>t, <2>1 DEF serverVars
  <2>4. o - n <= MaxOutput
    BY <1>t, <2>2
  <2>5. EpollEffect(l, c) /\ OutMasked(c)
    <3>1. CASE n = o
      <4>1. UpdateEvent(l, fd_[c], c, {"in"}, t) /\ output_buffer_'[c] = 0
        BY <2>1, <2>3, <3>1
      <4> QED
        BY <1>t, <1>m, <4>1, EpollUpdated, Masked
    <3>2. CASE n # o
      <4>1. UpdateEvent(l, fd_[c], c, {"in", "out"}, t)
        BY <2>1, <3>2
      <4>2. EpollEffect(l, c) /\ (interest'[c] = {"in", "out"} \/ interest'[c] = {})
        BY <1>t, <1>m, <4>1, EpollUpdated
      <4> QED
        BY <1>t, <4>2, Masked
    <3> QED
      BY <3>1, <3>2
  <2> QED
    BY <1>t, <1>k, <2>3, <2>4, <2>5 DEF OutputRouted
<1> QED
  BY <1>1, <1>2, <1>3, <1>4, <1>5 DEF HandleWrite

LEMMA SendingRoutes ==
  ASSUME ReactorInv, RouteInv, ~killed, NEW l \in Loops, NEW c \in Conns, Here(l, c),
         NEW n \in Nat, Send(c, n)
  PROVE  EpollEffect(l, c) /\ OutputRouted(c)
<1>t. /\ output_buffer_[c] \in Nat /\ loop_[c] = l /\ fd_[c] \in Fds
      /\ keep_alive \in [Fds -> {"none", "keep", "close"}] /\ killed \in BOOLEAN
      /\ output_buffer_[c] <= MaxOutput /\ ready \subseteq Conns
  BY HereFacts DEF RouteInv, RouteTypes, OutWatched
<1>k. ASSUME UNCHANGED killed
      PROVE  killed' \in BOOLEAN
  BY <1>k, <1>t
<1>1. CASE UNCHANGED <<state_, output_buffer_, sock, timers_, killed, epollVars, serverVars>>
  <2>1. UNCHANGED <<registered_fds_, interest, ready, keep_alive, killed, output_buffer_>>
    BY <1>1 DEF epollVars, serverVars
  <2>2. OutMasked(c)
    BY <1>t, <2>1, Masked
  <2>3. EpollEffect(l, c)
    BY <1>t, <2>1, EpollIdle
  <2> QED
    BY <1>t, <1>k, <2>1, <2>2, <2>3 DEF OutputRouted
<1>2. CASE HandleClose(c) /\ UNCHANGED <<output_buffer_, sock, killed>>
  <2>1. /\ EpollEffect(l, c) /\ interest'[c] = {}
        /\ keep_alive' \in [Fds -> {"none", "keep", "close"}]
    BY <1>2, EpollClosed
  <2>2. OutMasked(c)
    BY <1>t, <2>1, Masked
  <2> QED
    BY <1>2, <1>t, <1>k, <2>1, <2>2 DEF OutputRouted
<1>3. CASE /\ IsConnected(c) /\ n > 0 /\ output_buffer_[c] + n <= MaxOutput
           /\ HandleWrite(c, output_buffer_[c] + n)
  <2>1. output_buffer_[c] + n \in Nat
    BY <1>t
  <2> QED
    BY <1>3, <2>1, WritingRoutes
<1> QED
  BY <1>1, <1>2, <1>3 DEF Send

\* A step that leaves output and mask of c alone.
LEMMA QuietRoutes ==
  ASSUME ReactorInv, RouteInv, ~killed, NEW l \in Loops, NEW c \in Conns, Here(l, c),
         UNCHANGED <<output_buffer_, killed, registered_fds_, interest>>,
         keep_alive' \in [Fds -> {"none", "keep", "close"}], ready' \subseteq Conns,
         \A d \in Conns : d \in ready' => d \in ready \/ (d = c /\ interest[c] # {})
  PROVE  EpollEffect(l, c) /\ OutputRouted(c)
<1>t. /\ output_buffer_[c] \in Nat /\ loop_[c] = l /\ killed \in BOOLEAN
      /\ output_buffer_[c] <= MaxOutput
  BY HereFacts DEF RouteInv, RouteTypes, OutWatched
<1>1. EpollEffect(l, c)
  BY <1>t, EpollIdle
<1>2. OutMasked(c)
  BY <1>t, Masked
<1>3. killed' \in BOOLEAN
  BY <1>t
<1> QED
  BY <1>t, <1>1, <1>2, <1>3 DEF OutputRouted

LEMMA ShutdownRoutes ==
  ASSUME ReactorInv, RouteInv, ~killed, NEW l \in Loops, NEW c \in Conns, Here(l, c),
         Shutdown(c), UNCHANGED <<output_buffer_, killed, keep_alive>>
  PROVE  EpollEffect(l, c) /\ OutputRouted(c)
<1>1. /\ keep_alive \in [Fds -> {"none", "keep", "close"}] /\ ready \subseteq Conns
  BY DEF RouteInv, RouteTypes
<1>2. UNCHANGED <<registered_fds_, interest>>
  BY DEF Shutdown
<1>3. /\ ready' \subseteq Conns
      /\ \A d \in Conns : d \in ready' => d \in ready \/ (d = c /\ interest[c] # {})
  BY <1>1 DEF Shutdown, Edge
<1> QED
  BY <1>1, <1>2, <1>3, QuietRoutes
-------------------------------------------------------------------------------
(* The steps of a callback. *)

LEMMA BusyLoop ==
  ASSUME ReactorInv, NEW k \in Loops, pc[k] \notin {"poll", "batch"}
  PROVE  cur[k] \in Conns /\ loop_[cur[k]] = k
<1>1. cur[k] \in Conns \cup {None} /\ (cur[k] = None <=> pc[k] \in {"poll", "batch"})
  BY DEF ReactorInv, ReactorTypes, Current
<1>2. cur[k] \in Conns
  BY <1>1
<1> QED
  BY <1>2 DEF ReactorInv, Current

LEMMA NextInBatch ==
  ASSUME NEW q \in Seq(Events), q # <<>>
  PROVE  /\ Tail(q) \in Seq(Events) /\ Len(q) \in Nat \ {0} /\ Len(Tail(q)) = Len(q) - 1
         /\ Head(q) = q[1] /\ Head(q) \in Events
         /\ \A n \in 1 .. Len(Tail(q)) : n + 1 \in 2 .. Len(q) /\ Tail(q)[n] = q[n + 1]
<1>1. Len(q) \in Nat /\ Len(q) # 0
  BY EmptySeq, LenProperties
<1> QED
  BY <1>1, HeadTailProperties

\* The event in hand belongs to c, or its callback runs already.
BatchOn(l, c) ==
  \/ cur[l] = c /\ UNCHANGED batch
  \/ /\ batch[l] # <<>> /\ Head(batch[l]).of = c
     /\ batch' = [batch EXCEPT ![l] = Tail(batch[l])]

\* What is left of the batch is routed as before.
LEMMA BatchGoesOn ==
  ASSUME RouteInv, NEW l \in Loops, NEW c \in Conns,
         UNCHANGED <<fd_, loop_, read_callbacks_>>, BatchOn(l, c)
  PROVE  /\ batch' \in [Loops -> Seq(Events)] /\ EventsRouted' /\ OneEventEach'
         /\ \A n \in 1 .. Len(batch'[l]) : batch'[l][n].of # c
         /\ \A k \in Loops : k # l => batch'[k] = batch[k]
<1>t. batch \in [Loops -> Seq(Events)] /\ EventsRouted /\ OneEventEach /\ OthersWait
  BY DEF RouteInv, RouteTypes
<1>1. CASE cur[l] = c /\ UNCHANGED batch
  <2>1. batch' = batch
    BY <1>1
  <2> QED
    BY <1>1, <1>t, <2>1 DEF OthersWait, EventsRouted, OneEventEach
<1>2. CASE /\ batch[l] # <<>> /\ Head(batch[l]).of = c
           /\ batch' = [batch EXCEPT ![l] = Tail(batch[l])]
  <2> DEFINE q == batch[l]
  <2>q. q \in Seq(Events) /\ q # <<>>
    BY <1>2, <1>t
  <2>1. /\ Tail(q) \in Seq(Events) /\ Len(q) \in Nat \ {0} /\ Len(Tail(q)) = Len(q) - 1
        /\ Head(q) = q[1]
        /\ \A n \in 1 .. Len(Tail(q)) : n + 1 \in 2 .. Len(q) /\ Tail(q)[n] = q[n + 1]
    <3> HIDE DEF q
    <3> QED
      BY <2>q, NextInBatch
  <2>2. /\ batch' \in [Loops -> Seq(Events)] /\ batch'[l] = Tail(q)
        /\ \A k \in Loops : k # l => batch'[k] = batch[k]
    BY <1>2, <1>t, <2>1
  <2>3. /\ q[1].of = c
        /\ \A m, n \in 1 .. Len(q) : q[m].of = q[n].of => m = n
        /\ \A n \in 1 .. Len(q) : /\ fd_[q[n].of] = q[n].fd /\ loop_[q[n].of] = l
                                  /\ read_callbacks_[l][q[n].fd] = q[n].of
    BY <1>2, <1>t, <2>1 DEF EventsRouted, OneEventEach
  <2> HIDE DEF q
  <2>4. \A n \in 1 .. Len(Tail(q)) : n + 1 \in 1 .. Len(q) /\ n + 1 # 1
    BY <2>1
  <2>5. \A n \in 1 .. Len(Tail(q)) :
          /\ fd_[Tail(q)[n].of] = Tail(q)[n].fd /\ loop_[Tail(q)[n].of] = l
          /\ read_callbacks_[l][Tail(q)[n].fd] = Tail(q)[n].of
    BY <2>1, <2>3, <2>4
  <2>6. \A m, n \in 1 .. Len(Tail(q)) : Tail(q)[m].of = Tail(q)[n].of => m = n
    BY <2>1, <2>3, <2>4
  <2>7. \A n \in 1 .. Len(Tail(q)) : Tail(q)[n].of # c
    <3>1. 1 \in 1 .. Len(q)
      BY <2>1
    <3> QED
      BY <2>1, <2>3, <2>4, <3>1
  <2>8. EventsRouted'
    <3> SUFFICES ASSUME NEW k \in Loops, NEW n \in 1 .. Len(batch'[k])
                 PROVE  /\ fd_[batch'[k][n].of] = batch'[k][n].fd /\ loop_[batch'[k][n].of] = k
                        /\ read_callbacks_[k][batch'[k][n].fd] = batch'[k][n].of
      BY DEF EventsRouted
    <3>1. CASE k = l
      BY <3>1, <2>2, <2>5
    <3>2. CASE k # l
      BY <3>2, <2>2, <1>t DEF EventsRouted
    <3> QED
      BY <3>1, <3>2
  <2>9. OneEventEach'
    <3> SUFFICES ASSUME NEW k \in Loops, NEW m \in 1 .. Len(batch'[k]), NEW n \in 1 .. Len(batch'[k]),
                        batch'[k][m].of = batch'[k][n].of
                 PROVE  m = n
      BY DEF OneEventEach
    <3>1. CASE k = l
      BY <3>1, <2>2, <2>6
    <3>2. CASE k # l
      BY <3>2, <2>2, <1>t DEF OneEventEach
    <3> QED
      BY <3>1, <3>2
  <2> QED
    BY <2>2, <2>7, <2>8, <2>9
<1> QED
  BY <1>1, <1>2 DEF BatchOn

RouteOn(l, c) ==
  /\ ~killed /\ EpollEffect(l, c) /\ OutputRouted(c) /\ BatchOn(l, c)
  /\ input_buffer_' \in [Conns -> Seq(Kinds)]
  /\ \A d \in Conns : d # c => input_buffer_'[d] = input_buffer_[d]
  /\ pc'[l] \in {"header", "body", "complete"} => Ends(input_buffer_'[c]) # {}
  /\ UNCHANGED budget

LEMMA CallbackRoutes ==
  ASSUME ReactorInv, RouteInv, NEW l \in Loops, NEW c \in Conns,
         Here(l, c), CallbackOn(l, c), RouteOn(l, c)
  PROVE  RouteInv'
<1>h. loop_[c] = l /\ fd_[c] \in Fds /\ state_[c] \in {"kConnected", "kClosing", "kClosed"}
  BY HereFacts
<1>u. UNCHANGED <<fd_, loop_, read_callbacks_>>
  BY DEF CallbackOn
<1>e. EpollEffect(l, c) /\ OutputRouted(c) /\ BatchOn(l, c) /\ ~killed
  BY DEF RouteOn
<1>b. /\ batch' \in [Loops -> Seq(Events)] /\ EventsRouted' /\ OneEventEach'
      /\ \A n \in 1 .. Len(batch'[l]) : batch'[l][n].of # c
      /\ \A k \in Loops : k # l => batch'[k] = batch[k]
  BY <1>u, <1>e, BatchGoesOn
<1>p. /\ cur'[l] = c /\ pc'[l] # "poll"
      /\ \A k \in Loops : k # l => cur'[k] = cur[k] /\ pc'[k] = pc[k]
  BY DEF CallbackOn, ReactorInv, ReactorTypes, InCallback
<1>1. RouteTypes'
  BY <1>b, <1>e DEF RouteOn, RouteInv, RouteTypes, EpollEffect, EpollOn, OutputRouted
<1>2. ReadyWatched'
  BY <1>e DEF RouteInv, ReadyWatched, EpollEffect, EpollOn
<1>3. WatchedRegistered'
  <2> SUFFICES ASSUME NEW d \in Conns, interest'[d] # {}
               PROVE  fd_[d] \in registered_fds_'[loop_[d]]
    BY <1>u DEF WatchedRegistered
  <2>1. CASE d = c
    BY <2>1, <1>h, <1>e DEF EpollEffect, EpollOn
  <2>2. CASE d # c
    <3>1. interest[d] # {} /\ fd_[d] \in Fds /\ fd_[d] \in registered_fds_[loop_[d]]
      BY <2>2, <1>e DEF EpollEffect, EpollOn, RouteInv, WatchedRegistered, ReactorInv, InterestOwned
    <3>2. loop_[d] \in Loops /\ fd_[d] # fd_[c]
      BY <2>2, <3>1, ReactorAssumption DEF ReactorInv, AliveState, OneOwner
    <3> QED
      BY <3>1, <3>2, <1>e DEF EpollEffect, EpollOn
  <2> QED
    BY <2>1, <2>2
<1>4. OthersWait'
  <2> SUFFICES ASSUME NEW k \in Loops
               PROVE  /\ pc'[k] = "poll" => batch'[k] = <<>>
                      /\ \A n \in 1 .. Len(batch'[k]) : batch'[k][n].of # cur'[k]
    BY DEF OthersWait
  <2>1. CASE k = l
    BY <2>1, <1>b, <1>p
  <2>2. CASE k # l
    BY <2>2, <1>b, <1>p DEF RouteInv, OthersWait
  <2> QED
    BY <2>1, <2>2
<1>5. ASSUME NEW d \in Conns PROVE OutWatched(d)'
  <2>1. CASE d = c
    <3>1. state_'[c] \notin {"none", "kConnecting"}
      BY <1>h DEF CallbackOn, Effect, StateEffect
    <3>2. Handled(c)'
      BY <1>p DEF Handled
    <3>3. output_buffer_'[c] <= MaxOutput /\ (killed' \/ OutMasked(c))
      BY <1>e DEF OutputRouted
    <3> QED
      BY <2>1, <3>1, <3>2, <3>3 DEF OutWatched, OutMasked
  <2>2. CASE d # c
    <3>1. output_buffer_'[d] = output_buffer_[d] /\ state_'[d] = state_[d]
      BY <2>2 DEF CallbackOn, Effect, StateEffect, OutputEffect
    <3>2. interest'[d] = interest[d]
      BY <2>2, <1>e DEF EpollEffect, EpollOn
    <3>3. OutWatched(d)
      BY DEF RouteInv
    <3> QED
      BY <1>e, <3>1, <3>2, <3>3 DEF OutWatched
  <2> QED
    BY <2>1, <2>2
<1>6. Parsed'
  <2> SUFFICES ASSUME NEW k \in Loops, pc'[k] \in {"header", "body", "complete"}
               PROVE  Ends(input_buffer_'[cur'[k]]) # {}
    BY DEF Parsed, Ends
  <2>1. CASE k = l
    BY <2>1, <1>p DEF RouteOn
  <2>2. CASE k # l
    <3>1. pc[k] \in {"header", "body", "complete"} /\ cur'[k] = cur[k]
      BY <2>2, <1>p
    <3>2. cur[k] \in Conns /\ loop_[cur[k]] = k
      BY <3>1, BusyLoop
    <3>3. input_buffer_'[cur[k]] = input_buffer_[cur[k]]
      BY <2>2, <3>2, <1>h DEF RouteOn
    <3>4. Ends(input_buffer_[cur[k]]) # {}
      BY <3>1 DEF RouteInv, Parsed
    <3> QED
      BY <3>1, <3>3, <3>4
  <2> QED
    BY <2>1, <2>2
<1> QED
  BY <1>1, <1>2, <1>3, <1>4, <1>5, <1>6, <1>b DEF RouteInv

\* The callback an event finds is that of the connection it was raised for.
LEMMA EventOn ==
  ASSUME RouteInv, NEW l \in Loops, NEW c \in Conns, batch[l] # <<>>, Target(l) = c, NextEvent(l)
  PROVE  BatchOn(l, c)
<1>1. batch[l] \in Seq(Events)
  BY DEF RouteInv, RouteTypes
<1>2. Len(batch[l]) \in Nat \ {0} /\ Head(batch[l]) = batch[l][1]
  BY <1>1, NextInBatch
<1>3. read_callbacks_[l][batch[l][1].fd] = batch[l][1].of
  BY <1>2 DEF RouteInv, EventsRouted
<1> QED
  BY <1>2, <1>3 DEF BatchOn, NextEvent, Target

LEMMA HeaderEnds ==
  ASSUME NEW b \in Seq(Kinds), Ends(b) # {}
  PROVE  HeaderEnd(b) \in 1 .. Len(b) /\ SubSeq(b, HeaderEnd(b) + 1, Len(b)) \in Seq(Kinds)
<1>1. Len(b) \in Nat
  BY LenProperties
<1>2. Ends(b) \subseteq Nat /\ Ends(b) \subseteq 1 .. Len(b)
  BY <1>1 DEF Ends
<1>3. HeaderEnd(b) \in Ends(b)
  BY <1>2, LeastExists DEF HeaderEnd
<1>4. HeaderEnd(b) \in 1 .. Len(b)
  BY <1>2, <1>3
<1>5. HeaderEnd(b) + 1 \in 1 .. Len(b) + 1 /\ Len(b) \in (HeaderEnd(b) + 1) - 1 .. Len(b)
  BY <1>1, <1>4
<1> QED
  BY <1>4, <1>5, SubSeqProperties

LEMMA HandleReadRoutes ==
  ASSUME ReactorInv, RouteInv, NEW l \in Loops, NEW c \in Conns, HandleRead(l, c)
  PROVE  RouteOn(l, c)
<1>h. Here(l, c)
  BY HandleReadCallback
<1>t. /\ keep_alive \in [Fds -> {"none", "keep", "close"}] /\ ready \subseteq Conns
      /\ input_buffer_ \in [Conns -> Seq(Kinds)] /\ killed \in BOOLEAN
      /\ output_buffer_[c] \in Nat /\ output_buffer_[c] <= MaxOutput
      /\ sock[c] \in Sockets /\ pc \in [Loops -> PCs]
  BY <1>h, HereFacts DEF RouteInv, RouteTypes, OutWatched, ReactorInv, ReactorTypes
<1>1. /\ ~killed /\ BatchOn(l, c) /\ UNCHANGED <<output_buffer_, killed, budget>>
  BY EventOn DEF HandleRead, Event, acceptVars
<1>2. EpollEffect(l, c) /\ OutputRouted(c)
  <2>1. CASE HandleClose(c)
    <3>1. /\ EpollEffect(l, c) /\ interest'[c] = {}
          /\ keep_alive' \in [Fds -> {"none", "keep", "close"}]
      BY <2>1, <1>h, EpollClosed
    <3>2. OutMasked(c)
      BY <1>1, <1>t, <3>1, Masked
    <3>3. killed' \in BOOLEAN
      BY <1>1, <1>t
    <3> QED
      BY <1>1, <1>t, <3>1, <3>2, <3>3 DEF OutputRouted
  <2>2. CASE UNCHANGED <<state_, epollVars, serverVars>>
    <3>1. UNCHANGED <<registered_fds_, interest, ready, keep_alive>>
      BY <2>2 DEF epollVars, serverVars
    <3> QED
      BY <1>h, <1>1, <1>t, <3>1, QuietRoutes
  <2> QED
    BY <2>1, <2>2 DEF HandleRead
<1>3. /\ input_buffer_' \in [Conns -> Seq(Kinds)]
      /\ \A d \in Conns : d # c => input_buffer_'[d] = input_buffer_[d]
  <2>1. sock[c].rcvq \in Seq(Kinds)
    BY <1>t DEF Sockets
  <2>2. input_buffer_[c] \o sock[c].rcvq \in Seq(Kinds)
    BY <1>t, <2>1, ConcatProperties
  <2>3. input_buffer_' = [input_buffer_ EXCEPT ![c] = input_buffer_[c] \o sock[c].rcvq]
    BY DEF HandleRead
  <2> QED
    BY <1>t, <2>2, <2>3
<1>4. pc'[l] \notin {"header", "body", "complete"}
  BY <1>t DEF HandleRead
<1> QED
  BY <1>1, <1>2, <1>3, <1>4 DEF RouteOn

LEMMA HandleWriteRoutes ==
  ASSUME ReactorInv, RouteInv, NEW l \in Loops, NEW c \in Conns, HandleWriteEvent(l, c)
  PROVE  RouteOn(l, c)
<1>h. Here(l, c)
  BY HandleWriteCallback
<1>t. /\ input_buffer_ \in [Conns -> Seq(Kinds)]
      /\ output_buffer_[c] \in Nat /\ output_buffer_[c] <= MaxOutput /\ pc \in [Loops -> PCs]
  BY <1>h, HereFacts DEF RouteInv, RouteTypes, OutWatched, ReactorInv, ReactorTypes
<1>1. /\ ~killed /\ BatchOn(l, c) /\ UNCHANGED <<input_buffer_, budget>>
  BY EventOn DEF HandleWriteEvent, Event, acceptVars, connVars
<1>2. EpollEffect(l, c) /\ OutputRouted(c)
  BY <1>h, <1>t, <1>1, WritingRoutes DEF HandleWriteEvent
<1>3. pc'[l] \notin {"header", "body", "complete"}
  BY <1>t DEF HandleWriteEvent
<1> QED
  BY <1>t, <1>1, <1>2, <1>3 DEF RouteOn

LEMMA OtherRoutes ==
  ASSUME ReactorInv, RouteInv, NEW l \in Loops, NEW c \in Conns,
         \/ PauseReading(l, c) \/ NoHeader(l, c) \/ BadRequest(l, c) \/ RequestStart(l, c)
         \/ SendHeader(l, c) \/ SendBody(l, c) \/ RequestComplete(l, c)
  PROVE  RouteOn(l, c)
<1>h. Here(l, c) /\ fd_[c] \in Fds /\ loop_[c] = l
  BY OtherCallbacks DEF Here
<1>t. /\ keep_alive \in [Fds -> {"none", "keep", "close"}] /\ ready \subseteq Conns
      /\ input_buffer_ \in [Conns -> Seq(Kinds)] /\ killed \in BOOLEAN
      /\ output_buffer_[c] \in Nat /\ output_buffer_[c] <= MaxOutput
      /\ pc \in [Loops -> PCs] /\ BodySize \in Nat
      /\ pc[l] \in {"header", "body", "complete"} => Ends(input_buffer_[cur[l]]) # {}
  BY <1>h, HereFacts, ReactorAssumption
     DEF RouteInv, RouteTypes, OutWatched, Parsed, ReactorInv, ReactorTypes
<1>1. /\ ~killed /\ BatchOn(l, c) /\ UNCHANGED budget
  BY DEF PauseReading, NoHeader, BadRequest, RequestStart, SendHeader, SendBody,
         RequestComplete, Goto, BatchOn, acceptVars
<1>2. ASSUME PauseReading(l, c)
      PROVE  RouteOn(l, c)
  <2>1. UNCHANGED <<output_buffer_, killed, keep_alive, input_buffer_>> /\ pc'[l] = "dispatch"
    BY <1>2, <1>t DEF PauseReading, Goto, connVars, serverVars
  <2>2. {"out"} \in Masks /\ {"out"} # {}
    BY DEF Masks
  <2>3. EpollEffect(l, c) /\ (interest'[c] = {"out"} \/ interest'[c] = {})
    BY <1>2, <1>h, <2>2, EpollUpdated DEF PauseReading
  <2>4. OutMasked(c)
    BY <1>1, <1>t, <2>3, Masked
  <2>5. OutputRouted(c)
    BY <1>t, <2>1, <2>4 DEF OutputRouted
  <2> QED
    BY <1>1, <1>t, <2>1, <2>3, <2>5 DEF RouteOn
<1>3. ASSUME NoHeader(l, c)
      PROVE  RouteOn(l, c)
  <2>1. /\ UNCHANGED <<output_buffer_, killed, keep_alive, input_buffer_, registered_fds_,
                       interest, ready>>
        /\ pc'[l] = "return"
    BY <1>3, <1>t DEF NoHeader, Goto, connVars, serverVars, epollVars
  <2>2. EpollEffect(l, c) /\ OutputRouted(c)
    BY <1>1, <1>h, <1>t, <2>1, QuietRoutes
  <2> QED
    BY <1>1, <1>t, <2>1, <2>2 DEF RouteOn
<1>4. ASSUME BadRequest(l, c)
      PROVE  RouteOn(l, c)
  <2>1. /\ UNCHANGED <<output_buffer_, killed, keep_alive>> /\ Shutdown(c)
        /\ pc'[l] = "return" /\ input_buffer_' = [input_buffer_ EXCEPT ![c] = <<>>]
    BY <1>4, <1>t DEF BadRequest, Goto, serverVars
  <2>2. EpollEffect(l, c) /\ OutputRouted(c)
    BY <1>1, <1>h, <2>1, ShutdownRoutes
  <2>3. <<>> \in Seq(Kinds)
    BY EmptySeq
  <2> QED
    BY <1>1, <1>t, <2>1, <2>2, <2>3 DEF RouteOn
<1>5. ASSUME RequestStart(l, c)
      PROVE  RouteOn(l, c)
  <2>1. /\ UNCHANGED <<output_buffer_, killed, input_buffer_, registered_fds_,
                       interest, ready>>
        /\ Ends(input_buffer_[c]) # {}
    BY <1>5 DEF RequestStart, connVars, epollVars
  <2>2. keep_alive' \in [Fds -> {"none", "keep", "close"}]
    BY <1>5, <1>h, <1>t DEF RequestStart, OnRequestStart
  <2>3. EpollEffect(l, c) /\ OutputRouted(c)
    BY <1>1, <1>h, <1>t, <2>1, <2>2, QuietRoutes
  <2> QED
    BY <1>1, <1>t, <2>1, <2>3 DEF RouteOn
<1>6. ASSUME SendHeader(l, c) \/ SendBody(l, c)
      PROVE  RouteOn(l, c)
  <2>1. /\ UNCHANGED input_buffer_ /\ (Send(c, 1) \/ Send(c, BodySize))
        /\ cur[l] = c /\ pc[l] \in {"header", "body", "complete"}
    BY <1>6 DEF SendHeader, SendBody, Goto, connVars
  <2>2. EpollEffect(l, c) /\ OutputRouted(c)
    BY <1>1, <1>h, <1>t, <2>1, SendingRoutes
  <2> QED
    BY <1>1, <1>t, <2>1, <2>2 DEF RouteOn
<1>7. ASSUME RequestComplete(l, c)
      PROVE  RouteOn(l, c)
  <2> DEFINE b == input_buffer_[c]
  <2>1. /\ cur[l] = c /\ pc[l] = "complete" /\ UNCHANGED <<output_buffer_, killed, keep_alive>>
        /\ input_buffer_' = [input_buffer_ EXCEPT ![c] = SubSeq(b, HeaderEnd(b) + 1, Len(b))]
        /\ pc'[l] \in {"return", "dispatch"}
    BY <1>7, <1>t DEF RequestComplete, Goto, serverVars
  <2>2. SubSeq(b, HeaderEnd(b) + 1, Len(b)) \in Seq(Kinds)
    BY <1>t, <2>1, HeaderEnds
  <2>3. EpollEffect(l, c) /\ OutputRouted(c)
    <3>1. CASE Shutdown(c)
      BY <1>1, <1>h, <2>1, <3>1, ShutdownRoutes
    <3>2. CASE UNCHANGED epollVars
      <4>1. UNCHANGED <<registered_fds_, interest, ready>>
        BY <3>2 DEF epollVars
      <4> QED
        BY <1>1, <1>h, <1>t, <2>1, <4>1, QuietRoutes
    <3> QED
      BY <1>7, <3>1, <3>2 DEF RequestComplete
  <2> QED
    BY <1>1, <1>t, <2>1, <2>2, <2>3 DEF RouteOn
<1> QED
  BY <1>2, <1>3, <1>4, <1>5, <1>6, <1>7
-------------------------------------------------------------------------------
(* The other steps. *)

\* Output that is left alone, or dropped with its connection, stays watched.
LEMMA OutKept ==
  ASSUME ReactorInv, RouteInv, ~killed, NEW c \in Conns,
         \/ output_buffer_'[c] = 0
         \/ /\ output_buffer_'[c] = output_buffer_[c]
            /\ interest'[c] = interest[c] \/ interest'[c] = {}
            /\ state_'[c] = state_[c] \/ state_'[c] \notin {"none", "kConnecting"}
  PROVE  OutWatched(c)'
<1>1. /\ output_buffer_[c] <= MaxOutput /\ MaxOutput \in Nat /\ output_buffer_[c] \in Nat
      /\ state_[c] \in {"none", "kConnecting"} => output_buffer_[c] = 0
      /\ output_buffer_[c] > 0 /\ interest[c] # {} => "out" \in interest[c]
  BY ReactorAssumption DEF RouteInv, OutWatched, ReactorInv, ReactorTypes
<1> QED
  BY <1>1 DEF OutWatched

\* A step that concerns neither masks nor events nor requests in progress.
LEMMA RouteIdle ==
  ASSUME ReactorInv, RouteInv, RouteTypes', ReadyWatched',
         UNCHANGED <<fd_, loop_, read_callbacks_, batch, input_buffer_, output_buffer_, state_,
                     cur, interest, registered_fds_, killed>>,
         \A k \in Loops : pc'[k] = pc[k] \/ (pc'[k] = "poll" /\ batch[k] = <<>>)
  PROVE  RouteInv'
<1>1. WatchedRegistered' /\ EventsRouted' /\ OneEventEach'
  BY DEF RouteInv, WatchedRegistered, EventsRouted, OneEventEach
<1>2. OthersWait'
  BY DEF RouteInv, OthersWait
<1>3. Parsed'
  BY DEF RouteInv, Parsed
<1>4. \A c \in Conns : OutWatched(c)'
  BY DEF RouteInv, OutWatched, Handled
<1> QED
  BY <1>1, <1>2, <1>3, <1>4 DEF RouteInv

LEMMA PeerRoutes ==
  ASSUME ReactorInv, RouteInv, NEW c \in Conns, Peer(c)
  PROVE  RouteInv'
<1>1. RouteTypes /\ ReadyWatched /\ MaxRequests \in Nat
  BY ReactorAssumption DEF RouteInv
<1>2. PICK t : SocketBecomes(c, t)
  BY DEF Peer, PeerSend, PeerFin, PeerReset, PeerRead
<1>3. /\ UNCHANGED <<fd_, loop_, read_callbacks_, batch, input_buffer_, output_buffer_, state_,
                     cur, interest, registered_fds_, killed, pc, keep_alive>>
      /\ ready' = IF Edge(sock[c], t, interest[c]) THEN ready \cup {c} ELSE ready
  BY <1>2 DEF SocketBecomes, connVars, serverVars, threadVars
<1>4. ready' \subseteq Conns /\ ReadyWatched'
  BY <1>1, <1>3 DEF Edge, ReadyWatched, RouteTypes
<1>5. budget' \in [Conns -> 0 .. MaxRequests]
  <2>1. budget \in [Conns -> 0 .. MaxRequests]
    BY <1>1 DEF RouteTypes
  <2>2. UNCHANGED budget \/ (budget[c] > 0 /\ budget' = [budget EXCEPT ![c] = @ - 1])
    BY DEF Peer, PeerSend, PeerFin, PeerReset, PeerRead
  <2> QED
    BY <1>1, <2>1, <2>2
<1>6. RouteTypes'
  BY <1>1, <1>3, <1>4, <1>5 DEF RouteTypes
<1> QED
  BY <1>3, <1>4, <1>6, RouteIdle

LEMMA NextRoundRoutes ==
  ASSUME ReactorInv, RouteInv, NEW l \in Loops, NextRound(l)
  PROVE  RouteInv'
<1>1. /\ UNCHANGED <<fd_, loop_, read_callbacks_, batch, input_buffer_, output_buffer_, state_,
                     cur, interest, registered_fds_, killed, ready, budget, keep_alive>>
      /\ batch[l] = <<>> /\ pc' = [pc EXCEPT ![l] = "poll"]
  BY DEF NextRound, Goto, connVars, epollVars, serverVars, acceptVars
<1>2. RouteTypes' /\ ReadyWatched'
  BY <1>1 DEF RouteInv, RouteTypes, ReadyWatched
<1>3. \A k \in Loops : pc'[k] = pc[k] \/ (pc'[k] = "poll" /\ batch[k] = <<>>)
  BY <1>1 DEF ReactorInv, ReactorTypes
<1> QED
  BY <1>1, <1>2, <1>3, RouteIdle

LEMMA EpollWaitRoutes ==
  ASSUME ReactorInv, RouteInv, NEW l \in Loops, EpollWait(l)
  PROVE  RouteInv'
<1> DEFINE mine == {c \in ready : loop_[c] = l}
           C == {c \in mine : Revents(sock[c], interest[c]) # {}}
           q == GroupEvents(C)
<1>t. RouteTypes /\ ReadyWatched /\ None \notin Conns /\ pc \in [Loops -> PCs]
  BY ReactorAssumption DEF RouteInv, ReactorInv, ReactorTypes
<1>1. /\ UNCHANGED <<fd_, loop_, read_callbacks_, input_buffer_, output_buffer_, state_, cur,
                     interest, registered_fds_, killed, budget, keep_alive>>
      /\ batch' = [batch EXCEPT ![l] = q] /\ ready' = ready \ mine
      /\ ~killed /\ pc[l] = "poll" /\ pc' = [pc EXCEPT ![l] = "batch"]
  BY DEF EpollWait, Goto, connVars, serverVars, acceptVars
<1>2. \A c \in C : c \in Conns /\ loop_[c] = l /\ fd_[c] \in Fds /\ read_callbacks_[l][fd_[c]] = c
  BY <1>t DEF RouteTypes, ReadyWatched, ReactorInv, InterestOwned
<1>3. C \in SUBSET Conns
  BY <1>2
<1> HIDE DEF C
<1>4. /\ q \in Seq(Events)
      /\ \A n \in 1 .. Len(q) : q[n].of \in C /\ q[n].fd = fd_[q[n].of]
      /\ \A m, n \in 1 .. Len(q) : q[m].of = q[n].of => m = n
  BY <1>2, <1>3, GroupEventsRoutes
<1> HIDE DEF q
<1>5. /\ batch' \in [Loops -> Seq(Events)] /\ batch'[l] = q
      /\ \A k \in Loops : k # l => batch'[k] = batch[k]
  BY <1>t, <1>1, <1>4 DEF RouteTypes
<1>6. RouteTypes'
  BY <1>t, <1>1, <1>5 DEF RouteTypes
<1>7. ReadyWatched' /\ WatchedRegistered'
  BY <1>t, <1>1 DEF RouteInv, ReadyWatched, WatchedRegistered
<1>8. EventsRouted'
  <2> SUFFICES ASSUME NEW k \in Loops, NEW n \in 1 .. Len(batch'[k])
               PROVE  /\ fd_[batch'[k][n].of] = batch'[k][n].fd /\ loop_[batch'[k][n].of] = k
                      /\ read_callbacks_[k][batch'[k][n].fd] = batch'[k][n].of
    BY <1>1 DEF EventsRouted
  <2>1. CASE k = l
    BY <2>1, <1>2, <1>4, <1>5
  <2>2. CASE k # l
    BY <2>2, <1>5 DEF RouteInv, EventsRouted
  <2> QED
    BY <2>1, <2>2
<1>9. OneEventEach'
  <2> SUFFICES ASSUME NEW k \in Loops, NEW m \in 1 .. Len(batch'[k]), NEW n \in 1 .. Len(batch'[k]),
                      batch'[k][m].of = batch'[k][n].of
               PROVE  m = n
    BY DEF OneEventEach
  <2>1. CASE k = l
    BY <2>1, <1>4, <1>5
  <2>2. CASE k # l
    BY <2>2, <1>5 DEF RouteInv, OneEventEach
  <2> QED
    BY <2>1, <2>2
<1>10. OthersWait'
  <2> SUFFICES ASSUME NEW k \in Loops
               PROVE  /\ pc'[k] = "poll" => batch'[k] = <<>>
                      /\ \A n \in 1 .. Len(batch'[k]) : batch'[k][n].of # cur[k]
    BY <1>1 DEF OthersWait
  <2>1. CASE k = l
    <3>1. cur[l] = None
      BY <1>1 DEF ReactorInv, Current
    <3> QED
      BY <2>1, <3>1, <1>t, <1>1, <1>2, <1>4, <1>5
  <2>2. CASE k # l
    BY <2>2, <1>t, <1>1, <1>5 DEF RouteInv, OthersWait
  <2> QED
    BY <2>1, <2>2
<1>11. Parsed'
  BY <1>t, <1>1 DEF RouteInv, Parsed
<1>12. ASSUME NEW c \in Conns PROVE OutWatched(c)'
  BY <1>1, OutKept
<1> QED
  BY <1>6, <1>7, <1>8, <1>9, <1>10, <1>11, <1>12 DEF RouteInv

LEMMA HandleErrorRoutes ==
  ASSUME ReactorInv, RouteInv, NEW l \in Loops, HandleErrorEvent(l)
  PROVE  RouteInv'
<1> DEFINE c == Head(batch[l]).of
<1>t. RouteTypes /\ ReadyWatched
  BY DEF RouteInv
<1>1. /\ UNCHANGED <<fd_, loop_, read_callbacks_, input_buffer_, output_buffer_, state_, cur,
                     killed, budget, keep_alive, pc>>
      /\ NextEvent(l) /\ batch[l] # <<>> /\ RemoveEvent(l, Head(batch[l]).fd)
      /\ ~killed /\ pc[l] = "batch"
  BY DEF HandleErrorEvent, Event, connVars, serverVars, acceptVars
<1>2. Len(batch[l]) \in Nat \ {0} /\ Head(batch[l]) = batch[l][1] /\ Head(batch[l]) \in Events
  BY <1>t, <1>1, NextInBatch DEF RouteTypes
<1>3. c \in Conns /\ Head(batch[l]).fd \in Fds
  BY <1>2 DEF Events
<1>4. fd_[c] = Head(batch[l]).fd /\ loop_[c] = l
  BY <1>2 DEF RouteInv, EventsRouted
<1> HIDE DEF c
<1>5. EpollEffect(l, c) /\ interest'[c] = {}
  BY <1>1, <1>3, <1>4, EpollRemoved
<1>6. BatchOn(l, c)
  BY <1>1 DEF BatchOn, NextEvent, c
<1>7. /\ batch' \in [Loops -> Seq(Events)] /\ EventsRouted' /\ OneEventEach'
      /\ \A n \in 1 .. Len(batch'[l]) : batch'[l][n].of # c
      /\ \A k \in Loops : k # l => batch'[k] = batch[k]
  BY <1>1, <1>3, <1>6, BatchGoesOn
<1>8. RouteTypes'
  BY <1>t, <1>1, <1>5, <1>7 DEF RouteTypes, EpollEffect, EpollOn
<1>9. ReadyWatched'
  BY <1>t, <1>5 DEF ReadyWatched, EpollEffect, EpollOn
<1>10. WatchedRegistered'
  <2> SUFFICES ASSUME NEW d \in Conns, interest'[d] # {}
               PROVE  fd_[d] \in registered_fds_'[loop_[d]]
    BY <1>1 DEF WatchedRegistered
  <2>1. d # c /\ interest[d] # {}
    BY <1>5 DEF EpollEffect, EpollOn
  <2>2. fd_[d] \in Fds /\ loop_[d] \in Loops /\ fd_[d] # fd_[c] /\ fd_[d] \in registered_fds_[loop_[d]]
    BY <1>3, <2>1, ReactorAssumption
       DEF ReactorInv, InterestOwned, AliveState, OneOwner, RouteInv, WatchedRegistered
  <2> QED
    BY <2>2, <1>5 DEF EpollEffect, EpollOn
<1>11. OthersWait'
  <2> SUFFICES ASSUME NEW k \in Loops
               PROVE  /\ pc[k] = "poll" => batch'[k] = <<>>
                      /\ \A n \in 1 .. Len(batch'[k]) : batch'[k][n].of # cur[k]
    BY <1>1 DEF OthersWait
  <2>1. CASE k = l
    <3>1. cur[l] = None /\ None \notin Conns
      BY <1>1, ReactorAssumption DEF ReactorInv, Current
    <3>2. \A n \in 1 .. Len(batch'[l]) : batch'[l][n].of \in Conns
      <4>1. \A n \in 1 .. Len(batch'[l]) : batch'[l][n] \in Events
        BY <1>7, ElementOfSeq
      <4> QED
        BY <4>1 DEF Events
    <3> QED
      BY <2>1, <3>1, <3>2, <1>1
  <2>2. CASE k # l
    BY <2>2, <1>7 DEF RouteInv, OthersWait
  <2> QED
    BY <2>1, <2>2
<1>12. Parsed'
  BY <1>1 DEF RouteInv, Parsed
<1>13. ASSUME NEW d \in Conns PROVE OutWatched(d)'
  <2>1. interest'[d] = interest[d] \/ interest'[d] = {}
    BY <1>5 DEF EpollEffect, EpollOn
  <2> QED
    BY <1>1, <2>1, OutKept
<1> QED
  BY <1>7, <1>8, <1>9, <1>10, <1>11, <1>12, <1>13 DEF RouteInv

\* The connection an event was raised for.
LEMMA EventFacts ==
  ASSUME RouteInv, NEW k \in Loops, NEW n \in 1 .. Len(batch[k])
  PROVE  /\ batch[k][n].of \in Conns /\ batch[k][n].fd \in Fds
         /\ fd_[batch[k][n].of] = batch[k][n].fd /\ loop_[batch[k][n].of] = k
         /\ read_callbacks_[k][batch[k][n].fd] = batch[k][n].of
<1>1. batch[k][n] \in Events
  BY ElementOfSeq DEF RouteInv, RouteTypes
<1> QED
  BY <1>1 DEF Events, RouteInv, EventsRouted

LEMMA TimerRoutes ==
  ASSUME ReactorInv, RouteInv, NEW l \in Loops, TimerFires(l)
  PROVE  RouteInv'
<1>t. RouteTypes /\ ReadyWatched /\ ReactorTypes /\ None \notin Conns
  BY ReactorAssumption DEF RouteInv, ReactorInv
<1>1. /\ UNCHANGED <<fd_, loop_, read_callbacks_, input_buffer_, output_buffer_, interest,
                     registered_fds_, ready, killed, budget, keep_alive, batch>>
      /\ ~killed /\ pc[l] = "poll" /\ pc' = [pc EXCEPT ![l] = "deadlock"]
  BY DEF TimerFires, Goto, connVars, epollVars, serverVars, acceptVars
<1>2. PICK c \in Conns : /\ state_' = [state_ EXCEPT ![c] = "kClosed"]
                         /\ cur' = [cur EXCEPT ![l] = c]
  <2>1. PICK f \in Fds : /\ timers_[l][f] # None
                         /\ state_' = [state_ EXCEPT ![timers_[l][f]] = "kClosed"]
                         /\ cur' = [cur EXCEPT ![l] = timers_[l][f]]
    BY DEF TimerFires
  <2>2. timers_[l][f] \in Conns
    BY <1>t, <2>1 DEF ReactorTypes
  <2> QED
    BY <2>1, <2>2
<1>3. /\ pc'[l] = "deadlock" /\ \A k \in Loops : k # l => pc'[k] = pc[k] /\ cur'[k] = cur[k]
      /\ state_'[c] = "kClosed" /\ \A d \in Conns : d # c => state_'[d] = state_[d]
  BY <1>t, <1>1, <1>2 DEF ReactorTypes
<1>4. RouteTypes' /\ ReadyWatched' /\ WatchedRegistered'
  BY <1>t, <1>1 DEF RouteInv, RouteTypes, ReadyWatched, WatchedRegistered
<1>8. EventsRouted' /\ OneEventEach'
  BY <1>1 DEF RouteInv, EventsRouted, OneEventEach
<1>5. OthersWait'
  <2>1. batch[l] = <<>> /\ Len(<<>>) = 0
    BY <1>1, EmptySeq DEF RouteInv, OthersWait
  <2> QED
    BY <2>1, <1>1, <1>3 DEF RouteInv, OthersWait
<1>6. Parsed'
  BY <1>1, <1>3 DEF RouteInv, Parsed
<1>7. ASSUME NEW d \in Conns PROVE OutWatched(d)'
  BY <1>1, <1>3, OutKept
<1> QED
  BY <1>4, <1>5, <1>6, <1>7, <1>8 DEF RouteInv

LEMMA ReturnRoutes ==
  ASSUME ReactorInv, RouteInv, NEW l \in Loops, NEW c \in Conns, Return(l, c)
  PROVE  RouteInv'
<1> DEFINE last == connections_[fd_[c]] # c /\ timers_[loop_[c]][fd_[c]] # c
<1>t. RouteTypes /\ ReadyWatched /\ ReactorTypes /\ None \notin Conns
  BY ReactorAssumption DEF RouteInv, ReactorInv
<1>1. /\ UNCHANGED <<loop_, read_callbacks_, registered_fds_, killed, budget, keep_alive, batch>>
      /\ ~killed /\ cur[l] = c /\ pc[l] = "return" /\ pc' = [pc EXCEPT ![l] = "batch"]
      /\ cur' = [cur EXCEPT ![l] = None]
  BY DEF Return, Goto, serverVars, acceptVars
<1>2. loop_[c] = l
  BY <1>1 DEF ReactorInv, Current
<1>3. /\ pc'[l] = "batch" /\ cur'[l] = None
      /\ \A k \in Loops : k # l => pc'[k] = pc[k] /\ cur'[k] = cur[k]
  BY <1>t, <1>1 DEF ReactorTypes
<1>4. /\ input_buffer_' \in [Conns -> Seq(Kinds)] /\ ready' \subseteq ready
      /\ \A d \in Conns : d # c =>
           /\ fd_'[d] = fd_[d] /\ input_buffer_'[d] = input_buffer_[d]
           /\ output_buffer_'[d] = output_buffer_[d] /\ state_'[d] = state_[d]
           /\ interest'[d] = interest[d]
      /\ \/ output_buffer_'[c] = 0 /\ interest'[c] = {} /\ c \notin ready'
         \/ /\ output_buffer_'[c] = output_buffer_[c] /\ interest'[c] = interest[c]
            /\ state_'[c] = state_[c] /\ fd_'[c] = fd_[c]
  <2>1. CASE last
    <3>1. /\ state_' = [state_ EXCEPT ![c] = "destroyed"]
          /\ fd_' = [fd_ EXCEPT ![c] = None]
          /\ input_buffer_' = [input_buffer_ EXCEPT ![c] = <<>>]
          /\ output_buffer_' = [output_buffer_ EXCEPT ![c] = 0]
          /\ interest' = [interest EXCEPT ![c] = {}]
          /\ ready' = ready \ {c}
      BY <2>1 DEF Return
    <3>2. <<>> \in Seq(Kinds)
      BY EmptySeq
    <3> QED
      BY <1>t, <3>1, <3>2 DEF RouteTypes, ReactorTypes
  <2>2. CASE ~last
    <3>1. UNCHANGED <<state_, fd_, input_buffer_, output_buffer_, interest, ready>>
      BY <2>2 DEF Return
    <3> QED
      BY <1>t, <3>1 DEF RouteTypes
  <2> QED
    BY <2>1, <2>2
<1>5. \A k \in Loops : \A n \in 1 .. Len(batch[k]) : batch[k][n].of # c
  <2> SUFFICES ASSUME NEW k \in Loops, NEW n \in 1 .. Len(batch[k])
               PROVE  batch[k][n].of # c
    OBVIOUS
  <2>1. CASE k = l
    BY <2>1, <1>1 DEF RouteInv, OthersWait
  <2>2. CASE k # l
    BY <2>2, <1>2, EventFacts
  <2> QED
    BY <2>1, <2>2
<1>6. RouteTypes'
  BY <1>t, <1>1, <1>4 DEF RouteTypes
<1>7. ReadyWatched'
  BY <1>t, <1>4 DEF RouteTypes, ReadyWatched
<1>8. WatchedRegistered'
  BY <1>1, <1>4 DEF RouteInv, WatchedRegistered
<1>9. EventsRouted'
  <2> SUFFICES ASSUME NEW k \in Loops, NEW n \in 1 .. Len(batch[k])
               PROVE  /\ fd_'[batch[k][n].of] = batch[k][n].fd /\ loop_[batch[k][n].of] = k
                      /\ read_callbacks_[k][batch[k][n].fd] = batch[k][n].of
    BY <1>1 DEF EventsRouted
  <2> QED
    BY <1>4, <1>5, EventFacts
<1>10. OneEventEach'
  BY <1>1 DEF RouteInv, OneEventEach
<1>11. OthersWait'
  <2> SUFFICES ASSUME NEW k \in Loops
               PROVE  /\ pc'[k] = "poll" => batch[k] = <<>>
                      /\ \A n \in 1 .. Len(batch[k]) : batch[k][n].of # cur'[k]
    BY <1>1 DEF OthersWait
  <2>1. CASE k = l
    BY <2>1, <1>t, <1>3, EventFacts
  <2>2. CASE k # l
    BY <2>2, <1>3 DEF RouteInv, OthersWait
  <2> QED
    BY <2>1, <2>2
<1>12. Parsed'
  <2> SUFFICES ASSUME NEW k \in Loops, pc'[k] \in {"header", "body", "complete"}
               PROVE  Ends(input_buffer_'[cur'[k]]) # {}
    BY DEF Parsed, Ends
  <2>1. k # l /\ pc[k] \in {"header", "body", "complete"} /\ cur'[k] = cur[k]
    BY <1>3
  <2>2. cur[k] \in Conns /\ loop_[cur[k]] = k
    BY <2>1, BusyLoop
  <2>3. cur[k] # c
    BY <1>2, <2>1, <2>2
  <2>4. input_buffer_'[cur[k]] = input_buffer_[cur[k]]
    BY <1>4, <2>2, <2>3
  <2>5. Ends(input_buffer_[cur[k]]) # {}
    BY <2>1 DEF RouteInv, Parsed
  <2> QED
    BY <2>1, <2>4, <2>5
<1>13. ASSUME NEW d \in Conns PROVE OutWatched(d)'
  BY <1>1, <1>4, OutKept
<1> QED
  BY <1>6, <1>7, <1>8, <1>9, <1>10, <1>11, <1>12, <1>13 DEF RouteInv

LEMMA AcceptRoutes ==
  ASSUME ReactorInv, RouteInv, NEW c \in Conns, Accept(c)
  PROVE  RouteInv'
<1>t. RouteTypes /\ ReadyWatched /\ ReactorTypes /\ None \notin Conns /\ None \notin Fds
  BY ReactorAssumption DEF RouteInv, ReactorInv
<1>1. /\ UNCHANGED <<read_callbacks_, input_buffer_, output_buffer_, interest, registered_fds_,
                     ready, killed, budget, keep_alive, batch, pc, cur>>
      /\ ~killed /\ state_[c] = "none"
  BY DEF Accept, NewConnection, epollVars, threadVars
<1>2. /\ \A d \in Conns : d # c => fd_'[d] = fd_[d] /\ loop_'[d] = loop_[d] /\ state_'[d] = state_[d]
  BY <1>t DEF Accept, NewConnection, ReactorTypes
<1>3. fd_[c] = None /\ interest[c] = {}
  BY <1>1, NewIsNowhere
<1>4. RouteTypes' /\ ReadyWatched' /\ OneEventEach' /\ OthersWait' /\ Parsed'
  BY <1>1 DEF RouteInv, RouteTypes, ReadyWatched, OneEventEach, OthersWait, Parsed
<1>5. WatchedRegistered'
  BY <1>1, <1>2, <1>3 DEF RouteInv, WatchedRegistered
<1>6. EventsRouted'
  <2> SUFFICES ASSUME NEW k \in Loops, NEW n \in 1 .. Len(batch[k])
               PROVE  /\ fd_'[batch[k][n].of] = batch[k][n].fd /\ loop_'[batch[k][n].of] = k
                      /\ read_callbacks_[k][batch[k][n].fd] = batch[k][n].of
    BY <1>1 DEF EventsRouted
  <2>1. batch[k][n].of # c
    BY <1>3, <1>t, EventFacts
  <2> QED
    BY <2>1, <1>2, EventFacts
<1>7. ASSUME NEW d \in Conns PROVE OutWatched(d)'
  <2>1. output_buffer_[c] = 0
    BY <1>1 DEF RouteInv, OutWatched
  <2> QED
    BY <2>1, <1>1, <1>2, OutKept
<1> QED
  BY <1>4, <1>5, <1>6, <1>7 DEF RouteInv

\* ConnectEstablished registers the callback of c on a descriptor for which no
\* event waits.
LEMMA EstablishedRoutes ==
  ASSUME ReactorInv, RouteInv, NEW l \in Loops, NEW c \in Conns, NEW f \in Fds,
         ~killed, state_[c] \in {"none", "kConnecting"},
         ConnectEstablished(l, c, f), fd_'[c] = f, loop_'[c] = l,
         \A d \in Conns : d # c => fd_'[d] = fd_[d] /\ loop_'[d] = loop_[d] /\ fd_[d] # f,
         \A k \in Loops : \A n \in 1 .. Len(batch[k]) : batch[k][n].of # c,
         UNCHANGED <<input_buffer_, output_buffer_, killed, keep_alive, budget, batch, pc, cur>>
  PROVE  RouteInv'
<1>t. RouteTypes /\ ReadyWatched /\ ReactorTypes
  BY DEF RouteInv, ReactorInv
<1>1. Established(l, c, f)
  BY Establishing
<1>2. UpdateEvent(l, f, c, {"in"}, sock[c]) /\ {"in"} \in Masks /\ {"in"} # {}
  BY DEF ConnectEstablished, Masks
<1>3. EpollOn(l, f, c)
  BY <1>2, WatchUpdated
<1>4. RouteTypes'
  BY <1>t, <1>3 DEF RouteTypes, EpollOn
<1>5. ReadyWatched'
  BY <1>t, <1>3 DEF ReadyWatched, EpollOn
<1>6. WatchedRegistered'
  <2> SUFFICES ASSUME NEW d \in Conns, interest'[d] # {}
               PROVE  fd_'[d] \in registered_fds_'[loop_'[d]]
    BY DEF WatchedRegistered
  <2>1. CASE d = c
    BY <2>1, <1>3 DEF EpollOn
  <2>2. CASE d # c
    <3>1. interest[d] # {} /\ fd_[d] \in Fds /\ fd_[d] \in registered_fds_[loop_[d]]
      BY <2>2, <1>3 DEF EpollOn, RouteInv, WatchedRegistered, ReactorInv, InterestOwned
    <3>2. loop_[d] \in Loops /\ fd_[d] # f
      BY <2>2, <3>1, ReactorAssumption DEF ReactorInv, AliveState
    <3> QED
      BY <2>2, <3>1, <3>2, <1>3 DEF EpollOn
  <2> QED
    BY <2>1, <2>2
<1>7. OneEventEach' /\ OthersWait' /\ Parsed'
  BY DEF RouteInv, OneEventEach, OthersWait, Parsed
<1>8. EventsRouted'
  <2> SUFFICES ASSUME NEW k \in Loops, NEW n \in 1 .. Len(batch[k])
               PROVE  /\ fd_'[batch[k][n].of] = batch[k][n].fd /\ loop_'[batch[k][n].of] = k
                      /\ read_callbacks_'[k][batch[k][n].fd] = batch[k][n].of
    BY DEF EventsRouted
  <2>1. /\ batch[k][n].of \in Conns /\ batch[k][n].of # c /\ batch[k][n].fd \in Fds
        /\ fd_[batch[k][n].of] = batch[k][n].fd /\ loop_[batch[k][n].of] = k
        /\ read_callbacks_[k][batch[k][n].fd] = batch[k][n].of
    BY EventFacts
  <2>2. batch[k][n].fd # f
    BY <2>1
  <2>3. read_callbacks_'[k][batch[k][n].fd] = read_callbacks_[k][batch[k][n].fd]
    BY <1>1, <2>1, <2>2 DEF Established
  <2> QED
    BY <2>1, <2>3
<1>9. ASSUME NEW d \in Conns PROVE OutWatched(d)'
  <2>1. output_buffer_[c] = 0
    BY DEF RouteInv, OutWatched
  <2>2. CASE d = c
    BY <2>1, <2>2, OutKept
  <2>3. CASE d # c
    BY <2>3, <1>1, OutKept DEF Established
  <2> QED
    BY <2>2, <2>3
<1> QED
  BY <1>4, <1>5, <1>6, <1>7, <1>8, <1>9 DEF RouteInv

LEMMA SubAcceptRoutes ==
  ASSUME ReactorInv, RouteInv, NEW l \in Loops, NEW c \in Conns, AcceptInSubReactor(l, c)
  PROVE  RouteInv'
<1> DEFINE f == FreeFd
<1>1. /\ UNCHANGED <<input_buffer_, output_buffer_, killed, keep_alive, budget, batch, pc, cur>>
      /\ ~killed /\ NewConnection(c, f, l) /\ ConnectEstablished(l, c, f)
  BY DEF AcceptInSubReactor, NewConnection, threadVars
<1>2. /\ state_[c] = "none" /\ f \in Fds /\ fd_'[c] = f /\ loop_'[c] = l
      /\ \A d \in Conns : fd_[d] # f
      /\ \A d \in Conns : d # c => fd_'[d] = fd_[d] /\ loop_'[d] = loop_[d]
  BY <1>1, AcceptedFacts
<1>3. fd_[c] = None /\ None \notin Fds
  BY <1>2, NewIsNowhere, ReactorAssumption
<1>4. \A k \in Loops : \A n \in 1 .. Len(batch[k]) : batch[k][n].of # c
  BY <1>3, EventFacts
<1> HIDE DEF f
<1> QED
  BY <1>1, <1>2, <1>4, EstablishedRoutes

LEMMA FunctorRoutes ==
  ASSUME ReactorInv, RouteInv, NEW l \in Loops, RunFunctor(l)
  PROVE  RouteInv'
<1> DEFINE q == pending_functors_[l]
           c == Head(q)
           f == fd_[c]
<1>1. /\ UNCHANGED <<input_buffer_, output_buffer_, killed, keep_alive, budget, batch, pc, cur,
                     fd_, loop_>>
      /\ ~killed /\ ConnectEstablished(l, c, f) /\ q # <<>>
  BY DEF RunFunctor, connVars, serverVars, threadVars
<1>2. c \in Conns /\ Len(q) \in Nat \ {0} /\ c = q[1]
  <2>1. q \in Seq(Conns)
    BY DEF ReactorInv, ReactorTypes
  <2>2. Len(q) \in Nat /\ Len(q) # 0
    BY <1>1, <2>1, EmptySeq, LenProperties
  <2> HIDE DEF q
  <2> QED
    BY <1>1, <2>1, <2>2, HeadTailProperties
<1>3. state_[c] = "kConnecting" /\ loop_[c] = l
  <2>1. 1 \in 1 .. Len(q)
    BY <1>2
  <2>2. state_[q[1]] = "kConnecting" /\ loop_[q[1]] = l
    BY <2>1 DEF ReactorInv, Queued
  <2> QED
    BY <1>2, <2>2
<1> HIDE DEF c
<1>4. f \in Fds /\ \A d \in Conns : d # c => fd_[d] # f
  BY <1>2, <1>3 DEF ReactorInv, AliveState, OneOwner
<1>5. \A k \in Loops : \A n \in 1 .. Len(batch[k]) : batch[k][n].of # c
  <2> SUFFICES ASSUME NEW k \in Loops, NEW n \in 1 .. Len(batch[k])
               PROVE  batch[k][n].of # c
    OBVIOUS
  <2>1. /\ batch[k][n].of \in Conns /\ batch[k][n].fd \in Fds
        /\ read_callbacks_[k][batch[k][n].fd] = batch[k][n].of
    BY EventFacts
  <2>2. state_[batch[k][n].of] # "kConnecting"
    BY <2>1 DEF ReactorInv, Callbacks
  <2> QED
    BY <2>2, <1>3
<1>6. fd_'[c] = f /\ loop_'[c] = l
  BY <1>1, <1>3
<1> HIDE DEF f
<1> QED
  BY <1>1, <1>2, <1>3, <1>4, <1>5, <1>6, EstablishedRoutes
-------------------------------------------------------------------------------
LEMMA RouteInit ==
  Init => RouteInv
<1> SUFFICES ASSUME Init
             PROVE  RouteInv
  OBVIOUS
<1>1. /\ <<>> \in Seq(Kinds) /\ <<>> \in Seq(Events) /\ Len(<<>>) = 0
      /\ MaxRequests \in 0 .. MaxRequests /\ MaxOutput \in Nat
  BY EmptySeq, ReactorAssumption
<1>2. RouteTypes
  BY <1>1 DEF Init, RouteTypes
<1>3. ReadyWatched /\ WatchedRegistered /\ Parsed
  BY DEF Init, ReadyWatched, WatchedRegistered, Parsed
<1>4. EventsRouted /\ OneEventEach /\ OthersWait
  BY <1>1 DEF Init, EventsRouted, OneEventEach, OthersWait
<1>5. \A c \in Conns : OutWatched(c)
  BY <1>1 DEF Init, OutWatched
<1> QED
  BY <1>2, <1>3, <1>4, <1>5 DEF RouteInv

LEMMA RouteStep ==
  ASSUME ReactorInv, RouteInv, [Next]_vars
  PROVE  RouteInv'
<1>1. ASSUME NEW l \in Loops, LoopThread(l)
      PROVE  RouteInv'
  <2>1. ASSUME NEW c \in Conns, HandleRead(l, c)
        PROVE  RouteInv'
    BY <2>1, HandleReadCallback, HandleReadRoutes, CallbackRoutes
  <2>2. ASSUME NEW c \in Conns, HandleWriteEvent(l, c)
        PROVE  RouteInv'
    BY <2>2, HandleWriteCallback, HandleWriteRoutes, CallbackRoutes
  <2>3. ASSUME NEW c \in Conns,
               \/ PauseReading(l, c) \/ NoHeader(l, c) \/ BadRequest(l, c) \/ RequestStart(l, c)
               \/ SendHeader(l, c) \/ SendBody(l, c) \/ RequestComplete(l, c)
        PROVE  RouteInv'
    BY <2>3, OtherCallbacks, OtherRoutes, CallbackRoutes
  <2> QED
    BY <1>1, <2>1, <2>2, <2>3, EpollWaitRoutes, HandleErrorRoutes, FunctorRoutes,
       NextRoundRoutes, ReturnRoutes DEF LoopThread
<1>2. ASSUME UNCHANGED vars
      PROVE  RouteInv'
  <2>1. UNCHANGED <<fd_, loop_, read_callbacks_, batch, input_buffer_, output_buffer_, state_,
                    cur, interest, registered_fds_, killed, ready, budget, keep_alive, pc>>
    BY <1>2 DEF vars, connVars, epollVars, serverVars, threadVars, acceptVars
  <2>2. RouteTypes' /\ ReadyWatched'
    BY <2>1 DEF RouteInv, RouteTypes, ReadyWatched
  <2> QED
    BY <2>1, <2>2, RouteIdle
<1> QED
  BY <1>1, <1>2, TimerRoutes, AcceptRoutes, SubAcceptRoutes, PeerRoutes DEF Next, Killed

\* The inductive invariant: what the loop's tables, epoll and the batch say of
\* a connection agrees, through accepts, callbacks, errors and closes.
THEOREM ReactorAlwaysRouted == Spec => []RouteInv
<1>1. ReactorInv /\ RouteInv /\ [Next]_vars => RouteInv'
  BY RouteStep
<1> QED
  BY <1>1, RouteInit, ReactorAlwaysConsistent, PTL DEF Spec

\* Every variable of the reactor keeps its type; the output of a connection
\* never exceeds its limit (Send).
THEOREM ReactorTypeOK == Spec => []TypeOK
<1>1. ReactorInv /\ RouteInv => TypeOK
  <2> SUFFICES ASSUME ReactorInv, RouteInv
               PROVE  TypeOK
    OBVIOUS
  <2>1. output_buffer_ \in [Conns -> 0 .. MaxOutput]
    BY ReactorAssumption DEF ReactorInv, ReactorTypes, RouteInv, OutWatched
  <2> QED
    BY <2>1 DEF ReactorInv, ReactorTypes, RouteInv, RouteTypes, TypeOK
<1> QED
  BY <1>1, ReactorAlwaysConsistent, ReactorAlwaysRouted, PTL

\* An event finds the connection it was raised for, alive and with its own
\* callback, whatever the callbacks before it in the batch have closed
\* (ProcessBatch, the maps of EventLoop, accept4 reusing numbers).
THEOREM ReactorEventsRouted == Spec => []EventsRouted
<1>1. RouteInv => EventsRouted
  BY DEF RouteInv
<1> QED
  BY <1>1, ReactorAlwaysRouted, PTL

\* Output that could not be sent waits for the socket to become writable
\* (HandleWrite, Send, PauseReading and UpdateEvent).
THEOREM ReactorOutputWatched == Spec => []OutputWatched
<1>1. RouteInv => OutputWatched
  BY DEF RouteInv, OutWatched, OutputWatched
<1> QED
  BY <1>1, ReactorAlwaysRouted, PTL
-------------------------------------------------------------------------------
(* As long as no input exceeds its limit: the loop's table against epoll. *)

\* A connection that is not closed is in the server's table.
Listed ==
  \A c \in Conns : state_[c] \in {"kConnecting", "kConnected", "kClosing"} =>
                     connections_[fd_[c]] = c

ClosedUnwatched ==
  \A c \in Conns : state_[c] = "kClosed" /\ pc[loop_[c]] # "deadlock" => interest[c] = {}

\* PauseReading is not reached.
NoPause == \A l \in Loops : pc[l] # "limit"

RegInv == Listed /\ ClosedUnwatched /\ RegisteredIsWatched /\ NoPause

\* The step of a callback: c is registered exactly if it is watched; closing
\* takes it out of epoll and of no table but its own.
RegEffect(l, c) ==
  /\ fd_[c] \in registered_fds_'[l] => interest'[c] # {}
  /\ state_'[c] = "kClosed" => interest'[c] = {}
  /\ state_'[c] # "kClosed" => connections_'[fd_[c]] = c

LEMMA HereReg ==
  ASSUME ReactorInv, RegInv, NEW l \in Loops, NEW c \in Conns, Here(l, c)
  PROVE  /\ fd_[c] \in registered_fds_[l] => interest[c] # {}
         /\ state_[c] = "kClosed" => interest[c] = {}
         /\ state_[c] # "kClosed" => connections_[fd_[c]] = c
         /\ fd_[c] \in Fds /\ loop_[c] = l
<1>h. /\ loop_[c] = l /\ fd_[c] \in Fds /\ pc[l] # "deadlock"
      /\ state_[c] \in {"kConnected", "kClosing", "kClosed"}
  BY HereFacts DEF Here
<1>1. fd_[c] \in registered_fds_[l] => interest[c] # {}
  BY <1>h DEF RegInv, RegisteredIsWatched, ReactorInv, OneOwner
<1> QED
  BY <1>h, <1>1 DEF RegInv, Listed, ClosedUnwatched

LEMMA RegKept ==
  ASSUME ReactorInv, RegInv, NEW l \in Loops, NEW c \in Conns, Here(l, c),
         UNCHANGED <<registered_fds_, interest, connections_>>,
         state_'[c] = state_[c] \/ (state_[c] # "kClosed" /\ state_'[c] = "kClosing")
  PROVE  RegEffect(l, c)
BY HereReg DEF RegEffect

LEMMA RegClosed ==
  ASSUME ReactorInv, RouteInv, RegInv, NEW l \in Loops, NEW c \in Conns, Here(l, c),
         HandleClose(c)
  PROVE  RegEffect(l, c)
<1>1. interest'[c] = {} /\ fd_[c] \notin registered_fds_'[l]
  BY EpollClosed
<1>2. state_'[c] = "kClosed"
  BY Closing
<1> QED
  BY <1>1, <1>2 DEF RegEffect

LEMMA RegWatched ==
  ASSUME ReactorInv, RouteInv, RegInv, NEW l \in Loops, NEW c \in Conns, Here(l, c),
         NEW mask \in Masks, mask # {}, NEW s, UpdateEvent(l, fd_[c], c, mask, s),
         state_[c] # "kClosed", UNCHANGED <<state_, connections_>>
  PROVE  RegEffect(l, c)
<1>1. interest'[c] # {}
  BY HereReg, WatchUpdated
<1> QED
  BY <1>1, HereReg DEF RegEffect

LEMMA WritingReg ==
  ASSUME ReactorInv, RouteInv, RegInv, NEW l \in Loops, NEW c \in Conns, Here(l, c),
         NEW o \in Nat, HandleWrite(c, o)
  PROVE  RegEffect(l, c)
<1>t. loop_[c] = l
  BY HereFacts
<1>m. /\ {"in"} \in Masks /\ {"in", "out"} \in Masks /\ {"in"} # {} /\ {"in", "out"} # {}
  BY DEF Masks
<1>1. CASE UNCHANGED <<state_, sock, timers_, epollVars, serverVars>>
  <2>1. UNCHANGED <<registered_fds_, interest, connections_>> /\ state_'[c] = state_[c]
    BY <1>1 DEF epollVars, serverVars
  <2> QED
    BY <2>1, RegKept
<1>2. CASE HandleClose(c) /\ UNCHANGED <<sock, killed>>
  BY <1>2, RegClosed
<1>3. CASE /\ state_[c] # "kClosed"
           /\ UpdateEvent(loop_[c], fd_[c], c, {"in", "out"}, sock[c])
           /\ UNCHANGED <<state_, sock, timers_, killed, serverVars>>
  <2>1. UNCHANGED <<state_, connections_>>
    BY <1>3 DEF serverVars
  <2> QED
    BY <1>3, <1>t, <1>m, <2>1, RegWatched
<1>4. CASE /\ state_[c] # "kClosed"
           /\ \E n \in 1 .. SndBuf - sock[c].sndq :
                LET t == [sock[c] EXCEPT !.sndq = @ + n,
                                      !.wr_shut = @ \/ (n = o /\ state_[c] = "kClosing")]
                IN UpdateEvent(loop_[c], fd_[c], c, IF n = o THEN {"in"} ELSE {"in", "out"}, t)
           /\ UNCHANGED <<state_, killed, serverVars>>
  <2>1. UNCHANGED <<state_, connections_>>
    BY <1>4 DEF serverVars
  <2>2. PICK mask \in {{"in"}, {"in", "out"}} : \E t : UpdateEvent(l, fd_[c], c, mask, t)
    BY <1>4, <1>t
  <2>3. PICK t : UpdateEvent(l, fd_[c], c, mask, t)
    BY <2>2
  <2> QED
    BY <1>4, <1>m, <2>1, <2>2, <2>3, RegWatched
<1> QED
  BY <1>1, <1>2, <1>3, <1>4 DEF HandleWrite

LEMMA ShutdownReg ==
  ASSUME ReactorInv, RegInv, NEW l \in Loops, NEW c \in Conns, Here(l, c),
         Shutdown(c), UNCHANGED connections_
  PROVE  RegEffect(l, c)
<1>t. state_ \in [Conns -> ConnStates]
  BY HereFacts
<1>1. UNCHANGED <<registered_fds_, interest>>
  BY DEF Shutdown
<1>2. CASE IsConnected(c)
  <2>1. state_'[c] = "kClosing" /\ state_[c] # "kClosed"
    BY <1>2, <1>t DEF Shutdown, Transition, IsConnected
  <2> QED
    BY <1>1, <2>1, RegKept
<1>3. CASE ~IsConnected(c)
  <2>1. state_'[c] = state_[c]
    BY <1>3 DEF Shutdown
  <2> QED
    BY <1>1, <2>1, RegKept
<1> QED
  BY <1>2, <1>3

LEMMA CallbackReg ==
  ASSUME ReactorInv, RouteInv, RegInv, NEW l \in Loops, NEW c \in Conns,
         Here(l, c), CallbackOn(l, c), EpollEffect(l, c), RegEffect(l, c), pc'[l] # "limit"
  PROVE  RegInv'
<1>h. /\ loop_[c] = l /\ fd_[c] \in Fds /\ cur[l] \in {c, None} /\ None \notin Conns
      /\ state_[c] \in {"kConnected", "kClosing", "kClosed"}
  BY HereFacts DEF Here
<1>u. UNCHANGED <<fd_, loop_>>
  BY DEF CallbackOn
<1>s. /\ \A d \in Conns : d # c => state_'[d] = state_[d]
      /\ state_'[c] \in {state_[c], "kClosing", "kClosed"}
      /\ \A f \in Fds : f # fd_[c] => connections_'[f] = connections_[f]
  BY DEF CallbackOn, Effect, StateEffect, EntryEffect
<1>p. \A k \in Loops : k # l => pc'[k] = pc[k]
  BY DEF CallbackOn, ReactorInv, ReactorTypes
<1>1. Listed'
  <2> SUFFICES ASSUME NEW d \in Conns, state_'[d] \in {"kConnecting", "kConnected", "kClosing"}
               PROVE  connections_'[fd_[d]] = d
    BY <1>u DEF Listed
  <2>1. CASE d = c
    BY <2>1 DEF RegEffect
  <2>2. CASE d # c
    <3>1. fd_[d] \in Fds /\ fd_[d] # fd_[c] /\ connections_[fd_[d]] = d
      BY <2>2, <1>s, <1>h DEF ReactorInv, AliveState, OneOwner, RegInv, Listed
    <3> QED
      BY <3>1, <1>s
  <2> QED
    BY <2>1, <2>2
<1>2. ClosedUnwatched'
  <2> SUFFICES ASSUME NEW d \in Conns, state_'[d] = "kClosed", pc'[loop_[d]] # "deadlock"
               PROVE  interest'[d] = {}
    BY <1>u DEF ClosedUnwatched
  <2>1. CASE d = c
    BY <2>1 DEF RegEffect
  <2>2. CASE d # c
    <3>1. state_[d] = "kClosed" /\ loop_[d] \in Loops /\ cur[loop_[d]] = d
      BY <2>2, <1>s DEF ReactorInv, Closed, AliveState
    <3>2. loop_[d] # l
      BY <2>2, <3>1, <1>h
    <3>3. interest[d] = {}
      BY <3>1, <3>2, <1>p DEF RegInv, ClosedUnwatched
    <3> QED
      BY <2>2, <3>3 DEF EpollEffect, EpollOn
  <2> QED
    BY <2>1, <2>2
<1>3. RegisteredIsWatched'
  <2> SUFFICES ASSUME NEW k \in Loops, NEW f \in registered_fds_'[k]
               PROVE  \E d \in Conns : fd_[d] = f /\ loop_[d] = k /\ interest'[d] # {}
    BY <1>u DEF RegisteredIsWatched
  <2>1. CASE k = l /\ f = fd_[c]
    BY <2>1, <1>h DEF RegEffect
  <2>2. CASE k # l \/ f # fd_[c]
    <3>1. f \in Fds
      BY DEF EpollEffect, EpollOn
    <3>2. f \in registered_fds_[k]
      BY <2>2, <3>1 DEF EpollEffect, EpollOn
    <3>3. PICK d \in Conns : fd_[d] = f /\ loop_[d] = k /\ interest[d] # {}
      BY <3>2 DEF RegInv, RegisteredIsWatched
    <3>4. d # c
      BY <2>2, <3>3, <1>h
    <3> QED
      BY <3>3, <3>4 DEF EpollEffect, EpollOn
  <2> QED
    BY <2>1, <2>2
<1>4. NoPause'
  BY <1>p DEF RegInv, NoPause
<1> QED
  BY <1>1, <1>2, <1>3, <1>4 DEF RegInv

LEMMA HandleReadReg ==
  ASSUME ReactorInv, RouteInv, RegInv, InputBounded', NEW l \in Loops, NEW c \in Conns,
         HandleRead(l, c)
  PROVE  RegEffect(l, c) /\ pc'[l] # "limit"
<1>1. Here(l, c)
  BY HandleReadCallback
<1>t. /\ sock \in [Conns -> Sockets] /\ input_buffer_ \in [Conns -> Seq(Kinds)]
      /\ pc \in [Loops -> PCs]
  BY <1>1, HereFacts DEF RouteInv, RouteTypes, ReactorInv, ReactorTypes
<1>2. pc'[l] # "limit"
  <2> DEFINE buffer == input_buffer_[c] \o sock[c].rcvq
  <2>1. /\ input_buffer_' = [input_buffer_ EXCEPT ![c] = buffer]
        /\ pc' = [pc EXCEPT ![l] = IF Len(buffer) > MaxInput THEN "limit" ELSE "dispatch"]
    BY DEF HandleRead
  <2>2. Len(buffer) <= MaxInput
    <3> HIDE DEF buffer
    <3> QED
      BY <1>t, <2>1 DEF InputBounded
  <2>3. Len(buffer) \in Nat
    <3>1. sock[c].rcvq \in Seq(Kinds) /\ input_buffer_[c] \in Seq(Kinds)
      BY <1>t DEF Sockets
    <3>2. buffer \in Seq(Kinds)
      BY <3>1, ConcatProperties
    <3> HIDE DEF buffer
    <3> QED
      BY <3>2, LenProperties
  <2>4. ~(Len(buffer) > MaxInput)
    <3> HIDE DEF buffer
    <3> QED
      BY <2>2, <2>3, ReactorAssumption
  <2> HIDE DEF buffer
  <2> QED
    BY <1>t, <2>1, <2>4
<1>3. RegEffect(l, c)
  <2>1. CASE HandleClose(c)
    BY <2>1, <1>1, RegClosed
  <2>2. CASE UNCHANGED <<state_, epollVars, serverVars>>
    <3>1. UNCHANGED <<registered_fds_, interest, connections_>> /\ state_'[c] = state_[c]
      BY <2>2 DEF epollVars, serverVars
    <3> QED
      BY <3>1, <1>1, RegKept
  <2> QED
    BY <2>1, <2>2 DEF HandleRead
<1> QED
  BY <1>2, <1>3

LEMMA HandleWriteReg ==
  ASSUME ReactorInv, RouteInv, RegInv, NEW l \in Loops, NEW c \in Conns, HandleWriteEvent(l, c)
  PROVE  RegEffect(l, c) /\ pc'[l] # "limit"
<1>1. Here(l, c)
  BY HandleWriteCallback
<1>2. output_buffer_[c] \in Nat /\ pc \in [Loops -> PCs]
  BY <1>1, HereFacts DEF ReactorInv, ReactorTypes
<1>3. RegEffect(l, c)
  BY <1>1, <1>2, WritingReg DEF HandleWriteEvent
<1> QED
  BY <1>2, <1>3 DEF HandleWriteEvent

LEMMA OtherReg ==
  ASSUME ReactorInv, RouteInv, RegInv, NEW l \in Loops, NEW c \in Conns,
         \/ PauseReading(l, c) \/ NoHeader(l, c) \/ BadRequest(l, c) \/ RequestStart(l, c)
         \/ SendHeader(l, c) \/ SendBody(l, c) \/ RequestComplete(l, c)
  PROVE  RegEffect(l, c) /\ pc'[l] # "limit"
<1>h. Here(l, c)
  BY OtherCallbacks
<1>t. output_buffer_[c] \in Nat /\ pc \in [Loops -> PCs] /\ BodySize \in Nat
  BY <1>h, HereFacts, ReactorAssumption DEF ReactorInv, ReactorTypes
<1>1. pc'[l] # "limit" /\ ~PauseReading(l, c)
  BY <1>t DEF PauseReading, NoHeader, BadRequest, RequestStart, SendHeader, SendBody,
              RequestComplete, Goto, RegInv, NoPause
<1>2. CASE UNCHANGED <<state_, registered_fds_, interest, connections_>>
  <2>1. state_'[c] = state_[c] /\ UNCHANGED <<registered_fds_, interest, connections_>>
    BY <1>2
  <2> QED
    BY <1>h, <1>1, <2>1, RegKept
<1>3. CASE Shutdown(c) /\ UNCHANGED connections_
  BY <1>h, <1>1, <1>3, ShutdownReg
<1>4. ASSUME NEW n \in Nat, Send(c, n)
      PROVE  RegEffect(l, c)
  <2>1. CASE UNCHANGED <<state_, output_buffer_, sock, timers_, killed, epollVars, serverVars>>
    <3>1. state_'[c] = state_[c] /\ UNCHANGED <<registered_fds_, interest, connections_>>
      BY <2>1 DEF epollVars, serverVars
    <3> QED
      BY <1>h, <3>1, RegKept
  <2>2. CASE HandleClose(c) /\ UNCHANGED <<output_buffer_, sock, killed>>
    BY <1>h, <2>2, RegClosed
  <2>3. CASE HandleWrite(c, output_buffer_[c] + n)
    <3>1. output_buffer_[c] + n \in Nat
      BY <1>t
    <3> QED
      BY <1>h, <2>3, <3>1, WritingReg
  <2> QED
    BY <1>4, <2>1, <2>2, <2>3 DEF Send
<1>5. CASE NoHeader(l, c) \/ RequestStart(l, c)
  <2>1. UNCHANGED <<state_, registered_fds_, interest, connections_>>
    BY <1>5 DEF NoHeader, RequestStart, epollVars, serverVars
  <2> QED
    BY <2>1, <1>2
<1>6. CASE BadRequest(l, c)
  BY <1>3, <1>6 DEF BadRequest, serverVars
<1>7. CASE SendHeader(l, c) \/ SendBody(l, c)
  BY <1>1, <1>4, <1>7, <1>t DEF SendHeader, SendBody
<1>8. CASE RequestComplete(l, c)
  <2>1. UNCHANGED connections_
    BY <1>8 DEF RequestComplete, serverVars
  <2>2. Shutdown(c) \/ UNCHANGED <<state_, registered_fds_, interest>>
    BY <1>8 DEF RequestComplete, epollVars
  <2> QED
    BY <1>2, <1>3, <2>1, <2>2
<1> QED
  BY <1>1, <1>5, <1>6, <1>7, <1>8
-------------------------------------------------------------------------------
(* The other steps. *)

LEMMA RegIdle ==
  ASSUME ReactorInv, RegInv,
         UNCHANGED <<state_, fd_, loop_, connections_, registered_fds_, interest>>,
         \A k \in Loops : pc'[k] = pc[k] \/ {pc'[k], pc[k]} \subseteq {"poll", "batch"}
  PROVE  RegInv'
<1>1. Listed' /\ RegisteredIsWatched'
  BY DEF RegInv, Listed, RegisteredIsWatched
<1>2. ClosedUnwatched'
  <2>1. \A c \in Conns : state_[c] = "kClosed" => loop_[c] \in Loops
    BY DEF ReactorInv, AliveState
  <2> QED
    BY <2>1 DEF RegInv, ClosedUnwatched
<1>3. NoPause'
  BY DEF RegInv, NoPause
<1> QED
  BY <1>1, <1>2, <1>3 DEF RegInv

LEMMA QuietReg ==
  ASSUME ReactorInv, RegInv,
         \/ \E l \in Loops : EpollWait(l) \/ NextRound(l)
         \/ \E c \in Conns : Peer(c)
         \/ UNCHANGED vars
  PROVE  RegInv'
<1>1. CASE \E l \in Loops : EpollWait(l) \/ NextRound(l)
  <2>1. PICK l \in Loops : EpollWait(l) \/ NextRound(l)
    BY <1>1
  <2>2. UNCHANGED <<state_, fd_, loop_, connections_, registered_fds_, interest>>
    BY <2>1 DEF EpollWait, NextRound, connVars, epollVars, serverVars
  <2>3. \A k \in Loops : pc'[k] = pc[k] \/ {pc'[k], pc[k]} \subseteq {"poll", "batch"}
    BY <2>1 DEF EpollWait, NextRound, Goto, ReactorInv, ReactorTypes
  <2> QED
    BY <2>2, <2>3, RegIdle
<1>2. CASE \E c \in Conns : Peer(c)
  <2>1. PICK c \in Conns : \E t : SocketBecomes(c, t)
    BY <1>2 DEF Peer, PeerSend, PeerFin, PeerReset, PeerRead
  <2>2. UNCHANGED <<state_, fd_, loop_, connections_, registered_fds_, interest, pc>>
    BY <2>1 DEF SocketBecomes, connVars, serverVars, threadVars
  <2> QED
    BY <2>2, RegIdle
<1>3. CASE UNCHANGED vars
  <2>1. UNCHANGED <<state_, fd_, loop_, connections_, registered_fds_, interest, pc>>
    BY <1>3 DEF vars, connVars, epollVars, serverVars, threadVars
  <2> QED
    BY <2>1, RegIdle
<1> QED
  BY <1>1, <1>2, <1>3

LEMMA HandleErrorReg ==
  ASSUME ReactorInv, RouteInv, RegInv, NEW l \in Loops, HandleErrorEvent(l)
  PROVE  RegInv'
<1> DEFINE c == Head(batch[l]).of
<1>1. /\ UNCHANGED <<state_, fd_, loop_, connections_, pc>>
      /\ batch[l] # <<>> /\ RemoveEvent(l, Head(batch[l]).fd)
  BY DEF HandleErrorEvent, Event, connVars, serverVars
<1>2. Len(batch[l]) \in Nat \ {0} /\ Head(batch[l]) = batch[l][1]
  BY <1>1, NextInBatch DEF RouteInv, RouteTypes
<1>3. c \in Conns /\ fd_[c] = Head(batch[l]).fd /\ fd_[c] \in Fds /\ loop_[c] = l
  BY <1>2, EventFacts
<1> HIDE DEF c
<1>4. EpollEffect(l, c) /\ interest'[c] = {} /\ fd_[c] \notin registered_fds_'[l]
  BY <1>1, <1>3, EpollRemoved
<1>5. Listed' /\ NoPause'
  BY <1>1 DEF RegInv, Listed, NoPause
<1>6. ClosedUnwatched'
  BY <1>1, <1>4 DEF RegInv, ClosedUnwatched, EpollEffect, EpollOn
<1>7. RegisteredIsWatched'
  <2> SUFFICES ASSUME NEW k \in Loops, NEW f \in registered_fds_'[k]
               PROVE  \E d \in Conns : fd_[d] = f /\ loop_[d] = k /\ interest'[d] # {}
    BY <1>1 DEF RegisteredIsWatched
  <2>1. f \in Fds /\ (k # l \/ f # fd_[c])
    BY <1>4 DEF EpollEffect, EpollOn
  <2>2. f \in registered_fds_[k]
    BY <1>4, <2>1 DEF EpollEffect, EpollOn
  <2>3. PICK d \in Conns : fd_[d] = f /\ loop_[d] = k /\ interest[d] # {}
    BY <2>2 DEF RegInv, RegisteredIsWatched
  <2>4. d # c
    BY <2>1, <2>3, <1>3
  <2> QED
    BY <2>3, <2>4, <1>4 DEF EpollEffect, EpollOn
<1> QED
  BY <1>5, <1>6, <1>7 DEF RegInv

LEMMA TimerReg ==
  ASSUME ReactorInv, RegInv, NEW l \in Loops, TimerFires(l)
  PROVE  RegInv'
<1>t. ReactorTypes /\ None \notin Conns
  BY ReactorAssumption DEF ReactorInv
<1>1. /\ UNCHANGED <<fd_, loop_, connections_, registered_fds_, interest>>
      /\ pc[l] = "poll" /\ pc' = [pc EXCEPT ![l] = "deadlock"]
  BY DEF TimerFires, Goto, connVars, epollVars, serverVars
<1>2. PICK f \in Fds : /\ timers_[l][f] # None
                       /\ state_' = [state_ EXCEPT ![timers_[l][f]] = "kClosed"]
  BY DEF TimerFires
<1>3. PICK c \in Conns : c = timers_[l][f]
  BY <1>t, <1>2 DEF ReactorTypes
<1>4. loop_[c] = l /\ cur[l] = None
  BY <1>1, <1>3 DEF ReactorInv, TimersOwned, Current
<1>5. /\ pc'[l] = "deadlock" /\ \A k \in Loops : k # l => pc'[k] = pc[k]
      /\ state_'[c] = "kClosed" /\ \A d \in Conns : d # c => state_'[d] = state_[d]
  BY <1>t, <1>1, <1>2, <1>3 DEF ReactorTypes
<1>6. Listed' /\ RegisteredIsWatched' /\ NoPause'
  BY <1>1, <1>5 DEF RegInv, Listed, RegisteredIsWatched, NoPause
<1>7. ClosedUnwatched'
  <2> SUFFICES ASSUME NEW d \in Conns, state_'[d] = "kClosed", pc'[loop_[d]] # "deadlock"
               PROVE  interest[d] = {}
    BY <1>1 DEF ClosedUnwatched
  <2>1. d # c /\ state_[d] = "kClosed"
    BY <1>4, <1>5
  <2>2. loop_[d] \in Loops /\ loop_[d] # l
    BY <2>1, <1>5 DEF ReactorInv, AliveState
  <2> QED
    BY <2>1, <2>2, <1>5 DEF RegInv, ClosedUnwatched
<1> QED
  BY <1>6, <1>7 DEF RegInv

LEMMA ReturnReg ==
  ASSUME ReactorInv, RegInv, NEW l \in Loops, NEW c \in Conns, Return(l, c)
  PROVE  RegInv'
<1> DEFINE last == connections_[fd_[c]] # c /\ timers_[loop_[c]][fd_[c]] # c
<1>t. ReactorTypes /\ None \notin Conns
  BY ReactorAssumption DEF ReactorInv
<1>1. /\ UNCHANGED <<loop_, registered_fds_, connections_>>
      /\ cur[l] = c /\ pc[l] = "return" /\ pc' = [pc EXCEPT ![l] = "batch"]
  BY DEF Return, Goto, serverVars
<1>2. Here(l, c)
  BY <1>1, InHand
<1>3. \A k \in Loops : pc'[k] = (IF k = l THEN "batch" ELSE pc[k])
  BY <1>t, <1>1 DEF ReactorTypes
<1>4. NoPause'
  BY <1>3 DEF RegInv, NoPause
<1>5. \A d \in Conns : state_[d] = "kClosed" => interest[d] = {} \/ (loop_[d] \in Loops \ {l} /\ pc[loop_[d]] = "deadlock")
  BY <1>1 DEF ReactorInv, AliveState, RegInv, ClosedUnwatched
<1>6. CASE ~last
  <2>1. UNCHANGED <<state_, fd_, interest>>
    BY <1>6 DEF Return
  <2>2. Listed' /\ RegisteredIsWatched'
    BY <1>1, <2>1 DEF RegInv, Listed, RegisteredIsWatched
  <2>3. ClosedUnwatched'
    BY <1>1, <1>3, <1>5, <2>1 DEF ClosedUnwatched
  <2> QED
    BY <1>4, <2>2, <2>3 DEF RegInv
<1>7. CASE last
  <2>1. /\ state_' = [state_ EXCEPT ![c] = "destroyed"]
        /\ fd_' = [fd_ EXCEPT ![c] = None]
        /\ interest' = [interest EXCEPT ![c] = {}]
    BY <1>7 DEF Return
  <2>2. interest[c] = {}
    BY <1>2, <1>7, HereReg
  <2>3. /\ state_'[c] = "destroyed" /\ interest'[c] = {}
        /\ \A d \in Conns : d # c => /\ state_'[d] = state_[d] /\ fd_'[d] = fd_[d]
                                     /\ interest'[d] = interest[d]
    BY <1>t, <2>1 DEF ReactorTypes
  <2>4. Listed'
    BY <1>1, <2>3 DEF RegInv, Listed
  <2>5. ClosedUnwatched'
    BY <1>1, <1>3, <1>5, <2>3 DEF ClosedUnwatched
  <2>6. RegisteredIsWatched'
    BY <1>1, <2>2, <2>3 DEF RegInv, RegisteredIsWatched
  <2> QED
    BY <1>4, <2>4, <2>5, <2>6 DEF RegInv
<1> QED
  BY <1>6, <1>7

LEMMA AcceptReg ==
  ASSUME ReactorInv, RegInv, NEW c \in Conns, Accept(c)
  PROVE  RegInv'
<1>t. ReactorTypes
  BY DEF ReactorInv
<1>1. UNCHANGED <<interest, registered_fds_, pc>> /\ NewConnection(c, FreeFd, next_)
      /\ state_' = [state_ EXCEPT ![c] = "kConnecting"]
  BY DEF Accept, epollVars, threadVars
<1>2. /\ state_[c] = "none" /\ FreeFd \in Fds
      /\ \A d \in Conns : fd_[d] # FreeFd
      /\ fd_'[c] = FreeFd /\ connections_'[FreeFd] = c
      /\ \A d \in Conns : d # c => fd_'[d] = fd_[d] /\ loop_'[d] = loop_[d]
      /\ \A g \in Fds : g # FreeFd => connections_'[g] = connections_[g]
  BY <1>t, <1>1, AcceptedFacts DEF ReactorTypes
<1>3. state_'[c] = "kConnecting" /\ \A d \in Conns : d # c => state_'[d] = state_[d]
  BY <1>t, <1>1 DEF ReactorTypes
<1>4. interest[c] = {}
  BY <1>2, NewIsNowhere
<1>5. Listed'
  <2> SUFFICES ASSUME NEW d \in Conns, state_'[d] \in {"kConnecting", "kConnected", "kClosing"}
               PROVE  connections_'[fd_'[d]] = d
    BY DEF Listed
  <2>1. CASE d = c
    BY <2>1, <1>2
  <2>2. CASE d # c
    <3>1. fd_[d] \in Fds /\ connections_[fd_[d]] = d
      BY <2>2, <1>3 DEF ReactorInv, AliveState, RegInv, Listed
    <3> QED
      BY <2>2, <3>1, <1>2
  <2> QED
    BY <2>1, <2>2
<1>6. ClosedUnwatched' /\ NoPause'
  BY <1>1, <1>2, <1>3 DEF RegInv, ClosedUnwatched, NoPause
<1>7. RegisteredIsWatched'
  BY <1>1, <1>2, <1>4 DEF RegInv, RegisteredIsWatched
<1> QED
  BY <1>5, <1>6, <1>7 DEF RegInv

LEMMA EstablishedReg ==
  ASSUME ReactorInv, RouteInv, RegInv, NEW l \in Loops, NEW c \in Conns, NEW f \in Fds,
         ConnectEstablished(l, c, f), fd_'[c] = f, loop_'[c] = l,
         f \in registered_fds_[l] => interest[c] # {},
         interest[c] # {} => fd_[c] = f /\ loop_[c] = l,
         \A d \in Conns : d # c => fd_'[d] = fd_[d] /\ loop_'[d] = loop_[d] /\ fd_[d] # f,
         connections_'[f] = c, \A g \in Fds : g # f => connections_'[g] = connections_[g],
         UNCHANGED pc
  PROVE  RegInv'
<1>1. Established(l, c, f)
  BY Establishing
<1>2. UpdateEvent(l, f, c, {"in"}, sock[c]) /\ {"in"} \in Masks /\ {"in"} # {}
  BY DEF ConnectEstablished, Masks
<1>3. EpollOn(l, f, c) /\ interest'[c] # {}
  BY <1>2, WatchUpdated
<1>4. state_'[c] = "kConnected" /\ \A d \in Conns : d # c => state_'[d] = state_[d]
  BY <1>1 DEF Established
<1>5. Listed'
  <2> SUFFICES ASSUME NEW d \in Conns, state_'[d] \in {"kConnecting", "kConnected", "kClosing"}
               PROVE  connections_'[fd_'[d]] = d
    BY DEF Listed
  <2>1. CASE d = c
    BY <2>1
  <2>2. CASE d # c
    <3>1. fd_[d] \in Fds /\ connections_[fd_[d]] = d
      BY <2>2, <1>4 DEF ReactorInv, AliveState, RegInv, Listed
    <3> QED
      BY <2>2, <3>1
  <2> QED
    BY <2>1, <2>2
<1>6. ClosedUnwatched' /\ NoPause'
  BY <1>3, <1>4 DEF RegInv, ClosedUnwatched, NoPause, EpollOn
<1>7. RegisteredIsWatched'
  <2> SUFFICES ASSUME NEW k \in Loops, NEW g \in registered_fds_'[k]
               PROVE  \E d \in Conns : fd_'[d] = g /\ loop_'[d] = k /\ interest'[d] # {}
    BY DEF RegisteredIsWatched
  <2>1. CASE k = l /\ g = f
    BY <2>1, <1>3
  <2>2. CASE k # l \/ g # f
    <3>1. g \in Fds
      BY <1>3 DEF EpollOn
    <3>2. g \in registered_fds_[k]
      BY <1>3, <2>2, <3>1 DEF EpollOn
    <3>3. PICK d \in Conns : fd_[d] = g /\ loop_[d] = k /\ interest[d] # {}
      BY <3>2 DEF RegInv, RegisteredIsWatched
    <3>4. d # c
      BY <2>2, <3>3
    <3> QED
      BY <3>3, <3>4, <1>3 DEF EpollOn
  <2> QED
    BY <2>1, <2>2
<1> QED
  BY <1>5, <1>6, <1>7 DEF RegInv

LEMMA SubAcceptReg ==
  ASSUME ReactorInv, RouteInv, RegInv, NEW l \in Loops, NEW c \in Conns, AcceptInSubReactor(l, c)
  PROVE  RegInv'
<1> DEFINE f == FreeFd
<1>1. UNCHANGED pc /\ NewConnection(c, f, l) /\ ConnectEstablished(l, c, f)
  BY DEF AcceptInSubReactor, threadVars
<1>2. /\ state_[c] = "none" /\ f \in Fds /\ fd_'[c] = f /\ loop_'[c] = l
      /\ \A d \in Conns : fd_[d] # f
      /\ \A d \in Conns : d # c => fd_'[d] = fd_[d] /\ loop_'[d] = loop_[d]
      /\ connections_'[f] = c
      /\ \A g \in Fds : g # f => connections_'[g] = connections_[g]
  BY <1>1, AcceptedFacts
<1>3. interest[c] = {}
  BY <1>2, NewIsNowhere
<1> HIDE DEF f
<1>4. f \notin registered_fds_[l]
  BY <1>2 DEF RegInv, RegisteredIsWatched
<1> QED
  BY <1>1, <1>2, <1>3, <1>4, EstablishedReg

LEMMA FunctorReg ==
  ASSUME ReactorInv, RouteInv, RegInv, NEW l \in Loops, RunFunctor(l)
  PROVE  RegInv'
<1> DEFINE q == pending_functors_[l]
           c == Head(q)
           f == fd_[c]
<1>1. /\ UNCHANGED <<pc, fd_, loop_, connections_>> /\ ConnectEstablished(l, c, f) /\ q # <<>>
  BY DEF RunFunctor, connVars, serverVars, threadVars
<1>2. c \in Conns /\ Len(q) \in Nat \ {0} /\ c = q[1]
  <2>1. q \in Seq(Conns)
    BY DEF ReactorInv, ReactorTypes
  <2>2. Len(q) \in Nat /\ Len(q) # 0
    BY <1>1, <2>1, EmptySeq, LenProperties
  <2> HIDE DEF q
  <2> QED
    BY <1>1, <2>1, <2>2, HeadTailProperties
<1>3. state_[c] = "kConnecting" /\ loop_[c] = l
  <2>1. 1 \in 1 .. Len(q)
    BY <1>2
  <2>2. state_[q[1]] = "kConnecting" /\ loop_[q[1]] = l
    BY <2>1 DEF ReactorInv, Queued
  <2> QED
    BY <1>2, <2>2
<1> HIDE DEF c
<1>4. f \in Fds /\ \A d \in Conns : d # c => fd_[d] # f
  BY <1>2, <1>3 DEF ReactorInv, AliveState, OneOwner
<1>5. connections_[f] = c
  BY <1>2, <1>3 DEF RegInv, Listed
<1>6. f \in registered_fds_[l] => interest[c] # {}
  BY <1>4 DEF RegInv, RegisteredIsWatched
<1>7. fd_'[c] = f /\ loop_'[c] = l /\ fd_[c] = f /\ UNCHANGED <<pc, fd_, loop_, connections_>>
  BY <1>1, <1>3
<1> HIDE DEF f
<1> QED
  BY <1>1, <1>2, <1>3, <1>4, <1>5, <1>6, <1>7, EstablishedReg
-------------------------------------------------------------------------------
LEMMA RegInit ==
  Init => RegInv
BY DEF Init, RegInv, Listed, ClosedUnwatched, RegisteredIsWatched, NoPause

LEMMA RegStep ==
  ASSUME ReactorInv, RouteInv, RegInv, InputBounded', [Next]_vars
  PROVE  RegInv'
<1>1. ASSUME NEW l \in Loops, LoopThread(l)
      PROVE  RegInv'
  <2>1. ASSUME NEW c \in Conns, HandleRead(l, c)
        PROVE  RegInv'
    <3>1. EpollEffect(l, c)
      BY <2>1, HandleReadRoutes DEF RouteOn
    <3> QED
      BY <2>1, <3>1, HandleReadCallback, HandleReadReg, CallbackReg
  <2>2. ASSUME NEW c \in Conns, HandleWriteEvent(l, c)
        PROVE  RegInv'
    <3>1. EpollEffect(l, c)
      BY <2>2, HandleWriteRoutes DEF RouteOn
    <3> QED
      BY <2>2, <3>1, HandleWriteCallback, HandleWriteReg, CallbackReg
  <2>3. ASSUME NEW c \in Conns,
               \/ PauseReading(l, c) \/ NoHeader(l, c) \/ BadRequest(l, c) \/ RequestStart(l, c)
               \/ SendHeader(l, c) \/ SendBody(l, c) \/ RequestComplete(l, c)
        PROVE  RegInv'
    <3>1. EpollEffect(l, c)
      BY <2>3, OtherRoutes DEF RouteOn
    <3> QED
      BY <2>3, <3>1, OtherCallbacks, OtherReg, CallbackReg
  <2> QED
    BY <1>1, <2>1, <2>2, <2>3, QuietReg, HandleErrorReg, FunctorReg, ReturnReg DEF LoopThread
<1> QED
  BY <1>1, QuietReg, TimerReg, AcceptReg, SubAcceptReg DEF Next, Killed

\* As long as no input exceeds its limit, PauseReading never runs and the table
\* of registered descriptors is exactly what epoll watches: UpdateEvent chooses
\* rightly between ADD and MOD, for a descriptor's next owner too.
THEOREM ReactorRegistrationAgrees == Spec /\ []InputBounded => []RegistrationAgrees
<1>1. ReactorInv /\ RouteInv /\ RegInv /\ InputBounded' /\ [Next]_vars => RegInv'
  BY RegStep
<1>2. ReactorInv /\ RouteInv /\ RegInv => RegistrationAgrees
  <2> SUFFICES ASSUME ReactorInv, RouteInv, RegInv, NEW l \in Loops
               PROVE  registered_fds_[l] =
                        {fd_[c] : c \in {d \in Conns : loop_[d] = l /\ interest[d] # {}}}
    BY DEF RegistrationAgrees
  <2>1. \A f \in registered_fds_[l] : \E c \in Conns : fd_[c] = f /\ loop_[c] = l /\ interest[c] # {}
    BY DEF RegInv, RegisteredIsWatched
  <2>2. \A c \in Conns : loop_[c] = l /\ interest[c] # {} => fd_[c] \in registered_fds_[l]
    BY DEF RouteInv, WatchedRegistered
  <2> QED
    BY <2>1, <2>2
<1> QED
  BY <1>1, <1>2, RegInit, ReactorAlwaysConsistent, ReactorAlwaysRouted, PTL DEF Spec

-------------------------------------------------------------------------------
(* A closed connection, whatever the input. *)

\* PauseReading is on the way only for an input over its limit.
OverLimit == \A l \in Loops : pc[l] = "limit" => Len(input_buffer_[cur[l]]) > MaxInput

LEMMA LimitInHand ==
  ASSUME ReactorInv, NEW l \in Loops, pc[l] = "limit"
  PROVE  cur[l] \in Conns /\ loop_[cur[l]] = l
<1>1. cur \in [Loops -> Conns \cup {None}] /\ Current
  BY DEF ReactorInv, ReactorTypes
<1>2. cur[l] # None
  BY <1>1 DEF Current
<1> QED
  BY <1>1, <1>2 DEF Current

LEMMA OverLimitKept ==
  ASSUME ReactorInv, OverLimit, NEW l \in Loops, NEW c \in Conns, loop_[c] = l,
         \A k \in Loops : k # l => pc'[k] = pc[k] /\ cur'[k] = cur[k],
         \A d \in Conns : d # c => input_buffer_'[d] = input_buffer_[d],
         pc'[l] = "limit" => Len(input_buffer_'[cur'[l]]) > MaxInput
  PROVE  OverLimit'
<1> SUFFICES ASSUME NEW k \in Loops, pc'[k] = "limit", k # l
             PROVE  Len(input_buffer_'[cur'[k]]) > MaxInput
  BY DEF OverLimit
<1>1. pc[k] = "limit" /\ cur'[k] = cur[k]
  OBVIOUS
<1>2. cur[k] \in Conns /\ cur[k] # c
  BY <1>1, LimitInHand
<1> QED
  BY <1>1, <1>2 DEF OverLimit

LEMMA OverLimitIdle ==
  ASSUME OverLimit, UNCHANGED input_buffer_,
         \A k \in Loops : pc'[k] = "limit" => pc[k] = "limit" /\ cur'[k] = cur[k]
  PROVE  OverLimit'
BY DEF OverLimit

LEMMA OverLimitThread ==
  ASSUME ReactorInv, RouteInv, OverLimit, NEW l \in Loops, LoopThread(l)
  PROVE  OverLimit'
<1>t. pc \in [Loops -> PCs] /\ cur \in [Loops -> Conns \cup {None}]
      /\ input_buffer_ \in [Conns -> Seq(Kinds)]
  BY DEF ReactorInv, ReactorTypes, RouteInv, RouteTypes
<1>1. CASE EpollWait(l) \/ NextRound(l) \/ HandleErrorEvent(l) \/ RunFunctor(l)
  <2>1. UNCHANGED <<input_buffer_, cur>> /\ \A k \in Loops : pc'[k] = "limit" => pc[k] = "limit"
    BY <1>t, <1>1 DEF EpollWait, NextRound, HandleErrorEvent, RunFunctor, Goto, connVars, threadVars
  <2> QED
    BY <2>1, OverLimitIdle
<1>2. ASSUME NEW c \in Conns, HandleRead(l, c)
      PROVE  OverLimit'
  <2> DEFINE buffer == input_buffer_[c] \o sock[c].rcvq
  <2>1. /\ input_buffer_' = [input_buffer_ EXCEPT ![c] = buffer]
        /\ cur' = [cur EXCEPT ![l] = c]
        /\ pc' = [pc EXCEPT ![l] = IF Len(buffer) > MaxInput THEN "limit" ELSE "dispatch"]
    BY <1>2 DEF HandleRead
  <2>2. loop_[c] = l
    BY <1>2, HandleReadCallback DEF Here
  <2> HIDE DEF buffer
  <2>3. /\ \A k \in Loops : k # l => pc'[k] = pc[k] /\ cur'[k] = cur[k]
        /\ \A d \in Conns : d # c => input_buffer_'[d] = input_buffer_[d]
    BY <1>t, <2>1
  <2>4. pc'[l] = "limit" => Len(input_buffer_'[cur'[l]]) > MaxInput
    BY <1>t, <2>1
  <2> QED
    BY <2>2, <2>3, <2>4, OverLimitKept
<1>3. ASSUME NEW c \in Conns, PauseReading(l, c) \/ NoHeader(l, c) \/ RequestStart(l, c)
                              \/ SendHeader(l, c) \/ SendBody(l, c) \/ HandleWriteEvent(l, c)
      PROVE  OverLimit'
  <2>1. /\ UNCHANGED input_buffer_
        /\ \A k \in Loops : pc'[k] = "limit" => pc[k] = "limit" /\ cur'[k] = cur[k]
    BY <1>t, <1>3 DEF PauseReading, NoHeader, RequestStart, SendHeader, SendBody,
                      HandleWriteEvent, Goto, connVars
  <2> QED
    BY <2>1, OverLimitIdle
<1>4. ASSUME NEW c \in Conns, BadRequest(l, c) \/ RequestComplete(l, c) \/ Return(l, c)
      PROVE  OverLimit'
  <2>1. loop_[c] = l
    BY <1>4 DEF BadRequest, RequestComplete, Return, ReactorInv, Current
  <2>2. \A d \in Conns : d # c => input_buffer_'[d] = input_buffer_[d]
    BY <1>t, <1>4 DEF BadRequest, RequestComplete, Return
  <2>3. /\ pc'[l] # "limit"
        /\ \A k \in Loops : k # l => pc'[k] = pc[k] /\ cur'[k] = cur[k]
    BY <1>t, <1>4 DEF BadRequest, RequestComplete, Return, Goto
  <2> QED
    BY <2>1, <2>2, <2>3, OverLimitKept
<1> QED
  BY <1>1, <1>2, <1>3, <1>4 DEF LoopThread

LEMMA OverLimitStep ==
  ASSUME ReactorInv, RouteInv, OverLimit, [Next]_vars
  PROVE  OverLimit'
<1>t. pc \in [Loops -> PCs] /\ cur \in [Loops -> Conns \cup {None}]
  BY DEF ReactorInv, ReactorTypes
<1>1. ASSUME NEW l \in Loops, TimerFires(l)
      PROVE  OverLimit'
  <2>1. /\ UNCHANGED input_buffer_
        /\ \A k \in Loops : pc'[k] = "limit" => pc[k] = "limit" /\ cur'[k] = cur[k]
    BY <1>t, <1>1 DEF TimerFires, Goto, connVars
  <2> QED
    BY <2>1, OverLimitIdle
<1>2. ASSUME NEW c \in Conns, Accept(c) \/ Peer(c) \/ \E l \in Loops : AcceptInSubReactor(l, c)
      PROVE  OverLimit'
  <2>1. UNCHANGED <<input_buffer_, pc, cur>>
    BY <1>2 DEF Accept, AcceptInSubReactor, Peer, PeerSend, PeerFin, PeerReset, PeerRead,
                SocketBecomes, connVars, threadVars
  <2> QED
    BY <2>1, OverLimitIdle
<1>3. CASE UNCHANGED vars
  <2>1. UNCHANGED <<input_buffer_, pc, cur>>
    BY <1>3 DEF vars, connVars, threadVars
  <2> QED
    BY <2>1, OverLimitIdle
<1> QED
  BY <1>1, <1>2, <1>3, OverLimitThread DEF Next, Killed

\* What a step may do to a connection that is closed, and to one it closes.
StaysClosed(c) ==
  /\ state_'[c] \in {"kClosed", "destroyed"}
  /\ sock'[c].sndq <= sock[c].sndq
  /\ output_buffer_'[c] <= output_buffer_[c]
  /\ \/ interest'[c] \subseteq interest[c]
     \/ Len(input_buffer_[c]) > MaxInput /\ interest'[c] = {"out"}

ClosesWell(c) ==
  /\ state_[c] # "kClosed" /\ state_'[c] = "kClosed" =>
       interest'[c] = {} \/ pc'[loop_[c]] = "deadlock"
  /\ state_[c] = "kClosed" => StaysClosed(c)

\* A step that leaves the connection as it is, or only takes it out of epoll.
LEMMA LeftAlone ==
  ASSUME ReactorInv, NEW c \in Conns, state_'[c] = state_[c],
         state_[c] = "kClosed" => /\ sock'[c].sndq <= sock[c].sndq
                                  /\ output_buffer_'[c] = output_buffer_[c]
                                  /\ interest'[c] \in {interest[c], {}}
  PROVE  ClosesWell(c)
<1>1. output_buffer_[c] \in Nat
  BY DEF ReactorInv, ReactorTypes
<1> QED
  BY <1>1 DEF ClosesWell, StaysClosed

LEMMA Untouched ==
  ASSUME ReactorInv, NEW c \in Conns, state_'[c] = state_[c], sock'[c] = sock[c],
         output_buffer_'[c] = output_buffer_[c], interest'[c] \in {interest[c], {}}
  PROVE  ClosesWell(c)
<1>1. sock[c].sndq \in Nat
  BY ReactorAssumption DEF ReactorInv, ReactorTypes, Sockets
<1>2. sock'[c].sndq <= sock[c].sndq
  BY <1>1
<1> QED
  BY <1>2, LeftAlone

LEMMA WritingCloses ==
  ASSUME ReactorInv, RouteInv, NEW l \in Loops, NEW c \in Conns, Here(l, c),
         NEW o \in Nat, HandleWrite(c, o), state_[c] = "kClosed" => o = output_buffer_[c]
  PROVE  ClosesWell(c)
<1>1. CASE state_[c] = "kClosed"
  <2>1. /\ UNCHANGED <<state_, sock, interest>>
        /\ output_buffer_' = [output_buffer_ EXCEPT ![c] = output_buffer_[c]]
    BY <1>1 DEF HandleWrite, epollVars
  <2>2. output_buffer_'[c] = output_buffer_[c]
    BY <2>1, HereFacts
  <2> QED
    BY <2>1, <2>2, Untouched
<1>2. CASE state_[c] # "kClosed" /\ HandleClose(c)
  BY <1>2, EpollClosed DEF ClosesWell
<1>3. CASE state_[c] # "kClosed" /\ UNCHANGED state_
  BY <1>3 DEF ClosesWell
<1> QED
  BY <1>1, <1>2, <1>3 DEF HandleWrite

LEMMA SendingCloses ==
  ASSUME ReactorInv, RouteInv, NEW l \in Loops, NEW c \in Conns, Here(l, c),
         NEW n \in Nat, Send(c, n)
  PROVE  ClosesWell(c)
<1>1. CASE UNCHANGED <<state_, output_buffer_, sock, timers_, killed, epollVars, serverVars>>
  BY <1>1, Untouched DEF epollVars
<1>2. CASE IsConnected(c) /\ HandleClose(c)
  BY <1>2, EpollClosed DEF ClosesWell, IsConnected
<1>3. CASE IsConnected(c) /\ HandleWrite(c, output_buffer_[c] + n)
  <2>1. output_buffer_[c] + n \in Nat
    BY HereFacts
  <2> QED
    BY <1>3, <2>1, WritingCloses DEF IsConnected
<1> QED
  BY <1>1, <1>2, <1>3 DEF Send

LEMMA ShutdownCloses ==
  ASSUME ReactorInv, NEW l \in Loops, NEW c \in Conns, Here(l, c), Shutdown(c),
         UNCHANGED output_buffer_
  PROVE  ClosesWell(c)
<1>1. CASE IsConnected(c)
  <2>1. state_[c] # "kClosed" /\ state_'[c] = "kClosing"
    BY <1>1, HereFacts DEF IsConnected, Shutdown, Transition
  <2> QED
    BY <2>1 DEF ClosesWell
<1>2. CASE ~IsConnected(c)
  BY <1>2, Untouched DEF Shutdown
<1> QED
  BY <1>1, <1>2

\* The steps of a callback of c.
LEMMA CallbackCloses ==
  ASSUME ReactorInv, RouteInv, OverLimit, NEW l \in Loops, NEW c \in Conns,
         \/ HandleRead(l, c) \/ HandleWriteEvent(l, c)
         \/ PauseReading(l, c) \/ NoHeader(l, c) \/ BadRequest(l, c) \/ RequestStart(l, c)
         \/ SendHeader(l, c) \/ SendBody(l, c) \/ RequestComplete(l, c)
  PROVE  ClosesWell(c)
<1>h. Here(l, c)
  BY HandleReadCallback, HandleWriteCallback, OtherCallbacks
<1>1. CASE HandleRead(l, c)
  <2>1. state_[c] # "kClosed"
    BY <1>1, EventInHand DEF HandleRead, Event
  <2>2. CASE HandleClose(c)
    BY <1>h, <2>1, <2>2, EpollClosed DEF ClosesWell
  <2>3. CASE UNCHANGED state_
    BY <2>1, <2>3 DEF ClosesWell
  <2> QED
    BY <1>1, <2>2, <2>3 DEF HandleRead
<1>2. CASE HandleWriteEvent(l, c)
  <2>1. output_buffer_[c] \in Nat
    BY <1>h, HereFacts
  <2> QED
    BY <1>2, <1>h, <2>1, WritingCloses DEF HandleWriteEvent
<1>3. CASE PauseReading(l, c)
  <2>1. /\ UNCHANGED <<state_, sock, output_buffer_>> /\ Len(input_buffer_[c]) > MaxInput
        /\ interest' = [interest EXCEPT ![c] = {"out"}] \/ UNCHANGED interest
    BY <1>3 DEF PauseReading, UpdateEvent, epollVars, Goto, OverLimit
  <2>2. CASE UNCHANGED interest
    BY <2>1, <2>2, Untouched
  <2>3. CASE interest' = [interest EXCEPT ![c] = {"out"}]
    <3>1. interest'[c] = {"out"} /\ sock[c].sndq \in Nat /\ output_buffer_[c] \in Nat
      BY <2>3, <1>h, HereFacts, ReactorAssumption DEF Sockets
    <3> QED
      BY <2>1, <3>1 DEF ClosesWell, StaysClosed
  <2> QED
    BY <2>1, <2>2, <2>3
<1>4. CASE NoHeader(l, c) \/ RequestStart(l, c)
  <2>1. UNCHANGED <<state_, sock, output_buffer_, interest>>
    BY <1>4 DEF NoHeader, RequestStart, epollVars
  <2> QED
    BY <2>1, Untouched
<1>5. CASE BadRequest(l, c)
  BY <1>5, <1>h, ShutdownCloses DEF BadRequest
<1>6. CASE SendHeader(l, c) \/ SendBody(l, c)
  BY <1>6, <1>h, SendingCloses, ReactorAssumption DEF SendHeader, SendBody
<1>7. CASE RequestComplete(l, c)
  <2>1. UNCHANGED output_buffer_
    BY <1>7 DEF RequestComplete
  <2>2. CASE Shutdown(c)
    BY <1>h, <2>1, <2>2, ShutdownCloses
  <2>3. CASE UNCHANGED <<state_, timers_, sock, epollVars>>
    BY <2>1, <2>3, Untouched DEF epollVars
  <2> QED
    BY <1>7, <2>2, <2>3 DEF RequestComplete
<1> QED
  BY <1>1, <1>2, <1>3, <1>4, <1>5, <1>6, <1>7

LEMMA ThreadCloses ==
  ASSUME ReactorInv, RouteInv, OverLimit, NEW l \in Loops, LoopThread(l), NEW c \in Conns
  PROVE  ClosesWell(c)
<1>t. ReactorTypes
  BY DEF ReactorInv
<1>1. CASE EpollWait(l) \/ NextRound(l) \/ HandleErrorEvent(l)
  <2>1. UNCHANGED <<state_, sock, output_buffer_>> /\ interest'[c] \in {interest[c], {}}
    BY <1>1 DEF EpollWait, NextRound, HandleErrorEvent, RemoveEvent, epollVars
  <2> QED
    BY <2>1, Untouched
<1>2. CASE RunFunctor(l)
  <2>1. PICK d \in Conns :
          /\ state_[d] = "kConnecting" /\ state_' = [state_ EXCEPT ![d] = "kConnected"]
          /\ UNCHANGED <<sock, output_buffer_>>
          /\ interest' = [interest EXCEPT ![d] = {"in"}] \/ UNCHANGED interest
    <3> DEFINE q == pending_functors_[l]
               d == Head(q)
    <3>1. /\ q \in Seq(Conns) /\ q # <<>> /\ UNCHANGED <<sock, output_buffer_>>
          /\ state_' = [state_ EXCEPT ![d] = "kConnected"]
          /\ interest' = [interest EXCEPT ![d] = {"in"}] \/ UNCHANGED interest
      BY <1>2, <1>t DEF RunFunctor, ConnectEstablished, Transition, UpdateEvent, epollVars,
                        ReactorTypes
    <3>2. d = q[1] /\ 1 \in 1 .. Len(q) /\ d \in Conns
      <4>1. q \in Seq(Conns) /\ q # <<>>
        BY <3>1
      <4>2. Len(q) \in Nat /\ Len(q) # 0
        BY <4>1, EmptySeq, LenProperties
      <4> HIDE DEF q
      <4> QED
        BY <4>1, <4>2, HeadTailProperties
    <3>3. state_[q[1]] = "kConnecting"
      BY <3>2 DEF ReactorInv, Queued
    <3> HIDE DEF d
    <3> QED
      BY <3>1, <3>2, <3>3
  <2>2. CASE d = c
    <3>1. state_[c] # "kClosed" /\ state_'[c] = "kConnected"
      BY <1>t, <2>1, <2>2 DEF ReactorTypes
    <3> QED
      BY <3>1 DEF ClosesWell
  <2>3. CASE d # c
    <3>1. state_'[c] = state_[c] /\ interest'[c] = interest[c]
      BY <1>t, <2>1, <2>3 DEF ReactorTypes
    <3> QED
      BY <2>1, <3>1, Untouched
  <2> QED
    BY <2>2, <2>3
<1>3. ASSUME NEW d \in Conns,
             \/ HandleRead(l, d) \/ HandleWriteEvent(l, d)
             \/ PauseReading(l, d) \/ NoHeader(l, d) \/ BadRequest(l, d) \/ RequestStart(l, d)
             \/ SendHeader(l, d) \/ SendBody(l, d) \/ RequestComplete(l, d)
      PROVE  ClosesWell(c)
  <2>1. CASE d = c
    BY <1>3, <2>1, CallbackCloses
  <2>2. CASE d # c
    <3>1. Effect(l, d)
      BY <1>3, HandleReadCallback, HandleWriteCallback, OtherCallbacks DEF CallbackOn
    <3> QED
      BY <2>2, <3>1, Untouched DEF Effect, StateEffect, OutputEffect, InterestEffect
  <2> QED
    BY <2>1, <2>2
<1>4. ASSUME NEW d \in Conns, Return(l, d)
      PROVE  ClosesWell(c)
  <2>1. CASE UNCHANGED <<state_, sock, output_buffer_, interest>>
    BY <2>1, Untouched
  <2>2. CASE /\ state_' = [state_ EXCEPT ![d] = "destroyed"]
             /\ sock' = [sock EXCEPT ![d] = FreshSocket]
             /\ output_buffer_' = [output_buffer_ EXCEPT ![d] = 0]
             /\ interest' = [interest EXCEPT ![d] = {}]
    <3>1. CASE d = c
      <4>1. state_'[c] = "destroyed" /\ sock'[c] = FreshSocket /\ output_buffer_'[c] = 0
            /\ interest'[c] = {}
        BY <1>t, <2>2, <3>1 DEF ReactorTypes
      <4>2. sock[c].sndq \in Nat /\ output_buffer_[c] \in Nat
        BY <1>t, ReactorAssumption DEF ReactorTypes, Sockets
      <4> QED
        BY <4>1, <4>2 DEF ClosesWell, StaysClosed, FreshSocket
    <3>2. CASE d # c
      <4>1. /\ state_'[c] = state_[c] /\ sock'[c] = sock[c]
            /\ output_buffer_'[c] = output_buffer_[c] /\ interest'[c] = interest[c]
        BY <1>t, <2>2, <3>2 DEF ReactorTypes
      <4> QED
        BY <4>1, Untouched
    <3> QED
      BY <3>1, <3>2
  <2> QED
    BY <1>4, <2>1, <2>2 DEF Return
<1> QED
  BY <1>1, <1>2, <1>3, <1>4 DEF LoopThread

LEMMA StepCloses ==
  ASSUME ReactorInv, RouteInv, OverLimit, [Next]_vars, NEW c \in Conns
  PROVE  ClosesWell(c)
<1>t. ReactorTypes
  BY DEF ReactorInv
<1>1. ASSUME NEW l \in Loops, TimerFires(l)
      PROVE  ClosesWell(c)
  <2>1. /\ UNCHANGED <<sock, output_buffer_, interest>> /\ pc' = [pc EXCEPT ![l] = "deadlock"]
    BY <1>1 DEF TimerFires, Goto, epollVars
  <2>2. PICK f \in Fds : /\ timers_[l][f] # None
                         /\ state_' = [state_ EXCEPT ![timers_[l][f]] = "kClosed"]
    BY <1>1 DEF TimerFires
  <2>3. PICK d \in Conns : d = timers_[l][f]
    BY <1>t, <2>2 DEF ReactorTypes
  <2>4. loop_[d] = l
    BY <2>3 DEF ReactorInv, TimersOwned
  <2>5. pc'[l] = "deadlock"
    BY <1>t, <2>1 DEF ReactorTypes
  <2>6. CASE d = c /\ state_[c] # "kClosed"
    BY <2>4, <2>5, <2>6 DEF ClosesWell
  <2>7. CASE d # c \/ state_[c] = "kClosed"
    <3>1. state_'[c] = state_[c]
      BY <1>t, <2>2, <2>3, <2>7 DEF ReactorTypes
    <3> QED
      BY <2>1, <3>1, Untouched
  <2> QED
    BY <2>6, <2>7
<1>2. ASSUME NEW d \in Conns, Accept(d) \/ \E l \in Loops : AcceptInSubReactor(l, d)
      PROVE  ClosesWell(c)
  <2>1. /\ state_[d] = "none" /\ UNCHANGED <<sock, output_buffer_>>
        /\ \E new \in {"kConnecting", "kConnected"} : state_' = [state_ EXCEPT ![d] = new]
        /\ interest' = [interest EXCEPT ![d] = {"in"}] \/ UNCHANGED interest
    BY <1>2 DEF Accept, AcceptInSubReactor, NewConnection, ConnectEstablished, Transition,
                UpdateEvent, epollVars
  <2>2. CASE d = c
    <3>1. state_[c] # "kClosed" /\ state_'[c] # "kClosed"
      BY <1>t, <2>1, <2>2 DEF ReactorTypes
    <3> QED
      BY <3>1 DEF ClosesWell
  <2>3. CASE d # c
    <3>1. state_'[c] = state_[c] /\ interest'[c] = interest[c]
      BY <1>t, <2>1, <2>3 DEF ReactorTypes
    <3> QED
      BY <2>1, <3>1, Untouched
  <2> QED
    BY <2>2, <2>3
<1>3. ASSUME NEW d \in Conns, Peer(d)
      PROVE  ClosesWell(c)
  <2>1. PICK t : /\ SocketBecomes(d, t)
                 /\ \/ \E kind \in Kinds : t = [sock[d] EXCEPT !.rcvq = Append(@, kind)]
                    \/ t = [sock[d] EXCEPT !.peer = "fin"]
                    \/ t = [sock[d] EXCEPT !.sndq = 0,
                              !.peer = IF @ = "fin" THEN "broken" ELSE "reset"]
                    \/ t = [sock[d] EXCEPT !.sndq = 0]
    BY <1>3 DEF Peer, PeerSend, PeerFin, PeerReset, PeerRead
  <2>2. sock' = [sock EXCEPT ![d] = t] /\ UNCHANGED <<state_, output_buffer_, interest>>
    BY <2>1 DEF SocketBecomes
  <2>3. sock[d] \in Sockets /\ sock[d].sndq \in Nat /\ sock[c].sndq \in Nat
    BY <1>t, ReactorAssumption DEF ReactorTypes, Sockets
  <2>4. t.sndq = sock[d].sndq \/ t.sndq = 0
    BY <2>1, <2>3 DEF Sockets
  <2>5. sock'[c].sndq <= sock[c].sndq
    BY <1>t, <2>2, <2>3, <2>4 DEF ReactorTypes
  <2> QED
    BY <2>2, <2>5, LeftAlone
<1>4. CASE UNCHANGED vars
  <2>1. UNCHANGED <<state_, sock, output_buffer_, interest>>
    BY <1>4 DEF vars, epollVars
  <2> QED
    BY <2>1, Untouched
<1> QED
  BY <1>1, <1>2, <1>3, <1>4, ThreadCloses DEF Next, Killed

\* HandleClose takes a connection out of epoll for good: whatever the same
\* callback still does with it, it stays closed, nothing is sent or queued, and
\* it is watched again only when its input is over the limit (Send, Shutdown,
\* HandleWrite and PauseReading after HandleClose).
THEOREM ReactorClosedForGood == Spec => ClosedForGood
<1>1. Init => OverLimit
  BY DEF Init, OverLimit
<1>2. ReactorInv /\ RouteInv /\ OverLimit /\ [Next]_vars => OverLimit'
  BY OverLimitStep
<1>3. ReactorInv /\ RouteInv /\ OverLimit /\ [Next]_vars
      => [\A c \in Conns :
            /\ state_[c] # "kClosed" /\ state_'[c] = "kClosed" =>
                 interest'[c] = {} \/ pc'[loop_[c]] = "deadlock"
            /\ state_[c] = "kClosed" =>
                 /\ state_'[c] \in {"kClosed", "destroyed"}
                 /\ sock'[c].sndq <= sock[c].sndq
                 /\ output_buffer_'[c] <= output_buffer_[c]
                 /\ \/ interest'[c] \subseteq interest[c]
                    \/ Len(input_buffer_[c]) > MaxInput /\ interest'[c] = {"out"}]_vars
  BY StepCloses DEF ClosesWell, StaysClosed
<1> QED
  BY <1>1, <1>2, <1>3, ReactorAlwaysConsistent, ReactorAlwaysRouted, PTL DEF Spec, ClosedForGood
===============================================================================
