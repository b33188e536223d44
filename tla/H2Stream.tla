------------------------------- MODULE H2Stream -------------------------------
(***************************************************************************)
(* src/http2/h2_stream.cpp: the life of one HTTP/2 stream, driven by the   *)
(* frames received for it and by the frames its owner sends.               *)
(*                                                                         *)
(* Headers, bodies and priorities are stored and otherwise not looked at:  *)
(* of the bodies only their number of pieces is kept.  The headers and     *)
(* data callbacks may close the stream.                                    *)
(***************************************************************************)
EXTENDS Naturals

CONSTANT MaxCalls   \* bound: accepted calls per direction

ASSUME CallsAssumption == MaxCalls \in Nat

VARIABLES
  stream_state,     \* state_
  request_pieces,   \* headers and data accepted from the peer
  response_pieces,  \* headers and data accepted from the owner
  remote_ends,      \* history: END_STREAM accepted from the peer
  local_ends,       \* history: END_STREAM accepted from the owner
  stream_closes     \* history: calls of close_callback_

streamVars == <<stream_state, request_pieces, response_pieces, remote_ends, local_ends,
                stream_closes>>

StreamStates == {"IDLE", "RESERVED_LOCAL", "RESERVED_REMOTE", "OPEN",
                 "HALF_CLOSED_LOCAL", "HALF_CLOSED_REMOTE", "CLOSED"}

H2StreamTypeOK ==
  /\ stream_state \in StreamStates
  /\ request_pieces \in 0 .. MaxCalls
  /\ response_pieces \in 0 .. MaxCalls
  /\ remote_ends \in Nat
  /\ local_ends \in Nat
  /\ stream_closes \in Nat

H2StreamInit ==
  /\ stream_state = "IDLE"
  /\ request_pieces = 0
  /\ response_pieces = 0
  /\ remote_ends = 0
  /\ local_ends = 0
  /\ stream_closes = 0
-------------------------------------------------------------------------------
\* Mutant: half closed may be entered from half closed.
StreamCanTransitionLoose(from, to) ==
  CASE from = "IDLE" -> to \in {"OPEN", "RESERVED_LOCAL", "RESERVED_REMOTE", "CLOSED"}
    [] from \in {"OPEN", "HALF_CLOSED_LOCAL", "HALF_CLOSED_REMOTE"} ->
         to \in {"HALF_CLOSED_LOCAL", "HALF_CLOSED_REMOTE", "CLOSED"}
    [] from \in {"RESERVED_LOCAL", "RESERVED_REMOTE"} -> to \in {"HALF_CLOSED_REMOTE", "CLOSED"}
    [] from = "CLOSED" -> FALSE

StreamCanTransition(from, to) ==
  CASE from = "IDLE" -> to \in {"OPEN", "RESERVED_LOCAL", "RESERVED_REMOTE", "CLOSED"}
    [] from = "OPEN" -> to \in {"HALF_CLOSED_LOCAL", "HALF_CLOSED_REMOTE", "CLOSED"}
    [] from \in {"HALF_CLOSED_LOCAL", "HALF_CLOSED_REMOTE"} -> to = "CLOSED"
    [] from \in {"RESERVED_LOCAL", "RESERVED_REMOTE"} -> to \in {"HALF_CLOSED_REMOTE", "CLOSED"}
    [] from = "CLOSED" -> FALSE

\* A call that was accepted enters `to'; then its callback may close the
\* stream.
Enter(to) ==
  \/ stream_state' = to /\ UNCHANGED stream_closes
  \/ to # "CLOSED" /\ stream_state' = "CLOSED" /\ stream_closes' = stream_closes + 1

Count(ends, end_stream) == IF end_stream THEN ends + 1 ELSE ends

HandleHeaders(end_stream) ==
  LET to == IF end_stream THEN "HALF_CLOSED_REMOTE" ELSE "OPEN"
  IN  /\ request_pieces < MaxCalls
      /\ StreamCanTransition(stream_state, to)
      /\ Enter(to)
      /\ request_pieces' = request_pieces + 1
      /\ remote_ends' = Count(remote_ends, end_stream)
      /\ UNCHANGED <<response_pieces, local_ends>>

\* Data that do not end the stream are accepted in any state.
HandleData(end_stream) ==
  /\ request_pieces < MaxCalls
  /\ end_stream => StreamCanTransition(stream_state, "HALF_CLOSED_REMOTE")
  /\ Enter(IF end_stream THEN "HALF_CLOSED_REMOTE" ELSE stream_state)
  /\ request_pieces' = request_pieces + 1
  /\ remote_ends' = Count(remote_ends, end_stream)
  /\ UNCHANGED <<response_pieces, local_ends>>

SendHeaders(end_stream) ==
  LET to == IF end_stream THEN "HALF_CLOSED_LOCAL" ELSE "OPEN"
  IN  /\ response_pieces < MaxCalls
      /\ StreamCanTransition(stream_state, to)
      /\ stream_state' = to
      /\ response_pieces' = response_pieces + 1
      /\ local_ends' = Count(local_ends, end_stream)
      /\ UNCHANGED <<request_pieces, remote_ends, stream_closes>>

SendData(end_stream) ==
  /\ response_pieces < MaxCalls
  /\ end_stream => StreamCanTransition(stream_state, "HALF_CLOSED_LOCAL")
  /\ stream_state' = IF end_stream THEN "HALF_CLOSED_LOCAL" ELSE stream_state
  /\ response_pieces' = response_pieces + 1
  /\ local_ends' = Count(local_ends, end_stream)
  /\ UNCHANGED <<request_pieces, remote_ends, stream_closes>>

\* Close, and SendRstStream, which calls it.
CloseStream ==
  /\ stream_state # "CLOSED"
  /\ stream_state' = "CLOSED"
  /\ stream_closes' = stream_closes + 1
  /\ UNCHANGED <<request_pieces, response_pieces, remote_ends, local_ends>>

H2StreamNext ==
  \/ \E end_stream \in BOOLEAN :
       \/ HandleHeaders(end_stream) \/ HandleData(end_stream)
       \/ SendHeaders(end_stream) \/ SendData(end_stream)
  \/ CloseStream

H2StreamSpec == H2StreamInit /\ [][H2StreamNext]_streamVars
-------------------------------------------------------------------------------
\* However frames, sends and closes from callbacks are mixed, a stream ends at
\* most once per side and is reported closed at most once, and what it has
\* ended or reported is never undone by a later call (TransitionState).
StreamEndsOnce ==
  /\ remote_ends <= 1 /\ local_ends <= 1
  /\ remote_ends = 1 => stream_state \in {"HALF_CLOSED_REMOTE", "CLOSED"}
  /\ local_ends = 1 => stream_state \in {"HALF_CLOSED_LOCAL", "CLOSED"}
  /\ stream_closes = (IF stream_state = "CLOSED" THEN 1 ELSE 0)
===============================================================================
