------------------------------- MODULE MCHttp2 -------------------------------
(***************************************************************************)
(* The three classes of src/http2 that keep state.  H2Connection hands no  *)
(* frame to a stream or to the decoder yet, so a behaviour is one of the   *)
(* connection, of a stream or of the decoder, with the others at rest.     *)
(***************************************************************************)
EXTENDS H2Connection, H2Stream, Hpack

VARIABLE subject  \* the class this behaviour is about

vars == <<subject, h2Vars, streamVars, hpackVars>>

MCFrame(type, length) ==
  [type |-> type, length |-> length, ack |-> FALSE, reserved |-> 0, items |-> <<>>]

\* Every type that is treated in a way of its own, and headers that are refused
\* for their length or their reserved bit.
MCFrames ==
  {MCFrame("DATA", 0), MCFrame("SETTINGS", 0)}
    \cup {MCFrame("PING", 8), MCFrame("GOAWAY", 8), MCFrame("GOAWAY", 7),
          MCFrame("RST_STREAM", 4), MCFrame("PRIORITY", 4), MCFrame("SETTINGS", 5),
          [MCFrame("PING", 8) EXCEPT !.ack = TRUE],
          [MCFrame("DATA", 1) EXCEPT !.reserved = 1],
          [MCFrame("SETTINGS", 0) EXCEPT !.ack = TRUE],
          [MCFrame("SETTINGS", 6) EXCEPT !.ack = TRUE, !.items = << <<1, 0>> >>],
          [MCFrame("SETTINGS", 12) EXCEPT !.items = << <<4, 7>>, <<9, 1>> >>]}

Init == /\ subject \in {"connection", "stream", "hpack"}
        /\ H2Init
        /\ H2StreamInit
        /\ HpackInit

Next == \/ subject = "connection" /\ H2Next /\ UNCHANGED <<subject, streamVars, hpackVars>>
        \/ subject = "stream" /\ H2StreamNext /\ UNCHANGED <<subject, h2Vars, hpackVars>>
        \/ subject = "hpack" /\ HpackNext /\ UNCHANGED <<subject, h2Vars, streamVars>>

Spec == Init /\ [][Next]_vars
===============================================================================
