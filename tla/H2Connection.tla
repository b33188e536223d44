----------------------------- MODULE H2Connection -----------------------------
(***************************************************************************)
(* src/http2/h2_connection.cpp and h2_frame_parser.cpp: the server side of *)
(* an HTTP/2 connection, fed by ProcessData with the peer's bytes in       *)
(* pieces of any length.                                                   *)
(*                                                                         *)
(* A byte is known by where it comes from: <<0, j>> is byte j of the       *)
(* client preface, <<k, j>> byte j of the k-th frame, 9 bytes of header    *)
(* and its payload.  The wrong preface differs from the right one in its   *)
(* last byte.  Frames that the code ignores (DATA, HEADERS and the rest    *)
(* of its placeholders) do nothing here either.  streams_ is empty between *)
(* two frames: only RST_STREAM creates a stream, which it closes and       *)
(* removes at once, so CloseAllStreams and the loop of GOAWAY find none.   *)
(*                                                                         *)
(* frame_callback_ sends a frame, and may find the connection broken and   *)
(* call Close; not for the GOAWAY that Close itself sends.                 *)
(***************************************************************************)
EXTENDS Integers, Sequences, SequencesExt

CONSTANTS Frames,     \* what the peer may send
          MaxFrames   \* bound: frames per connection

VARIABLES
  sent,               \* the frames the peer has sent
  wire,               \* their bytes, one after the other
  badPreface,         \* the peer's preface is wrong
  delivered,          \* bytes of the peer handed to ProcessData
  state_,
  preface_remaining_,
  read_buffer_,
  settings_,
  has_callback,       \* frame_callback_ is set
  processing,         \* inside ProcessData, at the head of its loop
  last_ok,            \* what the last ProcessData returned
  torn,               \* ProcessData skipped bytes that were not the preface's
  replies,            \* history: frames sent, and the number of the frame answered
  handled,            \* history: numbers of the frames removed from the buffer
  closes              \* history: calls of close_callback_

h2Vars == <<sent, wire, badPreface, delivered, state_, preface_remaining_, read_buffer_,
            settings_, has_callback, processing, last_ok, torn, replies, handled, closes>>

CLIENT_PREFACE_LEN == 24
HeaderLen == 9

States == {"H2_IDLE", "H2_OPEN", "H2_CLOSING", "H2_CLOSED"}

\* H2Settings: the six items and their defaults, by identifier.
DefaultSettings == <<4096, 1, 100, 65535, 16384, 65536>>

Token == Nat \X Nat
Kinds == {"SETTINGS", "SETTINGS_ACK", "PING_ACK", "GOAWAY"}

ASSUME FramesAssumption == \A f \in Frames : f.length \in Nat

H2TypeOK ==
  /\ sent \in Seq(Frames)
  /\ wire \in Seq(Token)
  /\ badPreface \in BOOLEAN
  /\ delivered \in Nat
  /\ state_ \in States
  /\ preface_remaining_ \in 0 .. CLIENT_PREFACE_LEN
  /\ read_buffer_ \in Seq(Token)
  /\ DOMAIN settings_ = 1 .. 6
  /\ {has_callback, processing, last_ok, torn} \subseteq BOOLEAN
  /\ replies \in Seq([kind : Kinds, to : Nat])
  /\ handled \in Seq(Nat)
  /\ closes \in Nat

H2Init ==
  /\ sent = <<>>
  /\ wire = <<>>
  /\ badPreface \in BOOLEAN
  /\ delivered = 0
  /\ state_ = "H2_IDLE"
  /\ preface_remaining_ = CLIENT_PREFACE_LEN
  /\ read_buffer_ = <<>>
  /\ settings_ = DefaultSettings
  /\ has_callback \in BOOLEAN
  /\ processing = FALSE
  /\ last_ok = TRUE
  /\ torn = FALSE
  /\ replies = <<>>
  /\ handled = <<>>
  /\ closes = 0
-------------------------------------------------------------------------------
(* The peer's bytes. *)

CLIENT_PREFACE == [j \in 1 .. CLIENT_PREFACE_LEN |-> <<0, j>>]

Preface == IF badPreface THEN [CLIENT_PREFACE EXCEPT ![CLIENT_PREFACE_LEN] = <<0, 0>>]
                         ELSE CLIENT_PREFACE

Size(f) == HeaderLen + f.length

Bytes(k, f) == [j \in 1 .. Size(f) |-> <<k, j>>]

\* The peer sends one more frame; after a wrong preface one is enough, and a
\* connection that is torn is not followed further.
PeerSends(f) ==
  /\ Len(sent) < (IF badPreface THEN 1 ELSE MaxFrames)
  /\ ~torn
  /\ sent' = Append(sent, f)
  /\ wire' = wire \o Bytes(Len(sent) + 1, f)
  /\ UNCHANGED <<badPreface, delivered, state_, preface_remaining_, read_buffer_, settings_,
                 has_callback, processing, last_ok, torn, replies, handled, closes>>
-------------------------------------------------------------------------------
(* h2_frame_parser.cpp *)

ValidateFrameLength(f) ==
  CASE f.type = "SETTINGS"                        -> f.length % 6 = 0
    [] f.type = "PING"                            -> f.length = 8
    [] f.type \in {"WINDOW_UPDATE", "RST_STREAM"} -> f.length = 4
    [] f.type = "PRIORITY"                        -> f.length = 5
    [] f.type = "GOAWAY"                          -> f.length >= 8
    [] OTHER                                      -> TRUE

\* H2FrameHeader::Validate, by which ParseHeader refuses a header.
Validate(f) == f.reserved = 0 /\ ValidateFrameLength(f)
-------------------------------------------------------------------------------
(* Sending and closing, on the part of the state they concern. *)

Conn == [state |-> state_, replies |-> replies, closes |-> closes]

ConnBecomes(c) == /\ state_' = c.state
                  /\ replies' = c.replies
                  /\ closes' = c.closes

CanTransition(from, to) ==
  CASE from = "H2_IDLE"    -> to \in {"H2_OPEN", "H2_CLOSED"}
    [] from = "H2_OPEN"    -> to \in {"H2_CLOSING", "H2_CLOSED"}
    [] from = "H2_CLOSING" -> to = "H2_CLOSED"
    [] from = "H2_CLOSED"  -> FALSE

TransitionState(c, to) == IF CanTransition(c.state, to) THEN [c EXCEPT !.state = to] ELSE c

\* SendFrame succeeds on a connection that is not closed and has a callback.
CanSend(c) == c.state # "H2_CLOSED" /\ has_callback

\* A frame goes out, in answer to frame k (0: to none).
Out(c, kind, k) == [c EXCEPT !.replies = Append(@, [kind |-> kind, to |-> k])]

\* Mutant: Close may be called again.
CloseUnguarded(c) ==
  LET told == IF c.state = "H2_OPEN" /\ has_callback
              THEN Out(c, "GOAWAY", 0) ELSE c
  IN  [TransitionState(told, "H2_CLOSED") EXCEPT !.closes = @ + 1]

\* Close: GOAWAY if the connection is open, the last state, the callback.
Close(c) ==
  IF c.state = "H2_CLOSED" THEN c
  ELSE LET told == IF c.state = "H2_OPEN" /\ has_callback
                   THEN Out(c, "GOAWAY", 0) ELSE c
       IN  [TransitionState(told, "H2_CLOSED") EXCEPT !.closes = @ + 1]

\* What sending a frame can lead to: the callback may call Close.
Send(c, kind, k) ==
  LET out == Out(c, kind, k)
  IN  IF CanSend(c) THEN {out, Close(out)} ELSE {c}
-------------------------------------------------------------------------------
(* ProcessData. *)

\* On a connection that is closed, ProcessData returns an error.
ProcessDataClosed ==
  /\ state_ = "H2_CLOSED"
  /\ last_ok' = FALSE
  /\ UNCHANGED <<state_, preface_remaining_, read_buffer_, processing, torn, replies, closes>>

\* ProcessPreface and the lines that skip what it consumed: all of the preface
\* received so far, not only this call's part of it.
ProcessPreface(data) ==
  LET to_compare == IF Len(data) < preface_remaining_ THEN Len(data) ELSE preface_remaining_
      from == CLIENT_PREFACE_LEN - preface_remaining_
      remaining == preface_remaining_ - to_compare
      consumed == CLIENT_PREFACE_LEN - remaining
  IN  /\ state_ = "H2_IDLE"
      /\ IF SubSeq(data, 1, to_compare) # SubSeq(CLIENT_PREFACE, from + 1, from + to_compare)
         THEN /\ last_ok' = FALSE
              /\ UNCHANGED <<state_, preface_remaining_, read_buffer_, processing, torn,
                             replies, closes>>
         ELSE /\ preface_remaining_' = remaining
              /\ IF remaining = 0
                 THEN \E c \in Send(TransitionState(Conn, "H2_OPEN"), "SETTINGS", 0) :
                        ConnBecomes(c)
                 ELSE ConnBecomes(Conn)
              /\ torn' = (consumed # to_compare)
              /\ read_buffer_' = IF consumed <= Len(data)
                                 THEN SubSeq(data, consumed + 1, Len(data)) ELSE <<>>
              /\ processing' = TRUE
              /\ UNCHANGED last_ok

\* Later data go to the end of the buffer.
BufferData(data) ==
  /\ state_ \in {"H2_OPEN", "H2_CLOSING"}
  /\ read_buffer_' = read_buffer_ \o data
  /\ processing' = TRUE
  /\ UNCHANGED <<state_, preface_remaining_, last_ok, torn, replies, closes>>

\* ProcessData is given the next n bytes of the peer.
ProcessData(n) ==
  LET arrived == Preface \o wire
  IN  /\ ~processing /\ ~torn
      /\ delivered + n <= Len(arrived)
      /\ delivered' = delivered + n
      /\ LET data == SubSeq(arrived, delivered + 1, delivered + n)
         IN  ProcessDataClosed \/ ProcessPreface(data) \/ BufferData(data)
      /\ UNCHANGED <<sent, wire, badPreface, settings_, has_callback, handled>>

\* ProcessData returns.  After a torn preface the buffer holds neither the
\* bytes sent nor, if the length went below zero, bytes of this program.
Return(ok) ==
  /\ processing' = FALSE
  /\ last_ok' = ok
  /\ UNCHANGED <<sent, wire, badPreface, delivered, preface_remaining_, has_callback, torn>>

\* The frame whose header is at the head of the buffer.
Number == Head(read_buffer_)[1]
Frame == sent[Number]

HasHeader == Len(read_buffer_) >= HeaderLen
HasFrame == HasHeader /\ Len(read_buffer_) >= Size(Frame)

\* The loop ends: header or payload are not complete.
WaitForMore ==
  /\ processing /\ ~torn
  /\ ~HasFrame
  /\ HasHeader => Validate(Frame)
  /\ Return(TRUE)
  /\ UNCHANGED <<state_, read_buffer_, settings_, replies, handled, closes>>

\* A header that is not valid is refused, and stays where it is.
RefuseHeader ==
  /\ processing /\ ~torn
  /\ HasHeader /\ ~Validate(Frame)
  /\ Return(FALSE)
  /\ UNCHANGED <<state_, read_buffer_, settings_, replies, handled, closes>>

\* Mutant: the header of a frame is not counted.
EraseFrameShort ==
  /\ read_buffer_' = SubSeq(read_buffer_, Frame.length + 1, Len(read_buffer_))
  /\ handled' = Append(handled, Number)
  /\ UNCHANGED <<sent, wire, badPreface, delivered, preface_remaining_, has_callback, processing,
                 last_ok, torn>>

\* The frame was handled: the loop removes it and goes on.
EraseFrame ==
  /\ read_buffer_' = SubSeq(read_buffer_, Size(Frame) + 1, Len(read_buffer_))
  /\ handled' = Append(handled, Number)
  /\ UNCHANGED <<sent, wire, badPreface, delivered, preface_remaining_, has_callback, processing,
                 last_ok, torn>>

\* It was not: ProcessData returns the error and the frame stays.
RefuseFrame == Return(FALSE) /\ UNCHANGED <<read_buffer_, handled>>

\* A frame with an answer: it is handled if the answer could be sent.
AnswerWith(kind) ==
  /\ \E c \in Send(Conn, kind, Number) : ConnBecomes(c)
  /\ IF CanSend(Conn) THEN EraseFrame ELSE RefuseFrame

\* Every item of the payload sets its value, the last one of an identifier
\* for good; unknown identifiers are ignored.
Apply(settings, items) ==
  [id \in DOMAIN settings |->
     LET about == {n \in DOMAIN items : items[n][1] = id}
     IN  IF about = {} THEN settings[id] ELSE items[Max(about)][2]]

HandleSettingsFrame ==
  /\ Frame.type = "SETTINGS"
  /\ IF Frame.ack
     THEN /\ IF Frame.length # 0 THEN RefuseFrame ELSE EraseFrame
          /\ UNCHANGED <<state_, settings_, replies, closes>>
     ELSE /\ settings_' = Apply(settings_, Frame.items)
          /\ AnswerWith("SETTINGS_ACK")

HandlePingFrame ==
  /\ Frame.type = "PING"
  /\ IF Frame.ack THEN EraseFrame /\ UNCHANGED <<state_, replies, closes>>
                  ELSE AnswerWith("PING_ACK")
  /\ UNCHANGED settings_

HandleGoawayFrame ==
  /\ Frame.type = "GOAWAY"
  /\ ConnBecomes(TransitionState(Conn, "H2_CLOSING"))
  /\ EraseFrame
  /\ UNCHANGED settings_

\* RST_STREAM leaves no trace, see above; the other types are placeholders.
HandleOtherFrame ==
  /\ Frame.type \notin {"SETTINGS", "PING", "GOAWAY"}
  /\ EraseFrame
  /\ UNCHANGED <<state_, settings_, replies, closes>>

HandleFrame ==
  /\ processing /\ ~torn
  /\ HasFrame
  /\ Validate(Frame)
  /\ HandleSettingsFrame \/ HandlePingFrame \/ HandleGoawayFrame \/ HandleOtherFrame
-------------------------------------------------------------------------------
(* The other calls of the owner. *)

CloseCalled ==
  /\ ~processing
  /\ ConnBecomes(Close(Conn))
  /\ UNCHANGED <<sent, wire, badPreface, delivered, preface_remaining_, read_buffer_, settings_,
                 has_callback, processing, last_ok, torn, handled>>

SetFrameCallback ==
  /\ ~processing
  /\ has_callback' = TRUE
  /\ UNCHANGED <<sent, wire, badPreface, delivered, state_, preface_remaining_, read_buffer_,
                 settings_, processing, last_ok, torn, replies, handled, closes>>

H2Next ==
  \/ \E f \in Frames : PeerSends(f)
  \/ \E n \in 1 .. CLIENT_PREFACE_LEN + Len(wire) : ProcessData(n)
  \/ WaitForMore
  \/ RefuseHeader
  \/ HandleFrame
  \/ CloseCalled
  \/ SetFrameCallback

H2Spec == H2Init /\ [][H2Next]_h2Vars
-------------------------------------------------------------------------------
\* However the bytes are cut, unless the preface itself is: every frame is
\* removed once and in order, what is buffered is the bytes received since the
\* end of the last one removed, and after a call that succeeded no complete
\* frame is left waiting (ProcessData).
FramesReassembled ==
  /\ H2TypeOK
  /\ \A n \in DOMAIN handled : handled[n] = n
  /\ ~torn /\ state_ \in {"H2_OPEN", "H2_CLOSING"} =>
       /\ \E start \in 0 .. Len(wire) :
            /\ start = 0 <=> handled = <<>>
            /\ start > 0 => wire[start] = <<Len(handled), Size(sent[Len(handled)])>>
            /\ read_buffer_ = SubSeq(wire, start + 1, delivered - CLIENT_PREFACE_LEN)
       /\ ~processing /\ last_ok => ~HasFrame

\* SETTINGS and PING are answered once and in order, although a frame whose
\* answer cannot be sent is handled again by the next call; and one close is
\* reported to the owner, whether it comes from Close or from the callback.
AnsweredOnce ==
  LET Due(k) == sent[k].type \in {"PING", "SETTINGS"} /\ ~sent[k].ack
      Answer(k) == IF sent[k].type = "PING" THEN "PING_ACK" ELSE "SETTINGS_ACK"
      answers == {n \in DOMAIN replies : replies[n].kind \in {"PING_ACK", "SETTINGS_ACK"}}
  IN  /\ \A n \in answers : LET k == replies[n].to
                            IN  k \in Range(handled) /\ Due(k) /\ replies[n].kind = Answer(k)
      /\ \A k \in Range(handled) : Due(k) => \E n \in answers : replies[n].to = k
      /\ \A m, n \in answers : m < n => replies[m].to < replies[n].to
      /\ closes = (IF state_ = "H2_CLOSED" THEN 1 ELSE 0)

\* h2_connection.cpp:50-53, "the preface has been processed, consume its bytes":
\* what is consumed is the preface, even when it comes in two pieces.
PrefaceConsumedExactly == ~torn
===============================================================================
