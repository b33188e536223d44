----------------------------- MODULE Http2Proofs -----------------------------
(***************************************************************************)
(* The connection of src/http2, for any frames of any length, sent in any  *)
(* number and cut anywhere.  FramesReassembled is not inductive: to know   *)
(* that the header at the head of the buffer is the next frame's, the      *)
(* frames have to be known as an offset each into the bytes sent, and the  *)
(* buffer as the bytes from one of those offsets up to the last byte       *)
(* received (StreamCut); to know that this holds when the preface ends,    *)
(* that what was accepted of the preface is what was received of it        *)
(* (PrefacePending).  That an answer comes once follows from the order of  *)
(* the frames (InOrder).                                                   *)
(*                                                                         *)
(* The life of a stream, for every number of calls: StreamEndsOnce is      *)
(* inductive together with the types.                                      *)
(***************************************************************************)
EXTENDS H2Connection, H2Stream, SequenceTheorems, TLAPS
-------------------------------------------------------------------------------
\* Every byte of the peer's frames knows its frame; frame k begins behind
\* off[k], and the last one ends with the wire.
Framing(off) ==
  /\ off \in [1 .. Len(sent) + 1 -> Nat]
  /\ off[1] = 0
  /\ off[Len(sent) + 1] = Len(wire)
  /\ \A k \in 1 .. Len(sent) : /\ off[k + 1] = off[k] + Size(sent[k])
                               /\ off[k + 1] <= Len(wire)
                               /\ \A j \in 1 .. Size(sent[k]) : wire[off[k] + j] = <<k, j>>

\* The buffer continues where the frames removed end; as long as the
\* connection lives it goes up to the last byte received.
Buffered(off) ==
  /\ Len(handled) <= Len(sent)
  /\ ~torn => LET start == off[Len(handled) + 1]
              IN  /\ start + Len(read_buffer_) <= Len(wire)
                  /\ \A i \in 1 .. Len(read_buffer_) : read_buffer_[i] = wire[start + i]
                  /\ state_ \in {"H2_OPEN", "H2_CLOSING"} =>
                       start + Len(read_buffer_) = delivered - CLIENT_PREFACE_LEN

StreamCut == \E off : Framing(off) /\ Buffered(off)

\* Before the preface is complete nothing is buffered; what has been accepted
\* of it is what was received, or the peer is not an HTTP/2 client.
PrefacePending ==
  /\ delivered <= CLIENT_PREFACE_LEN + Len(wire)
  /\ \A p \in 1 .. Len(wire) : wire[p][1] > 0
  /\ state_ = "H2_IDLE" => preface_remaining_ > 0
  /\ state_ = "H2_IDLE" /\ ~torn =>
       /\ read_buffer_ = <<>> /\ handled = <<>>
       /\ \/ delivered = CLIENT_PREFACE_LEN - preface_remaining_
          \/ badPreface /\ delivered >= CLIENT_PREFACE_LEN

InOrder == \A n \in 1 .. Len(handled) : handled[n] = n

NoneWaits ==
  ~torn /\ state_ \in {"H2_OPEN", "H2_CLOSING"} /\ ~processing /\ last_ok => ~HasFrame

Reply == [kind : Kinds, to : Nat]
ConnType == [state : States, replies : Seq(Reply), closes : Nat]
Acks == {"PING_ACK", "SETTINGS_ACK"}
Due(k) == sent[k].type \in {"PING", "SETTINGS"} /\ ~sent[k].ack
Answer(k) == IF sent[k].type = "PING" THEN "PING_ACK" ELSE "SETTINGS_ACK"

\* What AnsweredOnce says of the frames r sent and the numbers h removed.
Answers(r, h) ==
  /\ \A n \in 1 .. Len(r) : r[n].kind \in Acks =>
       /\ \E i \in 1 .. Len(h) : h[i] = r[n].to
       /\ Due(r[n].to) /\ r[n].kind = Answer(r[n].to)
  /\ \A i \in 1 .. Len(h) : Due(h[i]) =>
       \E n \in 1 .. Len(r) : r[n].kind \in Acks /\ r[n].to = h[i]
  /\ \A m, n \in 1 .. Len(r) : r[m].kind \in Acks /\ r[n].kind \in Acks /\ m < n => r[m].to < r[n].to

ReportedOnce(c) == c.closes = IF c.state = "H2_CLOSED" THEN 1 ELSE 0

H2Inv == /\ H2TypeOK /\ StreamCut /\ PrefacePending /\ InOrder /\ NoneWaits
         /\ Answers(replies, handled) /\ ReportedOnce(Conn)
-------------------------------------------------------------------------------
LEMMA OutType ==
  ASSUME NEW c \in ConnType, NEW kind \in Kinds, NEW k \in Nat
  PROVE  /\ Out(c, kind, k) \in ConnType
         /\ Out(c, kind, k).state = c.state /\ Out(c, kind, k).closes = c.closes
         /\ Out(c, kind, k).replies = Append(c.replies, [kind |-> kind, to |-> k])
<1> DEFINE x == [kind |-> kind, to |-> k]
<1>1. x \in Reply
  BY DEF Reply
<1>2. Out(c, kind, k) = [c EXCEPT !.replies = Append(c.replies, x)]
  BY DEF Out
<1> HIDE DEF x
<1>3. c.replies \in Seq(Reply) /\ Append(c.replies, x) \in Seq(Reply)
  BY <1>1 DEF ConnType
<1>4. /\ Out(c, kind, k) \in ConnType
      /\ Out(c, kind, k).state = c.state /\ Out(c, kind, k).closes = c.closes
      /\ Out(c, kind, k).replies = Append(c.replies, x)
  BY <1>2, <1>3 DEF ConnType
<1> QED
  BY <1>4 DEF x

\* Close reports one close, and none the second time.
LEMMA CloseResult ==
  ASSUME NEW c \in ConnType, ReportedOnce(c)
  PROVE  /\ Close(c) \in ConnType /\ ReportedOnce(Close(c))
         /\ Close(c).state = "H2_CLOSED"
         /\ \/ Close(c).replies = c.replies
            \/ Close(c).replies = Append(c.replies, [kind |-> "GOAWAY", to |-> 0])
<1>1. CASE c.state = "H2_CLOSED"
  BY <1>1 DEF Close
<1>2. CASE c.state # "H2_CLOSED"
  <2> DEFINE told == IF c.state = "H2_OPEN" /\ has_callback THEN Out(c, "GOAWAY", 0) ELSE c
  <2>1. /\ told \in ConnType /\ told.state = c.state /\ told.closes = c.closes
        /\ \/ told.replies = c.replies
           \/ told.replies = Append(c.replies, [kind |-> "GOAWAY", to |-> 0])
    BY OutType DEF Kinds
  <2>2. CanTransition(c.state, "H2_CLOSED")
    BY <1>2 DEF ConnType, States, CanTransition
  <2>3. Close(c) = [[told EXCEPT !.state = "H2_CLOSED"] EXCEPT !.closes = @ + 1]
    BY <1>2, <2>1, <2>2 DEF Close, TransitionState
  <2> HIDE DEF told
  <2> DEFINE shut == [told EXCEPT !.state = "H2_CLOSED"]
  <2>4. /\ shut \in ConnType /\ shut.state = "H2_CLOSED"
        /\ shut.replies = told.replies /\ shut.closes = told.closes
    BY <2>1 DEF ConnType, States
  <2>5. Close(c) = [shut EXCEPT !.closes = shut.closes + 1]
    BY <2>3
  <2> HIDE DEF shut
  <2>6. /\ Close(c) \in ConnType /\ Close(c).state = "H2_CLOSED"
        /\ Close(c).replies = told.replies /\ Close(c).closes = told.closes + 1
    BY <2>4, <2>5 DEF ConnType
  <2>7. told.closes = 0
    BY <1>2, <2>1 DEF ReportedOnce
  <2>8. ReportedOnce(Close(c))
    BY <2>6, <2>7 DEF ReportedOnce
  <2> QED
    BY <2>1, <2>6, <2>8
<1> QED
  BY <1>1, <1>2

\* A frame sent may be the last one.
LEMMA SendResult ==
  ASSUME NEW c \in ConnType, ReportedOnce(c), NEW kind \in Kinds, NEW k \in Nat,
         NEW d \in Send(c, kind, k)
  PROVE  /\ d \in ConnType /\ ReportedOnce(d)
         /\ d.state \in {c.state, "H2_CLOSED"}
         /\ ~CanSend(c) => d = c
         /\ CanSend(c) =>
              LET r == Append(c.replies, [kind |-> kind, to |-> k])
              IN  d.replies = r \/ d.replies = Append(r, [kind |-> "GOAWAY", to |-> 0])
<1> DEFINE out == Out(c, kind, k)
<1>1. /\ out \in ConnType /\ out.state = c.state /\ out.closes = c.closes
      /\ out.replies = Append(c.replies, [kind |-> kind, to |-> k])
  BY OutType
<1>2. ReportedOnce(out)
  BY <1>1 DEF ReportedOnce
<1>3. d = c \/ (CanSend(c) /\ (d = out \/ d = Close(out)))
  BY DEF Send
<1>4. ~CanSend(c) => d = c
  BY DEF Send
<1>5. CanSend(c) => d = out \/ d = Close(out)
  BY DEF Send
<1> HIDE DEF out
<1> QED
  BY <1>1, <1>2, <1>3, <1>4, <1>5, CloseResult

LEMMA ConnTyped ==
  ASSUME H2Inv
  PROVE  Conn \in ConnType /\ ReportedOnce(Conn)
BY DEF H2Inv, H2TypeOK, Conn, ConnType, Reply
-------------------------------------------------------------------------------
LEMMA AnsweredIs ==
  ASSUME H2TypeOK
  PROVE  AnsweredOnce <=> Answers(replies, handled) /\ ReportedOnce(Conn)
<1>1. /\ replies \in Seq(Reply) /\ DOMAIN replies = 1 .. Len(replies)
      /\ handled \in Seq(Nat) /\ DOMAIN handled = 1 .. Len(handled)
  BY DEF H2TypeOK, Reply
<1>2. Conn.closes = closes /\ Conn.state = state_
  BY DEF Conn
<1>3. AnsweredOnce =>
        /\ \A n \in 1 .. Len(replies) : replies[n].kind \in Acks =>
             /\ \E i \in 1 .. Len(handled) : handled[i] = replies[n].to
             /\ Due(replies[n].to) /\ replies[n].kind = Answer(replies[n].to)
  BY <1>1 DEF AnsweredOnce, Due, Answer, Acks, Range
<1>4. AnsweredOnce =>
        \A i \in 1 .. Len(handled) : Due(handled[i]) =>
          \E n \in 1 .. Len(replies) : replies[n].kind \in Acks /\ replies[n].to = handled[i]
  BY <1>1 DEF AnsweredOnce, Due, Acks, Range
<1>5. AnsweredOnce => Answers(replies, handled) /\ ReportedOnce(Conn)
  BY <1>1, <1>2, <1>3, <1>4 DEF AnsweredOnce, Answers, ReportedOnce, Acks
<1>6. ASSUME Answers(replies, handled), ReportedOnce(Conn)
      PROVE  AnsweredOnce
  <2>1. \A k : k \in Range(handled) <=> \E i \in 1 .. Len(handled) : handled[i] = k
    BY <1>1 DEF Range
  <2>2. \A n \in DOMAIN replies : replies[n].kind \in Acks =>
          /\ replies[n].to \in Range(handled)
          /\ Due(replies[n].to) /\ replies[n].kind = Answer(replies[n].to)
    BY <1>1, <1>6, <2>1 DEF Answers
  <2>3. \A k \in Range(handled) : Due(k) =>
          \E n \in DOMAIN replies : replies[n].kind \in Acks /\ replies[n].to = k
    <3> SUFFICES ASSUME NEW k \in Range(handled), Due(k)
                 PROVE  \E n \in DOMAIN replies : replies[n].kind \in Acks /\ replies[n].to = k
      OBVIOUS
    <3>1. PICK i \in 1 .. Len(handled) : handled[i] = k
      BY <2>1
    <3>2. PICK n \in 1 .. Len(replies) : replies[n].kind \in Acks /\ replies[n].to = handled[i]
      BY <1>6, <3>1 DEF Answers
    <3> QED
      BY <1>1, <3>1, <3>2
  <2>4. \A m, n \in DOMAIN replies : replies[m].kind \in Acks /\ replies[n].kind \in Acks /\ m < n =>
          replies[m].to < replies[n].to
    BY <1>1, <1>6 DEF Answers
  <2>5. closes = IF state_ = "H2_CLOSED" THEN 1 ELSE 0
    BY <1>2, <1>6 DEF ReportedOnce
  <2> QED
    BY <2>2, <2>3, <2>4, <2>5 DEF AnsweredOnce, Due, Answer, Acks
<1> QED
  BY <1>5, <1>6

\* A frame sent that answers none.
LEMMA AnswersOther ==
  ASSUME NEW r \in Seq(Reply), NEW h \in Seq(Nat), Answers(r, h), NEW x \in Reply, x.kind \notin Acks
  PROVE  Answers(Append(r, x), h)
<1> DEFINE s == Append(r, x)
<1>1. /\ Len(r) \in Nat /\ Len(s) = Len(r) + 1 /\ s[Len(r) + 1] = x
      /\ \A n \in 1 .. Len(r) : s[n] = r[n]
  OBVIOUS
<1> HIDE DEF s
<1>2. \A n \in 1 .. Len(s) : s[n].kind \in Acks => n \in 1 .. Len(r)
  BY <1>1
<1>3. \A n \in 1 .. Len(r) : n \in 1 .. Len(s)
  BY <1>1
<1>4. ASSUME NEW n \in 1 .. Len(s), s[n].kind \in Acks
      PROVE  /\ n \in 1 .. Len(r) /\ s[n] = r[n]
             /\ \E i \in 1 .. Len(h) : h[i] = s[n].to
             /\ Due(s[n].to) /\ s[n].kind = Answer(s[n].to)
  <2>1. n \in 1 .. Len(r) /\ s[n] = r[n]
    BY <1>1, <1>2, <1>4
  <2>2. r[n].kind \in Acks
    BY <1>4, <2>1
  <2>3. /\ \E i \in 1 .. Len(h) : h[i] = r[n].to
        /\ Due(r[n].to) /\ r[n].kind = Answer(r[n].to)
    BY <2>1, <2>2 DEF Answers
  <2> QED
    BY <2>1, <2>3
<1>5. ASSUME NEW i \in 1 .. Len(h), Due(h[i])
      PROVE  \E n \in 1 .. Len(s) : s[n].kind \in Acks /\ s[n].to = h[i]
  <2>1. PICK n \in 1 .. Len(r) : r[n].kind \in Acks /\ r[n].to = h[i]
    BY <1>5 DEF Answers
  <2>2. s[n] = r[n] /\ n \in 1 .. Len(s)
    BY <1>1, <1>3
  <2> QED
    BY <2>1, <2>2
<1>6. ASSUME NEW m \in 1 .. Len(s), NEW n \in 1 .. Len(s),
             s[m].kind \in Acks, s[n].kind \in Acks, m < n
      PROVE  s[m].to < s[n].to
  <2>1. m \in 1 .. Len(r) /\ s[m] = r[m] /\ n \in 1 .. Len(r) /\ s[n] = r[n]
    BY <1>4, <1>6
  <2>2. r[m].to < r[n].to
    BY <1>6, <2>1 DEF Answers
  <2> QED
    BY <2>1, <2>2
<1>7. Answers(s, h)
  BY <1>4, <1>5, <1>6 DEF Answers
<1> QED
  BY <1>7 DEF s

\* A frame removed that needs no answer.
LEMMA AnswersNone ==
  ASSUME NEW r \in Seq(Reply), NEW h \in Seq(Nat), Answers(r, h), NEW k \in Nat, ~Due(k)
  PROVE  Answers(r, Append(h, k))
<1> DEFINE g == Append(h, k)
<1>1. /\ Len(h) \in Nat /\ Len(g) = Len(h) + 1 /\ g[Len(h) + 1] = k
      /\ \A n \in 1 .. Len(h) : g[n] = h[n] /\ n \in 1 .. Len(g)
      /\ \A n \in 1 .. Len(g) : n \in 1 .. Len(h) \/ n = Len(h) + 1
  OBVIOUS
<1> HIDE DEF g
<1>2. ASSUME NEW n \in 1 .. Len(r), r[n].kind \in Acks
      PROVE  \E i \in 1 .. Len(g) : g[i] = r[n].to
  <2>1. PICK i \in 1 .. Len(h) : h[i] = r[n].to
    BY <1>2 DEF Answers
  <2> QED
    BY <1>1, <2>1
<1>3. ASSUME NEW i \in 1 .. Len(g), Due(g[i])
      PROVE  \E n \in 1 .. Len(r) : r[n].kind \in Acks /\ r[n].to = g[i]
  <2>1. i \in 1 .. Len(h) /\ g[i] = h[i]
    BY <1>1, <1>3
  <2> QED
    BY <1>3, <2>1 DEF Answers
<1>4. Answers(r, g)
  BY <1>2, <1>3 DEF Answers
<1> QED
  BY <1>4 DEF g

\* A frame removed and its answer.
LEMMA AnswersNext ==
  ASSUME NEW r \in Seq(Reply), NEW h \in Seq(Nat), Answers(r, h), NEW k \in Nat, Due(k),
         \A n \in 1 .. Len(h) : h[n] < k
  PROVE  Answers(Append(r, [kind |-> Answer(k), to |-> k]), Append(h, k))
<1> DEFINE g == Append(h, k)
           x == [kind |-> Answer(k), to |-> k]
           s == Append(r, x)
<1>1. /\ Len(h) \in Nat /\ Len(g) = Len(h) + 1 /\ g[Len(h) + 1] = k /\ Len(h) + 1 \in 1 .. Len(g)
      /\ \A n \in 1 .. Len(h) : g[n] = h[n] /\ n \in 1 .. Len(g)
      /\ \A n \in 1 .. Len(g) : n \in 1 .. Len(h) \/ n = Len(h) + 1
  OBVIOUS
<1>2. /\ Len(r) \in Nat /\ Len(s) = Len(r) + 1 /\ s[Len(r) + 1] = x /\ Len(r) + 1 \in 1 .. Len(s)
      /\ \A n \in 1 .. Len(r) : s[n] = r[n] /\ n \in 1 .. Len(s)
      /\ \A n \in 1 .. Len(s) : n \in 1 .. Len(r) \/ n = Len(r) + 1
  <2>1. x \in Reply
    BY DEF Reply, Kinds, Answer
  <2> HIDE DEF x
  <2> QED
    BY <2>1
<1>3. x.kind = Answer(k) /\ x.to = k /\ Answer(k) \in Acks
  BY DEF Answer, Acks
<1> HIDE DEF g, s, x
<1>4. \A n \in 1 .. Len(r) : r[n].kind \in Acks => r[n].to < k
  BY DEF Answers
<1>5. ASSUME NEW n \in 1 .. Len(s), s[n].kind \in Acks
      PROVE  /\ \E i \in 1 .. Len(g) : g[i] = s[n].to
             /\ Due(s[n].to) /\ s[n].kind = Answer(s[n].to)
  <2>1. CASE n = Len(r) + 1
    BY <1>1, <1>2, <1>3, <2>1
  <2>2. CASE n \in 1 .. Len(r)
    <3>1. s[n] = r[n] /\ r[n].kind \in Acks
      BY <1>2, <1>5, <2>2
    <3>2. PICK i \in 1 .. Len(h) : h[i] = r[n].to
      BY <2>2, <3>1 DEF Answers
    <3>3. Due(r[n].to) /\ r[n].kind = Answer(r[n].to)
      BY <2>2, <3>1 DEF Answers
    <3> QED
      BY <1>1, <3>1, <3>2, <3>3
  <2> QED
    BY <1>2, <2>1, <2>2
<1>6. \A i \in 1 .. Len(g) : Due(g[i]) =>
        \E n \in 1 .. Len(s) : s[n].kind \in Acks /\ s[n].to = g[i]
  <2> SUFFICES ASSUME NEW i \in 1 .. Len(g), Due(g[i])
               PROVE  \E n \in 1 .. Len(s) : s[n].kind \in Acks /\ s[n].to = g[i]
    OBVIOUS
  <2>1. CASE i = Len(h) + 1
    BY <2>1, <1>1, <1>2, <1>3
  <2>2. CASE i \in 1 .. Len(h)
    <3>1. g[i] = h[i] /\ Due(h[i])
      BY <1>1, <2>2
    <3>2. PICK n \in 1 .. Len(r) : r[n].kind \in Acks /\ r[n].to = h[i]
      BY <2>2, <3>1 DEF Answers
    <3> QED
      BY <1>2, <3>1, <3>2
  <2> QED
    BY <2>1, <2>2, <1>1
<1>7. \A m, n \in 1 .. Len(s) : s[m].kind \in Acks /\ s[n].kind \in Acks /\ m < n => s[m].to < s[n].to
  <2> SUFFICES ASSUME NEW m \in 1 .. Len(s), NEW n \in 1 .. Len(s),
                      s[m].kind \in Acks, s[n].kind \in Acks, m < n
               PROVE  s[m].to < s[n].to
    OBVIOUS
  <2>1. m \in 1 .. Len(r)
    BY <1>2
  <2>2. CASE n = Len(r) + 1
    BY <2>1, <2>2, <1>2, <1>3, <1>4
  <2>3. CASE n \in 1 .. Len(r)
    BY <2>1, <2>3, <1>2 DEF Answers
  <2> QED
    BY <2>2, <2>3, <1>2
<1>8. Answers(s, g)
  BY <1>5, <1>6, <1>7 DEF Answers
<1> QED
  BY <1>8 DEF g, s, x
-------------------------------------------------------------------------------
(* The frame at the head of the buffer, and what handling it does. *)

LEMMA SizeType == \A f \in Frames : Size(f) \in Nat /\ Size(f) >= HeaderLen
BY FramesAssumption DEF Size, HeaderLen

\* The header at the head of the buffer is that of the frame after the last
\* one removed, and that frame has been sent.
LEMMA FrameAtHead ==
  ASSUME H2Inv, ~torn, HasHeader, NEW off, Framing(off), Buffered(off)
  PROVE  /\ Number = Len(handled) + 1 /\ Number \in 1 .. Len(sent)
         /\ Frame \in Frames /\ Size(Frame) \in Nat /\ Size(Frame) >= HeaderLen
         /\ off[Number] \in Nat /\ off[Number + 1] = off[Number] + Size(Frame)
<1>1. /\ sent \in Seq(Frames) /\ Len(sent) \in Nat /\ handled \in Seq(Nat) /\ Len(handled) \in Nat
      /\ read_buffer_ \in Seq(Token) /\ Len(read_buffer_) \in Nat /\ Len(read_buffer_) >= 9
      /\ wire \in Seq(Token) /\ Len(wire) \in Nat
  BY DEF H2Inv, H2TypeOK, HasHeader, HeaderLen
<1> DEFINE k == Len(handled) + 1
<1>2. k \in 1 .. Len(sent) + 1 /\ off[k] \in Nat
  <2>1. Len(handled) <= Len(sent)
    BY DEF Buffered
  <2>2. k \in 1 .. Len(sent) + 1
    BY <1>1, <2>1
  <2>3. off \in [1 .. Len(sent) + 1 -> Nat]
    BY DEF Framing
  <2> QED
    BY <2>2, <2>3
<1>3. off[k] + Len(read_buffer_) <= Len(wire) /\ read_buffer_[1] = wire[off[k] + 1]
  BY <1>1 DEF Buffered
<1>4. k \in 1 .. Len(sent)
  BY <1>1, <1>2, <1>3 DEF Framing
<1>5. sent[k] \in Frames /\ Size(sent[k]) \in Nat /\ Size(sent[k]) >= 9
  <2>1. sent[k] \in Frames
    BY <1>1, <1>4, ElementOfSeq
  <2> QED
    BY <2>1, SizeType DEF HeaderLen
<1>6. wire[off[k] + 1] = <<k, 1>> /\ off[k + 1] = off[k] + Size(sent[k])
  <2>1. /\ off[k + 1] = off[k] + Size(sent[k])
        /\ \A j \in 1 .. Size(sent[k]) : wire[off[k] + j] = <<k, j>>
    BY <1>4 DEF Framing
  <2>2. 1 \in 1 .. Size(sent[k])
    BY <1>5
  <2> QED
    BY <2>1, <2>2
<1>7. Number = k
  BY <1>1, <1>3, <1>6 DEF Number
<1> QED
  BY <1>2, <1>4, <1>5, <1>6, <1>7 DEF Frame, HeaderLen

\* The state of a connection that lives on was alive before.
LEMMA TransitionResult ==
  ASSUME NEW c \in ConnType, NEW to \in States
  PROVE  /\ TransitionState(c, to) \in ConnType
         /\ TransitionState(c, to).replies = c.replies /\ TransitionState(c, to).closes = c.closes
         /\ TransitionState(c, to).state \in {c.state, to}
         /\ c.state = "H2_CLOSED" => TransitionState(c, to).state = "H2_CLOSED"
         /\ c.state = "H2_IDLE" /\ to = "H2_OPEN" => TransitionState(c, to).state = "H2_OPEN"
<1>1. c.state = "H2_CLOSED" => ~CanTransition(c.state, to)
  BY DEF CanTransition
<1>2. c.state = "H2_IDLE" /\ to = "H2_OPEN" => CanTransition(c.state, to)
  BY DEF CanTransition
<1>3. CASE CanTransition(c.state, to)
  BY <1>1, <1>3 DEF TransitionState, ConnType
<1>4. CASE ~CanTransition(c.state, to)
  BY <1>2, <1>4 DEF TransitionState
<1> QED
  BY <1>3, <1>4

\* What handling a frame does: it is removed, with its answer if one is due,
\* or it stays and nothing has been sent.
HandleEffect ==
  /\ UNCHANGED <<sent, wire, badPreface, delivered, preface_remaining_, has_callback, torn>>
  /\ Conn' \in ConnType /\ ReportedOnce(Conn)'
  /\ state_' # "H2_IDLE"
  /\ state_' \in {"H2_OPEN", "H2_CLOSING"} => state_ \in {"H2_OPEN", "H2_CLOSING"}
  /\ DOMAIN settings_' = 1 .. 6
  /\ \/ /\ EraseFrame
        /\ \/ ~Due(Number) /\ replies' = replies
           \/ /\ Due(Number)
              /\ LET r == Append(replies, [kind |-> Answer(Number), to |-> Number])
                 IN  replies' = r \/ replies' = Append(r, [kind |-> "GOAWAY", to |-> 0])
     \/ RefuseFrame /\ replies' = replies

LEMMA AnswerEffect ==
  ASSUME H2Inv, state_ # "H2_IDLE", Number \in Nat, Due(Number), AnswerWith(Answer(Number)),
         DOMAIN settings_' = 1 .. 6
  PROVE  HandleEffect
<1>1. Conn \in ConnType /\ ReportedOnce(Conn)
  BY ConnTyped
<1>2. Answer(Number) \in Kinds
  BY DEF Answer, Kinds
<1>3. PICK d \in Send(Conn, Answer(Number), Number) : ConnBecomes(d)
  BY DEF AnswerWith
<1>4. /\ d \in ConnType /\ ReportedOnce(d) /\ d.state \in {Conn.state, "H2_CLOSED"}
      /\ ~CanSend(Conn) => d = Conn
      /\ CanSend(Conn) =>
           LET r == Append(Conn.replies, [kind |-> Answer(Number), to |-> Number])
           IN  d.replies = r \/ d.replies = Append(r, [kind |-> "GOAWAY", to |-> 0])
  BY <1>1, <1>2, <1>3, SendResult
<1>5. Conn' = d
  BY <1>3, <1>4 DEF ConnBecomes, Conn, ConnType
<1>6. Conn.state = state_ /\ Conn.replies = replies /\ d.state = state_' /\ d.replies = replies'
  BY <1>3 DEF Conn, ConnBecomes
<1>7. ReportedOnce(Conn)'
  BY <1>4, <1>5 DEF ReportedOnce
<1>8. /\ UNCHANGED <<sent, wire, badPreface, delivered, preface_remaining_, has_callback, torn>>
      /\ IF CanSend(Conn) THEN EraseFrame ELSE RefuseFrame
  BY DEF AnswerWith, EraseFrame, RefuseFrame, Return
<1>9. CASE CanSend(Conn)
  BY <1>4, <1>5, <1>6, <1>7, <1>8, <1>9 DEF HandleEffect
<1>10. CASE ~CanSend(Conn)
  BY <1>4, <1>5, <1>6, <1>7, <1>8, <1>10 DEF HandleEffect
<1> QED
  BY <1>9, <1>10

LEMMA Handling ==
  ASSUME H2Inv, HandleFrame
  PROVE  HandleEffect
<1>1. ~torn /\ HasFrame /\ HasHeader
  BY DEF HandleFrame, HasFrame
<1>2. PICK off : Framing(off) /\ Buffered(off)
  BY DEF H2Inv, StreamCut
<1>3. Number \in Nat /\ Frame = sent[Number]
  BY <1>1, <1>2, FrameAtHead DEF Frame
<1>4. state_ # "H2_IDLE"
  <2>1. Len(read_buffer_) >= 9
    BY <1>1 DEF HasHeader, HeaderLen
  <2> QED
    BY <1>1, <2>1 DEF H2Inv, PrefacePending
<1>5. Conn \in ConnType /\ ReportedOnce(Conn)
  BY ConnTyped
<1>6. state_ \in States /\ DOMAIN settings_ = 1 .. 6
  BY DEF H2Inv, H2TypeOK
<1>7. ASSUME UNCHANGED <<state_, settings_, replies, closes>>, EraseFrame \/ RefuseFrame,
             EraseFrame => ~Due(Number)
      PROVE  HandleEffect
  <2>1. Conn' = Conn
    BY <1>7 DEF Conn
  <2>2. Conn' \in ConnType /\ ReportedOnce(Conn)'
    BY <1>5, <2>1 DEF ReportedOnce
  <2> QED
    BY <1>4, <1>6, <1>7, <2>2 DEF HandleEffect, EraseFrame, RefuseFrame, Return
<1>8. CASE HandleSettingsFrame
  <2>1. CASE Frame.ack
    BY <1>3, <1>7, <1>8, <2>1 DEF HandleSettingsFrame, Due
  <2>2. CASE ~Frame.ack
    <3>1. Due(Number) /\ Answer(Number) = "SETTINGS_ACK"
      BY <1>3, <1>8, <2>2 DEF HandleSettingsFrame, Due, Answer
    <3>2. AnswerWith("SETTINGS_ACK") /\ DOMAIN settings_' = 1 .. 6
      BY <1>6, <1>8, <2>2 DEF HandleSettingsFrame, Apply
    <3> QED
      BY <1>3, <1>4, <3>1, <3>2, AnswerEffect
  <2> QED
    BY <2>1, <2>2
<1>9. CASE HandlePingFrame
  <2>1. CASE Frame.ack
    BY <1>3, <1>7, <1>9, <2>1 DEF HandlePingFrame, Due
  <2>2. CASE ~Frame.ack
    <3>1. Due(Number) /\ Answer(Number) = "PING_ACK"
      BY <1>3, <1>9, <2>2 DEF HandlePingFrame, Due, Answer
    <3>2. AnswerWith("PING_ACK") /\ DOMAIN settings_' = 1 .. 6
      BY <1>6, <1>9, <2>2 DEF HandlePingFrame
    <3> QED
      BY <1>3, <1>4, <3>1, <3>2, AnswerEffect
  <2> QED
    BY <2>1, <2>2
<1>10. CASE HandleGoawayFrame
  <2> DEFINE d == TransitionState(Conn, "H2_CLOSING")
  <2>1. /\ d \in ConnType /\ d.replies = Conn.replies /\ d.closes = Conn.closes
        /\ d.state \in {Conn.state, "H2_CLOSING"} /\ (Conn.state = "H2_CLOSED" => d.state = "H2_CLOSED")
    BY <1>5, TransitionResult DEF States
  <2>2. ConnBecomes(d) /\ EraseFrame /\ UNCHANGED settings_ /\ Frame.type = "GOAWAY"
    BY <1>10 DEF HandleGoawayFrame
  <2> HIDE DEF d
  <2>3. Conn' = d
    BY <2>1, <2>2 DEF ConnBecomes, Conn, ConnType
  <2>4. Conn.state = state_ /\ Conn.replies = replies /\ d.state = state_' /\ d.replies = replies'
    BY <2>2 DEF Conn, ConnBecomes
  <2>5. ReportedOnce(Conn)'
    <3>1. d.state = "H2_CLOSED" <=> Conn.state = "H2_CLOSED"
      BY <2>1
    <3> QED
      BY <1>5, <2>1, <2>3, <3>1 DEF ReportedOnce
  <2>6. ~Due(Number)
    BY <1>3, <2>2 DEF Due
  <2>7. UNCHANGED <<sent, wire, badPreface, delivered, preface_remaining_, has_callback, torn>>
    BY <2>2 DEF EraseFrame
  <2>8. state_' \in {"H2_OPEN", "H2_CLOSING"} => state_ \in {"H2_OPEN", "H2_CLOSING"}
    BY <1>4, <1>6, <2>1, <2>4 DEF States
  <2> QED
    BY <1>4, <1>6, <2>1, <2>2, <2>3, <2>4, <2>5, <2>6, <2>7, <2>8 DEF HandleEffect
<1>11. CASE HandleOtherFrame
  BY <1>3, <1>7, <1>11 DEF HandleOtherFrame, Due
<1> QED
  BY <1>1, <1>8, <1>9, <1>10, <1>11 DEF HandleFrame
-------------------------------------------------------------------------------
(* ProcessData. *)

\* The next n bytes, which the peer has sent.
Data(n) == SubSeq(Preface \o wire, delivered + 1, delivered + n)
Arrives(n) == delivered + n <= Len(Preface \o wire)

LEMMA FunctionSeq ==
  ASSUME NEW S, NEW n \in Nat, NEW f \in [1 .. n -> S]
  PROVE  f \in Seq(S) /\ Len(f) = n
<1>1. f \in Seq(S)
  BY SeqDef
<1>2. DOMAIN f = 1 .. Len(f) /\ DOMAIN f = 1 .. n /\ Len(f) \in Nat
  BY <1>1, LenProperties
<1> QED
  BY <1>1, <1>2

\* k elements of s, from behind the m-th.
LEMMA Piece ==
  ASSUME NEW S, NEW s \in Seq(S), NEW m \in Nat, NEW k \in Nat, m + k <= Len(s)
  PROVE  /\ SubSeq(s, m + 1, m + k) \in Seq(S) /\ Len(SubSeq(s, m + 1, m + k)) = k
         /\ \A i \in 1 .. k : SubSeq(s, m + 1, m + k)[i] = s[m + i]
<1>1. Len(s) \in Nat
  OBVIOUS
<1>2. \A i \in m + 1 .. m + k : s[i] \in S
  BY <1>1, ElementOfSeq
<1>3. m + 1 \in Int /\ m + k \in Int
  OBVIOUS
<1>4. /\ SubSeq(s, m + 1, m + k) \in Seq(S)
      /\ Len(SubSeq(s, m + 1, m + k)) = IF m + 1 <= m + k THEN (m + k) - (m + 1) + 1 ELSE 0
      /\ \A i \in 1 .. (m + k) - (m + 1) + 1 : SubSeq(s, m + 1, m + k)[i] = s[(m + 1) + i - 1]
  BY <1>2, <1>3, SubSeqProperties
<1>5. (m + k) - (m + 1) + 1 = k /\ \A i \in 1 .. k : (m + 1) + i - 1 = m + i
  OBVIOUS
<1>6. Len(SubSeq(s, m + 1, m + k)) = k
  BY <1>4
<1> QED
  BY <1>4, <1>5, <1>6

LEMMA PrefaceBytes ==
  /\ CLIENT_PREFACE \in Seq(Token) /\ Len(CLIENT_PREFACE) = 24
  /\ \A j \in 1 .. 24 : CLIENT_PREFACE[j] = <<0, j>>
  /\ Preface \in Seq(Token) /\ Len(Preface) = 24
  /\ \A j \in 1 .. 24 : j < 24 \/ ~badPreface => Preface[j] = <<0, j>>
<1>1. CLIENT_PREFACE \in [1 .. 24 -> Token] /\ \A j \in 1 .. 24 : CLIENT_PREFACE[j] = <<0, j>>
  BY DEF CLIENT_PREFACE, CLIENT_PREFACE_LEN, Token
<1>2. <<0, 0>> \in Token
  BY DEF Token
<1>3. Preface \in [1 .. 24 -> Token]
  BY <1>1, <1>2 DEF Preface, CLIENT_PREFACE_LEN
<1>4. \A j \in 1 .. 24 : j < 24 \/ ~badPreface => Preface[j] = CLIENT_PREFACE[j]
  BY <1>1 DEF Preface, CLIENT_PREFACE_LEN
<1>5. /\ CLIENT_PREFACE \in Seq(Token) /\ Len(CLIENT_PREFACE) = 24
      /\ Preface \in Seq(Token) /\ Len(Preface) = 24
  BY <1>1, <1>3, 24 \in Nat, FunctionSeq
<1> QED
  BY <1>1, <1>4, <1>5

LEMMA PrefacePiece ==
  ASSUME NEW m \in Nat, NEW t \in Nat, m + t <= 24
  PROVE  LET expect == SubSeq(CLIENT_PREFACE, m + 1, m + t)
         IN  expect \in Seq(Token) /\ Len(expect) = t /\ \A i \in 1 .. t : expect[i] = <<0, m + i>>
<1>1. m + t <= Len(CLIENT_PREFACE) /\ CLIENT_PREFACE \in Seq(Token)
  BY PrefaceBytes
<1> DEFINE expect == SubSeq(CLIENT_PREFACE, m + 1, m + t)
<1>2. expect \in Seq(Token) /\ Len(expect) = t /\ \A i \in 1 .. t : expect[i] = CLIENT_PREFACE[m + i]
  BY <1>1, Piece
<1>3. \A i \in 1 .. t : m + i \in 1 .. 24
  OBVIOUS
<1> HIDE DEF expect
<1>4. \A i \in 1 .. t : expect[i] = <<0, m + i>>
  BY <1>2, <1>3, PrefaceBytes
<1> QED
  BY <1>2, <1>4 DEF expect

LEMMA DataBytes ==
  ASSUME H2TypeOK, NEW n \in Nat, Arrives(n)
  PROVE  /\ Data(n) \in Seq(Token) /\ Len(Data(n)) = n
         /\ delivered + n <= 24 + Len(wire)
         /\ \A i \in 1 .. n : Data(n)[i] = IF delivered + i <= 24 THEN Preface[delivered + i]
                                           ELSE wire[delivered + i - 24]
<1> DEFINE a == Preface \o wire
<1>1. delivered \in Nat /\ wire \in Seq(Token) /\ Len(wire) \in Nat
  BY DEF H2TypeOK
<1>2. Preface \in Seq(Token) /\ Len(Preface) = 24
  BY PrefaceBytes
<1>3. /\ a \in Seq(Token) /\ Len(a) = Len(Preface) + Len(wire)
      /\ \A p \in 1 .. Len(Preface) + Len(wire) :
           a[p] = IF p <= Len(Preface) THEN Preface[p] ELSE wire[p - Len(Preface)]
  BY <1>1, <1>2, ConcatProperties
<1>4. delivered + n <= Len(a) /\ Data(n) = SubSeq(a, delivered + 1, delivered + n)
  BY DEF Data, Arrives
<1> HIDE DEF a
<1> DEFINE cut == SubSeq(a, delivered + 1, delivered + n)
<1>5. cut \in Seq(Token) /\ Len(cut) = n /\ \A i \in 1 .. n : cut[i] = a[delivered + i]
  <2>1. a \in Seq(Token) /\ delivered \in Nat /\ delivered + n <= Len(a)
    BY <1>1, <1>3, <1>4
  <2> QED
    BY <2>1, Piece
<1> HIDE DEF cut
<1>6. Data(n) = cut
  BY <1>4 DEF cut
<1> QED
  BY <1>1, <1>2, <1>3, <1>4, <1>5, <1>6

\* The comparison of ProcessPreface, while the connection is idle and whole.
LEMMA Comparison ==
  ASSUME H2TypeOK, PrefacePending, ~torn, state_ = "H2_IDLE",
         NEW n \in Nat, Arrives(n),
         NEW t \in 1 .. n, t <= preface_remaining_,
         NEW from, from = 24 - preface_remaining_
  PROVE  /\ SubSeq(Data(n), 1, t) = SubSeq(CLIENT_PREFACE, from + 1, from + t) =>
              delivered = 24 - preface_remaining_
         /\ SubSeq(Data(n), 1, t) # SubSeq(CLIENT_PREFACE, from + 1, from + t) =>
              badPreface /\ delivered + n >= 24
<1>1. /\ Data(n) \in Seq(Token) /\ Len(Data(n)) = n /\ delivered + n <= 24 + Len(wire)
      /\ \A i \in 1 .. n : Data(n)[i] = IF delivered + i <= 24 THEN Preface[delivered + i]
                                        ELSE wire[delivered + i - 24]
  BY DataBytes
<1>2. /\ preface_remaining_ \in 1 .. 24 /\ delivered \in Nat /\ Len(wire) \in Nat
      /\ \/ delivered = 24 - preface_remaining_
         \/ badPreface /\ delivered >= 24
      /\ \A p \in 1 .. Len(wire) : wire[p][1] > 0
  <2>1. preface_remaining_ \in 0 .. 24 /\ delivered \in Nat /\ wire \in Seq(Token)
    BY DEF H2TypeOK, CLIENT_PREFACE_LEN
  <2>2. /\ preface_remaining_ > 0
        /\ \/ delivered = 24 - preface_remaining_
           \/ badPreface /\ delivered >= 24
    BY DEF PrefacePending, CLIENT_PREFACE_LEN
  <2>3. \A p \in 1 .. Len(wire) : wire[p][1] > 0
    BY DEF PrefacePending
  <2>4. Len(wire) \in Nat
    BY <2>1
  <2> QED
    BY <2>1, <2>2, <2>3, <2>4
<1>3. t \in Nat /\ from \in Nat /\ from + t <= 24
  BY <1>2
<1>l. 0 + t <= Len(Data(n))
  BY <1>1, <1>3
<1> DEFINE head == SubSeq(Data(n), 1, t)
           expect == SubSeq(CLIENT_PREFACE, from + 1, from + t)
<1>4. head \in Seq(Token) /\ Len(head) = t /\ \A i \in 1 .. t : head[i] = Data(n)[i]
  <2>1. /\ SubSeq(Data(n), 0 + 1, 0 + t) \in Seq(Token) /\ Len(SubSeq(Data(n), 0 + 1, 0 + t)) = t
        /\ \A i \in 1 .. t : SubSeq(Data(n), 0 + 1, 0 + t)[i] = Data(n)[0 + i]
    BY <1>1, <1>3, <1>l, 0 \in Nat, Piece
  <2>2. 0 + 1 = 1 /\ 0 + t = t /\ \A i \in 1 .. t : 0 + i = i
    BY <1>3
  <2> QED
    BY <2>1, <2>2
<1>5. expect \in Seq(Token) /\ Len(expect) = t /\ \A i \in 1 .. t : expect[i] = <<0, from + i>>
  BY <1>3, PrefacePiece
<1> HIDE DEF head, expect
<1>6. ASSUME head = expect, badPreface, delivered >= 24
      PROVE  FALSE
  <2>1. Data(n)[1] = wire[delivered + 1 - 24] /\ delivered + 1 - 24 \in 1 .. Len(wire)
    BY <1>1, <1>2, <1>6
  <2>2. wire[delivered + 1 - 24][1] > 0
    BY <2>1, <1>2
  <2>3. 1 \in 1 .. t
    BY <1>3
  <2>4. Data(n)[1] = <<0, from + 1>>
    BY <2>3, <1>4, <1>5, <1>6
  <2>5. Data(n)[1][1] = 0
    BY <2>4
  <2> QED
    BY <2>1, <2>2, <2>5
<1>7. ASSUME delivered = 24 - preface_remaining_, ~badPreface \/ delivered + n < 24
      PROVE  head = expect
  <2>1. ASSUME NEW i \in 1 .. t PROVE head[i] = expect[i]
    <3>1. delivered + i \in 1 .. 24 /\ i \in 1 .. n /\ (delivered + i < 24 \/ ~badPreface)
      <4>1. i \in Nat /\ i >= 1 /\ i <= t
        BY <1>3
      <4>2. delivered + i \in 1 .. 24 /\ i \in 1 .. n
        BY <1>2, <1>3, <1>7, <4>1
      <4>3. ~badPreface \/ delivered + i < 24
        BY <1>2, <1>3, <1>7, <4>1
      <4> QED
        BY <4>2, <4>3
    <3>2. head[i] = Preface[delivered + i]
      <4>1. head[i] = Data(n)[i]
        BY <1>4
      <4>2. delivered + i <= 24 /\ i \in 1 .. n
        BY <3>1
      <4>3. Data(n)[i] = Preface[delivered + i]
        BY <4>2, <1>1
      <4> QED
        BY <4>1, <4>3
    <3>3. Preface[delivered + i] = <<0, delivered + i>>
      BY <3>1, PrefaceBytes
    <3> QED
      BY <3>2, <3>3, <1>5, <1>7
  <2> QED
    BY <2>1, <1>4, <1>5, SeqEqual
<1> QED
  BY <1>2, <1>6, <1>7 DEF head, expect

\* What ProcessPreface does, by where the bytes come from.
LEMMA PrefaceResult ==
  ASSUME H2Inv, ~torn, NEW n \in Nat \ {0}, Arrives(n),
         delivered' = delivered + n, UNCHANGED <<wire, badPreface, handled>>, ProcessPreface(Data(n))
  PROVE  /\ state_ = "H2_IDLE" /\ torn' \in BOOLEAN /\ last_ok' \in BOOLEAN /\ processing' \in BOOLEAN
         /\ preface_remaining_' \in 0 .. CLIENT_PREFACE_LEN /\ read_buffer_' \in Seq(Token)
         /\ \/ UNCHANGED <<state_, read_buffer_, preface_remaining_, torn, replies, closes>>
            \/ UNCHANGED <<state_, replies, closes>> /\ preface_remaining_' > 0
            \/ /\ \E d \in Send(TransitionState(Conn, "H2_OPEN"), "SETTINGS", 0) : ConnBecomes(d)
               /\ state_' # "H2_IDLE" /\ processing'
               /\ ~torn' => read_buffer_' = SubSeq(Data(n), 25, n) /\ delivered = 0 /\ n >= 24
         /\ state_' = "H2_IDLE" /\ ~torn' =>
              /\ read_buffer_' = <<>>
              /\ \/ delivered' = CLIENT_PREFACE_LEN - preface_remaining_'
                 \/ badPreface /\ delivered' >= CLIENT_PREFACE_LEN
<1> DEFINE data == Data(n)
           to_compare == IF Len(data) < preface_remaining_ THEN Len(data) ELSE preface_remaining_
           from == 24 - preface_remaining_
           remaining == preface_remaining_ - to_compare
           consumed == 24 - remaining
<1>1. data \in Seq(Token) /\ Len(data) = n
  BY DataBytes DEF H2Inv
<1>2. /\ state_ = "H2_IDLE" /\ preface_remaining_ \in 1 .. 24 /\ delivered \in Nat
      /\ read_buffer_ = <<>>
  BY DEF ProcessPreface, H2Inv, H2TypeOK, PrefacePending, CLIENT_PREFACE_LEN
<1>t. /\ torn \in BOOLEAN /\ last_ok \in BOOLEAN /\ processing \in BOOLEAN
      /\ read_buffer_ \in Seq(Token)
  BY DEF H2Inv, H2TypeOK
<1>3. /\ to_compare \in 1 .. n /\ to_compare <= preface_remaining_
      /\ remaining \in 0 .. 23 /\ remaining = preface_remaining_ - to_compare
      /\ remaining > 0 => to_compare = n
      /\ consumed = 24 - remaining /\ from = 24 - preface_remaining_
  BY <1>1, <1>2
<1>4. IF SubSeq(data, 1, to_compare) # SubSeq(CLIENT_PREFACE, from + 1, from + to_compare)
      THEN /\ last_ok' = FALSE
           /\ UNCHANGED <<state_, preface_remaining_, read_buffer_, processing, torn, replies, closes>>
      ELSE /\ preface_remaining_' = remaining
           /\ IF remaining = 0
              THEN \E c \in Send(TransitionState(Conn, "H2_OPEN"), "SETTINGS", 0) : ConnBecomes(c)
              ELSE ConnBecomes(Conn)
           /\ torn' = (consumed # to_compare)
           /\ read_buffer_' = IF consumed <= Len(data) THEN SubSeq(data, consumed + 1, Len(data)) ELSE <<>>
           /\ processing' = TRUE
           /\ UNCHANGED last_ok
  BY DEF ProcessPreface, CLIENT_PREFACE_LEN
<1> HIDE DEF to_compare, from, remaining, consumed
<1> DEFINE match == SubSeq(data, 1, to_compare) = SubSeq(CLIENT_PREFACE, from + 1, from + to_compare)
<1>5. /\ match => delivered = 24 - preface_remaining_
      /\ ~match => badPreface /\ delivered + n >= 24
  BY <1>2, <1>3, Comparison DEF H2Inv
<1>6. CASE ~match
  <2>1. /\ last_ok' = FALSE
        /\ UNCHANGED <<state_, preface_remaining_, read_buffer_, processing, torn, replies, closes>>
    BY <1>4, <1>6
  <2>2. badPreface /\ delivered' >= CLIENT_PREFACE_LEN
    BY <1>5, <1>6 DEF CLIENT_PREFACE_LEN
  <2>3. UNCHANGED <<state_, read_buffer_, preface_remaining_, torn, replies, closes>>
    BY <2>1
  <2>4. /\ torn' \in BOOLEAN /\ last_ok' \in BOOLEAN /\ processing' \in BOOLEAN
        /\ read_buffer_' \in Seq(Token) /\ read_buffer_' = <<>>
    BY <2>1, <1>2, <1>t
  <2>5. preface_remaining_' \in 0 .. CLIENT_PREFACE_LEN
    BY <2>1, <1>2 DEF CLIENT_PREFACE_LEN
  <2> HIDE DEF match, data
  <2> QED
    BY <2>2, <2>3, <2>4, <2>5, <1>2
<1>7. CASE match
  <2>1. /\ preface_remaining_' = remaining
        /\ IF remaining = 0
           THEN \E c \in Send(TransitionState(Conn, "H2_OPEN"), "SETTINGS", 0) : ConnBecomes(c)
           ELSE ConnBecomes(Conn)
        /\ torn' = (consumed # to_compare)
        /\ read_buffer_' = IF consumed <= n THEN SubSeq(data, consumed + 1, n) ELSE <<>>
        /\ processing' = TRUE
        /\ UNCHANGED last_ok
    BY <1>1, <1>4, <1>7
  <2>2. delivered = 24 - preface_remaining_
    BY <1>5, <1>7
  <2> HIDE DEF match, data
  <2>3. read_buffer_' \in Seq(Token)
    <3>1. CASE consumed <= n
      <4>1. consumed \in Nat /\ n - consumed \in Nat /\ consumed + (n - consumed) = n
        BY <1>3, <3>1
      <4>2. SubSeq(data, consumed + 1, consumed + (n - consumed)) \in Seq(Token)
        BY <4>1, <1>1, Piece
      <4> QED
        BY <4>1, <4>2, <3>1, <2>1
    <3>2. CASE ~(consumed <= n)
      BY <3>2, <2>1, EmptySeq
    <3> QED
      BY <3>1, <3>2
  <2>4. torn' \in BOOLEAN /\ preface_remaining_' \in 0 .. CLIENT_PREFACE_LEN
    BY <2>1, <1>3 DEF CLIENT_PREFACE_LEN
  <2>5. CASE remaining = 0
    <3>1. to_compare = preface_remaining_ /\ consumed = 24
      BY <1>2, <1>3, <2>5
    <3>2. ~torn' => to_compare = 24
      BY <2>1, <3>1
    <3>3. ~torn' => delivered = 0 /\ n >= 24
      BY <1>3, <2>2, <3>1, <3>2
    <3>4. ~torn' => read_buffer_' = SubSeq(data, 25, n)
      <4>1. 24 + 1 = 25
        OBVIOUS
      <4> QED
        BY <2>1, <3>1, <3>3, <4>1
    <3>5. state_' # "H2_IDLE"
      <4>1. Conn \in ConnType /\ ReportedOnce(Conn) /\ Conn.state = "H2_IDLE"
        BY ConnTyped, <1>2 DEF Conn
      <4> DEFINE o == TransitionState(Conn, "H2_OPEN")
      <4>2. o \in ConnType /\ o.state = "H2_OPEN" /\ o.closes = Conn.closes
        BY <4>1, TransitionResult DEF States
      <4>3. ReportedOnce(o)
        BY <4>1, <4>2 DEF ReportedOnce
      <4>5. \E c \in Send(o, "SETTINGS", 0) : ConnBecomes(c)
        BY <2>1, <2>5
      <4> HIDE DEF o
      <4>4. \A c \in Send(o, "SETTINGS", 0) : c.state \in {"H2_OPEN", "H2_CLOSED"}
        BY <4>2, <4>3, SendResult, 0 \in Nat DEF Kinds
      <4> QED
        BY <4>4, <4>5 DEF ConnBecomes
    <3>6. \E d \in Send(TransitionState(Conn, "H2_OPEN"), "SETTINGS", 0) : ConnBecomes(d)
      BY <2>1, <2>5
    <3> QED
      BY <1>2, <1>t, <2>1, <2>3, <2>4, <3>3, <3>4, <3>5, <3>6 DEF data
  <2>6. CASE remaining # 0
    <3>1. to_compare = n /\ remaining = preface_remaining_ - n /\ consumed = 24 - remaining
      BY <1>3, <2>6
    <3>2. delivered' = CLIENT_PREFACE_LEN - preface_remaining_' /\ preface_remaining_' > 0
      BY <1>2, <1>3, <2>1, <2>2, <2>6, <3>1 DEF CLIENT_PREFACE_LEN
    <3>3. ~torn' => read_buffer_' = <<>>
      <4> SUFFICES ASSUME ~torn' PROVE read_buffer_' = <<>>
        OBVIOUS
      <4>1. consumed = n
        BY <2>1, <3>1
      <4>2. read_buffer_' = SubSeq(data, n + 1, n)
        BY <2>1, <4>1
      <4> QED
        BY <4>2, SubSeqEmpty
    <3>4. UNCHANGED <<state_, replies, closes>>
      BY <1>2, <2>1, <2>6 DEF ConnBecomes, Conn
    <3> QED
      BY <1>2, <1>t, <2>1, <2>3, <2>4, <3>2, <3>3, <3>4
  <2> QED
    BY <2>5, <2>6
<1> QED
  BY <1>6, <1>7
-------------------------------------------------------------------------------
(* The steps. *)

\* The part of the invariant that concerns the frames sent, in the next state.
LEMMA AnswersPrimed ==
  ASSUME UNCHANGED sent, Answers(replies', handled')
  PROVE  Answers(replies, handled)'
BY DEF Answers, Due, Answer

LEMMA ConnPrimed ==
  ASSUME Conn' \in ConnType
  PROVE  state_' \in States /\ replies' \in Seq(Reply) /\ closes' \in Nat
<1>1. Conn' = [state |-> state_', replies |-> replies', closes |-> closes']
  BY DEF Conn
<1> QED
  BY <1>1 DEF ConnType

LEMMA FramingKept ==
  ASSUME UNCHANGED <<sent, wire>>, NEW off, Framing(off)
  PROVE  Framing(off)'
BY DEF Framing

\* The frame at the head is removed.
LEMMA Erasing ==
  ASSUME H2Inv, ~torn, HasFrame, state_ # "H2_IDLE", EraseFrame,
         state_' \in {"H2_OPEN", "H2_CLOSING"} => state_ \in {"H2_OPEN", "H2_CLOSING"}
  PROVE  /\ read_buffer_' \in Seq(Token) /\ handled' \in Seq(Nat)
         /\ StreamCut' /\ InOrder'
<1>1. /\ UNCHANGED <<sent, wire, delivered, torn>>
      /\ read_buffer_' = SubSeq(read_buffer_, Size(Frame) + 1, Len(read_buffer_))
      /\ handled' = Append(handled, Number)
  BY DEF EraseFrame
<1>2. PICK off : Framing(off) /\ Buffered(off)
  BY DEF H2Inv, StreamCut
<1>3. HasHeader /\ Len(read_buffer_) >= Size(Frame)
  BY DEF HasFrame
<1>4. /\ Number = Len(handled) + 1 /\ Number \in 1 .. Len(sent)
      /\ Size(Frame) \in Nat
      /\ off[Number] \in Nat /\ off[Number + 1] = off[Number] + Size(Frame)
  BY <1>2, <1>3, FrameAtHead
<1>5. /\ read_buffer_ \in Seq(Token) /\ Len(read_buffer_) \in Nat
      /\ handled \in Seq(Nat) /\ Len(handled) \in Nat
      /\ Len(wire) \in Nat /\ Len(sent) \in Nat /\ delivered \in Nat
  BY DEF H2Inv, H2TypeOK
<1>6. /\ Len(handled') = Number /\ handled' \in Seq(Nat) /\ handled'[Number] = Number
      /\ \A n \in 1 .. Len(handled) : handled'[n] = handled[n]
  BY <1>1, <1>4, <1>5
<1>7. InOrder'
  <2>1. \A n \in 1 .. Len(handled) : handled[n] = n
    BY DEF H2Inv, InOrder
  <2>2. \A n \in 1 .. Len(handled') : n = Number \/ n \in 1 .. Len(handled)
    BY <1>4, <1>5, <1>6
  <2>3. \A n \in 1 .. Len(handled') : handled'[n] = n
    BY <1>6, <2>1, <2>2
  <2> QED
    BY <2>3 DEF InOrder
<1> DEFINE z == Size(Frame)
           rest == Len(read_buffer_) - z
<1>8. z \in Nat /\ rest \in Nat /\ z + rest = Len(read_buffer_)
  <2>1. z \in Nat /\ z <= Len(read_buffer_)
    BY <1>3, <1>4
  <2> HIDE DEF z
  <2> QED
    BY <2>1, <1>5
<1>9. /\ read_buffer_' \in Seq(Token) /\ Len(read_buffer_') = rest
      /\ \A i \in 1 .. rest : read_buffer_'[i] = read_buffer_[z + i]
  <2>1. read_buffer_' = SubSeq(read_buffer_, z + 1, z + rest)
    BY <1>1, <1>8
  <2> HIDE DEF z, rest
  <2> QED
    BY <2>1, <1>5, <1>8, Piece
<1>10. /\ off[Number] + Len(read_buffer_) <= Len(wire)
       /\ \A i \in 1 .. Len(read_buffer_) : read_buffer_[i] = wire[off[Number] + i]
       /\ state_ \in {"H2_OPEN", "H2_CLOSING"} =>
            off[Number] + Len(read_buffer_) = delivered - CLIENT_PREFACE_LEN
  BY <1>2, <1>4, <1>5 DEF Buffered
<1> HIDE DEF rest
<1>11. Buffered(off)'
  <2> DEFINE start == off[Number + 1]
  <2>1. start \in Nat /\ start = off[Number] + z
    BY <1>4, <1>8
  <2>2. start + rest = off[Number] + Len(read_buffer_)
    BY <1>4, <1>8, <1>5, <2>1
  <2>3. ASSUME NEW i \in 1 .. rest
        PROVE  read_buffer_'[i] = wire[start + i]
    <3>1. z + i \in 1 .. Len(read_buffer_) /\ off[Number] + (z + i) = start + i
      <4> DEFINE o == off[Number]
                 L == Len(read_buffer_)
      <4>1. o \in Nat /\ start = o + z /\ z \in Nat /\ rest \in Nat /\ z + rest = L
        BY <1>4, <1>8, <2>1
      <4> HIDE DEF o, L, z, start
      <4>2. z + i \in 1 .. L /\ o + (z + i) = start + i
        BY <4>1
      <4> QED
        BY <4>2 DEF o, L
    <3> QED
      BY <3>1, <1>9, <1>10
  <2> HIDE DEF start, z
  <2>4. start = off[Len(handled') + 1]
    BY <1>6 DEF start
  <2>5. Len(handled') <= Len(sent)
    BY <1>4, <1>6
  <2> QED
    BY <1>1, <1>9, <1>10, <2>2, <2>3, <2>4, <2>5 DEF Buffered
<1>12. Framing(off)'
  BY <1>1, <1>2, FramingKept
<1> QED
  BY <1>6, <1>7, <1>9, <1>11, <1>12 DEF StreamCut

\* A frame is handled, and leaves the buffer, or refused, and stays.
LEMMA HandleStep ==
  ASSUME H2Inv, HandleFrame
  PROVE  H2Inv'
<1>1. HandleEffect
  BY Handling
<1>2. processing /\ ~torn /\ HasFrame /\ HasHeader
  BY DEF HandleFrame, HasFrame
<1>3. /\ UNCHANGED <<sent, wire, badPreface, delivered, preface_remaining_, has_callback, torn>>
      /\ Conn' \in ConnType /\ ReportedOnce(Conn)' /\ state_' # "H2_IDLE"
      /\ state_' \in {"H2_OPEN", "H2_CLOSING"} => state_ \in {"H2_OPEN", "H2_CLOSING"}
      /\ DOMAIN settings_' = 1 .. 6
  BY <1>1 DEF HandleEffect
<1>4. state_' \in States /\ replies' \in Seq(Reply) /\ closes' \in Nat
  BY <1>3, ConnPrimed
<1>5. /\ sent \in Seq(Frames) /\ wire \in Seq(Token) /\ badPreface \in BOOLEAN
      /\ delivered \in Nat /\ preface_remaining_ \in 0 .. CLIENT_PREFACE_LEN
      /\ read_buffer_ \in Seq(Token) /\ handled \in Seq(Nat) /\ Len(handled) \in Nat
      /\ replies \in Seq(Reply)
      /\ has_callback \in BOOLEAN /\ processing \in BOOLEAN /\ last_ok \in BOOLEAN /\ torn \in BOOLEAN
  BY DEF H2Inv, H2TypeOK, Reply
<1>6. PICK off : Framing(off) /\ Buffered(off)
  BY DEF H2Inv, StreamCut
<1>7. Number = Len(handled) + 1 /\ Number \in Nat
  BY <1>2, <1>5, <1>6, FrameAtHead
<1>8. state_ # "H2_IDLE"
  <2>1. Len(read_buffer_) >= 9
    BY <1>2 DEF HasHeader, HeaderLen
  <2> QED
    BY <1>2, <2>1 DEF H2Inv, PrefacePending
<1>9. PrefacePending'
  BY <1>3 DEF H2Inv, PrefacePending
<1>10. CASE RefuseFrame /\ replies' = replies
  <2>1. /\ processing' = FALSE /\ last_ok' = FALSE /\ UNCHANGED <<read_buffer_, handled>>
    BY <1>10 DEF RefuseFrame, Return
  <2>2. H2TypeOK'
    BY <1>3, <1>4, <1>5, <2>1 DEF H2TypeOK, Reply
  <2>3. StreamCut'
    <3>1. Buffered(off)'
      BY <1>3, <1>6, <2>1 DEF Buffered
    <3>2. Framing(off)'
      BY <1>3, <1>6, FramingKept
    <3> QED
      BY <3>1, <3>2 DEF StreamCut
  <2>4. InOrder' /\ NoneWaits'
    BY <2>1 DEF H2Inv, InOrder, NoneWaits
  <2>5. Answers(replies, handled)'
    BY <1>3, <1>10, <2>1, AnswersPrimed DEF H2Inv
  <2> QED
    BY <1>3, <1>9, <2>2, <2>3, <2>4, <2>5 DEF H2Inv
<1>11. ASSUME EraseFrame,
              \/ ~Due(Number) /\ replies' = replies
              \/ /\ Due(Number)
                 /\ LET r == Append(replies, [kind |-> Answer(Number), to |-> Number])
                    IN  replies' = r \/ replies' = Append(r, [kind |-> "GOAWAY", to |-> 0])
       PROVE  H2Inv'
  <2>1. /\ processing' = processing /\ last_ok' = last_ok /\ handled' = Append(handled, Number)
    BY <1>11 DEF EraseFrame
  <2>2. read_buffer_' \in Seq(Token) /\ handled' \in Seq(Nat) /\ StreamCut' /\ InOrder'
    BY <1>2, <1>3, <1>8, <1>11, Erasing
  <2>3. H2TypeOK'
    BY <1>3, <1>4, <1>5, <2>1, <2>2 DEF H2TypeOK, Reply
  <2>4. NoneWaits'
    BY <1>2, <2>1 DEF NoneWaits
  <2>5. Answers(replies', handled')
    <3>1. CASE ~Due(Number) /\ replies' = replies
      BY <1>5, <1>7, <2>1, <3>1, AnswersNone DEF H2Inv
    <3>2. CASE Due(Number)
      <4> DEFINE x == [kind |-> Answer(Number), to |-> Number]
                 y == [kind |-> "GOAWAY", to |-> 0]
      <4>1. x \in Reply /\ y \in Reply /\ y.kind \notin Acks
        BY <1>7 DEF Reply, Kinds, Answer, Acks
      <4>2. \A n \in 1 .. Len(handled) : handled[n] < Number
        BY <1>5, <1>7 DEF H2Inv, InOrder
      <4>3. Answers(Append(replies, x), Append(handled, Number))
        BY <1>5, <1>7, <3>2, <4>2, AnswersNext DEF H2Inv
      <4>4. replies' = Append(replies, x) \/ replies' = Append(Append(replies, x), y)
        BY <1>11, <3>2
      <4> HIDE DEF x, y
      <4>5. Append(replies, x) \in Seq(Reply) /\ Append(handled, Number) \in Seq(Nat)
        BY <1>5, <1>7, <4>1
      <4>6. Answers(Append(Append(replies, x), y), Append(handled, Number))
        BY <4>1, <4>3, <4>5, AnswersOther
      <4> QED
        BY <2>1, <4>3, <4>4, <4>6
    <3> QED
      BY <1>11, <3>1, <3>2
  <2>6. Answers(replies, handled)'
    BY <1>3, <2>5, AnswersPrimed
  <2> QED
    BY <1>3, <1>9, <2>2, <2>3, <2>4, <2>6 DEF H2Inv
<1> QED
  BY <1>1, <1>10, <1>11 DEF HandleEffect

\* A frame more, behind those sent.
LEMMA FramingExtended ==
  ASSUME H2TypeOK, NEW f \in Frames, PeerSends(f), NEW off, Framing(off)
  PROVE  /\ \E new : Framing(new)' /\ \A k \in 1 .. Len(sent) + 1 : new[k] = off[k]
         /\ wire' \in Seq(Token) /\ Len(wire') = Len(wire) + Size(f)
         /\ \A p \in 1 .. Len(wire) : wire'[p] = wire[p]
         /\ \A p \in 1 .. Len(wire') : p \notin 1 .. Len(wire) => wire'[p][1] = Len(sent) + 1
<1>1. /\ sent \in Seq(Frames) /\ Len(sent) \in Nat /\ wire \in Seq(Token) /\ Len(wire) \in Nat
  BY DEF H2TypeOK
<1> DEFINE K == Len(sent) + 1
           z == Size(f)
<1>0. PICK new : new = [k \in 1 .. Len(sent) + 2 |->
                          IF k = Len(sent) + 2 THEN Len(wire) + Size(f) ELSE off[k]]
  OBVIOUS
<1>2. K \in Nat /\ z \in Nat
  BY <1>1, SizeType
<1>3. /\ sent' = Append(sent, f) /\ wire' = wire \o Bytes(K, f)
  BY DEF PeerSends
<1>4. /\ Bytes(K, f) \in Seq(Token) /\ Len(Bytes(K, f)) = z
      /\ \A j \in 1 .. z : Bytes(K, f)[j] = <<K, j>>
  <2>1. Bytes(K, f) \in [1 .. z -> Token] /\ \A j \in 1 .. z : Bytes(K, f)[j] = <<K, j>>
    <3> HIDE DEF K
    <3> QED
      BY <1>2 DEF Bytes, Token
  <2> HIDE DEF K, z
  <2> QED
    BY <1>2, <2>1, FunctionSeq
<1>5. /\ Len(sent') = K /\ sent'[K] = f /\ \A k \in 1 .. Len(sent) : sent'[k] = sent[k]
  BY <1>1, <1>3
<1>6. /\ wire' \in Seq(Token) /\ Len(wire') = Len(wire) + z
      /\ \A p \in 1 .. Len(wire) : wire'[p] = wire[p]
      /\ \A j \in 1 .. z : wire'[Len(wire) + j] = <<K, j>>
  <2> DEFINE b == Bytes(K, f)
  <2>1. b \in Seq(Token) /\ Len(b) = z /\ \A j \in 1 .. z : b[j] = <<K, j>>
    BY <1>4
  <2>2. wire' = wire \o b
    BY <1>3
  <2> HIDE DEF b, K, z
  <2>3. /\ wire' \in Seq(Token) /\ Len(wire') = Len(wire) + Len(b)
        /\ \A p \in 1 .. Len(wire) + Len(b) :
             wire'[p] = IF p <= Len(wire) THEN wire[p] ELSE b[p - Len(wire)]
    BY <1>1, <2>1, <2>2, ConcatProperties
  <2>4. \A p \in 1 .. Len(wire) : wire'[p] = wire[p]
    BY <1>1, <1>2, <2>1, <2>3
  <2>5. ASSUME NEW j \in 1 .. z
        PROVE  wire'[Len(wire) + j] = <<K, j>>
    <3>1. /\ Len(wire) + j \in 1 .. Len(wire) + Len(b) /\ ~(Len(wire) + j <= Len(wire))
          /\ Len(wire) + j - Len(wire) = j
      BY <1>1, <1>2, <2>1
    <3> QED
      BY <2>1, <2>3, <3>1
  <2> QED
    BY <2>1, <2>3, <2>4, <2>5
<1>7. \A p \in 1 .. Len(wire') : p \notin 1 .. Len(wire) => wire'[p][1] = K
  <2> SUFFICES ASSUME NEW p \in 1 .. Len(wire'), p \notin 1 .. Len(wire)
               PROVE  wire'[p][1] = K
    OBVIOUS
  <2>1. p - Len(wire) \in 1 .. z /\ Len(wire) + (p - Len(wire)) = p
    <3> HIDE DEF z
    <3> QED
      BY <1>1, <1>2, <1>6
  <2> QED
    BY <2>1, <1>6
<1>8. /\ off \in [1 .. K -> Nat] /\ off[1] = 0 /\ off[K] = Len(wire)
  BY DEF Framing
<1>9. /\ new \in [1 .. K + 1 -> Nat] /\ new[K + 1] = Len(wire) + z
      /\ \A k \in 1 .. K : new[k] = off[k]
  <2>1. K + 1 = Len(sent) + 2 /\ \A k \in 1 .. K + 1 : k = K + 1 \/ k \in 1 .. K
    BY <1>1
  <2>2. \A k \in 1 .. K : k # K + 1 /\ k \in 1 .. K + 1
    BY <1>2
  <2>3. new = [k \in 1 .. K + 1 |-> IF k = K + 1 THEN Len(wire) + z ELSE off[k]]
    BY <1>0, <2>1
  <2> HIDE DEF K, z
  <2>4. Len(wire) + z \in Nat /\ K + 1 \in 1 .. K + 1
    BY <1>1, <1>2
  <2> QED
    BY <1>8, <2>1, <2>2, <2>3, <2>4
<1>10. ASSUME NEW k \in 1 .. K
       PROVE  /\ new[k + 1] = new[k] + Size(sent'[k])
              /\ new[k + 1] <= Len(wire')
              /\ \A j \in 1 .. Size(sent'[k]) : wire'[new[k] + j] = <<k, j>>
  <2>1. CASE k = K
    <3>1. /\ new[K + 1] = Len(wire) + z /\ new[K] = Len(wire) /\ sent'[K] = f
          /\ Len(wire') = Len(wire) + z /\ \A j \in 1 .. z : wire'[Len(wire) + j] = <<K, j>>
      <4>1. K \in 1 .. K
        BY <1>1
      <4> HIDE DEF K, z
      <4> QED
        BY <4>1, <1>5, <1>6, <1>8, <1>9
    <3>2. Len(wire) + z <= Len(wire')
      BY <1>1, <1>2, <3>1
    <3> QED
      BY <2>1, <3>1, <3>2
  <2>2. CASE k \in 1 .. Len(sent)
    <3>1. /\ off[k + 1] = off[k] + Size(sent[k]) /\ off[k + 1] <= Len(wire)
          /\ \A j \in 1 .. Size(sent[k]) : wire[off[k] + j] = <<k, j>>
      BY <2>2 DEF Framing
    <3>2. k + 1 \in 1 .. K /\ off[k] \in Nat /\ sent'[k] = sent[k] /\ Size(sent[k]) \in Nat
      <4>1. k + 1 \in 1 .. K /\ off[k] \in Nat /\ sent'[k] = sent[k]
        BY <1>1, <1>5, <1>8, <2>2
      <4>2. sent[k] \in Frames
        BY <1>1, <2>2, ElementOfSeq
      <4> QED
        BY <4>1, <4>2, SizeType
    <3>3. new[k + 1] = off[k + 1] /\ new[k] = off[k]
      BY <1>9, <3>2
    <3>4. \A j \in 1 .. Size(sent[k]) : off[k] + j \in 1 .. Len(wire)
      BY <1>1, <3>1, <3>2
    <3> HIDE DEF K, z
    <3>5. new[k + 1] <= Len(wire')
      BY <1>1, <1>2, <1>6, <1>8, <3>1, <3>2, <3>3
    <3> QED
      BY <1>6, <3>1, <3>2, <3>3, <3>4, <3>5
  <2>3. k = K \/ k \in 1 .. Len(sent)
    <3>1. k \in 1 .. K
      OBVIOUS
    <3> QED
      BY <1>1, <3>1
  <2> QED
    BY <2>1, <2>2, <2>3
<1>11. Framing(new)'
  <2>1. new[1] = 0 /\ K + 1 = Len(sent') + 1 /\ new[K + 1] = Len(wire')
    BY <1>1, <1>5, <1>6, <1>8, <1>9
  <2>2. new \in [1 .. Len(sent') + 1 -> Nat] /\ new[Len(sent') + 1] = Len(wire')
    BY <1>9, <2>1
  <2>3. \A k \in 1 .. Len(sent') : /\ new[k + 1] = new[k] + Size(sent'[k])
                                   /\ new[k + 1] <= Len(wire')
                                   /\ \A j \in 1 .. Size(sent'[k]) : wire'[new[k] + j] = <<k, j>>
    BY <1>5, <1>10
  <2> QED
    BY <2>1, <2>2, <2>3 DEF Framing
<1> QED
  BY <1>6, <1>7, <1>9, <1>11

LEMMA PeerStep ==
  ASSUME H2Inv, NEW f \in Frames, PeerSends(f)
  PROVE  H2Inv'
<1>1. /\ sent \in Seq(Frames) /\ Len(sent) \in Nat /\ wire \in Seq(Token) /\ Len(wire) \in Nat
      /\ handled \in Seq(Nat) /\ Len(handled) \in Nat /\ delivered \in Nat
      /\ read_buffer_ \in Seq(Token) /\ Len(read_buffer_) \in Nat
  BY DEF H2Inv, H2TypeOK
<1>2. /\ ~torn /\ sent' = Append(sent, f)
      /\ UNCHANGED <<badPreface, delivered, state_, preface_remaining_, read_buffer_, settings_,
                     has_callback, processing, last_ok, torn, replies, handled, closes>>
  BY DEF PeerSends
<1>3. PICK off : Framing(off) /\ Buffered(off)
  BY DEF H2Inv, StreamCut
<1>4. PICK new : /\ Framing(new)' /\ \A k \in 1 .. Len(sent) + 1 : new[k] = off[k]
                 /\ wire' \in Seq(Token) /\ Len(wire') = Len(wire) + Size(f)
                 /\ \A p \in 1 .. Len(wire) : wire'[p] = wire[p]
                 /\ \A p \in 1 .. Len(wire') : p \notin 1 .. Len(wire) => wire'[p][1] = Len(sent) + 1
  BY <1>3, FramingExtended DEF H2Inv
<1>5. /\ sent' \in Seq(Frames) /\ Len(sent') = Len(sent) + 1 /\ \A k \in 1 .. Len(sent) : sent'[k] = sent[k]
  BY <1>1, <1>2
<1>6. Size(f) \in Nat
  BY SizeType
<1>7. H2TypeOK'
  BY <1>2, <1>4, <1>5 DEF H2Inv, H2TypeOK
<1>8. Len(handled) + 1 \in 1 .. Len(sent) + 1 /\ off[Len(handled) + 1] \in Nat /\ Len(handled) <= Len(sent)
  <2>1. off \in [1 .. Len(sent) + 1 -> Nat]
    BY <1>3 DEF Framing
  <2>2. Len(handled) <= Len(sent)
    BY <1>3 DEF Buffered
  <2>3. Len(handled) + 1 \in 1 .. Len(sent) + 1
    BY <1>1, <2>2
  <2> QED
    BY <2>1, <2>2, <2>3
<1>9. Buffered(new)'
  <2> DEFINE start == off[Len(handled) + 1]
  <2>1. /\ start \in Nat /\ start + Len(read_buffer_) <= Len(wire)
        /\ \A i \in 1 .. Len(read_buffer_) : read_buffer_[i] = wire[start + i]
        /\ state_ \in {"H2_OPEN", "H2_CLOSING"} =>
             start + Len(read_buffer_) = delivered - CLIENT_PREFACE_LEN
    BY <1>2, <1>3, <1>8 DEF Buffered
  <2>2. start = new[Len(handled) + 1]
    BY <1>4, <1>8
  <2> HIDE DEF start
  <2>3. \A i \in 1 .. Len(read_buffer_) : start + i \in 1 .. Len(wire)
    BY <1>1, <2>1
  <2>4. \A i \in 1 .. Len(read_buffer_) : read_buffer_[i] = wire'[start + i]
    BY <1>4, <2>1, <2>3
  <2>5. start + Len(read_buffer_) <= Len(wire')
    BY <1>1, <1>4, <1>6, <2>1
  <2>6. Len(handled) <= Len(sent')
    BY <1>1, <1>5, <1>8
  <2> QED
    BY <1>2, <2>1, <2>2, <2>4, <2>5, <2>6 DEF Buffered
<1>10. StreamCut'
  BY <1>4, <1>9 DEF StreamCut
<1>11. PrefacePending'
  <2>1. delivered <= CLIENT_PREFACE_LEN + Len(wire')
    BY <1>1, <1>4, <1>6 DEF H2Inv, PrefacePending, CLIENT_PREFACE_LEN
  <2>2. \A p \in 1 .. Len(wire) : wire[p][1] > 0
    BY DEF H2Inv, PrefacePending
  <2>3. ASSUME NEW p \in 1 .. Len(wire') PROVE wire'[p][1] > 0
    <3>1. CASE p \in 1 .. Len(wire)
      BY <1>4, <2>2, <3>1
    <3>2. CASE p \notin 1 .. Len(wire)
      <4>1. wire'[p][1] = Len(sent) + 1
        BY <1>4, <3>2
      <4> QED
        BY <1>1, <4>1
    <3> QED
      BY <3>1, <3>2
  <2>4. PrefacePending
    BY DEF H2Inv
  <2> QED
    BY <1>2, <2>1, <2>3, <2>4 DEF PrefacePending
<1>12. InOrder'
  BY <1>2 DEF H2Inv, InOrder
<1>13. NoneWaits'
  <2>1. ASSUME HasFrame' PROVE HasFrame
    <3>1. HasHeader
      BY <1>2, <2>1 DEF HasFrame, HasHeader
    <3>2. Number \in 1 .. Len(sent)
      BY <1>2, <1>3, <3>1, FrameAtHead
    <3>3. Frame' = Frame
      BY <1>2, <1>5, <3>2 DEF Frame, Number
    <3> QED
      BY <1>2, <2>1, <3>1, <3>3 DEF HasFrame
  <2> QED
    BY <1>2, <2>1 DEF H2Inv, NoneWaits
<1>14. Answers(replies, handled)'
  <2>1. \A i \in 1 .. Len(handled) : handled[i] \in 1 .. Len(sent)
    BY <1>1, <1>8 DEF H2Inv, InOrder
  <2>2. \A k \in 1 .. Len(sent) : (Due(k)' <=> Due(k)) /\ Answer(k)' = Answer(k)
    BY <1>5 DEF Due, Answer
  <2>3. \A i \in 1 .. Len(handled) : Due(handled[i])' <=> Due(handled[i])
    BY <1>2, <2>1, <2>2
  <2>4. \A n \in 1 .. Len(replies) : replies[n].kind \in Acks =>
          replies[n].to \in 1 .. Len(sent)
    BY <2>1 DEF H2Inv, Answers
  <2>5. \A n \in 1 .. Len(replies) : replies[n].kind \in Acks =>
          (Due(replies[n].to) => Due(replies[n].to)') /\ Answer(replies[n].to)' = Answer(replies[n].to)
    BY <1>2, <2>2, <2>4
  <2> QED
    BY <1>2, <2>3, <2>5 DEF H2Inv, Answers, Acks
<1>15. ReportedOnce(Conn)'
  BY <1>2 DEF H2Inv, ReportedOnce, Conn
<1> QED
  BY <1>7, <1>10, <1>11, <1>12, <1>13, <1>14, <1>15 DEF H2Inv

\* ProcessData returns, or its owner calls: the frames and the bytes stay.
LEMMA QuietStep ==
  ASSUME H2Inv, UNCHANGED <<sent, wire, badPreface, delivered, preface_remaining_, read_buffer_,
                            settings_, torn, handled>>,
         {has_callback', processing', last_ok'} \subseteq BOOLEAN,
         Conn' \in ConnType, ReportedOnce(Conn)', state_' \in {state_, "H2_CLOSED"},
         \/ UNCHANGED replies
         \/ replies' = Append(replies, [kind |-> "GOAWAY", to |-> 0]),
         NoneWaits'
  PROVE  H2Inv'
<1>1. state_' \in States /\ replies' \in Seq(Reply) /\ closes' \in Nat
  BY ConnPrimed
<1>2. H2TypeOK'
  BY <1>1 DEF H2Inv, H2TypeOK, Reply
<1>3. StreamCut'
  <2>1. PICK off : Framing(off) /\ Buffered(off)
    BY DEF H2Inv, StreamCut
  <2>2. Framing(off)'
    BY <2>1, FramingKept
  <2>3. Buffered(off)'
    BY <2>1 DEF Buffered
  <2> QED
    BY <2>2, <2>3 DEF StreamCut
<1>4. PrefacePending' /\ InOrder'
  BY DEF H2Inv, PrefacePending, InOrder
<1>5. Answers(replies, handled)'
  <2>1. replies \in Seq(Reply) /\ handled \in Seq(Nat) /\ Answers(replies, handled)
    BY DEF H2Inv, H2TypeOK, Reply
  <2> DEFINE y == [kind |-> "GOAWAY", to |-> 0]
  <2>2. y \in Reply /\ y.kind \notin Acks
    BY DEF Reply, Kinds, Acks
  <2>3. replies' = replies \/ replies' = Append(replies, y)
    OBVIOUS
  <2> HIDE DEF y
  <2>4. Answers(Append(replies, y), handled)
    BY <2>1, <2>2, AnswersOther
  <2>5. Answers(replies', handled')
    BY <2>1, <2>3, <2>4
  <2> QED
    BY <2>5, AnswersPrimed
<1> QED
  BY <1>2, <1>3, <1>4, <1>5 DEF H2Inv

LEMMA WaitStep ==
  ASSUME H2Inv, WaitForMore \/ RefuseHeader
  PROVE  H2Inv'
<1>1. /\ UNCHANGED <<sent, wire, badPreface, delivered, preface_remaining_, read_buffer_,
                     settings_, torn, handled, has_callback, state_, replies, closes>>
      /\ processing' = FALSE /\ last_ok' \in BOOLEAN
      /\ last_ok' => ~HasFrame
  BY DEF WaitForMore, RefuseHeader, Return
<1>2. Conn' = Conn /\ Conn' \in ConnType /\ ReportedOnce(Conn)'
  BY <1>1, ConnTyped DEF Conn, ReportedOnce
<1>3. HasFrame' <=> HasFrame
  BY <1>1 DEF HasFrame, HasHeader, Frame, Number
<1>4. NoneWaits'
  BY <1>1, <1>3 DEF NoneWaits
<1>5. {has_callback', processing', last_ok'} \subseteq BOOLEAN
  BY <1>1 DEF H2Inv, H2TypeOK
<1> QED
  BY <1>1, <1>2, <1>4, <1>5, QuietStep

LEMMA CloseStep ==
  ASSUME H2Inv, CloseCalled
  PROVE  H2Inv'
<1>1. /\ UNCHANGED <<sent, wire, badPreface, delivered, preface_remaining_, read_buffer_,
                     settings_, torn, handled, has_callback, processing, last_ok>>
      /\ ConnBecomes(Close(Conn))
  BY DEF CloseCalled
<1>2. Conn \in ConnType /\ ReportedOnce(Conn) /\ Conn.replies = replies
  BY ConnTyped DEF Conn
<1>3. /\ Close(Conn) \in ConnType /\ ReportedOnce(Close(Conn)) /\ Close(Conn).state = "H2_CLOSED"
      /\ \/ Close(Conn).replies = replies
         \/ Close(Conn).replies = Append(replies, [kind |-> "GOAWAY", to |-> 0])
  BY <1>2, CloseResult
<1>4. PICK d : d = Close(Conn)
  OBVIOUS
<1>5. Conn' = d /\ state_' = d.state /\ replies' = d.replies
  BY <1>1, <1>3, <1>4 DEF ConnBecomes, Conn, ConnType
<1>6. ReportedOnce(Conn)'
  BY <1>3, <1>4, <1>5 DEF ReportedOnce
<1>7. NoneWaits'
  BY <1>3, <1>4, <1>5 DEF NoneWaits
<1>8. {has_callback', processing', last_ok'} \subseteq BOOLEAN
  BY <1>1 DEF H2Inv, H2TypeOK
<1> QED
  BY <1>1, <1>3, <1>4, <1>5, <1>6, <1>7, <1>8, QuietStep

LEMMA CallbackStep ==
  ASSUME H2Inv, SetFrameCallback
  PROVE  H2Inv'
<1>1. /\ UNCHANGED <<sent, wire, badPreface, delivered, state_, preface_remaining_, read_buffer_,
                     settings_, processing, last_ok, torn, replies, handled, closes>>
      /\ has_callback' = TRUE
  BY DEF SetFrameCallback
<1>2. Conn' = Conn /\ Conn' \in ConnType /\ ReportedOnce(Conn)'
  BY <1>1, ConnTyped DEF Conn, ReportedOnce
<1>3. NoneWaits'
  BY <1>1 DEF H2Inv, NoneWaits, HasFrame, HasHeader, Frame, Number
<1>4. {has_callback', processing', last_ok'} \subseteq BOOLEAN
  BY <1>1 DEF H2Inv, H2TypeOK
<1> QED
  BY <1>1, <1>2, <1>3, <1>4, QuietStep
-------------------------------------------------------------------------------
(* ProcessData receives the next bytes. *)

\* The parts that no piece of data disturbs.
Untouched ==
  UNCHANGED <<sent, wire, badPreface, settings_, has_callback, handled>>

LEMMA ClosedStep ==
  ASSUME H2Inv, Untouched, NEW n \in Nat \ {0}, Arrives(n), delivered' = delivered + n,
         ProcessDataClosed
  PROVE  H2Inv'
<1>1. /\ state_ = "H2_CLOSED" /\ last_ok' = FALSE
      /\ UNCHANGED <<sent, wire, badPreface, settings_, has_callback, handled, state_,
                     preface_remaining_, read_buffer_, processing, torn, replies, closes>>
  BY DEF ProcessDataClosed, Untouched
<1>2. delivered' \in Nat /\ delivered' <= CLIENT_PREFACE_LEN + Len(wire)
  BY DataBytes DEF H2Inv, H2TypeOK, CLIENT_PREFACE_LEN
<1>3. H2TypeOK'
  BY <1>1, <1>2 DEF H2Inv, H2TypeOK
<1>4. StreamCut'
  <2>1. PICK off : Framing(off) /\ Buffered(off)
    BY DEF H2Inv, StreamCut
  <2>2. Framing(off)'
    BY <1>1, <2>1, FramingKept
  <2>3. Buffered(off)'
    BY <1>1, <2>1 DEF Buffered
  <2> QED
    BY <2>2, <2>3 DEF StreamCut
<1>5. PrefacePending' /\ InOrder' /\ NoneWaits'
  BY <1>1, <1>2 DEF H2Inv, PrefacePending, InOrder, NoneWaits
<1>6. Answers(replies, handled)'
  BY <1>1, AnswersPrimed DEF H2Inv
<1>7. ReportedOnce(Conn)'
  BY <1>1 DEF H2Inv, ReportedOnce, Conn
<1> QED
  BY <1>3, <1>4, <1>5, <1>6, <1>7 DEF H2Inv

LEMMA BufferStep ==
  ASSUME H2Inv, Untouched, ~torn, NEW n \in Nat \ {0}, Arrives(n), delivered' = delivered + n,
         BufferData(Data(n))
  PROVE  H2Inv'
<1>1. /\ state_ \in {"H2_OPEN", "H2_CLOSING"} /\ processing' = TRUE
      /\ read_buffer_' = read_buffer_ \o Data(n)
      /\ UNCHANGED <<sent, wire, badPreface, settings_, has_callback, handled, state_,
                     preface_remaining_, last_ok, torn, replies, closes>>
  BY DEF BufferData, Untouched
<1>2. /\ Data(n) \in Seq(Token) /\ Len(Data(n)) = n /\ delivered + n <= 24 + Len(wire)
      /\ \A i \in 1 .. n : Data(n)[i] = IF delivered + i <= 24 THEN Preface[delivered + i]
                                        ELSE wire[delivered + i - 24]
  BY DataBytes DEF H2Inv
<1>3. /\ delivered \in Nat /\ read_buffer_ \in Seq(Token) /\ Len(read_buffer_) \in Nat
      /\ wire \in Seq(Token) /\ Len(wire) \in Nat /\ handled \in Seq(Nat) /\ Len(handled) \in Nat
  BY DEF H2Inv, H2TypeOK
<1> DEFINE data == Data(n)
<1>4. /\ read_buffer_' \in Seq(Token) /\ Len(read_buffer_') = Len(read_buffer_) + n
      /\ \A p \in 1 .. Len(read_buffer_) + n :
           read_buffer_'[p] = IF p <= Len(read_buffer_) THEN read_buffer_[p] ELSE data[p - Len(read_buffer_)]
  <2>1. data \in Seq(Token) /\ Len(data) = n /\ read_buffer_' = read_buffer_ \o data
    BY <1>1, <1>2
  <2> HIDE DEF data
  <2> QED
    BY <2>1, <1>3, ConcatProperties
<1>5. PICK off : Framing(off) /\ Buffered(off)
  BY DEF H2Inv, StreamCut
<1>6. PICK start : start = off[Len(handled) + 1]
  OBVIOUS
<1>7. start \in Nat
  <2>1. off \in [1 .. Len(sent) + 1 -> Nat]
    BY <1>5 DEF Framing
  <2>2. Len(handled) <= Len(sent)
    BY <1>5 DEF Buffered
  <2>3. Len(handled) + 1 \in 1 .. Len(sent) + 1
    BY <1>3, <2>2 DEF H2Inv, H2TypeOK
  <2> QED
    BY <1>6, <2>1, <2>3
<1>8. /\ \A i \in 1 .. Len(read_buffer_) : read_buffer_[i] = wire[start + i]
      /\ start + Len(read_buffer_) = delivered - 24
  BY <1>1, <1>5, <1>6 DEF Buffered, CLIENT_PREFACE_LEN
<1>s. /\ start \in Nat /\ delivered \in Nat /\ Len(read_buffer_) \in Nat /\ Len(wire) \in Nat
      /\ start + Len(read_buffer_) = delivered - 24
      /\ Len(read_buffer_') = Len(read_buffer_) + n /\ delivered + n <= 24 + Len(wire)
  BY <1>2, <1>3, <1>4, <1>7, <1>8
<1>9. ASSUME NEW i \in 1 .. Len(read_buffer_')
      PROVE  read_buffer_'[i] = wire[start + i]
  <2>1. CASE i <= Len(read_buffer_)
    BY <2>1, <1>3, <1>4, <1>8
  <2>2. CASE ~(i <= Len(read_buffer_))
    <3>1. i - Len(read_buffer_) \in 1 .. n /\ i \in 1 .. Len(read_buffer_) + n
      BY <2>2, <1>3, <1>4
    <3>2. read_buffer_'[i] = data[i - Len(read_buffer_)]
      BY <1>4, <2>2, <3>1
    <3>3. /\ delivered + (i - Len(read_buffer_)) - 24 = start + i
          /\ ~(delivered + (i - Len(read_buffer_)) <= 24)
      <4> DEFINE k == i - Len(read_buffer_)
      <4>1. k \in 1 .. n /\ i = k + Len(read_buffer_)
        BY <3>1, <1>s
      <4> HIDE DEF k
      <4>2. delivered + k - 24 = start + i /\ ~(delivered + k <= 24)
        BY <4>1, <1>s
      <4> QED
        BY <4>2 DEF k
    <3> QED
      BY <1>2, <3>1, <3>2, <3>3
  <2> QED
    BY <2>1, <2>2
<1>10. start + Len(read_buffer_') = delivered' - 24 /\ start + Len(read_buffer_') <= Len(wire)
  BY <1>s
<1>11. Buffered(off)'
  BY <1>1, <1>5, <1>6, <1>9, <1>10 DEF Buffered, CLIENT_PREFACE_LEN
<1>12. StreamCut'
  <2>1. Framing(off)'
    BY <1>1, <1>5, FramingKept
  <2> QED
    BY <1>11, <2>1 DEF StreamCut
<1>13. delivered' \in Nat /\ delivered' <= CLIENT_PREFACE_LEN + Len(wire)
  BY <1>2, <1>3 DEF CLIENT_PREFACE_LEN
<1>14. H2TypeOK'
  BY <1>1, <1>4, <1>13 DEF H2Inv, H2TypeOK
<1>15. PrefacePending' /\ InOrder' /\ NoneWaits'
  BY <1>1, <1>13 DEF H2Inv, PrefacePending, InOrder, NoneWaits
<1>16. Answers(replies, handled)'
  BY <1>1, AnswersPrimed DEF H2Inv
<1>17. ReportedOnce(Conn)'
  BY <1>1 DEF H2Inv, ReportedOnce, Conn
<1> QED
  BY <1>12, <1>14, <1>15, <1>16, <1>17 DEF H2Inv

LEMMA PrefaceStep ==
  ASSUME H2Inv, Untouched, ~torn, NEW n \in Nat \ {0}, Arrives(n), delivered' = delivered + n,
         ProcessPreface(Data(n))
  PROVE  H2Inv'
<1>1. UNCHANGED <<sent, wire, badPreface, settings_, has_callback, handled>>
  BY DEF Untouched
<1>2. /\ state_ = "H2_IDLE" /\ torn' \in BOOLEAN /\ last_ok' \in BOOLEAN /\ processing' \in BOOLEAN
      /\ preface_remaining_' \in 0 .. CLIENT_PREFACE_LEN /\ read_buffer_' \in Seq(Token)
      /\ \/ UNCHANGED <<state_, read_buffer_, preface_remaining_, torn, replies, closes>>
         \/ UNCHANGED <<state_, replies, closes>> /\ preface_remaining_' > 0
         \/ /\ \E d \in Send(TransitionState(Conn, "H2_OPEN"), "SETTINGS", 0) : ConnBecomes(d)
            /\ state_' # "H2_IDLE" /\ processing'
            /\ ~torn' => read_buffer_' = SubSeq(Data(n), 25, n) /\ delivered = 0 /\ n >= 24
      /\ state_' = "H2_IDLE" /\ ~torn' =>
           /\ read_buffer_' = <<>>
           /\ \/ delivered' = CLIENT_PREFACE_LEN - preface_remaining_'
              \/ badPreface /\ delivered' >= CLIENT_PREFACE_LEN
  BY <1>1, PrefaceResult
<1>3. delivered \in Nat /\ handled = <<>> /\ Len(wire) \in Nat /\ wire \in Seq(Token) /\ Len(handled) = 0
  BY <1>2 DEF H2Inv, H2TypeOK, PrefacePending
<1>4. /\ Data(n) \in Seq(Token) /\ Len(Data(n)) = n /\ delivered + n <= 24 + Len(wire)
      /\ \A i \in 1 .. n : Data(n)[i] = IF delivered + i <= 24 THEN Preface[delivered + i]
                                        ELSE wire[delivered + i - 24]
  BY DataBytes DEF H2Inv
<1>5. delivered' \in Nat /\ delivered' <= CLIENT_PREFACE_LEN + Len(wire)
  BY <1>3, <1>4 DEF CLIENT_PREFACE_LEN
<1> DEFINE opened == /\ \E d \in Send(TransitionState(Conn, "H2_OPEN"), "SETTINGS", 0) : ConnBecomes(d)
                     /\ state_' # "H2_IDLE" /\ processing'
                     /\ ~torn' => read_buffer_' = SubSeq(Data(n), 25, n) /\ delivered = 0 /\ n >= 24
<1>6. UNCHANGED <<state_, replies, closes>> \/ opened
  BY <1>2
\* The connection and the frames sent.
<1>7. Conn \in ConnType /\ ReportedOnce(Conn) /\ Conn.replies = replies /\ Answers(replies, handled)
      /\ replies \in Seq(Reply) /\ handled \in Seq(Nat)
  BY ConnTyped DEF Conn, H2Inv, H2TypeOK, Reply
<1>8. Conn' \in ConnType /\ ReportedOnce(Conn)' /\ Answers(replies', handled')
  <2>1. CASE UNCHANGED <<state_, replies, closes>>
    BY <1>1, <1>7, <2>1 DEF Conn, ReportedOnce
  <2>2. CASE opened
    <3> DEFINE o == TransitionState(Conn, "H2_OPEN")
               x == [kind |-> "SETTINGS", to |-> 0]
               y == [kind |-> "GOAWAY", to |-> 0]
    <3>1. o \in ConnType /\ o.state = "H2_OPEN" /\ o.closes = Conn.closes /\ o.replies = replies
      <4>1. Conn.state = "H2_IDLE"
        BY <1>2 DEF Conn
      <4> QED
        BY <4>1, <1>7, TransitionResult DEF States
    <3>2. ReportedOnce(o)
      BY <1>2, <1>7, <3>1 DEF ReportedOnce, Conn
    <3>3. PICK d \in Send(o, "SETTINGS", 0) : ConnBecomes(d)
      BY <2>2
    <3> HIDE DEF o
    <3>4. /\ d \in ConnType /\ ReportedOnce(d)
          /\ \/ d = o
             \/ d.replies = Append(o.replies, x)
             \/ d.replies = Append(Append(o.replies, x), y)
      <4>1. "SETTINGS" \in Kinds /\ 0 \in Nat
        BY DEF Kinds
      <4>2. o \in ConnType
        BY <3>1
      <4> QED
        BY <3>2, <4>1, <4>2, SendResult
    <3>5. Conn' = d /\ replies' = d.replies
      BY <3>3, <3>4 DEF ConnBecomes, Conn, ConnType
    <3>6. ReportedOnce(Conn)'
      BY <3>4, <3>5 DEF ReportedOnce
    <3>7. x \in Reply /\ x.kind \notin Acks /\ y \in Reply /\ y.kind \notin Acks
      BY DEF Reply, Kinds, Acks
    <3>8. replies' = replies \/ replies' = Append(replies, x) \/ replies' = Append(Append(replies, x), y)
      BY <3>1, <3>4, <3>5
    <3> HIDE DEF x, y
    <3>9. Append(replies, x) \in Seq(Reply) /\ Answers(Append(replies, x), handled)
      BY <1>7, <3>7, AnswersOther
    <3>10. Answers(Append(Append(replies, x), y), handled)
      BY <1>7, <3>7, <3>9, AnswersOther
    <3> QED
      BY <1>1, <1>7, <3>4, <3>5, <3>6, <3>8, <3>9, <3>10
  <2> QED
    BY <1>6, <2>1, <2>2
<1>9. Answers(replies, handled)'
  BY <1>1, <1>8, AnswersPrimed
<1>10. state_' \in States /\ replies' \in Seq(Reply) /\ closes' \in Nat
  BY <1>8, ConnPrimed
<1>11. H2TypeOK'
  BY <1>1, <1>2, <1>5, <1>10 DEF H2Inv, H2TypeOK, Reply
<1>12. PrefacePending'
  <2>1. state_' = "H2_IDLE" => preface_remaining_' > 0
    BY <1>2 DEF H2Inv, PrefacePending
  <2> QED
    BY <1>1, <1>2, <1>3, <1>5, <2>1 DEF H2Inv, PrefacePending
<1>13. InOrder' /\ NoneWaits'
  BY <1>1, <1>2, <1>6 DEF H2Inv, InOrder, NoneWaits
\* The buffer holds what came behind the preface.
<1>14. PICK off : Framing(off) /\ Buffered(off)
  BY DEF H2Inv, StreamCut
<1>15. Len(handled') <= Len(sent) /\ off[Len(handled') + 1] = 0
  <2>1. Len(sent) \in Nat /\ off[1] = 0
    BY <1>14 DEF H2Inv, H2TypeOK, Framing
  <2> QED
    BY <1>1, <1>3, <2>1
<1>16. ASSUME ~torn'
       PROVE  /\ 0 + Len(read_buffer_') <= Len(wire)
              /\ \A i \in 1 .. Len(read_buffer_') : read_buffer_'[i] = wire[0 + i]
              /\ state_' \in {"H2_OPEN", "H2_CLOSING"} => 0 + Len(read_buffer_') = delivered' - CLIENT_PREFACE_LEN
  <2>1. CASE state_' = "H2_IDLE"
    <3>1. read_buffer_' = <<>> /\ Len(read_buffer_') = 0
      BY <1>2, <1>16, <2>1
    <3> QED
      BY <2>1, <1>3, <3>1
  <2>2. CASE state_' # "H2_IDLE"
    <3>1. read_buffer_' = SubSeq(Data(n), 25, n) /\ delivered = 0 /\ n >= 24
      BY <1>2, <1>6, <1>16, <2>2
    <3> DEFINE rest == n - 24
    <3>2. rest \in Nat /\ 24 + rest = n
      BY <3>1
    <3>3. /\ Len(read_buffer_') = rest /\ \A i \in 1 .. rest : read_buffer_'[i] = Data(n)[24 + i]
      <4>1. read_buffer_' = SubSeq(Data(n), 24 + 1, 24 + rest)
        BY <3>1, <3>2
      <4>2. 24 + rest <= Len(Data(n))
        BY <1>4, <3>2
      <4> HIDE DEF rest
      <4> QED
        BY <1>4, <3>2, <4>1, <4>2, 24 \in Nat, Piece
    <3>4. ASSUME NEW i \in 1 .. rest
          PROVE  read_buffer_'[i] = wire[0 + i]
      <4>1. 24 + i \in 1 .. n /\ ~(0 + (24 + i) <= 24) /\ 0 + (24 + i) - 24 = 0 + i
        BY <3>2
      <4>2. Data(n)[24 + i] = wire[0 + i]
        BY <1>4, <3>1, <4>1
      <4> QED
        BY <3>3, <4>2
    <3>5. 0 + rest = delivered' - CLIENT_PREFACE_LEN /\ 0 + rest <= Len(wire)
      BY <1>3, <1>4, <3>1, <3>2 DEF CLIENT_PREFACE_LEN
    <3> HIDE DEF rest
    <3> QED
      BY <3>3, <3>4, <3>5
  <2> QED
    BY <2>1, <2>2
<1>17. Buffered(off)'
  BY <1>1, <1>15, <1>16 DEF Buffered
<1>18. StreamCut'
  <2>1. Framing(off)'
    BY <1>1, <1>14, FramingKept
  <2> QED
    BY <1>17, <2>1 DEF StreamCut
<1> QED
  BY <1>8, <1>9, <1>11, <1>12, <1>13, <1>18 DEF H2Inv

LEMMA DataStep ==
  ASSUME H2Inv, NEW n \in 1 .. CLIENT_PREFACE_LEN + Len(wire), ProcessData(n)
  PROVE  H2Inv'
<1>1. n \in Nat \ {0}
  BY DEF H2Inv, H2TypeOK, CLIENT_PREFACE_LEN
<1>2. /\ ~torn /\ Arrives(n) /\ delivered' = delivered + n /\ Untouched
      /\ ProcessDataClosed \/ ProcessPreface(Data(n)) \/ BufferData(Data(n))
  BY DEF ProcessData, Arrives, Untouched, Data
<1> QED
  BY <1>1, <1>2, ClosedStep, PrefaceStep, BufferStep

LEMMA H2Initial ==
  ASSUME H2Init
  PROVE  H2Inv
<1>1. /\ sent = <<>> /\ wire = <<>> /\ read_buffer_ = <<>> /\ handled = <<>> /\ replies = <<>>
      /\ Len(sent) = 0 /\ Len(wire) = 0 /\ Len(read_buffer_) = 0 /\ Len(handled) = 0 /\ Len(replies) = 0
      /\ state_ = "H2_IDLE" /\ closes = 0 /\ delivered = 0 /\ preface_remaining_ = 24
      /\ processing = FALSE /\ last_ok = TRUE /\ torn = FALSE
      /\ has_callback \in BOOLEAN /\ badPreface \in BOOLEAN /\ settings_ = DefaultSettings
  BY DEF H2Init, CLIENT_PREFACE_LEN
<1>2. H2TypeOK
  <2>1. DOMAIN settings_ = 1 .. 6
    BY <1>1 DEF DefaultSettings
  <2>2. /\ sent \in Seq(Frames) /\ wire \in Seq(Token) /\ read_buffer_ \in Seq(Token)
        /\ replies \in Seq([kind : Kinds, to : Nat]) /\ handled \in Seq(Nat)
    BY <1>1, EmptySeq
  <2>3. /\ preface_remaining_ \in 0 .. CLIENT_PREFACE_LEN /\ state_ \in States
        /\ delivered \in Nat /\ closes \in Nat
    BY <1>1 DEF States, CLIENT_PREFACE_LEN
  <2>4. badPreface \in BOOLEAN /\ {has_callback, processing, last_ok, torn} \subseteq BOOLEAN
    BY <1>1
  <2> QED
    BY <2>1, <2>2, <2>3, <2>4 DEF H2TypeOK
<1>3. StreamCut
  <2>1. PICK off : off = [k \in 1 .. 1 |-> 0]
    OBVIOUS
  <2>2. Framing(off)
    BY <1>1, <2>1 DEF Framing
  <2>3. Buffered(off)
    BY <1>1, <2>1 DEF Buffered
  <2> QED
    BY <2>2, <2>3 DEF StreamCut
<1>4. PrefacePending /\ InOrder /\ NoneWaits
  BY <1>1 DEF PrefacePending, InOrder, NoneWaits, CLIENT_PREFACE_LEN
<1>5. Answers(replies, handled) /\ ReportedOnce(Conn)
  BY <1>1 DEF Answers, ReportedOnce, Conn
<1> QED
  BY <1>2, <1>3, <1>4, <1>5 DEF H2Inv

LEMMA H2InvKept ==
  ASSUME H2Inv, [H2Next]_h2Vars
  PROVE  H2Inv'
<1>1. ASSUME NEW f \in Frames, PeerSends(f) PROVE H2Inv'
  BY <1>1, PeerStep
<1>2. ASSUME NEW n \in 1 .. CLIENT_PREFACE_LEN + Len(wire), ProcessData(n) PROVE H2Inv'
  BY <1>2, DataStep
<1>3. CASE WaitForMore \/ RefuseHeader
  BY <1>3, WaitStep
<1>4. CASE HandleFrame
  BY <1>4, HandleStep
<1>5. CASE CloseCalled
  BY <1>5, CloseStep
<1>6. CASE SetFrameCallback
  BY <1>6, CallbackStep
<1>7. CASE UNCHANGED h2Vars
  <2>1. /\ UNCHANGED <<sent, wire, badPreface, delivered, preface_remaining_, read_buffer_,
                       settings_, torn, handled, has_callback, processing, last_ok, replies,
                       state_, closes>>
    BY <1>7 DEF h2Vars
  <2>2. Conn' = Conn /\ Conn' \in ConnType /\ ReportedOnce(Conn)'
    BY <2>1, ConnTyped DEF Conn, ReportedOnce
  <2>3. NoneWaits'
    BY <2>1 DEF H2Inv, NoneWaits, HasFrame, HasHeader, Frame, Number
  <2>4. {has_callback', processing', last_ok'} \subseteq BOOLEAN
    BY <2>1 DEF H2Inv, H2TypeOK
  <2> QED
    BY <2>1, <2>2, <2>3, <2>4, QuietStep
<1> QED
  BY <1>1, <1>2, <1>3, <1>4, <1>5, <1>6, <1>7 DEF H2Next

LEMMA H2Invariant == H2Spec => []H2Inv
<1>1. H2Init => H2Inv
  BY H2Initial
<1>2. H2Inv /\ [H2Next]_h2Vars => H2Inv'
  BY H2InvKept
<1> QED
  BY <1>1, <1>2, PTL DEF H2Spec

\* What the invariant says of the frames, as FramesReassembled states it.
LEMMA Reassembled ==
  ASSUME H2Inv
  PROVE  FramesReassembled
<1>1. /\ H2TypeOK /\ handled \in Seq(Nat) /\ Len(handled) \in Nat /\ Len(sent) \in Nat
      /\ Len(wire) \in Nat /\ wire \in Seq(Token) /\ sent \in Seq(Frames)
      /\ read_buffer_ \in Seq(Token) /\ Len(read_buffer_) \in Nat /\ delivered \in Nat
  BY DEF H2Inv, H2TypeOK
<1>2. \A n \in DOMAIN handled : handled[n] = n
  BY <1>1 DEF H2Inv, InOrder
<1>3. ASSUME ~torn, state_ \in {"H2_OPEN", "H2_CLOSING"}
      PROVE  \E start \in 0 .. Len(wire) :
               /\ start = 0 <=> handled = <<>>
               /\ start > 0 => wire[start] = <<Len(handled), Size(sent[Len(handled)])>>
               /\ read_buffer_ = SubSeq(wire, start + 1, delivered - CLIENT_PREFACE_LEN)
  <2>1. PICK off : Framing(off) /\ Buffered(off)
    BY DEF H2Inv, StreamCut
  <2>2. PICK start : start = off[Len(handled) + 1]
    OBVIOUS
  <2>3. Len(handled) <= Len(sent) /\ off \in [1 .. Len(sent) + 1 -> Nat] /\ off[1] = 0
    BY <2>1 DEF Framing, Buffered
  <2>4. Len(handled) + 1 \in 1 .. Len(sent) + 1
    BY <1>1, <2>3
  <2>5. start \in Nat
    BY <2>2, <2>3, <2>4
  <2>6. /\ start + Len(read_buffer_) <= Len(wire)
        /\ \A i \in 1 .. Len(read_buffer_) : read_buffer_[i] = wire[start + i]
        /\ start + Len(read_buffer_) = delivered - CLIENT_PREFACE_LEN
    BY <1>3, <2>1, <2>2 DEF Buffered
  <2>7. start \in 0 .. Len(wire)
    BY <1>1, <2>5, <2>6
  <2>8. read_buffer_ = SubSeq(wire, start + 1, delivered - CLIENT_PREFACE_LEN)
    <3> DEFINE cut == SubSeq(wire, start + 1, start + Len(read_buffer_))
    <3>1. cut \in Seq(Token) /\ Len(cut) = Len(read_buffer_)
          /\ \A i \in 1 .. Len(read_buffer_) : cut[i] = wire[start + i]
      BY <1>1, <2>5, <2>6, Piece
    <3>2. cut = SubSeq(wire, start + 1, delivered - CLIENT_PREFACE_LEN)
      BY <2>6
    <3> HIDE DEF cut
    <3>3. read_buffer_ = cut
      BY <1>1, <2>6, <3>1, SeqEqual
    <3> QED
      BY <3>2, <3>3
  <2>9. handled = <<>> => start = 0
    BY <2>2, <2>3
  <2>10. ASSUME handled # <<>>
         PROVE  start > 0 /\ wire[start] = <<Len(handled), Size(sent[Len(handled)])>>
    <3> DEFINE k == Len(handled)
    <3>1. k \in 1 .. Len(sent)
      BY <1>1, <2>3, <2>10, EmptySeq
    <3>2. sent[k] \in Frames /\ Size(sent[k]) \in Nat /\ Size(sent[k]) >= 9
      <4>1. sent[k] \in Frames
        BY <1>1, <3>1, ElementOfSeq
      <4> QED
        BY <4>1, SizeType DEF HeaderLen
    <3>3. /\ off[k + 1] = off[k] + Size(sent[k]) /\ off[k] \in Nat
          /\ \A j \in 1 .. Size(sent[k]) : wire[off[k] + j] = <<k, j>>
      <4>1. k \in 1 .. Len(sent) + 1
        BY <1>1, <3>1
      <4> HIDE DEF k
      <4>2. \A m \in 1 .. Len(sent) :
              /\ off[m + 1] = off[m] + Size(sent[m])
              /\ \A j \in 1 .. Size(sent[m]) : wire[off[m] + j] = <<m, j>>
        BY <2>1 DEF Framing
      <4> QED
        BY <2>3, <3>1, <4>1, <4>2
    <3>4. Size(sent[k]) \in 1 .. Size(sent[k]) /\ start = off[k] + Size(sent[k])
      BY <2>2, <3>2, <3>3
    <3> HIDE DEF k
    <3>5. wire[start] = <<k, Size(sent[k])>> /\ start > 0
      BY <3>2, <3>3, <3>4
    <3> QED
      BY <3>5 DEF k
  <2>11. start = 0 <=> handled = <<>>
    BY <2>5, <2>9, <2>10
  <2>12. start > 0 => wire[start] = <<Len(handled), Size(sent[Len(handled)])>>
    BY <2>9, <2>10
  <2> QED
    BY <2>7, <2>8, <2>11, <2>12
<1>4. ~torn /\ state_ \in {"H2_OPEN", "H2_CLOSING"} /\ ~processing /\ last_ok => ~HasFrame
  BY DEF H2Inv, NoneWaits
<1> QED
  BY <1>1, <1>2, <1>3, <1>4 DEF FramesReassembled

\* However the bytes of the peer are cut, every frame is removed from the
\* buffer once and in order, the buffer goes on where the last one ended, and a
\* call of ProcessData that succeeds leaves no complete frame waiting.
THEOREM H2FramesReassembled == H2Spec => []FramesReassembled
<1>1. H2Inv => FramesReassembled
  BY Reassembled
<1> QED
  BY <1>1, H2Invariant, PTL

\* Every SETTINGS and PING that is due an answer is answered once, in the order
\* of the frames, and the owner hears of one close.
THEOREM H2AnsweredOnce == H2Spec => []AnsweredOnce
<1>1. H2Inv => AnsweredOnce
  BY AnsweredIs DEF H2Inv
<1> QED
  BY <1>1, H2Invariant, PTL
-------------------------------------------------------------------------------
(* H2Stream *)

StreamInv == H2StreamTypeOK /\ StreamEndsOnce

\* CanTransition leads to "half closed" only from states in which no side has
\* ended, and nowhere from a closed stream.
LEMMA Transitions ==
  ASSUME NEW from \in StreamStates, NEW to \in StreamStates,
         StreamCanTransition(from, to)
  PROVE  /\ from # "CLOSED"
         /\ to = "OPEN" => from = "IDLE"
         /\ to = "HALF_CLOSED_LOCAL" => from = "OPEN"
         /\ to = "HALF_CLOSED_REMOTE" => from \in {"OPEN", "RESERVED_LOCAL", "RESERVED_REMOTE"}
<1>1. CASE from = "IDLE"
  BY <1>1 DEF StreamCanTransition
<1>2. CASE from = "OPEN"
  BY <1>2 DEF StreamCanTransition
<1>3. CASE from \in {"HALF_CLOSED_LOCAL", "HALF_CLOSED_REMOTE"}
  BY <1>3 DEF StreamCanTransition
<1>4. CASE from \in {"RESERVED_LOCAL", "RESERVED_REMOTE"}
  BY <1>4 DEF StreamCanTransition
<1>5. CASE from = "CLOSED"
  BY <1>5 DEF StreamCanTransition
<1> QED
  BY <1>1, <1>2, <1>3, <1>4, <1>5 DEF StreamStates

\* In a state that is neither half closed nor closed nothing has ended.
LEMMA NothingEnded ==
  ASSUME H2StreamTypeOK, StreamEndsOnce,
         stream_state \in {"IDLE", "OPEN", "RESERVED_LOCAL", "RESERVED_REMOTE"}
  PROVE  remote_ends = 0 /\ local_ends = 0 /\ stream_closes = 0
BY DEF H2StreamTypeOK, StreamEndsOnce

\* Every call keeps the types and the ends of a stream.
LEMMA StreamStep == StreamInv /\ [H2StreamNext]_streamVars => StreamInv'
<1> SUFFICES ASSUME StreamInv, [H2StreamNext]_streamVars
             PROVE  StreamInv'
  OBVIOUS
<1> USE CallsAssumption DEF StreamInv, H2StreamTypeOK
<1>1. ASSUME NEW e \in BOOLEAN, HandleHeaders(e)
      PROVE  StreamInv'
  <2> DEFINE to == IF e THEN "HALF_CLOSED_REMOTE" ELSE "OPEN"
  <2>1. to \in StreamStates
    BY DEF StreamStates
  <2>2. /\ StreamCanTransition(stream_state, to)
        /\ Enter(to)
        /\ request_pieces < MaxCalls
        /\ request_pieces' = request_pieces + 1
        /\ remote_ends' = Count(remote_ends, e)
        /\ UNCHANGED <<response_pieces, local_ends>>
    BY <1>1 DEF HandleHeaders
  <2>3. /\ stream_state # "CLOSED"
        /\ to = "OPEN" => stream_state = "IDLE"
        /\ to = "HALF_CLOSED_REMOTE" =>
             stream_state \in {"OPEN", "RESERVED_LOCAL", "RESERVED_REMOTE"}
    BY <2>1, <2>2, Transitions
  <2>4. request_pieces' \in 0 .. MaxCalls
    BY <2>2
  <2>5. remote_ends = 0 /\ local_ends = 0 /\ stream_closes = 0
    BY <2>3, NothingEnded
  <2>6. remote_ends' = IF e THEN 1 ELSE 0
    BY <2>2, <2>5 DEF Count
  <2> QED
    BY <2>2, <2>4, <2>5, <2>6 DEF Enter, StreamEndsOnce, StreamStates
<1>2. ASSUME NEW e \in BOOLEAN, HandleData(e)
      PROVE  StreamInv'
  <2>1. /\ request_pieces < MaxCalls
        /\ request_pieces' = request_pieces + 1
        /\ remote_ends' = Count(remote_ends, e)
        /\ UNCHANGED <<response_pieces, local_ends>>
    BY <1>2 DEF HandleData
  <2>2. request_pieces' \in 0 .. MaxCalls
    BY <2>1
  <2>3. CASE e
    <3>1. /\ StreamCanTransition(stream_state, "HALF_CLOSED_REMOTE")
          /\ Enter("HALF_CLOSED_REMOTE")
      BY <1>2, <2>3 DEF HandleData
    <3>2. "HALF_CLOSED_REMOTE" \in StreamStates
      BY DEF StreamStates
    <3>3. stream_state \in {"OPEN", "RESERVED_LOCAL", "RESERVED_REMOTE"}
      BY <3>1, <3>2, Transitions
    <3>4. remote_ends = 0 /\ local_ends = 0 /\ stream_closes = 0
      BY <3>3, NothingEnded
    <3>5. remote_ends' = 1
      BY <2>1, <2>3, <3>4 DEF Count
    <3> QED
      BY <2>1, <2>2, <3>1, <3>4, <3>5 DEF Enter, StreamEndsOnce, StreamStates
  <2>4. CASE ~e
    <3>1. Enter(stream_state)
      BY <1>2, <2>4 DEF HandleData
    <3>2. remote_ends' = remote_ends
      BY <2>1, <2>4 DEF Count
    <3> QED
      BY <2>1, <2>2, <3>1, <3>2 DEF Enter, StreamEndsOnce, StreamStates
  <2> QED
    BY <2>3, <2>4
<1>3. ASSUME NEW e \in BOOLEAN, SendHeaders(e)
      PROVE  StreamInv'
  <2> DEFINE to == IF e THEN "HALF_CLOSED_LOCAL" ELSE "OPEN"
  <2>1. to \in StreamStates
    BY DEF StreamStates
  <2>2. /\ StreamCanTransition(stream_state, to)
        /\ stream_state' = to
        /\ response_pieces < MaxCalls
        /\ response_pieces' = response_pieces + 1
        /\ local_ends' = Count(local_ends, e)
        /\ UNCHANGED <<request_pieces, remote_ends, stream_closes>>
    BY <1>3 DEF SendHeaders
  <2>3. /\ stream_state # "CLOSED"
        /\ to = "OPEN" => stream_state = "IDLE"
        /\ to = "HALF_CLOSED_LOCAL" => stream_state = "OPEN"
    BY <2>1, <2>2, Transitions
  <2>4. response_pieces' \in 0 .. MaxCalls
    BY <2>2
  <2>5. remote_ends = 0 /\ local_ends = 0 /\ stream_closes = 0
    BY <2>3, NothingEnded
  <2>6. local_ends' = IF e THEN 1 ELSE 0
    BY <2>2, <2>5 DEF Count
  <2> QED
    BY <2>2, <2>4, <2>5, <2>6 DEF StreamEndsOnce, StreamStates
<1>4. ASSUME NEW e \in BOOLEAN, SendData(e)
      PROVE  StreamInv'
  <2>1. /\ response_pieces < MaxCalls
        /\ response_pieces' = response_pieces + 1
        /\ local_ends' = Count(local_ends, e)
        /\ UNCHANGED <<request_pieces, remote_ends, stream_closes>>
    BY <1>4 DEF SendData
  <2>2. response_pieces' \in 0 .. MaxCalls
    BY <2>1
  <2>3. CASE e
    <3>1. /\ StreamCanTransition(stream_state, "HALF_CLOSED_LOCAL")
          /\ stream_state' = "HALF_CLOSED_LOCAL"
      BY <1>4, <2>3 DEF SendData
    <3>2. "HALF_CLOSED_LOCAL" \in StreamStates
      BY DEF StreamStates
    <3>3. stream_state = "OPEN"
      BY <3>1, <3>2, Transitions
    <3>4. remote_ends = 0 /\ local_ends = 0 /\ stream_closes = 0
      BY <3>3, NothingEnded
    <3>5. local_ends' = 1
      BY <2>1, <2>3, <3>4 DEF Count
    <3> QED
      BY <2>1, <2>2, <3>1, <3>4, <3>5 DEF StreamEndsOnce, StreamStates
  <2>4. CASE ~e
    <3>1. stream_state' = stream_state
      BY <1>4, <2>4 DEF SendData
    <3>2. local_ends' = local_ends
      BY <2>1, <2>4 DEF Count
    <3> QED
      BY <2>1, <2>2, <3>1, <3>2 DEF StreamEndsOnce, StreamStates
  <2> QED
    BY <2>3, <2>4
<1>5. CASE CloseStream
  BY <1>5 DEF CloseStream, StreamEndsOnce, StreamStates
<1>6. CASE UNCHANGED streamVars
  BY <1>6 DEF streamVars, StreamEndsOnce
<1> QED
  BY <1>1, <1>2, <1>3, <1>4, <1>5, <1>6 DEF H2StreamNext

LEMMA StreamInvariant == H2StreamSpec => []StreamInv
<1>1. H2StreamInit => StreamInv
  BY CallsAssumption DEF H2StreamInit, StreamInv, H2StreamTypeOK, StreamEndsOnce, StreamStates
<1> QED
  BY <1>1, StreamStep, PTL DEF H2StreamSpec

\* The state of a stream is one of the seven, and its counters are within
\* their bounds, after any calls (h2_stream.cpp as a whole).
THEOREM StreamTypes == H2StreamSpec => []H2StreamTypeOK
BY StreamInvariant, PTL DEF StreamInv

\* After any frames, sends and closes, each side has ended at most once, the
\* close was reported exactly if the stream is closed, and neither is undone
\* (H2Stream::TransitionState, CanTransition and Close).
THEOREM StreamAlwaysEndsOnce == H2StreamSpec => []StreamEndsOnce
BY StreamInvariant, PTL DEF StreamInv
=============================================================================
