--------------------------- MODULE GsmMuxProofs ---------------------------
(***************************************************************************)
(* Theorems about GsmMux, for every number of byte values, any channels    *)
(* and payloads, and any number of faults.  The receiver stays inside its  *)
(* buffer because its 8-bit position in the frame is ahead of what it has  *)
(* stored (RxInv); the lengths it was told play no part in that.  A frame   *)
(* that begins between two others is followed byte by byte, as it was sent  *)
(* or with a byte of it bent (Follows, RunInv), and as long as there is no *)
(* other harm nothing else is ever decoded (CalmInv), and a reply on its   *)
(* way is that to the host's last request (TalkInv).                       *)
(***************************************************************************)
EXTENDS GsmMux, SequenceTheorems, TLAPS

RxType == [sof : BOOLEAN, position : Byte, addr : Byte, ctrl : Byte,
           len : Seq(Byte), length : 0 .. Base * Base - 1,
           buffer : Seq(Byte)]

\* In the payload, position counts the three bytes of the header and what is
\* stored; it comes round before the buffer is full.
RxInv(m) ==
  /\ m \in RxType
  /\ Len(m.buffer) <= Base - 3
  /\ m.position > 2 => Len(m.buffer) <= m.position - 3 /\ Len(m.len) > 0
  /\ m.position = 3 => m.length < Base

\* What the numbers of the module are.
LEMMA Numbers ==
  /\ Base \in Nat /\ Base >= 24 /\ Byte = 0 .. Base - 1 /\ Byte \subseteq Nat
  /\ Sof \in Byte /\ 0 \in Byte
  BY BytesAssumption, SMT DEF Byte

\* The lengths of the payloads the host sends, and what the receiver makes of
\* them.
Lengths == {n \in Nat : 2 * n + 1 < Base}

LEMMA LengthFacts ==
  ASSUME NEW n \in Lengths
  PROVE  /\ n \in Nat /\ n + 5 < Base /\ 2 * n + 1 \in Byte
         /\ (2 * n + 1) \div 2 = n /\ ~ ((2 * n + 1) % 2 = 0)
         /\ 2 * n < Base * Base
<1>1. n \in Nat /\ 2 * n + 1 < Base
  BY DEF Lengths
<1>2. 2 * n + 1 \in Byte /\ n + 5 < Base
  BY <1>1, Numbers, SMT
<1>3. (2 * n + 1) \div 2 = n /\ ~ ((2 * n + 1) % 2 = 0)
  BY <1>1, SMT
<1>4. 2 * n < Base * Base
  <2>1. Base * Base >= 24 * Base
    BY Numbers, SMT
  <2>2. QED
    BY <1>1, <2>1, Numbers, SMT
<1>5. QED
  BY <1>1, <1>2, <1>3, <1>4

\* A remainder is a byte.
LEMMA RemainderIsByte == \A n \in Int : n % Base \in Byte
  BY Numbers, SMT DEF Byte

\* A length of two bytes fits in two bytes.
LEMMA TwoBytesFit ==
  ASSUME NEW n \in Byte, NEW b \in Byte
  PROVE  n + b * Base \in 0 .. Base * Base - 1
<1>1. n \in Nat /\ n <= Base - 1 /\ b \in Nat /\ b <= Base - 1 /\ Base \in Nat
  BY Numbers, SMT
<1>2. b * Base \in Nat /\ b * Base <= (Base - 1) * Base
  BY <1>1, SMT
<1>3. (Base - 1) * Base = Base * Base - Base /\ Base * Base \in Nat
  BY <1>1, SMT
<1>4. QED
  BY <1>1, <1>2, <1>3, SMT

\* The types of the fields of the receiver.
LEMMA Fields ==
  ASSUME NEW m \in RxType
  PROVE  /\ m.sof \in BOOLEAN /\ m.position \in Byte /\ m.addr \in Byte
         /\ m.ctrl \in Byte /\ m.len \in Seq(Byte)
         /\ m.length \in 0 .. Base * Base - 1 /\ m.buffer \in Seq(Byte)
  BY DEF RxType

\* A receiver between two frames, or at the first byte of one.
LEMMA HuntingInv == RxInv(Hunting) /\ RxInv([Hunting EXCEPT !.sof = TRUE])
<1>1. <<>> \in Seq(Byte) /\ Len(<<>>) = 0
  OBVIOUS
<1>2. 0 \in 0 .. Base * Base - 1
  BY TwoBytesFit, Numbers, SMT
<1>3. Hunting \in RxType /\ [Hunting EXCEPT !.sof = TRUE] \in RxType
  BY <1>1, <1>2, Numbers, Zenon DEF Hunting, RxType
<1>4. QED
  BY <1>1, <1>3, Numbers, SMT DEF Hunting, RxInv

\* One byte more of the frame; the eight bits wrap.
LEMMA AdvancedIs ==
  ASSUME NEW m \in RxType
  PROVE  /\ Advanced(m) \in Byte
         /\ m.position < Base - 1 => Advanced(m) = m.position + 1
         /\ m.position = Base - 1 => Advanced(m) = 0
<1>1. m.position \in Nat /\ m.position <= Base - 1 /\ Base \in Nat /\ Base >= 24
  BY Fields, Numbers, SMT
<1>2. QED
  BY <1>1, RemainderIsByte, SMT DEF Advanced

\* A receiver, from its fields.
LEMMA FromFields ==
  ASSUME NEW h \in RxType, NEW p \in Nat, h.position = p,
         Len(h.buffer) <= Base - 3,
         p > 2 => Len(h.buffer) <= p - 3,
         p > 2 => Len(h.len) > 0,
         p = 3 => h.length < Base
  PROVE  RxInv(h)
  BY Zenon DEF RxInv

\* A byte of the header is stored.
LEMMA HeaderInv ==
  ASSUME NEW m, RxInv(m), NEW b \in Byte, m.sof, ~ InBody(m)
  PROVE  RxInv([Header(m, b) EXCEPT !.position = Advanced(m)])
<1> DEFINE h == [Header(m, b) EXCEPT !.position = Advanced(m)]
<1>1. /\ m \in RxType /\ Len(m.buffer) <= Base - 3 /\ Len(m.buffer) \in Nat
      /\ m.position \in Byte /\ m.position < 4 /\ Advanced(m) = m.position + 1
  <2>1. m \in RxType /\ Len(m.buffer) <= Base - 3
    BY DEF RxInv
  <2>2. m.buffer \in Seq(Byte) /\ m.position \in Byte
    BY <2>1, Fields
  <2>3. m.position < 4
    BY <2>2, Numbers, SMT DEF InBody, TwoByteLength
  <2>4. QED
    BY <2>1, <2>2, <2>3, AdvancedIs, Numbers, LenProperties, SMT
<1>2. /\ 1 \in Byte /\ 2 \in Byte /\ 3 \in Byte /\ 4 \in Byte
      /\ 1 \in Nat /\ 2 \in Nat /\ 3 \in Nat /\ 4 \in Nat
  BY Numbers, SMT
<1>3. CASE m.position = 0
  <2>1. h = [m EXCEPT !.addr = b, !.position = 1]
    BY <1>1, <1>3, SMT DEF Header
  <2> HIDE DEF h
  <2>2. h \in RxType
    BY <1>1, <1>2, <2>1, Zenon DEF RxType
  <2>3. h.buffer = m.buffer /\ h.position = 1
    BY <1>1, <2>1, SMT DEF RxType
  <2>4. RxInv(h)
    BY <1>1, <1>2, <2>2, <2>3, FromFields, SMT
  <2>5. QED
    BY <2>4 DEF h
<1>4. CASE m.position = 1
  <2>1. h = [m EXCEPT !.ctrl = b, !.position = 2]
    BY <1>1, <1>4, SMT DEF Header
  <2> HIDE DEF h
  <2>2. h \in RxType
    BY <1>1, <1>2, <2>1, Zenon DEF RxType
  <2>3. h.buffer = m.buffer /\ h.position = 2
    BY <1>1, <2>1, SMT DEF RxType
  <2>4. RxInv(h)
    BY <1>1, <1>2, <2>2, <2>3, FromFields, SMT
  <2>5. QED
    BY <2>4 DEF h
<1>5. CASE m.position = 2
  <2> DEFINE n == b \div 2
             l == <<b>>
  <2>1. h = [m EXCEPT !.len = l, !.length = n, !.buffer = <<>>,
                      !.position = 3]
    BY <1>1, <1>5, SMT DEF Header, RxType
  <2> HIDE DEF h
  <2>2. n < Base /\ n \in 0 .. Base * Base - 1
    <3>1. n \in Byte
      BY Numbers, SMT DEF Byte
    <3> HIDE DEF n
    <3>2. n + 0 * Base \in 0 .. Base * Base - 1
      BY <3>1, TwoBytesFit, Numbers
    <3>3. n + 0 * Base = n /\ n < Base
      BY <3>1, Numbers, SMT
    <3>4. QED
      BY <3>2, <3>3
  <2>3. l \in Seq(Byte) /\ Len(l) = 1 /\ <<>> \in Seq(Byte) /\ Len(<<>>) = 0
    OBVIOUS
  <2> HIDE DEF n, l
  <2>4. h \in RxType
    BY <1>1, <1>2, <2>1, <2>2, <2>3, Zenon DEF RxType
  <2>5. h.buffer = <<>> /\ h.position = 3 /\ h.len = l /\ h.length = n
    BY <1>1, <2>1, SMT DEF RxType
  <2>6. RxInv(h)
    <3>1. Len(h.buffer) <= Base - 3 /\ Len(h.buffer) <= 3 - 3
      BY <2>3, <2>5, Numbers, SMT
    <3>2. Len(h.len) > 0 /\ h.length < Base
      <4>1. Len(h.len) = 1 /\ h.length < Base
        BY <2>2, <2>3, <2>5, Zenon
      <4>2. QED
        BY <4>1
    <3>3. QED
      BY <1>2, <2>4, <2>5, <3>1, <3>2, FromFields, Zenon
  <2>7. QED
    BY <2>6 DEF h
<1>6. CASE m.position = 3
  <2> DEFINE n == m.length + b * Base
             l == Append(m.len, b)
  <2>1. h = [m EXCEPT !.len = l, !.length = n, !.position = 4]
    BY <1>1, <1>6, SMT DEF Header
  <2> HIDE DEF h
  <2>2. n \in 0 .. Base * Base - 1
    <3>1. m.length \in Byte
      <4>1. m.length \in 0 .. Base * Base - 1 /\ m.length < Base
        BY <1>1, <1>6, Fields DEF RxInv
      <4>2. QED
        BY <4>1, Numbers, SMT
    <3>2. QED
      BY <3>1, TwoBytesFit
  <2>3. l \in Seq(Byte) /\ Len(l) > 0 /\ Len(m.buffer) = 0
    <3>1. m.len \in Seq(Byte) /\ Len(m.buffer) <= 0
      BY <1>1, <1>6, Fields, SMT DEF RxInv
    <3>2. QED
      BY <1>1, <3>1, LenProperties
  <2> HIDE DEF n, l
  <2>4. h \in RxType
    BY <1>1, <1>2, <2>1, <2>2, <2>3, Zenon DEF RxType
  <2>5. h.buffer = m.buffer /\ h.position = 4 /\ h.len = l
    BY <1>1, <2>1, SMT DEF RxType
  <2>6. RxInv(h)
    BY <1>1, <1>2, <2>3, <2>4, <2>5, FromFields, SMT
  <2>7. QED
    BY <2>6 DEF h
<1>7. m.position \in {0, 1, 2, 3}
  BY <1>1, Numbers, SMT
<1>8. QED
  BY <1>3, <1>4, <1>5, <1>6, <1>7, Zenon

\* A byte of the payload, or the checksum, is stored.
LEMMA BodyInv ==
  ASSUME NEW m, RxInv(m), NEW b \in Byte, InBody(m)
  PROVE  RxInv([m EXCEPT !.buffer = Append(@, b), !.position = Advanced(m)])
<1> DEFINE p == Advanced(m)
           l == Append(m.buffer, b)
           h == [m EXCEPT !.buffer = l, !.position = p]
<1>1. /\ m \in RxType /\ Len(m.buffer) \in Nat /\ m.position \in Byte
      /\ m.position > 2 /\ Len(m.buffer) <= m.position - 3
      /\ Len(m.len) > 0 /\ p \in Byte
  BY Fields, AdvancedIs, LenProperties DEF RxInv, InBody
<1>2. l \in Seq(Byte) /\ Len(l) = Len(m.buffer) + 1
  BY <1>1, Fields
<1> HIDE DEF p, l
<1>3. \/ p = m.position + 1
      \/ m.position = Base - 1 /\ p = 0
  <2>1. m.position < Base - 1 \/ m.position = Base - 1
    BY <1>1, Numbers, SMT
  <2>2. QED
    BY <1>1, <2>1, AdvancedIs DEF p
<1>4. h \in RxType
  BY <1>1, <1>2, Zenon DEF RxType
<1>5. h.buffer = l /\ h.position = p /\ h.len = m.len
  BY <1>1, SMT DEF RxType
<1> HIDE DEF h
<1>6. /\ p \in Nat /\ Len(l) <= Base - 3 /\ p # 3
      /\ p > 2 => Len(l) <= p - 3
  BY <1>1, <1>2, <1>3, Numbers, SMT
<1>7. RxInv(h)
  BY <1>1, <1>4, <1>5, <1>6, FromFields, Zenon
<1>8. QED
  BY <1>7 DEF h, p, l

\* Whatever byte comes, the receiver stays within its bounds.
LEMMA ReceivedInv ==
  ASSUME NEW m, RxInv(m), NEW b \in Byte
  PROVE  RxInv(Received(m, b))
<1>1. m.sof \in BOOLEAN
  BY Fields DEF RxInv
<1>2. CASE ~ m.sof
  <2>1. Received(m, b) \in {m, [Hunting EXCEPT !.sof = TRUE]}
    BY <1>2 DEF Received, InBody
  <2>2. QED
    BY <2>1, HuntingInv
<1>3. CASE m.sof /\ ~ InBody(m)
  BY <1>3, HeaderInv DEF Received
<1>4. CASE InBody(m) /\ Expects(m)
  <2>1. m.sof
    BY <1>4 DEF InBody
  <2>2. Received(m, b) = [m EXCEPT !.buffer = Append(@, b),
                                   !.position = Advanced(m)]
    BY <1>4, <2>1 DEF Received
  <2>3. QED
    BY <1>4, <2>2, BodyInv
<1>5. CASE InBody(m) /\ ~ Expects(m)
  <2>1. m.sof
    BY <1>5 DEF InBody
  <2>2. Received(m, b) = Hunting
    BY <1>5, <2>1 DEF Received
  <2>3. QED
    BY <2>2, HuntingInv
<1>6. QED
  BY <1>1, <1>2, <1>3, <1>4, <1>5 DEF InBody

-----------------------------------------------------------------------------
(* The frames of the host, and what is decoded of them.                    *)

\* The codes of the frames are bytes.
LEMMA Codes ==
  /\ SABM \in Byte /\ UA \in Byte /\ DM \in Byte /\ DISC \in Byte
  /\ UIH \in Byte /\ MSC \in Byte /\ 5 \in Byte
  /\ UA + PF \in Byte /\ DM + PF \in Byte
  BY Numbers, SMT DEF SABM, UA, DM, DISC, UIH, MSC, PF

\* The poll bit is set in none of them, so that it can be taken out again.
LEMMA Polls ==
  /\ Unpolled(UA) = UA /\ Unpolled(UA + PF) = UA /\ Unpolled(DM + PF) = DM
  /\ Unpolled(UIH) = UIH
  /\ \A t \in Controls : t \in Byte /\ Unpolled(t) \in {SABM, DISC, UIH}
  /\ SABM # DISC /\ SABM # UIH /\ DISC # UIH /\ UA # DM
  /\ UA \notin {SABM, DISC, UIH}
<1>1. /\ Unpolled(UA) = UA /\ Unpolled(UA + PF) = UA /\ Unpolled(DM + PF) = DM
      /\ Unpolled(UIH) = UIH
  BY SMT DEF Unpolled, UA, DM, UIH, PF
<1>2. ASSUME NEW t \in Controls
      PROVE  t \in Byte /\ Unpolled(t) \in {SABM, DISC, UIH}
  <2>1. t \in {5, 7, 9, 11, 21, 23}
    BY ControlsAssumption, SMT DEF SABM, DISC, UIH, PF
  <2>2. t \in Byte
    BY <2>1, Numbers, SMT
  <2>3. Unpolled(t) \in {5, 9, 21}
    BY <2>1, SMT DEF Unpolled, PF
  <2>4. QED
    BY <2>2, <2>3 DEF SABM, DISC, UIH
<1>3. /\ SABM # DISC /\ SABM # UIH /\ DISC # UIH /\ UA # DM
      /\ UA \notin {SABM, DISC, UIH}
  BY SMT DEF SABM, DISC, UIH, UA, DM
<1>4. QED
  BY <1>1, <1>2, <1>3

\* A frame, from its parts.
LEMMA FrameTypes ==
  ASSUME NEW c \in 0 .. Base - 1, NEW t \in Byte, NEW p \in Seq(Byte)
  PROVE  /\ Frame(c, t, p) \in FrameType
         /\ Frame(c, t, p).dlci = c /\ Frame(c, t, p).type = t
         /\ Frame(c, t, p).payload = p
<1>1. Frame(c, t, p) = [dlci |-> c, type |-> t, payload |-> p]
  BY DEF Frame
<1>2. Frame(c, t, p) \in FrameType
  BY <1>1 DEF FrameType
<1>3. QED
  BY <1>1, <1>2

\* The channels of the host, and the control channel.
LEMMA ChannelNumbers ==
  ASSUME NEW c \in Channels \cup {0}
  PROVE  c \in 0 .. 4 /\ c \in 0 .. Base - 1 /\ 4 * c + 3 \in Byte
<1>1. c \in 0 .. 4
  BY BytesAssumption, SMT
<1>2. QED
  BY <1>1, Numbers, SMT

\* What the host sends, and that its length fits in a byte.
LEMMA FramesType ==
  ASSUME NEW f \in Frames
  PROVE  /\ f \in FrameType /\ f.dlci \in Channels \cup {0}
         /\ Len(f.payload) \in Lengths
<1>1. /\ <<>> \in Seq(Byte) /\ Len(<<>>) = 0
      /\ \A c \in Byte : <<MSC, 5, c, 0>> \in Seq(Byte)
                         /\ Len(<<MSC, 5, c, 0>>) = 4
  BY Codes, Numbers
<1>2. ASSUME NEW c \in Channels, NEW t \in Controls, f = Frame(c, t, <<>>)
      PROVE  f \in FrameType /\ f.dlci = c /\ f.payload = <<>>
  <2>1. c \in 0 .. Base - 1 /\ t \in Byte
    <3>1. c \in Channels \cup {0}
      OBVIOUS
    <3>2. QED
      BY <3>1, ChannelNumbers, Polls
  <2>2. <<>> \in Seq(Byte)
    OBVIOUS
  <2>3. /\ Frame(c, t, <<>>) \in FrameType /\ Frame(c, t, <<>>).dlci = c
        /\ Frame(c, t, <<>>).payload = <<>>
    BY <2>1, <2>2 DEF Frame, FrameType
  <2>4. QED
    BY <1>2, <2>3, Zenon
<1>3. ASSUME NEW c \in Channels, NEW t \in Controls, NEW d \in Data,
             f = Frame(c, t, d)
      PROVE  f \in FrameType /\ f.dlci = c /\ Len(f.payload) \in Lengths
  <2>1. c \in 0 .. Base - 1 /\ t \in Byte
    <3>1. c \in Channels \cup {0}
      OBVIOUS
    <3>2. QED
      BY <3>1, ChannelNumbers, Polls
  <2>2. d \in Seq(Byte) /\ 2 * Len(d) + 1 < Base
    BY DataAssumption
  <2>3. Len(d) \in Lengths
    BY <2>2, LenProperties DEF Lengths
  <2>4. QED
    BY <1>3, <2>1, <2>2, <2>3 DEF Frame, FrameType
<1>4. ASSUME NEW c \in Channels, f = Status(c)
      PROVE  /\ f \in FrameType /\ f.dlci = 0
             /\ f.payload = <<MSC, 5, 4 * c + 3, 0>> /\ 4 * c + 3 \in Byte
  <2>1. 4 * c + 3 \in Byte /\ 0 \in 0 .. Base - 1
    BY ChannelNumbers
  <2>2. <<MSC, 5, 4 * c + 3, 0>> \in Seq(Byte) /\ UIH \in Byte
    BY <1>1, <2>1, Codes
  <2>3. f = Frame(0, UIH, <<MSC, 5, 4 * c + 3, 0>>)
    BY <1>4 DEF Status
  <2>4. QED
    BY <2>1, <2>2, <2>3 DEF Frame, FrameType
<1>5. \/ \E c \in Channels, t \in Controls : f = Frame(c, t, <<>>)
      \/ \E c \in Channels, t \in Controls, d \in Data : f = Frame(c, t, d)
      \/ \E c \in Channels : f = Status(c)
  <2>1. Busy \subseteq Channels
    BY BytesAssumption
  <2>2. \/ \E c \in Channels, t \in With(SABM) : f = Frame(c, t, <<>>)
        \/ \E c \in Busy, t \in With(DISC) : f = Frame(c, t, <<>>)
        \/ \E c \in Busy, t \in With(UIH), d \in Data : f = Frame(c, t, d)
        \/ \E c \in Channels : f = Status(c)
    BY DEF Frames
  <2>3. \A type : With(type) \subseteq Controls
    BY DEF With
  <2>4. QED
    BY <2>1, <2>2, <2>3, Zenon
<1>6. 0 \in Lengths /\ 4 \in Lengths
  BY Numbers, SMT DEF Lengths
<1>7. QED
  <2>1. CASE \E c \in Channels, t \in Controls : f = Frame(c, t, <<>>)
    BY <1>1, <1>2, <1>6, <2>1
  <2>2. CASE \E c \in Channels, t \in Controls, d \in Data : f = Frame(c, t, d)
    BY <1>3, <2>2
  <2>3. CASE \E c \in Channels : f = Status(c)
    BY <1>1, <1>4, <1>6, <2>3
  <2>4. QED
    BY <1>5, <2>1, <2>2, <2>3

\* The frames of the host by their codes.
LEMMA FrameKinds ==
  ASSUME NEW f \in Frames
  PROVE  /\ Unpolled(f.type) \in {SABM, DISC, UIH}
         /\ Unpolled(f.type) = UIH /\ f.dlci = 0 =>
              \E c \in Channels : f = Status(c)
<1>1. \/ \E c \in Channels, t \in With(SABM) : f = Frame(c, t, <<>>)
      \/ \E c \in Busy, t \in With(DISC) : f = Frame(c, t, <<>>)
      \/ \E c \in Busy, t \in With(UIH), d \in Data : f = Frame(c, t, d)
      \/ \E c \in Channels : f = Status(c)
  BY DEF Frames
<1>2. Busy \subseteq Channels /\ 0 \notin Channels
  BY BytesAssumption, SMT
<1>3. CASE \E c \in Channels, t \in With(SABM) : f = Frame(c, t, <<>>)
  <2>1. Unpolled(f.type) = SABM
    BY <1>3 DEF Frame, With
  <2>2. QED
    BY <2>1, Polls
<1>4. CASE \E c \in Busy, t \in With(DISC) : f = Frame(c, t, <<>>)
  <2>1. Unpolled(f.type) = DISC
    BY <1>4 DEF Frame, With
  <2>2. QED
    BY <2>1, Polls
<1>5. CASE \E c \in Busy, t \in With(UIH), d \in Data : f = Frame(c, t, d)
  <2>1. Unpolled(f.type) = UIH /\ f.dlci \in Channels
    BY <1>2, <1>5 DEF Frame, With
  <2>2. QED
    BY <1>2, <2>1
<1>6. CASE \E c \in Channels : f = Status(c)
  <2>1. f.type = UIH
    BY <1>6 DEF Status, Frame
  <2>2. QED
    BY <1>6, <2>1, Polls
<1>7. QED
  BY <1>1, <1>3, <1>4, <1>5, <1>6

\* ... as bytes on the line.
LEMMA BytesType ==
  ASSUME NEW f \in Frames
  PROVE  Bytes(f) \in Seq(Byte)
<1> DEFINE addr == 4 * f.dlci + 3
           n == 2 * Len(f.payload) + 1
           fcs == Fcs(addr, f.type, <<n>>)
<1>1. /\ f.payload \in Seq(Byte) /\ f.type \in Byte /\ addr \in Byte
  <2>1. f \in FrameType
    BY FramesType
  <2>2. f.payload \in Seq(Byte) /\ f.type \in Byte
    BY <2>1 DEF FrameType
  <2>3. QED
    BY <2>2, FramesType, ChannelNumbers, Zenon
<1>2. n \in Byte
  <2>1. Len(f.payload) \in Lengths
    BY FramesType
  <2>2. QED
    BY <2>1, LengthFacts, Zenon
<1>3. fcs \in Byte
  <2>1. fcs = (Base - 1 - addr - f.type - n - 0) % Base
    BY DEF Fcs
  <2>2. Base - 1 - addr - f.type - n - 0 \in Int
    BY <1>1, <1>2, Numbers, SMT
  <2>3. QED
    BY <2>1, <2>2, RemainderIsByte
<1>4. Bytes(f) = <<Sof, addr, f.type, n>> \o f.payload \o <<fcs, Sof>>
  BY DEF Bytes
<1> HIDE DEF addr, n, fcs
<1>5. <<Sof, addr, f.type, n>> \in Seq(Byte) /\ <<fcs, Sof>> \in Seq(Byte)
  BY <1>1, <1>2, <1>3, Numbers
<1>6. <<Sof, addr, f.type, n>> \o f.payload \in Seq(Byte)
  BY <1>1, <1>5, ConcatProperties
<1>7. QED
  BY <1>4, <1>5, <1>6, ConcatProperties

\* What is decoded is a frame, if its header has been read.
LEMMA DecodedType ==
  ASSUME NEW m \in RxType
  PROVE  Dlci(m) \in 0 .. Base - 1
         /\ Frame(Dlci(m), m.ctrl, Payload(m)) \in FrameType
<1>1. Dlci(m) \in 0 .. Base - 1
  BY Fields, Numbers, SMT DEF Dlci
<1>2. Payload(m) \in Seq(Byte)
  <2>1. m.buffer \in Seq(Byte) /\ Len(m.buffer) \in Nat /\ m.length \in Nat
    BY Fields, LenProperties, SMT
  <2>2. CASE Outside(m)
    BY <2>1, <2>2 DEF Payload
  <2>3. CASE ~ Outside(m)
    <3>1. 1 \in Int /\ m.length \in Int /\ m.length <= Len(m.buffer)
      BY <2>1, <2>3, SMT DEF Outside
    <3>2. SubSeq(m.buffer, 1, m.length) \in Seq(Byte)
      BY <2>1, <3>1
    <3>3. QED
      BY <2>3, <3>2 DEF Payload
  <2>4. QED
    BY <2>2, <2>3
<1>3. QED
  BY <1>1, <1>2, Fields, FrameTypes

-----------------------------------------------------------------------------
(* The invariant.                                                          *)

MuxInv == TypeOK /\ RxInv(rx)

\* A reply is a frame, and so are those on their way with it.
LEMMA ReplyType ==
  ASSUME replies \in Seq(FrameType), NEW c \in 0 .. Base - 1,
         NEW t \in {UA, DM}, Reply(c, t)
  PROVE  replies' \in Seq(FrameType)
<1>1. t + PF \in Byte /\ <<>> \in Seq(Byte)
  BY Codes
<1>2. Frame(c, t + PF, <<>>) \in FrameType
  BY <1>1, FrameTypes
<1>3. QED
  BY <1>2, AppendProperties DEF Reply

\* A decoded frame changes the channels and is replied to, within their types.
LEMMA DecodeTypes ==
  ASSUME MuxInv, Decode(rx)
  PROVE  /\ decoded' \in Seq(FrameType) /\ chans' \subseteq 0 .. 7
         /\ replies' \in Seq(FrameType) /\ overwrote' \in BOOLEAN
<1>1. /\ decoded \in Seq(FrameType) /\ chans \subseteq 0 .. 7
      /\ replies \in Seq(FrameType) /\ overwrote \in BOOLEAN
      /\ rx \in RxType
  BY Zenon DEF MuxInv, TypeOK, RxInv
<1>2. decoded' \in Seq(FrameType) /\ Dlci(rx) \in 0 .. Base - 1
  BY <1>1, DecodedType DEF Decode
<1>3. CASE Connect(rx)
  BY <1>1, <1>2, <1>3, ReplyType, Zenon DEF Connect
<1>4. CASE Disconnect(rx)
  BY <1>1, <1>2, <1>4, ReplyType, Zenon DEF Disconnect
<1>5. CASE Control(rx)
  <2>1. ASSUME NEW c, ModemStatus(c)
        PROVE  overwrote' \in BOOLEAN
    BY <1>1, <2>1, Zenon DEF ModemStatus
  <2>2. QED
    BY <1>1, <1>2, <1>5, <2>1, Zenon DEF Control
<1>6. CASE Deliver(rx)
  BY <1>1, <1>2, <1>6, Zenon DEF Deliver
<1>7. QED
  BY <1>3, <1>4, <1>5, <1>6 DEF Decode

\* The types of the variables other than rx.
OtherTypes ==
  /\ chans \subseteq 0 .. 7 /\ opened \subseteq 0 .. Base - 1
  /\ request \in FrameType /\ replies \in Seq(FrameType)
  /\ buffered \in [Uarts -> 0 .. BufSize]
  /\ frame \in FrameType /\ sending \in Seq(Byte) /\ harm \in Harm
  /\ decoded \in Seq(FrameType)
  /\ overread \in BOOLEAN /\ overwrote \in BOOLEAN
  /\ strayed \in BOOLEAN /\ faults \in 0 .. MaxFaults

\* The invariant, from its two halves: a receiver within RxInv has room left.
LEMMA MuxInvParts == MuxInv <=> OtherTypes /\ RxInv(rx)
<1>1. ASSUME RxInv(rx)
      PROVE  rx \in RxType /\ Len(rx.buffer) < Base - 1
  <2>1. rx \in RxType /\ Len(rx.buffer) <= Base - 3
    BY <1>1 DEF RxInv
  <2>2. Len(rx.buffer) \in Nat
    BY <2>1, Fields, LenProperties
  <2>3. \A n \in Nat : n <= Base - 3 => n < Base - 1
    BY Numbers, SMT
  <2>4. QED
    BY <2>1, <2>2, <2>3, Zenon
<1>2. QED
  BY <1>1, Zenon DEF MuxInv, TypeOK, OtherTypes, RxType

\* One fault more stays within the bound.
LEMMA OneMoreFault ==
  ASSUME OtherTypes, faults < MaxFaults, NEW h \in Harm, Harmed(h)
  PROVE  /\ harm' \in Harm /\ strayed' \in BOOLEAN
         /\ faults' \in 0 .. MaxFaults
<1>1. faults \in 0 .. MaxFaults /\ MaxFaults \in Nat
  BY BoundsAssumption DEF OtherTypes
<1>2. faults' = faults + 1 /\ harm' = h /\ strayed' = (strayed \/ h = "astray")
  BY DEF Harmed
<1>3. faults' \in 0 .. MaxFaults
  BY <1>1, <1>2, SMT
<1>4. QED
  BY <1>2, <1>3, Zenon DEF OtherTypes

\* What a fault makes of the frame is one of the three.
LEMMA Harms ==
  /\ "none" \in Harm /\ "bent" \in Harm /\ "astray" \in Harm
  /\ (IF Bends THEN "bent" ELSE "astray") \in Harm
  BY DEF Harm

\* Of no frame at all, and of what the host remembers of a request.
LEMMA NoFrameType == NoFrame \in FrameType
<1>1. 0 \in 0 .. Base - 1 /\ <<>> \in Seq(Byte)
  BY Numbers, SMT
<1>2. QED
  BY <1>1, Codes, FrameTypes DEF NoFrame

LEMMA RequestType ==
  ASSUME NEW f \in Frames
  PROVE  Unpolled(f.type) \in Byte /\ f.dlci \in 0 .. Base - 1
<1>1. Unpolled(f.type) \in {SABM, DISC, UIH}
  BY FrameKinds
<1>2. QED
  BY <1>1, Codes, FramesType DEF FrameType

\* At the start nothing is received, sent or open.
LEMMA InitInv == Init => MuxInv
<1> SUFFICES ASSUME Init PROVE OtherTypes /\ RxInv(rx)
  BY MuxInvParts
<1>1. /\ 0 \in 0 .. Base - 1 /\ 0 \in 0 .. BufSize /\ 0 \in 0 .. MaxFaults
  BY Numbers, BoundsAssumption, SMT
<1>2. <<>> \in Seq(Byte) /\ <<>> \in Seq(FrameType)
  OBVIOUS
<1>3. NoFrame \in FrameType
  BY NoFrameType
<1>4. OtherTypes
  BY <1>1, <1>2, <1>3, Harms, Zenon DEF Init, OtherTypes
<1>5. QED
  BY <1>4, HuntingInv DEF Init

\* A byte, changed or not, that reaches the receiver.
LEMMA CharReceivedInv ==
  ASSUME MuxInv, CharReceived
  PROVE  MuxInv'
<1>1. OtherTypes /\ RxInv(rx)
  BY MuxInvParts
<1>2. sending # <<>> /\ sending \in Seq(Byte)
  BY <1>1 DEF CharReceived, OtherTypes
<1>3. Head(sending) \in Byte /\ Tail(sending) \in Seq(Byte)
  BY <1>2, HeadTailProperties
<1>4. PICK b \in {Head(sending)} \cup
                  (IF faults < MaxFaults THEN Noise ELSE {}) :
           /\ TakeByte(b)
           /\ IF b = Head(sending)
              THEN UNCHANGED <<harm, line>>
              ELSE Harmed(IF Bends THEN "bent" ELSE "astray")
  BY DEF CharReceived
<1>5. b \in Byte
  BY <1>3, <1>4, BytesAssumption
<1>6. /\ harm' \in Harm /\ strayed' \in BOOLEAN /\ faults' \in 0 .. MaxFaults
  <2>1. CASE b = Head(sending)
    BY <1>1, <1>4, <2>1, Zenon DEF OtherTypes, line
  <2>2. CASE b # Head(sending)
    <3>1. faults < MaxFaults /\ Harmed(IF Bends THEN "bent" ELSE "astray")
      BY <1>4, <2>2
    <3>2. QED
      BY <1>1, <3>1, Harms, OneMoreFault, Zenon
  <2>3. QED
    BY <2>1, <2>2
<1>7. RxInv(rx)'
  <2>1. RxInv(Received(rx, b)) /\ rx' = Received(rx, b)
    BY <1>1, <1>4, <1>5, ReceivedInv DEF TakeByte
  <2>2. QED
    BY <2>1, Zenon
<1>8. /\ decoded' \in Seq(FrameType) /\ chans' \subseteq 0 .. 7
      /\ replies' \in Seq(FrameType) /\ overwrote' \in BOOLEAN
  <2>1. CASE Decode(rx)
    BY <2>1, DecodeTypes
  <2>2. CASE UNCHANGED <<chans, decoded, replies, overwrote>>
    BY <1>1, <2>2 DEF OtherTypes
  <2>3. QED
    BY <1>4, <2>1, <2>2, Zenon DEF TakeByte
<1>9. /\ sending' \in Seq(Byte) /\ overread' \in BOOLEAN
      /\ UNCHANGED <<buffered, frame, request, opened>>
  BY <1>1, <1>3, <1>4, Zenon DEF TakeByte, OtherTypes
<1>10. OtherTypes'
  BY <1>1, <1>6, <1>8, <1>9 DEF OtherTypes
<1>11. QED
  BY <1>7, <1>10, MuxInvParts, PTL

\* A step that leaves the receiver alone.
LEMMA OthersInv ==
  ASSUME MuxInv, OtherTypes', rx' = rx
  PROVE  MuxInv'
<1>1. RxInv(rx)
  BY MuxInvParts
<1>2. RxInv(rx)'
  BY <1>1, Zenon
<1>3. QED
  BY <1>2, MuxInvParts, PTL

\* Every step keeps the invariant.
LEMMA NextInv ==
  ASSUME MuxInv, [Next]_vars
  PROVE  MuxInv'
<1>1. OtherTypes /\ RxInv(rx)
  BY MuxInvParts
<1>2. CASE Ask \/ Send
  <2>1. PICK f \in Frames :
          Begins(f) /\ (request' = Request(f) \/ request' = request)
    BY <1>2, Zenon DEF Ask, Send
  <2>2. frame' \in FrameType /\ sending' \in Seq(Byte)
    BY <2>1, FramesType, BytesType DEF Begins
  <2>3. harm' \in Harm /\ decoded' \in Seq(FrameType)
    BY <2>1 DEF Begins, Harm
  <2>4. request' \in FrameType
    <3>1. /\ Unpolled(f.type) \in Byte /\ f.dlci \in 0 .. Base - 1
          /\ <<>> \in Seq(Byte)
      BY RequestType
    <3>2. Request(f) \in FrameType
      BY <3>1, FrameTypes DEF Request
    <3>3. QED
      BY <1>1, <2>1, <3>2 DEF OtherTypes
  <2>5. OtherTypes' /\ rx' = rx
    BY <1>1, <2>1, <2>2, <2>3, <2>4, Zenon DEF Begins, OtherTypes, line
  <2>6. QED
    BY <2>5, OthersInv
<1>3. CASE Lose
  <2>1. sending' \in Seq(Byte)
    BY <1>1, <1>3, HeadTailProperties DEF Lose, OtherTypes
  <2>2. /\ harm' \in Harm /\ strayed' \in BOOLEAN
        /\ faults' \in 0 .. MaxFaults
    BY <1>1, <1>3, Harms, OneMoreFault, Zenon DEF Lose
  <2>3. OtherTypes' /\ rx' = rx
    BY <1>1, <1>3, <2>1, <2>2, Zenon DEF Lose, OtherTypes, talk, memory
  <2>4. QED
    BY <2>3, OthersInv
<1>4. CASE CharReceived
  BY <1>4, CharReceivedInv
<1>5. ASSUME NEW c \in Uarts, Collect(c) \/ Flush(c)
      PROVE  MuxInv'
  <2>1. buffered \in [Uarts -> 0 .. BufSize] /\ BufSize \in Nat
    BY <1>1, BoundsAssumption DEF OtherTypes
  <2>2. buffered' \in [Uarts -> 0 .. BufSize]
    <3>1. CASE Collect(c)
      <4>1. buffered[c] + 1 \in 0 .. BufSize
        BY <2>1, <3>1, SMT DEF Collect
      <4>2. QED
        BY <2>1, <3>1, <4>1, Zenon DEF Collect
    <3>2. CASE Flush(c)
      <4>1. 0 \in 0 .. BufSize
        BY <2>1, SMT
      <4>2. QED
        BY <2>1, <3>2, <4>1, Zenon DEF Flush
    <3>3. QED
      BY <1>5, <3>1, <3>2
  <2>3. /\ UNCHANGED <<rx, chans, frame, sending, harm, decoded, opened>>
        /\ UNCHANGED <<request, replies, overread, overwrote, strayed, faults>>
    BY <1>5 DEF Collect, Flush, host, talk, memory, line
  <2>4. OtherTypes' /\ rx' = rx
    BY <1>1, <2>2, <2>3 DEF OtherTypes
  <2>5. QED
    BY <2>4, OthersInv
<1>6. CASE UNCHANGED vars
  <2>1. OtherTypes' /\ rx' = rx
    BY <1>1, <1>6 DEF vars, host, talk, memory, line, OtherTypes
  <2>2. QED
    BY <2>1, OthersInv
<1>7. CASE Hear
  <2>1. replies' \in Seq(FrameType)
    BY <1>1, <1>7, HeadTailProperties DEF Hear, OtherTypes
  <2>2. request' \in FrameType /\ opened' \subseteq 0 .. Base - 1
    <3>1. request.dlci \in 0 .. Base - 1 /\ NoFrame \in FrameType
      BY <1>1, NoFrameType DEF OtherTypes, FrameType
    <3>2. \/ request' = NoFrame /\ opened' \in {opened \cup {request.dlci},
                                                opened \ {request.dlci}}
          \/ UNCHANGED <<request, opened>>
      BY <1>7, Zenon DEF Hear
    <3>3. QED
      BY <1>1, <3>1, <3>2, Zenon DEF OtherTypes
  <2>3. OtherTypes' /\ rx' = rx
    BY <1>1, <1>7, <2>1, <2>2 DEF Hear, host, memory, line, OtherTypes
  <2>4. QED
    BY <2>3, OthersInv
<1>8. CASE LoseReply
  <2>1. replies' \in Seq(FrameType)
    BY <1>1, <1>8, HeadTailProperties DEF LoseReply, OtherTypes
  <2>2. faults' \in 0 .. MaxFaults
    BY <1>1, <1>8, BoundsAssumption, SMT DEF LoseReply, OtherTypes
  <2>3. OtherTypes' /\ rx' = rx
    BY <1>1, <1>8, <2>1, <2>2 DEF LoseReply, host, memory, OtherTypes
  <2>4. QED
    BY <2>3, OthersInv
<1>9. QED
  BY <1>2, <1>3, <1>4, <1>5, <1>6, <1>7, <1>8 DEF Next

-----------------------------------------------------------------------------
(* A frame on the line, harmed or not: where its bytes lead the receiver.  *)

\* What is read as one frame with a payload of n bytes: it begins with the
\* flag, and the one byte of its length is true.
FrameOf(s, n) ==
  /\ n \in Lengths /\ s \in Seq(Byte) /\ Len(s) = n + 6
  /\ s[1] = Sof /\ s[4] = 2 * n + 1

\* The receiver when it has seen k bytes of it, and was hunting before the
\* first.
Follows(m, s, n, k) ==
  /\ m.sof <=> k > 0
  /\ k > 0 => m.position = k - 1
  /\ k >= 2 => m.addr = s[2]
  /\ k >= 3 => m.ctrl = s[3]
  /\ k >= 4 => /\ m.len = <<s[4]>>
               /\ m.length = n
               /\ m.buffer = SubSeq(s, 5, k)

\* A part of a frame, from its fifth byte on.
LEMMA PartOfFrame ==
  ASSUME NEW s \in Seq(Byte), NEW k \in Nat, k >= 4, k <= Len(s)
  PROVE  /\ SubSeq(s, 5, k) \in Seq(Byte) /\ Len(SubSeq(s, 5, k)) = k - 4
         /\ \A i \in 1 .. k - 4 : SubSeq(s, 5, k)[i] = s[i + 4]
         /\ k < Len(s) => Append(SubSeq(s, 5, k), s[k + 1]) = SubSeq(s, 5, k + 1)
<1> DEFINE t == SubSeq(s, 5, k)
<1>1. Len(s) \in Nat
  OBVIOUS
<1>5. t \in Seq(Byte)
  BY SMT
<1>6. Len(t) = k - 4
  BY SMT
<1>7. \A i \in 1 .. k - 4 : t[i] = s[i + 4]
  BY SMT
<1> HIDE DEF t
<1>8. ASSUME k < Len(s) PROVE Append(t, s[k + 1]) = SubSeq(s, 5, k + 1)
  <2>1. /\ 5 \in 1 .. Len(s) /\ k + 1 \in 5 .. Len(s)
        /\ k + 1 \in 1 .. Len(s) /\ (k + 1) - 1 = k
    BY <1>1, <1>8, SMT
  <2>2. s[k + 1] \in Byte
    BY <2>1, ElementOfSeq
  <2>3. SubSeq(s, 5, k + 1) = SubSeq(s, 5, (k + 1) - 1) \o <<s[k + 1]>>
    BY <2>1, SubSeqRecursiveSecond, Zenon
  <2>4. Append(t, s[k + 1]) = t \o <<s[k + 1]>>
    BY <1>5, <2>2, AppendIsConcat, Zenon DEF t
  <2>5. QED
    BY <2>1, <2>3, <2>4 DEF t
<1>9. QED
  BY <1>5, <1>6, <1>7, <1>8 DEF t

\* In the header the bytes are stored where they belong.
LEMMA RunsInHeader ==
  ASSUME NEW s, NEW n, FrameOf(s, n), NEW k \in 0 .. 3,
         NEW m \in RxType, Follows(m, s, n, k)
  PROVE  /\ ~ Ends(m, s[k + 1])
         /\ Follows(Received(m, s[k + 1]), s, n, k + 1)
<1> DEFINE b == s[k + 1]
           q == Received(m, b)
<1>1. /\ s \in Seq(Byte) /\ n \in Lengths /\ s[1] = Sof /\ s[4] = 2 * n + 1
  BY DEF FrameOf
<1>2. /\ m.sof \in BOOLEAN /\ m.sof <=> k > 0
      /\ k > 0 => m.position = k - 1
      /\ k >= 2 => m.addr = s[2]
      /\ k >= 3 => m.ctrl = s[3]
  BY Fields, Zenon DEF Follows
<1>d. DOMAIN m = {"sof", "position", "addr", "ctrl", "len", "length", "buffer"}
  BY SMT DEF RxType
<1>3. ~ InBody(m)
  <2>1. CASE k = 0
    <3>1. ~ (k > 0)
      BY <2>1, SMT
    <3>2. QED
      BY <1>2, <3>1, Zenon DEF InBody
  <2>2. CASE k > 0
    BY <1>2, <2>2, SMT DEF InBody
  <2>3. QED
    BY <2>1, <2>2, SMT
<1>4. ~ Ends(m, b)
  BY <1>3 DEF Ends
<1>5. CASE k = 0
  <2>1. b = Sof /\ ~ m.sof
    <3>1. ~ (k > 0) /\ k + 1 = 1
      BY <1>5, SMT
    <3>2. QED
      BY <1>1, <1>2, <3>1, Zenon
  <2>2. q = [Hunting EXCEPT !.sof = TRUE]
    BY <1>3, <2>1 DEF Received
  <2>3. q.sof = TRUE /\ q.position = 0
    BY <2>2 DEF Hunting
  <2> HIDE DEF q
  <2>4. Follows(q, s, n, 1)
    BY <2>3, SMT DEF Follows
  <2>5. QED
    BY <1>4, <1>5, <2>4, SMT DEF q
<1>6. CASE k \in {1, 2, 3}
  <2>1. m.sof /\ m.position = k - 1
    BY <1>2, <1>6, SMT
  <2>2. Advanced(m) = k
    BY <1>6, <2>1, Numbers, SMT DEF Advanced
  <2>3. q = [Header(m, b) EXCEPT !.position = k]
    BY <1>3, <2>1, <2>2 DEF Received
  <2>4. CASE k = 1
    <3>1. Header(m, b) = [m EXCEPT !.addr = b]
      BY <2>1, <2>4, SMT DEF Header
    <3> HIDE DEF b, q
    <3>2. q = [m EXCEPT !.addr = b, !.position = 1]
      BY <2>3, <2>4, <3>1, <1>d, SMT
    <3>3. q.sof /\ q.position = 1 /\ q.addr = b
      BY <1>d, <2>1, <3>2, SMTT(30)
    <3>4. Follows(q, s, n, 2)
      BY <2>4, <3>3, SMT DEF Follows, b
    <3>5. QED
      BY <1>4, <2>4, <3>4, SMT DEF q, b
  <2>5. CASE k = 2
    <3>1. Header(m, b) = [m EXCEPT !.ctrl = b]
      BY <2>1, <2>5, SMT DEF Header
    <3> HIDE DEF b, q
    <3>2. q = [m EXCEPT !.ctrl = b, !.position = 2]
      BY <2>3, <2>5, <3>1, <1>d, SMT
    <3>3. q.sof /\ q.position = 2 /\ q.addr = m.addr /\ q.ctrl = b
      BY <1>d, <2>1, <3>2, SMTT(30)
    <3>4. q.addr = s[2]
      BY <1>2, <2>5, <3>3, SMT
    <3>5. Follows(q, s, n, 3)
      BY <2>5, <3>3, <3>4, SMT DEF Follows, b
    <3>6. QED
      BY <1>4, <2>5, <3>5, SMT DEF q, b
  <2>6. CASE k = 3
    <3> DEFINE l == <<b>>
               d == b \div 2
    <3>1. Header(m, b) = [m EXCEPT !.len = l, !.length = d, !.buffer = <<>>]
      BY <2>1, <2>6, SMT DEF Header
    <3>2. d = n
      <4>1. b = 2 * n + 1
        BY <1>1, <2>6
      <4>2. QED
        BY <1>1, <4>1, LengthFacts
    <3> HIDE DEF b, q, l, d
    <3>3. q = [m EXCEPT !.len = l, !.length = d, !.buffer = <<>>,
                        !.position = 3]
      BY <2>3, <2>6, <3>1, <1>d, SMT
    <3>4. /\ q.sof /\ q.position = 3 /\ q.addr = m.addr /\ q.ctrl = m.ctrl
          /\ q.len = l /\ q.length = d /\ q.buffer = <<>>
      BY <1>d, <2>1, <3>3, SMTT(30)
    <3>5. q.addr = s[2] /\ q.ctrl = s[3]
      BY <1>2, <2>6, <3>4, SMT
    <3>6. SubSeq(s, 5, 4) = <<>>
      BY SubSeqEmpty, SMT
    <3>7. l = <<s[4]>>
      BY <2>6 DEF l, b
    <3>8. Follows(q, s, n, 4)
      <4>1. (4 > 0) = TRUE /\ 4 - 1 = 3
        BY SMT
      <4>2. QED
        BY <3>2, <3>4, <3>5, <3>6, <3>7, <4>1, Zenon DEF Follows
    <3>9. QED
      BY <1>4, <2>6, <3>8, SMT DEF q, b
  <2>7. QED
    BY <1>6, <2>4, <2>5, <2>6
<1>7. QED
  BY <1>5, <1>6, SMT

\* What the receiver knows in the body of a frame.
LEMMA InTheBody ==
  ASSUME NEW s, NEW n, FrameOf(s, n), NEW k \in 4 .. n + 5,
         NEW m \in RxType, Follows(m, s, n, k)
  PROVE  /\ m.sof /\ InBody(m) /\ Cur(m) = n - (k - 4)
         /\ m.length = n
         /\ Len(m.buffer) = k - 4 /\ m.buffer = SubSeq(s, 5, k)
         /\ Advanced(m) = k
<1>1. /\ s \in Seq(Byte) /\ n \in Lengths /\ Len(s) = n + 6
      /\ s[4] = 2 * n + 1 /\ n \in Nat /\ n + 5 < Base
  BY LengthFacts, Zenon DEF FrameOf
<1>2. k \in Nat /\ k >= 4 /\ k > 0 /\ k < Base /\ k <= Len(s)
  BY <1>1, Numbers, SMT
<1>3. /\ m.sof /\ m.position = k - 1 /\ m.len = <<s[4]>> /\ m.length = n
      /\ m.buffer = SubSeq(s, 5, k)
  BY <1>2, Zenon DEF Follows
<1>4. Len(m.buffer) = k - 4
  BY <1>1, <1>2, <1>3, PartOfFrame
<1>5. InBody(m)
  <2>1. m.position > 2
    BY <1>2, <1>3, SMT
  <2>2. ~ (m.len[1] % 2 = 0)
    <3>1. m.len[1] = 2 * n + 1
      BY <1>1, <1>3
    <3>2. QED
      BY <1>1, <3>1, LengthFacts
  <2>3. QED
    BY <1>3, <2>1, <2>2, Zenon DEF InBody, TwoByteLength
<1>6. Cur(m) = n - (k - 4)
  <2>1. 2 * n < Base * Base
    BY <1>1, LengthFacts
  <2>2. QED
    BY <1>3, <1>4, <2>1, Zenon DEF Cur
<1>7. Advanced(m) = k
  <2>1. m.position = k - 1
    BY <1>3, Zenon
  <2>2. k \in Nat /\ k < Base
    BY <1>2, Zenon
  <2>3. ((k - 1) + 1) % Base = k
    BY <2>2, Numbers, SMT
  <2>4. QED
    BY <2>1, <2>3, Zenon DEF Advanced
<1>8. QED
  BY <1>3, <1>4, <1>5, <1>6, <1>7

\* The payload and the checksum are stored behind one another.
LEMMA RunsInBody ==
  ASSUME NEW s, NEW n, FrameOf(s, n), NEW k \in 4 .. n + 4,
         NEW m \in RxType, Follows(m, s, n, k)
  PROVE  /\ ~ Ends(m, s[k + 1])
         /\ Follows(Received(m, s[k + 1]), s, n, k + 1)
<1> DEFINE b == s[k + 1]
           q == Received(m, b)
           u == SubSeq(s, 5, k + 1)
<1>1. /\ s \in Seq(Byte) /\ n \in Nat /\ Len(s) = n + 6
  BY LengthFacts, Zenon DEF FrameOf
<1>2. /\ k \in Nat /\ k >= 4 /\ k <= n + 4 /\ k < Len(s) /\ k <= Len(s)
      /\ k \in 4 .. n + 5
  BY <1>1, SMT
<1>3. /\ m.sof /\ InBody(m) /\ Cur(m) = n - (k - 4)
      /\ m.buffer = SubSeq(s, 5, k) /\ Advanced(m) = k
  BY <1>2, InTheBody
<1>4. Expects(m)
  BY <1>1, <1>2, <1>3, SMT DEF Expects
<1>5. Append(m.buffer, b) = u
  BY <1>1, <1>2, <1>3, PartOfFrame
<1>6. q = [m EXCEPT !.buffer = u, !.position = k]
  <2>1. q = [m EXCEPT !.buffer = Append(@, b), !.position = k]
    BY <1>3, <1>4, Zenon DEF Received
  <2>2. QED
    BY <1>5, <2>1
<1>d. DOMAIN m = {"sof", "position", "addr", "ctrl", "len", "length", "buffer"}
  BY SMT DEF RxType
<1>7. ~ Ends(m, b)
  BY <1>4 DEF Ends
<1> HIDE DEF q, u, b
<1>8. /\ q.sof = m.sof /\ q.position = k /\ q.addr = m.addr
      /\ q.ctrl = m.ctrl /\ q.len = m.len /\ q.length = m.length
      /\ q.buffer = u
  BY <1>d, <1>6, SMTT(30)
<1>9. Follows(q, s, n, k + 1)
  <2>1. (k + 1) - 1 = k /\ (k + 1 > 0) /\ k >= 2 /\ k >= 3
    BY <1>2, SMT
  <2>2. /\ q.addr = s[2] /\ q.ctrl = s[3] /\ q.len = <<s[4]>>
        /\ q.length = n
    BY <1>2, <1>8, <2>1, Zenon DEF Follows
  <2>3. QED
    BY <1>3, <1>8, <2>1, <2>2, Zenon DEF Follows, u
<1>10. QED
  BY <1>7, <1>9 DEF q, b

\* Before the last byte nothing ends, and the receiver follows.
LEMMA OneByte ==
  ASSUME NEW s, NEW n, FrameOf(s, n), NEW k \in 0 .. n + 4,
         NEW m \in RxType, Follows(m, s, n, k)
  PROVE  /\ ~ Ends(m, s[k + 1])
         /\ Follows(Received(m, s[k + 1]), s, n, k + 1)
<1>1. n \in Nat
  BY LengthFacts DEF FrameOf
<1>2. k \in 0 .. 3 \/ k \in 4 .. n + 4
  BY <1>1, SMT
<1>3. CASE k \in 0 .. 3
  BY <1>3, RunsInHeader
<1>4. CASE k \in 4 .. n + 4
  BY <1>4, RunsInBody
<1>5. QED
  BY <1>2, <1>3, <1>4

\* The bytes to come play no part in it.
LEMMA FollowsAgrees ==
  ASSUME NEW s, NEW t, NEW n, FrameOf(s, n), FrameOf(t, n),
         NEW k \in 0 .. n + 5, \A i \in 1 .. k : s[i] = t[i],
         NEW m, Follows(m, s, n, k)
  PROVE  Follows(m, t, n, k)
<1>1. /\ n \in Nat /\ s \in Seq(Byte) /\ t \in Seq(Byte)
      /\ Len(s) = n + 6 /\ Len(t) = n + 6
  BY LengthFacts, Zenon DEF FrameOf
<1>2. /\ k >= 2 => s[2] = t[2]
      /\ k >= 3 => s[3] = t[3]
      /\ k >= 4 => s[4] = t[4]
  <2>1. /\ k >= 2 => 2 \in 1 .. k
        /\ k >= 3 => 3 \in 1 .. k
        /\ k >= 4 => 4 \in 1 .. k
    BY <1>1, SMT
  <2>2. QED
    BY <2>1, Zenon
<1>3. ASSUME k >= 4 PROVE SubSeq(s, 5, k) = SubSeq(t, 5, k)
  <2> DEFINE p == SubSeq(s, 5, k)
             q == SubSeq(t, 5, k)
  <2>1. k \in Nat /\ k >= 4 /\ k <= Len(s) /\ k <= Len(t)
    BY <1>1, <1>3, SMT
  <2>2. /\ p \in Seq(Byte) /\ Len(p) = k - 4
        /\ \A i \in 1 .. k - 4 : p[i] = s[i + 4]
    BY <1>1, <2>1, PartOfFrame
  <2>3. /\ q \in Seq(Byte) /\ Len(q) = k - 4
        /\ \A i \in 1 .. k - 4 : q[i] = t[i + 4]
    BY <1>1, <2>1, PartOfFrame
  <2> HIDE DEF p, q
  <2>4. \A i \in 1 .. k - 4 : p[i] = q[i]
    <3>1. \A i \in 1 .. k - 4 : i + 4 \in 1 .. k
      BY <2>1, SMT
    <3>2. QED
      BY <2>2, <2>3, <3>1, Zenon
  <2>5. p = q
    BY <2>2, <2>3, <2>4, SeqEqual, Zenon
  <2>6. QED
    BY <2>5 DEF p, q
<1>4. QED
  BY <1>2, <1>3, Zenon DEF Follows

\* The last byte: the checksum is found where the length says, and what is
\* decoded, if the checksum is right and this is the flag, is what came.
LEMMA RunEnds ==
  ASSUME NEW s, NEW n, FrameOf(s, n), NEW m \in RxType,
         Follows(m, s, n, n + 5)
  PROVE  /\ \A b : Received(m, b) = Hunting /\ (Ends(m, b) <=> b = Sof)
         /\ ~ Outside(m) /\ Stored(m) = {s[n + 5]}
         /\ m.addr = s[2] /\ m.ctrl = s[3] /\ m.len = <<s[4]>>
         /\ Payload(m) \in Seq(Byte) /\ Len(Payload(m)) = n
         /\ \A i \in 1 .. n : Payload(m)[i] = s[i + 4]
         /\ \A i \in 1 .. n : m.buffer[i] = s[i + 4]
         /\ Len(m.buffer) = n + 1
<1> DEFINE k == n + 5
<1>1. s \in Seq(Byte) /\ n \in Nat /\ Len(s) = n + 6
  BY LengthFacts, Zenon DEF FrameOf
<1>2. k \in Nat /\ k >= 4 /\ k <= Len(s) /\ k \in 4 .. n + 5
      /\ k >= 2 /\ k >= 3 /\ k - 4 = n + 1 /\ n - (k - 4) = -1
  BY <1>1, SMT
<1>3. /\ m.sof /\ InBody(m) /\ Cur(m) = n - (k - 4) /\ m.length = n
      /\ Len(m.buffer) = k - 4 /\ m.buffer = SubSeq(s, 5, k)
  <2> HIDE DEF k
  <2>1. Follows(m, s, n, k)
    BY DEF k
  <2>2. QED
    BY <1>2, <2>1, InTheBody
<1>4. m.addr = s[2] /\ m.ctrl = s[3] /\ m.len = <<s[4]>>
  BY <1>2, Zenon DEF Follows
<1>5. /\ m.buffer \in Seq(Byte) /\ Len(m.buffer) = n + 1
      /\ \A i \in 1 .. n + 1 : m.buffer[i] = s[i + 4]
  <2>1. \A i \in 1 .. k - 4 : SubSeq(s, 5, k)[i] = s[i + 4]
    <3> HIDE DEF k
    <3>1. QED
      BY <1>1, <1>2, PartOfFrame
  <2>2. m.buffer \in Seq(Byte)
    BY Fields
  <2> HIDE DEF k
  <2>3. QED
    BY <1>2, <1>3, <2>1, <2>2
<1>6. ~ Expects(m)
  BY <1>2, <1>3, SMT DEF Expects
<1>7. ASSUME NEW b
      PROVE  Received(m, b) = Hunting /\ (Ends(m, b) <=> b = Sof)
  BY <1>3, <1>6, Zenon DEF Ends, Received
<1>8. ~ Outside(m)
  BY <1>1, <1>3, <1>5, SMT DEF Outside
<1>9. Stored(m) = {s[n + 5]}
  <2>1. Stored(m) = {m.buffer[n + 1]}
    BY <1>3, <1>8, Zenon DEF Stored
  <2>2. n + 1 \in 1 .. n + 1 /\ (n + 1) + 4 = n + 5
    BY <1>1, SMT
  <2>3. QED
    BY <1>5, <2>1, <2>2
<1>10. \A i \in 1 .. n : m.buffer[i] = s[i + 4]
  <2>1. \A i \in 1 .. n : i \in 1 .. n + 1
    BY <1>1, SMT
  <2>2. QED
    BY <1>1, <1>5, <2>1
<1>11. /\ Payload(m) \in Seq(Byte) /\ Len(Payload(m)) = n
       /\ \A i \in 1 .. n : Payload(m)[i] = s[i + 4]
  <2> DEFINE p == SubSeq(m.buffer, 1, n)
  <2>1. \A i \in 1 .. n : m.buffer[i] \in Byte
    <3>1. \A i \in 1 .. n : i \in 1 .. Len(m.buffer)
      BY <1>1, <1>5, SMT
    <3>2. QED
      BY <1>5, <3>1, ElementOfSeq
  <2>2. 1 \in Int /\ n \in Int /\ n \in Nat
    BY <1>1, SMT
  <2>3. p \in Seq(Byte)
    BY <1>5, <2>2, SMT
  <2>4. Len(p) = n
    BY <1>5, <2>2, SMT
  <2>5. \A i \in 1 .. n : p[i] = m.buffer[i]
    BY <1>5, <2>2, SMT
  <2>6. Payload(m) = p
    BY <1>3, <1>8 DEF Payload
  <2> HIDE DEF p
  <2>7. \A i \in 1 .. n : p[i] = s[i + 4]
    BY <1>10, <2>5, Zenon
  <2>8. QED
    BY <2>3, <2>4, <2>6, <2>7
<1>12. QED
  BY <1>4, <1>5, <1>7, <1>8, <1>9, <1>10, <1>11

-----------------------------------------------------------------------------
(* The frames of the host, as they were sent or with a byte bent.          *)

\* A frame of the host on the line, byte by byte.
LEMMA BytesShape ==
  ASSUME NEW f \in Frames
  PROVE  /\ Bytes(f) \in Seq(Byte) /\ Len(f.payload) \in Lengths
         /\ Len(Bytes(f)) = Len(f.payload) + 6
         /\ Bytes(f)[1] = Sof /\ Bytes(f)[2] = 4 * f.dlci + 3
         /\ Bytes(f)[3] = f.type /\ Bytes(f)[4] = 2 * Len(f.payload) + 1
         /\ \A i \in 1 .. Len(f.payload) : Bytes(f)[i + 4] = f.payload[i]
         /\ Bytes(f)[Len(f.payload) + 5]
              = Fcs(Bytes(f)[2], Bytes(f)[3], <<Bytes(f)[4]>>)
         /\ Bytes(f)[Len(f.payload) + 6] = Sof
         /\ f.payload \in Seq(Byte) /\ f.type \in Byte
<1> DEFINE s == Bytes(f)
           n == Len(f.payload)
           a == 4 * f.dlci + 3
           l == 2 * n + 1
           fcs == Fcs(a, f.type, <<l>>)
           h == <<Sof, a, f.type, l>>
           t == <<fcs, Sof>>
           p == f.payload
<1>1. /\ s \in Seq(Byte) /\ n \in Lengths /\ n \in Nat
      /\ p \in Seq(Byte) /\ f.type \in Byte
  <2>1. f \in FrameType /\ Len(f.payload) \in Lengths
    BY FramesType
  <2>2. f.payload \in Seq(Byte) /\ f.type \in Byte
    BY <2>1 DEF FrameType
  <2>3. QED
    BY <2>1, <2>2, BytesType DEF Lengths
<1>2. s = h \o p \o t
  BY DEF Bytes
<1> DEFINE U == Byte \cup {Sof, a, f.type, l, fcs}
<1>3. /\ h \in Seq(U) /\ Len(h) = 4 /\ h[1] = Sof /\ h[2] = a
      /\ h[3] = f.type /\ h[4] = l
  <2> HIDE DEF a, l, fcs
  <2>1. QED
    OBVIOUS
<1>4. t \in Seq(U) /\ Len(t) = 2 /\ t[1] = fcs /\ t[2] = Sof
  <2> HIDE DEF a, l, fcs
  <2>1. QED
    OBVIOUS
<1>5. p \in Seq(U) /\ Len(p) = n
  BY <1>1, SeqMonotonic
<1> HIDE DEF U, h, t, p, fcs, s, n
<1>6. /\ h \o p \in Seq(U) /\ Len(h \o p) = 4 + n
      /\ \A i \in 1 .. 4 + n : (h \o p)[i] = IF i <= 4 THEN h[i] ELSE p[i - 4]
  <2>1. /\ h \o p \in Seq(U) /\ Len(h \o p) = Len(h) + Len(p)
        /\ \A i \in 1 .. Len(h) + Len(p) :
             (h \o p)[i] = IF i <= Len(h) THEN h[i] ELSE p[i - Len(h)]
    BY <1>3, <1>5, ConcatProperties, Zenon
  <2>2. QED
    BY <1>3, <1>5, <2>1, Zenon
<1>7. /\ Len(s) = (4 + n) + 2
      /\ \A i \in 1 .. (4 + n) + 2 :
           s[i] = IF i <= 4 + n THEN (h \o p)[i] ELSE t[i - (4 + n)]
  <2> DEFINE g == h \o p
  <2> HIDE DEF g
  <2>1. /\ Len(g \o t) = Len(g) + Len(t)
        /\ \A i \in 1 .. Len(g) + Len(t) :
             (g \o t)[i] = IF i <= Len(g) THEN g[i] ELSE t[i - Len(g)]
    <3>1. g \in Seq(U) /\ t \in Seq(U)
      BY <1>4, <1>6, Zenon DEF g
    <3>2. QED
      BY <3>1, ConcatProperties, Zenon
  <2>2. s = g \o t
    BY <1>2, Zenon DEF g
  <2>3. Len(g) = 4 + n
    BY <1>6, Zenon DEF g
  <2>4. QED
    BY <1>4, <2>1, <2>2, <2>3, Zenon DEF g
<1>8. /\ Len(s) = n + 6 /\ s[1] = h[1] /\ s[2] = h[2] /\ s[3] = h[3]
      /\ s[4] = h[4] /\ s[n + 5] = t[1] /\ s[n + 6] = t[2]
  <2>1. \A i \in {1, 2, 3, 4} :
          i \in 1 .. (4 + n) + 2 /\ i <= 4 + n /\ i \in 1 .. 4 + n /\ i <= 4
    BY <1>1, SMT
  <2>2. ASSUME NEW i \in {1, 2, 3, 4} PROVE s[i] = h[i]
    <3>1. s[i] = (h \o p)[i]
      BY <1>7, <2>1, Zenon
    <3>2. QED
      BY <1>6, <2>1, <3>1, Zenon
  <2>3. /\ n + 5 \in 1 .. (4 + n) + 2 /\ ~ (n + 5 <= 4 + n)
        /\ (n + 5) - (4 + n) = 1
        /\ n + 6 \in 1 .. (4 + n) + 2 /\ ~ (n + 6 <= 4 + n)
        /\ (n + 6) - (4 + n) = 2 /\ (4 + n) + 2 = n + 6
    BY <1>1, SMT
  <2>4. s[n + 5] = t[1] /\ s[n + 6] = t[2] /\ Len(s) = n + 6
    BY <1>7, <2>3, Zenon
  <2>5. s[1] = h[1] /\ s[2] = h[2] /\ s[3] = h[3] /\ s[4] = h[4]
    BY <2>2
  <2>6. QED
    BY <2>4, <2>5
<1>9. \A i \in 1 .. n : s[i + 4] = p[i]
  <2> SUFFICES ASSUME NEW i \in 1 .. n PROVE s[i + 4] = p[i]
    OBVIOUS
  <2>1. /\ i + 4 \in 1 .. (4 + n) + 2 /\ i + 4 <= 4 + n /\ ~ (i + 4 <= 4)
        /\ i + 4 \in 1 .. 4 + n /\ (i + 4) - 4 = i
    BY <1>1, SMT
  <2>2. QED
    BY <1>6, <1>7, <2>1, Zenon
<1>10. QED
  BY <1>1, <1>3, <1>4, <1>8, <1>9, Zenon DEF p, fcs, s, n

\* So it is read as one frame.
LEMMA SentFrame ==
  ASSUME NEW f \in Frames
  PROVE  FrameOf(Bytes(f), Len(f.payload))
BY BytesShape, Zenon DEF FrameOf

\* A sequence with c for its j-th element.
Replaced(s, j, c) == [s EXCEPT ![j] = c]

LEMMA ReplacedIs ==
  ASSUME NEW s \in Seq(Byte), NEW j \in 1 .. Len(s), NEW c \in Byte
  PROVE  /\ Replaced(s, j, c) \in Seq(Byte)
         /\ Len(Replaced(s, j, c)) = Len(s)
         /\ Replaced(s, j, c)[j] = c
         /\ \A i \in 1 .. Len(s) : i # j => Replaced(s, j, c)[i] = s[i]
BY ExceptSeq DEF Replaced

\* One of the first k bytes was changed, and not the first flag or the length.
Bent(s, f, k) ==
  \E j \in 1 .. Len(Bytes(f)), c \in Byte :
    /\ j <= k /\ j \notin {1, 4} /\ c # Bytes(f)[j]
    /\ s = Replaced(Bytes(f), j, c)

\* It is read as one frame still.
LEMMA BentFrame ==
  ASSUME NEW f \in Frames, NEW j \in 1 .. Len(Bytes(f)), j \notin {1, 4},
         NEW c \in Byte
  PROVE  /\ FrameOf(Replaced(Bytes(f), j, c), Len(f.payload))
         /\ Replaced(Bytes(f), j, c)[j] = c
         /\ \A i \in 1 .. Len(Bytes(f)) :
              i # j => Replaced(Bytes(f), j, c)[i] = Bytes(f)[i]
<1> DEFINE s == Bytes(f)
           t == Replaced(s, j, c)
           n == Len(f.payload)
<1>1. /\ s \in Seq(Byte) /\ n \in Lengths /\ Len(s) = n + 6
      /\ s[1] = Sof /\ s[4] = 2 * n + 1 /\ n \in Nat
  BY SentFrame, LengthFacts, Zenon DEF FrameOf
<1> HIDE DEF s, n
<1>2. /\ t \in Seq(Byte) /\ Len(t) = Len(s)
      /\ t[j] = c /\ \A i \in 1 .. Len(s) : i # j => t[i] = s[i]
  <2>1. j \in 1 .. Len(s) /\ s \in Seq(Byte)
    BY <1>1 DEF s
  <2>2. QED
    BY <2>1, ReplacedIs
<1>3. 1 \in 1 .. Len(s) /\ 4 \in 1 .. Len(s) /\ 1 # j /\ 4 # j
  BY <1>1, SMT
<1>4. t[1] = Sof /\ t[4] = 2 * n + 1
  BY <1>1, <1>2, <1>3, Zenon
<1> HIDE DEF t
<1>5. FrameOf(t, n)
  BY <1>1, <1>2, <1>4, Zenon DEF FrameOf
<1>6. QED
  BY <1>2, <1>5 DEF s, t, n

\* Numbers with the same remainder are a multiple apart.
LEMMA Congruent ==
  ASSUME NEW d \in Nat, d > 0, NEW x \in Int, NEW y \in Int, x % d = y % d
  PROVE  \E p \in Int : x - y = d * p
BY SMTT(30)

\* Numbers that are not further apart than bytes have different remainders.
LEMMA Remainders ==
  ASSUME NEW x \in Int, NEW y \in Int, x % Base = y % Base,
         x - y < Base, y - x < Base
  PROVE  x = y
<1>1. Base \in Nat /\ Base > 0
  BY Numbers, SMT
<1>2. PICK p \in Int : x - y = Base * p
  BY <1>1, Congruent
<1>3. p = 0
  <2> DEFINE z == x - y
  <2>1. z \in Int /\ z = Base * p /\ z < Base /\ -z < Base
    BY <1>1, <1>2, SMT
  <2> HIDE DEF z
  <2>2. QED
    BY <1>1, <2>1, SMTT(30)
<1>4. QED
  BY <1>1, <1>2, <1>3, SMT

\* The checksum of a header betrays one byte of it that changed.
LEMMA FcsTells ==
  ASSUME NEW a \in Byte, NEW b \in Byte, NEW t \in Byte, NEW u \in Byte,
         NEW l \in Byte, a = b \/ t = u,
         Fcs(a, t, <<l>>) = Fcs(b, u, <<l>>)
  PROVE  a = b /\ t = u
<1> DEFINE x == Base - 1 - a - t - l - 0
           y == Base - 1 - b - u - l - 0
<1>1. Fcs(a, t, <<l>>) = x % Base /\ Fcs(b, u, <<l>>) = y % Base
  BY DEF Fcs
<1>2. /\ Base \in Nat /\ a \in 0 .. Base - 1 /\ b \in 0 .. Base - 1
      /\ t \in 0 .. Base - 1 /\ u \in 0 .. Base - 1 /\ l \in 0 .. Base - 1
  BY Numbers
<1>3. x \in Int /\ y \in Int /\ x - y < Base /\ y - x < Base
  BY <1>2, SMT
<1> HIDE DEF x, y
<1>4. x = y
  BY <1>1, <1>3, Remainders
<1>5. QED
  BY <1>2, <1>4, SMT DEF x, y

\* What comes of a frame of the host.
Line(s, f, h, k) ==
  /\ h = "none" => s = Bytes(f)
  /\ h = "bent" => Bent(s, f, k)

\* What the receiver has heard of it so far.
Heard(f, h, m, k) ==
  \E s \in Seq(Byte) : /\ FrameOf(s, Len(f.payload)) /\ Line(s, f, h, k)
                       /\ Follows(m, s, Len(f.payload), k)

\* A byte of the line after one that is h: as it was sent, or the first to be
\* bent.
Comes(f, h, g, k, b) ==
  \/ g = h /\ b = Bytes(f)[k]
  \/ h = "none" /\ g = "bent" /\ b # Bytes(f)[k] /\ k \notin {1, 4}

\* It is one of those that have come so far.
LEMMA ByteOfLine ==
  ASSUME NEW f \in Frames, NEW h \in {"none", "bent"}, NEW g, NEW m \in RxType,
         NEW k \in 0 .. Len(f.payload) + 5, Heard(f, h, m, k),
         NEW b \in Byte, Comes(f, h, g, k + 1, b)
  PROVE  \E s \in Seq(Byte) :
           /\ FrameOf(s, Len(f.payload)) /\ Line(s, f, g, k + 1)
           /\ Follows(m, s, Len(f.payload), k) /\ s[k + 1] = b
<1> DEFINE n == Len(f.payload)
           r == Bytes(f)
<1>1. PICK s \in Seq(Byte) :
        FrameOf(s, n) /\ Line(s, f, h, k) /\ Follows(m, s, n, k)
  BY DEF Heard
<1>2. r \in Seq(Byte) /\ n \in Nat /\ Len(r) = n + 6 /\ FrameOf(r, n)
  BY SentFrame, LengthFacts, Zenon DEF FrameOf
<1>3. /\ k \in Nat /\ k + 1 \in 1 .. Len(r)
      /\ \A j \in 1 .. Len(r) : j <= k => j <= k + 1 /\ k + 1 # j
      /\ \A i \in 1 .. k : i \in 1 .. Len(r) /\ i # k + 1
      /\ k + 1 <= k + 1
  BY <1>2, SMT
<1>4. CASE g = h /\ b = r[k + 1]
  <2>1. CASE h = "none"
    <3>1. s = r
      BY <1>1, <2>1, Zenon DEF Line
    <3>2. Line(s, f, g, k + 1)
      BY <1>4, <2>1, <3>1 DEF Line
    <3>3. QED
      BY <1>1, <1>4, <3>1, <3>2, Zenon
  <2>2. CASE h = "bent"
    <3>1. PICK j \in 1 .. Len(r), c \in Byte :
            /\ j <= k /\ j \notin {1, 4} /\ c # r[j]
            /\ s = Replaced(r, j, c)
      BY <1>1, <2>2, Zenon DEF Line, Bent
    <3>2. j <= k + 1 /\ k + 1 # j
      BY <1>3, <3>1
    <3>3. s[k + 1] = r[k + 1]
      BY <1>3, <3>1, <3>2, BentFrame, Zenon
    <3>4. Bent(s, f, k + 1)
      BY <3>1, <3>2, Zenon DEF Bent
    <3>5. Line(s, f, g, k + 1)
      BY <1>4, <2>2, <3>4 DEF Line
    <3>6. QED
      BY <1>1, <1>4, <3>3, <3>5, Zenon
  <2>3. QED
    BY <2>1, <2>2
<1>5. CASE h = "none" /\ g = "bent" /\ b # r[k + 1] /\ k + 1 \notin {1, 4}
  <2> DEFINE t == Replaced(r, k + 1, b)
  <2>1. s = r
    BY <1>1, <1>5, Zenon DEF Line
  <2>2. /\ FrameOf(t, n)
        /\ t[k + 1] = b /\ \A i \in 1 .. Len(r) : i # k + 1 => t[i] = r[i]
    BY <1>3, <1>5, BentFrame, Zenon
  <2>3. Bent(t, f, k + 1)
    BY <1>3, <1>5, Zenon DEF Bent
  <2> HIDE DEF t
  <2>4. \A i \in 1 .. k : s[i] = t[i]
    BY <1>3, <2>1, <2>2, Zenon
  <2>5. Follows(m, t, n, k)
    BY <1>1, <2>2, <2>4, FollowsAgrees, Zenon
  <2>6. t[k + 1] = b /\ t \in Seq(Byte)
    BY <1>3, <2>2, Zenon DEF FrameOf
  <2>7. Line(t, f, g, k + 1)
    BY <1>5, <2>3 DEF Line
  <2>8. QED
    BY <2>2, <2>5, <2>6, <2>7, Zenon
<1>6. QED
  BY <1>4, <1>5 DEF Comes

\* A byte before the last: it is stored, and nothing is decoded.
LEMMA ByteHeard ==
  ASSUME NEW f \in Frames, NEW h \in {"none", "bent"}, NEW g, NEW m \in RxType,
         NEW k \in 0 .. Len(f.payload) + 4, Heard(f, h, m, k),
         NEW b \in Byte, Comes(f, h, g, k + 1, b)
  PROVE  ~ Ends(m, b) /\ Heard(f, g, Received(m, b), k + 1)
<1> DEFINE n == Len(f.payload)
<1>1. n \in Nat
  BY FramesType, LengthFacts
<1>2. k \in 0 .. n + 5
  BY <1>1, SMT
<1>3. PICK s \in Seq(Byte) :
        /\ FrameOf(s, n) /\ Line(s, f, g, k + 1)
        /\ Follows(m, s, n, k) /\ s[k + 1] = b
  BY <1>2, ByteOfLine
<1>4. ~ Ends(m, b) /\ Follows(Received(m, b), s, n, k + 1)
  BY <1>3, OneByte, Zenon
<1>5. QED
  BY <1>3, <1>4, Zenon DEF Heard

\* The last byte. The receiver is done with the frame, whatever it is; what is
\* decoded has the channel, the type and the size of what was sent, and is
\* what was sent if no byte of it was bent.
Over(f, g, m, b) ==
  /\ Received(m, b) = Hunting /\ ~ Outside(m)
  /\ g = "none" =>
       /\ Ends(m, b) /\ \A fcs \in Stored(m) : Checks(m, fcs)
       /\ Payload(m) = f.payload
       /\ \A i \in 1 .. Len(f.payload) : m.buffer[i] = f.payload[i]
       /\ Len(m.buffer) = Len(f.payload) + 1
  /\ \A fcs \in Stored(m) : Ends(m, b) /\ Checks(m, fcs) =>
       /\ Dlci(m) = f.dlci /\ m.ctrl = f.type
       /\ Payload(m) \in Seq(Byte) /\ Len(Payload(m)) = Len(f.payload)

LEMMA LastByte ==
  ASSUME NEW f \in Frames, NEW h \in {"none", "bent"}, NEW g, NEW m \in RxType,
         NEW k \in 0 .. Len(f.payload) + 5, Heard(f, h, m, k),
         NEW b \in Byte, Comes(f, h, g, k + 1, b)
  PROVE  k = Len(f.payload) + 5 => Over(f, g, m, b)
<1> DEFINE n == Len(f.payload)
           r == Bytes(f)
<1>2. PICK s \in Seq(Byte) :
        /\ FrameOf(s, n) /\ Line(s, f, g, k + 1)
        /\ Follows(m, s, n, k) /\ s[k + 1] = b
  BY ByteOfLine
<1>0. HAVE k = n + 5
<1>1. n \in Nat /\ k + 1 = n + 6
  <2>1. n \in Nat
    BY FramesType, LengthFacts
  <2>2. QED
    BY <1>0, <2>1, SMT
<1>3. /\ r \in Seq(Byte) /\ Len(r) = n + 6
      /\ r[2] = 4 * f.dlci + 3 /\ r[3] = f.type
      /\ \A i \in 1 .. n : r[i + 4] = f.payload[i]
      /\ r[n + 5] = Fcs(r[2], r[3], <<r[4]>>) /\ r[n + 6] = Sof
      /\ f.payload \in Seq(Byte)
  BY BytesShape, Zenon
<1>4. /\ Received(m, b) = Hunting /\ (Ends(m, b) <=> b = Sof)
      /\ ~ Outside(m) /\ Stored(m) = {s[n + 5]}
      /\ m.addr = s[2] /\ m.ctrl = s[3] /\ m.len = <<s[4]>>
      /\ Payload(m) \in Seq(Byte) /\ Len(Payload(m)) = n
      /\ \A i \in 1 .. n : Payload(m)[i] = s[i + 4]
      /\ \A i \in 1 .. n : m.buffer[i] = s[i + 4]
      /\ Len(m.buffer) = n + 1
  <2>1. Follows(m, s, n, n + 5)
    BY <1>0, <1>2
  <2>2. QED
    BY <1>2, <2>1, RunEnds
<1>5. (4 * f.dlci + 3) \div 4 = f.dlci
  <2>1. f.dlci \in 0 .. 4
    BY FramesType, ChannelNumbers
  <2>2. \A c \in 0 .. 4 : (4 * c + 3) \div 4 = c
    BY SMT
  <2>3. QED
    BY <2>1, <2>2
<1>6. ASSUME s[2] = r[2], s[3] = r[3]
      PROVE  Dlci(m) = f.dlci /\ m.ctrl = f.type
  BY <1>3, <1>4, <1>5, <1>6, Zenon DEF Dlci
<1>7. ASSUME s = r
      PROVE  /\ Ends(m, b) /\ \A fcs \in Stored(m) : Checks(m, fcs)
             /\ Payload(m) = f.payload
             /\ \A i \in 1 .. n : m.buffer[i] = f.payload[i]
  <2>1. b = Sof
    BY <1>1, <1>2, <1>3, <1>7
  <2>2. \A fcs \in Stored(m) : Checks(m, fcs)
    BY <1>3, <1>4, <1>7, Zenon DEF Checks
  <2>3. Payload(m) = f.payload
    <3>1. Len(Payload(m)) = Len(f.payload)
      BY <1>4
    <3>2. \A i \in 1 .. Len(Payload(m)) : Payload(m)[i] = f.payload[i]
      BY <1>3, <1>4, <1>7, Zenon
    <3>3. QED
      BY <1>3, <1>4, <3>1, <3>2, SeqEqual, Zenon
  <2>4. \A i \in 1 .. n : m.buffer[i] = f.payload[i]
    BY <1>3, <1>4, <1>7, Zenon
  <2>5. QED
    BY <1>4, <2>1, <2>2, <2>3, <2>4
<1>8. ASSUME Bent(s, f, k + 1), Ends(m, b), Checks(m, s[n + 5])
      PROVE  s[2] = r[2] /\ s[3] = r[3]
  <2>1. PICK j \in 1 .. Len(r), c \in Byte :
          /\ j \notin {1, 4} /\ c # r[j] /\ s = Replaced(r, j, c)
    BY <1>8, Zenon DEF Bent
  <2>2. s[j] = c /\ \A i \in 1 .. Len(r) : i # j => s[i] = r[i]
    BY <2>1, BentFrame, Zenon
  <2>3. /\ 2 \in 1 .. Len(r) /\ 3 \in 1 .. Len(r) /\ 4 \in 1 .. Len(r)
        /\ n + 5 \in 1 .. Len(r) /\ n + 6 \in 1 .. Len(r)
        /\ n + 5 # 2 /\ n + 5 # 3 /\ 2 # 3 /\ 4 # j
        /\ j = n + 5 => j # 2 /\ j # 3
    <3>1. n \in Nat /\ Len(r) = n + 6 /\ 4 # j
      BY <1>1, <1>3, <2>1
    <3>2. QED
      BY <3>1, SMT
  <2>4. s[n + 5] = Fcs(s[2], s[3], <<s[4]>>) /\ s[4] = r[4]
    BY <1>4, <1>8, <2>2, <2>3, Zenon DEF Checks
  <2>5. /\ r[2] \in Byte /\ r[3] \in Byte /\ r[4] \in Byte
        /\ s[2] \in Byte /\ s[3] \in Byte
    <3>1. r[2] \in Byte /\ r[3] \in Byte /\ r[4] \in Byte
      BY <1>3, <2>3, ElementOfSeq
    <3>2. QED
      BY <2>2, <2>3, <3>1, Zenon
  <2>6. CASE j = n + 5
    BY <2>2, <2>3, <2>6, Zenon
  <2>7. CASE j # n + 5
    <3>1. s[n + 5] = r[n + 5]
      BY <2>2, <2>3, <2>7, Zenon
    <3>2. Fcs(s[2], s[3], <<r[4]>>) = Fcs(r[2], r[3], <<r[4]>>)
      BY <1>3, <2>4, <3>1
    <3>3. s[2] = r[2] \/ s[3] = r[3]
      BY <2>2, <2>3, Zenon
    <3>4. QED
      BY <2>5, <3>2, <3>3, FcsTells, SMTT(30)
  <2>8. QED
    BY <2>6, <2>7
<1>9. g \in {"none", "bent"}
  BY DEF Comes
<1>10. CASE g = "none"
  <2>1. s = r
    BY <1>2, <1>10, Zenon DEF Line
  <2>2. Dlci(m) = f.dlci /\ m.ctrl = f.type
    BY <1>6, <2>1
  <2>3. QED
    BY <1>4, <1>7, <2>1, <2>2, Zenon DEF Over
<1>11. CASE g = "bent"
  <2>1. Bent(s, f, k + 1) /\ g # "none"
    BY <1>2, <1>11 DEF Line
  <2>2. ASSUME NEW fcs \in Stored(m), Ends(m, b), Checks(m, fcs)
        PROVE  Dlci(m) = f.dlci /\ m.ctrl = f.type
    <3>1. fcs = s[n + 5]
      BY <1>4, <2>2, Zenon
    <3>2. QED
      BY <1>6, <1>8, <2>1, <2>2, <3>1, Zenon
  <2>3. QED
    BY <1>4, <2>1, <2>2, Zenon DEF Over
<1>12. QED
  BY <1>9, <1>10, <1>11

-----------------------------------------------------------------------------
(* What reaches the receiver as long as a frame is no more than bent.      *)

\* What is decoded of a frame with a bent byte, if anything.
Alike(f, d) ==
  d # <<>> => LET p == d[1].payload
              IN  /\ d = <<Frame(f.dlci, f.type, p)>>
                  /\ Len(p) = Len(f.payload)

\* A frame that began on a hunting receiver is on its way, or it is over; and
\* what the host asks for is recorded.
RunInv ==
  /\ frame \in Frames \cup {NoFrame}
  /\ sending # <<>> => frame \in Frames
  /\ Unpolled(frame.type) = SABM => frame.dlci \in asked
  /\ harm # "astray" /\ sending = <<>> =>
       /\ ~ rx.sof /\ Alike(frame, decoded)
       /\ harm = "none" /\ frame # NoFrame => decoded = <<frame>>
       /\ overwrote => \E c \in Channels : frame = Status(c)
       /\ harm = "none" => (overwrote <=> frame = Status(4))
  /\ harm # "astray" /\ sending # <<>> =>
       /\ decoded = <<>> /\ ~ overwrote
       /\ \E k \in 0 .. Len(Bytes(frame)) - 1 :
            /\ sending = SubSeq(Bytes(frame), k + 1, Len(Bytes(frame)))
            /\ Heard(frame, harm, rx, k)

\* What the host knows of the channels. A request is answered by one reply,
\* which the host hears, or not, before it asks for anything else; until then
\* the bit of its channel may be what it asked for, or not.
Asks(f) == Unpolled(f.type) # UIH
Answered ==
  \E t \in {UA, DM} :
    /\ replies = <<Frame(request.dlci, t + PF, <<>>)>>
    /\ \/ request.type = SABM /\ t = UA /\ request.dlci \in chans
       \/ request.type = DISC /\ request.dlci \notin chans
TalkInv ==
  /\ chans \subseteq asked /\ chans \ unsure = opened \ unsure
  /\ replies = <<>> \/ Answered
  /\ sending # <<>> /\ Asks(frame) =>
       replies = <<>> /\ request = Request(frame) /\ frame.dlci \in unsure
  /\ faults = 0 =>
       /\ unsure \subseteq {request.dlci}
       /\ unsure # {} /\ replies = <<>> => sending # <<>> /\ Asks(frame)

\* As long as no frame has suffered more, nothing is decoded but what the host
\* sent, payloads aside; and until the first fault not even those.
CalmInv ==
  /\ faults = 0 => ~ strayed /\ harm = "none"
  /\ ~ strayed => harm # "astray" /\ ~ overread /\ TalkInv

\* The rest of a frame after k bytes of it: its first byte, and the others.
LEMMA RestOfFrame ==
  ASSUME NEW s \in Seq(Byte), NEW k \in 0 .. Len(s) - 1
  PROVE  /\ SubSeq(s, k + 1, Len(s)) # <<>>
         /\ Len(SubSeq(s, k + 1, Len(s))) = Len(s) - k
         /\ Head(SubSeq(s, k + 1, Len(s))) = s[k + 1]
         /\ Tail(SubSeq(s, k + 1, Len(s))) = SubSeq(s, k + 2, Len(s))
         /\ Tail(SubSeq(s, k + 1, Len(s))) = <<>> <=> k + 1 = Len(s)
<1> DEFINE t == SubSeq(s, k + 1, Len(s))
           r == SubSeq(s, k + 2, Len(s))
<1>1. Len(s) \in Nat /\ k \in Nat
  OBVIOUS
<1>2. t \in Seq(Byte) /\ r \in Seq(Byte)
  BY SMT
<1>3. Len(t) = Len(s) - k
  BY <1>1, SMT
<1>4. Len(r) = Len(s) - (k + 1)
  BY <1>1, SMT
<1>5. \A i \in 1 .. Len(s) - k : t[i] = s[k + i]
  BY <1>1, SMT
<1>6. \A i \in 1 .. Len(s) - (k + 1) : r[i] = s[k + 1 + i]
  BY <1>1, SMT
<1> HIDE DEF t, r
<1>7. t # <<>> /\ Head(t) = s[k + 1]
  <2>1. Len(t) > 0 /\ 1 \in 1 .. Len(s) - k
    BY <1>1, <1>3, SMT
  <2>2. t # <<>>
    BY <1>2, <2>1, EmptySeq, SMT
  <2>3. QED
    BY <1>2, <1>5, <2>1, <2>2, HeadTailProperties, SMT
<1>8. Tail(t) \in Seq(Byte) /\ Len(Tail(t)) = Len(s) - (k + 1)
      /\ \A i \in 1 .. Len(s) - (k + 1) : Tail(t)[i] = t[i + 1]
  <2>1. /\ Tail(t) \in Seq(Byte) /\ Len(Tail(t)) = Len(t) - 1
        /\ \A i \in 1 .. Len(Tail(t)) : Tail(t)[i] = t[i + 1]
    BY <1>2, <1>7, HeadTailProperties
  <2>2. Len(t) - 1 = Len(s) - (k + 1)
    BY <1>1, <1>3, SMT
  <2>3. QED
    BY <2>1, <2>2
<1>9. Tail(t) = r
  <2>1. \A i \in 1 .. Len(s) - (k + 1) :
          i + 1 \in 1 .. Len(s) - k /\ k + (i + 1) = k + 1 + i
    BY <1>1, SMT
  <2>2. \A i \in 1 .. Len(s) - (k + 1) : Tail(t)[i] = r[i]
    BY <1>5, <1>6, <1>8, <2>1
  <2> HIDE DEF r
  <2>3. Len(Tail(t)) = Len(r) /\ \A i \in 1 .. Len(Tail(t)) : Tail(t)[i] = r[i]
    BY <1>4, <1>8, <2>2
  <2>4. QED
    BY <1>2, <1>8, <2>3, SeqEqual, Zenon
<1>10. Tail(t) = <<>> <=> k + 1 = Len(s)
  <2>1. Tail(t) = <<>> <=> Len(Tail(t)) = 0
    BY <1>8, EmptySeq
  <2>2. Len(s) - (k + 1) = 0 <=> k + 1 = Len(s)
    BY <1>1, SMT
  <2>3. QED
    BY <1>8, <2>1, <2>2
<1>11. QED
  BY <1>3, <1>7, <1>9, <1>10 DEF t, r

\* What the command of a clean frame writes past chan_v24: the status of
\* channel 4.
LEMMA StatusOf ==
  ASSUME NEW c \in Channels, NEW m,
         \A i \in 1 .. Len(Status(c).payload) : m.buffer[i] = Status(c).payload[i],
         Len(m.buffer) = Len(Status(c).payload) + 1
  PROVE  /\ At(m, 1) = {MSC} /\ At(m, 2) = {5} /\ At(m, 3) = {4 * c + 3}
         /\ V24Index(4 * c + 3) > 3 <=> Status(c) = Status(4)
<1>1. /\ Status(c).payload = <<MSC, 5, 4 * c + 3, 0>>
      /\ Status(4).payload = <<MSC, 5, 4 * 4 + 3, 0>>
  BY DEF Status, Frame
<1>2. /\ Len(Status(c).payload) = 4 /\ Status(c).payload[1] = MSC
      /\ Status(c).payload[2] = 5 /\ Status(c).payload[3] = 4 * c + 3
  BY <1>1
<1>3. /\ Len(m.buffer) = 5 /\ m.buffer[1] = MSC /\ m.buffer[2] = 5
      /\ m.buffer[3] = 4 * c + 3
  <2>1. 1 \in 1 .. 4 /\ 2 \in 1 .. 4 /\ 3 \in 1 .. 4 /\ 4 + 1 = 5
    BY SMT
  <2>2. QED
    BY <1>2, <2>1, Zenon
<1>4. At(m, 1) = {MSC} /\ At(m, 2) = {5} /\ At(m, 3) = {4 * c + 3}
  <2>1. 1 <= 5 /\ 2 <= 5 /\ 3 <= 5
    BY SMT
  <2>2. QED
    BY <1>3, <2>1, Zenon DEF At
<1>5. c \in 1 .. 4
  BY BytesAssumption
<1>6. V24Index(4 * c + 3) > 3 <=> c = 4
  <2>1. \A i \in 1 .. 4 : (4 * i + 3) \div 4 > 3 <=> i = 4
    BY SMT
  <2>2. QED
    BY <1>5, <2>1 DEF V24Index
<1>7. Status(c) = Status(4) <=> c = 4
  <2>1. \A i \in 1 .. 4 : 4 * i + 3 = 4 * 4 + 3 => i = 4
    BY SMT
  <2>2. Status(4).payload[3] = 4 * 4 + 3
    BY <1>1
  <2>3. QED
    BY <1>2, <1>5, <2>1, <2>2
<1>8. QED
  BY <1>4, <1>6, <1>7

\* What frameDecode makes of a frame that is for the channel and of the type
\* that the host sent.
LEMMA DecodesFrame ==
  ASSUME frame \in Frames, Dlci(rx) = frame.dlci, rx.ctrl = frame.type,
         Decode(rx), sending # <<>>, sending' = <<>>, TalkInv,
         Unpolled(frame.type) = SABM => frame.dlci \in asked,
         UNCHANGED <<asked, request, opened, unsure>>,
         faults' = 0 => faults = 0
  PROVE  TalkInv'
<1>1. Dlci(rx) = frame.dlci /\ rx.ctrl = frame.type
  OBVIOUS
<1>2. /\ chans \subseteq asked /\ chans \ unsure = opened \ unsure
      /\ replies = <<>> \/ Answered
      /\ faults = 0 => unsure \subseteq {request.dlci}
      /\ faults = 0 /\ unsure # {} /\ replies = <<>> => Asks(frame)
      /\ Asks(frame) =>
           replies = <<>> /\ request = Request(frame) /\ frame.dlci \in unsure
  BY Zenon DEF TalkInv
<1>3. /\ SABM # DISC /\ SABM # UIH /\ DISC # UIH
      /\ Request(frame).dlci = frame.dlci
      /\ Request(frame).type = Unpolled(frame.type)
  BY Polls DEF Request, Frame
<1>4. ASSUME NEW t \in {UA, DM}, Reply(frame.dlci, t), replies = <<>>
      PROVE  replies' = <<Frame(frame.dlci, t + PF, <<>>)>> /\ replies' # <<>>
  BY <1>4 DEF Reply
<1>5. CASE Connect(rx)
  <2>1. Unpolled(frame.type) = SABM /\ frame.dlci \in asked /\ Asks(frame)
    BY <1>1, <1>3, <1>5 DEF Connect, Asks
  <2>2. frame.dlci \in 0 .. 7
    <3>1. frame.dlci \in 0 .. 4
      BY FramesType, ChannelNumbers
    <3>2. QED
      BY <3>1, SMT
  <2>3. chans' = chans \cup {frame.dlci}
    BY <1>1, <1>5, <2>2, Zenon DEF Connect
  <2>4. replies' = <<Frame(frame.dlci, UA + PF, <<>>)>> /\ replies' # <<>>
    BY <1>1, <1>2, <1>4, <1>5, <2>1, Zenon DEF Connect
  <2>5. request' = request /\ request.dlci = frame.dlci /\ request.type = SABM
    BY <1>2, <1>3, <2>1
  <2>6. Answered'
    BY <2>3, <2>4, <2>5, Zenon DEF Answered
  <2>7. /\ chans' \subseteq asked' /\ chans' \ unsure' = opened' \ unsure'
    BY <1>2, <2>1, <2>3
  <2>8. QED
    BY <1>2, <2>4, <2>5, <2>6, <2>7, Zenon DEF TalkInv
<1>6. CASE Disconnect(rx)
  <2>1. Unpolled(frame.type) = DISC /\ Asks(frame)
    BY <1>1, <1>3, <1>6 DEF Disconnect, Asks
  <2>2. chans' = chans \ {frame.dlci}
    BY <1>1, <1>6, Zenon DEF Disconnect
  <2>3. PICK t \in {UA, DM} : Reply(frame.dlci, t)
    BY <1>1, <1>6, Zenon DEF Disconnect
  <2>4. replies' = <<Frame(frame.dlci, t + PF, <<>>)>> /\ replies' # <<>>
    BY <1>2, <1>4, <2>1, <2>3, Zenon
  <2>5. request' = request /\ request.dlci = frame.dlci /\ request.type = DISC
    BY <1>2, <1>3, <2>1
  <2>6. Answered'
    BY <2>2, <2>4, <2>5, Zenon DEF Answered
  <2>7. /\ chans' \subseteq asked' /\ chans' \ unsure' = opened' \ unsure'
    BY <1>2, <2>1, <2>2
  <2>8. QED
    BY <1>2, <2>4, <2>5, <2>6, <2>7, Zenon DEF TalkInv
<1>7. CASE Control(rx) \/ Deliver(rx)
  <2>1. ~ Asks(frame)
    BY <1>1, <1>7, FrameKinds, Zenon DEF Control, Deliver, Asks
  <2>2. chans' = chans /\ replies' = replies
    BY <1>7, Zenon DEF Control, Deliver
  <2>3. Answered => Answered'
    BY <2>2 DEF Answered
  <2>4. chans' \subseteq asked' /\ chans' \ unsure' = opened' \ unsure'
    BY <1>2, <2>2
  <2>5. QED
    BY <1>2, <2>1, <2>2, <2>3, <2>4, Zenon DEF TalkInv
<1>8. QED
  BY <1>5, <1>6, <1>7 DEF Decode

\* ... in chan_v24: only a status writes there.
LEMMA DecodesStatus ==
  ASSUME frame \in Frames, Dlci(rx) = frame.dlci, rx.ctrl = frame.type,
         Decode(rx), ~ overwrote, overwrote'
  PROVE  \E c \in Channels : frame = Status(c)
<1>1. Control(rx)
  BY DEF Decode, Connect, Disconnect, Deliver
<1>2. Unpolled(frame.type) = UIH /\ frame.dlci = 0
  BY <1>1 DEF Control
<1>3. QED
  BY <1>2, FrameKinds

\* ... and past its end, if it is the very frame: the status of channel 4.
LEMMA DecodesWhole ==
  ASSUME frame \in Frames, Dlci(rx) = frame.dlci, rx.ctrl = frame.type,
         \A i \in 1 .. Len(frame.payload) : rx.buffer[i] = frame.payload[i],
         Len(rx.buffer) = Len(frame.payload) + 1,
         Decode(rx), ~ overwrote
  PROVE  overwrote' <=> frame = Status(4)
<1>1. ASSUME NEW c \in Channels, frame = Status(c)
      PROVE  overwrote' <=> frame = Status(4)
  <2>1. /\ At(rx, 1) = {MSC} /\ At(rx, 2) = {5} /\ At(rx, 3) = {4 * c + 3}
        /\ V24Index(4 * c + 3) > 3 <=> frame = Status(4)
    BY <1>1, StatusOf
  <2>2. frame.type = UIH /\ frame.dlci = 0
    BY <1>1 DEF Status, Frame
  <2>3. Control(rx)
    BY <2>2, Polls, Zenon DEF Decode, Connect, Disconnect, Deliver
  <2>4. 5 % 2 = 1
    BY SMT
  <2>5. ModemStatus(4 * c + 3)
    BY <2>1, <2>3, <2>4, Zenon DEF Control
  <2>6. QED
    BY <2>1, <2>5 DEF ModemStatus
<1>2. CASE ~ \E c \in Channels : frame = Status(c)
  <2>1. ~ Control(rx)
    BY <1>2, FrameKinds, Zenon DEF Control
  <2>2. ~ overwrote'
    BY <2>1, Zenon DEF Decode, Connect, Disconnect, Deliver
  <2>3. frame # Status(4)
    <3>1. ASSUME frame = Status(4) PROVE FALSE
      <4>1. Unpolled(frame.type) = UIH /\ frame.dlci = 0
        BY <3>1, Polls DEF Status, Frame
      <4>2. QED
        BY <1>2, <4>1, FrameKinds, Zenon
    <3>2. QED
      BY <3>1
  <2>4. QED
    BY <2>2, <2>3
<1>3. QED
  BY <1>1, <1>2

\* A byte of a frame that is no more than bent, with this byte or before.
LEMMA BentByteStep ==
  ASSUME MuxInv, RunInv, CalmInv, sending # <<>>, harm # "astray",
         NEW b \in Byte, TakeByte(b), NEW k \in 0 .. Len(Bytes(frame)) - 1,
         sending = SubSeq(Bytes(frame), k + 1, Len(Bytes(frame))),
         Heard(frame, harm, rx, k), Comes(frame, harm, harm', k + 1, b),
         strayed' = strayed,
         faults' = 0 => faults = 0 /\ harm' = harm
  PROVE  RunInv' /\ CalmInv'
<1> DEFINE s == Bytes(frame)
           L == Len(s)
           n == Len(frame.payload)
<1>1. /\ frame \in Frames /\ rx \in RxType /\ decoded = <<>>
      /\ Unpolled(frame.type) = SABM => frame.dlci \in asked
      /\ harm \in {"none", "bent"} /\ ~ overwrote
  BY MuxInvParts, Zenon DEF RunInv, RxInv, OtherTypes, Harm
<1>2. /\ s \in Seq(Byte) /\ n \in Nat /\ L = n + 6
  BY <1>1, SentFrame, LengthFacts, Zenon DEF FrameOf
<1>3. harm' \in {"none", "bent"} /\ harm' # "astray"
  BY <1>1 DEF Comes
<1>4. /\ Tail(sending) = SubSeq(s, k + 2, L)
      /\ Tail(sending) = <<>> <=> k + 1 = L
  BY <1>2, RestOfFrame, Zenon
<1>5. /\ rx' = Received(rx, b) /\ sending' = Tail(sending)
      /\ UNCHANGED <<frame, asked, request, opened, unsure>>
      /\ overread' = (overread \/ (Ends(rx, b) /\ Outside(rx)))
  BY Zenon DEF TakeByte
<1>6. CASE k + 1 # L
  <2>1. k \in 0 .. n + 4 /\ k + 1 \in 0 .. L - 1 /\ (k + 1) + 1 = k + 2
    BY <1>2, <1>6, SMT
  <2>2. ~ Ends(rx, b) /\ Heard(frame, harm', Received(rx, b), k + 1)
    BY <1>1, <2>1, ByteHeard, Zenon
  <2>3. UNCHANGED <<chans, decoded, replies, overwrote>> /\ (overread' => overread)
    BY <1>5, <2>2, Zenon DEF TakeByte
  <2>4. Heard(frame', harm', rx', k + 1)
    BY <1>5, <2>2, Zenon
  <2>5. /\ sending' # <<>>
        /\ \E j \in 0 .. Len(Bytes(frame')) - 1 :
             /\ sending' = SubSeq(Bytes(frame'), j + 1, Len(Bytes(frame')))
             /\ Heard(frame', harm', rx', j)
    BY <1>4, <1>5, <1>6, <2>1, <2>4, Zenon
  <2>6. RunInv'
    BY <1>1, <1>5, <2>3, <2>5, Zenon DEF RunInv
  <2>7. TalkInv => TalkInv'
    <3>1. SUFFICES ASSUME TalkInv PROVE TalkInv'
      OBVIOUS
    <3>2. Answered => Answered'
      BY <1>5, <2>3, Zenon DEF Answered
    <3>3. chans' \subseteq asked' /\ chans' \ unsure' = opened' \ unsure'
      BY <1>5, <2>3, <3>1, Zenon DEF TalkInv
    <3>4. QED
      BY <1>5, <2>3, <2>5, <3>1, <3>2, <3>3, Zenon DEF TalkInv
  <2>8. CalmInv'
    BY <1>3, <2>3, <2>7, Zenon DEF CalmInv
  <2>9. QED
    BY <2>6, <2>8
<1>7. CASE k + 1 = L
  <2>1. k \in 0 .. n + 5 /\ k = n + 5
    BY <1>2, <1>7, SMT
  <2>2. /\ Received(rx, b) = Hunting /\ ~ Outside(rx)
        /\ harm' = "none" =>
             /\ Ends(rx, b) /\ \A fcs \in Stored(rx) : Checks(rx, fcs)
             /\ Payload(rx) = frame.payload
             /\ \A i \in 1 .. n : rx.buffer[i] = frame.payload[i]
             /\ Len(rx.buffer) = n + 1
        /\ \A fcs \in Stored(rx) : Ends(rx, b) /\ Checks(rx, fcs) =>
             /\ Dlci(rx) = frame.dlci /\ rx.ctrl = frame.type
             /\ Payload(rx) \in Seq(Byte) /\ Len(Payload(rx)) = n
    <3>1. Over(frame, harm', rx, b)
      BY <1>1, <2>1, LastByte
    <3>2. QED
      BY <3>1, Zenon DEF Over
  <2>3. sending' = <<>> /\ ~ rx'.sof
    BY <1>4, <1>5, <1>7, <2>2 DEF Hunting
  <2>4. overread' => overread
    BY <1>5, <2>2, Zenon
  <2>5. CASE UNCHANGED <<chans, decoded, replies, overwrote>> /\ harm' # "none"
    <3>1. decoded' = <<>> /\ ~ overwrote'
      BY <1>1, <2>5
    <3>2. RunInv'
      BY <1>1, <1>5, <2>3, <2>5, <3>1, Zenon DEF RunInv, Alike
    <3>3. faults' # 0
      BY <2>5, Zenon DEF CalmInv
    <3>4. TalkInv => TalkInv'
      <4>1. SUFFICES ASSUME TalkInv PROVE TalkInv'
        OBVIOUS
      <4>2. Answered => Answered'
        BY <1>5, <2>5, Zenon DEF Answered
      <4>3. chans' \subseteq asked' /\ chans' \ unsure' = opened' \ unsure'
        BY <1>5, <2>5, <4>1, Zenon DEF TalkInv
      <4>4. QED
        BY <2>3, <2>5, <3>3, <4>1, <4>2, <4>3, Zenon DEF TalkInv
    <3>5. CalmInv'
      BY <1>3, <2>4, <3>3, <3>4, Zenon DEF CalmInv
    <3>6. QED
      BY <3>2, <3>5
  <2>6. CASE /\ Decode(rx) /\ Dlci(rx) = frame.dlci /\ rx.ctrl = frame.type
             /\ Payload(rx) \in Seq(Byte) /\ Len(Payload(rx)) = n
    <3> DEFINE p == Payload(rx)
    <3>1. decoded' = <<Frame(frame.dlci, frame.type, p)>>
      <4>1. decoded' = Append(<<>>, Frame(frame.dlci, frame.type, p))
        BY <1>1, <2>6, Zenon DEF Decode
      <4> HIDE DEF p
      <4>2. QED
        BY <4>1
    <3> HIDE DEF p
    <3>2. Alike(frame', decoded')
      <4>1. decoded'[1].payload = p
        BY <3>1 DEF Frame
      <4>2. Len(p) = Len(frame.payload)
        BY <2>6 DEF p
      <4>3. QED
        BY <1>5, <3>1, <4>1, <4>2, Zenon DEF Alike
    <3>3. harm' = "none" => decoded' = <<frame>>
      <4>1. frame = [dlci |-> frame.dlci, type |-> frame.type,
                     payload |-> frame.payload]
        BY <1>1, FramesType DEF FrameType
      <4>2. harm' = "none" => p = frame.payload
        BY <2>2 DEF p
      <4>3. QED
        BY <3>1, <4>1, <4>2, Zenon DEF Frame
    <3>4. overwrote' => \E c \in Channels : frame' = Status(c)
      BY <1>1, <1>5, <2>6, DecodesStatus, Zenon
    <3>5. harm' = "none" => (overwrote' <=> frame' = Status(4))
      BY <1>1, <1>5, <2>2, <2>6, DecodesWhole, Zenon
    <3>6. RunInv'
      BY <1>1, <1>5, <2>3, <3>2, <3>3, <3>4, <3>5, Zenon DEF RunInv
    <3>7. TalkInv => TalkInv'
      BY <1>1, <1>5, <2>3, <2>6, DecodesFrame, Zenon
    <3>8. CalmInv'
      BY <1>3, <2>4, <3>7, Zenon DEF CalmInv
    <3>9. QED
      BY <3>6, <3>8
  <2>7. Stored(rx) # {} /\ (harm' = "none" => Ends(rx, b))
    <3>1. Stored(rx) # {}
      BY <2>2, Zenon DEF Stored
    <3>2. QED
      BY <2>2, <3>1
  <2>8. CASE Ends(rx, b)
    <3>1. PICK fcs \in Stored(rx) :
            IF Checks(rx, fcs) THEN Decode(rx)
            ELSE UNCHANGED <<chans, decoded, replies, overwrote>>
      BY <2>8, Zenon DEF TakeByte
    <3>2. QED
      BY <2>2, <2>5, <2>6, <2>8, <3>1, Zenon
  <2>9. CASE ~ Ends(rx, b)
    <3>1. UNCHANGED <<chans, decoded, replies, overwrote>>
      BY <2>9, Zenon DEF TakeByte
    <3>2. QED
      BY <2>5, <2>7, <2>9, <3>1
  <2>10. QED
    BY <2>8, <2>9
<1>8. QED
  BY <1>6, <1>7

\* The inductive invariant.
RunMuxInv == MuxInv /\ RunInv /\ CalmInv

\* The place of the next byte in the frame.
LEMMA PlaceIs ==
  ASSUME frame \in Frames, NEW k \in 0 .. Len(Bytes(frame)) - 1,
         sending = SubSeq(Bytes(frame), k + 1, Len(Bytes(frame)))
  PROVE  Place = k + 1 /\ Head(sending) = Bytes(frame)[k + 1]
<1>1. Bytes(frame) \in Seq(Byte) /\ Len(Bytes(frame)) \in Nat
  BY BytesType, LenProperties
<1>2. /\ Len(sending) = Len(Bytes(frame)) - k
      /\ Head(sending) = Bytes(frame)[k + 1]
  BY <1>1, RestOfFrame, Zenon
<1>3. QED
  BY <1>1, <1>2, SMT DEF Place

\* A byte of the host, changed or not.
LEMMA CharReceivedRun ==
  ASSUME RunMuxInv, CharReceived
  PROVE  RunInv' /\ CalmInv'
<1>1. MuxInv /\ RunInv /\ CalmInv
  BY DEF RunMuxInv
<1>2. /\ sending # <<>> /\ frame \in Frames /\ faults \in Nat
      /\ sending \in Seq(Byte) /\ harm \in Harm
  BY <1>1, MuxInvParts, SMT DEF CharReceived, RunInv, OtherTypes
<1>3. PICK b \in {Head(sending)} \cup
                  (IF faults < MaxFaults THEN Noise ELSE {}) :
           /\ TakeByte(b)
           /\ IF b = Head(sending)
              THEN UNCHANGED <<harm, line>>
              ELSE Harmed(IF Bends THEN "bent" ELSE "astray")
  BY DEF CharReceived
<1>4. b \in Byte
  BY <1>2, <1>3, BytesAssumption, HeadTailProperties
<1>5. CASE b = Head(sending) /\ harm # "astray"
  <2>1. harm' = harm /\ strayed' = strayed /\ faults' = faults
    BY <1>3, <1>5, Zenon DEF line
  <2>2. PICK k \in 0 .. Len(Bytes(frame)) - 1 :
          /\ sending = SubSeq(Bytes(frame), k + 1, Len(Bytes(frame)))
          /\ Heard(frame, harm, rx, k)
    BY <1>1, <1>2, <1>5, Zenon DEF RunInv
  <2>3. Comes(frame, harm, harm', k + 1, b)
    BY <1>2, <1>5, <2>1, <2>2, PlaceIs, Zenon DEF Comes
  <2>4. QED
    BY <1>1, <1>2, <1>3, <1>4, <1>5, <2>1, <2>2, <2>3, BentByteStep, Zenon
<1>6. CASE b # Head(sending) /\ Bends
  <2>1. harm = "none" /\ Place \notin {1, 4} /\ Harmed("bent")
    BY <1>3, <1>6, Zenon DEF Bends
  <2>2. harm' = "bent" /\ strayed' = strayed /\ faults' = faults + 1
    <3>1. "bent" # "astray"
      OBVIOUS
    <3>2. strayed \in BOOLEAN
      BY <1>1, MuxInvParts DEF OtherTypes
    <3>3. harm' = "bent" /\ strayed' = (strayed \/ FALSE) /\ faults' = faults + 1
      BY <2>1, <3>1, Zenon DEF Harmed
    <3>4. QED
      BY <3>2, <3>3, Zenon
  <2>3. faults' # 0
    BY <1>2, <2>2, SMT
  <2>4. PICK k \in 0 .. Len(Bytes(frame)) - 1 :
          /\ sending = SubSeq(Bytes(frame), k + 1, Len(Bytes(frame)))
          /\ Heard(frame, harm, rx, k)
    BY <1>1, <1>2, <2>1, Zenon DEF RunInv
  <2>5. Comes(frame, harm, harm', k + 1, b)
    BY <1>2, <1>6, <2>1, <2>2, <2>4, PlaceIs, Zenon DEF Comes
  <2>6. harm # "astray"
    BY <2>1
  <2>7. QED
    BY <1>1, <1>2, <1>3, <1>4, <2>2, <2>3, <2>4, <2>5, <2>6, BentByteStep, Zenon
<1>7. CASE \/ b = Head(sending) /\ harm = "astray"
           \/ b # Head(sending) /\ ~ Bends
  <2>1. harm' = "astray" /\ strayed' /\ faults' # 0
    <3>1. CASE b = Head(sending) /\ harm = "astray"
      <4>1. strayed /\ faults # 0
        BY <1>1, <3>1, Zenon DEF CalmInv
      <4>2. UNCHANGED <<harm, strayed, faults>>
        BY <1>3, <3>1, Zenon DEF line
      <4>3. strayed'
        BY ONLY <4>1, <4>2
      <4>4. QED
        BY <3>1, <4>1, <4>2, <4>3
    <3>2. CASE b # Head(sending) /\ ~ Bends
      <4>1. Harmed("astray")
        BY <1>3, <3>2, Zenon
      <4>2. faults + 1 # 0
        BY <1>2, SMT
      <4>3. QED
        BY <4>1, <4>2, Zenon DEF Harmed
    <3>3. QED
      BY <1>7, <3>1, <3>2
  <2>2. frame' = frame /\ asked' = asked
    BY <1>3, Zenon DEF TakeByte
  <2>3. QED
    BY <1>1, <1>2, <2>1, <2>2, Zenon DEF RunInv, CalmInv
<1>8. QED
  BY <1>5, <1>6, <1>7

\* The reply to what the host asked for last: it knows again.
LEMMA HearTalk ==
  ASSUME TalkInv, Hear, replies # <<>>
  PROVE  TalkInv'
<1>1. /\ UNCHANGED <<chans, frame, sending, asked, faults>>
      /\ replies' = Tail(replies)
  BY Zenon DEF Hear, host, line
<1>2. PICK t \in {UA, DM} :
        /\ replies = <<Frame(request.dlci, t + PF, <<>>)>>
        /\ \/ request.type = SABM /\ t = UA /\ request.dlci \in chans
           \/ request.type = DISC /\ request.dlci \notin chans
  BY DEF TalkInv, Answered
<1>3. replies' = <<>> /\ Head(replies) = Frame(request.dlci, t + PF, <<>>)
  BY <1>1, <1>2
<1>4. Answers(Head(replies))
  <2>1. /\ Head(replies).dlci = request.dlci /\ Head(replies).type = t + PF
    BY <1>3 DEF Frame
  <2>2. Unpolled(t + PF) = t
    BY Polls
  <2>3. QED
    BY <1>2, <2>1, <2>2, Zenon DEF Answers
<1>5. /\ opened' = IF request.type = SABM THEN opened \cup {request.dlci}
                                          ELSE opened \ {request.dlci}
      /\ unsure' = unsure \ {request.dlci} /\ request' = NoFrame
  BY <1>4, Zenon DEF Hear
<1>6. chans \subseteq asked /\ chans \ unsure = opened \ unsure
  BY Zenon DEF TalkInv
<1>7. chans' \ unsure' = opened' \ unsure'
  <2>1. CASE request.type = SABM /\ request.dlci \in chans
    BY <1>1, <1>5, <1>6, <2>1
  <2>2. CASE request.type = DISC /\ request.dlci \notin chans
    <3>1. opened' = opened \ {request.dlci}
      BY <1>5, <2>2, Polls
    <3>2. QED
      BY <1>1, <1>5, <1>6, <2>2, <3>1
  <2>3. QED
    BY <1>2, <2>1, <2>2
<1>8. ~ (sending # <<>> /\ Asks(frame))
  BY Zenon DEF TalkInv
<1>9. faults = 0 => unsure' = {}
  BY <1>5 DEF TalkInv
<1>10. QED
  BY <1>1, <1>3, <1>6, <1>7, <1>8, <1>9, Zenon DEF TalkInv

\* Every step keeps the invariant.
LEMMA NextRun ==
  ASSUME RunMuxInv, [Next]_vars
  PROVE  RunMuxInv'
<1>1. MuxInv /\ RunInv /\ CalmInv
  BY DEF RunMuxInv
<1>2. MuxInv'
  BY <1>1, NextInv
<1>3. faults \in Nat
  BY <1>1, MuxInvParts, SMT DEF OtherTypes
<1>4. ASSUME NEW f \in Frames, Begins(f), asked \subseteq asked',
             Unpolled(f.type) = SABM => f.dlci \in asked'
      PROVE  RunInv' /\ (~ strayed => harm' = "none")
  <2>1. frame' = f /\ sending' = Bytes(f)
    BY <1>4 DEF Begins
  <2>2. /\ sending = <<>> /\ decoded' = <<>> /\ ~ overwrote'
        /\ harm' = IF rx.sof THEN "astray" ELSE "none"
        /\ rx' = rx
    BY <1>4, Zenon DEF Begins
  <2>3. /\ Bytes(f) \in Seq(Byte) /\ Len(Bytes(f)) \in Nat /\ Len(Bytes(f)) > 0
    <3>1. /\ Bytes(f) \in Seq(Byte) /\ Len(f.payload) \in Nat
          /\ Len(Bytes(f)) = Len(f.payload) + 6
      BY SentFrame, LengthFacts, Zenon DEF FrameOf
    <3>2. QED
      BY <3>1, SMT
  <2>4. 0 \in 0 .. Len(Bytes(f)) - 1 /\ 0 + 1 = 1
    BY <2>3, SMT
  <2>5. sending' # <<>> /\ sending' = SubSeq(Bytes(f), 0 + 1, Len(Bytes(f)))
    <3>1. SubSeq(Bytes(f), 1, Len(Bytes(f))) = Bytes(f)
      BY <2>3, SubSeqFull
    <3>2. QED
      BY <2>1, <2>3, <2>4, <3>1, EmptySeq, SMT
  <2>6. harm' # "astray" => harm' = "none" /\ Heard(frame', harm', rx', 0)
    <3> SUFFICES ASSUME harm' # "astray"
                 PROVE  harm' = "none" /\ Heard(frame', harm', rx', 0)
      OBVIOUS
    <3>1. ~ (0 > 0) /\ ~ (0 >= 2) /\ ~ (0 >= 3) /\ ~ (0 >= 4)
      BY SMT
    <3>2. ~ rx.sof /\ harm' = "none"
      BY <2>2
    <3>3. Follows(rx', Bytes(frame'), Len(frame'.payload), 0)
      BY <2>2, <3>1, <3>2, Zenon DEF Follows
    <3>4. FrameOf(Bytes(frame'), Len(frame'.payload)) /\ Bytes(frame') \in Seq(Byte)
      BY <2>1, <2>3, SentFrame, Zenon
    <3>5. Line(Bytes(frame'), frame', harm', 0)
      BY <3>2 DEF Line
    <3>6. QED
      BY <3>2, <3>3, <3>4, <3>5, Zenon DEF Heard
  <2>7. RunInv'
    <3>1. frame' \in Frames /\ (Unpolled(frame'.type) = SABM => frame'.dlci \in asked')
      BY <1>4, <2>1, Zenon
    <3>2. harm' # "astray" => \E k \in 0 .. Len(Bytes(frame')) - 1 :
            /\ sending' = SubSeq(Bytes(frame'), k + 1, Len(Bytes(frame')))
            /\ Heard(frame', harm', rx', k)
      BY <2>1, <2>4, <2>5, <2>6, Zenon
    <3>3. QED
      BY <2>2, <2>5, <3>1, <3>2, Zenon DEF RunInv
  <2>8. ~ strayed => harm' = "none"
    BY <1>1, <2>2, Zenon DEF CalmInv, RunInv
  <2>9. QED
    BY <2>7, <2>8
<1>5. CASE Ask
  <2>1. PICK f \in Frames :
          /\ Begins(f) /\ Unpolled(f.type) \in {SABM, DISC} /\ replies = <<>>
          /\ request' = Request(f) /\ unsure' = unsure \cup {f.dlci}
          /\ asked' = IF Unpolled(f.type) = SABM THEN asked \cup {f.dlci} ELSE asked
    BY <1>5, Zenon DEF Ask
  <2>2. asked \subseteq asked' /\ (Unpolled(f.type) = SABM => f.dlci \in asked')
    BY <2>1
  <2>3. RunInv' /\ (~ strayed => harm' = "none")
    BY <1>4, <2>1, <2>2
  <2>4. /\ UNCHANGED <<chans, opened, replies, overread, strayed, faults>>
        /\ frame' = f /\ sending = <<>> /\ sending' # <<>>
    <3>1. /\ UNCHANGED <<chans, opened, replies, overread, strayed, faults>>
          /\ frame' = f /\ sending = <<>> /\ sending' = Bytes(f)
      BY <2>1, Zenon DEF Begins, line
    <3>2. Bytes(f) # <<>>
      <4>1. Len(f.payload) \in Nat /\ Len(Bytes(f)) = Len(f.payload) + 6
        BY SentFrame, LengthFacts, Zenon DEF FrameOf
      <4>2. Len(Bytes(f)) # 0
        BY <4>1, SMT
      <4>3. QED
        BY <4>2
    <3>3. QED
      BY <3>1, <3>2
  <2>5. TalkInv => TalkInv'
    <3>1. SUFFICES ASSUME TalkInv PROVE TalkInv'
      OBVIOUS
    <3>2. chans' \subseteq asked' /\ chans' \ unsure' = opened' \ unsure'
      BY <2>1, <2>2, <2>4, <3>1 DEF TalkInv
    <3>3. Asks(frame') /\ request'.dlci = f.dlci
      BY <2>1, <2>4, Polls DEF Asks, Request, Frame
    <3>4. faults = 0 => unsure = {}
      BY <2>1, <2>4, <3>1, Zenon DEF TalkInv
    <3>5. faults' = 0 => unsure' \subseteq {request'.dlci}
      BY <2>1, <2>4, <3>3, <3>4
    <3>6. f.dlci \in unsure' /\ replies' = <<>> /\ request' = Request(frame')
      BY <2>1, <2>4
    <3>7. QED
      BY <2>4, <3>2, <3>3, <3>5, <3>6, Zenon DEF TalkInv
  <2>6. CalmInv'
    BY <1>1, <2>3, <2>4, <2>5, Zenon DEF CalmInv
  <2>7. QED
    BY <1>2, <2>3, <2>6 DEF RunMuxInv
<1>6. CASE Send
  <2>1. PICK f \in Frames :
          /\ Begins(f) /\ Unpolled(f.type) = UIH
          /\ UNCHANGED <<request, unsure, asked>>
    BY <1>6, Zenon DEF Send
  <2>2. asked \subseteq asked' /\ Unpolled(f.type) # SABM
    BY <2>1, Polls
  <2>3. RunInv' /\ (~ strayed => harm' = "none")
    BY <1>4, <2>1, <2>2
  <2>4. /\ UNCHANGED <<chans, opened, replies, overread, strayed, faults>>
        /\ frame' = f /\ sending = <<>>
    BY <2>1, Zenon DEF Begins, line
  <2>5. TalkInv => TalkInv'
    <3>1. SUFFICES ASSUME TalkInv PROVE TalkInv'
      OBVIOUS
    <3>2. ~ Asks(frame')
      BY <2>1, <2>4 DEF Asks
    <3>3. Answered => Answered'
      BY <2>1, <2>4, Zenon DEF Answered
    <3>4. chans' \subseteq asked' /\ chans' \ unsure' = opened' \ unsure'
      BY <2>1, <2>4, <3>1, Zenon DEF TalkInv
    <3>5. QED
      BY <2>1, <2>4, <3>1, <3>2, <3>3, <3>4, Zenon DEF TalkInv
  <2>6. CalmInv'
    BY <1>1, <2>3, <2>4, <2>5, Zenon DEF CalmInv
  <2>7. QED
    BY <1>2, <2>3, <2>6 DEF RunMuxInv
<1>7. CASE Lose
  <2>1. /\ sending # <<>> /\ harm' = "astray" /\ strayed' /\ faults' = faults + 1
        /\ UNCHANGED <<frame, asked>>
    BY <1>7, Zenon DEF Lose, Harmed
  <2>2. faults' # 0
    BY <1>3, <2>1, SMT
  <2>3. RunInv' /\ CalmInv'
    BY <1>1, <2>1, <2>2, Zenon DEF RunInv, CalmInv
  <2>4. QED
    BY <1>2, <2>3 DEF RunMuxInv
<1>8. CASE CharReceived
  BY <1>2, <1>8, CharReceivedRun DEF RunMuxInv
<1>9. ASSUME UNCHANGED <<rx, chans, frame, sending, harm, decoded, asked,
                         overread, overwrote, strayed>>
      PROVE  RunInv' /\ (TalkInv' /\ (faults' = 0 => faults = 0) => CalmInv')
  BY <1>1, <1>9, Zenon DEF RunInv, CalmInv
<1>10. CASE Hear
  <2>1. /\ UNCHANGED <<rx, chans, frame, sending, harm, decoded, asked, overread,
                       overwrote, strayed, faults>>
        /\ replies # <<>> /\ replies' = Tail(replies)
    BY <1>10, Zenon DEF Hear, host, memory, line
  <2>2. TalkInv => TalkInv'
    BY <2>1, <1>10, HearTalk
  <2>3. strayed => CalmInv'
    BY <1>1, <2>1, Zenon DEF CalmInv
  <2>4. RunInv' /\ CalmInv'
    BY <1>1, <1>9, <2>1, <2>2, <2>3, Zenon DEF CalmInv
  <2>5. QED
    BY <1>2, <2>4 DEF RunMuxInv
<1>11. CASE LoseReply
  <2>1. /\ UNCHANGED <<rx, chans, frame, sending, harm, decoded, asked, overread,
                       overwrote, strayed, request, opened, unsure>>
        /\ replies # <<>> /\ replies' = Tail(replies) /\ faults' = faults + 1
    BY <1>11, Zenon DEF LoseReply, host, memory
  <2>2. faults' # 0
    BY <1>3, <2>1, SMT
  <2>3. TalkInv => TalkInv'
    <3>1. SUFFICES ASSUME TalkInv PROVE TalkInv'
      OBVIOUS
    <3>2. replies' = <<>>
      BY <2>1, <3>1 DEF TalkInv, Answered
    <3>3. chans' \subseteq asked' /\ chans' \ unsure' = opened' \ unsure'
      BY <2>1, <3>1, Zenon DEF TalkInv
    <3>4. ~ (sending # <<>> /\ Asks(frame))
      BY <2>1, <3>1, Zenon DEF TalkInv
    <3>5. QED
      BY <2>1, <2>2, <3>2, <3>3, <3>4, Zenon DEF TalkInv
  <2>4. strayed => CalmInv'
    BY <2>1, <2>2, Zenon DEF CalmInv
  <2>5. RunInv' /\ CalmInv'
    BY <1>1, <1>9, <2>1, <2>2, <2>3, <2>4, Zenon DEF CalmInv
  <2>6. QED
    BY <1>2, <2>5 DEF RunMuxInv
<1>12. CASE UNCHANGED <<rx, chans, frame, sending, harm, decoded, request,
                        replies, opened, unsure, asked, overread, overwrote,
                        strayed, faults>>
  <2>1. TalkInv => TalkInv'
    <3>1. Answered => Answered'
      BY <1>12, Zenon DEF Answered
    <3>2. QED
      BY <1>12, <3>1, Zenon DEF TalkInv
  <2>2. QED
    BY <1>1, <1>2, <1>12, <2>1, Zenon DEF RunMuxInv, RunInv, CalmInv
<1>13. ASSUME NEW c \in Uarts, Collect(c) \/ Flush(c) PROVE RunMuxInv'
  BY <1>12, <1>13, Zenon DEF Collect, Flush, host, talk, memory, line
<1>14. CASE UNCHANGED vars
  BY <1>12, <1>14 DEF vars, host, talk, memory, line
<1>15. QED
  BY <1>5, <1>6, <1>7, <1>8, <1>10, <1>11, <1>13, <1>14 DEF Next

\* At the start nothing is on the line.
LEMMA InitRun == Init => RunMuxInv
<1> SUFFICES ASSUME Init PROVE RunMuxInv
  OBVIOUS
<1>1. Unpolled(NoFrame.type) # SABM /\ NoFrame # Status(4)
  BY Polls DEF NoFrame, Status, Frame
<1>2. ~ Hunting.sof
  BY DEF Hunting
<1>3. TalkInv
  BY DEF Init, TalkInv
<1>4. RunInv /\ CalmInv
  BY <1>1, <1>2, <1>3, Zenon DEF Init, RunInv, CalmInv, Alike
<1>5. QED
  BY <1>4, InitInv DEF RunMuxInv

\* The invariant holds in every reachable state.
LEMMA RunMuxInvariant == Spec => []RunMuxInv
  BY InitRun, NextRun, PTL DEF Spec

-----------------------------------------------------------------------------
\* In every reachable state the variables have their types and the receiver
\* (GSMMux.cpp charReceived) has stored fewer bytes than its buffer holds,
\* whatever lengths it was told and whatever the line lost or changed.
THEOREM TypeCorrect == Spec => []TypeOK
<1>1. Init => MuxInv
  BY InitInv
<1>2. MuxInv /\ [Next]_vars => MuxInv'
  BY NextInv
<1>3. MuxInv => TypeOK
  BY DEF MuxInv
<1>4. QED
  BY <1>1, <1>2, <1>3, PTL DEF Spec

\* A frame that begins while charReceiver hunts for a start flag, and of
\* which no byte is lost or changed, is handed to frameDecode as it was sent,
\* once, with its end flag; and as long as the line does no harm every frame
\* begins so. A payload or a checksum that looks like a flag, or like a frame,
\* changes nothing.
THEOREM FramesArrive == Spec => []FramesArriveWhole
<1>1. RunMuxInv => FramesArriveWhole
  <2> SUFFICES ASSUME RunMuxInv PROVE FramesArriveWhole
    OBVIOUS
  <2>1. faults = 0 => harm = "none"
    BY Zenon DEF RunMuxInv, CalmInv
  <2>2. "none" # "astray"
    OBVIOUS
  <2>3. harm = "none" /\ frame # NoFrame
          => decoded = IF sending = <<>> THEN <<frame>> ELSE <<>>
    BY <2>2, Zenon DEF RunMuxInv, RunInv
  <2>4. QED
    BY <2>1, <2>3 DEF FramesArriveWhole
<1>2. QED
  BY <1>1, RunMuxInvariant, PTL

\* If of a frame that begins so one byte is changed, but not its first flag or
\* its length, then charReceiver hunts again when the frame is over, and
\* frameDecode has changed no more than what the frame was for: the channel,
\* the type and the size of what it accepted are those the host sent. No
\* changed header passes the checksum.
THEOREM ChangeCostsOneFrame == Spec => []AChangeCostsOneFrame
<1>1. RunMuxInv => AChangeCostsOneFrame
  <2> SUFFICES ASSUME RunMuxInv, harm = "bent" PROVE AChangeCostsOneFrame
    BY DEF AChangeCostsOneFrame
  <2>1. harm # "astray"
    OBVIOUS
  <2>2. RunInv
    BY DEF RunMuxInv
  <2>3. /\ sending # <<>> => decoded = <<>>
        /\ sending = <<>> => ~ rx.sof /\ Alike(frame, decoded)
    BY <2>1, <2>2, Zenon DEF RunInv
  <2>4. QED
    BY <2>3, Zenon DEF AChangeCostsOneFrame, Alike
<1>2. QED
  BY <1>1, RunMuxInvariant, PTL

\* GSMMux reads outside its buffer (frameDecode, buffer[length]) only after
\* the line did more harm to a frame than to bend one byte of it; short of that
\* it writes past chan_v24 only for a status, and if that came as it was sent,
\* for that of channel 4 and for no other.
THEOREM StraysAreCaused == Spec => []StraysHaveACause
<1>1. RunMuxInv => StraysHaveACause
  <2> SUFFICES ASSUME RunMuxInv PROVE StraysHaveACause
    OBVIOUS
  <2>1. ~ strayed => ~ overread
    BY Zenon DEF RunMuxInv, CalmInv
  <2>2. harm # "astray" /\ overwrote => \E c \in Channels : frame = Status(c)
    BY Zenon DEF RunMuxInv, RunInv
  <2>3. harm = "none" => (overwrote <=> frame = Status(4) /\ sending = <<>>)
    <3>1. "none" # "astray"
      OBVIOUS
    <3>2. QED
      BY <3>1, Zenon DEF RunMuxInv, RunInv
  <2>4. QED
    BY <2>1, <2>2, <2>3, Zenon DEF StraysHaveACause
<1>2. QED
  BY <1>1, RunMuxInvariant, PTL

\* As long as no frame suffers more than a bent byte, but as often as it may
\* be, and whatever replies are lost, the bits that frameDecode sets and clears
\* are those of channels the host asked to open, and those it takes for open by
\* the replies it heard, channels aside whose last request is unanswered; and
\* if nothing was lost, every request is answered.
THEOREM ChannelsAgree == Spec => []ChannelsFollowTheHost
<1>1. RunMuxInv => ChannelsFollowTheHost
  BY Zenon DEF RunMuxInv, CalmInv, TalkInv, ChannelsFollowTheHost
<1>2. QED
  BY <1>1, RunMuxInvariant, PTL
=============================================================================
