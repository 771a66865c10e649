------------------------- MODULE Pn532ProxyProofs -------------------------
(***************************************************************************)
(* Theorems about Pn532Proxy, for every number of byte values and faults.  *)
(* The arguments rest on what PKTData remembers while it reads a header    *)
(* (HeaderSoFar): the types of its members alone are not inductive.        *)
(***************************************************************************)
EXTENDS Pn532Proxy, SequenceTheorems, TLAPS

\* Out of a payload: which header bytes have been read, by header_index.
HeaderSoFar(p) ==
  p.len = None =>
    /\ p.index <= 0
    /\ p.unit > 0 => p.index = 0
    /\ p.index = 0 => p.headerLen = None
    /\ p.index = -3 => p.extended
    /\ p.index = -2 /\ p.extended => p.headerLen >= 0
    /\ p.index = -1 => p.headerLen >= 2

PacketInv(p) == FollowsPackets(p) /\ HeaderSoFar(p)

\* What the numbers of the module are.
LEMMA Numbers ==
  /\ 0 \in Byte /\ Top \in Byte /\ Byte \subseteq Nat
  /\ Base \in Nat /\ Base > 3 /\ Top = Base - 1 /\ None = -1
  BY BytesAssumption, SMT DEF Byte, Top, None

\* The types of the members of a PKTData.
LEMMA Fields ==
  ASSUME NEW p, PacketInv(p)
  PROVE  /\ p \in PacketData
         /\ p.len \in {None} \cup (Nat \ {0}) /\ p.headerLen \in {None} \cup Nat
         /\ p.index \in -3 .. 1 /\ p.unit \in 0 .. 4
         /\ p.preamble \in BOOLEAN /\ p.extended \in BOOLEAN
         /\ p.header \in [1 .. 8 -> Byte] /\ p.buffer \in Seq(Byte)
  BY DEF PacketInv, FollowsPackets, PacketData

\* A header not yet read whole: nothing is buffered.
LEMMA Unbuffered ==
  ASSUME NEW p, PacketInv(p), p.len = None
  PROVE  /\ p.buffer = <<>> /\ p.index \in -3 .. 0
         /\ p.index = 0 => p.headerLen = None
         /\ p.index < 0 => p.unit = 0
  BY Fields, Numbers, SMT DEF PacketInv, FollowsPackets, HeaderSoFar

\* A fresh PKTData is looking for a header.
LEMMA ResetInv == PacketInv(Reset) /\ Reset.len = None /\ Reset.buffer = <<>>
<1>1. Reset \in PacketData
  <2>1. /\ 0 \in {None} \cup Nat /\ None \in {None} \cup (Nat \ {0})
        /\ 0 \in -3 .. 1 /\ 0 \in 0 .. 4 /\ None \in {None} \cup Nat
    BY SMT
  <2>2. <<0, 0, Top, 0, 0, 0, 0, 0>> \in [1 .. 8 -> Byte]
    BY Numbers, SMT
  <2>3. <<>> \in Seq(Byte)
    OBVIOUS
  <2>4. QED
    BY <2>1, <2>2, <2>3, Zenon DEF PacketData, Reset
<1>2. QED
  BY <1>1, SMT DEF PacketInv, FollowsPackets, HeaderSoFar, Reset

\* A PKTData with nothing buffered, from its members.
LEMMA HeaderInv ==
  ASSUME NEW q, q \in PacketData, q.len = None, q.buffer = <<>>,
         q.index <= 0, q.unit > 0 => q.index = 0,
         q.index = 0 => q.headerLen = None,
         q.index = -3 => q.extended,
         q.index = -2 /\ q.extended => q.headerLen >= 0,
         q.index = -1 => q.headerLen >= 2
  PROVE  PacketInv(q)
<1>1. q.index < 0 \/ q.headerLen = None
  BY SMT DEF PacketData
<1>2. QED
  BY <1>1, Zenon DEF PacketInv, FollowsPackets, HeaderSoFar

\* The search for a preamble.
LEMMA HuntInv ==
  ASSUME NEW p, PacketInv(p), p.len = None, p.index = 0, p.unit = 0,
         NEW b \in Byte
  PROVE  PacketInv(SearchPreambleStart(p, b))
<1> DEFINE q == SearchPreambleStart(p, b)
<1>0. \/ q = [p EXCEPT !.preamble = FALSE, !.index = -2, !.extended = FALSE]
      \/ q = [p EXCEPT !.preamble = FALSE, !.unit = 4]
      \/ q = [p EXCEPT !.preamble = TRUE]
      \/ q = [p EXCEPT !.preamble = FALSE]
  BY DEF SearchPreambleStart
<1> HIDE DEF q
<1>1. p \in PacketData /\ -2 \in -3 .. 1 /\ 4 \in 0 .. 4
  BY Fields, SMT
<1>2. p.headerLen = None /\ p.buffer = <<>>
  BY Unbuffered
<1>3. ASSUME q = [p EXCEPT !.preamble = FALSE, !.index = -2,
                           !.extended = FALSE]
      PROVE  PacketInv(q)
  <2>1. q \in PacketData
    BY <1>1, <1>3, Zenon DEF PacketData
  <2>2. q.len = None /\ q.buffer = <<>> /\ q.unit = 0 /\ q.index = -2
        /\ q.extended = FALSE
    BY <1>1, <1>2, <1>3, SMT DEF PacketData
  <2>3. QED
    BY <2>1, <2>2, HeaderInv, SMT
<1>4. ASSUME q = [p EXCEPT !.preamble = FALSE, !.unit = 4]
      PROVE  PacketInv(q)
  <2>1. q \in PacketData
    BY <1>1, <1>4, Zenon DEF PacketData
  <2>2. q.len = None /\ q.buffer = <<>> /\ q.index = 0 /\ q.headerLen = None
    BY <1>1, <1>2, <1>4, SMT DEF PacketData
  <2>3. QED
    BY <2>1, <2>2, HeaderInv, SMT
<1>5. ASSUME NEW f \in BOOLEAN, q = [p EXCEPT !.preamble = f]
      PROVE  PacketInv(q)
  <2>1. q \in PacketData
    BY <1>1, <1>5, Zenon DEF PacketData
  <2>2. q.len = None /\ q.buffer = <<>> /\ q.index = 0 /\ q.headerLen = None
    BY <1>1, <1>2, <1>5, SMT DEF PacketData
  <2>3. QED
    BY <2>1, <2>2, HeaderInv, SMT
<1>6. QED
  BY <1>0, <1>3, <1>4, <1>5, Zenon DEF q

\* A byte of a unit command.
LEMMA UnitInv ==
  ASSUME NEW p, PacketInv(p), p.len = None, p.unit > 0, NEW b \in Byte
  PROVE  PacketInv(UnitCommand(p, b))
<1> DEFINE h == [p.header EXCEPT ![9 - p.unit] = b]
           u == p.unit - 1
           q == [p EXCEPT !.header = h, !.unit = u]
<1>1. p \in PacketData /\ p.index = 0 /\ p.headerLen = None /\ p.buffer = <<>>
      /\ u \in 0 .. 4
  BY Fields, Unbuffered, SMT
<1>2. h \in [1 .. 8 -> Byte]
  BY Fields, SMT
<1>3. q = UnitCommand(p, b)
  BY DEF UnitCommand
<1> HIDE DEF h, u
<1>4. q \in PacketData
  BY <1>1, <1>2, Zenon DEF PacketData
<1>5. q.len = None /\ q.buffer = <<>> /\ q.index = 0 /\ q.headerLen = None
  BY <1>1, SMT DEF PacketData
<1> HIDE DEF q
<1>6. QED
  BY <1>3, <1>4, <1>5, HeaderInv, SMT

\* The header of a standard packet, of an ACK and of a NACK.
LEMMA StandardInv ==
  ASSUME NEW p, PacketInv(p), p.len = None, p.index < 0, ~ p.extended,
         NEW b \in Byte
  PROVE  PacketInv(DecodeStandardHeader(p, b))
<1> DEFINE q == DecodeStandardHeader(p, b)
           h4 == [p.header EXCEPT ![4] = b]
           h5 == [p.header EXCEPT ![5] = b]
           n == b + 2
<1>1. /\ p \in PacketData /\ p.index \in {-2, -1} /\ p.buffer = <<>>
      /\ p.unit = 0
      /\ p.index = -1 => p.headerLen >= 2
      /\ p.headerLen \in {None} \cup Nat
  BY Fields, Unbuffered, Numbers, SMT DEF PacketInv, HeaderSoFar
<1>p. DOMAIN p = {"len", "headerLen", "index", "preamble", "extended",
                  "header", "buffer", "unit"}
  BY Fields, SMT DEF PacketData
<1>h. h4 \in [1 .. 8 -> Byte] /\ h5 \in [1 .. 8 -> Byte]
  BY Fields, Zenon
<1>n. n \in {None} \cup Nat /\ n >= 2
  BY Numbers, SMT
<1>2. /\ -1 \in -3 .. 1 /\ 1 \in -3 .. 1 /\ -3 \in -3 .. 1 /\ 0 \in -3 .. 1
      /\ 1 \in {None} \cup (Nat \ {0}) /\ 1 \in {None} \cup Nat
  BY SMT
<1>3. CASE p.index = -2
  <2>1. q = [p EXCEPT !.header = h4, !.headerLen = n, !.index = -1]
    BY <1>3 DEF DecodeStandardHeader
  <2> HIDE DEF q, h4, n
  <2>2. q \in PacketData
    BY <1>1, <1>2, <1>h, <1>n, <2>1, Zenon DEF PacketData
  <2>3. /\ q.len = None /\ q.buffer = <<>> /\ q.index = -1 /\ q.unit = 0
        /\ q.headerLen = n
    BY <1>1, <1>p, <2>1, SMTT(30)
  <2>4. PacketInv(q)
    BY <1>1, <1>n, <2>2, <2>3, HeaderInv, SMT
  <2>5. QED
    BY <2>4 DEF q
<1>4. CASE p.index = -1 /\ Acknowledges(p, b)
  <2>1. q = [p EXCEPT !.header = h5, !.index = 1, !.headerLen = 1, !.len = 1]
    BY <1>4, SMT DEF DecodeStandardHeader
  <2> HIDE DEF q, h5
  <2>2. q \in PacketData
    BY <1>1, <1>2, <1>h, <1>n, <2>1, Zenon DEF PacketData
  <2>3. q.len = 1 /\ q.buffer = <<>> /\ q.headerLen = 1
    BY <1>1, <1>p, <2>1, SMTT(30)
  <2>4. PacketInv(q)
    BY <2>2, <2>3, Numbers, SMT DEF PacketInv, FollowsPackets, HeaderSoFar
  <2>5. QED
    BY <2>4 DEF q
<1>5. CASE p.index = -1 /\ ~ Acknowledges(p, b) /\ AnnouncesExtended(p, b)
  <2>1. q = [p EXCEPT !.header = h5, !.index = -3, !.extended = TRUE]
    BY <1>5, SMT DEF DecodeStandardHeader
  <2> HIDE DEF q, h5
  <2>2. q \in PacketData
    BY <1>1, <1>2, <1>h, <1>n, <2>1, Zenon DEF PacketData
  <2>3. /\ q.len = None /\ q.buffer = <<>> /\ q.index = -3 /\ q.unit = 0
        /\ q.extended = TRUE
    BY <1>1, <1>p, <2>1, SMTT(30)
  <2>4. PacketInv(q)
    BY <2>2, <2>3, HeaderInv, SMT
  <2>5. QED
    BY <2>4 DEF q
<1>6. CASE /\ p.index = -1 /\ ~ Acknowledges(p, b)
           /\ ~ AnnouncesExtended(p, b) /\ LengthChecks(p, b)
  <2>1. q = [p EXCEPT !.header = h5, !.index = 0, !.len = p.headerLen]
    BY <1>6, SMT DEF DecodeStandardHeader
  <2>2. p.headerLen \in {None} \cup (Nat \ {0}) /\ p.headerLen # None
    <3>1. p.headerLen >= 2 /\ p.headerLen \in {None} \cup Nat
      BY <1>1, <1>6
    <3>2. QED
      BY <3>1, Numbers, SMT
  <2> HIDE DEF q, h5
  <2>3. q \in PacketData
    BY <1>1, <1>2, <1>h, <2>1, <2>2, Zenon DEF PacketData
  <2>4. q.len = p.headerLen /\ q.buffer = <<>> /\ q.headerLen = p.headerLen
    BY <1>1, <1>p, <2>1, SMTT(30)
  <2>5. PacketInv(q)
    BY <2>2, <2>3, <2>4, Numbers, SMT DEF PacketInv, FollowsPackets,
       HeaderSoFar
  <2>6. QED
    BY <2>5 DEF q
<1>7. CASE /\ p.index = -1 /\ ~ Acknowledges(p, b)
           /\ ~ AnnouncesExtended(p, b) /\ ~ LengthChecks(p, b)
  BY <1>7, ResetInv, SMT DEF DecodeStandardHeader, BadHeader
<1>8. QED
  BY <1>1, <1>3, <1>4, <1>5, <1>6, <1>7, Zenon

\* The three bytes of an extended header.
LEMMA ExtendedInv ==
  ASSUME NEW p, PacketInv(p), p.len = None, p.index < 0, p.extended,
         NEW b \in Byte
  PROVE  PacketInv(DecodeExtendedHeader(p, b))
<1> DEFINE q == DecodeExtendedHeader(p, b)
           h6 == [p.header EXCEPT ![6] = b]
           h7 == [p.header EXCEPT ![7] = b]
           h8 == [p.header EXCEPT ![8] = b]
           n == b * Base
           m == p.headerLen + b + 2
<1>1. /\ p \in PacketData /\ p.index \in {-3, -2, -1} /\ p.buffer = <<>>
      /\ p.unit = 0
      /\ p.index = -2 => p.headerLen >= 0
      /\ p.index = -1 => p.headerLen >= 2
      /\ p.headerLen \in {None} \cup Nat
  BY Fields, Unbuffered, Numbers, SMT DEF PacketInv, HeaderSoFar
<1>p. DOMAIN p = {"len", "headerLen", "index", "preamble", "extended",
                  "header", "buffer", "unit"}
  BY Fields, SMT DEF PacketData
<1>h. /\ h6 \in [1 .. 8 -> Byte] /\ h7 \in [1 .. 8 -> Byte]
      /\ h8 \in [1 .. 8 -> Byte]
  BY Fields, Zenon
<1>2. -2 \in -3 .. 1 /\ -1 \in -3 .. 1
  BY SMT
<1>3. n \in Nat /\ n \in {None} \cup Nat
  BY Numbers, SMT
<1>4. CASE p.index = -3
  <2>1. q = [p EXCEPT !.header = h6, !.headerLen = n, !.index = -2]
    BY <1>4 DEF DecodeExtendedHeader
  <2> HIDE DEF q, h6, n
  <2>2. q \in PacketData
    BY <1>1, <1>2, <1>3, <1>h, <2>1, Zenon DEF PacketData
  <2>3. /\ q.len = None /\ q.buffer = <<>> /\ q.index = -2 /\ q.unit = 0
        /\ q.headerLen = n
    BY <1>1, <1>p, <2>1, SMTT(30)
  <2>4. PacketInv(q)
    BY <1>3, <2>2, <2>3, HeaderInv, SMT
  <2>5. QED
    BY <2>4 DEF q
<1>5. CASE p.index = -2
  <2>1. q = [p EXCEPT !.header = h7, !.headerLen = m, !.index = -1]
    BY <1>5 DEF DecodeExtendedHeader
  <2>2. m \in {None} \cup Nat /\ m >= 2
    <3>1. p.headerLen >= 0 /\ p.headerLen \in {None} \cup Nat /\ b \in Nat
      BY <1>1, <1>5, Numbers
    <3>2. QED
      BY <3>1, Numbers, SMT
  <2> HIDE DEF q, h7, m
  <2>3. q \in PacketData
    BY <1>1, <1>2, <1>h, <2>1, <2>2, Zenon DEF PacketData
  <2>4. /\ q.len = None /\ q.buffer = <<>> /\ q.index = -1 /\ q.unit = 0
        /\ q.headerLen = m
    BY <1>1, <1>p, <2>1, SMTT(30)
  <2>5. PacketInv(q)
    BY <2>2, <2>3, <2>4, HeaderInv, SMT
  <2>6. QED
    BY <2>5 DEF q
<1>6. CASE p.index = -1 /\ ExtendedChecks(p, b)
  <2>1. q = [p EXCEPT !.header = h8, !.len = p.headerLen]
    BY <1>6, SMT DEF DecodeExtendedHeader
  <2>2. p.headerLen \in {None} \cup (Nat \ {0}) /\ p.headerLen # None
    <3>1. p.headerLen >= 2 /\ p.headerLen \in {None} \cup Nat
      BY <1>1, <1>6
    <3>2. QED
      BY <3>1, Numbers, SMT
  <2> HIDE DEF q, h8
  <2>3. q \in PacketData
    BY <1>1, <1>h, <2>1, <2>2, Zenon DEF PacketData
  <2>4. q.len = p.headerLen /\ q.buffer = <<>> /\ q.headerLen = p.headerLen
    BY <1>1, <1>p, <2>1, SMTT(30)
  <2>5. PacketInv(q)
    BY <2>2, <2>3, <2>4, Numbers, SMT DEF PacketInv, FollowsPackets,
       HeaderSoFar
  <2>6. QED
    BY <2>5 DEF q
<1>7. CASE p.index = -1 /\ ~ ExtendedChecks(p, b)
  BY <1>7, ResetInv, SMT DEF DecodeExtendedHeader, BadHeader
<1>8. QED
  BY <1>1, <1>4, <1>5, <1>6, <1>7, Zenon

\* A payload byte is buffered; the last one resets.
LEMMA ProxyInv ==
  ASSUME NEW p, PacketInv(p), p.len # None, NEW b \in Byte
  PROVE  /\ PacketInv(ProxyByte(p, b))
         /\ ~ Passes(p) => ProxyByte(p, b).buffer # <<>>
<1>1. CASE Passes(p)
  BY <1>1, ResetInv DEF ProxyByte
<1>2. CASE ~ Passes(p)
  <2> DEFINE u == Append(p.buffer, b)
             n == p.len - 1
             q == [p EXCEPT !.buffer = u, !.len = n]
  <2>1. q = ProxyByte(p, b)
    BY <1>2 DEF ProxyByte
  <2>2. /\ p \in PacketData /\ n \in {None} \cup (Nat \ {0}) /\ n # None
        /\ p.len + Len(p.buffer) = p.headerLen /\ p.len \in Nat
    BY <1>2, Fields, Numbers, SMT DEF Passes, PacketInv, FollowsPackets
  <2>3. u \in Seq(Byte) /\ Len(u) = Len(p.buffer) + 1 /\ u # <<>>
    BY Fields
  <2>4. Len(p.buffer) \in Nat
    BY Fields
  <2>5. n + Len(u) = p.headerLen
    BY <2>2, <2>3, <2>4, SMT
  <2> HIDE DEF u, n, q
  <2>6. q \in PacketData
    BY <2>2, <2>3, Zenon DEF PacketData, q
  <2>7. q.len = n /\ q.buffer = u /\ q.headerLen = p.headerLen
    BY <2>2, SMT DEF PacketData, q
  <2>8. PacketInv(q) /\ q.buffer # <<>>
    BY <2>2, <2>3, <2>5, <2>6, <2>7, SMT DEF PacketInv, FollowsPackets,
       HeaderSoFar
  <2>9. QED
    BY <2>1, <2>8
<1>3. QED
  BY <1>1, <1>2

\* addByte keeps the invariant, whatever the byte; a payload is buffered
\* from its first byte until its last.
LEMMA AddByteInv ==
  ASSUME NEW p, PacketInv(p), NEW b \in Byte
  PROVE  /\ PacketInv(AddByte(p, b))
         /\ p.len # None /\ ~ Passes(p) => AddByte(p, b).buffer # <<>>
<1>1. CASE p.len # None
  BY <1>1, ProxyInv DEF AddByte
<1>2. CASE p.len = None
  <2>1. AddByte(p, b) = DecodeHeader(p, b)
    BY <1>2, Unbuffered, Fields, SMT DEF AddByte
  <2>2. /\ p.unit \in 0 .. 4 /\ p.index \in -3 .. 0 /\ p.extended \in BOOLEAN
        /\ p.index < 0 => p.unit = 0
    BY <1>2, Fields, Unbuffered
  <2>3. CASE p.unit > 0
    BY <1>2, <2>1, <2>3, UnitInv DEF DecodeHeader
  <2>4. CASE p.unit = 0 /\ p.index = 0
    BY <1>2, <2>1, <2>4, HuntInv, SMT DEF DecodeHeader
  <2>5. CASE p.unit = 0 /\ p.index < 0
    <3>1. DecodeHeader(p, b) = IF p.extended THEN DecodeExtendedHeader(p, b)
                                             ELSE DecodeStandardHeader(p, b)
      BY <2>2, <2>5, SMT DEF DecodeHeader
    <3>2. QED
      BY <1>2, <2>1, <2>5, <3>1, StandardInv, ExtendedInv
  <2>6. QED
    BY <1>2, <2>2, <2>3, <2>4, <2>5, SMT
<1>3. QED
  BY <1>1, <1>2

-----------------------------------------------------------------------------
(* Frames and sequences.                                                   *)

\* The bytes that make a sum come out even are bytes.
LEMMA MinusByte == \A n \in Int : Minus(n) \in Byte
  BY BytesAssumption, SMT DEF Minus, Byte, Top

\* The byte behind a length makes the sum come out even; it is not the byte that
\* would make the two an ACK, a NACK or the announcement of an extended packet.
LEMMA MinusSums ==
  ASSUME NEW n \in Byte
  PROVE  /\ (Minus(n) + n) % Base = 0
         /\ n = 0 => Minus(n) # Top
         /\ n = Top => Minus(n) # 0
         /\ n = Top - 1 => Minus(n) # Top
<1>1. n \in Nat /\ n < Base /\ Base \in Nat /\ Base > 3 /\ Top = Base - 1
  BY Numbers, SMT DEF Byte
<1>2. CASE n = 0
  <2>1. Minus(n) = 0
    BY <1>1, <1>2, SMT DEF Minus
  <2>2. QED
    BY <1>1, <1>2, <2>1, SMT
<1>3. CASE n > 0
  <2>1. Minus(n) = Base - n
    BY <1>1, <1>3, SMTT(30) DEF Minus
  <2>2. Minus(n) + n = Base
    BY <1>1, <2>1, SMT
  <2>3. Base % Base = 0
    BY <1>1, SMT
  <2>4. QED
    BY <1>1, <1>3, <2>1, <2>2, <2>3, SMT
<1>4. QED
  BY <1>1, <1>2, <1>3, SMT

\* What is sent are sequences of bytes.
LEMMA FramesAreBytes == \A f \in Frames : f \in Seq(Byte)
<1>1. Ack \in Seq(Byte) /\ Nack \in Seq(Byte)
  BY Numbers DEF Ack, Nack
<1>2. ASSUME NEW d \in Data PROVE Standard(d) \in Seq(Byte)
  <2> DEFINE n == Len(d) - 2
             m == Minus(n)
  <2>1. d \in Seq(Byte) /\ n \in Byte /\ m \in Byte
    <3>1. d \in Seq(Byte) /\ n \in 0 .. Top
      BY BytesAssumption
    <3>2. n \in Byte /\ n \in Int
      BY <3>1, Numbers, SMT DEF Byte
    <3>3. QED
      BY <3>1, <3>2, MinusByte
  <2>2. Standard(d) = <<0, 0, Top, n, m>> \o d
    BY DEF Standard
  <2> HIDE DEF n, m
  <2>3. <<0, 0, Top, n, m>> \in Seq(Byte)
    BY <2>1, Numbers
  <2>4. QED
    BY <2>1, <2>2, <2>3, ConcatProperties
<1>3. ASSUME NEW d \in ExtendedData PROVE Extended(d) \in Seq(Byte)
  <2> DEFINE a == (Len(d) - 2) \div Base
             c == (Len(d) - 2) % Base
             m == Minus(a + c)
  <2>1. d \in Seq(Byte) /\ a \in Byte /\ c \in Byte /\ m \in Byte
    <3>1. d \in Seq(Byte) /\ Len(d) - 2 \in 0 .. Top * Base
      BY BytesAssumption
    <3>2. /\ Base \in Nat /\ Base > 3 /\ Top \in Nat /\ Top * Base \in Nat
      BY Numbers, SMT
    <3>3. c \in Byte
      BY <3>1, <3>2, Numbers, SMT DEF Byte
    <3>4. a \in Byte
      BY <3>1, <3>2, Numbers, SMTT(60) DEF Byte
    <3>5. a + c \in Int
      BY <3>3, <3>4, Numbers, SMT
    <3>6. QED
      BY <3>1, <3>3, <3>4, <3>5, MinusByte
  <2>2. Extended(d) = <<0, 0, Top, Top, Top, a, c, m>> \o d
    BY DEF Extended
  <2> HIDE DEF a, c, m
  <2>3. <<0, 0, Top, Top, Top, a, c, m>> \in Seq(Byte)
    BY <2>1, Numbers
  <2>4. QED
    BY <2>1, <2>2, <2>3, ConcatProperties
<1>4. QED
  BY <1>1, <1>2, <1>3 DEF Frames

\* The part of a header that is sent in front of a payload.
LEMMA HeaderPart ==
  ASSUME NEW h \in [1 .. 8 -> Byte], NEW n \in {5, 8}
  PROVE  /\ SubSeq(h, 1, n) \in Seq(Byte) /\ Len(SubSeq(h, 1, n)) = n
         /\ \A i \in 1 .. n : SubSeq(h, 1, n)[i] = h[i]
<1>1. h \in Seq(Byte) /\ Len(h) = 8
  <2>1. h \in Seq(Byte)
    BY SeqDef
  <2>2. DOMAIN h = 1 .. 8 /\ DOMAIN h = 1 .. Len(h) /\ Len(h) \in Nat
    BY <2>1, LenProperties
  <2>3. QED
    BY <2>1, <2>2, SMT
<1>2. QED
  BY <1>1, SMT

\* A packet passed on: its header, and behind it what was announced.
LEMMA PacketShape ==
  ASSUME NEW p, PacketInv(p), Passes(p), NEW b \in Byte,
         NEW n, n = IF p.extended THEN 8 ELSE 5
  PROVE  /\ Packet(p, b) \in Seq(Byte)
         /\ Len(Packet(p, b)) = n + p.headerLen
         /\ \A i \in 1 .. n : Packet(p, b)[i] = p.header[i]
<1> DEFINE s == SubSeq(p.header, 1, n)
           u == Append(p.buffer, b)
<1>1. /\ p.len = 1 /\ p.len + Len(p.buffer) = p.headerLen
      /\ p.buffer \in Seq(Byte) /\ p.header \in [1 .. 8 -> Byte]
      /\ n \in {5, 8}
  BY Fields, Numbers, SMT DEF PacketInv, FollowsPackets, Passes
<1>2. u \in Seq(Byte) /\ Len(u) = Len(p.buffer) + 1 /\ Len(p.buffer) \in Nat
  BY <1>1
<1>3. /\ s \in Seq(Byte) /\ Len(s) = n
      /\ \A i \in 1 .. n : s[i] = p.header[i]
  BY <1>1, HeaderPart
<1>4. Packet(p, b) = s \o u
  BY DEF Packet
<1> HIDE DEF s, u
<1>5. /\ s \o u \in Seq(Byte) /\ Len(s \o u) = n + Len(u)
      /\ \A i \in 1 .. n : (s \o u)[i] = s[i]
  <2>1. s \o u \in Seq(Byte) /\ Len(s \o u) = Len(s) + Len(u)
    BY <1>2, <1>3, ConcatProperties
  <2>2. \A i \in 1 .. Len(s) : (s \o u)[i] = s[i]
    BY <1>2, <1>3, ConcatProperties, SMT
  <2>3. QED
    BY <1>3, <2>1, <2>2
<1>6. Len(u) = p.headerLen
  BY <1>1, <1>2, SMT
<1>7. QED
  BY <1>3, <1>4, <1>5, <1>6

\* What addByte passes on is a sequence of packets of bytes.
LEMMA PassedType ==
  ASSUME NEW p, PacketInv(p), NEW b \in Byte
  PROVE  Passed(p, b) \in Seq(Seq(Byte))
<1>1. CASE Passes(p)
  <2> DEFINE f == Packet(p, b)
  <2>1. f \in Seq(Byte) /\ Passed(p, b) = <<f>>
    BY <1>1, PacketShape DEF Passed
  <2> HIDE DEF f
  <2>2. QED
    BY <2>1
<1>2. CASE ~ Passes(p)
  BY <1>2 DEF Passed
<1>3. QED
  BY <1>1, <1>2

-----------------------------------------------------------------------------
(* The bytes of the header: what they announced, and that it checked.      *)

Checked(p) ==
  IF p.extended
  THEN /\ p.headerLen = p.header[6] * Base + p.header[7] + 2
       /\ p.header[7] + 2 < Base
            => (p.header[6] + p.header[7] + p.header[8]) % Base = 0
  ELSE \/ p.headerLen = 1 /\ p.header[4] = 0 /\ p.header[5] = Top
       \/ p.headerLen = 1 /\ p.header[4] = Top /\ p.header[5] = 0
       \/ /\ p.headerLen = p.header[4] + 2
          /\ (p.header[4] + p.header[5]) % Base = 0

Announced(p) ==
  /\ p.header[1] = 0 /\ p.header[2] = 0 /\ p.header[3] = Top
  /\ p.extended => p.header[4] = Top - 1 /\ p.header[5] = Top
  /\ p.len # None => Checked(p)
  /\ p.len = None =>
       /\ p.extended => p.index < 0
       /\ ~ p.extended /\ p.index = -1 => p.headerLen = p.header[4] + 2
       /\ p.extended /\ p.index = -2 => p.headerLen = p.header[6] * Base
       /\ p.extended /\ p.index = -1
            => p.headerLen = p.header[6] * Base + p.header[7] + 2

\* The members a PKTData has.
LEMMA Members ==
  ASSUME NEW p, p \in PacketData
  PROVE  DOMAIN p = {"len", "headerLen", "index", "preamble", "extended",
                     "header", "buffer", "unit"}
  BY SMT DEF PacketData

\* A fresh PKTData has announced nothing.
LEMMA ResetAnnounced == Announced(Reset)
  BY SMT DEF Announced, Checked, Reset, None, Top

\* In the search for a preamble and in a unit command.
LEMMA HuntAnnounced ==
  ASSUME NEW p, PacketInv(p), Announced(p), p.len = None, p.index = 0,
         NEW b \in Byte
  PROVE  /\ p.unit = 0 => Announced(SearchPreambleStart(p, b))
         /\ p.unit > 0 => Announced(UnitCommand(p, b))
<1>1. /\ p \in PacketData /\ ~ p.extended /\ p.extended = FALSE
      /\ p.header \in [1 .. 8 -> Byte] /\ p.unit \in 0 .. 4
      /\ p.header[1] = 0 /\ p.header[2] = 0 /\ p.header[3] = Top
  BY Fields, SMT DEF Announced
<1>2. ASSUME p.unit = 0 PROVE Announced(SearchPreambleStart(p, b))
  <2> DEFINE q == SearchPreambleStart(p, b)
  <2>1. \/ q = [p EXCEPT !.preamble = FALSE, !.index = -2, !.extended = FALSE]
        \/ q = [p EXCEPT !.preamble = FALSE, !.unit = 4]
        \/ q = [p EXCEPT !.preamble = TRUE]
        \/ q = [p EXCEPT !.preamble = FALSE]
    BY DEF SearchPreambleStart
  <2> HIDE DEF q
  <2>d. DOMAIN p = {"len", "headerLen", "index", "preamble", "extended",
                    "header", "buffer", "unit"}
    BY <1>1, Members
  <2> DEFINE Same == /\ q.len = p.len /\ q.header = p.header
                     /\ q.extended = FALSE /\ q.index \in {0, -2}
  <2>2. Same
    <3>1. ASSUME q = [p EXCEPT !.preamble = FALSE, !.index = -2,
                               !.extended = FALSE]
          PROVE  Same
      BY <1>1, <2>d, <3>1, SMTT(30)
    <3>2. ASSUME q = [p EXCEPT !.preamble = FALSE, !.unit = 4]
          PROVE  Same
      BY <1>1, <2>d, <3>2, SMTT(30)
    <3>3. ASSUME q = [p EXCEPT !.preamble = TRUE] PROVE Same
      BY <1>1, <2>d, <3>3, SMTT(30)
    <3>4. ASSUME q = [p EXCEPT !.preamble = FALSE] PROVE Same
      BY <1>1, <2>d, <3>4, SMTT(30)
    <3> HIDE DEF Same
    <3>5. QED
      BY <2>1, <3>1, <3>2, <3>3, <3>4, Zenon
  <2>3. Announced(q)
    BY <1>1, <2>2, SMT DEF Announced
  <2>4. QED
    BY <2>3 DEF q
<1>3. ASSUME p.unit > 0 PROVE Announced(UnitCommand(p, b))
  <2> DEFINE q == UnitCommand(p, b)
  <2>1. /\ q.header = [p.header EXCEPT ![9 - p.unit] = b]
        /\ q.len = p.len /\ q.extended = FALSE /\ q.index = 0
    BY <1>1, SMTT(30) DEF PacketData, UnitCommand
  <2> HIDE DEF q
  <2>2. 9 - p.unit \in 5 .. 8
    BY <1>1, <1>3, SMT
  <2>3. /\ q.header[1] = p.header[1] /\ q.header[2] = p.header[2]
        /\ q.header[3] = p.header[3]
    BY <1>1, <2>1, <2>2, SMT
  <2>4. Announced(q)
    BY <1>1, <2>1, <2>3, SMT DEF Announced
  <2>5. QED
    BY <2>4 DEF q
<1>4. QED
  BY <1>2, <1>3

\* In the header of a standard packet, of an ACK and of a NACK.
LEMMA StandardAnnounced ==
  ASSUME NEW p, PacketInv(p), Announced(p), p.len = None, p.index < 0,
         ~ p.extended, NEW b \in Byte
  PROVE  Announced(DecodeStandardHeader(p, b))
<1> DEFINE q == DecodeStandardHeader(p, b)
           h == p.header
<1>1. /\ p \in PacketData /\ p.extended = FALSE
      /\ h \in [1 .. 8 -> Byte] /\ p.index \in {-2, -1}
      /\ h[1] = 0 /\ h[2] = 0 /\ h[3] = Top
      /\ p.index = -1 => p.headerLen = h[4] + 2
  <2>1. p \in PacketData /\ p.extended = FALSE /\ h \in [1 .. 8 -> Byte]
    BY Fields, Zenon
  <2>2. p.index \in {-2, -1}
    <3>1. p.index \in -3 .. 0 /\ p.index # -3
      BY Unbuffered, Zenon DEF PacketInv, HeaderSoFar
    <3>2. QED
      BY <3>1, SMT
  <2>3. /\ h[1] = 0 /\ h[2] = 0 /\ h[3] = Top
        /\ p.index = -1 => p.headerLen = h[4] + 2
    BY Zenon DEF Announced
  <2>4. QED
    BY <2>1, <2>2, <2>3
<1>d. DOMAIN p = {"len", "headerLen", "index", "preamble", "extended",
                  "header", "buffer", "unit"}
  BY <1>1, Members
<1>2. h[4] \in Nat /\ b \in Nat /\ Base \in Nat /\ Top = Base - 1 /\ None = -1
  <2>1. h[4] \in Byte /\ b \in Byte
    BY <1>1
  <2>2. QED
    BY <2>1, Numbers, Zenon
<1> HIDE DEF h
<1>3. CASE p.index = -2
  <2>a. q = [p EXCEPT !.header[4] = b, !.headerLen = b + 2, !.index = -1]
    BY <1>3, SMT DEF DecodeStandardHeader
  <2> HIDE DEF q
  <2>1. /\ q.header = [h EXCEPT ![4] = b] /\ q.headerLen = b + 2
        /\ q.len = None /\ q.extended = FALSE /\ q.index = -1
    BY <1>1, <1>d, <2>a, SMTT(30) DEF h
  <2>2. Announced(q)
    BY <1>1, <2>1, SMT DEF Announced
  <2>3. QED
    BY <2>2 DEF q
<1>4. CASE p.index = -1 /\ Acknowledges(p, b)
  <2>1. q = [p EXCEPT !.header[5] = b, !.index = 1, !.headerLen = 1, !.len = 1]
    BY <1>4, SMT DEF DecodeStandardHeader
  <2> HIDE DEF q
  <2>2. /\ q.header = [h EXCEPT ![5] = b] /\ q.headerLen = 1 /\ q.len = 1
        /\ q.extended = FALSE
    BY <1>1, <1>d, <2>1, SMTT(30) DEF h
  <2>3. \/ h[4] = 0 /\ b = Top
        \/ h[4] = Top /\ b = 0
    <3>1. p.headerLen = h[4] + 2
      BY <1>1, <1>4, Zenon
    <3>2. \/ p.headerLen = 2 /\ b = Top
          \/ p.headerLen = Top + 2 /\ b = 0
      BY <1>4, Zenon DEF Acknowledges
    <3>3. QED
      BY <1>2, <3>1, <3>2, SMT
  <2>4. Announced(q)
    BY <1>1, <1>2, <2>2, <2>3, SMT DEF Announced, Checked
  <2>5. QED
    BY <2>4 DEF q
<1>5. CASE p.index = -1 /\ ~ Acknowledges(p, b) /\ AnnouncesExtended(p, b)
  <2>1. q = [p EXCEPT !.header[5] = b, !.index = -3, !.extended = TRUE]
    BY <1>5, SMT DEF DecodeStandardHeader
  <2> HIDE DEF q
  <2>2. /\ q.header = [h EXCEPT ![5] = b] /\ q.len = None /\ q.index = -3
        /\ q.extended = TRUE
    BY <1>1, <1>d, <2>1, SMTT(30) DEF h
  <2>3. h[4] = Top - 1 /\ b = Top
    BY <1>1, <1>2, <1>5, SMT DEF AnnouncesExtended
  <2>4. Announced(q)
    BY <1>1, <1>2, <2>2, <2>3, SMT DEF Announced
  <2>5. QED
    BY <2>4 DEF q
<1>6. CASE /\ p.index = -1 /\ ~ Acknowledges(p, b)
           /\ ~ AnnouncesExtended(p, b) /\ LengthChecks(p, b)
  <2>1. q = [p EXCEPT !.header[5] = b, !.index = 0, !.len = p.headerLen]
    BY <1>6, SMT DEF DecodeStandardHeader
  <2> HIDE DEF q
  <2>2. /\ q.header = [h EXCEPT ![5] = b] /\ q.len = p.headerLen
        /\ q.headerLen = p.headerLen /\ q.extended = FALSE
    BY <1>1, <1>d, <2>1, SMTT(30) DEF h
  <2>3. (h[4] + b) % Base = 0
    <3>1. b + p.headerLen - 2 = h[4] + b
      BY <1>1, <1>2, <1>6, SMT
    <3>2. QED
      BY <1>6, <3>1 DEF LengthChecks
  <2>4. /\ q.header[1] = 0 /\ q.header[2] = 0 /\ q.header[3] = Top
        /\ q.header[4] = h[4] /\ q.header[5] = b /\ q.headerLen = h[4] + 2
        /\ q.len # None
    BY <1>1, <1>2, <1>6, <2>2, SMT
  <2>5. Checked(q)
    BY <2>2, <2>3, <2>4, Zenon DEF Checked
  <2>6. Announced(q)
    BY <2>2, <2>4, <2>5, Zenon DEF Announced
  <2>7. QED
    BY <2>6 DEF q
<1>7. CASE /\ p.index = -1 /\ ~ Acknowledges(p, b)
           /\ ~ AnnouncesExtended(p, b) /\ ~ LengthChecks(p, b)
  BY <1>7, ResetAnnounced, SMT DEF DecodeStandardHeader, BadHeader
<1>8. QED
  BY <1>1, <1>3, <1>4, <1>5, <1>6, <1>7, Zenon

\* The two bytes of an extended length, taken apart again.
LEMMA LengthApart ==
  ASSUME NEW a \in Nat, NEW c \in 0 .. Base - 1
  PROVE  /\ (a * Base + c) \div Base = a
         /\ (a * Base + c) % Base = c
<1>1. Base \in Nat /\ Base > 0
  BY Numbers, SMT
<1>2. (a * Base + c) \div Base = a
  BY <1>1, SMTT(20)
<1>3. (a * Base + c) % Base = c
  BY <1>1, SMTT(20)
<1>4. QED
  BY <1>2, <1>3

\* In the three bytes of an extended header.
LEMMA ExtendedAnnounced ==
  ASSUME NEW p, PacketInv(p), Announced(p), p.len = None, p.index < 0,
         p.extended, NEW b \in Byte
  PROVE  Announced(DecodeExtendedHeader(p, b))
<1> DEFINE q == DecodeExtendedHeader(p, b)
           h == p.header
           n == b * Base
<1>1. /\ p \in PacketData /\ p.extended = TRUE
      /\ h \in [1 .. 8 -> Byte] /\ p.index \in {-3, -2, -1}
      /\ h[1] = 0 /\ h[2] = 0 /\ h[3] = Top /\ h[4] = Top - 1 /\ h[5] = Top
      /\ p.index = -2 => p.headerLen = h[6] * Base
      /\ p.index = -1 => p.headerLen = h[6] * Base + h[7] + 2
  <2>1. p \in PacketData /\ p.extended = TRUE /\ h \in [1 .. 8 -> Byte]
    BY Fields, Zenon
  <2>2. p.index \in {-3, -2, -1}
    <3>1. p.index \in -3 .. 0
      BY Unbuffered, Zenon
    <3>2. QED
      BY <3>1, SMT
  <2>3. /\ h[1] = 0 /\ h[2] = 0 /\ h[3] = Top /\ h[4] = Top - 1 /\ h[5] = Top
        /\ p.index = -2 => p.headerLen = h[6] * Base
        /\ p.index = -1 => p.headerLen = h[6] * Base + h[7] + 2
    BY Zenon DEF Announced
  <2>4. QED
    BY <2>1, <2>2, <2>3
<1>d. DOMAIN p = {"len", "headerLen", "index", "preamble", "extended",
                  "header", "buffer", "unit"}
  BY <1>1, Members
<1>2. p.index \in {-3, -2, -1}
  BY Fields, Unbuffered, SMT
<1> HIDE DEF h
<1>3. CASE p.index = -3
  <2>a. q = [p EXCEPT !.header[6] = b, !.headerLen = n, !.index = -2]
    BY <1>3, SMT DEF DecodeExtendedHeader
  <2> HIDE DEF q
  <2>1. /\ q.header = [h EXCEPT ![6] = b] /\ q.headerLen = n
        /\ q.len = None /\ q.extended = TRUE /\ q.index = -2
    BY <1>1, <1>d, <2>a, SMTT(30) DEF h
  <2>2. q.header[6] = b /\ \A i \in 1 .. 5 : q.header[i] = h[i]
    BY <1>1, <2>1, SMT
  <2>3. Announced(q)
    BY <1>1, <2>1, <2>2, SMT DEF Announced
  <2>4. QED
    BY <2>3 DEF q
<1>4. CASE p.index = -2
  <2>a. q = [p EXCEPT !.header[7] = b, !.headerLen = @ + b + 2, !.index = -1]
    BY <1>4, SMT DEF DecodeExtendedHeader
  <2> HIDE DEF q
  <2>1. /\ q.header = [h EXCEPT ![7] = b] /\ q.headerLen = p.headerLen + b + 2
        /\ q.len = None /\ q.extended = TRUE /\ q.index = -1
    BY <1>1, <1>d, <2>a, SMTT(30) DEF h
  <2>2. q.header[7] = b /\ \A i \in 1 .. 6 : q.header[i] = h[i]
    BY <1>1, <2>1, SMT
  <2>3. Announced(q)
    BY <1>1, <1>4, <2>1, <2>2, SMT DEF Announced
  <2>4. QED
    BY <2>3 DEF q
<1>5. CASE p.index = -1 /\ ExtendedChecks(p, b)
  <2>a. q = [p EXCEPT !.header[8] = b, !.len = p.headerLen]
    BY <1>5, SMT DEF DecodeExtendedHeader
  <2> HIDE DEF q
  <2>1. /\ q.header = [h EXCEPT ![8] = b] /\ q.headerLen = p.headerLen
        /\ q.len = p.headerLen /\ q.extended = TRUE
    BY <1>1, <1>d, <2>a, SMTT(30) DEF h
  <2>2. \A i \in 1 .. 7 : q.header[i] = h[i]
    BY <1>1, <2>1, SMT
  <2>h. q.header[8] = b
    BY <1>1, <2>1, SMT
  <2>s. ASSUME h[7] + 2 < Base PROVE (h[6] + h[7] + b) % Base = 0
    <3>1. h[6] \in Nat /\ h[7] \in Nat /\ b \in Nat /\ h[7] + 2 \in Nat
      <4>1. h[6] \in Byte /\ h[7] \in Byte /\ b \in Byte
        BY <1>1
      <4>2. \A i \in Byte : i \in Nat /\ i + 2 \in Nat
        BY Numbers, SMT
      <4>3. QED
        BY <4>1, <4>2
    <3>2. p.headerLen = h[6] * Base + (h[7] + 2)
      BY <1>1, <1>5, <3>1, Numbers, SMT
    <3>3. p.headerLen \div Base = h[6] /\ p.headerLen % Base = h[7] + 2
      <4>1. h[7] + 2 \in 0 .. Base - 1
        BY <2>s, <3>1, Numbers, SMT
      <4>2. QED
        BY <3>1, <3>2, <4>1, LengthApart
    <3>4. b + h[6] + (h[7] + 2) - 2 = h[6] + h[7] + b
      BY <3>1, SMT
    <3>5. QED
      BY <1>5, <3>3, <3>4 DEF ExtendedChecks
  <2>3. Checked(q)
    <3>1. /\ q.header[6] = h[6] /\ q.header[7] = h[7]
      BY <2>2, SMT
    <3>2. QED
      BY <1>1, <1>5, <2>1, <2>h, <2>s, <3>1 DEF Checked
  <2>4. q.len # None
    <3>1. p.headerLen >= 2
      BY <1>5 DEF PacketInv, HeaderSoFar
    <3>2. QED
      BY <2>1, <3>1, Numbers, SMT
  <2>5. Announced(q)
    BY <1>1, <2>1, <2>2, <2>3, <2>4, SMT DEF Announced
  <2>6. QED
    BY <2>5 DEF q
<1>6. CASE p.index = -1 /\ ~ ExtendedChecks(p, b)
  BY <1>6, ResetAnnounced, SMT DEF DecodeExtendedHeader, BadHeader
<1>7. QED
  BY <1>2, <1>3, <1>4, <1>5, <1>6, Zenon

\* addByte: the announcement stands until the packet is through.
LEMMA AddByteAnnounced ==
  ASSUME NEW p, PacketInv(p), Announced(p), NEW b \in Byte
  PROVE  Announced(AddByte(p, b))
<1>1. CASE p.len # None /\ Passes(p)
  BY <1>1, ResetAnnounced DEF AddByte, ProxyByte
<1>2. CASE p.len # None /\ ~ Passes(p)
  <2> DEFINE q == AddByte(p, b)
  <2>1. /\ q.header = p.header /\ q.headerLen = p.headerLen
        /\ q.extended = p.extended /\ q.len = p.len - 1
    BY <1>2, Fields, SMTT(30) DEF AddByte, ProxyByte, PacketData
  <2> HIDE DEF q
  <2>2. q.len # None
    BY <1>2, <2>1, Fields, Numbers, SMT DEF Passes
  <2>3. Announced(q)
    BY <1>2, <2>1, <2>2, Zenon DEF Announced, Checked
  <2>4. QED
    BY <2>3 DEF q
<1>3. CASE p.len = None
  <2>1. AddByte(p, b) = DecodeHeader(p, b)
    BY <1>3, Unbuffered, Fields, SMT DEF AddByte
  <2>2. /\ p.unit \in 0 .. 4 /\ p.index \in -3 .. 0 /\ p.extended \in BOOLEAN
        /\ p.index < 0 => p.unit = 0
    BY <1>3, Fields, Unbuffered
  <2>3. CASE p.unit > 0
    <3>1. p.index = 0
      BY <2>2, <2>3, SMT
    <3>2. QED
      BY <1>3, <2>1, <2>3, <3>1, HuntAnnounced DEF DecodeHeader
  <2>4. CASE p.unit = 0 /\ p.index = 0
    BY <1>3, <2>1, <2>4, HuntAnnounced, SMT DEF DecodeHeader
  <2>5. CASE p.unit = 0 /\ p.index < 0
    <3>1. DecodeHeader(p, b) = IF p.extended THEN DecodeExtendedHeader(p, b)
                                             ELSE DecodeStandardHeader(p, b)
      BY <2>2, <2>5, SMT DEF DecodeHeader
    <3>2. QED
      BY <1>3, <2>1, <2>5, <3>1, StandardAnnounced, ExtendedAnnounced
  <2>6. QED
    BY <1>3, <2>2, <2>3, <2>4, <2>5, SMT
<1>4. QED
  BY <1>1, <1>2, <1>3

\* A packet that is passed on is whole.
LEMMA PassedIsWhole ==
  ASSUME NEW p, PacketInv(p), Announced(p), Passes(p), NEW b \in Byte
  PROVE  WellFormed(Packet(p, b))
<1> DEFINE f == Packet(p, b)
           n == IF p.extended THEN 8 ELSE 5
<1>1. /\ f \in Seq(Byte) /\ Len(f) = n + p.headerLen
      /\ \A i \in 1 .. n : f[i] = p.header[i]
  BY PacketShape
<1>2. /\ p.headerLen \in Nat /\ p.headerLen >= 1 /\ p.len # None
      /\ p.header \in [1 .. 8 -> Byte] /\ p.extended \in BOOLEAN
  <2>1. p.len = 1 /\ p.len + Len(p.buffer) = p.headerLen
        /\ Len(p.buffer) \in Nat
    BY Fields, Numbers, SMT DEF PacketInv, FollowsPackets, Passes
  <2>2. QED
    BY <2>1, Fields, Numbers, SMT
<1>3. /\ Checked(p)
      /\ p.header[1] = 0 /\ p.header[2] = 0 /\ p.header[3] = Top
  BY <1>2 DEF Announced
<1> HIDE DEF f
<1>n. n \in {5, 8}
  OBVIOUS
<1>l. (p.extended => n = 8) /\ (~ p.extended => n = 5)
  OBVIOUS
<1> HIDE DEF n
<1>4. f[1] = 0 /\ f[2] = 0 /\ f[3] = Top /\ f[4] = p.header[4]
      /\ f[5] = p.header[5]
  <2>1. {1, 2, 3, 4, 5} \subseteq 1 .. n
    BY <1>n, SMT
  <2>2. QED
    BY <1>1, <1>3, <2>1, Zenon
<1>5. SubSeq(f, 1, 3) = <<0, 0, Top>>
  <2> DEFINE g == SubSeq(f, 1, 3)
  <2>1. f \in Seq(Byte) /\ Len(f) >= 6
    BY <1>1, <1>2, <1>n, SMT
  <2>2. /\ g = [i \in 1 .. 3 |-> f[i]]
    BY <2>1, SMT
  <2>3. <<0, 0, Top>> = [i \in 1 .. 3 |-> IF i = 3 THEN Top ELSE 0]
    BY SMT
  <2> HIDE DEF g
  <2>4. \A i \in 1 .. 3 : f[i] = IF i = 3 THEN Top ELSE 0
    BY <1>4, SMT
  <2>5. g = [i \in 1 .. 3 |-> IF i = 3 THEN Top ELSE 0]
    BY <2>2, <2>4, Zenon
  <2>6. QED
    BY <2>3, <2>5, Zenon DEF g
<1>6. CASE p.extended
  <2>1. /\ f[6] = p.header[6] /\ f[7] = p.header[7] /\ f[8] = p.header[8]
        /\ Len(f) = 8 + p.headerLen
    <3>1. {6, 7, 8} \subseteq 1 .. n /\ n = 8
      BY <1>6, <1>l, SMT
    <3>2. QED
      BY <1>1, <3>1, Zenon
  <2>2. /\ p.headerLen = f[6] * Base + f[7] + 2
        /\ f[7] + 2 < Base => (f[6] + f[7] + f[8]) % Base = 0
    BY <1>3, <1>6, <2>1 DEF Checked
  <2>3. Len(f) - 8 = f[6] * Base + f[7] + 2
    BY <1>2, <2>1, <2>2, SMT
  <2>4. f[4] = Top - 1 /\ f[5] = Top
    BY <1>2, <1>4, <1>6 DEF Announced
  <2>5. QED
    BY <1>5, <2>2, <2>3, <2>4 DEF WellFormed, f
<1>7. CASE ~ p.extended
  <2>1. Len(f) - 5 = p.headerLen
    BY <1>1, <1>2, <1>7, <1>l, SMT
  <2>x. p.extended = FALSE
    BY <1>2, <1>7
  <2>2. \/ Len(f) - 5 = 1 /\ <<f[4], f[5]>> \in {<<0, Top>>, <<Top, 0>>}
        \/ (f[4] + f[5]) % Base = 0 /\ Len(f) - 5 = f[4] + 2
    <3>1. \/ p.headerLen = 1 /\ p.header[4] = 0 /\ p.header[5] = Top
          \/ p.headerLen = 1 /\ p.header[4] = Top /\ p.header[5] = 0
          \/ /\ p.headerLen = p.header[4] + 2
             /\ (p.header[4] + p.header[5]) % Base = 0
      BY <1>3, <2>x DEF Checked
    <3>2. QED
      BY <1>4, <2>1, <3>1, Zenon
  <2>3. QED
    BY <1>5, <2>2 DEF WellFormed, f
<1>8. QED
  BY <1>6, <1>7

\* A header byte buffers nothing.
LEMMA HeaderBuffersNothing ==
  ASSUME NEW p, PacketInv(p), p.len = None, NEW b \in Byte
  PROVE  AddByte(p, b).buffer = <<>>
<1>1. /\ p.buffer = <<>> /\ p.unit \in 0 .. 4 /\ p.index \in -3 .. 0
      /\ p.extended \in BOOLEAN
      /\ AddByte(p, b) = DecodeHeader(p, b)
  BY Unbuffered, Fields, SMT DEF AddByte
<1>2. DOMAIN p = {"len", "headerLen", "index", "preamble", "extended",
                  "header", "buffer", "unit"}
  BY Fields, Members
<1>3. UnitCommand(p, b).buffer = <<>>
  BY <1>1, <1>2, SMT DEF UnitCommand
<1>4. SearchPreambleStart(p, b).buffer = <<>>
  <2> DEFINE q == SearchPreambleStart(p, b)
  <2>1. \/ q = [p EXCEPT !.preamble = FALSE, !.index = -2, !.extended = FALSE]
        \/ q = [p EXCEPT !.preamble = FALSE, !.unit = 4]
        \/ q = [p EXCEPT !.preamble = TRUE]
        \/ q = [p EXCEPT !.preamble = FALSE]
    BY DEF SearchPreambleStart
  <2> HIDE DEF q
  <2>2. q.buffer = p.buffer
    <3>1. ASSUME q = [p EXCEPT !.preamble = FALSE, !.index = -2, !.extended = FALSE]
          PROVE  q.buffer = p.buffer
      BY <1>2, <3>1, SMTT(30)
    <3>2. ASSUME q = [p EXCEPT !.preamble = FALSE, !.unit = 4]
          PROVE  q.buffer = p.buffer
      BY <1>2, <3>2, SMTT(30)
    <3>3. ASSUME q = [p EXCEPT !.preamble = TRUE]
          PROVE  q.buffer = p.buffer
      BY <1>2, <3>3, SMTT(30)
    <3>4. ASSUME q = [p EXCEPT !.preamble = FALSE]
          PROVE  q.buffer = p.buffer
      BY <1>2, <3>4, SMTT(30)
    <3>5. QED
      BY <2>1, <3>1, <3>2, <3>3, <3>4, Zenon
  <2>3. QED
    BY <1>1, <2>2 DEF q
<1>5. DecodeStandardHeader(p, b).buffer = <<>>
  <2> DEFINE q == DecodeStandardHeader(p, b)
  <2>1. \/ q = [p EXCEPT !.header[4] = b, !.headerLen = b + 2, !.index = -1]
        \/ q = [p EXCEPT !.header[5] = b, !.index = 1, !.headerLen = 1, !.len = 1]
        \/ q = [p EXCEPT !.header[5] = b, !.index = -3, !.extended = TRUE]
        \/ q = [p EXCEPT !.header[5] = b, !.index = 0, !.len = p.headerLen]
        \/ q = Reset
    BY DEF DecodeStandardHeader, BadHeader
  <2> HIDE DEF q
  <2>2. q = Reset \/ q.buffer = p.buffer
    <3>1. ASSUME q = [p EXCEPT !.header[4] = b, !.headerLen = b + 2, !.index = -1]
          PROVE  q.buffer = p.buffer
      BY <1>2, <3>1, SMTT(30)
    <3>2. ASSUME q = [p EXCEPT !.header[5] = b, !.index = 1, !.headerLen = 1, !.len = 1]
          PROVE  q.buffer = p.buffer
      BY <1>2, <3>2, SMTT(30)
    <3>3. ASSUME q = [p EXCEPT !.header[5] = b, !.index = -3, !.extended = TRUE]
          PROVE  q.buffer = p.buffer
      BY <1>2, <3>3, SMTT(30)
    <3>4. ASSUME q = [p EXCEPT !.header[5] = b, !.index = 0, !.len = p.headerLen]
          PROVE  q.buffer = p.buffer
      BY <1>2, <3>4, SMTT(30)
    <3>5. QED
      BY <2>1, <3>1, <3>2, <3>3, <3>4, Zenon
  <2>3. QED
    BY <1>1, <2>2, ResetInv DEF q
<1>6. DecodeExtendedHeader(p, b).buffer = <<>>
  <2> DEFINE q == DecodeExtendedHeader(p, b)
             n == b * Base
  <2>1. \/ q = [p EXCEPT !.header[6] = b, !.headerLen = n, !.index = -2]
        \/ q = [p EXCEPT !.header[7] = b, !.headerLen = @ + b + 2, !.index = -1]
        \/ q = [p EXCEPT !.header[8] = b, !.len = p.headerLen]
        \/ q = Reset
    BY DEF DecodeExtendedHeader, BadHeader
  <2> HIDE DEF q, n
  <2>2. q = Reset \/ q.buffer = p.buffer
    <3>1. ASSUME q = [p EXCEPT !.header[6] = b, !.headerLen = n, !.index = -2]
          PROVE  q.buffer = p.buffer
      BY <1>2, <3>1, SMTT(30)
    <3>2. ASSUME q = [p EXCEPT !.header[7] = b, !.headerLen = @ + b + 2, !.index = -1]
          PROVE  q.buffer = p.buffer
      BY <1>2, <3>2, SMTT(30)
    <3>3. ASSUME q = [p EXCEPT !.header[8] = b, !.len = p.headerLen]
          PROVE  q.buffer = p.buffer
      BY <1>2, <3>3, SMTT(30)
    <3>4. QED
      BY <2>1, <3>1, <3>2, <3>3, Zenon
  <2>3. QED
    BY <1>1, <2>2, ResetInv DEF q
<1>7. p.unit > 0 \/ p.unit = 0
  BY <1>1, SMT
<1>8. QED
  BY <1>1, <1>3, <1>4, <1>5, <1>6, <1>7, Zenon DEF DecodeHeader

-----------------------------------------------------------------------------
(* A packet that no fault touches: where its bytes lead PKTData.           *)

\* How far a PKTData is when it has seen k bytes of the frame f, and no other
\* since it was hunting.
Follows(p, f, k) ==
  /\ k <= 2 => Hunting(p)
  /\ k \in {1, 2} => p.preamble
  /\ k \in {3, 4} => p.len = None /\ p.unit = 0
  /\ k >= 3 => p.extended = FALSE
  /\ k = 3 => p.index = -2
  /\ k = 4 => p.index = -1 /\ p.headerLen = f[4] + 2
  /\ k >= 4 => p.header[4] = f[4]
  /\ k >= 5 => /\ p.header[5] = f[5]
               /\ p.len = Len(f) - k
               /\ p.buffer = SubSeq(f, 6, k)

\* The packets the program knows: an ACK, a NACK, and what has a standard header
\* and as many bytes as it announces, whichever they are.
FrameOf(f) ==
  /\ f \in Seq(Byte) /\ Len(f) >= 6
  /\ f[1] = 0 /\ f[2] = 0 /\ f[3] = Top
  /\ \/ f[4] = 0 /\ f[5] = Top /\ Len(f) = 6
     \/ f[4] = Top /\ f[5] = 0 /\ Len(f) = 6
     \/ Len(f) = f[4] + 7 /\ f[5] = Minus(f[4])

\* What is sent is of this form, if no packet is extended.
LEMMA FrameShape ==
  ASSUME ExtendedData = {}, NEW f \in Frames
  PROVE  FrameOf(f)
<1>1. f \in Seq(Byte) /\ (f = Ack \/ f = Nack \/ \E d \in Data : f = Standard(d))
  BY FramesAreBytes DEF Frames
<1>2. CASE f = Ack
  BY <1>1, <1>2, SMT DEF Ack, FrameOf
<1>3. CASE f = Nack
  BY <1>1, <1>3, SMT DEF Nack, FrameOf
<1>4. ASSUME NEW d \in Data, f = Standard(d)
      PROVE  FrameOf(f)
  <2> DEFINE n == Len(d) - 2
             m == Minus(n)
             h == <<0, 0, Top, n, m>>
  <2>1. d \in Seq(Byte) /\ Len(d) \in Nat /\ n \in 0 .. Top /\ n \in Byte
    BY BytesAssumption, Numbers DEF Byte
  <2>2. f = h \o d
    BY <1>4 DEF Standard
  <2>3. m \in Byte
    BY <2>1, Numbers, MinusByte, SMT
  <2>4. h \in Seq(Byte) /\ Len(h) = 5
    <3> HIDE DEF n, m
    <3>1. QED
      BY <2>1, <2>3, Numbers
  <2>5. /\ Len(f) = 5 + Len(d)
        /\ \A i \in 1 .. 5 : f[i] = h[i]
    <3> HIDE DEF h
    <3>1. Len(f) = Len(h) + Len(d)
      BY <2>1, <2>2, <2>4, ConcatProperties
    <3>2. \A i \in 1 .. Len(h) : f[i] = h[i]
      <4>1. \A i \in 1 .. Len(h) + Len(d) :
              (h \o d)[i] = IF i <= Len(h) THEN h[i] ELSE d[i - Len(h)]
        BY <2>1, <2>4, ConcatProperties, Zenon
      <4>2. \A i \in 1 .. Len(h) : i \in 1 .. Len(h) + Len(d) /\ i <= Len(h)
        BY <2>1, <2>4, SMT
      <4>3. QED
        BY <2>2, <4>1, <4>2
    <3>3. QED
      BY <2>4, <3>1, <3>2
  <2>6. h[1] = 0 /\ h[2] = 0 /\ h[3] = Top /\ h[4] = n /\ h[5] = m
    OBVIOUS
  <2>7. /\ f[1] = 0 /\ f[2] = 0 /\ f[3] = Top /\ f[4] = n
        /\ f[5] = Minus(f[4])
    <3> HIDE DEF h, n
    <3>1. {1, 2, 3, 4, 5} \subseteq 1 .. 5
      BY SMT
    <3>2. QED
      BY <2>5, <2>6, <3>1
  <2>8. Len(f) = f[4] + 7 /\ Len(f) >= 6
    BY <2>1, <2>5, <2>7, SMT
  <2>9. QED
    BY <1>1, <2>7, <2>8, Zenon DEF FrameOf
<1>5. QED
  BY <1>1, <1>2, <1>3, <1>4

\* How long such a packet may be; the bytes of it are bytes.
LEMMA FrameLength ==
  ASSUME NEW f, FrameOf(f)
  PROVE  /\ f \in Seq(Byte) /\ f # <<>>
         /\ Len(f) \in Nat /\ Len(f) >= 6 /\ Len(f) <= Base + 6
         /\ \A i \in 1 .. Len(f) : f[i] \in Byte
<1>1. f \in Seq(Byte) /\ Len(f) \in Nat /\ Len(f) >= 6
  BY DEF FrameOf
<1>2. \A i \in 1 .. Len(f) : f[i] \in Byte
  BY <1>1, ElementOfSeq
<1>3. f[4] \in Byte
  BY <1>1, <1>2, SMT
<1>4. Len(f) = 6 \/ Len(f) = f[4] + 7
  BY DEF FrameOf
<1>5. Len(f) <= Base + 6
  <2>1. f[4] \in Nat /\ f[4] <= Base - 1 /\ Base \in Nat /\ Base > 3
    <3>1. \A b \in Byte : b \in Nat /\ b <= Base - 1
      BY Numbers, SMT DEF Byte
    <3>2. QED
      BY <1>3, <3>1, Numbers
  <2>2. CASE Len(f) = 6
    BY <2>1, <2>2, SMT
  <2>3. CASE Len(f) = f[4] + 7
    <3>1. f[4] + 7 <= Base + 6
      BY <2>1, SMT
    <3>2. QED
      BY <2>3, <3>1
  <2>4. QED
    BY <1>4, <2>2, <2>3
<1>6. f # <<>>
  BY <1>1
<1>7. QED
  BY <1>1, <1>2, <1>5, <1>6

\* A subsequence grows by the element behind it.
LEMMA NextElement ==
  ASSUME NEW S, NEW f \in Seq(S), NEW k \in Nat, k >= 5, k < Len(f)
  PROVE  Append(SubSeq(f, 6, k), f[k + 1]) = SubSeq(f, 6, k + 1)
<1>1. Len(f) \in Nat
  OBVIOUS
<1>2. 6 \in 1 .. Len(f) /\ k + 1 \in 6 .. Len(f) /\ k + 1 \in 1 .. Len(f)
      /\ (k + 1) - 1 = k
  BY <1>1, SMT
<1>3. f[k + 1] \in S
  BY <1>2, ElementOfSeq
<1>4. SubSeq(f, 6, k) \in Seq(S)
  <2>1. \A i \in 6 .. k : i \in 1 .. Len(f)
    BY <1>1, SMT
  <2>2. \A i \in 6 .. k : f[i] \in S
    BY <2>1, ElementOfSeq
  <2>3. 6 \in Int /\ k \in Int
    BY SMT
  <2>4. QED
    BY <2>2, <2>3, SubSeqProperties, Zenon
<1>5. SubSeq(f, 6, k + 1) = SubSeq(f, 6, k) \o <<f[k + 1]>>
  BY <1>2, SubSeqRecursiveSecond, Zenon
<1>6. QED
  BY <1>3, <1>4, <1>5, AppendIsConcat, Zenon

\* A header and what follows it make the frame.
LEMMA HeaderAndRest ==
  ASSUME NEW f \in Seq(Byte), NEW h \in [1 .. 8 -> Byte], Len(f) >= 6,
         \A i \in 1 .. 5 : h[i] = f[i]
  PROVE  SubSeq(h, 1, 5) \o SubSeq(f, 6, Len(f)) = f
<1> DEFINE s == SubSeq(h, 1, 5)
           t == SubSeq(f, 1, 5)
<1>1. s \in Seq(Byte) /\ Len(s) = 5 /\ \A i \in 1 .. 5 : s[i] = h[i]
  BY HeaderPart
<1>2. t \in Seq(Byte) /\ Len(t) = 5 /\ \A i \in 1 .. 5 : t[i] = f[i]
  BY SMT
<1>3. s = t
  <2> HIDE DEF s, t
  <2>1. \A i \in 1 .. Len(s) : s[i] = t[i]
    BY <1>1, <1>2, Zenon
  <2>2. QED
    BY <1>1, <1>2, <2>1, SeqEqual, Zenon
<1>4. t \o SubSeq(f, 6, Len(f)) = f
  <2>1. /\ 1 \in 1 .. Len(f) + 1 /\ 5 \in 1 - 1 .. Len(f)
        /\ Len(f) \in 5 .. Len(f) /\ 5 + 1 = 6
    BY SMT
  <2>2. t \o SubSeq(f, 6, Len(f)) = SubSeq(f, 1, Len(f))
    BY <2>1, ConcatAdjacentSubSeq, Zenon
  <2>3. QED
    BY <2>2, SubSeqFull, Zenon
<1>5. QED
  BY <1>3, <1>4

\* The bytes of the header lead where they should.
LEMMA FollowsHeader ==
  ASSUME NEW f, FrameOf(f), NEW k \in 0 .. 4,
         NEW p, PacketInv(p), Follows(p, f, k)
  PROVE  Follows(AddByte(p, f[k + 1]), f, k + 1)
<1> DEFINE b == f[k + 1]
           q == AddByte(p, b)
           h == p.header
<1>1. /\ f[1] = 0 /\ f[2] = 0 /\ f[3] = Top
      /\ \/ f[4] = 0 /\ f[5] = Top /\ Len(f) = 6
         \/ f[4] = Top /\ f[5] = 0 /\ Len(f) = 6
         \/ Len(f) = f[4] + 7 /\ f[5] = Minus(f[4])
  BY DEF FrameOf
<1>f. f[4] \in Byte /\ Len(f) \in Nat
  <2>1. 4 \in 1 .. Len(f)
    BY FrameLength, SMT
  <2>2. QED
    BY <2>1, FrameLength
<1>n. Base \in Nat /\ Base > 3 /\ Top = Base - 1 /\ None = -1
  BY Numbers
<1>2. /\ p.len = None /\ p.unit = 0 /\ p.index \in -3 .. 0
      /\ p.buffer = <<>> /\ h \in [1 .. 8 -> Byte]
      /\ p.extended \in BOOLEAN /\ p.preamble \in BOOLEAN
      /\ p.index = 0 => p.headerLen = None
  <2>1. p.len = None /\ p.unit = 0
    <3>1. CASE k <= 2
      BY <3>1, Zenon DEF Follows, Hunting
    <3>2. CASE k \in {3, 4}
      BY <3>2, Zenon DEF Follows
    <3>3. QED
      BY <3>1, <3>2, SMT
  <2>2. QED
    BY <2>1, Unbuffered, Fields
<1>d. DOMAIN p = {"len", "headerLen", "index", "preamble", "extended",
                  "header", "buffer", "unit"}
  BY Fields, Members
<1>3. q = DecodeHeader(p, b)
  BY <1>2, SMT DEF AddByte
<1>4. CASE k \in {0, 1}
  <2>1. b = 0 /\ p.index = 0 /\ k <= 2
    BY <1>1, <1>4, SMT DEF Follows, Hunting
  <2>2. q = [p EXCEPT !.preamble = TRUE]
    <3>1. q = SearchPreambleStart(p, b)
      BY <1>2, <1>3, <2>1, SMT DEF DecodeHeader
    <3>2. ~ (b = Top /\ p.preamble) /\ ~ (b = UnitMark /\ p.preamble)
      BY <1>n, <2>1, BytesAssumption, SMT
    <3> HIDE DEF b, q
    <3>3. QED
      BY <2>1, <3>1, <3>2, Zenon DEF SearchPreambleStart
  <2> HIDE DEF b, q
  <2>3. /\ q.len = None /\ q.index = 0 /\ q.unit = 0 /\ q.preamble = TRUE
    BY <1>2, <1>d, <2>1, <2>2, SMTT(30)
  <2>4. k + 1 <= 2
    BY <1>4, SMT
  <2>5. Follows(q, f, k + 1)
    BY <1>4, <2>3, <2>4, SMT DEF Follows, Hunting
  <2>6. QED
    BY <2>5 DEF q, b
<1>5. CASE k = 2
  <2>1. b = Top /\ p.index = 0 /\ p.preamble
    BY <1>1, <1>5, SMT DEF Follows, Hunting
  <2>2. q = [p EXCEPT !.preamble = FALSE, !.index = -2, !.extended = FALSE]
    <3>1. q = SearchPreambleStart(p, b)
      BY <1>2, <1>3, <2>1, SMT DEF DecodeHeader
    <3>2. b # 0 /\ b # UnitMark
      BY <1>n, <2>1, BytesAssumption, SMT
    <3> HIDE DEF b, q
    <3>3. QED
      BY <2>1, <3>1, <3>2, Zenon DEF SearchPreambleStart
  <2> HIDE DEF b, q
  <2>3. /\ q.len = None /\ q.index = -2 /\ q.unit = 0 /\ q.extended = FALSE
    BY <1>2, <1>d, <2>1, <2>2, SMTT(30)
  <2>4. Follows(q, f, 3)
    BY <2>3, SMT DEF Follows
  <2>5. QED
    BY <1>5, <2>4, SMT DEF q, b
<1>6. CASE k = 3
  <2>1. b = f[4] /\ p.index = -2 /\ p.extended = FALSE
    BY <1>6, SMT DEF Follows
  <2>2. q = [p EXCEPT !.header[4] = b, !.headerLen = b + 2, !.index = -1]
    BY <1>2, <1>3, <2>1, SMT DEF DecodeHeader, DecodeStandardHeader
  <2> HIDE DEF b, q, h
  <2>3. /\ q.len = None /\ q.index = -1 /\ q.unit = 0 /\ q.extended = FALSE
        /\ q.headerLen = b + 2 /\ q.header = [h EXCEPT ![4] = b]
    BY <1>2, <1>d, <2>1, <2>2, SMTT(30) DEF h
  <2>4. q.header[4] = f[4]
    BY <1>2, <2>1, <2>3, SMT
  <2>5. Follows(q, f, 4)
    BY <2>1, <2>3, <2>4, SMT DEF Follows
  <2>6. QED
    BY <1>6, <2>5, SMT DEF q, b
<1>7. CASE k = 4
  <2>1. /\ b = f[5] /\ p.index = -1 /\ p.extended = FALSE
        /\ p.headerLen = f[4] + 2 /\ h[4] = f[4]
    BY <1>7, SMT DEF Follows
  <2>2. q = DecodeStandardHeader(p, b)
    BY <1>2, <1>3, <2>1, SMT DEF DecodeHeader
  <2> HIDE DEF b, q, h
  <2>3. /\ q.len = Len(f) - 5 /\ q.extended = FALSE
        /\ q.header = [h EXCEPT ![5] = b] /\ q.buffer = <<>>
    <3>1. CASE \/ f[4] = 0 /\ f[5] = Top /\ Len(f) = 6
               \/ f[4] = Top /\ f[5] = 0 /\ Len(f) = 6
      <4>1. Acknowledges(p, b)
        BY <1>1, <1>n, <2>1, <3>1, SMT DEF Acknowledges
      <4>2. q = [p EXCEPT !.header[5] = b, !.index = 1, !.headerLen = 1,
                          !.len = 1]
        BY <2>1, <2>2, <4>1, SMT DEF DecodeStandardHeader
      <4>3. Len(f) - 5 = 1
        BY <3>1, SMT
      <4>4. QED
        BY <1>2, <1>d, <2>1, <4>2, <4>3, SMTT(30) DEF h
    <3>2. CASE Len(f) = f[4] + 7 /\ f[5] = Minus(f[4])
      <4>1. /\ p.headerLen = f[4] + 2 /\ b = Minus(f[4]) /\ b \in Int
            /\ f[4] \in Int
        <5>1. \A i \in Byte : i \in Int
          BY Numbers, SMT
        <5>2. f[4] \in Int /\ Minus(f[4]) \in Int
          BY <1>f, <5>1, MinusByte
        <5>3. QED
          BY <2>1, <3>2, <5>2
      <4>2. ~ Acknowledges(p, b) /\ ~ AnnouncesExtended(p, b)
        <5>1. /\ f[4] = 0 => b # Top
              /\ f[4] = Top => b # 0
              /\ f[4] = Top - 1 => b # Top
          BY <1>f, <4>1, MinusSums
        <5>2. QED
          BY <1>n, <4>1, <5>1, SMT DEF Acknowledges, AnnouncesExtended
      <4>3. LengthChecks(p, b)
        <5>1. b + p.headerLen - 2 = b + f[4]
          BY <1>n, <4>1, SMT
        <5>2. (b + f[4]) % Base = 0
          BY <1>f, <4>1, MinusSums
        <5>3. QED
          BY <5>1, <5>2 DEF LengthChecks
      <4>4. q = [p EXCEPT !.header[5] = b, !.index = 0, !.len = p.headerLen]
        BY <2>1, <2>2, <4>2, <4>3, SMT DEF DecodeStandardHeader
      <4>5. Len(f) - 5 = p.headerLen
        BY <1>f, <3>2, <4>1, SMT
      <4>6. QED
        BY <1>2, <1>d, <2>1, <4>4, <4>5, SMTT(30) DEF h
    <3>3. QED
      BY <1>1, <3>1, <3>2
  <2>4. q.header[4] = f[4] /\ q.header[5] = f[5]
    BY <1>2, <2>1, <2>3, SMT
  <2>5. q.buffer = SubSeq(f, 6, 5)
    <3>1. SubSeq(f, 6, 5) = <<>>
      BY SubSeqEmpty, SMT
    <3>2. QED
      BY <2>3, <3>1
  <2>6. Follows(q, f, 5)
    BY <2>3, <2>4, <2>5, SMT DEF Follows
  <2>7. QED
    BY <1>7, <2>6, SMT DEF q, b
<1>8. QED
  BY <1>4, <1>5, <1>6, <1>7, SMT

\* A byte within the payload is buffered, the last one passes the frame on.
LEMMA FollowsPayload ==
  ASSUME NEW f, FrameOf(f), NEW k \in 5 .. Len(f) - 1,
         NEW p, PacketInv(p), Announced(p), Follows(p, f, k)
  PROVE  /\ Passes(p) <=> k + 1 = Len(f)
         /\ k + 1 < Len(f) => Follows(AddByte(p, f[k + 1]), f, k + 1)
         /\ k + 1 = Len(f) => Packet(p, f[k + 1]) = f
                              /\ AddByte(p, f[k + 1]) = Reset
<1> DEFINE b == f[k + 1]
           q == AddByte(p, b)
           h == p.header
<1>1. /\ f \in Seq(Byte) /\ Len(f) \in Nat /\ Len(f) >= 6
      /\ f[1] = 0 /\ f[2] = 0 /\ f[3] = Top
  BY DEF FrameOf
<1>2. /\ p.extended = FALSE /\ p.header[4] = f[4] /\ p.header[5] = f[5]
      /\ p.len = Len(f) - k /\ p.buffer = SubSeq(f, 6, k)
  BY <1>1, SMT DEF Follows
<1>3. k \in Nat /\ k >= 5 /\ k < Len(f) /\ p.len # None
  <2>1. k \in Nat /\ k >= 5 /\ k < Len(f)
    BY <1>1, SMT
  <2>2. Len(f) - k # None
    BY <1>1, <2>1, Numbers, SMT
  <2>3. QED
    BY <1>2, <2>1, <2>2
<1>4. Append(p.buffer, b) = SubSeq(f, 6, k + 1)
  BY <1>1, <1>2, <1>3, NextElement
<1>5. Passes(p) <=> k + 1 = Len(f)
  BY <1>1, <1>2, SMT DEF Passes
<1>6. ASSUME k + 1 < Len(f) PROVE Follows(q, f, k + 1)
  <2>1. q = [p EXCEPT !.buffer = Append(@, b), !.len = @ - 1]
    BY <1>1, <1>3, <1>5, <1>6, SMT DEF AddByte, ProxyByte
  <2>d. DOMAIN p = {"len", "headerLen", "index", "preamble", "extended",
                    "header", "buffer", "unit"} /\ p \in PacketData
    BY Fields, Members
  <2> HIDE DEF q, b
  <2>2. /\ q.buffer = Append(p.buffer, b) /\ q.len = p.len - 1
        /\ q.header = p.header /\ q.extended = p.extended
    BY <2>1, <2>d, SMTT(30)
  <2>3. q.len = Len(f) - (k + 1)
    BY <1>1, <1>2, <2>2, SMT
  <2>4. q.buffer = SubSeq(f, 6, k + 1)
    BY <1>4, <2>2
  <2>5. /\ q.extended = FALSE /\ q.header[4] = f[4] /\ q.header[5] = f[5]
    BY <1>2, <2>2
  <2>6. k + 1 > 5 /\ k + 1 \in Nat
    BY <1>3, SMT
  <2>7. QED
    BY <2>3, <2>4, <2>5, <2>6, SMT DEF Follows
<1>7. ASSUME k + 1 = Len(f) PROVE Packet(p, b) = f /\ q = Reset
  <2>1. q = Reset
    BY <1>3, <1>5, <1>7 DEF AddByte, ProxyByte
  <2>2. h \in [1 .. 8 -> Byte]
    BY Fields
  <2>3. \A i \in 1 .. 5 : h[i] = f[i]
    <3>1. h[1] = 0 /\ h[2] = 0 /\ h[3] = Top
      BY DEF Announced
    <3>2. h[4] = f[4] /\ h[5] = f[5]
      BY <1>2
    <3> HIDE DEF h
    <3>3. QED
      BY <1>1, <3>1, <3>2, SMT
  <2>4. Packet(p, b) = SubSeq(h, 1, 5) \o Append(p.buffer, b)
    BY <1>2 DEF Packet
  <2>5. SubSeq(h, 1, 5) \o SubSeq(f, 6, Len(f)) = f
    <3>1. Len(f) >= 6
      BY <1>1, SMT
    <3> HIDE DEF h
    <3>2. QED
      BY <1>1, <2>2, <2>3, <3>1, HeaderAndRest
  <2>6. QED
    BY <1>4, <1>7, <2>1, <2>4, <2>5
<1>8. QED
  BY <1>5, <1>6, <1>7

\* Byte by byte: a frame is passed on with its last byte, as it was sent, and
\* leaves a PKTData that hunts for the next one.
LEMMA FollowsOn ==
  ASSUME NEW f, FrameOf(f), NEW k \in 0 .. Len(f) - 1,
         NEW p, PacketInv(p), Announced(p), Follows(p, f, k)
  PROVE  /\ k + 1 < Len(f) => /\ ~ Passes(p) /\ Passed(p, f[k + 1]) = <<>>
                              /\ Follows(AddByte(p, f[k + 1]), f, k + 1)
         /\ k + 1 = Len(f) => /\ Passes(p) /\ Passed(p, f[k + 1]) = <<f>>
                              /\ Hunting(AddByte(p, f[k + 1]))
<1>1. Len(f) \in Nat /\ Len(f) >= 6
  BY FrameLength
<1>2. Hunting(Reset)
  BY DEF Hunting, Reset
<1>3. CASE k \in 0 .. 4
  <2>1. k + 1 < Len(f) /\ k + 1 # Len(f)
    BY <1>1, <1>3, SMT
  <2>2. p.len = None
    <3>1. k <= 2 \/ k \in {3, 4}
      BY <1>3, SMT
    <3>2. QED
      BY <3>1 DEF Follows, Hunting
  <2>3. ~ Passes(p)
    BY <2>2, Numbers, SMT DEF Passes
  <2>4. Follows(AddByte(p, f[k + 1]), f, k + 1)
    BY <1>3, FollowsHeader
  <2>5. QED
    BY <2>1, <2>3, <2>4 DEF Passed
<1>4. CASE k \in 5 .. Len(f) - 1
  BY <1>2, <1>4, FollowsPayload, SMT DEF Passed
<1>5. QED
  BY <1>1, <1>3, <1>4, SMT

-----------------------------------------------------------------------------
(* The state invariant.                                                    *)

\* The types, with what PKTData remembers of the header it is in.
ProxyTypes == TypeOK /\ HeaderSoFar(ser) /\ HeaderSoFar(i2c)

\* What is known of the host's packet, besides.
HostPacket == Announced(ser) /\ LockFollowsPacket /\ OnlyWholePackets

\* A byte of the host's, whole or spoilt, keeps the types.
LEMMA TakeByteTypes ==
  ASSUME ProxyTypes, NEW b \in Byte, sending # <<>>, TakeByte(b)
  PROVE  /\ PacketInv(ser) /\ PacketInv(ser') /\ PacketInv(i2c')
         /\ Passed(ser, b) \in Seq(Seq(Byte))
         /\ turn' \in {"uart", "bus", "follow"} /\ locked' \in BOOLEAN
         /\ chunk' \in Seq(Byte) /\ packet' \in Seq(Byte)
         /\ sending' \in Seq(Byte) /\ answer' \in Seq(Byte)
         /\ asked' \in Seq(Byte) /\ cut' \in Seq(Byte)
         /\ heard' \in Seq(Seq(Byte))
<1>1. PacketInv(ser) /\ PacketInv(i2c)
  BY DEF ProxyTypes, TypeOK, PacketInv
<1>2. PacketInv(ser') /\ PacketInv(i2c')
  BY <1>1, AddByteInv DEF TakeByte
<1>3. Passed(ser, b) \in Seq(Seq(Byte))
  BY <1>1, PassedType
<1>4. locked' \in BOOLEAN
  BY Zenon DEF ProxyTypes, TypeOK, TakeByte, LockAfter, Starts, Passes
<1>5. sending' \in Seq(Byte)
  BY HeadTailProperties DEF ProxyTypes, TypeOK, TakeByte
<1>6. QED
  BY <1>1, <1>2, <1>3, <1>4, <1>5 DEF ProxyTypes, TypeOK, TakeByte, reader

\* It keeps the announcement and the lock.
LEMMA TakeByteHost ==
  ASSUME ProxyTypes, HostPacket, NEW b \in Byte, TakeByte(b)
  PROVE  Announced(ser') /\ LockFollowsPacket'
<1>1. PacketInv(ser) /\ ser' = AddByte(ser, b) /\ locked' = LockAfter(ser)
  BY DEF ProxyTypes, TypeOK, PacketInv, TakeByte
<1>2. Announced(ser')
  BY <1>1, AddByteAnnounced DEF HostPacket
<1>3. locked <=> ser.buffer # <<>>
  BY DEF HostPacket, LockFollowsPacket
<1>4. locked' <=> ser'.buffer # <<>>
  <2>1. CASE ser.len = None
    <3>1. ~ Passes(ser) /\ ~ Starts(ser) /\ ser.buffer = <<>>
      BY <1>1, <2>1, Unbuffered, Numbers, SMT DEF Passes, Starts
    <3>2. ser'.buffer = <<>>
      BY <1>1, <2>1, HeaderBuffersNothing
    <3>3. QED
      BY <1>1, <1>3, <3>1, <3>2, Zenon DEF LockAfter
  <2>2. CASE ser.len # None /\ Passes(ser)
    <3>1. ser' = Reset
      BY <1>1, <2>2 DEF AddByte, ProxyByte
    <3>2. QED
      BY <1>1, <2>2, <3>1, ResetInv, Zenon DEF LockAfter
  <2>3. CASE ser.len # None /\ ~ Passes(ser)
    <3>1. ser'.buffer # <<>>
      BY <1>1, <2>3, AddByteInv
    <3>2. QED
      BY <1>1, <1>3, <2>3, <3>1, Zenon DEF LockAfter, Starts
  <2>4. QED
    BY <2>1, <2>2, <2>3
<1>5. QED
  BY <1>2, <1>4 DEF LockFollowsPacket

\* What the reader is given beside what it was given before is whole.
LEMMA DeliversWhole ==
  ASSUME ProxyTypes, HostPacket, NEW b \in Byte,
         delivered' = delivered \o Passed(ser, b)
  PROVE  OnlyWholePackets'
<1>1. PacketInv(ser) /\ delivered \in Seq(Seq(Byte))
  BY DEF ProxyTypes, TypeOK, PacketInv
<1>2. CASE ~ Passes(ser)
  <2>1. delivered' = delivered
    BY <1>1, <1>2, ConcatEmptySeq DEF Passed
  <2>2. QED
    BY <2>1 DEF HostPacket, OnlyWholePackets
<1>3. CASE Passes(ser)
  <2> DEFINE f == Packet(ser, b)
  <2>1. WellFormed(f) /\ f \in Seq(Byte)
    <3>1. Announced(ser)
      BY DEF HostPacket
    <3>2. WellFormed(f)
      BY <1>1, <1>3, <3>1, PassedIsWhole
    <3>3. Passed(ser, b) = <<f>>
      BY <1>3 DEF Passed
    <3>4. f \in Seq(Byte)
      BY <1>1, <1>3, PacketShape
    <3>5. QED
      BY <3>2, <3>4
  <2>2. delivered' = delivered \o <<f>>
    BY <1>3 DEF Passed
  <2> HIDE DEF f
  <2>3. delivered' = Append(delivered, f)
    BY <1>1, <2>1, <2>2, AppendIsConcat
  <2>4. /\ Len(delivered') = Len(delivered) + 1 /\ Len(delivered) \in Nat
        /\ \A i \in 1 .. Len(delivered) : delivered'[i] = delivered[i]
        /\ delivered'[Len(delivered) + 1] = f
    BY <1>1, <2>1, <2>3, AppendProperties, SMT
  <2>5. \A i \in 1 .. Len(delivered) : WellFormed(delivered[i])
    BY DEF HostPacket, OnlyWholePackets
  <2>6. ASSUME NEW i \in 1 .. Len(delivered')
        PROVE  WellFormed(delivered'[i])
    <3>1. i \in 1 .. Len(delivered) \/ i = Len(delivered) + 1
      BY <2>4, SMT
    <3>2. QED
      BY <2>1, <2>4, <2>5, <3>1, Zenon
  <2>7. QED
    BY <2>6 DEF OnlyWholePackets
<1>4. QED
  BY <1>2, <1>3

\* The invariant holds at first.
LEMMA InitInv ==
  ASSUME Init
  PROVE  ProxyTypes /\ HostPacket
<1>1. PacketInv(ser) /\ PacketInv(i2c) /\ ser.buffer = <<>>
  BY ResetInv DEF Init
<1>2. 0 \in 0 .. MaxFaults
  BY BoundsAssumption, SMT
<1>3. ProxyTypes
  <2>1. \A S : <<>> \in Seq(S)
    OBVIOUS
  <2>2. chunk \in Seq(Byte) /\ packet \in Seq(Byte) /\ sending \in Seq(Byte)
    BY <2>1, Zenon DEF Init
  <2>3. answer \in Seq(Byte) /\ asked \in Seq(Byte) /\ cut \in Seq(Byte)
    BY <2>1, Zenon DEF Init
  <2>4. delivered \in Seq(Seq(Byte)) /\ heard \in Seq(Seq(Byte))
    BY <2>1, Zenon DEF Init
  <2>5. /\ turn \in {"uart", "bus", "follow"} /\ locked \in BOOLEAN
        /\ clean \in BOOLEAN /\ faults \in 0 .. MaxFaults
    BY <1>2, Zenon DEF Init
  <2>6. QED
    BY <1>1, <2>2, <2>3, <2>4, <2>5, Zenon DEF ProxyTypes, TypeOK, PacketInv
<1>4. LockFollowsPacket
  BY <1>1 DEF LockFollowsPacket, Init
<1>5. OnlyWholePackets
  <2>1. 1 .. Len(delivered) = {}
    BY SMT DEF Init
  <2>2. QED
    BY <2>1 DEF OnlyWholePackets
<1>6. QED
  BY <1>3, <1>4, <1>5, ResetAnnounced DEF HostPacket, Init

\* One more fault is still within the bound.
LEMMA OneMoreFault ==
  ASSUME ProxyTypes, faults < MaxFaults, faults' = faults + 1
  PROVE  faults' \in 0 .. MaxFaults
<1>1. faults \in 0 .. MaxFaults /\ MaxFaults \in Nat
  BY BoundsAssumption DEF ProxyTypes, TypeOK
<1>2. QED
  BY <1>1, SMT

\* What a read of the reader returns are bytes.
LEMMA ReadIsBytes ==
  ASSUME NEW f \in Seq(Byte)
  PROVE  Read(f) \in Seq(Byte)
<1>1. \A i \in 1 .. Chunk : (IF i <= Len(f) THEN f[i] ELSE 0) \in Byte
  <2>1. ASSUME NEW i \in 1 .. Chunk, i <= Len(f) PROVE f[i] \in Byte
    <3>1. i \in 1 .. Len(f)
      BY <2>1, LenProperties, BoundsAssumption, SMT
    <3>2. QED
      BY <3>1, ElementOfSeq
  <2>2. QED
    BY <2>1, Numbers, Zenon
<1>2. Chunk \in Nat
  BY BoundsAssumption
<1>3. [i \in 1 .. Chunk |-> IF i <= Len(f) THEN f[i] ELSE 0] \in Seq(Byte)
  BY <1>1, <1>2, IsASeq
<1>4. QED
  BY <1>3 DEF Read

\* The steps in which the host's side of the proxy stands still.
LEMMA HostUntouched ==
  ASSUME HostPacket, UNCHANGED <<ser, locked, delivered>>
  PROVE  HostPacket'
  BY DEF HostPacket, Announced, Checked, LockFollowsPacket, OnlyWholePackets

\* Every step keeps the types.
LEMMA NextTypes ==
  ASSUME ProxyTypes, [Next]_vars
  PROVE  ProxyTypes'
<1> USE DEF ProxyTypes, TypeOK, line, reader
<1>1. PacketInv(ser) /\ PacketInv(i2c)
  BY DEF PacketInv
<1>2. CASE Begin
  <2>1. ASSUME NEW f \in Frames PROVE f \in Seq(Byte)
    BY FramesAreBytes
  <2>2. packet' \in Seq(Byte) /\ sending' \in Seq(Byte)
    BY <1>2, <2>1 DEF Begin
  <2>3. clean' \in BOOLEAN /\ delivered' \in Seq(Seq(Byte))
    BY <1>2 DEF Begin, Hunting
  <2>4. QED
    BY <1>2, <2>2, <2>3 DEF Begin
<1>3. CASE Answers
  <2>1. answer' \in Seq(Byte)
    BY <1>3, FramesAreBytes DEF Answers
  <2>2. QED
    BY <1>3, <2>1 DEF Answers
<1>4. CASE Lose
  <2>1. sending' \in Seq(Byte)
    BY <1>4, HeadTailProperties DEF Lose
  <2>2. faults' \in 0 .. MaxFaults
    BY <1>4, OneMoreFault DEF Lose
  <2>3. QED
    BY <1>4, <2>1, <2>2 DEF Lose
<1>5. CASE SerialByte
  <2> DEFINE b == Head(sending)
  <2>1. b \in Byte /\ sending # <<>>
    BY <1>5, HeadTailProperties DEF SerialByte
  <2> HIDE DEF b
  <2>2. CASE ~ UNCHANGED vars
    <3>1. /\ TakeByte(b) /\ delivered' = delivered \o Passed(ser, b)
          /\ UNCHANGED <<clean, faults>>
      BY <1>5, <2>2 DEF SerialByte, b
    <3>2. delivered' \in Seq(Seq(Byte))
      BY <2>1, <3>1, TakeByteTypes, ConcatProperties
    <3>3. QED
      BY <2>1, <3>1, <3>2, TakeByteTypes DEF PacketInv
  <2>3. CASE UNCHANGED vars
    BY <2>3 DEF vars
  <2>4. QED
    BY <2>2, <2>3
<1>6. CASE GarbledByte
  <2>1. PICK b \in Byte : /\ TakeByte(b)
                          /\ delivered' = delivered \o Passed(ser, b)
    BY <1>6 DEF GarbledByte
  <2>2. sending # <<>> /\ clean' = FALSE /\ faults' \in 0 .. MaxFaults
    BY <1>6, OneMoreFault DEF GarbledByte
  <2>3. delivered' \in Seq(Seq(Byte))
    BY <2>1, <2>2, TakeByteTypes, ConcatProperties
  <2>4. QED
    BY <2>1, <2>2, <2>3, TakeByteTypes DEF PacketInv
<1>7. CASE RefusedWrite
  <2>1. Head(sending) \in Byte /\ sending # <<>> /\ TakeByte(Head(sending))
    BY <1>7, HeadTailProperties DEF RefusedWrite
  <2>2. clean' = FALSE /\ faults' \in 0 .. MaxFaults /\ delivered' = delivered
    BY <1>7, OneMoreFault DEF RefusedWrite
  <2>3. QED
    BY <2>1, <2>2, TakeByteTypes DEF PacketInv
<1>8. CASE NoByte
  BY <1>8 DEF NoByte
<1>9. CASE ReadReader
  <2>1. chunk' \in Seq(Byte)
    BY <1>9, ReadIsBytes DEF ReadReader
  <2>2. cut' \in Seq(Byte)
    BY <1>9 DEF ReadReader
  <2>3. QED
    BY <1>9, <2>1, <2>2 DEF ReadReader
<1>10. CASE NoRead
  BY <1>10 DEF NoRead
<1>f. CASE FailedRead
  BY <1>f, OneMoreFault DEF FailedRead
<1>11. CASE FollowReader
  <2>1. Head(chunk) \in Byte /\ Tail(chunk) \in Seq(Byte)
    BY <1>11, HeadTailProperties DEF FollowReader
  <2>2. PacketInv(i2c')
    BY <1>1, <1>11, <2>1, AddByteInv DEF FollowReader
  <2>3. heard' \in Seq(Seq(Byte))
    BY <1>1, <1>11, <2>1, PassedType, ConcatProperties DEF FollowReader
  <2>4. chunk' \in Seq(Byte)
    BY <1>11, <2>1 DEF FollowReader, Rest
  <2>5. QED
    BY <1>11, <2>2, <2>3, <2>4 DEF FollowReader, PacketInv
<1>12. CASE Followed
  BY <1>12 DEF Followed
<1>13. CASE UNCHANGED vars
  BY <1>13 DEF vars
<1>14. QED
  BY <1>2, <1>3, <1>4, <1>5, <1>6, <1>7, <1>8, <1>9, <1>10, <1>f, <1>11,
     <1>12, <1>13, Zenon DEF Next, Loop

\* Every step keeps the announcement, the lock and the packets whole.
LEMMA NextHost ==
  ASSUME ProxyTypes, HostPacket, [Next]_vars
  PROVE  HostPacket'
<1>1. CASE Begin
  <2>1. OnlyWholePackets'
    <3>1. delivered' = <<>> /\ 1 .. Len(<<>>) = {}
      BY <1>1, SMT DEF Begin
    <3>2. QED
      BY <3>1 DEF OnlyWholePackets
  <2>2. Announced(ser') /\ LockFollowsPacket'
    BY <1>1 DEF Begin, HostPacket, LockFollowsPacket
  <2>3. QED
    BY <2>1, <2>2 DEF HostPacket, Announced, Checked
<1>2. CASE SerialByte /\ ~ UNCHANGED vars
  <2>1. Head(sending) \in Byte
    BY <1>2, HeadTailProperties DEF SerialByte, ProxyTypes, TypeOK
  <2>2. /\ TakeByte(Head(sending))
        /\ delivered' = delivered \o Passed(ser, Head(sending))
    BY <1>2 DEF SerialByte
  <2>3. QED
    BY <2>1, <2>2, TakeByteHost, DeliversWhole DEF HostPacket, Announced, Checked
<1>3. CASE GarbledByte
  <2>1. PICK b \in Byte : /\ TakeByte(b)
                          /\ delivered' = delivered \o Passed(ser, b)
    BY <1>3 DEF GarbledByte
  <2>2. QED
    BY <2>1, TakeByteHost, DeliversWhole DEF HostPacket, Announced, Checked
<1>4. CASE RefusedWrite
  <2>1. Head(sending) \in Byte
    BY <1>4, HeadTailProperties DEF RefusedWrite, ProxyTypes, TypeOK
  <2>2. TakeByte(Head(sending)) /\ delivered' = delivered
    BY <1>4 DEF RefusedWrite
  <2>3. OnlyWholePackets'
    BY <2>2 DEF HostPacket, OnlyWholePackets
  <2>4. QED
    BY <2>1, <2>2, <2>3, TakeByteHost DEF HostPacket, Announced, Checked
<1>5. CASE \/ Answers \/ Lose \/ NoByte \/ ReadReader \/ FailedRead \/ NoRead
           \/ FollowReader \/ Followed \/ UNCHANGED vars
  <2>1. UNCHANGED <<ser, locked, delivered>>
    BY <1>5 DEF Answers, Lose, NoByte, ReadReader, FailedRead, NoRead,
                FollowReader, Followed, vars
  <2>2. QED
    BY <2>1, HostUntouched
<1>6. QED
  BY <1>1, <1>2, <1>3, <1>4, <1>5, Zenon DEF Next, Loop

-----------------------------------------------------------------------------
(* The two runs of a frame that no fault touches: the host's packet through  *)
(* ser, and the reader's answer through i2c.                                 *)

HostRun ==
  /\ packet # <<>> => packet \in Frames
  /\ clean /\ packet # <<>> =>
       IF sending = <<>> THEN delivered = <<packet>>
       ELSE /\ delivered = <<>>
            /\ \E k \in 0 .. Len(packet) - 1 :
                 /\ sending = SubSeq(packet, k + 1, Len(packet))
                 /\ Follows(ser, packet, k)

\* A packet begins.
LEMMA BeginRun ==
  ASSUME ExtendedData = {}, Begin
  PROVE  HostRun'
<1>1. PICK f \in Frames : packet' = f /\ sending' = f
  BY DEF Begin
<1>2. f \in Seq(Byte) /\ Len(f) \in Nat /\ Len(f) >= 6
  BY <1>1, FrameShape, FrameLength
<1>3. f # <<>> /\ 0 \in 0 .. Len(f) - 1
  BY <1>2, SMT
<1>4. f = SubSeq(f, 0 + 1, Len(f))
  BY <1>2, SubSeqFull, SMT
<1>5. clean' => Follows(ser', f, 0)
  BY SMT DEF Begin, Follows
<1>6. delivered' = <<>>
  BY DEF Begin
<1>7. QED
  BY <1>1, <1>3, <1>4, <1>5, <1>6, Zenon DEF HostRun

\* A byte of it arrives unharmed.
LEMMA ByteRun ==
  ASSUME ExtendedData = {}, ProxyTypes, HostPacket, HostRun, SerialByte,
         ~ UNCHANGED vars
  PROVE  HostRun'
<1>1. /\ TakeByte(Head(sending)) /\ sending # <<>>
      /\ delivered' = delivered \o Passed(ser, Head(sending))
      /\ UNCHANGED <<clean, packet>>
  BY DEF SerialByte, TakeByte
<1>2. CASE clean /\ packet # <<>>
  <2>1. PICK k \in 0 .. Len(packet) - 1 :
          /\ sending = SubSeq(packet, k + 1, Len(packet))
          /\ Follows(ser, packet, k)
    BY <1>1, <1>2 DEF HostRun
  <2>2. /\ packet \in Frames /\ delivered = <<>>
        /\ PacketInv(ser) /\ Announced(ser) /\ FrameOf(packet)
    BY <1>1, <1>2, FrameShape DEF HostRun, ProxyTypes, TypeOK, PacketInv, HostPacket
  <2>3. packet \in Seq(Byte) /\ Len(packet) \in Nat
    BY <2>2, FrameLength
  <2>4. k + 1 \in 1 .. Len(packet) /\ Len(packet) \in k + 1 .. Len(packet)
    BY <2>3, SMT
  <2>5. Head(sending) = packet[k + 1]
        /\ Tail(sending) = SubSeq(packet, (k + 1) + 1, Len(packet))
    BY <2>1, <2>3, <2>4, HeadTailOfSubSeq, Zenon
  <2>6. /\ ser' = AddByte(ser, packet[k + 1]) /\ sending' = Tail(sending)
        /\ delivered' = delivered \o Passed(ser, packet[k + 1])
    BY <1>1, <2>5 DEF TakeByte
  <2>7. CASE k + 1 < Len(packet)
    <3>1. Passed(ser, packet[k + 1]) = <<>> /\ Follows(ser', packet, k + 1)
      BY <2>1, <2>2, <2>6, <2>7, FollowsOn
    <3>2. delivered' = <<>>
      BY <2>2, <2>6, <3>1
    <3>3. k + 1 \in 0 .. Len(packet) - 1
      BY <2>3, <2>7, SMT
    <3>4. sending' # <<>>
      <4>1. k + 2 \in 1 .. Len(packet) /\ (k + 1) + 1 = k + 2
            /\ Len(packet) \in k + 2 .. Len(packet)
        BY <2>3, <2>7, SMT
      <4>2. Len(SubSeq(packet, k + 2, Len(packet))) = Len(packet) - (k + 2) + 1
        BY <2>3, <4>1, SMT
      <4>3. Len(packet) - (k + 2) + 1 # 0
        BY <2>3, <2>7, SMT
      <4>4. Len(sending') # 0
        BY <2>5, <2>6, <4>1, <4>2, <4>3, Zenon
      <4>5. QED
        BY <4>4
    <3>5. QED
      BY <1>1, <1>2, <2>2, <2>5, <2>6, <3>1, <3>2, <3>3, <3>4 DEF HostRun
  <2>8. CASE k + 1 = Len(packet)
    <3>1. Passed(ser, packet[k + 1]) = <<packet>>
      BY <2>1, <2>2, <2>8, FollowsOn
    <3>2. delivered' = <<packet>>
      BY <2>2, <2>6, <3>1
    <3>3. sending' = <<>>
      <4>1. Len(packet) < (k + 1) + 1 /\ (k + 1) + 1 \in Int
            /\ Len(packet) \in Int
        BY <2>3, <2>8, SMT
      <4>2. QED
        BY <2>5, <2>6, <4>1, SubSeqEmpty, Zenon
    <3>4. QED
      BY <1>1, <2>2, <3>2, <3>3 DEF HostRun
  <2>9. QED
    BY <2>3, <2>4, <2>7, <2>8, SMT
<1>3. CASE ~ (clean /\ packet # <<>>)
  BY <1>1, <1>3 DEF HostRun
<1>4. QED
  BY <1>2, <1>3

\* Every step keeps the run of the host's packet.
LEMMA NextHostRun ==
  ASSUME ExtendedData = {}, ProxyTypes, HostPacket, HostRun, [Next]_vars
  PROVE  HostRun'
<1>1. CASE Begin
  BY <1>1, BeginRun
<1>2. CASE SerialByte /\ ~ UNCHANGED vars
  BY <1>2, ByteRun
<1>3. CASE Lose \/ GarbledByte \/ RefusedWrite
  <2>1. ~ clean' /\ packet' = packet
    BY <1>3 DEF Lose, GarbledByte, RefusedWrite, TakeByte
  <2>2. QED
    BY <2>1 DEF HostRun
<1>4. CASE \/ Answers \/ NoByte \/ ReadReader \/ FailedRead \/ NoRead
           \/ FollowReader \/ Followed \/ UNCHANGED vars
  <2>1. UNCHANGED <<ser, packet, sending, clean, delivered>>
    BY <1>4 DEF Answers, NoByte, ReadReader, FailedRead, NoRead, FollowReader,
                Followed, vars, line
  <2>2. QED
    BY <2>1 DEF HostRun
<1>5. QED
  BY <1>1, <1>2, <1>3, <1>4, Zenon DEF Next, Loop

-----------------------------------------------------------------------------
(* The reader's answers: of a long one the decoder gets the first Chunk bytes *)
(* from one read and the others from the next.                               *)

\* How many bytes of what it takes for one packet came before the last read.
Behind == IF cut = <<>> THEN 0 ELSE Chunk

\* The loop is k bytes into the packet, within what it has read.
At(k) ==
  /\ k >= Behind /\ k < Behind + Chunk /\ k < Len(Joined)
  /\ chunk = SubSeq(Read(asked), (k - Behind) + 1, Chunk)
  /\ Follows(i2c, Joined, k)

ReaderFrames ==
  /\ answer # <<>> => answer \in Frames
  /\ asked # <<>> => asked \in Frames
  /\ cut # <<>> => asked # <<>> /\ cut \in Frames /\ Len(cut) > Chunk

ReaderRun ==
  /\ ReaderFrames
  /\ Announced(i2c)
  /\ turn # "follow" => chunk = <<>>
  /\ asked = <<>> => chunk = <<>> /\ Hunting(i2c)
  /\ chunk # <<>> => heard = <<>> /\ \E k \in Nat : At(k)
  /\ asked # <<>> /\ chunk = <<>> /\ Len(Joined) <= Behind + Chunk
       => heard = <<Joined>> /\ Hunting(i2c)
  /\ asked # <<>> /\ chunk = <<>> /\ Len(Joined) > Behind + Chunk
       => heard = <<>> /\ Follows(i2c, Joined, Behind + Chunk)

\* Two reads hold any packet, and one read its header.
Suffices == Chunk \in Nat /\ 2 * Chunk >= Base + 6 /\ Chunk >= 5

\* What a read returns: the packet, as far as it goes.
LEMMA ReadBytes ==
  ASSUME NEW f \in Seq(Byte), Suffices
  PROVE  /\ Read(f) \in Seq(Byte) /\ Len(Read(f)) = Chunk
         /\ \A i \in 1 .. Chunk : i <= Len(f) => Read(f)[i] = f[i]
<1>1. Read(f) \in Seq(Byte)
  BY ReadIsBytes
<1>2. Len(Read(f)) = Chunk
  BY SMT DEF Read, Suffices
<1>3. \A i \in 1 .. Chunk : i <= Len(f) => Read(f)[i] = f[i]
  BY Zenon DEF Read
<1>4. QED
  BY <1>1, <1>2, <1>3

\* The beginning of a cut answer and the beginning of the next read.
LEMMA SplicedFrame ==
  ASSUME NEW f, FrameOf(f), NEW r \in Seq(Byte), Len(r) = Chunk,
         Len(f) > Chunk, Suffices
  PROVE  /\ FrameOf(Spliced(f, r)) /\ Len(Spliced(f, r)) = Len(f)
         /\ \A i \in 1 .. Chunk : Spliced(f, r)[i] = f[i]
         /\ \A i \in Chunk + 1 .. Len(Spliced(f, r)) :
              Spliced(f, r)[i] = r[i - Chunk]
<1> DEFINE g == Spliced(f, r)
           n == Len(f) - Chunk
           s == SubSeq(f, 1, Chunk)
           t == SubSeq(r, 1, n)
<1>1. /\ f \in Seq(Byte) /\ Len(f) \in Nat /\ Len(f) <= Base + 6
      /\ Chunk \in Nat /\ Chunk >= 5 /\ Base \in Nat
      /\ n \in Nat /\ n >= 1 /\ n <= Chunk
  BY FrameLength, Numbers, SMT DEF Suffices
<1>2. /\ s \in Seq(Byte) /\ Len(s) = Chunk
      /\ \A i \in 1 .. Chunk : s[i] = f[i]
  <2>1. \A i \in 1 .. Chunk : f[i] \in Byte
    BY <1>1, FrameLength, SMT
  <2>2. QED
    BY <1>1, <2>1, SMT
<1>3. /\ t \in Seq(Byte) /\ Len(t) = n
      /\ \A i \in 1 .. n : t[i] = r[i]
  <2>1. \A i \in 1 .. n : r[i] \in Byte
    <3>1. \A i \in 1 .. n : i \in 1 .. Len(r)
      BY <1>1, SMT
    <3>2. QED
      BY <3>1, ElementOfSeq
  <2> HIDE DEF n
  <2>2. QED
    BY <1>1, <2>1, SMT
<1>4. g = s \o t
  BY DEF Spliced
<1> HIDE DEF s, t, g
<1>5. /\ g \in Seq(Byte) /\ Len(g) = Len(s) + Len(t)
      /\ \A i \in 1 .. Len(s) : g[i] = s[i]
      /\ \A i \in Len(s) + 1 .. Len(s) + Len(t) : g[i] = t[i - Len(s)]
  <2>1. /\ s \o t \in Seq(Byte) /\ Len(s \o t) = Len(s) + Len(t)
        /\ \A i \in 1 .. Len(s) + Len(t) :
             (s \o t)[i] = IF i <= Len(s) THEN s[i] ELSE t[i - Len(s)]
    BY <1>2, <1>3, ConcatProperties, Zenon
  <2>2. /\ \A i \in 1 .. Len(s) : i \in 1 .. Len(s) + Len(t) /\ i <= Len(s)
        /\ \A i \in Len(s) + 1 .. Len(s) + Len(t) :
             i \in 1 .. Len(s) + Len(t) /\ ~ (i <= Len(s))
    BY <1>1, <1>2, <1>3, SMT
  <2>3. QED
    BY <1>4, <2>1, <2>2
<1>6. Len(g) = Len(f)
  <2>1. Len(s) = Chunk /\ Len(t) = n /\ Len(g) = Len(s) + Len(t)
    BY <1>2, <1>3, <1>5
  <2>2. Chunk + n = Len(f)
    BY <1>1, SMT
  <2>3. QED
    BY <2>1, <2>2
<1>7. \A i \in 1 .. Chunk : g[i] = f[i]
  BY <1>2, <1>5
<1>8. ASSUME NEW i \in Chunk + 1 .. Len(g) PROVE g[i] = r[i - Chunk]
  <2>1. i - Chunk \in 1 .. n /\ i \in Len(s) + 1 .. Len(s) + Len(t)
    BY <1>1, <1>2, <1>3, <1>6, SMT
  <2>2. QED
    BY <1>2, <1>3, <1>5, <2>1
<1>9. FrameOf(g)
  <2>1. {1, 2, 3, 4, 5} \subseteq 1 .. Chunk
    BY <1>1, SMT
  <2>2. /\ g[1] = f[1] /\ g[2] = f[2] /\ g[3] = f[3] /\ g[4] = f[4]
        /\ g[5] = f[5]
    BY <1>7, <2>1
  <2>3. QED
    BY <1>5, <1>6, <2>2 DEF FrameOf
<1>10. QED
  BY <1>6, <1>7, <1>8, <1>9 DEF g

\* What the decoder takes for one packet is one, and the part of it that is in
\* the last read is where the loop finds it.
LEMMA JoinedFrame ==
  ASSUME ExtendedData = {}, Suffices, ReaderFrames, asked # <<>>
  PROVE  /\ FrameOf(Joined)
         /\ \A k \in Nat : k >= Behind /\ k < Behind + Chunk /\ k < Len(Joined)
              => Joined[k + 1] = Read(asked)[(k - Behind) + 1]
         /\ cut = <<>> => Joined = asked
         /\ cut # <<>> => Len(Joined) <= Behind + Chunk
<1>1. FrameOf(asked) /\ asked \in Seq(Byte) /\ Len(asked) \in Nat
  BY FrameShape, FrameLength DEF ReaderFrames
<1>2. /\ Read(asked) \in Seq(Byte) /\ Len(Read(asked)) = Chunk
      /\ \A i \in 1 .. Chunk : i <= Len(asked) => Read(asked)[i] = asked[i]
  BY <1>1, ReadBytes
<1>3. Chunk \in Nat
  BY DEF Suffices
<1>4. CASE cut = <<>>
  <2>1. Joined = asked /\ Behind = 0
    BY <1>4 DEF Joined, Behind
  <2>2. ASSUME NEW k \in Nat, k < Chunk, k < Len(asked)
        PROVE  asked[k + 1] = Read(asked)[(k - 0) + 1]
    <3>1. k + 1 \in 1 .. Chunk /\ k + 1 <= Len(asked) /\ (k - 0) + 1 = k + 1
      BY <1>1, <1>3, <2>2, SMT
    <3>2. QED
      BY <1>2, <3>1
  <2>3. \A k \in Nat : k < 0 + Chunk => k < Chunk
    BY <1>3, SMT
  <2>4. QED
    BY <1>1, <1>4, <2>1, <2>2, <2>3
<1>5. CASE cut # <<>>
  <2> DEFINE g == Spliced(cut, Read(asked))
  <2>1. Joined = g /\ Behind = Chunk
    BY <1>5 DEF Joined, Behind
  <2>2. FrameOf(cut) /\ Len(cut) > Chunk
    BY <1>5, FrameShape DEF ReaderFrames
  <2>3. /\ FrameOf(g) /\ Len(g) = Len(cut)
        /\ \A i \in Chunk + 1 .. Len(g) : g[i] = Read(asked)[i - Chunk]
    BY <1>2, <2>2, SplicedFrame
  <2> HIDE DEF g
  <2>4. Len(g) <= Chunk + Chunk
    <3>1. Len(cut) \in Nat /\ Len(cut) <= Base + 6
      BY <2>2, FrameLength
    <3>2. QED
      BY <2>3, <3>1, Numbers, SMT DEF Suffices
  <2>5. ASSUME NEW k \in Nat, k >= Chunk, k < Len(g)
        PROVE  g[k + 1] = Read(asked)[(k - Chunk) + 1]
    <3>1. Len(g) \in Nat
      BY <2>3, FrameLength
    <3>2. k + 1 \in Chunk + 1 .. Len(g) /\ (k + 1) - Chunk = (k - Chunk) + 1
      BY <1>3, <2>5, <3>1, SMT
    <3>3. QED
      BY <2>3, <3>2
  <2>6. QED
    BY <1>5, <2>1, <2>3, <2>4, <2>5
<1>6. QED
  BY <1>4, <1>5

\* A packet that begins alike has led the decoder to the same place.
LEMMA FollowsAlike ==
  ASSUME NEW f \in Seq(Byte), NEW g \in Seq(Byte), Len(f) = Len(g),
         NEW k \in Nat, k >= 5, k <= Len(f), \A i \in 1 .. k : f[i] = g[i],
         NEW p, Follows(p, f, k)
  PROVE  Follows(p, g, k)
<1>1. f[4] = g[4] /\ f[5] = g[5]
  <2>1. 4 \in 1 .. k /\ 5 \in 1 .. k
    BY SMT
  <2>2. QED
    BY <2>1
<1>2. SubSeq(f, 6, k) = SubSeq(g, 6, k)
  <2>1. \A i \in 1 .. k - 5 : f[6 + i - 1] = g[6 + i - 1]
    <3>1. \A i \in 1 .. k - 5 : 6 + i - 1 \in 1 .. k
      BY SMT
    <3>2. QED
      BY <3>1
  <2>2. /\ SubSeq(f, 6, k) = [i \in 1 .. k - 5 |-> f[6 + i - 1]]
        /\ SubSeq(g, 6, k) = [i \in 1 .. k - 5 |-> g[6 + i - 1]]
    BY SMT
  <2>3. QED
    BY <2>1, <2>2, Zenon
<1>3. k > 4 /\ ~ (k <= 2) /\ k \notin {1, 2} /\ k \notin {3, 4} /\ k >= 4
  BY SMT
<1>4. /\ p.extended = FALSE /\ p.header[4] = f[4] /\ p.header[5] = f[5]
      /\ p.len = Len(f) - k /\ p.buffer = SubSeq(f, 6, k)
  BY <1>3, SMT DEF Follows
<1>5. QED
  BY <1>1, <1>2, <1>3, <1>4, SMT DEF Follows

\* The bytes of a read, from one on.
LEMMA RestOfRead ==
  ASSUME NEW r \in Seq(Byte), Len(r) = Chunk, NEW i \in 1 .. Chunk,
         Chunk \in Nat, NEW c, c = SubSeq(r, i, Chunk)
  PROVE  /\ c # <<>> /\ Head(c) = r[i] /\ Tail(c) = SubSeq(r, i + 1, Chunk)
         /\ Tail(c) = <<>> <=> i = Chunk
<1>1. i \in 1 .. Len(r) /\ Chunk \in i .. Len(r)
  BY SMT
<1>2. Head(c) = r[i] /\ Tail(c) = SubSeq(r, i + 1, Chunk)
  BY <1>1, HeadTailOfSubSeq, Zenon
<1>3. c = <<r[i]>> \o SubSeq(r, i + 1, Chunk)
  BY <1>1, SubSeqRecursiveFirst, Zenon
<1>4. ASSUME NEW j \in 1 .. Chunk + 1
      PROVE  Len(SubSeq(r, j, Chunk)) = Chunk - j + 1
  <2>1. \A m \in j .. Chunk : r[m] \in Byte
    <3>1. \A m \in j .. Chunk : m \in 1 .. Len(r)
      BY SMT
    <3>2. QED
      BY <3>1, ElementOfSeq
  <2>2. j \in Int /\ Chunk \in Int /\ (j <= Chunk \/ j = Chunk + 1)
    BY SMT
  <2>3. CASE j <= Chunk
    BY <2>1, <2>2, <2>3, SubSeqProperties, Zenon
  <2>4. CASE j = Chunk + 1
    <3>1. Chunk < j /\ Chunk - j + 1 = 0
      BY <2>4, SMT
    <3>2. SubSeq(r, j, Chunk) = <<>>
      BY <2>2, <3>1, SubSeqEmpty, Zenon
    <3>3. QED
      BY <3>1, <3>2
  <2>5. QED
    BY <2>2, <2>3, <2>4
<1>5. c # <<>>
  <2>1. i \in 1 .. Chunk + 1 /\ Chunk - i + 1 # 0
    BY SMT
  <2>2. Len(c) # 0
    BY <1>4, <2>1
  <2>3. QED
    BY <2>2
<1>6. Tail(c) = <<>> <=> i = Chunk
  <2>1. i + 1 \in 1 .. Chunk + 1 /\ (Chunk - (i + 1) + 1 = 0 <=> i = Chunk)
    BY SMT
  <2>2. Len(Tail(c)) = Chunk - (i + 1) + 1
    BY <1>2, <1>4, <2>1
  <2>3. Tail(c) = <<>> <=> Len(Tail(c)) = 0
    <3>1. Tail(c) \in Seq(Byte)
      <4>1. \A m \in i + 1 .. Chunk : r[m] \in Byte
        <5>1. \A m \in i + 1 .. Chunk : m \in 1 .. Len(r)
          BY SMT
        <5>2. QED
          BY <5>1, ElementOfSeq
      <4>2. i + 1 \in Int /\ Chunk \in Int
        BY SMT
      <4>3. QED
        BY <1>2, <4>1, <4>2, SubSeqProperties, Zenon
    <3>2. QED
      BY <3>1, EmptySeq
  <2>4. QED
    BY <2>1, <2>2, <2>3
<1>7. QED
  BY <1>2, <1>5, <1>6

\* The loop reads an answer, out of a packet or with the decoder in a long one.
LEMMA ReadRun ==
  ASSUME ExtendedData = {}, Suffices, ProxyTypes, ReaderRun, ReadReader
  PROVE  ReaderRun'
<1>1. /\ answer # <<>> /\ asked' = answer /\ answer' = <<>> /\ heard' = <<>>
      /\ chunk' = Read(answer) /\ turn' = "follow" /\ i2c' = i2c
      /\ cut' = IF Hunting(i2c) THEN <<>> ELSE asked
      /\ chunk = <<>>
  BY DEF ReadReader, ReaderRun
<1>2. /\ ReaderFrames /\ Announced(i2c) /\ answer \in Frames
      /\ Chunk \in Nat /\ Chunk >= 5
  BY <1>1 DEF ReaderRun, ReaderFrames, Suffices
<1>3. FrameOf(answer) /\ answer \in Seq(Byte)
  BY <1>2, FrameShape, FrameLength
<1>4. /\ Read(answer) \in Seq(Byte) /\ Len(Read(answer)) = Chunk
  BY <1>3, ReadBytes
<1>5. Read(answer) # <<>> /\ SubSeq(Read(answer), 1, Chunk) = Read(answer)
  <2>1. SubSeq(Read(answer), 1, Len(Read(answer))) = Read(answer)
    BY <1>4, SubSeqFull, Zenon
  <2>2. Len(Read(answer)) # 0
    BY <1>2, <1>4, SMT
  <2>3. QED
    BY <1>4, <2>1, <2>2
<1>6. CASE Hunting(i2c)
  <2>1. cut' = <<>>
    BY <1>1, <1>6
  <2>2. Joined' = answer /\ Behind' = 0
    BY <1>1, <2>1 DEF Joined, Behind
  <2>3. ReaderFrames'
    BY <1>1, <1>2, <2>1 DEF ReaderFrames
  <2>4. At(0)'
    <3>1. (0 - 0) + 1 = 1 /\ 0 >= 0 /\ 0 < 0 + Chunk /\ 0 < Len(answer)
      BY <1>2, <1>3, FrameLength, SMT
    <3>2. Follows(i2c, answer, 0)
      BY <1>6, SMT DEF Follows
    <3>3. QED
      BY <1>1, <1>5, <2>2, <3>1, <3>2 DEF At
  <2>5. QED
    BY <1>1, <1>2, <1>3, <1>5, <2>3, <2>4 DEF ReaderRun
<1>7. CASE ~ Hunting(i2c)
  <2>1. asked # <<>> /\ cut' = asked
    BY <1>1, <1>7 DEF ReaderRun
  <2>2. FrameOf(Joined) /\ Len(Joined) \in Nat
    BY <1>2, <2>1, JoinedFrame, FrameLength
  <2>3. ~ (Len(Joined) <= Behind + Chunk)
    BY <1>1, <1>7, <2>1 DEF ReaderRun
  <2>4. Len(Joined) > Behind + Chunk
    BY <1>2, <2>2, <2>3, SMT DEF Behind
  <2>5. Follows(i2c, Joined, Behind + Chunk)
    BY <1>1, <2>1, <2>4 DEF ReaderRun
  <2>6. cut = <<>> /\ Joined = asked /\ Behind + Chunk = Chunk
    <3>1. cut = <<>>
      BY <1>2, <2>1, <2>3, JoinedFrame
    <3>2. 0 + Chunk = Chunk
      BY <1>2, SMT
    <3>3. QED
      BY <3>1, <3>2 DEF Joined, Behind
  <2> DEFINE r == Read(answer)
             g == Spliced(asked, r)
  <2>7. Joined' = g /\ Behind' = Chunk
    <3>1. asked # <<>>
      BY <2>1
    <3>2. QED
      BY <1>1, <2>1, <3>1 DEF Joined, Behind
  <2>8. /\ FrameOf(g) /\ Len(g) = Len(asked) /\ asked \in Seq(Byte)
        /\ Len(asked) > Chunk /\ Len(asked) \in Nat /\ g \in Seq(Byte)
        /\ \A i \in 1 .. Chunk : g[i] = asked[i]
    <3>1. Len(asked) > Chunk /\ FrameOf(asked)
      BY <2>2, <2>4, <2>6
    <3>2. /\ FrameOf(g) /\ Len(g) = Len(asked)
          /\ \A i \in 1 .. Chunk : g[i] = asked[i]
      BY <1>4, <3>1, SplicedFrame
    <3>3. QED
      BY <3>1, <3>2, FrameLength
  <2> HIDE DEF g, r
  <2>9. Follows(i2c, g, Chunk)
    <3>1. Chunk <= Len(asked)
      BY <1>2, <2>8, SMT
    <3>2. Follows(i2c, asked, Chunk)
      BY <2>5, <2>6
    <3>3. QED
      BY <1>2, <2>8, <3>1, <3>2, FollowsAlike
  <2>10. ReaderFrames'
    BY <1>1, <1>2, <2>1, <2>8 DEF ReaderFrames
  <2>11. At(Chunk)'
    <3>1. /\ (Chunk - Chunk) + 1 = 1 /\ Chunk >= Chunk /\ Chunk < Chunk + Chunk
      BY <1>2, SMT
    <3>2. Chunk < Len(g)
      BY <1>2, <2>8, SMT
    <3>3. chunk' = SubSeq(Read(asked'), (Chunk - Chunk) + 1, Chunk)
      BY <1>1, <1>5, <3>1
    <3>4. QED
      BY <1>1, <2>7, <2>9, <3>1, <3>2, <3>3 DEF At
  <2>12. QED
    BY <1>1, <1>2, <1>5, <2>10, <2>11 DEF ReaderRun
<1>8. QED
  BY <1>6, <1>7

\* The loop follows a byte of it.
LEMMA FollowRun ==
  ASSUME ExtendedData = {}, Suffices, ProxyTypes, ReaderRun, FollowReader
  PROVE  ReaderRun'
<1> DEFINE f == Joined
           d == Behind
           r == Read(asked)
<1>1. chunk # <<>> /\ asked # <<>> /\ heard = <<>>
  BY DEF ReaderRun, FollowReader
<1>2. PICK k \in Nat : At(k)
  BY <1>1 DEF ReaderRun
<1>3. /\ PacketInv(i2c) /\ Announced(i2c) /\ ReaderFrames
      /\ Chunk \in Nat /\ d \in Nat
  BY DEF ReaderRun, ProxyTypes, TypeOK, PacketInv, Suffices, Behind
<1>4. /\ FrameOf(f) /\ Len(f) \in Nat
      /\ \A i \in 1 .. Len(f) : f[i] \in Byte
  BY <1>1, <1>3, JoinedFrame, FrameLength
<1>5. r \in Seq(Byte) /\ Len(r) = Chunk
  <2>1. asked \in Seq(Byte)
    BY DEF ProxyTypes, TypeOK
  <2>2. QED
    BY <2>1, ReadBytes
<1>6. /\ k >= d /\ k < d + Chunk /\ k < Len(f)
      /\ chunk = SubSeq(r, (k - d) + 1, Chunk)
      /\ Follows(i2c, f, k)
  BY <1>2 DEF At
<1>7. f[k + 1] = r[(k - d) + 1]
  BY <1>1, <1>3, <1>6, JoinedFrame
<1>8. UNCHANGED <<asked, cut, answer, turn>> /\ turn = "follow"
  BY DEF FollowReader, reader
<1>9. Joined' = f /\ Behind' = d /\ ReaderFrames' /\ Read(asked)' = r
  BY <1>3, <1>8 DEF Joined, Behind, ReaderFrames
<1> HIDE DEF f, d, r
<1>10. (k - d) + 1 \in 1 .. Chunk /\ k + 1 \in 1 .. Len(f)
  BY <1>3, <1>4, <1>6, SMT
<1>11. /\ Head(chunk) = f[k + 1]
       /\ Tail(chunk) = SubSeq(r, ((k - d) + 1) + 1, Chunk)
       /\ Tail(chunk) = <<>> <=> (k - d) + 1 = Chunk
  <2> DEFINE i == (k - d) + 1
  <2>1. chunk = SubSeq(r, i, Chunk) /\ i \in 1 .. Chunk /\ f[k + 1] = r[i]
    BY <1>6, <1>7, <1>10
  <2> HIDE DEF i
  <2>2. /\ Head(chunk) = r[i] /\ Tail(chunk) = SubSeq(r, i + 1, Chunk)
        /\ Tail(chunk) = <<>> <=> i = Chunk
    <3>1. r \in Seq(Byte) /\ Len(r) = Chunk /\ Chunk \in Nat
      BY <1>3, <1>5
    <3>2. ASSUME NEW j \in 1 .. Chunk, chunk = SubSeq(r, j, Chunk)
          PROVE  /\ Head(chunk) = r[j] /\ Tail(chunk) = SubSeq(r, j + 1, Chunk)
                 /\ Tail(chunk) = <<>> <=> j = Chunk
      BY <3>1, <3>2, RestOfRead, Zenon
    <3>3. QED
      BY <2>1, <3>2, Zenon
  <2>3. QED
    BY <2>1, <2>2 DEF i
<1>12. /\ i2c' = AddByte(i2c, f[k + 1])
       /\ heard' = <<>> \o Passed(i2c, f[k + 1])
       /\ chunk' = IF Passes(i2c) THEN <<>> ELSE Tail(chunk)
  BY <1>1, <1>11 DEF FollowReader, Rest
<1>13. Announced(i2c') /\ f[k + 1] \in Byte
  BY <1>3, <1>4, <1>10, <1>12, AddByteAnnounced
<1>14. k \in 0 .. Len(f) - 1 /\ (k + 1 < Len(f) \/ k + 1 = Len(f))
  BY <1>4, <1>6, SMT
<1>15. CASE k + 1 < Len(f)
  <2>1. /\ ~ Passes(i2c) /\ Passed(i2c, f[k + 1]) = <<>>
        /\ Follows(i2c', f, k + 1)
    BY <1>3, <1>4, <1>6, <1>12, <1>14, <1>15, FollowsOn
  <2>2. heard' = <<>> /\ chunk' = Tail(chunk)
    BY <1>12, <2>1
  <2>3. CASE (k - d) + 1 = Chunk
    <3>1. chunk' = <<>>
      BY <1>11, <2>2, <2>3
    <3>2. k + 1 = d + Chunk /\ ~ (Len(f) <= d + Chunk)
      BY <1>3, <1>4, <1>15, <2>3, SMT
    <3>3. QED
      BY <1>1, <1>8, <1>9, <1>13, <2>1, <2>2, <3>1, <3>2, Zenon DEF ReaderRun
  <2>4. CASE (k - d) + 1 # Chunk
    <3>1. chunk' # <<>>
      BY <1>11, <2>2, <2>4
    <3>2. /\ k + 1 >= d /\ k + 1 < d + Chunk /\ k + 1 \in Nat
          /\ ((k - d) + 1) + 1 = ((k + 1) - d) + 1
      BY <1>3, <1>6, <2>4, SMT
    <3>3. At(k + 1)'
      BY <1>9, <1>11, <1>15, <2>1, <2>2, <3>2 DEF At
    <3>4. QED
      BY <1>1, <1>8, <1>9, <1>13, <2>2, <3>1, <3>2, <3>3 DEF ReaderRun
  <2>5. QED
    BY <2>3, <2>4
<1>16. CASE k + 1 = Len(f)
  <2>1. Passes(i2c) /\ Passed(i2c, f[k + 1]) = <<f>> /\ Hunting(i2c')
    BY <1>3, <1>4, <1>6, <1>12, <1>14, <1>16, FollowsOn
  <2>2. heard' = <<f>> /\ chunk' = <<>>
    BY <1>12, <2>1
  <2>3. ~ (Len(f) > d + Chunk)
    BY <1>3, <1>4, <1>6, <1>16, SMT
  <2>4. QED
    BY <1>1, <1>8, <1>9, <1>13, <2>1, <2>2, <2>3, Zenon DEF ReaderRun
<1>17. QED
  BY <1>14, <1>15, <1>16

\* Every step keeps the run of the reader's answer.
LEMMA NextReaderRun ==
  ASSUME ExtendedData = {}, Suffices, ProxyTypes, ReaderRun, [Next]_vars
  PROVE  ReaderRun'
<1>1. CASE ReadReader
  BY <1>1, ReadRun
<1>2. CASE FollowReader
  BY <1>2, FollowRun
<1>3. CASE \/ Answers \/ Followed \/ Begin \/ Lose \/ SerialByte \/ GarbledByte
           \/ RefusedWrite \/ NoByte \/ FailedRead \/ NoRead \/ UNCHANGED vars
  <2>1. /\ UNCHANGED <<i2c, chunk, asked, cut, heard>>
        /\ answer' # <<>> => answer' \in Frames
        /\ turn' # "follow" => chunk' = <<>>
    BY <1>3 DEF ReaderRun, ReaderFrames, Answers, Followed, Begin, Lose,
       SerialByte, GarbledByte, RefusedWrite, TakeByte, NoByte, FailedRead,
       NoRead, vars, reader
  <2>2. Joined' = Joined /\ Behind' = Behind
    BY <2>1 DEF Joined, Behind
  <2>3. \A k \in Nat : At(k) => At(k)'
    BY <2>1, <2>2 DEF At
  <2>4. Announced(i2c)' /\ Hunting(i2c)' = Hunting(i2c) /\ ReaderFrames'
    BY <2>1 DEF ReaderRun, ReaderFrames
  <2>5. QED
    BY <2>1, <2>2, <2>3, <2>4 DEF ReaderRun
<1>4. QED
  BY <1>1, <1>2, <1>3, Zenon DEF Next, Loop

-----------------------------------------------------------------------------
\* In every reachable state the variables have their types, and both PKTData
\* hold as much of a packet as they say (code.py addByte): the arithmetic of
\* len and header_len never parts from the buffer, whatever bytes arrive.
THEOREM TypeCorrect == Spec => []TypeOK
<1>1. Init => ProxyTypes
  BY InitInv
<1>2. ProxyTypes /\ [Next]_vars => ProxyTypes'
  BY NextTypes
<1>3. ProxyTypes => TypeOK
  BY DEF ProxyTypes
<1>4. QED
  BY <1>1, <1>2, <1>3, PTL DEF Spec

\* The invariant of the host's side, for the theorems below.
LEMMA HostInvariant == Spec => [](ProxyTypes /\ HostPacket)
<1>1. Init => ProxyTypes /\ HostPacket
  BY InitInv
<1>2. ProxyTypes /\ HostPacket /\ [Next]_vars => (ProxyTypes /\ HostPacket)'
  BY NextTypes, NextHost
<1>3. QED
  BY <1>1, <1>2, PTL DEF Spec

\* The lock of the bus is held exactly while a packet of the host is half
\* buffered, for any losses and any refused transfers: the loop on try_lock in
\* begin_write never waits for a lock that only it could release.
THEOREM LockIsThePackets == Spec => []LockFollowsPacket
<1>1. ProxyTypes /\ HostPacket => LockFollowsPacket
  BY DEF HostPacket
<1>2. QED
  BY <1>1, HostInvariant, PTL

\* Nothing but whole packets with a sound header is written to the reader.
THEOREM WholePacketsOnly == Spec => []OnlyWholePackets
<1>1. ProxyTypes /\ HostPacket => OnlyWholePackets
  BY DEF HostPacket
<1>2. QED
  BY <1>1, HostInvariant, PTL

\* A packet of the host that begins while PKTData hunts and that no fault
\* touches is written to the reader as it was sent, once, when its last byte
\* has come: for any payloads, whatever was garbled before it. Of a host that
\* sends no extended packets, which code.py:102 does not know.
THEOREM CleanPacketsArrive ==
  ASSUME ExtendedData = {} PROVE Spec => []CleanPacketIsDelivered
<1>1. Init => HostRun
  BY DEF Init, HostRun
<1>2. ProxyTypes /\ HostPacket /\ HostRun /\ [Next]_vars => HostRun'
  BY NextHostRun
<1>3. HostRun => CleanPacketIsDelivered
  BY DEF HostRun, CleanPacketIsDelivered
<1>4. QED
  BY <1>1, <1>2, <1>3, HostInvariant, PTL DEF Spec

\* An answer of the reader that the loop has read, and that fits in a read, is
\* passed on to the host as it is, once; one that does not fit is held back and
\* passed on with the beginning of the next for its end, and after that i2c_data
\* hunts again: whatever the answers contain, and whichever reads failed before.
\* Of answers that are not extended, with reads of which two hold any packet (the
\* code follows 255 bytes of a read; a packet has at most 262).
THEOREM AnswersArrive ==
  ASSUME ExtendedData = {}, 2 * Chunk >= Base + 6
  PROVE  Spec => []AnswerIsPassedOn
<1>0. Suffices
  BY Numbers, BoundsAssumption, SMT DEF Suffices
<1>1. Init => ReaderRun
  BY ResetAnnounced, SMT DEF Init, ReaderRun, ReaderFrames, Hunting, Reset
<1>2. ProxyTypes /\ ReaderRun /\ [Next]_vars => ReaderRun'
  BY <1>0, NextReaderRun
<1>3. ProxyTypes /\ ReaderRun => AnswerIsPassedOn
  <2> SUFFICES ASSUME ProxyTypes, ReaderRun, asked # <<>>, chunk = <<>>
               PROVE  IF cut = <<>> /\ Len(asked) > Chunk
                      THEN heard = <<>> /\ ~Hunting(i2c)
                      ELSE heard = <<Joined>> /\ Hunting(i2c)
    BY DEF AnswerIsPassedOn
  <2>1. /\ FrameOf(Joined) /\ Len(Joined) \in Nat
        /\ cut = <<>> => Joined = asked
        /\ cut # <<>> => Len(Joined) <= Behind + Chunk
    BY <1>0, JoinedFrame, FrameLength DEF ReaderRun
  <2>2. Chunk \in Nat /\ Chunk >= 5
    BY <1>0 DEF Suffices
  <2>3. CASE cut = <<>> /\ Len(asked) > Chunk
    <3>1. /\ Joined = asked /\ Behind + Chunk = Chunk
      <4>1. 0 + Chunk = Chunk
        BY <2>2, SMT
      <4>2. QED
        BY <2>1, <2>3, <4>1 DEF Behind
    <3>2. heard = <<>> /\ Follows(i2c, asked, Chunk)
      BY <2>3, <3>1 DEF ReaderRun
    <3>3. i2c.len = Len(asked) - Chunk
      BY <2>2, <3>2, SMT DEF Follows
    <3>4. Len(asked) \in Nat
      BY <2>1, <3>1
    <3>5. i2c.len # None
      BY <2>2, <2>3, <3>3, <3>4, Numbers, SMT
    <3>6. QED
      BY <2>3, <3>2, <3>5 DEF Hunting
  <2>4. CASE ~ (cut = <<>> /\ Len(asked) > Chunk)
    <3>1. Len(Joined) <= Behind + Chunk
      <4>1. CASE cut = <<>>
        <5>1. ~ (Len(asked) > Chunk) /\ Joined = asked /\ Behind = 0
          BY <2>1, <2>4, <4>1 DEF Behind
        <5>2. QED
          BY <2>1, <2>2, <5>1, SMT
      <4>2. CASE cut # <<>>
        BY <2>1, <4>2
      <4>3. QED
        BY <4>1, <4>2
    <3>2. heard = <<Joined>> /\ Hunting(i2c)
      BY <3>1 DEF ReaderRun
    <3>3. QED
      BY <2>4, <3>2
  <2>5. QED
    BY <2>3, <2>4
<1>4. QED
  BY <1>1, <1>2, <1>3, HostInvariant, PTL DEF Spec
=============================================================================
