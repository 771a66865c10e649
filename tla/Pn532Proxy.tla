----------------------------- MODULE Pn532Proxy -----------------------------
(***************************************************************************)
(* The proxy between a host on a UART and a PN532 reader on I2C            *)
(* (src/microcontroller/adafruit-trinket-m0/code.py).  One PKTData per     *)
(* direction follows the packet headers byte by byte; a packet of the host *)
(* is written to the reader when it is whole, and from its first payload   *)
(* byte to its last the I2C bus is locked, so that the main loop leaves    *)
(* the reader's answers alone.                                             *)
(*                                                                         *)
(* Bytes are the numbers below Base (256 in the program): the model keeps  *)
(* the arithmetic of lengths and checksums and TLC a small alphabet.  The  *)
(* line from the host may lose or change bytes, and the bus may refuse a   *)
(* transfer, MaxFaults times in all.                                       *)
(***************************************************************************)
EXTENDS Integers, Sequences

CONSTANTS Base,          \* bytes are 0 .. Base - 1
          UnitMark,      \* 0xee, the byte after which a unit command comes
          Data,          \* the payloads of the packets that are sent: what
                         \* their length counts, a checksum, a last byte
          ExtendedData,  \* the payloads sent in extended packets
          Chunk,         \* what one turn of the loop reads of the reader: 255,
                         \* the bytes behind the first, a status
          MaxFaults      \* bound: bytes lost or changed, transfers refused

Top == Base - 1
Byte == 0 .. Top
None == -1

ASSUME BytesAssumption ==
  /\ Base \in Nat /\ Base > 3
  /\ UnitMark \in 1 .. Base - 2
  /\ \A d \in Data : d \in Seq(Byte) /\ Len(d) - 2 \in 0 .. Top
  /\ \A d \in ExtendedData : d \in Seq(Byte) /\ Len(d) - 2 \in 0 .. Top * Base
ASSUME BoundsAssumption == Chunk \in Nat /\ Chunk > 0 /\ MaxFaults \in Nat

-----------------------------------------------------------------------------
(* PKTData: what one direction knows of the packet it is in.               *)

Reset ==
  [len |-> None, headerLen |-> None, index |-> 0, preamble |-> FALSE,
   extended |-> FALSE, header |-> <<0, 0, Top, 0, 0, 0, 0, 0>>,
   buffer |-> <<>>, unit |-> 0]

Hunting(p) == p.len = None /\ p.index = 0 /\ p.unit = 0

SearchPreambleStart(p, b) ==
  CASE b = 0                        -> [p EXCEPT !.preamble = TRUE]
    [] b = Top /\ p.preamble        -> [p EXCEPT !.preamble = FALSE,
                                                 !.index = -2,
                                                 !.extended = FALSE]
    [] b = UnitMark /\ p.preamble   -> [p EXCEPT !.preamble = FALSE,
                                                 !.unit = 4]
    [] OTHER                        -> [p EXCEPT !.preamble = FALSE]

AckOnly(p, b) == p.headerLen = 2 /\ b = Top       \* fault: NACK forgotten
Acknowledges(p, b) == \/ p.headerLen = 2 /\ b = Top        \* ACK
                      \/ p.headerLen = Top + 2 /\ b = 0    \* NACK

\* As written: LEN 0xfe, where the extended header of a PN532 has 0xff.
AnnouncesExtended(p, b) == p.headerLen = Top + 1 /\ b = Top

LengthUnchecked(p, b) == TRUE             \* fault: the sum is not looked at
LengthChecks(p, b) == (b + p.headerLen - 2) % Base = 0

ForgottenReset(p) == [p EXCEPT !.index = 0]   \* fault: header_len is kept
BadHeader(p) == Reset

DecodeStandardHeader(p, b) ==
  IF p.index = -2
  THEN [p EXCEPT !.header[4] = b, !.headerLen = b + 2, !.index = -1]
  ELSE IF Acknowledges(p, b)
  THEN [p EXCEPT !.header[5] = b, !.index = 1, !.headerLen = 1, !.len = 1]
  ELSE IF AnnouncesExtended(p, b)
  THEN [p EXCEPT !.header[5] = b, !.index = -3, !.extended = TRUE]
  ELSE IF LengthChecks(p, b)
  THEN [p EXCEPT !.header[5] = b, !.index = 0, !.len = p.headerLen]
  ELSE BadHeader(p)

ExtendedChecks(p, b) ==
  (b + (p.headerLen \div Base) + (p.headerLen % Base) - 2) % Base = 0

DecodeExtendedHeader(p, b) ==
  CASE p.index = -3 -> [p EXCEPT !.header[6] = b, !.headerLen = b * Base,
                                 !.index = -2]
    [] p.index = -2 -> [p EXCEPT !.header[7] = b, !.headerLen = @ + b + 2,
                                 !.index = -1]
    [] OTHER        -> IF ExtendedChecks(p, b)
                       THEN [p EXCEPT !.header[8] = b, !.len = p.headerLen]
                       ELSE BadHeader(p)

\* The four bytes go to header[4..7]; the lamp they set is not followed.
UnitCommand(p, b) == [p EXCEPT !.header[9 - p.unit] = b, !.unit = @ - 1]

DecodeHeader(p, b) ==
  CASE p.unit > 0                  -> UnitCommand(p, b)
    [] p.unit = 0 /\ p.index = 0   -> SearchPreambleStart(p, b)
    [] p.unit = 0 /\ p.index # 0   -> IF p.extended
                                      THEN DecodeExtendedHeader(p, b)
                                      ELSE DecodeStandardHeader(p, b)

\* The first byte of a payload makes the buffer, the last one passes it on.
Starts(p) == p.len # None /\ p.buffer = <<>>
Passes(p) == p.len = 1

ProxyByte(p, b) ==
  IF Passes(p) THEN Reset
  ELSE [p EXCEPT !.buffer = Append(@, b), !.len = @ - 1]

AddByte(p, b) ==
  CASE p.len # None                                         -> ProxyByte(p, b)
    [] p.len = None /\ (p.index < 0 \/ p.headerLen = None)  -> DecodeHeader(p, b)
    [] OTHER                                                -> p

Packet(p, b) ==
  SubSeq(p.header, 1, IF p.extended THEN 8 ELSE 5) \o Append(p.buffer, b)

Passed(p, b) == IF Passes(p) THEN <<Packet(p, b)>> ELSE <<>>

-----------------------------------------------------------------------------
(* What host and reader send: the frames of the PN532.                     *)

Minus(n) == (- n) % Base

Ack == <<0, 0, Top, 0, Top, 0>>
Nack == <<0, 0, Top, Top, 0, 0>>
Standard(d) == LET n == Len(d) - 2 IN <<0, 0, Top, n, Minus(n)>> \o d
Extended(d) ==
  LET n == (Len(d) - 2) \div Base  m == (Len(d) - 2) % Base IN
  <<0, 0, Top, Top, Top, n, m, Minus(n + m)>> \o d

Frames == {Ack, Nack} \cup {Standard(d) : d \in Data}
                      \cup {Extended(d) : d \in ExtendedData}

\* What a read of the bus returns: the answer, and zeros behind it; of an
\* answer that is longer, the beginning.
Read(f) == [i \in 1 .. Chunk |-> IF i <= Len(f) THEN f[i] ELSE 0]

-----------------------------------------------------------------------------
VARIABLES
  ser,        \* ser_data: the packet the host is sending
  i2c,        \* i2c_data: the packet the reader is answering
  turn,       \* the half of the main loop that comes next
  locked,     \* the lock of the I2C bus
  chunk,      \* what the loop has read of the reader and not yet followed
  packet,     \* the packet the host began last, the whole of it
  sending,    \* what the host has still to send of it
  clean,      \* it began on a hunting proxy and the line did it no harm
  delivered,  \* what the reader was given since it began
  answer,     \* the reader's answer that waits (its interrupt line), or <<>>
  asked,      \* the answer that was read last
  cut,        \* the one read before, if the decoder was still in it, or <<>>
  heard,      \* what the host was given since
  faults      \* how much harm was done

line == <<packet, sending, clean>>
reader == <<answer, asked, cut>>
vars == <<ser, i2c, turn, locked, chunk, line, delivered, reader, heard, faults>>

Init ==
  /\ ser = Reset /\ i2c = Reset /\ turn = "uart"
  /\ locked = FALSE /\ chunk = <<>>
  /\ packet = <<>> /\ sending = <<>> /\ clean = TRUE /\ delivered = <<>>
  /\ answer = <<>> /\ asked = <<>> /\ cut = <<>> /\ heard = <<>> /\ faults = 0

-----------------------------------------------------------------------------
(* The host begins a packet; the reader has an answer.                     *)

Begin ==
  /\ sending = <<>>
  /\ \E f \in Frames : packet' = f /\ sending' = f
  /\ clean' = Hunting(ser)
  /\ delivered' = <<>>
  /\ UNCHANGED <<ser, i2c, turn, locked, chunk, reader, heard, faults>>

Answers ==
  /\ answer = <<>>
  /\ \E f \in Frames : answer' = f
  /\ UNCHANGED <<ser, i2c, turn, locked, chunk, line, delivered, asked, cut,
                 heard, faults>>

\* A byte of the host never reaches the proxy.
Lose ==
  /\ sending # <<>> /\ faults < MaxFaults
  /\ faults' = faults + 1
  /\ sending' = Tail(sending)
  /\ clean' = FALSE
  /\ UNCHANGED <<ser, i2c, turn, locked, chunk, packet, delivered, reader,
                 heard>>

-----------------------------------------------------------------------------
(* The main loop: a byte of the UART if there is one, then the reader if   *)
(* its interrupt line is low and the bus is free.                          *)

\* begin_write's loop on try_lock, from which nobody else can release it.
Spins == Starts(ser) /\ locked

NeverUnlocked(p) == locked \/ Starts(p)    \* fault: no unlock in end_write_fn
LockOfOneByte(p) == Starts(p) /\ ~ Passes(p)  \* fault: unlocked after a byte
LockAfter(p) == IF Passes(p) THEN FALSE ELSE locked \/ Starts(p)

TakeByte(b) ==
  /\ ~ Spins
  /\ turn' = "bus"
  /\ ser' = AddByte(ser, b)
  /\ locked' = LockAfter(ser)
  /\ sending' = Tail(sending)
  /\ UNCHANGED <<i2c, chunk, packet, reader, heard>>

SerialByte ==
  /\ turn = "uart" /\ sending # <<>>
  /\ IF Spins
     THEN UNCHANGED vars
     ELSE /\ TakeByte(Head(sending))
          /\ delivered' = delivered \o Passed(ser, Head(sending))
          /\ UNCHANGED <<clean, faults>>

\* The line changes the byte, to any other.
GarbledByte ==
  /\ turn = "uart" /\ sending # <<>> /\ faults < MaxFaults
  /\ faults' = faults + 1
  /\ clean' = FALSE
  /\ \E b \in Byte \ {Head(sending)} :
       TakeByte(b) /\ delivered' = delivered \o Passed(ser, b)

\* i2c.writeto raises OSError: the packet is gone, the bus is unlocked.
RefusedWrite ==
  /\ turn = "uart" /\ sending # <<>> /\ faults < MaxFaults
  /\ Passes(ser)
  /\ faults' = faults + 1
  /\ clean' = FALSE
  /\ TakeByte(Head(sending))
  /\ UNCHANGED delivered

NoByte ==
  /\ turn = "uart" /\ turn' = "bus"
  /\ sending = <<>>
  /\ UNCHANGED <<ser, i2c, locked, chunk, line, delivered, reader, heard,
                 faults>>

ReadReader ==
  /\ turn = "bus" /\ turn' = "follow"
  /\ answer # <<>> /\ ~ locked
  /\ chunk' = Read(answer)
  /\ asked' = answer /\ answer' = <<>>
  /\ cut' = IF Hunting(i2c) THEN <<>> ELSE asked
  /\ heard' = <<>>
  /\ UNCHANGED <<ser, i2c, locked, line, delivered, faults>>

\* i2c.readfrom_into raises OSError: the bus is unlocked, and the loop begins
\* again; the reader's answer still waits.
FailedRead ==
  /\ turn = "bus" /\ turn' = "uart"
  /\ answer # <<>> /\ ~ locked /\ faults < MaxFaults
  /\ faults' = faults + 1
  /\ UNCHANGED <<ser, i2c, locked, chunk, line, delivered, reader, heard>>

\* No interrupt, or the bus is locked.
NoRead ==
  /\ turn = "bus" /\ turn' = "uart"
  /\ answer = <<>> \/ locked
  /\ UNCHANGED <<ser, i2c, locked, chunk, line, delivered, reader, heard,
                 faults>>

\* The loop over the bytes read ends when a packet is through.
NoBreak(p, c) == Tail(c)              \* fault: what is behind it is followed
Rest(p, c) == IF Passes(p) THEN <<>> ELSE Tail(c)

FollowReader ==
  /\ turn = "follow" /\ chunk # <<>>
  /\ i2c' = AddByte(i2c, Head(chunk))
  /\ heard' = heard \o Passed(i2c, Head(chunk))
  /\ chunk' = Rest(i2c, chunk)
  /\ UNCHANGED <<ser, turn, locked, line, delivered, reader, faults>>

Followed ==
  /\ turn = "follow" /\ turn' = "uart"
  /\ chunk = <<>>
  /\ UNCHANGED <<ser, i2c, locked, chunk, line, delivered, reader, heard,
                 faults>>

Loop == \/ SerialByte \/ GarbledByte \/ RefusedWrite \/ NoByte
        \/ ReadReader \/ FailedRead \/ NoRead \/ FollowReader \/ Followed
Next == Begin \/ Answers \/ Lose \/ Loop
Spec == Init /\ [][Next]_vars

\* The loop runs for ever; a host that is not answered sends again.
Fairness == WF_vars(Loop) /\ WF_vars(Begin)
FairSpec == Spec /\ Fairness

-----------------------------------------------------------------------------
PacketData ==
  [len : {None} \cup (Nat \ {0}), headerLen : {None} \cup Nat,
   index : -3 .. 1, preamble : BOOLEAN, extended : BOOLEAN,
   header : [1 .. 8 -> Byte], buffer : Seq(Byte), unit : 0 .. 4]

\* The types of the variables, and what a packet half received looks like:
\* the payload expected and the payload buffered make the announced length,
\* and out of a payload PKTData waits for a header it will recognise (the
\* last line of addByte, which ignores its byte for ever, is never reached).
FollowsPackets(p) ==
  /\ p \in PacketData
  /\ IF p.len = None
     THEN /\ p.buffer = <<>>
          /\ p.index < 0 \/ p.headerLen = None
     ELSE p.len + Len(p.buffer) = p.headerLen

TypeOK ==
  /\ FollowsPackets(ser) /\ FollowsPackets(i2c)
  /\ turn \in {"uart", "bus", "follow"} /\ locked \in BOOLEAN
  /\ clean \in BOOLEAN /\ faults \in 0 .. MaxFaults
  /\ chunk \in Seq(Byte)
  /\ packet \in Seq(Byte) /\ sending \in Seq(Byte)
  /\ answer \in Seq(Byte) /\ asked \in Seq(Byte) /\ cut \in Seq(Byte)
  /\ delivered \in Seq(Seq(Byte)) /\ heard \in Seq(Seq(Byte))

\* The bus is locked exactly while the host's packet is half buffered: the
\* spin in begin_write ends at once, and a lock is never left behind by a
\* packet that is passed on, refused or found bad.
LockFollowsPacket == locked <=> ser.buffer # <<>>

WellFormed(f) ==
  LET payload(n) == Len(f) - n IN
  /\ SubSeq(f, 1, 3) = <<0, 0, Top>>
  /\ \/ <<f[4], f[5]>> \in {<<0, Top>>, <<Top, 0>>} /\ payload(5) = 1
     \/ (f[4] + f[5]) % Base = 0 /\ payload(5) = f[4] + 2
     \/ /\ f[4] = Top - 1 /\ f[5] = Top /\ payload(8) = f[6] * Base + f[7] + 2
        /\ f[7] + 2 < Base => (f[6] + f[7] + f[8]) % Base = 0

\* Whatever the line does, the reader is not given a piece of a packet: a header
\* whose checksum holds comes first and as many bytes as it announces follow.
\* (Where the low byte of an extended length is 0xfe or 0xff, the 2 that the
\* code adds before it checks the sum carries, and the sum may be one off.)
OnlyWholePackets ==
  \A i \in 1 .. Len(delivered) : WellFormed(delivered[i])

\* A packet that begins while the proxy hunts for one, and that the line
\* leaves alone, is given to the reader as it was sent, once, with its last
\* byte and not before.
CleanPacketIsDelivered ==
  clean /\ packet # <<>>
    => delivered = IF sending = <<>> THEN <<packet>> ELSE <<>>

\* What the decoder takes for one packet: the answer read last, or the beginning
\* of the one before with the beginning of this read for its end.
Spliced(f, r) == SubSeq(f, 1, Chunk) \o SubSeq(r, 1, Len(f) - Chunk)
Joined == IF cut = <<>> THEN asked ELSE Spliced(cut, Read(asked))

\* An answer that fits in a read is passed on to the host as it is, once, and
\* what was read behind it is not taken for the next one.  One that does not
\* fit (a standard packet may have 262 bytes) is held back, and passed on with
\* the next read for its end: it costs itself and the next, but no third.
AnswerIsPassedOn ==
  asked # <<>> /\ chunk = <<>> =>
    IF cut = <<>> /\ Len(asked) > Chunk
    THEN heard = <<>> /\ ~Hunting(i2c)
    ELSE heard = <<Joined>> /\ Hunting(i2c)

\* An answer of the reader is fetched in the end, although the bus is locked
\* while a packet of the host is half received, and even if the rest of that
\* packet was lost: the next packet of the host completes it.
ReaderIsHeard == answer # <<>> ~> answer = <<>>

\* Packets with an extended header are packets too (code.py:103, 114).
ExtendedPacketIsDelivered ==
  clean /\ sending = <<>> /\ packet \in {Extended(d) : d \in ExtendedData}
    => delivered = <<packet>>
=============================================================================
