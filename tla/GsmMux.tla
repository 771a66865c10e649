------------------------------- MODULE GsmMux -------------------------------
(***************************************************************************)
(* The serial multiplexer of the Arduino Mega                              *)
(* (src/microcontroller/arduino-mega-mux): GSM 07.10 frames from a host    *)
(* carry the bytes of four channels, three of which end on UARTs.  The     *)
(* receiver takes one byte at a time and has no timeout; three loops       *)
(* collect what the UARTs receive and send it as frames.                   *)
(*                                                                         *)
(* Bytes are the numbers below Base (256 in the program), and the codes    *)
(* below are small; an 8-bit counter wraps at Base, a 16-bit one at        *)
(* Base * Base.  The checksum is a sum: like the CRC of the program it     *)
(* covers the header alone and betrays any one byte of it that changed.    *)
(***************************************************************************)
EXTENDS Integers, Sequences, FiniteSets

CONSTANTS Base,       \* bytes are 0 .. Base - 1
          Sof,        \* the byte that begins and ends a frame, 0xf9
          Channels,   \* the channels the host uses, of 1 .. 4
          Uarts,      \* those that end on a UART, 2 .. 4 in the program
          Busy,       \* those of them it writes to, and closes
          Data,       \* the payloads of its data frames
          Controls,   \* the control bytes of its frames
          BufSize,    \* how much a loop collects, and the first length that
                      \* sendBuffer refuses: 64 both
          Noise,      \* what a byte may be changed to
          MaxFaults   \* bound: bytes of the host lost or changed, and
                      \* replies lost

Byte == 0 .. Base - 1
SABM == 5
UA   == 17
DM   == 1
DISC == 9
UIH  == 21
PF   == 2             \* the poll bit, in none of these
MSC  == 13            \* the first byte of a modem status command

ASSUME BytesAssumption ==
  /\ Base \in Nat /\ Base >= 24 /\ Base % 2 = 0
  /\ Sof \in 20 .. Base - 1 /\ Sof \notin {UIH, UIH + PF}
  /\ Busy \subseteq Channels
  /\ Noise \subseteq Byte /\ Channels \subseteq 1 .. 4
  /\ Uarts \subseteq 1 .. 4
\* The host's data frames have a length of one byte.
ASSUME DataAssumption ==
  Data \subseteq Seq(Byte) /\ \A d \in Data : 2 * Len(d) + 1 < Base
\* A request or data may set the poll bit, or not.
ASSUME ControlsAssumption ==
  Controls \subseteq {SABM, SABM + PF, DISC, DISC + PF, UIH, UIH + PF}
ASSUME BoundsAssumption == BufSize \in Nat \ {0} /\ MaxFaults \in Nat

-----------------------------------------------------------------------------
(* The receiver: struct gsm_msg and the position in the frame.             *)

\* len holds one byte or two; the buffer holds the payload, and behind it
\* the checksum.  Out of a frame (sof_character = 0) nothing is kept.
Hunting == [sof |-> FALSE, position |-> 0, addr |-> 0, ctrl |-> 0,
            len |-> <<>>, length |-> 0, buffer |-> <<>>]

Position16(m) == m.position + 1          \* fault: a wider frame_position
Advanced(m) == (m.position + 1) % Base   \* uint8_t

\* cur: the bytes expected still, one too few so that the checksum follows
\* the payload; an int16_t, negative at once for a huge length.
Cur(m) ==
  (IF 2 * m.length < Base * Base THEN m.length ELSE m.length - Base * Base)
  - Len(m.buffer)

TwoByteLength(m) == m.position = 3 /\ m.len[1] % 2 = 0
InBody(m) == m.sof /\ m.position > 2 /\ ~ TwoByteLength(m)
NoChecksum(m) == Cur(m) > 0              \* fault: the checksum is not stored
Expects(m) == Cur(m) >= 0

Header(m, b) ==
  CASE m.position = 0 -> [m EXCEPT !.addr = b]
    [] m.position = 1 -> [m EXCEPT !.ctrl = b]
    [] m.position = 2 -> [m EXCEPT !.len = <<b>>, !.length = b \div 2,
                                   !.buffer = <<>>]
    [] OTHER          -> [m EXCEPT !.len = Append(@, b),
                                   !.length = @ + b * Base]

\* charReceiver, but for what frameDecode does.
Received(m, b) ==
  CASE ~ m.sof /\ b = Sof         -> [Hunting EXCEPT !.sof = TRUE]
    [] ~ m.sof /\ b # Sof         -> m
    [] m.sof /\ ~ InBody(m)       -> [Header(m, b) EXCEPT !.position = Advanced(m)]
    [] InBody(m) /\ Expects(m)    -> [m EXCEPT !.buffer = Append(@, b),
                                               !.position = Advanced(m)]
    [] InBody(m) /\ ~ Expects(m)  -> Hunting      \* its end, or no end flag

Ends(m, b) == InBody(m) /\ ~ Expects(m) /\ b = Sof

\* The checksum of a header, len of one byte or two: a sum, where the code has
\* a CRC from gsm_fcs8. That table is a permutation, so in both a change of one
\* byte changes the checksum.
Fcs(addr, ctrl, len) ==
  (Base - 1 - addr - ctrl - len[1] - (IF Len(len) = 2 THEN len[2] ELSE 0)) % Base

\* buffer[length], which is outside the buffer if the length is huge.
Outside(m) == m.length >= Len(m.buffer)
Stored(m) == IF Outside(m) THEN Byte ELSE {m.buffer[m.length + 1]}
Unchecked(m, fcs) == TRUE                \* fault: the checksum is not compared
Checks(m, fcs) == fcs = Fcs(m.addr, m.ctrl, m.len)

ShiftedDlci(m) == m.addr \div 8          \* fault: shifted by three bits
Dlci(m) == m.addr \div 4
Payload(m) == IF Outside(m) THEN m.buffer ELSE SubSeq(m.buffer, 1, m.length)
Frame(c, t, p) == [dlci |-> c, type |-> t, payload |-> p]

\* ctrl & ~PF_MASK
Unpolled(ctrl) == IF (ctrl \div PF) % 2 = 1 THEN ctrl - PF ELSE ctrl

-----------------------------------------------------------------------------
VARIABLES
  rx,        \* rx_msg, sof_character and frame_position
  chans,     \* the channels whose bit is set
  buffered,  \* the bytes the loop of each UART has collected
  frame,     \* the frame the host sent last
  sending,   \* the bytes of it still to come
  harm,      \* what the line has done to it
  decoded,   \* what frameDecode accepted since it began
  request,   \* what the host waits for a reply to
  replies,   \* what the multiplexer has written to the host and is on its way
  opened,    \* the channels the host takes for open, by the replies
  unsure,    \* those it has asked for something and not heard of since
  asked,     \* the channels the host ever asked to open
  dropped,   \* bytes for an open channel were not sent, just now
  overread,  \* a frame was read that is longer than the buffer
  overwrote, \* chan_v24 was written past its end since the frame began
  strayed,   \* a frame was harmed by more than one bent byte
  faults     \* bytes lost or changed, and replies lost

\* "none": the frame began on a hunting receiver and every byte of it has
\* come as it was sent; "bent": so, but for one that was changed, and that was
\* neither its first flag nor its length; "astray": anything else.
Harm == {"none", "bent", "astray"}

host == <<frame, sending, harm, asked>>
talk == <<request, replies, opened, unsure>>
memory == <<overread, overwrote>>
line == <<strayed, faults>>
vars == <<rx, chans, buffered, host, decoded, talk, dropped, memory, line>>

NoFrame == Frame(0, UA, <<>>)

Init ==
  /\ rx = Hunting /\ chans = {} /\ buffered = [c \in Uarts |-> 0]
  /\ frame = NoFrame /\ sending = <<>> /\ harm = "none"
  /\ decoded = <<>> /\ request = NoFrame /\ replies = <<>>
  /\ opened = {} /\ unsure = {} /\ asked = {} /\ dropped = FALSE
  /\ overread = FALSE /\ overwrote = FALSE
  /\ strayed = FALSE /\ faults = 0

-----------------------------------------------------------------------------
(* The host's frames, and how it reads the replies. It asks to open or to  *)
(* close one channel at a time, and asks again, or for something else, when *)
(* a reply is overdue: its timer is longer than a reply is on its way.     *)

Bytes(f) ==
  LET addr == 4 * f.dlci + 3
      len  == 2 * Len(f.payload) + 1
  IN  <<Sof, addr, f.type, len>> \o f.payload
        \o <<Fcs(addr, f.type, <<len>>), Sof>>

Status(c) == Frame(0, UIH, <<MSC, 5, 4 * c + 3, 0>>)
With(type) == {t \in Controls : Unpolled(t) = type}
Frames == {Frame(c, t, <<>>) : c \in Channels, t \in With(SABM)}
          \cup {Frame(c, t, <<>>) : c \in Busy, t \in With(DISC)}
          \cup {Frame(c, t, d) : c \in Busy, t \in With(UIH), d \in Data}
          \cup {Status(c) : c \in Channels}

Request(f) == Frame(f.dlci, Unpolled(f.type), <<>>)

\* The host begins a frame.
Begins(f) ==
  /\ sending = <<>>
  /\ frame' = f /\ sending' = Bytes(f)
  /\ harm' = IF rx.sof THEN "astray" ELSE "none"
  /\ decoded' = <<>> /\ overwrote' = FALSE
  /\ UNCHANGED <<rx, chans, buffered, opened, replies, dropped, overread, line>>

Ask ==
  \E f \in Frames :
    /\ Begins(f) /\ Unpolled(f.type) \in {SABM, DISC} /\ replies = <<>>
    /\ request' = Request(f) /\ unsure' = unsure \cup {f.dlci}
    /\ asked' = IF Unpolled(f.type) = SABM THEN asked \cup {f.dlci} ELSE asked

\* Data or a status, which a reply may be behind (not many: a bound).
Send ==
  \E f \in Frames :
    /\ Begins(f) /\ Unpolled(f.type) = UIH /\ Len(replies) < 2
    /\ UNCHANGED <<request, unsure, asked>>

\* A fault, on a byte that does or does not let the receiver go on as before.
Harmed(h) ==
  /\ harm' = h /\ strayed' = (strayed \/ h = "astray")
  /\ faults' = faults + 1

Lose ==
  /\ sending # <<>> /\ faults < MaxFaults
  /\ sending' = Tail(sending)
  /\ Harmed("astray")
  /\ UNCHANGED <<rx, chans, buffered, frame, asked, decoded, talk, dropped, memory>>

\* A reply reaches the host, later: UA, or DM for a channel to close that was
\* not open. Another is not what the host waits for.
Answers(r) ==
  /\ r.dlci = request.dlci
  /\ \/ request.type = SABM /\ Unpolled(r.type) = UA
     \/ request.type = DISC /\ Unpolled(r.type) \in {UA, DM}

Hear ==
  /\ replies # <<>> /\ replies' = Tail(replies)
  /\ IF Answers(Head(replies))
     THEN /\ opened' = IF request.type = SABM THEN opened \cup {request.dlci}
                                             ELSE opened \ {request.dlci}
          /\ unsure' = unsure \ {request.dlci} /\ request' = NoFrame
     ELSE UNCHANGED <<request, opened, unsure>>
  /\ UNCHANGED <<rx, chans, buffered, host, decoded, dropped, memory, line>>

\* ... or does not: the line loses it, or changes it, which its checksum tells.
LoseReply ==
  /\ replies # <<>> /\ replies' = Tail(replies)
  /\ faults < MaxFaults /\ faults' = faults + 1
  /\ UNCHANGED <<rx, chans, buffered, host, decoded, request, opened, unsure,
                 dropped, memory, strayed>>

\* _sendbuffer: Serial.write.
Reply(c, type) == replies' = Append(replies, Frame(c, type + PF, <<>>))

-----------------------------------------------------------------------------
(* frameDecode, when a byte ends a frame.                                  *)

Connect(m) ==
  /\ Unpolled(m.ctrl) = SABM
  /\ chans' = chans \cup ({Dlci(m)} \cap 0 .. 7)     \* uint8_t
  /\ Reply(Dlci(m), UA)
  /\ UNCHANGED overwrote

Disconnect(m) ==
  /\ Unpolled(m.ctrl) = DISC
  /\ chans' = chans \ {Dlci(m)}
  /\ Reply(Dlci(m), IF Dlci(m) \in chans THEN UA ELSE DM)
  /\ UNCHANGED overwrote

\* What a command reads at buffer[i - 1]: msg.len < 3 compares a pointer, so
\* a short one reads what earlier frames have left there.
At(m, i) == IF i <= Len(m.buffer) THEN {m.buffer[i]} ELSE Byte

\* Modem status: chan_v24, which has four entries, gets the octet that comes
\* next and that is not followed here; nor is the reply, which tells the host
\* nothing of what is open.
WholeOctet(c) == c                       \* fault: >> 2 forgotten
V24Index(c) == c \div 4
ModemStatus(c) == overwrote' = (overwrote \/ V24Index(c) > 3)

Control(m) ==
  /\ Unpolled(m.ctrl) = UIH /\ Dlci(m) = 0
  /\ \E type \in At(m, 1), size \in At(m, 2) :
       IF type = MSC
       THEN \E c \in At(m, IF size % 2 = 1 THEN 3 ELSE 4) : ModemStatus(c)
       ELSE UNCHANGED overwrote
  /\ UNCHANGED <<chans, replies>>

\* Data: frame_handler writes it to the UART of the channel, if any (past the
\* buffer for a huge length). UA, DM and unknown frames are ignored.
Deliver(m) ==
  /\ Unpolled(m.ctrl) \notin {SABM, DISC}
  /\ ~ (Unpolled(m.ctrl) = UIH /\ Dlci(m) = 0)
  /\ UNCHANGED <<chans, replies, overwrote>>

Decode(m) ==
  /\ decoded' = Append(decoded, Frame(Dlci(m), m.ctrl, Payload(m)))
  /\ Connect(m) \/ Disconnect(m) \/ Control(m) \/ Deliver(m)

-----------------------------------------------------------------------------
(* A byte of the host, and the loops of the UARTs.                         *)

TakeByte(b) ==
  /\ rx' = Received(rx, b)
  /\ sending' = Tail(sending)
  /\ overread' = (overread \/ (Ends(rx, b) /\ Outside(rx)))
  /\ IF Ends(rx, b)
     THEN \E fcs \in Stored(rx) :
            IF Checks(rx, fcs) THEN Decode(rx)
            ELSE UNCHANGED <<chans, decoded, replies, overwrote>>
     ELSE UNCHANGED <<chans, decoded, replies, overwrote>>
  /\ UNCHANGED <<buffered, frame, asked, request, opened, unsure, dropped>>

\* The place in the frame of the byte that comes next.
Place == Len(Bytes(frame)) - Len(sending) + 1
Bends == harm = "none" /\ Place \notin {1, 4}

\* The byte arrives as it is, or the line changes it.
CharReceived ==
  /\ sending # <<>>
  /\ \E b \in {Head(sending)} \cup (IF faults < MaxFaults THEN Noise ELSE {}) :
       /\ TakeByte(b)
       /\ IF b = Head(sending)
          THEN UNCHANGED <<harm, line>>
          ELSE Harmed(IF Bends THEN "bent" ELSE "astray")

\* loop_serial1 .. 3: a byte at a time, and another task after each.
Collect(c) ==
  /\ buffered[c] < BufSize
  /\ buffered' = [buffered EXCEPT ![c] = @ + 1] /\ dropped' = FALSE
  /\ UNCHANGED <<rx, chans, host, decoded, talk, memory, line>>

Sends(c) == c \in chans /\ buffered[c] < BufSize

\* sendBuffer, with what it drops; the payload is told by its length.
Flush(c) ==
  /\ buffered[c] > 0
  /\ buffered' = [buffered EXCEPT ![c] = 0]
  /\ dropped' = (c \in chans /\ ~ Sends(c))
  /\ UNCHANGED <<rx, chans, host, decoded, talk, memory, line>>

Next == \/ Ask \/ Send \/ Lose \/ CharReceived \/ Hear \/ LoseReply
        \/ \E c \in Uarts : Collect(c) \/ Flush(c)
Spec == Init /\ [][Next]_vars

-----------------------------------------------------------------------------
FrameType == [dlci : 0 .. Base - 1, type : Byte, payload : Seq(Byte)]

\* The types, and that the receiver stays inside its buffer of Base - 1 bytes
\* whatever it is sent: a two-byte length may ask for far more, but the
\* eight-bit frame_position comes round to the header first.
TypeOK ==
  /\ rx \in [sof : BOOLEAN, position : Byte, addr : Byte, ctrl : Byte,
             len : Seq(Byte), length : 0 .. Base * Base - 1,
             buffer : Seq(Byte)]
  /\ Len(rx.buffer) < Base - 1
  /\ chans \subseteq 0 .. 7 /\ opened \subseteq 0 .. Base - 1
  /\ request \in FrameType /\ replies \in Seq(FrameType)
  /\ buffered \in [Uarts -> 0 .. BufSize]
  /\ frame \in FrameType /\ sending \in Seq(Byte) /\ harm \in Harm
  /\ decoded \in Seq(FrameType)
  /\ overread \in BOOLEAN /\ overwrote \in BOOLEAN
  /\ strayed \in BOOLEAN /\ faults \in 0 .. MaxFaults

\* On a line that does no harm the receiver is between two frames whenever
\* the host begins one; and a frame that begins so, and is not harmed, is
\* decoded as it was sent, once, with its last byte and not before. Data and
\* checksum may hold the byte that ends frames, or a whole frame.
FramesArriveWhole ==
  /\ faults = 0 => harm = "none"
  /\ harm = "none" /\ frame # NoFrame
       => decoded = IF sending = <<>> THEN <<frame>> ELSE <<>>

\* A changed byte, if it is not the first flag or the length of its frame,
\* costs no more than that frame: the receiver is back between two frames when
\* the host has sent it, and if it has decoded anything, then for the channel
\* and of the kind and size that the host sent, since the checksum betrays a
\* changed header. The payload is not covered.
AChangeCostsOneFrame ==
  harm = "bent" =>
    /\ sending # <<>> => decoded = <<>>
    /\ sending = <<>> =>
         /\ ~ rx.sof
         /\ decoded # <<>> =>
              LET p == decoded[1].payload
              IN  /\ decoded = <<Frame(frame.dlci, frame.type, p)>>
                  /\ Len(p) = Len(frame.payload)

\* Memory is read outside the buffer only when the line did more harm to a
\* frame than to change one byte of its address, type, payload or end. Short
\* of that it is written past chan_v24 by nothing but a status; and if that
\* came as it was sent, by none but that of channel 4, for which the table has
\* no entry, and always by that.
StraysHaveACause ==
  /\ ~ strayed => ~ overread
  /\ harm # "astray" /\ overwrote => \E c \in Channels : frame = Status(c)
  /\ harm = "none" => (overwrote <=> frame = Status(4) /\ sending = <<>>)

\* As long as the line does no more harm to a frame than that, however often,
\* and whatever replies it loses, the host has asked to open each channel
\* whose bit is set; and of each channel that it has asked nothing about, or
\* has heard of since it did, it knows whether the bit is set. If nothing was
\* lost it has heard of all, but for replies on their way.
ChannelsFollowTheHost ==
  /\ faults = 0 => ~ strayed
  /\ ~ strayed => chans \subseteq asked /\ chans \ unsure = opened \ unsure
  /\ faults = 0 /\ sending = <<>> /\ replies = <<>> => unsure = {}

\* What a UART receives for an open channel reaches the host
\* (src/microcontroller/arduino-mega-mux/README.md).
UartsReachTheHost == ~ dropped
=============================================================================
