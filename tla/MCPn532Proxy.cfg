\* Six byte values: lengths wrap soon, every header form is one byte apart.
CONSTANTS
  Base = 6
  UnitMark = 3
  Data <- Payloads
  ExtendedData = {}
  Chunk = 8
  MaxFaults = 1
SPECIFICATION FairSpec
INVARIANTS
  TypeOK
  LockFollowsPacket
  OnlyWholePackets
  CleanPacketIsDelivered
  AnswerIsPassedOn
PROPERTY ReaderIsHeard
