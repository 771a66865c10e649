\* A host that sends extended packets, on a line without faults.
CONSTANTS
  Base = 6
  UnitMark = 3
  Data <- Short
  ExtendedData <- Short
  Chunk = 11
  MaxFaults = 0
SPECIFICATION Spec
INVARIANT ExtendedPacketIsDelivered
