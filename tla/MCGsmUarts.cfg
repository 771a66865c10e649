\* A loop that has collected all it can, on a line without faults.
CONSTANTS
  Base = 24
  Sof = 20
  Channels = {2, 4}
  Busy = {4}
  Uarts = {2, 4}
  Data <- Images
  Controls <- Codes
  BufSize = 2
  Noise = {}
  MaxFaults = 0
SPECIFICATION Spec
INVARIANT UartsReachTheHost
