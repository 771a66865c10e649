CONSTANTS
  Base = 24
  Sof = 20
  Channels = {2, 4}
  Busy = {4}
  Uarts = {4}
  Data <- Images
  Controls <- Codes
  BufSize = 2
  Noise = {0, 8, 20, 23}
  MaxFaults = 1
SPECIFICATION Spec
INVARIANTS
  TypeOK
  FramesArriveWhole
  StraysHaveACause
  ChannelsFollowTheHost
  AChangeCostsOneFrame
