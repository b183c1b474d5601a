SPECIFICATION FairSpec
CONSTANTS
  p1 = p1 p2 = p2 self = self d1 = d1
  Procs = {p1, self}
  Self = self
  Devices = {d1}
  Files <- OneProcess
  RingCap = 2
  PidCap = 1
  OthersCap = 0
  NoPid = NoPid NoFile = NoFile
PROPERTIES KilledStreamerReported
CHECK_DEADLOCK FALSE
