SPECIFICATION FairSpec
CONSTANTS
  p1 = p1 p2 = p2 self = self d1 = d1
  Procs = {p1, p2, self}
  Self = self
  Devices = {d1}
  Files <- TwoProcesses
  RingCap = 1
  PidCap = 1
  OthersCap = 1
  NoPid = NoPid NoFile = NoFile
INVARIANTS TypeOK SelfCloseSilent ReportsTrackStreaming
PROPERTIES ClearsOnlyOwnEntry EndIsReported
CHECK_DEADLOCK FALSE
