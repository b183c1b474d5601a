SPECIFICATION ProcessFairSpec
CONSTANTS
  d1 = d1
  Devices = {d1}
  RingCap = 2
  NoEvent = NoEvent
  Vb2 = Vb2
  NumOutputs = 1
  NodeKinds = {"capture", "gone"}
  BusMayFail = TRUE
INVARIANTS TypeOK NothingLeaked ReaderInsideRun EndsForAReason ProcessNoDeadlock
PROPERTIES IsEventSource RunReturns ImplementsDaemon
CHECK_DEADLOCK FALSE
