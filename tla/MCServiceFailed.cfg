SPECIFICATION ServiceSpec
CONSTANTS
  t1 = t1 d1 = d1
  Detectors = {t1}
  Vb2 = t1
  Devices = {d1}
  NumOutputs = 1
  NodeKinds = {"capture", "gone"}
  NoEvent = NoEvent
  BusMayFail = FALSE
  RingCap = 1
PROPERTIES FailureRestarts
CHECK_DEADLOCK FALSE
