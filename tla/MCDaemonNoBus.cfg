SPECIFICATION FairSpec
CONSTANTS
  Detectors = {t1}
  Devices = {d1}
  t1 = t1 d1 = d1
  NumOutputs = 2
  NodeKinds = {"capture", "gone"}
  NoEvent = NoEvent
  BusMayFail = TRUE

PROPERTIES CoordinatorExits
CHECK_DEADLOCK FALSE
