SPECIFICATION HistSpec
CONSTANTS
  Detectors = {t1}
  Devices = {d1}
  t1 = t1 d1 = d1
  NumOutputs = 2
  ChanCap <- MixedCaps
  NodeKinds = {"capture", "gone"}
  NoEvent = NoEvent
INVARIANTS OffWhenLastDetectorStops
CHECK_DEADLOCK FALSE
