SPECIFICATION HistSpec
CONSTANTS
  Detectors = {t1, t2}
  Devices = {d1, d2}
  t1 = t1 t2 = t2 d1 = d1 d2 = d2
  NumOutputs = 2
  ChanCap <- MixedCaps
  NodeKinds = {"capture", "gone"}
  NoEvent = NoEvent
SYMMETRY Symmetry
INVARIANTS TypeOK FeedInv AggregatesReports
PROPERTIES NoRedundantDelivery ImplementsFeed
CHECK_DEADLOCK FALSE
