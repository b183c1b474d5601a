SPECIFICATION FairSpec
CONSTANTS
  Detectors = {t1}
  Devices = {d1}
  t1 = t1 d1 = d1
  NumOutputs = 2
  NodeKinds = {"capture", "gone"}
  NoEvent = NoEvent
  BusMayFail = TRUE
INVARIANTS TypeOK NoSendOnClosed DrainedBeforeEnd NoDeadlock
PROPERTIES SignalEndsProcess CoordinatorExitsWithBus ChangesAreAnnounced
CHECK_DEADLOCK FALSE
