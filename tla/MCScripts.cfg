SPECIFICATION FairSpec
CONSTANTS
  MaxEvents = 3
  ChanCap = 1
  Scripts <- BothScripts
INVARIANTS TypeOK EffectFollowsEvents
PROPERTIES EventsAreTaken EventsAreHandled
CHECK_DEADLOCK FALSE
