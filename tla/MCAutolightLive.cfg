SPECIFICATION FairSpec
CONSTANTS
  c1 = c1 l1 = l1 k1 = k1 
  Cameras = {c1}
  Lights = {l1}
  Clickers = {k1}
  SigCap = 1
  LateCap = 1
PROPERTIES ClicksAreServed RunEnds
CHECK_DEADLOCK FALSE
