SPECIFICATION Spec
CONSTANTS
  c1 = c1 c2 = c2 l1 = l1 l2 = l2 k1 = k1
  Cameras = {c1, c2}
  Lights = {l1, l2}
  Clickers = {k1}
  SigCap = 1
  LateCap = 1
SYMMETRY Symmetry
INVARIANTS TypeOK LightsAgree StatusMatchesCameras CamerasTrackDaemon LightsFollow
CHECK_DEADLOCK FALSE
