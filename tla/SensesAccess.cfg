SPECIFICATION MCSpec
CONSTANTS
  Pairings = {p1}
  Sessions = {s1}
  Consents = {1}
  MaxFrames = 2
  Requests = {1, 2}
  Idle = Idle
  MaxMishaps = 1
CHECK_DEADLOCK FALSE
PROPERTIES
  NoFrameOnceShut
  RawFramesGo
