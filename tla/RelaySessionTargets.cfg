SPECIFICATION SessionSpec
SYMMETRY Symmetry
CONSTANTS
  None = None
  Providers = {p1}
  Requests = {c1, c2, c3}
  BufferLimit = 1
  MaxFrames = 1
  Hibernation = FALSE
INVARIANTS
  FramesReachTheirTarget
CHECK_DEADLOCK FALSE
