SPECIFICATION SessionSpec
SYMMETRY Symmetry
CONSTRAINT ShortQueues
CONSTANTS
  None = None
  Providers = {p1, p2}
  Requests = {c1, c2}
  BufferLimit = 2
  MaxFrames = 3
  Hibernation = TRUE
INVARIANTS
  FramesInOrder
  NoByteChargedTwice
  DepartureFreesTheProvider
  LossIsNoticed
CHECK_DEADLOCK FALSE
