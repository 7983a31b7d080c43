SPECIFICATION MCSpec
CONSTANTS
  None = None
  NoFd = NoFd
  Launches = 2
  Modes = {x, y}
  ConfigMode = x
  Changes = {c1, c2, c3}
  MaxPresses = 3
INVARIANTS
  SavedModeIsInForce
  ScreensSeeOneNode
  OffIsOff
SYMMETRY Symmetry
\* After MaxPresses presses nothing may be left to do.
CHECK_DEADLOCK FALSE
