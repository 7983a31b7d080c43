SPECIFICATION Spec
SYMMETRY Symmetry
CONSTANTS
  Users = {u1, u2}
  Calls = {c1, c2}
  Install = install
  None = None
  Price = 3
  Gb = 2
  TrialLimit = 1
  LinkedLimit = 2
  Sizes = {1}
  MaxCalls = 5
  MaxOverlap = 3
  Faults = TRUE
INVARIANTS
  DebtCoversUsage
  DebtCountedOnce
CHECK_DEADLOCK FALSE
