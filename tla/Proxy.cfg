SPECIFICATION MCSpec
CONSTANTS
  Tasks = {t1, t2}
  s1 = s1
  s2 = s2
  free = free
  paid = paid
  Static = {s1, s2}
  Dynamic = {free, paid}
  Premium = {paid}
  ForAll = {s2, free, paid}
  Rank <- Ranks
  Direct = direct
  Limit = 1
  MaxClosed = 1
  MaxBytes = 1
  MaxConns = 3
  Agents = {free, paid}
  Syncs = {y1}
  NoAgent = noagent
INVARIANTS
  ModeIsRespected
  OverdraftIsBounded
  SessionsRatedOnce
SYMMETRY Symmetry
\* After MaxConns connections the bound leaves nothing to do.
CHECK_DEADLOCK FALSE
