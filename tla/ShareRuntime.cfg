SPECIFICATION FairSpec
CONSTANTS
  MaxStarts = 3
  None = None
  Profiles = {a, b}
  Calls = {c1, c2}
  Tasks = {t1, t2}
  Settings = {s1}
  DefaultSettings = s1
INVARIANTS
  DisabledDoesNotShare
  OffIsShownOff
  OneTask
PROPERTIES
  CallsReturn
