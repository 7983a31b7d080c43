SPECIFICATION FairSpec
CONSTANTS
  Consumers = {c1, c2}
  Sharers = {s}
  Endpoints = 2
  Invalid = {2}
  Permits = 1
  Cooldown = 1
  MaxTime = 1
  Connections <- MCConnections
  Limit = 2
  MaxBytes = 2
  MaxDay = 2
  StaleReads = TRUE
INVARIANTS
  NeverOvercharged
  ExhaustedHonestly
PROPERTIES
  CallsReturn
CHECK_DEADLOCK FALSE
