SPECIFICATION NodeSpec
CONSTANTS
  phone = phone
  provider = provider
  Nodes = {phone, provider}
  Local = phone
  TTL = 1
  MaxTime = 3
  Scripts <- SomeScripts
  WithDiscovery <- Discovering
  Client = phone
  Path <- ThereAndBack
  WithCircuit <- Circuits
  Service <- Services
  OnChain <- ChainOffers
  PollInterval = 1
  RpcTimeout = 1
  PreferFree = TRUE
  FreshFor = 2
  Metrics <- AgentMetrics
CHECK_DEADLOCK FALSE
INVARIANTS
  AnswersMatch
  SilenceIsForgotten
  CacheIsRecent
  UnstakedRanksBelow
  CircuitIsWhole
PROPERTIES
  EveryCallAnswered
  CircuitsUnwind
