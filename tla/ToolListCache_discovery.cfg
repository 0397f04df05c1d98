SPECIFICATION Spec
CONSTANTS
  s1 = s1
  s2 = s2
  c1 = c1
  c2 = c2
  t1 = t1
  t2 = t2
  Servers <- TwoServers
  Configs <- TwoConfigs
  Tasks <- TwoTasks
  TTL = 2
  Timeout = 1
  MaxEntries = 1
  NoConfig = NoConfig
  NoEntry = NoEntry
  NoTask = NoTask
  MaxTime = 3
  MaxInstalls = 1
SYMMETRY Symmetry
INVARIANTS
  TypeOK
PROPERTIES
  AnswerMatchesConfig
  StaleIsBounded
  PutIsKept
