SPECIFICATION GroupsSpec
CONSTANTS
  Parts = {"smart", "runners", "pool", "inbound", "forward"}
  n1 = n1
  n2 = n2
  Nodes = {n1, n2}
  Delay <- TwoDelays
  None = None
  HistCap = 2
  LossPenalty = 4
  BackoffAfter = 3
  MaxGap = 2
  Rungs = 1
  MaxFlips = 1
  MaxUser = 1
  MaxReloads = 1
  MaxErrors = 1
  Plans <- TwoPlans
  DefaultUrl = "d"
  TaskIds = {1, 2, 3}
  Missing = Missing
  MaxFetches = 1
  MaxKnown = 1
  MaxLocked = 0
  Clients = {a1, a2}
  Cfgs <- Compatible
  InitCfg <- Large
  WarmParallel = 2
  MaxFail = 2
  MaxOps = 2
  MaxTime = 1
  MaxFaults = 1
  c1 = c1
  c2 = c2
  ip = ip
  Conns = {c1, c2}
  Client <- SameClient
  Profile <- OpenPort
  Allowed = {ip}
  AuthOn = TRUE
  UdpOn = TRUE
  Direct = TRUE
  Targets = {t1, t2, f1}
  Fake = {f1}
  Named = {t2}
  MaxTargets = 1
  Limit <- OneSession
  PerClient = 2
  Idle = 2
  MaxPackets = 2
  MaxNoise = 1
  NoTarget = NoTarget
  MaxHeaders = 3
  MaxTokens = 3
CHECK_DEADLOCK FALSE
INVARIANTS
  FailuresHonest
  PoolSafe
PROPERTIES
  GroupSettles
  SupervisorSettles
  WarmerServes
  SessionsRun
  ForwardRuns
