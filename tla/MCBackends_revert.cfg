SPECIFICATION BackendsSpec
CONSTANTS
  Parts = {"gateway"}
  Tokens = {t1}
  Policies = {"auto"}
  ProxyModes = {"no", "yes"}
  Pids = {q1, q2}
  None = None
  ReadyMisses = 2
  RescoreAfter = 3
  MaxEnv = 1
  MaxFaults = 1
  Direct = {d1}
  Own = {s1}
  Unseen = Unseen
  MaxUp = 1
  MaxYamlWrites = 2
  MaxWipes = 1
  x = x
  y = y
  Served = {x, y}
  SrcPorts = {port}
  Nobody = Nobody
  MaxBytes = 2
  Recs = {1, 2}
  KeyOf <- KeyEach
  NoRow = NoRow
  MaxRows = 1
  Window = 1
  MaxTraffic = 2
  MaxClears = 1
  Dests = {1, 2}
  Users = {1, 2}
  FailLimit = 2
  MaxNotes = 5
  Published <- ThereAndBack
  Default <- NoIni
  NoConf = NoConf
  Torn = Torn
  Overlap = FALSE
  MaxSubs = 1
  MaxForced = 1
  MaxCrashes = 0
  MaxMisses = 0
  MaxIll = 0
  a = a
  b = b
  g1 = g1
  g2 = g2
  g3 = g3
  Subs = {a, b}
  Forced = {}
  NodeGroups <- ThreeGroups
  RuleTarget <- RulePerGroup
  UrlRules = {"r2", "r3"}
  ForcedRules = {"r2"}
  CachePath <- OwnFile
  DnsBurn = TRUE
  MaxRuns = 2
  MaxSick = 1
  MaxDeaths = 1
  Absent = Absent
  Fields <- TwoFields
  Ovpn = TRUE
  LogCap = 1
  MaxIniWrites = 2
  MaxLines = 3
  MaxBindFails = 1
  HalfIni = HalfIni
CHECK_DEADLOCK FALSE
PROPERTIES
  Applied
