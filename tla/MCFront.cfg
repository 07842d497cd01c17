SPECIFICATION FrontSpec
CONSTANTS
  Pids = {v1, v2}
  None = None
  MaxRestarts = 2
  MaxWrites = 2
  MaxFaults = 1
  FullLen = 2
  MaxDlReleases = 2
  MaxUpsets = 2
  Pickers = {r1}
  Rtts = {4}
  Silent = Silent
  V6WinMin = 1
  MaxNetChanges = 1
  b1 = b1
  b2 = b2
  Browsers = {b1, b2}
  Admitted = {b1, b2}
  Loopback = {b1}
  Requests <- RequestKinds
  ClashOn = TRUE
  NativeMax = 1
  DrainMax = 1
  Window = 0
  MaxRequests = 2
  MaxClashUpsets = 1
  NoRequest = NoRequest
  Askers = {a1}
  Warmer = Warmer
  Nodes = {n1, n2}
  NoNode = NoNode
  NoSnapshot = NoSnapshot
  Marks = 1
  MaxAsked = 2
  MaxTurns = 1
  Resolvers = {1, 2}
  Domains = 3
  Specs = 2
  Fallbacks = 1
  Total = 2
  PerDomain = 2
  Hard = 3
  Ipv6 = TRUE
  Query = 1
  MaxTime = 12
  p1 = p1
  real = real
  fake = fake
  w1 = w1
  w2 = w2
  Peers <- OnePeer
  EngineOf <- OneEngine
  IpOf <- OneIp
  Internal = {"cf"}
  Dsts = {real}
  FakeDsts = {}
  AnyDst = AnyDst
  Workers = {w1, w2}
  WorkerOf <- TwoWorkers
  Opens = {o1, o2}
  NoOpen = NoOpen
  MaxPkts = 2
  PendingCap = 1
  SessionLimit <- One
  FlowLimit <- Three
  MaxSessionsPerClient = 1
  MaxFlowsPerClient = 3
  k1 = k1
  k2 = k2
  s1 = s1
  s2 = s2
  m1 = m1
  m2 = m2
  Callers = {k1, k2}
  Names = {m1, m2}
  Upstreams = {s1, s2}
  NoOne = NoOne
  Patience = 1
  TtlMin = 1
  TtlMax = 1
  SoftCap = 1
  Ttls = {2}
  n1 = n1
  n2 = n2
  n3 = n3
  Outlets = {n1, n2, n3}
  Direct = Direct
  Global = "GLOBAL"
  Watched <- OneGroup
  Tries = 1
  Rounds = 1
  FallDirect = TRUE
  AbsentLooks = 1
  MaxLooks = 2
  MaxShifts = 1
CHECK_DEADLOCK FALSE
INVARIANTS
  Tracked
  FrontSafe
  SocketsWithinQuota
  ResolverSafe
  WatchSafe
  BinaryWhole
  WithinBudget
PROPERTIES
  OutletsRecover
  NobodyWaits
  WorkCompletes
