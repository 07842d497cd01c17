SPECIFICATION EnginesSpec
CONSTANTS
  p1 = p1
  real = real
  fake = fake
  w1 = w1
  w2 = w2
  Peers <- OnePeer
  EngineOf <- OneEngine
  IpOf <- OneIp
  Internal = {"cf"}
  Dsts = {real, fake}
  FakeDsts = {fake}
  AnyDst = AnyDst
  Workers = {w1, w2}
  WorkerOf <- TwoWorkers
  Opens = {o1, o2}
  NoOpen = NoOpen
  MaxPkts = 2
  PendingCap = 1
  SessionLimit <- Two
  FlowLimit <- Two
  MaxSessionsPerClient = 2
  MaxFlowsPerClient = 2
  Conn = {c1, c2}
  RealAddr = {real}
  EdgeAddr = {}
  FakeAddr = {fake}
  Unspecified = Unspecified
  PlainName = {plain}
  GroupName = {tunnel}
  NoName = NoName
  HintsCap = 1
  Links = {1}
  Scripts <- ClientScripts
  Reply <- TwoReplies
  HelloParts = 2
  PeekLimit = 4
  PoolSlots = 1
  Threshold = 1
  MaxLinks = 2
  NoScript = NoScript
  Packets <- InitialPackets
  FirstCid = "own"
  HelloLen = 4
  MaxPieces = 3
  MaxCrypto = 5
  MaxFeeds = 7
  Sides = {direct}
  Rounders = {r1, r2}
  Scores <- TwoScores
  Unscored = Unscored
  MinGain = 1
  MaxGateFails = 2
  MaxRounds = 2
  MaxCrashes = 1
  Conns = {0, 1}
  Askers = {1, 2}
  MaxSent = 2
  MaxResets = 1
  MaxAsks = 3
  Texts = {"a", "b", ""}
  Rows = 3
  HistoryCap = 6
  ViewWindow = 1
  MaxPrints = 5
  lone = lone
  Domain = {a, b, c, d, lone}
  Network = 8
  Bcast = 15
  MaxEntries = 7
  Requested = 2
  FirstOffset = 1
  MinShardUsable = 3
  ProbeLimit = 1
  HashRange = 16
  Rapid <- TogetherButOne
  Mix <- OnePlace
  MixStep <- Strides
  MaxPoolRestarts = 1
  Threads = {t1}
  Groups = {g1, g2}
  Nodes = {n1, n2}
  None = None
  MaxOps = 4
  MaxReboots = 2
  NoPid = NoPid
  MaxPids = 2
  GeoFiles = {f1, f2}
  Nothing = Nothing
  MaxReleases = 2
  MaxDays = 1
  MaxUpdates = 1
  MaxEnds = 1
SYMMETRY EnginesSymmetry
CHECK_DEADLOCK FALSE
INVARIANTS
  SlotsOwned
  PacketsSafe
  RouteSafe
  RelayFaithful
  NameFromWholeHello
  RoundsSound
  NotOvercounted
  EndsWithScreen
  LocksSurvive
  ClashSafe
  AddressesKept
PROPERTIES
  Implements
