SPECIFICATION RouteSpec
CONSTANTS
  Conn = {c1}
  RealAddr = {real}
  EdgeAddr = {}
  FakeAddr = {fake}
  Unspecified = Unspecified
  PlainName = {plain}
  GroupName = {tunnel}
  NoName = NoName
  HintsCap = 2
CHECK_DEADLOCK FALSE
INVARIANT
  NotesRealIp
