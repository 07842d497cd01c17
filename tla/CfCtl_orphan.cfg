SPECIFICATION Spec
CONSTANTS
  Tokens = {t1}
  Policies = {"auto", "http2"}
  ProxyModes = {"no"}
  Pids = {q1, q2}
  None = None
  ReadyMisses = 2
  RescoreAfter = 3
  MaxEnv = 1
  MaxFaults = 1
CHECK_DEADLOCK FALSE
INVARIANTS
  NoOrphan
