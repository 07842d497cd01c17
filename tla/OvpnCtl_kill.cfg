SPECIFICATION Spec
CONSTANTS
  Pids = {v1, v2}
  None = None
  MaxRestarts = 2
  MaxWrites = 3
  MaxFaults = 1
CHECK_DEADLOCK FALSE
INVARIANTS
  NothingRespawns
