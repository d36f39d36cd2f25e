SPECIFICATION Spec
CONSTANTS
  k1 = k1
  k2 = k2
  a = a
  b = b
  nan = nan
  Node <- Pods
  Key <- OneKey
  Value <- OneValue
  Zero = a
  Bad = {}
  NoEntry = NoEntry
  UseMerger = FALSE
  Join <- Left
  MaxTime = 2
  MaxSeq <- OneEach
  MaxLate = 0
  TTL = 1
  Client = {"set", "delete", "refresh"}
  Env = {"dup", "drift", "mesh"}
INVARIANTS
  TombstonesHold
  Convergence
CHECK_DEADLOCK FALSE
