SPECIFICATION Spec
CONSTANTS
  k1 = k1
  k2 = k2
  a = a
  b = b
  nan = nan
  Node <- Pods
  Key <- OneKey
  Value <- GSets
  Zero = {}
  Bad = {}
  NoEntry = NoEntry
  UseMerger = TRUE
  Join <- Union
  MaxTime = 1
  MaxSeq <- OneEach
  MaxLate = 0
  TTL = 1
  Client = {"set"}
  Env = {}
INVARIANTS
  MergerConverges
CHECK_DEADLOCK FALSE
