SPECIFICATION FairSpec
CONSTANTS
  k1 = k1
  k2 = k2
  a = a
  b = b
  nan = nan
  Node <- Pods
  Key <- TwoKeys
  Value <- SomeBad
  Zero = a
  Bad <- OnlyNaN
  NoEntry = NoEntry
  UseMerger = FALSE
  Join <- Left
  MaxTime = 0
  MaxSeq <- TwoNone
  MaxLate = 1
  TTL = 1
  Client = {"many", "seed", "close"}
  Env = {}
INVARIANTS
  TypeOK
PROPERTIES
  EventuallyConverged
CHECK_DEADLOCK FALSE
