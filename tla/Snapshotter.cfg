SPECIFICATION FairSpec
CONSTANTS
  Key = {k1}
  Caller = {c1}
  MaxVer = 2
  Env = {"receive", "publishFails", "encodeFails", "snapshotFails", "close", "closeTimeout"}
INVARIANT TypeOK
INVARIANT StatsMatchMap
INVARIANT NoLostWakeup
INVARIANT CloseFlushes
PROPERTY AckedIsPersisted
PROPERTY CloseTerminates
CHECK_DEADLOCK FALSE
