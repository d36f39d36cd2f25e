SPECIFICATION AllSpec
CONSTANTS
  None = None
  Buffer = 1
  Pub = {w1, w2}
  Sub = {s1, s2}
  MaxMsgs = 2
  Pod = {n1}
  Topic = {t1, t2}
  MaxIn = 2
  MaxRedis = 1
  Caller = {c1}
INVARIANT NoSilentDrop
INVARIANT ClosedMeansEnded
PROPERTY MemoryDelivers
PROPERTY RedisDelivers
PROPERTY CallsReturn
PROPERTY CloseReturns
CHECK_DEADLOCK FALSE
