SPECIFICATION AllSpec
CONSTANTS
  NoLoop = NoLoop
  Addr = {a1}
  Loop = {l1, l2}
  Conn = {c1}
  Buffer = 1
  Env = {"remove", "hostnames", "inbound", "frames", "dialFails", "hangup", "close"}
  Discoverer = {d1}
  Host = {h1, h2, h3}
  Self = h3
  MaxChanges = 2
  DnsEnv = {"lookupFails", "close", "cancel"}
INVARIANT NoSendOnClosed
INVARIANT NoLeakedConn
INVARIANT LoopsAreOwned
PROPERTY CloseTerminates
PROPERTY ResolvedStays
PROPERTY PeersConverge
CHECK_DEADLOCK FALSE
