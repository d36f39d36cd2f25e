SPECIFICATION FairSpec
CONSTANTS
  p1 = p1
  c1 = c1
  c2 = c2
  NoPod = NoPod
  Pod = {p1, p2}
  Target = {t1}
  Method = {m1}
  Call = {c1}
  From <- One
  MaxConcurrentHandlers = 1
  MaxWrites = 2
  MaxCopies = 1
  Env = {"register", "unregister", "duplicate", "timeout", "close"}
INVARIANT ClosedIsQuiet
PROPERTY CallsReturn
PROPERTY CloseReturns
PROPERTY InboxMovesOn
CHECK_DEADLOCK FALSE
