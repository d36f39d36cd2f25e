SPECIFICATION FairSpec
CONSTANTS
  k1 = k1
  w1 = w1
  NoOne = NoOne
  Key = {k1, k2}
  Watcher = {w1}
  Filter <- JustOne
  Writer = {c1, c2}
  watchBuffer = 1
  MaxVer = 2
  Env = {"batch", "cancel", "close", "closeTimeout"}
INVARIANT ChannelDiscipline
INVARIANT ClosedAfterClose
INVARIANT NoSilentGap
INVARIANT AppliedOrder
PROPERTY WatchersEnd
PROPERTY CloseTerminates
CHECK_DEADLOCK FALSE
