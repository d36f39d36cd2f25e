SPECIFICATION FairSpec
CONSTANTS
  None = None
  Peer = {p1}
  Fetcher = {f1, f2}
  SendDepth = 1
  Buffer = 1
  MaxRounds = 2
  MaxVer = 1
  Env = {"events", "publish", "connect", "cancel"}
INVARIANT AnswerReachesCall
INVARIANT TopicIsReleased
PROPERTY FetchReturns
CHECK_DEADLOCK FALSE
