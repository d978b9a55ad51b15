CONSTANTS
  a = a b = b c = c d = d f1 = f1 f2 = f2
  Addresses = {a, b, c, d}
  Bridges = {c}
  Frames = {f1, f2}
  Origin <- MCOrigin
  None = none
  Limit = 2
  QueueSize = 1
  Timeout = 2
  LikeExpire = 2
  GatherDelay = 1
  Period = 2
  Word = 256
  MaxLag = 1
SPECIFICATION FairSpec
INVARIANTS SentOnce LimitKept NobodyMissed
PROPERTIES StopsInTime Drained
