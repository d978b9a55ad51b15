CONSTANTS
  root1 = root1 root2 = root2 lan = lan x = x y = y
  Reporters = {root1, root2, lan}
  Upstreams = {root1, root2}
  Scope <- MCScope
  Surfaces = {x, y}
  None = none
  Timeout = 2
  Word = 256
  MaxLag = 1
  MaxChanges = 1
  MaxReports = 2
  MaxFirst = 2
SPECIFICATION AwareFairSpec
INVARIANT ResetOnce
PROPERTY OldForgotten
