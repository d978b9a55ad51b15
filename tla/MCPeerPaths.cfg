SPECIFICATION FairSpec
CONSTANTS
  a1 = a1
  a2 = a2
  b = b
  MaxPaths = 2
  Heartbeat = 1
  Alive = 1
  PingPeriod = 2
  Expiration = 2
  MaxPriority = 3
  NoPath = NoPath
  Paths <- ThreePaths
  Host <- ThreeHost
  Net <- ThreeNet
  Scope <- ThreeScope
  Usable <- ThreePaths
INVARIANTS NoHoles OnePerHost
PROPERTIES PassKeepsCurrent KeptAlive ExpiredReaped
