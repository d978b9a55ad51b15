SPECIFICATION OnlineFairSpec
CONSTANTS
  r1 = r1
  r2 = r2
  Roots <- TwoRoots
  Interval = 1
  HelloPeriod = 3
  PingPeriod = 2
  Expiration = 4
  Timeout = 9
  MaxLost = 2
INVARIANTS OneLossForgiven OnlineFresh
PROPERTY BackOnline
