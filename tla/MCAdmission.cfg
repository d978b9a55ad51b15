SPECIFICATION FairSpec
CONSTANTS
  Parts = 1
  Delta = 1
  PushTimeout = 2
  MaxVersion = 3
PROPERTY Admitted
