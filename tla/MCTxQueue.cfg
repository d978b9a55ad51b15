SPECIFICATION FairSpec
CONSTANTS
  p1 = p1 d1 = d1
  Packets = {p1}
  Dests = {d1}
  Dest <- OneDest
  Upstream = up
  Senders = {app, rx}
  QueueSize = 2
  Timeout = 2
  RetryDelay = 1
  Word = 256
  MaxLag = 1
  None = none
  Largest = 10024
  Mtus = {1432, 2800}
  Header = 16
  MaxFragments = 7
  Nibble = 16
INVARIANTS SentIntact
PROPERTIES CarriesMail GivenUpOld Delivered
