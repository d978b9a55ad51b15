SPECIFICATION FairSpec
CONSTANTS
  QueueSize = 2
  PtrSpan = 2
  MaxFragments = 2
  RxTimeout = 0
  WhoisRetry = 1
  NoPacket = NoPacket
  Packets <- TwoPackets
  Peers <- OnePeer
  Total <- TwoTotal
  Source <- TwoSource
  Needs <- TwoNeeds
  Grants <- OneGrant
INVARIANTS Reassembled OneEntryPerPacket FlushReleases
PROPERTIES PartialKept ExpiredFreed ReadyDecoded
