SPECIFICATION FairSpec
CONSTANTS
  MaxIncoming = 2
  MaxChunks = 2
  AutoconfDelay = 1
  Updates <- MixUpdates
  Legacy <- MixLegacy
  Signed <- MixSigned
  Mine <- MixMine
  Size <- MixSize
  Persistent = TRUE
  None = None
  Mixed = Mixed
PROPERTIES KeepsPromise NotReplayed Configured Refreshed
