SPECIFICATION Spec
CONSTANTS
  i1 = i1
  i2 = i2
  t = t
  p1 = p1
  p2 = p2
  p3 = p3
  w = w
  Port = "wrapper"
  Identities <- Ids
  TestIdentity = t
  Peers <- ThreePeers
  Nothing = Nothing
  Low <- LowBits
  PlanetId = w
  Default = 1
  MaxPlanet = 2
INVARIANTS SameIdentity NewestPlanet PublicMatches PeersAlike
