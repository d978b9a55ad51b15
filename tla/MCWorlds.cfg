CONSTANTS
  me = me r1 = r1 r2 = r2 s1 = s1 earth = earth moon = moon none = none
  Planet = earth
  MoonIds = {moon}
  Addresses = {me, r1, r2, s1}
  Self = me
  Default <- P1
  Serves <- MCServes
  Persistent = {earth, moon}
  NoWorld = none
SPECIFICATION FairSpec
INVARIANTS WorldsTrusted OnlyOrbited UpstreamsKnown
PROPERTIES NoRollback MoonFound
