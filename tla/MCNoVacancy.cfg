\* A booth and its sign, three tunnels between them; one of them may be dead.
CONSTANTS
  b1 = b1
  s1 = s1
  Booths = {b1}
  Doors = {}
  Signs = {s1}
  Weights <- MCWeights
  Distances <- MCDistances
  DefaultSetting <- MCSetting
  Groups <- MCGroups
  MaxTunnels = 3
  MaxDead = 1
SPECIFICATION FairSpec
INVARIANTS TypeOK DisplaysFollow NewestCounts
PROPERTIES Truthful Heals
