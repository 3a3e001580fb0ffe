\* A booth and its sign; the thresholds of the booth and the group change.
CONSTANTS
  b1 = b1
  b2 = b2
  d1 = d1
  d2 = d2
  s1 = s1
  Booths = {b1}
  Doors = {}
  Signs = {s1}
  Weights <- MCWeights
  Distances <- MCDistances
  DefaultSetting <- MCDefaultSetting
  MaxTunnels = 2
  Roster <- NoRoster
  GroupConfigs <- Singleton
  DeviceConfigs <- Rescalings
SPECIFICATION FairSpec
PROPERTIES Converges
