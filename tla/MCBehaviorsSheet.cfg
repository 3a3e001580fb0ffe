\* Two doors with a row each; rows move and writes fail; no groups.
CONSTANTS
  b1 = b1
  b2 = b2
  d1 = d1
  d2 = d2
  s1 = s1
  Booths = {}
  Doors = {d1, d2}
  Signs = {}
  Weights <- MCWeights
  Distances <- MCDistances
  DefaultSetting <- MCDefaultSetting
  MaxTunnels = 1
  Roster <- TwoRows
  GroupConfigs <- NoGroups
  DeviceConfigs <- DefaultDevices
SPECIFICATION Spec
INVARIANTS SheetAgrees
