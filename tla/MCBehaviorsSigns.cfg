\* Two booths and their sign; the grouping changes, the sheet has no rows.
CONSTANTS
  b1 = b1
  b2 = b2
  d1 = d1
  d2 = d2
  s1 = s1
  Booths = {b1, b2}
  Doors = {}
  Signs = {s1}
  Weights <- MCWeights
  Distances <- MCDistances
  DefaultSetting <- MCDefaultSetting
  MaxTunnels = 2
  Roster <- NoRoster
  GroupConfigs <- Regroupings
  DeviceConfigs <- DefaultDevices
SPECIFICATION Spec
INVARIANTS TypeOK SignAgrees DisplaysAgree
