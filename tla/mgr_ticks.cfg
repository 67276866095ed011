SPECIFICATION FairSpec
CONSTANTS
  l1 = l1  l2 = l2  d1 = d1  d2 = d2  d3 = d3
  Locs = {l1, l2}
  Devices = {d1, d2, d3}
  DevicesOf <- Layout
  Unknown = Unknown
  Keepers <- OnlyL1
  Failures <- AnyCall
  MaxFaults = 2
  MaxStops = 1
INVARIANTS TypeOK NoStaleBaseline
PROPERTIES KeepersFollowed OthersDropped
