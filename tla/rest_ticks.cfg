SPECIFICATION FairSpec
CONSTANTS
  evika = evika  batteryfly = batteryfly
  l1 = l1  l2 = l2
  Operators = {evika, batteryfly}
  Locs = {l1, l2}
  OperatorOf <- Owner
  Statuses = {"AVAILABLE", "FULLY_USED"}
  None = None
  Gaps = TRUE
  Cuts <- Anything
  MaxFaults = 1
INVARIANTS TypeOK ToldIsBaseline
PROPERTIES PublishedBeforeSaved BaselineKept StatusTold
