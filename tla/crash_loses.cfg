SPECIFICATION Spec
CONSTANTS
  s1 = s1  s2 = s2  l1 = l1  l2 = l2  t1 = t1  t2 = t2
  Subs = {s1}
  Locs = {l1}
  Types = {}
  None = None
  SubLoc <- SameLoc
  SubType <- NoFilter
  SubLimit <- Unlimited
  PaidAtStart <- OnlyS1
  Leavers <- Nobody
  Offers <- Untold
  Cooldown = 1  Delay = 2  ReapAge = 5  FloodWait = 1
  ReadCount = 50
  Prompt = TRUE
  TierMoves <- Fixed
  MaxEvents = 1  MaxCrashes = 1  MaxFaults = 0
PROPERTIES ReapedIsRetried
