SPECIFICATION FairSpec
CONSTANTS
  s1 = s1  s2 = s2  l1 = l1  l2 = l2  t1 = t1  t2 = t2
  Subs = {s1}
  Locs = {l1}
  Types = {}
  None = None
  SubLoc <- SameLoc
  SubType <- NoFilter
  SubLimit <- Unlimited
  PaidAtStart <- Nobody
  Leavers <- Nobody
  Offers <- Untold
  Cooldown = 1  Delay = 1  ReapAge = 2  FloodWait = 1
  ReadCount = 1
  Prompt = TRUE
  TierMoves <- UpAndDown
  MaxEvents = 2  MaxCrashes = 1  MaxFaults = 0
PROPERTIES EventsAcked DelayedServed ClaimsResolved PromiseKept
