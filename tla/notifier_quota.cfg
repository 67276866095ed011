SPECIFICATION Spec
CONSTANTS
  s1 = s1  s2 = s2  l1 = l1  l2 = l2  t1 = t1  t2 = t2
  Subs = {s1, s2}
  Locs = {l1, l2}
  Types = {t1, t2}
  None = None
  SubLoc <- SameLoc
  SubType <- S1WantsT1
  SubLimit <- OneOrTwo
  PaidAtStart <- OnlyS1
  Leavers <- Everybody
  Offers <- Told
  Cooldown = 1  Delay = 2  ReapAge = 5  FloodWait = 2
  ReadCount = 50
  Prompt = TRUE
  TierMoves <- Down
  MaxEvents = 2  MaxCrashes = 0  MaxFaults = 0
INVARIANTS QuotaRespected EveryClaimKnown StatusIsLatest AlertsAreWarranted
PROPERTIES CooldownRespected
