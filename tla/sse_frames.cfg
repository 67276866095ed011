SPECIFICATION FairSpec
CONSTANTS
  c1 = c1  c2 = c2  c3 = c3  ccs = ccs  chademo = chademo
  None = None
  Conns = {c1, c2, c3}
  Labels = {ccs, chademo}
  LabelOf <- TwoTypes
  MaxFaults = 2
INVARIANTS TypeOK DbFollows
PROPERTIES OnlyFreedIsAnnouncedOnceSeen FreedIsAnnounced
