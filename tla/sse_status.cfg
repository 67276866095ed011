SPECIFICATION Spec
CONSTANTS
  c1 = c1  c2 = c2  c3 = c3  ccs = ccs  chademo = chademo
  None = None
  Conns = {c1, c2}
  Labels = {ccs, chademo}
  LabelOf <- TwoTypes
  MaxFaults = 0
INVARIANTS ToldIsCurrent
