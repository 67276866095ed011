SPECIFICATION Spec
CONSTANTS
  Users = {u1}
  Schuko = t1
  Mennekes = t2
  Types <- MCTypes
  Catalogs <- MCCatalogs
  Central = {m1}
  Listed = {r1}
  Taps = {h1, h2}
  None = None
  FreeLimit = 1
  PaidLimit = 2
  MaxInputs = 5
  MaxFaults = 1
INVARIANTS TypeOK LimitUnlessRaced ChosenConnector ToldOrAlerted ErasedStaysErased
SYMMETRY MCSymmetry
CHECK_DEADLOCK FALSE
