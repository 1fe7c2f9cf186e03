SPECIFICATION Spec
CONSTANTS
  Managers = {m1, m2}
  Tasks = {}
  Plans = {p1, p2}
  NumCues = 2
  MaxUnits = 2
  MaxStarts = 2
  MaxFaults = 1
SYMMETRY Symmetry
INVARIANTS
  NoBlindRepay
  LedgerTruthful
  LeaseHeld
PROPERTY PaidOnce
CHECK_DEADLOCK FALSE
