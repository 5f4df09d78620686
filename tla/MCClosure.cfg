SPECIFICATION Spec
CONSTANTS
  None = None
  r1 = r1
  r2 = r2
  c1 = c1
  c2 = c2
  PolicyLimit = 3
  AllowTopUp = TRUE
  MinGrace = 2
  Closures = {c1, c2}
  Refunds = {r1, r2}
  Amount <- MCAmount
  Expiry = 3
  Start <- MCStart
  Total = 2
  Horizon = 2
SYMMETRY MCSymmetry
INVARIANTS
  TypeOK
  RightsStayCovered
  CompletedRefundsExact
  EpochStartsClean
PROPERTIES
  FinalRefundsStay
CHECK_DEADLOCK FALSE
