SPECIFICATION Spec
CONSTANTS
  Requests = {r1, r2}
  Keys = {k1, k2}
  Obligations = {o1, o2}
  AuthIds = {a1, a2}
  Messages = {m1}
  MaxGrants = 3
  Horizon = 2
  None = None
SYMMETRY Symmetry
INVARIANTS
  TypeOK
  ConsumptionMatchesEffect
  RecoveryTruthful
PROPERTY OneEconomicEffect
CHECK_DEADLOCK FALSE
