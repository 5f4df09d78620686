SPECIFICATION Spec
CONSTANTS
  Requests = {r1, r2}
  Obligations = {o1, o2}
  Signatures = {s1, s2}
  Workers = {w1, w2}
  MaxRecoveries = 2
  None = None
SYMMETRY Symmetry
INVARIANTS
  ProviderCalledOnce
  JournalExplainsState
PROPERTIES
  RematerializationIsSafe
  OneEconomicEffect
CHECK_DEADLOCK FALSE
