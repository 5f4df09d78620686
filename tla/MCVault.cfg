SPECIFICATION Spec
CONSTANTS
  MaxU64 = 3
  MaxI64 = 4
  MinWindow = 1
  MaxWindow = 2
  Keys = {k1, k2}
  ZeroKey = ZeroKey
  NoDeadline = NoDeadline
  Starts <- MCStarts
  Instructions <- MCInstructions
SYMMETRY KeySymmetry
INVARIANTS
  TypeOK
  GuardsSuffice
  PhaseTableAgrees
  NeverStranded
PROPERTY RightsPreserved
CHECK_DEADLOCK FALSE
