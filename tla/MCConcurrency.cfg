SPECIFICATION HarnessSpec
CONSTANTS
  MaxU64 = 3
  MaxI64 = 3
  MinWindow = 1
  MaxWindow = 2
  Keys = {"k1"}
  ZeroKey = ZeroKey
  NoDeadline = NoDeadline
  Starts <- MCStarts
  Instructions <- MCInstructions
  OperationIds = {a, b, c, d}
  MaxCandidates = 2
SYMMETRY IdSymmetry
INVARIANTS
  CommitsAsProjected
  SerialWitness
  ClaimWindowKept
PROPERTY Linearizable
CHECK_DEADLOCK FALSE
