SPECIFICATION Spec
CONSTANTS
  AuthIds = {a1, a2}
  Expectations <- MCExpectations
  Prepared <- MCPrepared
  MaxTtl = 2
  Lag = 1
  Horizon = 3
  None = None
SYMMETRY AuthSymmetry
PROPERTY ConsumedIsTerminal
CHECK_DEADLOCK FALSE
