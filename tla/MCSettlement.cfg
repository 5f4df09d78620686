SPECIFICATION FairSpec
CONSTANTS
  None = None
  s1 = s1
  s2 = s2
  PolicyLimit = 3
  AllowTopUp = TRUE
  MinGrace = 1
  Settlements <- MCSettlements
  Amount <- MCAmount
  Obligation <- MCObligation
  Expiry <- MCExpiry
  Activations = {3}
  Start <- MCStart
  Horizon = 1
INVARIANTS
  TypeOK
  ReservationsCovered
  ReceiptsExact
  ReleasedNeverLands
CHECK_DEADLOCK FALSE
PROPERTIES
  ExactTransferCompletes
