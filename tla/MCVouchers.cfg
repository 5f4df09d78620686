SPECIFICATION FlowSpec
CONSTANTS
  None = None
  NoDeadline = NoDeadline
  Keys <- MCKeys
  sA = sA
  sB = sB
  sC = sC
  sD = sD
  k1 = k1
  w1 = w1
  w2 = w2
  PolicyLimit = 2
  AllowTopUp = TRUE
  MinGrace = 1
  Vouchers = {1, 2, 3}
  Voucher <- MCVoucher
  Submissions <- MCSubmissions
  VoucherOf <- MCVoucherOf
  Claims <- MCClaims
  Bindings <- MCBindings
  Wallets <- MCWallets
  MaxU64 = 4
  MaxI64 = 4
  MinWindow = 1
  MaxWindow = 1
  ZeroKey = ZeroKey
  Accounts = Accounts
  ChannelExpiry = 2
  InitialNonce = 1
  TopUps = {2}
  Horizon = 1
INVARIANTS
  FlowTypeOK
  LiveVouchersOrdered
  RequestedStillActivates
  BindingUsedOnce
PROPERTIES
  StepsStayValid
SYMMETRY MCSymmetry
CHECK_DEADLOCK FALSE
