SPECIFICATION Spec
CONSTANTS
  Mints = {sol}
  NativeMint = sol
  Authorities = {a1}
  Wallets = {w1, w2}
  Relayers = {w2}
  NoAuthority = NoAuthority
  Nullifiers = {n1, n2}
  Secrets = {s1}
  Denominations = {15}
  FeeRates = {999, 1001}
  RootHistorySize = 2
  Capacity = 3
  InitialFunds = 30
  LeafIndices = {0, 1, 2}
  MaxLiveProofs = 1
  MaxForeignProofs = 1
  ZeroRoot = ZeroRoot
  a1 = a1
  n1 = n1
  n2 = n2
  s1 = s1
  sol = sol
  w1 = w1
  w2 = w2
INVARIANT NativeNotesRedeemable
SYMMETRY Symmetry
