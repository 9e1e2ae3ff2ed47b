SPECIFICATION FairSpec
CONSTANTS
  Mints = {usdc, bags}
  NativeMint = sol
  Authorities = {a1}
  Wallets = {w1}
  Relayers = {r1}
  NoAuthority = NoAuthority
  Nullifiers = {n1, n2}
  Secrets = {s1}
  Denominations = {15}
  FeeRates = {999}
  RootHistorySize = 1
  Capacity = 2
  InitialFunds = 30
  LeafIndices = {0, 1}
  MaxLiveProofs = 1
  MaxForeignProofs = 1
  ZeroRoot = ZeroRoot
  a1 = a1
  bags = bags
  n1 = n1
  n2 = n2
  r1 = r1
  s1 = s1
  usdc = usdc
  w1 = w1
INVARIANT LockedOnlyByTwin
PROPERTY EventuallyRedeemed
