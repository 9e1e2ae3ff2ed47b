SPECIFICATION Spec
CONSTANTS
  alice = alice
  bob = bob
  token = token
  k1 = k1
  SystemProgram = SystemProgram
  VaultTokenMint = vault
  NoKey = NoKey
  NoCall = NoCall
  NoResponse = NoResponse
  RelayerWallet = relayer
  Requests = {r1, r2, r3}
  Keys = {k1}
  Wallets = {alice, bob, relayer}
  Mints = {SystemProgram, token, vault}
  Width = 2
  Calls <- MCCalls
  MaxExpiries = 1
SYMMETRY AnyOrder
INVARIANT ApiTypeOK
INVARIANT ReplaysAgree
INVARIANT RunsOverlap
INVARIANT CachedNotSuperseded
INVARIANT RegisteredToOne
INVARIANT BuiltForOwnPool
CHECK_DEADLOCK FALSE
