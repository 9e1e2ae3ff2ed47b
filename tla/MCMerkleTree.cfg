SPECIFICATION PathSpec
CONSTANTS
  Depth = 3
  RootHistorySize = 3
  Commitments = {c1, zero}
  c1 = c1
  zero = zero
  ZeroLeaf = zero
  ZeroRoot = ZeroRoot
  FieldModulus = 3
  Pubkeys = {1, 4}
INVARIANT TypeOK
INVARIANT WindowHoldsTreeRoots
INVARIANT ProofsPay
INVARIANT StalePathsVerify
INVARIANT RootDeterminesLeaves
PROPERTY ServedStable
CHECK_DEADLOCK FALSE
