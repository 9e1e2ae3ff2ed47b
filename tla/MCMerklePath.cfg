SPECIFICATION PathSpec
CONSTANTS
  Depth = 3
  RootHistorySize = 3
  Commitments = {c1, zero}
  c1 = c1
  zero = zero
  ZeroLeaf = zero
  ZeroRoot = ZeroRoot
CHECK_DEADLOCK FALSE
INVARIANT SiblingsAsCommented
