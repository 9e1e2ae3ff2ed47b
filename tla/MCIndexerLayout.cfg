SPECIFICATION Spec
CONSTANTS
  Syncers = {worker}
  MaxDeposits = 3
  AuthorityBytes = 9
INVARIANT RootsReal
