SPECIFICATION DepositsSpec
CONSTANTS
  Calls = {c1, c2}
  Commitments = {k1, k2}
  TxSignatures = {t1, t2}
  MaxDeposits = 2
  Worker = worker
  AuthorityBytes = 9
INVARIANT TypeOK
INVARIANT IndicesDense
INVARIANT RowsLanded
INVARIANT AnswersFromRows
INVARIANT RegisteredIsIndexed
INVARIANT RootsRead
PROPERTY RegistryHolds
CHECK_DEADLOCK FALSE
