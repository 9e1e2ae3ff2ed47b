SPECIFICATION DepositsSpec
CONSTANTS
  Calls = {c1, c2}
  Commitments = {k1, k2}
  TxSignatures = {t1, t2}
  MaxDeposits = 2
  Worker = worker
  AuthorityBytes = 9
INVARIANT RaceAnswered
CHECK_DEADLOCK FALSE
