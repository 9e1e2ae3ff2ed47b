SPECIFICATION FairSpec
CONSTANTS
  Requests = {r1, r2}
  Nullifiers = {n1, n2}
  Spellings = {plain, prefixed}
  NoSignature = NoSignature
  MaxAttempts = 2
  SimulationRequired = TRUE
  Window = 1
  MaxTip = 2
INVARIANT Inv
INVARIANT RowsPaid
INVARIANT AnswersTrue
INVARIANT FeesBounded
PROPERTY EveryRequestAnswered
CHECK_DEADLOCK FALSE
