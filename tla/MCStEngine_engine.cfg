SPECIFICATION FairSpec
CONSTANTS
  NumPrograms = 1
  Bound = {}
  ActionOf <- MCActionOf
  ErrLimit = 1
  MaxRestarts = 1
  GenMod = 2
  Results = {1}
  Off = 0
INVARIANT StopNotSaved
PROPERTY ResetHolds
PROPERTY FailureIsNoticed
