SPECIFICATION Spec
CONSTANTS
  NumPrograms = 1
  Bound = {0}
  ActionOf <- MCActionOf
  ErrLimit = 1
  MaxRestarts = 0
  GenMod = 2
  Results = {1}
  Off = 0
INVARIANT SafeStays
