SPECIFICATION Spec
CONSTANTS
  k1 = k1
  k2 = k2
  Keys <- TwoKeys
  MaxAttempts = 2
  Window = 4
  LockoutBases <- ShortAndLong
  LockoutMax = 6
  StreakReset = 5
  Second = 2
  PruneLimit = 0
  MaxTime = 15
SYMMETRY Symmetry
INVARIANTS
  WindowHolds
  RetryAfterIsHonest
PROPERTIES
  LockoutHolds
  LockoutEscalates
