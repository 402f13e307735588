SPECIFICATION Spec
CONSTANTS
  w1 = w1
  w2 = w2
  Workers <- TwoWorkers
  MaxAttempts = 2
  MaxQueue = 2
  MaxFaults = 2
  MaxRetries = 1
SYMMETRY WorkerSymmetry
INVARIANTS
  TypeOK
  ResolvedIsDecided
  DecidedLikeProvider
  ClaimIsExclusive
CHECK_DEADLOCK FALSE
