SPECIFICATION LivenessSpec
CONSTANTS
  h1 = h1
  h2 = h2
  w1 = w1
  w2 = w2
  r1 = r1
  None = None
  Workers <- TwoWorkers
  MaxAttempts = 2
  MaxQueue = 1
  MaxFaults = 1
  MaxRetries = 0
PROPERTIES
  RecordIsEnded
  OrderIsDecided
  SuccessIsLearned
CHECK_DEADLOCK FALSE
