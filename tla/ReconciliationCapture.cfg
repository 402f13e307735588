SPECIFICATION Spec
CONSTANTS
  w1 = w1
  w2 = w2
  Workers <- OneWorker
  MaxAttempts = 3
  MaxQueue = 1
  MaxFaults = 0
  MaxRetries = 0
PROPERTIES
  ExpiredIsNotCaptured
CHECK_DEADLOCK FALSE
