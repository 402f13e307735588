SPECIFICATION Spec
CONSTANTS
  w1 = w1
  w2 = w2
  d1 = d1
  None = None
  Workers <- OneWorker
  Deliveries <- OneDelivery
  MaxAttempts = 3
  MaxQueue = 2
  MaxFaults = 0
  MaxRetries = 0
INVARIANTS
  AtMostMaxAttempts
CHECK_DEADLOCK FALSE
