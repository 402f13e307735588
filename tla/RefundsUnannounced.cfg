SPECIFICATION FairSpec
CONSTANTS
  h1 = h1
  h2 = h2
  r1 = r1
  r2 = r2
  None = None
  Handlers <- OneHandler
  Refunds <- OneRefund
  Amount <- OneAmount
  Paid = 3
  MaxAttempts = 3
  MaxFaults = 1
  MaxRetries = 0
PROPERTIES
  SucceededIsAnnounced
CHECK_DEADLOCK FALSE
