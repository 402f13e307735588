SPECIFICATION Spec
CONSTANTS
  h1 = h1
  h2 = h2
  r1 = r1
  r2 = r2
  None = None
  Handlers <- TwoHandlers
  Refunds <- TwoRefunds
  Amount <- TwoAmounts
  Paid = 3
  MaxAttempts = 3
  MaxFaults = 2
  MaxRetries = 1
SYMMETRY HandlerSymmetry
INVARIANTS
  TypeOK
  ExecutedIsReserved
  RefundedWithinPaid
  AnnouncedAsSettled
CHECK_DEADLOCK FALSE
