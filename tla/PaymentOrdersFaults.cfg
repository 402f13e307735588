SPECIFICATION Spec
CONSTANTS
  h1 = h1
  h2 = h2
  alipay1 = alipay1
  paypal1 = paypal1
  alipay = alipay
  paypal = paypal
  None = None
  Handlers <- MCHandlers
  Accounts <- OneAccount
  Channels <- MCChannels
  ChannelOf <- OneChannelOf
  NotifyConfigured = TRUE
  Presets <- AnyPresets
  MaxNotices = 2
  MaxQueue = 1
  MaxFaults = 1
  MaxEdits = 1
SYMMETRY HandlerSymmetry
INVARIANTS
  TypeOK
PROPERTIES
  AcknowledgedIsAnnounced
CHECK_DEADLOCK FALSE
