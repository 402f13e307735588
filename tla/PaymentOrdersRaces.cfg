SPECIFICATION Spec
CONSTANTS
  h1 = h1
  h2 = h2
  alipay1 = alipay1
  paypal1 = paypal1
  alipay = alipay
  paypal = paypal
  None = None
  Handlers <- MCHandlers
  Accounts <- MCAccounts
  Channels <- MCChannels
  ChannelOf <- MCChannelOf
  NotifyConfigured = TRUE
  Presets <- NoPresets
  MaxNotices = 3
  MaxQueue = 1
  MaxFaults = 0
  MaxEdits = 0
SYMMETRY HandlerSymmetry
INVARIANTS
  AnnouncementsAgree
  ClosedIsAnnouncedOnce
  PaidMeansTaken
PROPERTIES
  PayingTradeIsFinal
  ImplementsLifecycle
CHECK_DEADLOCK FALSE
