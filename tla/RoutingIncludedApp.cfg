SPECIFICATION RoutingAlone
CONSTANTS
  w1 = w1
  w2 = w2
  d1 = d1
  c1 = c1
  c2 = c2
  v1 = v1
  v2 = v2
  n1 = n1
  n2 = n2
  n3 = n3
  r1 = r1
  r2 = r2
  a1 = a1
  a2 = a2
  i1 = i1
  i2 = i2
  o1 = o1
  ten = ten
  twenty = twenty
  books = books
  games = games
  None = None
  Nobody = Nobody
  NoChannel = NoChannel
  NoNumber = NoNumber
  NoRule = NoRule
  AllApps = AllApps
  AnyCurrency = AnyCurrency
  Workers <- TwoWorkers
  Deliveries <- OneDelivery
  MaxAttempts = 3
  MaxQueue = 2
  MaxFaults = 1
  MaxRetries = 1
  Clients <- TwoClients
  Requests <- CreateRequests
  Terms = {ten, twenty}
  Texts = {books, games}
  Channels = {"paypal", "alipay"}
  Lower <- Spellings
  Disturbances = {"select", "edit", "disable"}
  MaxCreationFaults = 1
  Limit = 2
  Window = 3
  MaxPerTick = 3
  Visits <- TwoVisits
  Numbers <- ThreeNumbers
  MaxVisitFaults = 2
  Rules <- TwoRules
  Accounts <- TwoAccounts
  ChannelOf <- AccountChannels
  PayModeOf <- AccountModes
  Supported <- Pairs
  Purchase <- Order
  LowerCase <- Cases
  Forms <- RuleForms
  MaxChanges = 1
  Instances <- TwoInstances
  Payments <- OnePayment
  RowIds = {1, 2}
  MaxMigrationFaults = 1
  MaxOldWrites = 1
INVARIANTS
  IncludedAppIsRouted
CHECK_DEADLOCK FALSE
