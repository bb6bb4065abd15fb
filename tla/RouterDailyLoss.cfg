SPECIFICATION Spec
CONSTANTS
  c1 = c1
  c2 = c2
  k = k
  none = none
  PriceScale = 1
  Minute = 2
  DayLength = 2
  Calls <- TwoCalls
  Orders <- LosingTrades
  CapsuleIds <- OneCapsule
  NoCapsule = none
  CapsuleLimits <- Unlimited
  Allocated = 20
  RiskLimits <- TightLoss
  Venues <- Adapters
  Available = {"sim", "coinbase"}
  AllowTaker = FALSE
  OperatorSets = {}
  CanDelete = FALSE
  MaxNow = 0
  HaltModes = {}
  MaxHalting = 1
  MaxLives = 1
INVARIANTS DailyLossStopsOrders
CHECK_DEADLOCK FALSE
