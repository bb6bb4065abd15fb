SPECIFICATION FairSpec
CONSTANTS
  c1 = c1
  c2 = c2
  k = k
  none = none
  PriceScale = 1
  Minute = 2
  DayLength = 2
  Calls <- TwoCalls
  Orders <- TwoVenues
  CapsuleIds <- OneCapsule
  NoCapsule = none
  CapsuleLimits <- Unlimited
  Allocated = 20
  RiskLimits <- WideRisk
  Venues <- Adapters
  Available = {"sim", "coinbase"}
  AllowTaker = FALSE
  OperatorSets = {}
  CanDelete = FALSE
  MaxNow = 0
  HaltModes = {"liquidate"}
  MaxHalting = 1
  MaxLives = 2
INVARIANTS AtMostOncePerLife CallsOwnTheirIds
PROPERTIES ImplementsLifecycle HaltDrains
CHECK_DEADLOCK FALSE
