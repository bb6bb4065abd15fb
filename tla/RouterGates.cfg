SPECIFICATION Spec
CONSTANTS
  c1 = c1
  c2 = c2
  k = k
  none = none
  PriceScale = 1
  Minute = 2
  DayLength = 2
  Calls <- TwoCalls
  Orders <- MixedOrders
  CapsuleIds <- OneCapsule
  NoCapsule = none
  CapsuleLimits <- Unlimited
  Allocated = 20
  RiskLimits <- WideRisk
  Venues <- Adapters
  Available = {"sim", "coinbase"}
  AllowTaker = FALSE
  OperatorSets = {"paused", "live"}
  CanDelete = TRUE
  MaxNow = 0
  HaltModes = {"liquidate", "pause_new_only"}
  MaxHalting = 2
  MaxLives = 1
SYMMETRY PairSymmetry
INVARIANTS TypeOK HaltedUntilResume
PROPERTIES HaltStopsHandOffs
CHECK_DEADLOCK FALSE
