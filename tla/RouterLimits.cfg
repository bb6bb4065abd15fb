SPECIFICATION Spec
CONSTANTS
  c1 = c1
  c2 = c2
  k = k
  none = none
  PriceScale = 1
  Minute = 2
  DayLength = 4
  Calls <- TwoCalls
  Orders <- Competing
  CapsuleIds <- OneCapsule
  NoCapsule = none
  CapsuleLimits <- TightLimits
  Allocated = 20
  RiskLimits <- TwoPerMinute
  Venues <- Adapters
  Available = {"sim", "coinbase"}
  AllowTaker = FALSE
  OperatorSets = {}
  CanDelete = FALSE
  MaxNow = 4
  HaltModes = {}
  MaxHalting = 1
  MaxLives = 1
SYMMETRY PairSymmetry
INVARIANTS RateWindow CooldownUnlessOverlapping OvershootBounded BooksMatchAudit
CHECK_DEADLOCK FALSE
