SPECIFICATION Spec
CONSTANTS
  manual1 = manual1
  manual2 = manual2
  Agents = {1, 2, 3}
  Manual <- TwoManual
  ManualCapital = 1000
  BoundTo <- Bound
  FamilyOf <- Families
  AssetOf <- Assets
  Fits = {0, 3}
  PnlsOf <- NoPnls
  Budget = 1200
  MinShare = 15
  TopN = 2
  FamilyPct = 3
  AssetPct = 2
  KillPct = 7
  GateMayBlock = FALSE
  MaxEvents = 1
  MaxCrashes = 1
PROPERTIES FreshTripStaysPaused
CHECK_DEADLOCK FALSE
