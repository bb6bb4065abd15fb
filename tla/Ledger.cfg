SPECIFICATION Spec
CONSTANTS
  Bindings <- AllBindings
  Allocated = 10
  PriceScale = 10
  NoTokenOf <- Binary
  ExitPrices = {3, 7}
  AgentPnls = {0, 5}
  MaxTradeUsd = 5
  MaxDay = 2
  MaxFills = 5
INVARIANTS TypeOK DeployedIsCostBasis CashConserved DayCountersMatchBookDay PctOvershootBounded
PROPERTIES SpendBrake
CHECK_DEADLOCK FALSE
