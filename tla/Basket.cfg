SPECIFICATION Spec
CONSTANTS
  updown = updown
  product = product
  tick1 = tick1
  Agents = {1}
  Procs <- OneTick
  Binaries <- TheBinary
  Spots <- TheSpot
  Sides <- SellsYes
  EntryAt <- EnterAt
  ExitAt <- LeaveAt
  Unit = 4
  Start = 30
  Stake = 12
  FeeBps = 1000
  LiveCap = 9
  DryRun = FALSE
  MaxEntries = 2
  MaxEvents = 1
  MaxCrashes = 1
INVARIANTS TypeOK BooksMatchLog CashAccounted MaxLossIsStake FillOnItsPosition
CHECK_DEADLOCK FALSE
PROPERTIES PaidOut
