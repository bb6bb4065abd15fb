SPECIFICATION Spec
CONSTANTS
  p1 = p1
  p2 = p2
  Procs <- Ticks
  Founders = 1
  Presets = 1
  Offspring = 2
  EliteCount = 1
  EvolveEvery = 2
  Survivors <- HalfSurvive
  Perfs <- Records
  NewPerf <- Fresh
  Pinned = {}
  MaxGen = 3
  MaxTrades = 1
  MaxCrashes = 2
INVARIANTS TypeOK OneOpenGeneration NoForgottenAgents FullTerm StallsOnlyAfterAccident
PROPERTIES Succession
CHECK_DEADLOCK FALSE
