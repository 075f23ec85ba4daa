SPECIFICATION Spec
CONSTANTS
  NoPosition = NoPosition
  NoStop = NoStop
  NoAtr = NoAtr
  NoCap = NoCap
  Same = Same
  Snapshots <- SomeSnapshots
  OperatorPrices = {5, 8}
  OperatorCounts = {1}
  Stops = {4}
  Settings <- SomeSettings
  Multiplier = 1
  HalfCost = 3
  InitialAccount = 400
  MaxBars = 3
  MaxTrades = 1
  MaxContracts = 3
INVARIANT DriftWarningsAreTrue
PROPERTY StopOnlyTightens
