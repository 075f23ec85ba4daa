SPECIFICATION BacktestSpec
CONSTANTS
  NoPosition = NoPosition
  NoStop = NoStop
  NoAtr = NoAtr
  NoCap = NoCap
  Same = Same
  Snapshots <- AllSnapshots
  OperatorPrices = {}
  OperatorCounts = {}
  Stops = {4}
  Settings <- SomeSettings
  Multiplier = 1
  HalfCost = 3
  InitialAccount = 1000
  MaxBars = 4
  MaxTrades = 2
  MaxContracts = 9
  AdxGate = 15
  MomThreshold = 2
  VotesRequired = 2
  DirectionMode = "both"
  NaN = NaN
  Over = Over
  Reading <- Indicators
INVARIANTS LevelsAreEarned BacktestAgrees
PROPERTY EntriesWithinBudget
