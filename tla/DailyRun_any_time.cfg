SPECIFICATION Spec
CONSTANTS
  Admin = Admin
  NoPosition = NoPosition
  NoSignal = NoSignal
  SPI = SPI
  Markets = {SPI}
  FirstMarkets = {}
  Users = {Admin}
  Modes = {"loop", "once", "test"}
  MaxPositions = 2
  MaxCloses = 1
  MaxRuns = 2
  LastDay = 2
INVARIANTS AccountMatchesLog NoZombies WebTradesAreBooked EveryMarketHasASignal
