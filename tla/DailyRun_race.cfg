SPECIFICATION Spec
CONSTANTS
  Admin = Admin
  NoPosition = NoPosition
  NoSignal = NoSignal
  SPI = SPI
  Markets = {SPI}
  FirstMarkets = {SPI}
  Users = {Admin}
  Modes = {"loop", "test"}
  MaxPositions = 2
  MaxCloses = 1
  MaxRuns = 2
  LastDay = 1
INVARIANT LostUpdateRaceClosed
