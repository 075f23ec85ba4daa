SPECIFICATION FairSpec
CONSTANTS
  SPI = SPI
  NoBar = NoBar
  NoStop = NoStop
  Instruments = {SPI}
  Sides = {"LONG"}
  Prices = {3}
  StopPrices = {1}
  Bars <- TwoBars
  Atr = 2
  MaxPerDay = 2
  LastDay = 2
  Dates = {1}
  MaxOpens = 3
  MaxRows = 2
INVARIANTS UniqueIds StoredAlertsWereTold
PROPERTIES ClosedOutcomesFrozen HitIsReported
