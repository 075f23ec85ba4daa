SPECIFICATION Spec
CONSTANTS
  web = web
  page = page
  rates = rates
  sport = sport
  DefaultMarkets = {"SPI200"}
  AddedMarkets = {"GOLD"}
  InitialAccount = 100
  MaxWarnings = 2
  Editors = {web}
  Readers = {page}
  Headlines = {rates, sport}
  MaxHashes = 1
  OldDocuments <- Files
  MaxSaves = 2
  LastDay = 2
INVARIANTS  ReadersFindTheirKeys MigrationsMayRepeat UpgradeLeavesACopy LoadsUnlessNull HiddenToday
CHECK_DEADLOCK FALSE
