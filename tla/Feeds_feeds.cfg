SPECIFICATION FairSpec
CONSTANTS
  daemon = daemon
  cli = cli
  rates = rates
  sport = sport
  Procs = {daemon, cli}
  Loops = {daemon}
  Retries = 2
  Setups <- AllSetups
  Headlines = {rates, sport}
  Critical = {rates}
  MaxItems = 1
  NewsRetries = 2
  LastDay = 2
  MaxAnswers = 2
  MaxRuns = 2
INVARIANTS RenewalIsUsed NoSilentFallback CacheIsTrue AskedOncePerRun
PROPERTIES GateFailsClosed LastGoodIsKept RunEnds
CHECK_DEADLOCK FALSE
