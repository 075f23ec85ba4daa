SPECIFICATION FairSpec
CONSTANTS
  u1 = u1
  u2 = u2
  daemon = daemon
  cli = cli
  Users = {u1, u2}
  Addressed = {u1}
  Procs = {daemon, cli}
  Kinds <- ProcKinds
  Limit = 1
  Retries = 2
  Environments <- Envs
  Weekend = {}
  Wishes <- OffOrPaused
  LastDay = 2
  MaxRuns = 2
  MaxEvents = 1
INVARIANTS OneRunMails RecordIsTrue
PROPERTIES RecordMovesForward FanOutEnds
CHECK_DEADLOCK FALSE
