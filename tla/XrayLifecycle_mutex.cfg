SPECIFICATION FairSpec
CONSTANTS
  Settings <- MCSettings
  Malformed <- MCMalformed
  Inbounds = {"i1"}
  N5Rows <- MCN5Rows
  NoRows = NoRows
  Dangling = {}
  Rejected = {}
  Broken <- MCLiveBroken
  Ticks = {t1}
  Admins = {a1}
  Web = web
  Procs = {q1, q2}
  None = None
  SilentTables = {"settings", "switch"}
  FaultKinds = {"db", "test", "start"}
  MaxFaults = 1
  MaxChanges = 1
PROPERTY EveryAttemptReturns
PROPERTY HistorySettles
PROPERTY Reconciles
