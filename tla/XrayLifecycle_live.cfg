SPECIFICATION FairSpec
CONSTANTS
  Settings = {"good"}
  Malformed = {}
  Inbounds = {"i1"}
  N5Rows <- MCN5Rows
  NoRows = NoRows
  Dangling = {}
  Rejected = {}
  Broken <- MCLiveBroken
  Ticks = {t1}
  Admins = {a1}
  Web = web
  Procs = {q1, q2}
  None = None
  SilentTables = {}
  FaultKinds = {"exit", "panel"}
  MaxFaults = 1
  MaxChanges = 2
PROPERTY Convergence
PROPERTY Reconciles
