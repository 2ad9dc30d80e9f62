SPECIFICATION Spec
CONSTANTS
  Settings <- MCSettings
  Malformed <- MCMalformed
  Inbounds <- MCInbounds
  N5Rows <- MCN5Rows
  NoRows = NoRows
  Dangling <- MCDangling
  Rejected <- MCRejected
  Broken <- MCBroken
  Ticks = {t1, t2}
  Admins = {a1}
  Web = web
  Procs = {q1, q2}
  None = None
  SilentTables = {"settings"}
  FaultKinds = {"history", "start", "exit", "panel"}
  MaxFaults = 1
  MaxChanges = 2
SYMMETRY MCSymmetry
INVARIANT TypeOK
INVARIANT NoRequestLost
INVARIANT SuccessIsInstalled
INVARIANT FailureKeepsInstalled
INVARIANT NoOrphan
INVARIANT AppliedIsInstalled
INVARIANT OnlyTestedRuns
