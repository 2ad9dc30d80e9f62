SPECIFICATION Spec
CONSTANTS
  Admins = {1}
  Job = job
  None = None
  MaxLines = 3
  MaxRequests = 2
  MaxFaults = 1
INVARIANTS TypeOK NothingSkipped CountedOnce LogSwitchFollowed
PROPERTIES CatchesUp
