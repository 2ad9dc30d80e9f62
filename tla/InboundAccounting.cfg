SPECIFICATION Spec
CONSTANTS
  Ids = {i1,i2}
  Ports = {q1,q2}
  None = None
  Admins = {a1,a2}
  Limits = {"bytes","date"}
  Quota = 1
  MaxBytes = 1
  MaxRequests = 2
  MaxFaults = 2
INVARIANTS TypeOK NeverOvercounted ServedOrOwed
PROPERTIES CutOff
