SPECIFICATION Spec
CONSTANTS
  Egresses = {e1}
  Pools = {q1}
  Policies = {11,12}
  Rules = {21,22,23}
  Inbounds = {i1,i2}
  Keys = {group,domain}
  Custom = {domain}
  All = All
  LegacyKey = group
  None = None
  Handlers = {h1}
  Kinds = {"egress","pool","policy","rule","binding","simple","inbound"}
  MaxSnapshot = 2
SYMMETRY Interchangeable
INVARIANTS TypeOK TargetsExist NoOrphanRows SimpleReachable
