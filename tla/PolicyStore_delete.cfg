SPECIFICATION Spec
CONSTANTS
  Egresses = {e1,e2}
  Pools = {}
  Policies = {11,12}
  Rules = {21,22}
  Inbounds = {i1}
  Keys = {group,domain}
  Custom = {domain}
  All = All
  LegacyKey = group
  None = None
  Handlers = {h1,h2}
  Kinds = {"egress","simple"}
  MaxSnapshot = 2
SYMMETRY Interchangeable
INVARIANTS TargetsExist
