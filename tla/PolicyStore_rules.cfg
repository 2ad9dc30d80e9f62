SPECIFICATION Spec
CONSTANTS
  Egresses = {e1,e2}
  Pools = {}
  Policies = {11,12}
  Rules = {21,22}
  Inbounds = {i1}
  Keys = {group,domain}
  Custom = {domain}
  All = All
  LegacyKey = group
  None = None
  Handlers = {h1,h2}
  Kinds = {"rule","template","simple","group"}
  MaxSnapshot = 2
SYMMETRY Interchangeable
CONSTRAINT Bounded
INVARIANTS SimpleConsistent
PROPERTIES SimpleUntouched SimpleIsAtomic
