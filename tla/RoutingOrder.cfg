SPECIFICATION Spec
CONSTANTS
  Domains = {"a", "b"}
  Under <- MCUnder
  Patterns = {"k"}
  Matched <- MCMatched
  Groups <- MCGroups
  GroupType <- MCGroupType
  GroupRules <- MCGroupRules
  Egresses = {e1, e2}
  None = None
  RuleIds = {1, 2, 3, 4}
  MaxItems = 3
INVARIANTS TypeOK BestClassWins PreviewTrue
PROPERTIES OthersKeepRoute
