SPECIFICATION Spec
CONSTANTS
  Null = Null
  Fields = {"A", "B"}
  Numbers = {1, 2}
  ConditionLists <- MCConditionLists
  ProfileFilters <- MCProfileFilters
  MaxDepth = 2
INVARIANTS
  ParserTypeOK
  ParsedAsWritten
  FilteredAlike
  FilteredAsWritten
CHECK_DEADLOCK FALSE
