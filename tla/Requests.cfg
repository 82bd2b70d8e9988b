SPECIFICATION RequestsSpec
CONSTANTS
  Names = {"a", "b"}
  Contents <- MCContents
  WithDefaults = {"a", "b"}
  Keyed = {"a"}
  Lenient = {"b"}
  None = None
  MaxFaults = 2
  MaxUpdates = 3
  Threads = {t1, t2}
  Connections = {c1, c2, c3}
  Required = {"a"}
  Limited = {"a"}
  Requests <- MCRequests
  MaxCalls = 3
  MaxAccidents = 1
INVARIANTS
  RequestsTypeOK
  PoolRestored
  StructuresTypeOK
  KnowledgeIsWhole
  OkMeansAll
  DefaultsOnce
  ParsedWithStructure
  ConnectionLeft
PROPERTIES
  KeysTold
  StoredAsAsked
  FailureChangesNothing
SYMMETRY MCSymmetry
CHECK_DEADLOCK FALSE
