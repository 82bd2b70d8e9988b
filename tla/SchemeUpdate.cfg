SPECIFICATION FairSpec
CONSTANTS
  A = A
  B = B
  Columns = {A, B}
  Absent = Absent
  None = None
  Now = Now
  Values = {"x", "y"}
  Indexes = {"a_idx", "b_idx"}
  Uniques = {"a_ukey", "b_ukey"}
  Relations = {"a_fkey", "b_fkey"}
  KeyColumns <- MCKeyColumns
  Upgrades <- MCUpgrades
  ServerStorage = "InnoDB"
  NoTable = NoTable
  MaxFaults = 3
INVARIANTS
  TypeOK
  ColumnsAsRecorded
  KeysAsRecorded
PROPERTIES
  Converges
  ImplementsTableUpdates
