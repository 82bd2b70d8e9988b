SPECIFICATION Spec
CONSTANTS
  Names = {"PARAMI"}
  Keys = {k1}
  Clients = {}
  Values <- MCFewValues
  Stored <- MCFewStored
  NoRow = NoRow
  MaxWrites = 1
INVARIANT
  NoDuplicateKeys
