SPECIFICATION FairSpec
CONSTANTS
  Names = {"PARAMI", "PARAMB"}
  Keys = {k1}
  Clients = {c1, c2}
  Values <- MCFewValues
  Stored <- MCFewStored
  NoRow = NoRow
  MaxWrites = 2
PROPERTY
  Converges
