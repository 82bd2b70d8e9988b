SPECIFICATION SpecAlone
CONSTANTS
  Names = {"PARAMI"}
  Keys = {k1}
  Clients = {c1}
  Values <- MCFewValues
  Stored <- MCFewStored
  NoRow = NoRow
  MaxWrites = 2
INVARIANT
  AnsweredWritesVisible
