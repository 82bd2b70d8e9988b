SPECIFICATION Spec
CONSTANTS
  Names = {"PARAMI"}
  Keys = {k1, k2}
  Clients = {c1, c2}
  Values <- MCValues
  Stored <- MCStored
  NoRow = NoRow
  MaxWrites = 3
SYMMETRY MCSymmetry
INVARIANTS
  TypeOK
  SerialConsistency
  EventsTruthful
  SerialInv
