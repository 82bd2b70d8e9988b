SPECIFICATION Spec
CONSTANTS
  Names = {"PARAMI", "PARAMB"}
  Cached = {"PARAMB"}
  Keys = {k1}
  Values <- MCValues
  Stored <- MCStored
  NoRow = NoRow
  Blank = Blank
  Selected <- MCSelected
  Announced <- MCAnnounced
  Null = Null
  Users = {u1, u2}
  Repositories = {u2}
  Writers = {w1, w2}
  None = None
  MaxChanges = 2
INVARIANTS
  TypeOK
  
  ReadsWhole
  NoneWaitsInVain
SYMMETRY MCSymmetry
