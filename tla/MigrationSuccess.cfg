SPECIFICATION Spec
CONSTANTS
  Tables = {"TABLESVERSIONS", "ACCESSRULES", "INTERVALS"}
  Versions = "TABLESVERSIONS"
  NAME = NAME
  KIND = KIND
  Columns = {NAME, KIND}
  EnumColumn = KIND
  Enums = {"KIND_TYPE"}
  EnumOf <- MCEnumOf
  NoEnum = "none"
  Definitions = {"text", "off", "on", "unset", "not null"}
  Absent = "absent"
  Altered <- MCAltered
  Refused <- MCRefused
  DbverRows = {TRUE}
  Refs <- MCRefs
  Latest <- MCLatest
  Frozen <- MCFrozen
  Structure <- MCStructure
  Defaults = {"ACCESSRULES", "INTERVALS"}
  NoTable = NoTable
  MaxFaults = 1
  MaxResets = 0
INVARIANT
  OkMeansMigrated
