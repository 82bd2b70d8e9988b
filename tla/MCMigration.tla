---------------------------- MODULE MCMigration ----------------------------
(* Instances of Migration for TLC: TABLESVERSIONS; ACCESSRULES, which has a column
   of an enum type since its second version and is in frozen/373/; INTERVALS,
   which refers to ACCESSRULES. *)
EXTENDS MigrationRefinement

CONSTANTS NAME, KIND   \* the two columns, model values

MCEnumOf == [t \in Tables |-> IF t = "ACCESSRULES" THEN "KIND_TYPE" ELSE "none"]
MCRefs   == [t \in Tables |-> IF t = "INTERVALS" THEN {"ACCESSRULES"} ELSE {}]
MCLatest == [t \in Tables |-> IF t = "TABLESVERSIONS" THEN 1 ELSE IF t = "ACCESSRULES" THEN 2 ELSE 3]
MCFrozen == [t \in Tables |-> IF t = "ACCESSRULES" THEN 1 ELSE 0]

(* ACCESSRULES: the second version changes NAME and adds KIND, which is nullable
   when it is created and not when it is added.  INTERVALS: the third version
   changes a default the updater does not bring, of a column that was a text
   before and cannot be altered from that; the second adds a column that has to
   have a value. *)
MCStructure ==
  [t \in Tables |->
    IF t = "TABLESVERSIONS" THEN <<[c \in Columns |-> IF c = NAME THEN "text" ELSE "absent"]>>
    ELSE IF t = "ACCESSRULES" THEN
      <<[c \in Columns |-> IF c = NAME THEN "off" ELSE "absent"],
        [c \in Columns |-> IF c = NAME THEN "text" ELSE "unset"]>>
    ELSE <<[c \in Columns |-> IF c = NAME THEN "text" ELSE "absent"],
           [c \in Columns |-> IF c = NAME THEN "off" ELSE "not null"],
           [c \in Columns |-> IF c = NAME THEN "on" ELSE "not null"]>>]

MCAltered(d, e) ==
  IF d = "absent" /\ e = "unset" THEN "not null" ELSE IF d = "off" /\ e = "on" THEN "off" ELSE e

MCRefused(d, e) == (d = "text" /\ e = "on") \/ (d = "absent" /\ e = "not null")
=============================================================================
