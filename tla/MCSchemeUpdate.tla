--------------------------- MODULE MCSchemeUpdate ---------------------------
(* Instances of SchemeUpdate for TLC. *)
EXTENDS SchemeUpdate

CONSTANTS A, B  \* two columns

MCKeyColumns ==
  [k \in Keys |-> IF k \in {"a_idx", "a_ukey", "a_fkey"} THEN {A} ELSE {B}]

Plain(type, length, default, empty) ==
  [type |-> type, length |-> length, default |-> default, empty |-> empty]

Text(length, default, empty) == Plain("String", length, default, empty)

Of(a, b, indexes, uniques, relations, storage) ==
  [fields |-> [c \in Columns |-> IF c = A THEN a ELSE b],
   indexes |-> indexes, uniques |-> uniques, relations |-> relations, storage |-> storage]

Whole == Plain("Integer", None, "x", "no")
Short == Text(100, None, "no")
Long  == Text(20000, None, "no")

(* From each of these schemes to the other of its pair. *)
MCPairs == {
  \* nothing changes but the version: keys of unchanged columns, with a default
  \* and without
  <<Of(Whole, Short, {"a_idx"}, {"b_ukey"}, {"a_fkey"}, "unset"),
    Of(Whole, Short, {"a_idx", "b_idx"}, {"a_ukey", "b_ukey"}, {"a_fkey", "b_fkey"}, "unset")>>,
  \* an engine with foreign keys, one relation more
  <<Of(Whole, Short, {"b_idx"}, {}, {"a_fkey"}, "InnoDB"),
    Of(Whole, Text(100, "x", "no"), {"b_idx"}, {"b_ukey"}, {"a_fkey", "b_fkey"}, "InnoDB")>>,
  \* an index a foreign key needs
  <<Of(Whole, Short, {"a_idx"}, {}, {"a_fkey"}, "InnoDB"),
    Of(Whole, Absent, {"a_idx"}, {}, {"a_fkey"}, "MyISAM")>>,
  \* a change of type, of length, of default, of "can be empty"
  <<Of(Whole, Short, {"a_idx"}, {}, {}, "MyISAM"),
    Of(Plain("Boolean", None, "x", "unset"), Text(None, None, "no"), {"a_idx"}, {}, {}, "MyISAM")>>,
  <<Of(Plain("Double", None, "x", "unset"), Plain("Date", None, Now, "yes"), {}, {}, {}, "unset"),
    Of(Plain("Double", None, "y", "no"), Plain("Binary", 300, None, "unset"), {}, {}, {}, "unset")>>,
  \* columns that are added, one of them too wide beside the other
  <<Of(Long, Absent, {}, {}, {}, "unset"), Of(Long, Long, {"b_idx"}, {}, {}, "unset")>>,
  <<Of(Absent, Plain("Integer", 12, "x", "yes"), {}, {"b_ukey"}, {}, "unset"),
    Of(Plain("Enum", None, "x", "unset"), Text(30000, None, "yes"), {"a_idx"}, {"b_ukey"}, {}, "unset")>>,
  \* a text that becomes an enum, with a default and without
  <<Of(Text(100, "x", "yes"), Short, {}, {}, {}, "unset"),
    Of(Plain("Enum", None, "y", "yes"), Plain("Enum", None, None, "no"), {}, {}, {}, "unset")>>}

MCUpgrades == MCPairs \cup {<<p[2], p[1]>> : p \in MCPairs}
=============================================================================
