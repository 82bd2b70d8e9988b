-------------------------------- MODULE Filters --------------------------------
(***************************************************************************)
(* A filter of entities, {"type", "filters"} or {"fieldName", "type",      *)
(* "value(s)"}, and what the three places that evaluate it make of it: the *)
(* WHERE clause of the CRUD controllers, JsonEntityFilter in the memory of *)
(* the server, and JsonFilter in the client.                               *)
(***************************************************************************)
EXTENDS Integers, Sequences, FiniteSetsExt

CONSTANT Null  \* the value of a column that is NULL

(* A filter is a tree of JSON objects: f.objects[m] for each number m in its
   domain, of which f.top is the whole filter.  An object is a condition [field,
   type, values] with a set of numbers for values, or a group [type, filters],
   which has the numbers of its members.  A row is a function from fields to
   numbers or Null. *)
IsGroup(o)   == "filters" \in DOMAIN o
Members(o)   == {o.filters[i] : i \in DOMAIN o.filters}
Outermost(f) == f.objects[f.top]

TheValue(c) == CHOOSE x \in c.values : TRUE

(* JsonCpp orders null before every number. *)
Rank(v) == IF v = Null THEN -1 ELSE v

Compares(type, v, w) ==
  CASE type = "EQ" -> v = w  [] type = "NE" -> v # w
    [] type = "LT" -> v < w  [] type = "LE" -> v <= w
    [] type = "GT" -> v > w  [] type = "GE" -> v >= w
Comparisons == {"EQ", "NE", "LT", "LE", "GT", "GE"}

-----------------------------------------------------------------------------
(* A slip: no value of an empty list is excluded, but one has to be. *)
CheckFieldNotEmpty(c, row) ==
  CASE c.type \in Comparisons -> Compares(c.type, Rank(row[c.field]), TheValue(c))
    [] c.type = "IN"          -> row[c.field] \in c.values
    [] c.type = "NIN"         -> c.values # {} /\ row[c.field] \notin c.values
    [] OTHER                  -> FALSE

(* JsonEntityFilter::checkField; IS and NIS are no types it knows. *)
CheckField(c, row) ==
  CASE c.type \in Comparisons -> Compares(c.type, Rank(row[c.field]), TheValue(c))
    [] c.type = "IN"          -> row[c.field] \in c.values
    [] c.type = "NIN"         -> row[c.field] \notin c.values
    [] OTHER                  -> FALSE

(* JsonEntityFilter::checkFilterGroup, of an object whose members yield of[m]. *)
Accepts(o, row, of) ==
  IF ~IsGroup(o) THEN CheckField(o, row)
  ELSE IF o.type = "AND" THEN \A m \in Members(o) : of[m]
  ELSE o.type = "OR" /\ \E m \in Members(o) : of[m]

IsFiltered(f, row) ==
  LET accepts[m \in DOMAIN f.objects] == Accepts(f.objects[m], row, accepts)
  IN  accepts[f.top]

-----------------------------------------------------------------------------
(* SQL's three truth values, in their order. *)
False   == 0
Unknown == 1
True    == 2
Truth(b) == IF b THEN True ELSE False

(* A slip: IS and NIS are written as comparisons with NULL. *)
WhereComparedWithNull(c, row) ==
  LET v == row[c.field] IN
  IF c.type \in {"IS", "NIS"} \/ v = Null THEN Unknown
  ELSE Truth(CASE c.type = "IN"  -> v \in c.values
               [] c.type = "NIN" -> v \notin c.values
               [] OTHER          -> Compares(c.type, v, TheValue(c)))

(* The condition buildSelectWhereClause writes, as the database evaluates it.
   An empty list is written FALSE or TRUE. *)
WhereField(c, row) ==
  LET v == row[c.field] IN
  CASE c.type = "IS"  -> Truth(v = Null)
    [] c.type = "NIS" -> Truth(v # Null)
    [] c.type \in {"IN", "NIN"} /\ c.values = {} -> Truth(c.type = "NIN")
    [] OTHER -> IF v = Null THEN Unknown
                ELSE Truth(CASE c.type = "IN"  -> v \in c.values
                             [] c.type = "NIN" -> v \notin c.values
                             [] OTHER          -> Compares(c.type, v, TheValue(c)))

(* Groups are joined with AND or, for any other type, with OR; no group is empty,
   except the outermost one, for which no WHERE is written. *)
Evaluated(o, row, of) ==
  IF ~IsGroup(o) THEN WhereField(o, row)
  ELSE IF o.filters = <<>> THEN True
  ELSE LET values == {of[m] : m \in Members(o)}
       IN  IF o.type = "AND" THEN Min(values) ELSE Max(values)

Where(f, row) ==
  LET where[m \in DOMAIN f.objects] == Evaluated(f.objects[m], row, where)
  IN  where[f.top]

(* SimpleGateJsonEntityProvider::combineFilters: a group of the client's filter
   and the profile's, of which there may be none; and what comes of it. *)
CombineFilters(filters) == [type |-> "AND", filters |-> filters]

AcceptedByAll(filters, row) ==
  LET o == CombineFilters(filters)
  IN  Accepts(o, row, [f \in Members(o) |-> IsFiltered(f, row)])

Selects(filters, row) ==
  LET o == CombineFilters(filters)
  IN  Evaluated(o, row, [f \in Members(o) |-> Where(f, row)]) = True

-----------------------------------------------------------------------------
(* JsonFilter.checkField of the client, for rows that have all their fields;
   some comparisons throw.  IS and NIS ask the JSON library for the string of a
   null and are left aside. *)
Throws == 3

CheckFieldOfClient(c, row) ==
  LET v == row[c.field] IN
  CASE c.type \in {"EQ", "IN"}  -> Truth(v \in c.values)
    [] c.type \in {"NE", "NIN"} -> Truth(v \notin c.values)
    [] c.type \in {"LT", "LE", "GT", "GE"} ->
         IF v = Null THEN Throws ELSE Truth(Compares(c.type, v, TheValue(c)))
    [] OTHER -> Throws

(* A slip: the first member that can be evaluated decides. *)
DecidesAlways(type, value) == TRUE

(* Whether checkFilterGroup looks no further: the first TRUE of an OR, the first
   FALSE of an AND, and an exception. *)
Decides(type, value) == value \in {Throws, IF type = "OR" THEN True ELSE False}

(* JsonFilter.isFiltered as its callers see it, for whom what throws is FALSE.
   A group within a group throws: its list is asked for as an object. *)
IsFilteredByClient(f, row) ==
  LET o == Outermost(f)
      value(i) == LET member == f.objects[o.filters[i]]
                  IN  IF IsGroup(member) THEN Throws ELSE CheckFieldOfClient(member, row)
      deciding == {i \in DOMAIN o.filters : Decides(o.type, value(i))}
  IN  IF ~IsGroup(o) THEN CheckFieldOfClient(o, row) = True
      ELSE IF deciding = {} THEN o.type = "AND"
      ELSE value(Min(deciding)) = True

(* What the places differ on: the conditions of a filter. *)
Gathered(o, of) == IF IsGroup(o) THEN UNION {of[m] : m \in Members(o)} ELSE {o}

Conditions(f) ==
  LET conditionsOf[m \in DOMAIN f.objects] == Gathered(f.objects[m], conditionsOf)
  IN  conditionsOf[f.top]

ConditionsOfAll(filters) == UNION {Conditions(filters[i]) : i \in DOMAIN filters}

AsksForNull(cs) == \E c \in cs : c.type \in {"IS", "NIS"}
Lacks(row, cs)  == \E c \in cs : row[c.field] = Null
Nested(f)       == IsGroup(Outermost(f)) /\ \E m \in Members(Outermost(f)) : IsGroup(f.objects[m])
=============================================================================
