----------------------------- MODULE ParsedFilters -----------------------------
(***************************************************************************)
(* The filters that the client makes of strings, and the rows they select  *)
(* in the database, in the memory of the server and in the client.         *)
(***************************************************************************)
EXTENDS FilterParser, Filters

CONSTANTS
  Fields, Numbers, \* what the conditions are about
  ProfileFilters   \* lists of read filters of profiles

Rows == [Fields -> Numbers \cup {Null}]

(* A comparison is with one value. *)
IsCondition(c) ==
  /\ c \in [field : Fields, type : Comparisons \cup {"IN", "NIN", "IS", "NIS"}, values : SUBSET Numbers]
  /\ c.type \in Comparisons => \E v \in Numbers : c.values = {v}

(* A filter without empty groups; rank says that its objects are a tree. *)
IsFilter(f) ==
  LET size == Cardinality(DOMAIN f.objects) IN
  /\ IsFiniteSet(DOMAIN f.objects) /\ f.top \in DOMAIN f.objects
  /\ \A m \in DOMAIN f.objects :
       LET o == f.objects[m] IN
       IF IsGroup(o)
       THEN /\ DOMAIN o = {"type", "filters"} /\ o.type \in {"AND", "OR"}
            /\ o.filters # <<>> /\ o.filters \in Seq(DOMAIN f.objects)
       ELSE IsCondition(o)
  /\ \E rank \in [DOMAIN f.objects -> 1..size] :
       \A m \in DOMAIN f.objects : IsGroup(f.objects[m]) =>
         \A n \in Members(f.objects[m]) : rank[n] < rank[m]

ASSUME FiltersAssumption ==
  /\ Null \notin Numbers /\ Numbers \subseteq Nat
  /\ \A l \in ConditionLists : \A i \in DOMAIN l : IsCondition(l[i])
  /\ \A p \in ProfileFilters : p \in Seq(Range(p)) /\ \A i \in DOMAIN p : IsFilter(p[i])

(* The JSON of the parser: condition m of the string, or group -m. *)
ParsedFilter ==
  [top     |-> result,
   objects |-> [m \in DOMAIN conditions \cup {-k : k \in DOMAIN groups} |->
                  IF m > 0 THEN conditions[m] ELSE groups[-m]]]

(* A row the database selects for a READ passes the filter of events, too,
   unless the filter asks for null; and what passes is selected, unless the row
   has a null the filter looks at.  The client's own check agrees with the
   server's, unless a group is within a group, the row has such a null, or the
   filter asks for null. *)
FilteredAlike ==
  outcome = "parsed" =>
    \A p \in ProfileFilters : \A row \in Rows :
      LET own == ParsedFilter
          all == <<own>> \o p
          cs  == ConditionsOfAll(all)
          asked == Conditions(own)
      IN  /\ Selects(all, row) /\ ~AsksForNull(cs) => AcceptedByAll(all, row)
          /\ AcceptedByAll(all, row) /\ ~Lacks(row, cs) => Selects(all, row)
          /\ IsFilteredByClient(own, row) /\ ~AsksForNull(asked) => IsFiltered(own, row)
          /\ IsFiltered(own, row) /\ ~Lacks(row, asked) /\ ~Nested(own) /\ ~AsksForNull(asked) =>
               IsFilteredByClient(own, row)

(* The values of which a condition other than IS and NIS is true. *)
Satisfying(c) ==
  CASE c.type \in {"EQ", "IN"}  -> c.values
    [] c.type \in {"NE", "NIN"} -> Numbers \ c.values
    [] c.type = "LT" -> {v \in Numbers : \A w \in c.values : v < w}
    [] c.type = "LE" -> {v \in Numbers : \A w \in c.values : v <= w}
    [] c.type = "GT" -> {v \in Numbers : \A w \in c.values : v > w}
    [] c.type = "GE" -> {v \in Numbers : \A w \in c.values : v >= w}

(* Whether a condition is true of a row.  Of a null nothing is, but IS and the
   NIN that excludes no value. *)
IsTrue(c, row) ==
  LET v == row[c.field] IN
  CASE c.type = "IS"  -> v = Null
    [] c.type = "NIS" -> v # Null
    [] OTHER -> IF v = Null THEN c.type = "NIN" /\ c.values = {} ELSE v \in Satisfying(c)

(* A READ selects the rows of which the string is true, with its AND before OR
   and its parentheses.  The filter of events lets pass those, too, unless the
   string asks for null, and no others, unless the row has a null the string
   looks at. *)
FilteredAsWritten ==
  outcome = "parsed" /\ ~tangled =>
    \A row \in Rows :
      LET own     == ParsedFilter
          asked   == Conditions(own)
          true    == {i \in DOMAIN conditions : IsTrue(conditions[i], row)}
          written == true \in Meaning(levels[1])
      IN  /\ Where(own, row) = True <=> written
          /\ written /\ ~AsksForNull(asked) => IsFiltered(own, row)
          /\ IsFiltered(own, row) /\ ~Lacks(row, asked) => written
=============================================================================
