---------------------------- MODULE MCClientCache ----------------------------
(* Instances of ClientCache for TLC: the profile's filter is NE 2, and the rows
   differ in the one column it looks at; an object without it is stored with the
   column's default, 1. *)
EXTENDS ClientCache, Filters, TLC

MCFilters == <<[top |-> 1, objects |-> <<[field |-> "A", type |-> "NE", values |-> {2}]>>]>>
MCRow(v) == [A |-> IF v = "one" THEN 1 ELSE IF v = "two" THEN 2 ELSE Null]

MCValues    == {"none", "one", "two"}
MCStored    == [v \in MCValues |-> IF v = "none" THEN "one" ELSE v]
MCSelected  == {"one"}
MCAnnounced == {"none", "one", Blank}

ASSUME MCFiltered ==
  /\ MCSelected = {v \in MCValues : Selects(MCFilters, MCRow(v))}
  /\ MCAnnounced = {v \in MCValues \cup {Blank} : AcceptedByAll(MCFilters, MCRow(v))}

MCSymmetry == Permutations(Writers)
=============================================================================
