---------------------------- MODULE MCFilterParser ----------------------------
(* Instances of ParsedFilters for TLC. *)
EXTENDS ParsedFilters

C(field, type, values) == [field |-> field, type |-> type, values |-> values]

MCConditionLists == {
  <<C("A", "EQ", {1}), C("B", "NE", {1}), C("A", "LT", {2}), C("B", "NIN", {}), C("A", "GE", {2})>>,
  <<C("A", "IN", {}), C("B", "LE", {1}), C("B", "IN", {1, 2}), C("A", "GT", {1}), C("B", "NIN", {2})>>,
  <<C("A", "NIS", {}), C("B", "IS", {}), C("A", "EQ", {2})>>}

MCProfileFilters == {
  <<>>,
  <<[top |-> 1, objects |-> <<C("A", "NE", {2})>>]>>,
  <<[top |-> 1, objects |->
       <<[type |-> "OR", filters |-> <<2, 3>>], C("A", "EQ", {1}), C("B", "GT", {1})>>]>>}
=============================================================================
