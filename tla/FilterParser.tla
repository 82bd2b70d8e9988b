----------------------------- MODULE FilterParser -----------------------------
(***************************************************************************)
(* The constructor of JsonFilter that makes a filter of a string such as   *)
(* "A = 1 and (B < 2 or C in (1, 2))".  The string is scanned twice: first *)
(* for conditions, which wait in a queue, then for parentheses, and, or,   *)
(* and the places of the conditions.                                       *)
(*                                                                         *)
(* Groups are objects: "children", the stack of those under construction,  *)
(* and the lists of other groups refer to them.                            *)
(***************************************************************************)
EXTENDS Integers, SequencesExt

CONSTANTS
  ConditionLists, \* the conditions of a string, in their order
  MaxDepth        \* bound: parentheses within parentheses

ASSUME ParserAssumption ==
  /\ \A l \in ConditionLists : l \in Seq(Range(l))
  /\ MaxDepth \in Nat

VARIABLES
  conditions, \* those of the string
  read,       \* how many of them were scanned
  levels,     \* what is written so far, for each parenthesis that is open
  expected,   \* what the string goes on with: "operand" or "connective"
  groups,     \* the JSON objects made, by number
  children,   \* the stack of those under construction
  outcome,    \* "parsing", "parsed", "refused" (any exception)
  result,     \* the filter
  tangled     \* history: see Tangles and TanglesAtEnd

vars == <<conditions, read, levels, expected, groups, children, outcome, result, tangled>>

(* A member of a group: condition i as i, group k as -k. *)
Made    == [type |-> "none", filters |-> <<>>]
Current == Last(children)
Below   == children[Len(children) - 1]

(* What a string means: the sets of conditions that may hold when it does.
   AND binds more tightly than OR, as in SQL. *)
Cases   == SUBSET DOMAIN conditions
Holds(i) == {c \in Cases : i \in c}

(* Of an open parenthesis: the operands of OR but the last, together, the last
   one, the last connective, and whether there was an OR. *)
Level   == [before |-> {}, operand |-> {}, connective |-> "none", or |-> FALSE]
Meaning(l) == l.before \cup l.operand
WithOperand(l, m) ==
  IF l.connective = "AND" THEN [l EXCEPT !.operand = @ \cap m]
  ELSE [l EXCEPT !.before = Meaning(l), !.operand = m]

Outside == Len(levels) = 1
Inner   == Last(levels)
Outer   == levels[Len(levels) - 1]

Init ==
  /\ conditions \in ConditionLists /\ read = 0
  /\ levels = <<Level>> /\ expected = "operand"
  /\ groups = <<Made>> /\ children = <<1>>
  /\ outcome = "parsing" /\ result = 0 /\ tangled = FALSE

-----------------------------------------------------------------------------
Refuse == outcome' = "refused" /\ UNCHANGED <<groups, children>>

(* A member is put into group k, which needs a type to get a second one. *)
Put(k, m, rest) ==
  IF groups[k].filters # <<>> /\ groups[k].type = "none" THEN Refuse
  ELSE /\ groups' = [groups EXCEPT ![k].filters = Append(@, m)]
       /\ children' = rest /\ UNCHANGED outcome

(* "!", which stands for a condition. *)
Field ==
  /\ outcome = "parsing" /\ expected = "operand" /\ read < Len(conditions)
  /\ read' = read + 1 /\ expected' = "connective"
  /\ levels' = [levels EXCEPT ![Len(levels)] = WithOperand(@, Holds(read + 1))]
  /\ Put(Current, read + 1, children)
  /\ UNCHANGED <<conditions, result, tangled>>

(* "(" *)
Open ==
  /\ outcome = "parsing" /\ expected = "operand"
  /\ read < Len(conditions) /\ Len(levels) <= MaxDepth
  /\ levels' = Append(levels, Level)
  /\ groups' = Append(groups, Made) /\ children' = Append(children, Len(groups) + 1)
  /\ UNCHANGED <<conditions, read, expected, outcome, result, tangled>>

(* A parenthesis is closed after "... or ... and ...": the group on the stack
   is that of AND. *)
TanglesAtEnd == Inner.or /\ Inner.connective = "AND"

Unwrapped(k) == IF Len(groups[k].filters) = 1 THEN groups[k].filters[1] ELSE -k

(* ")" *)
Close ==
  /\ outcome = "parsing" /\ expected = "connective" /\ ~Outside
  /\ levels' = [Front(levels) EXCEPT ![Len(levels) - 1] = WithOperand(@, Meaning(Inner))]
  /\ tangled' = (tangled \/ TanglesAtEnd)
  /\ IF Len(children) = 1 \/ groups[Current].filters = <<>> THEN Refuse
     ELSE Put(Below, Unwrapped(Current), Front(children))
  /\ UNCHANGED <<conditions, read, expected, result>>

(* A slip: the last member is not removed from the OR. *)
WithGroupAdded(filters, new) == Append(filters, -new)

(* The group AND takes the last member of an OR with it. *)
WithGroup(filters, new) == Append(Front(filters), -new)

OpenAnd ==
  LET last == Last(groups[Current].filters)
      new  == Len(groups) + 1
  IN  /\ groups' = Append([groups EXCEPT ![Current].filters = WithGroup(@, new)],
                          [type |-> "AND", filters |-> <<last>>])
      /\ children' = Append(children, new) /\ UNCHANGED outcome

(* A slip: OR takes the whole group in any case. *)
NeverEnds(below) == FALSE

(* Whether OR ends the group on the stack. *)
EndsAnd(below) == below.type = "OR"

(* OR ends the group AND of an OR, or takes the whole group as its first
   member.  Whether it is the former is asked of the type of the group below,
   which throws if there is none yet. *)
OpenOr ==
  LET new == Len(groups) + 1 IN
  IF Len(children) > 1 /\ groups[Below].type = "none" THEN Refuse
  ELSE IF Len(children) > 1 /\ EndsAnd(groups[Below])
  THEN children' = Front(children) /\ UNCHANGED <<groups, outcome>>
  ELSE /\ groups' = Append(groups, [type |-> "OR", filters |-> <<-Current>>])
       /\ children' = Append(Front(children), new) /\ UNCHANGED outcome

(* An OR ends the AND a parenthesis begins with, and the parenthesis is not
   itself an operand of AND. *)
Tangles(t) ==
  /\ t = "OR" /\ Inner.connective = "AND" /\ ~Inner.or
  /\ ~Outside /\ Outer.connective # "AND"

(* "and", "or" *)
Connective(t) ==
  /\ outcome = "parsing" /\ expected = "connective" /\ read < Len(conditions)
  /\ expected' = "operand"
  /\ levels' = [levels EXCEPT ![Len(levels)].connective = t, ![Len(levels)].or = @ \/ t = "OR"]
  /\ tangled' = (tangled \/ Tangles(t))
  /\ LET g == groups[Current] IN
     CASE g.filters = <<>> -> Refuse
       [] Len(g.filters) = 1 ->
            /\ groups' = IF g.type = "none" THEN [groups EXCEPT ![Current].type = t] ELSE groups
            /\ UNCHANGED <<children, outcome>>
       [] Len(g.filters) > 1 /\ g.type = t -> UNCHANGED <<groups, children, outcome>>
       [] Len(g.filters) > 1 /\ g.type # t -> IF t = "AND" THEN OpenAnd ELSE OpenOr
  /\ UNCHANGED <<conditions, read, result>>

(* The string ends: the first group is the filter, or its only member. *)
End ==
  /\ outcome = "parsing" /\ expected = "connective" /\ Outside
  /\ LET g == groups[children[1]] IN
     IF g.type = "none" /\ g.filters = <<>> THEN outcome' = "refused" /\ UNCHANGED result
     ELSE /\ outcome' = "parsed"
          /\ result' = IF g.type = "none" THEN Unwrapped(children[1]) ELSE -children[1]
  /\ UNCHANGED <<conditions, read, levels, expected, groups, children, tangled>>

Next == Field \/ Open \/ Close \/ (\E t \in {"AND", "OR"} : Connective(t)) \/ End

Spec == Init /\ [][Next]_vars

-----------------------------------------------------------------------------
(* What the groups mean, given what other groups mean, and a member of one. *)
OfMember(m, meanings) == IF m > 0 THEN Holds(m) ELSE meanings[-m]
OfGroup(g, meanings) ==
  IF g.type = "AND" THEN {c \in Cases : \A m \in Range(g.filters) : c \in OfMember(m, meanings)}
  ELSE {c \in Cases : \E m \in Range(g.filters) : c \in OfMember(m, meanings)}

Meanings[k \in DOMAIN groups] == OfGroup(groups[k], Meanings)
MeaningOf(m) == OfMember(m, Meanings)

(* The type invariant: a member of a group is a condition that was scanned or
   another group, and no condition is in two groups of several members. *)
ParserTypeOK ==
  /\ outcome \in {"parsing", "parsed", "refused"} /\ expected \in {"operand", "connective"}
  /\ read \in 0..Len(conditions)
  /\ children \in Seq(1..Len(groups)) /\ children # <<>>
  /\ \A k \in DOMAIN groups :
       /\ groups[k].type \in {"none", "AND", "OR"}
       /\ Len(groups[k].filters) > 1 => groups[k].type # "none"
       /\ \A i \in DOMAIN groups[k].filters :
            groups[k].filters[i] \in 1..read \cup {-j : j \in DOMAIN groups \ {k}}
  /\ \A k, l \in DOMAIN groups : k # l /\ Len(groups[k].filters) > 1 /\ Len(groups[l].filters) > 1 =>
       Range(groups[k].filters) \cap Range(groups[l].filters) \cap Nat = {}

(* A filter means what the string says, with AND before OR.  The exceptions
   are strings with a parenthesis that mixes AND and OR in one of two ways:
   they are refused, or part of them is lost. *)
ParsedAsWritten ==
  outcome # "parsing" /\ ~tangled =>
    outcome = "parsed" /\ MeaningOf(result) = Meaning(levels[1])
=============================================================================
