---------------------------- MODULE FilteredProofs ----------------------------
(***************************************************************************)
(* Proofs about ParsedFilters, for any fields, values, rows, strings and   *)
(* filters of profiles.                                                    *)
(*                                                                         *)
(* What evaluates a filter is a recursive function of its objects.  It is  *)
(* known to satisfy its equation once a solution is known to exist: a rank *)
(* on the objects, with the members of a group below it, lets one be found *)
(* rank by rank (Solvable, TreeSolvable), and induction over the objects   *)
(* shows that it is the only one (TreeInduction).                          *)
(*                                                                         *)
(* FilterAlike compares the database with the memory of the server,        *)
(* ClientAlike the latter with the client, for any filter without empty    *)
(* groups (WellMade).  ShapeInv is the inductive invariant that says that  *)
(* the filter of the parser is one: its objects, tangled or not, have such *)
(* a rank, although OR puts a group made earlier into one made later.      *)
(***************************************************************************)
EXTENDS ParsedFilters, FilterParserProofs, FiniteSetTheorems, WellFoundedInduction

-----------------------------------------------------------------------------
LEMMA Least ==
  ASSUME NEW T, T \subseteq Nat, T # {} PROVE \E x \in T : \A y \in T : x <= y
<1>1. PICK x \in T : \A y \in T : ~(<<y, x>> \in OpToRel(<, Nat))
  BY NatLessThanWellFounded, WFMin
<1>2. \A y \in T : ~(y < x)
  BY <1>1 DEF OpToRel
<1>3. QED
  BY <1>2

(* Recursion over objects that have a rank: step[<<m, e>>] is the value of m if
   e are those of the other objects, and looks only at those of lower rank.
   The values below a rank are found one rank after the other. *)
Steps(D, V)  == [D \X [D -> V] -> V]
IsRank(D, rank, top) == top \in Nat /\ rank \in [D -> 0..top]
HasSolution(D, V, step) == \E e \in [D -> V] : \A m \in D : e[m] = step[<<m, e>>]

LooksDown(D, rank, V, step) ==
  \A m \in D : \A e, e2 \in [D -> V] :
    (\A k \in D : rank[k] < rank[m] => e[k] = e2[k]) => step[<<m, e>>] = step[<<m, e2>>]

SolvedBelow(D, rank, step, e, n) == \A m \in D : rank[m] < n => e[m] = step[<<m, e>>]

LEMMA SolveNext ==
  ASSUME NEW D, NEW rank \in [D -> Nat], NEW V, NEW step \in [D \X [D -> V] -> V],
         LooksDown(D, rank, V, step), NEW n \in Nat, NEW e \in [D -> V], SolvedBelow(D, rank, step, e, n)
  PROVE  \E e2 \in [D -> V] : SolvedBelow(D, rank, step, e2, n + 1)
<1> DEFINE e2 == [m \in D |-> IF rank[m] = n THEN step[<<m, e>>] ELSE e[m]]
<1>1. e2 \in [D -> V]
  OBVIOUS
<1>2. ASSUME NEW m \in D, rank[m] < n + 1 PROVE e2[m] = step[<<m, e2>>]
  <2>1. \A k \in D : rank[k] < rank[m] => e[k] = e2[k]
    BY <1>2
  <2> HIDE DEF e2
  <2>2. step[<<m, e>>] = step[<<m, e2>>]
    BY <1>1, <2>1 DEF LooksDown
  <2>3. e2[m] = step[<<m, e>>]
    BY <1>2 DEF e2, SolvedBelow
  <2>4. QED
    BY <2>2, <2>3
<1>3. QED
  BY <1>1, <1>2 DEF SolvedBelow

LEMMA Solvable ==
  ASSUME NEW D, NEW top, NEW rank, IsRank(D, rank, top), NEW V, V # {},
         NEW step, step \in Steps(D, V), LooksDown(D, rank, V, step)
  PROVE  HasSolution(D, V, step)
<1> DEFINE Has(n) == \E e \in [D -> V] : SolvedBelow(D, rank, step, e, n)
           T == {n \in Nat : ~Has(n)}
<1>1. rank \in [D -> Nat] /\ top \in Nat /\ step \in [D \X [D -> V] -> V] /\ \A m \in D : rank[m] < top + 1
  BY DEF IsRank, Steps
<1>2. Has(0)
  <2>1. PICK v \in V : TRUE
    OBVIOUS
  <2>2. [m \in D |-> v] \in [D -> V] /\ \A m \in D : ~(rank[m] < 0)
    BY <1>1
  <2>3. QED
    BY <2>2 DEF SolvedBelow
<1>3. \A n \in Nat : Has(n) => Has(n + 1)
  BY <1>1, SolveNext
<1> HIDE DEF Has
<1>4. T = {}
  <2>1. SUFFICES ASSUME T # {} PROVE FALSE
    OBVIOUS
  <2>2. PICK x \in T : \A y \in T : x <= y
    BY <2>1, Least
  <2>3. x # 0 /\ x - 1 \in Nat /\ ~(x - 1 \in T)
    BY <1>2, <2>2
  <2>4. Has(x - 1) /\ x - 1 + 1 = x
    BY <2>2, <2>3
  <2>5. QED
    BY <1>3, <2>2, <2>3, <2>4
<1>5. PICK e \in [D -> V] : SolvedBelow(D, rank, step, e, top + 1)
  <2>1. Has(top + 1)
    BY <1>1, <1>4
  <2>2. QED
    BY <2>1 DEF Has
<1>6. QED
  BY <1>1, <1>5 DEF SolvedBelow, HasSolution

-----------------------------------------------------------------------------
(* Trees of objects. *)
IsTree(f) ==
  /\ f.top \in DOMAIN f.objects
  /\ \A m \in DOMAIN f.objects :
       IF IsGroup(f.objects[m]) THEN f.objects[m].filters \in Seq(DOMAIN f.objects)
       ELSE IsCondition(f.objects[m])
  /\ \E top \in Nat : \E rank \in [DOMAIN f.objects -> 0..top] :
       \A m \in DOMAIN f.objects : IsGroup(f.objects[m]) =>
         \A n \in Members(f.objects[m]) : rank[n] < rank[m]

LEMMA MembersOfTree ==
  ASSUME NEW f, IsTree(f), NEW m \in DOMAIN f.objects, IsGroup(f.objects[m])
  PROVE  /\ Members(f.objects[m]) \subseteq DOMAIN f.objects
         /\ f.objects[m].filters # <<>> <=> Members(f.objects[m]) # {}
<1> DEFINE s == f.objects[m].filters
<1>1. s \in Seq(DOMAIN f.objects)
  BY DEF IsTree
<1>2. DOMAIN s = 1..Len(s) /\ Len(s) \in Nat /\ \A i \in 1..Len(s) : s[i] \in DOMAIN f.objects
  BY <1>1, LenProperties, ElementOfSeq
<1>3. s # <<>> <=> 1 \in DOMAIN s
  BY <1>1, <1>2, EmptySeq
<1> HIDE DEF s
<1>4. (DOMAIN s # {}) <=> (1 \in DOMAIN s)
  BY <1>2
<1>5. Members(f.objects[m]) = {s[i] : i \in DOMAIN s}
  BY DEF Members, s
<1>6. QED
  BY <1>2, <1>3, <1>4, <1>5 DEF s

LEMMA ConditionIs ==
  ASSUME NEW c, IsCondition(c), NEW row \in Rows
  PROVE  /\ ~IsGroup(c) /\ c.field \in Fields /\ c.values \subseteq Numbers
         /\ c.type \in Comparisons \cup {"IN", "NIN", "IS", "NIS"}
         /\ row[c.field] \in Numbers \cup {Null}
         /\ c.type \in Comparisons => TheValue(c) \in Numbers /\ c.values = {TheValue(c)}
<1>1. DOMAIN c = {"field", "type", "values"}
  BY DEF IsCondition
<1>2. ~IsGroup(c)
  BY <1>1 DEF IsGroup
<1>3. c.type \in Comparisons => TheValue(c) \in Numbers /\ c.values = {TheValue(c)}
  BY DEF IsCondition, TheValue
<1>4. QED
  BY <1>2, <1>3 DEF IsCondition, Rows

LEMMA NumbersAre == Null \notin Numbers /\ \A x \in Numbers : x \in Nat
BY FiltersAssumption

LEMMA RankType ==
  ASSUME NEW v \in Numbers \cup {Null}
  PROVE  Rank(v) \in Int /\ (v = Null => Rank(v) = -1) /\ (v # Null => Rank(v) = v /\ v \in Nat)
BY NumbersAre DEF Rank

LEMMA ComparesType ==
  ASSUME NEW t \in Comparisons, NEW v \in Int, NEW w \in Int PROVE Compares(t, v, w) \in BOOLEAN
<1>1. /\ t = "EQ" => Compares(t, v, w) = (v = w)
      /\ t = "NE" => Compares(t, v, w) = (v # w)
      /\ t = "LT" => Compares(t, v, w) = (v < w)
      /\ t = "LE" => Compares(t, v, w) = (v <= w)
      /\ t = "GT" => Compares(t, v, w) = (v > w)
      /\ t = "GE" => Compares(t, v, w) = (v >= w)
  BY DEF Compares
<1>2. t \in {"EQ", "NE", "LT", "LE", "GT", "GE"}
  BY DEF Comparisons
<1>3. /\ (v = w) \in BOOLEAN /\ (v # w) \in BOOLEAN /\ (v < w) \in BOOLEAN
      /\ (v <= w) \in BOOLEAN /\ (v > w) \in BOOLEAN /\ (v >= w) \in BOOLEAN
  BY SMT
<1>4. QED
  BY ONLY <1>1, <1>2, <1>3, Zenon

LEMMA CheckFieldType ==
  ASSUME NEW c, IsCondition(c), NEW row \in Rows PROVE CheckField(c, row) \in BOOLEAN
<1>1. CASE c.type \in Comparisons
  <2>1. TheValue(c) \in Int /\ Rank(row[c.field]) \in Int
    BY <1>1, ConditionIs, RankType, NumbersAre
  <2>2. Compares(c.type, Rank(row[c.field]), TheValue(c)) \in BOOLEAN
    BY <1>1, <2>1, ComparesType
  <2>3. CheckField(c, row) = Compares(c.type, Rank(row[c.field]), TheValue(c))
    BY <1>1 DEF CheckField, Comparisons
  <2>4. QED
    BY <2>2, <2>3
<1>2. CASE c.type = "IN"
  <2>1. CheckField(c, row) = (row[c.field] \in c.values)
    BY <1>2 DEF CheckField, Comparisons
  <2>2. QED
    BY <2>1
<1>3. CASE c.type = "NIN"
  <2>1. CheckField(c, row) = (row[c.field] \notin c.values)
    BY <1>3 DEF CheckField, Comparisons
  <2>2. QED
    BY <2>1
<1>4. CASE c.type \notin Comparisons \cup {"IN", "NIN"}
  <2>1. CheckField(c, row) = FALSE
    BY <1>4 DEF CheckField
  <2>2. QED
    BY <2>1
<1>5. QED
  BY <1>1, <1>2, <1>3, <1>4

LEMMA WhereFieldType == ASSUME NEW c, NEW row PROVE WhereField(c, row) \in 0..2
BY DEF WhereField, Truth, True, False, Unknown

LEMMA TwoOf ==
  ASSUME NEW S \in SUBSET (0..2), S # {}
  PROVE  Min(S) \in 0..2 /\ Max(S) \in 0..2 /\ (Min(S) = 2 <=> \A x \in S : x = 2) /\ (Max(S) = 2 <=> 2 \in S)
<1>1. \E x \in S : \A y \in S : x <= y
  <2>1. S \subseteq Nat
    OBVIOUS
  <2>2. QED
    BY <2>1, Least
<1>2. Min(S) \in S /\ \A y \in S : Min(S) <= y
  BY <1>1 DEF Min
<1>3. \E x \in S : \A y \in S : x >= y
  <2>1. CASE 2 \in S
    BY <2>1
  <2>2. CASE 2 \notin S /\ 1 \in S
    BY <2>2
  <2>3. CASE 2 \notin S /\ 1 \notin S
    <3>1. PICK x : x \in S
      OBVIOUS
    <3>2. \A y \in S : y = 0
      BY <2>3
    <3>3. QED
      BY <3>1, <3>2
  <2>4. QED
    BY <2>1, <2>2, <2>3
<1>4. Max(S) \in S /\ \A y \in S : Max(S) >= y
  BY <1>3 DEF Max
<1>5. \A x \in S : x \in Int /\ 0 <= x /\ x <= 2
  OBVIOUS
<1>6. Min(S) = 2 <=> \A x \in S : x = 2
  <2> DEFINE m == Min(S)
  <2>1. m \in S /\ \A y \in S : m <= y
    BY <1>2
  <2> HIDE DEF m
  <2>2. m = 2 <=> \A x \in S : x = 2
    BY <1>5, <2>1
  <2>3. QED
    BY <2>2 DEF m
<1>7. Max(S) = 2 <=> 2 \in S
  <2> DEFINE m == Max(S)
  <2>1. m \in S /\ \A y \in S : m >= y
    BY <1>4
  <2> HIDE DEF m
  <2>2. m = 2 <=> 2 \in S
    BY <1>5, <2>1
  <2>3. QED
    BY <2>2 DEF m
<1>8. QED
  BY <1>2, <1>4, <1>5, <1>6, <1>7

-----------------------------------------------------------------------------
(* The recursive evaluations have solutions, of the types they should have. *)

LEMMA AcceptsType ==
  ASSUME NEW o, NEW row \in Rows, ~IsGroup(o) => IsCondition(o), NEW e
  PROVE  Accepts(o, row, e) \in BOOLEAN
<1>1. CASE ~IsGroup(o)
  <2>1. Accepts(o, row, e) = CheckField(o, row)
    BY <1>1 DEF Accepts
  <2>2. QED
    BY <1>1, <2>1, CheckFieldType
<1>2. CASE IsGroup(o) /\ o.type = "AND"
  <2>1. Accepts(o, row, e) = \A m \in Members(o) : e[m]
    BY <1>2 DEF Accepts
  <2>2. QED
    BY <2>1
<1>3. CASE IsGroup(o) /\ o.type # "AND"
  <2>1. Accepts(o, row, e) = (o.type = "OR" /\ \E m \in Members(o) : e[m])
    BY <1>3 DEF Accepts
  <2>2. QED
    BY <2>1
<1>4. QED
  BY <1>1, <1>2, <1>3

LEMMA AcceptsLooks ==
  ASSUME NEW o, NEW row, NEW e, NEW e2, IsGroup(o) => \A m \in Members(o) : e[m] = e2[m]
  PROVE  Accepts(o, row, e) = Accepts(o, row, e2)
<1>1. CASE ~IsGroup(o)
  BY <1>1 DEF Accepts
<1>2. CASE IsGroup(o)
  <2>1. (\A m \in Members(o) : e[m]) = (\A m \in Members(o) : e2[m])
    BY <1>2
  <2>2. (\E m \in Members(o) : e[m]) = (\E m \in Members(o) : e2[m])
    BY <1>2
  <2>3. QED
    BY <1>2, <2>1, <2>2 DEF Accepts
<1>3. QED
  BY <1>1, <1>2

LEMMA EvaluatedType ==
  ASSUME NEW o, NEW row, NEW e, IsGroup(o) /\ o.filters # <<>> => Members(o) # {} /\ \A m \in Members(o) : e[m] \in 0..2
  PROVE  Evaluated(o, row, e) \in 0..2
<1>1. CASE ~IsGroup(o)
  BY <1>1, WhereFieldType DEF Evaluated
<1>2. CASE IsGroup(o) /\ o.filters = <<>>
  BY <1>2 DEF Evaluated, True
<1>3. CASE IsGroup(o) /\ o.filters # <<>>
  <2> DEFINE values == {e[m] : m \in Members(o)}
  <2>1. values \in SUBSET (0..2) /\ values # {}
    BY <1>3
  <2>2. Evaluated(o, row, e) = IF o.type = "AND" THEN Min(values) ELSE Max(values)
    BY <1>3 DEF Evaluated
  <2> HIDE DEF values
  <2>3. Min(values) \in 0..2 /\ Max(values) \in 0..2
    BY <2>1, TwoOf
  <2>4. QED
    BY <2>2, <2>3
<1>4. QED
  BY <1>1, <1>2, <1>3

LEMMA EvaluatedLooks ==
  ASSUME NEW o, NEW row, NEW e, NEW e2, IsGroup(o) => \A m \in Members(o) : e[m] = e2[m]
  PROVE  Evaluated(o, row, e) = Evaluated(o, row, e2)
<1>1. CASE ~IsGroup(o)
  BY <1>1 DEF Evaluated
<1>2. CASE IsGroup(o)
  <2>1. {e[m] : m \in Members(o)} = {e2[m] : m \in Members(o)}
    BY <1>2
  <2>2. QED
    BY <1>2, <2>1 DEF Evaluated
<1>3. QED
  BY <1>1, <1>2

LEMMA GatheredLooks ==
  ASSUME NEW o, NEW e, NEW e2, IsGroup(o) => \A m \in Members(o) : e[m] = e2[m]
  PROVE  Gathered(o, e) = Gathered(o, e2)
<1>1. CASE ~IsGroup(o)
  BY <1>1 DEF Gathered
<1>2. CASE IsGroup(o)
  <2>1. {e[m] : m \in Members(o)} = {e2[m] : m \in Members(o)}
    BY <1>2
  <2>2. QED
    BY <1>2, <2>1 DEF Gathered
<1>3. QED
  BY <1>1, <1>2

(* A function of objects and values, given for each object, has a solution. *)
LooksAtMembers(f, V, step) ==
  \A m \in DOMAIN f.objects : \A e, e2 \in [DOMAIN f.objects -> V] :
    (IsGroup(f.objects[m]) => \A n \in Members(f.objects[m]) : e[n] = e2[n]) =>
      step[<<m, e>>] = step[<<m, e2>>]

LEMMA TreeSolvable ==
  ASSUME NEW f, IsTree(f), NEW V, V # {}, NEW step, step \in Steps(DOMAIN f.objects, V),
         LooksAtMembers(f, V, step)
  PROVE  HasSolution(DOMAIN f.objects, V, step)
<1> DEFINE D == DOMAIN f.objects
<1>top. PICK top \in Nat : \E rank \in [D -> 0..top] :
          \A m \in D : IsGroup(f.objects[m]) => \A n \in Members(f.objects[m]) : rank[n] < rank[m]
  BY DEF IsTree
<1>1. PICK rank \in [D -> 0..top] :
        \A m \in D : IsGroup(f.objects[m]) => \A n \in Members(f.objects[m]) : rank[n] < rank[m]
  BY <1>top
<1>2. \A m \in D : IsGroup(f.objects[m]) => Members(f.objects[m]) \subseteq D
  BY MembersOfTree
<1>3. LooksDown(D, rank, V, step)
  <2> SUFFICES ASSUME NEW m \in D, NEW e \in [D -> V], NEW e2 \in [D -> V],
                      \A k \in D : rank[k] < rank[m] => e[k] = e2[k]
               PROVE  step[<<m, e>>] = step[<<m, e2>>]
    BY DEF LooksDown
  <2>1. IsGroup(f.objects[m]) => \A n \in Members(f.objects[m]) : e[n] = e2[n]
    BY <1>1, <1>2
  <2>2. QED
    BY <2>1 DEF LooksAtMembers
<1> HIDE DEF D
<1>4. IsRank(D, rank, top)
  BY <1>top, <1>1 DEF IsRank
<1>5. QED
  BY <1>3, <1>4, Solvable DEF D

LEMMA AcceptsSolved ==
  ASSUME NEW f, IsTree(f), NEW row \in Rows
  PROVE  \E a \in [DOMAIN f.objects -> BOOLEAN] :
           /\ \A m \in DOMAIN f.objects : a[m] = Accepts(f.objects[m], row, a)
           /\ IsFiltered(f, row) = a[f.top]
<1> DEFINE D    == DOMAIN f.objects
           step == [x \in D \X [D -> BOOLEAN] |-> Accepts(f.objects[x[1]], row, x[2])]
<1>1. \A m \in D : ~IsGroup(f.objects[m]) => IsCondition(f.objects[m])
  BY DEF IsTree
<1>2. step \in Steps(D, BOOLEAN)
  BY <1>1, AcceptsType DEF Steps
<1>3. \A m \in D : \A e \in [D -> BOOLEAN] : step[<<m, e>>] = Accepts(f.objects[m], row, e)
  OBVIOUS
<1> HIDE DEF step
<1>4. LooksAtMembers(f, BOOLEAN, step)
  BY <1>3, AcceptsLooks DEF LooksAtMembers
<1>5. PICK e \in [D -> BOOLEAN] : \A m \in D : e[m] = step[<<m, e>>]
  <2>1. BOOLEAN # {}
    OBVIOUS
  <2>2. HasSolution(D, BOOLEAN, step)
    BY <1>2, <1>4, <2>1, TreeSolvable
  <2>3. QED
    BY <2>2 DEF HasSolution
<1>6. e = [m \in D |-> Accepts(f.objects[m], row, e)]
  BY <1>3, <1>5
<1> DEFINE accepts == CHOOSE accepts : accepts = [m \in DOMAIN f.objects |-> Accepts(f.objects[m], row, accepts)]
<1>7. accepts = [m \in D |-> Accepts(f.objects[m], row, accepts)]
  BY <1>6
<1>8. IsFiltered(f, row) = accepts[f.top]
  BY DEF IsFiltered
<1> HIDE DEF accepts
<1>9. accepts \in [D -> BOOLEAN] /\ \A m \in D : accepts[m] = Accepts(f.objects[m], row, accepts)
  <2>1. \A m \in D : Accepts(f.objects[m], row, accepts) \in BOOLEAN
    BY <1>1, AcceptsType
  <2>2. QED
    BY <1>7, <2>1
<1>10. QED
  BY <1>8, <1>9

(* Induction over the objects of a tree: a set that contains an object once it
   contains its members is that of all objects. *)
LEMMA TreeInduction ==
  ASSUME NEW f, IsTree(f), NEW S, S \subseteq DOMAIN f.objects,
         \A m \in DOMAIN f.objects : (IsGroup(f.objects[m]) => Members(f.objects[m]) \subseteq S) => m \in S
  PROVE  S = DOMAIN f.objects
<1> DEFINE D == DOMAIN f.objects
<1>top. PICK top \in Nat : \E rank \in [D -> 0..top] :
          \A m \in D : IsGroup(f.objects[m]) => \A n \in Members(f.objects[m]) : rank[n] < rank[m]
  BY DEF IsTree
<1>1. PICK rank \in [D -> 0..top] :
        \A m \in D : IsGroup(f.objects[m]) => \A n \in Members(f.objects[m]) : rank[n] < rank[m]
  BY <1>top
<1> DEFINE T == {rank[m] : m \in D \ S}
<1>2. SUFFICES ASSUME T # {} PROVE FALSE
  OBVIOUS
<1>3. T \subseteq Nat
  BY <1>top
<1> HIDE DEF T
<1>4. PICK x \in T : \A y \in T : x <= y
  BY <1>2, <1>3, Least
<1>5. PICK m \in D \ S : rank[m] = x
  BY <1>4 DEF T
<1>6. ASSUME IsGroup(f.objects[m]) PROVE Members(f.objects[m]) \subseteq S
  <2> SUFFICES ASSUME NEW n \in Members(f.objects[m]), n \notin S PROVE FALSE
    OBVIOUS
  <2>1. n \in D \ S
    BY <1>5, <1>6, MembersOfTree
  <2>2. rank[n] \in T /\ rank[n] < rank[m]
    BY <1>1, <1>5, <1>6, <2>1 DEF T
  <2>3. rank[n] \in Nat /\ rank[m] \in Nat /\ rank[m] <= rank[n]
    BY <1>3, <1>4, <1>5, <2>2
  <2>4. QED
    BY <2>2, <2>3
<1>7. QED
  BY <1>5, <1>6

LEMMA WhereSolved ==
  ASSUME NEW f, IsTree(f), NEW row
  PROVE  \E w \in [DOMAIN f.objects -> 0..2] :
           /\ \A m \in DOMAIN f.objects : w[m] = Evaluated(f.objects[m], row, w)
           /\ Where(f, row) = w[f.top]
<1> DEFINE D    == DOMAIN f.objects
           step == [x \in D \X [D -> 0..2] |-> Evaluated(f.objects[x[1]], row, x[2])]
<1>1. ASSUME NEW m \in D, NEW e \in [D -> 0..2] PROVE Evaluated(f.objects[m], row, e) \in 0..2
  <2>1. CASE IsGroup(f.objects[m])
    <3>1. Members(f.objects[m]) \subseteq D
      BY <2>1, MembersOfTree
    <3>2. f.objects[m].filters # <<>> => Members(f.objects[m]) # {}
      BY <2>1, MembersOfTree
    <3>3. QED
      BY <3>1, <3>2, EvaluatedType
  <2>2. CASE ~IsGroup(f.objects[m])
    BY <2>2, EvaluatedType
  <2>3. QED
    BY <2>1, <2>2
<1>2. step \in Steps(D, 0..2)
  BY <1>1 DEF Steps
<1>3. \A m \in D : \A e \in [D -> 0..2] : step[<<m, e>>] = Evaluated(f.objects[m], row, e)
  OBVIOUS
<1> HIDE DEF step
<1>4. LooksAtMembers(f, 0..2, step)
  BY <1>3, EvaluatedLooks DEF LooksAtMembers
<1>5. PICK e \in [D -> 0..2] : \A m \in D : e[m] = step[<<m, e>>]
  <2>1. 0..2 # {}
    OBVIOUS
  <2>2. HasSolution(D, 0..2, step)
    BY <1>2, <1>4, <2>1, TreeSolvable
  <2>3. QED
    BY <2>2 DEF HasSolution
<1>6. e = [m \in D |-> Evaluated(f.objects[m], row, e)]
  BY <1>3, <1>5
<1> DEFINE where == CHOOSE where : where = [m \in DOMAIN f.objects |-> Evaluated(f.objects[m], row, where)]
<1>8. where = [m \in D |-> Evaluated(f.objects[m], row, where)]
  BY <1>6
<1>9. Where(f, row) = where[f.top]
  BY DEF Where
<1> HIDE DEF where
<1>10. where = e
  <2> DEFINE Same == {m \in D : where[m] = e[m]}
  <2>1. ASSUME NEW m \in D, IsGroup(f.objects[m]) => Members(f.objects[m]) \subseteq Same PROVE m \in Same
    <3>1. Evaluated(f.objects[m], row, where) = Evaluated(f.objects[m], row, e)
      BY <2>1, EvaluatedLooks
    <3>2. QED
      BY <1>6, <1>8, <3>1
  <2>2. Same = D
    <3>1. Same \subseteq D
      OBVIOUS
    <3> HIDE DEF Same
    <3>2. QED
      BY <2>1, <3>1, TreeInduction
  <2>3. QED
    BY <1>6, <1>8, <2>2
<1>11. QED
  BY <1>3, <1>5, <1>9, <1>10

Leaves(f) == {f.objects[m] : m \in {n \in DOMAIN f.objects : ~IsGroup(f.objects[n])}}

LEMMA ConditionsSolved ==
  ASSUME NEW f, IsTree(f)
  PROVE  \E c \in [DOMAIN f.objects -> SUBSET Leaves(f)] :
           /\ \A m \in DOMAIN f.objects : c[m] = Gathered(f.objects[m], c)
           /\ Conditions(f) = c[f.top]
<1> DEFINE D    == DOMAIN f.objects
           V    == SUBSET Leaves(f)
           step == [x \in D \X [D -> V] |-> Gathered(f.objects[x[1]], x[2])]
<1>1. ASSUME NEW m \in D, NEW e \in [D -> V] PROVE Gathered(f.objects[m], e) \in V
  <2>1. CASE IsGroup(f.objects[m])
    <3>1. \A n \in Members(f.objects[m]) : e[n] \subseteq Leaves(f)
      BY <2>1, MembersOfTree
    <3>2. QED
      BY <2>1, <3>1 DEF Gathered
  <2>2. CASE ~IsGroup(f.objects[m])
    BY <2>2 DEF Gathered, Leaves
  <2>3. QED
    BY <2>1, <2>2
<1>2. step \in Steps(D, V)
  BY <1>1 DEF Steps
<1>3. \A m \in D : \A e \in [D -> V] : step[<<m, e>>] = Gathered(f.objects[m], e)
  OBVIOUS
<1> HIDE DEF step, V
<1>4. LooksAtMembers(f, V, step)
  BY <1>3, GatheredLooks DEF LooksAtMembers
<1>5. PICK e \in [D -> V] : \A m \in D : e[m] = step[<<m, e>>]
  <2>1. V # {}
    BY DEF V
  <2>2. HasSolution(D, V, step)
    BY <1>2, <1>4, <2>1, TreeSolvable
  <2>3. QED
    BY <2>2 DEF HasSolution
<1>6. e = [m \in D |-> Gathered(f.objects[m], e)]
  BY <1>3, <1>5
<1> DEFINE conditionsOf == CHOOSE conditionsOf : conditionsOf = [m \in DOMAIN f.objects |-> Gathered(f.objects[m], conditionsOf)]
<1>8. conditionsOf = [m \in D |-> Gathered(f.objects[m], conditionsOf)]
  BY <1>6
<1>9. Conditions(f) = conditionsOf[f.top]
  BY DEF Conditions
<1> HIDE DEF conditionsOf
<1>10. conditionsOf = e
  <2> DEFINE Same == {m \in D : conditionsOf[m] = e[m]}
  <2>1. ASSUME NEW m \in D, IsGroup(f.objects[m]) => Members(f.objects[m]) \subseteq Same PROVE m \in Same
    <3>1. Gathered(f.objects[m], conditionsOf) = Gathered(f.objects[m], e)
      BY <2>1, GatheredLooks
    <3>2. QED
      BY <1>6, <1>8, <3>1
  <2>2. Same = D
    <3>1. Same \subseteq D
      OBVIOUS
    <3> HIDE DEF Same
    <3>2. QED
      BY <2>1, <3>1, TreeInduction
  <2>3. QED
    BY <1>6, <1>8, <2>2
<1>11. QED
  BY <1>3, <1>5, <1>9, <1>10 DEF V

-----------------------------------------------------------------------------
(* The database and the memory of the server, of one object: what w and a say
   of a row, if c are the conditions. *)
Alike(w, a, c, row) ==
  /\ w = True /\ ~AsksForNull(c) => a
  /\ a /\ ~Lacks(row, c) => w = True

(* A condition and a row that has a value for it. *)
LEMMA OfValue ==
  ASSUME NEW c, IsCondition(c), NEW row \in Rows, row[c.field] # Null, c.type \notin {"IS", "NIS"}
  PROVE  (WhereField(c, row) = True) = CheckField(c, row)
<1> DEFINE v == row[c.field]
<1>1. v # Null /\ v \in Nat /\ Rank(v) = v /\ c.values \subseteq Numbers
  BY ConditionIs, RankType
<1>2. CASE c.type \in Comparisons
  <2>1. CheckField(c, row) = Compares(c.type, v, TheValue(c))
    BY <1>1, <1>2 DEF CheckField, Comparisons
  <2>2. WhereField(c, row) = Truth(Compares(c.type, v, TheValue(c)))
    BY <1>1, <1>2 DEF WhereField, Comparisons
  <2>3. Compares(c.type, v, TheValue(c)) \in BOOLEAN
    <3>1. TheValue(c) \in Int
      <4>1. TheValue(c) \in Numbers
        BY <1>2, ConditionIs
      <4>2. TheValue(c) \in Nat
        BY ONLY <4>1, NumbersAre
      <4>3. QED
        BY ONLY <4>2
    <3>2. QED
      BY <1>1, <1>2, <3>1, ComparesType
  <2>4. QED
    BY <2>1, <2>2, <2>3 DEF Truth, True, False
<1>3. CASE c.type = "IN"
  <2>1. CheckField(c, row) = (v \in c.values)
    BY <1>3 DEF CheckField, Comparisons
  <2>2. WhereField(c, row) = IF c.values = {} THEN Truth(FALSE) ELSE Truth(v \in c.values)
    BY <1>1, <1>3 DEF WhereField
  <2>3. QED
    BY <2>1, <2>2 DEF Truth, True, False
<1>4. CASE c.type = "NIN"
  <2>1. CheckField(c, row) = (v \notin c.values)
    BY <1>4 DEF CheckField, Comparisons
  <2>2. WhereField(c, row) = IF c.values = {} THEN Truth(TRUE) ELSE Truth(v \notin c.values)
    BY <1>1, <1>4 DEF WhereField
  <2>3. QED
    BY <2>1, <2>2 DEF Truth, True, False
<1>5. QED
  BY <1>2, <1>3, <1>4, ConditionIs

(* A condition and a row with NULL: it is true in SQL only if it excludes no
   value at all. *)
LEMMA OfNull ==
  ASSUME NEW c, IsCondition(c), NEW row \in Rows, row[c.field] = Null, c.type \notin {"IS", "NIS"},
         WhereField(c, row) = True
  PROVE  c.type = "NIN" /\ CheckField(c, row)
<1>1. CASE c.type \in {"IN", "NIN"} /\ c.values = {}
  <2>1. WhereField(c, row) = Truth(c.type = "NIN")
    BY <1>1 DEF WhereField
  <2>2. c.type = "NIN"
    BY <2>1 DEF Truth, True, False
  <2>3. CheckField(c, row) = (row[c.field] \notin c.values)
    BY <2>2 DEF CheckField, Comparisons
  <2>4. QED
    BY <1>1, <2>2, <2>3
<1>2. CASE ~(c.type \in {"IN", "NIN"} /\ c.values = {})
  <2>1. WhereField(c, row) = Unknown
    BY <1>2 DEF WhereField
  <2>2. QED
    BY <2>1 DEF Unknown, True
<1>3. QED
  BY <1>1, <1>2

LEMMA ConditionAlike ==
  ASSUME NEW c, IsCondition(c), NEW row \in Rows
  PROVE  Alike(WhereField(c, row), CheckField(c, row), {c}, row)
<1>1. CheckField(c, row) \in BOOLEAN
  BY CheckFieldType
<1>2. (AsksForNull({c}) <=> c.type \in {"IS", "NIS"}) /\ (Lacks(row, {c}) <=> row[c.field] = Null)
  BY DEF AsksForNull, Lacks
<1>3. CASE c.type \in {"IS", "NIS"}
  <2>1. CheckField(c, row) = FALSE
    BY <1>3 DEF CheckField, Comparisons
  <2>2. QED
    BY <1>2, <1>3, <2>1 DEF Alike
<1>4. CASE c.type \notin {"IS", "NIS"} /\ row[c.field] # Null
  <2>1. (WhereField(c, row) = True) = CheckField(c, row)
    BY <1>4, OfValue
  <2>2. QED
    BY <1>1, <2>1 DEF Alike
<1>5. CASE c.type \notin {"IS", "NIS"} /\ row[c.field] = Null
  <2>1. WhereField(c, row) = True => CheckField(c, row)
    BY <1>5, OfNull
  <2>2. QED
    BY <1>1, <1>2, <1>5, <2>1 DEF Alike
<1>6. QED
  BY <1>3, <1>4, <1>5

(* A group whose members are alike. *)
LEMMA GroupAlike ==
  ASSUME NEW o, IsGroup(o), o.type \in {"AND", "OR"}, o.filters # <<>>, Members(o) # {},
         NEW w, NEW a, NEW c, NEW row,
         \A m \in Members(o) : w[m] \in 0..2 /\ a[m] \in BOOLEAN /\ Alike(w[m], a[m], c[m], row)
  PROVE  Alike(Evaluated(o, row, w), Accepts(o, row, a), Gathered(o, c), row)
<1> DEFINE values == {w[m] : m \in Members(o)}
           all    == Gathered(o, c)
<1>1. values \in SUBSET (0..2) /\ values # {}
  OBVIOUS
<1>2. Evaluated(o, row, w) = IF o.type = "AND" THEN Min(values) ELSE Max(values)
  BY DEF Evaluated
<1>3. all = UNION {c[m] : m \in Members(o)}
  BY DEF Gathered
<1>4. \A m \in Members(o) : c[m] \subseteq all
  BY <1>3
<1> HIDE DEF all
<1>5. /\ ~AsksForNull(all) => \A m \in Members(o) : ~AsksForNull(c[m])
      /\ ~Lacks(row, all) => \A m \in Members(o) : ~Lacks(row, c[m])
  BY <1>4 DEF AsksForNull, Lacks
<1>6. /\ Min(values) = 2 <=> \A m \in Members(o) : w[m] = 2
      /\ Max(values) = 2 <=> \E m \in Members(o) : w[m] = 2
  <2> HIDE DEF values
  <2>1. (Min(values) = 2 <=> \A x \in values : x = 2) /\ (Max(values) = 2 <=> 2 \in values)
    BY <1>1, TwoOf
  <2>2. QED
    BY <2>1 DEF values
<1> HIDE DEF values
<1>7. CASE o.type = "AND"
  <2>1. Accepts(o, row, a) = \A m \in Members(o) : a[m]
    BY <1>7 DEF Accepts
  <2>2. Evaluated(o, row, w) = True <=> \A m \in Members(o) : w[m] = True
    BY <1>2, <1>6, <1>7 DEF True
  <2>3. QED
    BY <1>5, <2>1, <2>2 DEF Alike, all
<1>8. CASE o.type = "OR"
  <2>1. Accepts(o, row, a) = \E m \in Members(o) : a[m]
    BY <1>8 DEF Accepts
  <2>2. Evaluated(o, row, w) = True <=> \E m \in Members(o) : w[m] = True
    BY <1>2, <1>6, <1>8 DEF True
  <2>3. QED
    BY <1>5, <2>1, <2>2 DEF Alike, all
<1>9. QED
  BY <1>7, <1>8

(* A filter without empty groups. *)
IsProper(o) == IsCondition(o) \/ (IsGroup(o) /\ o.type \in {"AND", "OR"} /\ o.filters # <<>>)

WellMade(f) ==
  /\ IsTree(f) /\ IsProper(Outermost(f))
  /\ \A m \in DOMAIN f.objects : IsGroup(f.objects[m]) =>
       \A n \in Members(f.objects[m]) : IsProper(f.objects[n])

LEMMA FilterAlike ==
  ASSUME NEW f, WellMade(f), NEW row \in Rows
  PROVE  /\ Where(f, row) \in 0..2 /\ IsFiltered(f, row) \in BOOLEAN
         /\ Alike(Where(f, row), IsFiltered(f, row), Conditions(f), row)
<1> DEFINE D == DOMAIN f.objects
<1>1. IsTree(f) /\ f.top \in D
  BY DEF WellMade, IsTree
<1>2. PICK w \in [D -> 0..2] : /\ \A m \in D : w[m] = Evaluated(f.objects[m], row, w)
                               /\ Where(f, row) = w[f.top]
  BY <1>1, WhereSolved
<1>3. PICK a \in [D -> BOOLEAN] : /\ \A m \in D : a[m] = Accepts(f.objects[m], row, a)
                                  /\ IsFiltered(f, row) = a[f.top]
  BY <1>1, AcceptsSolved
<1>4. PICK c \in [D -> SUBSET Leaves(f)] : /\ \A m \in D : c[m] = Gathered(f.objects[m], c)
                                           /\ Conditions(f) = c[f.top]
  BY <1>1, ConditionsSolved
<1> DEFINE S == {m \in D : IsProper(f.objects[m]) => Alike(w[m], a[m], c[m], row)}
<1>5. ASSUME NEW m \in D, IsGroup(f.objects[m]) => Members(f.objects[m]) \subseteq S PROVE m \in S
  <2> SUFFICES ASSUME IsProper(f.objects[m]) PROVE Alike(w[m], a[m], c[m], row)
    OBVIOUS
  <2>1. /\ w[m] = Evaluated(f.objects[m], row, w) /\ a[m] = Accepts(f.objects[m], row, a)
        /\ c[m] = Gathered(f.objects[m], c)
    BY <1>2, <1>3, <1>4
  <2>2. CASE ~IsGroup(f.objects[m])
    <3>1. IsCondition(f.objects[m])
      BY <2>2 DEF IsProper
    <3>2. /\ w[m] = WhereField(f.objects[m], row) /\ a[m] = CheckField(f.objects[m], row)
          /\ c[m] = {f.objects[m]}
      BY <2>1, <2>2 DEF Evaluated, Accepts, Gathered
    <3>3. QED
      BY <3>1, <3>2, ConditionAlike
  <2>3. CASE IsGroup(f.objects[m])
    <3>1. ~IsCondition(f.objects[m])
      BY <2>3, ConditionIs
    <3>2. f.objects[m].type \in {"AND", "OR"} /\ f.objects[m].filters # <<>>
      BY <3>1 DEF IsProper
    <3>3. Members(f.objects[m]) # {} /\ Members(f.objects[m]) \subseteq D
      BY <1>1, <2>3, <3>2, MembersOfTree
    <3>4. \A n \in Members(f.objects[m]) : IsProper(f.objects[n])
      BY <2>3 DEF WellMade
    <3>5. \A n \in Members(f.objects[m]) : w[n] \in 0..2 /\ a[n] \in BOOLEAN /\ Alike(w[n], a[n], c[n], row)
      BY <1>5, <2>3, <3>3, <3>4
    <3>6. QED
      BY <2>1, <2>3, <3>2, <3>3, <3>5, GroupAlike
  <2>4. QED
    BY <2>2, <2>3
<1>6. S = D
  <2>1. S \subseteq D
    OBVIOUS
  <2> HIDE DEF S
  <2>2. QED
    BY <1>1, <1>5, <2>1, TreeInduction
<1>7. IsProper(f.objects[f.top])
  BY DEF WellMade, Outermost
<1>8. Alike(w[f.top], a[f.top], c[f.top], row)
  BY <1>1, <1>6, <1>7
<1>9. w[f.top] \in 0..2 /\ a[f.top] \in BOOLEAN
  BY <1>1
<1>10. QED
  BY <1>2, <1>3, <1>4, <1>8, <1>9

(* The filters of the client and of a profile, combined. *)
LEMMA CombinedAlike ==
  ASSUME NEW T, NEW all \in Seq(T), all # <<>>, \A i \in DOMAIN all : WellMade(all[i]), NEW row \in Rows
  PROVE  /\ Selects(all, row) /\ ~AsksForNull(ConditionsOfAll(all)) => AcceptedByAll(all, row)
         /\ AcceptedByAll(all, row) /\ ~Lacks(row, ConditionsOfAll(all)) => Selects(all, row)
<1> DEFINE o == CombineFilters(all)
           w == [f \in Members(o) |-> Where(f, row)]
           a == [f \in Members(o) |-> IsFiltered(f, row)]
           c == [f \in Members(o) |-> Conditions(f)]
<1>1. IsGroup(o) /\ o.type = "AND" /\ o.filters = all
  BY DEF CombineFilters, IsGroup
<1>2. Members(o) = {all[i] : i \in DOMAIN all}
  BY <1>1 DEF Members
<1>3. Members(o) # {}
  <2>1. 1 \in DOMAIN all
    BY EmptySeq, LenProperties
  <2>2. QED
    BY <1>2, <2>1
<1>4. \A f \in Members(o) : WellMade(f)
  BY <1>2
<1>5. Gathered(o, c) = ConditionsOfAll(all)
  <2>1. Gathered(o, c) = UNION {Conditions(f) : f \in Members(o)}
    BY <1>1 DEF Gathered
  <2>2. QED
    BY <1>2, <2>1 DEF ConditionsOfAll
<1>6. (Selects(all, row) <=> Evaluated(o, row, w) = True) /\ (AcceptedByAll(all, row) <=> Accepts(o, row, a))
  BY DEF Selects, AcceptedByAll
<1> HIDE DEF o
<1>7. \A f \in Members(o) : w[f] \in 0..2 /\ a[f] \in BOOLEAN /\ Alike(w[f], a[f], c[f], row)
  BY <1>4, FilterAlike
<1> HIDE DEF w, a, c
<1>8. Alike(Evaluated(o, row, w), Accepts(o, row, a), Gathered(o, c), row)
  <2>1. o.type \in {"AND", "OR"} /\ o.filters # <<>>
    BY <1>1
  <2>2. QED
    BY <1>1, <1>3, <1>7, <2>1, GroupAlike
<1>9. QED
  BY <1>5, <1>6, <1>8 DEF Alike

-----------------------------------------------------------------------------
(* The client's own check. *)

LEMMA OfClient ==
  ASSUME NEW c, IsCondition(c), NEW row \in Rows, c.type \notin {"IS", "NIS"}
  PROVE  /\ CheckFieldOfClient(c, row) = True => CheckField(c, row)
         /\ row[c.field] # Null =>
              /\ CheckFieldOfClient(c, row) \in {False, True}
              /\ CheckField(c, row) => CheckFieldOfClient(c, row) = True
<1> DEFINE v == row[c.field]
           w == TheValue(c)
<1>1. v \in Numbers \cup {Null} /\ (v = Null => Rank(v) = -1) /\ (v # Null => Rank(v) = v)
  BY ConditionIs, RankType
<1>2. Null \notin Numbers /\ \A x \in Numbers : x \in Nat
  BY NumbersAre
<1>3. c.type \in Comparisons => w \in Nat /\ c.values = {w}
  <2>1. c.type \in Comparisons => w \in Numbers /\ c.values = {w}
    BY ConditionIs
  <2>2. QED
    BY ONLY <1>2, <2>1
<1>4. c.type \in Comparisons => CheckField(c, row) = Compares(c.type, Rank(v), w)
  BY DEF CheckField, Comparisons
<1>5. (c.type = "IN" => CheckField(c, row) = (v \in c.values)) /\ (c.type = "NIN" => CheckField(c, row) = (v \notin c.values))
  BY DEF CheckField, Comparisons
<1>t. /\ Truth(TRUE) = True /\ Truth(FALSE) = False /\ True # False /\ Throws # True
  BY DEF Truth, True, False, Throws
<1>6. CASE c.type = "EQ"
  <2>1. CheckFieldOfClient(c, row) = Truth(v \in c.values)
    BY <1>6 DEF CheckFieldOfClient
  <2>2. Compares("EQ", Rank(v), w) = (Rank(v) = w)
    BY DEF Compares
  <2>3. c.type \in Comparisons
    BY <1>6 DEF Comparisons
  <2>w. w \in Numbers
    BY <2>3, ConditionIs
  <2> HIDE DEF v, w
  <2>4. (v \in c.values) <=> (v = w)
    BY <1>3, <2>3
  <2>5. v = w => Rank(v) = w
    BY <1>1, <1>2, <2>w
  <2>6. v # Null /\ Rank(v) = w => v = w
    BY <1>1
  <2>7. CheckField(c, row) <=> Rank(v) = w
    BY <1>4, <1>6, <2>2, <2>3
  <2>8. QED
    BY <1>t, <2>1, <2>4, <2>5, <2>6, <2>7 DEF Truth, v
<1>7. CASE c.type = "NE"
  <2>1. CheckFieldOfClient(c, row) = Truth(v \notin c.values)
    BY <1>7 DEF CheckFieldOfClient
  <2>2. Compares("NE", Rank(v), w) = (Rank(v) # w)
    BY DEF Compares
  <2>3. c.type \in Comparisons
    BY <1>7 DEF Comparisons
  <2> HIDE DEF v, w
  <2>4. (v \notin c.values) <=> (v # w)
    BY <1>3, <2>3
  <2>5. v # w => Rank(v) # w
    BY <1>1, <1>3, <2>3
  <2>6. v # Null /\ Rank(v) # w => v # w
    BY <1>1
  <2>7. CheckField(c, row) <=> Rank(v) # w
    BY <1>4, <1>7, <2>2, <2>3
  <2>8. QED
    BY <1>t, <2>1, <2>4, <2>5, <2>6, <2>7 DEF Truth, v
<1>8. CASE c.type \in {"LT", "LE", "GT", "GE"}
  <2>1. CheckFieldOfClient(c, row) = IF v = Null THEN Throws ELSE Truth(Compares(c.type, v, w))
    BY <1>8 DEF CheckFieldOfClient
  <2>3. c.type \in Comparisons
    BY <1>8 DEF Comparisons
  <2> HIDE DEF v, w
  <2>4. v # Null => Compares(c.type, v, w) \in BOOLEAN /\ CheckField(c, row) = Compares(c.type, v, w)
    <3>1. v # Null => v \in Int /\ w \in Int
      BY <1>1, <1>2, <1>3, <2>3
    <3>2. v # Null => Compares(c.type, v, w) \in BOOLEAN
      BY <2>3, <3>1, ComparesType
    <3>3. QED
      BY <1>1, <1>4, <2>3, <3>2
  <2>5. QED
    BY <1>t, <2>1, <2>4 DEF Truth, v
<1>9. CASE c.type = "IN"
  <2>1. CheckFieldOfClient(c, row) = Truth(v \in c.values)
    BY <1>9 DEF CheckFieldOfClient
  <2>2. QED
    BY <1>5, <1>9, <1>t, <2>1 DEF Truth
<1>10. CASE c.type = "NIN"
  <2>1. CheckFieldOfClient(c, row) = Truth(v \notin c.values)
    BY <1>10 DEF CheckFieldOfClient
  <2>2. QED
    BY <1>5, <1>10, <1>t, <2>1 DEF Truth
<1>11. c.type \in {"EQ", "NE", "LT", "LE", "GT", "GE", "IN", "NIN"}
  BY ConditionIs DEF Comparisons
<1>12. QED
  BY <1>6, <1>7, <1>8, <1>9, <1>10, <1>11

ValueOf(f, row, i) ==
  LET member == f.objects[Outermost(f).filters[i]]
  IN  IF IsGroup(member) THEN Throws ELSE CheckFieldOfClient(member, row)
Deciding(f, row) == {i \in DOMAIN Outermost(f).filters : Decides(Outermost(f).type, ValueOf(f, row, i))}

LEMMA ClientIs ==
  ASSUME NEW f, NEW row
  PROVE  /\ ~IsGroup(Outermost(f)) => (IsFilteredByClient(f, row) <=> CheckFieldOfClient(Outermost(f), row) = True)
         /\ IsGroup(Outermost(f)) /\ Deciding(f, row) = {} =>
              (IsFilteredByClient(f, row) <=> Outermost(f).type = "AND")
         /\ IsGroup(Outermost(f)) /\ Deciding(f, row) # {} =>
              (IsFilteredByClient(f, row) <=> ValueOf(f, row, Min(Deciding(f, row))) = True)
BY DEF IsFilteredByClient, Deciding, ValueOf

LEMMA FirstOf == ASSUME NEW n \in Nat, NEW S, S \subseteq 1..n, S # {} PROVE Min(S) \in S
<1>1. \E x \in S : \A y \in S : x <= y
  <2>1. S \subseteq Nat
    OBVIOUS
  <2>2. QED
    BY <2>1, Least
<1>2. QED
  BY <1>1 DEF Min

(* A filter that is a condition. *)
LEMMA ClientOfCondition ==
  ASSUME NEW f, WellMade(f), NEW row \in Rows, ~IsGroup(Outermost(f)), ~AsksForNull(Conditions(f))
  PROVE  /\ IsFilteredByClient(f, row) => IsFiltered(f, row)
         /\ IsFiltered(f, row) /\ ~Lacks(row, Conditions(f)) => IsFilteredByClient(f, row)
<1> DEFINE o == Outermost(f)
<1>1. IsTree(f) /\ f.top \in DOMAIN f.objects /\ IsCondition(o)
  BY DEF WellMade, IsTree, IsProper
<1>2. IsFiltered(f, row) = CheckField(o, row)
  BY <1>1, AcceptsSolved DEF Accepts, Outermost
<1>3. Conditions(f) = {o}
  BY <1>1, ConditionsSolved DEF Gathered, Outermost
<1>4. IsFilteredByClient(f, row) <=> CheckFieldOfClient(o, row) = True
  BY ClientIs
<1> HIDE DEF o
<1>5. o.type \notin {"IS", "NIS"} /\ (~Lacks(row, Conditions(f)) => row[o.field] # Null)
  BY <1>3 DEF AsksForNull, Lacks
<1>6. QED
  BY <1>1, <1>2, <1>4, <1>5, OfClient

(* A filter that is a group. *)
LEMMA ClientOfGroup ==
  ASSUME NEW f, WellMade(f), NEW row \in Rows, IsGroup(Outermost(f)), ~AsksForNull(Conditions(f))
  PROVE  /\ IsFilteredByClient(f, row) => IsFiltered(f, row)
         /\ IsFiltered(f, row) /\ ~Lacks(row, Conditions(f)) /\ ~Nested(f) => IsFilteredByClient(f, row)
<1> DEFINE o == Outermost(f)
           D == DOMAIN f.objects
           n == Len(o.filters)
           value(i) == ValueOf(f, row, i)
           first == Min(Deciding(f, row))
<1>1. IsTree(f) /\ f.top \in D /\ o = f.objects[f.top]
  BY DEF WellMade, IsTree, Outermost
<1>2. o.type \in {"AND", "OR"}
  BY ConditionIs DEF WellMade, IsProper
<1>3. o.filters \in Seq(D)
  BY <1>1 DEF IsTree
<1>4. DOMAIN o.filters = 1..n /\ n \in Nat /\ \A i \in 1..n : o.filters[i] \in D
  BY <1>3, LenProperties, ElementOfSeq
<1>5. Members(o) = {o.filters[i] : i \in 1..n}
  BY <1>4 DEF Members
<1>6. PICK a \in [D -> BOOLEAN] : /\ \A m \in D : a[m] = Accepts(f.objects[m], row, a)
                                  /\ IsFiltered(f, row) = a[f.top]
  BY <1>1, AcceptsSolved
<1>7. PICK c \in [D -> SUBSET Leaves(f)] : /\ \A m \in D : c[m] = Gathered(f.objects[m], c)
                                           /\ Conditions(f) = c[f.top]
  BY <1>1, ConditionsSolved
<1>8. Conditions(f) = UNION {c[m] : m \in Members(o)}
  BY <1>1, <1>7 DEF Gathered
<1>9. /\ o.type = "AND" => (IsFiltered(f, row) <=> \A i \in 1..n : a[o.filters[i]])
      /\ o.type = "OR" => (IsFiltered(f, row) <=> \E i \in 1..n : a[o.filters[i]])
  <2>1. IsFiltered(f, row) = Accepts(o, row, a)
    BY <1>1, <1>6
  <2>2. o.type = "AND" => (Accepts(o, row, a) <=> \A m \in Members(o) : a[m])
    BY DEF Accepts
  <2>3. o.type = "OR" => (Accepts(o, row, a) <=> \E m \in Members(o) : a[m])
    BY DEF Accepts
  <2>4. QED
    BY <1>5, <2>1, <2>2, <2>3
<1> DEFINE Lacking == Lacks(row, Conditions(f))
<1>10. ASSUME NEW i \in 1..n
       PROVE  /\ value(i) = True => a[o.filters[i]]
              /\ ~Lacking /\ ~Nested(f) => value(i) \in {False, True} /\ (a[o.filters[i]] => value(i) = True)
  <2> DEFINE m == o.filters[i]
             b == f.objects[m]
  <2>1. m \in D /\ m \in Members(o)
    BY <1>4, <1>5
  <2>2. CASE IsGroup(b)
    <3>1. value(i) = Throws
      BY <2>2 DEF ValueOf
    <3>2. Nested(f)
      BY <2>1, <2>2 DEF Nested
    <3>3. QED
      BY <3>1, <3>2 DEF Throws, True
  <2>3. CASE ~IsGroup(b)
    <3>1. value(i) = CheckFieldOfClient(b, row)
      BY <2>3 DEF ValueOf
    <3>2. IsCondition(b)
      BY <1>1, <2>1, <2>3 DEF IsTree
    <3>3. a[m] = CheckField(b, row) /\ c[m] = {b}
      BY <1>6, <1>7, <2>1, <2>3 DEF Accepts, Gathered
    <3>4. b \in Conditions(f)
      BY <1>8, <2>1, <3>3
    <3> HIDE DEF b
    <3>5. b.type \notin {"IS", "NIS"} /\ (~Lacking => row[b.field] # Null)
      BY <3>4 DEF AsksForNull, Lacks
    <3>6. QED
      BY <3>1, <3>2, <3>3, <3>5, OfClient
  <2>4. QED
    BY <2>2, <2>3
<1>11. \A i \in 1..n : i \in Deciding(f, row) <=> value(i) = Throws \/ value(i) = IF o.type = "OR" THEN True ELSE False
  BY <1>4 DEF Deciding, Decides
<1>12. Deciding(f, row) \subseteq 1..n
  BY <1>4 DEF Deciding
<1>13. Deciding(f, row) # {} => first \in Deciding(f, row) /\ first \in 1..n
  BY <1>4, <1>12, FirstOf
<1>14. /\ Deciding(f, row) = {} => (IsFilteredByClient(f, row) <=> o.type = "AND")
       /\ Deciding(f, row) # {} => (IsFilteredByClient(f, row) <=> value(first) = True)
  BY ClientIs
<1>15. False # True /\ Throws # True /\ Throws # False
  BY DEF True, False, Throws
<1>v. \A i \in 1..n : value(i) \in {False, True, Throws}
  <2> SUFFICES ASSUME NEW i \in 1..n PROVE value(i) \in {False, True, Throws}
    OBVIOUS
  <2>1. CheckFieldOfClient(f.objects[o.filters[i]], row) \in {False, True, Throws}
    BY DEF CheckFieldOfClient, Truth
  <2>2. QED
    BY <2>1 DEF ValueOf
<1> HIDE DEF o, n, value, first, Lacking
<1>16. CASE o.type = "AND"
  <2>1. ASSUME IsFilteredByClient(f, row) PROVE IsFiltered(f, row)
    <3>1. Deciding(f, row) = {}
      BY <1>11, <1>13, <1>14, <1>15, <1>16, <2>1
    <3>2. \A i \in 1..n : value(i) = True
      BY <1>11, <1>16, <1>v, <3>1
    <3>3. QED
      BY <1>9, <1>10, <1>16, <3>2
  <2>2. ASSUME IsFiltered(f, row), ~Lacking, ~Nested(f) PROVE IsFilteredByClient(f, row)
    <3>1. \A i \in 1..n : value(i) = True
      BY <1>9, <1>10, <1>16, <2>2
    <3>2. Deciding(f, row) = {}
      BY <1>11, <1>12, <1>15, <1>16, <3>1
    <3>3. QED
      BY <1>14, <1>16, <3>2
  <2>3. QED
    BY <2>1, <2>2 DEF Lacking
<1>17. CASE o.type = "OR"
  <2>1. ASSUME IsFilteredByClient(f, row) PROVE IsFiltered(f, row)
    <3>1. Deciding(f, row) # {} /\ value(first) = True
      BY <1>14, <1>17, <2>1
    <3>2. QED
      BY <1>9, <1>10, <1>13, <1>17, <3>1
  <2>2. ASSUME IsFiltered(f, row), ~Lacking, ~Nested(f) PROVE IsFilteredByClient(f, row)
    <3>1. PICK i \in 1..n : value(i) = True
      BY <1>9, <1>10, <1>17, <2>2
    <3>2. Deciding(f, row) # {}
      BY <1>11, <1>17, <3>1
    <3>3. value(first) = True
      BY <1>10, <1>11, <1>13, <1>15, <1>17, <2>2, <3>2
    <3>4. QED
      BY <1>14, <3>2, <3>3
  <2>3. QED
    BY <2>1, <2>2 DEF Lacking
<1>18. QED
  BY <1>2, <1>16, <1>17

LEMMA ClientAlike ==
  ASSUME NEW f, WellMade(f), NEW row \in Rows
  PROVE  /\ IsFilteredByClient(f, row) /\ ~AsksForNull(Conditions(f)) => IsFiltered(f, row)
         /\ IsFiltered(f, row) /\ ~Lacks(row, Conditions(f)) /\ ~Nested(f) /\ ~AsksForNull(Conditions(f)) =>
              IsFilteredByClient(f, row)
BY ClientOfCondition, ClientOfGroup

-----------------------------------------------------------------------------
(* The objects of the parser are a tree, tangled or not: r ranks the groups so
   that members are below their group, and the stack goes down. *)
MembersLower(gs, r) ==
  \A k \in 1..Len(gs) : \A i \in 1..Len(gs[k].filters) :
    -gs[k].filters[i] \in 1..Len(gs) => r[-gs[k].filters[i]] < r[k]
StackFalls(ch, r) == \A i, j \in 1..Len(ch) : i < j => r[ch[j]] < r[ch[i]]
RankedBy(gs, ch, r) == MembersLower(gs, r) /\ StackFalls(ch, r)
Ranks(n, top) == [1..n -> 1..top]
HasRank(gs, ch) == \E top \in Nat : \E r \in Ranks(Len(gs), top) : RankedBy(gs, ch, r)

(* Groups with a type and members of groups are not empty. *)
Tidy(gs) ==
  \A k \in 1..Len(gs) :
    /\ gs[k].type # "none" => Len(gs[k].filters) # 0
    /\ \A i \in 1..Len(gs[k].filters) :
         -gs[k].filters[i] \in 1..Len(gs) => gs[-gs[k].filters[i]].type # "none"

(* The rank of a group that is added next to group k. *)
Raised(r, n, k, d) == [l \in 1..n + 1 |-> IF l = n + 1 THEN 2 * r[k] + d ELSE 2 * r[l]]

LEMMA RaisedOf ==
  ASSUME NEW n \in Nat, NEW top \in Nat, NEW r, r \in Ranks(n, top), NEW k \in 1..n, NEW d \in {-1, 1}
  PROVE  /\ 2 * top + 1 \in Nat /\ Raised(r, n, k, d) \in Ranks(n + 1, 2 * top + 1)
         /\ \A i, j \in 1..n : r[i] < r[j] => Raised(r, n, k, d)[i] < Raised(r, n, k, d)[j]
         /\ \A j \in 1..n : r[k] < r[j] => Raised(r, n, k, d)[n + 1] < Raised(r, n, k, d)[j]
         /\ \A j \in 1..n : r[j] < r[k] => Raised(r, n, k, d)[j] < Raised(r, n, k, d)[n + 1]
         /\ d = -1 => Raised(r, n, k, d)[n + 1] < Raised(r, n, k, d)[k]
         /\ d = 1 => Raised(r, n, k, d)[k] < Raised(r, n, k, d)[n + 1]
<1> DEFINE r2 == Raised(r, n, k, d)
<1>1. \A i \in 1..n : r[i] \in Nat /\ 1 <= r[i] /\ r[i] <= top
  BY DEF Ranks
<1>2. r2[n + 1] = 2 * r[k] + d /\ \A l \in 1..n : r2[l] = 2 * r[l]
  BY DEF Raised
<1>3. r2 \in [1..n + 1 -> 1..2 * top + 1]
  <2>1. \A l \in 1..n + 1 : r2[l] \in 1..2 * top + 1
    <3> SUFFICES ASSUME NEW l \in 1..n + 1 PROVE r2[l] \in 1..2 * top + 1
      OBVIOUS
    <3>1. CASE l = n + 1
      BY <1>1, <1>2, <3>1
    <3>2. CASE l \in 1..n
      BY <1>1, <1>2, <3>2
    <3>3. QED
      BY <3>1, <3>2
  <2>2. QED
    BY <2>1 DEF Raised
<1> HIDE DEF r2
<1>4. \A i, j \in 1..n : r[i] < r[j] => r2[i] < r2[j]
  BY <1>1, <1>2
<1>5. \A j \in 1..n : (r[k] < r[j] => r2[n + 1] < r2[j]) /\ (r[j] < r[k] => r2[j] < r2[n + 1])
  BY <1>1, <1>2
<1>6. (d = -1 => r2[n + 1] < r2[k]) /\ (d = 1 => r2[k] < r2[n + 1])
  BY <1>1, <1>2
<1>7. r2 \in Ranks(n + 1, 2 * top + 1)
  BY <1>3 DEF Ranks
<1>8. 2 * top + 1 \in Nat
  OBVIOUS
<1>9. QED
  BY ONLY <1>4, <1>5, <1>6, <1>7, <1>8 DEF r2

LEMMA InitRanks == ASSUME Init PROVE Tidy(groups) /\ HasRank(groups, children)
<1>1. groups = <<Made>> /\ Len(groups) = 1 /\ groups[1] = Made /\ children = <<1>> /\ Len(children) = 1
  BY DEF Init
<1>2. Len(Made.filters) = 0 /\ Made.type = "none"
  BY DEF Made
<1>3. Tidy(groups)
  BY <1>1, <1>2 DEF Tidy
<1> DEFINE r == [k \in 1..1 |-> 1]
<1>4. r \in Ranks(Len(groups), 1) /\ 1 \in Nat
  BY <1>1 DEF Ranks
<1> HIDE DEF r
<1>5. RankedBy(groups, children, r)
  BY <1>1, <1>2 DEF RankedBy, MembersLower, StackFalls
<1>6. QED
  BY <1>3, <1>4, <1>5 DEF HasRank

(* Member m is put into group k. *)
LEMMA PutRanks ==
  ASSUME NEW gs \in Seq(Group), NEW k \in 1..Len(gs), NEW m \in Int, NEW st, NEW r,
         RankedBy(gs, st, r), Tidy(gs), -m \in 1..Len(gs) => gs[-m].type # "none" /\ r[-m] < r[k]
  PROVE  /\ Len(PutInto(gs, k, m)) = Len(gs)
         /\ RankedBy(PutInto(gs, k, m), st, r) /\ Tidy(PutInto(gs, k, m))
<1> DEFINE gs2 == PutInto(gs, k, m)
           n   == Len(gs)
           f   == gs[k].filters
           g   == Grown(gs[k], m)
<1>1. g \in Group /\ gs2 = [gs EXCEPT ![k] = g]
  BY PutIs, GrownOf
<1>2. Len(gs2) = n /\ gs2[k] = g /\ \A l \in 1..n : l # k => gs2[l] = gs[l]
  BY <1>1, ChangeOf
<1>3. /\ g.type = gs[k].type /\ Len(f) \in Nat /\ Len(g.filters) = Len(f) + 1
      /\ g.filters[Len(f) + 1] = m /\ \A i \in 1..Len(f) : g.filters[i] = f[i]
  BY GrownOf
<1> HIDE DEF gs2, g
<1>4. \A l \in 1..n : gs2[l].type = gs[l].type
  BY <1>2, <1>3
<1>5. ASSUME NEW l \in 1..n, NEW i \in 1..Len(gs2[l].filters), -gs2[l].filters[i] \in 1..n
      PROVE  r[-gs2[l].filters[i]] < r[l] /\ gs[-gs2[l].filters[i]].type # "none"
  <2>1. CASE l # k
    <3>1. gs2[l] = gs[l]
      BY <1>2, <2>1
    <3>2. QED
      BY <1>5, <3>1 DEF RankedBy, MembersLower, StackFalls, Tidy
  <2>2. CASE l = k /\ i = Len(f) + 1
    <3>1. gs2[l].filters[i] = m
      BY <1>2, <1>3, <2>2
    <3>2. QED
      BY <1>5, <2>2, <3>1
  <2>3. CASE l = k /\ i # Len(f) + 1
    <3>1. i \in 1..Len(f) /\ gs2[l].filters[i] = f[i]
      BY <1>2, <1>3, <2>3
    <3>2. QED
      BY <1>5, <2>3, <3>1 DEF RankedBy, MembersLower, StackFalls, Tidy
  <2>4. QED
    BY <2>1, <2>2, <2>3
<1>6. ASSUME NEW l \in 1..n, gs2[l].type # "none" PROVE Len(gs2[l].filters) # 0
  <2>1. CASE l # k
    BY <1>2, <1>6, <2>1 DEF Tidy
  <2>2. CASE l = k
    BY <1>2, <1>3, <2>2
  <2>3. QED
    BY <2>1, <2>2
<1>7. Tidy(gs2)
  BY <1>2, <1>4, <1>5, <1>6 DEF Tidy
<1>8. RankedBy(gs2, st, r)
  BY <1>2, <1>5 DEF RankedBy, MembersLower, StackFalls
<1>9. QED
  BY <1>2, <1>7, <1>8 DEF gs2

LEMMA FieldRanks ==
  ASSUME TypeInv, Tidy(groups), HasRank(groups, children), Field
  PROVE  Tidy(groups') /\ HasRank(groups', children')
<1>1. CASE UNCHANGED <<groups, children>>
  BY <1>1
<1>2. CASE groups' = PutInto(groups, Current, read + 1) /\ children' = children
  <2>1. PICK top \in Nat : \E r \in Ranks(Len(groups), top) : RankedBy(groups, children, r)
    BY DEF HasRank
  <2>2. PICK r \in Ranks(Len(groups), top) : RankedBy(groups, children, r)
    BY <2>1
  <2>3. groups \in Seq(Group) /\ Current \in 1..Len(groups) /\ read + 1 \in Int /\ ~(-(read + 1) \in 1..Len(groups))
    BY Here
  <2>4. Len(groups') = Len(groups) /\ RankedBy(groups', children', r) /\ Tidy(groups')
    BY <1>2, <2>2, <2>3, PutRanks
  <2>5. QED
    BY <2>1, <2>2, <2>4 DEF HasRank
<1>3. QED
  BY <1>1, <1>2 DEF Field, Put, Refuse, PutInto

LEMMA CloseRanks ==
  ASSUME TypeInv, Tidy(groups), HasRank(groups, children), Close
  PROVE  Tidy(groups') /\ HasRank(groups', children')
<1>1. CASE UNCHANGED <<groups, children>>
  BY <1>1
<1>2. CASE /\ Len(children) # 1 /\ groups[Current].filters # <<>>
           /\ groups' = PutInto(groups, Below, Unwrapped(Current)) /\ children' = Front(children)
  <2> DEFINE m == Unwrapped(Current)
             p == Len(children)
             n == Len(groups)
             c == Current
             b == Below
  <2>1. PICK top \in Nat : \E r \in Ranks(Len(groups), top) : RankedBy(groups, children, r)
    BY DEF HasRank
  <2>2. PICK r \in Ranks(Len(groups), top) : RankedBy(groups, children, r)
    BY <2>1
  <2>3. /\ groups \in Seq(Group) /\ n \in Nat /\ c \in 1..n /\ c = children[p] /\ p \in Nat \ {0}
        /\ GroupsRight(groups, read) /\ ChildrenRight(children, n)
    BY Here DEF TypeInv
  <2>4. /\ b = children[p - 1] /\ b \in 1..n /\ p - 1 \in 1..p /\ m \in Int
        /\ Len(groups[c].filters) \in Nat \ {0}
        /\ Len(groups[c].filters) = 1 => m = groups[c].filters[1]
        /\ Len(groups[c].filters) # 1 => m = -c
    BY <1>2, UnwrappedIs
  <2>5. /\ Len(Front(children)) = p - 1 /\ \A i \in 1..p - 1 : Front(children)[i] = children[i]
    BY <2>3, Popped
  <2> HIDE DEF m, p, n, c, b
  <2>6. r[c] < r[b]
    <3>1. p \in 1..p /\ p - 1 < p
      BY <2>3
    <3>2. QED
      BY <2>2, <2>3, <2>4, <3>1 DEF RankedBy, MembersLower, StackFalls, p
  <2>7. \A l \in 1..n : r[l] \in Nat
    BY <2>1, <2>2 DEF Ranks, n
  <2>8. ASSUME -m \in 1..n PROVE groups[-m].type # "none" /\ r[-m] < r[b]
    <3>1. CASE Len(groups[c].filters) = 1
      <4>1. m = groups[c].filters[1] /\ 1 \in 1..Len(groups[c].filters)
        BY <2>4, <3>1
      <4>2. groups[-m].type # "none" /\ r[-m] < r[c]
        <5>1. groups[-m].type # "none"
          BY <2>3, <2>8, <4>1 DEF Tidy, n
        <5>2. MembersLower(groups, r)
          BY <2>2 DEF RankedBy
        <5>3. r[-m] < r[c]
          BY ONLY <2>3, <2>8, <4>1, <5>2, SMTT(30) DEF MembersLower, n
        <5>4. QED
          BY <5>1, <5>3
      <4>3. r[-m] \in Nat /\ r[c] \in Nat /\ r[b] \in Nat
        BY <2>3, <2>4, <2>7, <2>8
      <4>4. QED
        BY ONLY <2>6, <4>2, <4>3
    <3>2. CASE Len(groups[c].filters) # 1
      <4>1. -m = c
        BY <2>3, <2>4, <3>2
      <4>2. Len(groups[c].filters) > 1
        <5>1. \A x \in Nat \ {0} : x # 1 => x > 1
          OBVIOUS
        <5>2. Len(groups[c].filters) \in Nat \ {0}
          BY <2>4
        <5>3. QED
          BY ONLY <3>2, <5>1, <5>2
      <4>3. groups[c].type # "none"
        BY <2>3, <4>2 DEF GroupsRight, n
      <4>4. QED
        BY <2>6, <4>1, <4>3
    <3>3. QED
      BY <3>1, <3>2
  <2>9. RankedBy(groups, Front(children), r)
    <3>1. \A i, j \in 1..p - 1 : i \in 1..p /\ j \in 1..p
      BY <2>3
    <3>2. \A i, j \in 1..p : i < j => r[children[j]] < r[children[i]]
      BY <2>2 DEF RankedBy, MembersLower, StackFalls, p
    <3>3. \A i, j \in 1..p - 1 : i < j => r[Front(children)[j]] < r[Front(children)[i]]
      BY <2>5, <3>1, <3>2
    <3>4. QED
      BY <2>2, <2>5, <3>3 DEF RankedBy, MembersLower, StackFalls
  <2>10. groups' = PutInto(groups, b, m) /\ children' = Front(children)
    BY <1>2 DEF b, m
  <2>11. Len(groups') = n /\ RankedBy(groups', children', r) /\ Tidy(groups')
    BY <2>3, <2>4, <2>8, <2>9, <2>10, PutRanks DEF n
  <2>12. QED
    BY <2>1, <2>2, <2>11 DEF HasRank, n
<1>3. QED
  BY <1>1, <1>2 DEF Close, Put, Refuse, PutInto

(* A group is added; it has no members, or group k. *)
LEMMA AppendRanks ==
  ASSUME NEW n \in Nat, NEW x \in Nat, NEW gs, GroupsRight(gs, x), Len(gs) = n, NEW k \in 1..n, NEW d \in {-1, 1},
         NEW g \in Group, g.type # "none" => Len(g.filters) # 0,
         \A i \in 1..Len(g.filters) : g.filters[i] = -k /\ gs[k].type # "none" /\ d = 1,
         NEW top \in Nat, NEW r, r \in Ranks(n, top), MembersLower(gs, r), Tidy(gs)
  PROVE  /\ Len(Append(gs, g)) = n + 1
         /\ Tidy(Append(gs, g)) /\ MembersLower(Append(gs, g), Raised(r, n, k, d))
<1> DEFINE gs2 == Append(gs, g)
           r2  == Raised(r, n, k, d)
<1>1. /\ Len(gs2) = n + 1 /\ gs2[n + 1] = g /\ \A l \in 1..n : gs2[l] = gs[l]
  BY AddOf DEF GroupsRight
<1>2. /\ \A i, j \in 1..n : r[i] < r[j] => r2[i] < r2[j]
      /\ d = 1 => r2[k] < r2[n + 1]
  <2>1. n \in Nat /\ top \in Nat /\ r \in Ranks(n, top) /\ k \in 1..n /\ d \in {-1, 1}
    OBVIOUS
  <2>2. \A i, j \in 1..n : r[i] < r[j] => r2[i] < r2[j]
    BY ONLY <2>1, RaisedOf
  <2>3. d = 1 => r2[k] < r2[n + 1]
    BY ONLY <2>1, RaisedOf
  <2>4. QED
    BY ONLY <2>2, <2>3
<1> HIDE DEF gs2, r2
<1>3. ASSUME NEW l \in 1..n + 1, NEW i \in 1..Len(gs2[l].filters), -gs2[l].filters[i] \in 1..n + 1
      PROVE  r2[-gs2[l].filters[i]] < r2[l] /\ gs2[-gs2[l].filters[i]].type # "none"
  <2>1. CASE l \in 1..n
    <3> DEFINE m == gs[l].filters[i]
    <3>1. gs2[l].filters[i] = m /\ i \in 1..Len(gs[l].filters)
      BY <1>1, <2>1
    <3>2. Member(m, l, n, x) /\ m \in Int
      BY <2>1, <3>1, MembersOf
    <3> HIDE DEF m
    <3>3. -m \in 1..n
      BY <1>3, <3>1, <3>2 DEF Member
    <3>4. r[-m] < r[l] /\ gs[-m].type # "none"
      BY <2>1, <3>1, <3>3 DEF m, MembersLower, Tidy
    <3>5. QED
      BY <1>1, <1>2, <2>1, <3>1, <3>3, <3>4
  <2>2. CASE l = n + 1
    <3>1. gs2[l].filters[i] = -k /\ gs[k].type # "none" /\ d = 1
      BY <1>1, <2>2
    <3>2. -gs2[l].filters[i] = k
      BY <3>1
    <3>3. QED
      BY <1>1, <1>2, <2>2, <3>1, <3>2
  <2>3. QED
    BY <2>1, <2>2
<1>4. ASSUME NEW l \in 1..n + 1, gs2[l].type # "none" PROVE Len(gs2[l].filters) # 0
  <2>1. CASE l \in 1..n
    BY <1>1, <1>4, <2>1 DEF Tidy
  <2>2. CASE l = n + 1
    BY <1>1, <1>4, <2>2
  <2>3. QED
    BY <2>1, <2>2
<1>5. Tidy(gs2)
  BY <1>1, <1>3, <1>4 DEF Tidy
<1>6. MembersLower(gs2, r2)
  BY <1>1, <1>3 DEF MembersLower
<1>7. QED
  BY <1>1, <1>5, <1>6 DEF gs2, r2

(* A new group is put on the stack, above group k or in its place. *)
LEMMA PushRanks ==
  ASSUME NEW n \in Nat, NEW ch, ChildrenRight(ch, n), NEW top \in Nat, NEW r, r \in Ranks(n, top),
         StackFalls(ch, r)
  PROVE  /\ StackFalls(Append(ch, n + 1), Raised(r, n, Last(ch), -1))
         /\ StackFalls(Append(Front(ch), n + 1), Raised(r, n, Last(ch), 1))
<1> DEFINE p == Len(ch)
           k == Last(ch)
           st == Front(ch)
<1>1. /\ p \in Nat \ {0} /\ k = ch[p] /\ k \in 1..n /\ \A i \in 1..p : ch[i] \in 1..n
      /\ ch \in Seq(1..n) /\ \A i, j \in 1..p : ch[i] = ch[j] => i = j
  BY StackOf DEF ChildrenRight
<1>2. /\ Len(st) = p - 1 /\ \A i \in 1..p - 1 : st[i] = ch[i]
      /\ st \in Seq(1..n) /\ \A i, j \in 1..p - 1 : st[i] = st[j] => i = j
  BY Popped
<1> HIDE DEF p, k, st
<1>3. \A i, j \in 1..p : i < j => r[ch[j]] < r[ch[i]]
  BY DEF StackFalls, p
<1>4. StackFalls(Append(ch, n + 1), Raised(r, n, k, -1))
  <2> DEFINE ch2 == Append(ch, n + 1)
             r2  == Raised(r, n, k, -1)
  <2>1. Len(ch2) = p + 1 /\ ch2[p + 1] = n + 1 /\ \A i \in 1..p : ch2[i] = ch[i]
    BY <1>1, Pushed DEF p
  <2>2. /\ \A i, j \in 1..n : r[i] < r[j] => r2[i] < r2[j]
        /\ \A j \in 1..n : r[k] < r[j] => r2[n + 1] < r2[j]
        /\ r2[n + 1] < r2[k]
    BY <1>1, RaisedOf
  <2> HIDE DEF ch2, r2
  <2>3. ASSUME NEW i \in 1..p + 1, NEW j \in 1..p + 1, i < j PROVE r2[ch2[j]] < r2[ch2[i]]
    <3>1. i \in 1..p /\ ch2[i] = ch[i] /\ ch[i] \in 1..n
      BY <1>1, <2>1, <2>3
    <3>2. CASE j \in 1..p
      BY <1>1, <1>3, <2>1, <2>2, <2>3, <3>1, <3>2
    <3>3. CASE j = p + 1 /\ i # p
      <4>1. p \in 1..p /\ i < p
        BY <1>1, <3>1, <3>3
      <4>2. r[k] < r[ch[i]]
        BY <1>1, <1>3, <3>1, <4>1
      <4>3. QED
        BY <2>1, <2>2, <3>1, <3>3, <4>2
    <3>4. CASE j = p + 1 /\ i = p
      BY <1>1, <2>1, <2>2, <3>1, <3>4
    <3>5. QED
      BY <1>1, <3>2, <3>3, <3>4
  <2>4. QED
    BY <2>1, <2>3 DEF StackFalls, ch2, r2
<1>5. StackFalls(Append(st, n + 1), Raised(r, n, k, 1))
  <2> DEFINE ch2 == Append(st, n + 1)
             r2  == Raised(r, n, k, 1)
  <2>1. Len(ch2) = p /\ ch2[p] = n + 1 /\ \A i \in 1..p - 1 : ch2[i] = ch[i]
    <3>1. /\ Len(ch2) = Len(st) + 1 /\ ch2[Len(st) + 1] = n + 1 /\ \A i \in 1..Len(st) : ch2[i] = st[i]
      BY <1>2, Pushed
    <3>2. Len(st) = p - 1 /\ p - 1 + 1 = p
      BY <1>1, <1>2
    <3>3. QED
      BY <1>2, <3>1, <3>2
  <2>2. /\ \A i, j \in 1..n : r[i] < r[j] => r2[i] < r2[j]
        /\ \A j \in 1..n : r[k] < r[j] => r2[n + 1] < r2[j]
    BY <1>1, RaisedOf
  <2> HIDE DEF ch2, r2
  <2>3. ASSUME NEW i \in 1..p, NEW j \in 1..p, i < j PROVE r2[ch2[j]] < r2[ch2[i]]
    <3>1. i \in 1..p - 1 /\ ch2[i] = ch[i] /\ ch[i] \in 1..n /\ r[ch[j]] < r[ch[i]]
      BY <1>1, <1>3, <2>1, <2>3
    <3>2. CASE j \in 1..p - 1
      BY <1>1, <2>1, <2>2, <3>1, <3>2
    <3>3. CASE j = p
      BY <1>1, <2>1, <2>2, <3>1, <3>3
    <3>4. QED
      BY <1>1, <3>2, <3>3
  <2>4. QED
    BY <2>1, <2>3 DEF StackFalls, ch2, r2
<1>6. QED
  BY <1>4, <1>5 DEF k, st

LEMMA OpenRanks ==
  ASSUME TypeInv, Tidy(groups), HasRank(groups, children), Open
  PROVE  Tidy(groups') /\ HasRank(groups', children')
<1> DEFINE n == Len(groups)
<1>1. PICK top \in Nat : \E r \in Ranks(n, top) : RankedBy(groups, children, r)
  BY DEF HasRank
<1>2. PICK r \in Ranks(n, top) : RankedBy(groups, children, r)
  BY <1>1
<1>3. groups' = Append(groups, Made) /\ children' = Append(children, n + 1)
  BY DEF Open
<1>4. /\ n \in Nat /\ read \in Nat /\ Current \in 1..n /\ GroupsRight(groups, read) /\ ChildrenRight(children, n)
  BY Here DEF TypeInv
<1>5. Made \in Group /\ Len(Made.filters) = 0 /\ Made.type = "none"
  BY EmptySeq DEF Made, Group, Kinds
<1>6. /\ Len(groups') = n + 1 /\ Tidy(groups') /\ MembersLower(groups', Raised(r, n, Current, -1))
  <2>1. -1 \in {-1, 1} /\ \A i \in 1..Len(Made.filters) : FALSE
    BY <1>5
  <2> HIDE DEF n
  <2>2. MembersLower(groups, r) /\ r \in Ranks(n, top) /\ Len(groups) = n
    BY <1>2 DEF RankedBy, n
  <2>3. QED
    BY <1>1, <1>3, <1>4, <1>5, <2>1, <2>2, AppendRanks
<1>7. StackFalls(children', Raised(r, n, Current, -1))
  BY <1>1, <1>2, <1>3, <1>4, PushRanks DEF RankedBy, Current
<1>8. 2 * top + 1 \in Nat /\ Raised(r, n, Current, -1) \in Ranks(n + 1, 2 * top + 1)
  <2>1. -1 \in {-1, 1}
    OBVIOUS
  <2>2. QED
    BY <1>1, <1>2, <1>4, <2>1, RaisedOf
<1>9. QED
  BY <1>6, <1>7, <1>8 DEF HasRank, RankedBy

LEMMA WrapRanks ==
  ASSUME TypeInv, Tidy(groups), HasRank(groups, children), Len(groups[Current].filters) > 1,
         groups' = Append(groups, OrOf(Current)), children' = Append(Front(children), Len(groups) + 1)
  PROVE  Tidy(groups') /\ HasRank(groups', children')
<1> DEFINE n == Len(groups)
<1>1. PICK top \in Nat : \E r \in Ranks(n, top) : RankedBy(groups, children, r)
  BY DEF HasRank
<1>2. PICK r \in Ranks(n, top) : RankedBy(groups, children, r)
  BY <1>1
<1>4. /\ n \in Nat /\ read \in Nat /\ Current \in 1..n /\ GroupsRight(groups, read) /\ ChildrenRight(children, n)
  BY Here DEF TypeInv
<1>5. OrOf(Current) \in Group /\ Len(OrOf(Current).filters) = 1 /\ OrOf(Current).filters[1] = -Current
  BY <1>4, SingleOf DEF OrOf, Kinds
<1>6. /\ Len(groups') = n + 1 /\ Tidy(groups') /\ MembersLower(groups', Raised(r, n, Current, 1))
  <2>1. groups[Current].type # "none"
    BY <1>4 DEF GroupsRight
  <2> DEFINE g == OrOf(Current)
  <2>2. 1 \in {-1, 1} /\ Len(g.filters) # 0 /\ \A i \in 1..Len(g.filters) : g.filters[i] = -Current
    BY <1>5
  <2> HIDE DEF n, g
  <2>3. MembersLower(groups, r) /\ r \in Ranks(n, top) /\ Len(groups) = n
    BY <1>2 DEF RankedBy, n
  <2>4. groups' = Append(groups, g) /\ g \in Group
    BY <1>5 DEF g
  <2> DEFINE d == 1
  <2>5. d \in {-1, 1} /\ d = 1
    OBVIOUS
  <2> HIDE DEF d
  <2>6. /\ Len(Append(groups, g)) = n + 1
        /\ Tidy(Append(groups, g)) /\ MembersLower(Append(groups, g), Raised(r, n, Current, d))
    <3>1. n \in Nat /\ read \in Nat /\ Current \in 1..n /\ GroupsRight(groups, read) /\ top \in Nat /\ Tidy(groups)
      BY <1>1, <1>4
    <3>2. g.type # "none" => Len(g.filters) # 0
      BY <2>2
    <3>3. \A i \in 1..Len(g.filters) : g.filters[i] = -Current /\ groups[Current].type # "none" /\ d = 1
      BY <2>1, <2>2, <2>5
    <3>4. QED
      BY ONLY <2>3, <2>4, <2>5, <3>1, <3>2, <3>3, AppendRanks
  <2>7. QED
    BY <2>4, <2>5, <2>6
<1>7. StackFalls(children', Raised(r, n, Current, 1))
  BY <1>1, <1>2, <1>4, PushRanks DEF RankedBy, Current
<1>8. 2 * top + 1 \in Nat /\ Raised(r, n, Current, 1) \in Ranks(n + 1, 2 * top + 1)
  <2>1. 1 \in {-1, 1}
    OBVIOUS
  <2>2. QED
    BY <1>1, <1>2, <1>4, <2>1, RaisedOf
<1>9. QED
  BY <1>6, <1>7, <1>8 DEF HasRank, RankedBy

LEMMA AndRanks ==
  ASSUME NEW n \in Nat, NEW x \in Nat, NEW gs, GroupsRight(gs, x), Len(gs) = n, NEW k \in 1..n,
         Len(gs[k].filters) > 1, NEW top \in Nat, NEW r, r \in Ranks(n, top), MembersLower(gs, r), Tidy(gs)
  PROVE  /\ Len(AfterAnd(gs, k)) = n + 1
         /\ Tidy(AfterAnd(gs, k)) /\ MembersLower(AfterAnd(gs, k), Raised(r, n, k, -1))
<1> DEFINE gs2 == AfterAnd(gs, k)
           r2  == Raised(r, n, k, -1)
           f   == gs[k].filters
           g   == Retained(gs[k], n + 1)
           a   == AndOf(Last(f))
<1>1. /\ Len(gs2) = n + 1 /\ gs2[k] = g /\ gs2[n + 1] = a /\ \A l \in 1..n : l # k => gs2[l] = gs[l]
  BY AfterAndOf DEF GroupsRight
<1>2. /\ g.type = gs[k].type /\ Len(f) \in Nat \ {0} /\ Last(f) = f[Len(f)] /\ Last(f) \in Int
      /\ Len(g.filters) = Len(f) /\ g.filters[Len(f)] = -(n + 1)
      /\ \A i \in 1..Len(f) - 1 : g.filters[i] = f[i]
  <2> DEFINE new == n + 1
  <2>1. new \in Nat /\ gs \in Seq(Group) /\ k \in 1..Len(gs) /\ Len(gs[k].filters) > 1
    BY DEF GroupsRight
  <2>2. g = Retained(gs[k], new) /\ -new = -(n + 1)
    OBVIOUS
  <2> HIDE DEF new, g
  <2>3. /\ Retained(gs[k], new).type = gs[k].type
        /\ Len(f) \in Nat \ {0} /\ Last(f) = f[Len(f)] /\ Last(f) \in Int
    BY ONLY <2>1, RetainedOf
  <2>4. /\ Len(Retained(gs[k], new).filters) = Len(f) /\ Retained(gs[k], new).filters[Len(f)] = -new
        /\ \A i \in 1..Len(f) - 1 : Retained(gs[k], new).filters[i] = f[i]
    BY ONLY <2>1, RetainedOf
  <2>5. QED
    BY ONLY <2>2, <2>3, <2>4
<1>3. a.type = "AND" /\ Len(a.filters) = 1 /\ a.filters[1] = f[Len(f)]
  BY <1>2, SingleOf DEF AndOf, Kinds
<1>4. /\ \A i, j \in 1..n : r[i] < r[j] => r2[i] < r2[j]
      /\ \A j \in 1..n : r[j] < r[k] => r2[j] < r2[n + 1]
      /\ r2[n + 1] < r2[k]
  <2> DEFINE d == -1
  <2>1. n \in Nat /\ top \in Nat /\ r \in Ranks(n, top) /\ k \in 1..n /\ d \in {-1, 1} /\ d = -1
    OBVIOUS
  <2>2. r2 = Raised(r, n, k, d)
    OBVIOUS
  <2> HIDE DEF d, r2
  <2>3. \A i, j \in 1..n : r[i] < r[j] => Raised(r, n, k, d)[i] < Raised(r, n, k, d)[j]
    BY ONLY <2>1, RaisedOf
  <2>4. \A j \in 1..n : r[j] < r[k] => Raised(r, n, k, d)[j] < Raised(r, n, k, d)[n + 1]
    BY ONLY <2>1, RaisedOf
  <2>5. Raised(r, n, k, d)[n + 1] < Raised(r, n, k, d)[k]
    BY ONLY <2>1, RaisedOf
  <2>6. QED
    BY ONLY <2>2, <2>3, <2>4, <2>5
<1> HIDE DEF gs2, r2, g, a
<1>5. ASSUME NEW l \in 1..n, NEW i \in 1..Len(gs[l].filters), -gs[l].filters[i] \in 1..n + 1
      PROVE  /\ -gs[l].filters[i] \in 1..n /\ r[-gs[l].filters[i]] < r[l]
             /\ gs2[-gs[l].filters[i]].type # "none"
  <2> DEFINE m == gs[l].filters[i]
  <2>1. Member(m, l, n, x) /\ m \in Int
    BY MembersOf
  <2>2. r[-m] < r[l] /\ gs[-m].type # "none" /\ -m \in 1..n
    <3>1. -m \in 1..n
      <4> HIDE DEF m
      <4>1. -m \in 1..n + 1
        BY <1>5 DEF m
      <4>2. QED
        BY <2>1, <4>1 DEF Member
    <3>2. QED
      BY <3>1 DEF MembersLower, Tidy
  <2> HIDE DEF m
  <2>3. gs2[-m].type = gs[-m].type
    BY <1>1, <1>2, <2>2
  <2>4. QED
    BY <2>2, <2>3 DEF m
<1>6. ASSUME NEW l \in 1..n + 1, NEW i \in 1..Len(gs2[l].filters), -gs2[l].filters[i] \in 1..n + 1
      PROVE  r2[-gs2[l].filters[i]] < r2[l] /\ gs2[-gs2[l].filters[i]].type # "none"
  <2>1. CASE l \in 1..n /\ l # k
    <3>1. gs2[l] = gs[l]
      BY <1>1, <2>1
    <3>2. /\ -gs[l].filters[i] \in 1..n /\ r[-gs[l].filters[i]] < r[l]
          /\ gs2[-gs[l].filters[i]].type # "none"
      BY <1>5, <1>6, <2>1, <3>1
    <3>3. QED
      BY <1>4, <2>1, <3>1, <3>2
  <2>2. CASE l = k /\ i # Len(f)
    <3>1. i \in 1..Len(f) /\ gs2[k].filters[i] = f[i]
      BY <1>1, <1>2, <1>6, <2>2
    <3>2. -f[i] \in 1..n /\ r[-f[i]] < r[k] /\ gs2[-f[i]].type # "none"
      BY <1>5, <1>6, <2>2, <3>1
    <3>3. QED
      BY <1>4, <2>2, <3>1, <3>2
  <2>3. CASE l = k /\ i = Len(f)
    <3>1. -gs2[l].filters[i] = n + 1
      BY <1>1, <1>2, <2>3
    <3>2. QED
      BY <1>1, <1>3, <1>4, <2>3, <3>1
  <2>4. CASE l = n + 1
    <3>1. gs2[l].filters[i] = f[Len(f)] /\ Len(f) \in 1..Len(f)
      BY <1>1, <1>2, <1>3, <2>4
    <3>2. -f[Len(f)] \in 1..n /\ r[-f[Len(f)]] < r[k] /\ gs2[-f[Len(f)]].type # "none"
      BY <1>5, <1>6, <3>1
    <3>3. QED
      BY <1>4, <2>4, <3>1, <3>2
  <2>5. QED
    BY <2>1, <2>2, <2>3, <2>4
<1>7. ASSUME NEW l \in 1..n + 1, gs2[l].type # "none" PROVE Len(gs2[l].filters) # 0
  <2>1. CASE l \in 1..n /\ l # k
    BY <1>1, <1>7, <2>1 DEF Tidy
  <2>2. CASE l = k
    BY <1>1, <1>2, <2>2
  <2>3. CASE l = n + 1
    BY <1>1, <1>3, <2>3
  <2>4. QED
    BY <2>1, <2>2, <2>3
<1>8. Tidy(gs2)
  BY <1>1, <1>6, <1>7 DEF Tidy
<1>9. MembersLower(gs2, r2)
  BY <1>1, <1>6 DEF MembersLower
<1>10. QED
  BY <1>1, <1>8, <1>9 DEF gs2, r2

LEMMA OpenAndRanks ==
  ASSUME TypeInv, Tidy(groups), HasRank(groups, children), Len(groups[Current].filters) > 1, OpenAnd
  PROVE  Tidy(groups') /\ HasRank(groups', children')
<1> DEFINE n == Len(groups)
<1>1. PICK top \in Nat : \E r \in Ranks(n, top) : RankedBy(groups, children, r)
  BY DEF HasRank
<1>2. PICK r \in Ranks(n, top) : RankedBy(groups, children, r)
  BY <1>1
<1>3. groups' = AfterAnd(groups, Current) /\ children' = Append(children, n + 1)
  BY DEF OpenAnd, AfterAnd, TakenFrom, AndOf
<1>4. /\ n \in Nat /\ read \in Nat /\ Current \in 1..n /\ GroupsRight(groups, read) /\ ChildrenRight(children, n)
  BY Here DEF TypeInv
<1>5. /\ Len(groups') = n + 1 /\ Tidy(groups') /\ MembersLower(groups', Raised(r, n, Current, -1))
  <2> HIDE DEF n
  <2>1. MembersLower(groups, r) /\ r \in Ranks(n, top) /\ Len(groups) = n
    BY <1>2 DEF RankedBy, n
  <2>2. QED
    BY <1>1, <1>3, <1>4, <2>1, AndRanks
<1>6. StackFalls(children', Raised(r, n, Current, -1))
  BY <1>1, <1>2, <1>3, <1>4, PushRanks DEF RankedBy, Current
<1>7. 2 * top + 1 \in Nat /\ Raised(r, n, Current, -1) \in Ranks(n + 1, 2 * top + 1)
  <2>1. -1 \in {-1, 1}
    OBVIOUS
  <2>2. QED
    BY <1>1, <1>2, <1>4, <2>1, RaisedOf
<1>8. QED
  BY <1>5, <1>6, <1>7 DEF HasRank, RankedBy

LEMMA PopRanks ==
  ASSUME TypeInv, Tidy(groups), HasRank(groups, children), groups' = groups, children' = Front(children)
  PROVE  Tidy(groups') /\ HasRank(groups', children')
<1>1. PICK top \in Nat : \E r \in Ranks(Len(groups), top) : RankedBy(groups, children, r)
  BY DEF HasRank
<1>2. PICK r \in Ranks(Len(groups), top) : RankedBy(groups, children, r)
  BY <1>1
<1> DEFINE p == Len(children)
<1>3. Len(groups) \in Nat /\ ChildrenRight(children, Len(groups)) /\ p \in Nat \ {0}
  BY Here DEF TypeInv
<1>4. Len(Front(children)) = p - 1 /\ \A i \in 1..p - 1 : Front(children)[i] = children[i]
  BY <1>3, Popped
<1>5. \A i, j \in 1..p : i < j => r[children[j]] < r[children[i]]
  BY <1>2 DEF RankedBy, StackFalls
<1> HIDE DEF p
<1>6. \A i, j \in 1..p - 1 : i < j => r[Front(children)[j]] < r[Front(children)[i]]
  BY <1>3, <1>4, <1>5
<1>7. StackFalls(children', r)
  BY <1>4, <1>6 DEF StackFalls
<1>8. QED
  BY <1>1, <1>2, <1>7 DEF HasRank, RankedBy

LEMMA GiveTypeRanks ==
  ASSUME TypeInv, Tidy(groups), HasRank(groups, children), NEW t \in {"AND", "OR"},
         Len(groups[Current].filters) = 1, groups' = GiveType(groups, Current, t), children' = children
  PROVE  Tidy(groups') /\ HasRank(groups', children')
<1>1. PICK top \in Nat : \E r \in Ranks(Len(groups), top) : RankedBy(groups, children, r)
  BY DEF HasRank
<1>2. PICK r \in Ranks(Len(groups), top) : RankedBy(groups, children, r)
  BY <1>1
<1>3. groups \in Seq(Group) /\ Current \in 1..Len(groups) /\ t \in Kinds
  BY Here DEF Kinds
<1>4. /\ groups' = [groups EXCEPT ![Current] = Typed(groups[Current], t)]
      /\ Typed(groups[Current], t) \in Group /\ Typed(groups[Current], t).filters = groups[Current].filters
      /\ Typed(groups[Current], t).type = t
  BY <1>3, TypeIs, TypedOf
<1>5. /\ Len(groups') = Len(groups) /\ groups'[Current] = Typed(groups[Current], t)
      /\ \A l \in 1..Len(groups) : l # Current => groups'[l] = groups[l]
  BY <1>3, <1>4, ChangeOf
<1>6. \A l \in 1..Len(groups) :
        /\ groups'[l].filters = groups[l].filters
        /\ groups'[l].type = "none" => groups[l].type = "none"
        /\ groups'[l].type # "none" => groups[l].type # "none" \/ l = Current
  <2> SUFFICES ASSUME NEW l \in 1..Len(groups)
               PROVE  /\ groups'[l].filters = groups[l].filters
                      /\ groups'[l].type = "none" => groups[l].type = "none"
                      /\ groups'[l].type # "none" => groups[l].type # "none" \/ l = Current
    OBVIOUS
  <2>1. CASE l = Current
    <3>1. groups'[l].filters = groups[l].filters /\ groups'[l].type = t
      BY <1>4, <1>5, <2>1
    <3>2. QED
      BY ONLY <2>1, <3>1
  <2>2. CASE l # Current
    <3>1. groups'[l] = groups[l]
      BY <1>5, <2>2
    <3>2. QED
      BY ONLY <3>1
  <2>3. QED
    BY <2>1, <2>2
<1>7. Tidy(groups')
  BY <1>5, <1>6 DEF Tidy
<1>8. RankedBy(groups', children', r)
  BY <1>2, <1>5, <1>6, SMTT(30) DEF RankedBy, MembersLower
<1>9. QED
  BY <1>1, <1>2, <1>5, <1>7, <1>8 DEF HasRank

LEMMA ConnectiveRanks ==
  ASSUME TypeInv, Tidy(groups), HasRank(groups, children), NEW t \in {"AND", "OR"}, Connective(t)
  PROVE  Tidy(groups') /\ HasRank(groups', children')
<1> DEFINE g == groups[Current]
<1>1. CASE UNCHANGED <<groups, children>>
  BY <1>1
<1>2. Len(g.filters) \in Nat
  BY Here, GroupOf
<1>3. /\ g.filters = <<>> => Len(g.filters) = 0
      /\ g.filters # <<>> => Len(g.filters) # 0
  BY Here, GroupOf, EmptySeq
<1>4. CASE g.filters = <<>>
  BY <1>1, <1>3, <1>4 DEF Connective, Refuse
<1>5. CASE Len(g.filters) = 1
  <2>1. /\ groups' = IF g.type = "none" THEN GiveType(groups, Current, t) ELSE groups
        /\ children' = children
    BY <1>3, <1>5 DEF Connective, GiveType
  <2>2. QED
    BY <1>1, <1>5, <2>1, GiveTypeRanks
<1>6. CASE Len(g.filters) > 1 /\ g.type = t
  <2>1. g.filters # <<>> /\ Len(g.filters) # 1
    BY <1>2, <1>3, <1>6, More
  <2>2. UNCHANGED <<groups, children, outcome>>
    BY <1>6, <2>1 DEF Connective
  <2>3. QED
    BY <1>1, <2>2
<1>7. CASE Len(g.filters) > 1 /\ g.type # t
  <2>1. g.filters # <<>> /\ Len(g.filters) # 1
    BY <1>2, <1>3, <1>7, More
  <2>2. IF t = "AND" THEN OpenAnd ELSE OpenOr
    BY <1>7, <2>1 DEF Connective
  <2>3. CASE OpenAnd
    BY <1>7, <2>3, OpenAndRanks
  <2>4. CASE OpenOr
    <3>1. CASE groups' = groups /\ children' = Front(children)
      BY <3>1, PopRanks
    <3>2. CASE /\ groups' = Append(groups, OrOf(Current))
               /\ children' = Append(Front(children), Len(groups) + 1)
      BY <1>7, <3>2, WrapRanks
    <3>3. QED
      BY <1>1, <2>4, <3>1, <3>2 DEF OpenOr, OrOf, Refuse
  <2>5. QED
    BY <2>2, <2>3, <2>4
<1>8. QED
  <2> HIDE DEF g
  <2>1. Len(g.filters) = 0 \/ Len(g.filters) = 1 \/ Len(g.filters) > 1
    BY <1>2, Counts
  <2>2. QED
    BY <1>3, <1>4, <1>5, <1>6, <1>7, <2>1

LEMMA StillParsing ==
  ASSUME TypeInv, NEW t \in {"AND", "OR"}, Connective(t) PROVE outcome' # "parsed"
<1> DEFINE g == groups[Current]
<1>1. outcome = "parsing"
  BY DEF Connective
<1>2. Len(g.filters) \in Nat
  BY Here, GroupOf
<1>3. /\ g.filters = <<>> => Len(g.filters) = 0
      /\ g.filters # <<>> => Len(g.filters) # 0
  BY Here, GroupOf, EmptySeq
<1>4. CASE g.filters = <<>>
  BY <1>3, <1>4 DEF Connective, Refuse
<1>5. CASE Len(g.filters) = 1
  BY <1>1, <1>3, <1>5 DEF Connective
<1>6. CASE Len(g.filters) > 1 /\ g.type = t
  <2>1. g.filters # <<>> /\ Len(g.filters) # 1
    BY <1>2, <1>3, <1>6, More
  <2>2. QED
    BY <1>1, <1>6, <2>1 DEF Connective
<1>7. CASE Len(g.filters) > 1 /\ g.type # t
  <2>1. g.filters # <<>> /\ Len(g.filters) # 1
    BY <1>2, <1>3, <1>7, More
  <2>2. IF t = "AND" THEN OpenAnd ELSE OpenOr
    BY <1>7, <2>1 DEF Connective
  <2>3. QED
    BY <1>1, <2>2 DEF OpenAnd, OpenOr, Refuse
<1>8. QED
  <2> HIDE DEF g
  <2>1. Len(g.filters) = 0 \/ Len(g.filters) = 1 \/ Len(g.filters) > 1
    BY <1>2, Counts
  <2>2. QED
    BY <1>3, <1>4, <1>5, <1>6, <1>7, <2>1

(* The inductive invariant: the objects are a tree without empty groups, and
   once the string has ended, the filter is one of them. *)
ShapeInv ==
  /\ conditions \in ConditionLists
  /\ Tidy(groups) /\ HasRank(groups, children)
  /\ outcome = "parsed" =>
       /\ result = Final(groups, children[1])
       /\ groups[children[1]].type = "none" => Len(groups[children[1]].filters) # 0

LEMMA StepShape == ASSUME TypeInv, ShapeInv, [Next]_vars PROVE ShapeInv'
<1>0. Tidy(groups) /\ HasRank(groups, children) /\ conditions \in ConditionLists
  BY DEF ShapeInv
<1>1. CASE UNCHANGED vars
  BY <1>1 DEF ShapeInv, vars
<1>2. CASE End
  <2> DEFINE b == children[1]
  <2>1. /\ conditions' = conditions /\ groups' = groups /\ children' = children
        /\ outcome' = "parsed" =>
             /\ ~(groups[b].type = "none" /\ groups[b].filters = <<>>)
             /\ result' = IF groups[b].type = "none" THEN Unwrapped(b) ELSE -b
    BY <1>2 DEF End
  <2>2. b \in 1..Len(groups) /\ groups \in Seq(Group)
    BY Here, StackOf DEF TypeInv
  <2>3. groups[b].filters # <<>> => Len(groups[b].filters) # 0
    BY <2>2, GroupOf, EmptySeq
  <2>4. outcome' = "parsed" => result' = Final(groups, b)
    BY <2>1 DEF Final, Only, Unwrapped
  <2> HIDE DEF b
  <2>5. outcome' = "parsed" => (groups[b].type = "none" => Len(groups[b].filters) # 0)
    BY <2>1, <2>3
  <2>6. QED
    BY <1>0, <2>1, <2>4, <2>5 DEF ShapeInv, b
<1>3. CASE Field \/ Open \/ Close \/ \E t \in {"AND", "OR"} : Connective(t)
  <2>1. Tidy(groups') /\ HasRank(groups', children')
    BY <1>0, <1>3, FieldRanks, OpenRanks, CloseRanks, ConnectiveRanks
  <2>2. conditions' = conditions
    BY <1>3 DEF Field, Open, Close, Connective
  <2>3. outcome' # "parsed"
    <3>1. Field \/ Open \/ Close => outcome' # "parsed"
      BY DEF Field, Open, Close, Put, Refuse
    <3>2. QED
      BY <1>3, <3>1, StillParsing
  <2>4. QED
    BY <1>0, <2>1, <2>2, <2>3 DEF ShapeInv
<1>4. QED
  BY <1>1, <1>2, <1>3 DEF Next

LEMMA ShapeIsKept == Spec => [](TypeInv /\ ShapeInv)
<1>1. Init => TypeInv /\ ShapeInv
  <2>1. Init => outcome # "parsed" /\ conditions \in ConditionLists
    BY DEF Init
  <2>2. QED
    BY <2>1, InitTypes, InitRanks DEF ShapeInv
<1>2. TypeInv /\ ShapeInv /\ [Next]_vars => TypeInv' /\ ShapeInv'
  BY StepTypes, StepShape
<1>3. QED
  BY <1>1, <1>2, PTL DEF Spec

-----------------------------------------------------------------------------
(* The filter of the parser is without empty groups. *)

LEMMA ObjectsAre ==
  ASSUME TypeInv, ShapeInv
  PROVE  /\ ParsedFilter.top = result
         /\ DOMAIN ParsedFilter.objects = 1..Len(conditions) \cup {-k : k \in 1..Len(groups)}
         /\ Len(conditions) \in Nat /\ Len(groups) \in Nat
         /\ \A i \in 1..Len(conditions) :
              ParsedFilter.objects[i] = conditions[i] /\ IsCondition(conditions[i]) /\ ~IsGroup(conditions[i])
         /\ \A k \in 1..Len(groups) : ParsedFilter.objects[-k] = groups[k] /\ IsGroup(groups[k])
<1> DEFINE D == 1..Len(conditions) \cup {-k : k \in 1..Len(groups)}
<1>1. /\ Len(conditions) \in Nat /\ DOMAIN conditions = 1..Len(conditions)
      /\ Len(groups) \in Nat /\ DOMAIN groups = 1..Len(groups) /\ groups \in Seq(Group)
  BY Here
<1>2. ParsedFilter.top = result /\ ParsedFilter.objects = [m \in D |-> IF m > 0 THEN conditions[m] ELSE groups[-m]]
  BY <1>1 DEF ParsedFilter
<1>3. \A i \in 1..Len(conditions) : IsCondition(conditions[i])
  BY <1>1, FiltersAssumption DEF ShapeInv
<1>4. \A i \in 1..Len(conditions) : ~IsGroup(conditions[i])
  <2>1. \A i \in 1..Len(conditions) : DOMAIN conditions[i] = {"field", "type", "values"}
    BY <1>3 DEF IsCondition
  <2>2. QED
    BY <2>1 DEF IsGroup
<1>5. ASSUME NEW k \in 1..Len(groups) PROVE IsGroup(groups[k])
  <2>1. groups[k] = [type |-> groups[k].type, filters |-> groups[k].filters]
    BY <1>1, GroupOf
  <2>2. DOMAIN groups[k] = {"type", "filters"}
    BY <2>1
  <2>3. QED
    BY <2>2 DEF IsGroup
<1>6. \A i \in 1..Len(conditions) : ParsedFilter.objects[i] = conditions[i]
  BY <1>1, <1>2
<1>7. ASSUME NEW k \in 1..Len(groups) PROVE ParsedFilter.objects[-k] = groups[k]
  <2>1. -k \in D /\ ~(-k > 0) /\ -(-k) = k
    BY <1>1
  <2>2. QED
    BY <1>2, <2>1
<1>8. QED
  BY <1>1, <1>2, <1>3, <1>4, <1>5, <1>6, <1>7

LEMMA MembersAre ==
  ASSUME TypeInv, ShapeInv, NEW k \in 1..Len(groups), NEW i \in 1..Len(groups[k].filters)
  PROVE  /\ groups[k].filters[i] \in DOMAIN ParsedFilter.objects
         /\ IsProper(ParsedFilter.objects[groups[k].filters[i]])
         /\ groups[k].filters[i] \in 1..Len(conditions)
              \/ (-groups[k].filters[i] \in 1..Len(groups) /\ groups[k].filters[i] = -(-groups[k].filters[i]))
<1> DEFINE m == groups[k].filters[i]
           D == DOMAIN ParsedFilter.objects
<1>1. GroupsRight(groups, read) /\ read \in 0..Len(conditions) /\ read \in Nat /\ Len(conditions) \in Nat /\ Len(groups) \in Nat
  BY Here DEF TypeInv
<1>2. Member(m, k, Len(groups), read) /\ m \in Int
  BY <1>1, MembersOf
<1>3. D = 1..Len(conditions) \cup {-l : l \in 1..Len(groups)}
  BY ObjectsAre
<1>t. -m \in 1..Len(groups) => groups[-m].type # "none" /\ Len(groups[-m].filters) # 0
  BY DEF ShapeInv, Tidy
<1> HIDE DEF m, D
<1>4. CASE m \in 1..read
  <2>1. m \in 1..Len(conditions) /\ m \in D
    BY <1>1, <1>3, <1>4
  <2>2. ParsedFilter.objects[m] = conditions[m] /\ IsCondition(conditions[m])
    BY <2>1, ObjectsAre
  <2>3. QED
    BY <2>1, <2>2 DEF IsProper, m, D
<1>5. CASE -m \in 1..Len(groups)
  <2> DEFINE l == -m
  <2>1. l \in 1..Len(groups) /\ m = -l /\ m \in D
    BY <1>2, <1>3, <1>5
  <2>2. groups[l].type # "none" /\ Len(groups[l].filters) # 0
    BY <1>t, <1>5
  <2> HIDE DEF l
  <2>3. ParsedFilter.objects[m] = groups[l] /\ IsGroup(groups[l])
    BY <2>1, ObjectsAre
  <2>4. groups[l].type \in {"AND", "OR"} /\ groups[l].filters # <<>>
    BY <2>1, <2>2, Here, GroupOf, EmptySeq DEF Kinds
  <2>5. IsProper(ParsedFilter.objects[m])
    BY <2>3, <2>4 DEF IsProper
  <2>6. QED
    BY <2>1, <2>5 DEF m, D, l
<1>6. QED
  BY <1>2, <1>4, <1>5 DEF Member

LEMMA SequenceOf ==
  ASSUME NEW S, NEW T, NEW s \in Seq(S), \A i \in 1..Len(s) : s[i] \in T PROVE s \in Seq(T)
<1>1. DOMAIN s = 1..Len(s) /\ Len(s) \in Nat /\ s = [i \in 1..Len(s) |-> s[i]]
  BY LenProperties
<1>2. s \in [1..Len(s) -> T]
  BY <1>1
<1>3. QED
  BY <1>1, <1>2, SeqDef

LEMMA ParsedIsTree ==
  ASSUME TypeInv, ShapeInv, ParsedFilter.top \in DOMAIN ParsedFilter.objects PROVE IsTree(ParsedFilter)
<1> DEFINE D == DOMAIN ParsedFilter.objects
           o(m) == ParsedFilter.objects[m]
<1>1. /\ D = 1..Len(conditions) \cup {-k : k \in 1..Len(groups)}
      /\ Len(conditions) \in Nat /\ Len(groups) \in Nat
  BY ObjectsAre
<1>2. \A i \in 1..Len(conditions) : IsCondition(o(i)) /\ ~IsGroup(o(i))
  BY ObjectsAre
<1>3. \A k \in 1..Len(groups) : o(-k) = groups[k] /\ IsGroup(groups[k])
  BY ObjectsAre
<1>4. PICK top \in Nat : \E r \in Ranks(Len(groups), top) : RankedBy(groups, children, r)
  BY DEF ShapeInv, HasRank
<1>5. PICK r \in Ranks(Len(groups), top) : RankedBy(groups, children, r)
  BY <1>4
<1>6. ASSUME NEW k \in 1..Len(groups) PROVE groups[k].filters \in Seq(D)
  <2>1. groups[k].filters \in Seq(Int) /\ \A i \in 1..Len(groups[k].filters) : groups[k].filters[i] \in D
    BY Here, GroupOf, MembersAre
  <2> HIDE DEF D
  <2>2. QED
    BY <2>1, SequenceOf
<1> DEFINE rank == [m \in D |-> IF m > 0 THEN 0 ELSE r[-m]]
<1>7. rank \in [D -> 0..top]
  <2>1. \A k \in 1..Len(groups) : -(-k) = k /\ ~(-k > 0) /\ r[k] \in 0..top
    BY <1>1, <1>4, <1>5 DEF Ranks
  <2>2. \A i \in 1..Len(conditions) : i > 0
    BY <1>1
  <2> HIDE DEF D
  <2>3. \A m \in D : (IF m > 0 THEN 0 ELSE r[-m]) \in 0..top
    <3> SUFFICES ASSUME NEW m \in D PROVE (IF m > 0 THEN 0 ELSE r[-m]) \in 0..top
      OBVIOUS
    <3>1. CASE m \in 1..Len(conditions)
      BY <1>4, <2>2, <3>1
    <3>2. CASE m \in {-k : k \in 1..Len(groups)}
      BY <2>1, <3>2
    <3>3. QED
      BY <1>1, <3>1, <3>2
  <2>4. QED
    BY <2>3
<1>8. ASSUME NEW m \in D, IsGroup(o(m)), NEW n \in Members(o(m)) PROVE rank[n] < rank[m]
  <2>1. PICK k \in 1..Len(groups) : m = -k
    BY <1>1, <1>2, <1>8
  <2>2. o(m) = groups[k] /\ ~(m > 0) /\ -m = k /\ rank[m] = r[k] /\ r[k] \in 1..top
    BY <1>1, <1>3, <1>4, <1>5, <2>1 DEF Ranks
  <2>3. PICK i \in 1..Len(groups[k].filters) : n = groups[k].filters[i]
    BY <2>2, Here, GroupOf DEF Members
  <2>4. n \in D /\ (n \in 1..Len(conditions) \/ (-n \in 1..Len(groups) /\ n = -(-n)))
    BY <2>3, MembersAre
  <2>5. CASE n \in 1..Len(conditions)
    <3>1. rank[n] = 0
      BY <1>1, <2>4, <2>5
    <3>2. QED
      BY <1>4, <2>2, <3>1
  <2>6. CASE -n \in 1..Len(groups)
    <3>1. r[-n] < r[k]
      BY <1>5, <2>3, <2>6 DEF RankedBy, MembersLower
    <3>2. rank[n] = r[-n]
      <4>1. ~(n > 0)
        BY <2>4, <2>5, <2>6, <1>1
      <4>2. QED
        BY <2>4, <4>1
    <3>3. QED
      BY <2>2, <3>1, <3>2
  <2>7. QED
    BY <2>4, <2>5, <2>6
<1>9. ASSUME NEW m \in D
      PROVE  IF IsGroup(o(m)) THEN o(m).filters \in Seq(D) ELSE IsCondition(o(m))
  <2>1. CASE m \in 1..Len(conditions)
    BY <1>2, <2>1
  <2>2. CASE m \in {-k : k \in 1..Len(groups)}
    BY <1>3, <1>6, <2>2
  <2>3. QED
    BY <1>1, <2>1, <2>2
<1> HIDE DEF rank
<1>10. \E x \in Nat : \E q \in [D -> 0..x] : \A m \in D : IsGroup(o(m)) => \A n \in Members(o(m)) : q[n] < q[m]
  BY <1>4, <1>7, <1>8
<1>11. QED
  BY <1>9, <1>10 DEF IsTree

LEMMA ParsedIsWellMade ==
  ASSUME TypeInv, ShapeInv, outcome = "parsed" PROVE WellMade(ParsedFilter)
<1> DEFINE b == children[1]
           o(m) == ParsedFilter.objects[m]
           D == DOMAIN ParsedFilter.objects
<1>1. b \in 1..Len(groups) /\ groups \in Seq(Group) /\ GroupsRight(groups, read)
  BY Here, StackOf DEF TypeInv
<1>2. /\ result = Final(groups, b)
      /\ groups[b].type = "none" => Len(groups[b].filters) # 0
      /\ groups[b].type # "none" => Len(groups[b].filters) # 0
  BY <1>1 DEF ShapeInv, Tidy
<1>3. groups[b].type \in Kinds /\ Len(groups[b].filters) \in Nat /\ groups[b].filters \in Seq(Int)
  BY <1>1, GroupOf
<1> HIDE DEF b
<1>4. result \in D /\ IsProper(o(result))
  <2>1. CASE groups[b].type = "none"
    <3>1. Len(groups[b].filters) = 1
      <4>1. ~(Len(groups[b].filters) > 1)
        BY <1>1, <2>1 DEF GroupsRight
      <4>2. Len(groups[b].filters) # 0
        BY <1>2, <2>1
      <4>3. Len(groups[b].filters) = 0 \/ Len(groups[b].filters) = 1 \/ Len(groups[b].filters) > 1
        BY <1>3, Counts
      <4>4. QED
        BY ONLY <4>1, <4>2, <4>3
    <3>2. result = groups[b].filters[1] /\ 1 \in 1..Len(groups[b].filters)
      BY <1>2, <2>1, <3>1 DEF Final, Only
    <3>3. QED
      BY <1>1, <3>2, MembersAre
  <2>2. CASE groups[b].type # "none"
    <3>1. result = -b
      BY <1>2, <2>2 DEF Final
    <3>2. o(-b) = groups[b] /\ IsGroup(groups[b]) /\ -b \in D
      BY <1>1, ObjectsAre
    <3>3. groups[b].type \in {"AND", "OR"} /\ groups[b].filters # <<>>
      BY <1>2, <1>3, <2>2, EmptySeq DEF Kinds
    <3>4. QED
      BY <3>1, <3>2, <3>3 DEF IsProper
  <2>3. QED
    BY <2>1, <2>2
<1>5. ParsedFilter.top = result
  BY ObjectsAre
<1>6. IsTree(ParsedFilter)
  BY <1>4, <1>5, ParsedIsTree
<1>7. ASSUME NEW m \in D, IsGroup(o(m)), NEW n \in Members(o(m)) PROVE IsProper(o(n))
  <2>1. PICK k \in 1..Len(groups) : m = -k /\ o(m) = groups[k]
    <3>1. ~(m \in 1..Len(conditions))
      BY <1>7, ObjectsAre
    <3>2. QED
      BY <3>1, ObjectsAre
  <2>2. PICK i \in 1..Len(groups[k].filters) : n = groups[k].filters[i]
    BY <1>1, <2>1, GroupOf DEF Members
  <2>3. QED
    BY <2>2, MembersAre
<1>8. IsProper(Outermost(ParsedFilter))
  BY <1>4, <1>5 DEF Outermost
<1>9. QED
  BY <1>6, <1>7, <1>8 DEF WellMade

-----------------------------------------------------------------------------
(* The filters of profiles, too. *)
LEMMA ProfileIsWellMade == ASSUME NEW f, IsFilter(f) PROVE WellMade(f)
<1> DEFINE D    == DOMAIN f.objects
           size == Cardinality(D)
<1>1. f.top \in D /\ size \in Nat
  BY FS_CardinalityType DEF IsFilter
<1>2. ASSUME NEW m \in D
      PROVE  /\ IsGroup(f.objects[m]) => /\ f.objects[m].type \in {"AND", "OR"} /\ f.objects[m].filters # <<>>
                                         /\ f.objects[m].filters \in Seq(D)
             /\ ~IsGroup(f.objects[m]) => IsCondition(f.objects[m])
  BY DEF IsFilter
<1>3. PICK rank \in [D -> 1..size] :
        \A m \in D : IsGroup(f.objects[m]) => \A n \in Members(f.objects[m]) : rank[n] < rank[m]
  BY DEF IsFilter
<1>4. rank \in [D -> 0..size]
  BY <1>1, <1>3
<1>5. IsTree(f)
  BY <1>1, <1>2, <1>3, <1>4 DEF IsTree
<1>6. \A m \in D : IsProper(f.objects[m])
  BY <1>2 DEF IsProper
<1>7. \A m \in D : IsGroup(f.objects[m]) => Members(f.objects[m]) \subseteq D
  BY <1>5, MembersOfTree
<1>8. QED
  BY <1>1, <1>5, <1>6, <1>7 DEF WellMade, Outermost

LEMMA AllWellMade ==
  ASSUME NEW own, WellMade(own), NEW p \in ProfileFilters
  PROVE  LET all == <<own>> \o p
         IN  \E T : all \in Seq(T) /\ all # <<>> /\ \A i \in DOMAIN all : WellMade(all[i])
<1> DEFINE T   == {own} \cup Range(p)
           all == <<own>> \o p
<1>1. p \in Seq(Range(p)) /\ \A i \in DOMAIN p : IsFilter(p[i])
  BY FiltersAssumption
<1>2. DOMAIN p = 1..Len(p) /\ Len(p) \in Nat /\ \A i \in 1..Len(p) : WellMade(p[i]) /\ p[i] \in Range(p)
  BY <1>1, LenProperties, ElementOfSeq, ProfileIsWellMade
<1> HIDE DEF T
<1>3. <<own>> \in Seq(T) /\ p \in Seq(T) /\ Len(<<own>>) = 1 /\ <<own>>[1] = own
  <2>1. own \in T /\ \A i \in 1..Len(p) : p[i] \in T
    BY <1>2 DEF T
  <2>2. p \in Seq(T)
    BY <1>1, <2>1, SequenceOf
  <2>3. QED
    BY <2>1, <2>2
<1>4. /\ all \in Seq(T) /\ Len(all) = 1 + Len(p)
      /\ \A i \in 1..Len(all) : all[i] = IF i <= 1 THEN <<own>>[i] ELSE p[i - 1]
  BY <1>3, ConcatProperties
<1> HIDE DEF all
<1>5. DOMAIN all = 1..Len(all) /\ all # <<>>
  BY <1>2, <1>4, LenProperties, EmptySeq
<1>6. ASSUME NEW i \in DOMAIN all PROVE WellMade(all[i])
  <2>1. CASE i = 1
    BY <1>3, <1>4, <1>5, <2>1
  <2>2. CASE i # 1
    <3>1. i - 1 \in 1..Len(p) /\ all[i] = p[i - 1]
      BY <1>2, <1>4, <1>5, <2>2
    <3>2. QED
      BY <1>2, <3>1
  <2>3. QED
    BY <2>1, <2>2
<1>7. QED
  BY <1>4, <1>5, <1>6 DEF all

(* FilteredAlike: a row the database selects for a READ passes the filter of
   events in the server's memory, unless the filter asks for null, and what
   passes is selected, unless the row has a null the filter looks at; the check
   of the client agrees with that of the server, unless a group is within a
   group.  That holds whatever the string, its conditions and the filters of
   the profile. *)
THEOREM FiltersAreAlike == Spec => []FilteredAlike
<1>1. TypeInv /\ ShapeInv => FilteredAlike
  <2> SUFFICES ASSUME TypeInv, ShapeInv, outcome = "parsed", NEW p \in ProfileFilters, NEW row \in Rows
               PROVE  LET own == ParsedFilter
                          all == <<own>> \o p
                          cs  == ConditionsOfAll(all)
                          asked == Conditions(own)
                      IN  /\ Selects(all, row) /\ ~AsksForNull(cs) => AcceptedByAll(all, row)
                          /\ AcceptedByAll(all, row) /\ ~Lacks(row, cs) => Selects(all, row)
                          /\ IsFilteredByClient(own, row) /\ ~AsksForNull(asked) => IsFiltered(own, row)
                          /\ IsFiltered(own, row) /\ ~Lacks(row, asked) /\ ~Nested(own) /\ ~AsksForNull(asked) =>
                               IsFilteredByClient(own, row)
    BY DEF FilteredAlike
  <2> DEFINE own == ParsedFilter
             all == <<own>> \o p
  <2>1. WellMade(own)
    BY ParsedIsWellMade
  <2> HIDE DEF own
  <2>2. PICK T : all \in Seq(T) /\ all # <<>> /\ \A i \in DOMAIN all : WellMade(all[i])
    BY <2>1, AllWellMade
  <2> HIDE DEF all
  <2>3. /\ Selects(all, row) /\ ~AsksForNull(ConditionsOfAll(all)) => AcceptedByAll(all, row)
        /\ AcceptedByAll(all, row) /\ ~Lacks(row, ConditionsOfAll(all)) => Selects(all, row)
    BY <2>2, CombinedAlike
  <2>4. /\ IsFilteredByClient(own, row) /\ ~AsksForNull(Conditions(own)) => IsFiltered(own, row)
        /\ IsFiltered(own, row) /\ ~Lacks(row, Conditions(own)) /\ ~Nested(own) /\ ~AsksForNull(Conditions(own)) =>
             IsFilteredByClient(own, row)
    BY <2>1, ClientAlike
  <2>5. QED
    BY <2>3, <2>4 DEF all, own
<1>2. QED
  BY <1>1, ShapeIsKept, PTL

-----------------------------------------------------------------------------
(* The filter lets pass what the string says. *)

LEMMA MeaningsSolved ==
  ASSUME TypeInv, ShapeInv PROVE \A k \in 1..Len(groups) : Meanings[k] = OfGroup(groups[k], Meanings)
<1> DEFINE D == 1..Len(groups)
           V == SUBSET Cases
           step == [x \in D \X [D -> V] |-> OfGroup(groups[x[1]], x[2])]
<1>1. DOMAIN groups = D /\ read \in Nat /\ GroupsRight(groups, read) /\ groups \in Seq(Group)
  BY Here DEF TypeInv
<1>2. PICK top \in Nat : \E r \in Ranks(Len(groups), top) : RankedBy(groups, children, r)
  BY DEF ShapeInv, HasRank
<1>3. PICK r \in Ranks(Len(groups), top) : RankedBy(groups, children, r)
  BY <1>2
<1>4. IsRank(D, r, top)
  BY <1>2, <1>3 DEF IsRank, Ranks
<1>5. step \in Steps(D, V)
  <2>1. \A g, e : OfGroup(g, e) \in V
    BY DEF OfGroup
  <2>2. QED
    BY <2>1 DEF Steps
<1>6. \A k \in D : \A e \in [D -> V] : step[<<k, e>>] = OfGroup(groups[k], e)
  OBVIOUS
<1> HIDE DEF step, V
<1>7. LooksDown(D, r, V, step)
  <2> SUFFICES ASSUME NEW k \in D, NEW e \in [D -> V], NEW e2 \in [D -> V],
                      \A l \in D : r[l] < r[k] => e[l] = e2[l]
               PROVE  step[<<k, e>>] = step[<<k, e2>>]
    BY DEF LooksDown
  <2> DEFINE f == groups[k].filters
  <2>1. ASSUME NEW m \in Range(f) PROVE OfMember(m, e) = OfMember(m, e2)
    <3>1. PICK i \in 1..Len(f) : m = f[i]
      BY <1>1, GroupOf DEF Range
    <3>2. Member(m, k, Len(groups), read)
      BY <1>1, <3>1, MembersOf
    <3>3. -m \in D => r[-m] < r[k]
      BY <1>3, <3>1 DEF RankedBy, MembersLower
    <3>4. m > 0 \/ (-m \in D /\ e[-m] = e2[-m])
      BY <3>2, <3>3 DEF Member
    <3>5. QED
      BY <3>4 DEF OfMember
  <2> HIDE DEF f
  <2>2. OfGroup(groups[k], e) = OfGroup(groups[k], e2)
    <3>1. CASE groups[k].type = "AND"
      <4>1. /\ OfGroup(groups[k], e) = {c \in Cases : \A m \in Range(f) : c \in OfMember(m, e)}
            /\ OfGroup(groups[k], e2) = {c \in Cases : \A m \in Range(f) : c \in OfMember(m, e2)}
        BY <3>1 DEF OfGroup, f
      <4>2. QED
        BY <2>1, <4>1
    <3>2. CASE groups[k].type # "AND"
      <4>1. /\ OfGroup(groups[k], e) = {c \in Cases : \E m \in Range(f) : c \in OfMember(m, e)}
            /\ OfGroup(groups[k], e2) = {c \in Cases : \E m \in Range(f) : c \in OfMember(m, e2)}
        BY <3>2 DEF OfGroup, f
      <4>2. QED
        BY <2>1, <4>1
    <3>3. QED
      BY <3>1, <3>2
  <2>3. QED
    BY <1>6, <2>2
<1>8. PICK d \in [D -> V] : \A k \in D : d[k] = step[<<k, d>>]
  <2>1. V # {}
    BY DEF V
  <2>2. HasSolution(D, V, step)
    <3> HIDE DEF D
    <3>1. QED
      BY <1>4, <1>5, <1>7, <2>1, Solvable
  <2>3. QED
    BY <2>2 DEF HasSolution
<1>9. d = [k \in DOMAIN groups |-> OfGroup(groups[k], d)]
  BY <1>1, <1>6, <1>8
<1>10. Meanings = [k \in DOMAIN groups |-> OfGroup(groups[k], Meanings)]
  BY <1>9, FixedPoint
<1>11. QED
  BY <1>1, <1>10

(* What the database makes of a condition, and of a group. *)
LEMMA WhereIsTrue ==
  ASSUME NEW c, IsCondition(c), NEW row \in Rows
  PROVE  WhereField(c, row) = True <=> IsTrue(c, row)
<1> DEFINE v == row[c.field]
<1>1. /\ v \in Numbers \cup {Null} /\ c.values \subseteq Numbers
      /\ c.type \in Comparisons \cup {"IN", "NIN", "IS", "NIS"}
      /\ c.type \in Comparisons => TheValue(c) \in Numbers /\ c.values = {TheValue(c)}
  BY ConditionIs
<1>2. CASE c.type \in {"IS", "NIS"}
  BY <1>2 DEF WhereField, IsTrue, Truth, True, False
<1>3. CASE c.type \notin {"IS", "NIS"} /\ v = Null
  BY <1>3 DEF WhereField, IsTrue, Truth, True, False, Unknown
<1>4. CASE c.type \notin {"IS", "NIS"} /\ v # Null
  <2>1. IsTrue(c, row) <=> v \in Satisfying(c)
    BY <1>4 DEF IsTrue
  <2>2. v \in Numbers
    BY <1>1, <1>4
  <2>3. CASE c.type \in {"IN", "NIN"}
    <3>1. v \in Satisfying(c) <=> IF c.type = "IN" THEN v \in c.values ELSE v \notin c.values
      BY <2>2, <2>3 DEF Satisfying
    <3>2. QED
      BY <1>4, <2>1, <2>3, <3>1 DEF WhereField, Truth, True, False
  <2>4. CASE c.type \in Comparisons
    <3> DEFINE u == TheValue(c)
    <3>1. c.values = {u} /\ u \in Nat /\ v \in Nat
      BY <1>1, <2>2, <2>4, NumbersAre
    <3>2. WhereField(c, row) = Truth(Compares(c.type, v, u))
      BY <1>4, <2>4 DEF WhereField, Comparisons
    <3> HIDE DEF u
    <3>3. v \in Satisfying(c) <=> Compares(c.type, v, u)
      BY <2>2, <2>4, <3>1 DEF Satisfying, Compares, Comparisons
    <3>4. WhereField(c, row) = True <=> Compares(c.type, v, u)
      BY <3>2 DEF Truth, True, False
    <3>5. QED
      BY <2>1, <3>3, <3>4
  <2>5. QED
    BY <1>1, <1>4, <2>3, <2>4
<1>5. QED
  BY <1>2, <1>3, <1>4

LEMMA GroupWhere ==
  ASSUME NEW o, IsGroup(o), o.filters # <<>>, Members(o) # {},
         NEW row, NEW w, \A m \in Members(o) : w[m] \in 0..2
  PROVE  /\ o.type = "AND" => (Evaluated(o, row, w) = True <=> \A m \in Members(o) : w[m] = True)
         /\ o.type = "OR" => (Evaluated(o, row, w) = True <=> \E m \in Members(o) : w[m] = True)
<1> DEFINE values == {w[m] : m \in Members(o)}
<1>1. values \in SUBSET (0..2) /\ values # {}
  OBVIOUS
<1>2. Evaluated(o, row, w) = IF o.type = "AND" THEN Min(values) ELSE Max(values)
  BY DEF Evaluated
<1>3. /\ (\A x \in values : x = 2) <=> \A m \in Members(o) : w[m] = 2
      /\ 2 \in values <=> \E m \in Members(o) : w[m] = 2
  OBVIOUS
<1> HIDE DEF values
<1>4. (Min(values) = 2 <=> \A x \in values : x = 2) /\ (Max(values) = 2 <=> 2 \in values)
  BY <1>1, TwoOf
<1>5. QED
  BY <1>2, <1>3, <1>4 DEF True

(* An object that is no empty group is true of a row if what it means holds. *)
LEMMA WhereMeaning ==
  ASSUME TypeInv, ShapeInv, outcome = "parsed", NEW row \in Rows
  PROVE  Where(ParsedFilter, row) = True <=>
           {i \in DOMAIN conditions : IsTrue(conditions[i], row)} \in MeaningOf(result)
<1> DEFINE f == ParsedFilter
           D == DOMAIN f.objects
           true == {i \in DOMAIN conditions : IsTrue(conditions[i], row)}
<1>1. /\ f.top = result /\ D = 1..Len(conditions) \cup {-k : k \in 1..Len(groups)}
      /\ Len(conditions) \in Nat /\ Len(groups) \in Nat /\ DOMAIN conditions = 1..Len(conditions)
  BY ObjectsAre, Here
<1>2. WellMade(f) /\ IsTree(f) /\ result \in D
  BY <1>1, ParsedIsWellMade DEF WellMade, IsTree
<1>3. /\ \A i \in 1..Len(conditions) : f.objects[i] = conditions[i] /\ IsCondition(conditions[i]) /\ ~IsGroup(conditions[i])
      /\ \A k \in 1..Len(groups) : f.objects[-k] = groups[k] /\ IsGroup(groups[k])
  BY ObjectsAre
<1>4. PICK w \in [D -> 0..2] : /\ \A m \in D : w[m] = Evaluated(f.objects[m], row, w)
                               /\ Where(f, row) = w[f.top]
  BY <1>2, WhereSolved
<1>5. true \in Cases
  BY DEF Cases
<1> DEFINE S == {m \in D : IsProper(f.objects[m]) => (w[m] = True <=> true \in OfMember(m, Meanings))}
<1>w. \A m \in D : IsGroup(f.objects[m]) => \A n \in Members(f.objects[m]) : IsProper(f.objects[n]) /\ n \in D
  BY <1>2, MembersOfTree DEF WellMade
<1> HIDE DEF f
<1>6. ASSUME NEW m \in D, IsGroup(f.objects[m]) => Members(f.objects[m]) \subseteq S PROVE m \in S
  <2> SUFFICES ASSUME IsProper(f.objects[m]) PROVE w[m] = True <=> true \in OfMember(m, Meanings)
    OBVIOUS
  <2>1. CASE m \in 1..Len(conditions)
    <3>1. w[m] = True <=> IsTrue(conditions[m], row)
      <4>1. w[m] = WhereField(conditions[m], row)
        BY <1>3, <1>4, <2>1 DEF Evaluated
      <4>2. QED
        BY <1>3, <2>1, <4>1, WhereIsTrue
    <3>2. OfMember(m, Meanings) = {c \in Cases : m \in c}
      BY <1>1, <2>1 DEF OfMember, Holds
    <3>3. m \in true <=> IsTrue(conditions[m], row)
      BY <1>1, <2>1
    <3> HIDE DEF true
    <3>4. QED
      BY <1>5, <3>1, <3>2, <3>3
  <2>2. CASE m \in {-k : k \in 1..Len(groups)}
    <3>1. PICK k \in 1..Len(groups) : m = -k
      BY <2>2
    <3>2. -m = k /\ ~(m > 0)
      BY <1>1, <3>1
    <3> DEFINE g == groups[k]
    <3>3. f.objects[m] = g /\ IsGroup(g)
      BY <1>3, <3>1
    <3>4. OfMember(m, Meanings) = OfGroup(g, Meanings)
      BY <3>2, MeaningsSolved DEF OfMember
    <3>5. w[m] = Evaluated(g, row, w)
      BY <1>4, <3>3
    <3>6. Range(g.filters) = Members(g)
      BY DEF Range, Members
    <3>7. g.type \in {"AND", "OR"}
      BY <3>3, ConditionIs DEF IsProper
    <3>8. \A n \in Members(g) : w[n] \in 0..2 /\ (w[n] = True <=> true \in OfMember(n, Meanings))
      BY <1>6, <1>w, <3>3
    <3>n. g.filters # <<>> /\ Members(g) # {}
      <4>1. g.filters # <<>>
        BY <3>3, ConditionIs DEF IsProper
      <4>2. QED
        BY <1>2, <3>3, <4>1, MembersOfTree
    <3>e. /\ g.type = "AND" => (Evaluated(g, row, w) = True <=> \A n \in Members(g) : w[n] = True)
          /\ g.type = "OR" => (Evaluated(g, row, w) = True <=> \E n \in Members(g) : w[n] = True)
      <4> HIDE DEF g
      <4>1. \A n \in Members(g) : w[n] \in 0..2
        BY <3>8
      <4>2. IsGroup(g) /\ g.filters # <<>> /\ Members(g) # {}
        BY <3>3, <3>n
      <4>3. QED
        BY ONLY <4>1, <4>2, GroupWhere
    <3> HIDE DEF g, true
    <3>9. CASE g.type = "AND"
      <4>1. Evaluated(g, row, w) = True <=> \A n \in Members(g) : w[n] = True
        BY <3>9, <3>e
      <4>2. OfGroup(g, Meanings) = {c \in Cases : \A n \in Members(g) : c \in OfMember(n, Meanings)}
        BY <3>6, <3>9 DEF OfGroup
      <4>3. QED
        BY <1>5, <3>4, <3>5, <3>8, <4>1, <4>2
    <3>10. CASE g.type = "OR"
      <4>1. Evaluated(g, row, w) = True <=> \E n \in Members(g) : w[n] = True
        BY <3>10, <3>e
      <4>2. OfGroup(g, Meanings) = {c \in Cases : \E n \in Members(g) : c \in OfMember(n, Meanings)}
        BY <3>6, <3>10 DEF OfGroup
      <4>3. QED
        BY <1>5, <3>4, <3>5, <3>8, <4>1, <4>2
    <3>11. QED
      BY <3>7, <3>9, <3>10
  <2>3. QED
    BY <1>1, <2>1, <2>2
<1>7. S = D
  <2>1. S \subseteq D
    OBVIOUS
  <2> HIDE DEF S, true
  <2>2. QED
    BY <1>2, <1>6, <2>1, TreeInduction
<1>8. IsProper(f.objects[result])
  BY <1>1, <1>2 DEF WellMade, Outermost
<1>9. w[result] = True <=> true \in OfMember(result, Meanings)
  BY <1>2, <1>7, <1>8
<1>10. QED
  BY <1>1, <1>4, <1>9 DEF MeaningOf, f

(* FilteredAsWritten: a READ with the filter JsonFilter's constructor makes of a
   string selects exactly the rows of which the string is true, if AND binds more
   tightly than OR and no parenthesis is one of the exceptions.  In the server's
   memory it lets pass those, too, unless the string asks for null, and only
   those, unless the row has a null the string looks at. *)
THEOREM FiltersSelectWhatTheirStringsSay == Spec => []FilteredAsWritten
<1>1. TypeInv /\ ShapeInv /\ ParsedAsWritten => FilteredAsWritten
  <2> SUFFICES ASSUME TypeInv, ShapeInv, ParsedAsWritten, outcome = "parsed", ~tangled, NEW row \in Rows
               PROVE  LET own     == ParsedFilter
                          asked   == Conditions(own)
                          true    == {i \in DOMAIN conditions : IsTrue(conditions[i], row)}
                          written == true \in Meaning(levels[1])
                      IN  /\ Where(own, row) = True <=> written
                          /\ written /\ ~AsksForNull(asked) => IsFiltered(own, row)
                          /\ IsFiltered(own, row) /\ ~Lacks(row, asked) => written
    BY DEF FilteredAsWritten
  <2>1. MeaningOf(result) = Meaning(levels[1])
    BY DEF ParsedAsWritten
  <2>2. Where(ParsedFilter, row) = True <=>
          {i \in DOMAIN conditions : IsTrue(conditions[i], row)} \in Meaning(levels[1])
    BY <2>1, WhereMeaning
  <2>3. Alike(Where(ParsedFilter, row), IsFiltered(ParsedFilter, row), Conditions(ParsedFilter), row)
    BY ParsedIsWellMade, FilterAlike
  <2>4. QED
    BY <2>2, <2>3 DEF Alike
<1>2. QED
  BY <1>1, ShapeIsKept, FiltersMeanTheirStrings, PTL
=============================================================================
