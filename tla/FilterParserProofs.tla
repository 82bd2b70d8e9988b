-------------------------- MODULE FilterParserProofs --------------------------
(***************************************************************************)
(* Proofs about FilterParser for strings with any conditions and any depth *)
(* of parentheses: the types of its groups, and that a filter means what   *)
(* the string says.                                                        *)
(*                                                                         *)
(* The invariant has two halves.  TypeInv says what the objects are and    *)
(* where on the stack they stand; WrittenInv what they mean: a finished    *)
(* group what was written of it, those on the stack what the levels of the *)
(* reference say.                                                          *)
(***************************************************************************)
EXTENDS FilterParser, SequenceTheorems, TLAPS

-----------------------------------------------------------------------------
(* Facts about sequences: all of them are functions of their positions. *)

LEMMA FrontOf ==
  ASSUME NEW S, NEW s \in Seq(S), s # <<>>
  PROVE  /\ Len(s) \in Nat \ {0} /\ DOMAIN s = 1..Len(s)
         /\ Front(s) \in Seq(S) /\ Len(Front(s)) = Len(s) - 1
         /\ \A i \in 1..Len(s) - 1 : Front(s)[i] = s[i] /\ s[i] \in S
         /\ Last(s) = s[Len(s)] /\ Last(s) \in S
<1>1. Len(s) \in Nat \ {0} /\ DOMAIN s = 1..Len(s) /\ \A i \in 1..Len(s) : s[i] \in S
  BY EmptySeq, LenProperties, ElementOfSeq
<1>2. /\ SubSeq(s, 1, Len(s) - 1) \in Seq(S)
      /\ Len(SubSeq(s, 1, Len(s) - 1)) = IF 1 <= Len(s) - 1 THEN Len(s) - 1 - 1 + 1 ELSE 0
      /\ \A i \in 1..Len(s) - 1 - 1 + 1 : SubSeq(s, 1, Len(s) - 1)[i] = s[1 + i - 1]
  BY <1>1, SubSeqProperties
<1>3. QED
  BY <1>1, <1>2 DEF Front, Last

LEMMA AppendOf ==
  ASSUME NEW S, NEW s \in Seq(S), NEW e \in S
  PROVE  /\ Append(s, e) \in Seq(S) /\ Len(Append(s, e)) = Len(s) + 1
         /\ \A i \in 1..Len(s) : Append(s, e)[i] = s[i] /\ s[i] \in S
         /\ Append(s, e)[Len(s) + 1] = e /\ Len(s) \in Nat /\ DOMAIN s = 1..Len(s)
         /\ DOMAIN Append(s, e) = 1..Len(s) + 1 /\ Append(s, e) # <<>>
<1>1. Len(s) \in Nat /\ DOMAIN s = 1..Len(s) /\ \A i \in 1..Len(s) : s[i] \in S
  BY LenProperties, ElementOfSeq
<1>2. QED
  BY <1>1, AppendProperties, LenProperties

LEMMA ExceptOf ==
  ASSUME NEW S, NEW s \in Seq(S), NEW k \in 1..Len(s), NEW e \in S
  PROVE  /\ [s EXCEPT ![k] = e] \in Seq(S) /\ Len([s EXCEPT ![k] = e]) = Len(s)
         /\ \A i \in 1..Len(s) : [s EXCEPT ![k] = e][i] = (IF i = k THEN e ELSE s[i]) /\ s[i] \in S
         /\ DOMAIN [s EXCEPT ![k] = e] = 1..Len(s) /\ [s EXCEPT ![k] = e] # <<>>
<1>1. Len(s) \in Nat /\ DOMAIN s = 1..Len(s) /\ \A i \in 1..Len(s) : s[i] \in S
  BY LenProperties, ElementOfSeq
<1>2. [s EXCEPT ![k] = e] \in Seq(S) /\ Len([s EXCEPT ![k] = e]) = Len(s)
  BY <1>1, ExceptSeq
<1>3. QED
  BY <1>1, <1>2, EmptySeq, LenProperties, ElementOfSeq

-----------------------------------------------------------------------------
(* Types.  The parts of the invariant are predicates of values of the
   variables, so that the lemmas about them need no primes: gs is a value of
   groups, ch of children, ls of levels, r of read. *)

Kinds == {"none", "AND", "OR"}
Group == [type : Kinds, filters : Seq(Int)]
LevelOf(cs) == [before : SUBSET cs, operand : SUBSET cs, connective : Kinds, or : BOOLEAN]

(* Member m of group k, among n groups and r conditions. *)
Member(m, k, n, r) == m \in 1..r \/ (-m \in 1..n /\ -m # k)

GroupsRight(gs, r) ==
  /\ gs \in Seq(Group) /\ gs # <<>>
  /\ \A k \in 1..Len(gs) :
       /\ Len(gs[k].filters) > 1 => gs[k].type # "none"
       /\ \A i \in 1..Len(gs[k].filters) : Member(gs[k].filters[i], k, Len(gs), r)

ChildrenRight(ch, n) ==
  /\ ch \in Seq(1..n) /\ ch # <<>>
  /\ \A i, j \in 1..Len(ch) : ch[i] = ch[j] => i = j

OnStack(ch, k) == \E i \in 1..Len(ch) : ch[i] = k

(* A group whose only member went to the group below. *)
Spent(gs, ch, k) == Len(gs[k].filters) = 1 /\ ~OnStack(ch, k)

(* A condition is at one place, but for groups that are spent. *)
OnceInv(gs, ch) ==
  \A k, l \in 1..Len(gs) : \A i \in 1..Len(gs[k].filters), j \in 1..Len(gs[l].filters) :
    gs[k].filters[i] = gs[l].filters[j] /\ gs[k].filters[i] > 0 /\ ~(k = l /\ i = j) =>
      Spent(gs, ch, k) \/ Spent(gs, ch, l)

(* A group on the stack has no member at its place or below. *)
NoLower(gs, ch, i) ==
  \A j \in 1..i : \A x \in 1..Len(gs[ch[i]].filters) : gs[ch[i]].filters[x] # -ch[j]
AboveInv(gs, ch) == \A i \in 1..Len(ch) : NoLower(gs, ch, i)

TypeInv ==
  /\ conditions \in Seq(Range(conditions)) /\ read \in 0..Len(conditions)
  /\ outcome \in {"parsing", "parsed", "refused"} /\ expected \in {"operand", "connective"}
  /\ levels \in Seq(LevelOf(Cases)) /\ levels # <<>>
  /\ GroupsRight(groups, read) /\ ChildrenRight(children, Len(groups))
  /\ OnceInv(groups, children) /\ AboveInv(groups, children)

-----------------------------------------------------------------------------
(* What the changes make of the groups, at each position. *)

LEMMA GroupOf ==
  ASSUME NEW gs \in Seq(Group), NEW k \in 1..Len(gs)
  PROVE  /\ Len(gs) \in Nat /\ DOMAIN gs = 1..Len(gs)
         /\ gs[k] \in Group /\ gs[k].type \in Kinds /\ gs[k].filters \in Seq(Int)
         /\ gs[k] = [type |-> gs[k].type, filters |-> gs[k].filters]
         /\ Len(gs[k].filters) \in Nat /\ DOMAIN gs[k].filters = 1..Len(gs[k].filters)
         /\ \A i \in 1..Len(gs[k].filters) : gs[k].filters[i] \in Int
<1>1. Len(gs) \in Nat /\ DOMAIN gs = 1..Len(gs) /\ gs[k] \in Group
  BY LenProperties, ElementOfSeq
<1>2. gs[k].type \in Kinds /\ gs[k].filters \in Seq(Int)
      /\ gs[k] = [type |-> gs[k].type, filters |-> gs[k].filters]
  BY <1>1 DEF Group
<1>3. QED
  BY <1>1, <1>2, LenProperties, ElementOfSeq

LEMMA FieldsOf ==
  ASSUME NEW g \in Group
  PROVE  \A x : /\ [g EXCEPT !.filters = x] = [type |-> g.type, filters |-> x]
               /\ [g EXCEPT !.type = x] = [type |-> x, filters |-> g.filters]
<1>1. g \in [type : Kinds, filters : Seq(Int)]
  BY DEF Group
<1>2. \A x : [g EXCEPT !.filters = x] = [type |-> g.type, filters |-> x]
  BY ONLY <1>1
<1>3. \A x : [g EXCEPT !.type = x] = [type |-> x, filters |-> g.filters]
  BY ONLY <1>1
<1>4. QED
  BY <1>2, <1>3

(* Group k becomes g. *)
LEMMA ChangeOf ==
  ASSUME NEW gs \in Seq(Group), NEW k \in 1..Len(gs), NEW g \in Group
  PROVE  /\ [gs EXCEPT ![k] = g] \in Seq(Group) /\ [gs EXCEPT ![k] = g] # <<>>
         /\ Len([gs EXCEPT ![k] = g]) = Len(gs)
         /\ [gs EXCEPT ![k] = g][k] = g
         /\ \A l \in 1..Len(gs) : l # k => [gs EXCEPT ![k] = g][l] = gs[l]
BY ExceptOf

(* Member m is put into group k, or the group gets a type. *)
PutInto(gs, k, m) == [gs EXCEPT ![k].filters = Append(@, m)]
GiveType(gs, k, t) == [gs EXCEPT ![k].type = t]

Grown(g, m) == [type |-> g.type, filters |-> Append(g.filters, m)]
Typed(g, t) == [type |-> t, filters |-> g.filters]

LEMMA PutIs ==
  ASSUME NEW gs \in Seq(Group), NEW k \in 1..Len(gs), NEW m
  PROVE  PutInto(gs, k, m) = [gs EXCEPT ![k] = Grown(gs[k], m)]
<1>1. [gs[k] EXCEPT !.filters = Append(@, m)] = Grown(gs[k], m)
  <2>1. gs[k] \in Group
    BY GroupOf
  <2>2. \A x : [gs[k] EXCEPT !.filters = x] = [type |-> gs[k].type, filters |-> x]
    BY <2>1, FieldsOf
  <2>3. QED
    BY ONLY <2>2 DEF Grown
<1>2. QED
  BY <1>1 DEF PutInto

LEMMA TypeIs ==
  ASSUME NEW gs \in Seq(Group), NEW k \in 1..Len(gs), NEW t
  PROVE  GiveType(gs, k, t) = [gs EXCEPT ![k] = Typed(gs[k], t)]
<1>1. [gs[k] EXCEPT !.type = t] = Typed(gs[k], t)
  BY GroupOf, FieldsOf DEF Typed
<1>2. QED
  BY <1>1 DEF GiveType

LEMMA GrownOf ==
  ASSUME NEW gs \in Seq(Group), NEW k \in 1..Len(gs), NEW m \in Int
  PROVE  /\ Grown(gs[k], m) \in Group /\ Grown(gs[k], m).type = gs[k].type
         /\ Len(gs[k].filters) \in Nat
         /\ Len(Grown(gs[k], m).filters) = Len(gs[k].filters) + 1
         /\ Grown(gs[k], m).filters[Len(gs[k].filters) + 1] = m
         /\ \A i \in 1..Len(gs[k].filters) : Grown(gs[k], m).filters[i] = gs[k].filters[i]
<1> DEFINE f == gs[k].filters
<1>1. gs[k] = [type |-> gs[k].type, filters |-> f] /\ gs[k].type \in Kinds /\ f \in Seq(Int) /\ Len(f) \in Nat
  BY GroupOf
<1>2. /\ Append(f, m) \in Seq(Int) /\ Len(Append(f, m)) = Len(f) + 1
      /\ \A i \in 1..Len(f) : Append(f, m)[i] = f[i]
      /\ Append(f, m)[Len(f) + 1] = m
  BY <1>1, AppendOf
<1>3. Grown(gs[k], m) \in Group
  BY <1>1, <1>2 DEF Group, Grown
<1>4. Grown(gs[k], m).type = gs[k].type /\ Grown(gs[k], m).filters = Append(f, m)
  BY DEF Grown
<1>5. QED
  BY <1>1, <1>2, <1>3, <1>4

LEMMA TypedOf ==
  ASSUME NEW gs \in Seq(Group), NEW k \in 1..Len(gs), NEW t \in Kinds
  PROVE  /\ Typed(gs[k], t) \in Group /\ Typed(gs[k], t).type = t
         /\ Typed(gs[k], t).filters = gs[k].filters
BY GroupOf DEF Group, Typed

(* A group is added. *)
LEMMA AddOf ==
  ASSUME NEW gs \in Seq(Group), NEW g \in Group
  PROVE  /\ Append(gs, g) \in Seq(Group) /\ Append(gs, g) # <<>>
         /\ Len(gs) \in Nat /\ Len(Append(gs, g)) = Len(gs) + 1
         /\ Append(gs, g)[Len(gs) + 1] = g
         /\ \A l \in 1..Len(gs) : Append(gs, g)[l] = gs[l]
BY AppendOf

LEMMA SingleOf ==
  ASSUME NEW t \in Kinds, NEW m \in Int
  PROVE  /\ [type |-> t, filters |-> <<m>>] \in Group
         /\ Len(<<m>>) = 1 /\ <<m>>[1] = m /\ DOMAIN <<m>> = {1}
<1>1. <<m>> \in Seq(Int) /\ Len(<<m>>) = 1 /\ <<m>>[1] = m /\ DOMAIN <<m>> = {1}
  OBVIOUS
<1>2. QED
  BY <1>1 DEF Group

(* The last member of group k is replaced by a group. *)
LEMMA WithGroupOf ==
  ASSUME NEW f \in Seq(Int), f # <<>>, NEW n \in Nat
  PROVE  /\ WithGroup(f, n) \in Seq(Int) /\ Len(WithGroup(f, n)) = Len(f)
         /\ Len(f) \in Nat \ {0} /\ Last(f) = f[Len(f)] /\ Last(f) \in Int
         /\ WithGroup(f, n)[Len(f)] = -n
         /\ \A i \in 1..Len(f) - 1 : WithGroup(f, n)[i] = f[i]
<1>1. /\ Len(f) \in Nat \ {0}
      /\ Front(f) \in Seq(Int) /\ Len(Front(f)) = Len(f) - 1
      /\ \A i \in 1..Len(f) - 1 : Front(f)[i] = f[i]
      /\ Last(f) = f[Len(f)] /\ Last(f) \in Int
  BY FrontOf
<1>2. -n \in Int
  OBVIOUS
<1>3. /\ Append(Front(f), -n) \in Seq(Int) /\ Len(Append(Front(f), -n)) = Len(Front(f)) + 1
      /\ \A i \in 1..Len(Front(f)) : Append(Front(f), -n)[i] = Front(f)[i]
      /\ Append(Front(f), -n)[Len(Front(f)) + 1] = -n
  BY <1>1, <1>2, AppendOf
<1>4. WithGroup(f, n) = Append(Front(f), -n)
  BY DEF WithGroup
<1>5. /\ Len(Append(Front(f), -n)) = Len(f) /\ Append(Front(f), -n)[Len(f)] = -n
      /\ \A i \in 1..Len(f) - 1 : Append(Front(f), -n)[i] = f[i]
  BY ONLY <1>1, <1>3
<1>6. QED
  BY ONLY <1>1, <1>3, <1>4, <1>5

-----------------------------------------------------------------------------
(* The stack. *)

LEMMA StackOf ==
  ASSUME NEW n \in Nat, NEW ch, ChildrenRight(ch, n)
  PROVE  /\ Len(ch) \in Nat \ {0} /\ DOMAIN ch = 1..Len(ch)
         /\ \A i \in 1..Len(ch) : ch[i] \in 1..n /\ OnStack(ch, ch[i])
         /\ Last(ch) = ch[Len(ch)] /\ Last(ch) \in 1..n /\ OnStack(ch, Last(ch))
         /\ ~OnStack(ch, n + 1)
<1>1. /\ Len(ch) \in Nat \ {0} /\ DOMAIN ch = 1..Len(ch)
      /\ \A i \in 1..Len(ch) - 1 : ch[i] \in 1..n
      /\ Last(ch) = ch[Len(ch)] /\ Last(ch) \in 1..n
  BY FrontOf DEF ChildrenRight
<1>2. \A i \in 1..Len(ch) : ch[i] \in 1..n
  BY <1>1
<1>3. QED
  BY <1>1, <1>2 DEF OnStack

LEMMA Popped ==
  ASSUME NEW n \in Nat, NEW ch, ChildrenRight(ch, n)
  PROVE  /\ Front(ch) \in Seq(1..n) /\ Len(Front(ch)) = Len(ch) - 1
         /\ \A i \in 1..Len(ch) - 1 : Front(ch)[i] = ch[i]
         /\ \A i, j \in 1..Len(ch) - 1 : Front(ch)[i] = Front(ch)[j] => i = j
         /\ \A k : OnStack(Front(ch), k) <=> OnStack(ch, k) /\ k # Last(ch)
<1>1. /\ Len(ch) \in Nat \ {0} /\ Last(ch) = ch[Len(ch)]
      /\ Front(ch) \in Seq(1..n) /\ Len(Front(ch)) = Len(ch) - 1
      /\ \A i \in 1..Len(ch) - 1 : Front(ch)[i] = ch[i]
  <2>1. ch \in Seq(1..n) /\ ch # <<>>
    BY DEF ChildrenRight
  <2>2. \A i \in 1..Len(ch) - 1 : Front(ch)[i] = ch[i] /\ ch[i] \in 1..n
    BY <2>1, FrontOf
  <2>3. /\ Len(ch) \in Nat \ {0} /\ Last(ch) = ch[Len(ch)]
        /\ Front(ch) \in Seq(1..n) /\ Len(Front(ch)) = Len(ch) - 1
    BY <2>1, FrontOf
  <2>4. QED
    BY <2>2, <2>3
<1>2. \A i, j \in 1..Len(ch) : ch[i] = ch[j] => i = j
  BY DEF ChildrenRight
<1>3. \A k : OnStack(Front(ch), k) <=> OnStack(ch, k) /\ k # Last(ch)
  <2> SUFFICES ASSUME NEW k PROVE OnStack(Front(ch), k) <=> OnStack(ch, k) /\ k # Last(ch)
    OBVIOUS
  <2>1. ASSUME OnStack(Front(ch), k) PROVE OnStack(ch, k) /\ k # Last(ch)
    BY <1>1, <1>2, <2>1 DEF OnStack
  <2>2. ASSUME OnStack(ch, k), k # Last(ch) PROVE OnStack(Front(ch), k)
    <3>1. PICK i \in 1..Len(ch) : ch[i] = k
      BY <2>2 DEF OnStack
    <3>2. i \in 1..Len(Front(ch))
      BY <1>1, <2>2, <3>1
    <3>3. QED
      BY <1>1, <3>1, <3>2 DEF OnStack
  <2>3. QED
    BY <2>1, <2>2
<1>4. \A i, j \in 1..Len(ch) - 1 : Front(ch)[i] = Front(ch)[j] => i = j
  <2> SUFFICES ASSUME NEW i \in 1..Len(ch) - 1, NEW j \in 1..Len(ch) - 1, Front(ch)[i] = Front(ch)[j]
               PROVE  i = j
    OBVIOUS
  <2>1. i \in 1..Len(ch) /\ j \in 1..Len(ch) /\ ch[i] = ch[j]
    BY <1>1
  <2>2. QED
    BY <1>2, <2>1
<1>5. QED
  BY ONLY <1>1, <1>3, <1>4

(* One group may be taken from the stack and a new one put on it. *)
LEMMA Pushed ==
  ASSUME NEW n \in Nat, NEW st \in Seq(1..n), \A i, j \in 1..Len(st) : st[i] = st[j] => i = j
  PROVE  /\ ChildrenRight(Append(st, n + 1), n + 1)
         /\ Len(Append(st, n + 1)) = Len(st) + 1 /\ Append(st, n + 1)[Len(st) + 1] = n + 1
         /\ \A i \in 1..Len(st) : Append(st, n + 1)[i] = st[i]
         /\ \A k : OnStack(Append(st, n + 1), k) <=> OnStack(st, k) \/ k = n + 1
<1>1. st \in Seq(1..n + 1) /\ n + 1 \in 1..n + 1
  BY LenProperties, SeqDef
<1>2. /\ Append(st, n + 1) \in Seq(1..n + 1) /\ Len(Append(st, n + 1)) = Len(st) + 1
      /\ \A i \in 1..Len(st) : Append(st, n + 1)[i] = st[i]
      /\ Append(st, n + 1)[Len(st) + 1] = n + 1 /\ Append(st, n + 1) # <<>> /\ Len(st) \in Nat
  BY <1>1, AppendOf, SMTT(30)
<1>3. \A i \in 1..Len(st) : st[i] \in 1..n
  BY ElementOfSeq
<1>4. \A i, j \in 1..Len(st) + 1 : Append(st, n + 1)[i] = Append(st, n + 1)[j] => i = j
  BY <1>2, <1>3
<1>5. \A k : OnStack(Append(st, n + 1), k) <=> OnStack(st, k) \/ k = n + 1
  <2> SUFFICES ASSUME NEW k PROVE OnStack(Append(st, n + 1), k) <=> OnStack(st, k) \/ k = n + 1
    OBVIOUS
  <2>1. ASSUME OnStack(Append(st, n + 1), k) PROVE OnStack(st, k) \/ k = n + 1
    <3>1. PICK i \in 1..Len(st) + 1 : Append(st, n + 1)[i] = k
      BY <1>2, <2>1 DEF OnStack
    <3>2. CASE i = Len(st) + 1
      BY <1>2, <3>1, <3>2
    <3>3. CASE i \in 1..Len(st)
      BY <1>2, <3>1, <3>3 DEF OnStack
    <3>4. QED
      BY <1>2, <3>2, <3>3
  <2>2. ASSUME OnStack(st, k) \/ k = n + 1 PROVE OnStack(Append(st, n + 1), k)
    BY <1>2, <2>2 DEF OnStack
  <2>3. QED
    BY <2>1, <2>2
<1>6. QED
  BY <1>2, <1>4, <1>5 DEF ChildrenRight

-----------------------------------------------------------------------------
(* What the changes do to the types. *)

(* Groups that leave the stack do not come back. *)
Sinks(n, ch, ch2) == \A k \in 1..n : OnStack(ch2, k) => OnStack(ch, k)

LEMMA PutKeepsTypes ==
  ASSUME NEW r \in Nat, NEW r2 \in Nat, r <= r2, NEW gs, GroupsRight(gs, r), NEW k \in 1..Len(gs),
         NEW m \in Int, Member(m, k, Len(gs), r2), gs[k].filters = <<>> \/ gs[k].type # "none"
  PROVE  GroupsRight(PutInto(gs, k, m), r2)
<1> DEFINE g2 == Grown(gs[k], m)
           gs2 == PutInto(gs, k, m)
<1>1. gs \in Seq(Group)
  BY DEF GroupsRight
<1>10. gs2 = [gs EXCEPT ![k] = g2]
  BY <1>1, PutIs
<1> HIDE DEF gs2
<1>2. /\ g2 \in Group /\ Len(g2.filters) = Len(gs[k].filters) + 1
      /\ g2.filters[Len(gs[k].filters) + 1] = m
      /\ \A i \in 1..Len(gs[k].filters) : g2.filters[i] = gs[k].filters[i]
  BY <1>1, GrownOf
<1>9. g2.type = gs[k].type /\ Len(gs[k].filters) \in Nat
  BY <1>1, GrownOf
<1>3. /\ gs2 \in Seq(Group) /\ gs2 # <<>> /\ Len(gs2) = Len(gs) /\ gs2[k] = g2
      /\ \A l \in 1..Len(gs) : l # k => gs2[l] = gs[l]
  BY <1>1, <1>2, <1>10, ChangeOf
<1> HIDE DEF g2
<1>4. ASSUME NEW l \in 1..Len(gs) PROVE Len(gs2[l].filters) > 1 => gs2[l].type # "none"
  <2>1. CASE l # k
    BY <1>3, <2>1 DEF GroupsRight
  <2>2. CASE l = k
    <3>1. gs[k].filters = <<>> => Len(gs[k].filters) = 0
      BY EmptySeq
    <3>2. QED
      BY <1>2, <1>9, <1>3, <2>2, <3>1
  <2>3. QED
    BY <2>1, <2>2
<1>5. ASSUME NEW l \in 1..Len(gs), NEW i \in 1..Len(gs2[l].filters)
      PROVE  Member(gs2[l].filters[i], l, Len(gs), r2)
  <2>1. CASE l # k
    <3>1. Member(gs[l].filters[i], l, Len(gs), r)
      BY <1>3, <2>1 DEF GroupsRight
    <3>2. QED
      BY <1>3, <2>1, <3>1 DEF Member
  <2>2. CASE l = k /\ i # Len(gs[k].filters) + 1
    <3>1. i \in 1..Len(gs[k].filters) /\ gs2[l].filters[i] = gs[k].filters[i]
      BY <1>2, <1>9, <1>3, <2>2
    <3>2. Member(gs[k].filters[i], k, Len(gs), r)
      BY <3>1 DEF GroupsRight
    <3>3. QED
      BY <2>2, <3>1, <3>2 DEF Member
  <2>3. CASE l = k /\ i = Len(gs[k].filters) + 1
    BY <1>2, <1>3, <2>3
  <2>4. QED
    BY <2>1, <2>2, <2>3
<1>6. GroupsRight(gs2, r2)
  BY <1>3, <1>4, <1>5 DEF GroupsRight
<1>7. QED
  BY <1>6 DEF gs2

(* A member that is a condition is nowhere else, except where it is spent. *)
LEMMA PutKeepsOnce ==
  ASSUME NEW r \in Nat, NEW gs, GroupsRight(gs, r), NEW k \in 1..Len(gs), NEW m \in Int,
         NEW ch, NEW ch2, OnceInv(gs, ch), Sinks(Len(gs), ch, ch2), OnStack(ch2, k),
         m > 0 => \A l \in 1..Len(gs) : \A i \in 1..Len(gs[l].filters) :
                    gs[l].filters[i] = m => Spent(gs, ch2, l)
  PROVE  OnceInv(PutInto(gs, k, m), ch2)
<1> DEFINE g2 == Grown(gs[k], m)
           gs2 == PutInto(gs, k, m)
<1>1. gs \in Seq(Group)
  BY DEF GroupsRight
<1>10. gs2 = [gs EXCEPT ![k] = g2]
  BY <1>1, PutIs
<1> HIDE DEF gs2
<1>2. /\ g2 \in Group /\ Len(g2.filters) = Len(gs[k].filters) + 1
      /\ g2.filters[Len(gs[k].filters) + 1] = m
      /\ \A i \in 1..Len(gs[k].filters) : g2.filters[i] = gs[k].filters[i]
  BY <1>1, GrownOf
<1>9. Len(gs[k].filters) \in Nat
  BY <1>1, GroupOf
<1>3. /\ Len(gs2) = Len(gs) /\ gs2[k] = g2
      /\ \A l \in 1..Len(gs) : l # k => gs2[l] = gs[l]
  BY <1>1, <1>2, <1>10, ChangeOf
<1> HIDE DEF g2
<1>4. \A l \in 1..Len(gs) : Spent(gs, ch, l) \/ Spent(gs, ch2, l) => l # k /\ Spent(gs2, ch2, l)
  BY <1>3 DEF Spent, Sinks
<1>5. ASSUME NEW l \in 1..Len(gs), NEW i \in 1..Len(gs2[l].filters), ~(l = k /\ i = Len(gs[k].filters) + 1)
      PROVE  i \in 1..Len(gs[l].filters) /\ gs2[l].filters[i] = gs[l].filters[i]
  BY <1>2, <1>9, <1>3, <1>5
<1>6. ASSUME NEW l1 \in 1..Len(gs), NEW l2 \in 1..Len(gs),
             NEW i \in 1..Len(gs2[l1].filters), NEW j \in 1..Len(gs2[l2].filters),
             gs2[l1].filters[i] = gs2[l2].filters[j], gs2[l1].filters[i] > 0, ~(l1 = l2 /\ i = j)
      PROVE  Spent(gs2, ch2, l1) \/ Spent(gs2, ch2, l2)
  <2>1. CASE l1 = k /\ i = Len(gs[k].filters) + 1
    <3>1. j \in 1..Len(gs[l2].filters) /\ gs[l2].filters[j] = m /\ m > 0
      BY <1>2, <1>3, <1>5, <1>6, <2>1
    <3>2. QED
      BY <1>4, <3>1
  <2>2. CASE l2 = k /\ j = Len(gs[k].filters) + 1
    <3>1. i \in 1..Len(gs[l1].filters) /\ gs[l1].filters[i] = m /\ m > 0
      BY <1>2, <1>3, <1>5, <1>6, <2>2
    <3>2. QED
      BY <1>4, <3>1
  <2>3. CASE ~(l1 = k /\ i = Len(gs[k].filters) + 1) /\ ~(l2 = k /\ j = Len(gs[k].filters) + 1)
    <3>1. /\ i \in 1..Len(gs[l1].filters) /\ gs2[l1].filters[i] = gs[l1].filters[i]
          /\ j \in 1..Len(gs[l2].filters) /\ gs2[l2].filters[j] = gs[l2].filters[j]
      BY <1>5, <2>3
    <3>2. Spent(gs, ch, l1) \/ Spent(gs, ch, l2)
      BY <1>6, <3>1 DEF OnceInv
    <3>3. QED
      BY <1>4, <3>2
  <2>4. QED
    BY <2>1, <2>2, <2>3
<1>7. OnceInv(gs2, ch2)
  BY <1>3, <1>6 DEF OnceInv
<1>8. QED
  BY <1>7 DEF gs2

(* A member that is a group. *)
Refers(m, n) == m \in Int /\ -m \in 1..n

LEMMA ReferenceOf ==
  ASSUME NEW n \in Nat, NEW r \in Nat, NEW m, Refers(m, n)
  PROVE  ~(m > 0) /\ Member(m, n + 1, n + 1, r)
BY DEF Refers, Member

LEMMA AddKeepsTypes ==
  ASSUME NEW r \in Nat, NEW gs, GroupsRight(gs, r), NEW g \in Group,
         Len(g.filters) \in Nat, ~(Len(g.filters) > 1),
         \A i \in 1..Len(g.filters) : Refers(g.filters[i], Len(gs)),
         NEW ch, NEW ch2, OnceInv(gs, ch), Sinks(Len(gs), ch, ch2)
  PROVE  GroupsRight(Append(gs, g), r) /\ OnceInv(Append(gs, g), ch2)
<1> DEFINE gs2 == Append(gs, g)
           n == Len(gs)
<1>1. gs \in Seq(Group)
  BY DEF GroupsRight
<1>2. /\ gs2 \in Seq(Group) /\ gs2 # <<>> /\ n \in Nat /\ Len(gs2) = n + 1 /\ gs2[n + 1] = g
      /\ \A l \in 1..n : gs2[l] = gs[l]
  BY <1>1, AddOf
<1> HIDE DEF gs2
<1>3. ASSUME NEW l \in 1..n + 1, NEW i \in 1..Len(gs2[l].filters)
      PROVE  Member(gs2[l].filters[i], l, n + 1, r)
  <2>1. CASE l # n + 1
    <3>1. l \in 1..n /\ Member(gs[l].filters[i], l, n, r)
      BY <1>2, <2>1 DEF GroupsRight
    <3>2. QED
      BY <1>2, <3>1 DEF Member
  <2>2. CASE l = n + 1
    BY <1>2, <2>2, ReferenceOf
  <2>3. QED
    BY <2>1, <2>2
<1>4. ASSUME NEW l \in 1..n + 1 PROVE Len(gs2[l].filters) > 1 => gs2[l].type # "none"
  <2>1. CASE l # n + 1
    <3>1. l \in 1..n
      BY <1>2, <2>1
    <3>2. QED
      BY <1>2, <3>1 DEF GroupsRight
  <2>2. CASE l = n + 1
    <3>1. gs2[l].filters = g.filters
      BY <1>2, <2>2
    <3>2. QED
      BY <3>1, Zenon
  <2>3. QED
    BY <2>1, <2>2
<1>5. GroupsRight(gs2, r)
  BY <1>2, <1>3, <1>4 DEF GroupsRight
<1>6. ASSUME NEW l1 \in 1..n + 1, NEW l2 \in 1..n + 1,
             NEW i \in 1..Len(gs2[l1].filters), NEW j \in 1..Len(gs2[l2].filters),
             gs2[l1].filters[i] = gs2[l2].filters[j], gs2[l1].filters[i] > 0, ~(l1 = l2 /\ i = j)
      PROVE  Spent(gs2, ch2, l1) \/ Spent(gs2, ch2, l2)
  <2>1. ASSUME NEW i2 \in 1..Len(g.filters) PROVE ~(g.filters[i2] > 0)
    BY <1>2, ReferenceOf
  <2>2. l1 \in 1..n /\ l2 \in 1..n
    BY <1>2, <1>6, <2>1
  <2>3. Spent(gs, ch, l1) \/ Spent(gs, ch, l2)
    BY <1>2, <1>6, <2>2 DEF OnceInv
  <2>4. QED
    BY <1>2, <2>2, <2>3 DEF Spent, Sinks
<1>7. OnceInv(gs2, ch2)
  BY <1>2, <1>6 DEF OnceInv
<1>8. QED
  BY <1>5, <1>7 DEF gs2

LEMMA TypeKeepsTypes ==
  ASSUME NEW r \in Nat, NEW gs, GroupsRight(gs, r), NEW k \in 1..Len(gs), NEW t \in {"AND", "OR"},
         NEW ch, OnceInv(gs, ch)
  PROVE  GroupsRight(GiveType(gs, k, t), r) /\ OnceInv(GiveType(gs, k, t), ch)
<1> DEFINE g2 == Typed(gs[k], t)
           gs2 == GiveType(gs, k, t)
<1>1. gs \in Seq(Group) /\ t \in Kinds /\ t # "none"
  BY DEF GroupsRight, Kinds
<1>2. gs2 = [gs EXCEPT ![k] = g2]
  BY <1>1, TypeIs
<1>3. g2 \in Group /\ g2.type = t /\ g2.filters = gs[k].filters
  BY <1>1, TypedOf
<1> HIDE DEF gs2, g2
<1>4. /\ gs2 \in Seq(Group) /\ gs2 # <<>> /\ Len(gs2) = Len(gs) /\ gs2[k] = g2
      /\ \A l \in 1..Len(gs) : l # k => gs2[l] = gs[l]
  BY <1>1, <1>2, <1>3, ChangeOf
<1>5. \A l \in 1..Len(gs) : gs2[l].filters = gs[l].filters /\ (gs2[l].type = "none" => gs[l].type = "none")
  BY <1>1, <1>3, <1>4
<1>6. GroupsRight(gs2, r)
  BY <1>4, <1>5 DEF GroupsRight
<1>7. OnceInv(gs2, ch)
  <2> SUFFICES ASSUME NEW l1 \in 1..Len(gs), NEW l2 \in 1..Len(gs),
                      NEW i \in 1..Len(gs2[l1].filters), NEW j \in 1..Len(gs2[l2].filters),
                      gs2[l1].filters[i] = gs2[l2].filters[j], gs2[l1].filters[i] > 0, ~(l1 = l2 /\ i = j)
               PROVE  Spent(gs2, ch, l1) \/ Spent(gs2, ch, l2)
    BY <1>4 DEF OnceInv
  <2>1. gs2[l1].filters = gs[l1].filters /\ gs2[l2].filters = gs[l2].filters
    BY <1>5
  <2>2. Spent(gs, ch, l1) \/ Spent(gs, ch, l2)
    BY <2>1 DEF OnceInv
  <2>3. QED
    BY <2>1, <2>2 DEF Spent
<1>8. QED
  BY <1>6, <1>7 DEF gs2

-----------------------------------------------------------------------------
(* AND takes the last member of an OR. *)

Retained(g, new) == [type |-> g.type, filters |-> WithGroup(g.filters, new)]
TakenFrom(gs, k, new) == [gs EXCEPT ![k].filters = WithGroup(@, new)]
AndOf(m) == [type |-> "AND", filters |-> <<m>>]

LEMMA TakenIs ==
  ASSUME NEW gs \in Seq(Group), NEW k \in 1..Len(gs), NEW new
  PROVE  TakenFrom(gs, k, new) = [gs EXCEPT ![k] = Retained(gs[k], new)]
<1>1. [gs[k] EXCEPT !.filters = WithGroup(@, new)] = Retained(gs[k], new)
  <2>1. gs[k] \in Group
    BY GroupOf
  <2>2. \A x : [gs[k] EXCEPT !.filters = x] = [type |-> gs[k].type, filters |-> x]
    BY <2>1, FieldsOf
  <2>3. QED
    BY ONLY <2>2 DEF Retained
<1>2. QED
  BY <1>1 DEF TakenFrom

LEMMA RetainedOf ==
  ASSUME NEW gs \in Seq(Group), NEW k \in 1..Len(gs), Len(gs[k].filters) > 1, NEW new \in Nat
  PROVE  /\ Retained(gs[k], new) \in Group /\ Retained(gs[k], new).type = gs[k].type
         /\ Len(gs[k].filters) \in Nat \ {0}
         /\ Last(gs[k].filters) = gs[k].filters[Len(gs[k].filters)] /\ Last(gs[k].filters) \in Int
         /\ Len(Retained(gs[k], new).filters) = Len(gs[k].filters)
         /\ Retained(gs[k], new).filters[Len(gs[k].filters)] = -new
         /\ \A i \in 1..Len(gs[k].filters) - 1 : Retained(gs[k], new).filters[i] = gs[k].filters[i]
<1> DEFINE f == gs[k].filters
<1>1. gs[k].type \in Kinds /\ f \in Seq(Int)
  BY GroupOf
<1>2. f # <<>>
  BY EmptySeq
<1>3. /\ WithGroup(f, new) \in Seq(Int) /\ Len(WithGroup(f, new)) = Len(f)
      /\ Len(f) \in Nat \ {0} /\ Last(f) = f[Len(f)] /\ Last(f) \in Int
      /\ WithGroup(f, new)[Len(f)] = -new
      /\ \A i \in 1..Len(f) - 1 : WithGroup(f, new)[i] = f[i]
  BY <1>1, <1>2, WithGroupOf
<1>4. Retained(gs[k], new) \in Group
  BY <1>1, <1>3 DEF Retained, Group
<1>5. Retained(gs[k], new).type = gs[k].type /\ Retained(gs[k], new).filters = WithGroup(f, new)
  BY DEF Retained
<1>6. QED
  BY <1>3, <1>4, <1>5

(* The groups after OpenAnd, at each position. *)
AfterAnd(gs, k) == Append(TakenFrom(gs, k, Len(gs) + 1), AndOf(Last(gs[k].filters)))

LEMMA AfterAndOf ==
  ASSUME NEW gs \in Seq(Group), NEW k \in 1..Len(gs), Len(gs[k].filters) > 1
  PROVE  /\ AfterAnd(gs, k) \in Seq(Group) /\ AfterAnd(gs, k) # <<>>
         /\ Len(gs) \in Nat /\ Len(AfterAnd(gs, k)) = Len(gs) + 1
         /\ \A l \in 1..Len(gs) : l # k => AfterAnd(gs, k)[l] = gs[l]
         /\ AfterAnd(gs, k)[k] = Retained(gs[k], Len(gs) + 1)
         /\ AfterAnd(gs, k)[Len(gs) + 1] = AndOf(Last(gs[k].filters))
         /\ AndOf(Last(gs[k].filters)) \in Group
<1> DEFINE new == Len(gs) + 1
           gs1 == TakenFrom(gs, k, new)
           g2  == Retained(gs[k], new)
           a   == AndOf(Last(gs[k].filters))
<1>1. Len(gs) \in Nat
  BY GroupOf
<1>2. g2 \in Group /\ Last(gs[k].filters) \in Int
  BY <1>1, RetainedOf
<1>3. a \in Group
  BY <1>2, SingleOf DEF AndOf, Kinds
<1>4. gs1 = [gs EXCEPT ![k] = g2]
  BY TakenIs
<1> HIDE DEF gs1, g2, a
<1>5. /\ gs1 \in Seq(Group) /\ Len(gs1) = Len(gs) /\ gs1[k] = g2
      /\ \A l \in 1..Len(gs) : l # k => gs1[l] = gs[l]
  BY <1>2, <1>4, ChangeOf
<1>6. /\ Append(gs1, a) \in Seq(Group) /\ Append(gs1, a) # <<>>
      /\ Len(Append(gs1, a)) = Len(gs1) + 1
      /\ Append(gs1, a)[Len(gs1) + 1] = a
      /\ \A l \in 1..Len(gs1) : Append(gs1, a)[l] = gs1[l]
  BY <1>3, <1>5, AddOf
<1>7. AfterAnd(gs, k) = Append(gs1, a)
  BY DEF AfterAnd, gs1, a
<1>8. QED
  BY <1>1, <1>3, <1>5, <1>6, <1>7 DEF g2, a

LEMMA AndKeepsTypes ==
  ASSUME NEW r \in Nat, NEW gs, GroupsRight(gs, r), NEW k \in 1..Len(gs), Len(gs[k].filters) > 1,
         NEW ch, NEW ch2, OnceInv(gs, ch), Sinks(Len(gs), ch, ch2),
         OnStack(ch, k), OnStack(ch2, Len(gs) + 1)
  PROVE  GroupsRight(AfterAnd(gs, k), r) /\ OnceInv(AfterAnd(gs, k), ch2)
<1> DEFINE gs2 == AfterAnd(gs, k)
           n   == Len(gs)
           f   == gs[k].filters
           f2  == gs2[k].filters
           g3  == gs2[n + 1]
<1>1. gs \in Seq(Group)
  BY DEF GroupsRight
<1>2. /\ gs2 \in Seq(Group) /\ gs2 # <<>> /\ n \in Nat /\ Len(gs2) = n + 1
      /\ \A l \in 1..n : l # k => gs2[l] = gs[l]
      /\ gs2[k] = Retained(gs[k], n + 1) /\ g3 = AndOf(Last(f))
  BY <1>1, AfterAndOf
<1>3. /\ gs2[k].type = gs[k].type /\ Len(f) \in Nat \ {0} /\ Last(f) = f[Len(f)] /\ Last(f) \in Int
      /\ Len(f2) = Len(f) /\ f2[Len(f)] = -(n + 1)
      /\ \A i \in 1..Len(f) - 1 : f2[i] = f[i]
  BY <1>1, <1>2, RetainedOf
<1>4. g3.type = "AND" /\ Len(g3.filters) = 1 /\ g3.filters[1] = f[Len(f)]
  BY <1>2, <1>3, SingleOf DEF AndOf, Kinds
<1> HIDE DEF gs2, n, f, f2, g3
<1>5. Len(f) > 1 /\ n = Len(gs) /\ k \in 1..n
  BY DEF f, n
<1>6. ~(f2[Len(f)] > 0) /\ Member(f2[Len(f)], k, n + 1, r)
  BY <1>2, <1>3, <1>5 DEF Member
(* Where a member was before. *)
<1> DEFINE Place(l) == IF l = n + 1 THEN k ELSE l
           Index(l, i) == IF l = n + 1 THEN Len(f) ELSE i
<1>7. ASSUME NEW l \in 1..n + 1, NEW i \in 1..Len(gs2[l].filters), ~(l = k /\ i = Len(f))
      PROVE  /\ Place(l) \in 1..n /\ Index(l, i) \in 1..Len(gs[Place(l)].filters)
             /\ gs2[l].filters[i] = gs[Place(l)].filters[Index(l, i)]
  <2>1. CASE l = n + 1
    BY <1>2, <1>3, <1>4, <1>5, <2>1 DEF f, g3
  <2>2. CASE l # n + 1 /\ l # k
    BY <1>2, <2>2
  <2>3. CASE l = k
    <3>1. i \in 1..Len(f) - 1
      BY <1>3, <1>7, <2>3 DEF f2
    <3>2. Place(l) = k /\ Index(l, i) = i
      BY <1>5, <2>3
    <3>3. gs2[l].filters[i] = f[i] /\ f = gs[k].filters
      BY <1>3, <2>3, <3>1 DEF f, f2
    <3>4. QED
      BY <1>3, <1>5, <3>1, <3>2, <3>3
  <2>4. QED
    BY <2>1, <2>2, <2>3
<1>8. ASSUME NEW l \in 1..n + 1, NEW i \in 1..Len(gs2[l].filters)
      PROVE  Member(gs2[l].filters[i], l, n + 1, r)
  <2>1. CASE l = k /\ i = Len(f)
    BY <1>6, <2>1 DEF f2
  <2>2. CASE ~(l = k /\ i = Len(f))
    <3>1. Member(gs2[l].filters[i], Place(l), n, r)
      BY <1>5, <1>7, <2>2 DEF GroupsRight
    <3>2. QED
      BY <1>2, <3>1 DEF Member
  <2>3. QED
    BY <2>1, <2>2
<1>9. ASSUME NEW l \in 1..n + 1 PROVE Len(gs2[l].filters) > 1 => gs2[l].type # "none"
  <2>1. CASE l = n + 1
    BY <1>4, <2>1 DEF g3
  <2>2. CASE l = k
    BY <1>3, <1>5, <2>2 DEF GroupsRight, f
  <2>3. CASE l # n + 1 /\ l # k
    <3>1. l \in 1..Len(gs) /\ gs2[l] = gs[l]
      BY <1>2, <1>5, <2>3
    <3>2. Len(gs[l].filters) > 1 => gs[l].type # "none"
      BY <3>1 DEF GroupsRight
    <3>3. QED
      BY <3>1, <3>2, Zenon
  <2>4. QED
    BY <2>1, <2>2, <2>3
<1>10. GroupsRight(gs2, r)
  BY <1>2, <1>8, <1>9 DEF GroupsRight
<1>11. \A l \in 1..n : Spent(gs, ch, l) => l # k /\ Spent(gs2, ch2, l)
  BY <1>2, <1>5 DEF Spent, Sinks
<1>12. ASSUME NEW l1 \in 1..n + 1, NEW l2 \in 1..n + 1,
              NEW i \in 1..Len(gs2[l1].filters), NEW j \in 1..Len(gs2[l2].filters),
              gs2[l1].filters[i] = gs2[l2].filters[j], gs2[l1].filters[i] > 0, ~(l1 = l2 /\ i = j)
       PROVE  Spent(gs2, ch2, l1) \/ Spent(gs2, ch2, l2)
  <2>1. ~(l1 = k /\ i = Len(f)) /\ ~(l2 = k /\ j = Len(f))
    BY <1>6, <1>12 DEF f2
  <2>2. /\ Place(l1) \in 1..n /\ Index(l1, i) \in 1..Len(gs[Place(l1)].filters)
        /\ gs2[l1].filters[i] = gs[Place(l1)].filters[Index(l1, i)]
        /\ Place(l2) \in 1..n /\ Index(l2, j) \in 1..Len(gs[Place(l2)].filters)
        /\ gs2[l2].filters[j] = gs[Place(l2)].filters[Index(l2, j)]
    BY <1>7, <2>1
  <2>3. ~(Place(l1) = Place(l2) /\ Index(l1, i) = Index(l2, j))
    <3>1. \A l \in 1..n + 1 : l = n + 1 => Len(gs2[l].filters) = 1
      BY <1>4 DEF g3
    <3>2. QED
      BY <1>2, <1>5, <1>12, <2>1, <3>1
  <2>4. Spent(gs, ch, Place(l1)) \/ Spent(gs, ch, Place(l2))
    <3> DEFINE p1 == Place(l1)
               p2 == Place(l2)
               q1 == Index(l1, i)
               q2 == Index(l2, j)
    <3>1. /\ p1 \in 1..Len(gs) /\ p2 \in 1..Len(gs)
          /\ q1 \in 1..Len(gs[p1].filters) /\ q2 \in 1..Len(gs[p2].filters) /\ ~(p1 = p2 /\ q1 = q2)
          /\ gs[p1].filters[q1] = gs[p2].filters[q2] /\ gs[p1].filters[q1] > 0
      BY <1>5, <1>12, <2>2, <2>3
    <3> HIDE DEF p1, p2, q1, q2
    <3>2. Spent(gs, ch, p1) \/ Spent(gs, ch, p2)
      BY <3>1 DEF OnceInv
    <3>3. QED
      BY <3>2 DEF p1, p2
  <2>5. ASSUME NEW l \in 1..n + 1, Place(l) \in 1..n, Spent(gs, ch, Place(l)) PROVE Spent(gs2, ch2, l)
    <3>1. Place(l) # k /\ Spent(gs2, ch2, Place(l))
      BY <1>11, <2>5
    <3>2. Place(l) = l
      BY <3>1
    <3>3. QED
      BY <3>1, <3>2
  <2>6. QED
    BY <2>2, <2>4, <2>5
<1>13. OnceInv(gs2, ch2)
  BY <1>2, <1>12 DEF OnceInv
<1>14. QED
  BY <1>10, <1>13 DEF gs2

-----------------------------------------------------------------------------
(* The levels. *)

LEMMA LevelIs ==
  ASSUME NEW cs, NEW l \in LevelOf(cs)
  PROVE  /\ l.before \subseteq cs /\ l.operand \subseteq cs /\ l.connective \in Kinds /\ l.or \in BOOLEAN
         /\ Meaning(l) \subseteq cs
         /\ l = [before |-> l.before, operand |-> l.operand, connective |-> l.connective, or |-> l.or]
BY DEF LevelOf, Meaning

LEMMA WithOperandOf ==
  ASSUME NEW cs, NEW l \in LevelOf(cs), NEW m, m \subseteq cs
  PROVE  /\ WithOperand(l, m) \in LevelOf(cs)
         /\ WithOperand(l, m).connective = l.connective /\ WithOperand(l, m).or = l.or
         /\ l.connective = "AND" => WithOperand(l, m).before = l.before /\ WithOperand(l, m).operand = l.operand \cap m
         /\ l.connective # "AND" => WithOperand(l, m).before = Meaning(l) /\ WithOperand(l, m).operand = m
<1>1. Meaning(l) \subseteq cs
  BY LevelIs
<1>2. CASE l.connective = "AND"
  <2>1. WithOperand(l, m) = [l EXCEPT !.operand = @ \cap m]
    BY <1>2 DEF WithOperand
  <2>2. QED
    BY <1>2, <2>1 DEF LevelOf
<1>3. CASE l.connective # "AND"
  <2>1. WithOperand(l, m) = [l EXCEPT !.before = Meaning(l), !.operand = m]
    BY <1>3 DEF WithOperand
  <2>2. QED
    BY <1>1, <1>3, <2>1 DEF LevelOf
<1>4. QED
  BY <1>2, <1>3

(* What a connective makes of a level. *)
Joined(l, t) == [before |-> l.before, operand |-> l.operand, connective |-> t, or |-> l.or \/ t = "OR"]
Connected(ls, t) == [ls EXCEPT ![Len(ls)].connective = t, ![Len(ls)].or = @ \/ t = "OR"]

LEMMA JoinedOf ==
  ASSUME NEW cs, NEW l \in LevelOf(cs), NEW t \in {"AND", "OR"}
  PROVE  Joined(l, t) \in LevelOf(cs)
BY LevelIs DEF Joined, LevelOf, Kinds

LEMMA ConnectedIs ==
  ASSUME NEW cs, NEW ls \in Seq(LevelOf(cs)), ls # <<>>, NEW t
  PROVE  Connected(ls, t) = [ls EXCEPT ![Len(ls)] = Joined(ls[Len(ls)], t)]
<1> DEFINE k == Len(ls)
           l == ls[k]
<1>1. k \in 1..Len(ls) /\ l \in LevelOf(cs) /\ DOMAIN ls = 1..Len(ls)
  BY FrontOf
<1>2. l \in [before : SUBSET cs, operand : SUBSET cs, connective : Kinds, or : BOOLEAN]
  BY <1>1 DEF LevelOf
<1> HIDE DEF l
<1>3. [[l EXCEPT !.connective = t] EXCEPT !.or = @ \/ t = "OR"] = Joined(l, t)
  <2>1. l = [before |-> l.before, operand |-> l.operand, connective |-> l.connective, or |-> l.or]
    BY <1>1, LevelIs
  <2>2. \A x, y : [[l EXCEPT !.connective = x] EXCEPT !.or = y] =
                  [before |-> l.before, operand |-> l.operand, connective |-> x, or |-> y]
    <3>1. \A x : [l EXCEPT !.connective = x] =
                  [before |-> l.before, operand |-> l.operand, connective |-> x, or |-> l.or]
      BY ONLY <1>2
    <3>2. \A x, y : [[before |-> l.before, operand |-> l.operand, connective |-> x, or |-> l.or] EXCEPT !.or = y] =
                    [before |-> l.before, operand |-> l.operand, connective |-> x, or |-> y]
      OBVIOUS
    <3>3. QED
      BY ONLY <3>1, <3>2
  <2>3. [l EXCEPT !.connective = t].or = l.or
    BY ONLY <1>2
  <2>4. QED
    BY ONLY <2>2, <2>3 DEF Joined
<1>4. QED
  BY <1>1, <1>3 DEF Connected, l

-----------------------------------------------------------------------------
(* The types are kept. *)

(* It is enough to look at the places where the stack or the group changes. *)
LEMMA AboveKept ==
  ASSUME NEW gs, NEW ch, AboveInv(gs, ch), NEW gs2, NEW ch2,
         \A i \in 1..Len(ch2) :
           \/ i \in 1..Len(ch) /\ (\A j \in 1..i : ch2[j] = ch[j]) /\ gs2[ch[i]] = gs[ch[i]]
           \/ NoLower(gs2, ch2, i)
  PROVE  AboveInv(gs2, ch2)
<1> SUFFICES ASSUME NEW i \in 1..Len(ch2) PROVE NoLower(gs2, ch2, i)
  BY DEF AboveInv
<1>1. CASE i \in 1..Len(ch) /\ (\A j \in 1..i : ch2[j] = ch[j]) /\ gs2[ch[i]] = gs[ch[i]]
  <2>1. NoLower(gs, ch, i) /\ i \in 1..i
    BY <1>1 DEF AboveInv
  <2>2. QED
    BY <1>1, <2>1 DEF NoLower
<1>2. QED
  BY <1>1

LEMMA InitTypes == ASSUME Init PROVE TypeInv
<1>1. conditions \in Seq(Range(conditions)) /\ read \in 0..Len(conditions)
  <2>1. conditions \in Seq(Range(conditions))
    BY ParserAssumption DEF Init
  <2>2. Len(conditions) \in Nat
    BY <2>1, LenProperties
  <2>3. QED
    BY <2>1, <2>2 DEF Init
<1>2. levels \in Seq(LevelOf(Cases)) /\ levels # <<>>
  <2>1. Level \in LevelOf(Cases)
    BY DEF Level, LevelOf, Kinds
  <2>2. <<Level>> \in Seq(LevelOf(Cases)) /\ <<Level>> # <<>>
    BY <2>1
  <2>3. QED
    BY <2>2 DEF Init
<1>3. groups = <<Made>> /\ groups \in Seq(Group) /\ Len(groups) = 1 /\ groups # <<>> /\ groups[1] = Made
  <2>1. Made \in Group
    BY EmptySeq DEF Made, Group, Kinds
  <2>2. <<Made>> \in Seq(Group) /\ Len(<<Made>>) = 1 /\ <<Made>> # <<>> /\ <<Made>>[1] = Made
    BY <2>1
  <2>3. QED
    BY <2>2 DEF Init
<1>4. \A k \in 1..Len(groups) : Len(groups[k].filters) = 0
  BY <1>3, EmptySeq DEF Made
<1>5. GroupsRight(groups, read) /\ OnceInv(groups, children)
  BY <1>3, <1>4 DEF GroupsRight, OnceInv
<1>6. ChildrenRight(children, Len(groups))
  <2>1. children = <<1>>
    BY DEF Init
  <2>2. <<1>> \in Seq(1..1) /\ <<1>> # <<>> /\ Len(<<1>>) = 1
    OBVIOUS
  <2>3. QED
    BY <1>3, <2>1, <2>2 DEF ChildrenRight
<1>7. AboveInv(groups, children)
  <2>1. \A i \in 1..Len(children) : Len(groups[children[i]].filters) = 0
    BY <1>4, <1>6, <1>3, StackOf
  <2>2. QED
    BY <2>1 DEF AboveInv, NoLower
<1>8. QED
  BY <1>1, <1>2, <1>5, <1>6, <1>7 DEF TypeInv, Init

LEMMA Here ==
  ASSUME TypeInv
  PROVE  /\ Len(groups) \in Nat \ {0} /\ DOMAIN groups = 1..Len(groups) /\ groups \in Seq(Group)
         /\ Len(children) \in Nat \ {0} /\ children \in Seq(1..Len(groups)) /\ children # <<>>
         /\ Current = children[Len(children)] /\ Current \in 1..Len(groups) /\ OnStack(children, Current)
         /\ Len(levels) \in Nat \ {0} /\ levels \in Seq(LevelOf(Cases)) /\ levels # <<>>
         /\ Inner = levels[Len(levels)] /\ Inner \in LevelOf(Cases)
         /\ \A i \in 1..Len(levels) : levels[i] \in LevelOf(Cases)
         /\ read \in Nat /\ Len(conditions) \in Nat /\ DOMAIN conditions = 1..Len(conditions)
<1>1. /\ groups \in Seq(Group) /\ groups # <<>> /\ children \in Seq(1..Len(groups)) /\ children # <<>>
      /\ levels \in Seq(LevelOf(Cases)) /\ levels # <<>> /\ conditions \in Seq(Range(conditions))
      /\ read \in 0..Len(conditions) /\ ChildrenRight(children, Len(groups))
  BY DEF TypeInv, GroupsRight, ChildrenRight
<1>2. Len(groups) \in Nat \ {0} /\ DOMAIN groups = 1..Len(groups)
  BY <1>1, FrontOf
<1>3. /\ Len(levels) \in Nat \ {0} /\ Inner = levels[Len(levels)] /\ Inner \in LevelOf(Cases)
      /\ \A i \in 1..Len(levels) : levels[i] \in LevelOf(Cases)
  <2>1. Len(levels) \in Nat \ {0} /\ Inner = levels[Len(levels)]
    BY <1>1, FrontOf DEF Inner
  <2>2. \A i \in 1..Len(levels) : levels[i] \in LevelOf(Cases)
    BY <1>1, ElementOfSeq
  <2>3. QED
    BY <2>1, <2>2
<1>4. /\ Len(children) \in Nat \ {0} /\ Current = children[Len(children)]
      /\ Current \in 1..Len(groups) /\ OnStack(children, Current)
  BY <1>1, <1>2, StackOf DEF Current
<1>5. Len(conditions) \in Nat /\ DOMAIN conditions = 1..Len(conditions)
  BY <1>1, LenProperties
<1>6. QED
  BY <1>1, <1>2, <1>3, <1>4, <1>5

(* The levels after a change of the last one. *)
LEMMA LevelsKept ==
  ASSUME TypeInv, conditions' = conditions, NEW l \in LevelOf(Cases),
         levels' = [levels EXCEPT ![Len(levels)] = l]
  PROVE  /\ levels' \in Seq(LevelOf(Cases')) /\ levels' # <<>>
         /\ Len(levels') = Len(levels) /\ levels'[Len(levels)] = l
         /\ \A i \in 1..Len(levels) : i # Len(levels) => levels'[i] = levels[i]
<1>1. /\ levels \in Seq(LevelOf(Cases)) /\ Len(levels) \in 1..Len(levels)
  BY Here
<1>2. /\ levels' \in Seq(LevelOf(Cases)) /\ levels' # <<>> /\ Len(levels') = Len(levels)
      /\ \A i \in 1..Len(levels) : levels'[i] = (IF i = Len(levels) THEN l ELSE levels[i])
  BY <1>1, ExceptOf
<1>3. Cases' = Cases
  BY DEF Cases
<1>4. QED
  BY <1>1, <1>2, <1>3

LEMMA HoldsIn == ASSUME NEW i PROVE Holds(i) \subseteq Cases
BY DEF Holds

LEMMA FieldTypes == ASSUME TypeInv, Field PROVE TypeInv'
<1>1. /\ conditions' = conditions /\ read < Len(conditions) /\ read' = read + 1
      /\ expected' = "connective" /\ Put(Current, read + 1, children)
      /\ levels' = [levels EXCEPT ![Len(levels)] = WithOperand(@, Holds(read + 1))]
  BY DEF Field
<1>2. /\ read \in Nat /\ Len(conditions) \in Nat /\ Current \in 1..Len(groups)
      /\ OnStack(children, Current) /\ groups \in Seq(Group) /\ Len(groups) \in Nat
  BY Here
<1>3. levels' \in Seq(LevelOf(Cases')) /\ levels' # <<>>
  <2>1. WithOperand(Inner, Holds(read + 1)) \in LevelOf(Cases)
    BY Here, HoldsIn, WithOperandOf
  <2>2. levels' = [levels EXCEPT ![Len(levels)] = WithOperand(Inner, Holds(read + 1))]
    BY <1>1, Here
  <2>3. QED
    BY <1>1, <2>1, <2>2, LevelsKept
<1>4. GroupsRight(groups, read) /\ OnceInv(groups, children) /\ ChildrenRight(children, Len(groups))
  BY DEF TypeInv
<1>5. CASE outcome' = "refused" /\ UNCHANGED <<groups, children>>
  <2>1. GroupsRight(groups, read + 1)
    BY <1>2, <1>4 DEF GroupsRight, Member
  <2>2. QED
    BY <1>1, <1>2, <1>3, <1>4, <1>5, <2>1 DEF TypeInv
<1>6. CASE /\ groups[Current].filters = <<>> \/ groups[Current].type # "none"
           /\ groups' = PutInto(groups, Current, read + 1) /\ UNCHANGED <<children, outcome>>
  <2>1. Member(read + 1, Current, Len(groups), read + 1) /\ read + 1 \in Int /\ read <= read + 1
    BY <1>2 DEF Member
  <2>2. GroupsRight(groups', read + 1)
    BY <1>2, <1>4, <1>6, <2>1, PutKeepsTypes
  <2>3. ASSUME NEW l \in 1..Len(groups), NEW i \in 1..Len(groups[l].filters)
        PROVE  groups[l].filters[i] # read + 1
    <3>1. Member(groups[l].filters[i], l, Len(groups), read)
      BY <1>4 DEF GroupsRight
    <3>2. QED
      BY <1>2, <3>1 DEF Member
  <2>4. OnceInv(groups', children)
    BY <1>2, <1>4, <1>6, <2>1, <2>3, PutKeepsOnce DEF Sinks
  <2>5. /\ Len(groups') = Len(groups) /\ groups'[Current] = Grown(groups[Current], read + 1)
        /\ \A l \in 1..Len(groups) : l # Current => groups'[l] = groups[l]
    BY <1>2, <1>6, <2>1, PutIs, GrownOf, ChangeOf
  <2>6. AboveInv(groups', children)
    <3>1. NoLower(groups', children, Len(children))
      <4> SUFFICES ASSUME NEW j \in 1..Len(children), NEW x \in 1..Len(groups'[Current].filters)
                   PROVE  groups'[Current].filters[x] # -children[j]
        BY Here DEF NoLower
      <4>1. children[j] \in 1..Len(groups)
        BY <1>2, <1>4, StackOf
      <4>2. CASE x = Len(groups[Current].filters) + 1
        BY <1>2, <2>1, <2>5, <4>1, <4>2, GrownOf, SMTT(30)
      <4>3. CASE x # Len(groups[Current].filters) + 1
        <5>1. x \in 1..Len(groups[Current].filters) /\ groups'[Current].filters[x] = groups[Current].filters[x]
          BY <1>2, <2>1, <2>5, <4>3, GrownOf, SMTT(30)
        <5>2. NoLower(groups, children, Len(children))
          BY Here DEF TypeInv, AboveInv
        <5>3. QED
          BY <5>1, <5>2, Here DEF NoLower
      <4>4. QED
        BY <4>2, <4>3
    <3>2. ASSUME NEW i \in 1..Len(children), i # Len(children) PROVE groups'[children[i]] = groups[children[i]]
      <4>1. children[i] # Current /\ children[i] \in 1..Len(groups)
        BY <1>2, <1>4, <3>2, Here, StackOf DEF ChildrenRight
      <4>2. QED
        BY <2>5, <4>1
    <3>3. AboveInv(groups, children)
      BY DEF TypeInv
    <3>4. QED
      BY <3>1, <3>2, <3>3, AboveKept
  <2>7. QED
    BY <1>1, <1>2, <1>3, <1>4, <1>6, <2>2, <2>4, <2>5, <2>6 DEF TypeInv
<1>7. QED
  BY <1>1, <1>5, <1>6 DEF Put, Refuse, PutInto

LEMMA OpenTypes == ASSUME TypeInv, Open PROVE TypeInv'
<1>1. /\ conditions' = conditions /\ read' = read /\ expected' = expected /\ outcome' = outcome
      /\ levels' = Append(levels, Level)
      /\ groups' = Append(groups, Made) /\ children' = Append(children, Len(groups) + 1)
  BY DEF Open
<1>2. GroupsRight(groups, read) /\ OnceInv(groups, children) /\ ChildrenRight(children, Len(groups))
  BY DEF TypeInv
<1>3. levels' \in Seq(LevelOf(Cases')) /\ levels' # <<>>
  <2>1. Level \in LevelOf(Cases)
    BY DEF Level, LevelOf, Kinds
  <2>2. levels' \in Seq(LevelOf(Cases)) /\ levels' # <<>>
    BY <1>1, <2>1, Here, AppendOf
  <2>3. Cases' = Cases
    BY <1>1 DEF Cases
  <2>4. QED
    BY <2>2, <2>3
<1>4. Made \in Group /\ Len(Made.filters) = 0
  BY EmptySeq DEF Made, Group, Kinds
<1>5. /\ ChildrenRight(children', Len(groups) + 1)
      /\ \A k : OnStack(children', k) <=> OnStack(children, k) \/ k = Len(groups) + 1
  <2>1. /\ children \in Seq(1..Len(groups)) /\ Len(groups) \in Nat
        /\ \A i, j \in 1..Len(children) : children[i] = children[j] => i = j
    BY <1>2, Here DEF ChildrenRight
  <2>2. QED
    BY <1>1, <2>1, Pushed
<1>6. Sinks(Len(groups), children, children')
  BY <1>5, Here DEF Sinks
<1>7. GroupsRight(groups', read) /\ OnceInv(groups', children')
  <2>1. read \in Nat
    BY Here
  <2>2. QED
    BY <1>1, <1>2, <1>4, <1>6, <2>1, AddKeepsTypes
<1>8. Len(groups') = Len(groups) + 1
  BY <1>1, <1>4, Here, AddOf
<1>9. AboveInv(groups', children')
  <2>1. /\ \A k \in 1..Len(groups) : groups'[k] = groups[k]
        /\ groups'[Len(groups) + 1] = Made
    BY <1>1, <1>4, Here, AddOf
  <2>2. /\ Len(children') = Len(children) + 1 /\ children'[Len(children) + 1] = Len(groups) + 1
        /\ \A i \in 1..Len(children) : children'[i] = children[i] /\ children[i] \in 1..Len(groups)
    <3>1. /\ children \in Seq(1..Len(groups)) /\ Len(groups) \in Nat
          /\ \A i, j \in 1..Len(children) : children[i] = children[j] => i = j
      BY <1>2, Here DEF ChildrenRight
    <3>2. QED
      BY <1>1, <3>1, Pushed, ElementOfSeq
  <2>3. NoLower(groups', children', Len(children) + 1)
    BY <1>4, <2>1, <2>2 DEF NoLower
  <2>4. ASSUME NEW i \in 1..Len(children'), i # Len(children) + 1
        PROVE  i \in 1..Len(children) /\ (\A j \in 1..i : children'[j] = children[j])
               /\ groups'[children[i]] = groups[children[i]]
    <3>1. i \in 1..Len(children) /\ Len(children) \in Nat
      BY <2>2, <2>4, Here
    <3>2. QED
      BY <2>1, <2>2, <3>1
  <2>5. AboveInv(groups, children)
    BY DEF TypeInv
  <2>6. QED
    BY <2>3, <2>4, <2>5, AboveKept
<1>10. QED
  BY <1>1, <1>3, <1>5, <1>7, <1>8, <1>9 DEF TypeInv

LEMMA BeforeLast ==
  ASSUME NEW n \in Nat, n # 0, n # 1 PROVE n - 1 \in 1..n /\ n - 1 # n /\ n > 1
OBVIOUS

(* What a parenthesis that is closed puts into the group below. *)
LEMMA UnwrappedIs ==
  ASSUME TypeInv, Len(children) # 1, groups[Current].filters # <<>>
  PROVE  /\ Below = children[Len(children) - 1] /\ Below \in 1..Len(groups) /\ Below # Current
         /\ Len(children) - 1 \in 1..Len(children)
         /\ ChildrenRight(Front(children), Len(groups))
         /\ \A k : OnStack(Front(children), k) <=> OnStack(children, k) /\ k # Current
         /\ OnStack(Front(children), Below)
         /\ Unwrapped(Current) \in Int /\ Member(Unwrapped(Current), Below, Len(groups), read)
         /\ Len(groups[Current].filters) \in Nat \ {0}
         /\ \A i \in 1..Len(groups[Current].filters) : groups[Current].filters[i] \in Int
         /\ Len(groups[Current].filters) = 1 => Unwrapped(Current) = groups[Current].filters[1]
         /\ Len(groups[Current].filters) # 1 => Unwrapped(Current) = -Current
<1>1. /\ Len(children) \in Nat \ {0} /\ Current = children[Len(children)] /\ Current \in 1..Len(groups)
      /\ groups \in Seq(Group) /\ Len(groups) \in Nat /\ read \in Nat
  BY Here
<1>2. ChildrenRight(children, Len(groups)) /\ GroupsRight(groups, read)
  BY DEF TypeInv
<1>3. Last(children) = Current
  BY DEF Current
<1>4. /\ Below = children[Len(children) - 1] /\ Len(children) - 1 \in 1..Len(children)
      /\ Below \in 1..Len(groups) /\ Below # Current /\ OnStack(children, Below)
  <2>1. Len(children) \in Nat /\ Len(children) # 0 /\ Len(children) # 1
    BY <1>1
  <2>2. Len(children) - 1 \in 1..Len(children) /\ Len(children) - 1 # Len(children)
    BY ONLY <2>1, BeforeLast
  <2>3. /\ children[Len(children) - 1] \in 1..Len(groups)
        /\ OnStack(children, children[Len(children) - 1])
    BY <1>1, <1>2, <2>2, StackOf
  <2>4. children[Len(children) - 1] # children[Len(children)]
    BY <1>1, <1>2, <2>2 DEF ChildrenRight
  <2>5. QED
    BY <1>1, <2>2, <2>3, <2>4 DEF Below
<1>5. /\ Front(children) \in Seq(1..Len(groups)) /\ Len(Front(children)) = Len(children) - 1
      /\ \A i, j \in 1..Len(children) - 1 : Front(children)[i] = Front(children)[j] => i = j
      /\ \A k : OnStack(Front(children), k) <=> OnStack(children, k) /\ k # Current
  BY <1>1, <1>2, <1>3, Popped
<1>6. ChildrenRight(Front(children), Len(groups))
  <2>1. Front(children) # <<>>
    BY <1>1, <1>5, EmptySeq
  <2>2. QED
    BY <1>5, <2>1 DEF ChildrenRight
<1>7. /\ groups[Current].filters \in Seq(Int) /\ Len(groups[Current].filters) \in Nat \ {0}
      /\ \A i \in 1..Len(groups[Current].filters) : groups[Current].filters[i] \in Int
  BY <1>1, GroupOf, EmptySeq
<1>8. CASE Len(groups[Current].filters) = 1
  <2>1. Unwrapped(Current) = groups[Current].filters[1] /\ Unwrapped(Current) \in Int
    BY <1>7, <1>8 DEF Unwrapped
  <2>2. Member(Unwrapped(Current), Current, Len(groups), read)
    BY <1>1, <1>2, <1>8, <2>1 DEF GroupsRight
  <2>3. Unwrapped(Current) # -Below
    <3>1. NoLower(groups, children, Len(children))
      BY <1>1 DEF TypeInv, AboveInv
    <3>2. QED
      BY <1>1, <1>4, <1>8, <2>1, <3>1 DEF NoLower
  <2>4. QED
    BY <1>1, <1>4, <1>5, <1>6, <1>7, <1>8, <2>1, <2>2, <2>3, SMTT(30) DEF Member
<1>9. CASE Len(groups[Current].filters) # 1
  <2>1. Unwrapped(Current) = -Current
    BY <1>9 DEF Unwrapped
  <2>2. Member(-Current, Below, Len(groups), read) /\ -Current \in Int
    BY <1>1, <1>4 DEF Member
  <2>3. QED
    BY <1>4, <1>5, <1>6, <1>7, <1>9, <2>1, <2>2
<1>10. QED
  BY <1>8, <1>9

LEMMA CloseTypes == ASSUME TypeInv, Close PROVE TypeInv'
<1>1. /\ conditions' = conditions /\ read' = read /\ expected' = expected /\ ~Outside
      /\ levels' = [Front(levels) EXCEPT ![Len(levels) - 1] = WithOperand(@, Meaning(Inner))]
      /\ IF Len(children) = 1 \/ groups[Current].filters = <<>> THEN Refuse
         ELSE Put(Below, Unwrapped(Current), Front(children))
  BY DEF Close
<1>2. /\ groups \in Seq(Group) /\ Len(groups) \in Nat /\ read \in Nat /\ Current \in 1..Len(groups)
      /\ Len(children) \in Nat \ {0} /\ Current = children[Len(children)] /\ Last(children) = Current
  BY Here DEF Current
<1>3. /\ GroupsRight(groups, read) /\ OnceInv(groups, children)
      /\ ChildrenRight(children, Len(groups)) /\ AboveInv(groups, children)
  BY DEF TypeInv
<1>4. levels' \in Seq(LevelOf(Cases')) /\ levels' # <<>>
  <2>1. /\ levels \in Seq(LevelOf(Cases)) /\ levels # <<>> /\ Len(levels) \in Nat
        /\ Len(levels) # 0 /\ Len(levels) # 1
    BY <1>1, Here DEF Outside
  <2>2. Len(levels) - 1 \in 1..Len(levels)
    BY ONLY <2>1, BeforeLast
  <2>3. /\ Front(levels) \in Seq(LevelOf(Cases)) /\ Len(Front(levels)) = Len(levels) - 1
        /\ \A i \in 1..Len(levels) - 1 : Front(levels)[i] = levels[i] /\ levels[i] \in LevelOf(Cases)
    BY <2>1, FrontOf
  <2>4. WithOperand(Front(levels)[Len(levels) - 1], Meaning(Inner)) \in LevelOf(Cases)
    BY <2>2, <2>3, Here, LevelIs, WithOperandOf
  <2>5. /\ levels' \in Seq(LevelOf(Cases)) /\ levels' # <<>>
    BY <1>1, <2>2, <2>3, <2>4, ExceptOf
  <2>6. Cases' = Cases
    BY <1>1 DEF Cases
  <2>7. QED
    BY <2>5, <2>6
<1>5. CASE outcome' = "refused" /\ UNCHANGED <<groups, children>>
  BY <1>1, <1>3, <1>4, <1>5 DEF TypeInv
<1>6. CASE /\ Len(children) # 1 /\ groups[Current].filters # <<>>
           /\ groups[Below].filters = <<>> \/ groups[Below].type # "none"
           /\ groups' = PutInto(groups, Below, Unwrapped(Current))
           /\ children' = Front(children) /\ UNCHANGED outcome
  <2> DEFINE m  == Unwrapped(Current)
             st == Front(children)
  <2>1. /\ Below \in 1..Len(groups) /\ Below # Current /\ ChildrenRight(st, Len(groups))
        /\ \A k : OnStack(st, k) <=> OnStack(children, k) /\ k # Current
        /\ OnStack(st, Below) /\ m \in Int /\ Member(m, Below, Len(groups), read)
        /\ Len(groups[Current].filters) = 1 => m = groups[Current].filters[1]
        /\ Len(groups[Current].filters) # 1 => m = -Current
        /\ Len(children) - 1 \in 1..Len(children) /\ Below = children[Len(children) - 1]
    BY <1>6, UnwrappedIs
  <2> HIDE DEF m, st
  <2>2. groups' = PutInto(groups, Below, m) /\ children' = st
    BY <1>6 DEF m, st
  <2>3. GroupsRight(groups', read)
    BY <1>2, <1>3, <1>6, <2>1, <2>2, PutKeepsTypes
  <2>4. ASSUME m > 0, NEW l \in 1..Len(groups), NEW i \in 1..Len(groups[l].filters), groups[l].filters[i] = m
        PROVE  Spent(groups, st, l)
    <3>1. Len(groups[Current].filters) = 1 /\ m = groups[Current].filters[1]
      BY <1>2, <2>1, <2>4
    <3>2. OnStack(children, Current)
      BY Here
    <3>3. CASE l = Current
      BY <2>1, <3>1, <3>3 DEF Spent
    <3>4. CASE l # Current
      <4>1. Spent(groups, children, l) \/ Spent(groups, children, Current)
        BY <1>2, <1>3, <2>4, <3>1, <3>4 DEF OnceInv
      <4>2. QED
        BY <2>1, <3>2, <4>1 DEF Spent
    <3>5. QED
      BY <3>3, <3>4
  <2>5. Sinks(Len(groups), children, st)
    BY <2>1 DEF Sinks
  <2>6. OnceInv(groups', st)
    BY <1>2, <1>3, <2>1, <2>2, <2>4, <2>5, PutKeepsOnce
  <2>7. /\ Len(groups') = Len(groups) /\ groups'[Below] = Grown(groups[Below], m)
        /\ \A l \in 1..Len(groups) : l # Below => groups'[l] = groups[l]
    BY <1>2, <2>1, <2>2, PutIs, GrownOf, ChangeOf, SMTT(30)
  <2>8. /\ Len(st) = Len(children) - 1
        /\ \A i \in 1..Len(children) - 1 : st[i] = children[i] /\ children[i] \in 1..Len(groups)
    BY <1>2, <1>3, Popped, StackOf DEF st
  <2>9. AboveInv(groups', st)
    <3>1. NoLower(groups', st, Len(children) - 1)
      <4> SUFFICES ASSUME NEW j \in 1..Len(children) - 1, NEW x \in 1..Len(groups'[Below].filters)
                   PROVE  groups'[Below].filters[x] # -children[j]
        <5>1. st[Len(children) - 1] = Below
          BY <1>2, <2>1, <2>8
        <5>2. \A j \in 1..Len(children) - 1 : st[j] = children[j]
          BY <2>8
        <5>3. QED
          BY <5>1, <5>2 DEF NoLower
      <4>1. children[j] \in 1..Len(groups) /\ children[j] # Current /\ j \in 1..Len(children)
        BY <1>2, <1>3, <2>8 DEF ChildrenRight
      <4>2. CASE x = Len(groups[Below].filters) + 1
        <5>1. groups'[Below].filters[x] = m
          <6>1. groups \in Seq(Group) /\ Below \in 1..Len(groups) /\ m \in Int
            BY <1>2, <2>1
          <6>2. Grown(groups[Below], m).filters[Len(groups[Below].filters) + 1] = m
            BY ONLY <6>1, GrownOf
          <6>3. groups'[Below] = Grown(groups[Below], m)
            BY <2>7
          <6>4. QED
            BY ONLY <4>2, <6>2, <6>3
        <5>2. CASE Len(groups[Current].filters) # 1
          BY <1>2, <2>1, <4>1, <5>1, <5>2, SMTT(30)
        <5>3. CASE Len(groups[Current].filters) = 1
          <6>1. NoLower(groups, children, Len(children))
            BY <1>2, <1>3 DEF AboveInv
          <6>2. QED
            BY <1>2, <2>1, <4>1, <5>1, <5>3, <6>1 DEF NoLower
        <5>4. QED
          BY <5>2, <5>3
      <4>3. CASE x # Len(groups[Below].filters) + 1
        <5>1. x \in 1..Len(groups[Below].filters) /\ groups'[Below].filters[x] = groups[Below].filters[x]
          <6>1. /\ Len(groups[Below].filters) \in Nat
                /\ Len(groups'[Below].filters) = Len(groups[Below].filters) + 1
                /\ \A i \in 1..Len(groups[Below].filters) : groups'[Below].filters[i] = groups[Below].filters[i]
            <7>1. groups \in Seq(Group) /\ Below \in 1..Len(groups) /\ m \in Int
              BY <1>2, <2>1
            <7>2. groups'[Below] = Grown(groups[Below], m)
              BY <2>7
            <7>3. LET grown == Grown(groups[Below], m)
                  IN  /\ Len(groups[Below].filters) \in Nat
                      /\ Len(grown.filters) = Len(groups[Below].filters) + 1
                      /\ \A i \in 1..Len(groups[Below].filters) : grown.filters[i] = groups[Below].filters[i]
              BY ONLY <7>1, GrownOf
            <7>4. QED
              BY ONLY <7>2, <7>3
          <6>2. QED
            BY <4>3, <6>1
        <5>2. NoLower(groups, children, Len(children) - 1)
          BY <1>3, <2>1 DEF AboveInv
        <5>3. QED
          BY <2>1, <5>1, <5>2 DEF NoLower
      <4>4. QED
        BY <4>2, <4>3
    <3>2. ASSUME NEW i \in 1..Len(st), i # Len(children) - 1
          PROVE  /\ i \in 1..Len(children) /\ (\A j \in 1..i : st[j] = children[j])
                 /\ groups'[children[i]] = groups[children[i]]
      <4>1. i \in 1..Len(children) /\ i \in 1..Len(children) - 1
        BY <1>2, <2>8
      <4>2. children[i] # Below
        BY <1>3, <2>1, <3>2, <4>1 DEF ChildrenRight
      <4>3. \A j \in 1..i : st[j] = children[j]
        BY <1>2, <2>8, <4>1
      <4>4. QED
        BY <2>7, <2>8, <4>1, <4>2, <4>3
    <3>3. QED
      BY <1>3, <3>1, <3>2, AboveKept
  <2>10. QED
    BY <1>1, <1>4, <1>6, <2>1, <2>2, <2>3, <2>6, <2>7, <2>9 DEF TypeInv
<1>7. QED
  BY <1>1, <1>5, <1>6 DEF Put, Refuse, PutInto

LEMMA EndTypes == ASSUME TypeInv, End PROVE TypeInv'
<1>1. /\ conditions' = conditions /\ read' = read /\ expected' = expected /\ levels' = levels
      /\ groups' = groups /\ children' = children /\ outcome' \in {"parsed", "refused"}
  BY DEF End
<1>2. Cases' = Cases
  BY <1>1 DEF Cases
<1>3. QED
  BY <1>1, <1>2 DEF TypeInv

GroupsInv(gs, ch, r) ==
  /\ GroupsRight(gs, r) /\ ChildrenRight(ch, Len(gs))
  /\ OnceInv(gs, ch) /\ AboveInv(gs, ch)

LEMMA OpenAndTypes ==
  ASSUME TypeInv, OpenAnd, Len(groups[Current].filters) > 1
  PROVE  GroupsInv(groups', children', read)
<1> DEFINE n == Len(groups)
           p == Len(children)
<1>1. groups' = AfterAnd(groups, Current) /\ children' = Append(children, n + 1)
  BY DEF OpenAnd, AfterAnd, TakenFrom, AndOf
<1>2. /\ groups \in Seq(Group) /\ n \in Nat /\ read \in Nat /\ Current \in 1..n
      /\ p \in Nat \ {0} /\ Current = children[p] /\ OnStack(children, Current)
  BY Here
<1>3. /\ GroupsRight(groups, read) /\ OnceInv(groups, children)
      /\ ChildrenRight(children, n) /\ AboveInv(groups, children)
  BY DEF TypeInv
<1>4. /\ ChildrenRight(children', n + 1)
      /\ Len(children') = p + 1 /\ children'[p + 1] = n + 1
      /\ \A i \in 1..p : children'[i] = children[i]
      /\ \A k : OnStack(children', k) <=> OnStack(children, k) \/ k = n + 1
  <2>1. children \in Seq(1..n) /\ \A i, j \in 1..p : children[i] = children[j] => i = j
    BY <1>3 DEF ChildrenRight
  <2>2. QED
    BY <1>1, <1>2, <2>1, Pushed
<1>5. Sinks(n, children, children') /\ OnStack(children', n + 1)
  BY <1>2, <1>4 DEF Sinks
<1>6. GroupsRight(groups', read) /\ OnceInv(groups', children')
  BY <1>1, <1>2, <1>3, <1>5, AndKeepsTypes
<1>7. /\ Len(groups') = n + 1
      /\ \A l \in 1..n : l # Current => groups'[l] = groups[l]
      /\ groups'[Current] = Retained(groups[Current], n + 1)
      /\ groups'[n + 1] = AndOf(Last(groups[Current].filters))
  BY <1>1, <1>2, AfterAndOf
<1> DEFINE f  == groups[Current].filters
           f2 == groups'[Current].filters
<1>8. /\ Len(f) \in Nat \ {0} /\ Last(f) = f[Len(f)] /\ Last(f) \in Int
      /\ Len(f2) = Len(f) /\ f2[Len(f)] = -(n + 1)
      /\ \A i \in 1..Len(f) - 1 : f2[i] = f[i]
  <2>1. n + 1 \in Nat /\ groups \in Seq(Group) /\ Current \in 1..Len(groups) /\ Len(groups[Current].filters) > 1
    BY <1>2
  <2>2. groups'[Current] = Retained(groups[Current], n + 1)
    BY <1>7
  <2>3. QED
    BY ONLY <2>1, <2>2, RetainedOf, SMTT(30)
<1>9. \A i \in 1..p : children[i] \in 1..n
  BY <1>2, <1>3, StackOf
<1>10. \A x \in 1..Len(f), j \in 1..p : f[x] # -children[j]
  BY <1>2, <1>3 DEF AboveInv, NoLower
<1>11. NoLower(groups', children', p)
  <2> SUFFICES ASSUME NEW j \in 1..p, NEW x \in 1..Len(f2) PROVE f2[x] # -children[j]
    BY <1>2, <1>4 DEF NoLower
  <2>1. CASE x = Len(f)
    BY <1>2, <1>8, <1>9, <2>1
  <2>2. CASE x # Len(f)
    <3>1. x \in 1..Len(f) /\ f2[x] = f[x]
      BY <1>8, <2>2
    <3>2. QED
      BY <1>10, <3>1
  <2>3. QED
    BY <2>1, <2>2
<1>12. NoLower(groups', children', p + 1)
  <2>1. Len(groups'[n + 1].filters) = 1 /\ groups'[n + 1].filters[1] = f[Len(f)]
    BY <1>7, <1>8, SingleOf DEF AndOf, Kinds
  <2>2. ASSUME NEW j \in 1..p + 1 PROVE f[Len(f)] # -children'[j]
    <3>1. CASE j = p + 1
      <4>1. Member(f[Len(f)], Current, n, read)
        <5>1. Len(f) \in 1..Len(f)
          BY <1>8
        <5>2. QED
          BY <1>2, <1>3, <5>1 DEF GroupsRight
      <4>2. QED
        BY <1>2, <1>4, <1>8, <3>1, <4>1 DEF Member
    <3>2. CASE j # p + 1
      <4>1. j \in 1..p /\ children'[j] = children[j]
        BY <1>2, <1>4, <3>2
      <4>2. QED
        BY <1>8, <1>10, <4>1, SMTT(30)
    <3>3. QED
      BY <3>1, <3>2
  <2>3. QED
    BY <1>4, <2>1, <2>2 DEF NoLower
<1>13. AboveInv(groups', children')
  <2>1. ASSUME NEW i \in 1..Len(children'), i # p, i # p + 1
        PROVE  /\ i \in 1..Len(children) /\ (\A j \in 1..i : children'[j] = children[j])
               /\ groups'[children[i]] = groups[children[i]]
    <3>1. i \in 1..p
      BY <1>2, <1>4, <2>1
    <3>2. children[i] # Current
      BY <1>2, <1>3, <2>1, <3>1 DEF ChildrenRight
    <3>3. \A j \in 1..i : children'[j] = children[j]
      BY <1>2, <1>4, <3>1
    <3>4. QED
      BY <1>7, <1>9, <3>1, <3>2, <3>3
  <2>2. QED
    BY <1>3, <1>11, <1>12, <2>1, AboveKept
<1>14. QED
  BY <1>4, <1>6, <1>7, <1>13 DEF GroupsInv

(* OR ends the AND on the stack, or begins a group of its own. *)
LEMMA PopTypes ==
  ASSUME TypeInv, Len(children) > 1, children' = Front(children), groups' = groups
  PROVE  GroupsInv(groups', children', read)
<1>1. /\ groups \in Seq(Group) /\ Len(groups) \in Nat /\ read \in Nat /\ Len(children) \in Nat \ {0}
  BY Here
<1>2. /\ GroupsRight(groups, read) /\ OnceInv(groups, children)
      /\ ChildrenRight(children, Len(groups)) /\ AboveInv(groups, children)
  BY DEF TypeInv
<1>3. /\ children' \in Seq(1..Len(groups)) /\ Len(children') = Len(children) - 1
      /\ \A i \in 1..Len(children) - 1 : children'[i] = children[i]
      /\ \A i, j \in 1..Len(children) - 1 : children'[i] = children'[j] => i = j
      /\ \A k : OnStack(children', k) <=> OnStack(children, k) /\ k # Last(children)
  BY <1>1, <1>2, Popped
<1>4. ChildrenRight(children', Len(groups))
  <2>1. children' # <<>>
    BY <1>1, <1>3, EmptySeq
  <2>2. QED
    BY <1>3, <2>1 DEF ChildrenRight
<1>5. OnceInv(groups, children')
  BY <1>2, <1>3, SMTT(30) DEF OnceInv, Spent
<1>6. AboveInv(groups, children')
  <2>1. ASSUME NEW i \in 1..Len(children')
        PROVE  i \in 1..Len(children) /\ (\A j \in 1..i : children'[j] = children[j])
    BY <1>1, <1>3
  <2>2. QED
    BY <1>2, <2>1, AboveKept
<1>7. QED
  BY <1>2, <1>4, <1>5, <1>6 DEF GroupsInv

OrOf(k) == [type |-> "OR", filters |-> <<-k>>]

LEMMA WrapTypes ==
  ASSUME TypeInv, groups' = Append(groups, OrOf(Current)),
         children' = Append(Front(children), Len(groups) + 1)
  PROVE  GroupsInv(groups', children', read)
<1> DEFINE n == Len(groups)
           p == Len(children)
<1>1. /\ groups \in Seq(Group) /\ n \in Nat /\ read \in Nat /\ Current \in 1..n
      /\ p \in Nat \ {0} /\ Current = children[p] /\ Last(children) = Current
  BY Here DEF Current
<1>2. /\ GroupsRight(groups, read) /\ OnceInv(groups, children)
      /\ ChildrenRight(children, n) /\ AboveInv(groups, children)
  BY DEF TypeInv
<1>3. /\ Front(children) \in Seq(1..n) /\ Len(Front(children)) = p - 1
      /\ \A i \in 1..p - 1 : Front(children)[i] = children[i]
      /\ \A i, j \in 1..p - 1 : Front(children)[i] = Front(children)[j] => i = j
      /\ \A k : OnStack(Front(children), k) <=> OnStack(children, k) /\ k # Current
  BY <1>1, <1>2, Popped
<1>4. /\ ChildrenRight(children', n + 1) /\ Len(children') = p /\ children'[p] = n + 1
      /\ \A i \in 1..p - 1 : children'[i] = children[i]
      /\ \A k : OnStack(children', k) <=> (OnStack(children, k) /\ k # Current) \/ k = n + 1
  <2> DEFINE st == Front(children)
  <2>1. st \in Seq(1..n) /\ \A i, j \in 1..Len(st) : st[i] = st[j] => i = j
    BY <1>3
  <2> HIDE DEF st
  <2>2. /\ ChildrenRight(Append(st, n + 1), n + 1)
        /\ Len(Append(st, n + 1)) = Len(st) + 1 /\ Append(st, n + 1)[Len(st) + 1] = n + 1
        /\ \A i \in 1..Len(st) : Append(st, n + 1)[i] = st[i]
        /\ \A k : OnStack(Append(st, n + 1), k) <=> OnStack(st, k) \/ k = n + 1
    BY <1>1, <2>1, Pushed
  <2>3. children' = Append(st, n + 1) /\ Len(st) = p - 1 /\ p - 1 + 1 = p
    BY <1>1, <1>3 DEF st
  <2>4. \A i \in 1..p - 1 : st[i] = children[i]
    BY <1>3 DEF st
  <2>5. \A k : OnStack(st, k) <=> OnStack(children, k) /\ k # Current
    BY <1>3 DEF st
  <2>6. QED
    BY <2>2, <2>3, <2>4, <2>5
<1>5. /\ OrOf(Current) \in Group /\ Len(OrOf(Current).filters) = 1 /\ OrOf(Current).filters[1] = -Current
  BY <1>1, SingleOf DEF OrOf, Kinds
<1>6. Sinks(n, children, children')
  BY <1>1, <1>4 DEF Sinks
<1>7. Refers(-Current, n)
  BY <1>1 DEF Refers
<1>8. GroupsRight(groups', read) /\ OnceInv(groups', children')
  <2>1. /\ Len(OrOf(Current).filters) \in Nat /\ ~(Len(OrOf(Current).filters) > 1)
        /\ \A i \in 1..Len(OrOf(Current).filters) : Refers(OrOf(Current).filters[i], n)
    BY <1>5, <1>7
  <2>2. GroupsRight(Append(groups, OrOf(Current)), read) /\ OnceInv(Append(groups, OrOf(Current)), children')
    <3>1. OrOf(Current) \in Group /\ read \in Nat
      BY <1>1, <1>5
    <3>2. GroupsRight(groups, read) /\ OnceInv(groups, children)
      BY <1>2
    <3>3. Sinks(Len(groups), children, children')
      BY <1>6
    <3>4. QED
      BY ONLY <2>1, <3>1, <3>2, <3>3, AddKeepsTypes
  <2>3. QED
    BY <2>2
<1>9. /\ Len(groups') = n + 1 /\ groups'[n + 1] = OrOf(Current)
      /\ \A l \in 1..n : groups'[l] = groups[l]
  BY <1>1, <1>5, AddOf
<1>10. \A i \in 1..p : children[i] \in 1..n
  BY <1>1, <1>2, StackOf
<1>11. NoLower(groups', children', p)
  <2> SUFFICES ASSUME NEW j \in 1..p PROVE -Current # -children'[j]
    BY <1>4, <1>5, <1>9 DEF NoLower
  <2>1. CASE j = p
    BY <1>1, <1>4, <2>1
  <2>2. CASE j # p
    <3>1. j \in 1..p - 1 /\ j \in 1..p /\ children'[j] = children[j] /\ p \in 1..p
      BY <1>1, <1>4, <2>2
    <3>2. children[j] # Current
      BY <1>1, <1>2, <2>2, <3>1 DEF ChildrenRight
    <3>3. children[j] \in Nat /\ Current \in Nat
      BY <1>1, <1>10, <3>1
    <3>4. -Current # -children[j]
      BY ONLY <3>2, <3>3
    <3>5. QED
      BY <3>1, <3>4
  <2>3. QED
    BY <2>1, <2>2
<1>12. AboveInv(groups', children')
  <2>1. ASSUME NEW i \in 1..Len(children'), i # p
        PROVE  /\ i \in 1..Len(children) /\ (\A j \in 1..i : children'[j] = children[j])
               /\ groups'[children[i]] = groups[children[i]]
    <3>1. i \in 1..p /\ \A j \in 1..i : j \in 1..p - 1
      BY <1>1, <1>4, <2>1
    <3>2. QED
      BY <1>4, <1>9, <1>10, <3>1
  <2>2. AboveInv(groups, children)
    BY <1>2
  <2>3. ASSUME NEW i \in 1..Len(children')
        PROVE  \/ /\ i \in 1..Len(children) /\ (\A j \in 1..i : children'[j] = children[j])
                  /\ groups'[children[i]] = groups[children[i]]
               \/ NoLower(groups', children', i)
    BY <1>11, <2>1
  <2>4. QED
    BY ONLY <2>2, <2>3, AboveKept
<1>13. QED
  BY <1>4, <1>8, <1>9, <1>12 DEF GroupsInv

LEMMA GiveTypeTypes ==
  ASSUME TypeInv, NEW t \in {"AND", "OR"}, groups' = GiveType(groups, Current, t), children' = children
  PROVE  GroupsInv(groups', children', read)
<1>1. /\ groups \in Seq(Group) /\ Len(groups) \in Nat /\ read \in Nat /\ Current \in 1..Len(groups)
      /\ OnStack(children, Current)
  BY Here
<1>2. /\ GroupsRight(groups, read) /\ OnceInv(groups, children)
      /\ ChildrenRight(children, Len(groups)) /\ AboveInv(groups, children)
  BY DEF TypeInv
<1>3. GroupsRight(groups', read) /\ OnceInv(groups', children')
  BY <1>1, <1>2, TypeKeepsTypes
<1>4. /\ Len(groups') = Len(groups)
      /\ \A l \in 1..Len(groups) : groups'[l].filters = groups[l].filters
  <2>1. t \in Kinds
    BY DEF Kinds
  <2>2. /\ groups' = [groups EXCEPT ![Current] = Typed(groups[Current], t)]
        /\ Typed(groups[Current], t) \in Group /\ Typed(groups[Current], t).filters = groups[Current].filters
    BY <1>1, <2>1, TypeIs, TypedOf
  <2>3. /\ Len(groups') = Len(groups) /\ groups'[Current] = Typed(groups[Current], t)
        /\ \A l \in 1..Len(groups) : l # Current => groups'[l] = groups[l]
    BY <1>1, <2>2, ChangeOf
  <2>4. QED
    BY <2>2, <2>3
<1>5. AboveInv(groups', children')
  <2>1. \A i \in 1..Len(children) : children[i] \in 1..Len(groups)
    BY <1>1, <1>2, StackOf
  <2>2. QED
    BY <1>2, <1>4, <2>1 DEF AboveInv, NoLower
<1>6. QED
  BY <1>2, <1>3, <1>4, <1>5 DEF GroupsInv

LEMMA Counts == \A n \in Nat : n = 0 \/ n = 1 \/ (n > 1 /\ n # 1 /\ n # 0)
OBVIOUS
LEMMA More == \A n \in Nat : n > 1 => n # 1 /\ n # 0
OBVIOUS

LEMMA ConnectiveTypes == ASSUME TypeInv, NEW t \in {"AND", "OR"}, Connective(t) PROVE TypeInv'
<1>1. /\ conditions' = conditions /\ read' = read /\ expected' = "operand"
      /\ levels' = Connected(levels, t) /\ outcome = "parsing"
  BY DEF Connective, Connected
<1>2. levels' \in Seq(LevelOf(Cases')) /\ levels' # <<>>
  <2>1. Joined(Inner, t) \in LevelOf(Cases)
    BY Here, JoinedOf
  <2>2. levels' = [levels EXCEPT ![Len(levels)] = Joined(Inner, t)]
    BY <1>1, Here, ConnectedIs
  <2>3. QED
    BY <1>1, <2>1, <2>2, LevelsKept
<1>3. GroupsInv(groups, children, read)
  BY DEF TypeInv, GroupsInv
<1>4. GroupsInv(groups', children', read) /\ outcome' \in {"parsing", "refused"}
  <2>1. CASE Refuse
    BY <1>3, <2>1 DEF Refuse
  <2>2. CASE UNCHANGED <<groups, children, outcome>>
    BY <1>1, <1>3, <2>2
  <2>3. CASE groups' = GiveType(groups, Current, t) /\ UNCHANGED <<children, outcome>>
    BY <1>1, <2>3, GiveTypeTypes
  <2>4. CASE Len(groups[Current].filters) > 1 /\ OpenAnd
    BY <1>1, <2>4, OpenAndTypes DEF OpenAnd
  <2>5. CASE OpenOr
    <3>1. CASE Len(children) > 1 /\ children' = Front(children) /\ UNCHANGED <<groups, outcome>>
      BY <1>1, <3>1, PopTypes
    <3>2. CASE /\ groups' = Append(groups, OrOf(Current))
               /\ children' = Append(Front(children), Len(groups) + 1) /\ UNCHANGED outcome
      BY <1>1, <3>2, WrapTypes
    <3>3. QED
      BY <2>1, <2>5, <3>1, <3>2 DEF OpenOr, OrOf
  <2>6. QED
    <3> DEFINE g == groups[Current]
    <3>1. Len(g.filters) \in Nat
      BY Here, GroupOf
    <3>2. /\ g.filters = <<>> => Len(g.filters) = 0
          /\ g.filters # <<>> => Len(g.filters) # 0
      BY Here, GroupOf, EmptySeq
    <3>3. CASE g.filters = <<>>
      BY <2>1, <3>2, <3>3 DEF Connective
    <3>4. CASE Len(g.filters) = 1
      <4>1. /\ groups' = IF g.type = "none" THEN GiveType(groups, Current, t) ELSE groups
            /\ UNCHANGED <<children, outcome>>
        BY <3>2, <3>4 DEF Connective, GiveType
      <4>2. QED
        BY <2>2, <2>3, <4>1
    <3>5. CASE Len(g.filters) > 1 /\ g.type = t
      <4>1. g.filters # <<>> /\ Len(g.filters) # 1
        BY <3>1, <3>2, <3>5, More
      <4>2. UNCHANGED <<groups, children, outcome>>
        BY <3>5, <4>1 DEF Connective
      <4>3. QED
        BY <2>2, <4>2
    <3>6. CASE Len(g.filters) > 1 /\ g.type # t
      <4>1. g.filters # <<>> /\ Len(g.filters) # 1
        BY <3>1, <3>2, <3>6, More
      <4>2. IF t = "AND" THEN OpenAnd ELSE OpenOr
        BY <3>6, <4>1 DEF Connective
      <4>3. QED
        BY <2>4, <2>5, <3>6, <4>2
    <3>7. QED
      BY <3>1, <3>2, <3>3, <3>4, <3>5, <3>6, Counts
<1>5. QED
  BY <1>1, <1>2, <1>4 DEF TypeInv, GroupsInv

LEMMA StepTypes == ASSUME TypeInv, [Next]_vars PROVE TypeInv'
<1>1. CASE UNCHANGED vars
  <2>1. /\ conditions' = conditions /\ read' = read /\ levels' = levels /\ expected' = expected
        /\ groups' = groups /\ children' = children /\ outcome' = outcome
    BY <1>1 DEF vars
  <2>2. Cases' = Cases
    BY <2>1 DEF Cases
  <2>3. QED
    BY <2>1, <2>2 DEF TypeInv
<1>2. QED
  BY <1>1, FieldTypes, OpenTypes, CloseTypes, ConnectiveTypes, EndTypes DEF Next

(* The groups are objects of their types, and the stack, the open parentheses
   and what was scanned fit together: the part of the inductive invariant that
   speaks of no meaning. *)
THEOREM TypesAreKept == Spec => []TypeInv
BY InitTypes, StepTypes, PTL DEF Spec

(* ParserTypeOK: a member of a group is a condition that was scanned or another
   group, and no condition is in two groups of several members. *)
THEOREM ParserTypeCorrect == Spec => []ParserTypeOK
<1>1. ASSUME TypeInv PROVE ParserTypeOK
  <2>1. /\ groups \in Seq(Group) /\ DOMAIN groups = 1..Len(groups) /\ Len(groups) \in Nat
        /\ children \in Seq(1..Len(groups)) /\ children # <<>> /\ read \in 0..Len(conditions)
    BY <1>1, Here DEF TypeInv
  <2>2. /\ outcome \in {"parsing", "parsed", "refused"} /\ expected \in {"operand", "connective"}
        /\ GroupsRight(groups, read) /\ OnceInv(groups, children)
    BY <1>1 DEF TypeInv
  <2>3. ASSUME NEW k \in DOMAIN groups
        PROVE  /\ groups[k].type \in {"none", "AND", "OR"}
               /\ Len(groups[k].filters) > 1 => groups[k].type # "none"
               /\ \A i \in DOMAIN groups[k].filters :
                    groups[k].filters[i] \in 1..read \cup {-j : j \in DOMAIN groups \ {k}}
    <3>1. /\ k \in 1..Len(groups) /\ groups[k].type \in Kinds
          /\ DOMAIN groups[k].filters = 1..Len(groups[k].filters)
          /\ \A i \in 1..Len(groups[k].filters) : groups[k].filters[i] \in Int
      BY <2>1, GroupOf
    <3>2. Len(groups[k].filters) > 1 => groups[k].type # "none"
      BY <2>2, <3>1 DEF GroupsRight
    <3>3. ASSUME NEW i \in DOMAIN groups[k].filters
          PROVE  groups[k].filters[i] \in 1..read \cup {-j : j \in DOMAIN groups \ {k}}
      <4> DEFINE m == groups[k].filters[i]
      <4>1. Member(m, k, Len(groups), read) /\ m \in Int
        BY <2>2, <3>1 DEF GroupsRight
      <4> HIDE DEF m
      <4>2. CASE m \in 1..read
        BY <4>2 DEF m
      <4>3. CASE -m \in 1..Len(groups) /\ -m # k
        <5>1. m = -(-m) /\ -m \in DOMAIN groups \ {k}
          BY <2>1, <4>1, <4>3
        <5>2. m \in {-j : j \in DOMAIN groups \ {k}}
          BY <5>1
        <5>3. QED
          BY <5>2 DEF m
      <4>4. QED
        BY <4>1, <4>2, <4>3 DEF Member
    <3>4. QED
      BY <3>1, <3>2, <3>3 DEF Kinds
  <2>4. ASSUME NEW k \in DOMAIN groups, NEW l \in DOMAIN groups, k # l,
               Len(groups[k].filters) > 1, Len(groups[l].filters) > 1
        PROVE  Range(groups[k].filters) \cap Range(groups[l].filters) \cap Nat = {}
    <3> SUFFICES ASSUME NEW c \in Range(groups[k].filters), c \in Range(groups[l].filters), c \in Nat
                 PROVE  FALSE
      OBVIOUS
    <3>1. k \in 1..Len(groups) /\ l \in 1..Len(groups)
      BY <2>1
    <3>2. /\ DOMAIN groups[k].filters = 1..Len(groups[k].filters)
          /\ DOMAIN groups[l].filters = 1..Len(groups[l].filters)
      BY <2>1, <3>1, GroupOf
    <3>3. PICK i \in 1..Len(groups[k].filters), j \in 1..Len(groups[l].filters) :
            groups[k].filters[i] = c /\ groups[l].filters[j] = c
      BY <3>2 DEF Range
    <3>4. c > 0
      <4>1. Member(c, k, Len(groups), read)
        BY <2>2, <3>1, <3>3 DEF GroupsRight
      <4>2. QED
        BY <2>1, <4>1 DEF Member
    <3>5. Spent(groups, children, k) \/ Spent(groups, children, l)
      BY <2>2, <2>4, <3>1, <3>3, <3>4 DEF OnceInv
    <3>6. QED
      <4>1. Len(groups[k].filters) # 1 /\ Len(groups[l].filters) # 1
        BY <2>1, <2>4, <3>1, GroupOf, More
      <4>2. QED
        BY <3>5, <4>1 DEF Spent
  <2>5. QED
    BY <2>1, <2>2, <2>3, <2>4 DEF ParserTypeOK
<1>2. QED
  BY <1>1, TypesAreKept, PTL

-----------------------------------------------------------------------------
(* Meanings.  Again of values of the variables: cs is a value of Cases, e a
   meaning for each group.  What is not on the stack is finished: only there
   e has to agree with the groups. *)

Two(l) == l.or /\ l.connective = "AND"
Width(l) == IF Two(l) THEN 2 ELSE 1

Mem(cs, m, e) == IF m > 0 THEN {c \in cs : m \in c} ELSE e[-m]
All(cs, f, e) == {c \in cs : \A i \in 1..Len(f) : c \in Mem(cs, f[i], e)}
Some(cs, f, n, e) == {c \in cs : \E i \in 1..n : c \in Mem(cs, f[i], e)}
GroupMeans(cs, g, e) ==
  IF g.type = "AND" THEN All(cs, g.filters, e) ELSE Some(cs, g.filters, Len(g.filters), e)

Frozen(ch, m) == m > 0 \/ ~OnStack(ch, -m)
AllFrozen(ch, f) == \A i \in 1..Len(f) : Frozen(ch, f[i])

Denotes(gs, ch, cs, e) ==
  /\ e \in [Nat -> SUBSET cs]
  /\ \A k \in 1..Len(gs) : ~OnStack(ch, k) => e[k] = GroupMeans(cs, gs[k], e)

(* A level is one group on the stack, or the OR gb and upon it the AND gt, which
   is its last member; t is the number of the upper one. *)
LevelShape(ch, l, t, gb, gt, expects) ==
  /\ ~Two(l) => gb = gt
  /\ l.connective = "none" =>
       ~l.or /\ gb.type = "none" /\ Len(gb.filters) = (IF expects = "connective" THEN 1 ELSE 0)
  /\ l.connective = "AND" =>
       gt.type = "AND" /\ Len(gt.filters) >= (IF expects = "connective" THEN 2 ELSE 1)
  /\ l.connective = "OR" => l.or /\ Len(gb.filters) >= (IF expects = "connective" THEN 2 ELSE 1)
  /\ l.or => gb.type = "OR"
  /\ Two(l) => /\ Len(gb.filters) >= 2 /\ gb.filters[Len(gb.filters)] = -t
               /\ AllFrozen(ch, gt.filters)
  /\ \A i \in 1..Len(gb.filters) : (Two(l) => i # Len(gb.filters)) => Frozen(ch, gb.filters[i])

(* What is written at the level so far, and what the groups mean. *)
LevelMeans(cs, l, gb, gt, expects, e) ==
  /\ l.connective = "none" =>
       l.before = {} /\ l.operand = (IF expects = "connective" THEN Mem(cs, gb.filters[1], e) ELSE {})
  /\ l.connective = "AND" =>
       /\ l.before = (IF l.or THEN Some(cs, gb.filters, Len(gb.filters) - 1, e) ELSE {})
       /\ l.operand = All(cs, gt.filters, e)
  /\ l.connective = "OR" =>
       /\ expects = "connective" =>
            /\ l.before = Some(cs, gb.filters, Len(gb.filters) - 1, e)
            /\ l.operand = Mem(cs, gb.filters[Len(gb.filters)], e)
       /\ expects # "connective" => Meaning(l) = Some(cs, gb.filters, Len(gb.filters), e)

Stands(gs, ch, cs, l, p, expects) ==
  /\ LevelShape(ch, l, ch[p + Width(l) - 1], gs[ch[p]], gs[ch[p + Width(l) - 1]], expects)
  /\ \A e : Denotes(gs, ch, cs, e) =>
       LevelMeans(cs, l, gs[ch[p]], gs[ch[p + Width(l) - 1]], expects, e)

(* The places of the levels on the stack. *)
Placed(ls, ch, at) ==
  /\ \A i \in 1..Len(ls) : at[i] \in 1..Len(ch)
  /\ \A i \in 1..Len(ls) - 1 : at[i + 1] = at[i] + Width(ls[i])
  /\ \A i, j \in 1..Len(ls) : i < j => at[i] + Width(ls[i]) <= at[j]
  /\ at[1] = 1 /\ at[Len(ls)] + Width(ls[Len(ls)]) - 1 = Len(ch)

Expects(ls, i, expects) == IF i = Len(ls) THEN expects ELSE "operand"

ClosedInv(gs, ch) == \A k \in 1..Len(gs) : ~OnStack(ch, k) => AllFrozen(ch, gs[k].filters)

AllStand(gs, ch, cs, ls, at, expects) ==
  \A i \in 1..Len(ls) : Stands(gs, ch, cs, ls[i], at[i], Expects(ls, i, expects))

LevelsInv(gs, ch, cs, ls, expects) ==
  \E at : Placed(ls, ch, at) /\ AllStand(gs, ch, cs, ls, at, expects)

SemInv(gs, ch, cs, ls, expects) ==
  ClosedInv(gs, ch) /\ (\E e : Denotes(gs, ch, cs, e)) /\ LevelsInv(gs, ch, cs, ls, expects)

-----------------------------------------------------------------------------
(* Meanings before and after a change. *)

(* What is finished stays. *)
Keeps(gs, ch, gs2, ch2) ==
  /\ Sinks(Len(gs), ch, ch2) /\ Len(gs) \in Nat /\ Len(gs2) \in Nat /\ Len(gs) <= Len(gs2)
  /\ \A k \in 1..Len(gs) : ~OnStack(ch, k) => gs2[k] = gs[k]

LEMMA DenotesBack ==
  ASSUME NEW gs, NEW ch, NEW gs2, NEW ch2, NEW cs, Keeps(gs, ch, gs2, ch2),
         NEW e, Denotes(gs2, ch2, cs, e)
  PROVE  Denotes(gs, ch, cs, e)
<1>1. ASSUME NEW k \in 1..Len(gs), ~OnStack(ch, k) PROVE e[k] = GroupMeans(cs, gs[k], e)
  <2>1. k \in 1..Len(gs2) /\ ~OnStack(ch2, k) /\ gs2[k] = gs[k]
    BY <1>1 DEF Keeps, Sinks
  <2>2. QED
    BY <2>1 DEF Denotes
<1>2. QED
  BY <1>1 DEF Denotes

LEMMA DenotesSame ==
  ASSUME NEW gs, NEW ch, NEW gs2, NEW ch2, NEW cs, NEW e, Denotes(gs, ch, cs, e),
         \A k \in 1..Len(gs2) : ~OnStack(ch2, k) => k \in 1..Len(gs) /\ ~OnStack(ch, k) /\ gs2[k] = gs[k]
  PROVE  Denotes(gs2, ch2, cs, e)
BY DEF Denotes

LEMMA GroupMeansIn ==
  ASSUME NEW cs, NEW g, NEW e PROVE GroupMeans(cs, g, e) \subseteq cs
BY DEF GroupMeans, All, Some

(* The meaning of a group depends on that of its members only. *)
SameBut(e, e2, k) == \A j \in Nat : j # k => e2[j] = e[j]
IsNoMember(g, k) ==
  \A i \in 1..Len(g.filters) : g.filters[i] > 0 \/ (-g.filters[i] \in Nat /\ -g.filters[i] # k)

LEMMA MeansSame ==
  ASSUME NEW cs, NEW g, NEW e, NEW e2, NEW k, SameBut(e, e2, k), IsNoMember(g, k)
  PROVE  GroupMeans(cs, g, e2) = GroupMeans(cs, g, e)
<1>2. \A i \in 1..Len(g.filters) : Mem(cs, g.filters[i], e2) = Mem(cs, g.filters[i], e)
  BY DEF Mem, SameBut, IsNoMember
<1>3. \A n : n = Len(g.filters) => Some(cs, g.filters, n, e2) = Some(cs, g.filters, n, e)
  BY <1>2 DEF Some
<1>4. All(cs, g.filters, e2) = All(cs, g.filters, e)
  BY <1>2 DEF All
<1>5. QED
  BY <1>3, <1>4 DEF GroupMeans

(* Group k is finished, too. *)
LEMMA DenotesForth ==
  ASSUME NEW gs, NEW ch, NEW gs2, NEW ch2, NEW cs, NEW e, Denotes(gs, ch, cs, e), NEW r \in Nat,
         GroupsRight(gs2, r), ClosedInv(gs, ch), NEW k \in 1..Len(gs2), OnStack(ch, k),
         AllFrozen(ch, gs2[k].filters),
         \A j \in 1..Len(gs2) : ~OnStack(ch2, j) =>
           j = k \/ (j \in 1..Len(gs) /\ ~OnStack(ch, j) /\ gs2[j] = gs[j])
  PROVE  \E e2 : Denotes(gs2, ch2, cs, e2)
<1> DEFINE e2 == [e EXCEPT ![k] = GroupMeans(cs, gs2[k], e)]
<1>1. gs2 \in Seq(Group) /\ Len(gs2) \in Nat /\ k \in Nat
  BY LenProperties DEF GroupsRight
<1>2. e \in [Nat -> SUBSET cs]
  BY DEF Denotes
<1>4. e2 \in [Nat -> SUBSET cs] /\ e2[k] = GroupMeans(cs, gs2[k], e)
      /\ \A j \in Nat : j # k => e2[j] = e[j]
  BY <1>1, <1>2, GroupMeansIn
<1> HIDE DEF e2
<1>3. ASSUME NEW j \in 1..Len(gs2), AllFrozen(ch, gs2[j].filters)
      PROVE  GroupMeans(cs, gs2[j], e2) = GroupMeans(cs, gs2[j], e)
  <2>2. ASSUME NEW i \in 1..Len(gs2[j].filters)
        PROVE  gs2[j].filters[i] > 0 \/ (-gs2[j].filters[i] \in Nat /\ -gs2[j].filters[i] # k)
    <3>1. Member(gs2[j].filters[i], j, Len(gs2), r)
      BY DEF GroupsRight
    <3>2. Frozen(ch, gs2[j].filters[i])
      BY <1>3 DEF AllFrozen
    <3>3. QED
      BY <1>1, <3>1, <3>2 DEF Member, Frozen
  <2>3. SameBut(e, e2, k) /\ IsNoMember(gs2[j], k)
    BY <1>4, <2>2 DEF SameBut, IsNoMember
  <2>4. QED
    BY <2>3, MeansSame
<1>5. ASSUME NEW j \in 1..Len(gs2), ~OnStack(ch2, j) PROVE e2[j] = GroupMeans(cs, gs2[j], e2)
  <2>1. CASE j = k
    BY <1>3, <1>4, <2>1
  <2>2. CASE j # k
    <3>1. j \in 1..Len(gs) /\ ~OnStack(ch, j) /\ gs2[j] = gs[j] /\ j \in Nat
      BY <1>5, <2>2
    <3>2. e[j] = GroupMeans(cs, gs2[j], e) /\ AllFrozen(ch, gs2[j].filters)
      BY <3>1 DEF Denotes, ClosedInv
    <3>3. QED
      BY <1>3, <1>4, <2>2, <3>1, <3>2
  <2>3. QED
    BY <2>1, <2>2
<1>6. Denotes(gs2, ch2, cs, e2)
  BY <1>4, <1>5 DEF Denotes
<1>7. QED
  BY <1>6

-----------------------------------------------------------------------------
(* What a change leaves alone. *)

LEMMA FrozenStays ==
  ASSUME NEW r \in Nat, NEW gs, GroupsRight(gs, r), NEW ch, NEW ch2, Sinks(Len(gs), ch, ch2),
         NEW k \in 1..Len(gs), NEW i \in 1..Len(gs[k].filters), Frozen(ch, gs[k].filters[i])
  PROVE  Frozen(ch2, gs[k].filters[i])
<1> DEFINE m == gs[k].filters[i]
<1>1. Member(m, k, Len(gs), r)
  BY DEF GroupsRight
<1> HIDE DEF m
<1>2. m \in 1..r => m > 0
  OBVIOUS
<1>3. Frozen(ch, m)
  BY DEF m
<1>4. Frozen(ch2, m)
  BY <1>1, <1>2, <1>3 DEF Frozen, Member, Sinks
<1>5. QED
  BY <1>4 DEF m

LEMMA FrameLevel ==
  ASSUME NEW r \in Nat, NEW gs, GroupsRight(gs, r), NEW ch, ChildrenRight(ch, Len(gs)),
         NEW gs2, NEW ch2, Keeps(gs, ch, gs2, ch2), NEW cs, NEW l, NEW x, NEW p \in 1..Len(ch),
         p + Width(l) - 1 \in 1..Len(ch), Stands(gs, ch, cs, l, p, x),
         ch2[p] = ch[p], ch2[p + Width(l) - 1] = ch[p + Width(l) - 1],
         gs2[ch[p]] = gs[ch[p]], gs2[ch[p + Width(l) - 1]] = gs[ch[p + Width(l) - 1]]
  PROVE  Stands(gs2, ch2, cs, l, p, x)
<1> DEFINE t  == ch[p + Width(l) - 1]
           gb == gs[ch[p]]
           gt == gs[t]
<1>1. ch[p] \in 1..Len(gs) /\ t \in 1..Len(gs)
  <2>1. Len(gs) \in Nat
    BY DEF Keeps
  <2>2. QED
    BY <2>1, StackOf
<1>2. LevelShape(ch, l, t, gb, gt, x) /\ \A e : Denotes(gs, ch, cs, e) => LevelMeans(cs, l, gb, gt, x, e)
  BY DEF Stands
<1>3. /\ \A i \in 1..Len(gb.filters) : Frozen(ch, gb.filters[i]) => Frozen(ch2, gb.filters[i])
      /\ \A i \in 1..Len(gt.filters) : Frozen(ch, gt.filters[i]) => Frozen(ch2, gt.filters[i])
  <2>1. Sinks(Len(gs), ch, ch2)
    BY DEF Keeps
  <2>2. QED
    BY <1>1, <2>1, FrozenStays
<1> HIDE DEF t, gb, gt
<1>4. LevelShape(ch2, l, t, gb, gt, x)
  BY <1>2, <1>3 DEF LevelShape, AllFrozen
<1>5. ASSUME NEW e, Denotes(gs2, ch2, cs, e) PROVE LevelMeans(cs, l, gb, gt, x, e)
  BY <1>2, <1>5, DenotesBack
<1>6. gs2[ch2[p]] = gb /\ gs2[ch2[p + Width(l) - 1]] = gt /\ ch2[p + Width(l) - 1] = t
  BY DEF t, gb, gt
<1>7. QED
  BY <1>4, <1>5, <1>6 DEF Stands

(* Facts about the places of the levels. *)
LEMMA PlacesOf ==
  ASSUME NEW cs, NEW ls \in Seq(LevelOf(cs)), ls # <<>>, NEW ch, NEW at, Placed(ls, ch, at), Len(ch) \in Nat
  PROVE  /\ Len(ls) \in Nat \ {0}
         /\ \A i \in 1..Len(ls) : Width(ls[i]) \in {1, 2} /\ at[i] \in 1..Len(ch)
                                  /\ at[i] + Width(ls[i]) - 1 \in 1..Len(ch)
         /\ \A i \in 1..Len(ls) : i # Len(ls) => at[i] + Width(ls[i]) <= at[Len(ls)]
<1>1. Len(ls) \in Nat \ {0} /\ Len(ls) \in 1..Len(ls)
  BY EmptySeq
<1>2. \A i \in 1..Len(ls) : Width(ls[i]) \in {1, 2} /\ at[i] \in 1..Len(ch)
  BY DEF Width, Placed
<1>3. \A i \in 1..Len(ls) : i # Len(ls) => at[i] + Width(ls[i]) <= at[Len(ls)]
  BY <1>1 DEF Placed
<1>4. ASSUME NEW i \in 1..Len(ls) PROVE at[i] + Width(ls[i]) - 1 \in 1..Len(ch)
  <2>1. CASE i = Len(ls)
    BY <1>2, <2>1 DEF Placed
  <2>2. CASE i # Len(ls)
    BY <1>1, <1>2, <1>3, <2>2
  <2>3. QED
    BY <2>1, <2>2
<1>5. QED
  BY <1>1, <1>2, <1>3, <1>4

WithLast(ls, l) == [ls EXCEPT ![Len(ls)] = l]

(* The groups below place p of the stack stay as they are. *)
Untouched(gs, ch, gs2, ch2, p) ==
  \A q \in 1..Len(ch) : q < p => q \in 1..Len(ch2) /\ ch2[q] = ch[q] /\ gs2[ch[q]] = gs[ch[q]]

(* Only the last level and the groups from its place on change. *)
LEMMA LastLevel ==
  ASSUME NEW r \in Nat, NEW gs, GroupsRight(gs, r), NEW ch, ChildrenRight(ch, Len(gs)),
         NEW gs2, NEW ch2, Keeps(gs, ch, gs2, ch2), NEW cs, Len(ch2) \in Nat,
         NEW ls \in Seq(LevelOf(cs)), ls # <<>>, NEW x, NEW at, Placed(ls, ch, at),
         AllStand(gs, ch, cs, ls, at, x),
         NEW l \in LevelOf(cs), NEW y,
         Untouched(gs, ch, gs2, ch2, at[Len(ls)]),
         Len(ch2) = at[Len(ls)] + Width(l) - 1,
         Stands(gs2, ch2, cs, l, at[Len(ls)], y)
  PROVE  LevelsInv(gs2, ch2, cs, WithLast(ls, l), y)
<1> DEFINE ls2 == WithLast(ls, l)
           n   == Len(ls)
<1>1. Len(ch) \in Nat
  BY LenProperties DEF ChildrenRight
<1>2. /\ n \in Nat \ {0}
      /\ \A i \in 1..n : Width(ls[i]) \in {1, 2} /\ at[i] \in 1..Len(ch) /\ at[i] + Width(ls[i]) - 1 \in 1..Len(ch)
      /\ \A i \in 1..n : i # n => at[i] + Width(ls[i]) <= at[n]
  BY <1>1, PlacesOf
<1>3. Len(ls2) = n /\ ls2[n] = l /\ \A i \in 1..n : i # n => ls2[i] = ls[i]
  BY <1>2, ExceptOf DEF WithLast
<1> HIDE DEF ls2
<1>4. Width(l) \in {1, 2} /\ n \in 1..n
  BY <1>2 DEF Width
<1>5. ASSUME NEW i \in 1..n, i # n
      PROVE  /\ Stands(gs2, ch2, cs, ls2[i], at[i], Expects(ls2, i, y))
             /\ at[i] \in 1..Len(ch2)
  <2> DEFINE p == at[i]
             q == at[i] + Width(ls[i]) - 1
  <2>1. p \in 1..Len(ch) /\ q \in 1..Len(ch) /\ p < at[n] /\ q < at[n]
    <3> DEFINE w == Width(ls[i])
    <3>1. p + w <= at[n] /\ w \in {1, 2} /\ p \in 1..Len(ch) /\ q \in 1..Len(ch) /\ at[n] \in 1..Len(ch)
      BY <1>2, <1>4, <1>5
    <3>2. q = p + w - 1
      OBVIOUS
    <3> HIDE DEF w, p, q
    <3>3. QED
      BY <1>1, <3>1, <3>2
  <2>2. /\ p \in 1..Len(ch2) /\ ch2[p] = ch[p] /\ gs2[ch[p]] = gs[ch[p]]
        /\ ch2[q] = ch[q] /\ gs2[ch[q]] = gs[ch[q]]
    BY <2>1 DEF Untouched
  <2>3. Stands(gs, ch, cs, ls[i], at[i], "operand")
    BY <1>5 DEF Expects, AllStand
  <2>4. Stands(gs2, ch2, cs, ls[i], at[i], "operand")
    BY <2>1, <2>2, <2>3, FrameLevel
  <2>5. QED
    BY <1>3, <1>5, <2>2, <2>4 DEF Expects
<1>6. Stands(gs2, ch2, cs, ls2[n], at[n], Expects(ls2, n, y))
  BY <1>3 DEF Expects
<1>7. Placed(ls2, ch2, at)
  <2>1. at[n] \in 1..Len(ch2)
    BY <1>2, <1>4
  <2>2. \A i \in 1..n : at[i] \in 1..Len(ch2)
    BY <1>5, <2>1
  <2>3. \A i, j \in 1..n : i < j => at[i] + Width(ls2[i]) <= at[j]
    BY <1>2, <1>3 DEF Placed
  <2>4. ASSUME NEW i \in 1..n - 1 PROVE at[i + 1] = at[i] + Width(ls2[i])
    <3>1. i \in 1..n /\ i # n
      BY <1>2
    <3>2. ls2[i] = ls[i]
      BY <1>3, <3>1
    <3>3. QED
      BY <3>2 DEF Placed
  <2>5. at[1] = 1
    BY DEF Placed
  <2>6. QED
    BY <1>3, <2>2, <2>3, <2>4, <2>5 DEF Placed
<1>8. \A i \in 1..n : Stands(gs2, ch2, cs, ls2[i], at[i], Expects(ls2, i, y))
  BY <1>5, <1>6
<1>9. QED
  BY <1>3, <1>7, <1>8 DEF ls2, LevelsInv, AllStand

-----------------------------------------------------------------------------
(* What conjunctions and disjunctions mean when a member is added. *)

LEMMA SomeSame ==
  ASSUME NEW cs, NEW f, NEW f2, NEW n, NEW e, \A i \in 1..n : f2[i] = f[i]
  PROVE  Some(cs, f2, n, e) = Some(cs, f, n, e)
BY DEF Some

LEMMA SomeMore ==
  ASSUME NEW cs, NEW f, NEW n \in Nat \ {0}, NEW e, Mem(cs, f[n], e) \subseteq cs
  PROVE  Some(cs, f, n, e) = Some(cs, f, n - 1, e) \cup Mem(cs, f[n], e)
<1>1. \A i : i \in 1..n <=> i \in 1..n - 1 \/ i = n
  OBVIOUS
<1>2. QED
  BY <1>1 DEF Some

LEMMA AllMore ==
  ASSUME NEW cs, NEW f, NEW f2, NEW m, NEW e, Mem(cs, m, e) \subseteq cs, Len(f) \in Nat,
         Len(f2) = Len(f) + 1, f2[Len(f) + 1] = m, \A i \in 1..Len(f) : f2[i] = f[i]
  PROVE  All(cs, f2, e) = All(cs, f, e) \cap Mem(cs, m, e)
<1>1. \A i : i \in 1..Len(f2) <=> i \in 1..Len(f) \/ i = Len(f) + 1
  OBVIOUS
<1>2. QED
  BY <1>1 DEF All

LEMMA AllOne ==
  ASSUME NEW cs, NEW f, Len(f) = 1, NEW e, Mem(cs, f[1], e) \subseteq cs
  PROVE  All(cs, f, e) = Mem(cs, f[1], e) /\ Some(cs, f, 1, e) = Mem(cs, f[1], e)
<1>1. \A i : i \in 1..1 <=> i = 1
  OBVIOUS
<1>2. QED
  BY <1>1 DEF All, Some

(* A member has a meaning. *)
Sensible(m) == m > 0 \/ -m \in Nat

LEMMA MemIn ==
  ASSUME NEW gs, NEW ch, NEW cs, NEW e, Denotes(gs, ch, cs, e), NEW m, Sensible(m)
  PROVE  Mem(cs, m, e) \subseteq cs
<1>1. e \in [Nat -> SUBSET cs]
  BY DEF Denotes
<1>2. QED
  BY <1>1 DEF Mem, Sensible

LEMMA MembersOf ==
  ASSUME NEW r \in Nat, NEW gs, GroupsRight(gs, r), NEW k \in 1..Len(gs)
  PROVE  /\ Len(gs) \in Nat /\ gs \in Seq(Group) /\ gs[k] \in Group /\ Len(gs[k].filters) \in Nat
         /\ gs[k].type \in Kinds /\ gs[k].filters \in Seq(Int)
         /\ \A i \in 1..Len(gs[k].filters) :
              gs[k].filters[i] \in Int /\ Sensible(gs[k].filters[i]) /\ Member(gs[k].filters[i], k, Len(gs), r)
<1>1. gs \in Seq(Group) /\ \A i \in 1..Len(gs[k].filters) : Member(gs[k].filters[i], k, Len(gs), r)
  BY DEF GroupsRight
<1>2. Len(gs) \in Nat
  BY <1>1, LenProperties
<1>3. \A i \in 1..Len(gs[k].filters) : Sensible(gs[k].filters[i])
  BY <1>1, <1>2 DEF Sensible, Member
<1>4. QED
  BY <1>1, <1>2, <1>3, GroupOf

-----------------------------------------------------------------------------
(* An operand. *)

GrownBy(g, g2, m) ==
  /\ g2.type = g.type /\ Len(g.filters) \in Nat /\ Len(g2.filters) = Len(g.filters) + 1
  /\ g2.filters[Len(g.filters) + 1] = m
  /\ \A i \in 1..Len(g.filters) : g2.filters[i] = g.filters[i]

(* The lower group of a level of which the upper one becomes g. *)
Lower(l, gb, g) == IF Two(l) THEN gb ELSE g

LEMMA OperandShape ==
  ASSUME NEW cs, NEW l \in LevelOf(cs), NEW ch, NEW t, NEW gb, NEW gt, NEW gt2, NEW m, NEW mm, mm \subseteq cs,
         LevelShape(ch, l, t, gb, gt, "operand"), GrownBy(gt, gt2, m), Frozen(ch, m)
  PROVE  LevelShape(ch, WithOperand(l, mm), t, Lower(l, gb, gt2), gt2, "connective")
<1> DEFINE l2  == WithOperand(l, mm)
           gb2 == Lower(l, gb, gt2)
<1>1. l2.connective = l.connective /\ l2.or = l.or /\ (Two(l2) <=> Two(l))
  BY WithOperandOf DEF Two
<1>2. l.connective \in Kinds
  BY LevelIs
<1>3. CASE Two(l)
  <2>1. /\ l.connective = "AND" /\ l.or /\ gb.type = "OR" /\ gt.type = "AND" /\ Len(gt.filters) >= 1
        /\ Len(gb.filters) >= 2 /\ gb.filters[Len(gb.filters)] = -t /\ AllFrozen(ch, gt.filters)
        /\ \A i \in 1..Len(gb.filters) : i # Len(gb.filters) => Frozen(ch, gb.filters[i])
    BY <1>3 DEF LevelShape, Two
  <2>2. gb2 = gb
    BY <1>3 DEF Lower
  <2>3. gt2.type = "AND" /\ Len(gt2.filters) >= 2
    BY <2>1 DEF GrownBy
  <2>4. AllFrozen(ch, gt2.filters)
    <3> SUFFICES ASSUME NEW i \in 1..Len(gt2.filters) PROVE Frozen(ch, gt2.filters[i])
      BY DEF AllFrozen
    <3>1. CASE i \in 1..Len(gt.filters)
      BY <2>1, <3>1 DEF AllFrozen, GrownBy
    <3>2. CASE i = Len(gt.filters) + 1
      BY <3>2 DEF GrownBy
    <3>3. QED
      BY <3>1, <3>2 DEF GrownBy
  <2> HIDE DEF l2, gb2
  <2>5. LevelShape(ch, l2, t, gb2, gt2, "connective")
    BY <1>1, <1>3, <2>1, <2>2, <2>3, <2>4 DEF LevelShape
  <2>6. QED
    BY <2>5 DEF l2, gb2
<1>4. CASE ~Two(l)
  <2>1. gb2 = gt2 /\ gb = gt
    BY <1>4 DEF Lower, LevelShape
  <2>2. \A i \in 1..Len(gt2.filters) : Frozen(ch, gt2.filters[i])
    <3> SUFFICES ASSUME NEW i \in 1..Len(gt2.filters) PROVE Frozen(ch, gt2.filters[i])
      OBVIOUS
    <3>1. CASE i \in 1..Len(gt.filters)
      BY <1>4, <2>1, <3>1 DEF LevelShape, GrownBy
    <3>2. CASE i = Len(gt.filters) + 1
      BY <3>2 DEF GrownBy
    <3>3. QED
      BY <3>1, <3>2 DEF GrownBy
  <2>3. CASE l.connective = "none"
    <3>1. ~l.or /\ gt.type = "none" /\ Len(gt.filters) = 0
      BY <2>1, <2>3 DEF LevelShape
    <3>2. gt2.type = "none" /\ Len(gt2.filters) = 1
      BY <3>1 DEF GrownBy
    <3> HIDE DEF l2, gb2
    <3>3. LevelShape(ch, l2, t, gb2, gt2, "connective")
      BY <1>1, <1>4, <2>1, <2>2, <2>3, <3>1, <3>2 DEF LevelShape
    <3>4. QED
      BY <3>3 DEF l2, gb2
  <2>4. CASE l.connective = "AND"
    <3>1. ~l.or /\ gt.type = "AND" /\ Len(gt.filters) >= 1
      BY <1>4, <2>1, <2>4, LevelIs DEF LevelShape, Two
    <3>2. gt2.type = "AND" /\ Len(gt2.filters) >= 2
      BY <3>1 DEF GrownBy
    <3> HIDE DEF l2, gb2
    <3>3. LevelShape(ch, l2, t, gb2, gt2, "connective")
      BY <1>1, <1>4, <2>1, <2>2, <2>4, <3>1, <3>2 DEF LevelShape
    <3>4. QED
      BY <3>3 DEF l2, gb2
  <2>5. CASE l.connective = "OR"
    <3>1. l.or /\ gt.type = "OR" /\ Len(gt.filters) >= 1
      BY <2>1, <2>5 DEF LevelShape
    <3>2. gt2.type = "OR" /\ Len(gt2.filters) >= 2
      BY <3>1 DEF GrownBy
    <3> HIDE DEF l2, gb2
    <3>3. LevelShape(ch, l2, t, gb2, gt2, "connective")
      BY <1>1, <1>4, <2>1, <2>2, <2>5, <3>1, <3>2 DEF LevelShape
    <3>4. QED
      BY <3>3 DEF l2, gb2
  <2>6. QED
    BY <1>2, <2>3, <2>4, <2>5 DEF Kinds
<1>5. QED
  BY <1>3, <1>4

LEMMA OperandMeans ==
  ASSUME NEW cs, NEW l \in LevelOf(cs), NEW ch, NEW t, NEW gb, NEW gt, NEW gt2, NEW m, NEW e,
         Mem(cs, m, e) \subseteq cs, Len(gb.filters) \in Nat,
         LevelShape(ch, l, t, gb, gt, "operand"), LevelMeans(cs, l, gb, gt, "operand", e), GrownBy(gt, gt2, m)
  PROVE  LevelMeans(cs, WithOperand(l, Mem(cs, m, e)), Lower(l, gb, gt2), gt2, "connective", e)
<1> DEFINE mm  == Mem(cs, m, e)
           l2  == WithOperand(l, mm)
           gb2 == Lower(l, gb, gt2)
<1>1. /\ l2.connective = l.connective /\ l2.or = l.or
      /\ l.connective = "AND" => l2.before = l.before /\ l2.operand = l.operand \cap mm
      /\ l.connective # "AND" => l2.before = Meaning(l) /\ l2.operand = mm
  BY WithOperandOf
<1>2. l.connective \in Kinds /\ l.or \in BOOLEAN
  BY LevelIs
<1>3. CASE l.connective = "none"
  <2>1. gb = gt /\ gb2 = gt2
    BY <1>3 DEF LevelShape, Two, Lower
  <2>2. Len(gt.filters) = 0
    BY <1>3, <2>1 DEF LevelShape
  <2>3. gt2.filters[1] = m
    BY <2>2 DEF GrownBy
  <2>4. Meaning(l) = {}
    BY <1>3 DEF LevelMeans, Meaning
  <2> HIDE DEF l2, gb2
  <2>5. LevelMeans(cs, l2, gb2, gt2, "connective", e)
    BY <1>1, <1>3, <2>1, <2>3, <2>4 DEF LevelMeans
  <2>6. QED
    BY <2>5 DEF l2, gb2, mm
<1>4. CASE l.connective = "AND"
  <2>1. All(cs, gt2.filters, e) = All(cs, gt.filters, e) \cap mm
    <3>1. /\ Len(gt.filters) \in Nat /\ Len(gt2.filters) = Len(gt.filters) + 1
          /\ gt2.filters[Len(gt.filters) + 1] = m
          /\ \A i \in 1..Len(gt.filters) : gt2.filters[i] = gt.filters[i]
      BY DEF GrownBy
    <3>2. QED
      BY <3>1, AllMore, SMTT(30)
  <2>2. l.operand = All(cs, gt.filters, e) /\ l.before = (IF l.or THEN Some(cs, gb.filters, Len(gb.filters) - 1, e) ELSE {})
    BY <1>4 DEF LevelMeans
  <2>3. l.or => gb2 = gb
    BY <1>4 DEF Lower, Two
  <2> HIDE DEF l2, gb2, mm
  <2>4. LevelMeans(cs, l2, gb2, gt2, "connective", e)
    BY <1>1, <1>2, <1>4, <2>1, <2>2, <2>3 DEF LevelMeans
  <2>5. QED
    BY <2>4 DEF l2, gb2, mm
<1>5. CASE l.connective = "OR"
  <2>1. gb = gt /\ gb2 = gt2
    BY <1>5 DEF LevelShape, Two, Lower
  <2>2. Meaning(l) = Some(cs, gt.filters, Len(gt.filters), e)
    BY <1>5, <2>1 DEF LevelMeans
  <2>3. Some(cs, gt2.filters, Len(gt.filters), e) = Some(cs, gt.filters, Len(gt.filters), e)
    BY SomeSame DEF GrownBy
  <2>4. Len(gt2.filters) - 1 = Len(gt.filters) /\ gt2.filters[Len(gt2.filters)] = m
    BY DEF GrownBy
  <2> HIDE DEF l2, gb2
  <2>5. LevelMeans(cs, l2, gb2, gt2, "connective", e)
    BY <1>1, <1>5, <2>1, <2>2, <2>3, <2>4 DEF LevelMeans
  <2>6. QED
    BY <2>5 DEF l2, gb2, mm
<1>6. QED
  BY <1>2, <1>3, <1>4, <1>5 DEF Kinds

LEMMA TopOf ==
  ASSUME NEW n \in Nat, NEW ch, ChildrenRight(ch, n), NEW cs, NEW ls \in Seq(LevelOf(cs)), ls # <<>>,
         NEW at, Placed(ls, ch, at)
  PROVE  /\ Len(ls) \in Nat \ {0} /\ ls[Len(ls)] \in LevelOf(cs) /\ Last(ls) = ls[Len(ls)]
         /\ at[Len(ls)] \in 1..Len(ch) /\ Len(ch) \in Nat \ {0}
         /\ at[Len(ls)] + Width(ls[Len(ls)]) - 1 = Len(ch)
         /\ Two(ls[Len(ls)]) => at[Len(ls)] = Len(ch) - 1 /\ ch[at[Len(ls)]] # ch[Len(ch)]
         /\ ~Two(ls[Len(ls)]) => at[Len(ls)] = Len(ch)
         /\ Last(ch) = ch[Len(ch)] /\ Last(ch) \in 1..n /\ ch[at[Len(ls)]] \in 1..n
         /\ \A q \in 1..Len(ch) : q < at[Len(ls)] => ch[q] \in 1..n /\ ch[q] # Last(ch)
         /\ OnStack(ch, Last(ch)) /\ OnStack(ch, ch[at[Len(ls)]])
<1>1. /\ Len(ls) \in Nat \ {0} /\ ls[Len(ls)] \in LevelOf(cs) /\ Last(ls) = ls[Len(ls)]
  BY FrontOf
<1>2. /\ Len(ch) \in Nat \ {0} /\ Last(ch) = ch[Len(ch)]
      /\ \A i \in 1..Len(ch) : ch[i] \in 1..n /\ OnStack(ch, ch[i])
  BY StackOf
<1>3. at[Len(ls)] \in 1..Len(ch) /\ at[Len(ls)] + Width(ls[Len(ls)]) - 1 = Len(ch)
  BY <1>1 DEF Placed
<1>4. \A i, j \in 1..Len(ch) : ch[i] = ch[j] => i = j
  BY DEF ChildrenRight
<1>5. Two(ls[Len(ls)]) => at[Len(ls)] = Len(ch) - 1
  BY <1>2, <1>3 DEF Width
<1>6. ~Two(ls[Len(ls)]) => at[Len(ls)] = Len(ch)
  BY <1>2, <1>3 DEF Width
<1>7. Two(ls[Len(ls)]) => ch[at[Len(ls)]] # ch[Len(ch)]
  BY <1>2, <1>3, <1>4, <1>5
<1>8. \A q \in 1..Len(ch) : q < at[Len(ls)] => ch[q] \in 1..n /\ ch[q] # Last(ch)
  BY <1>2, <1>3, <1>4
<1>9. Last(ch) \in 1..n /\ ch[at[Len(ls)]] \in 1..n /\ OnStack(ch, Last(ch)) /\ OnStack(ch, ch[at[Len(ls)]])
  BY <1>2, <1>3
<1>10. QED
  BY <1>1, <1>2, <1>3, <1>5, <1>6, <1>7, <1>8, <1>9

(* Member m means mm. *)
MeantAs(gs, ch, cs, m, mm) == \A e : Denotes(gs, ch, cs, e) => Mem(cs, m, e) = mm

LEMMA PutKeeps ==
  ASSUME NEW r \in Nat, NEW gs, GroupsRight(gs, r), NEW ch, ChildrenRight(ch, Len(gs)),
         NEW cs, NEW ls \in Seq(LevelOf(cs)), ls # <<>>, SemInv(gs, ch, cs, ls, "operand"),
         NEW m \in Int, Frozen(ch, m), NEW mm, mm \subseteq cs, MeantAs(gs, ch, cs, m, mm)
  PROVE  /\ gs[Last(ch)].filters = <<>> \/ gs[Last(ch)].type # "none"
         /\ SemInv(PutInto(gs, Last(ch), m), ch, cs, WithLast(ls, WithOperand(ls[Len(ls)], mm)), "connective")
<1> DEFINE k   == Last(ch)
           gs2 == PutInto(gs, k, m)
           n   == Len(ls)
           l   == ls[n]
           l2  == WithOperand(l, mm)
<1>1. gs \in Seq(Group) /\ Len(gs) \in Nat
  BY LenProperties DEF GroupsRight
<1>2. PICK at : Placed(ls, ch, at) /\ AllStand(gs, ch, cs, ls, at, "operand")
  BY DEF SemInv, LevelsInv
<1>3. /\ n \in Nat \ {0} /\ l \in LevelOf(cs) /\ at[n] \in 1..Len(ch) /\ Len(ch) \in Nat \ {0}
      /\ at[n] + Width(l) - 1 = Len(ch) /\ Last(ch) = ch[Len(ch)] /\ k \in 1..Len(gs) /\ ch[at[n]] \in 1..Len(gs)
      /\ Two(l) => at[n] = Len(ch) - 1 /\ ch[at[n]] # k
      /\ ~Two(l) => at[n] = Len(ch)
      /\ \A q \in 1..Len(ch) : q < at[n] => ch[q] \in 1..Len(gs) /\ ch[q] # k
      /\ OnStack(ch, k)
  BY <1>1, <1>2, TopOf
<1>4. /\ GrownBy(gs[k], gs2[k], m) /\ Len(gs2) = Len(gs)
      /\ \A j \in 1..Len(gs) : j # k => gs2[j] = gs[j]
  <2> HIDE DEF k
  <2>1. gs2 = [gs EXCEPT ![k] = Grown(gs[k], m)] /\ Grown(gs[k], m) \in Group
    <3>1. PutInto(gs, k, m) = [gs EXCEPT ![k] = Grown(gs[k], m)]
      BY <1>1, <1>3, PutIs
    <3>2. QED
      BY <1>1, <1>3, <3>1, GrownOf
  <2>2. gs2[k] = Grown(gs[k], m) /\ Len(gs2) = Len(gs) /\ \A j \in 1..Len(gs) : j # k => gs2[j] = gs[j]
    BY <1>1, <1>3, <2>1, ChangeOf
  <2>3. GrownBy(gs[k], Grown(gs[k], m), m)
    BY <1>1, <1>3, GrownOf DEF GrownBy
  <2>4. QED
    BY <2>2, <2>3
<1>5. Stands(gs, ch, cs, l, at[n], "operand")
  BY <1>2, <1>3 DEF Expects, AllStand
<1>6. /\ LevelShape(ch, l, k, gs[ch[at[n]]], gs[k], "operand")
      /\ \A e : Denotes(gs, ch, cs, e) => LevelMeans(cs, l, gs[ch[at[n]]], gs[k], "operand", e)
  BY <1>3, <1>5 DEF Stands
<1>7. l2 \in LevelOf(cs) /\ Width(l2) = Width(l)
  <2>1. l2 \in LevelOf(cs) /\ l2.connective = l.connective /\ l2.or = l.or
    BY <1>3, WithOperandOf
  <2>2. QED
    BY <2>1 DEF Width, Two
<1> HIDE DEF k, gs2, n, l, l2
<1>8. gs2[ch[at[n]]] = Lower(l, gs[ch[at[n]]], gs2[k])
  BY <1>3, <1>4 DEF Lower, k
<1>9. Keeps(gs, ch, gs2, ch)
  BY <1>1, <1>3, <1>4 DEF Keeps, Sinks
<1>10. Len(gs[ch[at[n]]].filters) \in Nat /\ Len(gs[k].filters) \in Nat /\ gs[k].filters \in Seq(Int)
  BY <1>1, <1>3, GroupOf
<1>11. Stands(gs2, ch, cs, l2, at[n], "connective")
  <2>1. LevelShape(ch, l2, k, gs2[ch[at[n]]], gs2[k], "connective")
    BY <1>3, <1>4, <1>6, <1>8, OperandShape DEF l2
  <2>2. ASSUME NEW e, Denotes(gs2, ch, cs, e) PROVE LevelMeans(cs, l2, gs2[ch[at[n]]], gs2[k], "connective", e)
    <3>1. Denotes(gs, ch, cs, e)
      BY <1>9, <2>2, DenotesBack
    <3>2. Mem(cs, m, e) = mm
      BY <3>1 DEF MeantAs
    <3>3. LevelMeans(cs, WithOperand(l, Mem(cs, m, e)), Lower(l, gs[ch[at[n]]], gs2[k]), gs2[k], "connective", e)
      BY <1>3, <1>4, <1>6, <1>10, <3>1, <3>2, OperandMeans
    <3>4. QED
      BY <1>8, <3>2, <3>3 DEF l2
  <2>3. ch[at[n] + Width(l2) - 1] = k
    BY <1>3, <1>7 DEF k
  <2>4. QED
    BY <2>1, <2>2, <2>3 DEF Stands
<1>12. LevelsInv(gs2, ch, cs, WithLast(ls, l2), "connective")
  <2>1. Untouched(gs, ch, gs2, ch, at[n])
    BY <1>3, <1>4 DEF Untouched
  <2>2. Len(ch) = at[n] + Width(l2) - 1
    BY <1>3, <1>7
  <2>3. QED
    BY <1>2, <1>3, <1>7, <1>9, <1>11, <2>1, <2>2, LastLevel DEF n
<1>13. ClosedInv(gs2, ch)
  <2> SUFFICES ASSUME NEW j \in 1..Len(gs2), ~OnStack(ch, j) PROVE AllFrozen(ch, gs2[j].filters)
    BY DEF ClosedInv
  <2>1. j \in 1..Len(gs) /\ gs2[j] = gs[j]
    BY <1>3, <1>4
  <2>2. QED
    BY <2>1 DEF SemInv, ClosedInv
<1>14. \E e : Denotes(gs2, ch, cs, e)
  <2>1. PICK e : Denotes(gs, ch, cs, e)
    BY DEF SemInv
  <2>2. \A j \in 1..Len(gs2) : ~OnStack(ch, j) => j \in 1..Len(gs) /\ ~OnStack(ch, j) /\ gs2[j] = gs[j]
    BY <1>3, <1>4
  <2>3. QED
    BY <2>1, <2>2, DenotesSame
<1>15. gs[k].filters = <<>> \/ gs[k].type # "none"
  <2>1. CASE l.connective = "none"
    <3>1. Len(gs[k].filters) = 0
      BY <1>6, <2>1 DEF LevelShape, Two
    <3>2. QED
      BY <1>10, <3>1
  <2>2. CASE l.connective = "AND"
    BY <1>6, <2>2 DEF LevelShape
  <2>3. CASE l.connective = "OR"
    BY <1>6, <2>3 DEF LevelShape, Two
  <2>4. QED
    BY <1>3, <2>1, <2>2, <2>3, LevelIs DEF Kinds
<1>16. QED
  BY <1>12, <1>13, <1>14, <1>15 DEF SemInv, k, gs2, n, l, l2

-----------------------------------------------------------------------------
(* The end of a level. *)

(* What becomes of group k in a parenthesis: see Unwrapped. *)
Only(gs, k) == IF Len(gs[k].filters) = 1 THEN gs[k].filters[1] ELSE -k

LEMMA SingleShape ==
  ASSUME NEW cs, NEW l \in LevelOf(cs), ~Two(l), NEW ch, NEW t, NEW gb, NEW gt, Len(gb.filters) \in Nat,
         LevelShape(ch, l, t, gb, gt, "connective")
  PROVE  /\ gb = gt /\ Len(gb.filters) >= 1 /\ AllFrozen(ch, gb.filters)
         /\ Len(gb.filters) = 1 => l.connective = "none" /\ gb.type = "none"
         /\ Len(gb.filters) # 1 => l.connective = gb.type /\ gb.type # "none" /\ (l.or <=> gb.type = "OR")
<1>1. l.connective \in Kinds /\ l.or \in BOOLEAN
  BY LevelIs
<1>2. gb = gt /\ AllFrozen(ch, gb.filters)
  BY DEF LevelShape, AllFrozen
<1>3. CASE l.connective = "none"
  <2>1. gb.type = "none" /\ Len(gb.filters) = 1
    BY <1>3 DEF LevelShape
  <2>2. QED
    BY <1>2, <1>3, <2>1
<1>4. CASE l.connective = "AND"
  BY <1>1, <1>2, <1>4 DEF LevelShape, Two
<1>5. CASE l.connective = "OR"
  BY <1>1, <1>2, <1>5 DEF LevelShape
<1>6. QED
  BY <1>1, <1>3, <1>4, <1>5 DEF Kinds

MembersIn(cs, f, e) == \A i \in 1..Len(f) : Mem(cs, f[i], e) \subseteq cs

LEMMA SingleMeans ==
  ASSUME NEW cs, NEW l \in LevelOf(cs), ~Two(l), NEW ch, NEW t, NEW gb, NEW gt, Len(gb.filters) \in Nat,
         LevelShape(ch, l, t, gb, gt, "connective"), NEW e, LevelMeans(cs, l, gb, gt, "connective", e),
         MembersIn(cs, gb.filters, e)
  PROVE  /\ Len(gb.filters) = 1 => Meaning(l) = Mem(cs, gb.filters[1], e)
         /\ Len(gb.filters) # 1 => Meaning(l) = GroupMeans(cs, gb, e)
<1>1. l.connective \in Kinds /\ l.or \in BOOLEAN
  BY LevelIs
<1>2. /\ gb = gt /\ Len(gb.filters) >= 1
      /\ Len(gb.filters) = 1 => l.connective = "none" /\ gb.type = "none"
      /\ Len(gb.filters) # 1 => l.connective = gb.type /\ gb.type # "none" /\ (l.or <=> gb.type = "OR")
  BY SingleShape
<1>3. CASE Len(gb.filters) = 1
  BY <1>2, <1>3 DEF LevelMeans, Meaning
<1>4. CASE Len(gb.filters) # 1 /\ l.connective = "AND"
  <2>1. l.before = {} /\ l.operand = All(cs, gb.filters, e) /\ gb.type = "AND"
    BY <1>2, <1>4 DEF LevelMeans
  <2>2. QED
    BY <1>4, <2>1 DEF GroupMeans, Meaning
<1>5. CASE Len(gb.filters) # 1 /\ l.connective = "OR"
  <2>1. /\ l.before = Some(cs, gb.filters, Len(gb.filters) - 1, e)
        /\ l.operand = Mem(cs, gb.filters[Len(gb.filters)], e) /\ gb.type = "OR"
    BY <1>2, <1>5 DEF LevelMeans
  <2>2. Some(cs, gb.filters, Len(gb.filters), e) =
          Some(cs, gb.filters, Len(gb.filters) - 1, e) \cup Mem(cs, gb.filters[Len(gb.filters)], e)
    <3>1. Len(gb.filters) \in Nat \ {0} /\ Len(gb.filters) \in 1..Len(gb.filters)
      BY <1>2
    <3>2. Mem(cs, gb.filters[Len(gb.filters)], e) \subseteq cs
      BY <3>1 DEF MembersIn
    <3> DEFINE f == gb.filters
               n == Len(gb.filters)
    <3>3. n \in Nat \ {0} /\ Mem(cs, f[n], e) \subseteq cs
      BY <3>1, <3>2
    <3> HIDE DEF f, n
    <3>4. Some(cs, f, n, e) = Some(cs, f, n - 1, e) \cup Mem(cs, f[n], e)
      BY <3>3, SomeMore
    <3>5. QED
      BY <3>4 DEF f, n
  <2>3. QED
    BY <1>5, <2>1, <2>2 DEF GroupMeans, Meaning
<1>6. QED
  BY <1>1, <1>2, <1>3, <1>4, <1>5 DEF Kinds

(* Only the last group on the stack, which is frozen, is taken from it. *)
LEMMA PopFreezes ==
  ASSUME NEW r \in Nat, NEW gs, GroupsRight(gs, r), NEW ch, ChildrenRight(ch, Len(gs)), NEW cs,
         ClosedInv(gs, ch), \E e : Denotes(gs, ch, cs, e), AllFrozen(ch, gs[Last(ch)].filters)
  PROVE  /\ Keeps(gs, ch, gs, Front(ch)) /\ ClosedInv(gs, Front(ch)) /\ \E e : Denotes(gs, Front(ch), cs, e)
         /\ Len(Front(ch)) = Len(ch) - 1 /\ \A q \in 1..Len(ch) - 1 : Front(ch)[q] = ch[q]
         /\ Len(ch) \in Nat \ {0} /\ Last(ch) \in 1..Len(gs) /\ ~OnStack(Front(ch), Last(ch))
<1> DEFINE k == Last(ch)
           st == Front(ch)
<1>1. Len(gs) \in Nat
  BY LenProperties DEF GroupsRight
<1>2. Len(ch) \in Nat \ {0} /\ k \in 1..Len(gs) /\ OnStack(ch, k)
  BY <1>1, StackOf
<1>3. /\ Len(st) = Len(ch) - 1 /\ \A q \in 1..Len(ch) - 1 : st[q] = ch[q]
      /\ \A j : OnStack(st, j) <=> OnStack(ch, j) /\ j # k
  BY <1>1, Popped
<1> HIDE DEF k, st
<1>4. Keeps(gs, ch, gs, st)
  BY <1>1, <1>3 DEF Keeps, Sinks
<1>5. ClosedInv(gs, st)
  <2> SUFFICES ASSUME NEW j \in 1..Len(gs), ~OnStack(st, j) PROVE AllFrozen(st, gs[j].filters)
    BY DEF ClosedInv
  <2>1. AllFrozen(ch, gs[j].filters)
    BY <1>3 DEF ClosedInv, k
  <2>2. QED
    BY <1>3, <2>1 DEF AllFrozen, Frozen
<1>6. \E e : Denotes(gs, st, cs, e)
  <2>1. PICK e : Denotes(gs, ch, cs, e)
    OBVIOUS
  <2>2. AllFrozen(ch, gs[k].filters)
    BY DEF k
  <2>3. \A j \in 1..Len(gs) : ~OnStack(st, j) => j = k \/ (j \in 1..Len(gs) /\ ~OnStack(ch, j) /\ gs[j] = gs[j])
    BY <1>3
  <2>4. QED
    BY <1>2, <2>1, <2>2, <2>3, DenotesForth
<1>7. QED
  BY <1>2, <1>3, <1>4, <1>5, <1>6 DEF k, st

(* A parenthesis ends: its group is one that AND did not leave upon an OR. *)
LEMMA PopKeeps ==
  ASSUME NEW r \in Nat, NEW gs, GroupsRight(gs, r), NEW ch, ChildrenRight(ch, Len(gs)),
         NEW cs, NEW ls \in Seq(LevelOf(cs)), Len(ls) > 1, SemInv(gs, ch, cs, ls, "connective"),
         ~Two(ls[Len(ls)])
  PROVE  /\ Len(ch) > 1 /\ Len(gs[Last(ch)].filters) >= 1
         /\ SemInv(gs, Front(ch), cs, Front(ls), "operand")
         /\ Frozen(Front(ch), Only(gs, Last(ch)))
         /\ MeantAs(gs, Front(ch), cs, Only(gs, Last(ch)), Meaning(ls[Len(ls)]))
<1> DEFINE k  == Last(ch)
           st == Front(ch)
           n  == Len(ls)
           l  == ls[n]
<1>1. gs \in Seq(Group) /\ Len(gs) \in Nat /\ ls # <<>>
  BY LenProperties DEF GroupsRight
<1>2. PICK at : Placed(ls, ch, at) /\ AllStand(gs, ch, cs, ls, at, "connective")
  BY DEF SemInv, LevelsInv
<1>3. /\ n \in Nat \ {0} /\ l \in LevelOf(cs) /\ at[n] \in 1..Len(ch) /\ Len(ch) \in Nat \ {0}
      /\ at[n] = Len(ch) /\ Last(ch) = ch[Len(ch)] /\ k \in 1..Len(gs) /\ Width(l) = 1
  <2>1. n \in Nat \ {0} /\ l \in LevelOf(cs) /\ at[n] \in 1..Len(ch) /\ Len(ch) \in Nat \ {0}
        /\ at[n] = Len(ch) /\ Last(ch) = ch[Len(ch)] /\ k \in 1..Len(gs)
    BY <1>1, <1>2, TopOf
  <2>2. QED
    BY <2>1 DEF Width
<1>4. n > 1 /\ ~Two(l)
  OBVIOUS
<1>5. Front(ls) \in Seq(LevelOf(cs)) /\ Len(Front(ls)) = n - 1 /\ \A i \in 1..n - 1 : Front(ls)[i] = ls[i]
  BY <1>1, FrontOf
<1> HIDE DEF n, l
<1>6. /\ \A i \in 1..n : Width(ls[i]) \in {1, 2} /\ at[i] \in 1..Len(ch) /\ at[i] + Width(ls[i]) - 1 \in 1..Len(ch)
      /\ \A i \in 1..n : i # n => at[i] + Width(ls[i]) <= at[n]
  BY <1>1, <1>2, <1>3, PlacesOf DEF n
<1>7. Len(ch) > 1
  <2>1. 1 \in 1..n /\ 1 # n
    BY <1>3, <1>4
  <2>2. Width(ls[1]) \in {1, 2} /\ at[1] + Width(ls[1]) <= at[n] /\ at[1] = 1
    BY <1>2, <1>6, <2>1 DEF Placed
  <2>3. QED
    BY <1>3, <2>2
<1>8. Stands(gs, ch, cs, l, at[n], "connective")
  BY <1>2, <1>3 DEF Expects, AllStand, n, l
<1>9. /\ LevelShape(ch, l, k, gs[k], gs[k], "connective")
      /\ \A e : Denotes(gs, ch, cs, e) => LevelMeans(cs, l, gs[k], gs[k], "connective", e)
  <2>1. at[n] + Width(l) - 1 = at[n] /\ ch[at[n]] = k
    BY <1>3
  <2>2. QED
    BY <1>8, <2>1 DEF Stands
<1>10. /\ Len(gs[k].filters) \in Nat /\ gs[k].filters \in Seq(Int)
       /\ \A i \in 1..Len(gs[k].filters) : gs[k].filters[i] \in Int /\ Sensible(gs[k].filters[i])
  BY <1>3, MembersOf
<1>11. Len(gs[k].filters) >= 1 /\ AllFrozen(ch, gs[k].filters)
  BY <1>3, <1>4, <1>9, <1>10, SingleShape
<1>12. /\ Keeps(gs, ch, gs, st) /\ ClosedInv(gs, st) /\ \E e : Denotes(gs, st, cs, e)
       /\ Len(st) = Len(ch) - 1 /\ \A q \in 1..Len(ch) - 1 : st[q] = ch[q]
       /\ ~OnStack(st, k)
  BY <1>11, PopFreezes DEF SemInv
<1> HIDE DEF k, st
<1>13. LevelsInv(gs, st, cs, Front(ls), "operand")
  <2>1. ASSUME NEW i \in 1..n - 1 PROVE Stands(gs, st, cs, ls[i], at[i], "operand") /\ at[i] \in 1..Len(st)
    <3> DEFINE p == at[i]
               w == Width(ls[i])
               q == p + w - 1
    <3>1. i \in 1..n /\ i # n
      BY <1>3
    <3>2. p + w <= Len(ch) /\ w \in {1, 2} /\ p \in 1..Len(ch) /\ q \in 1..Len(ch)
      BY <1>3, <1>6, <3>1
    <3>3. Stands(gs, ch, cs, ls[i], p, "operand")
      BY <1>2, <3>1 DEF AllStand, Expects, n
    <3>4. p \in 1..Len(ch) - 1 /\ q \in 1..Len(ch) - 1
      <4> HIDE DEF p, w
      <4>1. QED
        BY <1>3, <3>2 DEF q
    <3>5. p \in 1..Len(st) /\ st[p] = ch[p] /\ st[q] = ch[q]
      BY <1>12, <3>4
    <3>6. QED
      BY <1>12, <3>2, <3>3, <3>5, FrameLevel
  <2>2. \A i \in 1..n - 1 : Expects(Front(ls), i, "operand") = "operand"
    BY DEF Expects
  <2>3. Placed(Front(ls), st, at)
    <3>1. \A i \in 1..n - 1 - 1 : at[i + 1] = at[i] + Width(Front(ls)[i])
      <4> SUFFICES ASSUME NEW i \in 1..n - 1 - 1 PROVE at[i + 1] = at[i] + Width(Front(ls)[i])
        OBVIOUS
      <4>1. i \in 1..n - 1
        BY <1>3
      <4>2. QED
        BY <1>2, <1>5, <4>1 DEF Placed, n
    <3>2. \A i, j \in 1..n - 1 : i < j => at[i] + Width(Front(ls)[i]) <= at[j]
      <4> SUFFICES ASSUME NEW i \in 1..n - 1, NEW j \in 1..n - 1, i < j PROVE at[i] + Width(Front(ls)[i]) <= at[j]
        OBVIOUS
      <4>1. i \in 1..n /\ j \in 1..n
        BY <1>3
      <4>2. QED
        BY <1>2, <1>5, <4>1 DEF Placed, n
    <3>3. at[1] = 1
      BY <1>2 DEF Placed
    <3>4. at[n - 1] + Width(Front(ls)[n - 1]) - 1 = Len(st)
      <4>1. n - 1 \in 1..n - 1 /\ (n - 1) + 1 = n
        BY <1>3, <1>4
      <4>2. at[(n - 1) + 1] = at[n - 1] + Width(ls[n - 1])
        BY <1>2, <4>1 DEF Placed, n
      <4>3. at[n - 1] + Width(Front(ls)[n - 1]) = Len(ch)
        BY <1>3, <1>5, <4>1, <4>2
      <4>4. at[n - 1] \in Nat /\ Width(Front(ls)[n - 1]) \in Nat
        <5>1. n - 1 \in 1..n /\ Front(ls)[n - 1] = ls[n - 1]
          BY <1>3, <1>5, <4>1
        <5>2. at[n - 1] \in 1..Len(ch) /\ Width(ls[n - 1]) \in {1, 2}
          BY <1>6, <5>1
        <5>3. QED
          BY <1>3, <5>1, <5>2
      <4>5. QED
        BY <1>3, <1>12, <4>3, <4>4
    <3>5. QED
      BY <1>5, <2>1, <3>1, <3>2, <3>3, <3>4 DEF Placed
  <2>4. AllStand(gs, st, cs, Front(ls), at, "operand")
    BY <1>5, <2>1, <2>2 DEF AllStand
  <2>5. QED
    BY <2>3, <2>4 DEF LevelsInv
<1>14. Frozen(st, Only(gs, k))
  <2>1. CASE Len(gs[k].filters) = 1
    <3>1. Frozen(ch, gs[k].filters[1]) /\ 1 \in 1..Len(gs[k].filters)
      BY <1>11, <2>1 DEF AllFrozen
    <3>2. Frozen(st, gs[k].filters[1])
      BY <1>3, <1>12, <3>1, FrozenStays DEF Keeps
    <3>3. QED
      BY <2>1, <3>2 DEF Only
  <2>2. CASE Len(gs[k].filters) # 1
    <3>1. -(-k) = k
      BY <1>3
    <3>2. QED
      BY <1>12, <2>2, <3>1 DEF Only, Frozen
  <2>3. QED
    BY <2>1, <2>2
<1>15. MeantAs(gs, st, cs, Only(gs, k), Meaning(l))
  <2> SUFFICES ASSUME NEW e, Denotes(gs, st, cs, e) PROVE Mem(cs, Only(gs, k), e) = Meaning(l)
    BY DEF MeantAs
  <2>1. Denotes(gs, ch, cs, e)
    BY <1>12, DenotesBack
  <2>2. LevelMeans(cs, l, gs[k], gs[k], "connective", e)
    BY <1>9, <2>1
  <2>3. MembersIn(cs, gs[k].filters, e)
    BY <1>10, <2>1, MemIn DEF MembersIn
  <2>4. /\ Len(gs[k].filters) = 1 => Meaning(l) = Mem(cs, gs[k].filters[1], e)
        /\ Len(gs[k].filters) # 1 => Meaning(l) = GroupMeans(cs, gs[k], e)
    BY <1>3, <1>4, <1>9, <1>10, <2>2, <2>3, SingleMeans
  <2>5. e[k] = GroupMeans(cs, gs[k], e)
    BY <1>3, <1>12 DEF Denotes
  <2>6. ~(-k > 0) /\ -(-k) = k
    BY <1>1, <1>3
  <2>7. QED
    BY <2>4, <2>5, <2>6 DEF Only, Mem
<1>16. QED
  BY <1>7, <1>11, <1>12, <1>13, <1>14, <1>15 DEF SemInv, k, st, n, l

-----------------------------------------------------------------------------
(* The start of a level. *)

LEMMA PlacedMore ==
  ASSUME NEW cs, NEW ls \in Seq(LevelOf(cs)), ls # <<>>, NEW ch, NEW ch2, NEW at, Placed(ls, ch, at),
         NEW l, l \in LevelOf(cs), Width(l) = 1, Len(ch) \in Nat, Len(ch2) = Len(ch) + 1
  PROVE  \E at2 : /\ Placed(Append(ls, l), ch2, at2) /\ at2[Len(ls) + 1] = Len(ch) + 1
                  /\ \A i \in 1..Len(ls) : at2[i] = at[i]
<1> DEFINE n   == Len(ls)
           ls2 == Append(ls, l)
           at2 == [i \in 1..n + 1 |-> IF i = n + 1 THEN Len(ch) + 1 ELSE at[i]]
<1>1. n \in Nat \ {0} /\ Len(ls2) = n + 1 /\ ls2[n + 1] = l /\ \A i \in 1..n : ls2[i] = ls[i]
  BY EmptySeq, AppendOf
<1>2. /\ \A i \in 1..n : Width(ls[i]) \in {1, 2} /\ at[i] \in 1..Len(ch) /\ at[i] + Width(ls[i]) - 1 \in 1..Len(ch)
      /\ \A i \in 1..n : i # n => at[i] + Width(ls[i]) <= at[n]
      /\ n \in 1..n
  BY <1>1, PlacesOf
<1>3. at2[n + 1] = Len(ch) + 1 /\ \A i \in 1..n : at2[i] = at[i]
  BY <1>1
<1>4. at[n] + Width(ls[n]) - 1 = Len(ch) /\ at[1] = 1
  BY DEF Placed
<1> HIDE DEF at2, ls2
<1>5. \A i \in 1..n + 1 : at2[i] \in 1..Len(ch2)
  <2> SUFFICES ASSUME NEW i \in 1..n + 1 PROVE at2[i] \in 1..Len(ch) + 1
    OBVIOUS
  <2>1. CASE i = n + 1
    BY <1>3, <2>1
  <2>2. CASE i \in 1..n
    BY <1>2, <1>3, <2>2
  <2>3. QED
    BY <1>1, <2>1, <2>2
<1>6. \A i \in 1..n : at[i] + Width(ls[i]) <= Len(ch) + 1
  <2> SUFFICES ASSUME NEW i \in 1..n PROVE at[i] + Width(ls[i]) <= Len(ch) + 1
    OBVIOUS
  <2>1. at[i] + Width(ls[i]) - 1 \in 1..Len(ch) /\ at[i] \in 1..Len(ch) /\ Width(ls[i]) \in {1, 2}
    BY <1>2
  <2>2. QED
    BY <2>1
<1>7. \A i \in 1..n + 1 - 1 : at2[i + 1] = at2[i] + Width(ls2[i])
  <2> SUFFICES ASSUME NEW i \in 1..n PROVE at2[i + 1] = at2[i] + Width(ls2[i])
    BY <1>1
  <2>1. at2[i] = at[i] /\ ls2[i] = ls[i]
    BY <1>1, <1>3
  <2>2. CASE i = n
    <3>1. at[n] \in 1..Len(ch) /\ Width(ls[n]) \in {1, 2}
      BY <1>2
    <3>2. at[n] + Width(ls[n]) = Len(ch) + 1
      BY <1>4, <3>1
    <3>3. QED
      BY <1>3, <2>1, <2>2, <3>2
  <2>3. CASE i # n
    <3>1. i \in 1..n - 1 /\ i + 1 \in 1..n
      BY <1>1, <2>3
    <3>2. at[i + 1] = at[i] + Width(ls[i])
      BY <3>1 DEF Placed
    <3>3. QED
      BY <1>3, <2>1, <3>1, <3>2
  <2>4. QED
    BY <2>2, <2>3
<1>8. \A i, j \in 1..n + 1 : i < j => at2[i] + Width(ls2[i]) <= at2[j]
  <2> SUFFICES ASSUME NEW i \in 1..n + 1, NEW j \in 1..n + 1, i < j PROVE at2[i] + Width(ls2[i]) <= at2[j]
    OBVIOUS
  <2>1. i \in 1..n
    BY <1>1
  <2>2. at2[i] = at[i] /\ ls2[i] = ls[i]
    BY <1>1, <1>3, <2>1
  <2>3. CASE j = n + 1
    BY <1>3, <1>6, <2>1, <2>2, <2>3
  <2>4. CASE j \in 1..n
    BY <1>3, <2>1, <2>2, <2>4 DEF Placed
  <2>5. QED
    BY <1>1, <2>3, <2>4
<1>9. at2[1] = 1 /\ at2[n + 1] + Width(ls2[n + 1]) - 1 = Len(ch2)
  <2>1. 1 \in 1..n
    BY <1>1
  <2>2. QED
    BY <1>1, <1>3, <1>4, <2>1
<1>10. Placed(ls2, ch2, at2)
  BY <1>1, <1>5, <1>7, <1>8, <1>9 DEF Placed
<1>11. QED
  BY <1>3, <1>10 DEF ls2

LEMMA LevelAt ==
  ASSUME NEW cs
  PROVE  Level \in LevelOf(cs) /\ Width(Level) = 1 /\ ~Two(Level) /\ Level.connective = "none" /\ ~Level.or
         /\ Level.before = {} /\ Level.operand = {}
BY DEF Level, LevelOf, Width, Two, Kinds

LEMMA OpenKeeps ==
  ASSUME NEW r \in Nat, NEW gs, GroupsRight(gs, r), NEW ch, ChildrenRight(ch, Len(gs)),
         NEW cs, NEW ls \in Seq(LevelOf(cs)), ls # <<>>, SemInv(gs, ch, cs, ls, "operand")
  PROVE  SemInv(Append(gs, Made), Append(ch, Len(gs) + 1), cs, Append(ls, Level), "operand")
<1> DEFINE k   == Len(gs) + 1
           gs2 == Append(gs, Made)
           ch2 == Append(ch, k)
           n   == Len(ls)
           ls2 == Append(ls, Level)
<1>1. gs \in Seq(Group) /\ Len(gs) \in Nat
  BY LenProperties DEF GroupsRight
<1>2. PICK at : Placed(ls, ch, at) /\ AllStand(gs, ch, cs, ls, at, "operand")
  BY DEF SemInv, LevelsInv
<1>3. ch \in Seq(1..Len(gs)) /\ Len(ch) \in Nat /\ \A i, j \in 1..Len(ch) : ch[i] = ch[j] => i = j
  BY LenProperties DEF ChildrenRight
<1>4. /\ Len(ch2) = Len(ch) + 1 /\ ch2[Len(ch) + 1] = k /\ \A i \in 1..Len(ch) : ch2[i] = ch[i]
      /\ \A j : OnStack(ch2, j) <=> OnStack(ch, j) \/ j = k
  BY <1>1, <1>3, Pushed
<1>5. Made \in Group /\ Made.type = "none" /\ Len(Made.filters) = 0
  BY DEF Made, Group, Kinds
<1>6. Len(gs2) = k /\ gs2[k] = Made /\ \A j \in 1..Len(gs) : gs2[j] = gs[j]
  BY <1>1, <1>5, AddOf
<1>7. \A i \in 1..Len(ch) : ch[i] \in 1..Len(gs)
  BY <1>1, StackOf
<1>8. n \in Nat \ {0} /\ Len(ls2) = n + 1 /\ ls2[n + 1] = Level /\ \A i \in 1..n : ls2[i] = ls[i]
  BY LevelAt, EmptySeq, AppendOf
<1>9. /\ \A i \in 1..n : at[i] \in 1..Len(ch) /\ at[i] + Width(ls[i]) - 1 \in 1..Len(ch)
  BY <1>2, <1>3, PlacesOf
<1>10. PICK at2 : /\ Placed(ls2, ch2, at2) /\ at2[n + 1] = Len(ch) + 1
                  /\ \A i \in 1..n : at2[i] = at[i]
  <2>1. Level \in LevelOf(cs) /\ Width(Level) = 1
    BY LevelAt
  <2> HIDE DEF ch2
  <2>2. QED
    BY <1>2, <1>3, <1>4, <2>1, PlacedMore
<1> HIDE DEF gs2, ch2, ls2, n, k
<1>11. Keeps(gs, ch, gs2, ch2)
  BY <1>1, <1>4, <1>6 DEF Keeps, Sinks, k
<1>12. ASSUME NEW i \in 1..n PROVE Stands(gs2, ch2, cs, ls2[i], at2[i], "operand")
  <2> DEFINE p == at[i]
             q == p + Width(ls[i]) - 1
  <2>1. Stands(gs, ch, cs, ls[i], p, "operand")
    BY <1>2 DEF AllStand, Expects, n
  <2>2. p \in 1..Len(ch) /\ q \in 1..Len(ch)
    BY <1>9
  <2>3. ch2[p] = ch[p] /\ ch2[q] = ch[q] /\ gs2[ch[p]] = gs[ch[p]] /\ gs2[ch[q]] = gs[ch[q]]
    BY <1>4, <1>6, <1>7, <2>2
  <2>4. Stands(gs2, ch2, cs, ls[i], p, "operand")
    BY <1>11, <2>1, <2>2, <2>3, FrameLevel
  <2>5. QED
    BY <1>8, <1>10, <2>4
<1>13. Stands(gs2, ch2, cs, ls2[n + 1], at2[n + 1], "operand")
  <2> DEFINE p == at2[n + 1]
  <2>1. p + Width(Level) - 1 = p /\ ch2[p] = k /\ gs2[k] = Made
    BY <1>3, <1>4, <1>6, <1>10, LevelAt
  <2>2. LevelShape(ch2, Level, k, Made, Made, "operand")
    BY <1>5, LevelAt DEF LevelShape
  <2>3. \A e : LevelMeans(cs, Level, Made, Made, "operand", e)
    BY LevelAt DEF LevelMeans
  <2>4. QED
    BY <1>8, <2>1, <2>2, <2>3 DEF Stands
<1>14. LevelsInv(gs2, ch2, cs, ls2, "operand")
  <2>1. \A i \in 1..n + 1 : Stands(gs2, ch2, cs, ls2[i], at2[i], "operand")
    BY <1>8, <1>12, <1>13
  <2>2. AllStand(gs2, ch2, cs, ls2, at2, "operand")
    BY <1>8, <2>1 DEF AllStand, Expects
  <2>3. QED
    BY <1>10, <2>2 DEF LevelsInv
<1>15. \A j \in 1..Len(gs2) : ~OnStack(ch2, j) => j \in 1..Len(gs) /\ ~OnStack(ch, j) /\ gs2[j] = gs[j]
  BY <1>1, <1>4, <1>6 DEF k
<1>16. ClosedInv(gs2, ch2)
  <2> SUFFICES ASSUME NEW j \in 1..Len(gs2), ~OnStack(ch2, j),
                      NEW i \in 1..Len(gs2[j].filters) PROVE Frozen(ch2, gs2[j].filters[i])
    BY DEF ClosedInv, AllFrozen
  <2>1. j \in 1..Len(gs) /\ ~OnStack(ch, j) /\ gs2[j] = gs[j]
    BY <1>15
  <2>2. Frozen(ch, gs[j].filters[i])
    BY <2>1 DEF SemInv, ClosedInv, AllFrozen
  <2>3. QED
    BY <1>11, <2>1, <2>2, FrozenStays DEF Keeps
<1>17. \E e : Denotes(gs2, ch2, cs, e)
  <2>1. PICK e : Denotes(gs, ch, cs, e)
    BY DEF SemInv
  <2>2. QED
    BY <1>15, <2>1, DenotesSame
<1>18. QED
  BY <1>14, <1>16, <1>17 DEF SemInv, gs2, ch2, ls2, k

-----------------------------------------------------------------------------
(* The last level and its place on the stack. *)

Top(gs, ch, cs, l, p, x) ==
  /\ l \in LevelOf(cs) /\ Len(ch) \in Nat \ {0} /\ p \in 1..Len(ch) /\ p + Width(l) - 1 = Len(ch)
  /\ Last(ch) = ch[Len(ch)] /\ Last(ch) \in 1..Len(gs) /\ ch[p] \in 1..Len(gs)
  /\ Two(l) => p = Len(ch) - 1 /\ ch[p] # Last(ch)
  /\ ~Two(l) => p = Len(ch) /\ ch[p] = Last(ch)
  /\ \A q \in 1..Len(ch) : q < p => ch[q] \in 1..Len(gs) /\ ch[q] # Last(ch)
  /\ OnStack(ch, Last(ch)) /\ OnStack(ch, ch[p])
  /\ LevelShape(ch, l, Last(ch), gs[ch[p]], gs[Last(ch)], x)
  /\ \A e : Denotes(gs, ch, cs, e) => LevelMeans(cs, l, gs[ch[p]], gs[Last(ch)], x, e)

LEMMA TopIs ==
  ASSUME NEW r \in Nat, NEW gs, GroupsRight(gs, r), NEW ch, ChildrenRight(ch, Len(gs)),
         NEW cs, NEW ls \in Seq(LevelOf(cs)), ls # <<>>, NEW x, SemInv(gs, ch, cs, ls, x)
  PROVE  \E at : Placed(ls, ch, at) /\ AllStand(gs, ch, cs, ls, at, x)
                 /\ Top(gs, ch, cs, ls[Len(ls)], at[Len(ls)], x)
<1> DEFINE n == Len(ls)
           l == ls[n]
<1>1. Len(gs) \in Nat
  BY LenProperties DEF GroupsRight
<1>2. PICK at : Placed(ls, ch, at) /\ AllStand(gs, ch, cs, ls, at, x)
  BY DEF SemInv, LevelsInv
<1>3. /\ n \in Nat \ {0} /\ l \in LevelOf(cs) /\ at[n] \in 1..Len(ch) /\ Len(ch) \in Nat \ {0}
      /\ at[n] + Width(l) - 1 = Len(ch) /\ Last(ch) = ch[Len(ch)] /\ Last(ch) \in 1..Len(gs)
      /\ ch[at[n]] \in 1..Len(gs)
      /\ Two(l) => at[n] = Len(ch) - 1 /\ ch[at[n]] # ch[Len(ch)]
      /\ ~Two(l) => at[n] = Len(ch)
      /\ \A q \in 1..Len(ch) : q < at[n] => ch[q] \in 1..Len(gs) /\ ch[q] # Last(ch)
      /\ OnStack(ch, Last(ch)) /\ OnStack(ch, ch[at[n]])
  BY <1>1, <1>2, TopOf
<1>4. Stands(gs, ch, cs, l, at[n], x)
  BY <1>2, <1>3 DEF Expects, AllStand
<1> HIDE DEF n, l
<1>5. /\ LevelShape(ch, l, Last(ch), gs[ch[at[n]]], gs[Last(ch)], x)
      /\ \A e : Denotes(gs, ch, cs, e) => LevelMeans(cs, l, gs[ch[at[n]]], gs[Last(ch)], x, e)
  BY <1>3, <1>4 DEF Stands
<1>6. Top(gs, ch, cs, l, at[n], x)
  BY <1>3, <1>5 DEF Top
<1>7. QED
  BY <1>2, <1>6 DEF n, l

-----------------------------------------------------------------------------
(* A connective. *)

LEMMA JoinIs ==
  ASSUME NEW l, NEW t \in {"AND", "OR"}
  PROVE  /\ Joined(l, t).connective = t /\ (Joined(l, t).or <=> l.or \/ t = "OR")
         /\ Joined(l, t).before = l.before /\ Joined(l, t).operand = l.operand
         /\ Meaning(Joined(l, t)) = Meaning(l)
         /\ t = "OR" => Joined(l, t).or /\ ~Two(Joined(l, t)) /\ Width(Joined(l, t)) = 1
         /\ t = "AND" => (Two(Joined(l, t)) <=> l.or) /\ Width(Joined(l, t)) = (IF l.or THEN 2 ELSE 1)
BY DEF Joined, Meaning, Two, Width

(* A group of one member gets its type. *)
LEMMA TypedLevel ==
  ASSUME NEW cs, NEW l \in LevelOf(cs), l.connective = "none", NEW ch, NEW k, NEW g, NEW t \in {"AND", "OR"},
         LevelShape(ch, l, k, g, g, "connective")
  PROVE  /\ LevelShape(ch, Joined(l, t), k, Typed(g, t), Typed(g, t), "operand")
         /\ \A e : LevelMeans(cs, l, g, g, "connective", e) /\ MembersIn(cs, g.filters, e) =>
                   LevelMeans(cs, Joined(l, t), Typed(g, t), Typed(g, t), "operand", e)
<1> DEFINE j == Joined(l, t)
           d == Typed(g, t)
<1>1. ~l.or /\ g.type = "none" /\ Len(g.filters) = 1 /\ ~Two(l)
  BY DEF LevelShape, Two
<1>2. /\ j.connective = t /\ (j.or <=> t = "OR") /\ j.before = l.before /\ j.operand = l.operand
      /\ Meaning(j) = Meaning(l) /\ ~Two(j)
  BY <1>1, JoinIs
<1>3. d.type = t /\ d.filters = g.filters
  BY DEF Typed
<1>4. AllFrozen(ch, g.filters)
  BY <1>1 DEF LevelShape, AllFrozen
<1> HIDE DEF j, d
<1>5. LevelShape(ch, j, k, d, d, "operand")
  BY <1>1, <1>2, <1>3, <1>4 DEF LevelShape, AllFrozen
<1>6. ASSUME NEW e, LevelMeans(cs, l, g, g, "connective", e), MembersIn(cs, g.filters, e)
      PROVE  LevelMeans(cs, j, d, d, "operand", e)
  <2>1. l.before = {} /\ l.operand = Mem(cs, g.filters[1], e) /\ Meaning(l) = Mem(cs, g.filters[1], e)
    BY <1>6 DEF LevelMeans, Meaning
  <2>2. Mem(cs, g.filters[1], e) \subseteq cs
    BY <1>1, <1>6 DEF MembersIn
  <2>3. All(cs, g.filters, e) = Mem(cs, g.filters[1], e) /\ Some(cs, g.filters, 1, e) = Mem(cs, g.filters[1], e)
    BY <1>1, <2>2, AllOne
  <2>4. CASE t = "AND"
    <3>1. ~j.or
      BY <1>2, <2>4
    <3>2. QED
      BY <1>2, <1>3, <2>1, <2>3, <2>4, <3>1 DEF LevelMeans
  <2>5. CASE t = "OR"
    BY <1>1, <1>2, <1>3, <2>1, <2>3, <2>5 DEF LevelMeans
  <2>6. QED
    BY <2>4, <2>5
<1>7. QED
  BY <1>5, <1>6 DEF j, d

(* The connective is that of the group. *)
LEMMA SameLevel ==
  ASSUME NEW cs, NEW l \in LevelOf(cs), NEW ch, NEW k, NEW gb, NEW gt, NEW t \in {"AND", "OR"},
         LevelShape(ch, l, k, gb, gt, "connective"), gt.type = t,
         Len(gb.filters) \in Nat, Len(gt.filters) \in Nat
  PROVE  /\ l.connective = t /\ Width(Joined(l, t)) = Width(l)
         /\ LevelShape(ch, Joined(l, t), k, gb, gt, "operand")
         /\ \A e : LevelMeans(cs, l, gb, gt, "connective", e) /\ MembersIn(cs, gb.filters, e) =>
                   LevelMeans(cs, Joined(l, t), gb, gt, "operand", e)
<1> DEFINE j == Joined(l, t)
<1>1. l.connective \in Kinds /\ l.or \in BOOLEAN
  BY LevelIs
<1>2. l.connective = t
  <2>1. CASE l.connective = "none"
    BY <2>1 DEF LevelShape, Two
  <2>2. CASE l.connective = "AND"
    BY <2>2 DEF LevelShape
  <2>3. CASE l.connective = "OR"
    BY <2>3 DEF LevelShape, Two
  <2>4. QED
    BY <1>1, <2>1, <2>2, <2>3 DEF Kinds
<1>3. t = "OR" => l.or /\ gb = gt /\ Len(gb.filters) >= 2
  BY <1>2 DEF LevelShape, Two
<1>4. /\ j.connective = t /\ (j.or <=> l.or) /\ j.before = l.before /\ j.operand = l.operand
      /\ Meaning(j) = Meaning(l) /\ (Two(j) <=> Two(l))
  <2>1. /\ j.connective = t /\ (j.or <=> l.or \/ t = "OR") /\ j.before = l.before /\ j.operand = l.operand
        /\ Meaning(j) = Meaning(l)
    BY JoinIs
  <2>2. j.or <=> l.or
    BY <1>3, <2>1
  <2>3. QED
    BY <1>2, <2>1, <2>2 DEF Two
<1> HIDE DEF j
<1>5. Width(j) = Width(l)
  BY <1>4 DEF Width
<1>6. LevelShape(ch, j, k, gb, gt, "operand")
  <2>1. t = "AND" => gt.type = "AND" /\ Len(gt.filters) >= 1
    BY <1>2 DEF LevelShape
  <2>2. QED
    BY <1>2, <1>3, <1>4, <2>1 DEF LevelShape
<1>7. ASSUME NEW e, LevelMeans(cs, l, gb, gt, "connective", e), MembersIn(cs, gb.filters, e)
      PROVE  LevelMeans(cs, j, gb, gt, "operand", e)
  <2>1. CASE t = "AND"
    <3>1. /\ l.before = (IF l.or THEN Some(cs, gb.filters, Len(gb.filters) - 1, e) ELSE {})
          /\ l.operand = All(cs, gt.filters, e)
      BY <1>2, <1>7, <2>1 DEF LevelMeans
    <3>2. QED
      BY <1>1, <1>4, <2>1, <3>1 DEF LevelMeans
  <2>2. CASE t = "OR"
    <3> DEFINE f == gb.filters
               n == Len(gb.filters)
    <3>1. l.before = Some(cs, f, n - 1, e) /\ l.operand = Mem(cs, f[n], e)
      BY <1>2, <1>7, <2>2 DEF LevelMeans
    <3>2. n \in Nat \ {0} /\ Mem(cs, f[n], e) \subseteq cs
      BY <1>3, <1>7, <2>2 DEF MembersIn
    <3> HIDE DEF f, n
    <3>3. Meaning(l) = Some(cs, f, n, e)
      BY <3>1, <3>2, SomeMore DEF Meaning
    <3>4. QED
      BY <1>4, <2>2, <3>3 DEF LevelMeans, f, n
  <2>3. QED
    BY <2>1, <2>2
<1>8. QED
  BY <1>2, <1>5, <1>6, <1>7 DEF j

LEMMA GiveKeeps ==
  ASSUME NEW r \in Nat, NEW gs, GroupsRight(gs, r), NEW ch, ChildrenRight(ch, Len(gs)),
         NEW cs, NEW ls \in Seq(LevelOf(cs)), ls # <<>>, SemInv(gs, ch, cs, ls, "connective"),
         Len(gs[Last(ch)].filters) = 1, NEW t \in {"AND", "OR"}
  PROVE  /\ gs[Last(ch)].type = "none"
         /\ SemInv(GiveType(gs, Last(ch), t), ch, cs, WithLast(ls, Joined(ls[Len(ls)], t)), "operand")
<1> DEFINE k   == Last(ch)
           gs2 == GiveType(gs, k, t)
           n   == Len(ls)
           l   == ls[n]
           l2  == Joined(l, t)
<1>1. gs \in Seq(Group) /\ Len(gs) \in Nat
  BY LenProperties DEF GroupsRight
<1>2. PICK at : Placed(ls, ch, at) /\ AllStand(gs, ch, cs, ls, at, "connective")
                /\ Top(gs, ch, cs, l, at[n], "connective")
  BY TopIs
<1> DEFINE p == at[n]
<1>3. k \in 1..Len(gs) /\ l \in LevelOf(cs) /\ Len(ch) \in Nat \ {0} /\ OnStack(ch, k)
  BY <1>2 DEF Top
<1>4. /\ Len(gs[k].filters) \in Nat
      /\ \A i \in 1..Len(gs[k].filters) : Sensible(gs[k].filters[i])
  BY <1>3, MembersOf
<1>5. gs2[k] = Typed(gs[k], t) /\ Len(gs2) = Len(gs) /\ \A j \in 1..Len(gs) : j # k => gs2[j] = gs[j]
  <2> HIDE DEF k
  <2>1. gs2 = [gs EXCEPT ![k] = Typed(gs[k], t)] /\ Typed(gs[k], t) \in Group
    <3>1. GiveType(gs, k, t) = [gs EXCEPT ![k] = Typed(gs[k], t)]
      BY <1>1, <1>3, TypeIs
    <3>2. t \in Kinds
      BY DEF Kinds
    <3>3. QED
      BY <1>1, <1>3, <3>1, <3>2, TypedOf
  <2>2. QED
    BY <1>1, <1>3, <2>1, ChangeOf
<1>6. l.connective = "none"
  <2>1. LevelShape(ch, l, k, gs[ch[p]], gs[k], "connective")
    BY <1>2 DEF Top
  <2>2. CASE l.connective = "AND"
    BY <2>1, <2>2 DEF LevelShape
  <2>3. CASE l.connective = "OR"
    BY <2>1, <2>3 DEF LevelShape, Two
  <2>4. QED
    BY <1>3, <2>2, <2>3, LevelIs DEF Kinds
<1>7. ~Two(l) /\ ch[p] = k /\ p = Len(ch)
  BY <1>2, <1>6 DEF Two, Top
<1>8. /\ LevelShape(ch, l, k, gs[k], gs[k], "connective")
      /\ \A e : Denotes(gs, ch, cs, e) => LevelMeans(cs, l, gs[k], gs[k], "connective", e)
      /\ \A q \in 1..Len(ch) : q < p => ch[q] \in 1..Len(gs) /\ ch[q] # k
  BY <1>2, <1>7 DEF Top
<1> HIDE DEF k, gs2, n, l, l2
<1>9. Keeps(gs, ch, gs2, ch)
  BY <1>1, <1>3, <1>5 DEF Keeps, Sinks
<1>10. LevelShape(ch, l2, k, gs2[k], gs2[k], "operand")
  BY <1>3, <1>5, <1>6, <1>8, TypedLevel DEF l2
<1>11. ASSUME NEW e, Denotes(gs2, ch, cs, e) PROVE LevelMeans(cs, l2, gs2[k], gs2[k], "operand", e)
  <2>1. Denotes(gs, ch, cs, e)
    BY <1>9, <1>11, DenotesBack
  <2>2. MembersIn(cs, gs[k].filters, e)
    BY <1>4, <2>1, MemIn DEF MembersIn
  <2>3. LevelMeans(cs, l, gs[k], gs[k], "connective", e)
    BY <1>8, <2>1
  <2>4. QED
    BY <1>3, <1>5, <1>6, <1>8, <2>2, <2>3, TypedLevel DEF l2
<1>12. l2 \in LevelOf(cs) /\ Width(l2) = 1
  <2>1. l2 \in LevelOf(cs)
    BY <1>3, JoinedOf DEF l2
  <2>2. ~l.or
    BY <1>6, <1>8 DEF LevelShape
  <2>3. ~Two(l2)
    BY <2>2, JoinIs DEF l2, Two
  <2>4. QED
    BY <2>1, <2>3 DEF Width
<1>13. p + Width(l2) - 1 = p
  BY <1>3, <1>7, <1>12
<1>14. Stands(gs2, ch, cs, l2, p, "operand")
  BY <1>7, <1>10, <1>11, <1>13 DEF Stands
<1>15. LevelsInv(gs2, ch, cs, WithLast(ls, l2), "operand")
  <2>1. Untouched(gs, ch, gs2, ch, p)
    BY <1>5, <1>8 DEF Untouched
  <2>2. Len(ch) = p + Width(l2) - 1
    BY <1>7, <1>13
  <2>3. QED
    BY <1>2, <1>3, <1>9, <1>12, <1>14, <2>1, <2>2, LastLevel DEF n
<1>16. \A j \in 1..Len(gs2) : ~OnStack(ch, j) => j \in 1..Len(gs) /\ ~OnStack(ch, j) /\ gs2[j] = gs[j]
  BY <1>3, <1>5
<1>17. ClosedInv(gs2, ch)
  BY <1>16 DEF SemInv, ClosedInv
<1>18. \E e : Denotes(gs2, ch, cs, e)
  <2>1. PICK e : Denotes(gs, ch, cs, e)
    BY DEF SemInv
  <2>2. QED
    BY <1>16, <2>1, DenotesSame
<1>19. gs[k].type = "none"
  BY <1>6, <1>8 DEF LevelShape
<1>20. QED
  BY <1>15, <1>17, <1>18, <1>19 DEF SemInv, k, gs2, n, l, l2

LEMMA StayKeeps ==
  ASSUME NEW r \in Nat, NEW gs, GroupsRight(gs, r), NEW ch, ChildrenRight(ch, Len(gs)),
         NEW cs, NEW ls \in Seq(LevelOf(cs)), ls # <<>>, SemInv(gs, ch, cs, ls, "connective"),
         NEW t \in {"AND", "OR"}, gs[Last(ch)].type = t
  PROVE  SemInv(gs, ch, cs, WithLast(ls, Joined(ls[Len(ls)], t)), "operand")
<1> DEFINE k  == Last(ch)
           n  == Len(ls)
           l  == ls[n]
           l2 == Joined(l, t)
<1>1. gs \in Seq(Group) /\ Len(gs) \in Nat
  BY LenProperties DEF GroupsRight
<1>2. PICK at : Placed(ls, ch, at) /\ AllStand(gs, ch, cs, ls, at, "connective")
                /\ Top(gs, ch, cs, l, at[n], "connective")
  BY TopIs
<1> DEFINE p == at[n]
<1>3. /\ k \in 1..Len(gs) /\ ch[p] \in 1..Len(gs) /\ l \in LevelOf(cs) /\ Len(ch) \in Nat \ {0}
      /\ k = ch[Len(ch)] /\ p + Width(l) - 1 = Len(ch)
  BY <1>2 DEF Top
<1>4. /\ Len(gs[k].filters) \in Nat /\ Len(gs[ch[p]].filters) \in Nat
      /\ \A i \in 1..Len(gs[ch[p]].filters) : Sensible(gs[ch[p]].filters[i])
  BY <1>3, MembersOf
<1>5. /\ LevelShape(ch, l, k, gs[ch[p]], gs[k], "connective")
      /\ \A e : Denotes(gs, ch, cs, e) => LevelMeans(cs, l, gs[ch[p]], gs[k], "connective", e)
  BY <1>2 DEF Top
<1>6. gs[k].type = t
  OBVIOUS
<1> HIDE DEF k, n, l, l2
<1>7. Keeps(gs, ch, gs, ch)
  BY <1>1 DEF Keeps, Sinks
<1>8. Width(l2) = Width(l) /\ LevelShape(ch, l2, k, gs[ch[p]], gs[k], "operand")
  BY <1>3, <1>4, <1>5, <1>6, SameLevel DEF l2
<1>9. ASSUME NEW e, Denotes(gs, ch, cs, e) PROVE LevelMeans(cs, l2, gs[ch[p]], gs[k], "operand", e)
  <2>1. MembersIn(cs, gs[ch[p]].filters, e)
    BY <1>4, <1>9, MemIn DEF MembersIn
  <2>2. LevelMeans(cs, l, gs[ch[p]], gs[k], "connective", e)
    BY <1>5, <1>9
  <2>3. QED
    BY <1>3, <1>4, <1>5, <1>6, <2>1, <2>2, SameLevel DEF l2
<1>10. l2 \in LevelOf(cs)
  BY <1>3, JoinedOf DEF l2
<1>11. ch[p + Width(l2) - 1] = k
  BY <1>3, <1>8
<1>12. Stands(gs, ch, cs, l2, p, "operand")
  BY <1>8, <1>9, <1>11 DEF Stands
<1>13. LevelsInv(gs, ch, cs, WithLast(ls, l2), "operand")
  <2>1. Untouched(gs, ch, gs, ch, p)
    BY DEF Untouched
  <2>2. Len(ch) = p + Width(l2) - 1
    BY <1>3, <1>8
  <2>3. QED
    BY <1>2, <1>3, <1>7, <1>10, <1>12, <2>1, <2>2, LastLevel DEF n
<1>14. QED
  BY <1>13 DEF SemInv, n, l, l2

(* The last member m of an OR is replaced by the group AND of m. *)
SplitOff(g, g2, a, new) ==
  /\ g2.type = g.type /\ Len(g.filters) \in Nat \ {0} /\ Len(g2.filters) = Len(g.filters)
  /\ g2.filters[Len(g.filters)] = -new
  /\ \A i \in 1..Len(g.filters) - 1 : g2.filters[i] = g.filters[i]
  /\ a.type = "AND" /\ Len(a.filters) = 1 /\ a.filters[1] = g.filters[Len(g.filters)]

FrozenCarries(ch, ch2, f) == \A i \in 1..Len(f) : Frozen(ch, f[i]) => Frozen(ch2, f[i])

LEMMA SplitLevel ==
  ASSUME NEW cs, NEW l \in LevelOf(cs), NEW ch, NEW ch2, NEW k, NEW new, NEW gb, NEW gt, NEW g2, NEW a,
         LevelShape(ch, l, k, gb, gt, "connective"), gt.type = "OR", SplitOff(gt, g2, a, new),
         FrozenCarries(ch, ch2, gt.filters)
  PROVE  /\ ~Two(l) /\ l.or /\ LevelShape(ch2, Joined(l, "AND"), new, g2, a, "operand")
         /\ \A e : LevelMeans(cs, l, gb, gt, "connective", e) /\ MembersIn(cs, gt.filters, e) =>
                   LevelMeans(cs, Joined(l, "AND"), g2, a, "operand", e)
<1> DEFINE j == Joined(l, "AND")
           f == gt.filters
           n == Len(f)
<1>1. l.connective \in Kinds /\ l.or \in BOOLEAN
  BY LevelIs
<1>2. l.connective = "OR" /\ ~Two(l)
  <2>1. CASE l.connective = "none"
    BY <2>1 DEF LevelShape, Two
  <2>2. CASE l.connective = "AND"
    BY <2>2 DEF LevelShape
  <2>3. QED
    BY <1>1, <2>1, <2>2 DEF Kinds, Two
<1>3. l.or /\ gb = gt /\ n >= 2 /\ AllFrozen(ch, f)
  BY <1>2 DEF LevelShape, AllFrozen
<1>4. j.connective = "AND" /\ j.or /\ Two(j) /\ j.before = l.before /\ j.operand = l.operand
  BY <1>3, JoinIs
<1>5. /\ g2.type = "OR" /\ n \in Nat \ {0} /\ Len(g2.filters) = n /\ g2.filters[n] = -new
      /\ \A i \in 1..n - 1 : g2.filters[i] = f[i]
      /\ a.type = "AND" /\ Len(a.filters) = 1 /\ a.filters[1] = f[n]
  BY DEF SplitOff
<1>6. \A i \in 1..n : Frozen(ch2, f[i])
  BY <1>3 DEF FrozenCarries, AllFrozen
<1> HIDE DEF j, f, n
<1>7. LevelShape(ch2, j, new, g2, a, "operand")
  <2>1. AllFrozen(ch2, a.filters)
    BY <1>3, <1>5, <1>6 DEF AllFrozen
  <2>2. \A i \in 1..n : i # n => Frozen(ch2, g2.filters[i])
    BY <1>5, <1>6
  <2>3. QED
    BY <1>3, <1>4, <1>5, <2>1, <2>2 DEF LevelShape
<1>8. ASSUME NEW e, LevelMeans(cs, l, gb, gt, "connective", e), MembersIn(cs, f, e)
      PROVE  LevelMeans(cs, j, g2, a, "operand", e)
  <2>1. l.before = Some(cs, f, n - 1, e) /\ l.operand = Mem(cs, f[n], e)
    BY <1>2, <1>3, <1>8 DEF LevelMeans, f, n
  <2>2. Some(cs, g2.filters, n - 1, e) = Some(cs, f, n - 1, e)
    BY <1>5, SomeSame
  <2>3. Mem(cs, a.filters[1], e) \subseteq cs
    BY <1>3, <1>5, <1>8 DEF MembersIn, n
  <2>4. All(cs, a.filters, e) = Mem(cs, f[n], e)
    BY <1>5, <2>3, AllOne
  <2>5. QED
    BY <1>4, <1>5, <2>1, <2>2, <2>4 DEF LevelMeans
<1>9. QED
  BY <1>2, <1>3, <1>7, <1>8 DEF j, f, n

(* OR ends the AND of an OR. *)
LEMMA EndedLevel ==
  ASSUME NEW cs, NEW l \in LevelOf(cs), Two(l), NEW ch, NEW ch2, NEW k \in Nat \ {0}, NEW kb, NEW gb, NEW gt,
         LevelShape(ch, l, k, gb, gt, "connective"), Len(gb.filters) \in Nat,
         gt.type = "AND", FrozenCarries(ch, ch2, gb.filters), ~OnStack(ch2, k)
  PROVE  /\ gb.type = "OR" /\ LevelShape(ch2, Joined(l, "OR"), kb, gb, gb, "operand")
         /\ \A e : LevelMeans(cs, l, gb, gt, "connective", e) /\ MembersIn(cs, gb.filters, e)
                     /\ e[k] = GroupMeans(cs, gt, e) => LevelMeans(cs, Joined(l, "OR"), gb, gb, "operand", e)
<1> DEFINE j == Joined(l, "OR")
           f == gb.filters
           n == Len(f)
<1>1. l.or /\ l.connective = "AND"
  BY DEF Two
<1>2. /\ gb.type = "OR" /\ n >= 2 /\ f[n] = -k /\ n \in Nat
      /\ \A i \in 1..n : i # n => Frozen(ch, f[i])
  BY <1>1 DEF LevelShape
<1>3. ~(-k > 0) /\ -(-k) = k
  OBVIOUS
<1>4. \A i \in 1..n : Frozen(ch2, f[i])
  BY <1>2, <1>3 DEF FrozenCarries, Frozen
<1>5. /\ j.connective = "OR" /\ j.or /\ ~Two(j) /\ j.before = l.before /\ j.operand = l.operand
      /\ Meaning(j) = Meaning(l)
  BY JoinIs
<1> HIDE DEF j, f, n
<1>6. LevelShape(ch2, j, kb, gb, gb, "operand")
  BY <1>2, <1>4, <1>5 DEF LevelShape, f, n
<1>7. ASSUME NEW e, LevelMeans(cs, l, gb, gt, "connective", e), MembersIn(cs, f, e), e[k] = GroupMeans(cs, gt, e)
      PROVE  LevelMeans(cs, j, gb, gb, "operand", e)
  <2>1. l.before = Some(cs, f, n - 1, e) /\ l.operand = All(cs, gt.filters, e)
    BY <1>1, <1>7 DEF LevelMeans, f, n
  <2>2. Mem(cs, f[n], e) = All(cs, gt.filters, e)
    BY <1>2, <1>3, <1>7 DEF Mem, GroupMeans
  <2>3. n \in Nat \ {0} /\ Mem(cs, f[n], e) \subseteq cs
    BY <1>2, <1>7 DEF MembersIn, n
  <2>4. Meaning(l) = Some(cs, f, n, e)
    BY <2>1, <2>2, <2>3, SomeMore DEF Meaning
  <2>5. QED
    BY <1>5, <2>4 DEF LevelMeans, f, n
<1>8. QED
  BY <1>2, <1>6, <1>7 DEF j, f

(* OR takes the group AND as its first member. *)
IsOrOf(o, k) == o.type = "OR" /\ Len(o.filters) = 1 /\ o.filters[1] = -k

LEMMA WrappedLevel ==
  ASSUME NEW cs, NEW l \in LevelOf(cs), ~Two(l), NEW ch, NEW ch2, NEW k \in Nat \ {0}, NEW new, NEW gb, NEW gt,
         NEW o, LevelShape(ch, l, k, gb, gt, "connective"), gt.type = "AND",
         IsOrOf(o, k), ~OnStack(ch2, k)
  PROVE  /\ LevelShape(ch2, Joined(l, "OR"), new, o, o, "operand")
         /\ \A e : LevelMeans(cs, l, gb, gt, "connective", e) /\ e[k] = GroupMeans(cs, gt, e) =>
                   LevelMeans(cs, Joined(l, "OR"), o, o, "operand", e)
<1> DEFINE j == Joined(l, "OR")
<1>1. l.connective \in Kinds /\ l.or \in BOOLEAN
  BY LevelIs
<1>2. gb = gt
  BY DEF LevelShape
<1>3. l.connective = "AND" /\ ~l.or
  <2>1. CASE l.connective = "none"
    BY <1>2, <2>1 DEF LevelShape
  <2>2. CASE l.connective = "OR"
    BY <1>2, <2>2 DEF LevelShape
  <2>3. l.connective = "AND"
    BY <1>1, <2>1, <2>2 DEF Kinds
  <2>4. QED
    BY <2>3 DEF Two
<1>4. ~(-k > 0) /\ -(-k) = k
  OBVIOUS
<1>5. /\ j.connective = "OR" /\ j.or /\ ~Two(j) /\ j.before = l.before /\ j.operand = l.operand
      /\ Meaning(j) = Meaning(l)
  BY JoinIs
<1> HIDE DEF j
<1>6. LevelShape(ch2, j, new, o, o, "operand")
  <2>1. \A i \in 1..Len(o.filters) : Frozen(ch2, o.filters[i])
    BY <1>4 DEF Frozen, IsOrOf
  <2>2. QED
    BY <1>5, <2>1 DEF LevelShape, IsOrOf
<1>7. ASSUME NEW e, LevelMeans(cs, l, gb, gt, "connective", e), e[k] = GroupMeans(cs, gt, e)
      PROVE  LevelMeans(cs, j, o, o, "operand", e)
  <2>1. Meaning(l) = All(cs, gt.filters, e)
    BY <1>3, <1>7 DEF LevelMeans, Meaning
  <2>2. Mem(cs, o.filters[1], e) = All(cs, gt.filters, e)
    BY <1>4, <1>7 DEF Mem, GroupMeans, IsOrOf
  <2>3. Mem(cs, o.filters[1], e) \subseteq cs
    BY <2>2 DEF All
  <2>4. Some(cs, o.filters, 1, e) = Mem(cs, o.filters[1], e)
    BY <2>3, AllOne DEF IsOrOf
  <2>5. QED
    BY <1>5, <2>1, <2>2, <2>4 DEF LevelMeans, IsOrOf
<1>8. QED
  BY <1>6, <1>7 DEF j

(* What is finished stays so if the groups and the stack only get longer. *)
LEMMA ClosedStays ==
  ASSUME NEW r \in Nat, NEW gs, GroupsRight(gs, r), NEW ch, NEW gs2, NEW ch2, Keeps(gs, ch, gs2, ch2), NEW cs,
         ClosedInv(gs, ch), \E e : Denotes(gs, ch, cs, e),
         \A j \in 1..Len(gs2) : ~OnStack(ch2, j) => j \in 1..Len(gs) /\ ~OnStack(ch, j) /\ gs2[j] = gs[j]
  PROVE  ClosedInv(gs2, ch2) /\ \E e : Denotes(gs2, ch2, cs, e)
<1>1. ClosedInv(gs2, ch2)
  <2> SUFFICES ASSUME NEW j \in 1..Len(gs2), ~OnStack(ch2, j),
                      NEW i \in 1..Len(gs2[j].filters) PROVE Frozen(ch2, gs2[j].filters[i])
    BY DEF ClosedInv, AllFrozen
  <2>1. j \in 1..Len(gs) /\ ~OnStack(ch, j) /\ gs2[j] = gs[j]
    OBVIOUS
  <2>2. Frozen(ch, gs[j].filters[i])
    BY <2>1 DEF ClosedInv, AllFrozen
  <2>3. QED
    BY <2>1, <2>2, FrozenStays DEF Keeps
<1>2. \E e : Denotes(gs2, ch2, cs, e)
  <2>1. PICK e : Denotes(gs, ch, cs, e)
    OBVIOUS
  <2>2. QED
    BY <2>1, DenotesSame
<1>3. QED
  BY <1>1, <1>2

LEMMA AndKeeps ==
  ASSUME NEW r \in Nat, NEW gs, GroupsRight(gs, r), NEW ch, ChildrenRight(ch, Len(gs)),
         NEW cs, NEW ls \in Seq(LevelOf(cs)), ls # <<>>, SemInv(gs, ch, cs, ls, "connective"),
         Len(gs[Last(ch)].filters) > 1, gs[Last(ch)].type = "OR"
  PROVE  SemInv(AfterAnd(gs, Last(ch)), Append(ch, Len(gs) + 1), cs, WithLast(ls, Joined(ls[Len(ls)], "AND")),
                "operand")
<1> DEFINE k   == Last(ch)
           new == Len(gs) + 1
           gs2 == AfterAnd(gs, k)
           ch2 == Append(ch, new)
           n   == Len(ls)
           l   == ls[n]
           l2  == Joined(l, "AND")
           f   == gs[k].filters
           a   == gs2[new]
<1>1. gs \in Seq(Group) /\ Len(gs) \in Nat
  BY LenProperties DEF GroupsRight
<1>2. PICK at : Placed(ls, ch, at) /\ AllStand(gs, ch, cs, ls, at, "connective")
                /\ Top(gs, ch, cs, l, at[n], "connective")
  BY TopIs
<1> DEFINE p == at[n]
<1>3. /\ k \in 1..Len(gs) /\ l \in LevelOf(cs) /\ Len(ch) \in Nat \ {0} /\ OnStack(ch, k)
      /\ ch[p] \in 1..Len(gs)
      /\ LevelShape(ch, l, k, gs[ch[p]], gs[k], "connective")
      /\ \A e : Denotes(gs, ch, cs, e) => LevelMeans(cs, l, gs[ch[p]], gs[k], "connective", e)
      /\ \A q \in 1..Len(ch) : q < p => ch[q] \in 1..Len(gs) /\ ch[q] # k
  BY <1>2 DEF Top
<1>4. gs[k].type = "OR" /\ Len(f) > 1
  OBVIOUS
<1>5. /\ Len(f) \in Nat
      /\ \A i \in 1..Len(f) : Sensible(f[i])
  BY <1>3, MembersOf
<1>6. /\ Len(ch2) = Len(ch) + 1 /\ ch2[Len(ch) + 1] = new /\ \A i \in 1..Len(ch) : ch2[i] = ch[i]
      /\ \A j : OnStack(ch2, j) <=> OnStack(ch, j) \/ j = new
  <2>1. ch \in Seq(1..Len(gs)) /\ \A i, j \in 1..Len(ch) : ch[i] = ch[j] => i = j
    BY DEF ChildrenRight
  <2>2. QED
    BY <1>1, <2>1, Pushed
<1> HIDE DEF k
<1>7. /\ Len(gs2) = Len(gs) + 1 /\ \A j \in 1..Len(gs) : j # k => gs2[j] = gs[j]
      /\ gs2[k] = Retained(gs[k], new) /\ gs2[new] = AndOf(Last(f))
  BY <1>1, <1>3, <1>4, AfterAndOf
<1>8. SplitOff(gs[k], gs2[k], a, new)
  <2>1. /\ gs2[k].type = gs[k].type /\ Len(f) \in Nat \ {0} /\ Last(f) = f[Len(f)] /\ Last(f) \in Int
        /\ Len(gs2[k].filters) = Len(f) /\ gs2[k].filters[Len(f)] = -new
        /\ \A i \in 1..Len(f) - 1 : gs2[k].filters[i] = f[i]
    <3>1. gs \in Seq(Group) /\ k \in 1..Len(gs) /\ Len(gs[k].filters) > 1 /\ new \in Nat
      BY <1>1, <1>3, <1>4
    <3> HIDE DEF new, gs2
    <3>2. /\ Retained(gs[k], new).type = gs[k].type
          /\ Len(gs[k].filters) \in Nat \ {0}
          /\ Last(gs[k].filters) = gs[k].filters[Len(gs[k].filters)] /\ Last(gs[k].filters) \in Int
          /\ Len(Retained(gs[k], new).filters) = Len(gs[k].filters)
          /\ Retained(gs[k], new).filters[Len(gs[k].filters)] = -new
          /\ \A i \in 1..Len(gs[k].filters) - 1 : Retained(gs[k], new).filters[i] = gs[k].filters[i]
      BY ONLY <3>1, RetainedOf, ZenonT(30)
    <3>3. gs2[k] = Retained(gs[k], new)
      BY <1>7
    <3>4. QED
      BY <3>2, <3>3
  <2>2. a.type = "AND" /\ Len(a.filters) = 1 /\ a.filters[1] = f[Len(f)]
    BY <1>7, <2>1, SingleOf DEF AndOf, Kinds
  <2> HIDE DEF new, gs2, a
  <2>3. QED
    BY <2>1, <2>2 DEF SplitOff
<1> HIDE DEF gs2, ch2, n, l, l2, a
<1>9. Keeps(gs, ch, gs2, ch2)
  BY <1>1, <1>3, <1>6, <1>7 DEF Keeps, Sinks
<1>10. FrozenCarries(ch, ch2, f)
  BY <1>3, <1>9, FrozenStays DEF FrozenCarries, Keeps
<1> HIDE DEF f
<1>11. ~Two(l) /\ l.or /\ LevelShape(ch2, l2, new, gs2[k], a, "operand")
  BY <1>3, <1>4, <1>8, <1>10, SplitLevel DEF l2, f
<1>12. ASSUME NEW e, Denotes(gs2, ch2, cs, e) PROVE LevelMeans(cs, l2, gs2[k], a, "operand", e)
  <2>1. Denotes(gs, ch, cs, e)
    BY <1>9, <1>12, DenotesBack
  <2>2. MembersIn(cs, f, e)
    BY <1>5, <2>1, MemIn DEF MembersIn
  <2>3. LevelMeans(cs, l, gs[ch[p]], gs[k], "connective", e)
    BY <1>3, <2>1
  <2>4. QED
    BY <1>3, <1>4, <1>8, <1>10, <2>2, <2>3, SplitLevel DEF l2, f
<1>13. p = Len(ch) /\ ch[p] = k /\ p \in 1..Len(ch)
  BY <1>2, <1>11 DEF Top, k
<1>14. l2 \in LevelOf(cs) /\ Width(l2) = 2
  <2>1. l2 \in LevelOf(cs)
    BY <1>3, JoinedOf DEF l2
  <2>2. QED
    BY <1>11, <2>1, JoinIs DEF l2
<1>15. p + Width(l2) - 1 = Len(ch) + 1 /\ ch2[p] = k /\ ch2[Len(ch) + 1] = new
  <2>1. p + Width(l2) - 1 = Len(ch) + 1
    BY <1>3, <1>13, <1>14
  <2>2. ch2[p] = ch[p]
    BY <1>6, <1>13
  <2>3. ch2[Len(ch) + 1] = new
    BY <1>6
  <2>4. QED
    BY <1>13, <2>1, <2>2, <2>3
<1>16. Stands(gs2, ch2, cs, l2, p, "operand")
  <2>1. LevelShape(ch2, l2, ch2[p + Width(l2) - 1], gs2[ch2[p]], gs2[ch2[p + Width(l2) - 1]], "operand")
    BY <1>11, <1>15 DEF a
  <2>2. ASSUME NEW e, Denotes(gs2, ch2, cs, e)
        PROVE  LevelMeans(cs, l2, gs2[ch2[p]], gs2[ch2[p + Width(l2) - 1]], "operand", e)
    BY <1>12, <1>15, <2>2 DEF a
  <2>3. QED
    BY <2>1, <2>2 DEF Stands
<1>17. LevelsInv(gs2, ch2, cs, WithLast(ls, l2), "operand")
  <2>1. Untouched(gs, ch, gs2, ch2, p)
    <3> SUFFICES ASSUME NEW q \in 1..Len(ch), q < p
                 PROVE  q \in 1..Len(ch2) /\ ch2[q] = ch[q] /\ gs2[ch[q]] = gs[ch[q]]
      BY DEF Untouched
    <3>1. q \in 1..Len(ch2)
      BY <1>3, <1>6
    <3>2. QED
      BY <1>3, <1>6, <1>7, <3>1
  <2>2. Len(ch2) = p + Width(l2) - 1 /\ Len(ch2) \in Nat
    BY <1>3, <1>6, <1>15
  <2>3. QED
    BY <1>2, <1>3, <1>9, <1>14, <1>16, <2>1, <2>2, LastLevel DEF n
<1>18. \A j \in 1..Len(gs2) : ~OnStack(ch2, j) => j \in 1..Len(gs) /\ ~OnStack(ch, j) /\ gs2[j] = gs[j]
  BY <1>1, <1>3, <1>6, <1>7, SMTT(30)
<1>19. ClosedInv(gs2, ch2) /\ \E e : Denotes(gs2, ch2, cs, e)
  <2>1. ClosedInv(gs, ch) /\ \E e : Denotes(gs, ch, cs, e)
    BY DEF SemInv
  <2>2. QED
    BY <1>9, <1>18, <2>1, ClosedStays
<1>20. QED
  BY <1>17, <1>19 DEF SemInv, k, gs2, ch2, n, l, l2

LEMMA EndKeeps ==
  ASSUME NEW r \in Nat, NEW gs, GroupsRight(gs, r), NEW ch, ChildrenRight(ch, Len(gs)),
         NEW cs, NEW ls \in Seq(LevelOf(cs)), ls # <<>>, SemInv(gs, ch, cs, ls, "connective"),
         gs[Last(ch)].type = "AND", Two(ls[Len(ls)])
  PROVE  /\ Len(ch) > 1 /\ gs[ch[Len(ch) - 1]].type = "OR"
         /\ SemInv(gs, Front(ch), cs, WithLast(ls, Joined(ls[Len(ls)], "OR")), "operand")
<1> DEFINE k  == Last(ch)
           st == Front(ch)
           n  == Len(ls)
           l  == ls[n]
           l2 == Joined(l, "OR")
<1>1. gs \in Seq(Group) /\ Len(gs) \in Nat
  BY LenProperties DEF GroupsRight
<1>2. PICK at : Placed(ls, ch, at) /\ AllStand(gs, ch, cs, ls, at, "connective")
                /\ Top(gs, ch, cs, l, at[n], "connective")
  BY TopIs
<1> DEFINE p  == at[n]
           kb == ch[p]
<1>3. /\ k \in 1..Len(gs) /\ l \in LevelOf(cs) /\ Len(ch) \in Nat \ {0} /\ OnStack(ch, k)
      /\ kb \in 1..Len(gs) /\ p \in 1..Len(ch)
      /\ LevelShape(ch, l, k, gs[kb], gs[k], "connective")
      /\ \A e : Denotes(gs, ch, cs, e) => LevelMeans(cs, l, gs[kb], gs[k], "connective", e)
      /\ \A q \in 1..Len(ch) : q < p => ch[q] \in 1..Len(gs) /\ ch[q] # k
      /\ p = Len(ch) - 1
  BY <1>2 DEF Top
<1>4. gs[k].type = "AND" /\ Two(l)
  OBVIOUS
<1>5. /\ Len(gs[kb].filters) \in Nat
      /\ \A i \in 1..Len(gs[kb].filters) : Sensible(gs[kb].filters[i])
  BY <1>3, MembersOf
<1>6. AllFrozen(ch, gs[k].filters)
  BY <1>3, <1>4 DEF LevelShape
<1>7. /\ Keeps(gs, ch, gs, st) /\ ClosedInv(gs, st) /\ \E e : Denotes(gs, st, cs, e)
      /\ Len(st) = Len(ch) - 1 /\ \A q \in 1..Len(ch) - 1 : st[q] = ch[q]
      /\ ~OnStack(st, k)
  BY <1>6, PopFreezes DEF SemInv
<1> HIDE DEF k, st, n, l, l2, kb
<1>8. FrozenCarries(ch, st, gs[kb].filters)
  BY <1>3, <1>7, FrozenStays DEF FrozenCarries, Keeps
<1>9. k \in Nat \ {0}
  BY <1>1, <1>3
<1>ended. /\ l \in LevelOf(cs) /\ Two(l) /\ k \in Nat \ {0} /\ LevelShape(ch, l, k, gs[kb], gs[k], "connective")
      /\ Len(gs[kb].filters) \in Nat /\ gs[k].type = "AND" /\ FrozenCarries(ch, st, gs[kb].filters)
      /\ ~OnStack(st, k)
  BY <1>3, <1>4, <1>5, <1>7, <1>8, <1>9
<1>10. gs[kb].type = "OR" /\ LevelShape(st, l2, kb, gs[kb], gs[kb], "operand")
  <2>2. gs[kb].type = "OR" /\ LevelShape(st, Joined(l, "OR"), kb, gs[kb], gs[kb], "operand")
    BY ONLY <1>ended, EndedLevel, ZenonT(30)
  <2>3. QED
    BY <2>2 DEF l2
<1>11. ASSUME NEW e, Denotes(gs, st, cs, e) PROVE LevelMeans(cs, l2, gs[kb], gs[kb], "operand", e)
  <2>1. Denotes(gs, ch, cs, e)
    BY <1>7, <1>11, DenotesBack
  <2>2. MembersIn(cs, gs[kb].filters, e)
    BY <1>5, <2>1, MemIn DEF MembersIn
  <2>3. LevelMeans(cs, l, gs[kb], gs[k], "connective", e)
    BY <1>3, <2>1
  <2>4. e[k] = GroupMeans(cs, gs[k], e)
    BY <1>3, <1>7, <1>11 DEF Denotes
  <2>5. LevelMeans(cs, Joined(l, "OR"), gs[kb], gs[kb], "operand", e)
    BY ONLY <1>ended, <2>2, <2>3, <2>4, EndedLevel
  <2>6. QED
    BY <2>5 DEF l2
<1>12. l2 \in LevelOf(cs) /\ Width(l2) = 1
  BY <1>3, JoinedOf, JoinIs DEF l2
<1>13. p + Width(l2) - 1 = p /\ st[p] = kb /\ Len(st) = p
  <2>1. p \in 1..Len(ch) - 1
    BY <1>3
  <2>2. st[p] = ch[p]
    BY <1>7, <2>1
  <2>3. QED
    BY <1>3, <1>7, <1>12, <2>2 DEF kb
<1>14. Stands(gs, st, cs, l2, p, "operand")
  BY <1>10, <1>11, <1>13 DEF Stands
<1>15. LevelsInv(gs, st, cs, WithLast(ls, l2), "operand")
  <2>1. Untouched(gs, ch, gs, st, p)
    <3> SUFFICES ASSUME NEW q \in 1..Len(ch), q < p
                 PROVE  q \in 1..Len(st) /\ st[q] = ch[q]
      BY DEF Untouched
    <3>1. q \in 1..Len(ch) - 1
      BY <1>3
    <3>2. QED
      BY <1>7, <3>1
  <2>2. Len(st) = p + Width(l2) - 1 /\ Len(st) \in Nat
    BY <1>3, <1>13
  <2>3. QED
    BY <1>2, <1>3, <1>7, <1>12, <1>14, <2>1, <2>2, LastLevel DEF n
<1>16. Len(ch) > 1 /\ kb = ch[Len(ch) - 1]
  BY <1>3 DEF kb
<1>17. QED
  BY <1>7, <1>10, <1>15, <1>16 DEF SemInv, st, n, l, l2

LEMMA WrapKeeps ==
  ASSUME NEW r \in Nat, NEW gs, GroupsRight(gs, r), NEW ch, ChildrenRight(ch, Len(gs)),
         NEW cs, NEW ls \in Seq(LevelOf(cs)), ls # <<>>, SemInv(gs, ch, cs, ls, "connective"),
         gs[Last(ch)].type = "AND", ~Two(ls[Len(ls)])
  PROVE  SemInv(Append(gs, OrOf(Last(ch))), Append(Front(ch), Len(gs) + 1), cs,
                WithLast(ls, Joined(ls[Len(ls)], "OR")), "operand")
<1> DEFINE k   == Last(ch)
           new == Len(gs) + 1
           st  == Front(ch)
           gs2 == Append(gs, OrOf(k))
           ch2 == Append(st, new)
           n   == Len(ls)
           l   == ls[n]
           l2  == Joined(l, "OR")
<1>1. gs \in Seq(Group) /\ Len(gs) \in Nat
  BY LenProperties DEF GroupsRight
<1>2. PICK at : Placed(ls, ch, at) /\ AllStand(gs, ch, cs, ls, at, "connective")
                /\ Top(gs, ch, cs, l, at[n], "connective")
  BY TopIs
<1> DEFINE p == at[n]
<1>3. /\ k \in 1..Len(gs) /\ l \in LevelOf(cs) /\ Len(ch) \in Nat \ {0} /\ OnStack(ch, k)
      /\ p \in 1..Len(ch)
      /\ LevelShape(ch, l, k, gs[ch[p]], gs[k], "connective")
      /\ \A e : Denotes(gs, ch, cs, e) => LevelMeans(cs, l, gs[ch[p]], gs[k], "connective", e)
      /\ \A q \in 1..Len(ch) : q < p => ch[q] \in 1..Len(gs) /\ ch[q] # k
      /\ p = Len(ch) /\ ch[p] = k
  BY <1>2 DEF Top
<1>4. gs[k].type = "AND" /\ ~Two(l)
  OBVIOUS
<1>5. AllFrozen(ch, gs[k].filters)
  BY <1>3, <1>4 DEF LevelShape, AllFrozen
<1>6. /\ Len(st) = Len(ch) - 1 /\ (\A q \in 1..Len(ch) - 1 : st[q] = ch[q])
      /\ st \in Seq(1..Len(gs)) /\ (\A i, j \in 1..Len(st) : st[i] = st[j] => i = j)
      /\ \A j : OnStack(st, j) <=> OnStack(ch, j) /\ j # k
  BY <1>1, Popped
<1> HIDE DEF k, st, n, l, l2
<1>7. /\ Len(ch2) = Len(ch) /\ ch2[Len(ch)] = new /\ (\A q \in 1..Len(ch) - 1 : ch2[q] = ch[q])
      /\ \A j : OnStack(ch2, j) <=> OnStack(st, j) \/ j = new
  <2>1. /\ Len(ch2) = Len(st) + 1 /\ ch2[Len(st) + 1] = new
        /\ \A i \in 1..Len(st) : ch2[i] = st[i]
        /\ \A j : OnStack(ch2, j) <=> OnStack(st, j) \/ j = new
    BY <1>1, <1>6, Pushed
  <2> HIDE DEF ch2, new
  <2>2. QED
    BY <1>3, <1>6, <2>1
<1>8. IsOrOf(OrOf(k), k) /\ OrOf(k) \in Group
  <2>1. -k \in Int /\ "OR" \in Kinds
    BY <1>1, <1>3 DEF Kinds
  <2>2. QED
    BY <2>1, SingleOf DEF OrOf, IsOrOf
<1>9. /\ Len(gs2) = Len(gs) + 1 /\ gs2[new] = OrOf(k)
      /\ \A j \in 1..Len(gs) : gs2[j] = gs[j]
  BY <1>1, <1>8, AddOf
<1> HIDE DEF gs2, ch2
<1>10. Keeps(gs, ch, gs2, ch2)
  BY <1>1, <1>6, <1>7, <1>9 DEF Keeps, Sinks
<1>11. ~OnStack(ch2, k) /\ k \in Nat \ {0}
  BY <1>1, <1>3, <1>6, <1>7
<1>12. LevelShape(ch2, l2, new, OrOf(k), OrOf(k), "operand")
  <2>1. /\ l \in LevelOf(cs) /\ ~Two(l) /\ k \in Nat \ {0} /\ LevelShape(ch, l, k, gs[ch[p]], gs[k], "connective")
        /\ gs[k].type = "AND" /\ IsOrOf(OrOf(k), k) /\ ~OnStack(ch2, k)
    BY <1>3, <1>4, <1>8, <1>11 DEF IsOrOf
  <2> HIDE DEF new
  <2>2. LevelShape(ch2, Joined(l, "OR"), new, OrOf(k), OrOf(k), "operand")
    BY ONLY <2>1, WrappedLevel
  <2>3. QED
    BY <2>2 DEF l2
<1>13. ASSUME NEW e, Denotes(gs2, ch2, cs, e) PROVE LevelMeans(cs, l2, OrOf(k), OrOf(k), "operand", e)
  <2>1. Denotes(gs, ch, cs, e)
    BY <1>10, <1>13, DenotesBack
  <2>2. LevelMeans(cs, l, gs[ch[p]], gs[k], "connective", e)
    BY <1>3, <2>1
  <2>3. k \in 1..Len(gs2) /\ gs2[k] = gs[k]
    BY <1>1, <1>3, <1>9
  <2>4. e[k] = GroupMeans(cs, gs[k], e)
    BY <1>11, <1>13, <2>3 DEF Denotes
  <2>5. QED
    BY <1>3, <1>4, <1>8, <1>11, <2>2, <2>4, WrappedLevel DEF l2
<1>14. l2 \in LevelOf(cs) /\ Width(l2) = 1
  BY <1>3, JoinedOf, JoinIs DEF l2
<1>15. p + Width(l2) - 1 = p /\ ch2[p] = new /\ Len(ch2) = p
  BY <1>3, <1>7, <1>14
<1>16. Stands(gs2, ch2, cs, l2, p, "operand")
  BY <1>9, <1>12, <1>13, <1>15 DEF Stands
<1>17. LevelsInv(gs2, ch2, cs, WithLast(ls, l2), "operand")
  <2>1. Untouched(gs, ch, gs2, ch2, p)
    <3> SUFFICES ASSUME NEW q \in 1..Len(ch), q < p
                 PROVE  q \in 1..Len(ch2) /\ ch2[q] = ch[q] /\ gs2[ch[q]] = gs[ch[q]]
      BY DEF Untouched
    <3>1. q \in 1..Len(ch) - 1
      BY <1>3
    <3>2. QED
      BY <1>3, <1>7, <1>9, <3>1
  <2>2. Len(ch2) = p + Width(l2) - 1 /\ Len(ch2) \in Nat
    BY <1>3, <1>15
  <2>3. QED
    BY <1>2, <1>3, <1>10, <1>14, <1>16, <2>1, <2>2, LastLevel DEF n
<1>18. \A j \in 1..Len(gs2) : ~OnStack(ch2, j) =>
         j = k \/ (j \in 1..Len(gs) /\ ~OnStack(ch, j) /\ gs2[j] = gs[j])
  BY <1>1, <1>6, <1>7, <1>9
<1>19. ClosedInv(gs2, ch2)
  <2> SUFFICES ASSUME NEW j \in 1..Len(gs2), ~OnStack(ch2, j),
                      NEW i \in 1..Len(gs2[j].filters) PROVE Frozen(ch2, gs2[j].filters[i])
    BY DEF ClosedInv, AllFrozen
  <2>1. j \in 1..Len(gs) /\ gs2[j] = gs[j]
    BY <1>1, <1>3, <1>9, <1>18
  <2>2. AllFrozen(ch, gs[j].filters)
    BY <1>5, <1>18, <2>1 DEF SemInv, ClosedInv
  <2>3. Frozen(ch, gs[j].filters[i])
    BY <2>1, <2>2 DEF AllFrozen
  <2>4. QED
    BY <1>10, <2>1, <2>3, FrozenStays DEF Keeps
<1>20. \E e : Denotes(gs2, ch2, cs, e)
  <2>1. PICK e : Denotes(gs, ch, cs, e)
    BY DEF SemInv
  <2>2. \E e2 : Denotes(gs, st, cs, e2)
    <3>1. \A j \in 1..Len(gs) : ~OnStack(st, j) => j = k \/ (j \in 1..Len(gs) /\ ~OnStack(ch, j) /\ gs[j] = gs[j])
      BY <1>6
    <3>2. ClosedInv(gs, ch)
      BY DEF SemInv
    <3>3. QED
      BY <1>3, <1>5, <2>1, <3>1, <3>2, DenotesForth
  <2>3. PICK e2 : Denotes(gs, st, cs, e2)
    BY <2>2
  <2>4. \A j \in 1..Len(gs2) : ~OnStack(ch2, j) => j \in 1..Len(gs) /\ ~OnStack(st, j) /\ gs2[j] = gs[j]
    BY <1>1, <1>7, <1>9
  <2>5. QED
    BY <2>3, <2>4, DenotesSame
<1>21. QED
  BY <1>17, <1>19, <1>20 DEF SemInv, k, st, gs2, ch2, n, l, l2

(* What is below the last level. *)
LEMMA BelowIs ==
  ASSUME NEW r \in Nat, NEW gs, GroupsRight(gs, r), NEW ch, ChildrenRight(ch, Len(gs)),
         NEW cs, NEW ls \in Seq(LevelOf(cs)), ls # <<>>, NEW x, SemInv(gs, ch, cs, ls, x),
         ~Two(ls[Len(ls)])
  PROVE  /\ Len(ls) = 1 => Len(ch) = 1
         /\ Len(ls) > 1 /\ ls[Len(ls) - 1].connective = "AND" =>
              Len(ch) > 1 /\ gs[ch[Len(ch) - 1]].type = "AND"
<1> DEFINE n == Len(ls)
           l == ls[n]
<1>1. PICK at : Placed(ls, ch, at) /\ AllStand(gs, ch, cs, ls, at, x) /\ Top(gs, ch, cs, l, at[n], x)
  BY TopIs
<1>2. at[n] = Len(ch) /\ Len(ch) \in Nat \ {0} /\ at[1] = 1
  BY <1>1 DEF Top, Placed
<1>3. n \in Nat \ {0}
  BY EmptySeq
<1>4. ASSUME n > 1, ls[n - 1].connective = "AND" PROVE Len(ch) > 1 /\ gs[ch[Len(ch) - 1]].type = "AND"
  <2> DEFINE o == ls[n - 1]
             p == at[n - 1]
             w == Width(o)
  <2>1. n - 1 \in 1..n /\ n - 1 # n /\ n - 1 \in 1..n - 1 /\ (n - 1) + 1 = n
    BY <1>3, <1>4
  <2>2. at[(n - 1) + 1] = at[n - 1] + Width(ls[n - 1]) /\ p \in 1..Len(ch)
    BY <1>1, <2>1 DEF Placed
  <2>3. at[n] = p + w
    BY <2>1, <2>2
  <2>4. w \in {1, 2}
    BY DEF Width
  <2>5. Stands(gs, ch, cs, o, p, "operand")
    BY <1>1, <2>1 DEF AllStand, Expects
  <2>6. o.connective = "AND"
    BY <1>4
  <2> HIDE DEF o, p, w, n
  <2>7. p + w - 1 = Len(ch) - 1 /\ Len(ch) > 1
    BY <1>2, <2>2, <2>3, <2>4
  <2>8. LevelShape(ch, o, ch[Len(ch) - 1], gs[ch[p]], gs[ch[Len(ch) - 1]], "operand")
    BY <2>5, <2>7 DEF Stands, w
  <2>9. QED
    BY <2>6, <2>7, <2>8 DEF LevelShape
<1>5. QED
  BY <1>2, <1>4

-----------------------------------------------------------------------------
(* The inductive invariant: as long as the string is none of the exceptions, it
   is not refused, and the groups mean what is written so far. *)

WrittenInv ==
  ~tangled =>
    /\ outcome # "refused" /\ SemInv(groups, children, Cases, levels, expected)
    /\ outcome = "parsed" =>
         /\ expected = "connective" /\ Outside
         /\ result = IF groups[children[1]].type = "none" THEN Unwrapped(children[1]) ELSE -children[1]

LEMMA InitWritten == ASSUME TypeInv, Init PROVE WrittenInv
<1>1. /\ levels = <<Level>> /\ expected = "operand" /\ groups = <<Made>> /\ children = <<1>>
      /\ outcome = "parsing"
  BY DEF Init
<1>2. /\ Len(levels) = 1 /\ levels[1] = Level /\ Len(groups) = 1 /\ groups[1] = Made
      /\ Len(children) = 1 /\ children[1] = 1
  BY <1>1
<1>3. OnStack(children, 1)
  BY <1>2 DEF OnStack
<1>4. \A k \in 1..Len(groups) : OnStack(children, k)
  BY <1>2, <1>3
<1>5. ClosedInv(groups, children)
  BY <1>4 DEF ClosedInv
<1>6. Denotes(groups, children, Cases, [k \in Nat |-> {}])
  BY <1>4 DEF Denotes
<1>7. Stands(groups, children, Cases, Level, 1, "operand")
  <2>1. Made.type = "none" /\ Len(Made.filters) = 0
    BY DEF Made
  <2>2. LevelShape(children, Level, 1, Made, Made, "operand")
    BY <2>1, LevelAt DEF LevelShape
  <2>3. \A e : LevelMeans(Cases, Level, Made, Made, "operand", e)
    BY LevelAt DEF LevelMeans
  <2>4. 1 + Width(Level) - 1 = 1
    BY LevelAt
  <2>5. QED
    BY <1>2, <2>2, <2>3, <2>4 DEF Stands
<1>8. LevelsInv(groups, children, Cases, levels, "operand")
  <2> DEFINE at == [i \in {1} |-> 1]
  <2>1. at[1] = 1
    OBVIOUS
  <2> HIDE DEF at
  <2>2. Placed(levels, children, at)
    <3>1. Width(levels[1]) = 1
      BY <1>2, LevelAt
    <3>2. QED
      BY <1>2, <2>1, <3>1 DEF Placed
  <2>3. AllStand(groups, children, Cases, levels, at, "operand")
    BY <1>2, <1>7, <2>1 DEF AllStand, Expects
  <2>4. QED
    BY <2>2, <2>3 DEF LevelsInv
<1>9. SemInv(groups, children, Cases, levels, "operand")
  BY <1>5, <1>6, <1>8 DEF SemInv
<1>10. QED
  BY <1>1, <1>9 DEF WrittenInv

LEMMA FieldWritten == ASSUME TypeInv, WrittenInv, Field PROVE WrittenInv'
<1> SUFFICES ASSUME ~tangled'
             PROVE  outcome' = "parsing" /\ SemInv(groups', children', Cases', levels', expected')
  BY DEF WrittenInv
<1> DEFINE m  == read + 1
           mm == Holds(m)
<1>1. /\ conditions' = conditions /\ expected = "operand" /\ expected' = "connective" /\ outcome = "parsing"
      /\ levels' = [levels EXCEPT ![Len(levels)] = WithOperand(@, mm)] /\ Put(Current, m, children)
      /\ ~tangled
  BY DEF Field
<1>2. SemInv(groups, children, Cases, levels, "operand")
  BY <1>1 DEF WrittenInv
<1>3. /\ GroupsRight(groups, read) /\ ChildrenRight(children, Len(groups)) /\ read \in Nat
      /\ levels \in Seq(LevelOf(Cases)) /\ levels # <<>>
  BY Here DEF TypeInv
<1>4. m \in Int /\ m > 0 /\ Frozen(children, m)
  BY <1>3 DEF Frozen
<1>5. mm \subseteq Cases /\ MeantAs(groups, children, Cases, m, mm)
  BY <1>4, HoldsIn DEF MeantAs, Mem, Holds
<1> HIDE DEF m, mm
<1>6. /\ groups[Last(children)].filters = <<>> \/ groups[Last(children)].type # "none"
      /\ SemInv(PutInto(groups, Last(children), m), children, Cases,
                WithLast(levels, WithOperand(levels[Len(levels)], mm)), "connective")
  BY <1>2, <1>3, <1>4, <1>5, PutKeeps
<1>7. groups' = PutInto(groups, Last(children), m) /\ children' = children /\ outcome' = outcome
  BY <1>1, <1>6 DEF Put, PutInto, Current
<1>8. levels' = WithLast(levels, WithOperand(levels[Len(levels)], mm)) /\ Cases' = Cases
  BY <1>1 DEF WithLast, Cases
<1>9. QED
  BY <1>1, <1>6, <1>7, <1>8

LEMMA OpenWritten == ASSUME TypeInv, WrittenInv, Open PROVE WrittenInv'
<1> SUFFICES ASSUME ~tangled'
             PROVE  outcome' = "parsing" /\ SemInv(groups', children', Cases', levels', expected')
  BY DEF WrittenInv
<1>1. /\ conditions' = conditions /\ expected = "operand" /\ expected' = "operand"
      /\ outcome = "parsing" /\ outcome' = "parsing" /\ ~tangled
      /\ levels' = Append(levels, Level) /\ groups' = Append(groups, Made)
      /\ children' = Append(children, Len(groups) + 1)
  BY DEF Open
<1>2. SemInv(groups, children, Cases, levels, "operand")
  BY <1>1 DEF WrittenInv
<1>3. /\ GroupsRight(groups, read) /\ ChildrenRight(children, Len(groups)) /\ read \in Nat
      /\ levels \in Seq(LevelOf(Cases)) /\ levels # <<>>
  BY Here DEF TypeInv
<1>4. SemInv(Append(groups, Made), Append(children, Len(groups) + 1), Cases, Append(levels, Level), "operand")
  BY <1>2, <1>3, OpenKeeps
<1>5. Cases' = Cases
  BY <1>1 DEF Cases
<1>6. QED
  BY <1>1, <1>4, <1>5

LEMMA CloseWritten == ASSUME TypeInv, WrittenInv, Close PROVE WrittenInv'
<1> SUFFICES ASSUME ~tangled'
             PROVE  outcome' = "parsing" /\ SemInv(groups', children', Cases', levels', expected')
  BY DEF WrittenInv
<1> DEFINE m  == Unwrapped(Current)
           mm == Meaning(Inner)
           st == Front(children)
           fl == Front(levels)
<1>1. /\ conditions' = conditions /\ expected = "connective" /\ expected' = "connective" /\ outcome = "parsing"
      /\ levels' = [fl EXCEPT ![Len(levels) - 1] = WithOperand(@, mm)]
      /\ IF Len(children) = 1 \/ groups[Current].filters = <<>> THEN Refuse ELSE Put(Below, m, st)
      /\ ~tangled /\ ~TanglesAtEnd /\ ~Outside
  BY DEF Close
<1>2. SemInv(groups, children, Cases, levels, "connective")
  BY <1>1 DEF WrittenInv
<1>3. /\ GroupsRight(groups, read) /\ ChildrenRight(children, Len(groups)) /\ read \in Nat
      /\ levels \in Seq(LevelOf(Cases)) /\ levels # <<>> /\ Len(levels) \in Nat \ {0}
      /\ Inner = levels[Len(levels)] /\ Inner \in LevelOf(Cases) /\ Last(children) = Current
      /\ Len(groups) \in Nat /\ Len(children) \in Nat \ {0}
  BY Here DEF TypeInv, Current
<1>4. Len(levels) > 1
  <2>1. Len(levels) \in Nat /\ Len(levels) # 0 /\ Len(levels) # 1
    BY <1>1, <1>3 DEF Outside
  <2>2. QED
    BY ONLY <2>1, BeforeLast
<1>5. ~Two(levels[Len(levels)])
  BY <1>1, <1>3 DEF TanglesAtEnd, Two
<1>6. Only(groups, Current) = m
  BY DEF Only, Unwrapped
<1>7. /\ Len(children) > 1 /\ Len(groups[Current].filters) >= 1
      /\ SemInv(groups, st, Cases, fl, "operand") /\ Frozen(st, m)
      /\ MeantAs(groups, st, Cases, m, mm)
  BY <1>2, <1>3, <1>4, <1>5, <1>6, PopKeeps
<1>8. groups[Current].filters # <<>> /\ Len(children) # 1
  <2>1. Len(groups[Current].filters) \in Nat
    BY <1>3, Here, MembersOf
  <2>2. Len(groups[Current].filters) # 0
    BY <1>7, <2>1
  <2>3. groups[Current].filters # <<>>
    BY <2>2
  <2>4. Len(children) # 1
    BY <1>3, <1>7, More
  <2>5. QED
    BY <2>3, <2>4
<1>9. /\ Below = children[Len(children) - 1] /\ ChildrenRight(st, Len(groups)) /\ m \in Int
      /\ Below \in 1..Len(groups)
  BY <1>8, UnwrappedIs
<1>10. Last(st) = Below
  <2>1. /\ Len(st) = Len(children) - 1 /\ \A i \in 1..Len(children) - 1 : st[i] = children[i]
    BY <1>3, Popped
  <2>2. Last(st) = st[Len(st)]
    BY <1>3, <1>9, StackOf
  <2>3. Len(children) - 1 \in 1..Len(children) - 1
    BY <1>3, <1>7
  <2>4. QED
    BY <1>9, <2>1, <2>2, <2>3
<1>11. fl \in Seq(LevelOf(Cases)) /\ fl # <<>> /\ Len(fl) = Len(levels) - 1
  <2>1. fl \in Seq(LevelOf(Cases)) /\ Len(fl) = Len(levels) - 1
    BY <1>3, FrontOf
  <2>2. QED
    BY <1>3, <1>4, <2>1, EmptySeq
<1>12. mm \subseteq Cases
  BY <1>3, LevelIs
<1> HIDE DEF m, mm, st, fl
<1>13. /\ groups[Below].filters = <<>> \/ groups[Below].type # "none"
       /\ SemInv(PutInto(groups, Below, m), st, Cases, WithLast(fl, WithOperand(fl[Len(fl)], mm)), "connective")
  <2>1. SemInv(groups, st, Cases, fl, "operand") /\ MeantAs(groups, st, Cases, m, mm) /\ Frozen(st, m)
        /\ ChildrenRight(st, Len(groups)) /\ m \in Int
    BY <1>7, <1>9
  <2>2. groups[Last(st)].filters = <<>> \/ groups[Last(st)].type # "none"
    BY <1>3, <1>11, <1>12, <2>1, PutKeeps
  <2>3. SemInv(PutInto(groups, Last(st), m), st, Cases, WithLast(fl, WithOperand(fl[Len(fl)], mm)), "connective")
    BY <1>3, <1>11, <1>12, <2>1, PutKeeps
  <2>4. QED
    BY <1>10, <2>2, <2>3
<1>14. groups' = PutInto(groups, Below, m) /\ children' = st /\ outcome' = outcome
  BY <1>1, <1>8, <1>13 DEF Put, PutInto
<1>15. levels' = WithLast(fl, WithOperand(fl[Len(fl)], mm)) /\ Cases' = Cases
  BY <1>1, <1>11 DEF WithLast, Cases
<1>16. QED
  BY <1>1, <1>13, <1>14, <1>15

LEMMA ConnectiveWritten == ASSUME TypeInv, WrittenInv, NEW t \in {"AND", "OR"}, Connective(t) PROVE WrittenInv'
<1> SUFFICES ASSUME ~tangled'
             PROVE  outcome' = "parsing" /\ SemInv(groups', children', Cases', levels', expected')
  BY DEF WrittenInv
<1> DEFINE g  == groups[Current]
           l  == levels[Len(levels)]
           l2 == WithLast(levels, Joined(l, t))
<1>1. /\ conditions' = conditions /\ expected = "connective" /\ expected' = "operand" /\ outcome = "parsing"
      /\ levels' = Connected(levels, t) /\ ~tangled /\ ~Tangles(t)
  BY DEF Connective, Connected
<1>2. SemInv(groups, children, Cases, levels, "connective")
  BY <1>1 DEF WrittenInv
<1>3. /\ GroupsRight(groups, read) /\ ChildrenRight(children, Len(groups)) /\ read \in Nat
      /\ levels \in Seq(LevelOf(Cases)) /\ levels # <<>> /\ Len(levels) \in Nat \ {0}
      /\ Inner = l /\ l \in LevelOf(Cases) /\ Last(children) = Current
      /\ Current = children[Len(children)] /\ Current \in 1..Len(groups)
      /\ Len(groups) \in Nat /\ Len(children) \in Nat \ {0} /\ groups \in Seq(Group)
  BY Here DEF TypeInv, Current
<1>4. levels' = l2 /\ Cases' = Cases
  BY <1>1, <1>3, ConnectedIs DEF WithLast, Cases
<1>5. /\ Len(g.filters) \in Nat /\ g.type \in Kinds
      /\ g.filters = <<>> => Len(g.filters) = 0
      /\ g.filters # <<>> => Len(g.filters) # 0
      /\ Len(g.filters) > 1 => g.type # "none"
  BY <1>3, GroupOf, EmptySeq DEF GroupsRight
<1>6. PICK at : Placed(levels, children, at) /\ Top(groups, children, Cases, l, at[Len(levels)], "connective")
  BY <1>2, <1>3, TopIs
<1>7. g.filters # <<>>
  <2>1. LevelShape(children, l, Current, groups[children[at[Len(levels)]]], g, "connective")
        /\ (~Two(l) => children[at[Len(levels)]] = Current)
    BY <1>3, <1>6 DEF Top
  <2>2. Len(g.filters) >= 1
    <3>1. CASE Two(l)
      BY <1>5, <2>1, <3>1 DEF LevelShape, Two
    <3>2. CASE ~Two(l)
      <4>1. LevelShape(children, l, Current, g, g, "connective")
        BY <2>1, <3>2
      <4>2. QED
        BY <1>3, <1>5, <3>2, <4>1, SingleShape
    <3>3. QED
      BY <3>1, <3>2
  <2>3. QED
    BY <1>5, <2>2
<1> HIDE DEF l, l2
<1>8. CASE Len(g.filters) = 1
  <2>1. g.type = "none" /\ SemInv(GiveType(groups, Current, t), children, Cases, l2, "operand")
    BY <1>2, <1>3, <1>8, GiveKeeps DEF l, l2
  <2>2. groups' = GiveType(groups, Current, t) /\ UNCHANGED <<children, outcome>>
    BY <1>7, <1>8, <2>1 DEF Connective, GiveType
  <2>3. QED
    BY <1>1, <1>4, <2>1, <2>2
<1>9. CASE Len(g.filters) > 1 /\ g.type = t
  <2>1. SemInv(groups, children, Cases, l2, "operand")
    BY <1>2, <1>3, <1>9, StayKeeps DEF l, l2
  <2>2. UNCHANGED <<groups, children, outcome>>
    <3>1. Len(g.filters) # 1
      BY <1>5, <1>9, More
    <3>2. QED
      BY <1>7, <1>9, <3>1 DEF Connective
  <2>3. QED
    BY <1>1, <1>4, <2>1, <2>2
<1>10. CASE Len(g.filters) > 1 /\ g.type # t
  <2>1. IF t = "AND" THEN OpenAnd ELSE OpenOr
    <3>1. Len(g.filters) # 1
      BY <1>5, <1>10, More
    <3>2. QED
      BY <1>7, <1>10, <3>1 DEF Connective
  <2>2. CASE t = "AND"
    <3>1. g.type = "OR"
      BY <1>5, <1>10, <2>2 DEF Kinds
    <3>2. SemInv(AfterAnd(groups, Current), Append(children, Len(groups) + 1), Cases, l2, "operand")
      BY <1>2, <1>3, <1>10, <2>2, <3>1, AndKeeps DEF l, l2
    <3>3. groups' = AfterAnd(groups, Current) /\ children' = Append(children, Len(groups) + 1) /\ outcome' = outcome
      BY <2>1, <2>2 DEF OpenAnd, AfterAnd, TakenFrom, AndOf
    <3>4. QED
      BY <1>1, <1>4, <3>2, <3>3
  <2>3. CASE t = "OR"
    <3>1. g.type = "AND" /\ OpenOr
      BY <1>5, <1>10, <2>1, <2>3 DEF Kinds
    <3>2. CASE Two(l)
      <4>1. /\ Len(children) > 1 /\ groups[children[Len(children) - 1]].type = "OR"
            /\ SemInv(groups, Front(children), Cases, l2, "operand")
        BY <1>2, <1>3, <2>3, <3>1, <3>2, EndKeeps DEF l, l2
      <4>2. groups[Below].type = "OR"
        BY <4>1 DEF Below
      <4>3. children' = Front(children) /\ UNCHANGED <<groups, outcome>>
        BY <3>1, <4>1, <4>2 DEF OpenOr, EndsAnd
      <4>4. QED
        BY <1>1, <1>4, <4>1, <4>3
    <3>3. CASE ~Two(l)
      <4>1. SemInv(Append(groups, OrOf(Current)), Append(Front(children), Len(groups) + 1), Cases, l2, "operand")
        BY <1>2, <1>3, <2>3, <3>1, <3>3, WrapKeeps DEF l, l2
      <4>2. ~(Len(children) > 1) \/ groups[Below].type = "AND"
        <5>1. /\ Len(levels) = 1 => Len(children) = 1
              /\ Len(levels) > 1 /\ levels[Len(levels) - 1].connective = "AND" =>
                   Len(children) > 1 /\ groups[children[Len(children) - 1]].type = "AND"
          BY <1>2, <1>3, <3>3, BelowIs DEF l
        <5>2. l.connective = "AND" /\ ~l.or
          <6>1. LevelShape(children, l, Current, g, g, "connective")
            BY <1>3, <1>6, <3>3 DEF Top
          <6>2. Len(g.filters) # 1
            BY <1>5, <1>10, More
          <6>3. l.connective = "AND"
            BY <1>3, <1>5, <3>1, <3>3, <6>1, <6>2, SingleShape
          <6>4. QED
            BY <3>3, <6>3 DEF Two
        <5>3. Outside \/ Outer.connective = "AND"
          BY <1>1, <1>3, <2>3, <5>2 DEF Tangles
        <5>4. CASE Outside
          <6>1. Len(children) = 1
            BY <5>1, <5>4 DEF Outside
          <6>2. ~(Len(children) > 1)
            BY ONLY <6>1
          <6>3. QED
            BY <6>2
        <5>5. CASE ~Outside /\ Outer.connective = "AND"
          <6>1. Len(levels) \in Nat /\ Len(levels) # 0 /\ Len(levels) # 1
            BY <1>3, <5>5 DEF Outside
          <6>2. Len(levels) > 1
            BY ONLY <6>1, BeforeLast
          <6>3. levels[Len(levels) - 1].connective = "AND"
            BY <5>5 DEF Outer
          <6>4. groups[children[Len(children) - 1]].type = "AND"
            BY ONLY <5>1, <6>2, <6>3
          <6>5. QED
            BY <6>4 DEF Below
        <5>6. QED
          BY <5>3, <5>4, <5>5
      <4>3. /\ groups' = Append(groups, OrOf(Current)) /\ outcome' = outcome
            /\ children' = Append(Front(children), Len(groups) + 1)
        BY <3>1, <4>2 DEF OpenOr, EndsAnd, OrOf
      <4>4. QED
        BY <1>1, <1>4, <4>1, <4>3
    <3>4. QED
      BY <3>2, <3>3
  <2>4. QED
    BY <2>2, <2>3
<1>11. QED
  BY <1>5, <1>7, <1>8, <1>9, <1>10, Counts

LEMMA EndWritten == ASSUME TypeInv, WrittenInv, End PROVE WrittenInv'
<1> SUFFICES ASSUME ~tangled' PROVE WrittenInv'
  BY DEF WrittenInv
<1> DEFINE b == children[1]
<1>1. /\ conditions' = conditions /\ expected = "connective" /\ expected' = expected /\ outcome = "parsing"
      /\ levels' = levels /\ groups' = groups /\ children' = children /\ ~tangled /\ Outside
      /\ IF groups[b].type = "none" /\ groups[b].filters = <<>> THEN outcome' = "refused"
         ELSE outcome' = "parsed" /\ result' = IF groups[b].type = "none" THEN Unwrapped(b) ELSE -b
  BY DEF End
<1>2. SemInv(groups, children, Cases, levels, "connective")
  BY <1>1 DEF WrittenInv
<1>3. /\ GroupsRight(groups, read) /\ ChildrenRight(children, Len(groups)) /\ read \in Nat
      /\ levels \in Seq(LevelOf(Cases)) /\ levels # <<>> /\ Len(levels) = 1
  BY <1>1, Here DEF TypeInv, Outside
<1>4. PICK at : /\ Placed(levels, children, at)
                /\ Top(groups, children, Cases, levels[Len(levels)], at[Len(levels)], "connective")
  BY <1>2, <1>3, TopIs
<1>5. ~(groups[b].type = "none" /\ groups[b].filters = <<>>)
  <2> DEFINE l  == levels[1]
             gt == groups[Last(children)]
  <2>1. at[1] = 1
    BY <1>4 DEF Placed
  <2>2. l \in LevelOf(Cases) /\ LevelShape(children, l, Last(children), groups[b], gt, "connective")
    BY <1>3, <1>4, <2>1 DEF Top
  <2> HIDE DEF l, gt, b
  <2>4. CASE Two(l)
    BY <2>2, <2>4 DEF LevelShape, Two
  <2>5. CASE ~Two(l) /\ l.connective = "none"
    <3>1. Len(groups[b].filters) = 1
      BY <2>2, <2>5 DEF LevelShape
    <3>2. Len(groups[b].filters) # 0
      BY <3>1
    <3>3. groups[b].filters # <<>>
      BY <3>2
    <3>4. QED
      BY <3>3
  <2>6. CASE ~Two(l) /\ l.connective = "AND"
    BY <2>2, <2>6 DEF LevelShape
  <2>7. CASE ~Two(l) /\ l.connective = "OR"
    BY <2>2, <2>7 DEF LevelShape
  <2>8. QED
    BY <2>2, <2>4, <2>5, <2>6, <2>7, LevelIs DEF Kinds
<1>6. outcome' = "parsed" /\ result' = IF groups[b].type = "none" THEN Unwrapped(b) ELSE -b
  BY <1>1, <1>5
<1>7. /\ Cases' = Cases /\ Outside' /\ Unwrapped(b)' = Unwrapped(b)
  BY <1>1 DEF Cases, Outside, Unwrapped
<1>8. QED
  BY <1>1, <1>2, <1>6, <1>7 DEF WrittenInv

LEMMA StepWritten == ASSUME TypeInv, WrittenInv, [Next]_vars PROVE WrittenInv'
<1>1. CASE UNCHANGED vars
  <2>1. /\ conditions' = conditions /\ levels' = levels /\ expected' = expected /\ result' = result
        /\ groups' = groups /\ children' = children /\ outcome' = outcome /\ tangled' = tangled
    BY <1>1 DEF vars
  <2>2. Cases' = Cases /\ (Outside' <=> Outside) /\ Unwrapped(children[1])' = Unwrapped(children[1])
    BY <2>1 DEF Cases, Outside, Unwrapped
  <2>3. QED
    BY <2>1, <2>2 DEF WrittenInv
<1>2. QED
  BY <1>1, FieldWritten, OpenWritten, CloseWritten, ConnectiveWritten, EndWritten DEF Next

-----------------------------------------------------------------------------
(* The filter. *)

(* What is left of the only group on the stack at the end. *)
Final(gs, k) == IF gs[k].type = "none" THEN Only(gs, k) ELSE -k

LEMMA NothingLeft ==
  ASSUME NEW n \in Nat, NEW ch, ChildrenRight(ch, n), Len(ch) = 1
  PROVE  Front(ch) = <<>> /\ Last(ch) = ch[1]
<1>1. Front(ch) \in Seq(1..n) /\ Len(Front(ch)) = 0
  <2>1. Front(ch) \in Seq(1..n) /\ Len(Front(ch)) = Len(ch) - 1
    BY Popped
  <2>2. QED
    BY <2>1
<1>2. Front(ch) = <<>>
  BY <1>1, EmptySeq
<1>3. QED
  BY <1>2, StackOf

LEMMA EmptyStack == \A k : ~OnStack(<<>>, k)
BY DEF OnStack

LEMMA AllFinished ==
  ASSUME NEW gs, NEW ch, NEW cs, Len(gs) \in Nat, NEW e, Denotes(gs, <<>>, cs, e)
  PROVE  Denotes(gs, ch, cs, e) /\ \A k \in 1..Len(gs) : e[k] = GroupMeans(cs, gs[k], e)
<1>1. Keeps(gs, ch, gs, <<>>)
  BY EmptyStack DEF Keeps, Sinks
<1>2. QED
  BY <1>1, DenotesBack, EmptyStack DEF Denotes

(* The only level is one group. *)
LEMMA SingleFinal ==
  ASSUME NEW r \in Nat, NEW gs, GroupsRight(gs, r), NEW ch, ChildrenRight(ch, Len(gs)),
         NEW cs, NEW ls \in Seq(LevelOf(cs)), Len(ls) = 1, SemInv(gs, ch, cs, ls, "connective"), ~Two(ls[1])
  PROVE  /\ \E e : Denotes(gs, <<>>, cs, e)
         /\ MeantAs(gs, <<>>, cs, Final(gs, ch[1]), Meaning(ls[1]))
<1> DEFINE b == ch[1]
           l == ls[1]
<1>1. ls # <<>> /\ Len(gs) \in Nat
  BY LenProperties DEF GroupsRight
<1>2. PICK at : Placed(ls, ch, at) /\ Top(gs, ch, cs, ls[Len(ls)], at[Len(ls)], "connective")
  BY <1>1, TopIs
<1>3. /\ l \in LevelOf(cs) /\ Len(ch) = 1 /\ b \in 1..Len(gs) /\ Last(ch) = b
      /\ LevelShape(ch, l, b, gs[b], gs[b], "connective")
      /\ \A e : Denotes(gs, ch, cs, e) => LevelMeans(cs, l, gs[b], gs[b], "connective", e)
  <2>1. at[1] = 1
    BY <1>2 DEF Placed
  <2>2. QED
    BY <1>2, <2>1 DEF Top
<1>4. /\ Len(gs[b].filters) \in Nat
      /\ \A i \in 1..Len(gs[b].filters) : Sensible(gs[b].filters[i])
  BY <1>3, MembersOf
<1>5. ~Two(l)
  OBVIOUS
<1>6. /\ AllFrozen(ch, gs[b].filters)
      /\ Len(gs[b].filters) = 1 => gs[b].type = "none"
      /\ Len(gs[b].filters) # 1 => gs[b].type # "none"
  BY <1>3, <1>4, <1>5, SingleShape
<1>7. \E e : Denotes(gs, <<>>, cs, e)
  <2>1. Front(ch) = <<>>
    BY <1>1, <1>3, NothingLeft
  <2>2. AllFrozen(ch, gs[Last(ch)].filters)
    BY <1>3, <1>6
  <2>3. \E e : Denotes(gs, Front(ch), cs, e)
    BY <2>2, PopFreezes DEF SemInv
  <2>4. QED
    BY <2>1, <2>3
<1> HIDE DEF b, l
<1>8. ASSUME NEW e, Denotes(gs, <<>>, cs, e) PROVE Mem(cs, Final(gs, b), e) = Meaning(l)
  <2>1. Denotes(gs, ch, cs, e) /\ e[b] = GroupMeans(cs, gs[b], e)
    BY <1>1, <1>3, <1>8, AllFinished
  <2>2. LevelMeans(cs, l, gs[b], gs[b], "connective", e)
    BY <1>3, <2>1
  <2>3. MembersIn(cs, gs[b].filters, e)
    BY <1>4, <2>1, MemIn DEF MembersIn
  <2>4. /\ Len(gs[b].filters) = 1 => Meaning(l) = Mem(cs, gs[b].filters[1], e)
        /\ Len(gs[b].filters) # 1 => Meaning(l) = GroupMeans(cs, gs[b], e)
    BY <1>3, <1>4, <1>5, <2>2, <2>3, SingleMeans
  <2>5. ~(-b > 0) /\ -(-b) = b
    BY <1>1, <1>3
  <2>6. QED
    BY <1>6, <2>1, <2>4, <2>5 DEF Final, Only, Mem
<1>9. QED
  BY <1>7, <1>8 DEF MeantAs, b, l

(* The only level is the AND of an OR: the string ends as it would go on. *)
LEMMA TwoFinal ==
  ASSUME NEW r \in Nat, NEW gs, GroupsRight(gs, r), NEW ch, ChildrenRight(ch, Len(gs)),
         NEW cs, NEW ls \in Seq(LevelOf(cs)), Len(ls) = 1, SemInv(gs, ch, cs, ls, "connective"), Two(ls[1])
  PROVE  /\ \E e : Denotes(gs, <<>>, cs, e)
         /\ MeantAs(gs, <<>>, cs, Final(gs, ch[1]), Meaning(ls[1]))
<1> DEFINE b   == ch[1]
           l   == ls[1]
           j   == Joined(l, "OR")
           ls2 == WithLast(ls, j)
           st  == Front(ch)
<1>1. ls # <<>> /\ Len(gs) \in Nat
  BY LenProperties DEF GroupsRight
<1>2. PICK at : Placed(ls, ch, at) /\ Top(gs, ch, cs, ls[Len(ls)], at[Len(ls)], "connective")
  BY <1>1, TopIs
<1>3. l \in LevelOf(cs) /\ Len(ch) = 2 /\ gs[Last(ch)].type = "AND"
  <2>1. at[1] = 1
    BY <1>2 DEF Placed
  <2>2. /\ l \in LevelOf(cs) /\ Len(ch) \in Nat \ {0} /\ 1 = Len(ch) - 1
        /\ LevelShape(ch, l, Last(ch), gs[b], gs[Last(ch)], "connective")
    BY <1>2, <2>1 DEF Top
  <2>3. gs[Last(ch)].type = "AND"
    BY <2>2 DEF LevelShape, Two
  <2>4. QED
    BY <2>2, <2>3
<1>4. SemInv(gs, st, cs, ls2, "operand")
  BY <1>1, <1>3, EndKeeps
<1>5. j \in LevelOf(cs) /\ ~Two(j) /\ Meaning(j) = Meaning(l) /\ j.connective = "OR"
  BY <1>3, JoinedOf, JoinIs
<1>6. ls2 \in Seq(LevelOf(cs)) /\ Len(ls2) = 1 /\ ls2[1] = j /\ ls2 # <<>>
  <2>1. 1 \in 1..Len(ls)
    OBVIOUS
  <2> HIDE DEF j
  <2>2. QED
    BY <1>5, <2>1, ExceptOf DEF WithLast
<1>7. /\ Len(st) = 1 /\ st[1] = b /\ ChildrenRight(st, Len(gs))
  <2>1. /\ st \in Seq(1..Len(gs)) /\ Len(st) = Len(ch) - 1 /\ \A i \in 1..Len(ch) - 1 : st[i] = ch[i]
        /\ \A x, y \in 1..Len(ch) - 1 : st[x] = st[y] => x = y
    BY <1>1, Popped
  <2>2. Len(ch) - 1 = 1 /\ 1 \in 1..1
    BY <1>3
  <2>3. Len(st) = 1 /\ st[1] = b
    BY <2>1, <2>2
  <2>4. st # <<>>
    <3>1. Len(st) # 0
      BY <2>3
    <3>2. QED
      BY <3>1
  <2>5. QED
    BY <2>1, <2>2, <2>3, <2>4 DEF ChildrenRight
<1> HIDE DEF l, j, ls2, st, b
<1>8. PICK at2 : Placed(ls2, st, at2) /\ Top(gs, st, cs, ls2[Len(ls2)], at2[Len(ls2)], "operand")
  BY <1>4, <1>6, <1>7, TopIs
<1>9. /\ b \in 1..Len(gs) /\ Last(st) = b
      /\ LevelShape(st, j, b, gs[b], gs[b], "operand")
      /\ \A e : Denotes(gs, st, cs, e) => LevelMeans(cs, j, gs[b], gs[b], "operand", e)
  <2>1. at2[1] = 1
    BY <1>8 DEF Placed
  <2>2. QED
    BY <1>5, <1>6, <1>7, <1>8, <2>1 DEF Top
<1>10. gs[b].type = "OR" /\ AllFrozen(st, gs[b].filters)
  BY <1>5, <1>9 DEF LevelShape, AllFrozen
<1>11. \E e : Denotes(gs, <<>>, cs, e)
  <2>1. Front(st) = <<>>
    BY <1>1, <1>7, NothingLeft
  <2>2. AllFrozen(st, gs[Last(st)].filters)
    BY <1>9, <1>10
  <2>3. \E e : Denotes(gs, Front(st), cs, e)
    BY <1>4, <1>7, <2>2, PopFreezes DEF SemInv
  <2>4. QED
    BY <2>1, <2>3
<1>12. ASSUME NEW e, Denotes(gs, <<>>, cs, e) PROVE Mem(cs, Final(gs, b), e) = Meaning(l)
  <2>1. Denotes(gs, st, cs, e) /\ e[b] = GroupMeans(cs, gs[b], e)
    BY <1>1, <1>9, <1>12, AllFinished
  <2>2. LevelMeans(cs, j, gs[b], gs[b], "operand", e)
    BY <1>9, <2>1
  <2>3. Meaning(l) = Some(cs, gs[b].filters, Len(gs[b].filters), e)
    BY <1>5, <2>2 DEF LevelMeans
  <2>4. ~(-b > 0) /\ -(-b) = b
    BY <1>1, <1>9
  <2>5. QED
    BY <1>10, <2>1, <2>3, <2>4 DEF Final, Mem, GroupMeans
<1>13. QED
  BY <1>11, <1>12 DEF MeantAs, b, l

(* What OfMember and OfGroup say of members and groups. *)
LEMMA OfMemberIs ==
  ASSUME NEW m, NEW e PROVE OfMember(m, e) = Mem(Cases, m, e)
BY DEF OfMember, Mem, Holds

SameOn(gs, e, e2) == \A k \in 1..Len(gs) : e2[k] = e[k]

LEMMA OfGroupIs ==
  ASSUME NEW r \in Nat, NEW gs, GroupsRight(gs, r), NEW k \in 1..Len(gs), NEW e, NEW e2, SameOn(gs, e, e2)
  PROVE  OfGroup(gs[k], e2) = GroupMeans(Cases, gs[k], e)
<1> DEFINE f == gs[k].filters
<1>1. /\ Len(f) \in Nat /\ DOMAIN f = 1..Len(f)
      /\ \A i \in 1..Len(f) : Member(f[i], k, Len(gs), r)
  BY MembersOf, LenProperties
<1>2. \A i \in 1..Len(f) : OfMember(f[i], e2) = Mem(Cases, f[i], e)
  <2> SUFFICES ASSUME NEW i \in 1..Len(f) PROVE Mem(Cases, f[i], e2) = Mem(Cases, f[i], e)
    BY OfMemberIs
  <2>1. Member(f[i], k, Len(gs), r)
    BY <1>1
  <2>2. f[i] > 0 \/ -f[i] \in 1..Len(gs)
    BY <2>1 DEF Member
  <2>3. QED
    BY <2>2 DEF Mem, SameOn
<1>3. Range(f) = {f[i] : i \in 1..Len(f)}
  BY <1>1 DEF Range
<1> HIDE DEF f
<1>4. CASE gs[k].type = "AND"
  <2>1. OfGroup(gs[k], e2) = {c \in Cases : \A m \in Range(f) : c \in OfMember(m, e2)}
    BY <1>4 DEF OfGroup, f
  <2>2. GroupMeans(Cases, gs[k], e) = {c \in Cases : \A i \in 1..Len(f) : c \in Mem(Cases, f[i], e)}
    BY <1>4 DEF GroupMeans, All, f
  <2>3. QED
    BY <1>2, <1>3, <2>1, <2>2
<1>5. CASE gs[k].type # "AND"
  <2>1. OfGroup(gs[k], e2) = {c \in Cases : \E m \in Range(f) : c \in OfMember(m, e2)}
    BY <1>5 DEF OfGroup, f
  <2>2. GroupMeans(Cases, gs[k], e) = {c \in Cases : \E i \in 1..Len(f) : c \in Mem(Cases, f[i], e)}
    BY <1>5 DEF GroupMeans, Some, f
  <2>3. QED
    BY <1>2, <1>3, <2>1, <2>2
<1>6. QED
  BY <1>4, <1>5

(* The recursive definition of Meanings has a solution if there are meanings at
   all, and any solution is one of those. *)
LEMMA FixedPoint ==
  ASSUME NEW d, d = [k \in DOMAIN groups |-> OfGroup(groups[k], d)]
  PROVE  Meanings = [k \in DOMAIN groups |-> OfGroup(groups[k], Meanings)]
BY DEF Meanings

LEMMA MeaningsAre ==
  ASSUME TypeInv, \E e : Denotes(groups, <<>>, Cases, e)
  PROVE  \E e : Denotes(groups, <<>>, Cases, e) /\ SameOn(groups, e, Meanings)
<1>1. GroupsRight(groups, read) /\ read \in Nat /\ Len(groups) \in Nat /\ DOMAIN groups = 1..Len(groups)
  BY Here DEF TypeInv
<1>2. PICK e : Denotes(groups, <<>>, Cases, e)
  OBVIOUS
<1> DEFINE d == [k \in DOMAIN groups |-> e[k]]
<1>3. SameOn(groups, e, d)
  BY <1>1 DEF SameOn
<1>4. \A k \in 1..Len(groups) : e[k] = GroupMeans(Cases, groups[k], e)
  BY <1>1, <1>2, AllFinished
<1>5. d = [k \in DOMAIN groups |-> OfGroup(groups[k], d)]
  <2> HIDE DEF d
  <2>1. \A k \in DOMAIN groups : OfGroup(groups[k], d) = e[k]
    BY <1>1, <1>3, <1>4, OfGroupIs
  <2>2. [k \in DOMAIN groups |-> OfGroup(groups[k], d)] = [k \in DOMAIN groups |-> e[k]]
    BY <2>1
  <2>3. QED
    BY <2>2 DEF d
<1> HIDE DEF d
<1>6. Meanings = [k \in DOMAIN groups |-> OfGroup(groups[k], Meanings)]
  BY <1>5, FixedPoint
<1> DEFINE e2 == [k \in Nat |-> IF k \in DOMAIN groups THEN Meanings[k] ELSE {}]
<1>7. \A k \in 1..Len(groups) : Meanings[k] = OfGroup(groups[k], Meanings)
  BY <1>1, <1>6
<1>8. SameOn(groups, e2, Meanings)
  BY <1>1 DEF SameOn
<1>9. \A k \in DOMAIN groups : Meanings[k] \in SUBSET Cases
  <2>1. \A g, x : OfGroup(g, x) \in SUBSET Cases
    BY DEF OfGroup
  <2>2. QED
    BY <1>1, <1>7, <2>1
<1>10. e2 \in [Nat -> SUBSET Cases] /\ \A k \in 1..Len(groups) : e2[k] = Meanings[k]
  BY <1>1, <1>9
<1> HIDE DEF e2
<1>11. \A k \in 1..Len(groups) : e2[k] = GroupMeans(Cases, groups[k], e2)
  BY <1>1, <1>7, <1>8, <1>10, OfGroupIs
<1>12. Denotes(groups, <<>>, Cases, e2)
  BY <1>10, <1>11 DEF Denotes
<1>13. QED
  BY <1>8, <1>12

(* ParsedAsWritten: the constructor of JsonFilter makes of a string, whatever its
   conditions and however deep its parentheses, a filter that means what the
   string says with AND before OR; no string is refused, except those whose
   parentheses are tangled. *)
THEOREM FiltersMeanTheirStrings == Spec => []ParsedAsWritten
<1>1. Spec => [](TypeInv /\ WrittenInv)
  <2>1. Init => TypeInv /\ WrittenInv
    BY InitTypes, InitWritten
  <2>2. TypeInv /\ WrittenInv /\ [Next]_vars => TypeInv' /\ WrittenInv'
    BY StepTypes, StepWritten
  <2>3. QED
    BY <2>1, <2>2, PTL DEF Spec
<1>2. TypeInv /\ WrittenInv => ParsedAsWritten
  <2> SUFFICES ASSUME TypeInv, WrittenInv, outcome # "parsing", ~tangled
               PROVE  outcome = "parsed" /\ MeaningOf(result) = Meaning(levels[1])
    BY DEF ParsedAsWritten
  <2>1. outcome = "parsed"
    BY DEF TypeInv, WrittenInv
  <2>2. /\ SemInv(groups, children, Cases, levels, "connective") /\ Len(levels) = 1
        /\ result = Final(groups, children[1])
    <3>1. /\ SemInv(groups, children, Cases, levels, "connective") /\ Outside
          /\ result = IF groups[children[1]].type = "none" THEN Unwrapped(children[1]) ELSE -children[1]
      BY <2>1 DEF WrittenInv
    <3>2. QED
      BY <3>1 DEF Outside, Final, Only, Unwrapped
  <2>3. /\ GroupsRight(groups, read) /\ ChildrenRight(children, Len(groups)) /\ read \in Nat
        /\ levels \in Seq(LevelOf(Cases)) /\ Len(groups) \in Nat
    BY Here DEF TypeInv
  <2>4. /\ \E e : Denotes(groups, <<>>, Cases, e)
        /\ MeantAs(groups, <<>>, Cases, result, Meaning(levels[1]))
    <3>1. CASE Two(levels[1])
      BY <2>2, <2>3, <3>1, TwoFinal
    <3>2. CASE ~Two(levels[1])
      BY <2>2, <2>3, <3>2, SingleFinal
    <3>3. QED
      BY <3>1, <3>2
  <2>5. PICK e : Denotes(groups, <<>>, Cases, e) /\ SameOn(groups, e, Meanings)
    BY <2>4, MeaningsAre
  <2>6. Mem(Cases, result, e) = Meaning(levels[1])
    BY <2>4, <2>5 DEF MeantAs
  <2>7. Mem(Cases, result, Meanings) = Mem(Cases, result, e)
    <3>1. result > 0 \/ -result \in 1..Len(groups)
      <4> DEFINE b == children[1]
      <4>1. b \in 1..Len(groups) /\ -(-b) = b
        BY <2>3, StackOf
      <4>2. CASE result = -b
        BY <4>1, <4>2
      <4>3. CASE result # -b
        <5>1. Len(groups[b].filters) = 1 /\ result = groups[b].filters[1]
          BY <2>2, <4>3 DEF Final, Only
        <5>2. Member(groups[b].filters[1], b, Len(groups), read)
          <6>1. 1 \in 1..Len(groups[b].filters)
            BY <5>1
          <6>2. QED
            BY <2>3, <4>1, <6>1, MembersOf
        <5>3. QED
          BY <2>3, <5>1, <5>2 DEF Member
      <4>4. QED
        BY <4>2, <4>3
    <3>2. QED
      BY <2>5, <3>1 DEF Mem, SameOn
  <2>8. QED
    BY <2>1, <2>6, <2>7, OfMemberIs DEF MeaningOf
<1>3. QED
  BY <1>1, <1>2, PTL
=============================================================================
