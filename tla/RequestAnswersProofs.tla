------------------------- MODULE RequestAnswersProofs -------------------------
(***************************************************************************)
(* Proofs about what requests do and are told, for any requests, threads,  *)
(* connections, failures and restarts: the type invariant of Requests, the *)
(* keys an answer names, what is stored, and what a request that fails has *)
(* changed.                                                                *)
(*                                                                         *)
(* Own is the part of the inductive invariant that only the thread itself  *)
(* can disturb; it holds of the record of a thread, and there is a lemma   *)
(* for each record that a step makes of it.  So has KeysInv; LastInv       *)
(* relates a thread to the next key of the table it inserts into, TaintInv *)
(* to the connections that were spoiled.                                   *)
(***************************************************************************)
EXTENDS RequestsProofs, WellFoundedInduction

-----------------------------------------------------------------------------
(* The least and the greatest of a set, and positions in it. *)

LEMMA Least ==
  ASSUME NEW T, T \subseteq Nat, T # {} PROVE \E x \in T : \A y \in T : x <= y
<1>1. PICK x \in T : \A y \in T : ~(<<y, x>> \in OpToRel(<, Nat))
  BY NatLessThanWellFounded, WFMin
<1>2. \A y \in T : ~(y < x)
  BY <1>1 DEF OpToRel
<1>3. QED
  BY <1>2

LEMMA MinOf ==
  ASSUME NEW T, T \subseteq Nat, T # {} PROVE Min(T) \in T /\ \A y \in T : Min(T) <= y
BY Least DEF Min

(* By the least size of a set without a greatest element. *)
LEMMA Greatest ==
  ASSUME NEW T, T \subseteq Int, T # {}, IsFiniteSet(T) PROVE \E x \in T : \A y \in T : y <= x
<1> DEFINE Has(S) == \E x \in S : \A y \in S : y <= x
           sizes  == {n \in Nat : \E S \in SUBSET T : S # {} /\ Cardinality(S) = n /\ ~Has(S)}
<1>1. SUFFICES ASSUME ~Has(T) PROVE FALSE
  OBVIOUS
<1>2. Cardinality(T) \in sizes
  BY <1>1, FS_CardinalityType
<1>3. PICK n \in sizes : \A m \in sizes : n <= m
  <2> HIDE DEF sizes
  <2>1. sizes \subseteq Nat
    BY DEF sizes
  <2>2. QED
    BY <1>2, <2>1, Least
<1>4. PICK S \in SUBSET T : S # {} /\ Cardinality(S) = n /\ ~Has(S)
  BY <1>3
<1>5. PICK x : x \in S
  BY <1>4
<1>6. IsFiniteSet(S) /\ IsFiniteSet(S \ {x}) /\ Cardinality(S \ {x}) = n - 1
  BY <1>4, <1>5, FS_Subset, FS_RemoveElement
<1>7. n - 1 \in Nat
  BY <1>6, FS_CardinalityType
<1>8. S \ {x} # {}
  <2>1. SUFFICES ASSUME S = {x} PROVE FALSE
    BY <1>5
  <2>2. x \in Int /\ Has({x})
    BY <1>5
  <2>3. QED
    BY <1>4, <2>1, <2>2
<1>9. Has(S \ {x})
  <2>1. n - 1 \notin sizes
    BY <1>3, <1>7
  <2>2. S \ {x} \in SUBSET T
    BY <1>4
  <2>3. QED
    BY <1>6, <1>7, <1>8, <2>1, <2>2
<1>10. PICK m \in S \ {x} : \A y \in S \ {x} : y <= m
  BY <1>9
<1>11. m \in Int /\ x \in Int /\ S \subseteq Int
  BY <1>5, <1>10
<1>12. CASE x <= m
  BY <1>4, <1>10, <1>11, <1>12
<1>13. CASE ~(x <= m)
  <2>1. \A y \in S : y <= x
    BY <1>10, <1>11, <1>13
  <2>2. QED
    BY <1>4, <1>5, <2>1
<1>14. QED
  BY <1>12, <1>13

LEMMA MaxOf ==
  ASSUME NEW T, T \subseteq Int, T # {}, IsFiniteSet(T) PROVE Max(T) \in T /\ \A y \in T : y <= Max(T)
BY Greatest DEF Max

LEMMA FiniteImage ==
  ASSUME NEW S, IsFiniteSet(S), NEW f PROVE IsFiniteSet({f[i] : i \in S})
<1> DEFINE T == {f[i] : i \in S}
           h == [i \in S |-> f[i]]
<1>1. h \in Surjection(S, T)
  BY DEF Surjection
<1>2. QED
  BY <1>1, FS_Surjection

(* The elements before one of a finite set. *)
LEMMA Preceding ==
  ASSUME NEW g, g \subseteq Nat, IsFiniteSet(g)
  PROVE  /\ Cardinality(g) \in Nat
         /\ \A i \in g : Cardinality({j \in g : j < i}) \in 0 .. Cardinality(g) - 1
         /\ g # {} => \E i \in g : Cardinality({j \in g : j < i}) = Cardinality(g) - 1
<1>1. Cardinality(g) \in Nat
  BY FS_CardinalityType
<1>2. ASSUME NEW i \in g PROVE Cardinality({j \in g : j < i}) \in 0 .. Cardinality(g) - 1
  <2>1. {j \in g : j < i} \subseteq g \ {i}
    BY <1>2
  <2>2. IsFiniteSet(g \ {i}) /\ Cardinality(g \ {i}) = Cardinality(g) - 1
    BY FS_RemoveElement
  <2> DEFINE before == {j \in g : j < i}
  <2>3. IsFiniteSet(before) /\ Cardinality(before) <= Cardinality(g \ {i})
    <3> HIDE DEF before
    <3>1. QED
      BY <2>1, <2>2, FS_Subset DEF before
  <2>4. Cardinality(before) \in Nat
    BY <2>3, FS_CardinalityType
  <2>5. QED
    <3> HIDE DEF before
    <3>1. Cardinality(before) \in 0 .. Cardinality(g) - 1
      BY <1>1, <2>2, <2>3, <2>4
    <3>2. QED
      BY <3>1 DEF before
<1>3. ASSUME g # {} PROVE \E i \in g : Cardinality({j \in g : j < i}) = Cardinality(g) - 1
  <2>1. g \subseteq Int
    OBVIOUS
  <2>2. PICK i \in g : \A y \in g : y <= i
    BY <1>3, <2>1, Greatest
  <2>3. ASSUME NEW j \in g PROVE j < i <=> j # i
    <3>1. j \in Nat /\ i \in Nat /\ j <= i
      BY <2>2, <2>3
    <3>2. QED
      BY <3>1
  <2>4. {j \in g : j < i} = g \ {i}
    BY <2>3
  <2>5. QED
    BY <2>2, <2>4, FS_RemoveElement
<1>4. QED
  BY <1>1, <1>2, <1>3

-----------------------------------------------------------------------------
(* The inductive invariant. *)

Fields == {"at", "op", "asked", "objects", "left", "turns", "of", "known", "groups", "group", "held",
           "mine", "kept", "changed", "raced", "blind", "tainted", "answer"}

(* The types of what a thread keeps. *)
AskedInv(r) ==
  /\ r.op \in {"create", "update", "remove"}
  /\ DOMAIN r.asked \subseteq Nat /\ IsFiniteSet(DOMAIN r.asked)
  /\ \A i \in DOMAIN r.asked : r.asked[i] \in Json

ObjectsInv(r) ==
  /\ DOMAIN r.objects = DOMAIN r.asked
  /\ \A i \in DOMAIN r.asked : r.objects[i] \in Entity /\ r.objects[i].of = r.asked[i].of

ResultsInv(r) ==
  /\ DOMAIN r.mine = DOMAIN r.asked /\ \A i \in DOMAIN r.asked : r.mine[i] \in Int
  /\ DOMAIN r.kept = DOMAIN r.asked
  /\ \A i \in DOMAIN r.asked : r.kept[i] \in {"nothing", "absent", "fit", "cut"}

RestInv(r) ==
  /\ r.answer \in {"none", "ok", "error", "thrown"}
  /\ r.left \subseteq DOMAIN r.asked /\ (r.at \in {"make", "check"} => r.left # {})
  /\ \A n \in r.turns : \E i \in DOMAIN r.asked : r.asked[i].of = n
  /\ \A g \in r.groups \cup {r.group} : g \subseteq DOMAIN r.asked
  /\ r.at = "idle" => r.groups = {}
  /\ r.known \in BOOLEAN /\ r.changed \in BOOLEAN /\ r.raced \in BOOLEAN
  /\ r.blind \in BOOLEAN /\ r.tainted \in BOOLEAN

RecordInv(r) ==
  /\ Fields \subseteq DOMAIN r /\ r.at \in Before \cup Holding
  /\ AskedInv(r) /\ ObjectsInv(r) /\ ResultsInv(r) /\ RestInv(r)

(* Which statements are those of which operation; before the first one nothing
   is kept or changed, and no key replaced. *)
PlaceInv(r) ==
  /\ r.at \in {"insert", "keys"} => r.op = "create"
  /\ r.at \in {"update", "reload"} => r.op = "update"
  /\ r.at \in {"look", "delete"} => r.op = "remove"
  /\ r.at \in Holding \ {"turn"} => r.of \in Names
  /\ r.at \in Before => r.changed = FALSE /\ \A i \in DOMAIN r.asked :
                       r.kept[i] = "nothing" /\ r.objects[i].key = r.asked[i].key

(* The objects of a group are all with the text or all without, unless the
   group is all there are of the entity. *)
Uniform(r, g) ==
  \/ server = "PostgreSQL" /\ r.op = "create" /\ g = Of(r, r.of)
  \/ \A i, j \in g : r.objects[i].text = "absent" <=> r.objects[j].text = "absent"

Grouping(r) == r.at \in {"insert", "keys", "update", "reload"}

GroupsInv(r) ==
  Grouping(r) =>
    /\ \A g \in r.groups : g # {} /\ g \subseteq Of(r, r.of)
    /\ \A g, h \in r.groups : g = h \/ g \cap h = {}
    /\ r.blind = FALSE => \A g \in r.groups : Uniform(r, g)
    /\ r.at = "keys" => /\ r.group # {} /\ r.group \subseteq Of(r, r.of)
                        /\ \A g \in r.groups : g \cap r.group = {}

(* Keys are replaced only in requests that ask for some; texts never are. *)
Negative(r) == \E j \in DOMAIN r.asked : r.asked[j].key < 0

(* The objects that are still bare. *)
Unmade(r, i) == r.at = "make" /\ i \in r.left

MadeInv(r) ==
  /\ r.at = "keys" => Negative(r)
  /\ \A i \in DOMAIN r.asked : r.objects[i].key = r.asked[i].key \/ (r.op = "create" /\ Negative(r))
  /\ r.blind = FALSE => r.known = TRUE /\ \A i \in DOMAIN r.asked :
                                        Unmade(r, i) \/ r.objects[i].text = r.asked[i].text

KeptInv(r) == r.blind = FALSE => \A i \in DOMAIN r.asked : KeptAsAsked(r, i)

(* Requests that come to one statement. *)
Single(r) == ~Several(r) /\ ~Torn(r)

(* They have changed something only after that one. *)
OnceInv(r) ==
  Single(r) =>
    /\ r.at \in Holding \ {"turn"} => r.turns = {}
    /\ r.at = "insert" => \A g \in r.groups : g = Of(r, r.of) /\ r.changed = FALSE
    /\ r.changed # FALSE => r.at \in {"insert", "turn"} /\ r.turns = {}

Own(r) == RecordInv(r) /\ PlaceInv(r) /\ GroupsInv(r) /\ MadeInv(r) /\ KeptInv(r) /\ OnceInv(r)

(* The objects whose rows are still to be inserted. *)
Pending(r, i) ==
  \/ r.asked[i].of \in r.turns
  \/ r.at \in {"insert", "keys"} /\ i \in UNION r.groups
  \/ r.at = "keys" /\ i \in r.group

(* The others have the keys of their rows. *)
KeysInv(r) ==
  r.op = "create" /\ r.blind = FALSE /\ r.raced = FALSE =>
    /\ \A i \in DOMAIN r.asked : Unmade(r, i) \/ r.objects[i].id = (r.objects[i].key >= 0)
    /\ r.at \in Holding => \A i \in DOMAIN r.asked : Pending(r, i) \/ r.objects[i].key = r.mine[i]

(* The rows of the last group have the last keys the table generated, if "after"
   is the next one. *)
LastInv(r, after) ==
  r.at = "keys" /\ r.blind = FALSE /\ r.raced = FALSE =>
    \A i \in r.group :
      /\ r.mine[i] >= 0
      /\ r.mine[i] = after - Cardinality(r.group) + Cardinality({j \in r.group : j < i})

TaintInv(r) == r.tainted = FALSE => r.held \cap spoiled = {}

TablesInv == rows \in [Names -> SUBSET Row] /\ next \in [Names -> Nat \ {0}]

ApartInv ==
  /\ \A t, u \in Threads : t # u => thread[t].held \cap thread[u].held = {}
  /\ \A t \in Threads : thread[t].held \cap own = {}

Right(t) ==
  /\ Own(thread[t]) /\ KeysInv(thread[t]) /\ TaintInv(thread[t])
  /\ LastInv(thread[t], next[thread[t].of])

ThreadsRight == ApartInv /\ \A t \in Threads : Right(t)

AnswersInv ==
  /\ server \in {"MySQL", "PostgreSQL"}
  /\ HeldInv /\ OwnInv /\ PoolRestored /\ TablesInv /\ spoiled \subseteq Connections
  /\ ThreadsRight

-----------------------------------------------------------------------------
(* The record of a thread that has answered, or was raced. *)

LEMMA IdleOwn ==
  ASSUME NEW a \in {"none", "ok", "error", "thrown"} PROVE Own([Idle EXCEPT !.answer = a])
<1> DEFINE r == [Idle EXCEPT !.answer = a]
<1>1. /\ Fields \subseteq DOMAIN r /\ r.at = "idle" /\ r.op = "create" /\ r.asked = <<>> /\ r.objects = <<>>
      /\ r.left = {} /\ r.turns = {} /\ r.known = TRUE /\ r.groups = {} /\ r.group = {}
      /\ r.mine = <<>> /\ r.kept = <<>>
      /\ r.changed = FALSE /\ r.raced = FALSE /\ r.blind = FALSE /\ r.tainted = FALSE /\ r.answer = a
  BY DEF Idle, Fields
<1>2. DOMAIN r.asked = {} /\ DOMAIN r.objects = {} /\ DOMAIN r.mine = {} /\ DOMAIN r.kept = {}
  BY <1>1
<1> HIDE DEF r
<1>3. AskedInv(r) /\ ObjectsInv(r) /\ ResultsInv(r) /\ RestInv(r)
  BY <1>1, <1>2, FS_EmptySet DEF AskedInv, ObjectsInv, ResultsInv, RestInv
<1>4. RecordInv(r)
  BY <1>1, <1>3 DEF RecordInv, Before, Holding
<1>5. PlaceInv(r) /\ GroupsInv(r)
  BY <1>1, <1>2 DEF PlaceInv, GroupsInv, Grouping, Before, Holding
<1>6. MadeInv(r) /\ KeptInv(r) /\ OnceInv(r)
  BY <1>1, <1>2 DEF MadeInv, KeptInv, OnceInv, Holding
<1>7. QED
  BY <1>4, <1>5, <1>6 DEF Own, r

(* What Own says of a record but for its place and its groups, it says of
   another with the same request, results and history. *)
SameRequest(r, s) ==
  /\ s.op = r.op /\ s.asked = r.asked /\ s.objects = r.objects /\ s.mine = r.mine /\ s.kept = r.kept

LEMMA SameMeaning ==
  ASSUME NEW r, NEW s, SameRequest(r, s)
  PROVE  /\ \A n : Of(s, n) = Of(r, n)
         /\ Several(s) <=> Several(r)
         /\ Single(s) <=> Single(r)
         /\ Negative(s) <=> Negative(r)
         /\ \A i, j : Alike(s, i, j) <=> Alike(r, i, j)
         /\ \A i : FirstWithout(s, i) = FirstWithout(r, i)
         /\ AskedInv(s) <=> AskedInv(r)
         /\ ObjectsInv(s) <=> ObjectsInv(r)
         /\ ResultsInv(s) <=> ResultsInv(r)
BY DEF SameRequest, Of, Several, Single, Torn, Negative, Alike, FirstWithout, AskedInv, ObjectsInv, ResultsInv

LEMMA SameKept ==
  ASSUME NEW r, NEW s, SameRequest(r, s), s.tainted = r.tainted
  PROVE  \A i : KeptAsAsked(s, i) <=> KeptAsAsked(r, i)
BY SameMeaning DEF SameRequest, KeptAsAsked, SameRow

LEMMA RacedOwn ==
  ASSUME NEW r, Own(r) PROVE Own([r EXCEPT !.raced = TRUE])
<1> DEFINE s == [r EXCEPT !.raced = TRUE]
<1>1. /\ Fields \subseteq DOMAIN s
      /\ s.at = r.at /\ s.turns = r.turns /\ s.of = r.of /\ s.known = r.known /\ s.groups = r.groups
      /\ s.group = r.group /\ s.changed = r.changed /\ s.blind = r.blind /\ s.tainted = r.tainted
      /\ s.answer = r.answer /\ s.left = r.left /\ s.raced = TRUE
  BY DEF Own, RecordInv, Fields
<1>2. SameRequest(r, s)
  BY DEF Own, RecordInv, Fields, SameRequest
<1> HIDE DEF s
<1>3. RecordInv(s)
  BY <1>1, <1>2, SameMeaning, ZenonT(60) DEF Own, RecordInv, RestInv, SameRequest
<1>4. PlaceInv(s)
  BY <1>1, <1>2 DEF Own, PlaceInv, SameRequest
<1>5. GroupsInv(s)
  BY <1>1, <1>2, SameMeaning DEF Own, GroupsInv, Grouping, Uniform, SameRequest
<1>6. MadeInv(s)
  BY <1>1, <1>2, SameMeaning DEF Own, MadeInv, Unmade, SameRequest
<1>7. KeptInv(s)
  BY <1>1, <1>2, SameKept DEF Own, KeptInv, SameRequest
<1>8. OnceInv(s)
  <2>1. SUFFICES ASSUME Single(s)
                 PROVE  /\ s.at \in Holding \ {"turn"} => s.turns = {}
                        /\ s.at = "insert" => \A g \in s.groups : g = Of(s, s.of) /\ s.changed = FALSE
                        /\ s.changed # FALSE => s.at \in {"insert", "turn"} /\ s.turns = {}
    BY DEF OnceInv
  <2>2. Single(r)
    BY <1>2, <2>1, SameMeaning
  <2>3. \A n : Of(s, n) = Of(r, n)
    BY <1>2, SameMeaning
  <2>4. QED
    BY <1>1, <2>2, <2>3 DEF Own, OnceInv
<1>9. QED
  BY <1>3, <1>4, <1>5, <1>6, <1>7, <1>8 DEF Own, s

-----------------------------------------------------------------------------
(* Receive. *)

LEMMA MadeType ==
  ASSUME NEW j \in Json, ~Wrong(j) PROVE Made(j) \in Entity /\ Made(j).of = j.of /\ Made(j).key = j.key
BY DEF Made, Bare, Wrong, Json, Entity, Texts

LEMMA BareType ==
  ASSUME NEW j \in Json PROVE Bare(j) \in Entity /\ Bare(j).of = j.of /\ Bare(j).key = j.key
BY DEF Bare, Json, Entity

LEMMA MadeValues ==
  ASSUME NEW j
  PROVE  /\ Known(j.of) => Made(j).id = (j.key >= 0) /\ Made(j).text = j.text
         /\ ~Known(j.of) => Made(j).id = FALSE /\ Made(j).text = "absent"
BY DEF Made, Bare

LEMMA AskedType ==
  ASSUME NEW q \in Requests
  PROVE  /\ DOMAIN Asked(q) \subseteq Nat /\ IsFiniteSet(DOMAIN Asked(q))
         /\ \A i \in DOMAIN Asked(q) : Asked(q)[i] \in Json
         /\ q.op \in {"create", "update", "remove"}
<1>1. q.op \in {"create", "update", "remove"} /\ q.objects \in Seq(Json)
  BY RequestsAssumption
<1>2. DOMAIN q.objects = 1 .. Len(q.objects) /\ Len(q.objects) \in Nat
  BY <1>1
<1>3. \A i \in DOMAIN q.objects : q.objects[i] \in Json
  BY <1>1
<1>4. DOMAIN Asked(q) \subseteq DOMAIN q.objects
  BY DEF Asked
<1>5. IsFiniteSet(DOMAIN q.objects)
  BY <1>2, FS_Interval
<1>6. \A i \in DOMAIN Asked(q) : Asked(q)[i] = q.objects[i]
  BY DEF Asked
<1>7. DOMAIN q.objects \subseteq Nat
  BY <1>2
<1>8. QED
  BY <1>1, <1>3, <1>4, <1>5, <1>6, <1>7, FS_Subset

Received(q) ==
  [Idle EXCEPT !.at = IF DOMAIN Asked(q) = {} THEN "take" ELSE "make",
     !.op = q.op, !.asked = Asked(q), !.left = DOMAIN Asked(q),
     !.objects = [i \in DOMAIN Asked(q) |-> Bare(Asked(q)[i])],
     !.mine = [i \in DOMAIN Asked(q) |-> -1],
     !.kept = [i \in DOMAIN Asked(q) |-> "nothing"]]

LEMMA ReceivedFields ==
  ASSUME NEW q \in Requests
  PROVE  LET r == Received(q) IN
         /\ Fields \subseteq DOMAIN r /\ r.op = q.op /\ r.asked = Asked(q) /\ r.left = DOMAIN Asked(q)
         /\ r.at = IF DOMAIN Asked(q) = {} THEN "take" ELSE "make"
         /\ r.objects = [i \in DOMAIN Asked(q) |-> Bare(Asked(q)[i])]
         /\ r.mine = [i \in DOMAIN Asked(q) |-> -1] /\ r.kept = [i \in DOMAIN Asked(q) |-> "nothing"]
         /\ r.turns = {} /\ r.known = TRUE /\ r.groups = {} /\ r.group = {} /\ r.changed = FALSE
         /\ r.raced = FALSE /\ r.blind = FALSE /\ r.tainted = FALSE /\ r.held = {} /\ r.answer = "none"
<1> DEFINE a == IF DOMAIN Asked(q) = {} THEN "take" ELSE "make"
           o == [i \in DOMAIN Asked(q) |-> Bare(Asked(q)[i])]
           m == [i \in DOMAIN Asked(q) |-> -1]
           k == [i \in DOMAIN Asked(q) |-> "nothing"]
<1>1. Received(q) = [Idle EXCEPT !.at = a, !.op = q.op, !.asked = Asked(q), !.left = DOMAIN Asked(q),
                       !.objects = o, !.mine = m, !.kept = k]
  BY DEF Received
<1> HIDE DEF a, o, m, k
<1>2. QED
  BY <1>1 DEF Idle, Fields, a, o, m, k

LEMMA ReceivedOwn ==
  ASSUME NEW q \in Requests
  PROVE  Own(Received(q)) /\ KeysInv(Received(q)) /\ TaintInv(Received(q))
<1> DEFINE r == Received(q)
<1>1. /\ Fields \subseteq DOMAIN r /\ r.op = q.op /\ r.asked = Asked(q) /\ r.left = DOMAIN Asked(q)
      /\ r.at = IF DOMAIN Asked(q) = {} THEN "take" ELSE "make"
      /\ r.objects = [i \in DOMAIN Asked(q) |-> Bare(Asked(q)[i])]
      /\ r.mine = [i \in DOMAIN Asked(q) |-> -1] /\ r.kept = [i \in DOMAIN Asked(q) |-> "nothing"]
      /\ r.turns = {} /\ r.known = TRUE /\ r.groups = {} /\ r.group = {} /\ r.changed = FALSE
      /\ r.raced = FALSE /\ r.blind = FALSE /\ r.tainted = FALSE /\ r.held = {} /\ r.answer = "none"
  BY ReceivedFields
<1>2. /\ DOMAIN r.asked \subseteq Nat /\ IsFiniteSet(DOMAIN r.asked)
      /\ \A i \in DOMAIN r.asked : r.asked[i] \in Json
      /\ r.op \in {"create", "update", "remove"}
  BY <1>1, AskedType
<1> HIDE DEF r
<1>3. \A i \in DOMAIN r.asked :
        /\ r.objects[i] \in Entity
        /\ r.objects[i].of = r.asked[i].of /\ r.objects[i].key = r.asked[i].key
  BY <1>1, <1>2, BareType
<1>4. r.at \in {"take", "make"} /\ (r.at = "make" => r.left # {})
      /\ \A i \in DOMAIN r.asked : Unmade(r, i)
  BY <1>1 DEF Unmade
<1>5. AskedInv(r)
  BY <1>2 DEF AskedInv
<1>6. ObjectsInv(r)
  BY <1>1, <1>3 DEF ObjectsInv
<1>7. ResultsInv(r)
  BY <1>1 DEF ResultsInv
<1>8. RestInv(r)
  BY <1>1, <1>4 DEF RestInv
<1>9. RecordInv(r)
  BY <1>1, <1>4, <1>5, <1>6, <1>7, <1>8 DEF RecordInv, Before, Holding
<1>10. PlaceInv(r)
  BY <1>1, <1>3, <1>4 DEF PlaceInv, Before, Holding
<1>11. GroupsInv(r)
  BY <1>4 DEF GroupsInv, Grouping
<1>12. MadeInv(r)
  BY <1>1, <1>3, <1>4 DEF MadeInv
<1>13. KeptInv(r)
  BY <1>1 DEF KeptInv, KeptAsAsked
<1>14. OnceInv(r)
  BY <1>1, <1>4 DEF OnceInv, Holding
<1>15. KeysInv(r)
  BY <1>4 DEF KeysInv, Holding
<1>16. TaintInv(r)
  BY <1>1 DEF TaintInv
<1>17. QED
  BY <1>9, <1>10, <1>11, <1>12, <1>13, <1>14, <1>15, <1>16 DEF Own, r

-----------------------------------------------------------------------------
(* Make and Check, which pass from object to object, and Take. *)

PassedRest(r, s) ==
  /\ Fields \subseteq DOMAIN s /\ s.op = r.op /\ s.asked = r.asked /\ s.mine = r.mine /\ s.kept = r.kept
  /\ s.turns = r.turns /\ s.of = r.of /\ s.known = r.known /\ s.groups = r.groups /\ s.group = r.group
  /\ s.held = r.held /\ s.raced = r.raced /\ s.changed = r.changed /\ s.tainted = r.tainted
  /\ s.answer = r.answer

LEMMA PassedFields ==
  ASSUME NEW r, Fields \subseteq DOMAIN r, NEW i, NEW s, s = Passed(r, i)
  PROVE  /\ PassedRest(r, s) /\ s.objects = r.objects /\ s.blind = r.blind
         /\ \/ r.left # {i} /\ s.at = r.at /\ s.left = r.left \ {i}
            \/ r.left = {i} /\ r.at = "make" /\ s.at = "check" /\ s.left = DOMAIN r.asked
            \/ r.left = {i} /\ s.at = "take" /\ s.left = {}
<1>1. CASE s = [r EXCEPT !.left = @ \ {i}] /\ r.left # {i}
  BY <1>1 DEF PassedRest, Fields
<1>2. CASE s = [r EXCEPT !.at = "check", !.left = DOMAIN r.asked] /\ r.left = {i} /\ r.at = "make"
  BY <1>2 DEF PassedRest, Fields
<1>3. CASE s = [r EXCEPT !.at = "take", !.left = {}] /\ r.left = {i}
  BY <1>3 DEF PassedRest, Fields
<1>4. QED
  BY <1>1, <1>2, <1>3 DEF Passed

(* Objects keep their entities and keys; one that is not bare any more, and not
   made blindly, has all its members. *)
LEMMA PassedOwn ==
  ASSUME NEW r, Own(r), KeysInv(r), TaintInv(r), r.at \in {"make", "check"},
         NEW s, PassedRest(r, s),
         s.at \in {"make", "check", "take"}, s.left \subseteq DOMAIN r.asked, s.at # "take" => s.left # {},
         s.blind \in BOOLEAN, s.blind = FALSE => r.blind = FALSE,
         DOMAIN s.objects = DOMAIN r.asked,
         \A j \in DOMAIN r.asked : /\ s.objects[j] \in Entity /\ s.objects[j].of = r.asked[j].of
                                   /\ s.objects[j].key = r.objects[j].key,
         s.blind = FALSE => \A j \in DOMAIN r.asked :
           \/ Unmade(s, j)
           \/ s.objects[j].text = r.asked[j].text /\ s.objects[j].id = (s.objects[j].key >= 0)
           \/ ~Unmade(r, j) /\ s.objects[j] = r.objects[j]
  PROVE  Own(s) /\ KeysInv(s) /\ TaintInv(s)
<1>1. /\ Fields \subseteq DOMAIN s /\ s.op = r.op /\ s.asked = r.asked /\ s.mine = r.mine /\ s.kept = r.kept
      /\ s.turns = r.turns /\ s.of = r.of /\ s.known = r.known /\ s.groups = r.groups /\ s.group = r.group
      /\ s.held = r.held /\ s.raced = r.raced /\ s.changed = r.changed /\ s.tainted = r.tainted
      /\ s.answer = r.answer
  BY DEF PassedRest
<1>2. r.changed = FALSE /\ \A i \in DOMAIN r.asked :
                           r.kept[i] = "nothing" /\ s.objects[i].key = r.asked[i].key
  BY DEF Own, PlaceInv, Before
<1>3. RecordInv(s)
  <2>1. AskedInv(s) /\ ObjectsInv(s) /\ ResultsInv(s)
    BY <1>1 DEF Own, RecordInv, AskedInv, ObjectsInv, ResultsInv
  <2>2. RestInv(s)
    BY <1>1 DEF Own, RecordInv, RestInv
  <2>3. QED
    BY <1>1, <2>1, <2>2 DEF RecordInv, Before
<1>4. PlaceInv(s)
  BY <1>1, <1>2 DEF PlaceInv, Before, Holding
<1>5. GroupsInv(s)
  BY DEF GroupsInv, Grouping
<1>6. MadeInv(s)
  <2>1. Negative(s) <=> Negative(r)
    BY <1>1 DEF Negative
  <2>2. \A i \in DOMAIN s.asked : s.objects[i].key = s.asked[i].key \/ (s.op = "create" /\ Negative(s))
    BY <1>1, <2>1 DEF Own, MadeInv
  <2>3. s.blind = FALSE => s.known = TRUE
    BY <1>1 DEF Own, MadeInv
  <2>4. ASSUME s.blind = FALSE, NEW i \in DOMAIN s.asked
        PROVE  Unmade(s, i) \/ s.objects[i].text = s.asked[i].text
    BY <1>1, <2>4 DEF Own, MadeInv
  <2>5. QED
    BY <2>2, <2>3, <2>4 DEF MadeInv
<1>7. KeptInv(s)
  BY <1>1, <1>2 DEF KeptInv, KeptAsAsked
<1>8. OnceInv(s)
  BY <1>1, <1>2 DEF OnceInv, Holding
<1>9. KeysInv(s)
  <2>1. ASSUME s.op = "create", s.blind = FALSE, s.raced = FALSE, NEW i \in DOMAIN s.asked
        PROVE  Unmade(s, i) \/ s.objects[i].id = (s.objects[i].key >= 0)
    BY <1>1, <2>1 DEF KeysInv
  <2>2. s.at \notin Holding
    BY DEF Holding
  <2>3. QED
    BY <2>1, <2>2 DEF KeysInv
<1>10. TaintInv(s)
  BY <1>1 DEF TaintInv
<1>11. QED
  BY <1>3, <1>4, <1>5, <1>6, <1>7, <1>8, <1>9, <1>10 DEF Own

(* The object whose turn it is. *)
LEMMA NextLeft ==
  ASSUME NEW r, Own(r), r.at \in {"make", "check"}
  PROVE  Min(r.left) \in r.left /\ Min(r.left) \in DOMAIN r.asked
<1>1. r.left \subseteq DOMAIN r.asked /\ r.left # {} /\ DOMAIN r.asked \subseteq Nat
  BY DEF Own, RecordInv, RestInv, AskedInv
<1>2. QED
  BY <1>1, MinOf

LEMMA MadeOwn ==
  ASSUME NEW r, Own(r), KeysInv(r), TaintInv(r), r.at = "make", NEW i, i = Min(r.left), ~Wrong(r.asked[i]),
         NEW s, s = Passed([r EXCEPT !.objects[i] = Made(r.asked[i]), !.blind = @ \/ ~Known(r.asked[i].of)], i)
  PROVE  Own(s) /\ KeysInv(s) /\ TaintInv(s) /\ s.at # "keys" /\ s.held = r.held
<1> DEFINE j == r.asked[i]
           b == r.blind \/ ~Known(j.of)
           o == [r.objects EXCEPT ![i] = Made(j)]
           p == [r EXCEPT !.objects = o, !.blind = b]
<1>1. i \in r.left /\ i \in DOMAIN r.asked /\ r.left \subseteq DOMAIN r.asked
  BY NextLeft DEF Own, RecordInv, RestInv
<1>2. s = Passed(p, i)
  OBVIOUS
<1>3. b \in BOOLEAN /\ (b = FALSE => r.blind = FALSE /\ Known(j.of))
  BY DEF Own, RecordInv, RestInv
<1>4. DOMAIN r.objects = DOMAIN r.asked
      /\ \A k \in DOMAIN r.asked : r.objects[k] \in Entity /\ r.objects[k].of = r.asked[k].of
  BY DEF Own, RecordInv, ObjectsInv
<1>5. Made(j) \in Entity /\ Made(j).of = j.of /\ Made(j).key = j.key
  BY <1>1, MadeType DEF Own, RecordInv, AskedInv
<1>6. r.objects[i].key = j.key
  BY <1>1 DEF Own, PlaceInv, Before
<1>7. b = FALSE => Made(j).text = j.text /\ Made(j).id = (Made(j).key >= 0)
  BY <1>3, <1>5, MadeValues
<1>8. r.at \in {"make", "check"} /\ Fields \subseteq DOMAIN r
  BY DEF Own, RecordInv
<1>9. /\ DOMAIN o = DOMAIN r.asked /\ o[i] = Made(j)
      /\ \A k \in DOMAIN r.asked : k # i => o[k] = r.objects[k]
  BY <1>1, <1>4
<1> HIDE DEF b, o, j
<1>10. /\ PassedRest(r, p) /\ p.objects = o /\ p.blind = b /\ p.at = r.at /\ p.left = r.left
  BY <1>8 DEF PassedRest, Fields
<1> HIDE DEF p
<1>11. /\ PassedRest(p, s) /\ s.objects = p.objects /\ s.blind = p.blind
       /\ \/ p.left # {i} /\ s.at = p.at /\ s.left = p.left \ {i}
          \/ p.left = {i} /\ p.at = "make" /\ s.at = "check" /\ s.left = DOMAIN p.asked
          \/ p.left = {i} /\ s.at = "take" /\ s.left = {}
  BY <1>2, <1>10, PassedFields DEF PassedRest
<1>12. PassedRest(r, s) /\ s.objects = o /\ s.blind = b
  BY <1>10, <1>11 DEF PassedRest
<1>13. \/ s.at = "make" /\ s.left = r.left \ {i} /\ s.left # {}
       \/ r.left = {i} /\ s.at = "check" /\ s.left = DOMAIN r.asked
       \/ r.left = {i} /\ s.at = "take" /\ s.left = {}
  BY <1>1, <1>10, <1>11 DEF PassedRest
<1>14. /\ s.at \in {"make", "check", "take"} /\ s.left \subseteq DOMAIN r.asked
       /\ s.at # "take" => s.left # {}
  BY <1>1, <1>13
<1>15. ASSUME NEW k \in DOMAIN r.asked
       PROVE  /\ s.objects[k] \in Entity /\ s.objects[k].of = r.asked[k].of
              /\ s.objects[k].key = r.objects[k].key
              /\ s.blind = FALSE =>
                   \/ Unmade(s, k)
                   \/ s.objects[k].text = r.asked[k].text /\ s.objects[k].id = (s.objects[k].key >= 0)
                   \/ ~Unmade(r, k) /\ s.objects[k] = r.objects[k]
  <2>1. CASE k = i
    BY <1>5, <1>6, <1>7, <1>9, <1>12, <2>1 DEF j
  <2>2. CASE k # i
    BY <1>4, <1>9, <1>12, <1>13, <2>2 DEF Unmade
  <2>3. QED
    BY <2>1, <2>2
<1>16. Own(s) /\ KeysInv(s) /\ TaintInv(s)
  <2>1. \A k \in DOMAIN r.asked : /\ s.objects[k] \in Entity /\ s.objects[k].of = r.asked[k].of
                                  /\ s.objects[k].key = r.objects[k].key
    BY <1>15
  <2>2. s.blind = FALSE => \A k \in DOMAIN r.asked :
          \/ Unmade(s, k)
          \/ s.objects[k].text = r.asked[k].text /\ s.objects[k].id = (s.objects[k].key >= 0)
          \/ ~Unmade(r, k) /\ s.objects[k] = r.objects[k]
    BY <1>15
  <2>3. s.blind \in BOOLEAN /\ (s.blind = FALSE => r.blind = FALSE) /\ DOMAIN s.objects = DOMAIN r.asked
    BY <1>3, <1>9, <1>12
  <2>4. Own(r) /\ KeysInv(r) /\ TaintInv(r)
    OBVIOUS
  <2>5. QED
    BY ONLY <1>8, <1>12, <1>14, <2>1, <2>2, <2>3, <2>4, PassedOwn
<1>17. QED
  BY <1>12, <1>14, <1>16 DEF PassedRest

LEMMA CheckedOwn ==
  ASSUME NEW r, Own(r), KeysInv(r), TaintInv(r), r.at = "check", NEW i, i = Min(r.left),
         NEW b \in BOOLEAN, b = FALSE => r.blind = FALSE, NEW s, s = Passed([r EXCEPT !.blind = b], i)
  PROVE  Own(s) /\ KeysInv(s) /\ TaintInv(s) /\ s.at # "keys" /\ s.held = r.held
<1> DEFINE p == [r EXCEPT !.blind = b]
<1>1. i \in r.left /\ r.left \subseteq DOMAIN r.asked
  BY NextLeft DEF Own, RecordInv, RestInv
<1>2. Fields \subseteq DOMAIN r
  BY DEF Own, RecordInv
<1>3. PassedRest(r, p) /\ p.objects = r.objects /\ p.blind = b /\ p.at = "check" /\ p.left = r.left
  BY <1>2 DEF PassedRest, Fields
<1>4. s = Passed(p, i)
  OBVIOUS
<1> HIDE DEF p
<1>5. /\ PassedRest(p, s) /\ s.objects = p.objects /\ s.blind = p.blind
      /\ \/ p.left # {i} /\ s.at = p.at /\ s.left = p.left \ {i}
         \/ p.left = {i} /\ p.at = "make" /\ s.at = "check" /\ s.left = DOMAIN p.asked
         \/ p.left = {i} /\ s.at = "take" /\ s.left = {}
  BY <1>3, <1>4, PassedFields DEF PassedRest
<1>6. PassedRest(r, s) /\ s.objects = r.objects /\ s.blind = b
  BY <1>3, <1>5 DEF PassedRest
<1>7. /\ s.at \in {"make", "check", "take"} /\ s.left \subseteq DOMAIN r.asked
      /\ s.at # "take" => s.left # {}
  BY <1>1, <1>3, <1>5
<1>8. DOMAIN r.objects = DOMAIN r.asked
      /\ \A k \in DOMAIN r.asked : r.objects[k] \in Entity /\ r.objects[k].of = r.asked[k].of /\ ~Unmade(r, k)
  BY DEF Own, RecordInv, ObjectsInv, Unmade
<1>9. Own(s) /\ KeysInv(s) /\ TaintInv(s)
  BY <1>6, <1>7, <1>8, PassedOwn
<1>10. QED
  BY <1>6, <1>7, <1>9 DEF PassedRest

LEMMA TakenOwn ==
  ASSUME NEW r, Own(r), KeysInv(r), r.at = "take", NEW c \in Connections
  PROVE  LET s == [r EXCEPT !.at = "turn", !.held = {c}, !.tainted = c \in spoiled,
                     !.turns = {e.of : e \in {r.objects[i] : i \in DOMAIN r.objects}}]
         IN  Own(s) /\ KeysInv(s) /\ TaintInv(s)
<1> DEFINE tainted == c \in spoiled
           turns   == {e.of : e \in {r.objects[i] : i \in DOMAIN r.objects}}
           s       == [r EXCEPT !.at = "turn", !.held = {c}, !.tainted = tainted, !.turns = turns]
<1>1. \A n : n \in turns <=> \E i \in DOMAIN r.asked : r.asked[i].of = n
  BY DEF Own, RecordInv, ObjectsInv
<1>2. tainted \in BOOLEAN /\ (tainted = FALSE => {c} \cap spoiled = {})
  OBVIOUS
<1> HIDE DEF tainted, turns
<1>3. /\ Fields \subseteq DOMAIN s
      /\ s.at = "turn" /\ s.turns = turns /\ s.of = r.of /\ s.known = r.known /\ s.groups = r.groups
      /\ s.group = r.group /\ s.changed = r.changed /\ s.blind = r.blind /\ s.tainted = tainted
      /\ s.answer = r.answer /\ s.left = r.left /\ s.held = {c} /\ s.raced = r.raced
  BY DEF Own, RecordInv, Fields
<1>4. SameRequest(r, s)
  BY DEF Own, RecordInv, Fields, SameRequest
<1>5. s = [r EXCEPT !.at = "turn", !.held = {c}, !.tainted = c \in spoiled,
             !.turns = {e.of : e \in {r.objects[i] : i \in DOMAIN r.objects}}]
  BY DEF tainted, turns
<1> HIDE DEF s
<1>6. r.changed = FALSE /\ \A i \in DOMAIN r.asked : r.kept[i] = "nothing"
  BY DEF Own, PlaceInv, Before
<1>7. RecordInv(s)
  <2>1. AskedInv(s) /\ ObjectsInv(s) /\ ResultsInv(s)
    BY <1>4, SameMeaning DEF Own, RecordInv
  <2>2. RestInv(s)
    BY <1>1, <1>2, <1>3, <1>4 DEF Own, RecordInv, RestInv, SameRequest
  <2>3. QED
    BY <1>3, <2>1, <2>2 DEF RecordInv, Holding
<1>8. PlaceInv(s) /\ GroupsInv(s)
  BY <1>3 DEF PlaceInv, GroupsInv, Grouping, Before, Holding
<1>9. MadeInv(s)
  BY <1>3, <1>4, SameMeaning DEF Own, MadeInv, Unmade, SameRequest
<1>10. KeptInv(s)
  BY <1>4, <1>6 DEF KeptInv, KeptAsAsked, SameRequest
<1>11. OnceInv(s)
  BY <1>3, <1>6 DEF OnceInv
<1>12. KeysInv(s)
  BY <1>1, <1>3, <1>4 DEF KeysInv, SameRequest, Pending, Unmade
<1>13. TaintInv(s)
  BY <1>2, <1>3 DEF TaintInv
<1>14. QED
  BY <1>5, <1>7, <1>8, <1>9, <1>10, <1>11, <1>12, <1>13 DEF Own

-----------------------------------------------------------------------------
(* Turn: the objects of an entity come to their groups. *)

(* The objects that are alike with one of them. *)
AlikeSets(r, n) == {{j \in Of(r, n) : Alike(r, i, j)} : i \in Of(r, n)}

LEMMA AlikeGroups ==
  ASSUME NEW r, NEW n, NEW groups, groups = AlikeSets(r, n)
  PROVE  /\ \A g \in groups : g # {} /\ g \subseteq Of(r, n)
         /\ \A g, h \in groups : g = h \/ g \cap h = {}
         /\ \A g \in groups : \A i, j \in g : Alike(r, i, j)
<1>1. \A i : Alike(r, i, i)
  BY DEF Alike
<1>2. \A i, j, k : Alike(r, i, j) /\ Alike(r, i, k) => Alike(r, j, k)
  BY DEF Alike
<1>3. \A i, j : Alike(r, i, j) => Alike(r, j, i)
  BY DEF Alike
<1>4. \A g \in groups : \E i \in Of(r, n) : i \in g /\ g = {j \in Of(r, n) : Alike(r, i, j)}
  BY <1>1 DEF AlikeSets
<1>5. ASSUME NEW g \in groups, NEW h \in groups, NEW x, x \in g, x \in h PROVE g = h
  <2>1. PICK i \in Of(r, n) : g = {j \in Of(r, n) : Alike(r, i, j)}
    BY <1>4
  <2>2. PICK k \in Of(r, n) : h = {j \in Of(r, n) : Alike(r, k, j)}
    BY <1>4
  <2>3. Alike(r, i, x) /\ Alike(r, k, x)
    BY <1>5, <2>1, <2>2
  <2>4. Alike(r, i, k) /\ Alike(r, k, i)
    BY <1>2, <1>3, <2>3
  <2>5. \A j : Alike(r, i, j) <=> Alike(r, k, j)
    BY <1>2, <2>4
  <2>6. QED
    BY <2>1, <2>2, <2>5
<1>6. QED
  BY <1>2, <1>4, <1>5

LEMMA GroupedGroups ==
  ASSUME NEW r, NEW n \in Names, NEW k \in DOMAIN r.objects, r.objects[k].of = n,
         server \in {"MySQL", "PostgreSQL"}, NEW groups, groups = Grouped(r, n)
  PROVE  /\ \A g \in groups : g # {} /\ g \subseteq Of(r, n)
         /\ \A g, h \in groups : g = h \/ g \cap h = {}
         /\ Known(n) /\ r.op \in {"create", "update"} =>
              \A g \in groups : \/ server = "PostgreSQL" /\ r.op = "create" /\ g = Of(r, n)
                                \/ \A i, j \in g : Alike(r, i, j)
         /\ (\A i, j \in Of(r, n) : Alike(r, i, j)) => groups = {Of(r, n)}
<1>1. k \in Of(r, n)
  BY DEF Of
<1>2. CASE groups = AlikeSets(r, n)
  <2>1. ASSUME \A i, j \in Of(r, n) : Alike(r, i, j) PROVE groups = {Of(r, n)}
    <3>1. \A i \in Of(r, n) : {j \in Of(r, n) : Alike(r, i, j)} = Of(r, n)
      BY <2>1
    <3>2. \A g \in groups : g = Of(r, n)
      BY <1>2, <3>1 DEF AlikeSets
    <3>3. Of(r, n) \in groups
      BY <1>1, <1>2, <3>1 DEF AlikeSets
    <3>4. QED
      BY <3>2, <3>3
  <2>2. /\ \A g \in groups : g # {} /\ g \subseteq Of(r, n)
        /\ \A g, h \in groups : g = h \/ g \cap h = {}
        /\ \A g \in groups : \A i, j \in g : Alike(r, i, j)
    BY <1>2, AlikeGroups
  <2>3. QED
    BY <2>1, <2>2
<1>3. CASE groups # AlikeSets(r, n)
  <2>1. /\ groups = {Of(r, n)}
        /\ ~(Known(n) /\ (r.op = "update" \/ (r.op = "create" /\ server = "MySQL")))
    BY <1>3 DEF Grouped, AlikeSets
  <2>2. QED
    BY <1>1, <2>1
<1>4. QED
  BY <1>2, <1>3

LEMMA GroupedCover ==
  ASSUME NEW r, NEW n PROVE Of(r, n) \subseteq UNION Grouped(r, n)
<1>1. CASE Grouped(r, n) = {Of(r, n)}
  BY <1>1
<1>2. CASE Grouped(r, n) # {Of(r, n)}
  <2>1. Grouped(r, n) = AlikeSets(r, n)
    BY <1>2 DEF Grouped, AlikeSets
  <2>2. \A i \in Of(r, n) : i \in {j \in Of(r, n) : Alike(r, i, j)}
    BY DEF Alike
  <2>3. \A i \in Of(r, n) : {j \in Of(r, n) : Alike(r, i, j)} \in AlikeSets(r, n)
    BY DEF AlikeSets
  <2>4. QED
    BY <2>1, <2>2, <2>3
<1>3. QED
  BY <1>1, <1>2

LEMMA TurnedOwn ==
  ASSUME NEW r, Own(r), KeysInv(r), TaintInv(r), r.at = "turn", NEW n \in Names, n \in r.turns,
         server \in {"MySQL", "PostgreSQL"}
  PROVE  LET s == [r EXCEPT !.at = Statement(r.op), !.turns = @ \ {n}, !.of = n, !.known = Known(n),
                     !.blind = @ \/ ~Known(n), !.groups = Grouped(r, n)]
         IN  Own(s) /\ KeysInv(s) /\ TaintInv(s)
<1> DEFINE knows  == Known(n)
           blind  == r.blind \/ ~Known(n)
           groups == Grouped(r, n)
           at     == Statement(r.op)
           s      == [r EXCEPT !.at = at, !.turns = @ \ {n}, !.of = n, !.known = knows,
                        !.blind = blind, !.groups = groups]
<1>1. /\ knows \in BOOLEAN /\ blind \in BOOLEAN
      /\ blind = FALSE => r.blind = FALSE /\ knows = TRUE /\ Known(n)
  BY DEF Own, RecordInv, RestInv, Known
<1>2. PICK k \in DOMAIN r.asked : r.asked[k].of = n
  BY DEF Own, RecordInv, RestInv
<1>3. k \in DOMAIN r.objects /\ r.objects[k].of = n
  BY <1>2 DEF Own, RecordInv, ObjectsInv
<1>4. /\ \A g \in groups : g # {} /\ g \subseteq Of(r, n)
      /\ \A g, h \in groups : g = h \/ g \cap h = {}
      /\ Known(n) /\ r.op \in {"create", "update"} =>
           \A g \in groups : \/ server = "PostgreSQL" /\ r.op = "create" /\ g = Of(r, n)
                             \/ \A i, j \in g : Alike(r, i, j)
      /\ (\A i, j \in Of(r, n) : Alike(r, i, j)) => groups = {Of(r, n)}
  BY <1>3, GroupedGroups
<1>5. /\ at \in {"insert", "update", "look"}
      /\ at = "insert" <=> r.op = "create"
      /\ at = "update" <=> r.op = "update"
      /\ at = "look" <=> r.op = "remove"
  BY DEF Statement, Own, RecordInv, AskedInv
<1>6. \A i : i \in Of(r, n) <=> i \in DOMAIN r.asked /\ r.asked[i].of = n
  BY DEF Of, Own, RecordInv, ObjectsInv
<1>7. s = [r EXCEPT !.at = Statement(r.op), !.turns = @ \ {n}, !.of = n, !.known = Known(n),
             !.blind = @ \/ ~Known(n), !.groups = Grouped(r, n)]
  OBVIOUS
<1> HIDE DEF knows, blind, groups, at
<1>8. /\ Fields \subseteq DOMAIN s
      /\ s.at = at /\ s.turns = r.turns \ {n} /\ s.of = n /\ s.known = knows /\ s.groups = groups
      /\ s.group = r.group /\ s.changed = r.changed /\ s.blind = blind /\ s.tainted = r.tainted
      /\ s.answer = r.answer /\ s.left = r.left /\ s.held = r.held /\ s.raced = r.raced
  BY DEF Own, RecordInv, Fields
<1>9. SameRequest(r, s)
  BY DEF Own, RecordInv, Fields, SameRequest
<1> HIDE DEF s
<1>10. \A m : Of(s, m) = Of(r, m)
  BY <1>9, SameMeaning
<1>11. RecordInv(s)
  <2>1. AskedInv(s) /\ ObjectsInv(s) /\ ResultsInv(s)
    BY <1>9, SameMeaning DEF Own, RecordInv
  <2>2. \A g \in s.groups \cup {s.group} : g \subseteq DOMAIN s.asked
    BY <1>4, <1>6, <1>8, <1>9 DEF Own, RecordInv, RestInv, SameRequest
  <2>3. RestInv(s)
    BY <1>1, <1>5, <1>8, <1>9, <2>2 DEF Own, RecordInv, RestInv, SameRequest
  <2>4. QED
    BY <1>5, <1>8, <2>1, <2>3 DEF RecordInv, Holding
<1>12. PlaceInv(s)
  BY <1>5, <1>8, <1>9 DEF PlaceInv, SameRequest, Before
<1>13. GroupsInv(s)
  <2>1. ASSUME at # "look", blind = FALSE, NEW g \in groups PROVE Uniform(s, g)
    <3>1. \/ server = "PostgreSQL" /\ r.op = "create" /\ g = Of(r, n)
          \/ \A i, j \in g : Alike(r, i, j)
      BY <1>1, <1>4, <1>5, <2>1
    <3>2. CASE server = "PostgreSQL" /\ r.op = "create" /\ g = Of(r, n)
      BY <1>8, <1>9, <1>10, <3>2 DEF Uniform, SameRequest
    <3>3. CASE \A i, j \in g : Alike(r, i, j)
      BY <1>9, <3>3 DEF Uniform, SameRequest, Alike
    <3>4. QED
      BY <3>1, <3>2, <3>3
  <2>2. /\ \A g \in s.groups : g # {} /\ g \subseteq Of(s, s.of)
        /\ \A g, h \in s.groups : g = h \/ g \cap h = {}
    BY <1>4, <1>8, <1>10
  <2>3. Grouping(s) => at # "look" /\ s.at # "keys"
    BY <1>5, <1>8 DEF Grouping
  <2>4. Grouping(s) /\ s.blind = FALSE => \A g \in s.groups : Uniform(s, g)
    BY <1>8, <2>1, <2>3
  <2>5. QED
    BY <2>2, <2>3, <2>4 DEF GroupsInv
<1>14. MadeInv(s)
  BY <1>1, <1>5, <1>8, <1>9, SameMeaning DEF Own, MadeInv, Unmade, SameRequest
<1>15. KeptInv(s)
  BY <1>1, <1>8, <1>9, SameKept DEF Own, KeptInv, SameRequest
<1>16. OnceInv(s)
  <2>1. SUFFICES ASSUME Single(s)
                 PROVE  /\ s.at \in Holding \ {"turn"} => s.turns = {}
                        /\ s.at = "insert" => \A g \in s.groups : g = Of(s, s.of) /\ s.changed = FALSE
                        /\ s.changed # FALSE => s.at \in {"insert", "turn"} /\ s.turns = {}
    BY DEF OnceInv
  <2>2. Single(r)
    BY <1>9, <2>1, SameMeaning
  <2>3. r.changed = FALSE
    BY <2>2 DEF Own, OnceInv
  <2>4. r.turns \ {n} = {}
    <3>1. \A i, j \in DOMAIN r.asked : r.asked[i].of = r.asked[j].of
      BY <2>2 DEF Single, Several
    <3>2. QED
      BY <1>2, <3>1 DEF Own, RecordInv, RestInv
  <2>5. r.op = "create" => groups = {Of(r, n)}
    <3>1. CASE server = "MySQL" /\ r.op = "create"
      <4>1. \A i, j \in Of(r, n) : Alike(r, i, j)
        BY <2>2, <3>1 DEF Single, Torn, Of
      <4>2. QED
        BY <1>4, <4>1
    <3>2. CASE server # "MySQL" /\ r.op = "create"
      BY <3>2 DEF groups, Grouped
    <3>3. QED
      BY <3>1, <3>2
  <2>6. QED
    BY <1>5, <1>8, <1>10, <2>3, <2>4, <2>5
<1>17. KeysInv(s)
  <2>1. SUFFICES ASSUME s.op = "create", s.blind = FALSE, s.raced = FALSE
                 PROVE  /\ \A i \in DOMAIN s.asked : Unmade(s, i) \/ s.objects[i].id = (s.objects[i].key >= 0)
                        /\ \A i \in DOMAIN s.asked : Pending(s, i) \/ s.objects[i].key = s.mine[i]
    BY <1>5, <1>8 DEF KeysInv
  <2>2. r.op = "create" /\ r.blind = FALSE /\ r.raced = FALSE
    BY <1>1, <1>8, <1>9, <2>1 DEF SameRequest
  <2>3. Of(r, n) \subseteq UNION groups
    BY <1>3, GroupedCover DEF groups
  <2>4. ASSUME NEW i \in DOMAIN r.asked PROVE Pending(s, i) \/ s.objects[i].key = s.mine[i]
    <3>1. r.asked[i].of \in r.turns \/ r.objects[i].key = r.mine[i]
      BY <2>2 DEF KeysInv, Pending, Holding
    <3>2. r.asked[i].of = n => i \in UNION groups
      BY <1>6, <2>3
    <3>3. QED
      BY <1>5, <1>8, <1>9, <2>2, <3>1, <3>2 DEF Pending, SameRequest
  <2>5. QED
    BY <1>9, <2>2, <2>4 DEF KeysInv, SameRequest, Unmade
<1>18. TaintInv(s)
  BY <1>8 DEF TaintInv
<1>19. QED
  BY <1>7, <1>11, <1>12, <1>13, <1>14, <1>15, <1>16, <1>17, <1>18 DEF Own

-----------------------------------------------------------------------------
(* TurnDone, Reload, Look and DeleteRows: the thread goes on, with what it has. *)

KeepsRest(r, s) ==
  /\ Fields \subseteq DOMAIN s /\ SameRequest(r, s)
  /\ s.turns = r.turns /\ s.of = r.of /\ s.known = r.known /\ s.groups = r.groups /\ s.group = r.group
  /\ s.held = r.held /\ s.raced = r.raced /\ s.blind = r.blind /\ s.tainted = r.tainted
  /\ s.answer = r.answer /\ s.left = r.left

Moves(r, s) ==
  \/ r.at \in {"insert", "update"} /\ r.groups = {} /\ s.at = "turn" /\ s.changed = r.changed
  \/ r.at = "reload" /\ s.at = "update" /\ s.changed = r.changed
  \/ r.at = "look" /\ s.at = "delete" /\ s.changed = r.changed
  \/ r.at = "delete" /\ s.at = "turn" /\ s.changed = TRUE

LEMMA MovedOwn ==
  ASSUME NEW r, Own(r), KeysInv(r), TaintInv(r), NEW s, KeepsRest(r, s), Moves(r, s)
  PROVE  Own(s) /\ KeysInv(s) /\ TaintInv(s)
<1>1. SameRequest(r, s)
  BY DEF KeepsRest
<1>2. \A m : Of(s, m) = Of(r, m)
  BY <1>1, SameMeaning
<1>3. RecordInv(s)
  <2>1. AskedInv(s) /\ ObjectsInv(s) /\ ResultsInv(s)
    BY <1>1, SameMeaning DEF Own, RecordInv
  <2>2. s.at \in {"turn", "update", "delete"} /\ s.changed \in BOOLEAN
    BY DEF Moves, Own, RecordInv, RestInv
  <2>3. RestInv(s)
    BY <2>2 DEF Own, RecordInv, RestInv, KeepsRest, SameRequest
  <2>4. QED
    BY <2>1, <2>2, <2>3 DEF RecordInv, Holding, KeepsRest
<1>4. PlaceInv(s)
  BY DEF Own, PlaceInv, KeepsRest, Moves, SameRequest, Before, Holding
<1>5. GroupsInv(s)
  <2>1. Grouping(s) => Grouping(r) /\ s.at = "update" /\ r.at = "reload"
    BY DEF Grouping, Moves
  <2>2. \A g : Uniform(r, g) => Uniform(s, g)
    BY <1>1, <1>2 DEF Uniform, SameRequest, KeepsRest
  <2>3. QED
    BY <1>2, <2>1, <2>2 DEF Own, GroupsInv, KeepsRest
<1>6. MadeInv(s)
  BY <1>1, SameMeaning DEF Own, MadeInv, Unmade, KeepsRest, Moves, SameRequest
<1>7. KeptInv(s)
  BY <1>1, SameKept DEF Own, KeptInv, KeepsRest, SameRequest
<1>8. OnceInv(s)
  <2>1. SUFFICES ASSUME Single(s)
                 PROVE  /\ s.at \in Holding \ {"turn"} => s.turns = {}
                        /\ s.at = "insert" => \A g \in s.groups : g = Of(s, s.of) /\ s.changed = FALSE
                        /\ s.changed # FALSE => s.at \in {"insert", "turn"} /\ s.turns = {}
    BY DEF OnceInv
  <2>2. Single(r)
    BY <1>1, <2>1, SameMeaning
  <2>3. r.turns = {}
    BY <2>2 DEF Own, OnceInv, Moves, Holding
  <2>4. s.changed # FALSE => s.at = "turn"
    BY <2>2 DEF Own, OnceInv, Moves
  <2>5. QED
    BY <2>3, <2>4 DEF KeepsRest, Moves
<1>9. KeysInv(s)
  <2>1. CASE r.op = "create"
    <3>1. r.at = "insert" /\ r.groups = {} /\ s.at = "turn"
      BY <2>1 DEF Own, PlaceInv, Moves
    <3>2. QED
      BY <3>1 DEF KeysInv, Pending, Unmade, KeepsRest, SameRequest, Holding
  <2>2. CASE r.op # "create"
    BY <2>2 DEF KeysInv, KeepsRest, SameRequest
  <2>3. QED
    BY <2>1, <2>2
<1>10. TaintInv(s)
  BY DEF TaintInv, KeepsRest
<1>11. QED
  BY <1>3, <1>4, <1>5, <1>6, <1>7, <1>8, <1>9, <1>10 DEF Own

-----------------------------------------------------------------------------
(* Insert: what the rows have. *)

LEMMA GroupType ==
  ASSUME NEW r, Own(r), Grouping(r), NEW g \in r.groups
  PROVE  /\ g \subseteq DOMAIN r.asked /\ g \subseteq Nat /\ IsFiniteSet(g) /\ g # {}
         /\ Min(g) \in g /\ g \subseteq Of(r, r.of)
         /\ Cardinality(g) \in Nat \ {0}
         /\ \A i \in g : Cardinality({j \in g : j < i}) \in 0 .. Cardinality(g) - 1
<1>1. g \subseteq DOMAIN r.asked /\ DOMAIN r.asked \subseteq Nat /\ IsFiniteSet(DOMAIN r.asked)
  BY DEF Own, RecordInv, RestInv, AskedInv
<1>2. g # {} /\ g \subseteq Of(r, r.of)
  BY DEF Own, GroupsInv
<1>3. g \subseteq Nat /\ IsFiniteSet(g)
  BY <1>1, FS_Subset
<1>4. Min(g) \in g
  BY <1>2, <1>3, MinOf
<1>5. /\ Cardinality(g) \in Nat
      /\ \A i \in g : Cardinality({j \in g : j < i}) \in 0 .. Cardinality(g) - 1
  BY <1>3, Preceding
<1>6. Cardinality(g) # 0
  BY <1>2, <1>3, FS_EmptySet
<1>7. QED
  BY <1>1, <1>2, <1>3, <1>4, <1>5, <1>6

LEMMA RowsType ==
  ASSUME NEW r, Own(r), r.at = "insert", NEW g \in r.groups, TablesInv
  PROVE  /\ r.of \in Names /\ next[r.of] \in Nat \ {0}
         /\ \A i \in g : KeyOf(r, g, i) \in Int
         /\ \A i \in g : TextOf(r, g, i) \in {"absent", "fit", "cut"}
<1>1. r.of \in Names
  BY DEF Own, PlaceInv, Holding
<1>2. next[r.of] \in Nat \ {0}
  BY <1>1 DEF TablesInv
<1>3. \A i \in g : i \in DOMAIN r.asked /\ r.objects[i] \in Entity /\ Cardinality({j \in g : j < i}) \in Nat
  <2>1. /\ g \subseteq DOMAIN r.asked /\ Cardinality(g) \in Nat
        /\ \A i \in g : Cardinality({j \in g : j < i}) \in 0 .. Cardinality(g) - 1
    BY GroupType DEF Grouping
  <2>2. QED
    BY <2>1 DEF Own, RecordInv, ObjectsInv
<1>4. ASSUME NEW i \in g PROVE KeyOf(r, g, i) \in Int
  <2>1. r.objects[i].key \in Int
    BY <1>3 DEF Entity
  <2> DEFINE before == Cardinality({j \in g : j < i})
  <2>2. before \in Nat
    BY <1>3
  <2>3. KeyOf(r, g, i) = IF IdColumn(r, g) THEN r.objects[i].key ELSE next[r.of] + before
    BY DEF KeyOf
  <2> HIDE DEF before
  <2>4. QED
    BY <1>2, <2>1, <2>2, <2>3
<1>5. \A i \in g : TextOf(r, g, i) \in {"absent", "fit", "cut"}
  BY DEF TextOf
<1>6. QED
  BY <1>1, <1>2, <1>4, <1>5

LEMMA NextKeyType ==
  ASSUME NEW r, Own(r), r.at = "insert", NEW g \in r.groups, TablesInv
  PROVE  NextKey(r, g) \in Nat \ {0}
<1>1. next[r.of] \in Nat \ {0} /\ \A i \in g : KeyOf(r, g, i) \in Int
  BY RowsType
<1>2. IsFiniteSet(g) /\ Cardinality(g) \in Nat
  BY GroupType DEF Grouping
<1> DEFINE f    == [i \in g |-> KeyOf(r, g, i) + 1]
           keys == {next[r.of]} \cup {k + 1 : k \in KeysOf(r, g)}
<1>3. {k + 1 : k \in KeysOf(r, g)} = {f[i] : i \in g}
  BY DEF KeysOf
<1>4. IsFiniteSet(keys)
  <2>1. IsFiniteSet({f[i] : i \in g})
    BY <1>2, FiniteImage
  <2>2. IsFiniteSet({next[r.of]})
    BY FS_Singleton
  <2>3. QED
    BY <1>3, <2>1, <2>2, FS_Union
<1>5. keys \subseteq Int /\ next[r.of] \in keys
  BY <1>1, <1>3
<1>6. Max(keys) \in Int /\ next[r.of] <= Max(keys)
  <2> HIDE DEF keys
  <2>1. QED
    BY <1>4, <1>5, MaxOf
<1>7. Max(keys) \in Nat \ {0}
  <2> HIDE DEF keys
  <2>1. QED
    BY <1>1, <1>6
<1>8. QED
  BY <1>1, <1>2, <1>7 DEF NextKey

(* MySQL is not strict only on a connection that was spoiled, or for a request
   with a key 0. *)
LEMMA LaxTold ==
  ASSUME NEW r, Own(r), TaintInv(r), PoolRestored, NEW c, r.held = {c}, r.held \subseteq lax
  PROVE  r.tainted = TRUE
BY DEF TaintInv, PoolRestored, Own, RecordInv, RestInv

LEMMA InsertLax ==
  ASSUME NEW r, Own(r), TaintInv(r), PoolRestored, NEW c, r.held = {c}, Lax(r)
  PROVE  server = "MySQL" /\ (r.tainted \/ \E j \in DOMAIN r.asked : r.asked[j].key = 0)
<1>1. HasZeroKey(r) => \E j \in DOMAIN r.asked : r.asked[j].key = 0
  BY DEF HasZeroKey, Of, Own, RecordInv, ObjectsInv
<1>2. QED
  BY <1>1, LaxTold DEF Lax

(* The request and what was noted when its turn came. *)
SameAsked(r, s) == s.op = r.op /\ s.asked = r.asked /\ s.tainted = r.tainted

(* What the database made of the texts of a group. *)
LEMMA InsertedTexts ==
  ASSUME NEW r, Own(r), TaintInv(r), PoolRestored, NEW c, r.held = {c}, r.at = "insert",
         NEW g \in r.groups, ~Throws(r, g), Insertable(r, g), r.blind = FALSE,
         NEW s, SameAsked(r, s), NEW i \in g, s.kept[i] = TextOf(r, g, i)
  PROVE  KeptAsAsked(s, i)
<1>1. /\ g \subseteq DOMAIN r.asked /\ g \subseteq Nat /\ Min(g) \in g /\ g \subseteq Of(r, r.of)
  BY GroupType DEF Grouping
<1>2. \A k \in DOMAIN r.asked : r.objects[k].text = r.asked[k].text /\ r.objects[k] \in Entity
  BY DEF Own, MadeInv, Unmade, RecordInv, ObjectsInv
<1>3. \A k \in DOMAIN r.asked : r.objects[k].text \in {"absent", "fit", "long"}
  BY <1>2 DEF Entity
<1>4. TextOf(r, g, i) = "cut" => KeptAsAsked(s, i)
  <2>1. SUFFICES ASSUME TextOf(r, g, i) = "cut" PROVE KeptAsAsked(s, i)
    OBVIOUS
  <2>2. Lax(r)
    BY <2>1 DEF Insertable
  <2>3. server = "MySQL" /\ (r.tainted \/ \E j \in DOMAIN r.asked : r.asked[j].key = 0)
    BY <2>2, InsertLax
  <2>4. QED
    BY <2>1, <2>3 DEF KeptAsAsked, SameAsked
<1>5. CASE TextColumn(r, g)
  <2>1. r.objects[i].text \in {"fit", "long"}
    BY <1>1, <1>3, <1>5 DEF Throws
  <2>2. TextOf(r, g, i) = "cut" \/ TextOf(r, g, i) = r.asked[i].text
    BY <1>1, <1>2, <1>5, <2>1 DEF TextOf
  <2>3. QED
    BY <1>4, <2>2 DEF KeptAsAsked, SameAsked
<1>6. CASE ~TextColumn(r, g)
  <2>1. r.objects[Min(g)].text = "absent"
    BY <1>6 DEF TextColumn, First
  <2>2. TextOf(r, g, i) \in {"cut", "absent"}
    BY <1>6 DEF TextOf
  <2>3. Uniform(r, g)
    BY DEF Own, GroupsInv, Grouping
  <2>4. CASE server = "PostgreSQL" /\ r.op = "create" /\ g = Of(r, r.of)
    <3>1. r.asked[i].of = r.of
      BY <1>1 DEF Of, Own, RecordInv, ObjectsInv
    <3>2. {j \in DOMAIN r.asked : r.asked[j].of = r.asked[i].of} = g
      BY <2>4, <3>1 DEF Of, Own, RecordInv, ObjectsInv
    <3>3. FirstWithout(r, i)
      BY <1>1, <1>2, <2>1, <3>2 DEF FirstWithout
    <3>4. FirstWithout(s, i)
      BY <3>3 DEF FirstWithout, SameAsked
    <3>5. QED
      BY <1>4, <2>2, <2>4, <3>4 DEF KeptAsAsked
  <2>5. CASE \A k, j \in g : r.objects[k].text = "absent" <=> r.objects[j].text = "absent"
    <3>1. r.asked[i].text = "absent"
      BY <1>1, <1>2, <2>1, <2>5
    <3>2. QED
      BY <1>4, <2>2, <3>1 DEF KeptAsAsked, SameAsked
  <2>6. QED
    BY <2>3, <2>4, <2>5 DEF Uniform
<1>7. QED
  BY <1>5, <1>6

LEMMA OtherTexts ==
  ASSUME NEW r, NEW s, SameAsked(r, s), NEW i, s.kept[i] = r.kept[i], KeptAsAsked(r, i)
  PROVE  KeptAsAsked(s, i)
BY DEF SameAsked, KeptAsAsked, SameRow, FirstWithout

(* What an INSERT of group g leaves. *)
InsertedAs(r, g, s) ==
  /\ Fields \subseteq DOMAIN s
  /\ SameAsked(r, s) /\ s.objects = r.objects /\ s.turns = r.turns /\ s.of = r.of /\ s.known = r.known
  /\ s.groups = r.groups \ {g} /\ s.group = g /\ s.changed = TRUE
  /\ s.held = r.held /\ s.raced = r.raced /\ s.blind = r.blind /\ s.answer = r.answer /\ s.left = r.left
  /\ s.at \in {"keys", "insert"}
  /\ s.at = "keys" <=> Asks(r.objects[First(g)])
  /\ DOMAIN s.mine = DOMAIN r.mine /\ DOMAIN s.kept = DOMAIN r.kept
  /\ \A i \in DOMAIN r.mine : s.mine[i] = IF i \in g THEN KeyOf(r, g, i) ELSE r.mine[i]
  /\ \A i \in DOMAIN r.kept : s.kept[i] = IF i \in g THEN TextOf(r, g, i) ELSE r.kept[i]

LEMMA InsertedFields ==
  ASSUME NEW r, Own(r), NEW g PROVE InsertedAs(r, g, Inserted(r, g))
<1> DEFINE m  == [i \in DOMAIN r.mine |-> IF i \in g THEN KeyOf(r, g, i) ELSE r.mine[i]]
           k  == [i \in DOMAIN r.kept |-> IF i \in g THEN TextOf(r, g, i) ELSE r.kept[i]]
           at == IF Asks(r.objects[First(g)]) THEN "keys" ELSE "insert"
           s  == [r EXCEPT !.groups = @ \ {g}, !.group = g, !.changed = TRUE, !.at = at, !.mine = m, !.kept = k]
<1>1. Inserted(r, g) = s
  BY DEF Inserted
<1> HIDE DEF m, k, at
<1>2. /\ Fields \subseteq DOMAIN s
      /\ SameAsked(r, s) /\ s.objects = r.objects /\ s.turns = r.turns /\ s.of = r.of /\ s.known = r.known
      /\ s.groups = r.groups \ {g} /\ s.group = g /\ s.changed = TRUE
      /\ s.held = r.held /\ s.raced = r.raced /\ s.blind = r.blind /\ s.answer = r.answer /\ s.left = r.left
      /\ s.at = at /\ s.mine = m /\ s.kept = k
  BY DEF Own, RecordInv, Fields, SameAsked
<1> HIDE DEF s
<1>3. InsertedAs(r, g, s)
  BY <1>2 DEF InsertedAs, m, k, at
<1>4. QED
  BY <1>1, <1>3

LEMMA InsertedOwn ==
  ASSUME NEW r, Own(r), KeysInv(r), TaintInv(r), PoolRestored, TablesInv, NEW c, r.held = {c},
         r.at = "insert", NEW g \in r.groups, ~Throws(r, g), Insertable(r, g), NEW s, InsertedAs(r, g, s)
  PROVE  Own(s) /\ KeysInv(s) /\ TaintInv(s)
<1>1. /\ Fields \subseteq DOMAIN s
      /\ SameAsked(r, s) /\ s.objects = r.objects /\ s.turns = r.turns /\ s.of = r.of /\ s.known = r.known
      /\ s.groups = r.groups \ {g} /\ s.group = g /\ s.changed = TRUE
      /\ s.held = r.held /\ s.raced = r.raced /\ s.blind = r.blind /\ s.answer = r.answer /\ s.left = r.left
      /\ DOMAIN s.mine = DOMAIN r.mine /\ DOMAIN s.kept = DOMAIN r.kept
      /\ \A i \in DOMAIN r.mine : s.mine[i] = IF i \in g THEN KeyOf(r, g, i) ELSE r.mine[i]
      /\ \A i \in DOMAIN r.kept : s.kept[i] = IF i \in g THEN TextOf(r, g, i) ELSE r.kept[i]
  BY DEF InsertedAs
<1>2. /\ s.at \in {"keys", "insert"}
      /\ s.at = "keys" <=> Asks(r.objects[First(g)])
  BY DEF InsertedAs
<1>3. /\ g \subseteq DOMAIN r.asked /\ Min(g) \in g /\ g \subseteq Of(r, r.of) /\ g # {}
  BY GroupType DEF Grouping
<1>4. /\ r.of \in Names /\ \A i \in g : KeyOf(r, g, i) \in Int
      /\ \A i \in g : TextOf(r, g, i) \in {"absent", "fit", "cut"}
  BY RowsType
<1>5. \A m : Of(s, m) = Of(r, m)
  BY <1>1 DEF Of
<1>6. /\ r.op = "create" /\ DOMAIN r.mine = DOMAIN r.asked /\ DOMAIN r.kept = DOMAIN r.asked
  BY DEF Own, PlaceInv, RecordInv, ResultsInv
<1>7. r.objects[First(g)].key < 0 => Negative(r)
  <2>1. r.objects[First(g)].key = r.asked[First(g)].key \/ Negative(r)
    BY <1>3 DEF Own, MadeInv, First
  <2>2. QED
    BY <1>3, <2>1 DEF Negative, First
<1>8. RecordInv(s)
  <2>1. AskedInv(s) /\ ObjectsInv(s)
    BY <1>1 DEF Own, RecordInv, AskedInv, ObjectsInv, SameAsked
  <2>2. ResultsInv(s)
    BY <1>1, <1>4, <1>6 DEF Own, RecordInv, ResultsInv, SameAsked
  <2>3. \A h \in s.groups \cup {s.group} : h \subseteq DOMAIN s.asked
    <3>1. \A h \in r.groups : h \subseteq DOMAIN r.asked
      BY DEF Own, RecordInv, RestInv
    <3>2. QED
      BY <1>1, <1>3, <3>1 DEF SameAsked
  <2>4. RestInv(s)
    <3>1. RestInv(r)
      BY DEF Own, RecordInv
    <3>2. /\ s.answer \in {"none", "ok", "error", "thrown"}
          /\ \A n \in s.turns : \E i \in DOMAIN s.asked : s.asked[i].of = n
          /\ s.left \subseteq DOMAIN s.asked
      BY <1>1, <3>1 DEF RestInv, SameAsked
    <3>3. /\ s.known \in BOOLEAN /\ s.changed \in BOOLEAN /\ s.raced \in BOOLEAN
          /\ s.blind \in BOOLEAN /\ s.tainted \in BOOLEAN
      BY <1>1, <3>1 DEF RestInv, SameAsked
    <3>4. s.at \notin {"idle", "make", "check"}
      BY <1>2
    <3>5. QED
      BY <2>3, <3>2, <3>3, <3>4 DEF RestInv
  <2>5. QED
    BY <1>1, <1>2, <2>1, <2>2, <2>4 DEF RecordInv, Holding
<1>9. PlaceInv(s)
  BY <1>1, <1>2, <1>4, <1>6 DEF PlaceInv, SameAsked, Before
<1>10. GroupsInv(s)
  <2>1. \A h \in r.groups : Uniform(r, h) => Uniform(s, h)
    BY <1>1, <1>5 DEF Uniform, SameAsked
  <2>2. \A h \in s.groups : h \in r.groups /\ h \cap g = {}
    BY <1>1 DEF Own, GroupsInv, Grouping
  <2>3. QED
    BY <1>1, <1>2, <1>3, <1>5, <2>1, <2>2 DEF Own, GroupsInv, Grouping
<1>11. MadeInv(s)
  <2>1. Negative(s) <=> Negative(r)
    BY <1>1 DEF Negative, SameAsked
  <2>2. QED
    BY <1>1, <1>2, <1>7, <2>1 DEF Own, MadeInv, Unmade, SameAsked, Asks
<1>12. KeptInv(s)
  <2>1. SUFFICES ASSUME s.blind = FALSE, NEW i \in DOMAIN s.asked PROVE KeptAsAsked(s, i)
    BY DEF KeptInv
  <2>2. CASE i \in g
    <3>1. s.kept[i] = TextOf(r, g, i) /\ r.blind = FALSE
      BY <1>1, <1>3, <1>6, <2>1, <2>2
    <3>2. QED
      BY <1>1, <2>2, <3>1, InsertedTexts, ZenonT(60)
  <2>3. CASE i \notin g
    BY <1>1, <1>6, <2>1, <2>3, OtherTexts DEF Own, KeptInv, SameAsked
  <2>4. QED
    BY <2>2, <2>3
<1>13. OnceInv(s)
  <2>1. SUFFICES ASSUME Single(s)
                 PROVE  /\ s.at \in Holding \ {"turn"} => s.turns = {}
                        /\ s.at = "insert" => \A h \in s.groups : h = Of(s, s.of) /\ s.changed = FALSE
                        /\ s.changed # FALSE => s.at \in {"insert", "turn"} /\ s.turns = {}
    BY DEF OnceInv
  <2>2. Single(r)
    BY <1>1, <2>1 DEF Single, Torn, Alike, Several, SameAsked
  <2>3. ~Negative(r)
    BY <1>6, <2>2 DEF Single, Several, Negative
  <2>4. s.at = "insert"
    BY <1>2, <1>7, <2>3 DEF Asks
  <2>5. r.turns = {} /\ \A h \in r.groups : h = Of(r, r.of)
    BY <2>2 DEF Own, OnceInv, Holding
  <2>6. s.groups = {}
    BY <1>1, <2>5
  <2>7. QED
    BY <1>1, <2>4, <2>5, <2>6
<1>14. KeysInv(s)
  <2>1. SUFFICES ASSUME s.blind = FALSE, s.raced = FALSE
                 PROVE  /\ \A i \in DOMAIN s.asked : s.objects[i].id = (s.objects[i].key >= 0)
                        /\ \A i \in DOMAIN s.asked : Pending(s, i) \/ s.objects[i].key = s.mine[i]
    BY DEF KeysInv
  <2>2. \A i \in DOMAIN r.asked : r.objects[i].id = (r.objects[i].key >= 0)
    BY <1>1, <1>6, <2>1 DEF KeysInv, Unmade
  <2>3. ASSUME NEW i \in DOMAIN r.asked PROVE Pending(s, i) \/ s.objects[i].key = s.mine[i]
    <3>1. CASE i \in g /\ s.at = "keys"
      BY <1>1, <3>1 DEF Pending
    <3>2. CASE i \in g /\ s.at = "insert"
      <4>1. r.objects[First(g)].key >= 0
        <5>1. r.objects[First(g)].key \in Int
          BY <1>3 DEF Own, RecordInv, ObjectsInv, Entity, First
        <5>2. ~(r.objects[First(g)].key < 0)
          BY <1>2, <3>2 DEF Asks
        <5>3. QED
          BY <5>1, <5>2
      <4>2. IdColumn(r, g)
        BY <1>3, <2>2, <4>1 DEF IdColumn, First
      <4>3. KeyOf(r, g, i) = r.objects[i].key
        BY <4>2 DEF KeyOf
      <4>4. QED
        BY <1>1, <1>6, <3>2, <4>3
    <3>3. CASE i \notin g
      <4>1. r.asked[i].of \in r.turns \/ i \in UNION r.groups \/ r.objects[i].key = r.mine[i]
        BY <1>1, <1>6, <2>1 DEF KeysInv, Pending, Holding
      <4>2. i \in UNION r.groups => i \in UNION s.groups
        BY <1>1, <3>3
      <4>3. QED
        BY <1>1, <1>2, <1>6, <3>3, <4>1, <4>2 DEF Pending, SameAsked
    <3>4. QED
      BY <1>2, <3>1, <3>2, <3>3
  <2>4. QED
    BY <1>1, <2>2, <2>3 DEF SameAsked
<1>15. TaintInv(s)
  BY <1>1 DEF TaintInv, SameAsked
<1>16. QED
  BY <1>8, <1>9, <1>10, <1>11, <1>12, <1>13, <1>14, <1>15 DEF Own

LEMMA InsertedLast ==
  ASSUME NEW r, Own(r), KeysInv(r), TablesInv, r.at = "insert", NEW g \in r.groups, NEW s, InsertedAs(r, g, s)
  PROVE  LastInv(s, NextKey(r, g))
<1>1. /\ s.group = g /\ s.raced = r.raced /\ s.blind = r.blind
      /\ s.at = "keys" => Asks(r.objects[First(g)])
      /\ \A i \in DOMAIN r.mine : s.mine[i] = IF i \in g THEN KeyOf(r, g, i) ELSE r.mine[i]
  BY DEF InsertedAs
<1>2. /\ g \subseteq DOMAIN r.asked /\ Min(g) \in g /\ Cardinality(g) \in Nat
      /\ \A i \in g : Cardinality({j \in g : j < i}) \in 0 .. Cardinality(g) - 1
  BY GroupType DEF Grouping
<1>3. r.op = "create" /\ DOMAIN r.mine = DOMAIN r.asked
  BY DEF Own, PlaceInv, RecordInv, ResultsInv
<1>4. next[r.of] \in Nat \ {0}
  BY RowsType
<1>5. SUFFICES ASSUME s.at = "keys", r.blind = FALSE, r.raced = FALSE, NEW i \in g
               PROVE  /\ s.mine[i] >= 0
                      /\ s.mine[i] = NextKey(r, g) - Cardinality(g) + Cardinality({j \in g : j < i})
  BY <1>1 DEF LastInv
<1>6. ~IdColumn(r, g)
  <2>1. r.objects[First(g)].id = (r.objects[First(g)].key >= 0) /\ r.objects[First(g)] \in Entity
    BY <1>2, <1>3, <1>5 DEF KeysInv, Unmade, First, Own, RecordInv, ObjectsInv
  <2>2. r.objects[First(g)].key \in Int
    BY <2>1 DEF Entity
  <2>3. ~(r.objects[First(g)].key >= 0)
    BY <1>1, <1>5, <2>2 DEF Asks
  <2>4. QED
    BY <2>1, <2>3 DEF IdColumn
<1> DEFINE before == Cardinality({j \in g : j < i})
           size   == Cardinality(g)
<1>7. s.mine[i] = next[r.of] + before
  BY <1>1, <1>2, <1>3, <1>5, <1>6 DEF KeyOf
<1>8. NextKey(r, g) = next[r.of] + size
  BY <1>6 DEF NextKey
<1>9. before \in Nat /\ size \in Nat
  BY <1>2
<1>10. QED
  <2> HIDE DEF before, size
  <2>1. s.mine[i] >= 0 /\ s.mine[i] = NextKey(r, g) - size + before
    BY <1>4, <1>7, <1>8, <1>9
  <2>2. QED
    BY <2>1 DEF before, size

-----------------------------------------------------------------------------
(* QueryKeys. *)

LEMMA LastGroupType ==
  ASSUME NEW r, Own(r), r.at = "keys"
  PROVE  LET g == r.group IN
         /\ g \subseteq DOMAIN r.asked /\ g \subseteq Nat /\ IsFiniteSet(g) /\ g # {}
         /\ g \subseteq Of(r, r.of) /\ r.of \in Names
         /\ Cardinality(g) \in Nat
         /\ \A i \in g : Cardinality({j \in g : j < i}) \in 0 .. Cardinality(g) - 1
         /\ \E i \in g : Cardinality({j \in g : j < i}) = Cardinality(g) - 1
         /\ {r.mine[i] : i \in g} \subseteq Int /\ IsFiniteSet({r.mine[i] : i \in g})
         /\ {r.mine[i] : i \in g} # {}
<1> DEFINE g == r.group
<1>1. g \subseteq DOMAIN r.asked /\ DOMAIN r.asked \subseteq Nat /\ IsFiniteSet(DOMAIN r.asked)
  BY DEF Own, RecordInv, RestInv, AskedInv
<1>2. g # {} /\ g \subseteq Of(r, r.of) /\ r.of \in Names
  BY DEF Own, GroupsInv, Grouping, PlaceInv, Holding
<1>3. g \subseteq Nat /\ IsFiniteSet(g)
  BY <1>1, FS_Subset
<1>4. /\ Cardinality(g) \in Nat
      /\ \A i \in g : Cardinality({j \in g : j < i}) \in 0 .. Cardinality(g) - 1
      /\ \E i \in g : Cardinality({j \in g : j < i}) = Cardinality(g) - 1
  <2> HIDE DEF g
  <2>1. QED
    BY <1>2, <1>3, Preceding
<1>5. {r.mine[i] : i \in g} \subseteq Int /\ {r.mine[i] : i \in g} # {}
  BY <1>1, <1>2 DEF Own, RecordInv, ResultsInv
<1>6. IsFiniteSet({r.mine[i] : i \in g})
  BY <1>3, FiniteImage
<1>7. QED
  BY <1>1, <1>2, <1>3, <1>4, <1>5, <1>6

(* The two keys the database may give. *)
LastKeys(r) == {next[r.of] - 1, Max({r.mine[i] : i \in r.group})}

LEMMA LastKeysType ==
  ASSUME NEW r, Own(r), r.at = "keys", TablesInv PROVE LastKeys(r) \subseteq Int
<1>1. /\ {r.mine[i] : i \in r.group} \subseteq Int /\ IsFiniteSet({r.mine[i] : i \in r.group})
      /\ {r.mine[i] : i \in r.group} # {} /\ r.of \in Names
  BY LastGroupType
<1>2. Max({r.mine[i] : i \in r.group}) \in Int
  BY <1>1, MaxOf
<1>3. next[r.of] \in Nat
  BY <1>1 DEF TablesInv
<1>4. QED
  BY <1>2, <1>3 DEF LastKeys

(* If no other INSERT came between, both are the key of the last row. *)
LEMMA LastKeysAgree ==
  ASSUME NEW r, Own(r), r.at = "keys", TablesInv, LastInv(r, next[r.of]), r.blind = FALSE, r.raced = FALSE,
         NEW last \in LastKeys(r)
  PROVE  last = next[r.of] - 1
<1> DEFINE g    == r.group
           T    == {r.mine[i] : i \in g}
           size == Cardinality(g)
           before(i) == Cardinality({j \in g : j < i})
<1>1. T \subseteq Int /\ IsFiniteSet(T) /\ T # {} /\ r.of \in Names
  BY LastGroupType
<1>2. size \in Nat /\ \A i \in g : before(i) \in 0 .. size - 1
  BY LastGroupType
<1>3. PICK k \in g : before(k) = size - 1
  BY LastGroupType
<1>4. next[r.of] \in Nat
  BY <1>1 DEF TablesInv
<1>5. \A i \in g : r.mine[i] = next[r.of] - size + before(i)
  BY DEF LastInv
<1>6. Max(T) \in T /\ \A y \in T : y <= Max(T)
  <2> HIDE DEF T
  <2>1. QED
    BY <1>1, MaxOf
<1>7. PICK i \in g : Max(T) = r.mine[i]
  BY <1>6
<1>8. r.mine[k] <= Max(T)
  BY <1>6
<1>9. Max(T) = next[r.of] - 1
  <2> HIDE DEF T, size, before, g
  <2>1. before(i) \in 0 .. size - 1 /\ before(k) = size - 1
    BY <1>2, <1>3
  <2>2. Max(T) = next[r.of] - size + before(i) /\ r.mine[k] = next[r.of] - size + (size - 1)
    BY <1>3, <1>5, <1>7
  <2>3. Max(T) <= next[r.of] - 1 /\ next[r.of] - 1 <= Max(T)
    BY <1>2, <1>4, <1>8, <2>1, <2>2
  <2>4. Max(T) \in Int
    BY <1>1, <1>6
  <2>5. QED
    BY <1>4, <2>3, <2>4
<1>10. QED
  BY <1>9 DEF LastKeys

KeyedAs(r, last, s) ==
  /\ Fields \subseteq DOMAIN s
  /\ s.at = "insert" /\ SameAsked(r, s)
  /\ s.turns = r.turns /\ s.of = r.of /\ s.known = r.known /\ s.groups = r.groups /\ s.group = r.group
  /\ s.held = r.held /\ s.raced = r.raced /\ s.blind = r.blind /\ s.changed = r.changed
  /\ s.mine = r.mine /\ s.kept = r.kept /\ s.answer = r.answer /\ s.left = r.left
  /\ DOMAIN s.objects = DOMAIN r.objects
  /\ \A i \in DOMAIN r.objects \ r.group : s.objects[i] = r.objects[i]
  /\ \A i \in r.group :
       /\ s.objects[i] \in Entity /\ s.objects[i].id = TRUE
       /\ s.objects[i].of = r.objects[i].of /\ s.objects[i].text = r.objects[i].text
       /\ s.objects[i].key = FirstId(last, r.group) + Cardinality({j \in r.group : j < i})

LEMMA KeyedFields ==
  ASSUME NEW r, Own(r), r.at = "keys", NEW last \in Int
  PROVE  KeyedAs(r, last, [r EXCEPT !.at = "insert",
           !.objects = [i \in DOMAIN @ |->
             IF i \notin r.group THEN @[i]
             ELSE [@[i] EXCEPT !.id = TRUE,
                     !.key = FirstId(last, r.group) + Cardinality({j \in r.group : j < i})]]])
<1> DEFINE key(i) == FirstId(last, r.group) + Cardinality({j \in r.group : j < i})
           o == [i \in DOMAIN r.objects |->
                  IF i \notin r.group THEN r.objects[i] ELSE [r.objects[i] EXCEPT !.id = TRUE, !.key = key(i)]]
           s == [r EXCEPT !.at = "insert", !.objects = o]
<1>1. \A i \in r.group : key(i) \in Int
  <2> DEFINE size == Cardinality(r.group)
             before(i) == Cardinality({j \in r.group : j < i})
  <2>1. size \in Nat /\ \A i \in r.group : before(i) \in 0 .. size - 1
    BY LastGroupType
  <2>2. \A i : key(i) = last - size + 1 + before(i)
    BY DEF FirstId
  <2> HIDE DEF size, before, key
  <2>3. QED
    BY <2>1, <2>2
<1>2. r.group \subseteq DOMAIN r.objects /\ \A i \in r.group : r.objects[i] \in Entity
  <2>1. r.group \subseteq DOMAIN r.asked
    BY LastGroupType
  <2>2. QED
    BY <2>1 DEF Own, RecordInv, ObjectsInv
<1>3. \A i \in r.group : key(i) = FirstId(last, r.group) + Cardinality({j \in r.group : j < i})
  OBVIOUS
<1> HIDE DEF key
<1>4. /\ DOMAIN o = DOMAIN r.objects
      /\ \A i \in DOMAIN r.objects \ r.group : o[i] = r.objects[i]
      /\ \A i \in r.group : /\ o[i] \in Entity /\ o[i].id = TRUE /\ o[i].of = r.objects[i].of
                            /\ o[i].text = r.objects[i].text /\ o[i].key = key(i)
  BY <1>1, <1>2 DEF Entity
<1>5. s = [r EXCEPT !.at = "insert",
           !.objects = [i \in DOMAIN @ |->
             IF i \notin r.group THEN @[i]
             ELSE [@[i] EXCEPT !.id = TRUE,
                     !.key = FirstId(last, r.group) + Cardinality({j \in r.group : j < i})]]]
  BY DEF key
<1> HIDE DEF o
<1>6. /\ Fields \subseteq DOMAIN s
      /\ s.at = "insert" /\ SameAsked(r, s)
      /\ s.turns = r.turns /\ s.of = r.of /\ s.known = r.known /\ s.groups = r.groups /\ s.group = r.group
      /\ s.held = r.held /\ s.raced = r.raced /\ s.blind = r.blind /\ s.changed = r.changed
      /\ s.mine = r.mine /\ s.kept = r.kept /\ s.answer = r.answer /\ s.left = r.left /\ s.objects = o
  BY DEF Own, RecordInv, Fields, SameAsked
<1> HIDE DEF s
<1>7. KeyedAs(r, last, s)
  BY <1>3, <1>4, <1>6 DEF KeyedAs
<1>8. QED
  BY <1>5, <1>7

LEMMA KeyedOwn ==
  ASSUME NEW r, Own(r), KeysInv(r), TaintInv(r), LastInv(r, next[r.of]), TablesInv, r.at = "keys",
         NEW last \in LastKeys(r), NEW s, KeyedAs(r, last, s)
  PROVE  Own(s) /\ KeysInv(s) /\ TaintInv(s)
<1>1. /\ Fields \subseteq DOMAIN s
      /\ s.at = "insert" /\ SameAsked(r, s)
      /\ s.turns = r.turns /\ s.of = r.of /\ s.known = r.known /\ s.groups = r.groups /\ s.group = r.group
      /\ s.held = r.held /\ s.raced = r.raced /\ s.blind = r.blind /\ s.changed = r.changed
      /\ s.mine = r.mine /\ s.kept = r.kept /\ s.answer = r.answer /\ s.left = r.left
      /\ DOMAIN s.objects = DOMAIN r.objects
  BY DEF KeyedAs
<1>2. /\ \A i \in DOMAIN r.objects \ r.group : s.objects[i] = r.objects[i]
      /\ \A i \in r.group :
           /\ s.objects[i] \in Entity /\ s.objects[i].id = TRUE
           /\ s.objects[i].of = r.objects[i].of /\ s.objects[i].text = r.objects[i].text
           /\ s.objects[i].key = FirstId(last, r.group) + Cardinality({j \in r.group : j < i})
  BY DEF KeyedAs
<1>3. /\ DOMAIN r.objects = DOMAIN r.asked
      /\ \A i \in DOMAIN r.asked : r.objects[i] \in Entity /\ r.objects[i].of = r.asked[i].of
  BY DEF Own, RecordInv, ObjectsInv
<1>4. \A i \in DOMAIN r.asked :
        /\ s.objects[i] \in Entity /\ s.objects[i].of = r.objects[i].of /\ s.objects[i].text = r.objects[i].text
  BY <1>1, <1>2, <1>3
<1>5. \A m : Of(s, m) = Of(r, m)
  BY <1>1, <1>3, <1>4 DEF Of
<1>6. r.op = "create" /\ Negative(r)
  BY DEF Own, PlaceInv, MadeInv
<1>7. Negative(s)
  BY <1>1, <1>6 DEF Negative, SameAsked
<1>8. RecordInv(s)
  <2>1. AskedInv(s)
    BY <1>1 DEF Own, RecordInv, AskedInv, SameAsked
  <2>2. ObjectsInv(s)
    BY <1>1, <1>3, <1>4 DEF ObjectsInv, SameAsked
  <2>3. ResultsInv(s)
    BY <1>1 DEF Own, RecordInv, ResultsInv, SameAsked
  <2>4. RestInv(s)
    BY <1>1 DEF Own, RecordInv, RestInv, SameAsked
  <2>5. QED
    BY <1>1, <2>1, <2>2, <2>3, <2>4 DEF RecordInv, Holding
<1>9. PlaceInv(s)
  <2>1. r.of \in Names
    BY LastGroupType
  <2>2. QED
    BY <1>1, <1>6, <2>1 DEF PlaceInv, SameAsked, Before
<1>10. GroupsInv(s)
  <2>1. ASSUME NEW g \in r.groups, Uniform(r, g) PROVE Uniform(s, g)
    <3>1. g \subseteq DOMAIN r.asked
      BY DEF Own, RecordInv, RestInv
    <3>2. QED
      BY <1>1, <1>4, <1>5, <2>1, <3>1 DEF Uniform, SameAsked
  <2>2. QED
    BY <1>1, <1>5, <2>1 DEF Own, GroupsInv, Grouping
<1>11. MadeInv(s)
  <2>1. r.blind = FALSE => r.known = TRUE /\ \A i \in DOMAIN r.asked : r.objects[i].text = r.asked[i].text
    BY DEF Own, MadeInv, Unmade
  <2>2. QED
    BY <1>1, <1>4, <1>6, <1>7, <2>1 DEF MadeInv, SameAsked
<1>12. KeptInv(s)
  <2>1. SUFFICES ASSUME s.blind = FALSE, NEW i \in DOMAIN s.asked PROVE KeptAsAsked(s, i)
    BY DEF KeptInv
  <2>2. s.kept[i] = r.kept[i] /\ KeptAsAsked(r, i)
    BY <1>1, <2>1 DEF Own, KeptInv, SameAsked
  <2>3. QED
    BY <1>1, <2>2, OtherTexts
<1>13. OnceInv(s)
  <2>1. ~Single(s)
    BY <1>1, <1>6, <1>7 DEF Single, Several, Negative, SameAsked
  <2>2. QED
    BY <2>1 DEF OnceInv
<1>14. KeysInv(s)
  <2>1. SUFFICES ASSUME s.blind = FALSE, s.raced = FALSE
                 PROVE  /\ \A i \in DOMAIN s.asked : s.objects[i].id = (s.objects[i].key >= 0)
                        /\ \A i \in DOMAIN s.asked : Pending(s, i) \/ s.objects[i].key = s.mine[i]
    BY DEF KeysInv
  <2>2. /\ \A i \in DOMAIN r.asked : r.objects[i].id = (r.objects[i].key >= 0)
        /\ \A i \in DOMAIN r.asked : Pending(r, i) \/ r.objects[i].key = r.mine[i]
    BY <1>1, <1>6, <2>1 DEF KeysInv, Unmade, Holding
  <2>3. ASSUME NEW i \in r.group PROVE s.objects[i].key = r.mine[i] /\ r.mine[i] >= 0
    <3> DEFINE size   == Cardinality(r.group)
               before == Cardinality({j \in r.group : j < i})
    <3>1. last = next[r.of] - 1
      BY <1>1, <2>1, LastKeysAgree
    <3>2. r.mine[i] >= 0 /\ r.mine[i] = next[r.of] - size + before
      BY <1>1, <2>1 DEF LastInv
    <3>3. s.objects[i].key = last - size + 1 + before
      BY <1>2 DEF FirstId
    <3>4. next[r.of] \in Nat /\ size \in Nat /\ before \in 0 .. size - 1
      <4>1. r.of \in Names
        BY LastGroupType
      <4>2. size \in Nat /\ before \in 0 .. size - 1
        BY LastGroupType
      <4>3. QED
        BY <4>1, <4>2 DEF TablesInv
    <3>5. QED
      <4> HIDE DEF size, before
      <4>1. QED
        BY <3>1, <3>2, <3>3, <3>4
  <2>4. ASSUME NEW i \in DOMAIN r.asked
        PROVE  /\ s.objects[i].id = (s.objects[i].key >= 0)
               /\ Pending(s, i) \/ s.objects[i].key = s.mine[i]
    <3>1. CASE i \in r.group
      BY <1>1, <1>2, <2>3, <3>1
    <3>2. CASE i \notin r.group
      <4>1. s.objects[i] = r.objects[i]
        BY <1>2, <1>3, <3>2
      <4>2. Pending(r, i) => Pending(s, i)
        BY <1>1, <3>2 DEF Pending, SameAsked
      <4>3. QED
        BY <1>1, <2>2, <4>1, <4>2
    <3>3. QED
      BY <3>1, <3>2
  <2>5. QED
    BY <1>1, <2>4 DEF SameAsked
<1>15. TaintInv(s)
  BY <1>1 DEF TaintInv, SameAsked
<1>16. QED
  BY <1>8, <1>9, <1>10, <1>11, <1>12, <1>13, <1>14, <1>15 DEF Own

-----------------------------------------------------------------------------
(* UpdateRows. *)

UpdatedAs(r, g, s) ==
  /\ Fields \subseteq DOMAIN s
  /\ s.at = "reload" /\ SameAsked(r, s) /\ s.objects = r.objects
  /\ s.turns = r.turns /\ s.of = r.of /\ s.known = r.known /\ s.groups = r.groups \ {g} /\ s.group = r.group
  /\ s.held = r.held /\ s.raced = r.raced /\ s.blind = r.blind /\ s.changed = TRUE
  /\ s.mine = r.mine /\ s.answer = r.answer /\ s.left = r.left
  /\ DOMAIN s.kept = DOMAIN r.kept

(* What becomes of the texts of the rows with the key of an object. *)
LEMMA UpdatedTexts ==
  ASSUME NEW r, Own(r), TaintInv(r), PoolRestored, NEW c, r.held = {c}, r.at = "update",
         NEW g \in r.groups, Updatable(r, g), r.blind = FALSE, TablesInv,
         NEW i \in g, NEW w \in rows[r.of], w.key = r.objects[i].key, HasText(r, g),
         NEW s, SameAsked(r, s), s.kept[i] = Updated(r, g, w).text
  PROVE  KeptAsAsked(s, i)
<1>1. /\ g \subseteq DOMAIN r.asked /\ g \subseteq Nat /\ g \subseteq Of(r, r.of)
  BY GroupType DEF Grouping
<1>2. r.op = "update" /\ r.of \in Names
  BY DEF Own, PlaceInv, Holding
<1>3. \A k \in DOMAIN r.asked :
        /\ r.objects[k].text = r.asked[k].text /\ r.objects[k] \in Entity
        /\ r.objects[k].key = r.asked[k].key /\ r.objects[k].of = r.asked[k].of
  BY <1>2 DEF Own, MadeInv, Unmade, RecordInv, ObjectsInv
<1> DEFINE m == Matched(r, g, w)
<1>4. i \in m /\ m \subseteq g
  BY DEF Matched
<1>5. First(m) \in m
  <2> HIDE DEF m
  <2>1. QED
    BY <1>1, <1>4, MinOf DEF First
<1> DEFINE j == First(m)
<1>6. j \in g /\ j \in DOMAIN r.asked /\ r.objects[j].key = w.key
  BY <1>1, <1>5 DEF Matched
<1>7. r.objects[j].text \in {"fit", "long"}
  <2>1. Uniform(r, g)
    BY DEF Own, GroupsInv, Grouping
  <2>2. \A k, l \in g : r.objects[k].text = "absent" <=> r.objects[l].text = "absent"
    BY <1>2, <2>1 DEF Uniform
  <2>3. r.objects[j].text # "absent"
    BY <1>6, <2>2 DEF HasText
  <2>4. r.objects[j] \in Entity
    BY <1>3, <1>6
  <2>5. QED
    BY <2>3, <2>4 DEF Entity
<1>8. w \in Row
  BY <1>2 DEF TablesInv
<1>9. s.kept[i] = IF r.objects[j].text = "long" THEN "cut" ELSE "fit"
  BY <1>4, <1>8 DEF Updated, Row
<1>10. CASE r.objects[j].text = "long"
  <2>1. server = "MySQL" /\ r.held \subseteq lax
    BY <1>4, <1>10 DEF Updatable
  <2>2. r.tainted = TRUE
    BY <2>1, LaxTold
  <2>3. QED
    BY <1>9, <1>10, <2>1, <2>2 DEF KeptAsAsked, SameAsked
<1>11. CASE r.objects[j].text = "fit"
  <2>1. SameRow(r, i, j)
    BY <1>1, <1>2, <1>3, <1>6 DEF SameRow, Of
  <2>2. r.asked[j].text = "fit"
    BY <1>3, <1>6, <1>11
  <2>3. s.kept[i] = "fit"
    BY <1>9, <1>11
  <2> HIDE DEF j
  <2>4. QED
    BY <1>6, <2>1, <2>2, <2>3 DEF KeptAsAsked, SameRow, SameAsked
<1>12. QED
  BY <1>7, <1>10, <1>11

LEMMA UpdatedRow ==
  ASSUME NEW r, NEW g, NEW w \in Row PROVE Updated(r, g, w) \in Row /\ Updated(r, g, w).key = w.key
BY DEF Updated, Row, Stored

(* The text of an object is that of a row with its key, if there is one. *)
KeptFrom(r, g, i, text) == \E w \in rows[r.of] : w.key = r.objects[i].key /\ text = Updated(r, g, w).text

LEMMA UpdatedOwn ==
  ASSUME NEW r, Own(r), KeysInv(r), TaintInv(r), PoolRestored, TablesInv, NEW c, r.held = {c},
         r.at = "update", NEW g \in r.groups, Updatable(r, g), NEW s, UpdatedAs(r, g, s),
         \A i \in DOMAIN r.kept : s.kept[i] = r.kept[i] \/ (i \in g /\ KeptFrom(r, g, i, s.kept[i]))
  PROVE  Own(s) /\ KeysInv(s) /\ TaintInv(s)
<1>1. /\ Fields \subseteq DOMAIN s
      /\ s.at = "reload" /\ SameAsked(r, s) /\ s.objects = r.objects
      /\ s.turns = r.turns /\ s.of = r.of /\ s.known = r.known /\ s.groups = r.groups \ {g} /\ s.group = r.group
      /\ s.held = r.held /\ s.raced = r.raced /\ s.blind = r.blind /\ s.changed = TRUE
      /\ s.mine = r.mine /\ s.answer = r.answer /\ s.left = r.left
      /\ DOMAIN s.kept = DOMAIN r.kept
  BY DEF UpdatedAs
<1>2. /\ g \subseteq DOMAIN r.asked /\ g \subseteq Of(r, r.of)
  BY GroupType DEF Grouping
<1>3. r.op = "update" /\ r.of \in Names /\ DOMAIN r.kept = DOMAIN r.asked
  BY DEF Own, PlaceInv, Holding, RecordInv, ResultsInv
<1>4. \A m : Of(s, m) = Of(r, m)
  BY <1>1 DEF Of
<1>5. RecordInv(s)
  <2>1. AskedInv(s) /\ ObjectsInv(s)
    BY <1>1 DEF Own, RecordInv, AskedInv, ObjectsInv, SameAsked
  <2>2. ASSUME NEW i \in DOMAIN r.asked PROVE s.kept[i] \in {"nothing", "absent", "fit", "cut"}
    <3>1. CASE s.kept[i] = r.kept[i]
      BY <1>3, <3>1 DEF Own, RecordInv, ResultsInv
    <3>2. CASE KeptFrom(r, g, i, s.kept[i])
      <4>1. PICK w \in rows[r.of] : s.kept[i] = Updated(r, g, w).text
        BY <3>2 DEF KeptFrom
      <4>2. w \in Row
        BY <1>3 DEF TablesInv
      <4>3. Updated(r, g, w) \in Row
        BY <4>2, UpdatedRow
      <4>4. QED
        BY <4>1, <4>3 DEF Row, Stored
    <3>3. QED
      BY <1>3, <3>1, <3>2
  <2>3. ResultsInv(s)
    BY <1>1, <1>3, <2>2 DEF Own, RecordInv, ResultsInv, SameAsked
  <2>4. RestInv(s)
    <3>1. RestInv(r)
      BY DEF Own, RecordInv
    <3>2. /\ s.answer \in {"none", "ok", "error", "thrown"}
          /\ \A n \in s.turns : \E i \in DOMAIN s.asked : s.asked[i].of = n
          /\ \A h \in s.groups \cup {s.group} : h \subseteq DOMAIN s.asked
          /\ s.left \subseteq DOMAIN s.asked
      BY <1>1, <3>1 DEF RestInv, SameAsked
    <3>3. /\ s.known \in BOOLEAN /\ s.changed \in BOOLEAN /\ s.raced \in BOOLEAN
          /\ s.blind \in BOOLEAN /\ s.tainted \in BOOLEAN
      BY <1>1, <3>1 DEF RestInv, SameAsked
    <3>4. QED
      BY <1>1, <3>2, <3>3 DEF RestInv
  <2>5. QED
    BY <1>1, <2>1, <2>3, <2>4 DEF RecordInv, Holding
<1>6. PlaceInv(s)
  BY <1>1, <1>3 DEF PlaceInv, SameAsked, Before
<1>7. GroupsInv(s)
  <2>1. \A h \in r.groups : Uniform(r, h) => Uniform(s, h)
    BY <1>1, <1>4 DEF Uniform, SameAsked
  <2>2. QED
    BY <1>1, <1>4, <2>1 DEF Own, GroupsInv, Grouping
<1>8. MadeInv(s)
  <2>1. r.blind = FALSE => r.known = TRUE /\ \A i \in DOMAIN r.asked : r.objects[i].text = r.asked[i].text
    BY DEF Own, MadeInv, Unmade
  <2>2. \A i \in DOMAIN r.asked : r.objects[i].key = r.asked[i].key
    BY <1>3 DEF Own, MadeInv
  <2>3. QED
    BY <1>1, <1>3, <2>1, <2>2 DEF MadeInv, SameAsked
<1>9. KeptInv(s)
  <2>1. SUFFICES ASSUME s.blind = FALSE, NEW i \in DOMAIN s.asked PROVE KeptAsAsked(s, i)
    BY DEF KeptInv
  <2>2. i \in DOMAIN r.kept /\ r.blind = FALSE
    BY <1>1, <1>3, <2>1 DEF SameAsked
  <2>3. CASE s.kept[i] = r.kept[i]
    <3>1. KeptAsAsked(r, i)
      BY <1>3, <2>2 DEF Own, KeptInv
    <3>2. QED
      BY <1>1, <2>3, <3>1, OtherTexts
  <2>4. CASE i \in g /\ KeptFrom(r, g, i, s.kept[i]) /\ HasText(r, g)
    <3>1. PICK w \in rows[r.of] : w.key = r.objects[i].key /\ s.kept[i] = Updated(r, g, w).text
      BY <2>4 DEF KeptFrom
    <3>2. QED
      BY <1>1, <2>2, <2>4, <3>1, UpdatedTexts
  <2>5. CASE i \in g /\ ~HasText(r, g)
    <3>1. r.asked[i].text = "absent"
      BY <1>2, <2>2, <2>5 DEF HasText, Own, MadeInv, Unmade
    <3>2. QED
      BY <1>1, <1>3, <3>1 DEF KeptAsAsked, SameAsked
  <2>6. QED
    BY <2>2, <2>3, <2>4, <2>5
<1>10. OnceInv(s)
  BY <1>1, <1>3 DEF OnceInv, Single, Several, SameAsked
<1>11. KeysInv(s)
  BY <1>1, <1>3 DEF KeysInv, SameAsked
<1>12. TaintInv(s)
  BY <1>1 DEF TaintInv, SameAsked
<1>13. QED
  BY <1>5, <1>6, <1>7, <1>8, <1>9, <1>10, <1>11, <1>12 DEF Own

-----------------------------------------------------------------------------
(* The steps.  The server is the one the process was started with. *)

LEMMA ServerStays ==
  ASSUME [RequestsNext]_vars PROVE server' = server
<1>1. [StructuresNext]_structuresVars
  BY StepImplements
<1>2. CASE StructuresNext
  BY <1>2 DEF StructuresNext, StructuresStep, Start, Restart, Load, Clear, Read, FilesRead, ReadThrows, Filled,
       Schemes, CustomFails, TablesDone, ReadDefaults, Done, ReadFile, Fill, FillTypes, Bring, InsertDefaults
<1>3. CASE UNCHANGED structuresVars
  BY <1>3 DEF structuresVars
<1>4. QED
  BY <1>1, <1>2, <1>3

(* What was shown of the record a step makes holds of the thread after it. *)
LEMMA RightAfter ==
  ASSUME server' = server, NEW t, NEW s, thread'[t] = s, Own(s), KeysInv(s),
         s.tainted = FALSE => s.held \cap spoiled' = {}, LastInv(s, next'[s.of])
  PROVE  Right(t)'
<1>1. RecordInv(thread[t])' /\ PlaceInv(thread[t])'
  BY DEF Own, RecordInv, AskedInv, ObjectsInv, ResultsInv, RestInv, PlaceInv
<1>2. GroupsInv(thread[t])'
  BY DEF Own, GroupsInv, Grouping, Uniform, Of
<1>3. MadeInv(thread[t])'
  BY DEF Own, MadeInv, Unmade, Negative
<1>4. KeptInv(thread[t])'
  BY DEF Own, KeptInv, KeptAsAsked, SameRow, FirstWithout
<1>5. OnceInv(thread[t])'
  <2>1. Single(thread[t])' <=> Single(s)
    BY DEF Single, Several, Torn, Alike
  <2>2. OnceInv(s)
    BY DEF Own
  <2>3. CASE ~Single(s)
    BY <2>1, <2>3 DEF OnceInv
  <2>4. CASE Single(s)
    <3>1. /\ s.at \in Holding \ {"turn"} => s.turns = {}
          /\ s.at = "insert" => \A g \in s.groups : g = Of(s, s.of) /\ s.changed = FALSE
          /\ s.changed # FALSE => s.at \in {"insert", "turn"} /\ s.turns = {}
      BY <2>2, <2>4 DEF OnceInv
    <3>2. Of(thread[t], thread[t].of)' = Of(s, s.of)
      BY DEF Of
    <3>3. (thread[t].at = "insert" => \A g \in thread[t].groups : g = Of(thread[t], thread[t].of) /\ thread[t].changed = FALSE)'
      BY <3>1, <3>2
    <3>4. (/\ thread[t].at \in Holding \ {"turn"} => thread[t].turns = {}
           /\ thread[t].changed # FALSE => thread[t].at \in {"insert", "turn"} /\ thread[t].turns = {})'
      BY <3>1 DEF Holding
    <3>5. QED
      BY <2>1, <2>4, <3>3, <3>4 DEF OnceInv
  <2>5. QED
    BY <2>3, <2>4
<1>6. KeysInv(thread[t])' /\ TaintInv(thread[t])' /\ LastInv(thread[t], next[thread[t].of])'
  BY DEF KeysInv, Pending, Unmade, TaintInv, LastInv
<1>7. QED
  BY <1>1, <1>2, <1>3, <1>4, <1>5, <1>6 DEF Right, Own

(* A thread that takes no step, but may be raced. *)
LEMMA OtherRight ==
  ASSUME AnswersInv, server' = server, NEW u \in Threads, NEW s, thread'[u] = s,
         s = thread[u] \/ s = [thread[u] EXCEPT !.raced = TRUE],
         s.at = "keys" /\ s.raced = FALSE => next'[s.of] = next[s.of],
         thread[u].held \cap spoiled' \subseteq spoiled
  PROVE  Right(u)'
<1>1. Own(thread[u]) /\ KeysInv(thread[u]) /\ TaintInv(thread[u]) /\ LastInv(thread[u], next[thread[u].of])
  BY DEF AnswersInv, ThreadsRight, Right
<1>2. Own(s)
  BY <1>1, RacedOwn
<1>3. /\ s.held = thread[u].held /\ s.tainted = thread[u].tainted
      /\ s = thread[u] \/ s.raced = TRUE
  BY <1>1 DEF Own, RecordInv, Fields
<1>4. KeysInv(s)
  BY <1>1, <1>3 DEF KeysInv
<1>5. s.tainted = FALSE => s.held \cap spoiled' = {}
  BY <1>1, <1>3 DEF TaintInv
<1>6. LastInv(s, next'[s.of])
  <2>1. CASE s.raced = TRUE
    BY <2>1 DEF LastInv
  <2>2. CASE s = thread[u] /\ s.at = "keys" /\ s.raced = FALSE
    BY <1>1, <2>2
  <2>3. CASE s.at # "keys" \/ s.raced # FALSE
    BY <2>3 DEF LastInv
  <2>4. QED
    BY <1>3, <2>1, <2>2, <2>3
<1>7. QED
  BY <1>2, <1>4, <1>5, <1>6, RightAfter

(* A step of one thread; "after" is what the others are, raced or not. *)
Others(f) ==
  /\ DOMAIN f = Threads
  /\ \A u \in Threads : f[u] = thread[u] \/ f[u] = [thread[u] EXCEPT !.raced = TRUE]

LEMMA OneRight ==
  ASSUME AnswersInv, server' = server, own' = own, NEW f, Others(f), NEW t \in Threads, NEW s,
         thread' = [f EXCEPT ![t] = s], Own(s), KeysInv(s),
         s.tainted = FALSE => s.held \cap spoiled' = {}, LastInv(s, next'[s.of]),
         \A u \in Threads : f[u].at = "keys" /\ f[u].raced = FALSE => next'[f[u].of] = next[f[u].of],
         spoiled' \subseteq spoiled \cup thread[t].held,
         s.held \subseteq thread[t].held \cup Free
  PROVE  ThreadsRight'
<1>1. thread'[t] = s /\ \A u \in Threads \ {t} : thread'[u] = f[u]
  BY DEF Others
<1>2. Right(t)'
  BY <1>1, RightAfter
<1>3. ASSUME NEW u \in Threads \ {t} PROVE Right(u)'
  <2>1. thread[u].held \cap thread[t].held = {}
    BY DEF AnswersInv, ThreadsRight, ApartInv
  <2>2. thread[u].held \cap spoiled' \subseteq spoiled
    BY <2>1
  <2>3. f[u] = thread[u] \/ f[u] = [thread[u] EXCEPT !.raced = TRUE]
    BY DEF Others
  <2>4. f[u].at = "keys" /\ f[u].raced = FALSE => next'[f[u].of] = next[f[u].of]
    OBVIOUS
  <2>5. thread'[u] = f[u]
    BY <1>1
  <2>6. QED
    BY <2>2, <2>3, <2>4, <2>5, OtherRight
<1>4. ApartInv'
  <2>1. ASSUME NEW u \in Threads \ {t} PROVE thread'[u].held = thread[u].held
    <3>1. Fields \subseteq DOMAIN thread[u]
      BY DEF AnswersInv, ThreadsRight, Right, Own, RecordInv
    <3>2. QED
      BY <1>1, <3>1 DEF Others, Fields
  <2>2. ASSUME NEW u \in Threads \ {t} PROVE s.held \cap thread[u].held = {}
    BY DEF Free, AnswersInv, ThreadsRight, ApartInv
  <2>3. \A u, v \in Threads : u # v => thread'[u].held \cap thread'[v].held = {}
    <3>1. ASSUME NEW u \in Threads, NEW v \in Threads, u # v
          PROVE  thread'[u].held \cap thread'[v].held = {}
      <4>1. CASE u = t
        BY <1>1, <2>1, <2>2, <3>1, <4>1
      <4>2. CASE v = t
        BY <1>1, <2>1, <2>2, <3>1, <4>2
      <4>3. CASE u # t /\ v # t
        BY <2>1, <3>1, <4>3 DEF AnswersInv, ThreadsRight, ApartInv
      <4>4. QED
        BY <4>1, <4>2, <4>3
    <3>2. QED
      BY <3>1
  <2>4. \A u \in Threads : thread'[u].held \cap own' = {}
    BY <1>1, <2>1 DEF Free, AnswersInv, ThreadsRight, ApartInv
  <2>5. QED
    BY <2>3, <2>4 DEF ApartInv
<1>5. QED
  BY <1>2, <1>3, <1>4 DEF ThreadsRight

(* A thread is what the invariant says, and has one connection once it took it. *)
LEMMA ThreadIsRight ==
  ASSUME AnswersInv, NEW t \in Threads
  PROVE  /\ Own(thread[t]) /\ KeysInv(thread[t]) /\ TaintInv(thread[t])
         /\ LastInv(thread[t], next[thread[t].of])
         /\ thread[t].at \in Holding => \E c \in Connections : thread[t].held = {c}
         /\ DOMAIN thread = Threads /\ Others(thread)
BY DEF AnswersInv, ThreadsRight, Right, HeldInv, HoldsRight, Before, Holding, Others

LEMMA RacedOthers ==
  ASSUME AnswersInv, NEW n PROVE Others(Raced(thread, n))
BY DEF AnswersInv, HeldInv, Others, Raced

(* A step that leaves the other threads and the tables alone. *)
LEMMA AloneRight ==
  ASSUME AnswersInv, server' = server, own' = own, NEW t \in Threads, NEW s, thread' = [thread EXCEPT ![t] = s],
         next' = next, spoiled' = spoiled, Own(s), KeysInv(s), TaintInv(s), LastInv(s, next[s.of]),
         s.held \subseteq thread[t].held \cup Free
  PROVE  ThreadsRight'
BY ThreadIsRight, OneRight DEF TaintInv

LEMMA IdleRight ==
  ASSUME NEW a \in {"none", "ok", "error", "thrown"}
  PROVE  LET s == [Idle EXCEPT !.answer = a] IN
         /\ Own(s) /\ KeysInv(s) /\ TaintInv(s) /\ s.held = {} /\ s.at = "idle"
         /\ \A m : LastInv(s, m)
<1> DEFINE s == [Idle EXCEPT !.answer = a]
<1>1. Own(s)
  BY IdleOwn
<1>2. s.at = "idle" /\ s.asked = <<>> /\ s.held = {}
  BY DEF Idle
<1> HIDE DEF s
<1>3. KeysInv(s) /\ TaintInv(s) /\ \A m : LastInv(s, m)
  BY <1>2 DEF KeysInv, TaintInv, LastInv, Holding
<1>4. QED
  BY <1>1, <1>2, <1>3 DEF s

(* An answer, after which the connection may be spoiled. *)
LEMMA AnswerRight ==
  ASSUME AnswersInv, server' = server, own' = own, NEW t \in Threads, NEW a \in {"none", "ok", "error", "thrown"},
         Answer(t, a), next' = next, spoiled' \subseteq spoiled \cup thread[t].held
  PROVE  ThreadsRight'
<1> DEFINE s == [Idle EXCEPT !.answer = a]
<1>1. /\ Own(s) /\ KeysInv(s) /\ s.held = {} /\ LastInv(s, next'[s.of])
  BY IdleRight
<1>2. thread' = [thread EXCEPT ![t] = s]
  BY DEF Answer
<1> HIDE DEF s
<1>3. QED
  BY <1>1, <1>2, ThreadIsRight, OneRight

LEMMA ReceiveRight ==
  ASSUME AnswersInv, server' = server, own' = own, NEW t \in Threads, NEW q \in Requests, Receive(t, q)
  PROVE  ThreadsRight'
<1>1. next' = next /\ spoiled' = spoiled
  BY DEF Receive
<1>2. thread' = [thread EXCEPT ![t] = Received(q)]
  BY DEF Receive, Received
<1>3. Own(Received(q)) /\ KeysInv(Received(q)) /\ TaintInv(Received(q))
  BY ReceivedOwn
<1>4. Received(q).at # "keys" /\ Received(q).held = {}
  BY ReceivedFields
<1>5. LastInv(Received(q), next[Received(q).of])
  BY <1>4 DEF LastInv
<1>6. QED
  BY <1>1, <1>2, <1>3, <1>4, <1>5, AloneRight

LEMMA MakeRight ==
  ASSUME AnswersInv, server' = server, own' = own, NEW t \in Threads, Make(t) PROVE ThreadsRight'
<1> DEFINE r == thread[t]
           i == Min(r.left)
           s == Passed([r EXCEPT !.objects[i] = Made(r.asked[i]), !.blind = @ \/ ~Known(r.asked[i].of)], i)
<1>1. next' = next /\ spoiled' = spoiled /\ r.at = "make"
  BY DEF Make
<1>2. CASE Wrong(r.asked[i])
  <2>1. Answer(t, "error")
    BY <1>2 DEF Make
  <2>2. QED
    BY <1>1, <2>1, AnswerRight
<1>3. CASE ~Wrong(r.asked[i])
  <2>1. thread' = [thread EXCEPT ![t] = s]
    BY <1>3 DEF Make
  <2>2. Own(s) /\ KeysInv(s) /\ TaintInv(s) /\ s.at # "keys" /\ s.held = r.held
    <3>1. Own(r) /\ KeysInv(r) /\ TaintInv(r)
      BY ThreadIsRight
    <3> HIDE DEF r
    <3>2. QED
      BY <1>1, <1>3, <3>1, MadeOwn
  <2> HIDE DEF s
  <2>3. LastInv(s, next[s.of])
    BY <2>2 DEF LastInv
  <2>4. QED
    BY <1>1, <2>1, <2>2, <2>3, AloneRight
<1>4. QED
  BY <1>2, <1>3

LEMMA CheckRight ==
  ASSUME AnswersInv, server' = server, own' = own, NEW t \in Threads, Check(t) PROVE ThreadsRight'
<1> DEFINE r == thread[t]
           i == Min(r.left)
           b == r.blind \/ ~FieldsKnown(r.asked[i].of)
           s == Passed([r EXCEPT !.blind = b], i)
<1>1. next' = next /\ spoiled' = spoiled /\ r.at = "check"
  BY DEF Check
<1>2. CASE Refused(r, r.objects[i])
  <2>1. Answer(t, "error")
    BY <1>2 DEF Check
  <2>2. QED
    BY <1>1, <2>1, AnswerRight
<1>3. CASE ~Refused(r, r.objects[i])
  <2>1. thread' = [thread EXCEPT ![t] = s]
    BY <1>3 DEF Check
  <2>2. b \in BOOLEAN /\ (b = FALSE => r.blind = FALSE)
    BY ThreadIsRight DEF Own, RecordInv, RestInv
  <2> HIDE DEF b
  <2>3. Own(s) /\ KeysInv(s) /\ TaintInv(s) /\ s.at # "keys" /\ s.held = r.held
    <3>1. Own(r) /\ KeysInv(r) /\ TaintInv(r)
      BY ThreadIsRight
    <3> HIDE DEF r
    <3>2. QED
      BY <1>1, <2>2, <3>1, CheckedOwn
  <2> HIDE DEF s
  <2>4. LastInv(s, next[s.of])
    BY <2>3 DEF LastInv
  <2>5. QED
    BY <1>1, <2>1, <2>3, <2>4, AloneRight
<1>4. QED
  BY <1>2, <1>3

LEMMA TakeRight ==
  ASSUME AnswersInv, server' = server, own' = own, NEW t \in Threads, Take(t) PROVE ThreadsRight'
<1> DEFINE r == thread[t]
<1>1. next' = next /\ spoiled' = spoiled /\ r.at = "take"
  BY DEF Take
<1>2. PICK c \in Free :
        thread' = [thread EXCEPT ![t].at = "turn", ![t].held = {c}, ![t].tainted = c \in spoiled,
                     ![t].turns = {e.of : e \in {thread[t].objects[i] : i \in DOMAIN thread[t].objects}}]
  BY DEF Take
<1> DEFINE s == [r EXCEPT !.at = "turn", !.held = {c}, !.tainted = c \in spoiled,
                   !.turns = {e.of : e \in {r.objects[i] : i \in DOMAIN r.objects}}]
<1>3. thread' = [thread EXCEPT ![t] = s]
  BY <1>2
<1>4. s.at = "turn" /\ s.held = {c}
  BY ThreadIsRight DEF Own, RecordInv, Fields
<1>5. Own(s) /\ KeysInv(s) /\ TaintInv(s)
  <2> HIDE DEF r
  <2>1. Own(r) /\ KeysInv(r) /\ c \in Connections
    BY ThreadIsRight DEF r, Free
  <2>2. QED
    BY <1>1, <2>1, TakenOwn
<1> HIDE DEF s
<1>6. LastInv(s, next[s.of])
  BY <1>4 DEF LastInv
<1>7. QED
  BY <1>1, <1>3, <1>4, <1>5, <1>6, AloneRight

LEMMA TurnRight ==
  ASSUME AnswersInv, server' = server, own' = own, NEW t \in Threads, NEW n \in Names, Turn(t, n) PROVE ThreadsRight'
<1> DEFINE r == thread[t]
           s == [r EXCEPT !.at = Statement(r.op), !.turns = @ \ {n}, !.of = n, !.known = Known(n),
                   !.blind = @ \/ ~Known(n), !.groups = Grouped(r, n)]
<1>1. next' = next /\ spoiled' = spoiled /\ r.at = "turn" /\ n \in r.turns
  BY DEF Turn
<1>2. thread' = [thread EXCEPT ![t] = s]
  BY DEF Turn
<1>3. s.at # "keys" /\ s.held = r.held
  <2>1. Fields \subseteq DOMAIN r
    BY ThreadIsRight DEF Own, RecordInv
  <2>2. Statement(r.op) # "keys"
    BY DEF Statement
  <2>3. QED
    BY <2>1, <2>2 DEF Fields
<1>4. Own(s) /\ KeysInv(s) /\ TaintInv(s)
  <2>1. Own(r) /\ KeysInv(r) /\ TaintInv(r) /\ server \in {"MySQL", "PostgreSQL"}
    BY ThreadIsRight DEF AnswersInv
  <2> HIDE DEF r
  <2>2. QED
    BY <1>1, <2>1, TurnedOwn
<1> HIDE DEF s
<1>5. LastInv(s, next[s.of])
  BY <1>3 DEF LastInv
<1>6. QED
  BY <1>1, <1>2, <1>3, <1>4, <1>5, AloneRight

(* A step with which the thread only goes on. *)
LEMMA MoveRight ==
  ASSUME AnswersInv, server' = server, own' = own, NEW t \in Threads, NEW s, thread' = [thread EXCEPT ![t] = s],
         next' = next, spoiled' = spoiled, KeepsRest(thread[t], s), Moves(thread[t], s)
  PROVE  ThreadsRight'
<1>1. Own(s) /\ KeysInv(s) /\ TaintInv(s)
  BY ThreadIsRight, MovedOwn
<1>2. s.at # "keys" /\ s.held = thread[t].held
  BY DEF KeepsRest, Moves
<1>3. LastInv(s, next[s.of])
  BY <1>2 DEF LastInv
<1>4. QED
  BY <1>1, <1>2, <1>3, AloneRight

LEMMA TurnDoneRight ==
  ASSUME AnswersInv, server' = server, own' = own, NEW t \in Threads, TurnDone(t) \/ AllDone(t) PROVE ThreadsRight'
<1>1. CASE TurnDone(t)
  <2> DEFINE s == [thread[t] EXCEPT !.at = "turn"]
  <2>1. thread' = [thread EXCEPT ![t] = s] /\ next' = next /\ spoiled' = spoiled
    BY <1>1 DEF TurnDone
  <2>2. KeepsRest(thread[t], s) /\ Moves(thread[t], s)
    BY <1>1, ThreadIsRight DEF TurnDone, KeepsRest, SameRequest, Moves, Own, RecordInv, Fields
  <2> HIDE DEF s
  <2>3. QED
    BY <2>1, <2>2, MoveRight
<1>2. CASE AllDone(t)
  BY <1>2, AnswerRight DEF AllDone
<1>3. QED
  BY <1>1, <1>2

LEMMA LoadRight ==
  ASSUME AnswersInv, server' = server, own' = own, NEW t \in Threads, Reload(t) \/ Look(t) PROVE ThreadsRight'
<1>1. next' = next /\ spoiled' = spoiled
  BY DEF Reload, Look, LoadRows
<1>2. CASE Answer(t, "error")
  BY <1>1, <1>2, AnswerRight
<1>3. CASE ~Answer(t, "error")
  <2>1. PICK to : /\ thread' = [thread EXCEPT ![t] = [thread[t] EXCEPT !.at = to, !.held = thread[t].held]]
                  /\ \/ thread[t].at = "reload" /\ to = "update"
                     \/ thread[t].at = "look" /\ to = "delete"
    BY <1>3 DEF Reload, Look, LoadRows, HeldAfter
  <2> DEFINE s == [thread[t] EXCEPT !.at = to, !.held = thread[t].held]
  <2>2. KeepsRest(thread[t], s) /\ Moves(thread[t], s)
    BY <2>1, ThreadIsRight DEF KeepsRest, SameRequest, Moves, Own, RecordInv, Fields
  <2>3. thread' = [thread EXCEPT ![t] = s]
    BY <2>1
  <2> HIDE DEF s
  <2>4. QED
    BY <1>1, <2>2, <2>3, MoveRight
<1>4. QED
  BY <1>2, <1>3

LEMMA DeleteRight ==
  ASSUME AnswersInv, server' = server, own' = own, NEW t \in Threads, DeleteRows(t) PROVE ThreadsRight'
<1>1. next' = next /\ spoiled' = spoiled
  BY DEF DeleteRows
<1>2. CASE Answer(t, "error")
  BY <1>1, <1>2, AnswerRight
<1>3. CASE ~Answer(t, "error")
  <2> DEFINE s == [thread[t] EXCEPT !.at = "turn", !.changed = TRUE]
  <2>1. thread' = [thread EXCEPT ![t] = s] /\ thread[t].at = "delete"
    BY <1>3 DEF DeleteRows
  <2>2. KeepsRest(thread[t], s) /\ Moves(thread[t], s)
    BY <2>1, ThreadIsRight DEF KeepsRest, SameRequest, Moves, Own, RecordInv, Fields
  <2> HIDE DEF s
  <2>3. QED
    BY <1>1, <2>1, <2>2, MoveRight
<1>4. QED
  BY <1>2, <1>3

(* Who waits for the keys of rows in another table, has the same next key. *)
LEMMA RacedNext ==
  ASSUME AnswersInv, NEW n, \A m \in Names : m # n => next'[m] = next[m]
  PROVE  \A u \in Threads : Raced(thread, n)[u].at = "keys" /\ Raced(thread, n)[u].raced = FALSE
           => next'[Raced(thread, n)[u].of] = next[Raced(thread, n)[u].of]
<1>1. ASSUME NEW u \in Threads, thread[u].at = "keys", thread[u].of = n
      PROVE  Raced(thread, n)[u].raced = TRUE
  <2>1. Fields \subseteq DOMAIN thread[u] /\ DOMAIN thread = Threads
    BY ThreadIsRight DEF Own, RecordInv
  <2>2. QED
    BY <1>1, <2>1 DEF Raced, Fields
<1>2. ASSUME NEW u \in Threads, ~(thread[u].at = "keys" /\ thread[u].of = n)
      PROVE  Raced(thread, n)[u] = thread[u]
  BY <1>2, ThreadIsRight DEF Raced
<1>3. \A u \in Threads : thread[u].at = "keys" => thread[u].of \in Names
  BY ThreadIsRight DEF Own, PlaceInv, Holding
<1>4. QED
  BY <1>1, <1>2, <1>3

(* A request whose statement failed after it took keys from the table. *)
LEMMA FailedRight ==
  ASSUME AnswersInv, server' = server, own' = own, NEW t \in Threads, NEW n,
         thread' = [Raced(thread, n) EXCEPT ![t] = [Idle EXCEPT !.answer = "error"]],
         \A m \in Names : m # n => next'[m] = next[m], spoiled' \subseteq spoiled \cup thread[t].held
  PROVE  ThreadsRight'
<1> DEFINE s == [Idle EXCEPT !.answer = "error"]
           f == Raced(thread, n)
<1>1. Own(s) /\ KeysInv(s) /\ s.held = {} /\ LastInv(s, next'[s.of])
  BY IdleRight
<1>2. Others(f) /\ \A u \in Threads : f[u].at = "keys" /\ f[u].raced = FALSE => next'[f[u].of] = next[f[u].of]
  BY RacedOthers, RacedNext
<1>3. thread' = [f EXCEPT ![t] = s]
  OBVIOUS
<1> HIDE DEF s, f
<1>4. s.held \cap spoiled' = {} /\ s.held \subseteq thread[t].held \cup Free
  BY <1>1
<1>5. QED
  BY <1>1, <1>2, <1>3, <1>4, OneRight

(* A request whose INSERT took place. *)
LEMMA InsertedRight ==
  ASSUME AnswersInv, server' = server, own' = own, NEW t \in Threads, NEW g \in thread[t].groups,
         thread[t].at = "insert", ~Throws(thread[t], g), Insertable(thread[t], g),
         thread' = [Raced(thread, thread[t].of) EXCEPT ![t] = Inserted(thread[t], g)],
         next' = [next EXCEPT ![thread[t].of] = NextKey(thread[t], g)], spoiled' = spoiled
  PROVE  ThreadsRight'
<1> DEFINE r == thread[t]
           s == Inserted(r, g)
           f == Raced(thread, r.of)
<1>1. Own(r) /\ KeysInv(r) /\ TaintInv(r) /\ PoolRestored /\ TablesInv
  BY ThreadIsRight DEF AnswersInv
<1>2. PICK c \in Connections : r.held = {c}
  BY ThreadIsRight DEF Holding
<1>3. InsertedAs(r, g, s)
  <2> HIDE DEF r
  <2>1. QED
    BY <1>1, InsertedFields
<1>4. Own(s) /\ KeysInv(s) /\ TaintInv(s)
  <2> HIDE DEF s
  <2>1. QED
    BY <1>1, <1>2, <1>3, InsertedOwn
<1>5. LastInv(s, next'[s.of])
  <2>1. LastInv(s, NextKey(r, g))
    <3> HIDE DEF s
    <3>1. QED
      BY <1>1, <1>3, InsertedLast
  <2>2. r.of \in Names /\ next \in [Names -> Nat \ {0}]
    BY <1>1, RowsType DEF TablesInv
  <2>3. s.of = r.of /\ next'[r.of] = NextKey(r, g)
    BY <1>3, <2>2 DEF InsertedAs
  <2>4. QED
    BY <2>1, <2>3
<1>6. Others(f) /\ \A u \in Threads : f[u].at = "keys" /\ f[u].raced = FALSE => next'[f[u].of] = next[f[u].of]
  <2>1. \A m \in Names : m # r.of => next'[m] = next[m]
    BY <1>1 DEF TablesInv
  <2>2. QED
    BY <2>1, RacedOthers, RacedNext
<1>7. s.held = r.held
  BY <1>3 DEF InsertedAs
<1>8. thread' = [f EXCEPT ![t] = s]
  OBVIOUS
<1>9. s.tainted = FALSE => s.held \cap spoiled' = {}
  BY <1>4 DEF TaintInv
<1> HIDE DEF s, f
<1>10. QED
  BY <1>4, <1>5, <1>6, <1>7, <1>8, <1>9, OneRight

LEMMA InsertRight ==
  ASSUME AnswersInv, server' = server, own' = own, NEW t \in Threads, NEW g \in thread[t].groups, Insert(t, g)
  PROVE  ThreadsRight'
<1> DEFINE r == thread[t]
<1>1. CASE Answer(t, "thrown") /\ UNCHANGED <<rows, next, lax, accidents, spoiled>>
  BY <1>1, AnswerRight
<1>2. CASE /\ ~Throws(r, g) /\ Succeeds(Insertable(r, g))
           /\ next' = [next EXCEPT ![r.of] = NextKey(r, g)]
           /\ thread' = [Raced(thread, r.of) EXCEPT ![t] = Inserted(r, g)]
           /\ UNCHANGED spoiled
  BY <1>2, InsertedRight DEF Insert, Succeeds
<1>3. CASE /\ IF IdColumn(r, g) THEN Answer(t, "error") /\ UNCHANGED next
              ELSE /\ thread' = [Raced(thread, r.of) EXCEPT ![t] = [Idle EXCEPT !.answer = "error"]]
                   /\ next' = [next EXCEPT ![r.of] = @ + 1]
           /\ spoiled' = spoiled \cup Spoiled(r)
  <2>1. spoiled' \subseteq spoiled \cup r.held
    BY <1>3 DEF Spoiled
  <2>2. CASE IdColumn(r, g)
    BY <1>3, <2>1, <2>2, AnswerRight
  <2>3. CASE ~IdColumn(r, g)
    <3>1. \A m \in Names : m # r.of => next'[m] = next[m]
      BY <1>3, <2>3 DEF AnswersInv, TablesInv
    <3>2. QED
      BY <1>3, <2>1, <2>3, <3>1, FailedRight
  <2>4. QED
    BY <2>2, <2>3
<1>4. QED
  BY <1>1, <1>2, <1>3 DEF Insert

LEMMA InsertThenFailRight ==
  ASSUME AnswersInv, server' = server, own' = own, NEW t \in Threads, NEW g \in thread[t].groups, InsertThenFail(t, g)
  PROVE  ThreadsRight'
<1>1. \A m \in Names : m # thread[t].of => next'[m] = next[m]
  BY DEF AnswersInv, TablesInv, InsertThenFail
<1>2. QED
  BY <1>1, FailedRight DEF InsertThenFail

LEMMA QueryKeysRight ==
  ASSUME AnswersInv, server' = server, own' = own, NEW t \in Threads, QueryKeys(t) PROVE ThreadsRight'
<1> DEFINE r == thread[t]
<1>1. next' = next /\ spoiled' = spoiled /\ r.at = "keys"
  BY DEF QueryKeys
<1>2. CASE Answer(t, "error")
  BY <1>1, <1>2, AnswerRight
<1>3. CASE ~Answer(t, "error")
  <2>1. Own(r) /\ KeysInv(r) /\ TaintInv(r) /\ LastInv(r, next[r.of]) /\ TablesInv
    BY ThreadIsRight DEF AnswersInv
  <2>2. PICK last \in LastKeys(r) :
          thread' = [thread EXCEPT ![t].at = "insert",
            ![t].objects = [i \in DOMAIN @ |->
              IF i \notin r.group THEN @[i]
              ELSE [@[i] EXCEPT !.id = TRUE,
                      !.key = FirstId(last, r.group) + Cardinality({j \in r.group : j < i})]]]
    BY <1>3 DEF QueryKeys, LastKeys
  <2> DEFINE s == [r EXCEPT !.at = "insert",
                     !.objects = [i \in DOMAIN @ |->
                       IF i \notin r.group THEN @[i]
                       ELSE [@[i] EXCEPT !.id = TRUE,
                               !.key = FirstId(last, r.group) + Cardinality({j \in r.group : j < i})]]]
  <2>3. thread' = [thread EXCEPT ![t] = s]
    BY <2>2
  <2>4. last \in Int
    BY <1>1, <2>1, LastKeysType
  <2>5. KeyedAs(r, last, s)
    <3> HIDE DEF r
    <3>1. QED
      BY <1>1, <2>1, <2>4, KeyedFields
  <2> HIDE DEF s
  <2>6. Own(s) /\ KeysInv(s) /\ TaintInv(s)
    BY <1>1, <2>1, <2>5, KeyedOwn
  <2>7. s.at = "insert" /\ s.held = r.held
    BY <2>5 DEF KeyedAs
  <2>8. LastInv(s, next[s.of])
    BY <2>7 DEF LastInv
  <2>9. QED
    BY <1>1, <2>3, <2>6, <2>7, <2>8, AloneRight
<1>4. QED
  BY <1>2, <1>3

LEMMA UpdateRowsRight ==
  ASSUME AnswersInv, server' = server, own' = own, NEW t \in Threads, NEW g \in thread[t].groups, UpdateRows(t, g)
  PROVE  ThreadsRight'
<1> DEFINE r == thread[t]
<1>1. next' = next /\ spoiled' = spoiled /\ r.at = "update"
  BY DEF UpdateRows
<1>2. CASE \E a \in {"error", "thrown"} : Answer(t, a)
  BY <1>1, <1>2, AnswerRight
<1>3. CASE ~\E a \in {"error", "thrown"} : Answer(t, a)
  <2>1. /\ Updatable(r, g)
        /\ rows' = [rows EXCEPT ![r.of] = {Updated(r, g, w) : w \in @}]
        /\ thread' = [thread EXCEPT ![t].at = "reload", ![t].groups = @ \ {g}, ![t].changed = TRUE,
             ![t].kept = [i \in DOMAIN @ |->
               IF i \in g /\ \E w \in rows[r.of] : i \in Matched(r, g, w)
               THEN (CHOOSE w \in rows'[r.of] : w.key = r.objects[i].key).text ELSE @[i]]]
    BY <1>3 DEF UpdateRows, Succeeds
  <2>2. Own(r) /\ KeysInv(r) /\ TaintInv(r) /\ PoolRestored /\ TablesInv
    BY ThreadIsRight DEF AnswersInv
  <2>3. PICK c \in Connections : r.held = {c}
    BY <1>1, ThreadIsRight DEF Holding
  <2>4. r.of \in Names
    BY <1>1, <2>2 DEF Own, PlaceInv, Holding
  <2> DEFINE row(i) == CHOOSE w \in rows'[r.of] : w.key = r.objects[i].key
  <2> DEFINE k == [i \in DOMAIN r.kept |->
                     IF i \in g /\ \E w \in rows[r.of] : i \in Matched(r, g, w)
                     THEN row(i).text ELSE r.kept[i]]
  <2>5. /\ thread' = [thread EXCEPT ![t] = [r EXCEPT !.at = "reload", !.groups = @ \ {g},
                                              !.changed = TRUE, !.kept = k]]
        /\ DOMAIN k = DOMAIN r.kept
        /\ \A i \in DOMAIN r.kept :
             k[i] = IF i \in g /\ \E w \in rows[r.of] : i \in Matched(r, g, w)
                    THEN row(i).text ELSE r.kept[i]
    <3>1. thread' = [thread EXCEPT ![t] = [r EXCEPT !.at = "reload", !.groups = @ \ {g},
                                             !.changed = TRUE, !.kept = k]]
      BY <2>1
    <3>2. QED
      BY <3>1
  <2> HIDE DEF k
  <2> DEFINE s == [r EXCEPT !.at = "reload", !.groups = @ \ {g}, !.changed = TRUE, !.kept = k]
  <2>6. UpdatedAs(r, g, s) /\ s.kept = k
    BY <2>2, <2>5 DEF Own, RecordInv, Fields, UpdatedAs, SameAsked
  <2>7. ASSUME NEW i \in g, NEW w \in rows[r.of], i \in Matched(r, g, w)
        PROVE  KeptFrom(r, g, i, row(i).text)
    <3>1. \A v \in rows[r.of] : Updated(r, g, v).key = v.key
      BY <2>2, <2>4, UpdatedRow DEF TablesInv
    <3>2. rows'[r.of] = {Updated(r, g, v) : v \in rows[r.of]}
      BY <2>1, <2>2, <2>4 DEF TablesInv
    <3>3. \E x \in rows'[r.of] : x.key = r.objects[i].key
      BY <2>7, <3>1, <3>2 DEF Matched
    <3>4. row(i) \in rows'[r.of] /\ row(i).key = r.objects[i].key
      BY <3>3
    <3>5. PICK v \in rows[r.of] : row(i) = Updated(r, g, v)
      BY <3>2, <3>4
    <3>6. QED
      BY <3>1, <3>4, <3>5 DEF KeptFrom
  <2>8. \A i \in DOMAIN r.kept : s.kept[i] = r.kept[i] \/ (i \in g /\ KeptFrom(r, g, i, s.kept[i]))
    <3> HIDE DEF row, s
    <3>1. QED
      BY <2>5, <2>6, <2>7
  <2>9. thread' = [thread EXCEPT ![t] = s]
    BY <2>5
  <2> HIDE DEF s
  <2>10. Own(s) /\ KeysInv(s) /\ TaintInv(s)
    BY <1>1, <2>1, <2>2, <2>3, <2>6, <2>8, UpdatedOwn
  <2>11. s.at = "reload" /\ s.held = r.held
    BY <2>6 DEF UpdatedAs
  <2>12. LastInv(s, next[s.of])
    BY <2>11 DEF LastInv
  <2>13. QED
    BY <1>1, <2>9, <2>10, <2>11, <2>12, AloneRight
<1>4. QED
  BY <1>2, <1>3

(* Steps that are of no thread. *)
LEMMA UpdateStepRight ==
  ASSUME AnswersInv, server' = server, UpdateStep PROVE ThreadsRight'
<1>1. PICK created, given :
        /\ next' = [n \in Names |-> IF n \in created THEN 1
                                    ELSE IF n \in given THEN next[n] + 1 ELSE next[n]]
        /\ thread' = [u \in Threads |->
              IF thread[u].at = "keys" /\ thread[u].of \in created \cup given
              THEN [thread[u] EXCEPT !.raced = TRUE] ELSE thread[u]]
  BY DEF UpdateStep
<1>2. spoiled' = spoiled
  BY DEF UpdateStep
<1>3. ASSUME NEW u \in Threads
      PROVE  Right(u)' /\ thread'[u].held = thread[u].held
  <2>1. Own(thread[u]) /\ Fields \subseteq DOMAIN thread[u]
    BY ThreadIsRight DEF Own, RecordInv
  <2> DEFINE s == thread'[u]
  <2>2. CASE thread[u].at = "keys" /\ thread[u].of \in created \cup given
    <3>1. s = [thread[u] EXCEPT !.raced = TRUE]
      BY <1>1, <2>2
    <3>2. s.raced = TRUE /\ s.held = thread[u].held
      BY <2>1, <3>1 DEF Fields
    <3> HIDE DEF s
    <3>3. thread'[u] = s
      BY DEF s
    <3>4. QED
      BY <1>2, <3>1, <3>2, <3>3, OtherRight
  <2>3. CASE ~(thread[u].at = "keys" /\ thread[u].of \in created \cup given)
    <3>1. s = thread[u]
      BY <1>1, <2>3
    <3>2. thread[u].at = "keys" => next'[thread[u].of] = next[thread[u].of]
      BY <1>1, <2>1, <2>3 DEF Own, PlaceInv, Holding
    <3>3. QED
      BY <1>2, <3>1, <3>2, OtherRight
  <2>4. QED
    BY <2>2, <2>3
<1>4. ApartInv'
  <2>1. own' = {}
    BY DEF UpdateStep
  <2>2. QED
    BY <1>3, <2>1 DEF ApartInv, AnswersInv, ThreadsRight
<1>5. QED
  BY <1>3, <1>4 DEF ThreadsRight

LEMMA ConnectRight ==
  ASSUME AnswersInv, server' = server, Connect PROVE ThreadsRight'
<1>1. thread' = thread /\ next' = next /\ spoiled' = spoiled
  BY DEF Connect
<1>2. \A u \in Threads : Right(u)'
  BY <1>1, OtherRight
<1>3. ApartInv'
  BY <1>1 DEF Connect, Free, ApartInv, AnswersInv, ThreadsRight
<1>4. QED
  BY <1>2, <1>3 DEF ThreadsRight

LEMMA IdleAnew == [Idle EXCEPT !.answer = "none"] = Idle
<1>1. Idle = [x \in DOMAIN Idle |-> Idle[x]] /\ Idle["answer"] = "none"
  BY DEF Idle
<1>2. [Idle EXCEPT !.answer = "none"] = [x \in DOMAIN Idle |-> IF x = "answer" THEN "none" ELSE Idle[x]]
  OBVIOUS
<1>3. \A x \in DOMAIN Idle : (IF x = "answer" THEN "none" ELSE Idle[x]) = Idle[x]
  BY <1>1
<1>4. [x \in DOMAIN Idle |-> IF x = "answer" THEN "none" ELSE Idle[x]] = [x \in DOMAIN Idle |-> Idle[x]]
  BY <1>3
<1>5. QED
  BY <1>1, <1>2, <1>4

LEMMA RestartRight ==
  ASSUME server' = server, RestartAll PROVE ThreadsRight'
<1> DEFINE s == [Idle EXCEPT !.answer = "none"]
<1>1. s = Idle
  BY IdleAnew
<1>2. Own(s) /\ KeysInv(s) /\ s.held = {} /\ \A m : LastInv(s, m)
  BY IdleRight
<1>3. \A u \in Threads : thread'[u] = s
  BY <1>1 DEF RestartAll
<1> HIDE DEF s
<1>4. \A u \in Threads : Right(u)'
  BY <1>2, <1>3, RightAfter
<1>5. ApartInv'
  BY <1>2, <1>3 DEF ApartInv
<1>6. QED
  BY <1>4, <1>5 DEF ThreadsRight

LEMMA StutterRight ==
  ASSUME AnswersInv, server' = server, UNCHANGED vars PROVE ThreadsRight'
<1>1. thread' = thread /\ next' = next /\ spoiled' = spoiled /\ own' = own
  BY DEF vars, requestVars
<1>2. \A u \in Threads : Right(u)'
  BY <1>1, OtherRight
<1>3. ApartInv'
  BY <1>1 DEF ApartInv, AnswersInv, ThreadsRight
<1>4. QED
  BY <1>2, <1>3 DEF ThreadsRight

LEMMA StepRight ==
  ASSUME AnswersInv, [RequestsNext]_vars PROVE ThreadsRight'
<1>0. server' = server
  BY ServerStays
<1>1. CASE \E t \in Threads : ThreadStep(t)
  <2>1. PICK t \in Threads : ThreadStep(t)
    BY <1>1
  <2>0. own' = own
    BY <2>1, OwnStays
  <2>2. CASE Make(t) \/ Check(t) \/ Take(t) \/ TurnDone(t) \/ AllDone(t) \/ (\E n \in Names : Turn(t, n))
    BY <1>0, <2>0, <2>2, MakeRight, CheckRight, TakeRight, TurnDoneRight, TurnRight
  <2>3. CASE \E g \in thread[t].groups : Insert(t, g) \/ InsertThenFail(t, g) \/ UpdateRows(t, g)
    BY <1>0, <2>0, <2>3, InsertRight, InsertThenFailRight, UpdateRowsRight
  <2>4. CASE QueryKeys(t) \/ Reload(t) \/ Look(t) \/ DeleteRows(t)
    BY <1>0, <2>0, <2>4, QueryKeysRight, LoadRight, DeleteRight
  <2>5. QED
    BY <2>1, <2>2, <2>3, <2>4 DEF ThreadStep
<1>2. CASE \E t \in Threads : \E q \in Requests : Receive(t, q)
  BY <1>0, <1>2, OwnStays, ReceiveRight
<1>3. CASE UpdateStep \/ Connect \/ RestartAll \/ UNCHANGED vars
  BY <1>0, <1>3, UpdateStepRight, ConnectRight, RestartRight, StutterRight
<1>4. QED
  BY <1>1, <1>2, <1>3 DEF RequestsNext

-----------------------------------------------------------------------------
(* The tables and the spoiled connections. *)

LEMMA StepTables ==
  ASSUME AnswersInv, [RequestsNext]_vars PROVE TablesInv'
<1>0. TablesInv /\ rows \in [Names -> SUBSET Row] /\ next \in [Names -> Nat \ {0}]
  BY DEF AnswersInv, TablesInv
<1>1. CASE UpdateStep
  BY <1>0, <1>1 DEF UpdateStep, TablesInv
<1>2. ASSUME NEW t \in Threads, NEW g \in thread[t].groups, Insert(t, g) \/ InsertThenFail(t, g)
      PROVE  TablesInv'
  <2> DEFINE r == thread[t]
  <2>1. Own(r) /\ r.at = "insert"
    BY <1>2, ThreadIsRight DEF Insert, InsertThenFail
  <2>2. NextKey(r, g) \in Nat \ {0}
    BY <1>0, <2>1, NextKeyType
  <2>3. RowsOf(r, g) \subseteq Row
    BY <1>0, <2>1, RowsType DEF RowsOf, Row, Stored
  <2>4. r.of \in Names /\ rows[r.of] \subseteq Row /\ next[r.of] + 1 \in Nat \ {0}
    BY <1>0, <2>1, RowsType
  <2>5. \/ rows' = rows
        \/ rows' = [rows EXCEPT ![r.of] = @ \cup RowsOf(r, g)]
    BY <1>2 DEF Insert, InsertThenFail
  <2>6. \/ next' = next
        \/ next' = [next EXCEPT ![r.of] = NextKey(r, g)]
        \/ next' = [next EXCEPT ![r.of] = @ + 1]
    BY <1>2 DEF Insert, InsertThenFail
  <2>7. rows' \in [Names -> SUBSET Row]
    BY <1>0, <2>3, <2>4, <2>5
  <2>8. next' \in [Names -> Nat \ {0}]
    BY <1>0, <2>2, <2>4, <2>6
  <2>9. QED
    BY <2>7, <2>8 DEF TablesInv
<1>3. ASSUME NEW t \in Threads, NEW g \in thread[t].groups, UpdateRows(t, g) PROVE TablesInv'
  <2> DEFINE r == thread[t]
  <2>1. \/ rows' = rows
        \/ rows' = [rows EXCEPT ![r.of] = {Updated(r, g, w) : w \in @}]
    BY <1>3 DEF UpdateRows
  <2>2. r.of \in Names
    BY <1>3, ThreadIsRight DEF UpdateRows, Own, PlaceInv, Holding
  <2>3. {Updated(r, g, w) : w \in rows[r.of]} \subseteq Row
    BY <1>0, <2>2, UpdatedRow
  <2>4. next' = next
    BY <1>3 DEF UpdateRows
  <2>5. rows' \in [Names -> SUBSET Row]
    BY <1>0, <2>1, <2>2, <2>3
  <2>6. QED
    BY <1>0, <2>4, <2>5 DEF TablesInv
<1>4. ASSUME NEW t \in Threads, DeleteRows(t) PROVE TablesInv'
  BY <1>0, <1>4 DEF DeleteRows, TablesInv
<1>5. ASSUME NEW t \in Threads, ThreadStep(t) PROVE TablesInv'
  <2>1. CASE Make(t) \/ Check(t) \/ Take(t) \/ TurnDone(t) \/ AllDone(t) \/ (\E n \in Names : Turn(t, n))
    BY <1>0, <2>1 DEF Make, Check, Take, TurnDone, AllDone, Turn, TablesInv
  <2>2. CASE QueryKeys(t) \/ Reload(t) \/ Look(t)
    BY <1>0, <2>2 DEF QueryKeys, Reload, Look, LoadRows, TablesInv
  <2>3. QED
    BY <1>2, <1>3, <1>4, <1>5, <2>1, <2>2 DEF ThreadStep
<1>6. CASE Connect \/ RestartAll \/ \E t \in Threads : \E q \in Requests : Receive(t, q)
  BY <1>0, <1>6 DEF Connect, RestartAll, Receive, TablesInv
<1>7. CASE UNCHANGED vars
  BY <1>0, <1>7 DEF vars, requestVars, TablesInv
<1>8. QED
  BY <1>1, <1>5, <1>6, <1>7 DEF RequestsNext

LEMMA StepSpoiled ==
  ASSUME AnswersInv, [RequestsNext]_vars PROVE spoiled' \subseteq Connections
<1>0. spoiled \subseteq Connections /\ \A t \in Threads : thread[t].held \subseteq Connections
  BY DEF AnswersInv, HeldInv, HoldsRight
<1>1. ASSUME NEW t \in Threads, ThreadStep(t) PROVE spoiled' \subseteq Connections
  <2>1. CASE Make(t) \/ Check(t) \/ Take(t) \/ TurnDone(t) \/ AllDone(t) \/ (\E n \in Names : Turn(t, n))
    BY <1>0, <2>1 DEF Make, Check, Take, TurnDone, AllDone, Turn
  <2>2. CASE \E g \in thread[t].groups : Insert(t, g) \/ InsertThenFail(t, g) \/ UpdateRows(t, g)
    BY <1>0, <2>2 DEF Insert, InsertThenFail, UpdateRows, Spoiled
  <2>3. CASE QueryKeys(t) \/ Reload(t) \/ Look(t) \/ DeleteRows(t)
    BY <1>0, <2>3 DEF QueryKeys, Reload, Look, LoadRows, DeleteRows
  <2>4. QED
    BY <1>1, <2>1, <2>2, <2>3 DEF ThreadStep
<1>2. CASE UpdateStep \/ Connect \/ RestartAll \/ \E t \in Threads : \E q \in Requests : Receive(t, q)
  BY <1>0, <1>2 DEF UpdateStep, Connect, RestartAll, Receive
<1>3. CASE UNCHANGED vars
  BY <1>0, <1>3 DEF vars, requestVars
<1>4. QED
  BY <1>1, <1>2, <1>3 DEF RequestsNext

LEMMA InitRight == RequestsInit => AnswersInv
<1> SUFFICES ASSUME RequestsInit PROVE AnswersInv
  OBVIOUS
<1> DEFINE s == [Idle EXCEPT !.answer = "none"]
<1>1. s = Idle
  BY IdleAnew
<1>2. Own(s) /\ KeysInv(s) /\ TaintInv(s) /\ s.held = {} /\ s.at = "idle" /\ \A m : LastInv(s, m)
  BY IdleRight
<1>3. DOMAIN thread = Threads /\ \A t \in Threads : thread[t] = s
  BY <1>1 DEF RequestsInit
<1> HIDE DEF s
<1>4. ThreadsRight /\ OwnInv
  BY <1>2, <1>3 DEF ThreadsRight, ApartInv, Right, OwnInv, RequestsInit
<1>5. HeldInv
  BY <1>2, <1>3 DEF HeldInv, HoldsRight, Before, Own, RecordInv, Fields
<1>6. /\ server \in {"MySQL", "PostgreSQL"} /\ PoolRestored /\ TablesInv /\ spoiled \subseteq Connections
  BY DEF RequestsInit, StructuresInit, PoolRestored, TablesInv
<1>7. QED
  BY <1>4, <1>5, <1>6 DEF AnswersInv

LEMMA StepAnswers ==
  ASSUME AnswersInv, [RequestsNext]_vars PROVE AnswersInv'
<1>1. server' = server
  BY ServerStays
<1>2. HeldInv' /\ OwnInv' /\ PoolRestored'
  BY StepHeld, StepOwn, ModeStep DEF AnswersInv
<1>3. ThreadsRight' /\ TablesInv' /\ spoiled' \subseteq Connections
  BY StepRight, StepTables, StepSpoiled
<1>4. QED
  BY <1>1, <1>2, <1>3 DEF AnswersInv

(* The inductive invariant: what every thread knows of its request agrees with
   what the statements of all threads did to the tables. *)
THEOREM AnswersInvariant == RequestsSpec => []AnswersInv
BY InitRight, StepAnswers, PTL DEF RequestsSpec

(* RequestsTypeOK: types, and no connection is held by two threads, by a thread
   and the update, or by a thread that has answered. *)
THEOREM RequestsTypeCorrect == RequestsSpec => []RequestsTypeOK
<1>1. ASSUME AnswersInv PROVE RequestsTypeOK
  <2>1. rows \in [Names -> SUBSET Row] /\ next \in [Names -> Nat \ {0}]
    BY <1>1 DEF AnswersInv, TablesInv
  <2>2. lax \subseteq Connections /\ spoiled \subseteq Connections /\ own \subseteq Connections
    BY <1>1 DEF AnswersInv, PoolRestored, OwnInv
  <2>3. ASSUME NEW t \in Threads
        PROVE  LET r == thread[t] IN
               /\ r.at \in {"idle", "make", "check", "take", "turn", "insert", "keys", "update", "reload", "look", "delete"}
               /\ r.answer \in {"none", "ok", "error", "thrown"}
               /\ \A i \in DOMAIN r.objects : r.objects[i] \in Entity
               /\ \A i \in DOMAIN r.asked : i \in Nat /\ r.asked[i] \in Json
               /\ r.left \subseteq DOMAIN r.objects
               /\ r.turns \subseteq Names /\ r.held \subseteq Connections
               /\ \A g \in r.groups \cup {r.group} : g \subseteq DOMAIN r.asked
               /\ DOMAIN r.objects \subseteq DOMAIN r.asked
               /\ r.at = "idle" => r.held = {} /\ r.groups = {}
    <3> DEFINE r == thread[t]
    <3>1. RecordInv(r)
      BY <1>1, ThreadIsRight DEF Own
    <3>2. HoldsRight(r)
      BY <1>1 DEF AnswersInv, HeldInv
    <3> HIDE DEF r
    <3>3. /\ r.at \in {"idle", "make", "check", "take", "turn", "insert", "keys", "update", "reload", "look", "delete"}
          /\ r.answer \in {"none", "ok", "error", "thrown"}
      BY <3>1 DEF RecordInv, RestInv, Before, Holding
    <3>4. /\ \A i \in DOMAIN r.objects : r.objects[i] \in Entity
          /\ \A i \in DOMAIN r.asked : i \in Nat /\ r.asked[i] \in Json
          /\ DOMAIN r.objects \subseteq DOMAIN r.asked /\ r.left \subseteq DOMAIN r.objects
      BY <3>1 DEF RecordInv, ObjectsInv, AskedInv, RestInv
    <3>5. \A g \in r.groups \cup {r.group} : g \subseteq DOMAIN r.asked
      BY <3>1 DEF RecordInv, RestInv
    <3>6. r.turns \subseteq Names
      BY <3>1, <3>4 DEF RecordInv, RestInv, Json
    <3>7. r.held \subseteq Connections /\ (r.at = "idle" => r.held = {} /\ r.groups = {})
      BY <3>1, <3>2 DEF HoldsRight, Holding, RecordInv, RestInv
    <3>8. QED
      BY <3>3, <3>4, <3>5, <3>6, <3>7 DEF r
  <2>4. /\ \A t, u \in Threads : t # u => thread[t].held \cap thread[u].held = {}
        /\ \A t \in Threads : thread[t].held \cap own = {}
    BY <1>1 DEF AnswersInv, ThreadsRight, ApartInv
  <2>5. QED
    BY <2>1, <2>2, <2>3, <2>4 DEF RequestsTypeOK
<1>2. QED
  BY <1>1, AnswersInvariant, PTL

-----------------------------------------------------------------------------
(* The step that answers is one of the thread's own. *)

LEMMA OthersStay ==
  ASSUME AnswersInv, NEW u \in Threads, NEW t \in Threads, t # u,
         ThreadStep(u) \/ \E q \in Requests : Receive(u, q)
  PROVE  thread'[t].at = thread[t].at
<1>1. DOMAIN thread = Threads /\ Fields \subseteq DOMAIN thread[t]
  BY ThreadIsRight DEF Own, RecordInv
<1>2. \A n : Raced(thread, n)[t].at = thread[t].at /\ DOMAIN Raced(thread, n) = Threads
  BY <1>1 DEF Raced, Fields
<1>3. CASE \E q \in Requests : Receive(u, q)
  BY <1>1, <1>3 DEF Receive
<1>4. CASE Make(u) \/ Check(u) \/ Take(u) \/ TurnDone(u) \/ AllDone(u) \/ (\E n \in Names : Turn(u, n))
  BY <1>1, <1>4 DEF Make, Check, Take, TurnDone, AllDone, Turn, Answer
<1>5. CASE \E g \in thread[u].groups : Insert(u, g) \/ InsertThenFail(u, g)
  <2>1. \/ \E a : Answer(u, a)
        \/ \E s : thread' = [Raced(thread, thread[u].of) EXCEPT ![u] = s]
    BY <1>5 DEF Insert, InsertThenFail
  <2>2. CASE \E a : Answer(u, a)
    BY <1>1, <2>2 DEF Answer
  <2>3. CASE \E s : thread' = [Raced(thread, thread[u].of) EXCEPT ![u] = s]
    BY <1>2, <2>3
  <2>4. QED
    BY <2>1, <2>2, <2>3
<1>6. CASE \E g \in thread[u].groups : UpdateRows(u, g)
  BY <1>1, <1>6 DEF UpdateRows, Answer
<1>7. CASE QueryKeys(u) \/ Reload(u) \/ Look(u) \/ DeleteRows(u)
  BY <1>1, <1>7 DEF QueryKeys, Reload, Look, LoadRows, DeleteRows, Answer
<1>8. QED
  BY <1>3, <1>4, <1>5, <1>6, <1>7 DEF ThreadStep

LEMMA AnsweredItself ==
  ASSUME AnswersInv, [RequestsNext]_vars, NEW t \in Threads, NEW a \in {"ok", "error", "thrown"}, Answers(t, a)
  PROVE  ThreadStep(t)
<1>0. Fields \subseteq DOMAIN thread[t]
  BY ThreadIsRight DEF Own, RecordInv
<1>1. CASE UpdateStep
  BY <1>0, <1>1 DEF UpdateStep, Answers, Fields
<1>2. CASE RestartAll
  BY <1>2 DEF RestartAll, Answers, Idle
<1>3. CASE Connect \/ UNCHANGED vars
  BY <1>3 DEF Connect, vars, requestVars, Answers
<1>4. ASSUME NEW u \in Threads, ThreadStep(u) \/ \E q \in Requests : Receive(u, q) PROVE ThreadStep(t)
  <2>1. CASE u # t
    BY <1>4, <2>1, OthersStay DEF Answers
  <2>2. CASE u = t
    BY <1>4, <2>2 DEF Answers, Receive
  <2>3. QED
    BY <2>1, <2>2
<1>5. QED
  BY <1>1, <1>2, <1>3, <1>4 DEF RequestsNext

(* The other steps of a thread are followed by more. *)
LEMMA StillBusy ==
  ASSUME AnswersInv, NEW t \in Threads,
         \/ (Make(t) \/ Check(t)) /\ ~Answer(t, "error")
         \/ Take(t) \/ TurnDone(t) \/ (\E n \in Names : Turn(t, n))
         \/ \E g \in thread[t].groups : UpdateRows(t, g) /\ ~Answer(t, "error") /\ ~Answer(t, "thrown")
  PROVE  thread'[t].at # "idle"
<1> DEFINE r == thread[t]
<1>0. Fields \subseteq DOMAIN r /\ DOMAIN thread = Threads
  BY ThreadIsRight DEF Own, RecordInv
<1>1. CASE (Make(t) \/ Check(t)) /\ ~Answer(t, "error")
  <2>1. PICK p, i : /\ thread' = [thread EXCEPT ![t] = Passed(p, i)]
                    /\ Fields \subseteq DOMAIN p /\ p.at = r.at /\ r.at # "idle"
    <3>1. CASE Make(t)
      <4>1. PICK i, o, b : thread' = [thread EXCEPT ![t] = Passed([r EXCEPT !.objects[i] = o, !.blind = b], i)]
        BY <1>1, <3>1 DEF Make
      <4>2. QED
        BY <1>0, <3>1, <4>1 DEF Make, Fields
    <3>2. CASE Check(t)
      <4>1. PICK i, b : thread' = [thread EXCEPT ![t] = Passed([r EXCEPT !.blind = b], i)]
        BY <1>1, <3>2 DEF Check
      <4>2. QED
        BY <1>0, <3>2, <4>1 DEF Check, Fields
    <3>3. QED
      BY <1>1, <3>1, <3>2
  <2>2. Passed(p, i).at # "idle"
    BY <2>1, PassedFields
  <2>3. QED
    BY <1>0, <2>1, <2>2
<1>2. CASE Take(t)
  <2>1. PICK c \in Free :
          thread' = [thread EXCEPT ![t].at = "turn", ![t].held = {c}, ![t].tainted = c \in spoiled,
                       ![t].turns = {e.of : e \in {thread[t].objects[i] : i \in DOMAIN thread[t].objects}}]
    BY <1>2 DEF Take
  <2> DEFINE s == [r EXCEPT !.at = "turn", !.held = {c}, !.tainted = c \in spoiled,
                     !.turns = {e.of : e \in {r.objects[i] : i \in DOMAIN r.objects}}]
  <2>2. thread' = [thread EXCEPT ![t] = s]
    BY <2>1
  <2>3. s.at = "turn"
    BY <1>0 DEF Fields
  <2> HIDE DEF s
  <2>4. QED
    BY <1>0, <2>2, <2>3
<1>3. CASE TurnDone(t)
  BY <1>0, <1>3 DEF TurnDone, Fields
<1>4. CASE \E n \in Names : Turn(t, n)
  <2>1. PICK n \in Names : Turn(t, n)
    BY <1>4
  <2> DEFINE s == [r EXCEPT !.at = Statement(r.op), !.turns = @ \ {n}, !.of = n, !.known = Known(n),
                     !.blind = @ \/ ~Known(n), !.groups = Grouped(r, n)]
  <2>2. thread' = [thread EXCEPT ![t] = s]
    BY <2>1 DEF Turn
  <2>3. s.at = Statement(r.op)
    BY <1>0 DEF Fields
  <2> HIDE DEF s
  <2>4. QED
    BY <1>0, <2>2, <2>3 DEF Statement
<1>5. CASE \E g \in r.groups : UpdateRows(t, g) /\ ~Answer(t, "error") /\ ~Answer(t, "thrown")
  <2>1. PICK g \in r.groups : UpdateRows(t, g) /\ ~Answer(t, "error") /\ ~Answer(t, "thrown")
    BY <1>5
  <2> DEFINE k == [i \in DOMAIN r.kept |->
                     IF i \in g /\ \E w \in rows[r.of] : i \in Matched(r, g, w)
                     THEN (CHOOSE w \in rows'[r.of] : w.key = r.objects[i].key).text ELSE r.kept[i]]
             s == [r EXCEPT !.at = "reload", !.groups = @ \ {g}, !.changed = TRUE, !.kept = k]
  <2>2. thread' = [thread EXCEPT ![t] = s]
    BY <2>1 DEF UpdateRows
  <2> HIDE DEF k
  <2>3. s.at = "reload"
    BY <1>0 DEF Fields
  <2> HIDE DEF s
  <2>4. QED
    BY <1>0, <2>2, <2>3
<1>6. QED
  BY <1>1, <1>2, <1>3, <1>4, <1>5

(* It says OK when there is nothing left to do, and anything else when a
   statement failed or threw. *)
LEMMA SaysOk ==
  ASSUME AnswersInv, [RequestsNext]_vars, NEW t \in Threads, Answers(t, "ok")
  PROVE  thread[t].at = "turn" /\ thread[t].turns = {}
<1>0. Fields \subseteq DOMAIN thread[t] /\ DOMAIN thread = Threads
  BY ThreadIsRight DEF Own, RecordInv
<1>1. ThreadStep(t) /\ thread'[t].at = "idle" /\ thread'[t].answer = "ok"
  BY AnsweredItself DEF Answers
<1>2. ~Answer(t, "error") /\ ~Answer(t, "thrown")
  BY <1>0, <1>1 DEF Answer, Idle
<1>3. ~(\E n : thread' = [Raced(thread, n) EXCEPT ![t] = [Idle EXCEPT !.answer = "error"]])
  BY <1>0, <1>1 DEF Raced, Idle
<1>4. CASE AllDone(t)
  BY <1>4 DEF AllDone
<1>5. ~(Make(t) \/ Check(t) \/ Take(t) \/ TurnDone(t) \/ (\E n \in Names : Turn(t, n)))
  BY <1>1, <1>2, StillBusy
<1>6. ~(\E g \in thread[t].groups : Insert(t, g) \/ InsertThenFail(t, g))
  <2>1. ASSUME NEW g, thread' = [Raced(thread, thread[t].of) EXCEPT ![t] = Inserted(thread[t], g)] PROVE FALSE
    <3>1. Inserted(thread[t], g).at # "idle"
      BY <1>0 DEF Inserted, Fields
    <3>2. thread'[t] = Inserted(thread[t], g)
      BY <1>0, <2>1 DEF Raced
    <3>3. QED
      BY <1>1, <3>1, <3>2
  <2>2. QED
    BY <1>2, <1>3, <2>1 DEF Insert, InsertThenFail
<1>7. ~(\E g \in thread[t].groups : UpdateRows(t, g))
  BY <1>1, <1>2, StillBusy
<1>8. ~(QueryKeys(t) \/ Reload(t) \/ Look(t) \/ DeleteRows(t))
  BY <1>0, <1>1, <1>2 DEF QueryKeys, Reload, Look, LoadRows, DeleteRows, Fields
<1>9. QED
  BY <1>1, <1>4, <1>5, <1>6, <1>7, <1>8 DEF ThreadStep

(* KeysTold: the keys a CREATE is told are those its rows have, unless a
   structure was unknown or the request was raced. *)
THEOREM KeysAreTold == RequestsSpec => KeysTold
<1>1. ASSUME AnswersInv, [RequestsNext]_vars, NEW t \in Threads, Answers(t, "ok"),
             thread[t].op = "create", ~thread[t].blind, ~thread[t].raced, NEW i \in DOMAIN thread[t].objects
      PROVE  thread[t].objects[i].key = thread[t].mine[i]
  <2> DEFINE r == thread[t]
  <2>1. r.at = "turn" /\ r.turns = {}
    BY <1>1, SaysOk
  <2>2. Own(r) /\ KeysInv(r)
    BY <1>1, ThreadIsRight
  <2>3. r.blind = FALSE /\ r.raced = FALSE /\ i \in DOMAIN r.asked
    BY <1>1, <2>2 DEF Own, RecordInv, RestInv, ObjectsInv
  <2>4. Pending(r, i) \/ r.objects[i].key = r.mine[i]
    BY <1>1, <2>1, <2>2, <2>3 DEF KeysInv, Holding
  <2>5. ~Pending(r, i)
    BY <2>1 DEF Pending
  <2>6. QED
    BY <2>4, <2>5
<1>2. AnswersInv /\ [RequestsNext]_vars =>
        [\A t \in Threads :
           Answers(t, "ok") /\ thread[t].op = "create" /\ ~thread[t].blind /\ ~thread[t].raced =>
             \A i \in DOMAIN thread[t].objects : thread[t].objects[i].key = thread[t].mine[i]]_vars
  BY <1>1
<1>3. QED
  BY <1>2, AnswersInvariant, PTL DEF RequestsSpec, KeysTold

(* StoredAsAsked: what an answered request stored is what it asked for, with
   the exceptions it names. *)
THEOREM StoredIsAsked == RequestsSpec => StoredAsAsked
<1>1. ASSUME AnswersInv, [RequestsNext]_vars, NEW t \in Threads, Answers(t, "ok"), ~thread[t].blind,
             NEW i \in DOMAIN thread[t].objects
      PROVE  KeptAsAsked(thread[t], i)
  <2> DEFINE r == thread[t]
  <2>1. Own(r)
    BY <1>1, ThreadIsRight
  <2>2. r.blind = FALSE /\ i \in DOMAIN r.asked
    BY <1>1, <2>1 DEF Own, RecordInv, RestInv, ObjectsInv
  <2>3. QED
    BY <2>1, <2>2 DEF Own, KeptInv
<1>2. AnswersInv /\ [RequestsNext]_vars =>
        [\A t \in Threads : Answers(t, "ok") /\ ~thread[t].blind =>
           \A i \in DOMAIN thread[t].objects : KeptAsAsked(thread[t], i)]_vars
  BY <1>1
<1>3. QED
  BY <1>2, AnswersInvariant, PTL DEF RequestsSpec, StoredAsAsked

(* What a thread does with the one statement of its request, and a failure. *)
LEMMA FailsOnce ==
  ASSUME AnswersInv, [RequestsNext]_vars, NEW t \in Threads, NEW a \in {"error", "thrown"}, Answers(t, a),
         Single(thread[t])
  PROVE  thread[t].changed = FALSE /\ rows' = rows
<1> DEFINE r == thread[t]
<1>0. Own(r) /\ Fields \subseteq DOMAIN r /\ DOMAIN thread = Threads
  BY ThreadIsRight DEF Own, RecordInv
<1>1. ThreadStep(t) /\ thread'[t].at = "idle" /\ thread'[t].answer = a
  BY AnsweredItself DEF Answers
<1>2. /\ r.changed # FALSE => r.at \in {"insert", "turn"} /\ r.turns = {}
      /\ r.at = "insert" => \A g \in r.groups : r.changed = FALSE
  BY <1>0 DEF Own, OnceInv
<1>3. r.op # "update" /\ (r.op = "create" => ~Negative(r) /\ ~HasZeroKey(r))
  BY <1>0 DEF Single, Several, Negative, HasZeroKey, Of, Own, RecordInv, ObjectsInv
<1>4. r.at \notin {"keys", "update", "reload"}
  BY <1>0, <1>3 DEF Own, PlaceInv, MadeInv
<1>5. CASE Make(t) \/ Check(t)
  BY <1>2, <1>5 DEF Make, Check
<1>6. CASE Take(t) \/ TurnDone(t) \/ AllDone(t) \/ (\E n \in Names : Turn(t, n))
  <2>1. ~AllDone(t)
    BY <1>0, <1>1 DEF AllDone, Answer, Idle
  <2>2. QED
    BY <1>1, <1>6, <2>1, StillBusy
<1>7. CASE \E g \in r.groups : Insert(t, g) \/ InsertThenFail(t, g)
  <2>1. PICK g \in r.groups : Insert(t, g) \/ InsertThenFail(t, g)
    BY <1>7
  <2>2. r.at = "insert" /\ r.changed = FALSE
    BY <1>2, <2>1 DEF Insert, InsertThenFail
  <2>3. ~HasZeroKey(r)
    BY <1>0, <1>3, <2>2 DEF Own, PlaceInv
  <2>4. Insert(t, g)
    BY <2>1, <2>3 DEF InsertThenFail
  <2>5. ~(thread' = [Raced(thread, r.of) EXCEPT ![t] = Inserted(r, g)])
    <3>1. Inserted(r, g).at # "idle"
      BY <1>0 DEF Inserted, Fields
    <3>2. QED
      BY <1>0, <1>1, <3>1 DEF Raced
  <2>6. rows' = rows
    BY <2>4, <2>5 DEF Insert
  <2>7. QED
    BY <2>2, <2>6
<1>8. ~(QueryKeys(t) \/ Reload(t) \/ \E g \in r.groups : UpdateRows(t, g))
  BY <1>4 DEF QueryKeys, Reload, LoadRows, UpdateRows
<1>9. CASE Look(t)
  BY <1>2, <1>9 DEF Look, LoadRows
<1>10. CASE DeleteRows(t)
  <2>1. Answer(t, "error") /\ UNCHANGED rows
    BY <1>0, <1>1, <1>10 DEF DeleteRows, Fields
  <2>2. QED
    BY <1>2, <1>10, <2>1 DEF DeleteRows
<1>11. QED
  BY <1>1, <1>5, <1>6, <1>7, <1>8, <1>9, <1>10 DEF ThreadStep

(* FailureChangesNothing: a request that comes to one statement, and was not torn
   into several by a reload of the structures, left the tables as they were if it
   was not answered OK. *)
THEOREM FailuresChangeNothing == RequestsSpec => FailureChangesNothing
<1>1. ASSUME AnswersInv, [RequestsNext]_vars, NEW t \in Threads, Answers(t, "error") \/ Answers(t, "thrown"),
             thread[t].changed \/ rows' # rows
      PROVE  Several(thread[t]) \/ Torn(thread[t])
  <2>1. SUFFICES ASSUME Single(thread[t]) PROVE FALSE
    BY DEF Single
  <2>2. thread[t].changed = FALSE /\ rows' = rows
    BY <1>1, <2>1, FailsOnce
  <2>3. QED
    BY <1>1, <2>2
<1>2. AnswersInv /\ [RequestsNext]_vars =>
        [\A t \in Threads :
           (Answers(t, "error") \/ Answers(t, "thrown")) /\ (thread[t].changed \/ rows' # rows) =>
             Several(thread[t]) \/ Torn(thread[t])]_vars
  BY <1>1
<1>3. QED
  BY <1>2, AnswersInvariant, PTL DEF RequestsSpec, FailureChangesNothing
===============================================================================
