------------------------- MODULE EntitiesCacheProofs -------------------------
(* Proofs about EntitiesCache for any number of types, keys, values and
   clients, and any number of writes. *)
EXTENDS EntitiesCache, TLAPS

-----------------------------------------------------------------------------
(* What the helpers on lists return. *)

LEMMA StoredIsRow ==
  ASSUME NEW v \in Values
  PROVE  Stored[v] \in Rows /\ Stored[v] \in Values /\ Stored[v] # NoRow
BY CacheAssumption DEF Rows

LEMMA RowsAreValues == Rows \subseteq Values /\ NoRow \notin Rows
BY CacheAssumption DEF Rows

LEMMA RowReadsBack == \A r \in Rows : Stored[r] = r
BY CacheAssumption DEF Rows

LEMMA ListOfType ==
  ASSUME NEW t \in Table
  PROVE  ListOf(t) \in Bag
BY DEF ListOf, Bag

LEMMA AddedType ==
  ASSUME NEW list \in Bag, NEW k \in Keys, NEW v \in Values
  PROVE  Added(list, k, v) \in Bag
BY DEF Added, Bag

LEMMA ErasedType ==
  ASSUME NEW list \in Bag, NEW k \in Keys
  PROVE  Erased(list, k) \in Bag
BY DEF Erased, Bag

LEMMA AppliedType ==
  ASSUME NEW list \in Bag, NEW ev \in Event
  PROVE  Applied(list, ev) \in Bag
<1>1. ev.key \in Keys /\ ev.val \in Values /\ ev.kind \in Kinds
  BY DEF Event
<1>2. Erased(list, ev.key) \in Bag
  BY <1>1, ErasedType
<1>3. Added(list, ev.key, ev.val) \in Bag
  BY <1>1, AddedType
<1>4. Added(Erased(list, ev.key), ev.key, ev.val) \in Bag
  BY <1>1, <1>2, AddedType
<1>5. CASE ev.kind = "ADD"
  BY <1>3, <1>5 DEF Applied
<1>6. CASE ev.kind = "REMOVE"
  BY <1>2, <1>6 DEF Applied
<1>7. CASE ev.kind = "UPDATE"
  BY <1>4, <1>7 DEF Applied
<1>8. QED
  BY <1>1, <1>5, <1>6, <1>7 DEF Kinds

LEMMA AnnouncedType ==
  ASSUME data \in [Names -> Bag], NEW n \in Names, NEW ev \in Event
  PROVE  Announced(n, ev) \in [Names -> Bag]
<1>1. Applied(data[n], ev) \in Bag
  BY AppliedType
<1>2. QED
  BY <1>1 DEF Announced

(* Changes reports events, and against rows that are the table's only true ones. *)
LEMMA DiffsSpec ==
  ASSUME NEW list \in Bag, NEW new \in Table, NEW d \in Diffs(list, new)
  PROVE  /\ d \subseteq Event
         /\ \A ev \in d : TrueOf(ev, new[ev.key])
<1> DEFINE Arrived == {k \in Present(new) : Copies(list, k) = {}}
           Differs == {k \in Present(new) : Copies(list, k) # {}
                                            /\ new[k] \notin Copies(list, k)}
           Mixed   == {k \in Present(new) : new[k] \in Copies(list, k)
                                            /\ Copies(list, k) # {new[k]}}
           Gone    == {e \in Keys \X Values : list[e] > 0 /\ new[e[1]] = NoRow}
           Adds    == {[kind |-> "ADD", key |-> k, val |-> new[k]] : k \in Arrived}
           Ups(M)  == {[kind |-> "UPDATE", key |-> k, val |-> new[k]] : k \in Differs \cup M}
           Rems    == {[kind |-> "REMOVE", key |-> e[1], val |-> e[2]] : e \in Gone}
<1>1. PICK M \in SUBSET Mixed : d = Adds \cup Ups(M) \cup Rems
  BY DEF Diffs
<1>2. \A k \in Present(new) : k \in Keys /\ new[k] \in Rows /\ new[k] \in Values
  BY RowsAreValues DEF Present, Table
<1>3. ASSUME NEW ev \in Adds
      PROVE  ev \in Event /\ ev.kind = "ADD" /\ new[ev.key] = Stored[ev.val]
  <2>1. PICK k \in Present(new) : ev = [kind |-> "ADD", key |-> k, val |-> new[k]]
    OBVIOUS
  <2>2. QED
    BY <1>2, <2>1, RowReadsBack DEF Event, Kinds
<1>4. ASSUME NEW ev \in Ups(M)
      PROVE  ev \in Event /\ ev.kind = "UPDATE" /\ new[ev.key] = Stored[ev.val]
  <2>1. PICK k \in Present(new) : ev = [kind |-> "UPDATE", key |-> k, val |-> new[k]]
    OBVIOUS
  <2>2. QED
    BY <1>2, <2>1, RowReadsBack DEF Event, Kinds
<1>5. ASSUME NEW ev \in Rems
      PROVE  ev \in Event /\ ev.kind = "REMOVE" /\ new[ev.key] = NoRow
  <2>1. PICK e \in Keys \X Values : /\ new[e[1]] = NoRow
                                    /\ ev = [kind |-> "REMOVE", key |-> e[1], val |-> e[2]]
    OBVIOUS
  <2>2. QED
    BY <2>1 DEF Event, Kinds
<1>6. QED
  BY <1>1, <1>3, <1>4, <1>5 DEF TrueOf

-----------------------------------------------------------------------------
(* Type correctness. *)

LEMMA ToNotifyType ==
  ASSUME op \in [Clients -> Op], NEW c \in Clients, NEW evs \in SUBSET Event, ToNotify(c, evs)
  PROVE  op' \in [Clients -> Op]
BY DEF ToNotify, Op, Idle

LEMMA TypeInit == Init => TypeOK
<1> SUFFICES ASSUME Init PROVE TypeOK
  OBVIOUS
<1>1. (CHOOSE n \in Names : TRUE) \in Names
  BY CacheAssumption
<1>2. op \in [Clients -> Op]
  BY <1>1 DEF Init, Op, Idle
<1>3. data \in [Names -> Bag]
  BY DEF Init, Bag
<1>4. newData \in Table
  BY DEF Init, Table
<1>5. table \in [Names -> Table]
  BY DEF Init
<1>6. disturbed \in [Names -> BOOLEAN] /\ writes \in 0..MaxWrites
  BY CacheAssumption DEF Init
<1>7. loading \subseteq Names /\ calcTodo \subseteq Names /\ changes \subseteq Event
  BY DEF Init
<1>8. QED
  BY <1>1, <1>2, <1>3, <1>4, <1>5, <1>6, <1>7 DEF Init, TypeOK

LEMMA TypeNext == TypeOK /\ [Next]_vars => TypeOK'
<1> SUFFICES ASSUME TypeOK, [Next]_vars PROVE TypeOK'
  OBVIOUS
<1> USE CacheAssumption
<1>1. ASSUME NEW n \in Names, CtorLoad(n) PROVE TypeOK'
  <2>1. ListOf(table[n]) \in Bag
    BY ListOfType DEF TypeOK
  <2>2. QED
    BY <1>1, <2>1 DEF CtorLoad, TypeOK, dbVars, calcVars
<1>2. CASE CtorSubscribe
  BY <1>2 DEF CtorSubscribe, TypeOK, dbVars, calcVars
<1>3. ASSUME NEW c \in Clients, NEW n \in Names, NEW objects \in Objects, Create(c, n, objects)
      PROVE TypeOK'
  <2>1. PICK S \in KeySets : objects \in [S -> Values]
    BY DEF Objects
  <2>2. table' \in [Names -> Table]
    BY <1>3, <2>1, StoredIsRow DEF Create, TypeOK, Table, KeySets
  <2>3. op' \in [Clients -> Op]
    <3> DEFINE evs == {[kind |-> "ADD", key |-> k, val |-> objects[k]] : k \in DOMAIN objects}
    <3>1. evs \in SUBSET Event
      BY <2>1 DEF KeySets, Event, Kinds
    <3>2. [pc |-> "notify", name |-> n, keys |-> {}, events |-> evs] \in Op
      BY <3>1 DEF Op
    <3>3. QED
      BY <1>3, <3>2 DEF Create, TypeOK
  <2>4. writes' \in 0..MaxWrites /\ disturbed' \in [Names -> BOOLEAN]
    BY <1>3 DEF Create, Begin, TypeOK
  <2>5. QED
    BY <1>3, <2>2, <2>3, <2>4 DEF Create, TypeOK, ctorVars, calcVars
<1>4. ASSUME NEW c \in Clients, NEW n \in Names, NEW objects \in Objects, Update(c, n, objects)
      PROVE TypeOK'
  <2>1. PICK S \in KeySets : objects \in [S -> Values]
    BY DEF Objects
  <2>2. table' \in [Names -> Table]
    BY <1>4, <2>1, StoredIsRow DEF Update, TypeOK, Table, KeySets
  <2>3. op' \in [Clients -> Op]
    BY <1>4, <2>1 DEF Update, TypeOK, Op, KeySets
  <2>4. writes' \in 0..MaxWrites /\ disturbed' \in [Names -> BOOLEAN]
    BY <1>4 DEF Update, Begin, TypeOK
  <2>5. QED
    BY <1>4, <2>2, <2>3, <2>4 DEF Update, TypeOK, ctorVars, calcVars
<1>5. ASSUME NEW c \in Clients, Reload(c) PROVE TypeOK'
  <2> DEFINE evs == {[kind |-> "UPDATE", key |-> k, val |-> table[op[c].name][k]]
                       : k \in op[c].keys \cap Present(table[op[c].name])}
  <2>1. op[c].name \in Names /\ op[c].keys \subseteq Keys
    BY DEF TypeOK, Op
  <2>2. evs \in SUBSET Event
    BY <2>1, RowsAreValues DEF TypeOK, Table, Present, Event, Kinds
  <2>3. ToNotify(c, evs)
    BY <1>5 DEF Reload
  <2>4. op' \in [Clients -> Op]
    BY <2>2, <2>3, ToNotifyType DEF TypeOK
  <2>5. QED
    BY <1>5, <2>4 DEF Reload, TypeOK, ctorVars, dbVars, calcVars
<1>6. ASSUME NEW c \in Clients, ReloadFails(c) PROVE TypeOK'
  BY <1>6 DEF ReloadFails, TypeOK, Op, Idle, ctorVars, dbVars, calcVars
<1>7. ASSUME NEW c \in Clients, NEW n \in Names, NEW keys \in KeySets, Remove(c, n, keys)
      PROVE TypeOK'
  <2> DEFINE evs == {[kind |-> "REMOVE", key |-> k, val |-> table[n][k]]
                       : k \in keys \cap Present(table[n])}
  <2>1. evs \in SUBSET Event
    BY RowsAreValues DEF TypeOK, Table, Present, Event, Kinds, KeySets
  <2>2. [pc |-> "delete", name |-> n, keys |-> keys, events |-> evs] \in Op
    BY <2>1 DEF Op, KeySets
  <2>3. op' \in [Clients -> Op]
    BY <1>7, <2>2 DEF Remove, TypeOK
  <2>4. writes' \in 0..MaxWrites /\ disturbed' \in [Names -> BOOLEAN]
    BY <1>7 DEF Remove, Begin, TypeOK
  <2>5. QED
    BY <1>7, <2>3, <2>4 DEF Remove, TypeOK, ctorVars, calcVars
<1>8. ASSUME NEW c \in Clients, Delete(c) PROVE TypeOK'
  <2>1. op[c].events \in SUBSET Event
    BY DEF TypeOK, Op
  <2>2. op' \in [Clients -> Op]
    BY <1>8, <2>1, ToNotifyType DEF Delete, TypeOK
  <2>3. table' \in [Names -> Table]
    BY <1>8 DEF Delete, TypeOK, Table
  <2>4. QED
    BY <1>8, <2>2, <2>3 DEF Delete, TypeOK, ctorVars, calcVars
<1>9. ASSUME NEW c \in Clients, DeleteFails(c) PROVE TypeOK'
  BY <1>9 DEF DeleteFails, TypeOK, Op, Idle, ctorVars, dbVars, calcVars
<1>10. ASSUME NEW c \in Clients, Notify(c) PROVE TypeOK'
  <2>1. PICK ev \in op[c].events : /\ data' = Announced(op[c].name, ev)
                                   /\ ToNotify(c, op[c].events \ {ev})
    BY <1>10 DEF Notify
  <2>2. op[c].name \in Names /\ op[c].events \in SUBSET Event
    BY DEF TypeOK, Op
  <2>3. data' \in [Names -> Bag]
    BY <2>1, <2>2, AnnouncedType DEF TypeOK
  <2>4. op' \in [Clients -> Op]
    BY <2>1, <2>2, ToNotifyType DEF TypeOK
  <2>5. QED
    BY <1>10, <2>3, <2>4 DEF Notify, TypeOK, ctorVars, dbVars, calcVars
<1>11. CASE Outside
  <2>1. PICK n \in Names, k \in Keys, row \in Rows \cup {NoRow} : OutsideWrite(n, k, row)
    BY <1>11 DEF Outside
  <2>2. table' \in [Names -> Table]
    BY <2>1 DEF OutsideWrite, TypeOK, Table
  <2>3. QED
    BY <2>1, <2>2 DEF OutsideWrite, TypeOK, ctorVars, calcVars
<1>12. CASE Tick
  BY <1>12 DEF Tick, TypeOK, ctorVars, dbVars, calcVars
<1>13. CASE CalcStart
  BY <1>13 DEF CalcStart, TypeOK, ctorVars, dbVars
<1>14. ASSUME NEW n \in Names, CalcLoad(n) PROVE TypeOK'
  BY <1>14 DEF CalcLoad, TypeOK, ctorVars, dbVars
<1>15. CASE CalcLoadFails
  BY <1>15 DEF CalcLoadFails, TypeOK, ctorVars, dbVars
<1>16. CASE CalcSwap
  <2>1. data[calcName] \in Bag /\ changes' \subseteq Event
    BY <1>16, DiffsSpec DEF CalcSwap, TypeOK
  <2>2. data' \in [Names -> Bag]
    BY <1>16, ListOfType DEF CalcSwap, TypeOK
  <2>3. QED
    BY <1>16, <2>1, <2>2 DEF CalcSwap, CalcNext, TypeOK, ctorVars, dbVars
<1>17. CASE CalcNotify
  <2>1. PICK ev \in changes : /\ data' = Announced(calcName, ev)
                              /\ changes' = changes \ {ev}
    BY <1>17 DEF CalcNotify
  <2>2. data' \in [Names -> Bag]
    BY <2>1, AnnouncedType DEF TypeOK
  <2>3. QED
    BY <1>17, <2>1, <2>2 DEF CalcNotify, CalcNext, TypeOK, ctorVars, dbVars
<1>18. CASE UNCHANGED vars
  BY <1>18 DEF TypeOK, vars
<1>20. ASSUME NEW c \in Clients, NEW n \in Names, NEW objects \in Objects, CreateFails(c, n, objects)
       PROVE TypeOK'
  <2>1. PICK S \in KeySets : objects \in [S -> Values]
    BY DEF Objects
  <2>2. table' \in [Names -> Table]
    BY <1>20, <2>1, StoredIsRow DEF CreateFails, TypeOK, Table, KeySets
  <2>3. writes' \in 0..MaxWrites /\ disturbed' \in [Names -> BOOLEAN]
    BY <1>20 DEF CreateFails, TypeOK
  <2>4. QED
    BY <1>20, <2>2, <2>3 DEF CreateFails, TypeOK, ctorVars, calcVars
<1>19. QED
  BY <1>1, <1>2, <1>3, <1>4, <1>5, <1>6, <1>7, <1>8, <1>9, <1>10, <1>11, <1>12, <1>13,
     <1>14, <1>15, <1>16, <1>17, <1>18, <1>20
     DEF Next, Ctor, ClientStep, ClientStart, Calc

(* The state stays within its types whatever the threads, the reloads and the
   database do. *)
THEOREM TypeCorrect == Spec => []TypeOK
BY TypeInit, TypeNext, PTL DEF Spec

-----------------------------------------------------------------------------
(* How the list reads after an announcement. *)

LEMMA CopiesOfListOf ==
  ASSUME NEW t \in Table, NEW k \in Keys
  PROVE  ReadsAs(ListOf(t), k, t[k])
<1>1. t[k] \in Rows \cup {NoRow}
  BY DEF Table
<1>2. Copies(ListOf(t), k) = {t[k]} \ {NoRow}
  BY <1>1, RowsAreValues, CacheAssumption DEF Copies, ListOf
<1>3. QED
  BY <1>1, <1>2, RowReadsBack DEF ReadsAs

LEMMA NoRowNoCopies ==
  ASSUME NEW list, NEW k, ReadsAs(list, k, NoRow)
  PROVE  Copies(list, k) = {}
BY DEF ReadsAs

LEMMA AppliedCopies ==
  ASSUME NEW list \in Bag, NEW ev \in Event, NEW k \in Keys
  PROVE  Copies(Applied(list, ev), k) =
           IF k # ev.key THEN Copies(list, k)
           ELSE IF ev.kind = "REMOVE" THEN {}
           ELSE IF ev.kind = "UPDATE" THEN {ev.val}
           ELSE Copies(list, k) \cup {ev.val}
<1>1. ev.key \in Keys /\ ev.val \in Values /\ ev.kind \in Kinds
  BY DEF Event
<1>2. ASSUME NEW l \in Bag
      PROVE Copies(Added(l, ev.key, ev.val), k) =
              IF k = ev.key THEN Copies(l, k) \cup {ev.val} ELSE Copies(l, k)
  BY <1>1 DEF Copies, Added, Bag
<1>3. Copies(Erased(list, ev.key), k) = IF k = ev.key THEN {} ELSE Copies(list, k)
  BY <1>1 DEF Copies, Erased, Bag
<1>4. Erased(list, ev.key) \in Bag
  BY <1>1, ErasedType
<1>5. CASE ev.kind = "ADD"
  BY <1>2, <1>5 DEF Applied
<1>6. CASE ev.kind = "REMOVE"
  BY <1>3, <1>6 DEF Applied
<1>7. CASE ev.kind = "UPDATE"
  BY <1>2, <1>3, <1>4, <1>7 DEF Applied
<1>8. QED
  BY <1>1, <1>5, <1>6, <1>7 DEF Kinds

(* An event that is true of the row makes the list read as the row, if an
   addition finds no copy or copies that read as the row already. *)
LEMMA AppliedReads ==
  ASSUME NEW list \in Bag, NEW ev \in Event, NEW row, TrueOf(ev, row),
         ev.kind = "ADD" => Copies(list, ev.key) = {} \/ ReadsAs(list, ev.key, row)
  PROVE  ReadsAs(Applied(list, ev), ev.key, row)
<1>1. ev.key \in Keys /\ ev.val \in Values /\ ev.kind \in Kinds
  BY DEF Event
<1>2. Stored[ev.val] # NoRow
  BY <1>1, StoredIsRow
<1>3. CASE ev.kind = "ADD"
  BY <1>1, <1>2, <1>3, AppliedCopies DEF ReadsAs, TrueOf
<1>4. CASE ev.kind = "REMOVE"
  BY <1>1, <1>4, AppliedCopies DEF ReadsAs, TrueOf
<1>5. CASE ev.kind = "UPDATE"
  BY <1>1, <1>2, <1>5, AppliedCopies DEF ReadsAs, TrueOf
<1>6. QED
  BY <1>1, <1>3, <1>4, <1>5 DEF Kinds
-----------------------------------------------------------------------------
(* The invariant about types that nothing disturbed. *)

CalcAlike == UNCHANGED <<calcPc, calcName, newData, changes>>

(* A step that touches neither the rows, the list, the requests nor the reload
   of a type leaves the type undisturbed. *)
LEMMA Frame ==
  ASSUME NEW n \in Names, Undisturbed(n), subscribed',
         data'[n] = data[n], table'[n] = table[n],
         \A c \in Clients : op'[c] = op[c] \/ (c \notin InFlight(n) /\ c \notin InFlight(n)'),
         CalcAlike \/ (~Refreshing(n) /\ ~Refreshing(n)')
  PROVE  Undisturbed(n)'
<1>1. InFlight(n)' = InFlight(n)
  BY DEF InFlight
<1>2. \A c \in InFlight(n) : op'[c] = op[c] /\ c \in Clients
  BY DEF InFlight
<1>3. \A k : Agrees(n, k)' <=> Agrees(n, k)
  BY DEF Agrees
<1>4. \A ev : Truthful(n, ev)' <=> Truthful(n, ev)
  BY DEF Truthful
<1>5. Refreshing(n)' => InFlight(n)' = {} /\ newData' = table'[n]
  BY <1>1 DEF Undisturbed, CalcAlike, Refreshing
<1>6. ASSUME InFlight(n)' = {}, ~(calcPc' = "swap" /\ calcName' = n), NEW k \in Keys
      PROVE  Agrees(n, k)'
  BY <1>1, <1>3, <1>6 DEF Undisturbed, CalcAlike, Refreshing
<1>7. (calcPc' = "notify" /\ calcName' = n) => \A ev \in changes' : Truthful(n, ev)'
  BY <1>4 DEF Undisturbed, CalcAlike, Refreshing
<1>8. ASSUME NEW c \in InFlight(n)
      PROVE  /\ (op[c].pc = "reload" => Reloading(n, op[c]))'
             /\ (op[c].pc = "delete" => Deleting(n, op[c]))'
             /\ (op[c].pc = "notify" => Announcing(n, op[c]))'
  <2>1. Reloading(n, op[c]) => Reloading(n, op[c])'
    BY <1>2, <1>3 DEF Reloading
  <2>2. Deleting(n, op[c]) => Deleting(n, op[c])'
    BY <1>2, <1>3 DEF Deleting
  <2>3. Announcing(n, op[c]) => Announcing(n, op[c])'
    BY <1>2, <1>3, <1>4 DEF Announcing
  <2>4. QED
    BY <1>2, <2>1, <2>2, <2>3 DEF Undisturbed
<1>9. \A c1, c2 \in InFlight(n)' : c1 = c2
  BY <1>1 DEF Undisturbed
<1>10. QED
  BY <1>1, <1>5, <1>6, <1>7, <1>8, <1>9 DEF Undisturbed

(* A step of a client on one type is no step on another. *)
LEMMA Elsewhere ==
  ASSUME NEW c \in Clients, NEW m \in Names, NEW n \in Names, n # m, Undisturbed(n),
         op \in [Clients -> Op], NEW o, o.name = m, op' = [op EXCEPT ![c] = o],
         op[c].pc = "idle" \/ op[c].name = m,
         subscribed' = subscribed, data'[n] = data[n], table'[n] = table[n], UNCHANGED calcVars
  PROVE  Undisturbed(n)'
<1>1. \A d \in Clients : op'[d] = op[d] \/ (d \notin InFlight(n) /\ d \notin InFlight(n)')
  BY DEF InFlight
<1>2. CalcAlike
  BY DEF CalcAlike, calcVars
<1>3. subscribed
  BY DEF Undisturbed
<1>4. QED
  BY <1>1, <1>2, <1>3, Frame

(* The one client at work on a type is the one that steps, and the reload is not. *)
LEMMA Alone ==
  ASSUME NEW c \in Clients, NEW n \in Names, Undisturbed(n), op[c].pc # "idle", op[c].name = n
  PROVE  InFlight(n) = {c} /\ ~Refreshing(n) /\ subscribed
BY DEF Undisturbed, InFlight

(* What makes a type undisturbed while client c alone is at work on it. *)
LEMMA StaysAlone ==
  ASSUME NEW c \in Clients, NEW n \in Names, subscribed', ~Refreshing(n), UNCHANGED calcVars,
         InFlight(n) \subseteq {c}, op \in [Clients -> Op],
         NEW o, o.name = n, op' = [op EXCEPT ![c] = o],
         o.pc \in {"idle", "reload", "delete", "notify"},
         o.pc = "idle"   => \A k \in Keys : Agrees(n, k)',
         o.pc = "reload" => Reloading(n, o)',
         o.pc = "delete" => Deleting(n, o)',
         o.pc = "notify" => Announcing(n, o)'
  PROVE  Undisturbed(n)'
<1>1. op'[c] = o
  OBVIOUS
<1>2. InFlight(n)' = IF o.pc = "idle" THEN {} ELSE {c}
  BY <1>1 DEF InFlight
<1>3. ~Refreshing(n)'
  BY DEF Refreshing, calcVars
<1>4. (InFlight(n)' = {} /\ ~(calcPc' = "swap" /\ calcName' = n)) => \A k \in Keys : Agrees(n, k)'
  BY <1>2
<1>5. (calcPc' = "notify" /\ calcName' = n) => \A ev \in changes' : Truthful(n, ev)'
  BY <1>3 DEF Refreshing
<1>6. \A c1, c2 \in InFlight(n)' : c1 = c2
  BY <1>2
<1>7. ASSUME NEW d \in InFlight(n)'
      PROVE  /\ (op[d].pc = "reload" => Reloading(n, op[d]))'
             /\ (op[d].pc = "delete" => Deleting(n, op[d]))'
             /\ (op[d].pc = "notify" => Announcing(n, op[d]))'
  <2>1. d = c
    BY <1>2
  <2>2. QED
    BY <1>1, <2>1
<1>8. QED
  BY <1>3, <1>4, <1>5, <1>6, <1>7 DEF Undisturbed
-----------------------------------------------------------------------------
(* One lemma per step of a client: the type it works on stays undisturbed. *)

LEMMA BeginAlone ==
  ASSUME NEW n \in Names, disturbed \in [Names -> BOOLEAN], Begin(n)
  PROVE  /\ ~disturbed'[n] => ~disturbed[n] /\ InFlight(n) = {} /\ ~Refreshing(n)
         /\ \A m \in Names : m # n => disturbed'[m] = disturbed[m]
BY DEF Begin

LEMMA CreateStep ==
  ASSUME TypeOK, NEW c \in Clients, NEW n \in Names, NEW objects \in Objects,
         Create(c, n, objects), ~disturbed'[n], Undisturbed(n)
  PROVE  Undisturbed(n)'
<1> DEFINE evs == {[kind |-> "ADD", key |-> k, val |-> objects[k]] : k \in DOMAIN objects}
           o   == [pc |-> "notify", name |-> n, keys |-> {}, events |-> evs]
<1>1. PICK S \in KeySets : objects \in [S -> Values]
  BY DEF Objects
<1>2. S = DOMAIN objects /\ S \subseteq Keys
  BY <1>1 DEF KeySets
<1>3. InFlight(n) = {} /\ ~Refreshing(n)
  BY BeginAlone DEF Create, TypeOK
<1>4. \A k \in Keys : Agrees(n, k)
  BY <1>3 DEF Undisturbed, Refreshing
<1>5. \A k \in Keys : table'[n][k] = IF k \in S THEN Stored[objects[k]] ELSE table[n][k]
  BY <1>2 DEF Create, TypeOK
<1>6. data' = data
  BY DEF Create
<1>7. \A k \in S : Copies(data[n], k)' = {}
  <2>1. ASSUME NEW k \in S PROVE table[n][k] = NoRow
    BY <1>2 DEF Create, Present
  <2>2. QED
    BY <1>2, <1>4, <1>6, <2>1, NoRowNoCopies DEF Agrees, Copies
<1>8. \A k \in Keys \ S : Agrees(n, k)'
  BY <1>4, <1>5, <1>6 DEF Agrees
<1>9. Announcing(n, o)'
  <2>1. ASSUME NEW ev \in evs
        PROVE  ev.key \in S /\ ev = [kind |-> "ADD", key |-> ev.key, val |-> objects[ev.key]]
    BY <1>2
  <2>2. \A ev \in evs : Truthful(n, ev)'
    BY <1>2, <1>5, <2>1 DEF Truthful, TrueOf
  <2>3. \A ev \in evs : ev.kind = "ADD" => Copies(data[n], ev.key)' = {}
    BY <1>7, <2>1
  <2>4. \A e1, e2 \in evs : e1.key = e2.key => e1 = e2
    BY <2>1
  <2>5. \A k \in Keys : Agrees(n, k)' \/ \E ev \in evs : ev.key = k
    <3>1. ASSUME NEW k \in S PROVE \E ev \in evs : ev.key = k
      <4> DEFINE ev == [kind |-> "ADD", key |-> k, val |-> objects[k]]
      <4>1. ev \in evs /\ ev.key = k
        BY <1>2
      <4>2. QED
        BY <4>1
    <3>2. QED
      BY <1>8, <3>1
  <2>6. QED
    BY <2>2, <2>3, <2>4, <2>5 DEF Announcing
<1>10. subscribed' /\ op' = [op EXCEPT ![c] = o] /\ UNCHANGED calcVars
  BY DEF Create, Undisturbed, ctorVars
<1>11. QED
  BY <1>3, <1>9, <1>10, StaysAlone DEF TypeOK

LEMMA UpdateStep ==
  ASSUME TypeOK, NEW c \in Clients, NEW n \in Names, NEW objects \in Objects,
         Update(c, n, objects), ~disturbed'[n], Undisturbed(n)
  PROVE  Undisturbed(n)'
<1> DEFINE o == [pc |-> "reload", name |-> n, keys |-> DOMAIN objects, events |-> {}]
<1>1. PICK S \in KeySets : objects \in [S -> Values]
  BY DEF Objects
<1>2. S = DOMAIN objects /\ S \subseteq Keys
  BY <1>1 DEF KeySets
<1>3. InFlight(n) = {} /\ ~Refreshing(n)
  BY BeginAlone DEF Update, TypeOK
<1>4. \A k \in Keys : Agrees(n, k)
  BY <1>3 DEF Undisturbed, Refreshing
<1>5. \A k \in Keys : table'[n][k] =
                         IF k \in S /\ table[n][k] # NoRow THEN Stored[objects[k]] ELSE table[n][k]
  BY <1>2 DEF Update, TypeOK
<1>6. \A k \in S : Stored[objects[k]] # NoRow
  BY <1>1, StoredIsRow
<1>7. data' = data
  BY DEF Update
<1>8. Reloading(n, o)'
  <2>1. ASSUME NEW k \in Keys PROVE Agrees(n, k)' \/ (k \in S /\ table'[n][k] # NoRow)
    <3>1. CASE k \in S /\ table[n][k] # NoRow
      BY <1>5, <1>6, <3>1
    <3>2. CASE ~(k \in S /\ table[n][k] # NoRow)
      BY <1>4, <1>5, <1>7, <3>2 DEF Agrees
    <3>3. QED
      BY <3>1, <3>2
  <2>2. QED
    BY <1>2, <2>1 DEF Reloading
<1>9. subscribed' /\ op' = [op EXCEPT ![c] = o] /\ UNCHANGED calcVars
  BY DEF Update, Undisturbed, ctorVars
<1>10. QED
  BY <1>3, <1>8, <1>9, StaysAlone DEF TypeOK

LEMMA RemoveStep ==
  ASSUME TypeOK, NEW c \in Clients, NEW n \in Names, NEW keys \in KeySets,
         Remove(c, n, keys), ~disturbed'[n], Undisturbed(n)
  PROVE  Undisturbed(n)'
<1> PICK evs : evs = {[kind |-> "REMOVE", key |-> k, val |-> table[n][k]]
                        : k \in keys \cap Present(table[n])}
  OBVIOUS
<1> DEFINE o == [pc |-> "delete", name |-> n, keys |-> keys, events |-> evs]
<1>1. InFlight(n) = {} /\ ~Refreshing(n)
  BY BeginAlone DEF Remove, TypeOK
<1>2. \A k \in Keys : Agrees(n, k)
  BY <1>1 DEF Undisturbed, Refreshing
<1>3. data' = data /\ table' = table
  BY DEF Remove
<1>4. Deleting(n, o)'
  <2>1. \A k \in Keys : Agrees(n, k)'
    BY <1>2, <1>3 DEF Agrees
  <2>2. ASSUME NEW ev \in evs
        PROVE  ev.key \in keys /\ ev = [kind |-> "REMOVE", key |-> ev.key, val |-> table[n][ev.key]]
    OBVIOUS
  <2>3. \A k \in keys : table'[n][k] = NoRow \/ \E ev \in evs : ev.key = k
    <3>1. ASSUME NEW k \in keys \cap Present(table[n]) PROVE \E ev \in evs : ev.key = k
      <4> PICK ev : ev = [kind |-> "REMOVE", key |-> k, val |-> table[n][k]]
        OBVIOUS
      <4>1. ev \in evs /\ ev.key = k
        OBVIOUS
      <4>2. QED
        BY <4>1
    <3>2. \A k \in keys : k \in Keys
      BY DEF KeySets
    <3>3. QED
      BY <1>3, <3>1, <3>2 DEF Present
  <2>4. QED
    BY <2>1, <2>2, <2>3 DEF Deleting
<1>5. subscribed' /\ op' = [op EXCEPT ![c] = o] /\ UNCHANGED calcVars
  BY DEF Remove, Undisturbed, ctorVars
<1>6. QED
  BY <1>1, <1>4, <1>5, StaysAlone DEF TypeOK
(* What is left to announce decides what the client is in next. *)
LEMMA ToNotifyStays ==
  ASSUME TypeOK, NEW c \in Clients, NEW n \in Names, op[c].name = n, Undisturbed(n),
         op[c].pc # "idle", subscribed' = subscribed, UNCHANGED calcVars,
         NEW evs, ToNotify(c, evs),
         \A ev \in evs : Truthful(n, ev)',
         \A ev \in evs : ev.kind = "ADD" => Copies(data[n], ev.key)' = {},
         \A e1, e2 \in evs : e1.key = e2.key => e1 = e2,
         \A k \in Keys : Agrees(n, k)' \/ \E ev \in evs : ev.key = k
  PROVE  Undisturbed(n)'
<1> PICK o : o = IF evs = {} THEN Idle(n)
                 ELSE [pc |-> "notify", name |-> n, keys |-> {}, events |-> evs]
  OBVIOUS
<1>1. op' = [op EXCEPT ![c] = o]
  BY DEF ToNotify
<1>2. InFlight(n) = {c} /\ ~Refreshing(n) /\ subscribed
  BY Alone
<1>3. o.name = n /\ o.pc \in {"idle", "notify"} /\ (o.pc = "idle" <=> evs = {})
  BY DEF Idle
<1>4. o.pc = "idle" => \A k \in Keys : Agrees(n, k)'
  BY <1>3
<1>5. o.pc = "notify" => Announcing(n, o)'
  <2> HAVE o.pc = "notify"
  <2>1. o.events = evs
    BY <1>3
  <2>2. QED
    BY <2>1 DEF Announcing
<1>6. QED
  BY <1>1, <1>2, <1>3, <1>4, <1>5, StaysAlone DEF TypeOK

LEMMA ReloadStep ==
  ASSUME TypeOK, NEW c \in Clients, Reload(c), NEW n \in Names, op[c].name = n, Undisturbed(n)
  PROVE  Undisturbed(n)'
<1> PICK t : t = table[n]
  OBVIOUS
<1> PICK keys : keys = op[c].keys
  OBVIOUS
<1> DEFINE evs == {[kind |-> "UPDATE", key |-> k, val |-> t[k]] : k \in keys \cap Present(t)}
<1>1. ToNotify(c, evs) /\ op[c].pc = "reload" /\ data' = data /\ table' = table
  BY DEF Reload, dbVars
<1>2. InFlight(n) = {c}
  BY <1>1, Alone
<1>3. \A k \in Keys : Agrees(n, k) \/ (k \in keys /\ t[k] # NoRow)
  BY <1>1, <1>2 DEF Undisturbed, Reloading
<1>4. \A k \in Present(t) : Stored[t[k]] = t[k]
  BY RowReadsBack DEF TypeOK, Table, Present
<1>5. ASSUME NEW ev \in evs
      PROVE  ev = [kind |-> "UPDATE", key |-> ev.key, val |-> t[ev.key]] /\ ev.key \in Present(t)
  OBVIOUS
<1>6. \A ev \in evs : Truthful(n, ev)'
  BY <1>1, <1>4, <1>5 DEF Truthful, TrueOf
<1>7. \A ev \in evs : ev.kind = "ADD" => Copies(data[n], ev.key)' = {}
  BY <1>5
<1>8. \A e1, e2 \in evs : e1.key = e2.key => e1 = e2
  BY <1>5
<1>9. ASSUME NEW k \in Keys PROVE Agrees(n, k)' \/ \E ev \in evs : ev.key = k
  <2>1. CASE Agrees(n, k)
    BY <1>1, <2>1 DEF Agrees
  <2>2. CASE k \in keys /\ t[k] # NoRow
    <3> DEFINE ev == [kind |-> "UPDATE", key |-> k, val |-> t[k]]
    <3>1. ev \in evs /\ ev.key = k
      BY <2>2 DEF Present
    <3>2. QED
      BY <3>1
  <2>3. QED
    BY <1>3, <2>1, <2>2
<1>10. subscribed' = subscribed /\ UNCHANGED calcVars
  BY DEF Reload, ctorVars
<1> HIDE DEF evs
<1>11. QED
  BY <1>1, <1>6, <1>7, <1>8, <1>9, <1>10, ToNotifyStays

LEMMA DeleteStep ==
  ASSUME TypeOK, NEW c \in Clients, Delete(c), NEW n \in Names, op[c].name = n, Undisturbed(n)
  PROVE  Undisturbed(n)'
<1> PICK evs : evs = op[c].events
  OBVIOUS
<1> PICK keys : keys = op[c].keys
  OBVIOUS
<1>1. ToNotify(c, evs) /\ op[c].pc = "delete" /\ data' = data
  BY DEF Delete
<1>2. \A k \in Keys : table'[n][k] = IF k \in keys THEN NoRow ELSE table[n][k]
  BY DEF Delete, TypeOK
<1>3. InFlight(n) = {c}
  BY <1>1, Alone
<1>4. Deleting(n, op[c])
  BY <1>1, <1>3 DEF Undisturbed
<1>5. \A ev \in evs : ev.kind = "REMOVE" /\ ev.key \in keys /\ ev.key \in Keys
  BY <1>4 DEF Deleting, TypeOK, Op, Event
<1>6. \A ev \in evs : Truthful(n, ev)'
  BY <1>2, <1>5 DEF Truthful, TrueOf
<1>7. \A ev \in evs : ev.kind = "ADD" => Copies(data[n], ev.key)' = {}
  BY <1>5
<1>8. \A e1, e2 \in evs : e1.key = e2.key => e1 = e2
  BY <1>4 DEF Deleting
<1>9. ASSUME NEW k \in Keys PROVE Agrees(n, k)' \/ \E ev \in evs : ev.key = k
  <2>1. Agrees(n, k) /\ (k \in keys => table[n][k] = NoRow \/ \E ev \in evs : ev.key = k)
    BY <1>4 DEF Deleting
  <2>2. CASE table'[n][k] = table[n][k]
    BY <1>1, <2>1, <2>2 DEF Agrees
  <2>3. CASE table'[n][k] # table[n][k]
    BY <1>2, <2>1, <2>3
  <2>4. QED
    BY <2>2, <2>3
<1>10. subscribed' = subscribed /\ UNCHANGED calcVars
  BY DEF Delete, ctorVars
<1>11. QED
  BY <1>1, <1>6, <1>7, <1>8, <1>9, <1>10, ToNotifyStays

LEMMA DeleteFailsStep ==
  ASSUME TypeOK, NEW c \in Clients, DeleteFails(c), NEW n \in Names, op[c].name = n, Undisturbed(n)
  PROVE  Undisturbed(n)'
<1> PICK o : o = Idle(n)
  OBVIOUS
<1>1. op' = [op EXCEPT ![c] = o] /\ op[c].pc = "delete"
  BY DEF DeleteFails
<1>2. InFlight(n) = {c} /\ ~Refreshing(n) /\ subscribed
  BY <1>1, Alone
<1>3. \A k \in Keys : Agrees(n, k)'
  BY <1>1, <1>2 DEF Undisturbed, Deleting, Agrees, DeleteFails, dbVars
<1>4. subscribed' = subscribed /\ UNCHANGED calcVars
  BY DEF DeleteFails, ctorVars
<1>5. o.pc = "idle" /\ o.name = n
  BY DEF Idle
<1>6. QED
  BY <1>1, <1>2, <1>3, <1>4, <1>5, StaysAlone DEF TypeOK

LEMMA NotifyStep ==
  ASSUME TypeOK, NEW c \in Clients, Notify(c), NEW n \in Names, op[c].name = n, Undisturbed(n)
  PROVE  Undisturbed(n)'
<1>1. PICK ev \in op[c].events : /\ op[c].pc = "notify"
                                 /\ data' = Announced(n, ev)
                                 /\ ToNotify(c, op[c].events \ {ev})
  BY DEF Notify
<1> PICK evs : evs = op[c].events
  OBVIOUS
<1>2. InFlight(n) = {c} /\ subscribed
  BY <1>1, Alone
<1>3. Announcing(n, op[c])
  BY <1>1, <1>2 DEF Undisturbed
<1>4. evs \subseteq Event
  BY DEF TypeOK, Op
<1>5. data[n] \in Bag /\ data'[n] = Applied(data[n], ev) /\ table' = table
  BY <1>1, <1>2 DEF Announced, Notify, TypeOK, dbVars
<1>6. \A k \in Keys : k # ev.key => Copies(data'[n], k) = Copies(data[n], k)
  BY <1>4, <1>5, AppliedCopies
<1>7. ReadsAs(data'[n], ev.key, table[n][ev.key])
  BY <1>3, <1>4, <1>5, AppliedReads DEF Announcing, Truthful
<1>8. \A x \in evs \ {ev} : Truthful(n, x)'
  BY <1>3, <1>5 DEF Announcing, Truthful
<1>9. \A x \in evs \ {ev} : x.key # ev.key /\ x.key \in Keys
  BY <1>3, <1>4 DEF Announcing, Event
<1>10. \A x \in evs \ {ev} : x.kind = "ADD" => Copies(data[n], x.key)' = {}
  BY <1>3, <1>6, <1>9 DEF Announcing, Copies
<1>11. \A e1, e2 \in evs \ {ev} : e1.key = e2.key => e1 = e2
  BY <1>3 DEF Announcing
<1>12. ASSUME NEW k \in Keys PROVE Agrees(n, k)' \/ \E x \in evs \ {ev} : x.key = k
  <2>1. CASE k = ev.key
    BY <1>5, <1>7, <2>1 DEF Agrees
  <2>2. CASE k # ev.key /\ Agrees(n, k)
    BY <1>5, <1>6, <2>2 DEF Agrees, ReadsAs
  <2>3. CASE k # ev.key /\ \E x \in evs : x.key = k
    BY <2>3
  <2>4. QED
    BY <1>3, <2>1, <2>2, <2>3 DEF Announcing
<1>13. subscribed' = subscribed /\ UNCHANGED calcVars
  BY DEF Notify, ctorVars
<1>14. QED
  BY <1>1, <1>8, <1>10, <1>11, <1>12, <1>13, ToNotifyStays
-----------------------------------------------------------------------------
(* One lemma per step of the reload that the type it works on notices. *)

LEMMA CalcLoadStep ==
  ASSUME TypeOK, subscribed, NEW n \in Names, CalcLoad(n), ~disturbed'[n]
  PROVE  Undisturbed(n)'
<1>1. InFlight(n) = {}
  BY DEF CalcLoad, TypeOK
<1>2. InFlight(n)' = {}
  BY <1>1 DEF CalcLoad, InFlight
<1>3. calcPc' = "swap" /\ calcName' = n /\ newData' = table[n] /\ table' = table /\ subscribed'
  BY DEF CalcLoad, dbVars, ctorVars
<1>4. QED
  BY <1>2, <1>3 DEF Undisturbed

LEMMA CalcSwapStep ==
  ASSUME TypeOK, CalcSwap, Undisturbed(calcName)
  PROVE  Undisturbed(calcName)'
<1> PICK n : n = calcName
  OBVIOUS
<1>1. n \in Names /\ InFlight(n) = {} /\ newData = table[n] /\ subscribed
  BY DEF CalcSwap, TypeOK, Undisturbed, Refreshing
<1>2. calcName' = n /\ newData' = newData /\ table' = table /\ op' = op /\ subscribed'
  BY <1>1 DEF CalcSwap, dbVars, ctorVars
<1>3. InFlight(n)' = {}
  BY <1>1, <1>2 DEF InFlight
<1>4. data'[n] = ListOf(table[n]) /\ table[n] \in Table
  BY <1>1 DEF CalcSwap, TypeOK
<1>5. \A k \in Keys : Agrees(n, k)'
  BY <1>2, <1>4, CopiesOfListOf DEF Agrees
<1>6. \A ev \in changes' : Truthful(n, ev)'
  BY <1>1, <1>2, DiffsSpec DEF CalcSwap, TypeOK, Truthful
<1>7. newData' = table'[n]
  BY <1>1, <1>2
<1>8. QED
  BY <1>2, <1>3, <1>5, <1>6, <1>7 DEF Undisturbed

LEMMA CalcNotifyStep ==
  ASSUME TypeOK, CalcNotify, Undisturbed(calcName)
  PROVE  Undisturbed(calcName)'
<1>1. PICK ev \in changes : calcPc = "notify" /\ data' = Announced(calcName, ev)
                            /\ changes' = changes \ {ev}
  BY DEF CalcNotify
<1> PICK n : n = calcName
  OBVIOUS
<1>2. n \in Names /\ InFlight(n) = {} /\ newData = table[n] /\ subscribed
  BY <1>1 DEF TypeOK, Undisturbed, Refreshing
<1>3. calcName' = n /\ newData' = newData /\ table' = table /\ op' = op /\ subscribed'
  BY <1>2 DEF CalcNotify, dbVars, ctorVars
<1>4. InFlight(n)' = {}
  BY <1>2, <1>3 DEF InFlight
<1>5. \A k \in Keys : Agrees(n, k)
  BY <1>1, <1>2 DEF Undisturbed
<1>6. \A x \in changes : Truthful(n, x)
  BY <1>1 DEF Undisturbed
<1>7. data[n] \in Bag /\ data'[n] = Applied(data[n], ev) /\ ev \in Event /\ ev.key \in Keys
  BY <1>1, <1>2 DEF Announced, TypeOK, Event
<1>8. ReadsAs(data'[n], ev.key, table[n][ev.key])
  BY <1>5, <1>6, <1>7, AppliedReads DEF Agrees, Truthful
<1>9. \A k \in Keys : k # ev.key => Copies(data'[n], k) = Copies(data[n], k)
  BY <1>7, AppliedCopies
<1>10. ASSUME NEW k \in Keys PROVE Agrees(n, k)'
  <2>1. CASE k = ev.key
    BY <1>3, <1>8, <2>1 DEF Agrees
  <2>2. CASE k # ev.key
    BY <1>3, <1>5, <1>9, <2>2 DEF Agrees, ReadsAs
  <2>3. QED
    BY <2>1, <2>2
<1>11. \A x \in changes' : Truthful(n, x)'
  BY <1>1, <1>3, <1>6 DEF Truthful
<1>12. newData' = table'[n]
  BY <1>2, <1>3
<1>13. QED
  BY <1>3, <1>4, <1>10, <1>11, <1>12 DEF Undisturbed

LEMMA SerialInit == Init => SerialInv
BY DEF Init, SerialInv

(* Only a subscribed cache can be undisturbed, and only a step of the type, or
   none at all, leaves it undisturbed. *)
LEMMA SerialNext == TypeOK /\ SerialInv /\ [Next]_vars => SerialInv'
<1> SUFFICES ASSUME TypeOK, SerialInv, [Next]_vars PROVE SerialInv'
  OBVIOUS
<1>1. \A n \in Names : ~disturbed[n] => Undisturbed(n) /\ subscribed
  BY DEF SerialInv, Undisturbed
<1>2. (calcPc # "idle" \/ needUpdate => subscribed) /\ (subscribed => loading = {})
  BY DEF SerialInv
(* Steps of a client. *)
<1>3. ASSUME NEW c \in Clients, NEW m \in Names, NEW o, o.name = m, op' = [op EXCEPT ![c] = o],
             op[c].pc = "idle" \/ op[c].name = m,
             UNCHANGED <<subscribed, loading, needUpdate, calcVars>>,
             \A n \in Names : n # m => data'[n] = data[n] /\ table'[n] = table[n]
                                       /\ disturbed'[n] = disturbed[n],
             ~disturbed'[m] => Undisturbed(m)'
      PROVE  SerialInv'
  <2>1. ASSUME NEW n \in Names, n # m, ~disturbed'[n] PROVE Undisturbed(n)'
    BY <1>1, <1>3, <2>1, Elsewhere DEF TypeOK
  <2>2. \A n \in Names : ~disturbed'[n] => Undisturbed(n)'
    BY <1>3, <2>1
  <2>3. QED
    BY <1>2, <1>3, <2>2 DEF SerialInv, calcVars
<1>4. ASSUME NEW c \in Clients, NEW n \in Names, NEW objects \in Objects, Create(c, n, objects)
      PROVE SerialInv'
  <2> PICK o : o = [pc |-> "notify", name |-> n, keys |-> {},
                    events |-> {[kind |-> "ADD", key |-> k, val |-> objects[k]] : k \in DOMAIN objects}]
    OBVIOUS
  <2>1. o.name = n /\ op' = [op EXCEPT ![c] = o] /\ op[c].pc = "idle"
        /\ UNCHANGED <<subscribed, loading, needUpdate, calcVars>>
    BY <1>4 DEF Create, ctorVars
  <2>2. \A m \in Names : m # n => data'[m] = data[m] /\ table'[m] = table[m]
                                  /\ disturbed'[m] = disturbed[m]
    BY <1>4 DEF Create, Begin, TypeOK
  <2>3. ~disturbed'[n] => Undisturbed(n)'
    BY <1>1, <1>4, BeginAlone, CreateStep DEF Create, TypeOK
  <2>4. QED
    BY <1>3, <2>1, <2>2, <2>3
<1>5. ASSUME NEW c \in Clients, NEW n \in Names, NEW objects \in Objects, Update(c, n, objects)
      PROVE SerialInv'
  <2> PICK o : o = [pc |-> "reload", name |-> n, keys |-> DOMAIN objects, events |-> {}]
    OBVIOUS
  <2>1. o.name = n /\ op' = [op EXCEPT ![c] = o] /\ op[c].pc = "idle"
        /\ UNCHANGED <<subscribed, loading, needUpdate, calcVars>>
    BY <1>5 DEF Update, ctorVars
  <2>2. \A m \in Names : m # n => data'[m] = data[m] /\ table'[m] = table[m]
                                  /\ disturbed'[m] = disturbed[m]
    BY <1>5 DEF Update, Begin, TypeOK
  <2>3. ~disturbed'[n] => Undisturbed(n)'
    BY <1>1, <1>5, BeginAlone, UpdateStep DEF Update, TypeOK
  <2>4. QED
    BY <1>3, <2>1, <2>2, <2>3
<1>6. ASSUME NEW c \in Clients, NEW n \in Names, NEW keys \in KeySets, Remove(c, n, keys)
      PROVE SerialInv'
  <2> PICK o : o = [pc |-> "delete", name |-> n, keys |-> keys,
                    events |-> {[kind |-> "REMOVE", key |-> k, val |-> table[n][k]]
                                  : k \in keys \cap Present(table[n])}]
    OBVIOUS
  <2>1. o.name = n /\ op' = [op EXCEPT ![c] = o] /\ op[c].pc = "idle"
        /\ UNCHANGED <<subscribed, loading, needUpdate, calcVars>>
    BY <1>6 DEF Remove, ctorVars
  <2>2. \A m \in Names : m # n => data'[m] = data[m] /\ table'[m] = table[m]
                                  /\ disturbed'[m] = disturbed[m]
    BY <1>6 DEF Remove, Begin, TypeOK
  <2>3. ~disturbed'[n] => Undisturbed(n)'
    BY <1>1, <1>6, BeginAlone, RemoveStep DEF Remove, TypeOK
  <2>4. QED
    BY <1>3, <2>1, <2>2, <2>3
<1>7. ASSUME NEW c \in Clients, NEW evs, ToNotify(c, evs), op[c].pc # "idle",
             UNCHANGED <<subscribed, loading, needUpdate, calcVars, disturbed>>,
             \A n \in Names : n # op[c].name => data'[n] = data[n] /\ table'[n] = table[n],
             Undisturbed(op[c].name) => \A n \in Names : n = op[c].name => Undisturbed(n)'
      PROVE  SerialInv'
  <2> PICK m : m = op[c].name
    OBVIOUS
  <2> PICK o : o = IF evs = {} THEN Idle(m)
                   ELSE [pc |-> "notify", name |-> m, keys |-> {}, events |-> evs]
    OBVIOUS
  <2>1. m \in Names
    BY DEF TypeOK, Op
  <2>2. o.name = m /\ op' = [op EXCEPT ![c] = o]
    BY <1>7 DEF ToNotify, Idle
  <2>3. ~disturbed'[m] => Undisturbed(m)'
    BY <1>1, <1>7, <2>1
  <2>4. QED
    BY <1>3, <1>7, <2>1, <2>2, <2>3
<1>8. ASSUME NEW c \in Clients, ClientStep(c) PROVE SerialInv'
  <2> PICK m : m = op[c].name
    OBVIOUS
  <2>1. m \in Names
    BY DEF TypeOK, Op
  <2>2. CASE Reload(c)
    <3>1. \A n \in Names : n = m /\ Undisturbed(n) => Undisturbed(n)'
      BY <2>2, ReloadStep
    <3>2. QED
      BY <1>7, <2>2, <3>1 DEF Reload, dbVars, ctorVars
  <2>3. CASE ReloadFails(c)
    <3> PICK o : o = Idle(m)
      OBVIOUS
    <3>1. o.name = m /\ op' = [op EXCEPT ![c] = o] /\ disturbed' = [disturbed EXCEPT ![m] = TRUE]
          /\ UNCHANGED <<subscribed, loading, needUpdate, calcVars, data, table>>
      BY <2>3 DEF ReloadFails, Idle, dbVars, ctorVars
    <3>2. disturbed'[m] /\ \A n \in Names : n # m => disturbed'[n] = disturbed[n]
      BY <2>1, <3>1 DEF TypeOK
    <3>3. QED
      BY <1>3, <2>1, <3>1, <3>2
  <2>4. CASE Delete(c)
    <3>1. \A n \in Names : n = m /\ Undisturbed(n) => Undisturbed(n)'
      BY <2>4, DeleteStep
    <3>2. \A n \in Names : n # m => data'[n] = data[n] /\ table'[n] = table[n]
      BY <2>4 DEF Delete, TypeOK
    <3>3. QED
      BY <1>7, <2>4, <3>1, <3>2 DEF Delete, ctorVars
  <2>5. CASE DeleteFails(c)
    <3>1. \A n \in Names : n = m /\ Undisturbed(n) => Undisturbed(n)'
      BY <2>5, DeleteFailsStep
    <3>2. ToNotify(c, {})
      BY <2>5 DEF DeleteFails, ToNotify
    <3>3. QED
      BY <1>7, <2>5, <3>1, <3>2 DEF DeleteFails, dbVars, ctorVars
  <2>6. CASE Notify(c)
    <3>1. \A n \in Names : n = m /\ Undisturbed(n) => Undisturbed(n)'
      BY <2>6, NotifyStep
    <3>2. PICK ev \in op[c].events : data' = Announced(m, ev) /\ ToNotify(c, op[c].events \ {ev})
      BY <2>6 DEF Notify
    <3>3. \A n \in Names : n # m => data'[n] = data[n] /\ table'[n] = table[n]
      BY <2>6, <3>2 DEF Notify, Announced, TypeOK, dbVars
    <3>4. QED
      BY <1>7, <2>6, <3>1, <3>2, <3>3 DEF Notify, dbVars, ctorVars
  <2>7. QED
    BY <1>8, <2>2, <2>3, <2>4, <2>5, <2>6 DEF ClientStep(* Steps of the constructor, the outside writer, the task and the reload. *)
<1>9. CASE Ctor
  <2>1. ~subscribed /\ disturbed' = disturbed /\ UNCHANGED calcPc
    BY <1>2, <1>9 DEF Ctor, CtorLoad, CtorSubscribe, calcVars
  <2>2. \A n \in Names : disturbed'[n] = TRUE
    BY <1>1, <2>1 DEF TypeOK
  <2>3. subscribed' => loading' = {}
    BY <1>2, <1>9, <2>1 DEF Ctor, CtorLoad, CtorSubscribe
  <2>4. calcPc' # "idle" \/ needUpdate' => subscribed'
    BY <1>2, <1>9, <2>1 DEF Ctor, CtorLoad, CtorSubscribe
  <2>5. QED
    BY <2>2, <2>3, <2>4 DEF SerialInv
<1>10. ASSUME UNCHANGED <<subscribed, loading, op, table>>,
              calcPc' # "idle" \/ needUpdate' => subscribed,
              \A n \in Names :
                \/ ~disturbed'[n] => Undisturbed(n)'
                \/ /\ data'[n] = data[n] /\ disturbed'[n] = disturbed[n]
                   /\ CalcAlike \/ (~Refreshing(n) /\ ~Refreshing(n)')
       PROVE  SerialInv'
  <2>1. ASSUME NEW n \in Names, ~disturbed'[n], ~disturbed[n], data'[n] = data[n],
               CalcAlike \/ (~Refreshing(n) /\ ~Refreshing(n)')
        PROVE  Undisturbed(n)'
    BY <1>1, <1>10, <2>1, Frame
  <2>2. \A n \in Names : ~disturbed'[n] => Undisturbed(n)'
    BY <1>10, <2>1
  <2>3. QED
    BY <1>2, <1>10, <2>2 DEF SerialInv
<1>19. ASSUME NEW c \in Clients, NEW m \in Names, NEW objects \in Objects, CreateFails(c, m, objects)
       PROVE SerialInv'
  <2>1. disturbed'[m] /\ \A n \in Names : n # m => disturbed'[n] = disturbed[n] /\ table'[n] = table[n]
    BY <1>19 DEF CreateFails, TypeOK
  <2>2. ASSUME NEW n \in Names, ~disturbed'[n] PROVE Undisturbed(n)'
    <3>1. Undisturbed(n) /\ subscribed /\ table'[n] = table[n]
      BY <1>1, <2>1, <2>2
    <3>2. data' = data /\ op' = op /\ subscribed' = subscribed /\ CalcAlike
      BY <1>19 DEF CreateFails, ctorVars, calcVars, CalcAlike
    <3>3. QED
      BY <3>1, <3>2, Frame
  <2>3. QED
    BY <1>2, <1>19, <2>2 DEF CreateFails, SerialInv, ctorVars, calcVars
<1>11. CASE Outside
  <2>1. PICK m \in Names, k \in Keys, row \in Rows \cup {NoRow} : OutsideWrite(m, k, row)
    BY <1>11 DEF Outside
  <2>2. disturbed'[m] /\ \A n \in Names : n # m => disturbed'[n] = disturbed[n] /\ table'[n] = table[n]
    BY <2>1 DEF OutsideWrite, TypeOK
  <2>3. ASSUME NEW n \in Names, ~disturbed'[n] PROVE Undisturbed(n)'
    <3>1. Undisturbed(n) /\ subscribed /\ table'[n] = table[n]
      BY <1>1, <2>2, <2>3
    <3>2. data' = data /\ op' = op /\ subscribed' = subscribed /\ CalcAlike
      BY <2>1 DEF OutsideWrite, ctorVars, calcVars, CalcAlike
    <3>3. QED
      BY <3>1, <3>2, Frame
  <2>4. QED
    BY <1>2, <2>1, <2>3 DEF OutsideWrite, SerialInv, ctorVars, calcVars
<1>12. CASE Tick
  <2>1. CalcAlike /\ UNCHANGED <<subscribed, loading, op, table, data, disturbed>> /\ subscribed
    BY <1>12 DEF Tick, CalcAlike, ctorVars, dbVars, calcVars
  <2>2. QED
    BY <1>10, <2>1
<1>13. CASE CalcStart
  <2>1. \A n \in Names : ~Refreshing(n) /\ ~Refreshing(n)'
    BY <1>13 DEF CalcStart, Refreshing
  <2>2. subscribed
    BY <1>2, <1>13 DEF CalcStart
  <2>3. UNCHANGED <<subscribed, loading, op, table, data, disturbed>>
    BY <1>13 DEF CalcStart, ctorVars, dbVars
  <2>4. QED
    BY <1>10, <2>1, <2>2, <2>3
<1>14. CASE CalcLoadFails
  <2>1. \A n \in Names : ~Refreshing(n) /\ ~Refreshing(n)'
    BY <1>14 DEF CalcLoadFails, Refreshing
  <2>2. subscribed
    BY <1>2, <1>14 DEF CalcLoadFails
  <2>3. UNCHANGED <<subscribed, loading, op, table, data, disturbed>>
    BY <1>14 DEF CalcLoadFails, ctorVars, dbVars
  <2>4. QED
    BY <1>10, <2>1, <2>2, <2>3
<1>15. ASSUME NEW m \in Names, CalcLoad(m) PROVE SerialInv'
  <2>1. subscribed
    BY <1>2, <1>15 DEF CalcLoad
  <2>2. ~disturbed'[m] => Undisturbed(m)'
    BY <1>15, <2>1, CalcLoadStep
  <2>3. \A n \in Names : n # m => ~Refreshing(n) /\ ~Refreshing(n)' /\ disturbed'[n] = disturbed[n]
    BY <1>15 DEF CalcLoad, Refreshing, TypeOK
  <2>4. UNCHANGED <<subscribed, loading, op, table, data, needUpdate>>
    BY <1>15 DEF CalcLoad, ctorVars, dbVars
  <2>5. QED
    BY <1>10, <2>1, <2>2, <2>3, <2>4
<1>16. CASE CalcSwap \/ CalcNotify
  <2>1. subscribed
    BY <1>2, <1>16 DEF CalcSwap, CalcNotify
  <2>2. calcName' = calcName /\ UNCHANGED <<subscribed, loading, op, table, disturbed, needUpdate>>
    BY <1>16 DEF CalcSwap, CalcNotify, ctorVars, dbVars
  <2>3. calcName \in Names /\ calcPc \in {"swap", "notify"}
    BY <1>16 DEF CalcSwap, CalcNotify, TypeOK
  <2>4. Undisturbed(calcName) => Undisturbed(calcName)'
    BY <1>16, CalcSwapStep, CalcNotifyStep
  <2>5. \A n \in Names : n # calcName => data'[n] = data[n]
    BY <1>16 DEF CalcSwap, CalcNotify, Announced, TypeOK
  <2>6. \A n \in Names : n # calcName => ~Refreshing(n) /\ ~Refreshing(n)'
    BY <2>2 DEF Refreshing
  <2>7. \A n \in Names : n = calcName /\ ~disturbed'[n] => Undisturbed(n)'
    BY <1>1, <2>2, <2>3, <2>4
  <2>8. QED
    BY <1>10, <2>1, <2>2, <2>3, <2>5, <2>6, <2>7
<1>17. CASE UNCHANGED vars
  <2>1. CalcAlike /\ UNCHANGED <<subscribed, loading, op, table, data, disturbed, needUpdate>>
    BY <1>17 DEF vars, CalcAlike
  <2>2. calcPc' # "idle" \/ needUpdate' => subscribed
    BY <1>2, <2>1 DEF CalcAlike
  <2>3. QED
    BY <1>10, <2>1, <2>2
<1>18. QED
  BY <1>4, <1>5, <1>6, <1>8, <1>9, <1>11, <1>12, <1>13, <1>14, <1>15, <1>16, <1>17, <1>19
     DEF Next, ClientStart, Calc

(* Between two concurrent requests or reloads the cache is in one of the states
   SerialInv describes, for any number of threads, types, keys and writes. *)
THEOREM SerialInvariant == Spec => []SerialInv
<1>1. Init => TypeOK /\ SerialInv
  BY TypeInit, SerialInit
<1>2. (TypeOK /\ SerialInv) /\ [Next]_vars => (TypeOK /\ SerialInv)'
  BY TypeNext, SerialNext
<1>3. QED
  BY <1>1, <1>2, PTL DEF Spec

(* Where nothing disturbed a type the cache answers as the database does. *)
THEOREM SerialConsistencyHolds == Spec => []SerialConsistency
<1>1. TypeOK /\ SerialInv => SerialConsistency
  BY DEF SerialInv, Undisturbed, SerialConsistency, Refreshing
<1>2. QED
  BY <1>1, TypeCorrect, SerialInvariant, PTL

(* Where nothing disturbed a type every event sent to the subscribers is true. *)
THEOREM EventsAreTruthful == Spec => []EventsTruthful
<1>1. SerialInv => EventsTruthful
  BY DEF SerialInv, Undisturbed, Announcing, EventsTruthful
<1>2. QED
  BY <1>1, SerialInvariant, PTL
=============================================================================
