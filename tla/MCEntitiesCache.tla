--------------------------- MODULE MCEntitiesCache ---------------------------
(* Instances of EntitiesCache for TLC. *)
EXTENDS EntitiesCache, TLC

(* An object may miss an optional field: "bare" is stored as, and read back
   as, "full". *)
MCValues == {"bare", "full", "other"}
MCStored == [v \in MCValues |-> IF v = "bare" THEN "full" ELSE v]

(* Two values are enough where the difference between an object and its row
   plays no part. *)
MCFewValues == {"full", "other"}
MCFewStored == [v \in MCFewValues |-> v]

MCSymmetry == Permutations(Keys) \cup Permutations(Clients)

(* The start right after the constructor, in a process of its own: no other
   writer, and no statement fails. *)
InitConstructed ==
  /\ table = [n \in Names |-> [k \in Keys |-> NoRow]]
  /\ data = [n \in Names |-> ListOf(table[n])]
  /\ loading = {}
  /\ subscribed = TRUE
  /\ op = [c \in Clients |-> Idle(CHOOSE n \in Names : TRUE)]
  /\ needUpdate = TRUE
  /\ calcPc = "idle"
  /\ calcName = CHOOSE n \in Names : TRUE
  /\ calcTodo = {}
  /\ newData = [k \in Keys |-> NoRow]
  /\ changes = {}
  /\ writes = 0
  /\ disturbed = [n \in Names |-> TRUE]

NextAlone ==
  \/ \E c \in Clients : Reload(c) \/ Delete(c) \/ Notify(c)
                        \/ \E n \in Names :
                             \/ \E objects \in Objects : Create(c, n, objects) \/ Update(c, n, objects)
                             \/ \E keys \in KeySets : Remove(c, n, keys)
  \/ Tick
  \/ CalcStart
  \/ \E n \in Names : CalcLoad(n)
  \/ CalcSwap
  \/ CalcNotify

SpecAlone == InitConstructed /\ [][NextAlone]_vars
=============================================================================
