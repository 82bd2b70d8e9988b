---------------------------- MODULE EntitiesCache ----------------------------
(***************************************************************************)
(* The in-memory copy of the cached tables (EntitiesCache), the threads    *)
(* that run a CREATE, UPDATE or REMOVE of JsonEntityProvider against the   *)
(* database and then announce it, and the task that reloads the copy.      *)
(*                                                                         *)
(* The database statement of a request, the SELECT that reads back its     *)
(* result and each announcement are separate steps, as in the code: no     *)
(* lock is held from one to the next.  An announcement is one step because *)
(* JsonEntityListener::notifySubscribers holds mutexSubscribers while it   *)
(* runs the callback of the cache.                                         *)
(*                                                                         *)
(* A request names one entity type and one statement of it; requests that  *)
(* span several types are the concern of the CRUD controllers.             *)
(***************************************************************************)
EXTENDS Naturals, FiniteSets

CONSTANTS
  Names,      \* the cached entity types, cachedEntitiesNames
  Keys,       \* the values of the ID column
  Values,     \* the other fields of an entity, as an object in memory holds them
  Stored,     \* the fields a SELECT returns for a row that was written as v
  NoRow,      \* stands for the fields of a key the table has no row for
  Clients,    \* the threads that run requests
  MaxWrites   \* bound: how many requests and outside writes are started

ASSUME CacheAssumption ==
  /\ Names # {}
  /\ NoRow \notin Values
  /\ Stored \in [Values -> Values]
  /\ \A v \in Values : Stored[Stored[v]] = Stored[v]
  /\ MaxWrites \in Nat

VARIABLES
  table,       \* the rows of the cached tables in the database
  data,        \* EntitiesCache::data, a list per type: how often each entity is in it
  loading,     \* the types the constructor has not loaded yet
  subscribed,  \* whether the cache is a subscriber of JsonEntityListener
  op,          \* the request each client thread is in
  needUpdate,  \* a reload was asked for with notifyNeedUpdate
  calcPc,      \* where calculateData is
  calcName,    \* its loop variable entityName
  calcTodo,    \* the types its loop has not reached
  newData,     \* the rows it loaded
  changes,     \* the events it has not announced yet
  writes,      \* requests and outside writes started so far (bound)
  disturbed    \* history: since the last reload that started alone, a write of the
               \* type ran concurrently with something else, or told nobody of it

dbVars   == <<table, writes>>
ctorVars == <<loading, subscribed>>
calcVars == <<calcPc, calcName, calcTodo, newData, changes>>
vars     == <<table, data, loading, subscribed, op, needUpdate, calcPc, calcName,
              calcTodo, newData, changes, writes, disturbed>>

-----------------------------------------------------------------------------
Rows   == {Stored[v] : v \in Values}
Table  == [Keys -> Rows \cup {NoRow}]
Bag    == [Keys \X Values -> Nat]
Kinds  == {"ADD", "UPDATE", "REMOVE"}
Event  == [kind : Kinds, key : Keys, val : Values]
Op     == [pc : {"idle", "reload", "delete", "notify"}, name : Names,
           keys : SUBSET Keys, events : SUBSET Event]

Idle(n) == [pc |-> "idle", name |-> n, keys |-> {}, events |-> {}]

(* The keys of t that have a row. *)
Present(t) == {k \in Keys : t[k] # NoRow}

(* The list a SELECT of the whole table returns. *)
ListOf(t) == [e \in Keys \X Values |-> IF t[e[1]] = e[2] THEN 1 ELSE 0]

(* addEntity: push_back, whatever the list holds already. *)
Added(list, k, v) == [list EXCEPT ![<<k, v>>] = @ + 1]

(* A slip: one element with the key is taken for granted and erased. *)
ErasedOnce(list, k) == [e \in Keys \X Values |-> IF e[1] = k THEN list[e] - 1 ELSE list[e]]

(* removeEntity: every element with the key is erased. *)
Erased(list, k) == [e \in Keys \X Values |-> IF e[1] = k THEN 0 ELSE list[e]]

(* A slip: an update is appended like an addition, the old element stays. *)
AppliedWithoutErasing(list, ev) ==
  IF ev.kind = "REMOVE" THEN Erased(list, ev.key) ELSE Added(list, ev.key, ev.val)

(* The callback the cache subscribes with. *)
Applied(list, ev) ==
  CASE ev.kind = "ADD"    -> Added(list, ev.key, ev.val)
    [] ev.kind = "REMOVE" -> Erased(list, ev.key)
    [] ev.kind = "UPDATE" -> Added(Erased(list, ev.key), ev.key, ev.val)

(* One pass of JsonEntityListener over its subscribers, under its mutex. *)
Announced(n, ev) ==
  IF subscribed THEN [data EXCEPT ![n] = Applied(@, ev)] ELSE data

(* The values the list holds for a key. *)
Copies(list, k) == {v \in Values : list[<<k, v>>] > 0}

(* The differences Changes can report between an old list and new rows.  A
   new row is compared with one old element of its key: which one it is, when
   the list holds several, is left open. *)
Diffs(list, new) ==
  LET Arrived == {k \in Present(new) : Copies(list, k) = {}}
      Differs == {k \in Present(new) : Copies(list, k) # {}
                                       /\ new[k] \notin Copies(list, k)}
      Mixed   == {k \in Present(new) : new[k] \in Copies(list, k)
                                       /\ Copies(list, k) # {new[k]}}
      Gone    == {e \in Keys \X Values : list[e] > 0 /\ new[e[1]] = NoRow}
  IN  { {[kind |-> "ADD", key |-> k, val |-> new[k]] : k \in Arrived}
        \cup {[kind |-> "UPDATE", key |-> k, val |-> new[k]] : k \in Differs \cup M}
        \cup {[kind |-> "REMOVE", key |-> e[1], val |-> e[2]] : e \in Gone}
        : M \in SUBSET Mixed }

(* calculateData announces all additions, then all changes, then the removals. *)
Turn(evs, ev) ==
  \/ ev.kind = "ADD"
  \/ ev.kind = "UPDATE" /\ \A x \in evs : x.kind # "ADD"
  \/ ev.kind = "REMOVE" /\ \A x \in evs : x.kind = "REMOVE"

(* The clients with a request for type n under way, and a reload of n that has
   read the table and not announced everything. *)
InFlight(n)   == {c \in Clients : op[c].pc # "idle" /\ op[c].name = n}
Refreshing(n) == calcPc \in {"swap", "notify"} /\ calcName = n

-----------------------------------------------------------------------------
(* The process starts against tables of any content. *)
Init ==
  /\ table \in [Names -> Table]
  /\ data = [n \in Names |-> [e \in Keys \X Values |-> 0]]
  /\ loading = Names
  /\ subscribed = FALSE
  /\ op = [c \in Clients |-> Idle(CHOOSE n \in Names : TRUE)]
  /\ needUpdate = FALSE
  /\ calcPc = "idle"
  /\ calcName = CHOOSE n \in Names : TRUE
  /\ calcTodo = {}
  /\ newData = [k \in Keys |-> NoRow]
  /\ changes = {}
  /\ writes = 0
  /\ disturbed = [n \in Names |-> TRUE]

-----------------------------------------------------------------------------
(* The constructor: it loads every type, subscribes, and asks for a reload. *)
CtorLoad(n) ==
  /\ n \in loading
  /\ data' = [data EXCEPT ![n] = ListOf(table[n])]
  /\ loading' = loading \ {n}
  /\ UNCHANGED <<subscribed, op, needUpdate, dbVars, calcVars, disturbed>>

CtorSubscribe ==
  /\ loading = {}
  /\ ~subscribed
  /\ subscribed' = TRUE
  /\ needUpdate' = TRUE
  /\ UNCHANGED <<loading, data, op, dbVars, calcVars, disturbed>>

-----------------------------------------------------------------------------
(* A request of client c for type n starts: history and bound. *)
Begin(n) ==
  /\ writes < MaxWrites
  /\ writes' = writes + 1
  /\ disturbed' = [disturbed EXCEPT ![n] = @ \/ InFlight(n) # {} \/ Refreshing(n)]

(* The request goes on to its announcements, or ends when there are none. *)
ToNotify(c, evs) ==
  op' = [op EXCEPT ![c] =
          IF evs = {} THEN Idle(@.name)
          ELSE [pc |-> "notify", name |-> @.name, keys |-> {}, events |-> evs]]

(* create: one INSERT of all objects, under keys no row has; the objects are
   announced as the caller holds them, not as the table stores them. *)
Create(c, n, objects) ==
  /\ op[c].pc = "idle"
  /\ DOMAIN objects \cap Present(table[n]) = {}
  /\ table' = [table EXCEPT ![n] =
       [k \in Keys |-> IF k \in DOMAIN objects THEN Stored[objects[k]] ELSE @[k]]]
  /\ op' = [op EXCEPT ![c] =
       [pc |-> "notify", name |-> n, keys |-> {},
        events |-> {[kind |-> "ADD", key |-> k, val |-> objects[k]] : k \in DOMAIN objects}]]
  /\ Begin(n)
  /\ UNCHANGED <<data, ctorVars, needUpdate, calcVars>>

(* A statement after a committed INSERT fails (queryLastAutoId, or the INSERT of
   the next group of objects): these rows stay, the caller is told that the request
   failed, and nothing is announced. *)
CreateFails(c, n, objects) ==
  /\ op[c].pc = "idle"
  /\ DOMAIN objects \cap Present(table[n]) = {}
  /\ writes < MaxWrites
  /\ writes' = writes + 1
  /\ table' = [table EXCEPT ![n] =
       [k \in Keys |-> IF k \in DOMAIN objects THEN Stored[objects[k]] ELSE @[k]]]
  /\ disturbed' = [disturbed EXCEPT ![n] = TRUE]
  /\ UNCHANGED <<data, ctorVars, op, needUpdate, calcVars>>

(* update, first step: one UPDATE ... WHERE ID IN (keys). *)
Update(c, n, objects) ==
  /\ op[c].pc = "idle"
  /\ table' = [table EXCEPT ![n] =
       [k \in Keys |-> IF k \in DOMAIN objects /\ @[k] # NoRow
                       THEN Stored[objects[k]] ELSE @[k]]]
  /\ op' = [op EXCEPT ![c] =
       [pc |-> "reload", name |-> n, keys |-> DOMAIN objects, events |-> {}]]
  /\ Begin(n)
  /\ UNCHANGED <<data, ctorVars, needUpdate, calcVars>>

(* A slip: updateEntities returns without the rows, so nothing is announced. *)
ReloadNothing(c) ==
  /\ op[c].pc = "reload"
  /\ ToNotify(c, {})
  /\ UNCHANGED <<data, ctorVars, needUpdate, dbVars, calcVars, disturbed>>

(* update, second step: the rows are read back, to be announced. *)
Reload(c) ==
  LET t == table[op[c].name]
  IN  /\ op[c].pc = "reload"
      /\ ToNotify(c, {[kind |-> "UPDATE", key |-> k, val |-> t[k]]
                        : k \in op[c].keys \cap Present(t)})
      /\ UNCHANGED <<data, ctorVars, needUpdate, dbVars, calcVars, disturbed>>

(* The SELECT fails: the rows are changed and nothing is announced. *)
ReloadFails(c) ==
  /\ op[c].pc = "reload"
  /\ op' = [op EXCEPT ![c] = Idle(@.name)]
  /\ disturbed' = [disturbed EXCEPT ![op[c].name] = TRUE]
  /\ UNCHANGED <<data, ctorVars, needUpdate, dbVars, calcVars>>

(* remove, first step: the rows to be removed are read, to be announced. *)
Remove(c, n, keys) ==
  /\ op[c].pc = "idle"
  /\ op' = [op EXCEPT ![c] =
       [pc |-> "delete", name |-> n, keys |-> keys,
        events |-> {[kind |-> "REMOVE", key |-> k, val |-> table[n][k]]
                      : k \in keys \cap Present(table[n])}]]
  /\ Begin(n)
  /\ UNCHANGED <<table, data, ctorVars, needUpdate, calcVars>>

(* remove, second step: DELETE ... WHERE ID IN (keys). *)
Delete(c) ==
  /\ op[c].pc = "delete"
  /\ table' = [table EXCEPT ![op[c].name] =
       [k \in Keys |-> IF k \in op[c].keys THEN NoRow ELSE @[k]]]
  /\ ToNotify(c, op[c].events)
  /\ UNCHANGED <<data, ctorVars, needUpdate, writes, calcVars, disturbed>>

(* A slip: the result list is filled before the DELETE and kept when it fails. *)
DeleteFailsAnnounced(c) ==
  /\ op[c].pc = "delete"
  /\ ToNotify(c, op[c].events)
  /\ UNCHANGED <<data, ctorVars, needUpdate, dbVars, calcVars, disturbed>>

(* The DELETE fails: nothing happened and nothing is announced. *)
DeleteFails(c) ==
  /\ op[c].pc = "delete"
  /\ op' = [op EXCEPT ![c] = Idle(@.name)]
  /\ UNCHANGED <<data, ctorVars, needUpdate, dbVars, calcVars, disturbed>>

(* One round of the loop that announces the objects of a request. *)
Notify(c) ==
  \E ev \in op[c].events :
    /\ op[c].pc = "notify"
    /\ data' = Announced(op[c].name, ev)
    /\ ToNotify(c, op[c].events \ {ev})
    /\ UNCHANGED <<ctorVars, needUpdate, dbVars, calcVars, disturbed>>

(* Another program writes a row: the reason the cache is reloaded at all. *)
OutsideWrite(n, k, row) ==
  /\ writes < MaxWrites
  /\ table[n][k] # row
  /\ table' = [table EXCEPT ![n][k] = row]
  /\ writes' = writes + 1
  /\ disturbed' = [disturbed EXCEPT ![n] = TRUE]
  /\ UNCHANGED <<data, ctorVars, op, needUpdate, calcVars>>

-----------------------------------------------------------------------------
(* A slip: execute runs and asks for nothing. *)
TickUnasked == subscribed /\ ~needUpdate /\ UNCHANGED vars

(* EntitiesCacheActualizationTask::execute, every five seconds. *)
Tick ==
  /\ subscribed
  /\ ~needUpdate
  /\ needUpdate' = TRUE
  /\ UNCHANGED <<data, ctorVars, op, dbVars, calcVars, disturbed>>

(* The single-shot task runs calculateData, never twice at a time. *)
CalcStart ==
  /\ calcPc = "idle"
  /\ needUpdate
  /\ needUpdate' = FALSE
  /\ calcPc' = "load"
  /\ calcTodo' = Names
  /\ UNCHANGED <<data, ctorVars, op, dbVars, calcName, newData, changes, disturbed>>

(* calculateData: loadData of the next type, without a lock. *)
CalcLoad(n) ==
  /\ calcPc = "load"
  /\ n \in calcTodo
  /\ newData' = table[n]
  /\ calcPc' = "swap"
  /\ calcName' = n
  /\ calcTodo' = calcTodo \ {n}
  /\ disturbed' = [disturbed EXCEPT ![n] = InFlight(n) # {}]
  /\ UNCHANGED <<data, ctorVars, op, needUpdate, dbVars, changes>>

(* loadData throws: this run is over, the remaining types included. *)
CalcLoadFails ==
  /\ calcPc = "load"
  /\ calcPc' = "idle"
  /\ calcTodo' = {}
  /\ UNCHANGED <<data, ctorVars, op, needUpdate, dbVars, calcName, newData,
                 changes, disturbed>>

(* Where calculateData is when evs is left to announce. *)
CalcNext(evs) ==
  IF evs # {} THEN "notify" ELSE IF calcTodo # {} THEN "load" ELSE "idle"

(* calculateData: the swap under dataMutex, and the comparison with what it took out. *)
CalcSwap ==
  /\ calcPc = "swap"
  /\ data' = [data EXCEPT ![calcName] = ListOf(newData)]
  /\ changes' \in Diffs(data[calcName], newData)
  /\ calcPc' = CalcNext(changes')
  /\ UNCHANGED <<ctorVars, op, needUpdate, dbVars, calcName, calcTodo, newData, disturbed>>

(* calculateData: the next difference is announced, and so reaches the cache too. *)
CalcNotify ==
  \E ev \in changes :
    /\ calcPc = "notify"
    /\ Turn(changes, ev)
    /\ data' = Announced(calcName, ev)
    /\ changes' = changes \ {ev}
    /\ calcPc' = CalcNext(changes')
    /\ UNCHANGED <<ctorVars, op, needUpdate, dbVars, calcName, calcTodo, newData, disturbed>>

-----------------------------------------------------------------------------
KeySets == (SUBSET Keys) \ {{}}
Objects == UNION {[S -> Values] : S \in KeySets}

Ctor == CtorSubscribe \/ \E n \in Names : CtorLoad(n)

ClientStep(c) ==
  \/ Reload(c)
  \/ ReloadFails(c)
  \/ Delete(c)
  \/ DeleteFails(c)
  \/ Notify(c)

ClientStart(c, n) ==
  \/ \E objects \in Objects : Create(c, n, objects) \/ CreateFails(c, n, objects) \/ Update(c, n, objects)
  \/ \E keys \in KeySets : Remove(c, n, keys)

Outside == \E n \in Names, k \in Keys, row \in Rows \cup {NoRow} : OutsideWrite(n, k, row)

Calc ==
  \/ CalcStart
  \/ \E n \in Names : CalcLoad(n)
  \/ CalcLoadFails
  \/ CalcSwap
  \/ CalcNotify

Next ==
  \/ Ctor
  \/ \E c \in Clients : ClientStep(c) \/ \E n \in Names : ClientStart(c, n)
  \/ Outside
  \/ Tick
  \/ Calc

Spec == Init /\ [][Next]_vars

(* The task manager keeps running the periodic task and the single-shot task, a
   thread finishes what it started, and the database does not fail for ever. *)
Fairness ==
  /\ WF_vars(Ctor)
  /\ WF_vars(Tick)
  /\ WF_vars(Calc)
  /\ \A n \in Names : SF_vars(CalcLoad(n))
  /\ \A c \in Clients : WF_vars(ClientStep(c))

FairSpec == Spec /\ Fairness

-----------------------------------------------------------------------------
(* The type invariant: the tables, the lists kept of them, the requests and the
   reload, and the bound on writes. *)
TypeOK ==
  /\ table \in [Names -> Table]
  /\ data \in [Names -> Bag]
  /\ loading \subseteq Names
  /\ subscribed \in BOOLEAN
  /\ op \in [Clients -> Op]
  /\ needUpdate \in BOOLEAN
  /\ calcPc \in {"idle", "load", "swap", "notify"}
  /\ calcName \in Names
  /\ calcTodo \subseteq Names
  /\ newData \in Table
  /\ changes \subseteq Event
  /\ writes \in 0..MaxWrites
  /\ disturbed \in [Names -> BOOLEAN]

(* A list holds a key exactly when there is a row for it, and every copy of
   it reads back as that row. *)
ReadsAs(list, k, row) == {Stored[v] : v \in Copies(list, k)} = {row} \ {NoRow}

Agrees(n, k) == ReadsAs(data[n], k, table[n][k])

(* When every write since the last undisturbed reload ran alone and was announced,
   and nothing is under way, a read answered by EntitiesCache::getCache and one
   answered by the database find the same keys, with the same fields once an
   object is stored.  A list differs from its table beyond that only through
   concurrency (calculateData against create, update and remove, or two of those),
   or because a request failed behind a statement that was committed. *)
SerialConsistency ==
  \A n \in Names :
    (~disturbed[n] /\ InFlight(n) = {} /\ ~Refreshing(n))
      => \A k \in Keys : Agrees(n, k)

(* What an event says of its key is what the table holds. *)
TrueOf(ev, row)  == row = IF ev.kind = "REMOVE" THEN NoRow ELSE Stored[ev.val]

Truthful(n, ev) == TrueOf(ev, table[n][ev.key])

(* Under the same condition no subscriber is told of a row that is not there,
   of fields it does not have or of a removal that did not happen: the events
   of create, update, remove and calculateData are true when they are sent. *)
EventsTruthful ==
  \A n \in Names :
    ~disturbed[n] =>
      /\ \A c \in InFlight(n) :
           op[c].pc = "notify" => \A ev \in op[c].events : Truthful(n, ev)
      /\ (calcPc = "notify" /\ calcName = n) => \A ev \in changes : Truthful(n, ev)

(* The condition is inductive together with what it says of the steps between:
   at most one client, or the reload, is at work on a type that was not disturbed;
   a client between its statement and its announcements has events for exactly
   the keys the list is behind on, and the reload holds the table as it is. *)
Announcing(n, o) ==
  /\ \A ev \in o.events : Truthful(n, ev)
  /\ \A ev \in o.events : ev.kind = "ADD" => Copies(data[n], ev.key) = {}
  /\ \A e1, e2 \in o.events : e1.key = e2.key => e1 = e2
  /\ \A k \in Keys : Agrees(n, k) \/ \E ev \in o.events : ev.key = k

Deleting(n, o) ==
  /\ \A k \in Keys : Agrees(n, k)
  /\ \A ev \in o.events : ev.kind = "REMOVE" /\ ev.key \in o.keys
  /\ \A e1, e2 \in o.events : e1.key = e2.key => e1 = e2
  /\ \A k \in o.keys : table[n][k] = NoRow \/ \E ev \in o.events : ev.key = k

Reloading(n, o) ==
  \A k \in Keys : Agrees(n, k) \/ (k \in o.keys /\ table[n][k] # NoRow)

Undisturbed(n) ==
  /\ subscribed
  /\ \A c1, c2 \in InFlight(n) : c1 = c2
  /\ Refreshing(n) => InFlight(n) = {} /\ newData = table[n]
  /\ (InFlight(n) = {} /\ ~(calcPc = "swap" /\ calcName = n))
       => \A k \in Keys : Agrees(n, k)
  /\ (calcPc = "notify" /\ calcName = n) => \A ev \in changes : Truthful(n, ev)
  /\ \A c \in InFlight(n) :
       /\ op[c].pc = "reload" => Reloading(n, op[c])
       /\ op[c].pc = "delete" => Deleting(n, op[c])
       /\ op[c].pc = "notify" => Announcing(n, op[c])

(* Nothing reloads or subscribes before the constructor is done, and every type
   that was not disturbed is as it should be: this is what create, update, remove and
   calculateData maintain step by step. *)
SerialInv ==
  /\ calcPc # "idle" \/ needUpdate => subscribed
  /\ subscribed => loading = {}
  /\ \A n \in Names : ~disturbed[n] => Undisturbed(n)

(* Once writes have stopped, the periodic reload repairs the cache for good:
   its lists become the tables, without stale, missing or repeated entities,
   whatever interleaving and failures came before.  (The bound on writes makes
   every behaviour one in which writes stop.) *)
Converges == <>[](\A n \in Names : data[n] = ListOf(table[n]))

(* "It also maintains data integrity and consistency across the application"
   (EntitiesCache.h:16): a cached list never holds two elements with one ID,
   which is the primary key of the table. *)
NoDuplicateKeys ==
  \A n \in Names, k \in Keys :
    /\ Cardinality(Copies(data[n], k)) <= 1
    /\ \A v \in Values : data[n][<<k, v>>] <= 1

(* "ensuring that the cache is refreshed with the latest data from the
   database" (EntitiesCacheActualizationTask.h:11): with one client and no
   other writer, a request that was answered is visible to the next read. *)
AnsweredWritesVisible ==
  \A n \in Names :
    (subscribed /\ InFlight(n) = {} /\ writes > 0) => \A k \in Keys : Agrees(n, k)
=============================================================================
