------------------------------ MODULE Migration ------------------------------
(***************************************************************************)
(* How the server brings its database to the schemes in the JSON           *)
(* directories: DatabaseManager::update (DbUpdater, CustomUpdate373,       *)
(* DbStructureUpdater) and DatabaseManager::resetTables, down to the SQL   *)
(* statements of the PostgreSQL controllers.                               *)
(*                                                                         *)
(* There is no transaction: every statement is a step of its own, may fail *)
(* on its own, and the process may die between any two of them and be      *)
(* started again.  What a statement needs to succeed (a type that does not *)
(* exist yet, a unique key for ON CONFLICT) is PostgreSQL's behaviour.     *)
(*                                                                         *)
(* The statements that create the unique constraints, indexes and foreign  *)
(* keys of one table are one step, and so are the ALTERs of one column.    *)
(***************************************************************************)
EXTENDS Integers

CONSTANTS
  Tables,      \* the tables the JSON files describe
  Versions,    \* the table of versions, TABLESVERSIONS
  Columns,     \* names of columns
  EnumColumn,  \* the column of a table whose type is an enum, if one is
  Enums,       \* the enum types, which PostgreSQL creates by name
  EnumOf,      \* the type of EnumColumn in a table, or NoEnum
  NoEnum,
  Definitions, \* definitions of a column: its type, default, nullability
  Absent,      \* the definition of a column a table does not have
  Altered(_, _), \* what the updater's statements make of a column of the first
                 \* definition, or Absent, that the second one is wanted of
  Refused(_, _), \* whether PostgreSQL refuses to make the first the second
  DbverRows,   \* whether PARAMI has a row DBVER: TRUE, FALSE, or either
  Refs,        \* the tables the foreign keys of a table refer to
  Latest,      \* the version of a table in entities/
  Frozen,      \* its version in frozen/373/, 0 if it is not there
  Structure,   \* the columns of a table, per version
  Defaults,    \* the tables defaults/ has rows for
  NoTable,     \* stands for a table that does not exist
  MaxFaults,   \* bound: statements that fail by accident, and crashes
  MaxResets    \* bound: calls of resetTables

(* CustomUpdate373's queries in groups: those that can be repeated, and those
   that PostgreSQL refuses the second time (CREATE INDEX, DROP CONSTRAINT,
   RENAME COLUMN).  The third group drops columns the update reads first. *)
Queries   == 1..4
Repeated  == {1, 3}
DropsRead == 3

Columnset  == [Columns -> Definitions \cup {Absent}]
TableState == [columns : Columnset, keyed : BOOLEAN, rows : BOOLEAN, filled : BOOLEAN]

ASSUME MigrationAssumption ==
  /\ Versions \in Tables
  /\ EnumColumn \in Columns
  /\ EnumOf \in [Tables -> Enums \cup {NoEnum}] /\ NoEnum \notin Enums
  /\ EnumOf[Versions] = NoEnum
  /\ Absent \notin Definitions /\ NoTable \notin TableState
  /\ \A d \in Definitions \cup {Absent} : \A e \in Definitions : Altered(d, e) \in Definitions
  /\ \A d, e \in Definitions \cup {Absent} : Refused(d, e) \in BOOLEAN
  /\ \A d, e \in Definitions : Altered(Altered(d, e), e) = Altered(d, e)
  /\ DbverRows \subseteq BOOLEAN
  /\ Refs \in [Tables -> SUBSET Tables]
  /\ Latest \in [Tables -> Nat \ {0}]
  /\ Frozen \in [Tables -> Nat]
  /\ \A t \in Tables : Frozen[t] <= Latest[t] /\ Structure[t] \in [1..Latest[t] -> Columnset]
  /\ \A t \in Tables : \A v \in 1..Latest[t] : \E c \in Columns : Structure[t][v][c] # Absent
  /\ Defaults \subseteq Tables
  /\ MaxFaults \in Nat /\ MaxResets \in Nat

VARIABLES
  tables,    \* each table: its columns, whether its keys are built, whether
             \* users have rows in it, whether its defaults were inserted
  types,     \* the enum types that exist
  versions,  \* the rows of the versions table, 0 where there is none
  migrated,  \* DBVER in PARAMI is 373
  applied,   \* the groups of queries of CustomUpdate373 that were executed
  pc,        \* the statement the process is about to execute
  phase,     \* what it does: custom, frozen, auto or reset
  todo,      \* the schemes, or entities with defaults, its loop has not reached
  tab,       \* the table it works on
  found,     \* the version getEntityVersion returned
  scripts,   \* the columns updateCurrentScheme has statements left for, or
             \* the groups of queries CustomUpdate373 has
  added,     \* DbStructureUpdater::addedEntities, as a set
  result,    \* what the last call returned
  faults,    \* accidents so far (bound)
  resets,    \* calls of resetTables so far (bound)
  misread    \* history: tables getEntityVersion was wrong about, because its
             \* SELECT failed by accident

db   == <<tables, types, versions, migrated, applied>>
job  == <<phase, todo, tab, found, scripts, added>>
rest == <<resets, misread>>
vars == <<db, job, rest, pc, result, faults>>

-----------------------------------------------------------------------------
Exists(t) == tables[t] # NoTable
NoVersion == -1   \* getEntityVersion: the table has no version
Missing   == -2   \* getEntityVersion: the table does not exist

New(t, v) == [columns |-> Structure[t][v], keyed |-> FALSE, rows |-> FALSE, filled |-> FALSE]
Old(t, v) == [columns |-> Structure[t][v], keyed |-> TRUE, rows |-> TRUE, filled |-> TRUE]

(* A table whose column c has the definition d. *)
Redefined(t, c, d) == [tables[t] EXCEPT !.columns = [tables[t].columns EXCEPT ![c] = d]]

(* The version of the scheme in the directory being processed. *)
Wanted(t) == IF phase = "frozen" THEN Frozen[t] ELSE Latest[t]

(* A slip: the recorded version is counted up. *)
WrittenNext == found + 1

(* The version upsertTableVersion is given. *)
Written == Wanted(tab)

(* What getActualScheme finds: of a missing table no columns, and no error. *)
Actual(t) == IF Exists(t) THEN tables[t].columns ELSE [c \in Columns |-> Absent]

(* A slip: columns whose definition changed are forgotten. *)
DifferingAdded(t) == {c \in Columns : Actual(t)[c] = Absent /\ Structure[t][Wanted(t)][c] # Absent}

(* A column of definition d after the statements that are to give it e.  They do
   not always: a default that is a boolean or a float is not changed, and a field
   that does not say whether it can be empty is added with NOT NULL, although
   CREATE TABLE makes it nullable. *)
After(d, e) == IF e = Absent THEN Absent ELSE Altered(d, e)

(* The columns updateCurrentScheme has statements for, but those that leave the
   column as it is. *)
Differing(t) == {c \in Columns : After(Actual(t)[c], Structure[t][Wanted(t)][c]) # Actual(t)[c]}

(* PostgreSQL refuses a type there is no cast to, and a column that is added to a
   table with rows and has to have a value. *)
Refuses(t, c, e) ==
  /\ Refused(Actual(t)[c], e)
  /\ Actual(t)[c] # Absent \/ (Exists(t) /\ (tables[t].rows \/ tables[t].filled))

(* Foreign keys of another table keep this one from being dropped. *)
Referenced(t) == \E u \in Tables \ {t} : Exists(u) /\ tables[u].keyed /\ t \in Refs[u]

(* ON CONFLICT (TABLENAME) needs the unique key of the versions table. *)
CanRecord == Exists(Versions) /\ tables[Versions].keyed

(* The type of the enum column is in use in another table. *)
Shared(t) == \E u \in Tables \ {t} :
  Exists(u) /\ EnumOf[u] = EnumOf[t] /\ tables[u].columns[EnumColumn] # Absent

(* A statement is executed if it can be, or it is not: because PostgreSQL
   refuses it, or by accident. *)
Executed(can)    == can /\ UNCHANGED faults
NotExecuted(can) == IF can THEN faults < MaxFaults /\ faults' = faults + 1 ELSE UNCHANGED faults

Goto(p)   == pc' = p /\ UNCHANGED result
Return(r) == pc' = "idle" /\ result' = r

(* DbUpdater::makeAutoUpdate: the schemes of entities/. *)
StartAuto == phase' = "auto" /\ todo' = Tables /\ Goto("next")

-----------------------------------------------------------------------------
(* The process starts on a database from before 373, which has no versions and
   may have no tables at all, or on one that is up to date except that some
   tables are at older versions or missing. *)
Init ==
  /\ \/ \E S \in SUBSET (Tables \ {Versions}) :
          /\ tables = [t \in Tables |-> IF t \in S THEN Old(t, 1) ELSE NoTable]
          /\ versions = [t \in Tables |-> 0]
          /\ migrated = FALSE
          /\ applied = {}
     \/ \E v \in [Tables -> 0..2] :
          /\ v[Versions] = Latest[Versions] /\ \A t \in Tables : v[t] <= Latest[t]
          /\ tables = [t \in Tables |-> IF v[t] = 0 THEN NoTable ELSE Old(t, v[t])]
          /\ versions = v
          /\ migrated = TRUE
          /\ applied = Queries
  /\ types = {EnumOf[t] : t \in {u \in Tables : Exists(u) /\ tables[u].columns[EnumColumn] # Absent}} \ {NoEnum}
  /\ pc = "idle" /\ phase = "auto" /\ todo = {} /\ tab = Versions
  /\ found = Missing /\ scripts = {} /\ added = {} /\ result = "none"
  /\ faults = 0 /\ resets = 0 /\ misread = {}

-----------------------------------------------------------------------------
(* update(currentVersion), at the start of the server or on request: custom
   updates first if DBVER is below 373, and the first thing of 373 that is
   executed is createVersionsTable. *)
Update ==
  /\ pc = "idle"
  /\ IF migrated
     THEN StartAuto /\ UNCHANGED tab
     ELSE phase' = "custom" /\ tab' = Versions /\ Goto("drop") /\ UNCHANGED todo
  /\ found' = Missing
  /\ UNCHANGED <<db, scripts, added, rest, faults>>

(* resetTables: the versions table first, then every other scheme. *)
Reset ==
  /\ pc = "idle"
  /\ resets < MaxResets
  /\ resets' = resets + 1
  /\ phase' = "reset" /\ tab' = Versions /\ Goto("drop")
  /\ todo' = Tables \ {Versions}
  /\ found' = Missing
  /\ UNCHANGED <<db, scripts, added, misread, faults>>

(* The process dies and is started again. *)
Crash ==
  /\ faults < MaxFaults
  /\ faults' = faults + 1
  /\ pc' = "idle" /\ result' = "none"
  /\ added' = {} /\ todo' = {} /\ scripts' = {}
  /\ UNCHANGED <<db, phase, tab, found, rest>>

(* Between two calls the users of the server fill its tables. *)
Use(t) ==
  /\ pc = "idle" /\ Exists(t) /\ ~tables[t].rows
  /\ tables' = [tables EXCEPT ![t].rows = TRUE]
  /\ UNCHANGED <<types, versions, migrated, applied, job, rest, pc, result, faults>>

-----------------------------------------------------------------------------
(* initTable(tab): drop, create, record the version. *)

InitSucceeds ==
  IF phase = "custom" THEN Goto("custom") /\ UNCHANGED added
  ELSE /\ Goto("next")
       /\ added' = IF phase = "reset" THEN added ELSE added \cup {tab}

(* A slip: the loop goes on with the next table. *)
InitFailsUnnoticed ==
  /\ Goto(IF phase = "custom" THEN "custom" ELSE "next")
  /\ UNCHANGED added

(* createVersionsTable's result is ignored in 373; elsewhere the call is over. *)
InitFails ==
  /\ IF phase = "custom" THEN Goto("custom") ELSE Return("error")
  /\ UNCHANGED added

(* dropTable asks whether the table exists; when it cannot tell, it does not. *)
DropLook ==
  /\ pc = "drop"
  /\ \/ Executed(Exists(tab)) /\ Goto(IF EnumOf[tab] = NoEnum THEN "drop table" ELSE "drop type")
     \/ NotExecuted(Exists(tab)) /\ Goto(IF EnumOf[tab] = NoEnum THEN "create" ELSE "create type")
  /\ UNCHANGED <<db, job, rest>>

(* DROP TYPE ... CASCADE: the columns of the type go with it.  When it fails
   dropTable gives up, which initTable does not notice. *)
DropType ==
  /\ pc = "drop type"
  /\ \/ /\ Executed(TRUE) /\ Goto("drop table")
        /\ types' = types \ {EnumOf[tab]}
        /\ tables' = [t \in Tables |->
             IF Exists(t) /\ EnumOf[t] = EnumOf[tab]
             THEN Redefined(t, EnumColumn, Absent) ELSE tables[t]]
     \/ NotExecuted(TRUE) /\ Goto("create type") /\ UNCHANGED <<types, tables>>
  /\ UNCHANGED <<versions, migrated, applied, job, rest>>

(* DROP TABLE, whose failure initTable does not notice either. *)
DropTable ==
  /\ pc = "drop table"
  /\ Goto(IF EnumOf[tab] = NoEnum THEN "create" ELSE "create type")
  /\ \/ /\ Executed(~Referenced(tab))
        /\ tables' = [tables EXCEPT ![tab] = NoTable]
        /\ versions' = IF tab = Versions THEN [t \in Tables |-> 0] ELSE versions
     \/ NotExecuted(~Referenced(tab)) /\ UNCHANGED <<tables, versions>>
  /\ UNCHANGED <<types, migrated, applied, job, rest>>

(* createEnums: CREATE TYPE has no IF NOT EXISTS. *)
CreateType ==
  /\ pc = "create type"
  /\ LET can == EnumOf[tab] \notin types
     IN  \/ /\ Executed(can) /\ Goto("create")
            /\ types' = types \cup {EnumOf[tab]}
            /\ UNCHANGED added
         \/ NotExecuted(can) /\ InitFails /\ UNCHANGED types
  /\ UNCHANGED <<tables, versions, migrated, applied, phase, todo, tab, found, scripts, rest>>

(* CREATE TABLE. *)
Create ==
  /\ pc = "create"
  /\ \/ /\ Executed(~Exists(tab)) /\ Goto("keys")
        /\ tables' = [tables EXCEPT ![tab] = New(tab, Wanted(tab))]
        /\ UNCHANGED added
     \/ NotExecuted(~Exists(tab)) /\ InitFails /\ UNCHANGED tables
  /\ UNCHANGED <<types, versions, migrated, applied, phase, todo, tab, found, scripts, rest>>

(* addUniqueConstraints, createIndexes, buildRelations: a foreign key needs its target. *)
CreateKeys ==
  /\ pc = "keys"
  /\ LET can == \A t \in Refs[tab] : Exists(t)
     IN  \/ /\ Executed(can) /\ Goto("record")
            /\ tables' = [tables EXCEPT ![tab].keyed = TRUE]
            /\ UNCHANGED added
         \/ NotExecuted(can) /\ InitFails /\ UNCHANGED tables
  /\ UNCHANGED <<types, versions, migrated, applied, phase, todo, tab, found, scripts, rest>>

(* upsertTableVersion, of initTable and of updateCurrentScheme. *)
Record ==
  /\ pc = "record"
  /\ \/ /\ Executed(CanRecord)
        /\ versions' = [versions EXCEPT ![tab] = Written]
        /\ IF found = Missing THEN InitSucceeds ELSE Goto("next") /\ UNCHANGED added
     \/ /\ NotExecuted(CanRecord)
        /\ IF found = Missing THEN InitFails ELSE Return("error") /\ UNCHANGED added
        /\ UNCHANGED versions
  /\ UNCHANGED <<tables, types, migrated, applied, phase, todo, tab, found, scripts, rest>>

-----------------------------------------------------------------------------
(* DbStructureUpdater::update and the loop of resetTables.  The next scheme is any
   of those left: a directory is listed in no particular order. *)
NextScheme(t) ==
  /\ pc = "next" /\ t \in todo
  /\ tab' = t /\ todo' = todo \ {t}
  /\ Goto(IF phase = "reset" THEN "drop" ELSE "look")
  /\ UNCHANGED <<db, phase, found, scripts, added, rest, faults>>

LastScheme ==
  /\ pc = "next" /\ todo = {}
  /\ \/ phase = "frozen" /\ Goto("pins") /\ UNCHANGED todo
     \/ phase = "auto"   /\ Goto("fill") /\ todo' = added \cap Defaults
     \/ phase = "reset"  /\ Goto("fill") /\ todo' = Defaults
  /\ UNCHANGED <<db, phase, tab, found, scripts, added, rest, faults>>

(* A slip: is it another one? *)
DecideOther(v) ==
  /\ found' = v
  /\ Goto(IF v = Missing THEN "drop" ELSE IF Wanted(tab) # v THEN "load" ELSE "next")

(* getEntityVersion returned v: is the scheme newer? *)
Decide(v) ==
  /\ found' = v
  /\ Goto(IF v = Missing THEN "drop" ELSE IF Wanted(tab) > v THEN "load" ELSE "next")

(* getVersionFromVersionTable. *)
Look ==
  /\ pc = "look"
  /\ LET can == Exists(Versions) /\ versions[tab] # 0
     IN  \/ Executed(can) /\ Decide(versions[tab])
         \/ NotExecuted(can) /\ Goto("look table") /\ UNCHANGED found
  /\ UNCHANGED <<db, phase, todo, tab, scripts, added, rest>>

(* A slip: without a version the table is taken for absent. *)
LookTableNot ==
  /\ pc = "look table"
  /\ Decide(Missing)
  /\ UNCHANGED <<db, phase, todo, tab, scripts, added, rest, faults>>

(* tableExists, when no version was found: an error counts as "no". *)
LookTable ==
  /\ pc = "look table"
  /\ \/ /\ Executed(Exists(tab)) /\ Decide(NoVersion)
        /\ misread' = IF versions[tab] = 0 THEN misread ELSE misread \cup {tab}
     \/ /\ NotExecuted(Exists(tab)) /\ Decide(Missing)
        /\ misread' = IF Exists(tab) THEN misread \cup {tab} ELSE misread
  /\ UNCHANGED <<db, phase, todo, tab, scripts, added, resets>>

(* getActualScheme reads the columns of the table, and updateCurrentScheme
   compares them with the new ones. *)
Load ==
  /\ pc = "load"
  /\ \/ Executed(TRUE) /\ scripts' = Differing(tab)
        /\ Goto(IF scripts' = {} THEN "record" ELSE "alter")
     \/ NotExecuted(TRUE) /\ Return("error") /\ UNCHANGED scripts
  /\ UNCHANGED <<db, phase, todo, tab, found, added, rest>>

(* The next column: new and changed ones, in no particular order, before those
   that are dropped.  The type of a new enum column is created anew, which the
   server refuses while another table has a column of it. *)
Alter(c) ==
  /\ pc = "alter" /\ c \in scripts
  /\ LET new   == Structure[tab][Wanted(tab)]
         typed == c = EnumColumn /\ EnumOf[tab] # NoEnum /\ Actual(tab)[c] = Absent
         can   == Exists(tab) /\ ~(typed /\ Shared(tab)) /\ ~Refuses(tab, c, new[c])
     IN  /\ new[c] = Absent => \A d \in scripts : new[d] = Absent
         /\ \/ /\ Executed(can)
               /\ tables' = [tables EXCEPT ![tab] = Redefined(tab, c, After(Actual(tab)[c], new[c]))]
               /\ types' = IF typed THEN types \cup {EnumOf[tab]} ELSE types
               /\ scripts' = scripts \ {c}
               /\ Goto(IF scripts' = {} THEN "record" ELSE "alter")
            \/ NotExecuted(can) /\ Return("error") /\ UNCHANGED <<tables, types, scripts>>
  /\ UNCHANGED <<versions, migrated, applied, phase, todo, tab, found, added, rest>>

(* A slip: an INSERT that fails is passed over. *)
FillUnchecked(t) ==
  /\ pc = "fill" /\ t \in todo
  /\ \/ Executed(Exists(t)) /\ tables' = [tables EXCEPT ![t].filled = TRUE]
     \/ NotExecuted(Exists(t)) /\ UNCHANGED tables
  /\ todo' = todo \ {t} /\ Goto("fill")
  /\ UNCHANGED <<types, versions, migrated, applied, phase, tab, found, scripts, added, rest>>

(* addDefaults and the end of resetTables: addEntities for the next table. *)
Fill(t) ==
  /\ pc = "fill" /\ t \in todo
  /\ \/ /\ Executed(Exists(t)) /\ Goto("fill")
        /\ tables' = [tables EXCEPT ![t].filled = TRUE]
        /\ todo' = todo \ {t}
     \/ NotExecuted(Exists(t)) /\ Return("error") /\ UNCHANGED <<tables, todo>>
  /\ UNCHANGED <<types, versions, migrated, applied, phase, tab, found, scripts, added, rest>>

Finish ==
  /\ pc = "fill" /\ todo = {}
  /\ Return("ok")
  /\ UNCHANGED <<db, job, rest, faults>>

-----------------------------------------------------------------------------
(* CustomUpdate373::update. *)

(* A slip: a custom update that fails ends the update. *)
CustomFailsForGood == Return("error") /\ UNCHANGED <<phase, todo>>

(* It returns -1, and DbUpdater::makeCustomUpdates does not look. *)
CustomFails == StartAuto

(* The SELECT from ACCESSRULES, of columns the queries drop. *)
CustomSelect ==
  /\ pc = "custom"
  /\ LET can == DropsRead \notin applied
     IN  \/ Executed(can) /\ scripts' = Queries /\ Goto("query") /\ UNCHANGED <<phase, todo>>
         \/ NotExecuted(can) /\ CustomFails /\ UNCHANGED scripts
  /\ UNCHANGED <<db, tab, found, added, rest>>

(* The next group of queries; after the last, updateStructuresForCustom(373). *)
CustomQuery(q) ==
  /\ pc = "query" /\ q \in scripts /\ \A r \in scripts : q <= r
  /\ LET can == q \in Repeated \/ q \notin applied
     IN  \/ /\ Executed(can)
            /\ applied' = applied \cup {q} /\ scripts' = scripts \ {q}
            /\ IF scripts' # {} THEN Goto("query") /\ UNCHANGED <<phase, todo>>
               ELSE Goto("next") /\ phase' = "frozen"
                    /\ todo' = {t \in Tables : Frozen[t] > 0}
         \/ NotExecuted(can) /\ CustomFails /\ UNCHANGED <<applied, scripts>>
  /\ UNCHANGED <<tables, types, versions, migrated, tab, found, added, rest>>

(* EVACREP and the pin codes. *)
CustomPins ==
  /\ pc = "pins"
  /\ \/ Executed(TRUE) /\ Goto("dbver") /\ UNCHANGED <<phase, todo>>
     \/ NotExecuted(TRUE) /\ CustomFails
  /\ UNCHANGED <<db, tab, found, scripts, added, rest>>

(* updatePayMenuItems and DBVER, whose exceptions reach DbUpdater::update.  When
   there is no row DBVER, nothing is written. *)
CustomDbver ==
  /\ pc = "dbver"
  /\ \/ Executed(TRUE) /\ migrated' \in DbverRows /\ StartAuto
     \/ NotExecuted(TRUE) /\ Return("error") /\ UNCHANGED <<migrated, phase, todo>>
  /\ UNCHANGED <<tables, types, versions, applied, tab, found, scripts, added, rest>>

-----------------------------------------------------------------------------
InitTable == DropLook \/ DropType \/ DropTable \/ CreateType \/ Create \/ CreateKeys \/ Record

Structures ==
  \/ (\E t \in Tables : NextScheme(t)) \/ LastScheme
  \/ Look \/ LookTable \/ Load \/ (\E c \in Columns : Alter(c))
  \/ (\E t \in Tables : Fill(t)) \/ Finish

Custom == CustomSelect \/ (\E q \in Queries : CustomQuery(q)) \/ CustomPins \/ CustomDbver

Step == InitTable \/ Structures \/ Custom

Next ==
  \/ Update
  \/ Reset
  \/ Step
  \/ Crash
  \/ \E t \in Tables : Use(t)

Spec == Init /\ [][Next]_vars

(* The process goes on with what it started, and the server is started again,
   which updates the database, however often it failed. *)
Fairness == WF_vars(Step) /\ WF_vars(Update)

FairSpec == Spec /\ Fairness

-----------------------------------------------------------------------------
(* The type invariant: the tables are of the schemes' columns, no recorded
   version is above the scheme's, and the bounds are kept. *)
TypeOK ==
  /\ tables \in [Tables -> TableState \cup {NoTable}]
  /\ types \subseteq Enums
  /\ versions \in [Tables -> Nat] /\ \A t \in Tables : versions[t] <= Latest[t]
  /\ migrated \in BOOLEAN
  /\ applied \subseteq Queries
  /\ todo \subseteq Tables /\ added \subseteq Tables
  /\ pc \in {"idle", "next", "look", "look table", "load", "alter", "drop", "drop type",
             "drop table", "create type", "create", "keys", "record", "fill",
             "custom", "query", "pins", "dbver"}
  /\ phase \in {"custom", "frozen", "auto", "reset"}
  /\ tab \in Tables
  /\ found \in {NoVersion, Missing} \cup Nat
  /\ scripts \subseteq Columns \cup Queries
  /\ result \in {"none", "ok", "error"}
  /\ faults \in 0..MaxFaults /\ resets \in 0..MaxResets
  /\ misread \subseteq Tables

(* A column is as CREATE TABLE or ADD COLUMN makes it of its definition, or the
   updater sees nothing it could alter. *)
Fits(d, e) == d = e \/ d = After(d, e) \/ d = After(Absent, e)

Misfits(t) == {c \in Columns : ~Fits(Actual(t)[c], Structure[t][Wanted(t)][c])}

HasStructure(t, v) == Exists(t) /\ \A c \in Columns : Fits(tables[t].columns[c], Structure[t][v][c])

(* A version in TABLESVERSIONS is true: whatever failed and wherever the
   process died, a table recorded at the version of its scheme has the columns of
   the scheme and no others, each created or added by its definition there, or
   such that the updater sees no difference: nothing is left to do for another
   update, so that it may skip the table for ever.  (upsertTableVersion is the
   last statement of initTable and of updateCurrentScheme.)
   A table whose version could not be read by accident is excepted: it may be
   dropped, or taken back to an older structure, under its recorded version. *)
VersionIsTrue ==
  \A t \in Tables \ misread : versions[t] = Latest[t] => HasStructure(t, Latest[t])

(* When update or resetTables returns 0, every table is there, with the columns of
   its scheme as above; an error on the way is never taken for success. *)
OkMeansCurrent ==
  (pc = "idle" /\ result = "ok") => \A t \in Tables \ misread : HasStructure(t, Latest[t])

(* ... and the default rows of every table this process created are in it, even
   if that takes several calls: a call that fails remembers what it created. *)
OkMeansFilled ==
  (pc = "idle" /\ result = "ok") =>
    \A t \in added \cap Defaults : Exists(t) => tables[t].filled

(* Only resetTables drops a table users have rows in: DbStructureUpdater drops
   and creates a table only when getEntityVersion says it is missing.  (Two
   SELECTs in a row that fail by accident make it say so of a table that is
   there; see misread.) *)
RowsSurvive ==
  [][\A t \in Tables \ {Versions} :
       (Exists(t) /\ tables[t].rows /\ ~(tables'[t] # NoTable /\ tables'[t].rows))
         => phase = "reset" \/ t \in misread]_vars

(* The inductive invariant behind the four properties above: what holds between
   two statements of a call.  It needs that no two tables share an enum type:
   DROP TYPE ... CASCADE takes the columns of the type from all of them. *)
NoSharedTypes == \A t, u \in Tables : EnumOf[t] = EnumOf[u] /\ EnumOf[t] # NoEnum => t = u

Creating == {"drop", "drop type", "drop table", "create type", "create", "keys"}
Updating == {"look", "look table", "load", "alter"}
Working  == Creating \cup Updating \cup {"record"}

(* Which steps belong to which phase, and what they work on. *)
PhaseInv ==
  /\ phase = "custom" /\ pc # "idle" =>
       /\ pc \in Creating \cup {"record", "custom", "query"} /\ found = Missing
       /\ pc \in Working => tab = Versions
  /\ phase = "frozen" => \A t \in todo : Frozen[t] > 0
  /\ phase = "frozen" /\ pc \in Working => Frozen[tab] > 0
  /\ phase = "reset" => pc \notin Updating
  /\ phase = "reset" /\ pc \in Working \cup {"next"} =>
       /\ Versions \notin todo
       /\ pc \in Working => tab \notin todo
       /\ (pc \in {"next", "keys", "record"} \/ tab # Versions)
            => \A t \in todo : versions[t] = 0
  /\ pc \in {"drop type", "create type"} => EnumOf[tab] # NoEnum

(* A table that is worked on is not recorded at its latest version, or it was
   misread; and when its version is about to be recorded, it is true. *)
WorkInv ==
  /\ ~Exists(Versions) => \A t \in Tables : versions[t] = 0
  /\ pc \in {"load", "alter"} => tab \in misread \/ versions[tab] # Latest[tab]
  /\ pc \in Creating => tab = Versions \/ tab \in misread \/ versions[tab] # Latest[tab]
  /\ pc \in {"drop", "drop type", "drop table"} /\ phase \in {"auto", "frozen"}
       => tab \in misread \/ ~Exists(tab)
  /\ pc = "alter" => Misfits(tab) \subseteq scripts
  /\ pc \in {"keys", "record"} => HasStructure(tab, Wanted(tab))

(* What a call has behind it is done. *)
DoneInv ==
  LET Done(t) == t \in misread \/ HasStructure(t, Latest[t])
  IN  /\ phase \in {"auto", "reset"} /\ pc \in Working \cup {"next"} =>
           \A t \in Tables : Done(t) \/ t \in todo \/ (t = tab /\ pc \in Working)
      /\ pc = "fill" => \A t \in Tables : Done(t)
      /\ pc = "fill" => \A t \in added \cap Defaults :
                          t \in todo \/ (Exists(t) => tables[t].filled)

(* All of it, in every state of a call: which table a statement works on, what
   is true of it by then, and what is done already. *)
MigrationInv ==
  VersionIsTrue /\ OkMeansCurrent /\ OkMeansFilled /\ PhaseInv /\ WorkInv /\ DoneInv

(* The dead ends: CREATE TYPE of a type whose table is gone (dropTable drops
   types only with their table), a column whose ALTER is refused, a versions
   table without its unique key, which nothing gives it later, and a recorded
   version that is not true. *)
Orphaned(t) == ~Exists(t) /\ EnumOf[t] \in types
Stuck(t)    == Exists(t) /\ \E c \in Columns : Refuses(t, c, Structure[t][Latest[t]][c])
Wedged ==
  \/ \E t \in Tables : Orphaned(t) \/ Stuck(t)
  \/ migrated /\ ~CanRecord
  \/ \E t \in misread : versions[t] = Latest[t] /\ ~HasStructure(t, Latest[t])

(* Started often enough, the server brings every table to its scheme and keeps
   it there, whatever failed before and whether or not the custom update ever
   succeeds, unless the failures led to one of the dead ends.  (TABLESVERSIONS
   itself comes and goes: the custom update creates it anew each time.) *)
Converges == <>[]((\A t \in Tables \ {Versions} : HasStructure(t, Latest[t])) \/ Wedged)

(* "Integer status code indicating success (0) or failure (-1)"
   (DatabaseManager.h:90): when update returns 0, the custom update was made. *)
OkMeansMigrated == (pc = "idle" /\ phase = "auto" /\ result = "ok") => migrated

(* "responsible for ensuring the database structure matches the expected schema
   definitions" (DbStructureUpdater.h:15): a table at its latest version has
   the unique keys, indexes and relations of its scheme. *)
VersionMeansKeyed ==
  \A t \in Tables \ misread : versions[t] = Latest[t] => Exists(t) /\ tables[t].keyed

(* "Creates a special "versions" table in the database if it doesn't exist"
   (DatabaseManager.h:95): except by resetTables, no version is forgotten. *)
VersionsKept ==
  [][phase' # "reset" => \A t \in Tables : versions[t] # 0 => versions'[t] # 0]_vars
=============================================================================
