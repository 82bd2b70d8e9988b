----------------------------- MODULE SchemeUpdate -----------------------------
(***************************************************************************)
(* One table and the scheme it is brought to, down to the definition of    *)
(* each column and the keys of the table: createTable, getActualScheme and *)
(* updateCurrentScheme of the MySQL and of the PostgreSQL controllers.     *)
(*                                                                         *)
(* Migration treats a definition as one value and the keys as one flag;    *)
(* here they are what the types converters and the script builders make of *)
(* them, and the question is whether a table that was altered step by step *)
(* ends up as one that was created.  What a server refuses (an index a     *)
(* foreign key needs, a row that is too wide, a type there is no cast to)  *)
(* is its own behaviour; what it refuses because of the values in the rows *)
(* is left out.                                                            *)
(***************************************************************************)
EXTENDS Integers, FiniteSetsExt

CONSTANTS
  Columns,       \* names of columns, without ID
  Absent,        \* stands for a column a table or scheme does not have
  None,          \* a length or default that is not given
  Now,           \* the default "Now" of a date
  Values,        \* the other values a default can have
  Indexes, Uniques, Relations, \* names of keys; SchemeReader builds them
                               \* from the names of the key's columns
  KeyColumns,    \* the columns of a key
  Upgrades,      \* pairs of schemes: of the table there is, and of its scheme now
  ServerStorage, \* the storage engine MySQL gives a table by default
  NoTable,
  MaxFaults      \* bound: statements that fail by accident, and crashes

Types == {"String", "Integer", "Double", "Boolean", "Binary", "Date", "Enum"}

(* A field of a scheme, as SchemeReader or a scheme loader returns it. *)
Field == [type : Types \cup {"unknown"}, length : Nat \cup {None},
          default : Values \cup {Now, None}, empty : {"yes", "no", "unset"}]

(* A column of the database. *)
SqlTypes == {"varchar", "text", "mediumtext", "int", "bigint", "double", "boolean",
             "varbinary", "blob", "longblob", "bytea", "date", "enum"}
Column == [sql : SqlTypes, length : Nat, default : Values \cup {Now, None}, nullable : BOOLEAN]

(* storage: the engine under "MySQL" in databaseEngines; "unset" if there is none. *)
Scheme == [fields : [Columns -> Field \cup {Absent}], indexes : SUBSET Indexes,
           uniques : SUBSET Uniques, relations : SUBSET Relations,
           storage : {"MyISAM", "InnoDB", "unset"}]
Table  == [columns : [Columns -> Column \cup {Absent}], indexes : SUBSET Indexes,
           uniques : SUBSET Uniques, relations : SUBSET Relations,
           storage : {"MyISAM", "InnoDB"}]

Keys == Indexes \cup Uniques \cup Relations

ASSUME SchemeUpdateAssumption ==
  /\ None \notin Nat /\ None \notin Values /\ Now \notin Values /\ Now # None
  /\ Absent \notin Field /\ Absent \notin Column /\ NoTable \notin Table
  /\ Indexes \cap Uniques = {} /\ Indexes \cap Relations = {} /\ Uniques \cap Relations = {}
  /\ KeyColumns \in [Keys -> SUBSET Columns]
  /\ Upgrades \subseteq Scheme \X Scheme
  /\ \A u \in Upgrades : \A c \in Columns :
       /\ u[1].fields[c] # Absent => u[1].fields[c].type # "unknown"
       /\ u[2].fields[c] # Absent => u[2].fields[c].type # "unknown"
  /\ ServerStorage \in {"MyISAM", "InnoDB"}
  /\ MaxFaults \in Nat

VARIABLES
  server,    \* "MySQL" or "PostgreSQL"
  target,    \* the scheme in entities/
  table,     \* the table in the database
  recorded,  \* its version in TABLESVERSIONS: 0 if none, 1 old, 2 of target
  pc,        \* what is executed next
  creating,  \* whether createTable is at work, not updateCurrentScheme
  commands,  \* the scripts that are left, each an operation on a column or key
  plan,      \* the keys that are left to build
  result,    \* what the last call returned
  faults,    \* accidents so far (bound)
  missed,    \* history: keys the update dropped for good, or failed to build
             \* and did not notice
  unnoticed, \* history: columns whose type changed without a MODIFY
  misread    \* history: the version could not be read, and a table that was
             \* up to date was updated once more

fixed   == <<server, target>>
history == <<missed, unnoticed, misread>>
vars    == <<fixed, table, recorded, pc, creating, commands, plan, result, faults, history>>

-----------------------------------------------------------------------------
(* The types converters. *)
DefaultLength == 255
TextLimit     == 21845
BlobLimit     == 65535
MaxRow        == 65536

Given(length) == IF length = None THEN -1 ELSE length
Sized(length) == IF Given(length) > 0 THEN length ELSE DefaultLength

MySqlType(f) ==
  CASE f.type = "String"  -> IF Given(f.length) > TextLimit THEN [sql |-> "mediumtext", length |-> 16777215]
                             ELSE [sql |-> "varchar", length |-> Sized(f.length)]
    [] f.type = "Integer" -> [sql |-> IF Given(f.length) > 11 THEN "bigint" ELSE "int", length |-> 0]
    [] f.type = "Binary"  -> IF Given(f.length) > BlobLimit THEN [sql |-> "longblob", length |-> 16777215]
                             ELSE IF Given(f.length) > TextLimit THEN [sql |-> "blob", length |-> BlobLimit]
                             ELSE [sql |-> "varbinary", length |-> Sized(f.length)]
    [] f.type = "Double"  -> [sql |-> "double", length |-> 0]
    [] f.type = "Boolean" -> [sql |-> "boolean", length |-> 0]
    [] f.type = "Date"    -> [sql |-> "date", length |-> 0]
    [] f.type = "Enum"    -> [sql |-> "enum", length |-> 0]
    [] OTHER              -> [sql |-> "text", length |-> BlobLimit]

PostgreSqlType(f) ==
  CASE f.type = "String"  -> [sql |-> "varchar", length |-> Sized(f.length)]
    [] f.type = "Integer" -> [sql |-> "int", length |-> 0]
    [] f.type = "Binary"  -> [sql |-> "bytea", length |-> 0]
    [] f.type = "Double"  -> [sql |-> "double", length |-> 0]
    [] f.type = "Boolean" -> [sql |-> "boolean", length |-> 0]
    [] f.type = "Date"    -> [sql |-> "date", length |-> 0]
    [] f.type = "Enum"    -> [sql |-> "enum", length |-> 0]
    [] OTHER              -> [sql |-> "text", length |-> 0]

Mapped(f) == IF server = "MySQL" THEN MySqlType(f) ELSE PostgreSqlType(f)

(* MySQL calls its type "double", and its converter knows "double precision". *)
MySqlUnmapped(sql) ==
  CASE sql \in {"varchar", "text", "mediumtext"}      -> "String"
    [] sql \in {"int", "bigint"}                      -> "Integer"
    [] sql \in {"varbinary", "blob", "longblob"}      -> "Binary"
    [] sql = "boolean" -> "Boolean" [] sql = "date" -> "Date" [] sql = "enum" -> "Enum"
    [] OTHER -> "unknown"

PostgreSqlUnmapped(sql) ==
  CASE sql \in {"varchar", "text"} -> "String"
    [] sql = "int" -> "Integer" [] sql = "double" -> "Double" [] sql = "bytea" -> "Binary"
    [] sql = "boolean" -> "Boolean" [] sql = "date" -> "Date" [] sql = "enum" -> "Enum"
    [] OTHER -> "unknown"

-----------------------------------------------------------------------------
(* The scheme loaders: the field a column is read as. *)

(* A default that is not read: of a type nothing is known of, and of a date
   whose default is the time of the insertion. *)
Unread(col) == col.default = Now \/ (server = "MySQL" /\ col.sql = "double")

LoadedDefault(col) == IF Unread(col) THEN None ELSE col.default
LoadedEmpty(col)   == IF col.nullable THEN "yes" ELSE "no"

MySqlField(col) ==
  LET type == MySqlUnmapped(col.sql)
  IN  [type    |-> type,
       length  |-> IF type \in {"String", "Binary"} THEN col.length ELSE None,
       default |-> LoadedDefault(col), empty |-> LoadedEmpty(col)]

PostgreSqlField(col) ==
  LET type == PostgreSqlUnmapped(col.sql)
  IN  [type    |-> type,
       length  |-> IF type = "String" THEN col.length ELSE None,
       default |-> LoadedDefault(col), empty |-> LoadedEmpty(col)]

Loaded(col) == IF server = "MySQL" THEN MySqlField(col) ELSE PostgreSqlField(col)

(* The keys and the engine of a table, as the loaders of MySQL read them: from
   one list of indexes those whose name says they are one kind or the other. *)
Statistics      == table.indexes \cup table.uniques
LoadedIndexes   == Statistics \cap Indexes
LoadedUniques   == Statistics \cap Uniques
LoadedRelations == table.relations \cap Relations
LoadedEngine    == table.storage

-----------------------------------------------------------------------------
(* The script builders: the column a statement makes of a field. *)
Defined(f, default, nullable) ==
  [sql |-> Mapped(f).sql, length |-> Mapped(f).length, default |-> default, nullable |-> nullable]

(* DEFAULT is written for an int, a string or a bool, but not for a double. *)
WrittenDefault(f) == IF f.type = "Double" THEN None ELSE f.default

(* generateFieldDefinition, of both controllers. *)
CreatedColumn(f) == Defined(f, WrittenDefault(f), f.empty # "no")

(* addNewFieldToTable, of both updaters: "can be empty" has to be given. *)
AddedColumn(f) == Defined(f, WrittenDefault(f), f.empty = "yes")

(* A slip: MODIFY leaves out the default, which takes it away. *)
ModifiedWithoutDefault(f) == Defined(f, None, f.empty = "yes")

(* updateColumnProperties of MySQL. *)
ModifiedColumn(f) == Defined(f, f.default, f.empty = "yes")

(* calculateFieldSize: the bytes a column takes of MySQL's limit for a row. *)
Width(col) ==
  CASE col = Absent           -> 0
    [] col.sql = "boolean"    -> 1
    [] col.sql = "enum"       -> 1
    [] col.sql = "date"       -> 3
    [] col.sql = "int"        -> 4
    [] col.sql = "varbinary"  -> col.length
    [] col.sql = "varchar"    -> 3 * col.length
    [] col.sql \in {"bigint", "double"}                     -> 8
    [] col.sql \in {"text", "mediumtext", "blob", "longblob"} -> 12
    [] OTHER -> 0
RowWidth(columns) == MapThenSumSet(LAMBDA c : Width(columns[c]), Columns)

Shrunk(col) ==
  IF col = Absent THEN Absent
  ELSE IF col.sql = "varchar" THEN [col EXCEPT !.sql = "text", !.length = BlobLimit]
  ELSE IF col.sql = "varbinary" THEN [col EXCEPT !.sql = "blob", !.length = BlobLimit]
  ELSE col

(* adjustFieldTypeStringsForRowSize, which only createTable of MySQL calls. *)
CreatedColumns(s) ==
  LET columns == [c \in Columns |-> IF s.fields[c] = Absent THEN Absent ELSE CreatedColumn(s.fields[c])]
  IN  IF server = "MySQL" /\ RowWidth(columns) > MaxRow
      THEN [c \in Columns |-> Shrunk(columns[c])] ELSE columns

(* A slip: the name is taken as it is given. *)
StorageAsGiven(s) == s.storage

(* A table whose scheme names no engine for MySQL gets MyISAM. *)
Storage(s) == IF s.storage = "unset" THEN "MyISAM" ELSE s.storage

(* MyISAM accepts foreign keys and forgets them. *)
Effective(relations, storage) == IF server = "MySQL" /\ storage = "MyISAM" THEN {} ELSE relations

-----------------------------------------------------------------------------
(* updateCurrentScheme: what it finds different.  F and T are the fields of
   the target and the columns of the table. *)
F(c) == target.fields[c]
T(c) == table.columns[c]
Both == {c \in Columns : T(c) # Absent /\ F(c) # Absent}

(* StructureField's operator != compares every feature, given or not.  The scheme
   always has a default among them, null if it gives none, and the loader has
   one only if it read one, so that without a default a column always differs. *)
Changed == {c \in Both : F(c).default = None \/ Loaded(T(c)) # F(c)}
Deleted == {c \in Columns : T(c) # Absent /\ F(c) = Absent}
New     == {c \in Columns : T(c) = Absent /\ F(c) # Absent}
Touched == {k \in Keys : KeyColumns[k] \cap (Changed \cup Deleted) # {}}

(* The type of a column is that of its field, or what createTable shrinks it to. *)
RightType(c) ==
  LET created == Defined(F(c), T(c).default, T(c).nullable)
  IN  T(c) = created \/ (server = "MySQL" /\ T(c) = Shrunk(created))

StorageChanged == LoadedEngine # Storage(target)

On(op, things) == {[op |-> op, on |-> x] : x \in things}

(* The flag typeOrLengthChanged is never set. *)
Modifies(c) ==
  \/ Loaded(T(c)).default # F(c).default
  \/ (Loaded(T(c)).empty = "yes") # (F(c).empty = "yes")

DroppedRelations ==
  IF StorageChanged THEN LoadedRelations
  ELSE {r \in LoadedRelations : r \in Touched \/ r \notin target.relations}

(* Every index and unique set is dropped: the test of whether the new scheme
   still has it looks it up among the relations. *)
MySqlCommands ==
  On("add", New)
    \cup On("drop index", LoadedIndexes) \cup On("drop unique", LoadedUniques)
    \cup On("drop relation", DroppedRelations)
    \cup On("drop", Deleted) \cup On("modify", {c \in Changed : Modifies(c)})
    \cup (IF StorageChanged THEN On("storage", {target.storage}) ELSE {})

(* A slip: what was dropped because of a changed column is not built again. *)
PlanWithoutTouched ==
  [indexes   |-> target.indexes \ LoadedIndexes,
   uniques   |-> target.uniques, relations |-> target.relations]

(* The keys to build afterwards.  Unique sets and relations are looked up
   among the indexes, so all of them are to be built, those that exist too. *)
MySqlPlan ==
  [indexes   |-> IF StorageChanged THEN target.indexes
                 ELSE {i \in target.indexes : i \notin LoadedIndexes \/ i \in Touched},
   uniques   |-> target.uniques,
   relations |-> target.relations]

ChangesDefault(c) ==
  /\ F(c).default # Loaded(T(c)).default
  /\ F(c).default = None \/ F(c).type \notin {"Double", "Boolean"}

ChangesType(c) == Loaded(T(c)).type # F(c).type \/ Loaded(T(c)).length # F(c).length
ChangesEmpty(c) == (Loaded(T(c)).empty # "no") # (F(c).empty # "no")

PostgreSqlCommands ==
  On("add", New) \cup On("drop", Deleted)
    \cup On("type", {c \in Both : ChangesType(c)})
    \cup On("default", {c \in Both : ChangesDefault(c)})
    \cup On("empty", {c \in Both : ChangesEmpty(c)})

Commands == IF server = "MySQL" THEN MySqlCommands ELSE PostgreSqlCommands

(* The order of the scripts: the position of an operation among the operations
   of its updater.  Those of one position come in any order (the maps are
   unordered), and so do the ALTERs of different columns in PostgreSQL. *)
Rank(x) ==
  CASE x.op = "add" -> 1
    [] x.op = "type" -> 1 [] x.op = "default" -> 2 [] x.op = "empty" -> 3
    [] x.op = "drop index" -> 4 [] x.op = "drop unique" -> 5 [] x.op = "drop relation" -> 6
    [] x.op = "drop" -> 7 [] x.op = "modify" -> 8 [] OTHER -> 9
Before(y, x) == Rank(y) < Rank(x) /\ (Rank(x) <= 3 => y.on = x.on)

-----------------------------------------------------------------------------
(* What MySQL refuses. *)
Covering(k) == {j \in table.indexes \cup table.uniques : KeyColumns[j] = KeyColumns[k]}

(* An index a foreign key needs, the only one on the foreign key's columns. *)
Needed(k) == Covering(k) = {k} /\ \E r \in table.relations : KeyColumns[r] = KeyColumns[k]

(* A row that is wider than MaxRow. *)
TooWide(columns) == server = "MySQL" /\ RowWidth(columns) > MaxRow

(* What PostgreSQL refuses: a type there is no assignment cast to.  USING, which
   would allow any cast, is written for an enum only, and does not help its
   default. *)
Numbers == {"int", "double", "boolean"}
Convertible(col, sql) ==
  \/ sql \in {col.sql, "varchar", "text"}
  \/ {col.sql, sql} \subseteq Numbers
  \/ sql = "enum" /\ col.sql \in {"varchar", "text"} /\ col.default = None

(* The columns after a script. *)
Altered(x) ==
  [table.columns EXCEPT ![x.on] =
     CASE x.op = "add"     -> AddedColumn(F(x.on))
       [] x.op = "modify"  -> ModifiedColumn(F(x.on))
       [] x.op = "type"    -> [@ EXCEPT !.sql = Mapped(F(x.on)).sql, !.length = Mapped(F(x.on)).length]
       [] x.op = "default" -> [@ EXCEPT !.default = F(x.on).default]
       [] x.op = "empty"   -> [@ EXCEPT !.nullable = F(x.on).empty # "no"]
       [] OTHER            -> Absent]

Executable(x) ==
  CASE x.op \in {"drop index", "drop unique"} -> ~Needed(x.on)
    [] x.op \in {"add", "modify"}             -> ~TooWide(Altered(x))
    [] x.op = "type"                          -> Convertible(T(x.on), Mapped(F(x.on)).sql)
    [] OTHER                                  -> TRUE

(* The table after a script; a column takes its keys with it. *)
Without(keys, c) == {k \in keys : c \notin KeyColumns[k]}
Effect(x) ==
  CASE x.op = "drop index"    -> [table EXCEPT !.indexes = @ \ {x.on}]
    [] x.op = "drop unique"   -> [table EXCEPT !.uniques = @ \ {x.on}]
    [] x.op = "drop relation" -> [table EXCEPT !.relations = @ \ {x.on}]
    [] x.op = "storage"       -> [table EXCEPT !.storage = x.on]
    [] x.op = "drop" -> [table EXCEPT !.columns = Altered(x), !.indexes = Without(@, x.on),
                                      !.uniques = Without(@, x.on), !.relations = Without(@, x.on)]
    [] OTHER -> [table EXCEPT !.columns = Altered(x)]

(* A statement is executed, or it is refused, or it fails by accident. *)
Executed(can)    == can /\ UNCHANGED faults
NotExecuted(can) == IF can THEN faults < MaxFaults /\ faults' = faults + 1 ELSE UNCHANGED faults

Goto(p)   == pc' = p /\ UNCHANGED result
Return(r) == pc' = "idle" /\ result' = r

NoPlan == [indexes |-> {}, uniques |-> {}, relations |-> {}]
AllKeys == [indexes |-> target.indexes, uniques |-> target.uniques, relations |-> target.relations]

-----------------------------------------------------------------------------
(* The table is missing, or it is as the old scheme says, its columns created
   with it or added to it by an update. *)
Init ==
  /\ server \in {"MySQL", "PostgreSQL"}
  /\ \E u \in Upgrades :
       /\ target = u[2]
       /\ \/ table = NoTable /\ recorded = 0
          \/ /\ recorded = 1
             /\ \E S \in SUBSET {c \in Columns : u[1].fields[c] # Absent} :
                  table = [columns   |-> [c \in Columns |-> IF c \in S THEN AddedColumn(u[1].fields[c])
                                                            ELSE CreatedColumns(u[1])[c]],
                           indexes   |-> u[1].indexes, uniques |-> u[1].uniques,
                           relations |-> Effective(u[1].relations, Storage(u[1])),
                           storage   |-> Storage(u[1])]
             /\ ~TooWide(table.columns)
  /\ pc = "idle" /\ creating = FALSE /\ commands = {} /\ plan = NoPlan
  /\ result = "none" /\ faults = 0
  /\ missed = {} /\ unnoticed = {} /\ misread = FALSE

(* getEntityVersion finds an old version or none: the table is created if it is
   not there, and updated if it is. *)
Start ==
  /\ pc = "idle" /\ recorded # 2
  /\ creating' = (table = NoTable)
  /\ Goto(IF table = NoTable THEN "create" ELSE "load")
  /\ UNCHANGED <<fixed, table, recorded, commands, plan, faults, history>>

(* The version could not be read: -1, so that a table of the latest version is
   updated again. *)
StartMisread ==
  /\ pc = "idle" /\ recorded = 2
  /\ faults < MaxFaults /\ faults' = faults + 1
  /\ misread' = TRUE
  /\ creating' = FALSE /\ Goto("load")
  /\ UNCHANGED <<fixed, table, recorded, commands, plan, missed, unnoticed>>

(* The process dies and is started again. *)
Crash ==
  /\ faults < MaxFaults /\ faults' = faults + 1
  /\ pc' = "idle" /\ result' = "none"
  /\ commands' = {} /\ plan' = NoPlan /\ creating' = FALSE
  /\ UNCHANGED <<fixed, table, recorded, history>>

(* createTable: CREATE TABLE, then its keys, unique sets first.  A row that is
   too wide with the other types, too, is not even tried. *)
Creatable == ~TooWide(CreatedColumns(target))

Create ==
  /\ pc = "create"
  /\ \/ /\ Executed(Creatable) /\ Goto("uniques")
        /\ table' = [columns |-> CreatedColumns(target), indexes |-> {}, uniques |-> {},
                     relations |-> {}, storage |-> ServerStorage]
        /\ plan' = AllKeys
     \/ NotExecuted(Creatable) /\ Return("error") /\ UNCHANGED <<table, plan>>
  /\ UNCHANGED <<fixed, recorded, creating, commands, history>>

(* History: the indexes an update drops and does not build again, because all of
   their columns have a default and are unchanged; the columns whose type
   differs and which it has no statement for. *)
Unchanged(c) == T(c) # Absent => F(c) # Absent /\ F(c).default # None /\ Loaded(T(c)) = F(c)
Forgotten ==
  IF StorageChanged THEN {}
  ELSE {k \in table.indexes \cap target.indexes : \A c \in KeyColumns[k] : Unchanged(c)}
Overlooked == {c \in Both : /\ ~RightType(c)
                            /\ Loaded(T(c)).default = F(c).default
                            /\ T(c).nullable = (F(c).empty = "yes")}

(* getActualScheme, whose five queries fail together, and the scripts that
   bring the table to the target.  A scheme that names no engine for a table
   that has another one than MyISAM makes databaseEngines.at throw. *)
Load ==
  /\ pc = "load"
  /\ LET can == server = "MySQL" => target.storage # "unset" \/ ~StorageChanged
     IN  \/ /\ Executed(can) /\ Goto("commands")
            /\ commands' = Commands
            /\ IF server = "MySQL"
               THEN /\ plan' = MySqlPlan
                    /\ missed' = missed \cup Forgotten
                    /\ unnoticed' = Overlooked
               ELSE plan' = NoPlan /\ UNCHANGED <<missed, unnoticed>>
         \/ /\ NotExecuted(can) /\ Return("error")
            /\ UNCHANGED <<commands, plan, missed, unnoticed>>
  /\ UNCHANGED <<fixed, table, recorded, creating, misread>>

(* A slip: a script that fails is passed over. *)
CommandSkipped(x) ==
  /\ pc = "commands" /\ x \in commands
  /\ \A y \in commands : ~Before(y, x)
  /\ \/ Executed(Executable(x)) /\ table' = Effect(x)
     \/ NotExecuted(Executable(x)) /\ UNCHANGED table
  /\ commands' = commands \ {x}
  /\ UNCHANGED <<fixed, recorded, pc, creating, plan, result, history>>

(* The next script. *)
Command(x) ==
  /\ pc = "commands" /\ x \in commands
  /\ \A y \in commands : ~Before(y, x)
  /\ \/ /\ Executed(Executable(x))
        /\ table' = Effect(x)
        /\ commands' = commands \ {x}
        /\ UNCHANGED <<pc, plan, result>>
     \/ /\ NotExecuted(Executable(x)) /\ Return("error")
        /\ commands' = {} /\ plan' = NoPlan /\ UNCHANGED table
  /\ UNCHANGED <<fixed, recorded, creating, history>>

CommandsDone ==
  /\ pc = "commands" /\ commands = {}
  /\ Goto(IF server = "MySQL" THEN "indexes" ELSE "record")
  /\ UNCHANGED <<fixed, table, recorded, creating, commands, plan, faults, history>>

-----------------------------------------------------------------------------
(* A slip: the updater gives up, too. *)
BuildFailsTheCall(p, left) == Return("error") /\ plan' = NoPlan /\ UNCHANGED missed

(* addUniqueConstraints, createIndexes and buildRelations execute a statement
   for each key until one fails.  createTable stops then; the updater goes on
   as if nothing had happened. *)
BuildFails(p, left) ==
  IF creating THEN Return("error") /\ plan' = NoPlan /\ UNCHANGED missed
  ELSE Goto(p) /\ plan' = [plan EXCEPT ![p] = {}] /\ missed' = missed \cup left

AddUnique(k) ==
  /\ pc = "uniques" /\ k \in plan.uniques
  /\ \/ /\ Executed(k \notin table.uniques) /\ Goto(pc)
        /\ table' = [table EXCEPT !.uniques = @ \cup {k}]
        /\ plan' = [plan EXCEPT !.uniques = @ \ {k}] /\ missed' = missed \ {k}
     \/ /\ NotExecuted(k \notin table.uniques) /\ UNCHANGED table
        /\ BuildFails("uniques", plan.uniques \ table.uniques)
  /\ UNCHANGED <<fixed, recorded, creating, commands, unnoticed, misread>>

CreateIndex(k) ==
  /\ pc = "indexes" /\ k \in plan.indexes
  /\ \/ /\ Executed(k \notin table.indexes) /\ Goto(pc)
        /\ table' = [table EXCEPT !.indexes = @ \cup {k}]
        /\ plan' = [plan EXCEPT !.indexes = @ \ {k}] /\ missed' = missed \ {k}
     \/ /\ NotExecuted(k \notin table.indexes) /\ UNCHANGED table
        /\ BuildFails("indexes", plan.indexes \ table.indexes)
  /\ UNCHANGED <<fixed, recorded, creating, commands, unnoticed, misread>>

(* A relation that is there already is refused, and ends the building of the others. *)
BuildRelation(k) ==
  /\ pc = "relations" /\ k \in plan.relations
  /\ \/ /\ Executed(k \notin table.relations) /\ Goto(pc)
        /\ table' = [table EXCEPT !.relations = @ \cup Effective({k}, table.storage)]
        /\ plan' = [plan EXCEPT !.relations = @ \ {k}] /\ missed' = missed \ {k}
     \/ /\ NotExecuted(k \notin table.relations) /\ UNCHANGED table
        /\ BuildFails("relations", plan.relations \ table.relations)
  /\ UNCHANGED <<fixed, recorded, creating, commands, unnoticed, misread>>

(* What follows the keys of one kind: createTable builds unique sets, indexes,
   the storage engine (MySQL) and relations; the updater indexes, unique sets
   and relations. *)
AfterKeys ==
  CASE pc = "uniques" -> IF creating THEN "indexes" ELSE "relations"
    [] pc = "indexes" -> IF ~creating THEN "uniques"
                         ELSE IF server = "MySQL" THEN "storage" ELSE "relations"
    [] OTHER          -> "record"

KeysDone ==
  /\ pc \in {"uniques", "indexes", "relations"} /\ plan[pc] = {}
  /\ Goto(AfterKeys)
  /\ UNCHANGED <<fixed, table, recorded, creating, commands, plan, faults, history>>

SetTableEngine ==
  /\ pc = "storage"
  /\ \/ /\ Executed(TRUE) /\ Goto("relations")
        /\ table' = [table EXCEPT !.storage = Storage(target)]
        /\ UNCHANGED plan
     \/ NotExecuted(TRUE) /\ Return("error") /\ plan' = NoPlan /\ UNCHANGED table
  /\ UNCHANGED <<fixed, recorded, creating, commands, history>>

(* upsertTableVersion. *)
Record ==
  /\ pc = "record"
  /\ \/ Executed(TRUE) /\ Return("ok") /\ recorded' = 2
     \/ NotExecuted(TRUE) /\ Return("error") /\ UNCHANGED recorded
  /\ UNCHANGED <<fixed, table, creating, commands, plan, history>>

-----------------------------------------------------------------------------
BuildKey == \E k \in Keys : AddUnique(k) \/ CreateIndex(k) \/ BuildRelation(k)

Step ==
  \/ Create \/ Load \/ CommandsDone \/ BuildKey \/ KeysDone \/ SetTableEngine \/ Record
  \/ \E x \in commands : Command(x)

(* The table is up to date and nothing is left to fail. *)
Rest == pc = "idle" /\ recorded = 2 /\ UNCHANGED vars

Next == Start \/ StartMisread \/ Step \/ Crash \/ Rest

Spec == Init /\ [][Next]_vars

(* A call goes on, and the server is started again however often it failed. *)
Fairness == WF_vars(Step) /\ WF_vars(Start)

FairSpec == Spec /\ Fairness

-----------------------------------------------------------------------------
(* The type invariant: columns are of the types the converters know, keys and
   scripts are of this table. *)
TypeOK ==
  /\ server \in {"MySQL", "PostgreSQL"}
  /\ target \in Scheme
  /\ table \in Table \cup {NoTable}
  /\ recorded \in 0..2
  /\ pc \in {"idle", "create", "load", "commands", "indexes", "uniques", "relations", "storage", "record"}
  /\ creating \in BOOLEAN
  /\ \A x \in commands : x.op \in {"add", "type", "default", "empty", "drop", "modify"} => x.on \in Columns
  /\ plan.indexes \subseteq Indexes /\ plan.uniques \subseteq Uniques /\ plan.relations \subseteq Relations
  /\ result \in {"none", "ok", "error"}
  /\ faults \in 0..MaxFaults
  /\ missed \subseteq Keys /\ unnoticed \subseteq Columns /\ misread \in BOOLEAN

(* An update cannot see some defaults, and PostgreSQL's does not write those of
   a boolean or a double. *)
RightDefault(c) ==
  \/ T(c).default = F(c).default
  \/ Unread(T(c))
  \/ server = "PostgreSQL" /\ F(c).default # None /\ F(c).type \in {"Double", "Boolean"}

(* createTable takes a field without "can be empty" for nullable, and
   addNewFieldToTable does not. *)
RightEmpty(c) == F(c).empty # "unset" => T(c).nullable = (F(c).empty = "yes")

(* The table has the columns of the scheme, with the exceptions of RightDefault
   and RightEmpty, and except for a column of MySQL whose type or length changed
   but neither its default nor whether it can be empty: updateColumnProperties
   makes no statement for it. *)
ColumnsRight ==
  \A c \in Columns :
    /\ T(c) = Absent <=> F(c) = Absent
    /\ F(c) # Absent =>
         RightDefault(c) /\ RightEmpty(c) /\ (RightType(c) \/ c \in unnoticed)

(* A table at the version of its scheme has the columns of the scheme,
   whichever way it came there and whatever failed on it: created, altered
   statement by statement, or altered anew after an accident. *)
ColumnsAsRecorded == recorded = 2 => ColumnsRight

(* A table of MySQL at the version of its scheme has the keys and the storage
   engine of the scheme, and no others, except the keys that were missed:
   indexes that existed before, of columns that all have a default and did not
   change (they are dropped and not built again), and keys whose building failed
   or that came after one that failed, the error being ignored.  Half-created
   tables are completed. *)
KeysAsRecorded ==
  server = "MySQL" /\ recorded = 2 /\ ~misread =>
    /\ table.storage = Storage(target)
    /\ table.indexes \subseteq target.indexes /\ target.indexes \ table.indexes \subseteq missed
    /\ table.uniques \subseteq target.uniques /\ target.uniques \ table.uniques \subseteq missed
    /\ table.relations \subseteq target.relations
    /\ Effective(target.relations, table.storage) \ table.relations \subseteq missed

(* Dead ends.  Of MySQL: a table whose engine is not MyISAM and whose scheme
   names none, an index a foreign key needs, which is to be dropped before the
   foreign key, and a statement that would make the row too wide, which
   createTable would have avoided by choosing other types; and a table that is
   too wide to be created.  Of PostgreSQL: a column whose type there is no
   assignment cast for, a text that becomes a number, say. *)
Nameless == table.storage # "MyISAM" /\ target.storage = "unset"
Pinned   == \E k \in table.indexes \cup table.uniques : Needed(k)
Wide     == \E x \in MySqlCommands : x.op \in {"add", "modify"} /\ ~Executable(x)
Uncast   == \E x \in PostgreSqlCommands : x.op = "type" /\ ~Executable(x)
Wedged   ==
  IF table = NoTable THEN ~Creatable
  ELSE IF server = "MySQL" THEN Nameless \/ Pinned \/ Wide ELSE Uncast

(* Started often enough, the server brings the table to its scheme, from
   whatever state failures and crashes left it in, unless that is a dead end or
   the values in its rows do not allow it. *)
Converges == <>[](recorded = 2 \/ Wedged)

Updates == INSTANCE TableUpdates WITH
  Tables    <- {"table"},
  structure <- [t \in {"table"} |-> IF table = NoTable THEN "none"
                                     ELSE IF ColumnsRight THEN "right" ELSE "wrong"],
  recorded  <- IF recorded = 2 THEN {"table"} ELSE {},
  doubted   <- IF misread THEN {"table"} ELSE {},
  call      <- IF pc = "idle" THEN result ELSE "working"

(* The statements that make up one update of one table, in both databases, are
   steps of TableUpdates, which Migration implements with columns that are
   single values: the version is recorded when they have all been executed, and
   none is executed on a table that is recorded, unless its version was read
   wrong. *)
ImplementsTableUpdates == Updates!Spec
=============================================================================
