--------------------------- MODULE SchemeUpdateProofs ---------------------------
(***************************************************************************)
(* Proofs about SchemeUpdate for any columns, keys and pairs of schemes,   *)
(* both servers, and any number of failures and crashes: a table at the    *)
(* version of its scheme has the columns and the keys of the scheme, up to *)
(* the exceptions the properties name, and the statements that bring it    *)
(* there are steps of TableUpdates.                                        *)
(*                                                                         *)
(* IInv is the inductive invariant.  Its core is what is to be said of a   *)
(* column, and of the keys of a kind, between two scripts: either it is as *)
(* the scheme says, or the script that makes it so is among those left.    *)
(***************************************************************************)
EXTENDS SchemeUpdate, TLAPS

-----------------------------------------------------------------------------
(* The inductive invariant. *)

Defaults  == Values \cup {Now, None}
ColumnOps == {"add", "drop", "modify", "type", "default", "empty"}
Kinds     == {"indexes", "uniques", "relations"}
Building  == Kinds \cup {"storage", "record"}

TargetInv ==
  /\ server \in {"MySQL", "PostgreSQL"}
  /\ target \in Scheme
  /\ \A c \in Columns : F(c) # Absent => F(c).type # "unknown"

(* What the scripts that are left can be, and what they can be about. *)
Scripts ==
  [op : ColumnOps, on : Columns] \cup [op : {"drop index"}, on : Indexes]
    \cup [op : {"drop unique"}, on : Uniques] \cup [op : {"drop relation"}, on : Relations]
    \cup [op : {"storage"}, on : {target.storage}]

Sensible(x) ==
  /\ x.op \in {"add", "modify", "type", "default", "empty"} => F(x.on) # Absent
  /\ x.op = "drop" => F(x.on) = Absent
  /\ x.op = "modify" => server = "MySQL"
  /\ x.op \in {"type", "default", "empty"} => server = "PostgreSQL" /\ T(x.on) # Absent
  /\ x.op = "storage" => target.storage # "unset"

ScriptsInv ==
  /\ commands \subseteq Scripts
  /\ \A x \in commands : Sensible(x)
  /\ commands # {} => pc = "commands"

PlanInv ==
  /\ plan \in [indexes : SUBSET Indexes, uniques : SUBSET Uniques, relations : SUBSET Relations]

(* A column of PostgreSQL is of a type that is read back as what it was made of. *)
PostgreSqlColumn(col) ==
  col.sql # "text" /\ IF col.sql = "varchar" THEN col.length > 0 ELSE col.length = 0

TableInv ==
  /\ table \in Table \cup {NoTable}
  /\ table = NoTable => recorded # 2 /\ pc \in {"idle", "create"}
  /\ server = "PostgreSQL" /\ table # NoTable =>
       \A c \in Columns : T(c) # Absent => PostgreSqlColumn(T(c))

ControlInv ==
  /\ recorded \in 0..2
  /\ pc \in {"idle", "create", "load", "commands"} \cup Building
  /\ creating \in BOOLEAN /\ result \in {"none", "ok", "error"} /\ faults \in 0..MaxFaults
  /\ missed \subseteq Keys /\ unnoticed \subseteq Columns /\ misread \in BOOLEAN
  /\ pc \in {"load", "commands"} => ~creating
  /\ pc = "create" => creating
  /\ recorded = 2 /\ ~misread => pc = "idle"

(* How a column fits a field: RightDefault, RightEmpty and RightType, of any
   column and field. *)
DefaultFits(col, f) ==
  \/ col.default = f.default
  \/ Unread(col)
  \/ server = "PostgreSQL" /\ f.default # None /\ f.type \in {"Double", "Boolean"}

EmptyFits(col, f) == f.empty # "unset" => col.nullable = (f.empty = "yes")

TypeFits(col, f) ==
  \/ col = Defined(f, col.default, col.nullable)
  \/ server = "MySQL" /\ col = Shrunk(Defined(f, col.default, col.nullable))

(* No statement is made for a column that fits otherwise. *)
Unseen(col, f) == LoadedDefault(col) = f.default /\ col.nullable = (f.empty = "yes")

Right(c, col, f) ==
  /\ DefaultFits(col, f) /\ EmptyFits(col, f)
  /\ TypeFits(col, f) \/ (c \in unnoticed /\ Unseen(col, f))

AsScheme(c, col, f) ==
  /\ col = Absent <=> f = Absent
  /\ f # Absent => Right(c, col, f)

Left(op, x) == [op |-> op, on |-> x] \in commands

(* Of a column while scripts are left. *)
Coming(c, col, f) ==
  /\ col # Absent /\ f = Absent => Left("drop", c)
  /\ col = Absent /\ f # Absent => Left("add", c)
  /\ col # Absent /\ f # Absent =>
       IF server = "MySQL" THEN Left("modify", c) \/ Right(c, col, f)
       ELSE /\ Left("type", c) \/ TypeFits(col, f)
            /\ Left("default", c) \/ DefaultFits(col, f)
            /\ Left("empty", c) \/ EmptyFits(col, f)

AllRight == \A c \in Columns : AsScheme(c, T(c), F(c))

ColumnsInv ==
  /\ recorded = 2 \/ pc \in Building => AllRight
  /\ pc = "commands" => \A c \in Columns : Coming(c, T(c), F(c))

(* The keys while scripts are left, in MySQL: those there are will be dropped,
   those that are wanted will be built. *)
KeysComing ==
  /\ \A i \in table.indexes : Left("drop index", i)
  /\ \A u \in table.uniques : Left("drop unique", u)
  /\ \A r \in table.relations : Left("drop relation", r) \/ r \in target.relations
  /\ table.storage = Storage(target) \/ Left("storage", target.storage)
  /\ plan.indexes \subseteq target.indexes /\ target.indexes \subseteq plan.indexes \cup missed
  /\ plan.uniques = target.uniques /\ plan.relations = target.relations

(* And while they are built. *)
KeysBuilt ==
  /\ table.indexes \subseteq target.indexes /\ plan.indexes \subseteq target.indexes
  /\ target.indexes \subseteq table.indexes \cup plan.indexes \cup missed
  /\ table.uniques \subseteq target.uniques /\ plan.uniques \subseteq target.uniques
  /\ target.uniques \subseteq table.uniques \cup plan.uniques \cup missed
  /\ table.relations \subseteq target.relations /\ plan.relations \subseteq target.relations
  /\ Effective(target.relations, table.storage) \subseteq table.relations \cup plan.relations \cup missed

(* The order of the kinds. *)
OrderInv ==
  /\ pc = "storage" => creating
  /\ pc = "indexes" /\ creating => plan.uniques = {}
  /\ pc = "uniques" /\ ~creating => plan.indexes = {}
  /\ pc \in {"storage", "relations", "record"} => plan.indexes = {} /\ plan.uniques = {}
  /\ pc = "record" => plan.relations = {}
  /\ creating /\ pc \in {"uniques", "indexes", "storage"} => plan.relations = target.relations
  /\ pc \in Building => table.storage = Storage(target) \/ (creating /\ pc \in {"uniques", "indexes", "storage"})

KeysRight ==
  /\ table.storage = Storage(target)
  /\ table.indexes \subseteq target.indexes /\ target.indexes \ table.indexes \subseteq missed
  /\ table.uniques \subseteq target.uniques /\ target.uniques \ table.uniques \subseteq missed
  /\ table.relations \subseteq target.relations
  /\ Effective(target.relations, table.storage) \ table.relations \subseteq missed

KeysInv ==
  server = "MySQL" =>
    /\ pc = "commands" => KeysComing
    /\ pc \in Building => KeysBuilt
    /\ OrderInv
    /\ recorded = 2 /\ ~misread => KeysRight

IInv ==
  /\ TargetInv /\ ScriptsInv /\ PlanInv /\ TableInv /\ ControlInv /\ ColumnsInv /\ KeysInv

-----------------------------------------------------------------------------
LEMMA ConstantsType ==
  /\ None \notin Nat /\ Absent \notin Field /\ Absent \notin Column /\ NoTable \notin Table
  /\ Indexes \cap Uniques = {} /\ Indexes \cap Relations = {} /\ Uniques \cap Relations = {}
  /\ ServerStorage \in {"MyISAM", "InnoDB"} /\ MaxFaults \in Nat
BY SchemeUpdateAssumption

LEMMA UpgradesType ==
  ASSUME NEW u \in Upgrades
  PROVE  /\ u[1] \in Scheme /\ u[2] \in Scheme
         /\ \A c \in Columns : u[1].fields[c] # Absent => u[1].fields[c].type # "unknown"
         /\ \A c \in Columns : u[2].fields[c] # Absent => u[2].fields[c].type # "unknown"
BY SchemeUpdateAssumption

(* The parts of a field, of a column, of a scheme and of a table. *)
LEMMA FieldType ==
  ASSUME NEW f \in Field
  PROVE  /\ f.type \in Types \cup {"unknown"} /\ f.length \in Nat \cup {None}
         /\ f.default \in Defaults /\ f.empty \in {"yes", "no", "unset"}
BY DEF Field, Defaults

LEMMA ColumnType ==
  ASSUME NEW col \in Column
  PROVE  /\ col = [sql |-> col.sql, length |-> col.length, default |-> col.default, nullable |-> col.nullable]
         /\ col.sql \in SqlTypes /\ col.length \in Nat /\ col.default \in Defaults
         /\ col.nullable \in BOOLEAN
BY DEF Column, Defaults

LEMMA SchemeType ==
  ASSUME NEW s \in Scheme
  PROVE  /\ s.fields \in [Columns -> Field \cup {Absent}]
         /\ s.indexes \subseteq Indexes /\ s.uniques \subseteq Uniques /\ s.relations \subseteq Relations
         /\ s.storage \in {"MyISAM", "InnoDB", "unset"} /\ Storage(s) \in {"MyISAM", "InnoDB"}
BY DEF Scheme, Storage

LEMMA TableType ==
  ASSUME NEW t \in Table
  PROVE  /\ t = [columns |-> t.columns, indexes |-> t.indexes, uniques |-> t.uniques,
                 relations |-> t.relations, storage |-> t.storage]
         /\ t.columns \in [Columns -> Column \cup {Absent}]
         /\ t.indexes \subseteq Indexes /\ t.uniques \subseteq Uniques /\ t.relations \subseteq Relations
         /\ t.storage \in {"MyISAM", "InnoDB"} /\ t # NoTable
BY ConstantsType DEF Table

(* What the types converters return. *)
LEMMA SizedIs ==
  ASSUME NEW l \in Nat \cup {None}
  PROVE  Sized(l) \in Nat /\ Sized(l) > 0 /\ (l \in Nat /\ l > 0 => Sized(l) = l)
BY ConstantsType DEF Sized, Given, DefaultLength

LEMMA MySqlTypeIs ==
  ASSUME NEW f \in Field
  PROVE  /\ MySqlType(f).sql \in SqlTypes /\ MySqlType(f).length \in Nat
         /\ f.type = "Double" => MySqlType(f).sql = "double"
<1>1. f.type \in Types \cup {"unknown"} BY FieldType
<1>2. Sized(f.length) \in Nat BY FieldType, SizedIs
<1> QED BY <1>1, <1>2 DEF MySqlType, SqlTypes, Types, BlobLimit

LEMMA PostgreSqlTypeIs ==
  ASSUME NEW f \in Field
  PROVE  /\ PostgreSqlType(f).sql \in SqlTypes /\ PostgreSqlType(f).length \in Nat
         /\ f.type # "unknown" => /\ PostgreSqlType(f).sql # "text"
                                  /\ PostgreSqlUnmapped(PostgreSqlType(f).sql) = f.type
         /\ PostgreSqlType(f).length = IF f.type = "String" THEN Sized(f.length) ELSE 0
         /\ PostgreSqlType(f).sql = "varchar" <=> f.type = "String"
<1>1. f.type \in Types \cup {"unknown"} BY FieldType
<1>2. Sized(f.length) \in Nat BY FieldType, SizedIs
<1> QED BY <1>1, <1>2 DEF PostgreSqlType, PostgreSqlUnmapped, SqlTypes, Types

LEMMA MappedIs ==
  ASSUME TargetInv, NEW f \in Field
  PROVE  Mapped(f).sql \in SqlTypes /\ Mapped(f).length \in Nat
BY MySqlTypeIs, PostgreSqlTypeIs DEF Mapped, TargetInv

LEMMA DefinedIs ==
  ASSUME TargetInv, NEW f \in Field, NEW d \in Defaults, NEW n \in BOOLEAN
  PROVE  /\ Defined(f, d, n) \in Column
         /\ Defined(f, d, n).sql = Mapped(f).sql /\ Defined(f, d, n).length = Mapped(f).length
         /\ Defined(f, d, n).default = d /\ Defined(f, d, n).nullable = n
         /\ server = "PostgreSQL" /\ f.type # "unknown" => PostgreSqlColumn(Defined(f, d, n))
<1>1. Mapped(f).sql \in SqlTypes /\ Mapped(f).length \in Nat BY MappedIs
<1>2. Defined(f, d, n) \in Column BY <1>1 DEF Defined, Column, Defaults
<1>3. /\ Defined(f, d, n).sql = Mapped(f).sql /\ Defined(f, d, n).length = Mapped(f).length
      /\ Defined(f, d, n).default = d /\ Defined(f, d, n).nullable = n
  BY DEF Defined
<1>4. server = "PostgreSQL" /\ f.type # "unknown" => PostgreSqlColumn(Defined(f, d, n))
  <2> SUFFICES ASSUME server = "PostgreSQL", f.type # "unknown" PROVE PostgreSqlColumn(Defined(f, d, n))
    OBVIOUS
  <2>1. Mapped(f) = PostgreSqlType(f) BY DEF Mapped
  <2>2. Sized(f.length) > 0 BY FieldType, SizedIs
  <2> QED BY <1>3, <2>1, <2>2, PostgreSqlTypeIs DEF PostgreSqlColumn
<1> QED BY <1>2, <1>3, <1>4

LEMMA ShrunkIs ==
  ASSUME NEW col \in Column
  PROVE  /\ Shrunk(col) \in Column
         /\ Shrunk(col).default = col.default /\ Shrunk(col).nullable = col.nullable
         /\ col.sql = "double" => Shrunk(col).sql = "double"
<1>1. col # Absent BY ConstantsType
<1>2. CASE col.sql = "varchar"
  <2>1. Shrunk(col) = [col EXCEPT !.sql = "text", !.length = BlobLimit] BY <1>1, <1>2 DEF Shrunk
  <2>2. Shrunk(col) = [sql |-> "text", length |-> BlobLimit, default |-> col.default,
                       nullable |-> col.nullable]
    BY <2>1 DEF Column
  <2> QED BY <1>2, <2>2, ColumnType DEF Column, SqlTypes, BlobLimit, Defaults
<1>3. CASE col.sql = "varbinary"
  <2>1. Shrunk(col) = [col EXCEPT !.sql = "blob", !.length = BlobLimit] BY <1>1, <1>3 DEF Shrunk
  <2>2. Shrunk(col) = [sql |-> "blob", length |-> BlobLimit, default |-> col.default,
                       nullable |-> col.nullable]
    BY <2>1 DEF Column
  <2> QED BY <1>3, <2>2, ColumnType DEF Column, SqlTypes, BlobLimit, Defaults
<1>4. CASE col.sql \notin {"varchar", "varbinary"}
  BY <1>1, <1>4 DEF Shrunk
<1> QED BY <1>2, <1>3, <1>4

-----------------------------------------------------------------------------
(* The columns the statements make fit their fields. *)
LEMMA WrittenFits ==
  ASSUME TargetInv, NEW f \in Field, NEW n \in BOOLEAN, NEW col, col = Defined(f, WrittenDefault(f), n)
  PROVE  /\ col \in Column /\ DefaultFits(col, f) /\ TypeFits(col, f) /\ col.nullable = n
         /\ server = "PostgreSQL" /\ f.type # "unknown" => PostgreSqlColumn(col)
<1>1. WrittenDefault(f) \in Defaults BY FieldType DEF WrittenDefault, Defaults
<1>2. /\ col \in Column /\ col.sql = Mapped(f).sql /\ col.default = WrittenDefault(f) /\ col.nullable = n
      /\ server = "PostgreSQL" /\ f.type # "unknown" => PostgreSqlColumn(col)
  BY <1>1, DefinedIs
<1>3. TypeFits(col, f) BY <1>2 DEF TypeFits
<1>4. f.type # "Double" => DefaultFits(col, f) BY <1>2 DEF DefaultFits, WrittenDefault
<1>5. f.type = "Double" /\ server = "MySQL" => DefaultFits(col, f)
  BY <1>2, MySqlTypeIs DEF DefaultFits, Unread, Mapped
<1>6. f.type = "Double" /\ server = "PostgreSQL" => DefaultFits(col, f)
  BY <1>2 DEF DefaultFits, WrittenDefault
<1> QED BY <1>2, <1>3, <1>4, <1>5, <1>6 DEF TargetInv

LEMMA AddedFits ==
  ASSUME TargetInv, NEW f \in Field, NEW col, col = AddedColumn(f)
  PROVE  /\ col \in Column /\ DefaultFits(col, f) /\ EmptyFits(col, f) /\ TypeFits(col, f)
         /\ server = "PostgreSQL" /\ f.type # "unknown" => PostgreSqlColumn(col)
<1>1. (f.empty = "yes") \in BOOLEAN OBVIOUS
<1>2. col = Defined(f, WrittenDefault(f), f.empty = "yes") BY DEF AddedColumn
<1> QED BY <1>1, <1>2, WrittenFits DEF EmptyFits

LEMMA CreatedFits ==
  ASSUME TargetInv, NEW f \in Field, NEW col, col = CreatedColumn(f)
  PROVE  /\ col \in Column /\ DefaultFits(col, f) /\ EmptyFits(col, f) /\ TypeFits(col, f)
         /\ server = "PostgreSQL" /\ f.type # "unknown" => PostgreSqlColumn(col)
<1>1. (f.empty # "no") \in BOOLEAN OBVIOUS
<1>2. col = Defined(f, WrittenDefault(f), f.empty # "no") BY DEF CreatedColumn
<1>3. col.nullable = (f.empty # "no") BY <1>1, <1>2, WrittenFits
<1>4. EmptyFits(col, f) BY <1>3, FieldType DEF EmptyFits
<1> QED BY <1>1, <1>2, <1>4, WrittenFits

LEMMA ShrunkFits ==
  ASSUME TargetInv, server = "MySQL", NEW f \in Field, NEW col, col = Shrunk(CreatedColumn(f))
  PROVE  col \in Column /\ DefaultFits(col, f) /\ EmptyFits(col, f) /\ TypeFits(col, f)
<1> DEFINE created == CreatedColumn(f)
<1>1. created \in Column /\ DefaultFits(created, f) /\ EmptyFits(created, f)
  BY CreatedFits
<1>2. created = Defined(f, created.default, created.nullable)
  <2> DEFINE n == f.empty # "no"
  <2>1. n \in BOOLEAN /\ WrittenDefault(f) \in Defaults
    BY FieldType DEF WrittenDefault, Defaults
  <2>2. created = Defined(f, WrittenDefault(f), n) BY DEF CreatedColumn
  <2> HIDE DEF n, created
  <2>3. created.default = WrittenDefault(f) /\ created.nullable = n
    BY <2>1, <2>2, DefinedIs
  <2> QED BY <2>2, <2>3
<1> HIDE DEF created
<1>3. col = Shrunk(created) BY DEF created
<1>4. /\ col \in Column /\ col.default = created.default /\ col.nullable = created.nullable
      /\ created.sql = "double" => col.sql = "double"
  BY <1>1, <1>3, ShrunkIs
<1>5. TypeFits(col, f) BY <1>2, <1>3, <1>4 DEF TypeFits
<1>6. DefaultFits(col, f) BY <1>1, <1>4 DEF DefaultFits, Unread
<1>7. EmptyFits(col, f) BY <1>1, <1>4 DEF EmptyFits
<1> QED BY <1>4, <1>5, <1>6, <1>7

LEMMA ModifiedFits ==
  ASSUME TargetInv, NEW f \in Field, NEW col, col = ModifiedColumn(f)
  PROVE  col \in Column /\ DefaultFits(col, f) /\ EmptyFits(col, f) /\ TypeFits(col, f)
<1>1. \A n : (n = "yes") \in BOOLEAN OBVIOUS
<1>2. col = Defined(f, f.default, f.empty = "yes") BY DEF ModifiedColumn
<1>3. col \in Column /\ col.default = f.default /\ col.nullable = (f.empty = "yes")
  <2>1. f.default \in Defaults /\ (f.empty = "yes") \in BOOLEAN BY <1>1, FieldType
  <2> DEFINE yes == f.empty = "yes"
  <2>2. yes \in BOOLEAN BY <2>1
  <2>3. col = Defined(f, f.default, yes) BY <1>2
  <2> HIDE DEF yes
  <2>4. col \in Column /\ col.default = f.default /\ col.nullable = yes
    BY <2>1, <2>2, <2>3, DefinedIs
  <2> QED BY <2>4 DEF yes
<1> QED BY <1>2, <1>3 DEF DefaultFits, EmptyFits, TypeFits

(* A table that is created. *)
LEMMA CreatedColumnsFit ==
  ASSUME TargetInv, NEW c \in Columns, NEW s \in Scheme, NEW col, col = CreatedColumns(s)[c]
  PROVE  /\ s.fields[c] = Absent => col = Absent
         /\ s.fields[c] # Absent => /\ col \in Column
                                    /\ DefaultFits(col, s.fields[c])
                                    /\ EmptyFits(col, s.fields[c])
                                    /\ TypeFits(col, s.fields[c])
                                    /\ server # "MySQL" => col = CreatedColumn(s.fields[c])
<1> DEFINE f == s.fields[c]
           columns == [d \in Columns |-> IF s.fields[d] = Absent THEN Absent ELSE CreatedColumn(s.fields[d])]
<1>1. f \in Field \cup {Absent} BY SchemeType
<1>2. columns[c] = IF f = Absent THEN Absent ELSE CreatedColumn(f) OBVIOUS
<1>3. \/ col = columns[c] \/ (server = "MySQL" /\ col = Shrunk(columns[c]))
  <2>1. CASE server = "MySQL" /\ RowWidth(columns) > MaxRow
    <3>1. CreatedColumns(s) = [d \in Columns |-> Shrunk(columns[d])] BY <2>1 DEF CreatedColumns
    <3> QED BY <2>1, <3>1
  <2>2. CASE ~(server = "MySQL" /\ RowWidth(columns) > MaxRow)
    BY <2>2 DEF CreatedColumns
  <2> QED BY <2>1, <2>2
<1> HIDE DEF columns
<1>4. CASE f = Absent BY <1>2, <1>3, <1>4 DEF Shrunk
<1>5. CASE f # Absent
  <2>1. f \in Field /\ columns[c] = CreatedColumn(f) BY <1>1, <1>2, <1>5
  <2>2. CASE col = columns[c] BY <1>5, <2>1, <2>2, CreatedFits
  <2>3. CASE server = "MySQL" /\ col = Shrunk(columns[c]) BY <1>5, <2>1, <2>3, ShrunkFits
  <2> QED BY <1>3, <2>2, <2>3
<1> QED BY <1>4, <1>5

(* What has no statement fits, or the difference is not seen. *)
LEMMA UntouchedFits ==
  ASSUME TargetInv, NEW col \in Column, NEW f \in Field,
         LoadedDefault(col) = f.default, (LoadedEmpty(col) = "yes") <=> (f.empty = "yes")
  PROVE  DefaultFits(col, f) /\ EmptyFits(col, f) /\ Unseen(col, f)
<1>1. DefaultFits(col, f) BY DEF LoadedDefault, DefaultFits
<1>2. col.nullable = (f.empty = "yes")
  BY ColumnType DEF LoadedEmpty
<1> QED BY <1>1, <1>2 DEF EmptyFits, Unseen

LEMMA SameTypeFits ==
  ASSUME TargetInv, server = "PostgreSQL", NEW col \in Column, PostgreSqlColumn(col),
         NEW f \in Field, f.type # "unknown",
         PostgreSqlField(col).type = f.type, PostgreSqlField(col).length = f.length
  PROVE  TypeFits(col, f)
<1>1. PostgreSqlUnmapped(col.sql) = f.type BY DEF PostgreSqlField
<1>2. (IF f.type = "String" THEN col.length ELSE None) = f.length BY <1>1 DEF PostgreSqlField
<1>3. Mapped(f) = PostgreSqlType(f) BY DEF Mapped
<1>4. PostgreSqlType(f).sql = col.sql
  <2>1. col.sql \in SqlTypes \ {"text"} BY ColumnType DEF PostgreSqlColumn
  <2>2. f.type \in Types BY FieldType
  <2> QED BY <1>1, <2>1, <2>2 DEF PostgreSqlType, PostgreSqlUnmapped, SqlTypes, Types
<1>5. PostgreSqlType(f).length = col.length
  <2>1. CASE f.type = "String"
    BY <1>2, <1>4, <2>1, ColumnType, SizedIs, PostgreSqlTypeIs DEF PostgreSqlColumn
  <2>2. CASE f.type # "String"
    BY <1>4, <2>2, PostgreSqlTypeIs DEF PostgreSqlColumn
  <2> QED BY <2>1, <2>2
<1> QED BY <1>3, <1>4, <1>5, ColumnType DEF TypeFits, Defined

-----------------------------------------------------------------------------
(* What is said of a column depends on nothing but the server and, if its type
   may differ, on what was seen. *)
LEMMA FitsStay ==
  ASSUME UNCHANGED server, NEW col, NEW f
  PROVE  /\ DefaultFits(col, f)' <=> DefaultFits(col, f)
         /\ EmptyFits(col, f)' <=> EmptyFits(col, f)
         /\ TypeFits(col, f)' <=> TypeFits(col, f)
         /\ Unseen(col, f)' <=> Unseen(col, f)
<1>1. Unread(col)' <=> Unread(col) BY DEF Unread
<1>2. DefaultFits(col, f)' <=> DefaultFits(col, f) BY <1>1 DEF DefaultFits
<1>3. Mapped(f)' = Mapped(f) BY DEF Mapped
<1>4. Defined(f, col.default, col.nullable)' = Defined(f, col.default, col.nullable)
  BY <1>3 DEF Defined
<1>5. TypeFits(col, f)' <=> TypeFits(col, f) BY <1>4 DEF TypeFits
<1>6. LoadedDefault(col)' = LoadedDefault(col) BY <1>1 DEF LoadedDefault
<1> QED BY <1>2, <1>5, <1>6 DEF EmptyFits, Unseen

LEMMA RightStays ==
  ASSUME UNCHANGED <<server, unnoticed>>, NEW c, NEW col, NEW f
  PROVE  /\ Right(c, col, f)' <=> Right(c, col, f)
         /\ AsScheme(c, col, f)' <=> AsScheme(c, col, f)
BY FitsStay DEF Right, AsScheme

LEMMA AllRightStays ==
  ASSUME UNCHANGED <<server, target, unnoticed>>, table'.columns = table.columns, AllRight
  PROVE  AllRight'
<1> SUFFICES ASSUME NEW c \in Columns PROVE AsScheme(c, T(c), F(c))'
  BY DEF AllRight
<1>1. T(c)' = T(c) /\ F(c)' = F(c) BY DEF T, F
<1>2. AsScheme(c, T(c), F(c)) BY DEF AllRight
<1> QED BY <1>1, <1>2, RightStays DEF AsScheme, Right

LEMMA TargetStays == ASSUME IInv, UNCHANGED fixed PROVE TargetInv'
BY DEF IInv, TargetInv, F, fixed

LEMMA NoScripts ==
  ASSUME IInv, pc # "commands" PROVE commands = {}
BY DEF IInv, ScriptsInv

LEMMA EmptyScripts == ASSUME commands' = {} PROVE ScriptsInv'
BY DEF ScriptsInv

LEMMA NoPlanTyped == ASSUME plan' = NoPlan PROVE PlanInv'
BY DEF PlanInv, NoPlan

LEMMA TableStays ==
  ASSUME IInv, UNCHANGED <<fixed, table>>, table = NoTable => recorded' # 2 /\ pc' \in {"idle", "create"}
  PROVE  TableInv'
BY DEF IInv, TableInv, T, fixed

LEMMA KeysRightStay ==
  ASSUME KeysRight, UNCHANGED <<fixed, table, missed>> PROVE KeysRight'
BY DEF KeysRight, Effective, fixed

(* A call ends, or begins, and changes nothing. *)
LEMMA Halts ==
  ASSUME IInv, UNCHANGED <<fixed, table, recorded, missed, unnoticed>>,
         pc' \in {"idle", "load", "create"}, commands' = {}, misread => misread',
         table = NoTable => pc' # "load"
  PROVE  TargetInv' /\ ScriptsInv' /\ TableInv' /\ ColumnsInv' /\ KeysInv'
<1>1. TargetInv' BY TargetStays
<1>2. ScriptsInv' BY EmptyScripts
<1>3. TableInv' BY TableStays DEF IInv, TableInv
<1>4. ColumnsInv'
  <2>1. recorded' = 2 => AllRight' BY AllRightStays DEF IInv, ColumnsInv, fixed
  <2> QED BY <2>1 DEF ColumnsInv, Building, Kinds
<1>5. KeysInv'
  <2>1. recorded' = 2 /\ ~misread' /\ server' = "MySQL" => KeysRight'
    BY KeysRightStay DEF IInv, KeysInv, fixed
  <2>2. OrderInv' BY DEF OrderInv, Building, Kinds
  <2> QED BY <2>1, <2>2 DEF KeysInv, Building, Kinds
<1> QED BY <1>1, <1>2, <1>3, <1>4, <1>5

LEMMA StartKeeps == ASSUME IInv, Start PROVE IInv'
<1>1. commands' = {} BY NoScripts DEF Start
<1>2. TargetInv' /\ ScriptsInv' /\ TableInv' /\ ColumnsInv' /\ KeysInv'
  <2>1. pc' \in {"load", "create"} /\ (table = NoTable => pc' # "load") BY DEF Start, Goto
  <2> QED BY <1>1, <2>1, Halts DEF Start, history
<1>3. PlanInv' BY DEF Start, IInv, PlanInv
<1>4. ControlInv' BY DEF Start, Goto, history, IInv, ControlInv
<1> QED BY <1>2, <1>3, <1>4 DEF IInv

LEMMA FaultsType == ASSUME IInv, NEW can, NotExecuted(can) \/ Executed(can) PROVE faults' \in 0..MaxFaults
BY ConstantsType DEF NotExecuted, Executed, IInv, ControlInv

LEMMA AccidentType ==
  ASSUME IInv, faults < MaxFaults, faults' = faults + 1 PROVE faults' \in 0..MaxFaults
BY ConstantsType DEF IInv, ControlInv

LEMMA StartMisreadKeeps == ASSUME IInv, StartMisread PROVE IInv'
<1>1. commands' = {} BY NoScripts DEF StartMisread
<1>2. TargetInv' /\ ScriptsInv' /\ TableInv' /\ ColumnsInv' /\ KeysInv'
  <2>1. pc' = "load" /\ table # NoTable BY DEF StartMisread, Goto, IInv, TableInv
  <2> QED BY <1>1, <2>1, Halts DEF StartMisread
<1>3. PlanInv' BY DEF StartMisread, IInv, PlanInv
<1>4. faults' \in 0..MaxFaults BY AccidentType DEF StartMisread
<1>5. ControlInv' BY <1>4 DEF StartMisread, Goto, IInv, ControlInv
<1> QED BY <1>2, <1>3, <1>5 DEF IInv

LEMMA CrashKeeps == ASSUME IInv, Crash PROVE IInv'
<1>1. TargetInv' /\ ScriptsInv' /\ TableInv' /\ ColumnsInv' /\ KeysInv'
  BY Halts DEF Crash, history
<1>2. PlanInv' BY NoPlanTyped DEF Crash
<1>3. faults' \in 0..MaxFaults BY AccidentType DEF Crash
<1>4. ControlInv' BY <1>3 DEF Crash, history, IInv, ControlInv
<1> QED BY <1>1, <1>2, <1>4 DEF IInv

(* A statement fails and ends the call. *)
LEMMA FailureKeeps ==
  ASSUME IInv, UNCHANGED <<fixed, table, recorded, creating, missed, unnoticed, misread>>,
         Return("error"), commands' = {}, PlanInv', faults' \in 0..MaxFaults
  PROVE  IInv'
<1>1. TargetInv' /\ ScriptsInv' /\ TableInv' /\ ColumnsInv' /\ KeysInv'
  BY Halts DEF Return
<1>2. ControlInv' BY DEF Return, IInv, ControlInv
<1> QED BY <1>1, <1>2 DEF IInv

LEMMA StutterKeeps == ASSUME IInv, UNCHANGED vars PROVE IInv'
<1> USE DEF vars, fixed, history
<1>1. TargetInv' /\ PlanInv' /\ ControlInv'
  BY TargetStays DEF IInv, PlanInv, ControlInv
<1>2. ScriptsInv' BY DEF IInv, ScriptsInv, Scripts, Sensible, F, T
<1>3. TableInv' BY TableStays DEF IInv, TableInv
<1>4. ColumnsInv'
  <2>1. AllRight => AllRight' BY AllRightStays
  <2>2. pc' = "commands" => \A c \in Columns : Coming(c, T(c), F(c))'
    <3> SUFFICES ASSUME pc = "commands", NEW c \in Columns PROVE Coming(c, T(c), F(c))'
      OBVIOUS
    <3>1. Coming(c, T(c), F(c)) BY DEF IInv, ColumnsInv
    <3>2. T(c)' = T(c) /\ F(c)' = F(c) BY DEF T, F
    <3> QED BY <3>1, <3>2, FitsStay, RightStays DEF Coming, Left
  <2> QED BY <2>1, <2>2 DEF IInv, ColumnsInv
<1>5. KeysInv'
  <2>1. KeysComing => KeysComing' BY DEF KeysComing, Left, Storage
  <2>2. KeysBuilt => KeysBuilt' BY DEF KeysBuilt, Effective
  <2>3. OrderInv => OrderInv' BY DEF OrderInv, Storage
  <2>4. KeysRight => KeysRight' BY KeysRightStay
  <2> QED BY <2>1, <2>2, <2>3, <2>4 DEF IInv, KeysInv
<1> QED BY <1>1, <1>2, <1>3, <1>4, <1>5 DEF IInv

-----------------------------------------------------------------------------
(* The types of created tables, of any scheme. *)
LEMMA CreatedColumnsType ==
  ASSUME TargetInv, NEW s \in Scheme, \A c \in Columns : s.fields[c] # Absent => s.fields[c].type # "unknown"
  PROVE  /\ CreatedColumns(s) \in [Columns -> Column \cup {Absent}]
         /\ server = "PostgreSQL" => \A c \in Columns : CreatedColumns(s)[c] # Absent =>
                                       PostgreSqlColumn(CreatedColumns(s)[c])
<1>1. \A c \in Columns : s.fields[c] \in Field \cup {Absent} BY SchemeType
<1>2. \A c \in Columns : CreatedColumns(s)[c] \in Column \cup {Absent} BY <1>1, CreatedColumnsFit
<1>3. CreatedColumns(s) = [c \in Columns |-> CreatedColumns(s)[c]]
  <2> DEFINE columns == [d \in Columns |-> IF s.fields[d] = Absent THEN Absent ELSE CreatedColumn(s.fields[d])]
  <2>1. CreatedColumns(s) = columns \/ CreatedColumns(s) = [d \in Columns |-> Shrunk(columns[d])]
    BY DEF CreatedColumns
  <2> QED BY <2>1
<1>4. ASSUME server = "PostgreSQL", NEW c \in Columns, CreatedColumns(s)[c] # Absent
      PROVE  PostgreSqlColumn(CreatedColumns(s)[c])
  <2>1. s.fields[c] # Absent BY <1>4, CreatedColumnsFit
  <2>2. CreatedColumns(s)[c] = CreatedColumn(s.fields[c]) BY <1>4, <2>1, CreatedColumnsFit
  <2> QED BY <1>1, <1>4, <2>1, <2>2, CreatedFits
<1> QED BY <1>2, <1>3, <1>4

LEMMA TargetFacts ==
  ASSUME IInv
  PROVE  /\ \A c \in Columns : F(c) \in Field \cup {Absent}
         /\ \A c \in Columns : F(c) # Absent => F(c) \in Field /\ F(c).type # "unknown"
         /\ target.indexes \subseteq Indexes /\ target.uniques \subseteq Uniques
         /\ target.relations \subseteq Relations /\ Storage(target) \in {"MyISAM", "InnoDB"}
BY SchemeType DEF IInv, TargetInv, F

LEMMA CreateKeeps == ASSUME IInv, Create PROVE IInv'
<1> USE DEF fixed, history
<1>1. faults' \in 0..MaxFaults BY FaultsType DEF Create
<1>2. commands' = {} BY NoScripts DEF Create
<1>3. CASE Executed(Creatable) /\ Goto("uniques") /\ plan' = AllKeys
           /\ table' = [columns |-> CreatedColumns(target), indexes |-> {}, uniques |-> {},
                        relations |-> {}, storage |-> ServerStorage]
  <2>1. TargetInv' BY TargetStays DEF Create
  <2>2. ScriptsInv' BY <1>2, EmptyScripts
  <2>3. PlanInv' BY <1>3, TargetFacts DEF PlanInv, AllKeys
  <2>4. target \in Scheme /\ \A c \in Columns : target.fields[c] # Absent => target.fields[c].type # "unknown"
    BY DEF IInv, TargetInv, F
  <2>5. TableInv'
    <3>1. table' \in Table
      BY <1>3, <2>4, CreatedColumnsType, ConstantsType DEF Table, IInv
    <3>2. \A c \in Columns : T(c)' = CreatedColumns(target)[c] BY <1>3 DEF T
    <3> QED BY <2>4, <3>1, <3>2, ConstantsType, CreatedColumnsType
            DEF TableInv, PostgreSqlColumn, IInv, Create
  <2>6. ControlInv'
    BY <1>1, <1>3 DEF Create, Goto, IInv, ControlInv, Building, Kinds
  <2>7. ColumnsInv'
    <3>1. ASSUME NEW c \in Columns PROVE AsScheme(c, T(c), F(c))'
      <4>1. T(c)' = CreatedColumns(target)[c] /\ F(c)' = F(c) /\ F(c) = target.fields[c]
        BY <1>3 DEF T, F, Create
      <4>2. F(c) = Absent => CreatedColumns(target)[c] = Absent
        BY <2>4, <4>1, CreatedColumnsFit DEF IInv
      <4>3. F(c) # Absent => /\ CreatedColumns(target)[c] \in Column
                             /\ Right(c, CreatedColumns(target)[c], F(c))
        BY <2>4, <4>1, CreatedColumnsFit DEF IInv, Right
      <4>4. AsScheme(c, CreatedColumns(target)[c], F(c)) BY <4>2, <4>3, ConstantsType DEF AsScheme
      <4> QED BY <4>1, <4>4, RightStays DEF AsScheme, Right, Create
    <3> QED BY <1>3, <3>1 DEF ColumnsInv, AllRight, Goto
  <2>8. KeysInv'
    <3>1. creating' /\ pc' = "uniques" BY <1>3 DEF Create, Goto, IInv, ControlInv
    <3>2. KeysBuilt' BY <1>3 DEF KeysBuilt, AllKeys, Effective, Create
    <3>3. OrderInv' BY <1>3, <3>1 DEF OrderInv, AllKeys, Create
    <3>4. ~(recorded' = 2 /\ ~misread') BY DEF Create, IInv, ControlInv
    <3> QED BY <3>1, <3>2, <3>3, <3>4 DEF KeysInv
  <2> QED BY <2>1, <2>2, <2>3, <2>5, <2>6, <2>7, <2>8 DEF IInv
<1>4. CASE NotExecuted(Creatable) /\ Return("error") /\ UNCHANGED <<table, plan>>
  <2>1. PlanInv' BY <1>4 DEF IInv, PlanInv
  <2> QED BY <1>1, <1>2, <1>4, <2>1, FailureKeeps DEF Create
<1> QED BY <1>3, <1>4 DEF Create

(* All scripts have been executed. *)
LEMMA CommandsDoneKeeps == ASSUME IInv, CommandsDone PROVE IInv'
<1> USE DEF fixed, history
<1>1. pc = "commands" /\ commands = {} /\ commands' = {} /\ ~creating' BY DEF CommandsDone, IInv, ControlInv
<1>2. pc' = IF server = "MySQL" THEN "indexes" ELSE "record" BY DEF CommandsDone, Goto
<1>3. TargetInv' /\ ScriptsInv' /\ PlanInv'
  BY <1>1, TargetStays, EmptyScripts DEF CommandsDone, IInv, PlanInv
<1>4. table # NoTable BY <1>1 DEF IInv, TableInv
<1>5. TableInv' BY <1>4, TableStays DEF CommandsDone
<1>6. ControlInv' BY <1>1, <1>2 DEF CommandsDone, Goto, IInv, ControlInv, Building, Kinds
<1>7. ColumnsInv'
  <2>1. ASSUME NEW c \in Columns PROVE AsScheme(c, T(c), F(c))
    <3>1. Coming(c, T(c), F(c)) BY <1>1 DEF IInv, ColumnsInv
    <3> QED BY <1>1, <3>1 DEF Coming, AsScheme, Left, Right
  <2>2. AllRight' BY <2>1, AllRightStays DEF CommandsDone, AllRight
  <2> QED BY <1>2, <2>2 DEF ColumnsInv
<1>8. KeysInv'
  <2> SUFFICES ASSUME server = "MySQL" PROVE KeysInv'
    BY DEF KeysInv, CommandsDone
  <2>1. KeysComing BY <1>1 DEF IInv, KeysInv
  <2>2. table.indexes = {} /\ table.uniques = {} /\ table.relations \subseteq target.relations
        /\ table.storage = Storage(target)
    BY <1>1, <2>1 DEF KeysComing, Left
  <2>3. KeysBuilt'
    BY <2>1, <2>2 DEF KeysBuilt, KeysComing, Effective, CommandsDone
  <2>4. OrderInv' BY <1>1, <1>2, <2>2 DEF OrderInv, Storage, CommandsDone
  <2>5. ~(recorded' = 2 /\ ~misread') BY <1>1 DEF CommandsDone, IInv, ControlInv
  <2> QED BY <1>2, <2>3, <2>4, <2>5 DEF KeysInv
<1> QED BY <1>3, <1>5, <1>6, <1>7, <1>8 DEF IInv

-----------------------------------------------------------------------------
(* While the keys are built, the columns stay as they are. *)
LEMMA BuildingKeeps ==
  ASSUME IInv, pc \in Building, pc' \in Building,
         UNCHANGED <<fixed, recorded, creating, commands, unnoticed, misread, result>>,
         table' \in Table, table'.columns = table.columns, missed' \subseteq Keys,
         faults' \in 0..MaxFaults
  PROVE  /\ TargetInv' /\ ScriptsInv' /\ TableInv' /\ ControlInv' /\ ColumnsInv'
         /\ ~(recorded' = 2 /\ ~misread')
<1> USE DEF fixed
<1>1. commands' = {} BY NoScripts DEF Building, Kinds
<1>2. TargetInv' /\ ScriptsInv' BY <1>1, TargetStays, EmptyScripts
<1>3. ~(recorded' = 2 /\ ~misread') BY DEF IInv, ControlInv, Building, Kinds
<1>4. table # NoTable BY DEF IInv, TableInv, Building, Kinds
<1>5. TableInv'
  <2>1. \A c \in Columns : T(c)' = T(c) BY DEF T
  <2> QED BY <1>4, <2>1, ConstantsType DEF IInv, TableInv, PostgreSqlColumn
<1>6. ControlInv' BY <1>3 DEF IInv, ControlInv, Building, Kinds
<1>7. ColumnsInv'
  <2>1. AllRight' BY AllRightStays DEF IInv, ColumnsInv
  <2> QED BY <2>1 DEF ColumnsInv, Building, Kinds
<1> QED BY <1>2, <1>3, <1>5, <1>6, <1>7

LEMMA TableThere == ASSUME IInv, pc \in Building PROVE table \in Table
BY DEF IInv, TableInv, Building, Kinds

LEMMA KeysDoneKeeps == ASSUME IInv, KeysDone PROVE IInv'
<1> USE DEF fixed, history
<1>1. pc \in Kinds /\ plan[pc] = {} /\ pc' = AfterKeys /\ result' = result
  BY DEF KeysDone, Goto, Kinds
<1>2. AfterKeys \in Building BY DEF AfterKeys, Building, Kinds
<1>3. pc \in Building BY <1>1 DEF Building
<1>4. missed' \subseteq Keys /\ faults' \in 0..MaxFaults BY DEF KeysDone, IInv, ControlInv
<1>5. table' \in Table /\ table' = table BY <1>3, TableThere DEF KeysDone
<1>6. /\ TargetInv' /\ ScriptsInv' /\ TableInv' /\ ControlInv' /\ ColumnsInv'
      /\ ~(recorded' = 2 /\ ~misread')
  BY <1>1, <1>2, <1>3, <1>4, <1>5, BuildingKeeps DEF KeysDone
<1>7. PlanInv' BY DEF KeysDone, IInv, PlanInv
<1>8. KeysInv'
  <2> SUFFICES ASSUME server = "MySQL" PROVE KeysInv'
    BY DEF KeysInv, KeysDone
  <2>1. KeysBuilt' BY <1>3 DEF IInv, KeysInv, KeysBuilt, Effective, KeysDone
  <2>2. OrderInv /\ creating \in BOOLEAN BY DEF IInv, KeysInv, ControlInv
  <2>3. UNCHANGED <<table, plan, target, creating>> BY DEF KeysDone
  <2>4. Storage(target)' = Storage(target) BY <2>3 DEF Storage
  <2>5. CASE pc = "uniques"
    <3>1. pc' = IF creating THEN "indexes" ELSE "relations" BY <1>1, <2>5 DEF AfterKeys
    <3> QED BY <1>1, <1>6, <2>1, <2>2, <2>3, <2>4, <2>5, <3>1 DEF KeysInv, OrderInv, Building, Kinds
  <2>6. CASE pc = "indexes"
    <3>1. pc' = IF ~creating THEN "uniques" ELSE "storage" BY <1>1, <2>6 DEF AfterKeys
    <3> QED BY <1>1, <1>6, <2>1, <2>2, <2>3, <2>4, <2>6, <3>1 DEF KeysInv, OrderInv, Building, Kinds
  <2>7. CASE pc = "relations"
    <3>1. pc' = "record" BY <1>1, <2>7 DEF AfterKeys
    <3> QED BY <1>1, <1>6, <2>1, <2>2, <2>3, <2>4, <2>7, <3>1 DEF KeysInv, OrderInv, Building, Kinds
  <2> QED BY <1>1, <2>5, <2>6, <2>7 DEF Kinds
<1> QED BY <1>6, <1>7, <1>8 DEF IInv

LEMMA SetTableEngineKeeps == ASSUME IInv, SetTableEngine PROVE IInv'
<1> USE DEF fixed, history
<1>1. pc = "storage" /\ faults' \in 0..MaxFaults BY FaultsType DEF SetTableEngine
<1>2. pc \in Building BY <1>1 DEF Building
<1>3. CASE Executed(TRUE) /\ Goto("relations") /\ table' = [table EXCEPT !.storage = Storage(target)] /\ UNCHANGED plan
  <2>1. table \in Table BY <1>2, TableThere
  <2>2. /\ table' \in Table /\ table'.columns = table.columns /\ table'.storage = Storage(target)
        /\ table'.indexes = table.indexes /\ table'.uniques = table.uniques
        /\ table'.relations = table.relations
    BY <1>3, <2>1, TargetFacts DEF Table
  <2>3. pc' \in Building BY <1>3 DEF Goto, Building, Kinds
  <2>4. missed' \subseteq Keys BY DEF SetTableEngine, IInv, ControlInv
  <2>5. /\ TargetInv' /\ ScriptsInv' /\ TableInv' /\ ControlInv' /\ ColumnsInv'
        /\ ~(recorded' = 2 /\ ~misread')
    BY <1>1, <1>2, <1>3, <2>2, <2>3, <2>4, BuildingKeeps DEF SetTableEngine, Goto
  <2>6. PlanInv' BY <1>3 DEF IInv, PlanInv
  <2>7. KeysInv'
    <3> SUFFICES ASSUME server = "MySQL" PROVE KeysInv'
      BY DEF KeysInv, SetTableEngine
    <3>1. KeysBuilt /\ OrderInv BY <1>2 DEF IInv, KeysInv
    <3>2. plan.relations = target.relations BY <1>1, <3>1 DEF OrderInv
    <3>3. KeysBuilt'
      BY <1>3, <2>2, <3>1, <3>2 DEF KeysBuilt, Effective, SetTableEngine
    <3>4. OrderInv'
      BY <1>1, <1>3, <2>2, <3>1 DEF OrderInv, Goto, Storage, SetTableEngine
    <3> QED BY <1>3, <2>5, <3>3, <3>4 DEF KeysInv, Goto
  <2> QED BY <2>5, <2>6, <2>7 DEF IInv
<1>4. CASE NotExecuted(TRUE) /\ Return("error") /\ plan' = NoPlan /\ UNCHANGED table
  <2>1. commands' = {} BY <1>1, NoScripts DEF SetTableEngine
  <2> QED BY <1>1, <1>4, <2>1, NoPlanTyped, FailureKeeps DEF SetTableEngine
<1> QED BY <1>3, <1>4 DEF SetTableEngine

LEMMA RecordKeeps == ASSUME IInv, Record PROVE IInv'
<1> USE DEF fixed, history
<1>1. pc = "record" /\ faults' \in 0..MaxFaults BY FaultsType DEF Record
<1>2. pc \in Building BY <1>1 DEF Building
<1>3. commands' = {} BY <1>1, NoScripts DEF Record
<1>4. PlanInv' BY DEF Record, IInv, PlanInv
<1>5. CASE Executed(TRUE) /\ Return("ok") /\ recorded' = 2
  <2>1. TargetInv' /\ ScriptsInv' BY <1>3, TargetStays, EmptyScripts DEF Record
  <2>2. table \in Table /\ table # NoTable BY <1>2, TableThere, ConstantsType
  <2>3. TableInv' BY <2>2, TableStays DEF Record
  <2>4. ControlInv' BY <1>1, <1>5 DEF Record, Return, IInv, ControlInv
  <2>5. ColumnsInv'
    <3>1. AllRight' BY <1>2, AllRightStays DEF Record, IInv, ColumnsInv
    <3> QED BY <1>5, <3>1 DEF ColumnsInv, Return
  <2>6. KeysInv'
    <3> SUFFICES ASSUME server = "MySQL" PROVE KeysInv'
      BY DEF KeysInv, Record
    <3>1. KeysBuilt /\ OrderInv BY <1>2 DEF IInv, KeysInv
    <3>2. KeysRight BY <1>1, <1>2, <3>1 DEF KeysBuilt, OrderInv, KeysRight
    <3>3. KeysRight' BY <3>2, KeysRightStay DEF Record
    <3>4. OrderInv' BY <1>5 DEF OrderInv, Return, Building, Kinds
    <3> QED BY <1>5, <3>3, <3>4 DEF KeysInv, Return, Building, Kinds
  <2> QED BY <1>4, <2>1, <2>3, <2>4, <2>5, <2>6 DEF IInv
<1>6. CASE NotExecuted(TRUE) /\ Return("error") /\ UNCHANGED recorded
  BY <1>1, <1>3, <1>4, <1>6, FailureKeeps DEF Record
<1> QED BY <1>5, <1>6 DEF Record

-----------------------------------------------------------------------------
(* The keys of each kind. *)
LEMMA AddUniqueKeeps == ASSUME IInv, NEW k \in Keys, AddUnique(k) PROVE IInv'
<1> USE DEF fixed, history
<1>1. pc = "uniques" /\ k \in plan.uniques /\ faults' \in 0..MaxFaults BY FaultsType DEF AddUnique
<1>2. pc \in Building BY <1>1 DEF Building, Kinds
<1>3. commands' = {} BY <1>1, NoScripts DEF AddUnique
<1>4. table \in Table /\ k \in Uniques BY <1>1, <1>2, TableThere DEF IInv, PlanInv
<1>5. CASE /\ Executed(k \notin table.uniques) /\ Goto(pc)
           /\ table' = [table EXCEPT !.uniques = @ \cup {k}]
           /\ plan' = [plan EXCEPT !.uniques = @ \ {k}] /\ missed' = missed \ {k}
  <2>1. /\ table' \in Table /\ table'.columns = table.columns /\ table'.storage = table.storage
        /\ table'.uniques = table.uniques \cup {k}
        /\ table'.indexes = table.indexes /\ table'.relations = table.relations
    BY <1>4, <1>5 DEF Table
  <2>2. /\ plan' \in [indexes : SUBSET Indexes, uniques : SUBSET Uniques, relations : SUBSET Relations]
        /\ plan'.uniques = plan.uniques \ {k}
        /\ plan'.indexes = plan.indexes /\ plan'.relations = plan.relations
    BY <1>5 DEF IInv, PlanInv
  <2>3. missed' \subseteq Keys BY <1>5 DEF IInv, ControlInv
  <2>4. pc' = pc BY <1>5 DEF Goto
  <2>5. /\ TargetInv' /\ ScriptsInv' /\ TableInv' /\ ControlInv' /\ ColumnsInv'
        /\ ~(recorded' = 2 /\ ~misread')
    BY <1>1, <1>2, <1>5, <2>1, <2>3, <2>4, BuildingKeeps DEF AddUnique, Goto
  <2>6. KeysInv'
    <3> SUFFICES ASSUME server = "MySQL" PROVE KeysInv'
      BY DEF KeysInv, AddUnique
    <3>1. KeysBuilt /\ OrderInv BY <1>2 DEF IInv, KeysInv
    <3>2. k \notin target.indexes /\ k \notin target.relations
      BY <1>4, ConstantsType, TargetFacts
    <3>3. KeysBuilt'
      BY <1>1, <1>5, <2>1, <2>2, <3>1, <3>2 DEF KeysBuilt, Effective, AddUnique
    <3>4. OrderInv'
      BY <1>1, <2>1, <2>2, <2>4, <3>1 DEF OrderInv, Storage, Building, Kinds, AddUnique
    <3> QED BY <1>1, <2>4, <2>5, <3>3, <3>4 DEF KeysInv
  <2> QED BY <2>2, <2>5, <2>6 DEF IInv, PlanInv
<1>6. CASE /\ NotExecuted(k \notin table.uniques) /\ UNCHANGED table
           /\ BuildFails("uniques", plan.uniques \ table.uniques)
  <2>1. CASE creating
    BY <1>1, <1>3, <1>6, <2>1, NoPlanTyped, FailureKeeps DEF AddUnique, BuildFails
  <2>2. CASE ~creating
    <3>1. /\ plan' = [plan EXCEPT !["uniques"] = {}] /\ pc' = pc
          /\ missed' = missed \cup (plan.uniques \ table.uniques) /\ result' = result
      BY <1>1, <1>6, <2>2 DEF BuildFails, Goto
    <3>2. /\ plan' \in [indexes : SUBSET Indexes, uniques : SUBSET Uniques, relations : SUBSET Relations]
          /\ plan'.uniques = {}
          /\ plan'.indexes = plan.indexes /\ plan'.relations = plan.relations
      BY <3>1 DEF IInv, PlanInv
    <3>3. missed' \subseteq Keys BY <3>1 DEF IInv, ControlInv, PlanInv, Keys
    <3>4. /\ TargetInv' /\ ScriptsInv' /\ TableInv' /\ ControlInv' /\ ColumnsInv'
          /\ ~(recorded' = 2 /\ ~misread')
      BY <1>1, <1>2, <1>4, <1>6, <3>1, <3>3, BuildingKeeps DEF AddUnique
    <3>5. KeysInv'
      <4> SUFFICES ASSUME server = "MySQL" PROVE KeysInv'
        BY DEF KeysInv, AddUnique
      <4>1. KeysBuilt /\ OrderInv BY <1>2 DEF IInv, KeysInv
      <4>2. KeysBuilt' BY <1>6, <3>1, <3>2, <4>1 DEF KeysBuilt, Effective, AddUnique
      <4>3. OrderInv'
        BY <1>1, <1>6, <2>2, <3>1, <3>2, <4>1 DEF OrderInv, Storage, Building, Kinds, AddUnique
      <4> QED BY <1>1, <3>1, <3>4, <4>2, <4>3 DEF KeysInv
    <3> QED BY <3>2, <3>4, <3>5 DEF IInv, PlanInv
  <2> QED BY <2>1, <2>2
<1> QED BY <1>5, <1>6 DEF AddUnique

LEMMA CreateIndexKeeps == ASSUME IInv, NEW k \in Keys, CreateIndex(k) PROVE IInv'
<1> USE DEF fixed, history
<1>1. pc = "indexes" /\ k \in plan.indexes /\ faults' \in 0..MaxFaults BY FaultsType DEF CreateIndex
<1>2. pc \in Building BY <1>1 DEF Building, Kinds
<1>3. commands' = {} BY <1>1, NoScripts DEF CreateIndex
<1>4. table \in Table /\ k \in Indexes BY <1>1, <1>2, TableThere DEF IInv, PlanInv
<1>5. CASE /\ Executed(k \notin table.indexes) /\ Goto(pc)
           /\ table' = [table EXCEPT !.indexes = @ \cup {k}]
           /\ plan' = [plan EXCEPT !.indexes = @ \ {k}] /\ missed' = missed \ {k}
  <2>1. /\ table' \in Table /\ table'.columns = table.columns /\ table'.storage = table.storage
        /\ table'.indexes = table.indexes \cup {k}
        /\ table'.uniques = table.uniques /\ table'.relations = table.relations
    BY <1>4, <1>5 DEF Table
  <2>2. /\ plan' \in [indexes : SUBSET Indexes, uniques : SUBSET Uniques, relations : SUBSET Relations]
        /\ plan'.indexes = plan.indexes \ {k}
        /\ plan'.uniques = plan.uniques /\ plan'.relations = plan.relations
    BY <1>5 DEF IInv, PlanInv
  <2>3. missed' \subseteq Keys BY <1>5 DEF IInv, ControlInv
  <2>4. pc' = pc BY <1>5 DEF Goto
  <2>5. /\ TargetInv' /\ ScriptsInv' /\ TableInv' /\ ControlInv' /\ ColumnsInv'
        /\ ~(recorded' = 2 /\ ~misread')
    BY <1>1, <1>2, <1>5, <2>1, <2>3, <2>4, BuildingKeeps DEF CreateIndex, Goto
  <2>6. KeysInv'
    <3> SUFFICES ASSUME server = "MySQL" PROVE KeysInv'
      BY DEF KeysInv, CreateIndex
    <3>1. KeysBuilt /\ OrderInv BY <1>2 DEF IInv, KeysInv
    <3>2. k \notin target.uniques /\ k \notin target.relations
      BY <1>4, ConstantsType, TargetFacts
    <3>3. KeysBuilt'
      BY <1>1, <1>5, <2>1, <2>2, <3>1, <3>2 DEF KeysBuilt, Effective, CreateIndex
    <3>4. OrderInv'
      BY <1>1, <2>1, <2>2, <2>4, <3>1 DEF OrderInv, Storage, Building, Kinds, CreateIndex
    <3> QED BY <1>1, <2>4, <2>5, <3>3, <3>4 DEF KeysInv
  <2> QED BY <2>2, <2>5, <2>6 DEF IInv, PlanInv
<1>6. CASE /\ NotExecuted(k \notin table.indexes) /\ UNCHANGED table
           /\ BuildFails("indexes", plan.indexes \ table.indexes)
  <2>1. CASE creating
    BY <1>1, <1>3, <1>6, <2>1, NoPlanTyped, FailureKeeps DEF CreateIndex, BuildFails
  <2>2. CASE ~creating
    <3>1. /\ plan' = [plan EXCEPT !["indexes"] = {}] /\ pc' = pc
          /\ missed' = missed \cup (plan.indexes \ table.indexes) /\ result' = result
      BY <1>1, <1>6, <2>2 DEF BuildFails, Goto
    <3>2. /\ plan' \in [indexes : SUBSET Indexes, uniques : SUBSET Uniques, relations : SUBSET Relations]
          /\ plan'.indexes = {}
          /\ plan'.uniques = plan.uniques /\ plan'.relations = plan.relations
      BY <3>1 DEF IInv, PlanInv
    <3>3. missed' \subseteq Keys BY <3>1 DEF IInv, ControlInv, PlanInv, Keys
    <3>4. /\ TargetInv' /\ ScriptsInv' /\ TableInv' /\ ControlInv' /\ ColumnsInv'
          /\ ~(recorded' = 2 /\ ~misread')
      BY <1>1, <1>2, <1>4, <1>6, <3>1, <3>3, BuildingKeeps DEF CreateIndex
    <3>5. KeysInv'
      <4> SUFFICES ASSUME server = "MySQL" PROVE KeysInv'
        BY DEF KeysInv, CreateIndex
      <4>1. KeysBuilt /\ OrderInv BY <1>2 DEF IInv, KeysInv
      <4>2. KeysBuilt' BY <1>6, <3>1, <3>2, <4>1 DEF KeysBuilt, Effective, CreateIndex
      <4>3. OrderInv'
        BY <1>1, <1>6, <2>2, <3>1, <3>2, <4>1 DEF OrderInv, Storage, Building, Kinds, CreateIndex
      <4> QED BY <1>1, <3>1, <3>4, <4>2, <4>3 DEF KeysInv
    <3> QED BY <3>2, <3>4, <3>5 DEF IInv, PlanInv
  <2> QED BY <2>1, <2>2
<1> QED BY <1>5, <1>6 DEF CreateIndex

LEMMA BuildRelationKeeps == ASSUME IInv, NEW k \in Keys, BuildRelation(k) PROVE IInv'
<1> USE DEF fixed, history
<1>1. pc = "relations" /\ k \in plan.relations /\ faults' \in 0..MaxFaults BY FaultsType DEF BuildRelation
<1>2. pc \in Building BY <1>1 DEF Building, Kinds
<1>3. commands' = {} BY <1>1, NoScripts DEF BuildRelation
<1>4. table \in Table /\ k \in Relations BY <1>1, <1>2, TableThere DEF IInv, PlanInv
<1>5. CASE /\ Executed(k \notin table.relations) /\ Goto(pc)
           /\ table' = [table EXCEPT !.relations = @ \cup Effective({k}, table.storage)]
           /\ plan' = [plan EXCEPT !.relations = @ \ {k}] /\ missed' = missed \ {k}
  <2>1. /\ table' \in Table /\ table'.columns = table.columns /\ table'.storage = table.storage
        /\ table'.relations = table.relations \cup Effective({k}, table.storage)
        /\ table'.indexes = table.indexes /\ table'.uniques = table.uniques
    BY <1>4, <1>5 DEF Table, Effective
  <2>2. /\ plan' \in [indexes : SUBSET Indexes, uniques : SUBSET Uniques, relations : SUBSET Relations]
        /\ plan'.relations = plan.relations \ {k}
        /\ plan'.indexes = plan.indexes /\ plan'.uniques = plan.uniques
    BY <1>5 DEF IInv, PlanInv
  <2>3. missed' \subseteq Keys BY <1>5 DEF IInv, ControlInv
  <2>4. pc' = pc BY <1>5 DEF Goto
  <2>5. /\ TargetInv' /\ ScriptsInv' /\ TableInv' /\ ControlInv' /\ ColumnsInv'
        /\ ~(recorded' = 2 /\ ~misread')
    BY <1>1, <1>2, <1>5, <2>1, <2>3, <2>4, BuildingKeeps DEF BuildRelation, Goto
  <2>6. KeysInv'
    <3> SUFFICES ASSUME server = "MySQL" PROVE KeysInv'
      BY DEF KeysInv, BuildRelation
    <3>1. KeysBuilt /\ OrderInv BY <1>2 DEF IInv, KeysInv
    <3>2. k \notin target.indexes /\ k \notin target.uniques
      BY <1>4, ConstantsType, TargetFacts
    <3>3. KeysBuilt'
      BY <1>1, <1>5, <2>1, <2>2, <3>1, <3>2 DEF KeysBuilt, Effective, BuildRelation
    <3>4. OrderInv'
      BY <1>1, <2>1, <2>2, <2>4, <3>1 DEF OrderInv, Storage, Building, Kinds, BuildRelation
    <3> QED BY <1>1, <2>4, <2>5, <3>3, <3>4 DEF KeysInv
  <2> QED BY <2>2, <2>5, <2>6 DEF IInv, PlanInv
<1>6. CASE /\ NotExecuted(k \notin table.relations) /\ UNCHANGED table
           /\ BuildFails("relations", plan.relations \ table.relations)
  <2>1. CASE creating
    BY <1>1, <1>3, <1>6, <2>1, NoPlanTyped, FailureKeeps DEF BuildRelation, BuildFails
  <2>2. CASE ~creating
    <3>1. /\ plan' = [plan EXCEPT !["relations"] = {}] /\ pc' = pc
          /\ missed' = missed \cup (plan.relations \ table.relations) /\ result' = result
      BY <1>1, <1>6, <2>2 DEF BuildFails, Goto
    <3>2. /\ plan' \in [indexes : SUBSET Indexes, uniques : SUBSET Uniques, relations : SUBSET Relations]
          /\ plan'.relations = {}
          /\ plan'.indexes = plan.indexes /\ plan'.uniques = plan.uniques
      BY <3>1 DEF IInv, PlanInv
    <3>3. missed' \subseteq Keys BY <3>1 DEF IInv, ControlInv, PlanInv, Keys
    <3>4. /\ TargetInv' /\ ScriptsInv' /\ TableInv' /\ ControlInv' /\ ColumnsInv'
          /\ ~(recorded' = 2 /\ ~misread')
      BY <1>1, <1>2, <1>4, <1>6, <3>1, <3>3, BuildingKeeps DEF BuildRelation
    <3>5. KeysInv'
      <4> SUFFICES ASSUME server = "MySQL" PROVE KeysInv'
        BY DEF KeysInv, BuildRelation
      <4>1. KeysBuilt /\ OrderInv BY <1>2 DEF IInv, KeysInv
      <4>2. KeysBuilt' BY <1>6, <3>1, <3>2, <4>1 DEF KeysBuilt, Effective, BuildRelation
      <4>3. OrderInv'
        BY <1>1, <1>6, <2>2, <3>1, <3>2, <4>1 DEF OrderInv, Storage, Building, Kinds, BuildRelation
      <4> QED BY <1>1, <3>1, <3>4, <4>2, <4>3 DEF KeysInv
    <3> QED BY <3>2, <3>4, <3>5 DEF IInv, PlanInv
  <2> QED BY <2>1, <2>2
<1> QED BY <1>5, <1>6 DEF BuildRelation

-----------------------------------------------------------------------------
(* The comparison of the two schemes. *)
LEMMA OnIs ==
  ASSUME NEW op, NEW things
  PROVE  /\ \A x : [op |-> op, on |-> x] \in On(op, things) <=> x \in things
         /\ \A y \in On(op, things) : y = [op |-> op, on |-> y.on] /\ y.op = op /\ y.on \in things
<1>1. ASSUME NEW x PROVE [op |-> op, on |-> x] \in On(op, things) <=> x \in things
  <2>1. ASSUME [op |-> op, on |-> x] \in On(op, things) PROVE x \in things
    <3>1. PICK z \in things : [op |-> op, on |-> x] = [op |-> op, on |-> z] BY <2>1 DEF On
    <3>2. x = z BY <3>1
    <3> QED BY <3>2
  <2> QED BY <2>1 DEF On
<1>2. ASSUME NEW y \in On(op, things)
      PROVE  y = [op |-> op, on |-> y.on] /\ y.op = op /\ y.on \in things
  <2>1. PICK z \in things : y = [op |-> op, on |-> z] BY DEF On
  <2> QED BY <2>1
<1> QED BY <1>1, <1>2

(* A script that is about what it can be about. *)
LEMMA ScriptIs ==
  ASSUME NEW x, x = [op |-> x.op, on |-> x.on],
         \/ x.op \in ColumnOps /\ x.on \in Columns
         \/ x.op = "drop index" /\ x.on \in Indexes
         \/ x.op = "drop unique" /\ x.on \in Uniques
         \/ x.op = "drop relation" /\ x.on \in Relations
         \/ x.op = "storage" /\ x.on = target.storage
  PROVE  x \in Scripts
BY DEF Scripts

LEMMA LoadedFacts ==
  ASSUME IInv, pc = "load"
  PROVE  /\ table \in Table /\ table # NoTable
         /\ \A c \in Columns : T(c) \in Column \cup {Absent}
         /\ \A c \in Columns : T(c) # Absent => T(c) \in Column
         /\ \A c : c \in Both => c \in Columns /\ T(c) \in Column /\ F(c) \in Field /\ F(c).type # "unknown"
         /\ LoadedIndexes = table.indexes /\ LoadedUniques = table.uniques
         /\ LoadedRelations = table.relations
         /\ \A col : Loaded(col).default = LoadedDefault(col) /\ Loaded(col).empty = LoadedEmpty(col)
<1>1. table \in Table /\ table # NoTable BY ConstantsType DEF IInv, TableInv
<1>2. \A c \in Columns : T(c) \in Column \cup {Absent} BY <1>1, TableType DEF T
<1>3. \A c : c \in Both => c \in Columns /\ T(c) \in Column /\ F(c) \in Field /\ F(c).type # "unknown"
  BY <1>2, TargetFacts DEF Both
<1>4. /\ LoadedIndexes = table.indexes /\ LoadedUniques = table.uniques
      /\ LoadedRelations = table.relations
  BY <1>1, TableType, ConstantsType DEF LoadedIndexes, LoadedUniques, LoadedRelations, Statistics
<1>5. ASSUME NEW col
      PROVE  Loaded(col).default = LoadedDefault(col) /\ Loaded(col).empty = LoadedEmpty(col)
  <2>1. /\ MySqlField(col).default = LoadedDefault(col) /\ MySqlField(col).empty = LoadedEmpty(col)
    BY DEF MySqlField
  <2>2. /\ PostgreSqlField(col).default = LoadedDefault(col) /\ PostgreSqlField(col).empty = LoadedEmpty(col)
    BY DEF PostgreSqlField
  <2> QED BY <2>1, <2>2 DEF Loaded
<1> QED BY <1>1, <1>2, <1>3, <1>4, <1>5

LEMMA MySqlScripts ==
  ASSUME IInv, pc = "load", server = "MySQL", target.storage # "unset" \/ ~StorageChanged
  PROVE  \A x \in MySqlCommands : x \in Scripts /\ Sensible(x)
<1> TAKE x \in MySqlCommands
<1>1. /\ LoadedIndexes \subseteq Indexes /\ LoadedUniques \subseteq Uniques
      /\ DroppedRelations \subseteq Relations
  BY LoadedFacts, TableType DEF DroppedRelations
<1>2. CASE x \in On("add", New)
  <2>1. x = [op |-> "add", on |-> x.on] /\ x.op = "add" /\ x.on \in New BY <1>2, OnIs
  <2>2. x \in Scripts BY <2>1, ScriptIs DEF ColumnOps, New
  <2>3. Sensible(x) BY <2>1 DEF Sensible, New
  <2> QED BY <2>2, <2>3
<1>3. CASE x \in On("drop index", LoadedIndexes)
  <2>1. x = [op |-> "drop index", on |-> x.on] /\ x.op = "drop index" /\ x.on \in LoadedIndexes BY <1>3, OnIs
  <2>2. x \in Scripts BY <1>1, <2>1, ScriptIs
  <2>3. Sensible(x) BY <2>1 DEF Sensible
  <2> QED BY <2>2, <2>3
<1>4. CASE x \in On("drop unique", LoadedUniques)
  <2>1. x = [op |-> "drop unique", on |-> x.on] /\ x.op = "drop unique" /\ x.on \in LoadedUniques BY <1>4, OnIs
  <2>2. x \in Scripts BY <1>1, <2>1, ScriptIs
  <2>3. Sensible(x) BY <2>1 DEF Sensible
  <2> QED BY <2>2, <2>3
<1>5. CASE x \in On("drop relation", DroppedRelations)
  <2>1. x = [op |-> "drop relation", on |-> x.on] /\ x.op = "drop relation" /\ x.on \in DroppedRelations BY <1>5, OnIs
  <2>2. x \in Scripts BY <1>1, <2>1, ScriptIs
  <2>3. Sensible(x) BY <2>1 DEF Sensible
  <2> QED BY <2>2, <2>3
<1>6. CASE x \in On("drop", Deleted)
  <2>1. x = [op |-> "drop", on |-> x.on] /\ x.op = "drop" /\ x.on \in Deleted BY <1>6, OnIs
  <2>2. x \in Scripts BY <2>1, ScriptIs DEF ColumnOps, Deleted
  <2>3. Sensible(x) BY <2>1 DEF Sensible, Deleted
  <2> QED BY <2>2, <2>3
<1>7. CASE x \in On("modify", {c \in Changed : Modifies(c)})
  <2>1. x = [op |-> "modify", on |-> x.on] /\ x.op = "modify" /\ x.on \in {c \in Changed : Modifies(c)} BY <1>7, OnIs
  <2>2. x \in Scripts BY <2>1, ScriptIs DEF ColumnOps, Changed, Both
  <2>3. Sensible(x) BY <2>1 DEF Sensible, Changed, Both
  <2> QED BY <2>2, <2>3
<1>8. CASE StorageChanged /\ x \in On("storage", {target.storage})
  <2>1. x = [op |-> "storage", on |-> x.on] /\ x.op = "storage" /\ x.on = target.storage BY <1>8, OnIs
  <2>2. x \in Scripts BY <2>1, ScriptIs
  <2>3. Sensible(x) BY <1>8, <2>1 DEF Sensible
  <2> QED BY <2>2, <2>3
<1> QED BY <1>2, <1>3, <1>4, <1>5, <1>6, <1>7, <1>8 DEF MySqlCommands

LEMMA PostgreSqlScripts ==
  ASSUME IInv, pc = "load", server = "PostgreSQL"
  PROVE  \A x \in PostgreSqlCommands : x \in Scripts /\ Sensible(x)
<1> TAKE x \in PostgreSqlCommands
<1>1. CASE x \in On("add", New)
  <2>1. x = [op |-> "add", on |-> x.on] /\ x.op = "add" /\ x.on \in New BY <1>1, OnIs
  <2>2. x \in Scripts BY <2>1, ScriptIs DEF ColumnOps, New
  <2>3. Sensible(x) BY <2>1 DEF Sensible, New
  <2> QED BY <2>2, <2>3
<1>2. CASE x \in On("drop", Deleted)
  <2>1. x = [op |-> "drop", on |-> x.on] /\ x.op = "drop" /\ x.on \in Deleted BY <1>2, OnIs
  <2>2. x \in Scripts BY <2>1, ScriptIs DEF ColumnOps, Deleted
  <2>3. Sensible(x) BY <2>1 DEF Sensible, Deleted
  <2> QED BY <2>2, <2>3
<1>3. CASE x \in On("type", {c \in Both : ChangesType(c)})
  <2>1. x = [op |-> "type", on |-> x.on] /\ x.op = "type" /\ x.on \in {c \in Both : ChangesType(c)} BY <1>3, OnIs
  <2>2. x \in Scripts BY <2>1, ScriptIs DEF ColumnOps, Both
  <2>3. Sensible(x) BY <2>1 DEF Sensible, Both
  <2> QED BY <2>2, <2>3
<1>4. CASE x \in On("default", {c \in Both : ChangesDefault(c)})
  <2>1. x = [op |-> "default", on |-> x.on] /\ x.op = "default" /\ x.on \in {c \in Both : ChangesDefault(c)} BY <1>4, OnIs
  <2>2. x \in Scripts BY <2>1, ScriptIs DEF ColumnOps, Both
  <2>3. Sensible(x) BY <2>1 DEF Sensible, Both
  <2> QED BY <2>2, <2>3
<1>5. CASE x \in On("empty", {c \in Both : ChangesEmpty(c)})
  <2>1. x = [op |-> "empty", on |-> x.on] /\ x.op = "empty" /\ x.on \in {c \in Both : ChangesEmpty(c)} BY <1>5, OnIs
  <2>2. x \in Scripts BY <2>1, ScriptIs DEF ColumnOps, Both
  <2>3. Sensible(x) BY <2>1 DEF Sensible, Both
  <2> QED BY <2>2, <2>3
<1> QED BY <1>1, <1>2, <1>3, <1>4, <1>5 DEF PostgreSqlCommands

(* A column with no statement is right, in MySQL once it is noted what is not seen. *)
LEMMA MySqlComing ==
  ASSUME IInv, pc = "load", server = "MySQL", NEW c \in Columns
  PROVE  /\ T(c) # Absent /\ F(c) = Absent => [op |-> "drop", on |-> c] \in MySqlCommands
         /\ T(c) = Absent /\ F(c) # Absent => [op |-> "add", on |-> c] \in MySqlCommands
         /\ T(c) # Absent /\ F(c) # Absent /\ [op |-> "modify", on |-> c] \notin MySqlCommands =>
              /\ DefaultFits(T(c), F(c)) /\ EmptyFits(T(c), F(c))
              /\ TypeFits(T(c), F(c)) \/ (c \in Overlooked /\ Unseen(T(c), F(c)))
<1>1. T(c) # Absent /\ F(c) = Absent => [op |-> "drop", on |-> c] \in On("drop", Deleted)
  BY OnIs DEF Deleted
<1>2. T(c) = Absent /\ F(c) # Absent => [op |-> "add", on |-> c] \in On("add", New)
  BY OnIs DEF New
<1>3. ASSUME T(c) # Absent, F(c) # Absent, [op |-> "modify", on |-> c] \notin MySqlCommands
      PROVE  /\ DefaultFits(T(c), F(c)) /\ EmptyFits(T(c), F(c))
             /\ TypeFits(T(c), F(c)) \/ (c \in Overlooked /\ Unseen(T(c), F(c)))
  <2>1. c \in Both BY <1>3 DEF Both
  <2>2. T(c) \in Column /\ F(c) \in Field BY <2>1, LoadedFacts
  <2>3. ~(c \in Changed /\ Modifies(c)) BY <1>3, OnIs DEF MySqlCommands
  <2>4. LoadedDefault(T(c)) = F(c).default /\ ((LoadedEmpty(T(c)) = "yes") <=> (F(c).empty = "yes"))
    <3>1. CASE c \notin Changed BY <2>1, <3>1, LoadedFacts DEF Changed
    <3>2. CASE ~Modifies(c) BY <3>2, LoadedFacts DEF Modifies
    <3> QED BY <2>3, <3>1, <3>2
  <2>5. DefaultFits(T(c), F(c)) /\ EmptyFits(T(c), F(c)) /\ Unseen(T(c), F(c))
    BY <2>2, <2>4, UntouchedFits DEF IInv
  <2>6. RightType(c) <=> TypeFits(T(c), F(c)) BY DEF RightType, TypeFits
  <2>7. ~TypeFits(T(c), F(c)) => c \in Overlooked
    BY <2>1, <2>4, <2>5, <2>6, LoadedFacts DEF Overlooked, Unseen
  <2> QED BY <2>5, <2>7
<1> QED BY <1>1, <1>2, <1>3 DEF MySqlCommands

LEMMA PostgreSqlComing ==
  ASSUME IInv, pc = "load", server = "PostgreSQL", NEW c \in Columns
  PROVE  /\ T(c) # Absent /\ F(c) = Absent => [op |-> "drop", on |-> c] \in PostgreSqlCommands
         /\ T(c) = Absent /\ F(c) # Absent => [op |-> "add", on |-> c] \in PostgreSqlCommands
         /\ T(c) # Absent /\ F(c) # Absent =>
              /\ [op |-> "type", on |-> c] \in PostgreSqlCommands \/ TypeFits(T(c), F(c))
              /\ [op |-> "default", on |-> c] \in PostgreSqlCommands \/ DefaultFits(T(c), F(c))
              /\ [op |-> "empty", on |-> c] \in PostgreSqlCommands \/ EmptyFits(T(c), F(c))
<1>1. T(c) # Absent /\ F(c) = Absent => [op |-> "drop", on |-> c] \in On("drop", Deleted)
  BY OnIs DEF Deleted
<1>2. T(c) = Absent /\ F(c) # Absent => [op |-> "add", on |-> c] \in On("add", New)
  BY OnIs DEF New
<1>3. ASSUME T(c) # Absent, F(c) # Absent
      PROVE  /\ [op |-> "type", on |-> c] \in PostgreSqlCommands \/ TypeFits(T(c), F(c))
             /\ [op |-> "default", on |-> c] \in PostgreSqlCommands \/ DefaultFits(T(c), F(c))
             /\ [op |-> "empty", on |-> c] \in PostgreSqlCommands \/ EmptyFits(T(c), F(c))
  <2>1. c \in Both BY <1>3 DEF Both
  <2>2. T(c) \in Column /\ F(c) \in Field /\ F(c).type # "unknown" BY <2>1, LoadedFacts
  <2>3. PostgreSqlColumn(T(c)) BY <1>3, LoadedFacts DEF IInv, TableInv
  <2>4. Loaded(T(c)) = PostgreSqlField(T(c)) BY DEF Loaded
  <2>5. ~ChangesType(c) => TypeFits(T(c), F(c))
    BY <2>2, <2>3, <2>4, SameTypeFits DEF ChangesType, IInv
  <2>6. ~ChangesDefault(c) => DefaultFits(T(c), F(c))
    <3>1. Loaded(T(c)).default = LoadedDefault(T(c)) BY LoadedFacts
    <3> QED BY <3>1 DEF ChangesDefault, DefaultFits, LoadedDefault
  <2>7. ~ChangesEmpty(c) => EmptyFits(T(c), F(c))
    <3>1. Loaded(T(c)).empty = LoadedEmpty(T(c)) BY LoadedFacts
    <3> QED BY <2>2, <3>1, ColumnType, FieldType DEF ChangesEmpty, EmptyFits, LoadedEmpty
  <2> QED BY <2>1, <2>5, <2>6, <2>7, OnIs DEF PostgreSqlCommands
<1> QED BY <1>1, <1>2, <1>3 DEF PostgreSqlCommands

LEMMA LoadKeeps == ASSUME IInv, Load PROVE IInv'
<1> DEFINE can == server = "MySQL" => target.storage # "unset" \/ ~StorageChanged
<1> USE DEF fixed
<1>1. pc = "load" /\ UNCHANGED <<server, target, table, recorded, creating, misread>> BY DEF Load
<1>2. /\ ~creating /\ (recorded = 2 => AllRight) /\ faults' \in 0..MaxFaults
  BY <1>1, FaultsType DEF IInv, ControlInv, ColumnsInv, Load
<1>3. commands = {} BY <1>1, NoScripts
<1>4. \A c \in Columns : T(c)' = T(c) /\ F(c)' = F(c) BY <1>1 DEF T, F
<1>5. CASE /\ Executed(can) /\ Goto("commands") /\ commands' = Commands
           /\ IF server = "MySQL"
              THEN plan' = MySqlPlan /\ missed' = missed \cup Forgotten /\ unnoticed' = Overlooked
              ELSE plan' = NoPlan /\ UNCHANGED <<missed, unnoticed>>
  <2>1. TargetInv' BY <1>1, TargetStays
  <2>2. ScriptsInv'
    <3>1. \A x \in Commands : x \in Scripts /\ Sensible(x)
      BY <1>1, <1>5, MySqlScripts, PostgreSqlScripts DEF Executed, Commands, IInv, TargetInv
    <3>2. Scripts' = Scripts BY <1>1 DEF Scripts
    <3>3. \A x : Sensible(x) => Sensible(x)' BY <1>1 DEF Sensible, T, F
    <3> QED BY <1>5, <3>1, <3>2, <3>3 DEF ScriptsInv, Goto
  <2>3. PlanInv' BY <1>5, TargetFacts, NoPlanTyped DEF PlanInv, MySqlPlan
  <2>4. TableInv'
    <3>1. table # NoTable BY <1>1, LoadedFacts
    <3> QED BY <1>1, <3>1, TableStays
  <2>5. ControlInv'
    <3>1. Forgotten \subseteq Keys /\ Overlooked \subseteq Columns
      BY TargetFacts DEF Forgotten, Overlooked, Both, Keys
    <3>2. missed' \subseteq Keys /\ unnoticed' \subseteq Columns
      BY <1>5, <3>1 DEF IInv, ControlInv
    <3>3. pc' = "commands" /\ result' = result BY <1>5 DEF Goto
    <3> QED BY <1>1, <1>2, <3>2, <3>3 DEF IInv, ControlInv
  <2>6. ColumnsInv'
    <3>1. pc' = "commands" BY <1>5 DEF Goto
    <3>2. ASSUME NEW c \in Columns PROVE Coming(c, T(c), F(c))'
      <4>1. CASE server = "MySQL"
        <5>1. commands' = MySqlCommands /\ unnoticed' = Overlooked BY <1>5, <4>1 DEF Commands
        <5>2. /\ DefaultFits(T(c), F(c))' <=> DefaultFits(T(c), F(c))
              /\ EmptyFits(T(c), F(c))' <=> EmptyFits(T(c), F(c))
              /\ TypeFits(T(c), F(c))' <=> TypeFits(T(c), F(c))
              /\ Unseen(T(c), F(c))' <=> Unseen(T(c), F(c))
          BY <1>1, <1>4, FitsStay DEF DefaultFits, EmptyFits, TypeFits, Unseen
        <5> QED BY <1>1, <1>4, <4>1, <5>1, <5>2, MySqlComing DEF Coming, Left, Right
      <4>2. CASE server = "PostgreSQL"
        <5>1. commands' = PostgreSqlCommands BY <1>5, <4>2 DEF Commands
        <5>2. /\ DefaultFits(T(c), F(c))' <=> DefaultFits(T(c), F(c))
              /\ EmptyFits(T(c), F(c))' <=> EmptyFits(T(c), F(c))
              /\ TypeFits(T(c), F(c))' <=> TypeFits(T(c), F(c))
          BY <1>1, <1>4, FitsStay DEF DefaultFits, EmptyFits, TypeFits
        <5> QED BY <1>1, <1>4, <4>2, <5>1, <5>2, PostgreSqlComing DEF Coming, Left
      <4> QED BY <4>1, <4>2 DEF IInv, TargetInv
    <3>3. recorded' = 2 => AllRight'
      <4> SUFFICES ASSUME recorded = 2, NEW c \in Columns PROVE AsScheme(c, T(c), F(c))'
        BY <1>1 DEF AllRight
      <4>1. AsScheme(c, T(c), F(c)) BY <1>2 DEF AllRight
      <4>2. CASE server = "PostgreSQL"
        <5>1. UNCHANGED unnoticed BY <1>5, <4>2
        <5> QED BY <1>1, <1>4, <4>1, <5>1, RightStays DEF AsScheme, Right
      <4>3. CASE server = "MySQL" /\ F(c) = Absent
        BY <1>4, <4>1, <4>3 DEF AsScheme
      <4>4. CASE server = "MySQL" /\ F(c) # Absent
        <5>1. T(c) # Absent /\ Right(c, T(c), F(c)) BY <4>1, <4>4 DEF AsScheme
        <5>2. c \in Both /\ T(c) \in Column BY <1>1, <4>4, <5>1, LoadedFacts DEF Both
        <5>3. RightType(c) <=> TypeFits(T(c), F(c)) BY DEF RightType, TypeFits
        <5>4. TypeFits(T(c), F(c)) \/ (c \in Overlooked /\ Unseen(T(c), F(c)))
          BY <1>1, <5>1, <5>2, <5>3, LoadedFacts DEF Right, Unseen, Overlooked
        <5>5. unnoticed' = Overlooked BY <1>5, <4>4
        <5>6. /\ DefaultFits(T(c), F(c))' <=> DefaultFits(T(c), F(c))
              /\ EmptyFits(T(c), F(c))' <=> EmptyFits(T(c), F(c))
              /\ TypeFits(T(c), F(c))' <=> TypeFits(T(c), F(c))
              /\ Unseen(T(c), F(c))' <=> Unseen(T(c), F(c))
          BY <1>1, <1>4, FitsStay DEF DefaultFits, EmptyFits, TypeFits, Unseen
        <5> QED BY <1>4, <4>4, <5>1, <5>4, <5>5, <5>6 DEF AsScheme, Right
      <4> QED BY <4>2, <4>3, <4>4 DEF IInv, TargetInv
    <3> QED BY <3>1, <3>2, <3>3 DEF ColumnsInv, Building, Kinds
  <2>7. KeysInv'
    <3> SUFFICES ASSUME server = "MySQL" PROVE KeysInv'
      BY <1>1 DEF KeysInv
    <3>1. /\ pc' = "commands" /\ commands' = MySqlCommands /\ plan' = MySqlPlan
          /\ missed' = missed \cup Forgotten
      BY <1>5 DEF Goto, Commands
    <3>2. /\ LoadedIndexes = table.indexes /\ LoadedUniques = table.uniques
          /\ LoadedRelations = table.relations
      BY <1>1, LoadedFacts
    <3>a. /\ On("drop index", LoadedIndexes) \subseteq MySqlCommands
          /\ On("drop unique", LoadedUniques) \subseteq MySqlCommands
          /\ On("drop relation", DroppedRelations) \subseteq MySqlCommands
      BY DEF MySqlCommands
    <3>3. \A i \in table.indexes : [op |-> "drop index", on |-> i] \in MySqlCommands
      BY <3>a, <3>2, OnIs
    <3>4. \A u \in table.uniques : [op |-> "drop unique", on |-> u] \in MySqlCommands
      BY <3>a, <3>2, OnIs
    <3>5. \A r \in table.relations :
            [op |-> "drop relation", on |-> r] \in MySqlCommands \/ r \in target.relations
      <4>1. \A r \in table.relations : r \in DroppedRelations \/ r \in target.relations
        BY <3>2 DEF DroppedRelations
      <4> QED BY <3>a, <4>1, OnIs
    <3>6. table.storage = Storage(target) \/ [op |-> "storage", on |-> target.storage] \in MySqlCommands
      <4>1. StorageChanged => [op |-> "storage", on |-> target.storage] \in MySqlCommands
        <5> DEFINE script == On("storage", {target.storage})
        <5>1. [op |-> "storage", on |-> target.storage] \in script BY OnIs
        <5> HIDE DEF script
        <5>2. StorageChanged => script \subseteq MySqlCommands BY DEF MySqlCommands, script
        <5> QED BY <5>1, <5>2
      <4> QED BY <4>1 DEF StorageChanged, LoadedEngine
    <3>7. /\ MySqlPlan.indexes \subseteq target.indexes
          /\ target.indexes \subseteq MySqlPlan.indexes \cup Forgotten
          /\ MySqlPlan.uniques = target.uniques /\ MySqlPlan.relations = target.relations
      <4>1. ASSUME NEW i \in target.indexes, i \in table.indexes, i \notin Touched, ~StorageChanged
            PROVE  i \in Forgotten
        <5>1. i \in Keys /\ KeyColumns[i] \subseteq Columns
          BY TargetFacts, SchemeUpdateAssumption DEF Keys
        <5>2. \A c \in KeyColumns[i] : c \notin Changed /\ c \notin Deleted
          BY <4>1, <5>1 DEF Touched
        <5>3. ASSUME NEW c \in KeyColumns[i] PROVE Unchanged(c)
          BY <5>1, <5>2, <5>3 DEF Unchanged, Changed, Deleted, Both
        <5> QED BY <4>1, <5>3 DEF Forgotten
      <4>2. CASE StorageChanged
        BY <4>2 DEF MySqlPlan
      <4>3. CASE ~StorageChanged
        BY <3>2, <4>1, <4>3 DEF MySqlPlan
      <4> QED BY <4>2, <4>3
    <3>8. Storage(target)' = Storage(target) BY <1>1 DEF Storage
    <3>9. KeysComing'
      BY <1>1, <3>1, <3>3, <3>4, <3>5, <3>6, <3>7, <3>8 DEF KeysComing, Left
    <3>10. OrderInv' BY <3>1 DEF OrderInv, Building, Kinds
    <3>11. ~(recorded' = 2 /\ ~misread') BY <1>1 DEF IInv, ControlInv
    <3> QED BY <3>1, <3>9, <3>10, <3>11 DEF KeysInv, Building, Kinds
  <2> QED BY <2>1, <2>2, <2>3, <2>4, <2>5, <2>6, <2>7 DEF IInv
<1>6. CASE NotExecuted(can) /\ Return("error") /\ UNCHANGED <<commands, plan, missed, unnoticed>>
  <2>1. PlanInv' BY <1>6 DEF IInv, PlanInv
  <2>2. commands' = {} BY <1>3, <1>6
  <2> QED BY <1>1, <1>2, <1>6, <2>1, <2>2, FailureKeeps
<1> QED BY <1>5, <1>6 DEF Load

-----------------------------------------------------------------------------
(* The table after a script. *)
LEMMA AlteredIs ==
  ASSUME table \in Table, NEW x, x.on \in Columns
  PROVE  /\ DOMAIN Altered(x) = Columns
         /\ \A c \in Columns : c # x.on => Altered(x)[c] = T(c)
         /\ x.op = "add" => Altered(x)[x.on] = AddedColumn(F(x.on))
         /\ x.op = "modify" => Altered(x)[x.on] = ModifiedColumn(F(x.on))
         /\ x.op = "type" => Altered(x)[x.on] = [T(x.on) EXCEPT !.sql = Mapped(F(x.on)).sql,
                                                                !.length = Mapped(F(x.on)).length]
         /\ x.op = "default" => Altered(x)[x.on] = [T(x.on) EXCEPT !.default = F(x.on).default]
         /\ x.op = "empty" => Altered(x)[x.on] = [T(x.on) EXCEPT !.nullable = F(x.on).empty # "no"]
         /\ x.op = "drop" => Altered(x)[x.on] = Absent
<1>1. table.columns \in [Columns -> Column \cup {Absent}] BY TableType
<1> QED BY <1>1 DEF Altered, T

(* Of a column there is, its type, its default, or whether it can be empty. *)
LEMMA RetypedFits ==
  ASSUME TargetInv, server = "PostgreSQL", NEW old \in Column, NEW f \in Field, f.type # "unknown",
         NEW col, col = [old EXCEPT !.sql = Mapped(f).sql, !.length = Mapped(f).length]
  PROVE  /\ col \in Column /\ PostgreSqlColumn(col) /\ TypeFits(col, f)
         /\ DefaultFits(old, f) => DefaultFits(col, f)
         /\ EmptyFits(old, f) => EmptyFits(col, f)
<1>1. old.default \in Defaults /\ old.nullable \in BOOLEAN BY ColumnType
<1>2. col = Defined(f, old.default, old.nullable) BY DEF Defined, Column
<1>3. col \in Column /\ PostgreSqlColumn(col) /\ col.default = old.default /\ col.nullable = old.nullable
  BY <1>1, <1>2, DefinedIs
<1> QED BY <1>2, <1>3 DEF TypeFits, DefaultFits, EmptyFits, Unread

LEMMA DefaultedFits ==
  ASSUME TargetInv, server = "PostgreSQL", NEW old \in Column, PostgreSqlColumn(old),
         NEW f \in Field, NEW col, col = [old EXCEPT !.default = f.default]
  PROVE  /\ col \in Column /\ PostgreSqlColumn(col) /\ DefaultFits(col, f)
         /\ TypeFits(old, f) => TypeFits(col, f)
         /\ EmptyFits(old, f) => EmptyFits(col, f)
<1>1. col = [sql |-> old.sql, length |-> old.length, default |-> f.default, nullable |-> old.nullable]
  BY ColumnType DEF Column
<1>2. col \in Column BY <1>1, ColumnType, FieldType DEF Column, Defaults
<1>3. TypeFits(old, f) => TypeFits(col, f)
  <2> SUFFICES ASSUME old = Defined(f, old.default, old.nullable) PROVE TypeFits(col, f)
    BY DEF TypeFits
  <2>1. old.sql = Mapped(f).sql /\ old.length = Mapped(f).length BY DEF Defined
  <2> QED BY <1>1, <2>1 DEF TypeFits, Defined
<1> QED BY <1>1, <1>2, <1>3 DEF PostgreSqlColumn, DefaultFits, EmptyFits

LEMMA EmptiedFits ==
  ASSUME TargetInv, server = "PostgreSQL", NEW old \in Column, PostgreSqlColumn(old),
         NEW f \in Field, NEW col, col = [old EXCEPT !.nullable = f.empty # "no"]
  PROVE  /\ col \in Column /\ PostgreSqlColumn(col) /\ EmptyFits(col, f)
         /\ TypeFits(old, f) => TypeFits(col, f)
         /\ DefaultFits(old, f) => DefaultFits(col, f)
<1> DEFINE nullable == f.empty # "no"
<1>1. nullable \in BOOLEAN OBVIOUS
<1>2. EmptyFits([old EXCEPT !.nullable = f.empty # "no"], f)
  <2>1. f.empty \in {"yes", "no", "unset"} BY FieldType
  <2>2. [old EXCEPT !.nullable = f.empty # "no"].nullable = (f.empty # "no") BY DEF Column
  <2> QED BY <2>1, <2>2 DEF EmptyFits
<1>3. col = [old EXCEPT !.nullable = nullable] BY DEF nullable
<1> HIDE DEF nullable
<1>4. col = [sql |-> old.sql, length |-> old.length, default |-> old.default, nullable |-> nullable]
  BY <1>3, ColumnType DEF Column
<1>5. col \in Column BY <1>1, <1>4, ColumnType DEF Column, Defaults
<1>6. TypeFits(old, f) => TypeFits(col, f)
  <2> SUFFICES ASSUME old = Defined(f, old.default, old.nullable) PROVE TypeFits(col, f)
    BY DEF TypeFits
  <2>1. old.sql = Mapped(f).sql /\ old.length = Mapped(f).length BY DEF Defined
  <2> QED BY <1>4, <2>1 DEF TypeFits, Defined
<1>7. DefaultFits(old, f) => DefaultFits(col, f) BY <1>4 DEF DefaultFits, Unread
<1>8. PostgreSqlColumn(col) BY <1>4 DEF PostgreSqlColumn
<1> QED BY <1>2, <1>5, <1>6, <1>7, <1>8

(* What is known of a script that is left. *)
LEMMA CommandFacts ==
  ASSUME IInv, NEW x \in commands
  PROVE  /\ pc = "commands" /\ table \in Table /\ table # NoTable
         /\ \A c \in Columns : T(c) \in Column \cup {Absent}
         /\ x \in Scripts /\ Sensible(x)
         /\ x = [op |-> x.op, on |-> x.on]
         /\ x.op \in ColumnOps \cup {"drop index", "drop unique", "drop relation", "storage"}
         /\ x.op \in ColumnOps => x.on \in Columns
         /\ x.op = "storage" => x.on = target.storage
<1>1. pc = "commands" BY DEF IInv, ScriptsInv
<1>2. table \in Table /\ table # NoTable BY <1>1, ConstantsType DEF IInv, TableInv
<1>3. \A c \in Columns : T(c) \in Column \cup {Absent} BY <1>2, TableType DEF T
<1>4. x \in Scripts /\ Sensible(x) BY DEF IInv, ScriptsInv
<1>5. /\ x = [op |-> x.op, on |-> x.on]
      /\ x.op \in ColumnOps \cup {"drop index", "drop unique", "drop relation", "storage"}
      /\ x.op \in ColumnOps => x.on \in Columns
      /\ x.op = "storage" => x.on = target.storage
  BY <1>4 DEF Scripts, ColumnOps
<1> QED BY <1>1, <1>2, <1>3, <1>4, <1>5

(* A script makes its column right as far as it goes, and spoils nothing. *)
LEMMA AlteredFits ==
  ASSUME IInv, NEW x \in commands, \A y \in commands : ~Before(y, x), x.op \in ColumnOps,
         NEW c \in Columns, c = x.on, NEW col, col = Altered(x)[c]
  PROVE  /\ F(c) = Absent => x.op = "drop" /\ col = Absent
         /\ F(c) # Absent =>
              /\ col \in Column /\ (server = "PostgreSQL" => PostgreSqlColumn(col))
              /\ TypeFits(col, F(c))
              /\ DefaultFits(col, F(c))
                   \/ (server = "PostgreSQL" /\ x.op \in {"type", "empty"} /\ T(c) # Absent /\ ~DefaultFits(T(c), F(c)))
              /\ EmptyFits(col, F(c))
                   \/ (server = "PostgreSQL" /\ x.op \in {"type", "default"} /\ T(c) # Absent /\ ~EmptyFits(T(c), F(c)))
<1>1. /\ pc = "commands" /\ table \in Table /\ Sensible(x) /\ x = [op |-> x.op, on |-> x.on]
      /\ T(c) \in Column \cup {Absent} /\ TargetInv
  BY CommandFacts DEF IInv
<1>2. F(c) = Absent => x.op = "drop" /\ col = Absent
  BY <1>1, AlteredIs DEF Sensible, ColumnOps
<1>3. CASE F(c) # Absent
  <2>1. F(c) \in Field /\ F(c).type # "unknown" /\ x.op # "drop"
    BY <1>1, <1>3, TargetFacts DEF Sensible
  <2>2. CASE x.op = "add"
    <3>1. col = AddedColumn(F(c)) BY <1>1, <2>2, AlteredIs
    <3>2. /\ col \in Column /\ DefaultFits(col, F(c)) /\ EmptyFits(col, F(c)) /\ TypeFits(col, F(c))
          /\ server = "PostgreSQL" => PostgreSqlColumn(col)
      BY <1>1, <2>1, <3>1, AddedFits
    <3> QED BY <1>3, <3>2
  <2>3. CASE x.op = "modify"
    <3>1. col = ModifiedColumn(F(c)) /\ server = "MySQL" BY <1>1, <2>3, AlteredIs DEF Sensible
    <3>2. col \in Column /\ DefaultFits(col, F(c)) /\ EmptyFits(col, F(c)) /\ TypeFits(col, F(c))
      BY <1>1, <2>1, <3>1, ModifiedFits
    <3> QED BY <1>3, <3>1, <3>2
  <2>4. CASE x.op \in {"type", "default", "empty"}
    <3>1. server = "PostgreSQL" /\ T(c) # Absent /\ T(c) \in Column BY <1>1, <2>4 DEF Sensible
    <3>2. PostgreSqlColumn(T(c)) BY <1>1, <3>1, CommandFacts DEF IInv, TableInv
    <3>3. x.op \in {"default", "empty"} => TypeFits(T(c), F(c))
      <4> SUFFICES ASSUME x.op \in {"default", "empty"} PROVE TypeFits(T(c), F(c))
        OBVIOUS
      <4>1. Rank(x) \in {2, 3} BY DEF Rank
      <4>2. ASSUME Left("type", c) PROVE FALSE
        <5> DEFINE y == [op |-> "type", on |-> c]
        <5>1. y \in commands /\ Rank(y) = 1 BY <4>2 DEF Left, Rank
        <5>2. Before(y, x) BY <4>1, <5>1 DEF Before
        <5> QED BY <5>1, <5>2
      <4>3. Coming(c, T(c), F(c)) BY <1>1 DEF IInv, ColumnsInv
      <4> QED BY <1>3, <3>1, <4>2, <4>3 DEF Coming
    <3>4. CASE x.op = "type"
      <4>1. col = [T(c) EXCEPT !.sql = Mapped(F(c)).sql, !.length = Mapped(F(c)).length]
        BY <1>1, <3>4, AlteredIs
      <4>2. /\ col \in Column /\ PostgreSqlColumn(col) /\ TypeFits(col, F(c))
            /\ DefaultFits(T(c), F(c)) => DefaultFits(col, F(c))
            /\ EmptyFits(T(c), F(c)) => EmptyFits(col, F(c))
        BY <1>1, <2>1, <3>1, <4>1, RetypedFits
      <4> QED BY <1>3, <3>1, <3>4, <4>2
    <3>5. CASE x.op = "default"
      <4>1. col = [T(c) EXCEPT !.default = F(c).default] BY <1>1, <3>5, AlteredIs
      <4>2. /\ col \in Column /\ PostgreSqlColumn(col) /\ DefaultFits(col, F(c))
            /\ TypeFits(T(c), F(c)) => TypeFits(col, F(c))
            /\ EmptyFits(T(c), F(c)) => EmptyFits(col, F(c))
        BY <1>1, <2>1, <3>1, <3>2, <4>1, DefaultedFits
      <4> QED BY <1>3, <3>1, <3>3, <3>5, <4>2
    <3>6. CASE x.op = "empty"
      <4>1. col = [T(c) EXCEPT !.nullable = F(c).empty # "no"] BY <1>1, <3>6, AlteredIs
      <4>2. /\ col \in Column /\ PostgreSqlColumn(col) /\ EmptyFits(col, F(c))
            /\ TypeFits(T(c), F(c)) => TypeFits(col, F(c))
            /\ DefaultFits(T(c), F(c)) => DefaultFits(col, F(c))
        BY <1>1, <2>1, <3>1, <3>2, <4>1, EmptiedFits
      <4> QED BY <1>3, <3>1, <3>3, <3>6, <4>2
    <3> QED BY <2>4, <3>4, <3>5, <3>6
  <2> QED BY <2>1, <2>2, <2>3, <2>4 DEF ColumnOps
<1> QED BY <1>2, <1>3

LEMMA EffectIs ==
  ASSUME IInv, NEW x \in commands, \A y \in commands : ~Before(y, x)
  PROVE  /\ Effect(x) \in Table
         /\ Effect(x).columns = IF x.op \in ColumnOps THEN Altered(x) ELSE table.columns
         /\ Effect(x).indexes \subseteq table.indexes /\ Effect(x).uniques \subseteq table.uniques
         /\ Effect(x).relations \subseteq table.relations
         /\ x.op = "drop index" => x.on \notin Effect(x).indexes
         /\ x.op = "drop unique" => x.on \notin Effect(x).uniques
         /\ x.op = "drop relation" => x.on \notin Effect(x).relations
         /\ Effect(x).storage = IF x.op = "storage" THEN Storage(target) ELSE table.storage
<1>1. /\ table \in Table /\ Sensible(x)
      /\ x.op \in ColumnOps \cup {"drop index", "drop unique", "drop relation", "storage"}
  BY CommandFacts
<1>2. table \in [columns : [Columns -> Column \cup {Absent}], indexes : SUBSET Indexes,
                 uniques : SUBSET Uniques, relations : SUBSET Relations,
                 storage : {"MyISAM", "InnoDB"}]
  BY <1>1 DEF Table
<1>3. CASE x.op = "drop index"
  BY <1>2, <1>3 DEF Effect, ColumnOps, Table
<1>4. CASE x.op = "drop unique"
  BY <1>2, <1>4 DEF Effect, ColumnOps, Table
<1>5. CASE x.op = "drop relation"
  BY <1>2, <1>5 DEF Effect, ColumnOps, Table
<1>6. CASE x.op = "storage"
  <2>1. x.on = target.storage /\ target.storage # "unset" BY <1>1, <1>6, CommandFacts DEF Sensible
  <2>2. x.on = Storage(target) BY <2>1 DEF Storage
  <2> QED BY <1>2, <1>6, <2>2, TargetFacts DEF Effect, ColumnOps, Table
<1>7. CASE x.op \in ColumnOps
  <2>1. x.on \in Columns BY <1>7, CommandFacts
  <2>2. Altered(x) \in [Columns -> Column \cup {Absent}]
    <3>1. DOMAIN Altered(x) = Columns /\ \A c \in Columns : c # x.on => Altered(x)[c] = T(c)
      BY <1>1, <2>1, AlteredIs
    <3>2. Altered(x)[x.on] \in Column \cup {Absent} BY <1>7, <2>1, AlteredFits
    <3>3. Altered(x) = [c \in Columns |-> Altered(x)[c]]
      <4>1. table.columns = [c \in Columns |-> table.columns[c]] BY <1>2
      <4> QED BY <4>1 DEF Altered
    <3>4. \A c \in Columns : Altered(x)[c] \in Column \cup {Absent} BY <3>1, <3>2, CommandFacts
    <3> QED BY <3>3, <3>4
  <2>3. CASE x.op = "drop"
    <3>1. Effect(x) = [table EXCEPT !.columns = Altered(x), !.indexes = Without(@, x.on),
                                    !.uniques = Without(@, x.on), !.relations = Without(@, x.on)]
      BY <2>3 DEF Effect
    <3> DEFINE indexes == Without(table.indexes, x.on)
               uniques == Without(table.uniques, x.on)
               relations == Without(table.relations, x.on)
               columns == Altered(x)
    <3>2. /\ indexes \subseteq table.indexes /\ uniques \subseteq table.uniques
          /\ relations \subseteq table.relations
      BY DEF Without
    <3>3. columns \in [Columns -> Column \cup {Absent}] BY <2>2
    <3>4. Effect(x) = [table EXCEPT !.columns = columns, !.indexes = indexes,
                                    !.uniques = uniques, !.relations = relations]
      BY <3>1
    <3>5. columns = Altered(x) OBVIOUS
    <3> HIDE DEF indexes, uniques, relations, columns
    <3>6. /\ Effect(x) \in Table /\ Effect(x).columns = columns /\ Effect(x).indexes = indexes
          /\ Effect(x).uniques = uniques /\ Effect(x).relations = relations
          /\ Effect(x).storage = table.storage
      BY <1>2, <3>2, <3>3, <3>4 DEF Table
    <3> QED BY <2>3, <3>2, <3>5, <3>6 DEF ColumnOps
  <2>4. CASE x.op # "drop"
    <3>1. Effect(x) = [table EXCEPT !.columns = Altered(x)] BY <1>7, <2>4 DEF Effect, ColumnOps
    <3> QED BY <1>2, <1>7, <2>2, <2>4, <3>1 DEF ColumnOps, Table
  <2> QED BY <2>3, <2>4
<1> QED BY <1>1, <1>3, <1>4, <1>5, <1>6, <1>7

LEMMA CommandKeeps == ASSUME IInv, NEW x \in commands, Command(x) PROVE IInv'
<1> USE DEF fixed, history
<1>1. /\ pc = "commands" /\ \A y \in commands : ~Before(y, x)
      /\ UNCHANGED <<server, target, recorded, creating, missed, unnoticed, misread>>
  BY DEF Command
<1>2. faults' \in 0..MaxFaults BY FaultsType DEF Command
<1>3. CASE /\ Executed(Executable(x)) /\ table' = Effect(x) /\ commands' = commands \ {x}
           /\ UNCHANGED <<pc, plan, result>>
  <2>1. TargetInv' /\ PlanInv' BY <1>1, <1>3, TargetStays DEF IInv, PlanInv
  <2>2. /\ table' \in Table
        /\ table'.columns = IF x.op \in ColumnOps THEN Altered(x) ELSE table.columns
        /\ table'.indexes \subseteq table.indexes /\ table'.uniques \subseteq table.uniques
        /\ table'.relations \subseteq table.relations
        /\ x.op = "drop index" => x.on \notin table'.indexes
        /\ x.op = "drop unique" => x.on \notin table'.uniques
        /\ x.op = "drop relation" => x.on \notin table'.relations
        /\ table'.storage = IF x.op = "storage" THEN Storage(target) ELSE table.storage
    BY <1>1, <1>3, EffectIs
  <2>3. /\ table \in Table /\ Sensible(x) /\ x = [op |-> x.op, on |-> x.on] /\ table # NoTable
        /\ \A c \in Columns : T(c) \in Column \cup {Absent}
        /\ x.op \in ColumnOps => x.on \in Columns
    BY CommandFacts
  <2>4. \A c \in Columns : F(c)' = F(c) BY <1>1 DEF F
  <2>5. \A c \in Columns : (x.op \in ColumnOps /\ c = x.on) \/ T(c)' = T(c)
    <3> TAKE c \in Columns
    <3>1. CASE x.op \in ColumnOps /\ c # x.on
      <4>1. Altered(x)[c] = T(c) BY <2>3, <3>1, AlteredIs
      <4> QED BY <2>2, <3>1, <4>1 DEF T
    <3>2. CASE x.op \notin ColumnOps BY <2>2, <3>2 DEF T
    <3> QED BY <3>1, <3>2
  <2>6. ASSUME NEW c \in Columns, x.op \in ColumnOps, c = x.on
        PROVE  /\ F(c) = Absent => x.op = "drop" /\ T(c)' = Absent
               /\ F(c) # Absent =>
                    /\ T(c)' \in Column /\ T(c)' # Absent /\ (server = "PostgreSQL" => PostgreSqlColumn(T(c)'))
                    /\ TypeFits(T(c)', F(c))
                    /\ DefaultFits(T(c)', F(c))
                         \/ (server = "PostgreSQL" /\ x.op \in {"type", "empty"} /\ T(c) # Absent /\ ~DefaultFits(T(c), F(c)))
                    /\ EmptyFits(T(c)', F(c))
                         \/ (server = "PostgreSQL" /\ x.op \in {"type", "default"} /\ T(c) # Absent /\ ~EmptyFits(T(c), F(c)))
    <3>1. T(c)' = Altered(x)[c] BY <2>2, <2>6 DEF T
    <3> QED BY <1>1, <2>6, <3>1, AlteredFits, ConstantsType
  <2>7. \A op, on : Left(op, on)' <=> Left(op, on) /\ ~(op = x.op /\ on = x.on)
    <3> TAKE op, on
    <3>1. [op |-> op, on |-> on] = x <=> op = x.op /\ on = x.on
      <4>1. [op |-> op, on |-> on] = x => op = x.op /\ on = x.on
        <5>1. [op |-> op, on |-> on].op = op /\ [op |-> op, on |-> on].on = on OBVIOUS
        <5> QED BY <5>1
      <4> QED BY <2>3, <4>1
    <3> QED BY <1>3, <3>1 DEF Left
  <2>8. ScriptsInv'
    <3>1. Scripts' = Scripts BY <1>1 DEF Scripts
    <3>2. ASSUME NEW y \in commands PROVE Sensible(y)'
      <4>1. Sensible(y) /\ (y.op \in ColumnOps => y.on \in Columns) BY CommandFacts
      <4>2. F(y.on)' = F(y.on) BY <1>1 DEF F
      <4>3. y.op \in {"type", "default", "empty"} => T(y.on)' # Absent
        <5> SUFFICES ASSUME y.op \in {"type", "default", "empty"} PROVE T(y.on)' # Absent
          OBVIOUS
        <5>1. y.on \in Columns /\ F(y.on) # Absent /\ T(y.on) # Absent
          BY <4>1 DEF Sensible, ColumnOps
        <5> QED BY <2>5, <2>6, <5>1
      <4> QED BY <1>1, <4>1, <4>2, <4>3 DEF Sensible
    <3> QED BY <1>1, <1>3, <3>1, <3>2 DEF ScriptsInv, IInv
  <2>9. TableInv'
    <3>1. table' # NoTable BY <2>2, ConstantsType
    <3>2. ASSUME server = "PostgreSQL", NEW c \in Columns, T(c)' # Absent PROVE PostgreSqlColumn(T(c)')
      <4>1. T(c) # Absent => PostgreSqlColumn(T(c)) BY <2>3, <3>2 DEF IInv, TableInv
      <4> QED BY <2>5, <2>6, <3>2, <4>1
    <3> QED BY <1>1, <2>2, <3>1, <3>2 DEF TableInv, PostgreSqlColumn
  <2>10. ControlInv' BY <1>1, <1>2, <1>3 DEF IInv, ControlInv
  <2>11. ASSUME NEW c \in Columns, NEW col, col = T(c)', NEW f, f = F(c)
         PROVE  /\ F(c)' = f
                /\ DefaultFits(col, f)' <=> DefaultFits(col, f)
                /\ EmptyFits(col, f)' <=> EmptyFits(col, f)
                /\ TypeFits(col, f)' <=> TypeFits(col, f)
                /\ Right(c, col, f)' <=> Right(c, col, f)
    BY <1>1, <2>4, <2>11, FitsStay, RightStays
  <2>12. ColumnsInv'
    <3>1. ASSUME NEW c \in Columns, NEW col, col = T(c)', NEW f, f = F(c)
          PROVE  Coming(c, col, f)' /\ (recorded = 2 => AsScheme(c, col, f)')
      <4>1. /\ Coming(c, T(c), f) /\ (recorded = 2 => AsScheme(c, T(c), f))
        BY <1>1, <3>1 DEF IInv, ColumnsInv, AllRight
      <4>2. CASE x.op \in ColumnOps /\ c = x.on
        <5>1. CASE f = Absent
          BY <2>6, <3>1, <4>2, <5>1 DEF Coming, AsScheme
        <5>2. CASE f # Absent
          <6>1. /\ col # Absent /\ TypeFits(col, f)
                /\ DefaultFits(col, f)
                     \/ (server = "PostgreSQL" /\ x.op \in {"type", "empty"} /\ T(c) # Absent /\ ~DefaultFits(T(c), f))
                /\ EmptyFits(col, f)
                     \/ (server = "PostgreSQL" /\ x.op \in {"type", "default"} /\ T(c) # Absent /\ ~EmptyFits(T(c), f))
            BY <2>6, <3>1, <4>2, <5>2
          <6>2. recorded = 2 => DefaultFits(T(c), f) /\ EmptyFits(T(c), f)
            BY <4>1, <5>2 DEF AsScheme, Right
          <6>3. recorded = 2 => AsScheme(c, col, f)'
            BY <2>11, <3>1, <5>2, <6>1, <6>2 DEF AsScheme, Right
          <6>4. CASE server = "MySQL"
            <7>1. Right(c, col, f) BY <6>1, <6>4 DEF Right
            <7> QED BY <1>1, <2>11, <3>1, <5>2, <6>1, <6>3, <6>4, <7>1 DEF Coming
          <6>5. CASE server = "PostgreSQL"
            <7>1. DefaultFits(col, f) \/ Left("default", c)'
              BY <2>7, <4>1, <5>2, <6>1, <6>5 DEF Coming
            <7>2. EmptyFits(col, f) \/ Left("empty", c)'
              BY <2>7, <4>1, <5>2, <6>1, <6>5 DEF Coming
            <7> QED BY <1>1, <2>11, <3>1, <5>2, <6>1, <6>3, <6>5, <7>1, <7>2 DEF Coming
          <6> QED BY <6>4, <6>5 DEF IInv, TargetInv
        <5> QED BY <5>1, <5>2
      <4>3. CASE ~(x.op \in ColumnOps /\ c = x.on)
        <5>1. col = T(c) BY <2>5, <3>1, <4>3
        <5>2. \A op \in ColumnOps : Left(op, c)' <=> Left(op, c) BY <2>7, <4>3
        <5>3. AsScheme(c, col, f) => AsScheme(c, col, f)' BY <1>1, RightStays
        <5>4. Coming(c, col, f)'
          <6>1. Coming(c, col, f) BY <4>1, <5>1
          <6> QED BY <1>1, <2>11, <3>1, <5>2, <6>1 DEF Coming, ColumnOps
        <5> QED BY <4>1, <5>1, <5>3, <5>4
      <4> QED BY <4>2, <4>3
    <3>2. ASSUME NEW c \in Columns PROVE Coming(c, T(c), F(c))' /\ (recorded = 2 => AsScheme(c, T(c), F(c))')
      <4> SUFFICES ASSUME NEW col, col = T(c)', NEW f, f = F(c)
                   PROVE  Coming(c, T(c), F(c))' /\ (recorded = 2 => AsScheme(c, T(c), F(c))')
        OBVIOUS
      <4>1. F(c)' = f BY <2>4
      <4> QED BY <3>1, <4>1 DEF Coming, AsScheme, Right
    <3> QED BY <1>1, <1>3, <3>2 DEF ColumnsInv, AllRight, Building, Kinds
  <2>13. KeysInv'
    <3> SUFFICES ASSUME server = "MySQL" PROVE KeysInv'
      BY <1>1 DEF KeysInv
    <3>1. KeysComing /\ OrderInv BY <1>1 DEF IInv, KeysInv
    <3>2. Storage(target)' = Storage(target) BY <1>1 DEF Storage
    <3>3. KeysComing'
      <4>1. \A i \in table'.indexes : Left("drop index", i)' BY <2>2, <2>7, <3>1 DEF KeysComing
      <4>2. \A u \in table'.uniques : Left("drop unique", u)' BY <2>2, <2>7, <3>1 DEF KeysComing
      <4>3. \A r \in table'.relations : Left("drop relation", r)' \/ r \in target.relations
        BY <2>2, <2>7, <3>1 DEF KeysComing
      <4>4. table'.storage = Storage(target) \/ [op |-> "storage", on |-> target.storage] \in commands'
        <5>1. x.op # "storage" => [op |-> "storage", on |-> target.storage] # x OBVIOUS
        <5>2. table.storage = Storage(target) \/ [op |-> "storage", on |-> target.storage] \in commands
          BY <3>1 DEF KeysComing, Left
        <5> QED BY <1>3, <2>2, <5>1, <5>2
      <4> QED BY <1>1, <1>3, <3>1, <3>2, <4>1, <4>2, <4>3, <4>4 DEF KeysComing, Left
    <3>4. OrderInv' BY <1>1, <1>3 DEF OrderInv, Building, Kinds
    <3>5. ~(recorded' = 2 /\ ~misread') BY <1>1 DEF IInv, ControlInv
    <3> QED BY <1>1, <1>3, <3>3, <3>4, <3>5 DEF KeysInv, Building, Kinds
  <2> QED BY <2>1, <2>8, <2>9, <2>10, <2>12, <2>13 DEF IInv
<1>4. CASE /\ NotExecuted(Executable(x)) /\ Return("error")
           /\ commands' = {} /\ plan' = NoPlan /\ UNCHANGED table
  BY <1>1, <1>2, <1>4, NoPlanTyped, FailureKeeps
<1> QED BY <1>3, <1>4 DEF Command

-----------------------------------------------------------------------------
LEMMA InitInv == ASSUME Init PROVE IInv
<1> PICK u \in Upgrades :
      /\ target = u[2]
      /\ \/ table = NoTable /\ recorded = 0
         \/ /\ recorded = 1
            /\ \E S \in SUBSET {c \in Columns : u[1].fields[c] # Absent} :
                 table = [columns   |-> [c \in Columns |-> IF c \in S THEN AddedColumn(u[1].fields[c])
                                                           ELSE CreatedColumns(u[1])[c]],
                          indexes   |-> u[1].indexes, uniques |-> u[1].uniques,
                          relations |-> Effective(u[1].relations, Storage(u[1])),
                          storage   |-> Storage(u[1])]
            /\ ~TooWide(table.columns)
  BY DEF Init
<1>1. TargetInv BY UpgradesType DEF Init, TargetInv, F
<1>2. ScriptsInv /\ PlanInv BY DEF Init, ScriptsInv, PlanInv, NoPlan
<1>3. TableInv
  <2>1. CASE table = NoTable /\ recorded = 0 BY <2>1 DEF Init, TableInv
  <2>2. CASE recorded = 1 /\ table # NoTable
    <3>1. PICK S \in SUBSET {c \in Columns : u[1].fields[c] # Absent} :
            table = [columns   |-> [c \in Columns |-> IF c \in S THEN AddedColumn(u[1].fields[c])
                                                      ELSE CreatedColumns(u[1])[c]],
                     indexes   |-> u[1].indexes, uniques |-> u[1].uniques,
                     relations |-> Effective(u[1].relations, Storage(u[1])),
                     storage   |-> Storage(u[1])]
      BY <2>2
    <3> DEFINE columns == [c \in Columns |-> IF c \in S THEN AddedColumn(u[1].fields[c])
                                             ELSE CreatedColumns(u[1])[c]]
    <3>2. /\ u[1] \in Scheme
          /\ \A c \in Columns : u[1].fields[c] # Absent => u[1].fields[c].type # "unknown"
      BY UpgradesType
    <3>3. \A c \in Columns : u[1].fields[c] \in Field \cup {Absent} BY <3>2, SchemeType
    <3>4. /\ \A c \in Columns : CreatedColumns(u[1])[c] \in Column \cup {Absent}
          /\ server = "PostgreSQL" => \A c \in Columns : CreatedColumns(u[1])[c] # Absent =>
                                        PostgreSqlColumn(CreatedColumns(u[1])[c])
      BY <1>1, <3>2, CreatedColumnsType
    <3>5. ASSUME NEW c \in S
          PROVE  /\ AddedColumn(u[1].fields[c]) \in Column
                 /\ server = "PostgreSQL" => PostgreSqlColumn(AddedColumn(u[1].fields[c]))
      <4>1. u[1].fields[c] \in Field /\ u[1].fields[c].type # "unknown" BY <3>2, <3>3
      <4> QED BY <1>1, <4>1, AddedFits
    <3>6. ASSUME NEW c \in Columns
          PROVE  /\ columns[c] \in Column \cup {Absent}
                 /\ server = "PostgreSQL" /\ columns[c] # Absent => PostgreSqlColumn(columns[c])
      BY <3>4, <3>5
    <3>7. columns \in [Columns -> Column \cup {Absent}] BY <3>6
    <3>8. table.columns = columns BY <3>1
    <3> HIDE DEF columns
    <3>9. table \in Table
      <4>1. /\ u[1].indexes \subseteq Indexes /\ u[1].uniques \subseteq Uniques
            /\ u[1].relations \subseteq Relations /\ Storage(u[1]) \in {"MyISAM", "InnoDB"}
        BY <3>2, SchemeType
      <4>2. Effective(u[1].relations, Storage(u[1])) \subseteq Relations BY <4>1 DEF Effective
      <4>3. table = [columns   |-> columns, indexes |-> u[1].indexes, uniques |-> u[1].uniques,
                     relations |-> Effective(u[1].relations, Storage(u[1])), storage |-> Storage(u[1])]
        BY <3>1 DEF columns
      <4> QED BY <3>7, <4>1, <4>2, <4>3 DEF Table
    <3> QED BY <2>2, <3>6, <3>8, <3>9 DEF TableInv, T
  <2>3. CASE recorded = 1 /\ table = NoTable BY <2>3 DEF Init, TableInv
  <2> QED BY <2>1, <2>2, <2>3
<1>4. ControlInv
  <2>1. recorded \in {0, 1} OBVIOUS
  <2>2. 0 \in 0..MaxFaults BY ConstantsType
  <2>3. /\ pc = "idle" /\ creating = FALSE /\ misread = FALSE /\ result = "none"
        /\ faults = 0 /\ missed = {} /\ unnoticed = {}
    BY DEF Init
  <2>4. creating \in BOOLEAN /\ misread \in BOOLEAN BY <2>3
  <2>5. recorded \in 0..2 /\ recorded # 2 BY <2>1
  <2> QED BY <2>2, <2>3, <2>4, <2>5 DEF ControlInv
<1>5. ColumnsInv /\ KeysInv BY DEF Init, ColumnsInv, KeysInv, OrderInv, Building, Kinds
<1> QED BY <1>1, <1>2, <1>3, <1>4, <1>5 DEF IInv

LEMMA NextKeeps == IInv /\ [Next]_vars => IInv'
<1> SUFFICES ASSUME IInv, [Next]_vars PROVE IInv'
  OBVIOUS
<1>1. CASE Start BY <1>1, StartKeeps
<1>2. CASE StartMisread BY <1>2, StartMisreadKeeps
<1>3. CASE Create BY <1>3, CreateKeeps
<1>4. CASE Load BY <1>4, LoadKeeps
<1>5. CASE CommandsDone BY <1>5, CommandsDoneKeeps
<1>6. CASE BuildKey BY <1>6, AddUniqueKeeps, CreateIndexKeeps, BuildRelationKeeps DEF BuildKey
<1>7. CASE KeysDone BY <1>7, KeysDoneKeeps
<1>8. CASE SetTableEngine BY <1>8, SetTableEngineKeeps
<1>9. CASE Record BY <1>9, RecordKeeps
<1>10. CASE \E x \in commands : Command(x) BY <1>10, CommandKeeps
<1>11. CASE Crash BY <1>11, CrashKeeps
<1>12. CASE UNCHANGED vars BY <1>12, StutterKeeps
<1>13. CASE Rest BY <1>13, StutterKeeps DEF Rest
<1> QED BY <1>1, <1>2, <1>3, <1>4, <1>5, <1>6, <1>7, <1>8, <1>9, <1>10, <1>11, <1>12, <1>13 DEF Next, Step

(* The invariant holds. *)
LEMMA Invariant == Spec => []IInv
BY InitInv, NextKeeps, PTL DEF Spec

(* In whatever order calls begin, fail and are begun again, a column or key is
   only ever altered that the table can have, and columns are of the types the
   converters know. *)
THEOREM SchemeTypeCorrect == Spec => []TypeOK
<1>1. IInv => TypeOK
  <2> SUFFICES ASSUME IInv PROVE TypeOK
    OBVIOUS
  <2>1. \A x \in commands : x.op \in {"add", "type", "default", "empty", "drop", "modify"} => x.on \in Columns
    BY CommandFacts DEF ColumnOps
  <2>2. plan.indexes \subseteq Indexes /\ plan.uniques \subseteq Uniques /\ plan.relations \subseteq Relations
    BY DEF IInv, PlanInv
  <2> QED BY <2>1, <2>2 DEF TypeOK, IInv, TargetInv, TableInv, ControlInv, Building, Kinds
<1> QED BY <1>1, Invariant, PTL

LEMMA AllRightIs == ASSUME AllRight PROVE ColumnsRight
<1> SUFFICES ASSUME NEW c \in Columns
             PROVE  /\ T(c) = Absent <=> F(c) = Absent
                    /\ F(c) # Absent => RightDefault(c) /\ RightEmpty(c) /\ (RightType(c) \/ c \in unnoticed)
  BY DEF ColumnsRight
<1>1. AsScheme(c, T(c), F(c)) BY DEF AllRight
<1>2. DefaultFits(T(c), F(c)) => RightDefault(c) BY DEF DefaultFits, RightDefault
<1>3. EmptyFits(T(c), F(c)) => RightEmpty(c) BY DEF EmptyFits, RightEmpty
<1>4. TypeFits(T(c), F(c)) => RightType(c) BY DEF TypeFits, RightType
<1> QED BY <1>1, <1>2, <1>3, <1>4 DEF AsScheme, Right

(* A table at the version of its scheme has the columns of the scheme, with the
   exceptions ColumnsRight names, whether createTable made it or the updater
   altered it, in both databases, after any failures and crashes. *)
THEOREM AlteredAsCreated == Spec => []ColumnsAsRecorded
<1>1. IInv => ColumnsAsRecorded BY AllRightIs DEF IInv, ColumnsInv, ColumnsAsRecorded
<1> QED BY <1>1, Invariant, PTL

(* A table of MySQL at the version of its scheme has the keys and the storage
   engine of the scheme and no others, except those whose loss the updater does
   not notice. *)
THEOREM KeysAreAsRecorded == Spec => []KeysAsRecorded
<1>1. IInv => KeysAsRecorded BY DEF IInv, KeysInv, KeysRight, KeysAsRecorded
<1> QED BY <1>1, Invariant, PTL

-----------------------------------------------------------------------------
(* ImplementsTableUpdates.  The structure of the table, as TableUpdates has it. *)
Shape == IF table = NoTable THEN "none" ELSE IF ColumnsRight THEN "right" ELSE "wrong"

LEMMA ShapeStays ==
  ASSUME UNCHANGED <<server, target, table, unnoticed>> PROVE Shape' = Shape
<1>1. ASSUME NEW c \in Columns
      PROVE  /\ T(c)' = T(c) /\ F(c)' = F(c)
             /\ RightDefault(c)' <=> RightDefault(c)
             /\ RightEmpty(c)' <=> RightEmpty(c)
             /\ RightType(c)' <=> RightType(c)
  <2>1. T(c)' = T(c) /\ F(c)' = F(c) BY DEF T, F
  <2>2. Unread(T(c))' <=> Unread(T(c)) BY <2>1 DEF Unread
  <2>3. RightDefault(c)' <=> RightDefault(c) BY <2>1, <2>2 DEF RightDefault
  <2>4. RightEmpty(c)' <=> RightEmpty(c) BY <2>1 DEF RightEmpty
  <2>5. Defined(F(c), T(c).default, T(c).nullable)' = Defined(F(c), T(c).default, T(c).nullable)
    BY <2>1 DEF Defined, Mapped
  <2>6. RightType(c)' <=> RightType(c) BY <2>1, <2>5 DEF RightType
  <2> QED BY <2>1, <2>3, <2>4, <2>6
<1>2. ColumnsRight' <=> ColumnsRight BY <1>1 DEF ColumnsRight
<1> QED BY <1>2 DEF Shape

(* Between two statements the table may change in any way, since it is not
   recorded, or its version was read wrong. *)
LEMMA WorkRefines ==
  ASSUME IInv, pc # "idle", pc' # "idle", UNCHANGED <<recorded, misread>>
  PROVE  Updates!Next
<1>1. recorded = 2 => misread BY DEF IInv, ControlInv
<1>2. Shape \in {"none", "right", "wrong"} /\ Shape' \in {"none", "right", "wrong"} BY DEF Shape
<1>3. [t \in {"table"} |-> Shape'] = [[t \in {"table"} |-> Shape] EXCEPT !["table"] = Shape']
  OBVIOUS
<1>4. Updates!Change("table") BY <1>1, <1>2, <1>3 DEF Updates!Change, Shape
<1> QED BY <1>4 DEF Updates!Next

LEMMA FailRefines ==
  ASSUME UNCHANGED <<server, target, table, unnoticed, recorded, misread>>,
         pc' = "idle", result' \in {"error", "none"}
  PROVE  Updates!Next
<1>1. Shape' = Shape BY ShapeStays
<1>2. Updates!Fail BY <1>1 DEF Updates!Fail, Shape
<1> QED BY <1>2 DEF Updates!Next

LEMMA StartRefines == ASSUME IInv, Start PROVE Updates!Next
<1>1. Shape' = Shape BY ShapeStays DEF Start, fixed, history
<1>2. pc' # "idle" /\ pc = "idle" /\ result # "working" BY DEF Start, Goto, IInv, ControlInv
<1>3. Updates!Begin BY <1>1, <1>2 DEF Updates!Begin, Shape, Start, history
<1> QED BY <1>3 DEF Updates!Next

LEMMA StartMisreadRefines == ASSUME IInv, StartMisread PROVE Updates!Next
<1>1. Shape' = Shape BY ShapeStays DEF StartMisread, fixed
<1>2. pc' # "idle" /\ misread' BY DEF StartMisread, Goto
<1>3. Updates!Doubt("table") BY <1>1, <1>2 DEF Updates!Doubt, Shape, StartMisread
<1> QED BY <1>3 DEF Updates!Next

LEMMA RecordRefines == ASSUME IInv, Record PROVE Updates!Next
<1> USE DEF fixed, history
<1>1. pc = "record" BY DEF Record
<1>2. Shape = "right"
  <2>1. AllRight /\ table # NoTable
    BY <1>1, TableThere, ConstantsType DEF IInv, ColumnsInv, Building
  <2> QED BY <2>1, AllRightIs DEF Shape
<1>3. Shape' = Shape BY ShapeStays DEF Record
<1>4. CASE Executed(TRUE) /\ Return("ok") /\ recorded' = 2
  <2>1. Updates!Record("table") BY <1>1, <1>2, <1>3, <1>4 DEF Updates!Record, Shape, Return, Record
  <2> QED BY <2>1 DEF Updates!Next
<1>5. CASE NotExecuted(TRUE) /\ Return("error") /\ UNCHANGED recorded
  BY <1>5, FailRefines DEF Record, Return
<1> QED BY <1>4, <1>5 DEF Record

LEMMA BuildKeyRefines == ASSUME IInv, BuildKey PROVE Updates!Next
<1> USE DEF fixed, history
<1>1. PICK k \in Keys : AddUnique(k) \/ CreateIndex(k) \/ BuildRelation(k) BY DEF BuildKey
<1>2. /\ pc # "idle" /\ UNCHANGED <<server, target, recorded, unnoticed, misread>>
      /\ pc' # "idle" \/ (pc' = "idle" /\ result' = "error" /\ UNCHANGED table)
  <2>1. CASE AddUnique(k) BY <2>1 DEF AddUnique, BuildFails, Goto, Return
  <2>2. CASE CreateIndex(k) BY <2>2 DEF CreateIndex, BuildFails, Goto, Return
  <2>3. CASE BuildRelation(k) BY <2>3 DEF BuildRelation, BuildFails, Goto, Return
  <2> QED BY <1>1, <2>1, <2>2, <2>3
<1> QED BY <1>2, WorkRefines, FailRefines

(* A statement is executed and the call goes on, or it fails and the call ends. *)
LEMMA StatementRefines ==
  ASSUME IInv, Create \/ Load \/ SetTableEngine \/ CommandsDone \/ KeysDone \/ \E x \in commands : Command(x)
  PROVE  Updates!Next
<1> USE DEF fixed, history
<1>1. /\ pc # "idle" /\ UNCHANGED <<server, target, recorded, misread>>
      /\ pc' # "idle" \/ (pc' = "idle" /\ result' = "error" /\ UNCHANGED <<table, unnoticed>>)
  <2>1. CASE Create BY <2>1 DEF Create, Goto, Return
  <2>2. CASE Load BY <2>2 DEF Load, Goto, Return
  <2>3. CASE SetTableEngine BY <2>3 DEF SetTableEngine, Goto, Return
  <2>4. CASE CommandsDone BY <2>4 DEF CommandsDone, Goto
  <2>5. CASE KeysDone BY <2>5 DEF KeysDone, Goto, AfterKeys
  <2>6. CASE \E x \in commands : Command(x) BY <2>6 DEF Command, Return
  <2> QED BY <2>1, <2>2, <2>3, <2>4, <2>5, <2>6
<1> QED BY <1>1, WorkRefines, FailRefines

LEMMA InitRefines == Init => Updates!Init
<1> SUFFICES ASSUME Init PROVE Updates!Init
  OBVIOUS
<1>1. Shape \in {"none", "right", "wrong"} BY DEF Shape
<1>2. recorded # 2 BY DEF Init
<1> QED BY <1>1, <1>2 DEF Updates!Init, Shape, Init

LEMMA StepRefines == IInv /\ [Next]_vars => [Updates!Next]_(Updates!vars)
<1> SUFFICES ASSUME IInv, [Next]_vars PROVE [Updates!Next]_(Updates!vars)
  OBVIOUS
<1>1. CASE Next /\ ~Rest
  <2>1. CASE Crash BY <2>1, FailRefines DEF Crash, fixed, history
  <2> QED BY <1>1, <2>1, StartRefines, StartMisreadRefines, RecordRefines, BuildKeyRefines, StatementRefines
          DEF Next, Step
<1>2. CASE UNCHANGED vars \/ Rest
  <2>1. UNCHANGED <<server, target, table, unnoticed, recorded, misread, pc, result>>
    BY <1>2 DEF Rest, vars, fixed, history
  <2>2. Shape' = Shape BY <2>1, ShapeStays
  <2> QED BY <2>1, <2>2 DEF Updates!vars, Shape
<1> QED BY <1>1, <1>2

(* The statements of one update, down to those that alter single features of a
   column, implement TableUpdates: a table that is recorded is not touched
   unless its version was read wrong, and a version is recorded only of a table
   that has the columns of its scheme. *)
THEOREM SchemeUpdateImplements == Spec => ImplementsTableUpdates
<1>1. Init => Updates!Init
  BY InitRefines
<1>2. IInv /\ [Next]_vars => [Updates!Next]_(Updates!vars)
  BY StepRefines
<1>3. Spec => []IInv
  BY Invariant
<1>4. QED
  BY <1>1, <1>2, <1>3, PTL DEF Spec, ImplementsTableUpdates, Updates!Spec
=============================================================================
