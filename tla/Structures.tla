------------------------------ MODULE Structures ------------------------------
(***************************************************************************)
(* What a server process knows of the entities: the schemes SchemeReader   *)
(* read and keeps, the structures EntitiesStructureCache made of them, and *)
(* the entities DbStructureUpdater added, whose default rows are inserted  *)
(* at the end of an update.  All of it is lost with the process.           *)
(*                                                                         *)
(* Migration has the statements that bring a table to its scheme; here a   *)
(* table is brought there in one step, and the question is which schemes   *)
(* an update works with, and what becomes of the default rows.             *)
(***************************************************************************)
EXTENDS Integers

CONSTANTS
  Names,        \* entities; one stands for the scheme of its table and those of
                \* the enum types its columns have
  Contents,     \* the entities that entities/ and frozen/373/ have a scheme for
  WithDefaults, \* the entities defaults/ has rows for
  Keyed,        \* those of them whose rows have keys
  Lenient,      \* entities all of whose columns may be left out of an INSERT
  None,
  MaxFaults,    \* bound: files and statements that fail by accident, restarts
  MaxUpdates    \* bound: calls of update and resetTables

Directories == {"entities", "frozen"}

ASSUME StructuresAssumption ==
  /\ None \notin Directories
  /\ Contents \in [Directories -> (SUBSET Names) \ {{}}]
  /\ Contents["frozen"] \subseteq Contents["entities"]
  /\ WithDefaults \subseteq Contents["entities"] /\ Keyed \subseteq WithDefaults
  /\ Lenient \subseteq Names
  /\ MaxFaults \in Nat /\ MaxUpdates \in Nat

VARIABLES
  server,        \* "MySQL" or "PostgreSQL"
  tables,        \* 0: not there, 1: as in frozen/, 2: as in entities/
  defaults,      \* how often the default rows of a table were inserted
  schemaCache,   \* SchemeReader: the schemes of a directory it has read
  structures,    \* EntitiesStructureCache: the directory the fields of an
                 \* entity are from (with them its version), or None
  types,         \* the directory the types of its fields are from, or None
  enumTypes,     \* the directory the values of its enum types are from, or None
  loadedPath,    \* EntitiesStructureCache: the directory it was loaded from
  addedEntities, \* DbStructureUpdater: the tables this process created
  call,          \* the call at work: "custom" (the part of update before the
                 \* automatic one), "auto", "reset"
  pc, dir,       \* what is executed next, on which directory
  todo,          \* the entities that are left
  unread,        \* entities whose default rows were parsed without a structure
  result,        \* what the last call returned
  faults, updates, \* accidents and calls so far (bounds)
  threw,         \* history: a readSchemes of this process threw
  lost,          \* history: tables whose process ended, or whose resetTables
                 \* failed, before their default rows were inserted
  again,         \* history: tables a process created and inserted default
                 \* rows into, before it was told to update once more; and
                 \* those whose rows resetTables inserted without their schemes
  blank          \* history: tables that got rows parsed without a structure

known    == <<structures, types, enumTypes>>
memory   == <<schemaCache, known, loadedPath, addedEntities>>
control  == <<call, pc, dir, todo, unread, result>>
history  == <<threw, lost, again, blank>>
structuresVars == <<server, tables, defaults, memory, control, faults, updates, history>>

Nothing == [n \in Names |-> None]

Executed(can)    == can /\ UNCHANGED faults
NotExecuted(can) == IF can THEN faults < MaxFaults /\ faults' = faults + 1 ELSE UNCHANGED faults

Goto(p)   == pc' = p /\ UNCHANGED result
Return(r) == pc' = "idle" /\ result' = r /\ todo' = {}

(* The structures of all schemes of a directory. *)
Whole(d) == [n \in Names |-> IF d # None /\ n \in Contents[d] THEN d ELSE None]

(* An empty database or one that is up to date, and a process that has just
   been started, or has already updated the latter. *)
StructuresInit ==
  /\ server \in {"MySQL", "PostgreSQL"}
  /\ \/ tables = [n \in Names |-> 0] /\ defaults = [n \in Names |-> 0]
     \/ /\ tables = [n \in Names |-> IF n \in Contents["entities"] THEN 2 ELSE 0]
        /\ defaults = [n \in Names |-> IF n \in WithDefaults THEN 1 ELSE 0]
  /\ \/ /\ schemaCache = [d \in Directories |-> {}] /\ loadedPath = None
        /\ structures = Nothing /\ types = Nothing /\ enumTypes = Nothing
     \/ /\ \A n \in Contents["entities"] : tables[n] = 2
        /\ schemaCache = [d \in Directories |-> IF d = "entities" THEN Contents[d] ELSE {}]
        /\ structures = Whole("entities") /\ types = structures /\ enumTypes = structures
        /\ loadedPath = "entities"
  /\ addedEntities = {}
  /\ call = "auto" /\ pc = "idle" /\ dir = "entities" /\ todo = {} /\ unread = {}
  /\ result = "none" /\ faults = 0 /\ updates = 0
  /\ threw = FALSE /\ lost = {} /\ again = {} /\ blank = {}

-----------------------------------------------------------------------------
(* DatabaseManager::update, with or without the custom update before the
   automatic one (373 begins with createVersionsTable, which reads entities/),
   and DatabaseManager::resetTables. *)
Start(c) ==
  /\ pc = "idle" /\ updates < MaxUpdates /\ updates' = updates + 1
  /\ call' = c /\ dir' = "entities"
  /\ Goto(IF c = "auto" THEN "load" ELSE "read")
  /\ again' = again \cup {n \in addedEntities : defaults[n] > 0 \/ n \in blank}
  /\ UNCHANGED <<server, tables, defaults, memory, todo, unread, faults, threw, lost, blank>>

(* The process ends and is started again: what it knew is gone. *)
Restart ==
  /\ faults < MaxFaults /\ faults' = faults + 1
  /\ schemaCache' = [d \in Directories |-> {}]
  /\ structures' = Nothing /\ types' = Nothing /\ enumTypes' = Nothing
  /\ loadedPath' = None /\ addedEntities' = {}
  /\ pc' = "idle" /\ todo' = {} /\ unread' = {} /\ result' = "none"
  /\ threw' = FALSE
  /\ lost' = lost \cup {n \in addedEntities : defaults[n] = 0}
  /\ UNCHANGED <<server, tables, defaults, call, dir, updates, again, blank>>

-----------------------------------------------------------------------------
(* A slip: what was known is kept. *)
Kept == structures

(* EntitiesStructureCache::clear: of the fields and versions. *)
Cleared == Nothing

(* EntitiesStructureCache::loadCache, which forgets the fields and their types
   first, so that it knows none while the schemes are read, and ever after if
   that fails.  No lock keeps a request from looking in between. *)
Load ==
  /\ pc = "load"
  /\ IF loadedPath = dir THEN Goto("schemes") /\ UNCHANGED structures
     ELSE Goto("clear") /\ structures' = Cleared
  /\ UNCHANGED <<server, tables, defaults, schemaCache, types, enumTypes, loadedPath,
                 addedEntities, call, dir, todo, unread, faults, updates, history>>

(* The rest of clear; it leaves the values of the enum types. *)
Clear ==
  /\ pc = "clear" /\ types' = Nothing
  /\ Goto("read")
  /\ UNCHANGED <<server, tables, defaults, schemaCache, structures, enumTypes, loadedPath,
                 addedEntities, call, dir, todo, unread, faults, updates, history>>

(* createVersionsTable and resetTables read entities/ without loadCache. *)
Loads == ~(call = "reset" \/ (call = "custom" /\ dir = "entities"))

(* A slip: the structures are not filled. *)
AfterReadOnly == "schemes"

AfterRead == IF Loads THEN "fill" ELSE "schemes"

(* Whether readSchemes returns what it has: all that was pushed so far. *)
Cached(d) == schemaCache[d] # {}

Read ==
  /\ pc = "read"
  /\ IF Cached(dir) THEN Goto(AfterRead) ELSE Goto("files")
  /\ UNCHANGED <<server, tables, defaults, memory, call, dir, todo, unread,
                 faults, updates, history>>

(* readSchemes reads the files in the order of the directory. *)
ReadFile(n) ==
  /\ pc = "files" /\ n \in Contents[dir] \ schemaCache[dir]
  /\ schemaCache' = [schemaCache EXCEPT ![dir] = @ \cup {n}]
  /\ UNCHANGED <<server, tables, defaults, known, loadedPath, addedEntities,
                 control, faults, updates, history>>

FilesRead ==
  /\ pc = "files" /\ schemaCache[dir] = Contents[dir]
  /\ Goto(AfterRead)
  /\ UNCHANGED <<server, tables, defaults, memory, call, dir, todo, unread,
                 faults, updates, history>>

(* A file that is no scheme, or a path that is no directory: the exception
   leaves the schemes that were pushed. *)
ReadThrows ==
  /\ pc = "files" /\ faults < MaxFaults /\ faults' = faults + 1
  /\ Return("error") /\ threw' = TRUE
  /\ UNCHANGED <<server, tables, defaults, memory, call, dir, unread, updates, lost, again, blank>>

(* loadCache takes over the schemes one by one, of each the fields first, then
   their types. *)
Fill(n) ==
  /\ pc = "fill" /\ n \in schemaCache[dir] /\ structures[n] # dir
  /\ \A m \in Names : structures[m] = dir => types[m] = dir
  /\ structures' = [structures EXCEPT ![n] = dir]
  /\ UNCHANGED <<server, tables, defaults, schemaCache, types, enumTypes, loadedPath,
                 addedEntities, control, faults, updates, history>>

FillTypes(n) ==
  /\ pc = "fill" /\ structures[n] = dir /\ types[n] # dir
  /\ types' = [types EXCEPT ![n] = dir] /\ enumTypes' = [enumTypes EXCEPT ![n] = dir]
  /\ UNCHANGED <<server, tables, defaults, schemaCache, structures, loadedPath,
                 addedEntities, control, faults, updates, history>>

Filled ==
  /\ pc = "fill" /\ \A n \in schemaCache[dir] : types[n] = dir
  /\ loadedPath' = dir
  /\ Goto("schemes")
  /\ UNCHANGED <<server, tables, defaults, schemaCache, known, addedEntities,
                 call, dir, todo, unread, faults, updates, history>>

-----------------------------------------------------------------------------
(* With the schemes read: the custom update continues with frozen/, the others
   with the tables.  createVersionsTable drops the versions; it is Migration
   that says what this does to the tables. *)
Schemes ==
  /\ pc = "schemes"
  /\ IF call = "custom" /\ dir = "entities"
     THEN dir' = "frozen" /\ Goto("load") /\ UNCHANGED todo
     ELSE todo' = schemaCache[dir] /\ Goto("tables") /\ UNCHANGED dir
  /\ UNCHANGED <<server, tables, defaults, memory, call, unread, faults, updates, history>>

(* A statement of the custom update fails: update does not look at the code it
   returns, and goes on with the automatic part. *)
CustomFails ==
  /\ pc = "schemes" /\ call = "custom" /\ dir = "entities" /\ NotExecuted(TRUE)
  /\ call' = "auto" /\ Goto("load")
  /\ UNCHANGED <<server, tables, defaults, memory, dir, todo, unread, updates, history>>

(* A slip: the version after it. *)
WantedNext == IF dir = "frozen" THEN 2 ELSE 3

(* The version of the schemes in the directory at work. *)
Wanted == IF dir = "frozen" THEN 1 ELSE 2

(* A slip: the table that failed is passed over. *)
BringFailsUnnoticed(n) == todo' = todo \ {n} /\ UNCHANGED <<pc, result>>

(* DbStructureUpdater throws, also in the custom update, which catches nothing here. *)
BringFails(n) == Return("error")

(* resetTables creates every table anew, DbStructureUpdater::update those that
   are not there, and it brings the others to their schemes. *)
Bring(n) ==
  /\ pc = "tables" /\ n \in todo
  /\ LET create == call = "reset" \/ tables[n] = 0
     IN  \/ /\ Executed(TRUE) /\ UNCHANGED <<pc, result>>
            /\ todo' = todo \ {n}
            /\ tables' = [tables EXCEPT ![n] = IF @ > Wanted THEN @ ELSE Wanted]
            /\ defaults' = [defaults EXCEPT ![n] = IF create THEN 0 ELSE @]
            /\ addedEntities' = IF create /\ call # "reset" THEN addedEntities \cup {n} ELSE addedEntities
            /\ blank' = IF create THEN blank \ {n} ELSE blank
            /\ again' = IF create THEN again \ {n} ELSE again
            /\ lost' = IF ~create THEN lost ELSE IF call = "reset" THEN lost \cup {n} ELSE lost \ {n}
         \/ /\ NotExecuted(TRUE) /\ BringFails(n)
            /\ UNCHANGED <<tables, defaults, addedEntities, blank, again, lost>>
  /\ UNCHANGED <<server, schemaCache, known, loadedPath, call, dir, unread, updates, threw>>

(* After the tables of frozen/ come those of entities/, then the default rows. *)
TablesDone ==
  /\ pc = "tables" /\ todo = {}
  /\ IF call = "custom" THEN call' = "auto" /\ dir' = "entities" /\ Goto("load")
     ELSE Goto("defaults") /\ UNCHANGED <<call, dir>>
  /\ UNCHANGED <<server, tables, defaults, memory, todo, unread, faults, updates, history>>

-----------------------------------------------------------------------------
(* A slip: every entity gets its rows. *)
EntitledAll == WithDefaults

(* The entities whose rows are to be inserted. *)
Entitled == IF call = "reset" THEN WithDefaults ELSE addedEntities \cap WithDefaults

(* extractEntities: the rows of an entity without structure have no fields. *)
Fieldless == {n \in WithDefaults : types[n] = None}

(* readAllEntities, which throws if one file cannot be read. *)
ReadDefaults ==
  /\ pc = "defaults"
  /\ \/ /\ Executed(TRUE) /\ Goto("insert")
        /\ unread' = Fieldless
        /\ todo' = Entitled
        /\ again' = again \cup {n \in todo' : call = "reset" /\ n \notin schemaCache[dir]}
     \/ NotExecuted(TRUE) /\ Return("error") /\ UNCHANGED <<unread, again>>
  /\ UNCHANGED <<server, tables, defaults, memory, call, dir, updates, threw, lost, blank>>

(* Whether the database accepts them: the keys of the rows are not in use yet,
   or the rows are empty and the columns may be. *)
Accepted(n) ==
  /\ tables[n] # 0
  /\ IF n \in unread THEN server = "MySQL" /\ n \in Lenient
     ELSE n \in Keyed => defaults[n] = 0

(* resetTables and addDefaults: addEntities, an INSERT for each entity. *)
InsertDefaults(n) ==
  /\ pc = "insert" /\ n \in todo
  /\ \/ /\ Executed(Accepted(n)) /\ UNCHANGED <<pc, result>>
        /\ todo' = todo \ {n}
        /\ defaults' = [defaults EXCEPT ![n] = IF n \in unread THEN @ ELSE @ + 1]
        /\ blank' = IF n \in unread THEN blank \cup {n} ELSE blank
        /\ lost' = lost \ {n}
     \/ NotExecuted(Accepted(n)) /\ Return("error") /\ UNCHANGED <<defaults, blank, lost>>
  /\ UNCHANGED <<server, tables, memory, call, dir, unread, updates, threw, again>>

(* The list of added entities is kept. *)
Done ==
  /\ pc = "insert" /\ todo = {}
  /\ Return("ok")
  /\ UNCHANGED <<server, tables, defaults, memory, call, dir, unread, faults, updates, history>>

-----------------------------------------------------------------------------
StructuresStep ==
  \/ Load \/ Clear \/ Read \/ FilesRead \/ ReadThrows \/ Filled \/ Schemes \/ CustomFails
  \/ TablesDone \/ ReadDefaults \/ Done
  \/ \E n \in Names : ReadFile(n) \/ Fill(n) \/ FillTypes(n) \/ Bring(n) \/ InsertDefaults(n)

StructuresNext ==
  (\E c \in {"custom", "auto", "reset"} : Start(c)) \/ Restart \/ StructuresStep

StructuresSpec == StructuresInit /\ [][StructuresNext]_structuresVars

-----------------------------------------------------------------------------
(* The type invariant. *)
StructuresTypeOK ==
  /\ server \in {"MySQL", "PostgreSQL"}
  /\ tables \in [Names -> 0..2] /\ defaults \in [Names -> Nat]
  /\ schemaCache \in [Directories -> SUBSET Names]
  /\ \A f \in {structures, types, enumTypes} : f \in [Names -> Directories \cup {None}]
  /\ loadedPath \in Directories \cup {None}
  /\ addedEntities \subseteq Names
  /\ call \in {"custom", "auto", "reset"} /\ dir \in Directories
  /\ pc \in {"idle", "load", "clear", "read", "files", "fill", "schemes", "tables", "defaults", "insert"}
  /\ todo \subseteq Names /\ unread \subseteq WithDefaults
  /\ result \in {"none", "ok", "error"}
  /\ faults \in 0..MaxFaults /\ updates \in 0..MaxUpdates
  /\ threw \in BOOLEAN
  /\ lost \subseteq Names /\ again \subseteq Names /\ blank \subseteq Names

(* When the structures are not being loaded, the fields and their types are
   those of all the schemes in the directory the cache says it was loaded from,
   and of no other; the enum types of that directory have the values they have
   there, also after another directory was loaded in between (others may be left
   of that one: clear keeps them).  Unless reading schemes threw in this process. *)
KnowledgeIsWhole ==
  (pc \in {"clear", "read", "files", "fill"} => ~Loads) /\ ~threw =>
    /\ structures = Whole(loadedPath) /\ types = structures
    /\ \A n \in Names : types[n] # None => enumTypes[n] = types[n]

(* An update that says it succeeded has brought every entity to its scheme in
   entities/, also when it follows calls that failed, unless reading schemes
   threw in this process: the next call takes the schemes that were read
   before the exception for all there are. *)
OkMeansAll ==
  pc = "idle" /\ result = "ok" /\ ~threw =>
    \A n \in Contents["entities"] : tables[n] = 2

(* After a call that says it succeeded a table has its default rows once.  The
   exceptions: the process that created the table ended, or the resetTables
   that did failed, before it inserted them; the process inserted them and was
   told to update once more (the list of added entities is never cleared);
   resetTables, which inserts the rows of every table, worked with what was left
   of a readSchemes that threw; the rows were parsed when the structure of the
   entity was not known. *)
DefaultsOnce ==
  pc = "idle" /\ result = "ok" =>
    \A n \in WithDefaults : tables[n] # 0 =>
      \/ defaults[n] = 1
      \/ defaults[n] = 0 /\ n \in lost \cup blank
      \/ defaults[n] > 1 /\ n \in again

(* Default rows are parsed without a structure only if reading schemes threw
   in this process, or resetTables was called when no update had loaded the
   structures yet. *)
ParsedWithStructure ==
  pc = "insert" /\ unread # {} => threw \/ (call = "reset" /\ loadedPath # "entities")
=============================================================================
