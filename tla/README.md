# Verification of MVCRUDES

MVCRUDES is the data layer of a server: schemes of tables in JSON files, a
database (PostgreSQL or MySQL) that is brought to those schemes at start, CRUD
requests on the tables as JSON entities, an in-memory copy of some tables, and
events about every change to subscribers in the process and, through a gate, in
remote clients (a Java example client is included).  This directory holds TLA+
models of it, the TLC configurations that check them, and proofs that TLAPS
checks.

    tlc -workers 2 -config EntitiesCacheSafety.cfg MCEntitiesCache
    tlc -workers 2 -config MigrationSafety.cfg MCMigration
    tlc -workers 2 -config SchemeUpdate.cfg MCSchemeUpdate
    tlc -workers 2 -config Requests.cfg MCRequests
    tlc -workers 2 -config FilterParser.cfg MCFilterParser
    tlc -workers 2 -config ClientCache.cfg MCClientCache
    tlapm ClientCacheProofs.tla        (and the other ...Proofs modules)

Paths below are relative to `src/src/database/`; the Java client is in
`src/src/examples/java_client`.

## Inventory

| component | state | operations | talks to | modelled in |
|---|---|---|---|---|
| `cache/EntitiesCache`, `EntitiesCacheActualizationTask` | a list of entities per cached type, each under its mutex | constructor, `getCache`, callback (`addEntity`, `removeEntity`, `updateEntity`), `calculateData`; a reload is asked for every 5 s | reads the CRUD controller, announces through the provider, is a subscriber of the listener | `EntitiesCache` |
| `provider/JsonEntityProvider`, `JsonProviderWithFilteredSpeaker`, `JsonEntityListener` | list of subscribers under a mutex | `create`, `read`, `update`, `remove` with the checks of fields; `notifySubscribers` | CRUD controllers, structures, cache, subscribers | `Requests` (checks), `EntitiesCache` and `ClientCache` (announcements) |
| `controllers/*/…CrudController` | none (the `SQL_MODE` of a connection, in MySQL) | `loadEntities`, `addEntities`, `updateEntities`, `removeEntities`: a statement or more per type, no transaction | SQL, structures | `Requests`, `Filters` (WHERE) |
| `reader/SchemeReader`, `cache/EntitiesStructureCache` | parsed schemes, fields and enum types | `readSchemes`, `readAllEntities`, `loadCache`, `clear` | JSON files; looked up by every request | `Structures` |
| `manager/DatabaseManager`, `update/DbUpdater`, `DbStructureUpdater` | the controllers, `addedEntities` | `update`, `resetTables`: custom updates, the schemes of `entities/`, default rows | all of the above | `Migration`, `Structures` |
| `update/custom/373` | none (it writes DBVER) | one long list of queries, `frozen/373` | SQL, structure updater | `Migration` |
| `controllers/*/…DatabaseController` | none | `createTable`, `dropTable`, `getEntityVersion`, `upsertTableVersion`, `resetDatabases` | SQL | `Migration` (PostgreSQL), `SchemeUpdate` |
| `controllers/*/…SchemeLoader`, `…SchemeUpdater` | none | read the actual structure, execute the difference to a scheme | SQL | `SchemeUpdate` |
| types converters | none | types, lengths and values of JSON, SQL and back | used everywhere | `SchemeUpdate`, `Requests` |
| `provider/JsonEntityFilter`, WHERE clauses, `JsonFilter` | a filter | does an entity pass, in memory, in SQL, in the client; the client's parser of filter strings | reads, events | `Filters`, `FilterParser`, `ParsedFilters` |
| `provider/SimpleGateJsonEntityProvider` | gate subscriptions | requests of remote clients, events to them, the rights and filters of profiles | provider, listener | `Requests`, `ClientCache` |
| Java client | `JsonEntityProvider` and `JsonEntityCache` with their `needInit` flags | reads, listener of events, listeners of the connection | the gate | `ClientCache` |
| Java mapping layer | none | JSON to objects by reflection | the client | not modelled |

What is hard here: no database operation is in a transaction, so every statement
of a request or of an update can fail, or be the last one before a crash, on its
own; copies of the tables are fed by parties that do not wait for each other
(request threads, the reload, the gate, the client's threads); the update runs
again at each start on whatever the last run left behind; and what a process
knows of its entities is forgotten and read again while it serves requests.  The
full list, each with its line and the properties that cover it, is `hazards` in
`PROJECT.json`.

What makes each component correct:

* cache and events: a read from the cache and one from the table agree; events
  are true; differences do not last;
* update: a recorded version is true, success means the schemes are in force and
  new tables have their default rows once, rows are not lost, every start makes
  progress;
* scheme reader and structures: what is known is whole, or nothing is built on it;
* scheme updaters: altering a table gives what creating it would give;
* requests: each object gets the key of its own row, what was asked for is
  stored, a failed request changes nothing and leaves nothing behind on the
  connection, and every call leaves the pool as it found it;
* filters: memory, database and client select the same entities, and a filter
  string means what it says;
* gate and client: a subscriber's copy is equal to the table when nothing is on
  its way, no read finds it half loaded, no thread waits for ever.

The code keeps none of these without exceptions.  Each property names the
exceptions one by one, in its comment and by history variables that are set
where the exception arises, so that everything else is claimed in full, and so
that a new way for it to fail is found.

## Modules

How they are composed:

    TableUpdates  <= implemented by =  Migration (MigrationRefinement)
                  <= implemented by =  SchemeUpdate
    Structures    <= extended and implemented by =  Requests
    FilterParser, Filters  <= extended by =  ParsedFilters;  Filters also in MCClientCache
    EntitiesCache, ClientCache: on their own

Modules named `MC...` give the constants values for TLC, modules named
`...Proofs` hold the theorems.  Definitions whose comment begins with "A slip"
are variants of the definition that follows them, as a plausible bug would have
them; no specification uses them.

### `EntitiesCache`

The database tables of the cached types, the lists of `EntitiesCache`, any number of client
threads and the reload.

| state | code |
|---|---|
| `table` | the rows in the database; `Stored` is what a row written from an object reads back as |
| `data` | `EntitiesCache::data`: the list of a type as a bag (how often each entity is in it); no code depends on its order |
| `loading`, `subscribed` | how far the constructor is |
| `op` | per client thread: the step of `create`, `update` or `remove` it is at, and the events it has left to announce |
| `needUpdate`, `calcPc`, `calcName`, `calcTodo`, `newData`, `changes` | the reload that was asked for, and the locals of `calculateData` |

The actions follow the statements and the locks: `Create` is the INSERT,
`CreateFails` one that is committed before `queryLastAutoId` or the INSERT of the
next group of objects fails, which tells the caller of an error and nobody of
the row, `Update`/`Reload` the UPDATE and the SELECT that reads back its rows,
`Remove`/`Delete` the SELECT of what will be announced and the DELETE, `Notify`
one call of the callback, `CalcLoad`, `CalcSwap`, `CalcNotify` the three parts of
`calculateData`.  A callback is one step because `notifySubscribers` holds the
mutex of the listener through it.  `Changes`, which compares the old list with
the new rows, is a library: which of several copies of one key it compares is
left open (`Diffs`).

`disturbed` and `writes` are not in the code.  `writes` bounds the number of
requests and outside writes that are started.  `disturbed[n]` is a history
variable: it is set when a write of type `n` starts while another request of the
type or its reload is under way, when another program writes the table, and when
a request fails behind a statement that was committed (`CreateFails`,
`ReloadFails`); it is reset when a reload of the type reads the table and no
request is under way.  `SerialConsistency` and `EventsTruthful` say what the code
promises where `disturbed[n]` is false, up to the form a row is stored in, which
an object that is announced by `create` does not have yet; `Converges` says what
it promises in every other case.  The two violation runs show that nothing stronger holds.

### `TableUpdates`

What an update of the database promises of its tables, whatever statements it
consists of: `structure` of each table ("none", "right", "wrong" to its
scheme), `recorded`, `doubted` (its version was read wrong at some time) and
`call`.  A recorded table is not touched until the record is gone, a table is
recorded only when it is right, and a call succeeds only when all are.

### `Migration`, `MigrationRefinement`

`DatabaseManager::update` and `resetTables` down to the SQL statements of the
PostgreSQL controllers.  One process executes; between any two statements it may
die, and any statement may fail by accident.

| state | code |
|---|---|
| `tables` | each table: the definition of each column, `keyed` (unique constraints, indexes, foreign keys built), `rows` (users have written to it), `filled` (default rows inserted) |
| `types` | the enum types, which PostgreSQL keeps apart from the tables |
| `versions` | the rows of TABLESVERSIONS, 0 where there is none |
| `migrated`, `applied` | DBVER is 373; which groups of queries of `CustomUpdate373` were executed |
| `pc`, `phase`, `todo`, `tab`, `found`, `scripts`, `added`, `result` | the statement about to be executed, and the locals and members (`addedEntities`) it depends on |

`Executed(can)` / `NotExecuted(can)` are the two outcomes of a statement: `can`
is what PostgreSQL needs to accept it (the table exists, its type does not, the
target of a foreign key exists, ON CONFLICT finds the unique key).  Where `can`
is false the statement fails; where it is true it may fail by accident, within
`MaxFaults`.  The action goes on as the code does after its `catch`: ignored
(`DropTable`), counted as "no" (`LookTable`), returned (`InitFails`), thrown to
`DbUpdater::update` (`Return("error")`) or dropped by `makeCustomUpdates`
(`CustomFails`).

`misread` is a history variable: the tables `getEntityVersion` was wrong about
because its SELECTs failed by accident.  Such a table may be dropped and created
again, or altered to an older structure, under its recorded version; each
property excepts it by name.

`MigrationRefinement` maps this state to `TableUpdates`: `Structured`,
`Recorded`, `Doubted`, `Call`.  TABLESVERSIONS itself is left aside, since its
own version is one of the rows it loses when it is dropped.

Abstractions: the statements that build the keys of one table are one step, and
so are those of one column in `updateCurrentScheme` (`SchemeUpdate` has them one
by one); what the queries of 373 change is only kept as `applied`, by groups that
can be repeated or not; the directory order is arbitrary.  What the statements of
`updateCurrentScheme` make of a column is a constant, `Altered(d, e)`: the
definition a column of definition `d` has after the statements that are to make it
`e`.  It need not be `e`, since a default that is a boolean or a float is not
changed (`PostgreSqlSchemeUpdater.cpp:142`) and a field without "can be empty" is
added with NOT NULL (l.89) although CREATE TABLE makes it nullable; the proofs
assume of it only that doing it once more changes nothing.  `Refused(d, e)` is
what PostgreSQL refuses for the types alone, or, for a column that is added, in a
table with rows.  Left out: statements that leave the column as it is, and an
ALTER that the values in the rows refuse (SET NOT NULL over a null, a text that is
too long).  `VersionIsTrue` accordingly says of each column of a recorded table
that it is as CREATE TABLE or ADD COLUMN makes it, or such that the updater
would leave it as it is (`Fits`).  `DbverRows` says whether the
row DBVER that 373 updates may be missing; nothing is written then
(`CustomUpdate373.cpp:222`), and every start runs 373 again.

### `SchemeUpdate`

One table and the scheme it is brought to, in both databases: `createTable`,
`getActualScheme`, `updateCurrentScheme` with every script they execute.

| state | code |
|---|---|
| `server`, `target` | the controllers that are used; the scheme in `entities/` |
| `table` | the definition of each column (SQL type, length, default, nullable), and by name its indexes, unique sets, foreign keys, and its storage engine |
| `recorded` | its version in TABLESVERSIONS: none, old, that of the target |
| `pc`, `creating`, `commands`, `plan` | what is executed next; the scripts left (`Rank` is their order); the keys left to build after them |

`MySqlType`, `PostgreSqlType` and their inverses are the types converters,
`MySqlField` and `PostgreSqlField` the scheme loaders, `CreatedColumn`,
`AddedColumn`, `ModifiedColumn` the statements' builders,
`CreatedColumns`/`Width`/`Shrunk` what MySQL's `createTable` does about the
limit of a row, `MySqlCommands`, `MySqlPlan` and `PostgreSqlCommands` the
comparison of the two schemes, `Executable` and `Effect` what a server makes of
a script (an index a foreign key needs is not dropped, a row is not made too
wide, a column takes its keys with it).

History: `missed` (keys dropped and not rebuilt, or not built and not noticed),
`unnoticed` (columns whose type changed and that got no MODIFY), `misread`.

`Changed` compares the features of two columns as `StructureField.cpp:34` does, by
number first: a scheme always has a `DefaultValue` among them, null if none is
given (`SchemeReader.cpp:266-292`), the loader of MySQL only if it read one.  A
column without a default is therefore changed at every update, and its keys are
dropped and built again; those that are dropped for good (`Forgotten`) are of
columns that all have a default and did not change.

Dead ends (`Wedged`), of MySQL: `Nameless` (the scheme names no engine and the
table has another than MyISAM: `databaseEngines.at` throws at every start),
`Pinned` (an index a foreign key needs is dropped before the foreign key),
`Wide` (a statement would make the row too wide where `createTable` would have
chosen other types), and a table too wide to be created.  Of PostgreSQL: `Uncast`,
a type there is no assignment cast to, since ALTER COLUMN TYPE has USING for an enum
only (`PostgreSqlSchemeUpdater.cpp:130`).

Left out: what is refused because of the values in the rows (a text that is no
value of the enum, a null where none may be), the enum types of PostgreSQL (in `Migration`), the sequence an ID
column gets (`PostgreSqlSchemeUpdater.cpp:99`), the loaders of PostgreSQL's keys,
whose results its updater does not look at.

### `Structures`

What a server process knows of its entities while it updates the database and
after: everything that is lost with the process.

| state | code |
|---|---|
| `schemaCache` | the maps of `SchemeReader`: the schemes of a directory that were pushed so far |
| `structures`, `types`, `enumTypes`, `loadedPath` | `EntitiesStructureCache`: the directory each entity's fields (and version), the types of its fields, and the values of its enum types are from; the path of the last `loadCache` that returned |
| `addedEntities` | the member of `DbStructureUpdater` |
| `tables`, `defaults` | the version a table has been brought to, and how often its default rows were inserted |
| `call`, `pc`, `dir`, `todo`, `unread` | the call at work (`update` with or without a custom update, `resetTables`), and its locals |

A directory is read file by file, and a file may throw: what was pushed stays,
and is later taken for all there is (`Read`).  `loadCache` clears the fields and
then their types before it reads (`Load`, `Clear`), and fills one structure after
the other, its fields and then their types (`Fill`, `FillTypes`); nothing keeps a
request from looking in between.  `clear` leaves the values of enum types, so that
those of a directory loaded before are still there: `KnowledgeIsWhole` says that
the ones the loaded entities have are right, and not that there are no others.
`CustomFails` is a custom update that returns an error, which `update` does not
look at; an exception of `DbStructureUpdater` in it ends the call (`BringFails`),
since nothing catches it before `DbUpdater::update` does.  `readAllEntities`
parses the default rows with the structures that are known at the time
(`Fieldless`).  Bringing one table to its scheme is one step here, since
`Migration` has its statements.  History: `threw`, `lost`, `again`, `blank`, each
an exception of `DefaultsOnce`.

### `Requests`

Extends `Structures` with the requests of clients, each on a thread of its own,
from `SimpleGateJsonEntityProvider::onIncomingRequest` to the statements of the
CRUD controllers of both databases.

| state | code |
|---|---|
| `rows`, `next` | the rows of each table, by key and what became of the one text member; the next key it generates |
| `lax` | the connections of the pool whose SQL_MODE is not the server's |
| `thread` | per thread: where it is, the request, the `JsonEntity` objects, those still to be made or checked, the entity whose turn it is, its groups of objects, the connections held |
| `own` | the connection an update holds while it is at a table or at default rows |

`Receive` drops what the profile does not allow (`Asked`; what is left keeps its
positions), `Make` is the constructor of one `JsonEntity`, `Check`
`fillEntity`/`checkEntity` of one, `Take` the connection, `Turn` the next entity of
the map, `Insert`, `QueryKeys`, `UpdateRows`, `Reload`, `Look`, `DeleteRows` the
statements.  The structure of an entity is looked up for each object when it is
made and when it is checked, and once more for its statement, and
`UpdateStep`, which is any step of `Structures`, can come between any two of these
looks.  Two objects of one CREATE may therefore be made with and without their
members, and MySQL's controller, which tells them apart, inserts them with two
statements (`Torn`).  `Connect` is the connection an update takes from the same
pool, beside which it needs another one where a table is brought to its scheme.
`InsertThenFail` is MySQL's SET SQL_MODE failing after its INSERT.  History:
`blind`, `raced`, `tainted` of a thread and `spoiled` connections.

Abstractions: one member besides the key stands for all fields, and it is not
null (a null is kept also when nothing is known of the entity); a group of
objects is told apart by whether it has the key and that member; a statement of
several rows fails or succeeds as a whole, as both servers have it; the default
rows are not in `rows`.  Which key `queryLastAutoId` returns is the database
library's matter: the last one of the connection or of the table (`QueryKeys`
has both).

### `Filters`, `FilterParser`, `ParsedFilters`

`Filters` has the three evaluations of a filter: `IsFiltered`
(`JsonEntityFilter`), `Where` (the WHERE clause, with SQL's three truth values),
`IsFilteredByClient` (`JsonFilter`, what throws being FALSE for its callers).  A
filter is a tree of numbered JSON objects, of which groups name their members;
`Accepts` and `Evaluated` say what an object yields given what its members
yield, and the evaluations are the recursive functions over the objects that
satisfy them.  `Selects` and `AcceptedByAll` are the same for the group that
`combineFilters` makes of a client's filter and those of its profile.
`FilterParser` is the constructor of `JsonFilter`, a step for each token, beside
a reference semantics of the string (`levels`: AND before OR, parentheses) built
from the same tokens.  TLC thereby goes through every string of the condition
lists; at the end of each, `MeaningOf` of the result is compared with the
reference.  `ParsedFilters` takes the tree the parser has made (`ParsedFilter`)
and compares the three evaluations with each other on every row
(`FilteredAlike`), and with the string (`FilteredAsWritten`): what a condition is
true of is defined there on its own (`IsTrue`), with IS and NIS true of null and of
everything else, and not by an evaluation of the code.  A READ selects exactly the
rows the string is true of; the filter of events, under which IS and NIS are never
true (`JsonEntityFilter.cpp:60-86`), up to nulls.

### `ClientCache`

The copy of some tables a Java client keeps, the gate it reads them through, and
the events the gate sends.

| state | code |
|---|---|
| `table`, `announcing`, `known` | the server: the rows as stored, what a request thread has still to announce, whether the structures are known |
| `connected`, `subscribed`, `queue` | the connection, the gate's subscription of it, what was sent and not received yet (replies and events) |
| `need`, `settled` | the `needInit` flags of the client's two singletons; those that were ever cleared (a thread may see an old value then) |
| `untold` | listeners of the connection that have not been called |
| `copy` | `JsonEntityCache.cache` |
| `user` | each thread that reads: where it is in `getInstance`, `initializeCache` |

`Subscribe`, `Select`, `Reply` are the gate's three answers, which different
threads of it give; `Receive` is the client's receiving thread, which hands out
replies and applies events; `Clear`, `PutRow`, `Loaded`, `InitDone` are
`initializeCache`.

What is announced is what the code has at hand: of a created row the object the
client sent, which the database may store in another form (`Stored`), of the
others the row as it was read back, without its fields when the structures are
not known (`ReadBack`, `Blank`).  `WriteSilently` is a request that fails behind a
committed statement, or another program: nobody is told.  Types in `Cached` are
read from `EntitiesCache` (`JsonEntityProvider.cpp:32`), which filters in memory and
may be behind: `Select` returns any rows for them, and `AnnounceReload` is an event
of the reload with any row, since how far `EntitiesCache` is behind is the matter of
`EntitiesCache`.  `excuse[n]` is history: something by which the copy of `n` may
differ from the table happened since it was last cleared.  It is set only where
that something does: a list that is returned counts if it is not what the
table has and no announcement is left that will tell, an announcement if it is
not true or not for the client (`Misses`).

Abstractions: a read calls `JsonEntityCache.getInstance` twice, the model once
(the first is like a read whose result nobody looks at); a row is one value.
`needInit` not being volatile is modelled as seeing an old TRUE or an old FALSE
(`Sees`), from when it was first cleared.

## Runs

| run | checks | instance | shows |
|---|---|---|---|
| cache_safety | `TypeOK`, `SerialConsistency`, `EventsTruthful`, `SerialInv` | 1 type, 2 keys, 2 clients, 3 writes, an object that reads back differently from what was sent | what goes wrong in the cache goes wrong through concurrency only, and what the cache promises where writes run alone, including after failures |
| cache_convergence | `Converges` | 2 types, 1 key, 2 clients, 2 writes | any difference is repaired after the last write |
| cache_duplicates | `NoDuplicateKeys` violated | no client, 1 outside write | the reload announces a new row to the cache, which appends it again |
| cache_stale | `AnsweredWritesVisible` violated | 1 client, no failure, no other writer | a reload undoes an answered write in the cache |
| migration_safety | `TypeOK`, `VersionIsTrue`, `OkMeansCurrent`, `OkMeansFilled`, `MigrationInv`, `RowsSurvive`, `Converges`, `ImplementsTableUpdates` | 3 tables, 2 columns, 2 versions, a change that is not made and one that is refused, 2 accidents or crashes, 1 reset | versions and success are true, rows survive, every table gets to its scheme or the database is in one of four dead ends; all of it is a behaviour of `TableUpdates` |
| migration_success | `OkMeansMigrated` violated | 1 accident | `update` returns 0 without the custom update |
| migration_keys | `VersionMeansKeyed` violated | no accident | a table without its foreign keys is recorded as current |
| migration_versions | `VersionsKept` violated | 1 accident | a rerun of 373 forgets every version |
| scheme_update | `TypeOK`, `ColumnsAsRecorded`, `KeysAsRecorded`, `Converges`, `ImplementsTableUpdates` | 2 columns, 16 pairs of schemes, 3 accidents or crashes, both servers | what a table altered statement by statement has in common with one that was created, and which keys and types it has not |
| requests | `RequestsTypeOK`, `PoolRestored`, `StructuresTypeOK`, `KnowledgeIsWhole`, `OkMeansAll`, `DefaultsOnce`, `ParsedWithStructure`, `ConnectionLeft`, `KeysTold`, `StoredAsAsked`, `FailureChangesNothing` | 2 entities, 2 threads and an update, 3 connections, 11 requests, 3 calls, 1 accident in a request, 2 in an update | what is stored and answered, and what an update works with |
| filters | `ParserTypeOK`, `ParsedAsWritten`, `FilteredAlike`, `FilteredAsWritten` | strings of up to 5 conditions, parentheses 2 deep, 3 profile filters | which strings lose their meaning, which rows the others select, and where the three evaluations differ |
| client_cache | `TypeOK`, `CopyFollows`, `ReadsWhole`, `NoneWaitsInVain` | 2 entities, one of them in `EntitiesCache`, 1 key, 2 readers, 2 writers, 2 changes or breaks | when the client's copy may differ from the table, and that nobody waits for ever |

The longest, migration_safety, takes about three minutes on two cores
(2 444 870 states), client_cache a minute and a half (4 894 857), cache_safety the
same (2 810 769), requests a minute (1 270 967).

### Bounds

Cache: the effects are per key and per type, so one type and two keys
show a request over several keys next to another request on one of them; two
clients and the reload are every kind of party that can overlap; three writes let
a request run between two others.  The second type in the convergence run is there for
the loop of `calculateData`, which a failure ends early.

Migration: the three
tables are the versions table, one with an enum column and a frozen scheme, and
one that refers to it; the second version of a scheme changes one column and adds
another, so an update has two statements that can be separated by a crash.  Two
accidents reach the double failure of `getEntityVersion`, a failure after a
failure, and a crash after a failure.  The run starts from every set of tables of a
database older than 373 and from every mixture of versions of a migrated one.
The dead ends of its `Converges` (`Wedged`) are all reachable: without any one of the
four the run finds a counterexample.  They are an enum type whose table is gone
(CREATE TYPE fails for ever), a column whose ALTER is refused, a versions table
without its unique key (ON CONFLICT fails for ever), and a recorded version that is
not true after a misread one.  In this run the row DBVER is there; the
theorems hold either way, and migration_versions has both.

Scheme update: the pairs of schemes hold each kind of difference the updaters
tell apart (type, length, default, nullability, added and removed columns and
keys, engines, a row that is too wide, no difference at all), both ways; two
columns are enough since columns meet only in the width of a row and in the
order of scripts, and a key is of one column.  Three accidents let an update
fail, its repetition fail, and the process die in the third.

Requests: two threads and an update are every kind of party; entity "a" has a
text that is required and limited, "b" has neither, and both have default rows,
those of "a" with keys that may be in use, so that
each check refuses something and lets something pass; the requests are with and
without keys, with key 0, of one and of two objects, of one and of two entities.
`MaxCalls` lets an update run with one request, or three requests overlap, while
updates without requests go up to `MaxUpdates`; two accidents in an update are
a failure and a restart.  Three connections leave one when two requests, or a
request and an update, are at work, and none when there are three.

Filters: five conditions and parentheses two deep reach every transition of the
parser: each of its branches needs at most a group below a group.  Values are
below, at and above those compared with, and null.

Client: two readers, one of them holding on to its `JsonEntityProvider` as
`Repository` does; two writers overlap; two changes are a write and a break,
two writes of a row, two breaks, or a failure and a write.  The profile's filter
is one that memory and SQL disagree on for null (`MCFilters`).  One of the values is
stored in another form than it is sent.

### Deadlock and fairness

Deadlock is checked in cache_*, migration_*, scheme_update and client_cache.
The requests run and the filters run end when their bounds are used up or the
string is parsed; `ConnectionLeft` and `NoneWaitsInVain` are the properties
about threads that wait for each other.

Cache: the task manager keeps calling the periodic task and runs the
single-shot task (`Tick`, `Calc` weakly fair), a thread finishes its request
(`ClientStep`), and the database does not refuse a SELECT for ever (`CalcLoad`
strongly fair per type, since a failure ends the run and disables it).  No
fairness is assumed of requests or outside writes.  Migration: the process goes
on (`Step`), and the server is started again, which calls `update` (`Update`).
Scheme update: the same (`Step`, `Start`).  Accidents are bounded, none is
forced.

## Proofs

All theorems hold for every value of the constants that satisfies the named
assumption of the module (`CacheAssumption`, `MigrationAssumption`,
`SchemeUpdateAssumption`, `StructuresAssumption`, `RequestsAssumption`,
`ParserAssumption`, `FiltersAssumption`, `ClientAssumption`), so for any number of types, tables, columns, keys, clients,
connections, writes, failures and crashes.

`EntitiesCacheProofs`:

* `TypeCorrect`: `Spec => []TypeOK`.
* `SerialInvariant`: `Spec => []SerialInv`, and from it `SerialConsistencyHolds`
  and `EventsAreTruthful`.  Neither property is inductive: between the statement
  of a request and its announcements the list is behind the table.  `SerialInv`
  says by how much: exactly the keys that have an event left, whose event is true
  (`Announcing`); the keys being updated (`Reloading`); none before a DELETE
  (`Deleting`); and a reload holds the table as it is and no request is under way
  with it.  The proof has one step per action; the lemmas above it state what
  adding and erasing does to the copies of a key, what the swap leaves, and that
  an announcement closes exactly the gap of its key.

`MigrationProofs`: `TypeCorrect`, `Spec => []TypeOK`.  It needs more than the
types: that `frozen` schemes exist where they are looked up, that a type is
dropped or created only for a table that has one, and that a table whose keys are
built is there (`FrozenInv`).

The other theorems of the module assume besides that no two tables share an enum type
(`NoSharedTypes`): `DROP TYPE ... CASCADE` takes the columns of the type from
every table, which the version of another table does not show.

* `MigrationInvariant`: `Spec => [](TypeInv /\ MigrationInv)`.  None of the
  properties below is inductive: that a version written is true depends on what
  the statements before it did to the table, and that 0 means success on what
  the whole loop did.  `MigrationInv` adds which steps belong to which phase
  (`PhaseInv`); that a table that is dropped, created or altered is not recorded
  as current, that only a missing table is dropped, that the columns with
  statements left are the only ones that do not fit their definition, and that the table is as wanted
  when its version is recorded (`WorkInv`); and that what the loop has behind it
  is done (`DoneInv`).  One lemma per action, `...Keeps`, with a step per
  conjunct.
* `VersionsAreTrue`, `SuccessIsTrue`, `SuccessIsFilled`: `VersionIsTrue`,
  `OkMeansCurrent` and `OkMeansFilled` follow from it.
* `RowsAlwaysSurvive`: `Spec => RowsSurvive`, by the actions that change tables
  (`RowsKept`).

* `MigrationImplements`: `Spec => Updates!Spec`.  The actions fall into four kinds
  by what they do to what `TableUpdates` speaks of: those that leave tables,
  versions and doubts alone, and those that change one of them.
  `MigrationInvariant` gives the guards of the abstract step.

`SchemeUpdateProofs`, for both databases, any columns and keys and any pairs of
schemes whose field types are known:

* `SchemeTypeCorrect`: `Spec => []TypeOK`.
* `AlteredAsCreated` and `KeysAreAsRecorded`, which are `ColumnsAsRecorded` and
  `KeysAsRecorded`.  Both speak of a table that is recorded, the scripts of one
  that is not, so neither is inductive.  The invariant `IInv` says of each column
  between two scripts that it is as the scheme has it, or the script that makes it
  so is among those left (`Coming`), and the same of the keys and the engine
  (`KeysComing`); that all columns are right once the scripts are executed
  (`AllRight`); and of the keys while they are built that each wanted one is
  there, planned or missed (`KeysBuilt`), kind after kind (`OrderInv`).  The
  lemmas before it say what the converters return and that each statement, CREATE
  TABLE with shrunk types, ADD, MODIFY and the ALTERs of one feature, makes a
  column that fits its field (`CreatedColumnsFit`, `AddedFits`, `ModifiedFits`,
  `RetypedFits`, `DefaultedFits`, `EmptiedFits`); that a column with no statement
  fits already, or differs in a way that is noted (`MySqlComing`,
  `PostgreSqlComing`); and that a script spoils nothing of its column
  (`AlteredFits`), where the order counts: the type of a column of PostgreSQL is
  changed before its other features.
* `SchemeUpdateImplements`: `Spec => Updates!Spec`.

`RequestsProofs`, on `Structures`: `StructuresTypeCorrect`, `KnowledgeStaysWhole`,
`SuccessIsComplete`, `DefaultsAreOnce` and `DefaultsAreParsed`, the five
properties of `Structures`.  The invariant (`IInv`) adds to them what a call
knows at each step: which steps belong to which call (`CallInv`); that without a
throw the schemes of a directory are all read or none, except while they are
read (`ReadInv`), what is known meanwhile (`LoadingInv`), and that the loop has
brought what it has behind it (`BroughtInv`); and that a table without its default
rows still gets them or is excepted, and a table that has them gets more only
"again" (`RowsInv`).

The same module, on `Requests`:

* `RequestsImplementStructures`: `RequestsSpec => StructuresSpec`, so that what
  is proved of `Structures` holds while requests are served
  (`ServingKeepsSuccess` is `OkMeansAll` of `Requests`).
* `ModesAreRestored`: `PoolRestored`.
* `ConnectionIsLeft`: `ConnectionLeft`, from the invariant that a thread holds
  at most one connection, and none when it is idle, and that the update holds at
  most one: the connections held are no more than the calls at work, so that one is
  left as long as these are fewer than the connections there are.  There is no
  assumption on the size of the pool; with as many calls as connections each may
  hold its one and need another.

`RequestAnswersProofs`, for any requests, threads, connections, failures,
updates and restarts, and both databases:

* `AnswersInvariant`: `RequestsSpec => []AnswersInv`.  None of the properties
  below is inductive: they speak of the answer, and what they need to know is
  spread over the statements before it.  `AnswersInv` says of every thread which
  statements are those of its request (`PlaceInv`); that the groups of objects are
  disjoint, not empty, and either all of the entity in one INSERT of PostgreSQL or
  of objects with the same members (`GroupsInv`); that keys are replaced only in a
  CREATE that asked for some, and members never, unless a structure was not known
  or the object is still to be made (`MadeInv`, `Unmade`); that what was stored so far was asked for (`KeptInv`); that an
  object has the key of its row, or its row is still to come or its key still to be
  queried (`KeysInv`); that the rows of the group whose keys are queried next are the
  last of their table (`LastInv`), which is what another INSERT breaks and
  `raced` notes; that a connection that is not noted as spoiled is none
  (`TaintInv`); and that a request of one statement (`Single`: neither `Several` nor
  `Torn`) has changed something only when no statement can follow (`OnceInv`).
* The lemmas `...Own` say what a step does to the record of its thread, each
  for one action; `RacedOwn` and `OtherRight` that the other threads only note
  that they were raced; the lemmas `...Right` put both together.  `Preceding`,
  `MinOf` and `MaxOf` are about positions in a group; the two answers a database
  may give to `queryLastAutoId` are the same if nothing came between
  (`LastKeysAgree`).
* `RequestsTypeCorrect`, `KeysAreTold`, `StoredIsAsked` and
  `FailuresChangeNothing`: `RequestsTypeOK`, `KeysTold`, `StoredAsAsked` and
  `FailureChangesNothing`.  An answer is a step of the thread itself
  (`AnsweredItself`); OK is said only when no entity and no group is left
  (`SaysOk`); and what fails in a request of one statement fails before it changed
  anything (`FailsOnce`).
* Two things the exceptions of `StoredAsAsked` depend on are easy to overlook: an
  UPDATE that names a row twice stores the first of the two texts, since the
  first WHEN of its CASE counts; and `has0Key` looks at the keys that were sent, before
  the INSERT of a group replaces some (`MySqlCrudController.cpp:126`).

`FilterParserProofs`, for strings with any conditions and parentheses of any
depth:

* `ParserTypeCorrect`: `Spec => []ParserTypeOK`.  That no condition is in two
  groups of several members is not inductive: closing a parenthesis moves the
  only member of a group to the group below.  `TypeInv` adds that such a group has
  left the stack for good (`OnceInv`), that the stack is made of different groups
  (`ChildrenRight`), and that no group on it has itself or one below as a member
  (`AboveInv`).
* `FiltersMeanTheirStrings`: `Spec => []ParsedAsWritten`.  The property speaks of
  the end of the string; the invariant (`WrittenInv`) says of every moment, unless
  a parenthesis was tangled, that nothing was refused and that the stack agrees
  with what is written (`SemInv`).  Each open parenthesis has a place on the stack
  (`Placed`), of one group, or of two while it is behind an AND after an OR: the
  OR and upon it the AND, which is its last member (`LevelShape`).  What these
  groups mean is what the reference has collected for the level (`LevelMeans`).
  Groups off the stack refer only to groups off the stack (`ClosedInv`), so that
  what they mean no longer changes.
* What a group means is a recursive function of the groups (`Meanings`), and
  there is no induction to show that it is defined.  The invariant therefore carries
  that the meanings of the groups off the stack exist (`Denotes`: an `e` that
  agrees with `OfGroup` on each of them), and says the rest of all such `e`.  A
  group that leaves the stack is given its meaning then; at the end the first
  group leaves it, too, `e` is a fixed point, and so is `Meanings`.
* The exceptions `Tangles` and `TanglesAtEnd` are needed where an OR comes after
  the AND that a parenthesis begins with, since the type of the group below the
  parenthesis is asked for, and where a parenthesis is closed behind "or ...
  and", since the AND is taken from the stack and the OR left on it.

`FilteredProofs`, for any strings, any read filters of profiles without empty
groups, and any rows (`FiltersAssumption`: a comparison is with one number, and the
objects of a filter are a tree):

* `FiltersAreAlike`: `Spec => []FilteredAlike`.  An evaluation is a recursive
  function over the objects of a filter, and the prover has no induction to show
  that one exists.  It is replaced by numbers: a tree has a rank for each object,
  members below their group, and by induction on the rank (on a set of numbers,
  which needs no operator as parameter) there is a function that satisfies the
  equation on the objects up to it (`Solvable`, `TreeSolvable`); the same
  induction carries a statement from the members of a group to the group
  (`TreeInduction`).  The statement is `Alike`: without IS and NIS what the database
  finds true is accepted in memory, and without a null in a field that is looked
  at the two are equal.  `CombinedAlike` carries it to the group of a client's and
  its profile's filters.  `ClientAlike` compares the client's check with the server's:
  a member that throws makes the client refuse the row, never accept it, and
  without such nulls and groups in groups none throws.
* That what the parser makes is such a tree is an invariant of its own.
  `HasRank` says that the groups can be ranked, members below groups and the stack
  falling from the outermost group to the innermost, so that a group can be
  filled with what is closed above it; a new group goes between two ranks, which
  `Raised` makes room for.  `ShapeInv` adds (`Tidy`) that a group with a type is
  not empty and that a group that is a member has a type.  There is a lemma
  `...Ranks` for each branch of the parser.
* `FiltersSelectWhatTheirStringsSay`: `Spec => []FilteredAsWritten`.  The tree
  has a rank, so what its groups mean to the parser's proof (`Meanings`) and what
  `Where` evaluates to are both determined (`MeaningsSolved`, `WhereSolved`).
  `WhereIsTrue` compares the WHERE clause of a condition with `IsTrue`, and
  `WhereMeaning` shows by induction on the tree that the clause of a filter is true
  of a row exactly when the set of the conditions that are true of it is in the
  meaning, which is the string's by `FiltersMeanTheirStrings`.  What holds of the
  filter of events follows by `Alike`.

`ClientCacheProofs`: `ClientTypeCorrect`, `ReadsAreWhole` and
`NobodyWaitsInVain` from one invariant, `ClientInvariant`, which says who holds
which lock, that the flag of the cache is set while it is loaded, and that a
reply that is waited for is on its way exactly once; and `TheCopyFollows`,
`CopyFollows`, from a second one on top of it (`FollowInv`).  The copy of an
entity without excuse is the table as far as the client can know: each row is
what the copy will show once the rows that were read are put and the events
that were sent or are still to be announced are applied (`Follows`); an
entity is empty while its rows are waited for (`Emptied`); and without a
connection nothing is on its way, and there is an excuse or the flag will ask
for a load (`Cut`).

Only model-checked: the liveness properties (all `Converges`), which are out of
the prover's reach like everything about fairness and ENABLED, and the properties
of the violation runs, which are false.  Every other property of a run is a
theorem.

## Findings

The five violation runs, each against a sentence of the headers, are in
`PROJECT.json`.  Other places where the code and its comments differ, or where
an exception of a property is worth knowing, met while modelling:

* `IDatabaseController.h:78` gives -1 and -2 of `getEntityVersion` the
  opposite meaning of the code; the comment "Table doesn't exists"
  (`DbStructureUpdater.cpp:15`) is also reached by two SELECTs that fail.
* Default rows are lost when the process dies between `initTable` and
  `addDefaults`, since `addedEntities` is in memory only; it is never cleared
  either, so a second update of a process inserts them twice.  `resetTables`
  after a read of the schemes that threw creates only some tables anew and
  inserts the default rows of all.
* A rerun of 373 wipes TABLESVERSIONS, so the
  frozen schemes look newer than what is recorded and take current tables back to
  their old structure, dropping the columns added since with their data, before
  the automatic update adds them again, empty.
* In MySQL a change of type or length alone makes no statement; an update drops
  every index and does not build those again whose columns have a default and
  did not change (a column without a default always counts as changed, since the
  scheme has one feature more than what was loaded); and the first key that
  cannot be built ends the building of the others, unnoticed.
* In PostgreSQL a change of type is an ALTER COLUMN TYPE without USING
  (`PostgreSqlSchemeUpdater.cpp:130-134`), which the server refuses for types that
  have no cast of assignment: the table is refused at every start, its version
  is never recorded.
* `EntitiesStructureCache::clear` keeps the enum types, so those of a frozen
  directory are still known when the current one has been read.
* A MySQL CREATE with keys that overlaps the reading of the schemes may be split
  in two INSERTs, of which the first stays when the second fails.
* A CREATE with a key 0 that fails in MySQL leaves the connection in the mode it
  was switched to, for the next requests that take it.
* `JsonFilter` makes of "A and (B or C and D)" the filter A: the group of a
  parenthesis that ends inside an AND is lost.  Strings in which a parenthesis
  begins with an AND that an OR ends are refused, unless the parenthesis is
  itself an operand of AND.
* The client's copy is never loaded again when the connection breaks while it
  is loaded, since the end of the load clears the flag the break has set.

## Not modelled

* The Java mapping layer: reflection without state.
* `resetDatabases` (PostgreSQL's drops and creates the domain `mysql_bool`, MySQL's
  is empty) and the choice of controllers.
* ORDER BY, paging and display conditions of reads; reads with a set of fields.
* What the conversions of 373 do to the data; its queries are groups.
* The text of JSON and SQL: formatting and escaping of values, the syntax of a
  scheme (a file throws or does not), members that are null in a request; the
  text of a condition (`JsonFilter.java:149` looks the type up without upper case,
  so that a lower-case "is null" becomes a condition without a type).
* PostgreSQL: the sequence of an ID column, the loaders of keys.  MySQL:
  `tableExists` and `dropTable`, which do what PostgreSQL's do (`Migration`).
* Several types in one write of `EntitiesCache` (they are in `Requests`, without
  the cache), and subscribers whose callback does something else.
* `checkUniqueFields`, which nothing calls, and the comparison of two
  `JsonEntity`s.
* IS and NIS in the client's own check (what the JSON library makes of a null's
  string decides).
* Liveness of the client: that a copy is loaded at last depends on a connection
  that stays; `NoneWaitsInVain` is the safety part of it.

## What could follow

`EntitiesCache` and the gate's subscribers as subscribers of one listener, in
one module with `Requests`, to see a gate client's copy and the server's cache
side by side; `resetDatabases`.
