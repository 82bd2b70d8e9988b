------------------------------- MODULE Requests -------------------------------
(***************************************************************************)
(* The requests of clients that create, update and remove entities, from   *)
(* SimpleGateJsonEntityProvider::onIncomingRequest to the SQL statements   *)
(* of the CRUD controllers, while the process that serves them may be      *)
(* loading its structures (Structures).                                    *)
(*                                                                         *)
(* Every request runs on a thread of its own.  What a request knows of an  *)
(* entity it looks up each time it needs it: for each object when it is    *)
(* made of the JSON and when it is completed and checked, and when the     *)
(* statement is built.                                                     *)
(* There is no transaction around the statements of a request.             *)
(***************************************************************************)
EXTENDS Structures, Sequences, FiniteSets, FiniteSetsExt

CONSTANTS
  Threads, Connections, \* of the pool
  Required,     \* entities whose text cannot be empty and has no default
  Limited,      \* entities whose scheme gives the length of the text
  Requests,     \* the requests clients send
  MaxCalls,     \* bound: requests received, and updates, which count twice, once
                \* a request was received; without one MaxUpdates alone bounds them
  MaxAccidents  \* bound: statements of requests that fail by accident

(* A JSON object: the entity, the key (negative if it is to be generated), the
   one member besides, and whether the profile may update or remove it. *)
Texts == {"absent", "fit", "long", "wrong"}
Json  == [of : Names, key : Int, text : Texts, allowed : BOOLEAN]

(* A JsonEntity; "id" says whether its values have the key among them. *)
Entity == [of : Names, key : Int, id : BOOLEAN, text : {"absent", "fit", "long"}]

(* A row; "cut" is what MySQL makes of a value it would refuse in strict mode. *)
Stored == {"absent", "fit", "cut"}
Row    == [key : Int, text : Stored]

ASSUME RequestsAssumption ==
  /\ Required \subseteq Names /\ Limited \subseteq Names
  /\ Required \cap Lenient = {}
  /\ \A r \in Requests : r.op \in {"create", "update", "remove"} /\ r.objects \in Seq(Json)
  /\ None \notin Connections
  /\ IsFiniteSet(Connections) /\ IsFiniteSet(Threads)
  /\ MaxCalls \in Nat /\ MaxAccidents \in Nat

VARIABLES
  rows,      \* the rows of each table, default rows left aside
  next,      \* the next key a table generates
  lax,       \* the connections whose SQL_MODE is not the server's
  thread,    \* what each thread is doing
  requests, accidents, \* so far (bounds)
  own,       \* the connection the update holds while it is at a table, if any
  spoiled    \* history: connections on which a CREATE with a key 0 failed

requestVars == <<rows, next, lax, thread, requests, accidents, own, spoiled>>
vars        == <<structuresVars, requestVars>>

(* at:      where the thread is; "idle" after the answer
   op, asked: the request, of which only what the profile allows is left
   objects: the JsonEntities made of it, bare until they are made
   left:    the positions of those that are still to be made, then to be checked
   turns:   the entities whose turn is to come, then of, known, groups: the one
            whose turn it is, whether its structure is known, and the groups of
            objects (their positions) that get a statement of their own
   group:   the group whose statement was executed last
   held:    the connections the thread holds
   mine, kept: the keys and texts the database stored, by position
   changed, raced, blind, tainted: whether a statement was executed; whether another
            INSERT came between that of a group and the query of its keys;
            whether a structure that was looked up was not known; whether the
            connection was one that an earlier request spoiled *)
Idle == [at |-> "idle", op |-> "create", asked |-> <<>>, objects |-> <<>>, left |-> {}, turns |-> {},
         of |-> None, known |-> TRUE, groups |-> {}, group |-> {}, held |-> {},
         mine |-> <<>>, kept |-> <<>>, changed |-> FALSE, raced |-> FALSE, blind |-> FALSE,
         tainted |-> FALSE, answer |-> "none"]

Used == requests + 2 * updates

(* What getFieldsTypes and getFields find. *)
Known(n)       == types[n] # None
FieldsKnown(n) == structures[n] # None

Succeeds(can) == can /\ UNCHANGED accidents
Fails(can)    == IF can THEN accidents < MaxAccidents /\ accidents' = accidents + 1
                 ELSE UNCHANGED accidents

Free == Connections \ (own \cup UNION {thread[t].held : t \in Threads})

(* A slip: the connections are kept. *)
AnswerHolding(t, a) == thread' = [thread EXCEPT ![t] = [Idle EXCEPT !.answer = a, !.held = thread[t].held]]

(* onIncomingRequest's answer; the connections go back to the pool. *)
Answer(t, a) == thread' = [thread EXCEPT ![t] = [Idle EXCEPT !.answer = a]]

(* JsonEntity's constructor: members nothing is known of are dropped. *)
Bare(j) == [of |-> j.of, key |-> j.key, id |-> FALSE, text |-> "absent"]
Made(j) == IF Known(j.of) THEN [of |-> j.of, key |-> j.key, id |-> j.key >= 0, text |-> j.text] ELSE Bare(j)
Wrong(j) == Known(j.of) /\ j.text = "wrong"

RequestsInit ==
  /\ StructuresInit
  /\ rows = [n \in Names |-> {}] /\ next = [n \in Names |-> 1]
  /\ lax = {} /\ own = {} /\ spoiled = {}
  /\ thread = [t \in Threads |-> Idle]
  /\ requests = 0 /\ accidents = 0

-----------------------------------------------------------------------------
(* Objects the profile does not allow are left out, without a word in the
   answer; CREATE does not ask the profile.  The others keep their positions. *)
Asked(q) == [i \in {i \in DOMAIN q.objects : q.op = "create" \/ q.objects[i].allowed} |-> q.objects[i]]

(* CREATE, UPDATE and REMOVE. *)
Receive(t, q) ==
  /\ thread[t].at = "idle" /\ Used + 1 <= MaxCalls /\ requests' = requests + 1
  /\ LET asked == Asked(q)
     IN  thread' = [thread EXCEPT ![t] =
           [Idle EXCEPT !.at = IF DOMAIN asked = {} THEN "take" ELSE "make",
              !.op = q.op, !.asked = asked, !.left = DOMAIN asked,
              !.objects = [i \in DOMAIN asked |-> Bare(asked[i])],
              !.mine = [i \in DOMAIN asked |-> -1],
              !.kept = [i \in DOMAIN asked |-> "nothing"]]]
  /\ UNCHANGED <<structuresVars, own, rows, next, lax, accidents, spoiled>>

(* What follows when object i is done with: the next one, or with the last one
   made the checks, and with the last one checked the statements. *)
Passed(r, i) ==
  IF r.left # {i} THEN [r EXCEPT !.left = @ \ {i}]
  ELSE IF r.at = "make" /\ r.op # "remove" THEN [r EXCEPT !.at = "check", !.left = DOMAIN r.asked]
  ELSE [r EXCEPT !.at = "take", !.left = {}]

(* One object is made of the JSON. *)
Make(t) ==
  /\ thread[t].at = "make"
  /\ LET r == thread[t]
         i == Min(r.left)
     IN  IF Wrong(r.asked[i]) THEN Answer(t, "error")
         ELSE thread' = [thread EXCEPT ![t] =
                Passed([r EXCEPT !.objects[i] = Made(r.asked[i]),
                                 !.blind = @ \/ ~Known(r.asked[i].of)], i)]
  /\ UNCHANGED <<structuresVars, own, rows, next, lax, requests, accidents, spoiled>>

(* fillEntity of createImpl and checkEntity: a text that is missing, or too
   long for the scheme, is refused if the fields are known. *)
Refused(r, e) ==
  /\ FieldsKnown(e.of)
  /\ \/ r.op = "create" /\ e.text = "absent" /\ e.of \in Required
     \/ e.text = "long" /\ e.of \in Limited

(* One object is completed and checked.  Either looks the fields up; of the two
   it is only the one for a text that is missing, or the one for a text that is
   there, that can refuse the object. *)
Check(t) ==
  /\ thread[t].at = "check"
  /\ LET r == thread[t]
         i == Min(r.left)
     IN  IF Refused(r, r.objects[i]) THEN Answer(t, "error")
         ELSE thread' = [thread EXCEPT ![t] =
                Passed([r EXCEPT !.blind = @ \/ ~FieldsKnown(r.asked[i].of)], i)]
  /\ UNCHANGED <<structuresVars, own, rows, next, lax, requests, accidents, spoiled>>

(* addEntities, updateEntities, removeEntities: a connection for the whole call,
   and the objects by entity, in any order (the map is unordered). *)
Take(t) ==
  /\ thread[t].at = "take"
  /\ \E c \in Free :
       thread' = [thread EXCEPT ![t].at = "turn", ![t].held = {c}, ![t].tainted = c \in spoiled,
                    ![t].turns = {e.of : e \in {thread[t].objects[i] : i \in DOMAIN thread[t].objects}}]
  /\ UNCHANGED <<structuresVars, own, rows, next, lax, requests, accidents, spoiled>>

Of(r, n) == {i \in DOMAIN r.objects : r.objects[i].of = n}

(* The objects of an entity with the same values, for those controllers that
   tell them apart by the fields of the structure. *)
Alike(r, i, j) == r.objects[i].id = r.objects[j].id
                  /\ (r.objects[i].text = "absent" <=> r.objects[j].text = "absent")

(* A slip: the objects of an entity are not told apart. *)
GroupedByEntity(r, n) == {Of(r, n)}

Grouped(r, n) ==
  IF Known(n) /\ (r.op = "update" \/ (r.op = "create" /\ server = "MySQL"))
  THEN {{j \in Of(r, n) : Alike(r, i, j)} : i \in Of(r, n)}
  ELSE {Of(r, n)}

Statement(op) == CASE op = "create" -> "insert" [] op = "update" -> "update" [] OTHER -> "look"

Turn(t, n) ==
  /\ thread[t].at = "turn" /\ n \in thread[t].turns
  /\ thread' = [thread EXCEPT ![t].at = Statement(thread[t].op), ![t].turns = @ \ {n},
                  ![t].of = n, ![t].known = Known(n), ![t].blind = @ \/ ~Known(n),
                  ![t].groups = Grouped(thread[t], n)]
  /\ UNCHANGED <<structuresVars, own, rows, next, lax, requests, accidents, spoiled>>

TurnDone(t) ==
  /\ thread[t].at \in {"insert", "update"} /\ thread[t].groups = {}
  /\ thread' = [thread EXCEPT ![t].at = "turn"]
  /\ UNCHANGED <<structuresVars, own, rows, next, lax, requests, accidents, spoiled>>

AllDone(t) ==
  /\ thread[t].at = "turn" /\ thread[t].turns = {}
  /\ Answer(t, "ok")
  /\ UNCHANGED <<structuresVars, own, rows, next, lax, requests, accidents, spoiled>>

-----------------------------------------------------------------------------
(* addEntities: one INSERT for a group, with the columns of its first object. *)
First(g) == Min(g)
IdColumn(r, g)   == r.objects[First(g)].id
TextColumn(r, g) == r.objects[First(g)].text # "absent"

(* An object without one of the columns (value.at), or a string of a field of
   no known type (asInt), throws what nobody catches. *)
Throws(r, g) ==
  \/ IdColumn(r, g) /\ \E i \in g : ~r.objects[i].id
  \/ TextColumn(r, g) /\ (~r.known \/ \E i \in g : r.objects[i].text = "absent")

(* has0Key of MySQL: a key 0 among the objects of the entity, before any of them
   is given another. *)
HasZeroKey(r) == server = "MySQL" /\ \E i \in Of(r, r.of) : r.asked[i].key = 0

(* The keys of the rows: those given, or generated in the order of the objects. *)
KeyOf(r, g, i) ==
  IF IdColumn(r, g) THEN r.objects[i].key
  ELSE next[r.of] + Cardinality({j \in g : j < i})
KeysOf(r, g) == {KeyOf(r, g, i) : i \in g}

(* The texts: MySQL cuts what is too long, and makes up what is missing, when
   its mode is not strict. *)
Lax(r) == server = "MySQL" /\ (r.held \subseteq lax \/ HasZeroKey(r))
TextOf(r, g, i) ==
  IF ~TextColumn(r, g) THEN IF r.of \in Required THEN "cut" ELSE "absent"
  ELSE IF r.objects[i].text = "long" THEN "cut" ELSE "fit"

Insertable(r, g) ==
  /\ tables[r.of] # 0
  /\ IdColumn(r, g) \/ TextColumn(r, g) \/ server = "MySQL"
  /\ Cardinality(KeysOf(r, g)) = Cardinality(g)
  /\ \A w \in rows[r.of] : w.key \notin KeysOf(r, g)
  /\ Lax(r) \/ \A i \in g : TextOf(r, g, i) # "cut"

(* The next key after an INSERT: in MySQL it exceeds all keys, in PostgreSQL
   it is that of a sequence which only generated keys advance. *)
NextKey(r, g) ==
  IF ~IdColumn(r, g) THEN next[r.of] + Cardinality(g)
  ELSE IF server = "MySQL" THEN Max({next[r.of]} \cup {k + 1 : k \in KeysOf(r, g)})
  ELSE next[r.of]

(* Requests that wait for the keys of rows in a table that another INSERT got
   into, or that was created anew. *)
Raced(others, n) ==
  [u \in DOMAIN others |-> IF others[u].at = "keys" /\ others[u].of = n
                           THEN [others[u] EXCEPT !.raced = TRUE] ELSE others[u]]

(* A slip: the mode is not set back. *)
ModeKept(c) == lax \cup c

(* The mode of a connection after the INSERT: SET SESSION SQL_MODE = @OLD_SQL_MODE. *)
ModeAfter(c) == lax

(* A slip: the keys of objects that came with one are asked for, too. *)
AsksAlways(e) == TRUE

Asks(e) == e.key < 0

(* What the thread knows after the INSERT of a group. *)
Inserted(r, g) ==
  [r EXCEPT !.groups = @ \ {g}, !.group = g, !.changed = TRUE,
            !.at = IF Asks(r.objects[First(g)]) THEN "keys" ELSE "insert",
            !.mine = [i \in DOMAIN @ |-> IF i \in g THEN KeyOf(r, g, i) ELSE @[i]],
            !.kept = [i \in DOMAIN @ |-> IF i \in g THEN TextOf(r, g, i) ELSE @[i]]]

RowsOf(r, g) == {[key |-> KeyOf(r, g, i), text |-> TextOf(r, g, i)] : i \in g}

(* The connections of a request whose statements around its INSERT were left
   unfinished. *)
Spoiled(r) == IF HasZeroKey(r) THEN r.held ELSE {}

(* With a key 0 the statement is between two that set SQL_MODE and one that
   sets it back, in one try block. *)
Insert(t, g) ==
  LET r == thread[t] IN
  /\ r.at = "insert" /\ g \in r.groups
  /\ \/ /\ Throws(r, g) /\ Answer(t, "thrown")
        /\ UNCHANGED <<rows, next, lax, accidents, spoiled>>
     \/ /\ ~Throws(r, g) /\ Succeeds(Insertable(r, g))
        /\ rows' = [rows EXCEPT ![r.of] = @ \cup RowsOf(r, g)]
        /\ next' = [next EXCEPT ![r.of] = NextKey(r, g)]
        /\ thread' = [Raced(thread, r.of) EXCEPT ![t] = Inserted(r, g)]
        /\ lax' = IF HasZeroKey(r) THEN ModeAfter(r.held) ELSE lax
        /\ UNCHANGED spoiled
     \/ /\ ~Throws(r, g) /\ Fails(Insertable(r, g))
        /\ IF IdColumn(r, g) THEN Answer(t, "error") /\ UNCHANGED next
           ELSE /\ thread' = [Raced(thread, r.of) EXCEPT ![t] = [Idle EXCEPT !.answer = "error"]]
                /\ next' = [next EXCEPT ![r.of] = @ + 1]
        /\ lax' \in IF Insertable(r, g) THEN {lax, lax \cup Spoiled(r)} ELSE {lax \cup Spoiled(r)}
        /\ spoiled' = spoiled \cup Spoiled(r)
        /\ UNCHANGED rows
  /\ UNCHANGED <<structuresVars, own, requests>>

(* The INSERT succeeds and setting the mode back does not. *)
InsertThenFail(t, g) ==
  LET r == thread[t] IN
  /\ r.at = "insert" /\ g \in r.groups
  /\ ~Throws(r, g) /\ Insertable(r, g) /\ HasZeroKey(r) /\ Fails(TRUE)
  /\ rows' = [rows EXCEPT ![r.of] = @ \cup RowsOf(r, g)]
  /\ next' = [next EXCEPT ![r.of] = NextKey(r, g)]
  /\ thread' = [Raced(thread, r.of) EXCEPT ![t] = [Idle EXCEPT !.answer = "error"]]
  /\ lax' = lax \cup r.held /\ spoiled' = spoiled \cup r.held
  /\ UNCHANGED <<structuresVars, own, requests>>

(* A slip: the last key is taken for the first. *)
CountedOn(last, g) == last

FirstId(last, g) == last - Cardinality(g) + 1

(* queryLastAutoId, and the keys counted back from it.  Which key it returns
   is the database library's matter: the last one the table generated, or the
   last one it generated for this connection. *)
QueryKeys(t) ==
  LET r == thread[t] IN
  /\ r.at = "keys"
  /\ \/ /\ Succeeds(TRUE)
        /\ \E last \in {next[r.of] - 1, Max({r.mine[i] : i \in r.group})} :
             thread' = [thread EXCEPT ![t].at = "insert",
               ![t].objects = [i \in DOMAIN @ |->
                 IF i \notin r.group THEN @[i]
                 ELSE [@[i] EXCEPT !.id = TRUE,
                         !.key = FirstId(last, r.group) + Cardinality({j \in r.group : j < i})]]]
     \/ Fails(TRUE) /\ Answer(t, "error")
  /\ UNCHANGED <<structuresVars, own, rows, next, lax, requests, spoiled>>

-----------------------------------------------------------------------------
(* updateEntities: one UPDATE for a group, a CASE over the keys for each field. *)
Matched(r, g, w) == {i \in g : r.objects[i].key = w.key}
HasText(r, g)    == \E i \in g : r.objects[i].text # "absent"
Updated(r, g, w) ==
  IF Matched(r, g, w) = {} \/ ~HasText(r, g) THEN w
  ELSE [w EXCEPT !.text = IF r.objects[First(Matched(r, g, w))].text = "long" THEN "cut" ELSE "fit"]

Updatable(r, g) ==
  /\ tables[r.of] # 0
  /\ HasText(r, g) \/ \E i \in g : r.objects[i].id
  /\ \/ server = "MySQL" /\ r.held \subseteq lax
     \/ \A w \in rows[r.of] : Matched(r, g, w) # {} =>
                                r.objects[First(Matched(r, g, w))].text # "long"

UpdateRows(t, g) ==
  LET r == thread[t] IN
  /\ r.at = "update" /\ g \in r.groups
  /\ IF ~r.known /\ HasText(r, g)
     THEN Answer(t, "thrown") /\ UNCHANGED <<rows, accidents>>
     ELSE \/ /\ Succeeds(Updatable(r, g))
             /\ rows' = [rows EXCEPT ![r.of] = {Updated(r, g, w) : w \in @}]
             /\ thread' = [thread EXCEPT ![t].at = "reload", ![t].groups = @ \ {g}, ![t].changed = TRUE,
                  ![t].kept = [i \in DOMAIN @ |->
                    IF i \in g /\ \E w \in rows[r.of] : i \in Matched(r, g, w)
                    THEN (CHOOSE w \in rows'[r.of] : w.key = r.objects[i].key).text ELSE @[i]]]
          \/ Fails(Updatable(r, g)) /\ Answer(t, "error") /\ UNCHANGED rows
  /\ UNCHANGED <<structuresVars, own, next, lax, requests, spoiled>>

(* A slip: the connection of loadEntities is not given back. *)
HeldOn(r, c) == r.held \cup {c}

HeldAfter(r, c) == r.held

(* loadEntities, which takes a connection of its own for as long as it runs. *)
LoadRows(t, from, to) ==
  LET r == thread[t] IN
  /\ r.at = from
  /\ \E c \in Free :
       \/ /\ Succeeds(tables[r.of] # 0)
          /\ thread' = [thread EXCEPT ![t].at = to, ![t].held = HeldAfter(r, c)]
       \/ Fails(tables[r.of] # 0) /\ Answer(t, "error")
  /\ UNCHANGED <<structuresVars, own, rows, next, lax, requests, spoiled>>

Reload(t) == LoadRows(t, "reload", "update")

(* removeEntities: the rows are read first, for the answer to the listeners,
   then deleted. *)
Look(t) == LoadRows(t, "look", "delete")

DeleteRows(t) ==
  LET r == thread[t] IN
  /\ r.at = "delete"
  /\ \/ /\ Succeeds(tables[r.of] # 0)
        /\ rows' = [rows EXCEPT ![r.of] = {w \in @ : Matched(r, Of(r, r.of), w) = {}}]
        /\ thread' = [thread EXCEPT ![t].at = "turn", ![t].changed = TRUE]
     \/ Fails(tables[r.of] # 0) /\ Answer(t, "error") /\ UNCHANGED rows
  /\ UNCHANGED <<structuresVars, own, next, lax, requests, spoiled>>

-----------------------------------------------------------------------------
(* Whether the update is at a table or at default rows. *)
AtTable == pc \in {"tables", "insert"} /\ todo # {}

(* createTable, updateCurrentScheme and addEntities hold a connection. *)
Connect ==
  /\ AtTable /\ own = {} /\ \E c \in Free : own' = {c}
  /\ UNCHANGED <<structuresVars, rows, next, lax, thread, requests, accidents, spoiled>>

(* A step of the update: a table that is created has no rows, and the default
   rows may be given keys.  What createTable and updateCurrentScheme call for the
   keys takes another connection while they hold theirs. *)
UpdateStep ==
  /\ AtTable => own # {}
  /\ \/ (requests = 0 \/ Used + 2 <= MaxCalls) /\ \E c \in {"custom", "auto", "reset"} : Start(c)
     \/ StructuresStep
  /\ AtTable /\ pc' = "tables" => Free # {}
  /\ own' = {}
  /\ LET created == {n \in Names : n \in todo \ todo' /\ pc = "tables" /\ (call = "reset" \/ tables[n] = 0)}
         given   == {n \in Names : n \in todo \ todo' /\ pc = "insert" /\ (n \in unread \/ n \notin Keyed)}
     IN  /\ rows' = [n \in Names |-> IF n \in created THEN {} ELSE rows[n]]
         /\ next' = [n \in Names |-> IF n \in created THEN 1
                                     ELSE IF n \in given THEN next[n] + 1 ELSE next[n]]
         /\ thread' = [u \in Threads |->
              IF thread[u].at = "keys" /\ thread[u].of \in created \cup given
              THEN [thread[u] EXCEPT !.raced = TRUE] ELSE thread[u]]
  /\ UNCHANGED <<lax, requests, accidents, spoiled>>

(* The process ends, and with it its threads and its connections. *)
RestartAll ==
  /\ Restart
  /\ thread' = [t \in Threads |-> Idle] /\ lax' = {} /\ own' = {} /\ spoiled' = {}
  /\ UNCHANGED <<rows, next, requests, accidents>>

ThreadStep(t) ==
  \/ Make(t) \/ Check(t) \/ Take(t) \/ TurnDone(t) \/ AllDone(t)
  \/ \E n \in Names : Turn(t, n)
  \/ \E g \in thread[t].groups : Insert(t, g) \/ InsertThenFail(t, g) \/ UpdateRows(t, g)
  \/ QueryKeys(t) \/ Reload(t) \/ Look(t) \/ DeleteRows(t)

RequestsNext ==
  \/ UpdateStep \/ Connect \/ RestartAll
  \/ \E t \in Threads : ThreadStep(t) \/ \E q \in Requests : Receive(t, q)

RequestsSpec == RequestsInit /\ [][RequestsNext]_vars

-----------------------------------------------------------------------------
(* The type invariant: a connection is held by one thread or the update, and by
   none that has answered. *)
RequestsTypeOK ==
  /\ rows \in [Names -> SUBSET Row] /\ next \in [Names -> Nat \ {0}]
  /\ lax \subseteq Connections /\ spoiled \subseteq Connections /\ own \subseteq Connections
  /\ \A t \in Threads :
       LET r == thread[t] IN
       /\ r.at \in {"idle", "make", "check", "take", "turn", "insert", "keys", "update", "reload", "look", "delete"}
       /\ r.answer \in {"none", "ok", "error", "thrown"}
       /\ \A i \in DOMAIN r.objects : r.objects[i] \in Entity
       /\ r.left \subseteq DOMAIN r.objects
       /\ \A i \in DOMAIN r.asked : i \in Nat /\ r.asked[i] \in Json
       /\ r.turns \subseteq Names /\ r.held \subseteq Connections
       /\ \A g \in r.groups \cup {r.group} : g \subseteq DOMAIN r.asked
       /\ DOMAIN r.objects \subseteq DOMAIN r.asked
       /\ r.at = "idle" => r.held = {} /\ r.groups = {}
  /\ \A t, u \in Threads : t # u => thread[t].held \cap thread[u].held = {}
  /\ \A t \in Threads : thread[t].held \cap own = {}

(* The step that answers a request. *)
Answers(t, a) == thread[t].at # "idle" /\ thread'[t].at = "idle" /\ thread'[t].answer = a

(* The answer to a CREATE names the keys its rows have.  The exceptions: the
   structure of an entity was not known at one of the look-ups, and another
   INSERT, or the creation of the table, came between the INSERT of the rows
   and the query of the last key. *)
KeysTold == [][\A t \in Threads :
  Answers(t, "ok") /\ thread[t].op = "create" /\ ~thread[t].blind /\ ~thread[t].raced =>
    \A i \in DOMAIN thread[t].objects : thread[t].objects[i].key = thread[t].mine[i]]_vars

(* The first object of the same entity came without the text. *)
FirstWithout(r, i) ==
  LET first == Min({j \in DOMAIN r.asked : r.asked[j].of = r.asked[i].of})
  IN  r.asked[first].text = "absent"

(* An UPDATE that names a row twice: the first WHEN of the CASE counts. *)
SameRow(r, i, j) == r.op = "update" /\ r.asked[j].of = r.asked[i].of /\ r.asked[j].key = r.asked[i].key

KeptAsAsked(r, i) ==
  \/ r.kept[i] \in {"nothing", r.asked[i].text}
  \/ r.asked[i].text = "absent" /\ r.op = "update"
  \/ \E j \in DOMAIN r.asked : SameRow(r, i, j) /\ r.kept[i] = r.asked[j].text
  \/ r.kept[i] = "cut" /\ server = "MySQL"
       /\ (r.tainted \/ \E j \in DOMAIN r.asked : r.asked[j].key = 0)
  \/ server = "PostgreSQL" /\ r.kept[i] = "absent" /\ FirstWithout(r, i)

(* What a request stored is what was asked for.  The exceptions: a structure
   was not known; an UPDATE names a row twice; MySQL's mode was not strict,
   because the request has a key 0 itself or an earlier one left it so; and
   PostgreSQL, which stores only the columns the first object of the entity has. *)
StoredAsAsked == [][\A t \in Threads :
  Answers(t, "ok") /\ ~thread[t].blind =>
    \A i \in DOMAIN thread[t].objects : KeptAsAsked(thread[t], i)]_vars

(* Requests that come to several statements: objects of several entities, or
   with different members; keys to be queried; rows to be read again; the mode
   to be set back. *)
Several(r) ==
  \/ \E i, j \in DOMAIN r.asked :
       \/ r.asked[i].of # r.asked[j].of
       \/ r.asked[i].text = "absent" /\ r.asked[j].text # "absent"
  \/ r.op = "create" /\ \E i \in DOMAIN r.asked :
       r.asked[i].key < 0 \/ (server = "MySQL" /\ r.asked[i].key = 0)
  \/ r.op = "update"

(* Of objects that were sent with the same members some were made when the
   structure of their entity was known, and some when it was not: MySQL's
   controller then inserts them with a statement each. *)
Torn(r) ==
  server = "MySQL" /\ r.op = "create" /\ \E i, j \in DOMAIN r.objects : ~Alike(r, i, j)

(* A request that was not answered OK has changed nothing, unless it comes to
   several statements, or a reload of the structures tore it into several. *)
FailureChangesNothing == [][\A t \in Threads :
  (Answers(t, "error") \/ Answers(t, "thrown")) /\ (thread[t].changed \/ rows' # rows) =>
    Several(thread[t]) \/ Torn(thread[t])]_vars

(* A connection has the mode of the server, whoever takes it, unless a CREATE
   with a key 0 failed on it. *)
PoolRestored == lax \subseteq spoiled

(* The calls at work: requests that are not answered, and an update at a table. *)
AtWork == Cardinality({t \in Threads : thread[t].at # "idle"}) + Cardinality(own)

(* A request or an update that needs a connection, its first or another one
   besides, finds one unless there are at least as many calls at work as there
   are connections: no call keeps what it took.  (As many as there are
   connections may each hold one and wait for another.) *)
ConnectionLeft == AtWork < Cardinality(Connections) => Free # {}
=============================================================================
