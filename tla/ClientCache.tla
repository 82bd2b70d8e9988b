------------------------------ MODULE ClientCache ------------------------------
(***************************************************************************)
(* The copy of some tables a Java client keeps (JsonEntityCache), the gate *)
(* of the server it reads them through, and the events the gate sends.     *)
(*                                                                         *)
(* The client's threads make the copy when they need it and its flag asks  *)
(* for it; events are handled by the thread that receives what the gate    *)
(* sends, in the order it was sent.  Neither waits for the other.  When    *)
(* the connection breaks, listeners set the flags of JsonEntityProvider    *)
(* (to subscribe again) and of JsonEntityCache (to read again).            *)
(***************************************************************************)
EXTENDS Integers, Sequences

CONSTANTS
  Names,        \* the entities the client keeps, ENTITIES
  Cached,       \* those the server reads from EntitiesCache
  Keys, Values, NoRow,
  Stored,       \* what a row that is written as v is read as
  Blank,        \* a row that was read when its structure was not known
  Selected,     \* the rows READ returns with the profile's filter
  Announced,    \* the rows whose events pass it
  Users,        \* threads of the client that read
  Repositories, \* those that keep the JsonEntityProvider they got once
  Writers,      \* threads of the server that run requests
  None,
  MaxChanges    \* bound: requests that write, and breaks of all kinds

(* An event a writer still has to announce, and whether the client was to see the
   row as it was before. *)
Announcement == [kind : {"PUT", "REMOVE"}, name : Names, key : Keys,
                 val : Values \cup {Blank}, seen : BOOLEAN]

ASSUME ClientAssumption ==
  /\ NoRow \notin Values /\ Blank \notin Values /\ Blank # NoRow
  /\ Selected \subseteq Values /\ Announced \subseteq Values \cup {Blank}
  /\ Cached \subseteq Names
  /\ Stored \in [Values -> Values]
  /\ \A v \in Values : Stored[Stored[v]] = Stored[v]
  /\ Repositories \subseteq Users
  /\ None \notin Names /\ None \notin Users /\ None \notin Announcement
  /\ MaxChanges \in Nat

VARIABLES
  table,      \* the rows in the database
  announcing, \* what each writer still has to announce
  known,      \* whether the server knows the structures of the entities
  connected, subscribed,
  queue,      \* what the gate has sent and the client has not received
  need,       \* the needInit flags that are set, of "provider" and "cache"
  settled,    \* those that were not, at some time
  untold,     \* the listeners that have not been told the connection broke
  copy,       \* the cache
  user,       \* what each thread of the client is doing
  changes,    \* so far (bound)
  excuse      \* history: something happened since the copy of an entity was cleared
              \* by which it may differ from the table, see CopyFollows

serverVars == <<table, announcing, known>>
vars == <<serverVars, connected, subscribed, queue, need, settled, untold, copy,
          user, changes, excuse>>

Flags == {"provider", "cache"}

(* at:    "idle"; "provider", "providerLock", "subscribing", "subscribed" in
          JsonEntityProvider.getInstance; "flag", "lock" in that of the cache;
          "clear", "asked", "selected", "replied", "put" in initializeCache;
          "passed" when the copy is about to be looked into
   name, todo, rows: the entity that is loaded, those after it, and the rows
          that were read and not put yet
   old:   history, see ReadsWhole *)
Idle == [at |-> "idle", name |-> None, todo |-> {}, rows |-> {}, old |-> FALSE]

Waiting == {"asked", "selected", "replied"}
Loading == Waiting \cup {"clear", "put"}
Subscribing == {"subscribing", "subscribed"}

Rows   == [key : Keys, val : Values \cup {Blank}]
NoRows == [k \in Keys |-> NoRow]
Event  == [kind : {"PUT", "REMOVE"}, name : Names, key : Keys, val : Values \cup {Blank}]

(* What a row of a table can be. *)
StoredRows == {Stored[v] : v \in Values}

(* The rows the client is to see: a READ of a type of EntitiesCache filters
   in memory, like the events; the others in SQL. *)
Shown(n) == IF n \in Cached THEN Announced ELSE Selected
Seen(n, v) == IF v \in Shown(n) THEN v ELSE NoRow

Excused(n, cause) == [excuse EXCEPT ![n] = @ \/ cause]

Init ==
  /\ table \in [Names -> [Keys -> StoredRows \cup {NoRow}]]
  /\ announcing = [w \in Writers |-> None] /\ known = TRUE
  /\ connected = FALSE /\ subscribed = FALSE /\ queue = <<>>
  /\ need = Flags /\ settled = {} /\ untold = {}
  /\ copy = [n \in Names |-> NoRows]
  /\ user = [u \in Users |-> Idle]
  /\ changes = 0
  /\ excuse = [n \in Names |-> FALSE]

Change == changes < MaxChanges /\ changes' = changes + 1

-----------------------------------------------------------------------------
(* A row that is read back when the structures are not known has no fields. *)
ReadBack(v) == IF known THEN v ELSE Blank

(* The server: a request creates, changes or removes a row, and announces it
   later: a created row as the object it was made of, the others as they were
   read back. *)
Write(w, n, k, v) ==
  LET row == IF v = NoRow THEN NoRow ELSE Stored[v]
      was == table[n][k]
  IN  /\ announcing[w] = None /\ Change /\ (v = NoRow => was # NoRow)
      /\ table' = [table EXCEPT ![n][k] = row]
      /\ announcing' = [announcing EXCEPT ![w] =
           [kind |-> IF v = NoRow THEN "REMOVE" ELSE "PUT", name |-> n, key |-> k,
            val |-> CASE v = NoRow                -> ReadBack(was)
                      [] v # NoRow /\ was = NoRow -> v
                      [] v # NoRow /\ was # NoRow -> ReadBack(row),
            seen |-> was \in Shown(n) \cup Announced]]
      /\ UNCHANGED <<known, connected, subscribed, queue, need, settled, untold, copy,
                     user, excuse>>

(* A request commits a statement and fails at the next one, which announces
   nothing; another program writes the table. *)
WriteSilently(n, k, row) ==
  /\ Change /\ row # table[n][k]
  /\ table' = [table EXCEPT ![n][k] = row]
  /\ excuse' = Excused(n, TRUE)
  /\ UNCHANGED <<announcing, known, connected, subscribed, queue, need, settled, untold,
                 copy, user>>

(* A slip: whoever subscribed gets everything. *)
PassesAll(e) == known

(* The filter of a gate's subscription: isNeedProvider, which knows nothing
   while the structures are loaded, and the profile's read filter. *)
Passes(e) == known /\ e.val \in Announced

(* The table is not what an event says. *)
Untrue(e) == table[e.name][e.key] # IF e.kind = "PUT" THEN e.val ELSE NoRow

(* The client, or its copy, misses something by this announcement. *)
Misses(e) ==
  \/ ~subscribed
  \/ ~known \/ e.val = Blank
  \/ Untrue(e)
  \/ e.kind = "PUT" /\ e.val \notin Announced /\ e.seen
  \/ ~(e.val \in Shown(e.name) <=> e.val \in Announced)

Sent(e) == Append(queue, [to |-> None, event |-> [kind |-> e.kind, name |-> e.name,
                                               key |-> e.key, val |-> e.val]])

(* notifySubscribers, of which the gate's subscription is one. *)
Announce(w) ==
  /\ announcing[w] # None
  /\ LET e == announcing[w]
     IN  /\ queue' = IF subscribed /\ Passes(e) THEN Sent(e) ELSE queue
         /\ excuse' = Excused(e.name, Misses(e))
  /\ announcing' = [announcing EXCEPT ![w] = None]
  /\ UNCHANGED <<table, known, connected, subscribed, need, settled, untold, copy, user, changes>>

(* The reload of EntitiesCache announces a difference between the rows it had
   and those it read.  Which ones they are EntitiesCache says; here they are
   any, of the table as it is or as it was. *)
AnnounceReload(e) ==
  /\ e.name \in Cached /\ subscribed /\ Passes(e) /\ Change
  /\ queue' = Sent(e)
  /\ excuse' = Excused(e.name, Untrue(e))
  /\ UNCHANGED <<serverVars, connected, subscribed, need, settled, untold, copy, user>>

(* The server forgets the structures and loads them again (Structures). *)
Forget == known /\ Change /\ known' = FALSE
          /\ UNCHANGED <<table, announcing, connected, subscribed, queue, need,
                         settled, untold, copy, user, excuse>>
Learn == ~known /\ known' = TRUE
         /\ UNCHANGED <<table, announcing, connected, subscribed, queue, need,
                        settled, untold, copy, user, changes, excuse>>

(* SUBSCRIBE; the reply reaches the thread that waits for it. *)
Subscribe(u) ==
  /\ user[u].at = "subscribing" /\ connected
  /\ subscribed' = TRUE
  /\ user' = [user EXCEPT ![u].at = "subscribed"]
  /\ UNCHANGED <<serverVars, connected, queue, need, settled, untold, copy, changes, excuse>>

(* An announcement that changes what the client is to see, or is an excuse. *)
Tells(e) ==
  \/ e.val \in Shown(e.name) \cup Announced \cup {Blank}
  \/ e.kind = "PUT" /\ (e.seen \/ e.val \notin StoredRows)

Pending(n, k) ==
  \E w \in Writers : /\ announcing[w] # None /\ announcing[w].name = n /\ announcing[w].key = k
                     /\ Tells(announcing[w])

(* READ: the SELECT, and later the reply.  Of a type of EntitiesCache the rows
   of its list that pass the filter are returned, whatever they are (of several
   with one key the client keeps the last). *)
Select(u) ==
  /\ user[u].at = "asked" /\ connected
  /\ LET n == user[u].name
     IN  \E list \in IF n \in Cached THEN [Keys -> Announced \cup {NoRow}]
                     ELSE {[k \in Keys |-> IF table[n][k] \in Selected THEN ReadBack(table[n][k])
                                          ELSE NoRow]} :
           /\ user' = [user EXCEPT ![u].at = "selected",
                         ![u].rows = {r \in Rows : r.val = list[r.key]}]
           /\ excuse' = Excused(n, IF n \in Cached
                                   THEN \E k \in Keys : list[k] # Seen(n, table[n][k]) /\ ~Pending(n, k)
                                   ELSE ~known)
  /\ UNCHANGED <<serverVars, connected, subscribed, queue, need, settled, untold, copy, changes>>

Reply(u) ==
  /\ user[u].at = "selected" /\ connected
  /\ queue' = Append(queue, [to |-> u, event |-> None])
  /\ user' = [user EXCEPT ![u].at = "replied"]
  /\ UNCHANGED <<serverVars, connected, subscribed, need, settled, untold, copy, changes, excuse>>

(* The SELECT fails: ERR, and no array for the client. *)
ReadFails(u) ==
  /\ user[u].at = "asked" /\ connected /\ Change
  /\ user' = [user EXCEPT ![u].at = "clear"]
  /\ excuse' = Excused(user[u].name, TRUE)
  /\ UNCHANGED <<serverVars, connected, subscribed, queue, need, settled, untold, copy>>

-----------------------------------------------------------------------------
(* A slip: a thread waits on when the connection breaks. *)
WaitsOn(r) == r

(* Who waits for a reply gets an exception, which is caught: nothing is
   subscribed, and the next entity is cleared and read. *)
Interrupted(r) ==
  CASE r.at = "subscribing" -> [r EXCEPT !.at = "flag"]
    [] r.at \in Waiting     -> [r EXCEPT !.at = "clear", !.rows = {}]
    [] OTHER                -> r

(* The connection breaks: the gate's subscription is removed, and what was sent
   is lost. *)
Disconnect ==
  /\ connected /\ untold = {} /\ Change
  /\ connected' = FALSE /\ subscribed' = FALSE /\ queue' = <<>>
  /\ untold' = Flags
  /\ user' = [u \in Users |-> Interrupted(user[u])]
  /\ excuse' = [n \in Names |-> excuse[n] \/ \E u \in Users : user[u].at \in Loading]
  /\ UNCHANGED <<serverVars, need, settled, copy>>

(* The connection state listeners, in the order they were added: needInit. *)
Told(l) ==
  /\ l \in untold /\ (l = "cache" => "provider" \notin untold)
  /\ untold' = untold \ {l}
  /\ need' = need \cup {l}
  /\ user' = IF l = "cache"
             THEN [u \in Users |-> [user[u] EXCEPT !.old = @ \/ user[u].at = "passed"]]
             ELSE user
  /\ UNCHANGED <<serverVars, connected, subscribed, queue, settled, copy, changes, excuse>>

Connect ==
  /\ ~connected /\ untold = {}
  /\ connected' = TRUE
  /\ UNCHANGED <<serverVars, subscribed, queue, need, settled, untold, copy, user, changes, excuse>>

(* The listener of the cache: ADD and UPDATE put, REMOVE removes. *)
Applied(rows, e) == [rows EXCEPT ![e.key] = IF e.kind = "PUT" THEN e.val ELSE NoRow]

Receive ==
  /\ queue # <<>>
  /\ queue' = Tail(queue)
  /\ IF Head(queue).to # None
     THEN user' = [user EXCEPT ![Head(queue).to].at = "put"] /\ UNCHANGED <<copy, excuse>>
     ELSE LET e == Head(queue).event
          IN  /\ copy' = [copy EXCEPT ![e.name] = Applied(@, e)]
              /\ excuse' = Excused(e.name, \E u \in Users :
                                           user[u].at \in Loading /\ user[u].name = e.name)
              /\ UNCHANGED user
  /\ UNCHANGED <<serverVars, connected, subscribed, need, settled, untold, changes>>

-----------------------------------------------------------------------------
(* read, of a JsonEntityProvider that was just asked for, or kept. *)
Read(u) ==
  /\ user[u].at = "idle"
  /\ user' = [user EXCEPT ![u].at = IF u \in Repositories THEN "flag" ELSE "provider"]
  /\ UNCHANGED <<serverVars, connected, subscribed, queue, need, settled, untold, copy, changes, excuse>>

(* What a thread sees of a flag that is not volatile, outside of a lock. *)
Sees(l) == IF l \in settled THEN BOOLEAN ELSE {l \in need}

(* JsonEntityProvider.getInstance, init. *)
ProviderFlag(u) ==
  /\ user[u].at = "provider"
  /\ \E set \in Sees("provider") :
       user' = [user EXCEPT ![u].at = IF set THEN "providerLock" ELSE "flag"]
  /\ UNCHANGED <<serverVars, connected, subscribed, queue, need, settled, untold, copy, changes, excuse>>

ProviderLock(u) ==
  /\ user[u].at = "providerLock" /\ \A w \in Users : user[w].at \notin Subscribing
  /\ user' = [user EXCEPT ![u].at = IF connected /\ "provider" \in need THEN "subscribing" ELSE "flag"]
  /\ UNCHANGED <<serverVars, connected, subscribed, queue, need, settled, untold, copy, changes, excuse>>

Subscribed(u) ==
  /\ user[u].at = "subscribed"
  /\ need' = need \ {"provider"} /\ settled' = settled \cup {"provider"}
  /\ user' = [user EXCEPT ![u].at = "flag"]
  /\ UNCHANGED <<serverVars, connected, subscribed, queue, untold, copy, changes, excuse>>

(* JsonEntityCache.getInstance returns.  A read calls it twice; the first time
   is like a read of its own, whose result nobody looks at. *)
Pass(r) == [r EXCEPT !.at = "passed", !.old = "cache" \in need']

CacheFlag(u) ==
  /\ user[u].at = "flag" /\ UNCHANGED need
  /\ \E set \in Sees("cache") :
       user' = [user EXCEPT ![u] = IF set THEN [@ EXCEPT !.at = "lock"] ELSE Pass(@)]
  /\ UNCHANGED <<serverVars, connected, subscribed, queue, settled, untold, copy, changes, excuse>>

(* A slip: initializeCache is not synchronized. *)
Unlocked == TRUE

(* initializeCache is synchronized. *)
LockFree == \A w \in Users : user[w].at \notin Loading

CacheLock(u) ==
  /\ user[u].at = "lock" /\ LockFree /\ UNCHANGED need
  /\ user' = [user EXCEPT ![u] = IF connected /\ "cache" \in need
                                 THEN [@ EXCEPT !.at = "clear", !.todo = Names] ELSE Pass(@)]
  /\ UNCHANGED <<serverVars, connected, subscribed, queue, settled, untold, copy, changes, excuse>>

(* The entities are cleared and read one after the other; without connection
   the read throws, and the next one is cleared. *)
Clear(u, n) ==
  /\ user[u].at = "clear" /\ n \in user[u].todo
  /\ copy' = [copy EXCEPT ![n] = NoRows]
  /\ excuse' = [excuse EXCEPT ![n] = ~connected]
  /\ user' = [user EXCEPT ![u].at = IF connected THEN "asked" ELSE "clear", ![u].name = n,
                          ![u].todo = @ \ {n}, ![u].rows = {}]
  /\ UNCHANGED <<serverVars, connected, subscribed, queue, need, settled, untold, changes>>

PutRow(u, r) ==
  /\ user[u].at = "put" /\ r \in user[u].rows
  /\ copy' = [copy EXCEPT ![user[u].name][r.key] = r.val]
  /\ user' = [user EXCEPT ![u].rows = @ \ {r}]
  /\ UNCHANGED <<serverVars, connected, subscribed, queue, need, settled, untold, changes, excuse>>

Loaded(u) ==
  /\ user[u].at = "put" /\ user[u].rows = {}
  /\ user' = [user EXCEPT ![u].at = "clear", ![u].name = None]
  /\ UNCHANGED <<serverVars, connected, subscribed, queue, need, settled, untold, copy, changes, excuse>>

(* The flag is cleared whatever became of the reads, and of the connection. *)
InitDone(u) ==
  /\ user[u].at = "clear" /\ user[u].todo = {}
  /\ need' = need \ {"cache"} /\ settled' = settled \cup {"cache"}
  /\ user' = [user EXCEPT ![u] = [Pass(@) EXCEPT !.name = None]]
  /\ UNCHANGED <<serverVars, connected, subscribed, queue, untold, copy, changes, excuse>>

(* The rows of the copy that pass the filter are returned. *)
Return(u) ==
  /\ user[u].at = "passed"
  /\ user' = [user EXCEPT ![u] = Idle]
  /\ UNCHANGED <<serverVars, connected, subscribed, queue, need, settled, untold, copy, changes, excuse>>

UserStep(u) ==
  \/ ProviderFlag(u) \/ ProviderLock(u) \/ Subscribed(u)
  \/ CacheFlag(u) \/ CacheLock(u) \/ (\E n \in Names : Clear(u, n))
  \/ (\E r \in Rows : PutRow(u, r)) \/ Loaded(u) \/ InitDone(u) \/ Return(u)

Writing ==
  \E n \in Names, k \in Keys :
    \/ \E w \in Writers, v \in Values \cup {NoRow} : Write(w, n, k, v)
    \/ \E row \in StoredRows \cup {NoRow} : WriteSilently(n, k, row)

ServerStep ==
  \/ \E w \in Writers : Announce(w)
  \/ \E e \in Event : AnnounceReload(e)
  \/ Learn
  \/ \E u \in Users : Subscribe(u) \/ Select(u) \/ Reply(u)

Next ==
  \/ Writing \/ ServerStep \/ Forget \/ \E u \in Users : ReadFails(u)
  \/ Disconnect \/ (\E l \in Flags : Told(l)) \/ Connect \/ Receive
  \/ \E u \in Users : Read(u) \/ UserStep(u)

Spec == Init /\ [][Next]_vars

-----------------------------------------------------------------------------
(* The type invariant: one thread subscribes and one loads, and no reply is on
   its way but to a thread that waits for it. *)
TypeOK ==
  /\ table \in [Names -> [Keys -> StoredRows \cup {NoRow}]]
  /\ announcing \in [Writers -> {None} \cup Announcement]
  /\ copy \in [Names -> [Keys -> Values \cup {NoRow, Blank}]]
  /\ known \in BOOLEAN /\ connected \in BOOLEAN /\ subscribed \in BOOLEAN
  /\ need \subseteq Flags /\ settled \subseteq Flags /\ untold \subseteq Flags
  /\ subscribed => connected
  /\ excuse \in [Names -> BOOLEAN]
  /\ \A u \in Users :
       /\ user[u].at \in {"idle", "provider", "providerLock", "flag", "lock", "passed"}
                          \cup Subscribing \cup Loading
       /\ user[u].rows \subseteq Rows /\ user[u].todo \subseteq Names
       /\ user[u].at \in Waiting \cup {"put"} => user[u].name \in Names
  /\ \A u, w \in Users : u # w =>
       /\ ~(user[u].at \in Subscribing /\ user[w].at \in Subscribing)
       /\ ~(user[u].at \in Loading /\ user[w].at \in Loading)
  /\ \A i \in DOMAIN queue :
       IF queue[i].to = None THEN queue[i].event \in Event ELSE user[queue[i].to].at = "replied"

(* When nothing is on its way, the copy of an entity is what the client is to
   see of the table, unless since it was last cleared:
   - an event of it was handled while it was loaded;
   - one was announced while the client was not subscribed, or the server did
     not know the structures, which makes rows blank as well;
   - one said something else than the table: two requests announced in the other
     order than they wrote, an object was created that the database stores in
     another form, a reload of EntitiesCache announced what is no longer so;
   - a row left the profile's filter by an update, or the filter of events and
     that of READ differ on a row;
   - a write was not announced: its request failed behind it, or it was another
     program's;
   - the READ failed, or EntitiesCache answered it with other rows than the
     table's, of which no announcement was left;
   - the connection broke while the cache was loaded, which clears the flag that
     asks for it to be loaded again. *)
CopyFollows ==
  \A n \in Names :
    /\ connected /\ "cache" \notin need /\ queue = <<>>
    /\ \A u \in Users : user[u].at \notin Loading
    /\ \A w \in Writers : announcing[w] = None \/ announcing[w].name # n
    => excuse[n] \/ \A k \in Keys : copy[n][k] = Seen(n, table[n][k])

(* A read does not find the cache half loaded, unless the thread went past
   needInit while it was set (there was no connection, or it did not see it), or
   it was set after that ("old"). *)
ReadsWhole ==
  \A u, w \in Users :
    user[u].at = "passed" /\ ~user[u].old => user[w].at \notin Loading

(* A thread that waits for the server is waited for: the connection it asked
   through is there, and an answer that was given is on its way. *)
NoneWaitsInVain ==
  \A u \in Users :
    /\ user[u].at \in Waiting \cup {"subscribing"} => connected
    /\ user[u].at = "replied" => \E i \in DOMAIN queue : queue[i].to = u
=============================================================================
