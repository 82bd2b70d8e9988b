-------------------------- MODULE ClientCacheProofs --------------------------
(***************************************************************************)
(* The client's copy keeps its promises to the threads that read, for any  *)
(* entities, rows, threads and number of changes.                          *)
(*                                                                         *)
(* The invariant says who may be where: one thread subscribes and one      *)
(* loads; a thread that loads does it with the flag of the cache set, and  *)
(* a thread that went past a flag that is set knows it ("old"); the        *)
(* replies in the queue go to threads that wait, one to each.              *)
(***************************************************************************)
EXTENDS ClientCache, TLAPS

Places == {"idle", "provider", "providerLock", "flag", "lock", "passed"}
          \cup Subscribing \cup Loading

Thread == [at : Places, name : Names \cup {None}, todo : SUBSET Names, rows : SUBSET Rows,
           old : BOOLEAN]

Message == [to : {None}, event : Event] \cup [to : Users, event : {None}]

TablesTyped ==
  /\ table \in [Names -> [Keys -> StoredRows \cup {NoRow}]]
  /\ announcing \in [Writers -> {None} \cup Announcement]

CopyTyped == copy \in [Names -> [Keys -> Values \cup {NoRow, Blank}]]

ExcuseTyped == excuse \in [Names -> BOOLEAN]

FlagsTyped ==
  /\ known \in BOOLEAN /\ connected \in BOOLEAN /\ subscribed \in BOOLEAN
  /\ need \subseteq Flags /\ settled \subseteq Flags /\ untold \subseteq Flags
  /\ subscribed => connected

QueueTyped == queue \in Seq(Message)

UsersTyped ==
  /\ user \in [Users -> Thread]
  /\ \A u \in Users : user[u].at \in Waiting \cup {"put"} => user[u].name \in Names

(* The two locks of the client. *)
Apart ==
  \A u, w \in Users : u # w =>
    /\ ~(user[u].at \in Subscribing /\ user[w].at \in Subscribing)
    /\ ~(user[u].at \in Loading /\ user[w].at \in Loading)

(* A thread waits only while it is connected. *)
Connected == \A u \in Users : user[u].at \in Waiting \cup {"subscribing"} => connected

(* Each reply that is on its way is waited for, by one thread. *)
Replies ==
  /\ \A i \in 1 .. Len(queue) : queue[i].to # None => user[queue[i].to].at = "replied"
  /\ \A i, j \in 1 .. Len(queue) : i # j /\ queue[i].to # None => queue[i].to # queue[j].to

(* Each thread that waits for a reply that was given finds it in the queue. *)
OnItsWay ==
  \A u \in Users : user[u].at = "replied" => \E i \in 1 .. Len(queue) : queue[i].to = u

(* The cache is loaded while its flag is set, and who went past the flag while
   it was set, or before it was, is "old". *)
FlagStands ==
  /\ (\E w \in Users : user[w].at \in Loading) => "cache" \in need
  /\ "cache" \in need => \A u \in Users : user[u].at = "passed" => user[u].old

Inv ==
  /\ TablesTyped /\ CopyTyped /\ ExcuseTyped /\ FlagsTyped /\ QueueTyped /\ UsersTyped
  /\ Apart /\ Connected /\ Replies /\ OnItsWay /\ FlagStands

-----------------------------------------------------------------------------
(* The parts that only speak of the threads and what they wait for. *)
ThreadInv ==
  QueueTyped /\ UsersTyped /\ Apart /\ Connected /\ Replies /\ OnItsWay /\ FlagStands

LEMMA InitInv == Init => Inv
<1> SUFFICES ASSUME Init PROVE Inv
  OBVIOUS
<1> USE ClientAssumption
<1>1. TablesTyped BY DEF Init, TablesTyped
<1>2. CopyTyped BY DEF Init, CopyTyped, NoRows
<1>3. ExcuseTyped BY DEF Init, ExcuseTyped
<1>4. FlagsTyped BY DEF Init, FlagsTyped, Flags
<1>5. QueueTyped /\ Replies BY DEF Init, QueueTyped, Replies
<1>6. UsersTyped
  BY DEF Init, UsersTyped, Idle, Thread, Places, Waiting
<1>7. Apart /\ Connected /\ OnItsWay /\ FlagStands
  BY DEF Init, Apart, Connected, OnItsWay, FlagStands, Idle, Waiting, Loading, Subscribing
<1> QED
  BY <1>1, <1>2, <1>3, <1>4, <1>5, <1>6, <1>7 DEF Inv

(* A step that leaves the threads, the queue, the flag of the cache and the
   connection alone keeps what is said of them. *)
LEMMA ThreadsStay ==
  ASSUME ThreadInv, UNCHANGED <<user, queue, connected>>,
         "cache" \in need' <=> "cache" \in need
  PROVE  ThreadInv'
BY DEF ThreadInv, QueueTyped, UsersTyped, Apart, Connected, Replies, OnItsWay, FlagStands

LEMMA StoredAre == StoredRows \subseteq Values /\ Blank \notin StoredRows /\ NoRow \notin StoredRows
BY ClientAssumption DEF StoredRows

(* What is announced of a write. *)
LEMMA ToldTyped ==
  ASSUME NEW n \in Names, NEW k \in Keys, NEW was \in StoredRows \cup {NoRow},
         NEW v \in Values \cup {NoRow}, NEW row, row = IF v = NoRow THEN NoRow ELSE Stored[v],
         v = NoRow => was # NoRow
  PROVE  [kind |-> IF v = NoRow THEN "REMOVE" ELSE "PUT", name |-> n, key |-> k,
          val |-> CASE v = NoRow                -> ReadBack(was)
                    [] v # NoRow /\ was = NoRow -> v
                    [] v # NoRow /\ was # NoRow -> ReadBack(row),
          seen |-> was \in Shown(n) \cup Announced] \in Announcement
<1> USE ClientAssumption
<1> DEFINE val == CASE v = NoRow                -> ReadBack(was)
                    [] v # NoRow /\ was = NoRow -> v
                    [] v # NoRow /\ was # NoRow -> ReadBack(row)
           seen == was \in Shown(n) \cup Announced
<1>1. val \in Values \cup {Blank}
  <2>1. v # NoRow => row \in Values OBVIOUS
  <2> QED BY <2>1, StoredAre DEF ReadBack
<1>2. seen \in BOOLEAN OBVIOUS
<1>3. [kind |-> IF v = NoRow THEN "REMOVE" ELSE "PUT", name |-> n, key |-> k,
       val |-> val, seen |-> seen] \in Announcement
  <2> HIDE DEF val, seen
  <2> QED BY <1>1, <1>2 DEF Announcement
<1> QED BY <1>3

LEMMA ServerKeeps ==
  ASSUME Inv, Writing \/ Forget \/ Learn
  PROVE  Inv'
<1> USE ClientAssumption
<1>1. ThreadInv BY DEF Inv, ThreadInv
<1>2. ASSUME NEW n \in Names, NEW k \in Keys, NEW row \in StoredRows \cup {NoRow},
             table' = [table EXCEPT ![n][k] = row]
      PROVE  table' \in [Names -> [Keys -> StoredRows \cup {NoRow}]]
  <2>1. (table')[n] = [table[n] EXCEPT ![k] = row]
    BY <1>2 DEF Inv, TablesTyped
  <2>2. table[n] \in [Keys -> StoredRows \cup {NoRow}] BY DEF Inv, TablesTyped
  <2> QED BY <1>2, <2>1, <2>2 DEF Inv, TablesTyped
<1>3. ASSUME NEW w \in Writers, NEW n \in Names, NEW k \in Keys, NEW v \in Values \cup {NoRow},
             Write(w, n, k, v)
      PROVE  Inv'
  <2> DEFINE row == IF v = NoRow THEN NoRow ELSE Stored[v]
             was == table[n][k]
             a == [kind |-> IF v = NoRow THEN "REMOVE" ELSE "PUT", name |-> n, key |-> k,
                   val |-> CASE v = NoRow                -> ReadBack(was)
                             [] v # NoRow /\ was = NoRow -> v
                             [] v # NoRow /\ was # NoRow -> ReadBack(row),
                   seen |-> was \in Shown(n) \cup Announced]
  <2>1. ThreadInv' BY <1>1, <1>3, ThreadsStay DEF Write
  <2>2. row \in StoredRows \cup {NoRow} /\ (v # NoRow => row \in StoredRows) BY DEF StoredRows
  <2>3. was \in StoredRows \cup {NoRow} BY DEF Inv, TablesTyped
  <2>4. /\ table' = [table EXCEPT ![n][k] = row] /\ (v = NoRow => was # NoRow)
        /\ announcing' = [announcing EXCEPT ![w] = a]
        /\ UNCHANGED <<known, connected, subscribed, need, settled, untold, copy, excuse>>
    BY <1>3 DEF Write
  <2>5. a \in Announcement
    <3>1. row = IF v = NoRow THEN NoRow ELSE Stored[v] OBVIOUS
    <3>2. v = NoRow => was # NoRow BY <2>4
    <3> HIDE DEF row, was
    <3> QED BY <2>3, <3>1, <3>2, ToldTyped DEF a
  <2> HIDE DEF row, was, a
  <2>6. table' \in [Names -> [Keys -> StoredRows \cup {NoRow}]] BY <1>2, <2>2, <2>4
  <2>7. TablesTyped' BY <2>4, <2>5, <2>6 DEF Inv, TablesTyped
  <2>8. CopyTyped' /\ ExcuseTyped' /\ FlagsTyped'
    BY <2>4 DEF Inv, CopyTyped, ExcuseTyped, FlagsTyped
  <2> QED BY <2>1, <2>7, <2>8 DEF ThreadInv, Inv
<1>4. ASSUME NEW n \in Names, NEW k \in Keys, NEW row \in StoredRows \cup {NoRow},
             WriteSilently(n, k, row)
      PROVE  Inv'
  <2>1. ThreadInv' BY <1>1, <1>4, ThreadsStay DEF WriteSilently
  <2>2. TablesTyped' BY <1>2, <1>4 DEF WriteSilently, Inv, TablesTyped
  <2>3. CopyTyped' /\ FlagsTyped' BY <1>4 DEF WriteSilently, Inv, CopyTyped, FlagsTyped
  <2>4. ExcuseTyped' BY <1>4 DEF WriteSilently, Excused, Inv, ExcuseTyped
  <2> QED BY <2>1, <2>2, <2>3, <2>4 DEF ThreadInv, Inv
<1>5. CASE Forget \/ Learn
  <2>1. ThreadInv' BY <1>1, <1>5, ThreadsStay DEF Forget, Learn
  <2>2. TablesTyped' /\ CopyTyped' /\ ExcuseTyped'
    BY <1>5 DEF Forget, Learn, Inv, TablesTyped, CopyTyped, ExcuseTyped
  <2>3. known' = TRUE \/ known' = FALSE
    BY <1>5 DEF Forget, Learn
  <2>4. UNCHANGED <<connected, subscribed, need, settled, untold>>
    BY <1>5 DEF Forget, Learn
  <2>5. FlagsTyped'
    BY <2>3, <2>4 DEF Inv, FlagsTyped
  <2> QED BY <2>1, <2>2, <2>5 DEF ThreadInv, Inv
<1> QED BY <1>3, <1>4, <1>5 DEF Writing

(* The announcement of an event: what is appended to the queue is no reply. *)
LEMMA SendingKeeps ==
  ASSUME Inv, NEW m \in Message, m.to = None, queue' = Append(queue, m) \/ queue' = queue,
         UNCHANGED <<user, connected, need>>,
         TablesTyped', CopyTyped', FlagsTyped', ExcuseTyped'
  PROVE  Inv'
<1>1. queue \in Seq(Message) BY DEF Inv, QueueTyped
<1>2. queue' \in Seq(Message) BY <1>1
<1>3. /\ Len(queue) \in Nat /\ Len(queue') \in Nat /\ Len(queue) <= Len(queue')
      /\ \A i \in 1 .. Len(queue) : i \in 1 .. Len(queue') /\ queue'[i] = queue[i]
      /\ \A i \in 1 .. Len(queue') : i \notin 1 .. Len(queue) => queue'[i].to = None
  BY <1>1
<1>4. Replies' BY <1>3 DEF Inv, Replies
<1>5. OnItsWay' BY <1>3 DEF Inv, OnItsWay
<1>6. UsersTyped' /\ Apart' /\ Connected' /\ FlagStands'
  BY DEF Inv, UsersTyped, Apart, Connected, FlagStands
<1> QED BY <1>2, <1>4, <1>5, <1>6 DEF Inv, QueueTyped

LEMMA AnnounceKeeps ==
  ASSUME Inv, (\E w \in Writers : Announce(w)) \/ (\E e \in Event : AnnounceReload(e))
  PROVE  Inv'
<1> USE ClientAssumption
<1> DEFINE m(e) == [to |-> None, event |-> [kind |-> e.kind, name |-> e.name, key |-> e.key, val |-> e.val]]
<1>1. ASSUME NEW e, e \in Announcement \cup Event PROVE m(e) \in Message /\ m(e).to = None
  BY <1>1 DEF Message, Announcement, Event
<1>2. \A n, c : Excused(n, c) \in [Names -> BOOLEAN]
  BY DEF Excused, Inv, ExcuseTyped
<1>3. ASSUME NEW w \in Writers, Announce(w) PROVE Inv'
  <2>1. announcing[w] \in Announcement BY <1>3 DEF Announce, Inv, TablesTyped
  <2>2. queue' = Append(queue, m(announcing[w])) \/ queue' = queue BY <1>3 DEF Announce, Sent
  <2>3. UNCHANGED <<user, connected, need>> BY <1>3 DEF Announce
  <2>4. TablesTyped' /\ CopyTyped' /\ FlagsTyped'
    BY <1>3 DEF Announce, Inv, TablesTyped, CopyTyped, FlagsTyped
  <2>5. ExcuseTyped' BY <1>2, <1>3 DEF Announce, ExcuseTyped
  <2> HIDE DEF m
  <2> QED BY <1>1, <2>1, <2>2, <2>3, <2>4, <2>5, SendingKeeps
<1>4. ASSUME NEW e \in Event, AnnounceReload(e) PROVE Inv'
  <2>1. queue' = Append(queue, m(e)) BY <1>4 DEF AnnounceReload, Sent
  <2>2. UNCHANGED <<user, connected, need>> BY <1>4 DEF AnnounceReload
  <2>3. TablesTyped' /\ CopyTyped' /\ FlagsTyped'
    BY <1>4 DEF AnnounceReload, serverVars, Inv, TablesTyped, CopyTyped, FlagsTyped
  <2>4. ExcuseTyped' BY <1>2, <1>4 DEF AnnounceReload, ExcuseTyped
  <2> HIDE DEF m
  <2> QED BY <1>1, <2>1, <2>2, <2>3, <2>4, SendingKeeps
<1> QED BY <1>3, <1>4

(* A step of one thread that neither waits for a reply before it nor after it,
   and neither loads nor subscribes after it unless it did, or nobody does. *)
LEMMA ThreadMoves ==
  ASSUME Inv, NEW u \in Users, NEW r \in Thread,
         user' = [user EXCEPT ![u] = r], UNCHANGED <<queue, connected>>,
         user[u].at # "replied", r.at # "replied",
         r.at \in Subscribing => user[u].at \in Subscribing
                                 \/ \A w \in Users : user[w].at \notin Subscribing,
         r.at \in Loading => user[u].at \in Loading \/ \A w \in Users : user[w].at \notin Loading,
         r.at \in Waiting \cup {"put"} => r.name \in Names,
         r.at \in Waiting \cup {"subscribing"} => connected
  PROVE  QueueTyped' /\ UsersTyped' /\ Apart' /\ Connected' /\ Replies' /\ OnItsWay'
<1>1. user \in [Users -> Thread] BY DEF Inv, UsersTyped
<1>2. user' \in [Users -> Thread] BY <1>1
<1>3. \A w \in Users : user'[w] = IF w = u THEN r ELSE user[w] BY <1>1
<1>4. UsersTyped' BY <1>2, <1>3 DEF Inv, UsersTyped
<1>5. Apart' BY <1>3 DEF Inv, Apart
<1>6. Connected' BY <1>3 DEF Inv, Connected
<1>7. QueueTyped' BY DEF Inv, QueueTyped
<1>8. \A i \in 1 .. Len(queue) : queue[i] \in Message BY DEF Inv, QueueTyped
<1>9. \A i \in 1 .. Len(queue) : queue[i].to \in Users \cup {None}
  BY <1>8 DEF Message
<1>10. Replies'
  <2>1. \A i \in 1 .. Len(queue) : queue[i].to # None => user'[queue[i].to].at = "replied"
    BY <1>3, <1>9 DEF Inv, Replies
  <2> QED BY <2>1 DEF Inv, Replies
<1>11. OnItsWay' BY <1>3 DEF Inv, OnItsWay
<1> QED BY <1>4, <1>5, <1>6, <1>7, <1>10, <1>11

(* The same with the flag of the cache left alone: such a step keeps the
   invariant when it starts no load without the flag, and passes no flag that is
   set without being old. *)
LEMMA ThreadSteps ==
  ASSUME Inv, NEW u \in Users, NEW r \in Thread,
         user' = [user EXCEPT ![u] = r], UNCHANGED <<queue, connected>>,
         TablesTyped', CopyTyped', ExcuseTyped', FlagsTyped',
         "cache" \in need' <=> "cache" \in need,
         user[u].at # "replied", r.at # "replied",
         r.at \in Subscribing => user[u].at \in Subscribing
                                 \/ \A w \in Users : user[w].at \notin Subscribing,
         r.at \in Loading => user[u].at \in Loading \/ \A w \in Users : user[w].at \notin Loading,
         r.at \in Waiting \cup {"put"} => r.name \in Names,
         r.at \in Waiting \cup {"subscribing"} => connected,
         r.at \in Loading => user[u].at \in Loading \/ "cache" \in need,
         r.at = "passed" => ("cache" \in need => r.old)
  PROVE  Inv'
<1>1. QueueTyped' /\ UsersTyped' /\ Apart' /\ Connected' /\ Replies' /\ OnItsWay'
  BY ThreadMoves
<1>2. \A w \in Users : user'[w] = IF w = u THEN r ELSE user[w] BY DEF Inv, UsersTyped
<1>3. FlagStands' BY <1>2 DEF Inv, FlagStands
<1> QED BY <1>1, <1>3 DEF Inv

(* The steps of a thread that asks for the provider and the cache. *)
LEMMA AskingKeeps ==
  ASSUME Inv, NEW u \in Users,
         \/ Read(u) \/ ProviderFlag(u) \/ ProviderLock(u) \/ Subscribe(u) \/ Subscribed(u)
         \/ CacheFlag(u) \/ CacheLock(u) \/ Return(u)
  PROVE  Inv'
<1> USE ClientAssumption
<1> DEFINE At(p) == [user[u] EXCEPT !.at = p]
<1>1. user \in [Users -> Thread] /\ user[u] \in Thread BY DEF Inv, UsersTyped
<1>2. TablesTyped' /\ CopyTyped' /\ ExcuseTyped'
  <2>1. UNCHANGED <<table, announcing, copy, excuse>>
    BY DEF Read, ProviderFlag, ProviderLock, Subscribe, Subscribed, CacheFlag, CacheLock, Return,
           serverVars
  <2> QED BY <2>1 DEF Inv, TablesTyped, CopyTyped, ExcuseTyped
<1>3. UNCHANGED <<queue, connected, known, untold>>
  BY DEF Read, ProviderFlag, ProviderLock, Subscribe, Subscribed, CacheFlag, CacheLock, Return,
         serverVars
<1>4. \A p \in Places : At(p) \in Thread /\ At(p).at = p /\ At(p).name = user[u].name
  BY <1>1 DEF Thread
<1>5. ASSUME NEW p \in {"flag", "provider", "providerLock", "lock", "subscribed"},
             user' = [user EXCEPT ![u].at = p], user[u].at # "replied", FlagsTyped',
             "cache" \in need' <=> "cache" \in need,
             p = "subscribed" => user[u].at \in Subscribing
      PROVE  Inv'
  <2>1. p \in Places BY DEF Places, Subscribing
  <2>2. user' = [user EXCEPT ![u] = At(p)] BY <1>5, <1>1
  <2>3. p \notin Loading \cup Waiting \cup {"put", "subscribing", "passed", "replied"}
    BY DEF Loading, Waiting
  <2>4. p \in Subscribing => user[u].at \in Subscribing BY <1>5 DEF Subscribing
  <2>5. At(p) \in Thread /\ At(p).at = p BY <1>4, <2>1
  <2> HIDE DEF At
  <2>6. At(p).at \notin Loading \cup Waiting \cup {"put", "subscribing", "passed", "replied"}
    BY <2>3, <2>5
  <2> QED BY <1>2, <1>3, <1>5, <2>2, <2>4, <2>5, <2>6, ThreadSteps
<1>6. FlagsTyped'
  <2>1. settled' \subseteq Flags /\ need' \subseteq Flags
    BY DEF Read, ProviderFlag, ProviderLock, Subscribe, Subscribed, CacheFlag, CacheLock, Return,
           Inv, FlagsTyped, Flags
  <2>2. subscribed' = subscribed \/ (subscribed' = TRUE /\ connected)
    BY DEF Read, ProviderFlag, ProviderLock, Subscribe, Subscribed, CacheFlag, CacheLock, Return
  <2>3. connected' \in BOOLEAN /\ known' \in BOOLEAN /\ untold' \subseteq Flags
    BY <1>3 DEF Inv, FlagsTyped
  <2>4. subscribed' \in BOOLEAN BY <2>2 DEF Inv, FlagsTyped
  <2>5. subscribed' => connected' BY <1>3, <2>2 DEF Inv, FlagsTyped
  <2> QED BY <2>1, <2>3, <2>4, <2>5 DEF FlagsTyped
<1>7. "cache" \in need' <=> "cache" \in need
  BY DEF Read, ProviderFlag, ProviderLock, Subscribe, Subscribed, CacheFlag, CacheLock, Return
<1>8. CASE Read(u) BY <1>5, <1>6, <1>7, <1>8 DEF Read
<1>9. CASE ProviderFlag(u) BY <1>5, <1>6, <1>7, <1>9 DEF ProviderFlag
<1>10. CASE ProviderLock(u)
  <2>1. CASE user' = [user EXCEPT ![u].at = "flag"]
    BY <1>5, <1>6, <1>7, <1>10, <2>1 DEF ProviderLock
  <2>2. CASE user' = [user EXCEPT ![u].at = "subscribing"] /\ connected
    <3>1. "subscribing" \in Places BY DEF Places, Subscribing
    <3>2. user' = [user EXCEPT ![u] = At("subscribing")] BY <2>2, <1>1
    <3>3. user[u].at # "replied" /\ \A w \in Users : user[w].at \notin Subscribing
      BY <1>10 DEF ProviderLock
    <3>4. "subscribing" \notin Loading \cup Waiting \cup {"put", "passed"}
      BY DEF Loading, Waiting
    <3> QED BY <1>2, <1>3, <1>4, <1>6, <1>7, <2>2, <3>1, <3>2, <3>3, <3>4, ThreadSteps
  <2> QED BY <1>10, <2>1, <2>2 DEF ProviderLock
<1>11. CASE Subscribe(u)
  BY <1>5, <1>6, <1>7, <1>11 DEF Subscribe, Subscribing
<1>12. CASE Subscribed(u) BY <1>5, <1>6, <1>7, <1>12 DEF Subscribed
<1>13. ASSUME user' = [user EXCEPT ![u] = Pass(user[u])], user[u].at # "replied"
       PROVE  Inv'
  <2> DEFINE r == Pass(user[u])
  <2> DEFINE set == "cache" \in need'
  <2>3. set \in BOOLEAN OBVIOUS
  <2> HIDE DEF set
  <2>4. r = [user[u] EXCEPT !.at = "passed", !.old = set] BY DEF Pass, set
  <2>5. r \in Thread /\ r.at = "passed" /\ r.old = set
    BY <1>1, <2>3, <2>4 DEF Thread, Places
  <2>1. r \in Thread /\ r.at = "passed" /\ (r.old <=> "cache" \in need')
    BY <2>5 DEF set
  <2>2. r.at \notin Loading \cup Waiting \cup Subscribing \cup {"put", "subscribing"}
    BY <2>1 DEF Loading, Waiting, Subscribing
  <2> QED BY <1>2, <1>3, <1>6, <1>7, <1>13, <2>1, <2>2, ThreadSteps
<1>14. CASE CacheFlag(u)
  <2>1. user[u].at = "flag" BY <1>14 DEF CacheFlag
  <2>2. \/ user' = [user EXCEPT ![u].at = "lock"]
        \/ user' = [user EXCEPT ![u] = Pass(user[u])]
    BY <1>14, <1>1 DEF CacheFlag
  <2> QED BY <1>5, <1>6, <1>7, <1>13, <2>1, <2>2
<1>15. CASE CacheLock(u)
  <2>1. user[u].at = "lock" BY <1>15 DEF CacheLock
  <2>2. CASE user' = [user EXCEPT ![u] = Pass(user[u])]
    BY <1>13, <2>1, <2>2
  <2>3. CASE /\ user' = [user EXCEPT ![u] = [user[u] EXCEPT !.at = "clear", !.todo = Names]]
             /\ "cache" \in need
    <3> DEFINE r == [user[u] EXCEPT !.at = "clear", !.todo = Names]
    <3>1. r \in Thread /\ r.at = "clear" BY <1>1 DEF Thread, Places, Loading
    <3>2. r.at \notin Waiting \cup Subscribing \cup {"put", "subscribing"}
      BY <3>1 DEF Waiting, Subscribing
    <3>3. \A w \in Users : user[w].at \notin Loading BY <1>15 DEF CacheLock, LockFree
    <3> HIDE DEF r
    <3>4. user' = [user EXCEPT ![u] = r] BY <2>3 DEF r
    <3> QED BY <1>2, <1>3, <1>6, <1>7, <2>1, <2>3, <3>1, <3>2, <3>3, <3>4, ThreadSteps
  <2> QED BY <1>15, <2>2, <2>3 DEF CacheLock
<1>16. CASE Return(u)
  <2>1. Idle \in Thread BY DEF Idle, Thread, Places
  <2>2. Idle.at \notin Loading \cup Waiting \cup Subscribing
                         \cup {"put", "subscribing", "replied", "passed"}
    BY DEF Idle, Loading, Waiting, Subscribing
  <2>3. user' = [user EXCEPT ![u] = Idle] /\ user[u].at = "passed" BY <1>16 DEF Return
  <2> QED BY <1>2, <1>3, <1>6, <1>7, <2>1, <2>2, <2>3, ThreadSteps
<1> QED BY <1>8, <1>9, <1>10, <1>11, <1>12, <1>14, <1>15, <1>16

(* The steps of a thread that loads the cache, and what the server answers. *)
LEMMA LoadingKeeps ==
  ASSUME Inv, NEW u \in Users,
         \/ Select(u) \/ ReadFails(u) \/ (\E n \in Names : Clear(u, n))
         \/ (\E r \in Rows : PutRow(u, r)) \/ Loaded(u)
  PROVE  Inv'
<1> USE ClientAssumption
<1>1. user \in [Users -> Thread] /\ user[u] \in Thread BY DEF Inv, UsersTyped
<1>2. UNCHANGED <<table, announcing, known, queue, connected, subscribed, need, settled, untold>>
  BY DEF Select, ReadFails, Clear, PutRow, Loaded, serverVars
<1>3. TablesTyped' /\ FlagsTyped' BY <1>2 DEF Inv, TablesTyped, FlagsTyped
<1>4. user[u].at \in Loading /\ user[u].at # "replied"
  BY DEF Select, ReadFails, Clear, PutRow, Loaded, Loading, Waiting
<1>5. ASSUME NEW r \in Thread, user' = [user EXCEPT ![u] = r], CopyTyped', ExcuseTyped',
             r.at \in {"clear", "asked", "selected", "put"},
             r.at # "clear" => r.name \in Names,
             r.at \in Waiting => connected
      PROVE  Inv'
  <2>1. r.at \notin Subscribing /\ r.at \notin {"replied", "passed", "subscribing"}
    BY <1>5 DEF Subscribing
  <2>2. r.at \in Waiting \cup {"put"} => r.name \in Names BY <1>5 DEF Waiting
  <2>3. r.at \in Waiting \cup {"subscribing"} => connected BY <1>5
  <2> QED BY <1>2, <1>3, <1>4, <1>5, <2>1, <2>2, <2>3, ThreadSteps
<1>6. \A n, c : Excused(n, c) \in [Names -> BOOLEAN]
  BY DEF Excused, Inv, ExcuseTyped
<1>7. CASE Select(u)
  <2>1. user[u].at = "asked" /\ connected BY <1>7 DEF Select
  <2>2. user[u].name \in Names BY <2>1 DEF Inv, UsersTyped, Waiting
  <2>3. PICK list : user' = [user EXCEPT ![u].at = "selected", ![u].rows = {s \in Rows : s.val = list[s.key]}]
    <3> DEFINE Lists == IF user[u].name \in Cached THEN [Keys -> Announced \cup {NoRow}]
                        ELSE {[k \in Keys |-> IF table[user[u].name][k] \in Selected
                                              THEN ReadBack(table[user[u].name][k]) ELSE NoRow]}
    <3>1. \E list \in Lists :
            user' = [user EXCEPT ![u].at = "selected", ![u].rows = {s \in Rows : s.val = list[s.key]}]
      BY <1>7 DEF Select
    <3> HIDE DEF Lists
    <3> QED BY <3>1
  <2> DEFINE rows == {s \in Rows : s.val = list[s.key]}
             r == [user[u] EXCEPT !.at = "selected", !.rows = rows]
  <2>4. rows \subseteq Rows OBVIOUS
  <2>5. user' = [user EXCEPT ![u] = r] BY <1>1, <2>3
  <2> HIDE DEF rows
  <2>6. r \in Thread /\ r.at = "selected" /\ r.name = user[u].name
    BY <1>1, <2>4 DEF Thread, Places, Loading, Waiting
  <2> HIDE DEF r
  <2>7. ExcuseTyped'
    <3>1. \E c : excuse' = Excused(user[u].name, c) BY <1>7 DEF Select
    <3> QED BY <1>6, <3>1 DEF ExcuseTyped
  <2>8. CopyTyped' BY <1>7 DEF Select, Inv, CopyTyped
  <2> QED BY <1>5, <2>1, <2>2, <2>5, <2>6, <2>7, <2>8
<1>8. CASE ReadFails(u)
  <2> DEFINE r == [user[u] EXCEPT !.at = "clear"]
  <2>1. r \in Thread /\ r.at = "clear" BY <1>1 DEF Thread, Places, Loading
  <2>2. ExcuseTyped' BY <1>6, <1>8 DEF ReadFails, ExcuseTyped
  <2>3. CopyTyped' BY <1>8 DEF ReadFails, Inv, CopyTyped
  <2>4. user' = [user EXCEPT ![u] = r] BY <1>1, <1>8 DEF ReadFails
  <2> HIDE DEF r
  <2>5. r.at \notin Waiting BY <2>1 DEF Waiting
  <2> QED BY <1>5, <2>1, <2>2, <2>3, <2>4, <2>5
<1>9. ASSUME NEW n \in Names, Clear(u, n) PROVE Inv'
  <2> DEFINE p == IF connected THEN "asked" ELSE "clear"
             r == [user[u] EXCEPT !.at = p, !.name = n, !.todo = @ \ {n}, !.rows = {}]
  <2>1. p \in {"asked", "clear"} /\ (p = "asked" => connected) OBVIOUS
  <2>2. user' = [user EXCEPT ![u] = r] BY <1>1, <1>9 DEF Clear
  <2> HIDE DEF p
  <2>3. r \in Thread /\ r.at = p /\ r.name = n
    BY <1>1, <2>1 DEF Thread, Places, Loading, Waiting
  <2> HIDE DEF r
  <2>4. NoRows \in [Keys -> Values \cup {NoRow, Blank}] BY DEF NoRows
  <2>5. CopyTyped' BY <1>9, <2>4 DEF Clear, Inv, CopyTyped
  <2>6. ExcuseTyped'
    <3> DEFINE c == ~connected
    <3>1. c \in BOOLEAN OBVIOUS
    <3>2. excuse' = [excuse EXCEPT ![n] = c] BY <1>9 DEF Clear
    <3> HIDE DEF c
    <3> QED BY <3>1, <3>2 DEF Inv, ExcuseTyped
  <2>7. r.at \in Waiting => connected BY <2>1, <2>3 DEF Waiting
  <2> QED BY <1>5, <2>1, <2>2, <2>3, <2>5, <2>6, <2>7
<1>10. ASSUME NEW e \in Rows, PutRow(u, e) PROVE Inv'
  <2> DEFINE n == user[u].name
             r == [user[u] EXCEPT !.rows = @ \ {e}]
  <2>1. user[u].at = "put" BY <1>10 DEF PutRow
  <2>2. n \in Names BY <2>1 DEF Inv, UsersTyped
  <2>3. r \in Thread /\ r.at = "put" /\ r.name = n BY <1>1, <2>1 DEF Thread
  <2>4. user' = [user EXCEPT ![u] = r] BY <1>1, <1>10 DEF PutRow
  <2>5. e.key \in Keys /\ e.val \in Values \cup {NoRow, Blank} BY DEF Rows
  <2>6. copy' = [copy EXCEPT ![n] = [copy[n] EXCEPT ![e.key] = e.val]] /\ excuse' = excuse
    BY <1>10, <2>2 DEF PutRow, Inv, CopyTyped
  <2>7. [copy[n] EXCEPT ![e.key] = e.val] \in [Keys -> Values \cup {NoRow, Blank}]
    BY <2>2, <2>5 DEF Inv, CopyTyped
  <2>8. CopyTyped' /\ ExcuseTyped' BY <2>2, <2>6, <2>7 DEF Inv, CopyTyped, ExcuseTyped
  <2> HIDE DEF r
  <2>9. r.at \notin Waiting BY <2>3 DEF Waiting
  <2> QED BY <1>5, <2>2, <2>3, <2>4, <2>8, <2>9
<1>11. CASE Loaded(u)
  <2> DEFINE r == [user[u] EXCEPT !.at = "clear", !.name = None]
  <2>1. r \in Thread /\ r.at = "clear" BY <1>1 DEF Thread, Places, Loading
  <2>2. user' = [user EXCEPT ![u] = r] /\ UNCHANGED <<copy, excuse>> BY <1>1, <1>11 DEF Loaded
  <2>3. CopyTyped' /\ ExcuseTyped' BY <2>2 DEF Inv, CopyTyped, ExcuseTyped
  <2> HIDE DEF r
  <2>4. r.at \notin Waiting BY <2>1 DEF Waiting
  <2> QED BY <1>5, <2>1, <2>2, <2>3, <2>4
<1> QED BY <1>7, <1>8, <1>9, <1>10, <1>11

(* The flag of the cache is cleared by the one thread that loads it. *)
LEMMA InitDoneKeeps ==
  ASSUME Inv, NEW u \in Users, InitDone(u)
  PROVE  Inv'
<1> DEFINE set == "cache" \in need'
           r == [user[u] EXCEPT !.at = "passed", !.old = set, !.name = None]
<1>1. user \in [Users -> Thread] /\ user[u] \in Thread BY DEF Inv, UsersTyped
<1>2. set \in BOOLEAN OBVIOUS
<1>3. user' = [user EXCEPT ![u] = r] BY <1>1 DEF InitDone, Pass
<1>4. "cache" \notin need' BY DEF InitDone
<1> HIDE DEF set
<1>5. r \in Thread /\ r.at = "passed" BY <1>1, <1>2 DEF Thread, Places
<1> HIDE DEF r
<1>6. user[u].at = "clear" BY DEF InitDone
<1>7. r.at \notin Subscribing \cup Loading \cup Waiting \cup {"put", "subscribing", "replied"}
  BY <1>5 DEF Subscribing, Loading, Waiting
<1>8. UNCHANGED <<queue, connected>> BY DEF InitDone
<1>9. QueueTyped' /\ UsersTyped' /\ Apart' /\ Connected' /\ Replies' /\ OnItsWay'
  BY <1>3, <1>5, <1>6, <1>7, <1>8, ThreadMoves
<1>10. \A w \in Users : w # u => user[w].at \notin Loading
  BY <1>6 DEF Inv, Apart, Loading
<1>11. \A w \in Users : user'[w].at \notin Loading
  BY <1>1, <1>3, <1>7, <1>10
<1>12. FlagStands' BY <1>4, <1>11 DEF FlagStands
<1>13. UNCHANGED <<table, announcing, copy, excuse>> BY DEF InitDone, serverVars
<1>14. TablesTyped' /\ CopyTyped' /\ ExcuseTyped'
  BY <1>13 DEF Inv, TablesTyped, CopyTyped, ExcuseTyped
<1>15. UNCHANGED <<known, subscribed, untold>> BY DEF InitDone, serverVars
<1>16. need' \subseteq Flags /\ settled' \subseteq Flags
  BY DEF InitDone, Inv, FlagsTyped, Flags
<1>17. FlagsTyped' BY <1>8, <1>15, <1>16 DEF Inv, FlagsTyped
<1> QED BY <1>9, <1>12, <1>14, <1>17 DEF Inv

(* A thread that was asked for no reply yet has none in the queue. *)
LEMMA ReplyKeeps ==
  ASSUME Inv, NEW u \in Users, Reply(u)
  PROVE  Inv'
<1> USE ClientAssumption
<1> DEFINE m == [to |-> u, event |-> None]
           r == [user[u] EXCEPT !.at = "replied"]
<1>1. user \in [Users -> Thread] /\ user[u] \in Thread BY DEF Inv, UsersTyped
<1>2. m \in Message /\ m.to = u BY DEF Message
<1>3. queue' = Append(queue, m) BY DEF Reply
<1> HIDE DEF m
<1>4. queue \in Seq(Message) BY DEF Inv, QueueTyped
<1>5. QueueTyped' BY <1>2, <1>3, <1>4 DEF QueueTyped
<1>6. /\ Len(queue) \in Nat /\ Len(queue') = Len(queue) + 1
      /\ \A i \in 1 .. Len(queue) : queue'[i] = queue[i]
      /\ queue'[Len(queue')] = m
  BY <1>2, <1>3, <1>4
<1>7. user[u].at = "selected" /\ connected /\ user' = [user EXCEPT ![u] = r]
  BY <1>1 DEF Reply
<1>8. r \in Thread /\ r.at = "replied" /\ r.name = user[u].name
  BY <1>1 DEF Thread, Places, Loading, Waiting
<1> HIDE DEF r
<1>9. \A w \in Users : user'[w] = IF w = u THEN r ELSE user[w] BY <1>1, <1>7
<1>10. user' \in [Users -> Thread] BY <1>1, <1>7, <1>8
<1>11. user[u].name \in Names BY <1>7 DEF Inv, UsersTyped, Waiting
<1>12. UsersTyped' BY <1>8, <1>9, <1>10, <1>11 DEF Inv, UsersTyped
<1>13. "replied" \notin Subscribing /\ "selected" \in Loading
  BY DEF Subscribing, Loading, Waiting
<1>14. Apart' BY <1>7, <1>8, <1>9, <1>13 DEF Inv, Apart
<1>15. UNCHANGED <<connected, need, known, subscribed, untold, settled, table, announcing, copy, excuse>>
  BY DEF Reply, serverVars
<1>16. Connected' BY <1>7, <1>9, <1>15 DEF Inv, Connected
<1>17. \A i \in 1 .. Len(queue) : queue[i].to # u
  BY <1>2, <1>7, ClientAssumption DEF Inv, Replies
<1>18. Replies'
  <2>1. \A i \in 1 .. Len(queue') : i \in 1 .. Len(queue) \/ i = Len(queue') BY <1>6
  <2>2. \A i \in 1 .. Len(queue) : queue[i].to \in Users \cup {None}
    BY <1>4 DEF Message
  <2>3. \A i \in 1 .. Len(queue') : queue'[i].to # None => user'[queue'[i].to].at = "replied"
    BY <1>2, <1>6, <1>8, <1>9, <1>17, <2>1, <2>2 DEF Inv, Replies
  <2>4. \A i, j \in 1 .. Len(queue') : i # j /\ queue'[i].to # None => queue'[i].to # queue'[j].to
    BY <1>2, <1>6, <1>17, <2>1 DEF Inv, Replies
  <2> QED BY <2>3, <2>4 DEF Replies
<1>19. OnItsWay'
  <2>1. \A i \in 1 .. Len(queue) : i \in 1 .. Len(queue') BY <1>6
  <2>2. Len(queue') \in 1 .. Len(queue') BY <1>6
  <2> QED BY <1>2, <1>6, <1>9, <2>1, <2>2 DEF Inv, OnItsWay
<1>20. FlagStands' BY <1>7, <1>8, <1>9, <1>13, <1>15 DEF Inv, FlagStands
<1>21. TablesTyped' /\ CopyTyped' /\ ExcuseTyped' /\ FlagsTyped'
  BY <1>15 DEF Inv, TablesTyped, CopyTyped, ExcuseTyped, FlagsTyped
<1> QED BY <1>5, <1>12, <1>14, <1>16, <1>18, <1>19, <1>20, <1>21 DEF Inv

(* What is received is an event, which is put into the copy, or a reply. *)
LEMMA ReceiveKeeps ==
  ASSUME Inv, Receive
  PROVE  Inv'
<1> USE ClientAssumption
<1> DEFINE h == Head(queue)
<1>1. queue \in Seq(Message) /\ queue # <<>> /\ queue' = Tail(queue)
  BY DEF Inv, QueueTyped, Receive
<1>2. /\ Len(queue) \in Nat /\ Len(queue) > 0 /\ Len(queue') = Len(queue) - 1
      /\ \A i \in 1 .. Len(queue') : i + 1 \in 1 .. Len(queue) /\ queue'[i] = queue[i + 1]
      /\ h = queue[1] /\ 1 \in 1 .. Len(queue) /\ h \in Message
  BY <1>1
<1>3. QueueTyped' BY <1>1 DEF QueueTyped
<1>4. UNCHANGED <<connected, need, known, subscribed, untold, settled, table, announcing>>
  BY DEF Receive, serverVars
<1>5. TablesTyped' /\ FlagsTyped' BY <1>4 DEF Inv, TablesTyped, FlagsTyped
<1>6. \A i \in 1 .. Len(queue) : queue[i].to \in Users \cup {None}
  BY <1>1 DEF Message
<1>7. \A i, j \in 1 .. Len(queue') : i # j /\ queue'[i].to # None => queue'[i].to # queue'[j].to
  BY <1>2 DEF Inv, Replies
<1>8. \A j \in 1 .. Len(queue) : j = 1 \/ (j - 1 \in 1 .. Len(queue') /\ queue'[j - 1] = queue[j])
  BY <1>2
<1>9. CASE h.to # None
  <2> DEFINE u == h.to
             r == [user[u] EXCEPT !.at = "put"]
  <2>1. u \in Users BY <1>2, <1>6, <1>9
  <2>2. user[u].at = "replied" BY <1>2, <1>9 DEF Inv, Replies
  <2>3. user \in [Users -> Thread] /\ user[u] \in Thread BY <2>1 DEF Inv, UsersTyped
  <2>4. user' = [user EXCEPT ![u] = r] /\ UNCHANGED <<copy, excuse>>
    BY <1>9, <2>1, <2>3 DEF Receive
  <2>5. r \in Thread /\ r.at = "put" /\ r.name = user[u].name
    BY <2>3 DEF Thread, Places, Loading
  <2> HIDE DEF r
  <2>6. \A w \in Users : user'[w] = IF w = u THEN r ELSE user[w] BY <2>1, <2>3, <2>4
  <2>7. user' \in [Users -> Thread] BY <2>1, <2>3, <2>4, <2>5
  <2>8. user[u].name \in Names BY <2>1, <2>2 DEF Inv, UsersTyped, Waiting
  <2>9. UsersTyped' BY <2>5, <2>6, <2>7, <2>8 DEF Inv, UsersTyped
  <2>10. "put" \notin Subscribing \cup Waiting \cup {"subscribing"} /\ "replied" \in Loading
    BY DEF Subscribing, Loading, Waiting
  <2>11. Apart' BY <2>1, <2>2, <2>5, <2>6, <2>10 DEF Inv, Apart
  <2>12. Connected' BY <1>4, <2>5, <2>6, <2>10 DEF Inv, Connected
  <2>13. \A i \in 1 .. Len(queue') : queue'[i].to # u BY <1>2, <1>9 DEF Inv, Replies
  <2>14. Replies'
    <3>1. \A i \in 1 .. Len(queue') : queue'[i].to # None => user'[queue'[i].to].at = "replied"
      BY <1>2, <1>6, <2>6, <2>13 DEF Inv, Replies
    <3> QED BY <3>1, <1>7 DEF Replies
  <2>15. OnItsWay'
    <3> SUFFICES ASSUME NEW w \in Users, user'[w].at = "replied"
                 PROVE  \E i \in 1 .. Len(queue') : queue'[i].to = w
      BY DEF OnItsWay
    <3>1. w # u /\ user[w].at = "replied" BY <2>5, <2>6
    <3>2. PICK j \in 1 .. Len(queue) : queue[j].to = w BY <3>1 DEF Inv, OnItsWay
    <3>3. j # 1 BY <1>2, <3>1, <3>2
    <3> QED BY <1>8, <3>2, <3>3
  <2>16. FlagStands' BY <1>4, <2>1, <2>2, <2>5, <2>6, <2>10 DEF Inv, FlagStands
  <2>17. CopyTyped' /\ ExcuseTyped' BY <2>4 DEF Inv, CopyTyped, ExcuseTyped
  <2> QED BY <1>3, <1>5, <2>9, <2>11, <2>12, <2>14, <2>15, <2>16, <2>17 DEF Inv
<1>10. CASE h.to = None
  <2> DEFINE e == h.event
             c == \E u \in Users : user[u].at \in Loading /\ user[u].name = e.name
  <2>1. e \in Event BY <1>2, <1>10 DEF Message
  <2>2. e.name \in Names /\ e.key \in Keys /\ e.val \in Values \cup {Blank} BY <2>1 DEF Event
  <2>3. /\ user' = user
        /\ copy' = [copy EXCEPT ![e.name] = Applied(copy[e.name], e)]
        /\ excuse' = Excused(e.name, c)
    BY <1>10 DEF Receive
  <2> HIDE DEF c
  <2>5. Applied(copy[e.name], e) \in [Keys -> Values \cup {NoRow, Blank}]
    BY <2>2 DEF Applied, Inv, CopyTyped
  <2>6. CopyTyped' BY <2>2, <2>3, <2>5 DEF Inv, CopyTyped
  <2>7. ExcuseTyped' BY <2>3 DEF Inv, ExcuseTyped, Excused
  <2>8. UsersTyped' /\ Apart' /\ Connected' /\ FlagStands'
    BY <1>4, <2>3 DEF Inv, UsersTyped, Apart, Connected, FlagStands
  <2>9. Replies'
    <3>1. \A i \in 1 .. Len(queue') : queue'[i].to # None => user'[queue'[i].to].at = "replied"
      BY <1>2, <2>3 DEF Inv, Replies
    <3> QED BY <3>1, <1>7 DEF Replies
  <2>10. OnItsWay'
    <3> SUFFICES ASSUME NEW w \in Users, user[w].at = "replied"
                 PROVE  \E i \in 1 .. Len(queue') : queue'[i].to = w
      BY <2>3 DEF OnItsWay
    <3>1. PICK j \in 1 .. Len(queue) : queue[j].to = w BY DEF Inv, OnItsWay
    <3>2. j # 1 BY <1>2, <1>10, <3>1
    <3> QED BY <1>8, <3>1, <3>2
  <2> QED BY <1>3, <1>5, <2>6, <2>7, <2>8, <2>9, <2>10 DEF Inv
<1> QED BY <1>9, <1>10

(* When the connection breaks nobody waits any more, and nothing is sent. *)
LEMMA DisconnectKeeps ==
  ASSUME Inv, Disconnect
  PROVE  Inv'
<1> USE ClientAssumption
<1>1. user \in [Users -> Thread] BY DEF Inv, UsersTyped
<1>2. ASSUME NEW r \in Thread
      PROVE  /\ Interrupted(r) \in Thread
             /\ Interrupted(r).at \notin Waiting \cup {"subscribing"}
             /\ Interrupted(r).at \in Loading <=> r.at \in Loading
             /\ Interrupted(r).at \in Subscribing => r.at \in Subscribing
             /\ Interrupted(r).at \in {"put", "passed"} =>
                  r.at = Interrupted(r).at /\ r.name = Interrupted(r).name /\ r.old = Interrupted(r).old
  <2>1. CASE r.at = "subscribing"
    <3>0. r.at \notin Waiting BY <2>1 DEF Waiting
    <3>1. Interrupted(r) = [r EXCEPT !.at = "flag"] BY <2>1, <3>0 DEF Interrupted
    <3>2. Interrupted(r) \in Thread /\ Interrupted(r).at = "flag" BY <3>1 DEF Thread, Places
    <3> QED BY <2>1, <3>2 DEF Loading, Waiting, Subscribing
  <2>2. CASE r.at \in Waiting
    <3>1. r.at # "subscribing" BY <2>2 DEF Waiting
    <3>2. Interrupted(r) = [r EXCEPT !.at = "clear", !.rows = {}] BY <2>2, <3>1 DEF Interrupted
    <3>3. Interrupted(r) \in Thread /\ Interrupted(r).at = "clear"
      BY <3>2 DEF Thread, Places, Loading
    <3> QED BY <2>2, <3>3 DEF Loading, Waiting, Subscribing
  <2>3. CASE r.at # "subscribing" /\ r.at \notin Waiting
    <3>1. Interrupted(r) = r BY <2>3 DEF Interrupted
    <3> QED BY <2>3, <3>1
  <2> QED BY <2>1, <2>2, <2>3
<1>3. \A w \in Users : user'[w] = Interrupted(user[w]) BY DEF Disconnect
<1>4. user' \in [Users -> Thread] BY <1>1, <1>2 DEF Disconnect
<1>5. \A w \in Users : user[w] \in Thread BY <1>1
<1>6. UsersTyped'
  <2>1. \A w \in Users : user'[w].at \in Waiting \cup {"put"} => user'[w].name \in Names
    BY <1>2, <1>3, <1>5 DEF Inv, UsersTyped
  <2> QED BY <1>4, <2>1 DEF UsersTyped
<1>7. Apart' BY <1>2, <1>3, <1>5 DEF Inv, Apart
<1>8. Connected' BY <1>2, <1>3, <1>5 DEF Connected
<1>9. queue' = <<>> BY DEF Disconnect
<1>10. QueueTyped' /\ Replies' BY <1>9 DEF QueueTyped, Replies
<1>11. OnItsWay' BY <1>2, <1>3, <1>5 DEF OnItsWay, Waiting
<1>12. need' = need BY DEF Disconnect
<1>13. FlagStands' BY <1>2, <1>3, <1>5, <1>12 DEF Inv, FlagStands
<1>14. UNCHANGED <<known, need, settled, table, announcing, copy>> BY DEF Disconnect, serverVars
<1>15. TablesTyped' /\ CopyTyped' BY <1>14 DEF Inv, TablesTyped, CopyTyped
<1>16. ExcuseTyped' BY DEF Disconnect, ExcuseTyped
<1>17. connected' = FALSE /\ subscribed' = FALSE /\ untold' = Flags BY DEF Disconnect
<1>18. FlagsTyped' BY <1>14, <1>17 DEF Inv, FlagsTyped
<1> QED BY <1>6, <1>7, <1>8, <1>10, <1>11, <1>13, <1>15, <1>16, <1>18 DEF Inv

(* The flag of the cache is set for the threads that went past it as well. *)
LEMMA ToldKeeps ==
  ASSUME Inv, NEW l \in Flags, Told(l)
  PROVE  Inv'
<1>1. user \in [Users -> Thread] BY DEF Inv, UsersTyped
<1>2. UNCHANGED <<table, announcing, known, connected, subscribed, queue, settled, copy, excuse>>
  BY DEF Told, serverVars
<1>3. TablesTyped' /\ CopyTyped' /\ ExcuseTyped' /\ QueueTyped'
  BY <1>2 DEF Inv, TablesTyped, CopyTyped, ExcuseTyped, QueueTyped
<1>4. need' = need \cup {l} /\ untold' = untold \ {l} BY DEF Told
<1>5. FlagsTyped' BY <1>2, <1>4 DEF Inv, FlagsTyped
<1>6. CASE l # "cache"
  <2>1. user' = user /\ ("cache" \in need' <=> "cache" \in need) BY <1>4, <1>6 DEF Told
  <2>2. ThreadInv' BY <1>2, <2>1, ThreadsStay DEF Inv, ThreadInv
  <2> QED BY <1>3, <1>5, <2>2 DEF Inv, ThreadInv
<1>7. CASE l = "cache"
  <2>1. \A w \in Users : user[w] \in Thread BY <1>1
  <2>2. user' = [w \in Users |-> [user[w] EXCEPT !.old = @ \/ user[w].at = "passed"]]
    BY <1>7 DEF Told
  <2>3. ASSUME NEW w \in Users
        PROVE  /\ user'[w] \in Thread
               /\ user'[w].at = user[w].at /\ user'[w].name = user[w].name
               /\ user[w].at = "passed" => user'[w].old
    <3> DEFINE o == user[w].old \/ user[w].at = "passed"
    <3>1. o \in BOOLEAN OBVIOUS
    <3>2. user[w].at = "passed" => o = TRUE OBVIOUS
    <3>3. user'[w] = [user[w] EXCEPT !.old = o] BY <2>2
    <3> HIDE DEF o
    <3> QED BY <2>1, <3>1, <3>2, <3>3 DEF Thread
  <2>4. user' \in [Users -> Thread] BY <2>2, <2>3
  <2>5. UsersTyped' BY <2>3, <2>4 DEF Inv, UsersTyped
  <2>6. Apart' /\ Connected' /\ OnItsWay'
    BY <1>2, <2>3 DEF Inv, Apart, Connected, OnItsWay
  <2>7. Replies'
    <3>1. \A i \in 1 .. Len(queue) : queue[i].to \in Users \cup {None}
      BY DEF Inv, QueueTyped, Message
    <3> QED BY <1>2, <2>3, <3>1 DEF Inv, Replies
  <2>8. FlagStands' BY <1>4, <1>7, <2>3 DEF FlagStands
  <2> QED BY <1>3, <1>5, <2>5, <2>6, <2>7, <2>8 DEF Inv
<1> QED BY <1>6, <1>7

LEMMA ConnectKeeps ==
  ASSUME Inv, Connect
  PROVE  Inv'
<1>1. /\ connected' = TRUE
      /\ UNCHANGED <<table, announcing, known, subscribed, queue, need, settled, untold, copy, user, excuse>>
  BY DEF Connect, serverVars
<1>2. TablesTyped' /\ CopyTyped' /\ ExcuseTyped'
  BY <1>1 DEF Inv, TablesTyped, CopyTyped, ExcuseTyped
<1>3. FlagsTyped' BY <1>1 DEF Inv, FlagsTyped
<1>4. QueueTyped' /\ UsersTyped' /\ Apart' /\ Connected' /\ Replies' /\ OnItsWay' /\ FlagStands'
  BY <1>1 DEF Inv, QueueTyped, UsersTyped, Apart, Connected, Replies, OnItsWay, FlagStands
<1> QED BY <1>2, <1>3, <1>4 DEF Inv

LEMMA NextKeeps == Inv /\ [Next]_vars => Inv'
<1> SUFFICES ASSUME Inv, [Next]_vars PROVE Inv'
  OBVIOUS
<1>1. CASE Writing BY <1>1, ServerKeeps
<1>2. CASE ServerStep
  BY <1>2, AnnounceKeeps, ServerKeeps, AskingKeeps, LoadingKeeps, ReplyKeeps DEF ServerStep
<1>3. CASE Forget BY <1>3, ServerKeeps
<1>4. CASE \E u \in Users : ReadFails(u) BY <1>4, LoadingKeeps
<1>5. CASE Disconnect BY <1>5, DisconnectKeeps
<1>6. CASE \E l \in Flags : Told(l) BY <1>6, ToldKeeps
<1>7. CASE Connect BY <1>7, ConnectKeeps
<1>8. CASE Receive BY <1>8, ReceiveKeeps
<1>9. ASSUME NEW u \in Users, Read(u) \/ UserStep(u) PROVE Inv'
  BY <1>9, AskingKeeps, LoadingKeeps, InitDoneKeeps DEF UserStep
<1>10. CASE UNCHANGED vars
  BY <1>10 DEF vars, serverVars, Inv, TablesTyped, CopyTyped, ExcuseTyped, FlagsTyped, QueueTyped,
     UsersTyped, Apart, Connected, Replies, OnItsWay, FlagStands
<1> QED
  BY <1>1, <1>2, <1>3, <1>4, <1>5, <1>6, <1>7, <1>8, <1>9, <1>10 DEF Next

(* The inductive invariant of the client and its connection (the loops of
   initializeCache and of JsonEntityProvider.init, and their two locks). *)
THEOREM ClientInvariant == Spec => []Inv
<1>1. Init => Inv BY InitInv
<1>2. Inv /\ [Next]_vars => Inv' BY NextKeeps
<1> QED BY <1>1, <1>2, PTL DEF Spec

(* The tables, the copy, the queue and the threads keep their types; one thread
   subscribes and one loads the cache (the locks of getInstance and of
   initializeCache hold across every read, failure and broken connection). *)
THEOREM ClientTypeCorrect == Spec => []TypeOK
<1>1. ASSUME Inv PROVE TypeOK
  <2>1. TablesTyped /\ CopyTyped /\ ExcuseTyped /\ FlagsTyped /\ UsersTyped /\ Apart
    BY <1>1 DEF Inv
  <2>2. \A u \in Users : /\ user[u].at \in Places
                         /\ user[u].rows \subseteq Rows /\ user[u].todo \subseteq Names
    BY <2>1 DEF UsersTyped, Thread
  <2>3. queue \in Seq(Message) /\ DOMAIN queue = 1 .. Len(queue) BY <1>1 DEF Inv, QueueTyped
  <2>4. \A i \in DOMAIN queue :
          IF queue[i].to = None THEN queue[i].event \in Event ELSE user[queue[i].to].at = "replied"
    <3> SUFFICES ASSUME NEW i \in 1 .. Len(queue), queue[i].to = None PROVE queue[i].event \in Event
      BY <1>1, <2>3 DEF Inv, Replies
    <3>1. queue[i] \in Message BY <2>3
    <3> QED BY <3>1, ClientAssumption DEF Message
  <2> QED
    BY <2>1, <2>2, <2>4 DEF TypeOK, TablesTyped, CopyTyped, ExcuseTyped, FlagsTyped, UsersTyped,
       Apart, Places
<1> QED BY <1>1, ClientInvariant, PTL

(* A read of the client does not find the copy half loaded, unless its thread
   went past the flag while it was set. *)
THEOREM ReadsAreWhole == Spec => []ReadsWhole
<1>1. Inv => ReadsWhole BY DEF Inv, FlagStands, ReadsWhole
<1> QED BY <1>1, ClientInvariant, PTL

(* Whatever breaks, a thread that waits for the server is connected, and the
   answer it was given is on its way. *)
THEOREM NobodyWaitsInVain == Spec => []NoneWaitsInVain
<1>1. ASSUME Inv PROVE NoneWaitsInVain
  <2>1. queue \in Seq(Message) /\ DOMAIN queue = 1 .. Len(queue) BY <1>1 DEF Inv, QueueTyped
  <2> QED BY <1>1, <2>1 DEF Inv, Connected, OnItsWay, NoneWaitsInVain
<1> QED BY <1>1, ClientInvariant, PTL

-----------------------------------------------------------------------------
(* CopyFollows.  Besides Inv, the invariant says what the copy will show of a
   row: once an entity was loaded, or its rows were read, and while it has no
   excuse, that is what the client is to see, or an announcement of the row is
   still to come that tells the client. *)

EventOf(m, n, k) == m.to = None /\ m.event.name = n /\ m.event.key = k
ValueOf(m) == IF m.event.kind = "PUT" THEN m.event.val ELSE NoRow

(* A thread that holds rows of n which were read and not all put. *)
Holds(u, n) == user[u].at \in {"selected", "replied", "put"} /\ user[u].name = n

(* What the copy shows of a row when the rows that were read are put ... *)
Base(n, k, v) ==
  \/ \E u \in Users : Holds(u, n) /\ [key |-> k, val |-> v] \in user[u].rows
  \/ /\ copy[n][k] = v
     /\ \A u \in Users, r \in Rows : Holds(u, n) /\ r \in user[u].rows => r.key # k

(* ... and when the events on their way are handled as well. *)
Shows(n, k, v) ==
  \/ \E i \in 1 .. Len(queue) :
       /\ EventOf(queue[i], n, k) /\ ValueOf(queue[i]) = v
       /\ \A j \in 1 .. Len(queue) : j > i => ~EventOf(queue[j], n, k)
  \/ /\ \A i \in 1 .. Len(queue) : ~EventOf(queue[i], n, k)
     /\ Base(n, k, v)

(* An event will be handled between the SELECT and its reply. *)
Doomed(n) ==
  \E u \in Users, i \in 1 .. Len(queue) :
    /\ user[u].name = n /\ queue[i].to = None /\ queue[i].event.name = n
    /\ \/ user[u].at = "selected"
       \/ user[u].at = "replied" /\ \E j \in 1 .. Len(queue) : i < j /\ queue[j].to = u

(* The copy of n was loaded, or its rows were read. *)
Claimed(n) ==
  /\ connected /\ ~excuse[n]
  /\ \/ "cache" \notin need
     \/ \E u \in Users : /\ user[u].at \in Loading /\ n \notin user[u].todo
                         /\ ~(user[u].at = "asked" /\ user[u].name = n)

Follows ==
  \A n \in Names : Claimed(n) /\ ~Doomed(n) =>
    \A k \in Keys : Shows(n, k, Seen(n, table[n][k])) \/ Pending(n, k)

RowsOnce == \A u \in Users : \A r, s \in user[u].rows : r.key = s.key => r = s

(* While the rows of an entity are waited for, its copy is empty. *)
Emptied ==
  \A u \in Users : user[u].at \in Waiting /\ ~excuse[user[u].name] => copy[user[u].name] = NoRows

(* Without connection nothing is on its way, and every entity has an excuse or
   nobody loads and the flag of the cache is set, or about to be. *)
Cut ==
  ~connected =>
    /\ queue = <<>>
    /\ \/ \A n \in Names : excuse[n]
       \/ "cache" \in need \cup untold /\ \A u \in Users : user[u].at \notin Loading

FollowInv == RowsOnce /\ Emptied /\ Cut /\ Follows

LEMMA InitFollows == Init => FollowInv
<1> SUFFICES ASSUME Init PROVE FollowInv
  OBVIOUS
<1>1. \A u \in Users : user[u] = Idle BY DEF Init
<1>2. RowsOnce BY <1>1 DEF RowsOnce, Idle
<1>3. Emptied BY <1>1 DEF Emptied, Idle, Waiting
<1>4. Cut BY <1>1 DEF Init, Cut, Idle, Loading, Waiting, Flags
<1>5. Follows BY DEF Init, Follows, Claimed
<1> QED BY <1>2, <1>3, <1>4, <1>5 DEF FollowInv

(* What is shown does not change with the queue, the copy and the rows held. *)
LEMMA SameShows ==
  ASSUME NEW n \in Names, NEW k \in Keys, NEW v, UNCHANGED <<queue, copy>>,
         \A u \in Users : /\ Holds(u, n)' <=> Holds(u, n)
                          /\ Holds(u, n) => user'[u].rows = user[u].rows
  PROVE  Shows(n, k, v)' <=> Shows(n, k, v)
<1>1. Base(n, k, v)' <=> Base(n, k, v)
  BY DEF Base
<1> QED BY <1>1 DEF Shows, EventOf, ValueOf

(* Steps that concern no entity that is claimed in another way than before. *)
LEMMA SameFollows ==
  ASSUME FollowInv, UNCHANGED <<table, announcing, queue, copy>>,
         NEW n \in Names, Claimed(n), ~Doomed(n),
         \A u \in Users : /\ Holds(u, n)' <=> Holds(u, n)
                          /\ Holds(u, n) => user'[u].rows = user[u].rows
  PROVE  \A k \in Keys : Shows(n, k, Seen(n, table[n][k]))' \/ Pending(n, k)'
<1> SUFFICES ASSUME NEW k \in Keys
             PROVE  Shows(n, k, Seen(n, table[n][k]))' \/ Pending(n, k)'
  OBVIOUS
<1>1. Shows(n, k, Seen(n, table[n][k])) \/ Pending(n, k) BY DEF FollowInv, Follows
<1>2. Pending(n, k)' <=> Pending(n, k) BY DEF Pending, Tells
<1>3. Shows(n, k, Seen(n, table[n][k]))' <=> Shows(n, k, Seen(n, table[n][k]))
  BY SameShows DEF Seen, Shown
<1> QED BY <1>1, <1>2, <1>3

(* Steps of nobody who loads. *)
LEMMA QuietFollows ==
  ASSUME Inv, FollowInv, UNCHANGED <<table, announcing, queue, copy, excuse, connected>>,
         "cache" \in need' <=> "cache" \in need,
         "cache" \in need \cup untold => "cache" \in need' \cup untold',
         \A u \in Users : user[u].at \in Loading \/ user'[u].at \in Loading => user'[u] = user[u],
         \A u \in Users : user'[u].rows \in {user[u].rows, {}}
  PROVE  FollowInv'
<1>1. RowsOnce' BY DEF FollowInv, RowsOnce
<1>2. Waiting \subseteq Loading /\ {"selected", "replied", "put"} \subseteq Loading
      /\ {"selected", "replied", "asked"} \subseteq Loading
  BY DEF Waiting, Loading
<1>3. Emptied' BY <1>2 DEF FollowInv, Emptied, NoRows
<1>4. Cut' BY DEF FollowInv, Cut
<1>5. ASSUME NEW n \in Names, Claimed(n)', ~Doomed(n)'
      PROVE  \A k \in Keys : Shows(n, k, Seen(n, table[n][k]))' \/ Pending(n, k)'
  <2>1. Claimed(n) BY <1>5 DEF Claimed
  <2>2. ~Doomed(n) BY <1>2, <1>5 DEF Doomed
  <2>3. \A u \in Users : /\ Holds(u, n)' <=> Holds(u, n)
                         /\ Holds(u, n) => user'[u].rows = user[u].rows
    BY <1>2 DEF Holds
  <2> QED BY <2>1, <2>2, <2>3, SameFollows
<1>6. Follows' BY <1>5 DEF Follows
<1> QED BY <1>1, <1>3, <1>4, <1>6 DEF FollowInv

(* The threads that ask, and those that begin to load or have loaded. *)
LEMMA AskingFollows ==
  ASSUME Inv, FollowInv, NEW u \in Users,
         \/ Read(u) \/ ProviderFlag(u) \/ ProviderLock(u) \/ Subscribe(u) \/ Subscribed(u)
         \/ CacheFlag(u) \/ CacheLock(u) \/ Return(u)
  PROVE  FollowInv'
<1>1. user \in [Users -> Thread] /\ user[u] \in Thread BY DEF Inv, UsersTyped
<1>2. UNCHANGED <<table, announcing, queue, copy, excuse, connected, untold>>
  BY DEF Read, ProviderFlag, ProviderLock, Subscribe, Subscribed, CacheFlag, CacheLock, Return,
         serverVars
<1>3. "cache" \in need' <=> "cache" \in need
  BY DEF Read, ProviderFlag, ProviderLock, Subscribe, Subscribed, CacheFlag, CacheLock, Return
<1>4. user[u].at \notin Loading
  BY DEF Read, ProviderFlag, ProviderLock, Subscribe, Subscribed, CacheFlag, CacheLock, Return,
         Loading, Waiting
<1>5. ASSUME NEW r, user' = [user EXCEPT ![u] = r], r.at \notin Loading, r.rows \in {user[u].rows, {}}
      PROVE  FollowInv'
  <2>1. \A w \in Users : user'[w] = IF w = u THEN r ELSE user[w] BY <1>1, <1>5
  <2>2. \A w \in Users : user[w].at \in Loading \/ user'[w].at \in Loading => user'[w] = user[w]
    BY <1>4, <1>5, <2>1
  <2>3. \A w \in Users : user'[w].rows \in {user[w].rows, {}} BY <1>5, <2>1
  <2> QED BY <1>2, <1>3, <2>2, <2>3, QuietFollows
<1>6. ASSUME NEW p \in {"flag", "provider", "providerLock", "subscribing", "subscribed", "lock"},
             user' = [user EXCEPT ![u].at = p]
      PROVE  FollowInv'
  <2> DEFINE r == [user[u] EXCEPT !.at = p]
  <2>1. user' = [user EXCEPT ![u] = r] BY <1>1, <1>6
  <2>2. r.at = p /\ r.rows = user[u].rows BY <1>1 DEF Thread
  <2> HIDE DEF r
  <2>3. r.at \notin Loading BY <2>2 DEF Loading, Waiting
  <2> QED BY <1>5, <2>1, <2>2, <2>3
<1>7. CASE user' = [user EXCEPT ![u] = Pass(user[u])]
  <2> DEFINE r == Pass(user[u])
  <2>1. r.at = "passed" /\ r.rows = user[u].rows BY <1>1 DEF Pass, Thread
  <2>2. r.at \notin Loading BY <2>1 DEF Loading, Waiting
  <2> QED BY <1>5, <1>7, <2>1, <2>2
<1>8. CASE user' = [user EXCEPT ![u] = Idle]
  <2>1. Idle.at \notin Loading /\ Idle.rows = {} BY DEF Idle, Loading, Waiting
  <2> QED BY <1>5, <1>8, <2>1
<1>9. CASE CacheLock(u) /\ user' # [user EXCEPT ![u] = Pass(user[u])]
  <2> DEFINE r == [user[u] EXCEPT !.at = "clear", !.todo = Names]
  <2>1. /\ user' = [user EXCEPT ![u] = r] /\ connected /\ "cache" \in need
        /\ \A w \in Users : user[w].at \notin Loading
    BY <1>1, <1>9 DEF CacheLock, LockFree
  <2>2. r.at = "clear" /\ r.todo = Names /\ r.rows = user[u].rows BY <1>1 DEF Thread
  <2> HIDE DEF r
  <2>3. \A w \in Users : user'[w] = IF w = u THEN r ELSE user[w] BY <1>1, <2>1
  <2>4. RowsOnce' BY <2>2, <2>3 DEF FollowInv, RowsOnce
  <2>5. "clear" \notin Waiting BY DEF Waiting
  <2>6. Emptied' BY <1>2, <2>2, <2>3, <2>5 DEF FollowInv, Emptied, NoRows
  <2>7. Cut' BY <1>2, <2>1 DEF Cut
  <2>8. Follows' BY <1>3, <2>1, <2>2, <2>3 DEF Follows, Claimed
  <2> QED BY <2>4, <2>6, <2>7, <2>8 DEF FollowInv
<1>10. \/ \E p \in {"flag", "provider", "providerLock", "subscribing", "subscribed", "lock"} :
            user' = [user EXCEPT ![u].at = p]
       \/ user' = [user EXCEPT ![u] = Pass(user[u])]
       \/ user' = [user EXCEPT ![u] = Idle]
       \/ CacheLock(u)
  <2>1. CASE Read(u) BY <2>1 DEF Read
  <2>2. CASE ProviderFlag(u) BY <2>2 DEF ProviderFlag
  <2>3. CASE ProviderLock(u) BY <2>3 DEF ProviderLock
  <2>4. CASE Subscribe(u) BY <2>4 DEF Subscribe
  <2>5. CASE Subscribed(u) BY <2>5 DEF Subscribed
  <2>6. CASE CacheFlag(u) BY <2>6, <1>1 DEF CacheFlag
  <2>7. CASE Return(u) BY <2>7 DEF Return
  <2> QED BY <2>1, <2>2, <2>3, <2>4, <2>5, <2>6, <2>7
<1> QED BY <1>6, <1>7, <1>8, <1>9, <1>10

LEMMA InitDoneFollows ==
  ASSUME Inv, FollowInv, NEW u \in Users, InitDone(u)
  PROVE  FollowInv'
<1>1. user \in [Users -> Thread] /\ user[u] \in Thread BY DEF Inv, UsersTyped
<1> DEFINE r == [Pass(user[u]) EXCEPT !.name = None]
<1>2. user' = [user EXCEPT ![u] = r] BY <1>1 DEF InitDone
<1>3. r.at = "passed" /\ r.rows = user[u].rows BY <1>1 DEF Pass, Thread
<1> HIDE DEF r
<1>4. \A w \in Users : user'[w] = IF w = u THEN r ELSE user[w] BY <1>1, <1>2
<1>5. UNCHANGED <<table, announcing, queue, copy, excuse, connected, untold>>
  BY DEF InitDone, serverVars
<1>6. user[u].at = "clear" /\ user[u].todo = {} /\ "clear" \in Loading
  BY DEF InitDone, Loading
<1>7. RowsOnce' BY <1>3, <1>4 DEF FollowInv, RowsOnce
<1>8. "passed" \notin Waiting BY DEF Waiting
<1>9. Emptied' BY <1>3, <1>4, <1>5, <1>8 DEF FollowInv, Emptied, NoRows
<1>10. Cut' BY <1>5, <1>6 DEF FollowInv, Cut
<1>11. ASSUME NEW n \in Names, Claimed(n)', ~Doomed(n)'
       PROVE  \A k \in Keys : Shows(n, k, Seen(n, table[n][k]))' \/ Pending(n, k)'
  <2>1. Claimed(n) BY <1>5, <1>6, <1>11 DEF Claimed
  <2>2. ~Doomed(n) BY <1>3, <1>4, <1>5, <1>6, <1>11 DEF Doomed
  <2>3. \A w \in Users : /\ Holds(w, n)' <=> Holds(w, n)
                         /\ Holds(w, n) => user'[w].rows = user[w].rows
    BY <1>3, <1>4, <1>6 DEF Holds
  <2> QED BY <1>5, <2>1, <2>2, <2>3, SameFollows
<1>12. Follows' BY <1>11 DEF Follows
<1> QED BY <1>7, <1>9, <1>10, <1>12 DEF FollowInv

LEMMA ServerFollows ==
  ASSUME Inv, FollowInv, Forget \/ Learn \/ Connect \/ (\E l \in Flags : Told(l))
  PROVE  FollowInv'
<1>1. UNCHANGED <<table, announcing, queue, copy, excuse>>
  BY DEF Forget, Learn, Connect, Told, serverVars
<1>2. CASE Forget \/ Learn
  BY <1>2, QuietFollows DEF Forget, Learn
<1>3. CASE Connect
  <2>1. UNCHANGED <<user, need, untold>> /\ connected' = TRUE /\ ~connected /\ untold = {}
    BY <1>3 DEF Connect
  <2>2. RowsOnce' /\ Emptied' BY <1>1, <2>1 DEF FollowInv, RowsOnce, Emptied, NoRows
  <2>3. Cut' BY <2>1 DEF Cut
  <2>4. \/ \A n \in Names : excuse[n]
        \/ "cache" \in need /\ \A u \in Users : user[u].at \notin Loading
    BY <2>1 DEF FollowInv, Cut
  <2>5. Follows' BY <1>1, <2>1, <2>4 DEF Follows, Claimed
  <2> QED BY <2>2, <2>3, <2>5 DEF FollowInv
<1>4. ASSUME NEW l \in Flags, Told(l)
      PROVE  FollowInv'
  <2>1. need' = need \cup {l} /\ untold' = untold \ {l} /\ connected' = connected
    BY <1>4 DEF Told
  <2>2. CASE l # "cache"
    BY <1>1, <1>4, <2>1, <2>2, QuietFollows DEF Told
  <2>3. CASE l = "cache"
    <3>1. user' = [w \in Users |-> [user[w] EXCEPT !.old = @ \/ user[w].at = "passed"]]
      BY <1>4, <2>3 DEF Told
    <3>2. \A w \in Users : user[w] \in Thread BY DEF Inv, UsersTyped
    <3>3. \A w \in Users : /\ user'[w].at = user[w].at /\ user'[w].name = user[w].name
                           /\ user'[w].todo = user[w].todo /\ user'[w].rows = user[w].rows
      BY <3>1, <3>2 DEF Thread
    <3>4. RowsOnce' BY <3>3 DEF FollowInv, RowsOnce
    <3>5. Emptied' BY <1>1, <3>3 DEF FollowInv, Emptied, NoRows
    <3>6. Cut' BY <1>1, <2>1, <3>3 DEF FollowInv, Cut
    <3>7. ASSUME NEW n \in Names, Claimed(n)', ~Doomed(n)'
          PROVE  \A k \in Keys : Shows(n, k, Seen(n, table[n][k]))' \/ Pending(n, k)'
      <4>1. Claimed(n) BY <1>1, <2>1, <3>3, <3>7 DEF Claimed
      <4>2. ~Doomed(n) BY <1>1, <3>3, <3>7 DEF Doomed
      <4>3. \A w \in Users : /\ Holds(w, n)' <=> Holds(w, n)
                             /\ Holds(w, n) => user'[w].rows = user[w].rows
        BY <3>3 DEF Holds
      <4> QED BY <1>1, <4>1, <4>2, <4>3, SameFollows
    <3>8. Follows' BY <3>7 DEF Follows
    <3> QED BY <3>4, <3>5, <3>6, <3>8 DEF FollowInv
  <2> QED BY <2>2, <2>3
<1> QED BY <1>2, <1>3, <1>4

LEMMA DisconnectFollows ==
  ASSUME Inv, FollowInv, Disconnect
  PROVE  FollowInv'
<1>1. \A w \in Users : user'[w] = Interrupted(user[w]) BY DEF Disconnect
<1>2. ASSUME NEW w \in Users
      PROVE  /\ user'[w].at \notin Waiting
             /\ user'[w].at \in Loading => user[w].at \in Loading
             /\ user'[w].rows \in {user[w].rows, {}}
  <2>1. user[w] \in Thread BY DEF Inv, UsersTyped
  <2>2. CASE user[w].at = "subscribing"
    <3>1. user[w].at \notin Waiting BY <2>2 DEF Waiting
    <3>2. user'[w] = [user[w] EXCEPT !.at = "flag"] BY <1>1, <2>2, <3>1 DEF Interrupted
    <3>3. user'[w].at = "flag" /\ user'[w].rows = user[w].rows BY <2>1, <3>2 DEF Thread
    <3> QED BY <3>3 DEF Waiting, Loading
  <2>3. CASE user[w].at \in Waiting
    <3>1. user[w].at # "subscribing" BY <2>3 DEF Waiting
    <3>2. user'[w] = [user[w] EXCEPT !.at = "clear", !.rows = {}]
      BY <1>1, <2>3, <3>1 DEF Interrupted
    <3>3. user'[w].at = "clear" /\ user'[w].rows = {} BY <2>1, <3>2 DEF Thread
    <3> QED BY <2>3, <3>3 DEF Waiting, Loading
  <2>4. CASE user[w].at # "subscribing" /\ user[w].at \notin Waiting
    <3>1. user'[w] = user[w] BY <1>1, <2>4 DEF Interrupted
    <3> QED BY <2>4, <3>1
  <2> QED BY <2>2, <2>3, <2>4
<1>3. RowsOnce' BY <1>2 DEF FollowInv, RowsOnce
<1>4. Emptied' BY <1>2 DEF Emptied
<1>5. connected' = FALSE /\ queue' = <<>> /\ untold' = Flags BY DEF Disconnect
<1>6. Follows' BY <1>5 DEF Follows, Claimed
<1>7. CASE \E u \in Users : user[u].at \in Loading
  <2>1. \A n \in Names : excuse'[n] BY <1>7 DEF Disconnect
  <2>2. Cut' BY <1>5, <2>1 DEF Cut
  <2> QED BY <1>3, <1>4, <1>6, <2>2 DEF FollowInv
<1>8. CASE \A u \in Users : user[u].at \notin Loading
  <2>1. Cut' BY <1>2, <1>5, <1>8 DEF Cut, Flags
  <2> QED BY <1>3, <1>4, <1>6, <2>1 DEF FollowInv
<1> QED BY <1>7, <1>8

(* What is told of a write whose row the client was to see, or is to see now,
   tells it so or is an excuse. *)
LEMMA ToldIsTelling ==
  ASSUME NEW n \in Names, NEW was \in StoredRows \cup {NoRow}, NEW v \in Values \cup {NoRow},
         NEW row, row = IF v = NoRow THEN NoRow ELSE Stored[v], v = NoRow => was # NoRow,
         NEW a, a.name = n, a.kind = IF v = NoRow THEN "REMOVE" ELSE "PUT",
         a.val = CASE v = NoRow                -> ReadBack(was)
                   [] v # NoRow /\ was = NoRow -> v
                   [] v # NoRow /\ was # NoRow -> ReadBack(row),
         a.seen <=> was \in Shown(n) \cup Announced,
         Seen(n, row) # Seen(n, was)
  PROVE  Tells(a)
<1> USE ClientAssumption
<1>1. NoRow \notin Shown(n) BY DEF Shown
<1>2. row \in Shown(n) \/ was \in Shown(n) BY DEF Seen
<1>3. CASE v = NoRow
  <2>1. row = NoRow /\ was \in Shown(n) BY <1>1, <1>2, <1>3
  <2>2. a.val \in {was, Blank} BY <1>3 DEF ReadBack
  <2> QED BY <2>1, <2>2 DEF Tells
<1>4. CASE v # NoRow /\ was = NoRow
  <2>1. a.val = v /\ row = Stored[v] /\ row \in Shown(n) /\ a.kind = "PUT" BY <1>1, <1>2, <1>4
  <2>2. CASE v \in StoredRows
    <3>1. PICK x \in Values : v = Stored[x] BY <2>2 DEF StoredRows
    <3>2. Stored[v] = v BY <3>1
    <3> QED BY <2>1, <3>2 DEF Tells
  <2>3. CASE v \notin StoredRows BY <2>1, <2>3 DEF Tells
  <2> QED BY <2>2, <2>3
<1>5. CASE v # NoRow /\ was # NoRow
  <2>1. a.val \in {row, Blank} /\ a.kind = "PUT" BY <1>5 DEF ReadBack
  <2>2. CASE row \in Shown(n) BY <2>1, <2>2 DEF Tells
  <2>3. CASE was \in Shown(n) BY <2>1, <2>3 DEF Tells
  <2> QED BY <1>2, <2>2, <2>3
<1> QED BY <1>3, <1>4, <1>5

LEMMA WriteFollows ==
  ASSUME Inv, FollowInv, NEW w \in Writers, NEW n \in Names, NEW k \in Keys,
         NEW v \in Values \cup {NoRow}, Write(w, n, k, v)
  PROVE  FollowInv'
<1> USE ClientAssumption
<1> DEFINE row == IF v = NoRow THEN NoRow ELSE Stored[v]
           was == table[n][k]
           a == [kind |-> IF v = NoRow THEN "REMOVE" ELSE "PUT", name |-> n, key |-> k,
                 val |-> CASE v = NoRow                -> ReadBack(was)
                           [] v # NoRow /\ was = NoRow -> v
                           [] v # NoRow /\ was # NoRow -> ReadBack(row),
                 seen |-> was \in Shown(n) \cup Announced]
<1>1. UNCHANGED <<connected, queue, need, untold, copy, user, excuse>> BY DEF Write
<1>2. /\ table' = [table EXCEPT ![n][k] = row] /\ (v = NoRow => was # NoRow)
      /\ announcing' = [announcing EXCEPT ![w] = a] /\ announcing[w] = None
  BY DEF Write
<1>3. /\ announcing \in [Writers -> {None} \cup Announcement]
      /\ table \in [Names -> [Keys -> StoredRows \cup {NoRow}]]
      /\ announcing' \in [Writers -> {None} \cup Announcement]
  <2>1. Inv' BY ServerKeeps DEF Writing
  <2> QED BY <2>1 DEF Inv, TablesTyped
<1>4. was \in StoredRows \cup {NoRow} BY <1>3
<1>5. a.name = n /\ a.key = k /\ (Seen(n, row) # Seen(n, was) => Tells(a))
  <2>1. /\ a.name = n /\ a.key = k /\ a.kind = IF v = NoRow THEN "REMOVE" ELSE "PUT"
        /\ a.val = CASE v = NoRow                -> ReadBack(was)
                     [] v # NoRow /\ was = NoRow -> v
                     [] v # NoRow /\ was # NoRow -> ReadBack(row)
        /\ a.seen <=> was \in Shown(n) \cup Announced
    OBVIOUS
  <2>2. row = IF v = NoRow THEN NoRow ELSE Stored[v] OBVIOUS
  <2> HIDE DEF a, row, was
  <2> QED BY <1>2, <1>4, <2>1, <2>2, ToldIsTelling
<1>6. a # None
  <2>1. row = IF v = NoRow THEN NoRow ELSE Stored[v] OBVIOUS
  <2>2. v = NoRow => was # NoRow BY <1>2
  <2> HIDE DEF row, was
  <2>3. a \in Announcement BY <1>4, <2>1, <2>2, ToldTyped DEF a
  <2> HIDE DEF a
  <2> QED BY <2>3
<1> HIDE DEF a
<1>7. \A m \in Names, l \in Keys : table'[m][l] = IF m = n /\ l = k THEN row ELSE table[m][l]
  BY <1>2, <1>3
<1>8. was = table[n][k] OBVIOUS
<1> HIDE DEF row, was
<1>10. RowsOnce' /\ Emptied' BY <1>1 DEF FollowInv, RowsOnce, Emptied, NoRows
<1>11. Cut' BY <1>1 DEF FollowInv, Cut
<1>12. ASSUME NEW m \in Names, NEW l \in Keys, Claimed(m)', ~Doomed(m)'
       PROVE  Shows(m, l, Seen(m, table[m][l]))' \/ Pending(m, l)'
  <2>1. Claimed(m) /\ ~Doomed(m) BY <1>1, <1>12 DEF Claimed, Doomed
  <2>2. Shows(m, l, Seen(m, table[m][l])) \/ Pending(m, l) BY <2>1 DEF FollowInv, Follows
  <2>3. CASE Pending(m, l) BY <1>2, <1>3, <2>3 DEF Pending, Tells
  <2>4. CASE m = n /\ l = k /\ Seen(n, row) # Seen(n, was)
    BY <1>2, <1>3, <1>5, <1>6, <2>4 DEF Pending, Tells
  <2>5. CASE Shows(m, l, Seen(m, table[m][l])) /\ Seen(m, table'[m][l]) = Seen(m, table[m][l])
    <3>1. Shows(m, l, Seen(m, table[m][l]))' <=> Shows(m, l, Seen(m, table'[m][l]))
      BY <1>1, SameShows DEF Seen, Shown, Shows, Base, Holds, EventOf, ValueOf
    <3> QED BY <2>5, <3>1
  <2> QED BY <1>7, <1>8, <2>2, <2>3, <2>4, <2>5
<1>13. Follows' BY <1>12 DEF Follows
<1> QED BY <1>10, <1>11, <1>13 DEF FollowInv

(* What nobody is told of is an excuse. *)
LEMMA SilentFollows ==
  ASSUME Inv, FollowInv, NEW n \in Names, NEW k \in Keys, NEW row \in StoredRows \cup {NoRow},
         WriteSilently(n, k, row)
  PROVE  FollowInv'
<1> USE ClientAssumption
<1>1. UNCHANGED <<announcing, connected, queue, need, untold, copy, user>> BY DEF WriteSilently
<1>2. \A m \in Names : excuse'[m] <=> excuse[m] \/ m = n
  BY DEF WriteSilently, Inv, ExcuseTyped, Excused
<1>3. \A m \in Names : m # n => table'[m] = table[m]
  BY DEF WriteSilently, Inv, TablesTyped
<1>4. RowsOnce' BY <1>1 DEF FollowInv, RowsOnce
<1>5. Emptied'
  <2>1. \A u \in Users : user[u].at \in Waiting => user[u].name \in Names
    BY DEF Inv, UsersTyped
  <2> QED BY <1>1, <1>2, <2>1 DEF FollowInv, Emptied, NoRows
<1>6. Cut' BY <1>1, <1>2 DEF FollowInv, Cut
<1>7. ASSUME NEW m \in Names, NEW l \in Keys, Claimed(m)', ~Doomed(m)'
      PROVE  Shows(m, l, Seen(m, table[m][l]))' \/ Pending(m, l)'
  <2>1. m # n BY <1>2, <1>7 DEF Claimed
  <2>2. Claimed(m) /\ ~Doomed(m) BY <1>1, <1>2, <1>7 DEF Claimed, Doomed
  <2>3. Shows(m, l, Seen(m, table[m][l])) \/ Pending(m, l) BY <2>2 DEF FollowInv, Follows
  <2>4. Pending(m, l)' <=> Pending(m, l) BY <1>1 DEF Pending, Tells
  <2>5. Shows(m, l, Seen(m, table[m][l]))' <=> Shows(m, l, Seen(m, table[m][l]))
    BY <1>1, <1>3, <2>1, SameShows DEF Seen, Shown, Holds
  <2> QED BY <2>3, <2>4, <2>5
<1>8. Follows' BY <1>7 DEF Follows
<1> QED BY <1>4, <1>5, <1>6, <1>8 DEF FollowInv

(* What is appended to the queue, or nothing. *)
LEMMA AppendShows ==
  ASSUME Inv, UNCHANGED <<copy, user>>, NEW m \in Message,
         queue' = Append(queue, m), NEW n \in Names, NEW k \in Keys, NEW v
  PROVE  /\ EventOf(m, n, k) => (Shows(n, k, v)' <=> v = ValueOf(m))
         /\ ~EventOf(m, n, k) => (Shows(n, k, v)' <=> Shows(n, k, v))
<1>1. queue \in Seq(Message) BY DEF Inv, QueueTyped
<1>2. /\ Len(queue) \in Nat /\ Len(queue') = Len(queue) + 1
      /\ \A i \in 1 .. Len(queue) : queue'[i] = queue[i] /\ i \in 1 .. Len(queue') /\ i < Len(queue')
      /\ queue'[Len(queue')] = m /\ Len(queue') \in 1 .. Len(queue')
      /\ \A i \in 1 .. Len(queue') : i \in 1 .. Len(queue) \/ i = Len(queue')
  BY <1>1
<1>3. Base(n, k, v)' <=> Base(n, k, v) BY DEF Base, Holds
<1>4. CASE EventOf(m, n, k)
  <2>1. ASSUME v = ValueOf(m) PROVE Shows(n, k, v)'
    BY <1>2, <1>4, <2>1 DEF Shows, EventOf, ValueOf
  <2>2. ASSUME Shows(n, k, v)' PROVE v = ValueOf(m)
    BY <1>2, <1>4, <2>2 DEF Shows, EventOf, ValueOf
  <2> QED BY <1>4, <2>1, <2>2
<1>5. CASE ~EventOf(m, n, k)
  <2>1. ASSUME Shows(n, k, v) PROVE Shows(n, k, v)'
    BY <1>2, <1>3, <1>5, <2>1 DEF Shows, EventOf, ValueOf
  <2>2. ASSUME Shows(n, k, v)' PROVE Shows(n, k, v)
    BY <1>2, <1>3, <1>5, <2>2 DEF Shows, EventOf, ValueOf
  <2> QED BY <1>5, <2>1, <2>2
<1> QED BY <1>4, <1>5

(* An announcement without excuse tells the client what the table holds, or
   was about a row the client is not told of. *)
LEMMA SendingFollows ==
  ASSUME Inv, FollowInv, NEW e, NEW m \in Message, NEW cause \in BOOLEAN,
         m.to = None, m.event = [kind |-> e.kind, name |-> e.name, key |-> e.key, val |-> e.val],
         e.name \in Names, e.key \in Keys, e.kind \in {"PUT", "REMOVE"},
         UNCHANGED <<table, connected, need, untold, copy, user>>,
         excuse' = Excused(e.name, cause),
         \A n \in Names, k \in Keys :
           Pending(n, k) => Pending(n, k)' \/ (n = e.name /\ k = e.key /\ Tells(e)),
         \/ /\ subscribed /\ queue' = Append(queue, m)
            /\ ~cause => Seen(e.name, table[e.name][e.key]) = IF e.kind = "PUT" THEN e.val ELSE NoRow
         \/ queue' = queue /\ (Tells(e) => cause)
  PROVE  FollowInv'
<1> USE ClientAssumption
<1>1. \A x \in Names : excuse'[x] <=> excuse[x] \/ (x = e.name /\ cause)
  BY DEF Inv, ExcuseTyped, Excused
<1>2. /\ m.to = None /\ m.event.name = e.name /\ m.event.key = e.key
      /\ ValueOf(m) = IF e.kind = "PUT" THEN e.val ELSE NoRow
  BY DEF ValueOf
<1>3. \A n \in Names, k \in Keys : EventOf(m, n, k) <=> n = e.name /\ k = e.key
  BY <1>2 DEF EventOf
<1>4. RowsOnce' BY DEF FollowInv, RowsOnce
<1>5. Emptied'
  <2>1. \A u \in Users : user[u].at \in Waiting => user[u].name \in Names
    BY DEF Inv, UsersTyped
  <2> QED BY <1>1, <2>1 DEF FollowInv, Emptied, NoRows
<1>6. Cut'
  <2>1. \A x \in Names : excuse[x] => excuse'[x] BY <1>1
  <2>2. subscribed => connected BY DEF Inv, FlagsTyped
  <2> QED BY <2>1, <2>2 DEF FollowInv, Cut
<1>7. /\ Len(queue) \in Nat /\ Len(queue) <= Len(queue') /\ Len(queue') \in Nat
      /\ \A i \in 1 .. Len(queue) : i \in 1 .. Len(queue') /\ queue'[i] = queue[i]
  <2>1. queue \in Seq(Message) BY DEF Inv, QueueTyped
  <2> QED BY <2>1
<1>8. ASSUME NEW n \in Names, NEW k \in Keys, Claimed(n)', ~Doomed(n)'
      PROVE  Shows(n, k, Seen(n, table[n][k]))' \/ Pending(n, k)'
  <2>1. Claimed(n) BY <1>1, <1>8 DEF Claimed
  <2>2. ~Doomed(n) BY <1>7, <1>8 DEF Doomed
  <2>3. Shows(n, k, Seen(n, table[n][k])) \/ Pending(n, k) BY <2>1, <2>2 DEF FollowInv, Follows
  <2>4. n = e.name => ~cause BY <1>1, <1>8 DEF Claimed
  <2>5. CASE queue' = Append(queue, m) /\ n = e.name /\ k = e.key
                /\ Seen(n, table[n][k]) = IF e.kind = "PUT" THEN e.val ELSE NoRow
    <3>1. EventOf(m, n, k) BY <1>3, <2>5
    <3>2. \A v : v = ValueOf(m) => Shows(n, k, v)' BY <2>5, <3>1, AppendShows
    <3>3. Seen(n, table[n][k]) = ValueOf(m) BY <1>2, <2>5
    <3>4. Shows(n, k, Seen(n, table[n][k]))'
      BY <3>2, <3>3 DEF Seen, Shown, Shows, Base, Holds, EventOf, ValueOf
    <3> QED BY <3>4
  <2>6. CASE ~(n = e.name /\ k = e.key) \/ (queue' = queue /\ (Tells(e) => cause))
    <3>1. Pending(n, k) => Pending(n, k)' BY <2>4, <2>6
    <3>2. Shows(n, k, Seen(n, table[n][k]))' <=> Shows(n, k, Seen(n, table[n][k]))
      <4>1. CASE queue' = queue
        BY <4>1, SameShows DEF Seen, Shown, Holds
      <4>2. CASE queue' = Append(queue, m) /\ ~(n = e.name /\ k = e.key)
        <5>1. ~EventOf(m, n, k) BY <1>3, <4>2
        <5>2. \A v : Shows(n, k, v)' <=> Shows(n, k, v) BY <4>2, <5>1, AppendShows
        <5> QED BY <5>2, SMTT(30) DEF Seen, Shown, Shows, Base, Holds, EventOf, ValueOf
      <4> QED BY <2>6, <4>1, <4>2
    <3> QED BY <2>3, <3>1, <3>2
  <2> QED BY <2>4, <2>5, <2>6
<1>9. Follows' BY <1>8 DEF Follows
<1> QED BY <1>4, <1>5, <1>6, <1>9 DEF FollowInv

LEMMA AnnounceFollows ==
  ASSUME Inv, FollowInv, NEW w \in Writers, Announce(w)
  PROVE  FollowInv'
<1> USE ClientAssumption
<1> DEFINE e == announcing[w]
           event == [kind |-> e.kind, name |-> e.name, key |-> e.key, val |-> e.val]
           m == [to |-> None, event |-> event]
<1>1. /\ announcing \in [Writers -> {None} \cup Announcement]
      /\ table \in [Names -> [Keys -> StoredRows \cup {NoRow}]]
  BY DEF Inv, TablesTyped
<1>2. e # None /\ e \in Announcement BY <1>1 DEF Announce
<1>3. /\ e.name \in Names /\ e.key \in Keys /\ e.val \in Values \cup {Blank}
      /\ e.kind \in {"PUT", "REMOVE"} /\ e.seen \in BOOLEAN
  BY <1>2 DEF Announcement
<1>4. m \in Message BY <1>3 DEF Message, Event
<1>5. m.to = None /\ m.event = event OBVIOUS
<1>6. /\ UNCHANGED <<table, connected, need, untold, copy, user>>
      /\ queue' = IF subscribed /\ Passes(e) THEN Append(queue, m) ELSE queue
      /\ excuse' = Excused(e.name, Misses(e))
      /\ announcing' = [announcing EXCEPT ![w] = None]
  BY DEF Announce, Sent
<1>7. \A n \in Names, k \in Keys :
        Pending(n, k) => Pending(n, k)' \/ (n = e.name /\ k = e.key /\ Tells(e))
  BY <1>1, <1>6 DEF Pending, Tells
<1>8. table[e.name][e.key] \in StoredRows \cup {NoRow} BY <1>1, <1>3
<1>9. Misses(e) \in BOOLEAN BY DEF Misses
<1>10. Passes(e) /\ ~Misses(e) =>
         Seen(e.name, table[e.name][e.key]) = IF e.kind = "PUT" THEN e.val ELSE NoRow
  <2>1. NoRow \notin Shown(e.name) BY DEF Shown
  <2> QED BY <2>1 DEF Passes, Misses, Untrue, Seen
<1>11. ~(subscribed /\ Passes(e)) => (Tells(e) => Misses(e))
  <2> SUFFICES ASSUME ~(subscribed /\ Passes(e)), Tells(e), ~Misses(e) PROVE FALSE
    OBVIOUS
  <2> HIDE DEF e
  <2>1. subscribed /\ known /\ e.val # Blank /\ ~Untrue(e) BY DEF Misses
  <2>2. e.val \notin Announced /\ e.val \notin Shown(e.name) BY <2>1 DEF Passes, Misses
  <2>3. ~(e.kind = "PUT" /\ e.seen) BY <2>2 DEF Misses
  <2>4. e.kind = "PUT" /\ e.val \notin StoredRows BY <2>1, <2>2, <2>3 DEF Tells
  <2>5. table[e.name][e.key] = e.val BY <2>1, <2>4 DEF Untrue
  <2>6. e.val # NoRow BY <1>3
  <2> QED BY <1>8, <2>4, <2>5, <2>6
<1> DEFINE cause == Misses(e)
<1> HIDE DEF e, m, event, cause
<1>12. /\ cause \in BOOLEAN /\ excuse' = Excused(e.name, cause)
       /\ \/ /\ subscribed /\ queue' = Append(queue, m)
             /\ ~cause => Seen(e.name, table[e.name][e.key]) = IF e.kind = "PUT" THEN e.val ELSE NoRow
          \/ queue' = queue /\ (Tells(e) => cause)
  BY <1>6, <1>9, <1>10, <1>11 DEF cause
<1>13. m.event = [kind |-> e.kind, name |-> e.name, key |-> e.key, val |-> e.val]
  BY <1>5 DEF event
<1> QED BY <1>3, <1>4, <1>5, <1>6, <1>7, <1>12, <1>13, SendingFollows

(* An event of the reload that is true shows what the table holds, whatever was
   shown before. *)
LEMMA ReloadFollows ==
  ASSUME Inv, FollowInv, NEW e \in Event, AnnounceReload(e)
  PROVE  FollowInv'
<1> USE ClientAssumption
<1> DEFINE m == [to |-> None, event |-> [kind |-> e.kind, name |-> e.name, key |-> e.key, val |-> e.val]]
<1>1. /\ e.name \in Names /\ e.key \in Keys /\ e.val \in Values \cup {Blank}
      /\ e.kind \in {"PUT", "REMOVE"}
  BY DEF Event
<1>2. m \in Message /\ m.to = None
      /\ m.event = [kind |-> e.kind, name |-> e.name, key |-> e.key, val |-> e.val]
  BY <1>1 DEF Message, Event
<1>3. /\ UNCHANGED <<table, announcing, connected, need, untold, copy, user>>
      /\ queue' = Append(queue, m) /\ subscribed /\ Passes(e) /\ e.name \in Cached
  BY DEF AnnounceReload, Sent, serverVars
<1>4. excuse' = Excused(e.name, Untrue(e)) BY DEF AnnounceReload
<1>5. \A n \in Names, k \in Keys : Pending(n, k) => Pending(n, k)' BY <1>3 DEF Pending, Tells
<1>6. Untrue(e) \in BOOLEAN BY DEF Untrue
<1>7. ~Untrue(e) => Seen(e.name, table[e.name][e.key]) = IF e.kind = "PUT" THEN e.val ELSE NoRow
  BY <1>3 DEF Untrue, Passes, Seen, Shown
<1> DEFINE cause == Untrue(e)
<1> HIDE DEF m, cause
<1>8. /\ cause \in BOOLEAN /\ excuse' = Excused(e.name, cause)
      /\ ~cause => Seen(e.name, table[e.name][e.key]) = IF e.kind = "PUT" THEN e.val ELSE NoRow
  BY <1>4, <1>6, <1>7 DEF cause
<1> QED BY <1>1, <1>2, <1>3, <1>5, <1>8, SendingFollows

(* The rows a SELECT finds are what the copy will show, unless an event of the
   entity is on its way and will be handled before them. *)
LEMMA SelectFollows ==
  ASSUME Inv, FollowInv, NEW u \in Users, Select(u)
  PROVE  FollowInv'
<1> USE ClientAssumption
<1> DEFINE n == user[u].name
<1>1. user \in [Users -> Thread] /\ user[u] \in Thread BY DEF Inv, UsersTyped
<1>2. user[u].at = "asked" /\ connected BY DEF Select
<1>3. n \in Names BY <1>2 DEF Inv, UsersTyped, Waiting
<1>4. PICK list \in [Keys -> Values \cup {Blank, NoRow}] :
        /\ user' = [user EXCEPT ![u].at = "selected", ![u].rows = {s \in Rows : s.val = list[s.key]}]
        /\ \A m \in Names : excuse[m] => excuse'[m]
        /\ \A m \in Names : m # n => (excuse'[m] <=> excuse[m])
        /\ ~excuse'[n] => \A k \in Keys : list[k] = Seen(n, table[n][k]) \/ Pending(n, k)
  <2>1. CASE n \in Cached
    <3>1. PICK list \in [Keys -> Announced \cup {NoRow}] :
            /\ user' = [user EXCEPT ![u].at = "selected", ![u].rows = {s \in Rows : s.val = list[s.key]}]
            /\ excuse' = Excused(n, \E k \in Keys : list[k] # Seen(n, table[n][k]) /\ ~Pending(n, k))
      BY <2>1 DEF Select
    <3>2. list \in [Keys -> Values \cup {Blank, NoRow}] OBVIOUS
    <3> DEFINE c == \E k \in Keys : list[k] # Seen(n, table[n][k]) /\ ~Pending(n, k)
    <3>3. ~c => \A k \in Keys : list[k] = Seen(n, table[n][k]) \/ Pending(n, k) OBVIOUS
    <3>4. excuse' = Excused(n, c) BY <3>1
    <3> HIDE DEF c
    <3>5. \A m \in Names : excuse'[m] <=> excuse[m] \/ (m = n /\ c)
      BY <1>3, <3>4 DEF Inv, ExcuseTyped, Excused
    <3> QED BY <1>3, <3>1, <3>2, <3>3, <3>5
  <2>2. CASE n \notin Cached
    <3> DEFINE list == [k \in Keys |-> IF table[n][k] \in Selected THEN ReadBack(table[n][k]) ELSE NoRow]
    <3>0. \E l \in {list} :
            /\ user' = [user EXCEPT ![u].at = "selected", ![u].rows = {s \in Rows : s.val = l[s.key]}]
            /\ excuse' = Excused(n, ~known)
      BY <2>2 DEF Select
    <3>1. /\ user' = [user EXCEPT ![u].at = "selected", ![u].rows = {s \in Rows : s.val = list[s.key]}]
          /\ excuse' = Excused(n, ~known)
      <4> HIDE DEF list
      <4> QED BY <3>0
    <3>2. \A m \in Names : excuse'[m] <=> excuse[m] \/ (m = n /\ ~known)
      BY <1>3, <3>1 DEF Inv, ExcuseTyped, Excused
    <3>3. list \in [Keys -> Values \cup {Blank, NoRow}]
      BY DEF ReadBack
    <3>4. known => \A k \in Keys : list[k] = Seen(n, table[n][k])
      BY <2>2 DEF ReadBack, Seen, Shown
    <3> HIDE DEF list
    <3> QED BY <1>3, <3>1, <3>2, <3>3, <3>4
  <2> QED BY <2>1, <2>2
<1> DEFINE rows == {s \in Rows : s.val = list[s.key]}
           r == [user[u] EXCEPT !.at = "selected", !.rows = rows]
<1>5. user' = [user EXCEPT ![u] = r] BY <1>1, <1>4
<1>6. UNCHANGED <<table, announcing, connected, queue, need, untold, copy>> BY DEF Select, serverVars
<1>7. \A s \in rows : s.key \in Keys /\ s.val = list[s.key] /\ s = [key |-> s.key, val |-> s.val]
  BY DEF Rows
<1>8. \A s, t \in rows : s.key = t.key => s = t BY <1>7
<1>9. \A k \in Keys : list[k] # NoRow => [key |-> k, val |-> list[k]] \in rows
  BY <1>4 DEF Rows
<1>10. \A s \in rows : list[s.key] # NoRow BY <1>7 DEF Rows
<1> HIDE DEF rows
<1>11. r.at = "selected" /\ r.name = n /\ r.rows = rows /\ r.todo = user[u].todo
  BY <1>1 DEF Thread
<1> HIDE DEF r
<1>12. \A w \in Users : user'[w] = IF w = u THEN r ELSE user[w] BY <1>1, <1>5
<1>13. \A w \in Users : w # u => user[w].at \notin Loading
  BY <1>2 DEF Inv, Apart, Loading, Waiting
<1>14. RowsOnce' BY <1>8, <1>11, <1>12 DEF FollowInv, RowsOnce
<1>15. Emptied'
  <2>1. \A w \in Users : w # u => user'[w].at \notin Waiting
    BY <1>12, <1>13 DEF Loading
  <2>2. ~excuse'[n] => copy[n] = NoRows
    BY <1>2, <1>3, <1>4 DEF FollowInv, Emptied, Waiting
  <2> QED BY <1>6, <1>11, <1>12, <2>1, <2>2 DEF Emptied, NoRows
<1>16. Cut' BY <1>2, <1>6 DEF Cut
<1>17. \A w \in Users : \A m : Holds(w, m)' <=> w = u /\ m = n
  BY <1>11, <1>12, <1>13 DEF Holds, Loading, Waiting
<1>18. ASSUME NEW m \in Names, Claimed(m)', ~Doomed(m)', NEW k \in Keys
       PROVE  Shows(m, k, Seen(m, table[m][k]))' \/ Pending(m, k)'
  <2>1. CASE m = n
    <3>1. ~excuse'[n] /\ ~excuse[n] BY <1>3, <1>4, <1>18, <2>1 DEF Claimed
    <3>2. copy[n] = NoRows BY <1>2, <3>1 DEF FollowInv, Emptied, Waiting
    <3>3. \A i \in 1 .. Len(queue) : ~EventOf(queue[i], n, k)
      BY <1>6, <1>11, <1>12, <1>18, <2>1 DEF Doomed, EventOf
    <3>4. CASE Pending(n, k) BY <1>6, <2>1, <3>4 DEF Pending, Tells
    <3>5. CASE list[k] = Seen(n, table[n][k])
      <4>1. ASSUME NEW v, v = list[k] PROVE Shows(m, k, v)'
        <5>1. CASE list[k] # NoRow
          <6>1. [key |-> k, val |-> v] \in rows BY <1>9, <4>1, <5>1
          <6>2. Base(m, k, v)' BY <1>11, <1>12, <1>17, <2>1, <6>1 DEF Base
          <6> QED BY <1>6, <2>1, <3>3, <6>2 DEF Shows, EventOf
        <5>2. CASE list[k] = NoRow
          <6>1. copy[m][k] = v BY <2>1, <3>2, <4>1, <5>2 DEF NoRows
          <6>2. \A s \in rows : s.key # k BY <1>10, <5>2
          <6>3. Base(m, k, v)' BY <1>6, <1>11, <1>12, <1>17, <2>1, <6>1, <6>2 DEF Base
          <6> QED BY <1>6, <2>1, <3>3, <6>3 DEF Shows, EventOf
        <5> QED BY <5>1, <5>2
      <4>2. list[k] = Seen(m, table[m][k]) BY <2>1, <3>5
      <4>3. ASSUME NEW v, v = Seen(m, table[m][k]) PROVE Shows(m, k, v)' BY <4>1, <4>2, <4>3
      <4>4. Shows(m, k, Seen(m, table[m][k]))'
        BY <1>6, <4>3 DEF Seen, Shown, Shows, Base, Holds, EventOf, ValueOf
      <4> QED BY <4>4
    <3> QED BY <1>4, <3>1, <3>4, <3>5
  <2>2. CASE m # n
    <3>1. Claimed(m) BY <1>2, <1>6, <1>4, <1>11, <1>12, <1>18, <2>2 DEF Claimed, Loading, Waiting
    <3>2. ~Doomed(m) BY <1>2, <1>6, <1>12, <1>18, <2>2 DEF Doomed
    <3>3. \A w \in Users : ~Holds(w, m)
      BY <1>2, <1>13, <2>2 DEF Holds, Loading, Waiting
    <3>4. \A w \in Users : /\ Holds(w, m)' <=> Holds(w, m)
                           /\ Holds(w, m) => user'[w].rows = user[w].rows
      BY <1>17, <2>2, <3>3
    <3> QED BY <1>6, <3>1, <3>2, <3>4, SameFollows
  <2> QED BY <2>1, <2>2
<1>19. Follows' BY <1>18 DEF Follows
<1> QED BY <1>14, <1>15, <1>16, <1>19 DEF FollowInv

LEMMA ReplyFollows ==
  ASSUME Inv, FollowInv, NEW u \in Users, Reply(u)
  PROVE  FollowInv'
<1> USE ClientAssumption
<1> DEFINE m == [to |-> u, event |-> None]
           r == [user[u] EXCEPT !.at = "replied"]
<1>1. user \in [Users -> Thread] /\ user[u] \in Thread BY DEF Inv, UsersTyped
<1>2. /\ user[u].at = "selected" /\ connected /\ user' = [user EXCEPT ![u] = r]
      /\ queue' = Append(queue, m)
  BY <1>1 DEF Reply
<1>3. UNCHANGED <<table, announcing, connected, need, untold, copy, excuse>> BY DEF Reply, serverVars
<1>4. m \in Message /\ m.to = u BY DEF Message
<1>5. r.at = "replied" /\ r.name = user[u].name /\ r.rows = user[u].rows /\ r.todo = user[u].todo
  BY <1>1 DEF Thread
<1> HIDE DEF m, r
<1>6. \A w \in Users : user'[w] = IF w = u THEN r ELSE user[w] BY <1>1, <1>2
<1>7. queue \in Seq(Message) BY DEF Inv, QueueTyped
<1>8. /\ Len(queue) \in Nat /\ Len(queue') = Len(queue) + 1 /\ Len(queue') \in 1 .. Len(queue')
      /\ \A i \in 1 .. Len(queue) : /\ queue'[i] = queue[i] /\ i \in 1 .. Len(queue')
                                    /\ i < Len(queue')
      /\ \A i \in 1 .. Len(queue') : i \in 1 .. Len(queue) \/ i = Len(queue')
      /\ queue'[Len(queue')] = m
  BY <1>2, <1>4, <1>7
<1>9. RowsOnce' BY <1>5, <1>6 DEF FollowInv, RowsOnce
<1>10. \A w \in Users : user'[w].name = user[w].name /\ (user'[w].at \in Waiting <=> user[w].at \in Waiting)
  BY <1>2, <1>5, <1>6 DEF Waiting
<1>11. Emptied' BY <1>3, <1>10 DEF FollowInv, Emptied, NoRows
<1>12. Cut' BY <1>2, <1>3 DEF Cut
<1>13. \A w \in Users : \A n : /\ Holds(w, n)' <=> Holds(w, n)
                               /\ user'[w].rows = user[w].rows /\ user'[w].todo = user[w].todo
  BY <1>2, <1>5, <1>6 DEF Holds
<1>14. ASSUME NEW n \in Names, Claimed(n)', ~Doomed(n)', NEW k \in Keys
       PROVE  Shows(n, k, Seen(n, table[n][k]))' \/ Pending(n, k)'
  <2>1. Claimed(n) BY <1>2, <1>3, <1>5, <1>6, <1>14 DEF Claimed, Loading, Waiting
  <2>2. ~Doomed(n)
    <3> SUFFICES ASSUME NEW w \in Users, NEW i \in 1 .. Len(queue),
                        user[w].name = n, queue[i].to = None, queue[i].event.name = n,
                        \/ user[w].at = "selected"
                        \/ user[w].at = "replied" /\ \E j \in 1 .. Len(queue) : i < j /\ queue[j].to = w
                 PROVE  Doomed(n)'
      BY <1>14 DEF Doomed
    <3>1. w = u BY <1>2 DEF Inv, Apart, Loading, Waiting
    <3> QED BY <1>4, <1>5, <1>6, <1>8, <3>1 DEF Doomed
  <2>3. Shows(n, k, Seen(n, table[n][k])) \/ Pending(n, k) BY <2>1, <2>2 DEF FollowInv, Follows
  <2>4. ASSUME NEW v, Shows(n, k, v) PROVE Shows(n, k, v)'
    <3>1. Base(n, k, v) => Base(n, k, v)' BY <1>3, <1>13 DEF Base
    <3>2. m.to # None BY <1>4
    <3> QED BY <1>8, <2>4, <3>1, <3>2 DEF Shows, EventOf, ValueOf
  <2>5. Pending(n, k) => Pending(n, k)' BY <1>3 DEF Pending, Tells
  <2>6. Shows(n, k, Seen(n, table[n][k])) => Shows(n, k, Seen(n, table[n][k]))'
    BY <1>3, <2>4 DEF Seen, Shown, Shows, Base, Holds, EventOf, ValueOf
  <2> QED BY <2>3, <2>5, <2>6
<1>15. Follows' BY <1>14 DEF Follows
<1> QED BY <1>9, <1>11, <1>12, <1>15 DEF FollowInv

LEMMA ReadFailsFollows ==
  ASSUME Inv, FollowInv, NEW u \in Users, ReadFails(u)
  PROVE  FollowInv'
<1> DEFINE n == user[u].name
           r == [user[u] EXCEPT !.at = "clear"]
<1>1. user \in [Users -> Thread] /\ user[u] \in Thread BY DEF Inv, UsersTyped
<1>2. user[u].at = "asked" /\ connected /\ user' = [user EXCEPT ![u] = r] BY <1>1 DEF ReadFails
<1>3. UNCHANGED <<table, announcing, connected, queue, need, untold, copy>> BY DEF ReadFails, serverVars
<1>4. n \in Names BY <1>2 DEF Inv, UsersTyped, Waiting
<1>5. \A m \in Names : excuse'[m] <=> excuse[m] \/ m = n
  BY <1>4 DEF ReadFails, Inv, ExcuseTyped, Excused
<1>6. r.at = "clear" /\ r.name = n /\ r.rows = user[u].rows /\ r.todo = user[u].todo
  BY <1>1 DEF Thread
<1> HIDE DEF r
<1>7. \A w \in Users : user'[w] = IF w = u THEN r ELSE user[w] BY <1>1, <1>2
<1>8. RowsOnce' BY <1>6, <1>7 DEF FollowInv, RowsOnce
<1>9. Emptied'
  <2>1. \A w \in Users : w # u => user[w].at \notin Waiting
    BY <1>2 DEF Inv, Apart, Loading, Waiting
  <2>2. r.at \notin Waiting BY <1>6 DEF Waiting
  <2> QED BY <1>7, <2>1, <2>2 DEF Emptied
<1>10. Cut' BY <1>2, <1>3 DEF Cut
<1>11. ASSUME NEW m \in Names, Claimed(m)', ~Doomed(m)'
       PROVE  \A k \in Keys : Shows(m, k, Seen(m, table[m][k]))' \/ Pending(m, k)'
  <2>1. m # n BY <1>5, <1>11 DEF Claimed
  <2>2. Claimed(m)
    <3>1. connected /\ ~excuse[m] BY <1>2, <1>5, <1>11, <2>1 DEF Claimed
    <3>2. user[u].at \in Loading /\ ~(user[u].at = "asked" /\ user[u].name = m)
      BY <1>2, <2>1 DEF Loading, Waiting
    <3>3. \A w \in Users : user'[w].todo = user[w].todo /\ (w # u => user'[w] = user[w])
      BY <1>6, <1>7
    <3> QED BY <1>3, <1>11, <3>1, <3>2, <3>3 DEF Claimed
  <2>3. ~Doomed(m) BY <1>2, <1>3, <1>6, <1>7, <1>11 DEF Doomed
  <2>4. \A w \in Users : /\ Holds(w, m)' <=> Holds(w, m)
                         /\ Holds(w, m) => user'[w].rows = user[w].rows
    BY <1>2, <1>6, <1>7 DEF Holds
  <2> QED BY <1>3, <2>2, <2>3, <2>4, SameFollows
<1>12. Follows' BY <1>11 DEF Follows
<1> QED BY <1>8, <1>9, <1>10, <1>12 DEF FollowInv

LEMMA ClearFollows ==
  ASSUME Inv, FollowInv, NEW u \in Users, NEW n \in Names, Clear(u, n)
  PROVE  FollowInv'
<1> DEFINE p == IF connected THEN "asked" ELSE "clear"
           r == [user[u] EXCEPT !.at = p, !.name = n, !.todo = @ \ {n}, !.rows = {}]
<1>1. user \in [Users -> Thread] /\ user[u] \in Thread BY DEF Inv, UsersTyped
<1>2. p \in {"asked", "clear"} /\ (connected => p = "asked") OBVIOUS
<1>3. user[u].at = "clear" /\ user' = [user EXCEPT ![u] = r] BY <1>1 DEF Clear
<1> HIDE DEF p
<1>4. r.at = p /\ r.name = n /\ r.rows = {} /\ r.todo = user[u].todo \ {n} BY <1>1 DEF Thread
<1> HIDE DEF r
<1>5. \A w \in Users : user'[w] = IF w = u THEN r ELSE user[w] BY <1>1, <1>3
<1>6. UNCHANGED <<table, announcing, connected, queue, need, untold>> BY DEF Clear, serverVars
<1>7. \A m \in Names : /\ copy'[m] = IF m = n THEN NoRows ELSE copy[m]
                       /\ excuse'[m] <=> IF m = n THEN ~connected ELSE excuse[m]
  BY DEF Clear, Inv, CopyTyped, ExcuseTyped
<1>8. user[u].at \in Loading /\ r.at \in Loading BY <1>2, <1>3, <1>4 DEF Loading, Waiting
<1>9. \A w \in Users : w # u => user[w].at \notin Loading BY <1>8 DEF Inv, Apart
<1>10. RowsOnce' BY <1>4, <1>5 DEF FollowInv, RowsOnce
<1>11. Emptied'
  <2>1. \A w \in Users : w # u => user'[w].at \notin Waiting BY <1>5, <1>9 DEF Loading
  <2> QED BY <1>4, <1>5, <1>7, <2>1 DEF Emptied, NoRows
<1>12. Cut' BY <1>6, <1>7, <1>8 DEF FollowInv, Cut
<1>13. ASSUME NEW m \in Names, Claimed(m)', ~Doomed(m)', NEW k \in Keys
       PROVE  Shows(m, k, Seen(m, table[m][k]))' \/ Pending(m, k)'
  <2>1. "cache" \in need BY <1>8 DEF Inv, FlagStands
  <2>2. connected /\ ~excuse'[m] BY <1>6, <1>13 DEF Claimed
  <2>3. PICK w \in Users : /\ user'[w].at \in Loading /\ m \notin user'[w].todo
                           /\ ~(user'[w].at = "asked" /\ user'[w].name = m)
    BY <1>6, <1>13, <2>1 DEF Claimed
  <2>4. w = u BY <1>5, <1>9, <2>3
  <2>5. m # n BY <1>2, <1>4, <1>5, <2>2, <2>3, <2>4
  <2>6. m \notin user[u].todo BY <1>4, <1>5, <2>3, <2>4, <2>5
  <2>7. Claimed(m) BY <1>3, <1>7, <1>8, <2>2, <2>5, <2>6 DEF Claimed
  <2>8. ~Doomed(m)
    <3>1. \A x \in Users : user[x].at \notin {"selected", "replied"}
      BY <1>3, <1>9 DEF Loading, Waiting
    <3> QED BY <3>1 DEF Doomed
  <2>9. Shows(m, k, Seen(m, table[m][k])) \/ Pending(m, k) BY <2>7, <2>8 DEF FollowInv, Follows
  <2>10. \A x \in Users : ~Holds(x, m) /\ ~Holds(x, m)'
    <3>1. \A x \in Users : user[x].at \notin {"selected", "replied", "put"}
      BY <1>3, <1>9 DEF Loading, Waiting
    <3>2. \A x \in Users : user'[x].at \notin {"selected", "replied", "put"}
      BY <1>2, <1>4, <1>5, <3>1
    <3> QED BY <3>1, <3>2 DEF Holds
  <2>11. ASSUME NEW v, Shows(m, k, v) PROVE Shows(m, k, v)'
    <3>1. Base(m, k, v) => Base(m, k, v)' BY <1>7, <2>5, <2>10 DEF Base
    <3> QED BY <1>6, <2>11, <3>1 DEF Shows, EventOf, ValueOf
  <2>12. Pending(m, k) => Pending(m, k)' BY <1>6 DEF Pending, Tells
  <2>13. Shows(m, k, Seen(m, table[m][k])) => Shows(m, k, Seen(m, table[m][k]))'
    BY <1>6, <2>11 DEF Seen, Shown, Shows, Base, Holds, EventOf, ValueOf
  <2> QED BY <2>9, <2>12, <2>13
<1>14. Follows' BY <1>13 DEF Follows
<1> QED BY <1>10, <1>11, <1>12, <1>14 DEF FollowInv

(* A row that is put was shown already. *)
LEMMA PutFollows ==
  ASSUME Inv, FollowInv, NEW u \in Users, (\E e \in Rows : PutRow(u, e)) \/ Loaded(u)
  PROVE  FollowInv'
<1>1. user \in [Users -> Thread] /\ user[u] \in Thread BY DEF Inv, UsersTyped
<1>2. user[u].at = "put" BY DEF PutRow, Loaded
<1>3. UNCHANGED <<table, announcing, connected, queue, need, untold, excuse>>
  BY DEF PutRow, Loaded, serverVars
<1>4. user[u].name \in Names BY <1>2 DEF Inv, UsersTyped
<1>5. \A w \in Users : w # u => user[w].at \notin Loading
  BY <1>2 DEF Inv, Apart, Loading
<1>6. ASSUME NEW r, user' = [user EXCEPT ![u] = r], r.at \in {"put", "clear"}, r.todo = user[u].todo,
             r.rows \subseteq user[u].rows,
             \A m \in Names, k \in Keys : \A v : Base(m, k, v) => Base(m, k, v)'
      PROVE  FollowInv'
  <2>1. \A w \in Users : user'[w] = IF w = u THEN r ELSE user[w] BY <1>1, <1>6
  <2>2. RowsOnce' BY <1>6, <2>1 DEF FollowInv, RowsOnce
  <2>3. \A w \in Users : user'[w].at \notin Waiting
    BY <1>5, <1>6, <2>1 DEF Loading, Waiting
  <2>4. Emptied' BY <2>3 DEF Emptied
  <2>5. user[u].at \in Loading /\ r.at \in Loading BY <1>2, <1>6 DEF Loading
  <2>6. Cut' BY <1>3, <2>5 DEF FollowInv, Cut
  <2>7. ASSUME NEW m \in Names, Claimed(m)', NEW k \in Keys
        PROVE  Shows(m, k, Seen(m, table[m][k]))' \/ Pending(m, k)'
    <3>1. Claimed(m) BY <1>2, <1>3, <1>6, <2>1, <2>5, <2>7 DEF Claimed
    <3>2. ~Doomed(m)
      <4>1. \A x \in Users : user[x].at \notin {"selected", "replied"}
        BY <1>2, <1>5 DEF Loading, Waiting
      <4> QED BY <4>1 DEF Doomed
    <3>3. Shows(m, k, Seen(m, table[m][k])) \/ Pending(m, k) BY <3>1, <3>2 DEF FollowInv, Follows
    <3>4. ASSUME NEW v, Shows(m, k, v) PROVE Shows(m, k, v)'
      BY <1>3, <1>6, <3>4 DEF Shows, EventOf, ValueOf
    <3>5. Pending(m, k) => Pending(m, k)' BY <1>3 DEF Pending, Tells
    <3>6. Shows(m, k, Seen(m, table[m][k])) => Shows(m, k, Seen(m, table[m][k]))'
      BY <1>3, <3>4 DEF Seen, Shown, Shows, Base, Holds, EventOf, ValueOf
    <3> QED BY <3>3, <3>5, <3>6
  <2>8. Follows' BY <2>7 DEF Follows
  <2> QED BY <2>2, <2>4, <2>6, <2>8 DEF FollowInv
<1>7. \A w \in Users : \A m : Holds(w, m) <=> w = u /\ m = user[u].name
  BY <1>2, <1>5 DEF Holds, Loading, Waiting
<1>8. ASSUME NEW e \in Rows, PutRow(u, e)
      PROVE  FollowInv'
  <2> DEFINE r == [user[u] EXCEPT !.rows = @ \ {e}]
  <2>1. user' = [user EXCEPT ![u] = r] /\ e \in user[u].rows BY <1>1, <1>8 DEF PutRow
  <2>2. r.at = "put" /\ r.name = user[u].name /\ r.todo = user[u].todo /\ r.rows = user[u].rows \ {e}
    BY <1>1, <1>2 DEF Thread
  <2> HIDE DEF r
  <2>3. \A w \in Users : user'[w] = IF w = u THEN r ELSE user[w] BY <1>1, <2>1
  <2>4. \A w \in Users : \A m : Holds(w, m)' <=> w = u /\ m = user[u].name
    BY <1>7, <1>2, <2>2, <2>3 DEF Holds
  <2>5. \A m \in Names, k \in Keys :
          copy'[m][k] = IF m = user[u].name /\ k = e.key THEN e.val ELSE copy[m][k]
    BY <1>4, <1>8 DEF PutRow, Inv, CopyTyped, Rows
  <2>6. ASSUME NEW m \in Names, NEW k \in Keys, NEW v, Base(m, k, v)
        PROVE  Base(m, k, v)'
    <3>1. CASE m # user[u].name BY <1>7, <2>4, <2>5, <2>6, <3>1 DEF Base
    <3>2. CASE m = user[u].name /\ k # e.key
      BY <1>7, <2>2, <2>3, <2>4, <2>5, <2>6, <3>2 DEF Base
    <3>3. CASE m = user[u].name /\ k = e.key
      <4>1. [key |-> k, val |-> v] \in user[u].rows BY <1>7, <2>1, <2>6, <3>3 DEF Base
      <4>2. [key |-> k, val |-> v] = e BY <2>1, <3>3, <4>1 DEF FollowInv, RowsOnce
      <4>3. e.val = v BY <4>2
      <4>4. copy'[m][k] = v BY <2>5, <3>3, <4>3
      <4>5. \A x \in user[u].rows \ {e} : x.key # k
        BY <2>1, <3>3 DEF FollowInv, RowsOnce
      <4> QED BY <2>2, <2>3, <2>4, <4>4, <4>5 DEF Base
    <3> QED BY <3>1, <3>2, <3>3
  <2> QED BY <1>6, <2>1, <2>2, <2>6
<1>9. CASE Loaded(u)
  <2> DEFINE r == [user[u] EXCEPT !.at = "clear", !.name = None]
  <2>1. user' = [user EXCEPT ![u] = r] /\ user[u].rows = {} /\ copy' = copy BY <1>1, <1>9 DEF Loaded
  <2>2. r.at = "clear" /\ r.todo = user[u].todo /\ r.rows = user[u].rows BY <1>1 DEF Thread
  <2> HIDE DEF r
  <2>3. \A w \in Users : user'[w] = IF w = u THEN r ELSE user[w] BY <1>1, <2>1
  <2>4. \A w \in Users : \A m : ~Holds(w, m)' BY <1>7, <2>2, <2>3 DEF Holds
  <2>5. \A m \in Names, k \in Keys : \A v : Base(m, k, v) => Base(m, k, v)'
    BY <1>7, <2>1, <2>4 DEF Base
  <2> QED BY <1>6, <2>1, <2>2, <2>5
<1> QED BY <1>8, <1>9

(* What is received was shown already, or excuses the entity that is loaded. *)
LEMMA ReceiveFollows ==
  ASSUME Inv, FollowInv, Receive
  PROVE  FollowInv'
<1> USE ClientAssumption
<1> DEFINE h == Head(queue)
<1>1. queue \in Seq(Message) /\ queue # <<>> /\ queue' = Tail(queue)
  BY DEF Inv, QueueTyped, Receive
<1>2. /\ Len(queue) \in Nat /\ Len(queue) > 0 /\ Len(queue') = Len(queue) - 1 /\ Len(queue') \in Nat
      /\ \A i \in 1 .. Len(queue') : i + 1 \in 1 .. Len(queue) /\ queue'[i] = queue[i + 1]
      /\ h = queue[1] /\ 1 \in 1 .. Len(queue) /\ h \in Message
      /\ \A j \in 1 .. Len(queue) : j = 1 \/ (j - 1 \in 1 .. Len(queue') /\ queue'[j - 1] = queue[j])
  BY <1>1
<1>3. UNCHANGED <<table, announcing, connected, need, untold>> BY DEF Receive, serverVars
<1>4. connected BY <1>1 DEF FollowInv, Cut
<1>5. Cut' BY <1>3, <1>4 DEF Cut
<1>6. \A m \in Names, k \in Keys : Pending(m, k)' <=> Pending(m, k) BY <1>3 DEF Pending, Tells
<1>7. ASSUME NEW m \in Names, NEW k \in Keys, NEW v, ~EventOf(h, m, k), Shows(m, k, v),
             Base(m, k, v) => Base(m, k, v)'
      PROVE  Shows(m, k, v)'
  <2>1. ASSUME NEW i \in 1 .. Len(queue), EventOf(queue[i], m, k), ValueOf(queue[i]) = v,
               \A j \in 1 .. Len(queue) : j > i => ~EventOf(queue[j], m, k)
        PROVE  Shows(m, k, v)'
    <3>1. i # 1 BY <1>2, <1>7, <2>1
    <3>2. i - 1 \in 1 .. Len(queue') /\ queue'[i - 1] = queue[i] BY <1>2, <3>1
    <3>3. \A j \in 1 .. Len(queue') : j > i - 1 => ~EventOf(queue'[j], m, k)
      BY <1>2, <2>1
    <3> QED BY <2>1, <3>2, <3>3 DEF Shows, EventOf, ValueOf
  <2>2. CASE (\A i \in 1 .. Len(queue) : ~EventOf(queue[i], m, k)) /\ Base(m, k, v)
    BY <1>2, <1>7, <2>2 DEF Shows, EventOf
  <2> QED BY <1>7, <2>1, <2>2 DEF Shows
<1>8. CASE h.to # None
  <2> DEFINE u == h.to
             r == [user[u] EXCEPT !.at = "put"]
  <2>1. u \in Users BY <1>2, <1>8 DEF Message
  <2>2. user[u].at = "replied" BY <1>2, <1>8 DEF Inv, Replies
  <2>3. user \in [Users -> Thread] /\ user[u] \in Thread BY <2>1 DEF Inv, UsersTyped
  <2>4. user' = [user EXCEPT ![u] = r] /\ UNCHANGED <<copy, excuse>>
    BY <1>8, <2>1, <2>3 DEF Receive
  <2>5. r.at = "put" /\ r.name = user[u].name /\ r.rows = user[u].rows /\ r.todo = user[u].todo
    BY <2>3 DEF Thread
  <2> HIDE DEF r
  <2>6. \A w \in Users : user'[w] = IF w = u THEN r ELSE user[w] BY <2>1, <2>3, <2>4
  <2>7. RowsOnce' BY <2>5, <2>6 DEF FollowInv, RowsOnce
  <2>8. "put" \notin Waiting BY DEF Waiting
  <2>9. Emptied' BY <2>4, <2>5, <2>6, <2>8 DEF FollowInv, Emptied, NoRows
  <2>10. \A w \in Users : \A m : /\ Holds(w, m)' <=> Holds(w, m)
                                 /\ user'[w].rows = user[w].rows
    BY <2>2, <2>5, <2>6 DEF Holds
  <2>11. ASSUME NEW m \in Names, Claimed(m)', NEW k \in Keys
         PROVE  Shows(m, k, Seen(m, table[m][k]))' \/ Pending(m, k)'
    <3>1. Claimed(m)
      BY <1>3, <2>2, <2>4, <2>5, <2>6, <2>11 DEF Claimed, Loading, Waiting
    <3>2. ~Doomed(m)
      <4> SUFFICES ASSUME NEW w \in Users, NEW i \in 1 .. Len(queue), user[w].name = m,
                          \/ user[w].at = "selected"
                          \/ user[w].at = "replied" /\ \E j \in 1 .. Len(queue) : i < j /\ queue[j].to = w
                   PROVE  FALSE
        BY DEF Doomed
      <4>1. w = u BY <2>1, <2>2 DEF Inv, Apart, Loading, Waiting
      <4>2. PICK j \in 1 .. Len(queue) : i < j /\ queue[j].to = u BY <2>2, <4>1
      <4>3. j # 1 BY <4>2
      <4> QED BY <1>2, <1>8, <4>2, <4>3 DEF Inv, Replies
    <3>3. Shows(m, k, Seen(m, table[m][k])) \/ Pending(m, k) BY <3>1, <3>2 DEF FollowInv, Follows
    <3>4. ~EventOf(h, m, k) BY <1>8 DEF EventOf
    <3>5. \A v : Base(m, k, v) => Base(m, k, v)' BY <2>4, <2>10 DEF Base
    <3>6. \A v : Shows(m, k, v) => Shows(m, k, v)' BY <1>7, <3>4, <3>5
    <3>7. Shows(m, k, Seen(m, table[m][k])) => Shows(m, k, Seen(m, table[m][k]))'
      BY <1>3, <3>6 DEF Seen, Shown, Shows, Base, Holds, EventOf, ValueOf
    <3> QED BY <1>6, <3>3, <3>7
  <2>12. Follows' BY <2>11 DEF Follows
  <2> QED BY <1>5, <2>7, <2>9, <2>12 DEF FollowInv
<1>9. CASE h.to = None
  <2> DEFINE e == h.event
             c == \E u \in Users : user[u].at \in Loading /\ user[u].name = e.name
  <2>1. e \in Event BY <1>2, <1>9 DEF Message
  <2>2. e.name \in Names /\ e.key \in Keys /\ e.val \in Values \cup {Blank} BY <2>1 DEF Event
  <2>3. /\ user' = user
        /\ copy' = [copy EXCEPT ![e.name] = Applied(copy[e.name], e)]
        /\ excuse' = Excused(e.name, c)
    BY <1>9 DEF Receive
  <2>4. \A m \in Names : excuse'[m] <=> excuse[m] \/ (m = e.name /\ c)
    BY <2>2, <2>3 DEF Inv, ExcuseTyped, Excused
  <2>5. ~c => \A u \in Users : user[u].at \in Loading => user[u].name # e.name OBVIOUS
  <2> HIDE DEF c
  <2>6. \A m \in Names, k \in Keys :
          copy'[m][k] = IF m = e.name /\ k = e.key THEN ValueOf(h) ELSE copy[m][k]
    BY <2>2, <2>3 DEF Applied, ValueOf, Inv, CopyTyped
  <2>7. \A m \in Names : m # e.name => copy'[m] = copy[m] BY <2>2, <2>3 DEF Inv, CopyTyped
  <2>8. RowsOnce' BY <2>3 DEF FollowInv, RowsOnce
  <2>9. Emptied'
    <3> SUFFICES ASSUME NEW u \in Users, user[u].at \in Waiting, ~excuse'[user[u].name]
                 PROVE  copy'[user[u].name] = NoRows
      BY <2>3 DEF Emptied, NoRows
    <3>1. user[u].name \in Names /\ user[u].at \in Loading BY DEF Inv, UsersTyped, Loading
    <3>2. user[u].name # e.name BY <2>4, <2>5, <3>1
    <3> QED BY <2>4, <2>7, <3>1, <3>2 DEF FollowInv, Emptied
  <2>10. ASSUME NEW m \in Names, Claimed(m)', ~Doomed(m)', NEW k \in Keys
         PROVE  Shows(m, k, Seen(m, table[m][k]))' \/ Pending(m, k)'
    <3>1. Claimed(m) BY <1>3, <2>3, <2>4, <2>10 DEF Claimed
    <3>2. ~excuse'[m] BY <2>10 DEF Claimed
    <3>3. m = e.name => \A u \in Users : user[u].at \in Loading => user[u].name # m
      BY <2>4, <2>5, <3>2
    <3>4. ~Doomed(m)
      <4> SUFFICES ASSUME NEW w \in Users, NEW i \in 1 .. Len(queue), user[w].name = m,
                          queue[i].to = None, queue[i].event.name = m,
                          \/ user[w].at = "selected"
                          \/ user[w].at = "replied" /\ \E j \in 1 .. Len(queue) : i < j /\ queue[j].to = w
                   PROVE  FALSE
        BY DEF Doomed
      <4>1. user[w].at \in Loading BY DEF Loading, Waiting
      <4>2. i # 1 BY <1>2, <3>3, <4>1
      <4>3. i - 1 \in 1 .. Len(queue') /\ queue'[i - 1] = queue[i] BY <1>2, <4>2
      <4>4. CASE user[w].at = "selected" BY <2>3, <2>10, <4>3, <4>4 DEF Doomed
      <4>5. CASE user[w].at = "replied" /\ \E j \in 1 .. Len(queue) : i < j /\ queue[j].to = w
        <5>1. PICK j \in 1 .. Len(queue) : i < j /\ queue[j].to = w BY <4>5
        <5>2. j - 1 \in 1 .. Len(queue') /\ queue'[j - 1] = queue[j] /\ i - 1 < j - 1
          BY <1>2, <5>1
        <5> QED BY <2>3, <2>10, <4>3, <4>5, <5>1, <5>2 DEF Doomed
      <4> QED BY <4>4, <4>5
    <3>5. Shows(m, k, Seen(m, table[m][k])) \/ Pending(m, k) BY <3>1, <3>4 DEF FollowInv, Follows
    <3>6. CASE ~(m = e.name /\ k = e.key)
      <4>1. ~EventOf(h, m, k) BY <3>6 DEF EventOf
      <4>2. \A v : Base(m, k, v) => Base(m, k, v)' BY <2>3, <2>6, <3>6 DEF Base, Holds
      <4>3. \A v : Shows(m, k, v) => Shows(m, k, v)' BY <1>7, <4>1, <4>2
      <4>4. Shows(m, k, Seen(m, table[m][k])) => Shows(m, k, Seen(m, table[m][k]))'
        BY <1>3, <4>3 DEF Seen, Shown, Shows, Base, Holds, EventOf, ValueOf
      <4> QED BY <1>6, <3>5, <4>4
    <3>7. CASE m = e.name /\ k = e.key
      <4>1. \A u \in Users : ~Holds(u, m) BY <3>3, <3>7 DEF Holds, Loading, Waiting
      <4>2. EventOf(h, m, k) BY <1>9, <3>7 DEF EventOf
      <4>3. copy'[m][k] = ValueOf(h) BY <2>6, <3>7
      <4>4. ASSUME NEW v, Shows(m, k, v) PROVE Shows(m, k, v)'
        <5>1. PICK i \in 1 .. Len(queue) :
                /\ EventOf(queue[i], m, k) /\ ValueOf(queue[i]) = v
                /\ \A j \in 1 .. Len(queue) : j > i => ~EventOf(queue[j], m, k)
          BY <1>2, <4>2, <4>4 DEF Shows
        <5>2. CASE i = 1
          <6>1. \A j \in 1 .. Len(queue') : ~EventOf(queue'[j], m, k) BY <1>2, <5>1, <5>2
          <6>2. Base(m, k, v)' BY <1>2, <2>3, <4>1, <4>3, <5>1, <5>2 DEF Base, Holds
          <6> QED BY <6>1, <6>2 DEF Shows, EventOf
        <5>3. CASE i # 1
          <6>1. i - 1 \in 1 .. Len(queue') /\ queue'[i - 1] = queue[i] BY <1>2, <5>3
          <6>2. \A j \in 1 .. Len(queue') : j > i - 1 => ~EventOf(queue'[j], m, k)
            BY <1>2, <5>1
          <6> QED BY <5>1, <6>1, <6>2 DEF Shows, EventOf, ValueOf
        <5> QED BY <5>2, <5>3
      <4>5. Shows(m, k, Seen(m, table[m][k])) => Shows(m, k, Seen(m, table[m][k]))'
        BY <1>3, <4>4 DEF Seen, Shown, Shows, Base, Holds, EventOf, ValueOf
      <4> QED BY <1>6, <3>5, <4>5
    <3> QED BY <3>6, <3>7
  <2>11. Follows' BY <2>10 DEF Follows
  <2> QED BY <1>5, <2>8, <2>9, <2>11 DEF FollowInv
<1> QED BY <1>8, <1>9

LEMMA NextFollows == Inv /\ FollowInv /\ [Next]_vars => FollowInv'
<1> SUFFICES ASSUME Inv, FollowInv, [Next]_vars PROVE FollowInv'
  OBVIOUS
<1>1. CASE Writing BY <1>1, WriteFollows, SilentFollows DEF Writing
<1>2. CASE ServerStep
  BY <1>2, AnnounceFollows, ReloadFollows, ServerFollows, AskingFollows, SelectFollows, ReplyFollows
     DEF ServerStep
<1>3. CASE Forget BY <1>3, ServerFollows
<1>4. CASE \E u \in Users : ReadFails(u) BY <1>4, ReadFailsFollows
<1>5. CASE Disconnect BY <1>5, DisconnectFollows
<1>6. CASE \E l \in Flags : Told(l) BY <1>6, ServerFollows
<1>7. CASE Connect BY <1>7, ServerFollows
<1>8. CASE Receive BY <1>8, ReceiveFollows
<1>9. ASSUME NEW u \in Users, Read(u) \/ UserStep(u) PROVE FollowInv'
  <2>1. CASE \E n \in Names : Clear(u, n) BY <2>1, ClearFollows
  <2>2. CASE (\E r \in Rows : PutRow(u, r)) \/ Loaded(u) BY <2>2, PutFollows
  <2>3. CASE InitDone(u) BY <2>3, InitDoneFollows
  <2> QED BY <1>9, <2>1, <2>2, <2>3, AskingFollows DEF UserStep
<1>10. CASE UNCHANGED vars
  BY <1>10, QuietFollows DEF vars, serverVars
<1> QED
  BY <1>1, <1>2, <1>3, <1>4, <1>5, <1>6, <1>7, <1>8, <1>9, <1>10 DEF Next

(* Whatever the writes, the events, the reads and the broken connections, and in
   any order: when nothing is on its way the client's copy of an entity is what
   it is to see of the table, or since it was last cleared one of the things
   happened that CopyFollows names (initializeCache and the listener of
   JsonEntityCache, fed by notifySubscribers through the gate). *)
THEOREM TheCopyFollows == Spec => []CopyFollows
<1>1. Init => Inv /\ FollowInv BY InitInv, InitFollows
<1>2. (Inv /\ FollowInv) /\ [Next]_vars => (Inv /\ FollowInv)' BY NextKeeps, NextFollows
<1>3. ASSUME Inv, FollowInv PROVE CopyFollows
  <2> SUFFICES ASSUME NEW n \in Names, connected, "cache" \notin need, queue = <<>>,
                      \A u \in Users : user[u].at \notin Loading,
                      \A w \in Writers : announcing[w] = None \/ announcing[w].name # n,
                      ~excuse[n], NEW k \in Keys
               PROVE  copy[n][k] = Seen(n, table[n][k])
    BY DEF CopyFollows
  <2>1. Claimed(n) BY DEF Claimed
  <2>2. \A i \in 1 .. Len(queue) : FALSE OBVIOUS
  <2>3. ~Doomed(n) BY <2>2 DEF Doomed
  <2>4. ~Pending(n, k) BY DEF Pending
  <2>5. Shows(n, k, Seen(n, table[n][k])) BY <1>3, <2>1, <2>3, <2>4 DEF FollowInv, Follows
  <2>6. Base(n, k, Seen(n, table[n][k])) BY <2>2, <2>5 DEF Shows
  <2> QED BY <2>6 DEF Base, Holds, Loading, Waiting
<1> QED BY <1>1, <1>2, <1>3, PTL DEF Spec

=============================================================================
