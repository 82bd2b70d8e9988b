---------------------------- MODULE RequestsProofs ----------------------------
(***************************************************************************)
(* Proofs about Structures for any entities, any schemes and default rows, *)
(* and any number of files and statements that fail, of restarts and of    *)
(* calls: what the process knows, and what a call that succeeds has done.  *)
(* IInv is the inductive invariant; there is a lemma per action, with a    *)
(* step per part of it.                                                    *)
(*                                                                         *)
(* And about Requests for any number of threads and connections, any       *)
(* requests, and any number of failures and restarts: that what is proved  *)
(* of Structures holds while requests are served, and what requests do to  *)
(* the pool of connections.                                                *)
(***************************************************************************)
EXTENDS Requests, FiniteSetTheorems, TLAPS

-----------------------------------------------------------------------------
(* The inductive invariant. *)

(* Which steps belong to which call, and the directory they are about. *)
CallInv ==
  /\ call # "custom" => dir = "entities"
  /\ pc \in {"load", "clear", "fill"} => Loads
  /\ pc \in {"defaults", "insert"} => call # "custom"
  /\ call = "auto" /\ pc \in {"schemes", "tables", "defaults", "insert"} => loadedPath = "entities"
  /\ \A d \in Directories : schemaCache[d] \subseteq Contents[d]

(* The schemes of a directory are all read or none, except while they are read. *)
ReadInv ==
  /\ \A d \in Directories : schemaCache[d] \in {{}, Contents[d]} \/ (pc = "files" /\ d = dir)
  /\ loadedPath # None => schemaCache[loadedPath] = Contents[loadedPath]
  /\ pc \in {"fill", "schemes"} => schemaCache[dir] = Contents[dir]

(* The entities the loop has behind it are brought to their schemes. *)
BroughtInv ==
  call # "custom" =>
    /\ pc = "tables" => \A n \in Contents["entities"] : n \in todo \/ tables[n] = 2
    /\ pc \in {"defaults", "insert"} => \A n \in Contents["entities"] : tables[n] = 2

(* What is known while the structures are loaded. *)
LoadingInv ==
  /\ pc \in {"clear", "read", "files"} /\ Loads => structures = Nothing
  /\ pc \in {"read", "files"} /\ Loads => types = Nothing
  /\ pc = "fill" => \A n \in Names :
       /\ structures[n] = None \/ (structures[n] = dir /\ n \in schemaCache[dir])
       /\ types[n] = None \/ (types[n] = dir /\ structures[n] = dir /\ enumTypes[n] = dir)

(* Default rows are missing from a table only if they are still to be inserted,
   and are to be inserted into a table that has them only "again". *)
RowsInv ==
  /\ \A n \in WithDefaults : tables[n] # 0 /\ defaults[n] = 0 => n \in lost \cup blank \cup addedEntities
  /\ \A n \in WithDefaults : defaults[n] > 1 => n \in again
  /\ pc = "insert" => \A n \in todo : n \in WithDefaults /\ (defaults[n] > 0 => n \in again)
  /\ pc = "insert" => \A n \in addedEntities \cap WithDefaults :
                        n \in todo \/ defaults[n] > 0 \/ n \in lost \cup blank
  /\ pc \notin {"idle", "insert"} => \A n \in addedEntities : defaults[n] > 0 => n \in again
  /\ call = "reset" /\ pc = "tables" => \A n \in schemaCache[dir] : n \in todo \/ defaults[n] = 0
  /\ call = "reset" /\ pc = "defaults" => \A n \in schemaCache[dir] : defaults[n] = 0

KnownInv == ReadInv /\ BroughtInv /\ LoadingInv

IInv ==
  /\ StructuresTypeOK /\ CallInv /\ (threw \/ KnownInv) /\ RowsInv
  /\ KnowledgeIsWhole /\ OkMeansAll /\ DefaultsOnce /\ ParsedWithStructure

-----------------------------------------------------------------------------
LEMMA ConstantsType ==
  /\ None \notin Directories /\ "entities" \in Directories /\ "frozen" \in Directories
  /\ \A d \in Directories : Contents[d] # {} /\ Contents[d] \subseteq Names
  /\ WithDefaults \subseteq Contents["entities"] /\ WithDefaults \subseteq Names
  /\ MaxFaults \in Nat /\ MaxUpdates \in Nat
<1>1. /\ None \notin Directories /\ "entities" \in Directories /\ "frozen" \in Directories
      /\ WithDefaults \subseteq Contents["entities"]
      /\ MaxFaults \in Nat /\ MaxUpdates \in Nat
  BY StructuresAssumption DEF Directories
<1>2. \A d \in Directories : Contents[d] # {} /\ Contents[d] \subseteq Names
  <2>1. Contents \in [Directories -> (SUBSET Names) \ {{}}]
    BY StructuresAssumption
  <2>2. ASSUME NEW d \in Directories PROVE Contents[d] \in (SUBSET Names) \ {{}}
    BY <2>1
  <2>3. QED
    BY <2>2
<1>3. WithDefaults \subseteq Names
  BY <1>1, <1>2
<1>4. QED
  BY <1>1, <1>2, <1>3

LEMMA Accident ==
  ASSUME StructuresTypeOK, faults' = faults \/ (faults < MaxFaults /\ faults' = faults + 1)
  PROVE  faults' \in 0..MaxFaults
<1>1. faults \in 0..MaxFaults /\ MaxFaults \in Nat
  BY ConstantsType DEF StructuresTypeOK
<1>2. QED
  BY <1>1

-----------------------------------------------------------------------------
LEMMA StartKeeps ==
  ASSUME IInv, NEW c \in {"custom", "auto", "reset"}, Start(c) PROVE IInv'
<1> USE ConstantsType DEF IInv, StructuresTypeOK, Start, Goto, Return, known, memory, control, history
<1>1. StructuresTypeOK'
  BY Accident DEF Executed, NotExecuted, Wanted, Entitled, Fieldless, Cleared, Nothing, AfterRead, BringFails
<1>2. CallInv'
  BY DEF CallInv, Loads, AfterRead, BringFails
<1>3. threw' \/ KnownInv'
  BY DEF CallInv, KnownInv, ReadInv, BroughtInv, LoadingInv, Loads, AfterRead, Cached, Cleared, Nothing, Wanted, BringFails, KnowledgeIsWhole, Whole
<1>4. RowsInv'
  BY DEF CallInv, RowsInv, AfterRead, Entitled, BringFails, Cached
<1>5. KnowledgeIsWhole' /\ OkMeansAll'
  BY DEF CallInv, KnownInv, ReadInv, BroughtInv, LoadingInv, KnowledgeIsWhole, Whole, Loads, OkMeansAll, AfterRead, Cleared, Nothing, BringFails
<1>6. DefaultsOnce' /\ ParsedWithStructure'
  BY DEF CallInv, RowsInv, DefaultsOnce, ParsedWithStructure, Fieldless, KnowledgeIsWhole, Whole, Loads, BringFails, AfterRead
<1>7. QED
  BY <1>1, <1>2, <1>3, <1>4, <1>5, <1>6

LEMMA RestartKeeps ==
  ASSUME IInv, Restart PROVE IInv'
<1> USE ConstantsType DEF IInv, StructuresTypeOK, Restart, Goto, Return, known, memory, control, history
<1>1. StructuresTypeOK'
  BY Accident DEF Executed, NotExecuted, Wanted, Entitled, Fieldless, Cleared, Nothing, AfterRead, BringFails
<1>2. CallInv'
  BY DEF CallInv, Loads, AfterRead, BringFails
<1>3. threw' \/ KnownInv'
  BY DEF CallInv, KnownInv, ReadInv, BroughtInv, LoadingInv, Loads, AfterRead, Cached, Cleared, Nothing, Wanted, BringFails, KnowledgeIsWhole, Whole
<1>4. RowsInv'
  BY DEF CallInv, RowsInv, AfterRead, Entitled, BringFails, Cached
<1>5. KnowledgeIsWhole' /\ OkMeansAll'
  BY DEF CallInv, KnownInv, ReadInv, BroughtInv, LoadingInv, KnowledgeIsWhole, Whole, Loads, OkMeansAll, AfterRead, Cleared, Nothing, BringFails
<1>6. DefaultsOnce' /\ ParsedWithStructure'
  BY DEF CallInv, RowsInv, DefaultsOnce, ParsedWithStructure, Fieldless, KnowledgeIsWhole, Whole, Loads, BringFails, AfterRead
<1>7. QED
  BY <1>1, <1>2, <1>3, <1>4, <1>5, <1>6

LEMMA LoadKeeps ==
  ASSUME IInv, Load PROVE IInv'
<1> USE ConstantsType DEF IInv, StructuresTypeOK, Load, Goto, Return, known, memory, control, history
<1>1. StructuresTypeOK'
  BY Accident DEF Executed, NotExecuted, Wanted, Entitled, Fieldless, Cleared, Nothing, AfterRead, BringFails
<1>2. CallInv'
  BY DEF CallInv, Loads, AfterRead, BringFails
<1>3. threw' \/ KnownInv'
  BY DEF CallInv, KnownInv, ReadInv, BroughtInv, LoadingInv, Loads, AfterRead, Cached, Cleared, Nothing, Wanted, BringFails, KnowledgeIsWhole, Whole
<1>4. RowsInv'
  BY DEF CallInv, RowsInv, AfterRead, Entitled, BringFails, Cached
<1>5. KnowledgeIsWhole' /\ OkMeansAll'
  BY DEF CallInv, KnownInv, ReadInv, BroughtInv, LoadingInv, KnowledgeIsWhole, Whole, Loads, OkMeansAll, AfterRead, Cleared, Nothing, BringFails
<1>6. DefaultsOnce' /\ ParsedWithStructure'
  BY DEF CallInv, RowsInv, DefaultsOnce, ParsedWithStructure, Fieldless, KnowledgeIsWhole, Whole, Loads, BringFails, AfterRead
<1>7. QED
  BY <1>1, <1>2, <1>3, <1>4, <1>5, <1>6

LEMMA ClearKeeps ==
  ASSUME IInv, Clear PROVE IInv'
<1> USE ConstantsType DEF IInv, StructuresTypeOK, Clear, Goto, Return, known, memory, control, history
<1>1. StructuresTypeOK'
  BY Accident DEF Executed, NotExecuted, Wanted, Entitled, Fieldless, Cleared, Nothing, AfterRead, BringFails
<1>2. CallInv'
  BY DEF CallInv, Loads, AfterRead, BringFails
<1>3. threw' \/ KnownInv'
  BY DEF CallInv, KnownInv, ReadInv, BroughtInv, LoadingInv, Loads, AfterRead, Cached, Cleared, Nothing, Wanted, BringFails, KnowledgeIsWhole, Whole
<1>4. RowsInv'
  BY DEF CallInv, RowsInv, AfterRead, Entitled, BringFails, Cached
<1>5. KnowledgeIsWhole' /\ OkMeansAll'
  BY DEF CallInv, KnownInv, ReadInv, BroughtInv, LoadingInv, KnowledgeIsWhole, Whole, Loads, OkMeansAll, AfterRead, Cleared, Nothing, BringFails
<1>6. DefaultsOnce' /\ ParsedWithStructure'
  BY DEF CallInv, RowsInv, DefaultsOnce, ParsedWithStructure, Fieldless, KnowledgeIsWhole, Whole, Loads, BringFails, AfterRead
<1>7. QED
  BY <1>1, <1>2, <1>3, <1>4, <1>5, <1>6

LEMMA ReadKeeps ==
  ASSUME IInv, Read PROVE IInv'
<1> USE ConstantsType DEF IInv, StructuresTypeOK, Read, Goto, Return, known, memory, control, history
<1>1. StructuresTypeOK'
  BY Accident DEF Executed, NotExecuted, Wanted, Entitled, Fieldless, Cleared, Nothing, AfterRead, BringFails
<1>2. CallInv'
  BY DEF CallInv, Loads, AfterRead, BringFails
<1>3. threw' \/ KnownInv'
  BY DEF CallInv, KnownInv, ReadInv, BroughtInv, LoadingInv, Loads, AfterRead, Cached, Cleared, Nothing, Wanted, BringFails, KnowledgeIsWhole, Whole
<1>4. RowsInv'
  BY DEF CallInv, RowsInv, AfterRead, Entitled, BringFails, Cached
<1>5. KnowledgeIsWhole' /\ OkMeansAll'
  BY DEF CallInv, KnownInv, ReadInv, BroughtInv, LoadingInv, KnowledgeIsWhole, Whole, Loads, OkMeansAll, AfterRead, Cleared, Nothing, BringFails
<1>6. DefaultsOnce' /\ ParsedWithStructure'
  BY DEF CallInv, RowsInv, DefaultsOnce, ParsedWithStructure, Fieldless, KnowledgeIsWhole, Whole, Loads, BringFails, AfterRead
<1>7. QED
  BY <1>1, <1>2, <1>3, <1>4, <1>5, <1>6

LEMMA ReadFileKeeps ==
  ASSUME IInv, NEW n \in Names, ReadFile(n) PROVE IInv'
<1> USE ConstantsType DEF IInv, StructuresTypeOK, ReadFile, Goto, Return, known, memory, control, history
<1>1. StructuresTypeOK'
  BY Accident DEF Executed, NotExecuted, Wanted, Entitled, Fieldless, Cleared, Nothing, AfterRead, BringFails
<1>2. CallInv'
  BY DEF CallInv, Loads, AfterRead, BringFails
<1>3. threw' \/ KnownInv'
  BY DEF CallInv, KnownInv, ReadInv, BroughtInv, LoadingInv, Loads, AfterRead, Cached, Cleared, Nothing, Wanted, BringFails, KnowledgeIsWhole, Whole
<1>4. RowsInv'
  BY DEF CallInv, RowsInv, AfterRead, Entitled, BringFails, Cached
<1>5. KnowledgeIsWhole' /\ OkMeansAll'
  BY DEF CallInv, KnownInv, ReadInv, BroughtInv, LoadingInv, KnowledgeIsWhole, Whole, Loads, OkMeansAll, AfterRead, Cleared, Nothing, BringFails
<1>6. DefaultsOnce' /\ ParsedWithStructure'
  BY DEF CallInv, RowsInv, DefaultsOnce, ParsedWithStructure, Fieldless, KnowledgeIsWhole, Whole, Loads, BringFails, AfterRead
<1>7. QED
  BY <1>1, <1>2, <1>3, <1>4, <1>5, <1>6

LEMMA FilesReadKeeps ==
  ASSUME IInv, FilesRead PROVE IInv'
<1> USE ConstantsType DEF IInv, StructuresTypeOK, FilesRead, Goto, Return, known, memory, control, history
<1>1. StructuresTypeOK'
  BY Accident DEF Executed, NotExecuted, Wanted, Entitled, Fieldless, Cleared, Nothing, AfterRead, BringFails
<1>2. CallInv'
  BY DEF CallInv, Loads, AfterRead, BringFails
<1>3. threw' \/ KnownInv'
  BY DEF CallInv, KnownInv, ReadInv, BroughtInv, LoadingInv, Loads, AfterRead, Cached, Cleared, Nothing, Wanted, BringFails, KnowledgeIsWhole, Whole
<1>4. RowsInv'
  BY DEF CallInv, RowsInv, AfterRead, Entitled, BringFails, Cached
<1>5. KnowledgeIsWhole' /\ OkMeansAll'
  BY DEF CallInv, KnownInv, ReadInv, BroughtInv, LoadingInv, KnowledgeIsWhole, Whole, Loads, OkMeansAll, AfterRead, Cleared, Nothing, BringFails
<1>6. DefaultsOnce' /\ ParsedWithStructure'
  BY DEF CallInv, RowsInv, DefaultsOnce, ParsedWithStructure, Fieldless, KnowledgeIsWhole, Whole, Loads, BringFails, AfterRead
<1>7. QED
  BY <1>1, <1>2, <1>3, <1>4, <1>5, <1>6

LEMMA ReadThrowsKeeps ==
  ASSUME IInv, ReadThrows PROVE IInv'
<1> USE ConstantsType DEF IInv, StructuresTypeOK, ReadThrows, Goto, Return, known, memory, control, history
<1>1. StructuresTypeOK'
  BY Accident DEF Executed, NotExecuted, Wanted, Entitled, Fieldless, Cleared, Nothing, AfterRead, BringFails
<1>2. CallInv'
  BY DEF CallInv, Loads, AfterRead, BringFails
<1>3. threw' \/ KnownInv'
  BY DEF CallInv, KnownInv, ReadInv, BroughtInv, LoadingInv, Loads, AfterRead, Cached, Cleared, Nothing, Wanted, BringFails, KnowledgeIsWhole, Whole
<1>4. RowsInv'
  BY DEF CallInv, RowsInv, AfterRead, Entitled, BringFails, Cached
<1>5. KnowledgeIsWhole' /\ OkMeansAll'
  BY DEF CallInv, KnownInv, ReadInv, BroughtInv, LoadingInv, KnowledgeIsWhole, Whole, Loads, OkMeansAll, AfterRead, Cleared, Nothing, BringFails
<1>6. DefaultsOnce' /\ ParsedWithStructure'
  BY DEF CallInv, RowsInv, DefaultsOnce, ParsedWithStructure, Fieldless, KnowledgeIsWhole, Whole, Loads, BringFails, AfterRead
<1>7. QED
  BY <1>1, <1>2, <1>3, <1>4, <1>5, <1>6

LEMMA FillKeeps ==
  ASSUME IInv, NEW n \in Names, Fill(n) PROVE IInv'
<1> USE ConstantsType DEF IInv, StructuresTypeOK, Fill, Goto, Return, known, memory, control, history
<1>1. StructuresTypeOK'
  BY Accident DEF Executed, NotExecuted, Wanted, Entitled, Fieldless, Cleared, Nothing, AfterRead, BringFails
<1>2. CallInv'
  BY DEF CallInv, Loads, AfterRead, BringFails
<1>3. threw' \/ KnownInv'
  BY DEF CallInv, KnownInv, ReadInv, BroughtInv, LoadingInv, Loads, AfterRead, Cached, Cleared, Nothing, Wanted, BringFails, KnowledgeIsWhole, Whole
<1>4. RowsInv'
  BY DEF CallInv, RowsInv, AfterRead, Entitled, BringFails, Cached
<1>5. KnowledgeIsWhole' /\ OkMeansAll'
  BY DEF CallInv, KnownInv, ReadInv, BroughtInv, LoadingInv, KnowledgeIsWhole, Whole, Loads, OkMeansAll, AfterRead, Cleared, Nothing, BringFails
<1>6. DefaultsOnce' /\ ParsedWithStructure'
  BY DEF CallInv, RowsInv, DefaultsOnce, ParsedWithStructure, Fieldless, KnowledgeIsWhole, Whole, Loads, BringFails, AfterRead
<1>7. QED
  BY <1>1, <1>2, <1>3, <1>4, <1>5, <1>6

LEMMA FillTypesKeeps ==
  ASSUME IInv, NEW n \in Names, FillTypes(n) PROVE IInv'
<1> USE ConstantsType DEF IInv, StructuresTypeOK, FillTypes, Goto, Return, known, memory, control, history
<1>1. StructuresTypeOK'
  BY Accident DEF Executed, NotExecuted, Wanted, Entitled, Fieldless, Cleared, Nothing, AfterRead, BringFails
<1>2. CallInv'
  BY DEF CallInv, Loads, AfterRead, BringFails
<1>3. threw' \/ KnownInv'
  BY DEF CallInv, KnownInv, ReadInv, BroughtInv, LoadingInv, Loads, AfterRead, Cached, Cleared, Nothing, Wanted, BringFails, KnowledgeIsWhole, Whole
<1>4. RowsInv'
  BY DEF CallInv, RowsInv, AfterRead, Entitled, BringFails, Cached
<1>5. KnowledgeIsWhole' /\ OkMeansAll'
  BY DEF CallInv, KnownInv, ReadInv, BroughtInv, LoadingInv, KnowledgeIsWhole, Whole, Loads, OkMeansAll, AfterRead, Cleared, Nothing, BringFails
<1>6. DefaultsOnce' /\ ParsedWithStructure'
  BY DEF CallInv, RowsInv, DefaultsOnce, ParsedWithStructure, Fieldless, KnowledgeIsWhole, Whole, Loads, BringFails, AfterRead
<1>7. QED
  BY <1>1, <1>2, <1>3, <1>4, <1>5, <1>6

LEMMA FilledKeeps ==
  ASSUME IInv, Filled PROVE IInv'
<1> USE ConstantsType DEF IInv, StructuresTypeOK, Filled, Goto, Return, known, memory, control, history
<1>1. StructuresTypeOK'
  BY Accident DEF Executed, NotExecuted, Wanted, Entitled, Fieldless, Cleared, Nothing, AfterRead, BringFails
<1>2. CallInv'
  BY DEF CallInv, Loads, AfterRead, BringFails
<1>3. threw' \/ KnownInv'
  BY DEF CallInv, KnownInv, ReadInv, BroughtInv, LoadingInv, Loads, AfterRead, Cached, Cleared, Nothing, Wanted, BringFails, KnowledgeIsWhole, Whole
<1>4. RowsInv'
  BY DEF CallInv, RowsInv, AfterRead, Entitled, BringFails, Cached
<1>5. KnowledgeIsWhole' /\ OkMeansAll'
  BY DEF CallInv, KnownInv, ReadInv, BroughtInv, LoadingInv, KnowledgeIsWhole, Whole, Loads, OkMeansAll, AfterRead, Cleared, Nothing, BringFails
<1>6. DefaultsOnce' /\ ParsedWithStructure'
  BY DEF CallInv, RowsInv, DefaultsOnce, ParsedWithStructure, Fieldless, KnowledgeIsWhole, Whole, Loads, BringFails, AfterRead
<1>7. QED
  BY <1>1, <1>2, <1>3, <1>4, <1>5, <1>6

LEMMA SchemesKeeps ==
  ASSUME IInv, Schemes PROVE IInv'
<1> USE ConstantsType DEF IInv, StructuresTypeOK, Schemes, Goto, Return, known, memory, control, history
<1>1. StructuresTypeOK'
  BY Accident DEF Executed, NotExecuted, Wanted, Entitled, Fieldless, Cleared, Nothing, AfterRead, BringFails
<1>2. CallInv'
  BY DEF CallInv, Loads, AfterRead, BringFails
<1>3. threw' \/ KnownInv'
  BY DEF CallInv, KnownInv, ReadInv, BroughtInv, LoadingInv, Loads, AfterRead, Cached, Cleared, Nothing, Wanted, BringFails, KnowledgeIsWhole, Whole
<1>4. RowsInv'
  BY DEF CallInv, RowsInv, AfterRead, Entitled, BringFails, Cached
<1>5. KnowledgeIsWhole' /\ OkMeansAll'
  BY DEF CallInv, KnownInv, ReadInv, BroughtInv, LoadingInv, KnowledgeIsWhole, Whole, Loads, OkMeansAll, AfterRead, Cleared, Nothing, BringFails
<1>6. DefaultsOnce' /\ ParsedWithStructure'
  BY DEF CallInv, RowsInv, DefaultsOnce, ParsedWithStructure, Fieldless, KnowledgeIsWhole, Whole, Loads, BringFails, AfterRead
<1>7. QED
  BY <1>1, <1>2, <1>3, <1>4, <1>5, <1>6

LEMMA CustomFailsKeeps ==
  ASSUME IInv, CustomFails PROVE IInv'
<1> USE ConstantsType DEF IInv, StructuresTypeOK, CustomFails, Goto, Return, known, memory, control, history
<1>1. StructuresTypeOK'
  BY Accident DEF Executed, NotExecuted, Wanted, Entitled, Fieldless, Cleared, Nothing, AfterRead, BringFails
<1>2. CallInv'
  BY DEF CallInv, Loads, AfterRead, BringFails
<1>3. threw' \/ KnownInv'
  BY DEF CallInv, KnownInv, ReadInv, BroughtInv, LoadingInv, Loads, AfterRead, Cached, Cleared, Nothing, Wanted, BringFails, KnowledgeIsWhole, Whole
<1>4. RowsInv'
  BY DEF CallInv, RowsInv, AfterRead, Entitled, BringFails, Cached
<1>5. KnowledgeIsWhole' /\ OkMeansAll'
  BY DEF CallInv, KnownInv, ReadInv, BroughtInv, LoadingInv, KnowledgeIsWhole, Whole, Loads, OkMeansAll, AfterRead, Cleared, Nothing, BringFails
<1>6. DefaultsOnce' /\ ParsedWithStructure'
  BY DEF CallInv, RowsInv, DefaultsOnce, ParsedWithStructure, Fieldless, KnowledgeIsWhole, Whole, Loads, BringFails, AfterRead
<1>7. QED
  BY <1>1, <1>2, <1>3, <1>4, <1>5, <1>6

LEMMA BringKeeps ==
  ASSUME IInv, NEW n \in Names, Bring(n) PROVE IInv'
<1> USE ConstantsType DEF IInv, StructuresTypeOK, Goto, Return, known, memory, control, history
<1>1. StructuresTypeOK'
  BY Accident DEF Bring, Executed, NotExecuted, Wanted, BringFails
<1>2. /\ n \in todo /\ pc = "tables"
      /\ UNCHANGED <<schemaCache, known, loadedPath, call, dir, unread, threw>>
  BY DEF Bring
<1>3. CASE pc' = "idle" /\ UNCHANGED <<tables, defaults, addedEntities, blank, again, lost>> /\ result' = "error"
  <2>1. CallInv' /\ RowsInv'
    BY <1>2, <1>3 DEF CallInv, RowsInv, Loads
  <2>2. threw' \/ KnownInv'
    BY <1>2, <1>3 DEF KnownInv, ReadInv, BroughtInv, LoadingInv
  <2>3. KnowledgeIsWhole' /\ OkMeansAll' /\ DefaultsOnce' /\ ParsedWithStructure'
    BY <1>2, <1>3 DEF KnowledgeIsWhole, OkMeansAll, DefaultsOnce, ParsedWithStructure, Whole
  <2>4. QED
    BY <1>1, <2>1, <2>2, <2>3
<1>4. CASE pc' = "tables" /\ todo' = todo \ {n} /\ result' = result
           /\ tables' = [tables EXCEPT ![n] = IF @ > Wanted THEN @ ELSE Wanted]
  <2>1. tables'[n] # 0 /\ (dir = "entities" => tables'[n] = 2)
        /\ \A m \in Names \ {n} : tables'[m] = tables[m]
    BY <1>4 DEF Wanted
  <2>2. CallInv'
    BY <1>2, <1>4 DEF CallInv, Loads
  <2>3. threw' \/ KnownInv'
    BY <1>2, <1>4, <2>1 DEF KnownInv, ReadInv, BroughtInv, LoadingInv, CallInv
  <2>4. RowsInv'
    <3>1. CASE call = "reset" \/ tables[n] = 0
      <4>1. /\ defaults' = [defaults EXCEPT ![n] = 0]
            /\ addedEntities' = IF call # "reset" THEN addedEntities \cup {n} ELSE addedEntities
            /\ blank' = blank \ {n} /\ again' = again \ {n}
            /\ lost' = IF call = "reset" THEN lost \cup {n} ELSE lost \ {n}
        BY <1>2, <1>4, <3>1 DEF Bring, BringFails
      <4>2. defaults'[n] = 0 /\ \A m \in Names \ {n} : defaults'[m] = defaults[m]
        BY <4>1
      <4>3. QED
        BY <1>2, <1>4, <2>1, <3>1, <4>1, <4>2 DEF RowsInv, CallInv
    <3>2. CASE ~(call = "reset" \/ tables[n] = 0)
      <4>1. UNCHANGED <<defaults, addedEntities, blank, again, lost>>
        BY <1>2, <1>4, <3>2 DEF Bring, BringFails
      <4>2. QED
        BY <1>2, <1>4, <2>1, <3>2, <4>1 DEF RowsInv
    <3>3. QED
      BY <3>1, <3>2
  <2>5. KnowledgeIsWhole' /\ OkMeansAll' /\ DefaultsOnce' /\ ParsedWithStructure'
    BY <1>2, <1>4 DEF KnowledgeIsWhole, OkMeansAll, DefaultsOnce, ParsedWithStructure, Whole
  <2>6. QED
    BY <1>1, <2>2, <2>3, <2>4, <2>5
<1>5. QED
  BY <1>2, <1>3, <1>4 DEF Bring, BringFails

LEMMA TablesDoneKeeps ==
  ASSUME IInv, TablesDone PROVE IInv'
<1> USE ConstantsType DEF IInv, StructuresTypeOK, TablesDone, Goto, Return, known, memory, control, history
<1>1. StructuresTypeOK'
  BY Accident DEF Executed, NotExecuted, Wanted, Entitled, Fieldless, Cleared, Nothing, AfterRead, BringFails
<1>2. CallInv'
  BY DEF CallInv, Loads, AfterRead, BringFails
<1>3. threw' \/ KnownInv'
  BY DEF CallInv, KnownInv, ReadInv, BroughtInv, LoadingInv, Loads, AfterRead, Cached, Cleared, Nothing, Wanted, BringFails, KnowledgeIsWhole, Whole
<1>4. RowsInv'
  BY DEF CallInv, RowsInv, AfterRead, Entitled, BringFails, Cached
<1>5. KnowledgeIsWhole' /\ OkMeansAll'
  BY DEF CallInv, KnownInv, ReadInv, BroughtInv, LoadingInv, KnowledgeIsWhole, Whole, Loads, OkMeansAll, AfterRead, Cleared, Nothing, BringFails
<1>6. DefaultsOnce' /\ ParsedWithStructure'
  BY DEF CallInv, RowsInv, DefaultsOnce, ParsedWithStructure, Fieldless, KnowledgeIsWhole, Whole, Loads, BringFails, AfterRead
<1>7. QED
  BY <1>1, <1>2, <1>3, <1>4, <1>5, <1>6

LEMMA ReadDefaultsKeeps ==
  ASSUME IInv, ReadDefaults PROVE IInv'
<1> USE ConstantsType DEF IInv, StructuresTypeOK, ReadDefaults, Goto, Return, known, memory, control, history
<1>1. StructuresTypeOK'
  BY Accident DEF Executed, NotExecuted, Wanted, Entitled, Fieldless, Cleared, Nothing, AfterRead, BringFails
<1>2. CallInv'
  BY DEF CallInv, Loads, AfterRead, BringFails
<1>3. threw' \/ KnownInv'
  BY DEF CallInv, KnownInv, ReadInv, BroughtInv, LoadingInv, Loads, AfterRead, Cached, Cleared, Nothing, Wanted, BringFails, KnowledgeIsWhole, Whole
<1>4. RowsInv'
  <2>1. CASE pc' = "idle"
    BY <2>1 DEF CallInv, RowsInv
  <2>2. CASE pc' = "insert" /\ call = "reset"
    BY <2>2 DEF CallInv, RowsInv, Entitled
  <2>3. CASE pc' = "insert" /\ call = "auto"
    BY <2>3 DEF CallInv, RowsInv, Entitled
  <2>4. QED
    BY <2>1, <2>2, <2>3 DEF CallInv
<1>5. KnowledgeIsWhole' /\ OkMeansAll'
  BY DEF CallInv, KnownInv, ReadInv, BroughtInv, LoadingInv, KnowledgeIsWhole, Whole, Loads, OkMeansAll, AfterRead, Cleared, Nothing, BringFails
<1>6. DefaultsOnce'
  BY DEF DefaultsOnce
<1>7. ParsedWithStructure'
  <2>1. ASSUME pc' = "insert", ~threw, call = "reset" => loadedPath = "entities"
        PROVE  unread' = {}
    <3>1. loadedPath = "entities"
      BY <2>1 DEF CallInv
    <3>2. \A n \in WithDefaults : types[n] = "entities"
      BY <2>1, <3>1 DEF KnowledgeIsWhole, Whole
    <3>3. QED
      BY <2>1, <3>2 DEF Fieldless
  <2>2. QED
    BY <2>1 DEF ParsedWithStructure
<1>8. QED
  BY <1>1, <1>2, <1>3, <1>4, <1>5, <1>6, <1>7

LEMMA InsertDefaultsKeeps ==
  ASSUME IInv, NEW n \in Names, InsertDefaults(n) PROVE IInv'
<1> USE ConstantsType DEF IInv, StructuresTypeOK, InsertDefaults, Goto, Return, known, memory, control, history
<1>1. StructuresTypeOK'
  BY Accident DEF Executed, NotExecuted, Wanted, Entitled, Fieldless, Cleared, Nothing, AfterRead, BringFails
<1>2. CallInv'
  BY DEF CallInv, Loads, AfterRead, BringFails
<1>3. threw' \/ KnownInv'
  BY DEF CallInv, KnownInv, ReadInv, BroughtInv, LoadingInv, Loads, AfterRead, Cached, Cleared, Nothing, Wanted, BringFails, KnowledgeIsWhole, Whole
<1>4. RowsInv'
  BY DEF CallInv, RowsInv, AfterRead, Entitled, BringFails, Cached
<1>5. KnowledgeIsWhole' /\ OkMeansAll'
  BY DEF CallInv, KnownInv, ReadInv, BroughtInv, LoadingInv, KnowledgeIsWhole, Whole, Loads, OkMeansAll, AfterRead, Cleared, Nothing, BringFails
<1>6. DefaultsOnce' /\ ParsedWithStructure'
  BY DEF CallInv, RowsInv, DefaultsOnce, ParsedWithStructure, Fieldless, KnowledgeIsWhole, Whole, Loads, BringFails, AfterRead
<1>7. QED
  BY <1>1, <1>2, <1>3, <1>4, <1>5, <1>6

LEMMA DoneKeeps ==
  ASSUME IInv, Done PROVE IInv'
<1> USE ConstantsType DEF IInv, StructuresTypeOK, Done, Goto, Return, known, memory, control, history
<1>1. StructuresTypeOK'
  BY Accident DEF Executed, NotExecuted, Wanted, Entitled, Fieldless, Cleared, Nothing, AfterRead, BringFails
<1>2. CallInv'
  BY DEF CallInv, Loads, AfterRead, BringFails
<1>3. threw' \/ KnownInv'
  BY DEF CallInv, KnownInv, ReadInv, BroughtInv, LoadingInv, Loads, AfterRead, Cached, Cleared, Nothing, Wanted, BringFails, KnowledgeIsWhole, Whole
<1>4. RowsInv'
  BY DEF CallInv, RowsInv, AfterRead, Entitled, BringFails, Cached
<1>5. KnowledgeIsWhole' /\ OkMeansAll'
  BY DEF CallInv, KnownInv, ReadInv, BroughtInv, LoadingInv, KnowledgeIsWhole, Whole, Loads, OkMeansAll, AfterRead, Cleared, Nothing, BringFails
<1>6. DefaultsOnce' /\ ParsedWithStructure'
  BY DEF CallInv, RowsInv, DefaultsOnce, ParsedWithStructure, Fieldless, KnowledgeIsWhole, Whole, Loads, BringFails, AfterRead
<1>7. QED
  BY <1>1, <1>2, <1>3, <1>4, <1>5, <1>6

LEMMA StutterKeeps ==
  ASSUME IInv, UNCHANGED structuresVars PROVE IInv'
<1> USE DEF IInv, structuresVars, known, memory, control, history
<1>1. StructuresTypeOK' /\ CallInv' /\ RowsInv'
  BY DEF StructuresTypeOK, CallInv, RowsInv, Loads
<1>2. threw' \/ KnownInv'
  BY DEF KnownInv, ReadInv, BroughtInv, LoadingInv, Loads
<1>3. KnowledgeIsWhole' /\ OkMeansAll' /\ DefaultsOnce' /\ ParsedWithStructure'
  BY DEF KnowledgeIsWhole, OkMeansAll, DefaultsOnce, ParsedWithStructure, Whole, Loads
<1>4. QED
  BY <1>1, <1>2, <1>3

LEMMA InitKeeps == StructuresInit => IInv
<1> SUFFICES ASSUME StructuresInit PROVE IInv
  OBVIOUS
<1> USE ConstantsType DEF StructuresInit, Nothing, Whole
<1>1. StructuresTypeOK
  <2>1. tables \in [Names -> 0..2] /\ defaults \in [Names -> Nat]
    OBVIOUS
  <2>2. schemaCache \in [Directories -> SUBSET Names]
    OBVIOUS
  <2>3. /\ \A f \in {structures, types, enumTypes} : f \in [Names -> Directories \cup {None}]
        /\ loadedPath \in Directories \cup {None}
    OBVIOUS
  <2>4. faults \in 0..MaxFaults /\ updates \in 0..MaxUpdates
    OBVIOUS
  <2>5. QED
    BY <2>1, <2>2, <2>3, <2>4 DEF StructuresTypeOK
<1>2. CallInv /\ RowsInv
  BY DEF CallInv, RowsInv, Loads
<1>3. KnownInv
  BY DEF KnownInv, ReadInv, BroughtInv, LoadingInv
<1>4. KnowledgeIsWhole /\ OkMeansAll /\ DefaultsOnce /\ ParsedWithStructure
  BY DEF KnowledgeIsWhole, OkMeansAll, DefaultsOnce, ParsedWithStructure
<1>5. QED
  BY <1>1, <1>2, <1>3, <1>4 DEF IInv

LEMMA StepKeeps ==
  ASSUME IInv, [StructuresNext]_structuresVars PROVE IInv'
<1>1. CASE (\E c \in {"custom", "auto", "reset"} : Start(c)) \/ Restart
  BY <1>1, StartKeeps, RestartKeeps
<1>2. CASE Load \/ Clear \/ Read \/ FilesRead \/ ReadThrows \/ Filled \/ Schemes \/ CustomFails
  BY <1>2, LoadKeeps, ClearKeeps, ReadKeeps, FilesReadKeeps, ReadThrowsKeeps, FilledKeeps, SchemesKeeps,
     CustomFailsKeeps
<1>3. CASE TablesDone \/ ReadDefaults \/ Done
  BY <1>3, TablesDoneKeeps, ReadDefaultsKeeps, DoneKeeps
<1>4. CASE \E n \in Names : ReadFile(n) \/ Fill(n) \/ FillTypes(n) \/ Bring(n) \/ InsertDefaults(n)
  BY <1>4, ReadFileKeeps, FillKeeps, FillTypesKeeps, BringKeeps, InsertDefaultsKeeps
<1>5. CASE UNCHANGED structuresVars
  BY <1>5, StutterKeeps
<1>6. QED
  BY <1>1, <1>2, <1>3, <1>4, <1>5 DEF StructuresNext, StructuresStep

-----------------------------------------------------------------------------
(* The inductive invariant holds whatever is called, fails and is restarted. *)
THEOREM StructuresInvariant == StructuresSpec => []IInv
BY InitKeeps, StepKeeps, PTL DEF StructuresSpec

(* StructuresTypeOK. *)
THEOREM StructuresTypeCorrect == StructuresSpec => []StructuresTypeOK
<1>1. IInv => StructuresTypeOK
  BY DEF IInv
<1>2. QED
  BY <1>1, StructuresInvariant, PTL

(* KnowledgeIsWhole: when EntitiesStructureCache is not being loaded it has the
   fields, and their types, of all the schemes of the directory that was loaded
   last and of no other, and the values of all the enum types of that directory;
   unless reading schemes threw in this process. *)
THEOREM KnowledgeStaysWhole == StructuresSpec => []KnowledgeIsWhole
<1>1. IInv => KnowledgeIsWhole
  BY DEF IInv
<1>2. QED
  BY <1>1, StructuresInvariant, PTL

(* OkMeansAll: an update that succeeds has brought every entity to its scheme,
   whatever calls failed before it, unless reading schemes threw. *)
THEOREM SuccessIsComplete == StructuresSpec => []OkMeansAll
<1>1. IInv => OkMeansAll
  BY DEF IInv
<1>2. QED
  BY <1>1, StructuresInvariant, PTL

(* DefaultsOnce: after a call that succeeds a table has its default rows once,
   with the exceptions that are named. *)
THEOREM DefaultsAreOnce == StructuresSpec => []DefaultsOnce
<1>1. IInv => DefaultsOnce
  BY DEF IInv
<1>2. QED
  BY <1>1, StructuresInvariant, PTL

(* ParsedWithStructure: default rows are parsed with the structures of their
   entities, with the exceptions that are named. *)
THEOREM DefaultsAreParsed == StructuresSpec => []ParsedWithStructure
<1>1. IInv => ParsedWithStructure
  BY DEF IInv
<1>2. QED
  BY <1>1, StructuresInvariant, PTL
-----------------------------------------------------------------------------
(* Requests leave the structures alone, and updates do what they do without
   requests. *)
LEMMA StepImplements ==
  ASSUME [RequestsNext]_vars PROVE [StructuresNext]_structuresVars
<1>1. CASE UpdateStep
  BY <1>1 DEF UpdateStep, StructuresNext
<1>2. CASE RestartAll
  BY <1>2 DEF RestartAll, StructuresNext
<1>3. CASE \E t \in Threads : ThreadStep(t)
  <2>1. PICK t \in Threads : ThreadStep(t)
    BY <1>3
  <2>2. CASE Make(t) \/ Check(t) \/ Take(t) \/ TurnDone(t) \/ AllDone(t) \/ (\E n \in Names : Turn(t, n))
    BY <2>2 DEF Make, Check, Take, TurnDone, AllDone, Turn
  <2>3. CASE \E g \in thread[t].groups : Insert(t, g) \/ InsertThenFail(t, g) \/ UpdateRows(t, g)
    BY <2>3 DEF Insert, InsertThenFail, UpdateRows
  <2>4. CASE QueryKeys(t) \/ Reload(t) \/ Look(t) \/ DeleteRows(t)
    BY <2>4 DEF QueryKeys, Reload, Look, LoadRows, DeleteRows
  <2>5. QED
    BY <2>1, <2>2, <2>3, <2>4 DEF ThreadStep
<1>4. CASE \E t \in Threads : \E q \in Requests : Receive(t, q)
  BY <1>4 DEF Receive
<1>5. CASE Connect \/ UNCHANGED vars
  BY <1>5 DEF vars, Connect
<1>6. QED
  BY <1>1, <1>2, <1>3, <1>4, <1>5 DEF RequestsNext

(* Serving requests implements Structures: no request disturbs what an update
   knows or does. *)
THEOREM RequestsImplementStructures == RequestsSpec => StructuresSpec
<1>1. RequestsInit => StructuresInit
  BY DEF RequestsInit
<1>2. [RequestsNext]_vars => [StructuresNext]_structuresVars
  BY StepImplements
<1>3. QED
  BY <1>1, <1>2, PTL DEF RequestsSpec, StructuresSpec

(* OkMeansAll, while requests are served. *)
THEOREM ServingKeepsSuccess == RequestsSpec => []OkMeansAll
BY RequestsImplementStructures, SuccessIsComplete, PTL

-----------------------------------------------------------------------------
(* The modes of the connections. *)

(* A connection that is lax was spoiled by a CREATE with a key 0 that failed:
   every other CREATE sets back the mode it set. *)
LEMMA ModeStep ==
  ASSUME PoolRestored, [RequestsNext]_vars PROVE PoolRestored'
<1> USE DEF PoolRestored
<1>1. CASE UpdateStep \/ RestartAll
  BY <1>1 DEF UpdateStep, RestartAll
<1>2. CASE \E t \in Threads : ThreadStep(t)
  <2>1. PICK t \in Threads : ThreadStep(t)
    BY <1>2
  <2>2. CASE Make(t) \/ Check(t) \/ Take(t) \/ TurnDone(t) \/ AllDone(t) \/ (\E n \in Names : Turn(t, n))
    BY <2>2 DEF Make, Check, Take, TurnDone, AllDone, Turn
  <2>3. CASE \E g \in thread[t].groups : Insert(t, g)
    BY <2>3 DEF Insert, ModeAfter
  <2>4. CASE \E g \in thread[t].groups : InsertThenFail(t, g) \/ UpdateRows(t, g)
    BY <2>4 DEF InsertThenFail, UpdateRows
  <2>5. CASE QueryKeys(t) \/ Reload(t) \/ Look(t) \/ DeleteRows(t)
    BY <2>5 DEF QueryKeys, Reload, Look, LoadRows, DeleteRows
  <2>6. QED
    BY <2>1, <2>2, <2>3, <2>4, <2>5 DEF ThreadStep
<1>3. CASE \E t \in Threads : \E q \in Requests : Receive(t, q)
  BY <1>3 DEF Receive
<1>4. CASE Connect \/ UNCHANGED vars
  BY <1>4 DEF Connect, vars, requestVars
<1>5. QED
  BY <1>1, <1>2, <1>3, <1>4 DEF RequestsNext

(* PoolRestored: a connection has the mode of the server, whoever takes it,
   unless a CREATE with a key 0 failed on it. *)
THEOREM ModesAreRestored == RequestsSpec => []PoolRestored
<1>1. RequestsInit => PoolRestored
  BY DEF RequestsInit, PoolRestored
<1>2. PoolRestored /\ [RequestsNext]_vars => PoolRestored'
  BY ModeStep
<1>3. QED
  BY <1>1, <1>2, PTL DEF RequestsSpec

-----------------------------------------------------------------------------
(* The connections that threads hold. *)
Before  == {"idle", "make", "check", "take"}
Holding == {"turn", "insert", "keys", "update", "reload", "look", "delete"}

(* A thread has no connection before addEntities, updateEntities or
   removeEntities took one, and that one afterwards: loadEntities gives its own
   back. *)
HoldsRight(r) ==
  /\ {"at", "held"} \subseteq DOMAIN r
  /\ \/ r.at \in Before /\ r.held = {}
     \/ r.at \in Holding /\ \E c \in Connections : r.held = {c}

HeldInv == DOMAIN thread = Threads /\ \A t \in Threads : HoldsRight(thread[t])

LEMMA IdleHoldsRight ==
  \A a : HoldsRight([Idle EXCEPT !.answer = a])
BY DEF HoldsRight, Idle, Before

(* Noting that a thread was raced changes nothing of this. *)
LEMMA RacedHoldsRight ==
  ASSUME NEW r, HoldsRight(r) PROVE HoldsRight([r EXCEPT !.raced = TRUE])
BY DEF HoldsRight

LEMMA RacedKeeps ==
  ASSUME HeldInv, NEW n
  PROVE  DOMAIN Raced(thread, n) = Threads /\ \A t \in Threads : HoldsRight(Raced(thread, n)[t])
<1>1. DOMAIN Raced(thread, n) = Threads
  BY DEF HeldInv, Raced
<1>2. ASSUME NEW t \in Threads PROVE HoldsRight(Raced(thread, n)[t])
  <2>1. Raced(thread, n)[t] = thread[t] \/ Raced(thread, n)[t] = [thread[t] EXCEPT !.raced = TRUE]
    BY DEF HeldInv, Raced
  <2>2. QED
    BY <2>1, RacedHoldsRight DEF HeldInv
<1>3. QED
  BY <1>1, <1>2

(* A step of one thread. *)
LEMMA OneThread ==
  ASSUME NEW f, DOMAIN f = Threads, \A t \in Threads : HoldsRight(f[t]),
         NEW t \in Threads, NEW r, HoldsRight(r), thread' = [f EXCEPT ![t] = r]
  PROVE  HeldInv'
<1>1. DOMAIN thread' = Threads
  OBVIOUS
<1>2. \A u \in Threads : HoldsRight(thread'[u])
  OBVIOUS
<1>3. QED
  BY <1>1, <1>2 DEF HeldInv, HoldsRight

LEMMA AnswerKeeps ==
  ASSUME HeldInv, NEW t \in Threads, NEW a, Answer(t, a) PROVE HeldInv'
BY IdleHoldsRight, OneThread DEF Answer, HeldInv

LEMMA ReceiveHeld ==
  ASSUME HeldInv, NEW t \in Threads, NEW q \in Requests, Receive(t, q) PROVE HeldInv'
<1> DEFINE asked == Asked(q)
           r     == [Idle EXCEPT !.at = IF DOMAIN asked = {} THEN "take" ELSE "make",
                       !.op = q.op, !.asked = asked, !.left = DOMAIN asked,
                       !.objects = [i \in DOMAIN asked |-> Bare(asked[i])],
                       !.mine = [i \in DOMAIN asked |-> -1],
                       !.kept = [i \in DOMAIN asked |-> "nothing"]]
<1>1. thread' = [thread EXCEPT ![t] = r]
  BY DEF Receive
<1>2. HoldsRight(r)
  <2> HIDE DEF asked
  <2>1. QED
    BY DEF HoldsRight, Before, Idle
<1>3. QED
  <2> HIDE DEF r
  <2>1. QED
    BY <1>1, <1>2, OneThread DEF HeldInv

(* Going on to the next object, or to what follows the last one. *)
LEMMA PassedHoldsRight ==
  ASSUME NEW r, HoldsRight(r), r.at \in Before, NEW i PROVE HoldsRight(Passed(r, i))
<1>1. /\ {"at", "held"} \subseteq DOMAIN Passed(r, i)
      /\ Passed(r, i).at \in {r.at, "check", "take"} /\ Passed(r, i).held = r.held
  BY DEF Passed, HoldsRight
<1>2. r.held = {}
  BY DEF HoldsRight, Before, Holding
<1>3. QED
  BY <1>1, <1>2 DEF HoldsRight, Before

LEMMA MakeHeld ==
  ASSUME HeldInv, NEW t \in Threads, Make(t) PROVE HeldInv'
<1>1. CASE Answer(t, "error")
  BY <1>1, AnswerKeeps
<1>2. CASE ~Answer(t, "error")
  <2>1. PICK i, o, b : thread' = [thread EXCEPT ![t] = Passed([thread[t] EXCEPT !.objects[i] = o, !.blind = b], i)]
    BY <1>2 DEF Make
  <2> DEFINE r == [thread[t] EXCEPT !.objects[i] = o, !.blind = b]
  <2>2. HoldsRight(r) /\ r.at \in Before
    BY DEF HeldInv, HoldsRight, Make, Before, Holding
  <2>3. HoldsRight(Passed(r, i))
    BY <2>2, PassedHoldsRight
  <2>4. QED
    BY <2>1, <2>3, OneThread DEF HeldInv
<1>3. QED
  BY <1>1, <1>2

LEMMA CheckHeld ==
  ASSUME HeldInv, NEW t \in Threads, Check(t) PROVE HeldInv'
<1>1. CASE Answer(t, "error")
  BY <1>1, AnswerKeeps
<1>2. CASE ~Answer(t, "error")
  <2>1. PICK i, b : thread' = [thread EXCEPT ![t] = Passed([thread[t] EXCEPT !.blind = b], i)]
    BY <1>2 DEF Check
  <2> DEFINE r == [thread[t] EXCEPT !.blind = b]
  <2>2. HoldsRight(r) /\ r.at \in Before
    BY DEF HeldInv, HoldsRight, Check, Before, Holding
  <2>3. HoldsRight(Passed(r, i))
    BY <2>2, PassedHoldsRight
  <2>4. QED
    BY <2>1, <2>3, OneThread DEF HeldInv
<1>3. QED
  BY <1>1, <1>2

LEMMA TakeHeld ==
  ASSUME HeldInv, NEW t \in Threads, Take(t) PROVE HeldInv'
<1>1. PICK c \in Free : thread' = [thread EXCEPT ![t].at = "turn", ![t].held = {c}, ![t].tainted = c \in spoiled,
         ![t].turns = {e.of : e \in {thread[t].objects[i] : i \in DOMAIN thread[t].objects}}]
  BY DEF Take
<1>2. c \in Connections
  BY <1>1 DEF Free
<1> DEFINE r == [thread[t] EXCEPT !.at = "turn", !.held = {c}, !.tainted = c \in spoiled,
                   !.turns = {e.of : e \in {thread[t].objects[i] : i \in DOMAIN thread[t].objects}}]
<1>3. thread' = [thread EXCEPT ![t] = r]
  BY <1>1
<1>4. HoldsRight(r)
  BY <1>2 DEF HeldInv, HoldsRight, Holding
<1>5. QED
  BY <1>3, <1>4, OneThread DEF HeldInv

(* A step of a thread that has its connection, and keeps it. *)
LEMMA GoesOn ==
  ASSUME HeldInv, NEW t \in Threads, thread[t].at \in Holding,
         NEW r, {"at", "held"} \subseteq DOMAIN r, r.at \in Holding, r.held = thread[t].held
  PROVE  HoldsRight(r)
BY DEF HeldInv, HoldsRight, Before, Holding

LEMMA TurnHeld ==
  ASSUME HeldInv, NEW t \in Threads,
         TurnDone(t) \/ AllDone(t) \/ (\E n \in Names : Turn(t, n))
  PROVE  HeldInv'
<1>1. CASE TurnDone(t)
  <2>1. HoldsRight([thread[t] EXCEPT !.at = "turn"])
    BY <1>1 DEF TurnDone, HeldInv, HoldsRight, Before, Holding
  <2>2. QED
    BY <1>1, <2>1, OneThread DEF TurnDone, HeldInv
<1>2. CASE AllDone(t)
  BY <1>2, AnswerKeeps DEF AllDone
<1>3. CASE \E n \in Names : Turn(t, n)
  <2>1. PICK n \in Names : Turn(t, n)
    BY <1>3
  <2> DEFINE r == [thread[t] EXCEPT !.at = Statement(thread[t].op), !.turns = @ \ {n}, !.of = n,
                     !.known = Known(n), !.blind = @ \/ ~Known(n), !.groups = Grouped(thread[t], n)]
  <2>2. thread' = [thread EXCEPT ![t] = r]
    BY <2>1, ZenonT(60) DEF Turn
  <2>3. Statement(thread[t].op) \in Holding /\ thread[t].at \in Holding
    BY <2>1 DEF Statement, Holding, Turn
  <2>4. HoldsRight(r)
    BY <2>3 DEF HeldInv, HoldsRight, Before, Holding
  <2>5. QED
    BY <2>2, <2>4, OneThread DEF HeldInv
<1>4. QED
  BY <1>1, <1>2, <1>3

LEMMA InsertHeld ==
  ASSUME HeldInv, NEW t \in Threads, NEW g \in thread[t].groups,
         Insert(t, g) \/ InsertThenFail(t, g)
  PROVE  HeldInv'
<1> DEFINE r == thread[t]
<1>1. r.at = "insert"
  BY DEF Insert, InsertThenFail
<1>2. CASE \E a : Answer(t, a)
  BY <1>2, AnswerKeeps
<1>3. CASE thread' = [Raced(thread, r.of) EXCEPT ![t] = [Idle EXCEPT !.answer = "error"]]
  BY <1>3, IdleHoldsRight, RacedKeeps, OneThread
<1>4. CASE thread' = [Raced(thread, r.of) EXCEPT ![t] = Inserted(r, g)]
  <2>1. {"at", "held"} \subseteq DOMAIN r /\ r.at \in Holding
    BY <1>1 DEF HeldInv, HoldsRight, Holding
  <2>2. /\ {"at", "held"} \subseteq DOMAIN Inserted(r, g)
        /\ Inserted(r, g).at \in {"keys", "insert"} /\ Inserted(r, g).held = r.held
    BY <2>1 DEF Inserted
  <2>3. HoldsRight(Inserted(r, g))
    BY <2>1, <2>2, GoesOn DEF Holding
  <2>4. QED
    BY <1>4, <2>3, RacedKeeps, OneThread
<1>5. QED
  BY <1>2, <1>3, <1>4 DEF Insert, InsertThenFail

LEMMA KeysHeld ==
  ASSUME HeldInv, NEW t \in Threads, QueryKeys(t) PROVE HeldInv'
<1>1. CASE Answer(t, "error")
  BY <1>1, AnswerKeeps
<1>2. CASE ~Answer(t, "error")
  <2>1. PICK o : thread' = [thread EXCEPT ![t] = [thread[t] EXCEPT !.at = "insert", !.objects = o]]
    BY <1>2 DEF QueryKeys
  <2>2. thread[t].at \in Holding /\ "insert" \in Holding
    BY DEF QueryKeys, Holding
  <2>3. HoldsRight([thread[t] EXCEPT !.at = "insert", !.objects = o])
    BY <2>2 DEF HeldInv, HoldsRight, Before, Holding
  <2>4. QED
    BY <2>1, <2>3, OneThread DEF HeldInv
<1>3. QED
  BY <1>1, <1>2

LEMMA UpdateHeld ==
  ASSUME HeldInv, NEW t \in Threads, NEW g \in thread[t].groups, UpdateRows(t, g) PROVE HeldInv'
<1>1. CASE \E a : Answer(t, a)
  BY <1>1, AnswerKeeps
<1>2. CASE ~\E a : Answer(t, a)
  <2>1. PICK k : thread' = [thread EXCEPT ![t] =
           [thread[t] EXCEPT !.at = "reload", !.groups = @ \ {g}, !.changed = TRUE, !.kept = k]]
    BY <1>2 DEF UpdateRows
  <2>2. thread[t].at \in Holding /\ "reload" \in Holding
    BY DEF UpdateRows, Holding
  <2>3. HoldsRight([thread[t] EXCEPT !.at = "reload", !.groups = @ \ {g}, !.changed = TRUE, !.kept = k])
    BY <2>2 DEF HeldInv, HoldsRight, Before, Holding
  <2>4. QED
    BY <2>1, <2>3, OneThread DEF HeldInv
<1>3. QED
  BY <1>1, <1>2

LEMMA LoadHeld ==
  ASSUME HeldInv, NEW t \in Threads, Reload(t) \/ Look(t) PROVE HeldInv'
<1>1. CASE Answer(t, "error")
  BY <1>1, AnswerKeeps
<1>2. CASE ~Answer(t, "error")
  <2>1. PICK to \in {"update", "delete"} :
          thread' = [thread EXCEPT ![t] = [thread[t] EXCEPT !.at = to, !.held = thread[t].held]]
    BY <1>2 DEF Reload, Look, LoadRows, HeldAfter
  <2>2. thread[t].at \in Holding /\ to \in Holding
    BY DEF Reload, Look, LoadRows, Holding
  <2>3. HoldsRight([thread[t] EXCEPT !.at = to, !.held = thread[t].held])
    BY <2>2 DEF HeldInv, HoldsRight, Before, Holding
  <2>4. QED
    BY <2>1, <2>3, OneThread DEF HeldInv
<1>3. QED
  BY <1>1, <1>2

LEMMA DeleteHeld ==
  ASSUME HeldInv, NEW t \in Threads, DeleteRows(t) PROVE HeldInv'
<1>1. CASE Answer(t, "error")
  BY <1>1, AnswerKeeps
<1>2. CASE ~Answer(t, "error")
  <2>1. thread' = [thread EXCEPT ![t] = [thread[t] EXCEPT !.at = "turn", !.changed = TRUE]]
    BY <1>2 DEF DeleteRows
  <2>2. thread[t].at \in Holding /\ "turn" \in Holding
    BY DEF DeleteRows, Holding
  <2>3. HoldsRight([thread[t] EXCEPT !.at = "turn", !.changed = TRUE])
    BY <2>2 DEF HeldInv, HoldsRight, Before, Holding
  <2>4. QED
    BY <2>1, <2>3, OneThread DEF HeldInv
<1>3. QED
  BY <1>1, <1>2

LEMMA OthersHeld ==
  ASSUME HeldInv, UpdateStep \/ Connect \/ RestartAll \/ UNCHANGED vars PROVE HeldInv'
<1>1. CASE UpdateStep
  <2>1. /\ DOMAIN thread' = Threads
        /\ \A t \in Threads : thread'[t] = thread[t] \/ thread'[t] = [thread[t] EXCEPT !.raced = TRUE]
    BY <1>1 DEF UpdateStep
  <2>2. ASSUME NEW t \in Threads PROVE HoldsRight(thread'[t])
    BY <2>1, RacedHoldsRight DEF HeldInv
  <2>3. QED
    BY <2>1, <2>2 DEF HeldInv, HoldsRight
<1>2. CASE RestartAll
  BY <1>2 DEF RestartAll, HeldInv, HoldsRight, Idle, Before
<1>3. CASE Connect \/ UNCHANGED vars
  BY <1>3 DEF Connect, vars, requestVars, HeldInv, HoldsRight
<1>4. QED
  BY <1>1, <1>2, <1>3

LEMMA StepHeld ==
  ASSUME HeldInv, [RequestsNext]_vars PROVE HeldInv'
<1>1. CASE UpdateStep \/ Connect \/ RestartAll \/ UNCHANGED vars
  BY <1>1, OthersHeld
<1>2. CASE \E t \in Threads : ThreadStep(t)
  BY <1>2, MakeHeld, CheckHeld, TakeHeld, TurnHeld, InsertHeld, KeysHeld, UpdateHeld, LoadHeld, DeleteHeld
     DEF ThreadStep
<1>3. CASE \E t \in Threads : \E q \in Requests : Receive(t, q)
  BY <1>3, ReceiveHeld
<1>4. QED
  BY <1>1, <1>2, <1>3 DEF RequestsNext

(* The update holds one connection, if any, and requests leave it that. *)
OwnInv == own = {} \/ \E c \in Connections : own = {c}

LEMMA OwnStays ==
  ASSUME NEW t \in Threads, ThreadStep(t) \/ \E q \in Requests : Receive(t, q) PROVE own' = own
<1>1. CASE Make(t) \/ Check(t) \/ Take(t) \/ TurnDone(t) \/ AllDone(t) \/ (\E n \in Names : Turn(t, n))
  BY <1>1 DEF Make, Check, Take, TurnDone, AllDone, Turn
<1>2. CASE \E g \in thread[t].groups : Insert(t, g) \/ InsertThenFail(t, g) \/ UpdateRows(t, g)
  BY <1>2 DEF Insert, InsertThenFail, UpdateRows
<1>3. CASE QueryKeys(t) \/ Reload(t) \/ Look(t) \/ DeleteRows(t)
  BY <1>3 DEF QueryKeys, Reload, Look, LoadRows, DeleteRows
<1>4. CASE \E q \in Requests : Receive(t, q)
  BY <1>4 DEF Receive
<1>5. QED
  BY <1>1, <1>2, <1>3, <1>4 DEF ThreadStep

LEMMA StepOwn ==
  ASSUME OwnInv, [RequestsNext]_vars PROVE OwnInv'
<1> USE DEF OwnInv
<1>1. CASE Connect
  BY <1>1 DEF Connect, Free
<1>2. CASE UpdateStep \/ RestartAll
  BY <1>2 DEF UpdateStep, RestartAll
<1>3. CASE \E t \in Threads : ThreadStep(t) \/ \E q \in Requests : Receive(t, q)
  BY <1>3, OwnStays
<1>4. CASE UNCHANGED vars
  BY <1>4 DEF vars, requestVars
<1>5. QED
  BY <1>1, <1>2, <1>3, <1>4 DEF RequestsNext

(* The calls at work hold a connection each: while they are fewer than there
   are connections, one is left. *)
LEMMA OneIsLeft ==
  ASSUME HeldInv, OwnInv, AtWork < Cardinality(Connections) PROVE Free # {}
<1>1. SUFFICES ASSUME Free = {} PROVE FALSE
  OBVIOUS
<1> DEFINE Working == {t \in Threads : thread[t].at # "idle"}
           Rest    == Connections \ own
<1>2. \A t \in Threads : thread[t].held = {} \/ (t \in Working /\ \E b \in Connections : thread[t].held = {b})
  BY DEF HeldInv, HoldsRight, Before, Holding
<1>3. \A c \in Rest : \E t \in Working : c \in thread[t].held
  BY <1>1, <1>2 DEF Free
<1> DEFINE holder == [c \in Rest |-> CHOOSE t \in Working : c \in thread[t].held]
<1>4. holder \in [Rest -> Working] /\ \A c \in Rest : c \in thread[holder[c]].held
  <2> HIDE DEF Rest, Working
  <2>1. QED
    BY <1>3
<1>5. IsFiniteSet(Rest) /\ IsFiniteSet(Working) /\ Cardinality(Working) < Cardinality(Rest)
  <2>1. IsFiniteSet(Connections) /\ IsFiniteSet(Threads)
    BY RequestsAssumption
  <2>2. IsFiniteSet(Rest) /\ IsFiniteSet(Working)
    BY <2>1, FS_Subset
  <2>3. /\ Cardinality(Connections) \in Nat /\ Cardinality(Working) \in Nat
        /\ Cardinality(Rest) \in Nat
    BY <2>1, <2>2, FS_CardinalityType
  <2>4. CASE own = {}
    <3>1. Cardinality(own) = 0
      BY <2>4, FS_EmptySet
    <3>2. Rest = Connections
      BY <2>4
    <3>3. Cardinality(Working) + Cardinality(own) < Cardinality(Connections)
      BY DEF AtWork
    <3> HIDE DEF Rest, Working
    <3>4. QED
      BY <2>2, <2>3, <3>1, <3>2, <3>3
  <2>5. CASE own # {}
    <3>1. PICK c \in Connections : own = {c}
      BY <2>5 DEF OwnInv
    <3>2. Cardinality(own) = 1
      BY <3>1, FS_Singleton
    <3>3. Cardinality(Connections \ {c}) = Cardinality(Connections) - 1
      BY <2>1, FS_RemoveElement
    <3>4. Rest = Connections \ {c}
      BY <3>1
    <3>5. Cardinality(Working) + Cardinality(own) < Cardinality(Connections)
      BY DEF AtWork
    <3> HIDE DEF Rest, Working
    <3>6. QED
      BY <2>2, <2>3, <3>2, <3>3, <3>4, <3>5
  <2>6. QED
    BY <2>4, <2>5
<1>6. PICK c, d \in Rest : c # d /\ holder[c] = holder[d]
  <2> HIDE DEF holder, Rest, Working
  <2>1. QED
    BY <1>4, <1>5, FS_PigeonHole
<1>7. c \in thread[holder[c]].held /\ d \in thread[holder[c]].held /\ holder[c] \in Working
  <2> HIDE DEF holder
  <2>1. QED
    BY <1>4, <1>6
<1>8. QED
  <2> HIDE DEF holder
  <2>1. QED
    BY <1>2, <1>6, <1>7

(* ConnectionLeft: for pools of any size, as long as the requests that are not
   answered and the update at a table are fewer than the connections, one of
   these is free: no call holds two while it is not executing a statement, and
   none keeps one after its answer. *)
THEOREM ConnectionIsLeft == RequestsSpec => []ConnectionLeft
<1>1. RequestsInit => HeldInv /\ OwnInv
  BY DEF RequestsInit, HeldInv, HoldsRight, Idle, Before, OwnInv
<1>2. HeldInv /\ OwnInv /\ [RequestsNext]_vars => HeldInv' /\ OwnInv'
  BY StepHeld, StepOwn
<1>3. HeldInv /\ OwnInv => ConnectionLeft
  BY OneIsLeft DEF ConnectionLeft
<1>4. QED
  BY <1>1, <1>2, <1>3, PTL DEF RequestsSpec
===============================================================================
