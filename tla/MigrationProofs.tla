--------------------------- MODULE MigrationProofs ---------------------------
(***************************************************************************)
(* Proofs about Migration for any number of tables, columns and enum       *)
(* types, any schemes, and any number of failures, crashes and calls.      *)
(*                                                                         *)
(* First the types; then that MigrationInv is inductive, whatever          *)
(* statements fail and wherever the process dies, if no two tables share   *)
(* an enum type; and what follows from it: the recorded versions are true, *)
(* a call that returns 0 left every table as its scheme says, and no rows  *)
(* are lost.                                                               *)
(*                                                                         *)
(* One lemma per action says that the action keeps MigrationInv, one step  *)
(* per conjunct; RowsKept says the same of RowsSurvive.                    *)
(*                                                                         *)
(* Last that Migration implements TableUpdates.  There the actions are of  *)
(* four kinds: those that leave tables, versions and doubts alone (Quiet), *)
(* and those that change one of them (Changes, Records, Doubts).  The      *)
(* lemmas on the kinds say which step of TableUpdates each of them is;     *)
(* those on the actions only say which kind an action is.                  *)
(***************************************************************************)
EXTENDS MigrationRefinement, TLAPS

-----------------------------------------------------------------------------
(* What the schemes are. *)

LEMMA SchemeType ==
  ASSUME NEW t \in Tables, NEW v \in 1..Latest[t]
  PROVE  /\ Structure[t][v] \in Columnset
         /\ New(t, v) \in TableState /\ Old(t, v) \in TableState
         /\ New(t, v).columns = Structure[t][v] /\ Old(t, v).columns = Structure[t][v]
<1>1. Structure[t][v] \in Columnset
  BY MigrationAssumption
<1>2. QED
  BY <1>1 DEF New, Old, TableState

LEMMA VersionType ==
  ASSUME NEW t \in Tables
  PROVE  /\ Latest[t] \in Nat /\ Latest[t] > 0
         /\ 1 \in 1..Latest[t] /\ Latest[t] \in 1..Latest[t]
         /\ Frozen[t] \in Nat /\ Frozen[t] <= Latest[t]
<1>1. Latest[t] \in Nat \ {0} /\ Frozen[t] \in Nat /\ Frozen[t] <= Latest[t]
  BY MigrationAssumption
<1>2. QED
  BY <1>1

LEMMA ConstantsType ==
  /\ Versions \in Tables /\ Defaults \subseteq Tables
  /\ \A t \in Tables : Frozen[t] \in Nat /\ 0 <= Latest[t]
  /\ EnumColumn \in Columns /\ \A t \in Tables : EnumOf[t] \in Enums \cup {NoEnum}
  /\ MaxFaults \in Nat /\ MaxResets \in Nat
BY MigrationAssumption

LEMMA NewExists ==
  ASSUME NEW s \in TableState PROVE s # NoTable
BY MigrationAssumption

(* The version wanted of a table that is worked on has a scheme. *)
LEMMA WantedType ==
  ASSUME NEW t \in Tables, phase = "frozen" => Frozen[t] > 0
  PROVE  Wanted(t) \in 1..Latest[t]
BY MigrationAssumption DEF Wanted

(* A table is a state unless it does not exist. *)
LEMMA TableIsState ==
  ASSUME TypeOK, NEW t \in Tables, Exists(t)
  PROVE  tables[t] \in TableState /\ tables[t].columns \in Columnset
BY DEF TypeOK, Exists, TableState

-----------------------------------------------------------------------------
(* The types, which need to know that a frozen scheme exists when it is used. *)
FrozenInv ==
  /\ phase = "frozen" => \A t \in todo : Frozen[t] > 0
  /\ phase = "frozen" /\ pc \in Working => Frozen[tab] > 0
  /\ phase = "custom" => pc \in {"idle", "custom", "query", "record"} \cup Creating
  /\ phase = "custom" /\ pc # "idle" => found = Missing
  /\ pc \in {"drop type", "create type"} => EnumOf[tab] # NoEnum
  /\ pc = "keys" => Exists(tab)

TypeInv == TypeOK /\ FrozenInv

LEMMA InitTypes == Init => TypeInv
<1> SUFFICES ASSUME Init PROVE TypeInv
  OBVIOUS
<1>1. /\ tables \in [Tables -> TableState \cup {NoTable}]
      /\ versions \in [Tables -> Nat] /\ \A t \in Tables : versions[t] <= Latest[t]
  <2>1. ASSUME NEW S \in SUBSET (Tables \ {Versions}),
               tables = [t \in Tables |-> IF t \in S THEN Old(t, 1) ELSE NoTable],
               versions = [t \in Tables |-> 0]
        PROVE  <1>1
    BY <2>1, SchemeType, VersionType
  <2>2. ASSUME NEW v \in [Tables -> 0..2], \A t \in Tables : v[t] <= Latest[t],
               tables = [t \in Tables |-> IF v[t] = 0 THEN NoTable ELSE Old(t, v[t])],
               versions = v
        PROVE  <1>1
    <3>1. \A t \in Tables : v[t] \in Nat /\ v[t] <= Latest[t] /\ (v[t] # 0 => v[t] \in 1..Latest[t])
      <4> SUFFICES ASSUME NEW t \in Tables
                   PROVE  v[t] \in Nat /\ v[t] <= Latest[t] /\ (v[t] # 0 => v[t] \in 1..Latest[t])
        OBVIOUS
      <4>1. v[t] \in 0..2 /\ v[t] <= Latest[t] /\ Latest[t] \in Nat
        BY <2>2, VersionType
      <4>2. QED
        BY <4>1
    <3>2. QED
      BY <2>2, <3>1, SchemeType
  <2>3. QED
    BY <2>1, <2>2 DEF Init
<1>2. migrated \in BOOLEAN /\ applied \subseteq Queries /\ types \subseteq Enums
  BY MigrationAssumption DEF Init
<1>3. QED
  BY <1>1, <1>2, MigrationAssumption
     DEF Init, TypeInv, TypeOK, FrozenInv, NoVersion, Missing

(* A statement that fails by accident, or a crash, keeps to the bound. *)
LEMMA AccidentType ==
  ASSUME TypeOK, faults' = faults \/ (faults < MaxFaults /\ faults' = faults + 1)
  PROVE  faults' \in 0..MaxFaults
<1>1. faults \in 0..MaxFaults /\ MaxFaults \in Nat
  BY ConstantsType DEF TypeOK
<1>2. QED
  BY <1>1

(* The accidents stay within their bound. *)
LEMMA FaultsType == TypeOK /\ [Next]_vars => faults' \in 0..MaxFaults
<1> SUFFICES ASSUME TypeOK, [Next]_vars PROVE faults' \in 0..MaxFaults
  OBVIOUS
<1> USE AccidentType DEF Executed, NotExecuted, rest
<1>1. CASE Update \/ Reset \/ Crash \/ (\E t \in Tables : Use(t)) \/ UNCHANGED vars
  BY <1>1 DEF Update, Reset, Crash, Use, vars
<1>2. CASE DropLook \/ DropType \/ DropTable
  BY <1>2 DEF DropLook, DropType, DropTable
<1>3. CASE CreateType \/ Create \/ CreateKeys \/ Record
  BY <1>3 DEF CreateType, Create, CreateKeys, Record
<1>4. CASE (\E t \in Tables : NextScheme(t)) \/ LastScheme
  BY <1>4 DEF NextScheme, LastScheme
<1>5. CASE Look \/ LookTable \/ Load
  BY <1>5 DEF Look, LookTable, Load
<1>6. CASE \E c \in Columns : Alter(c)
  BY <1>6 DEF Alter
<1>7. CASE (\E t \in Tables : Fill(t)) \/ Finish
  BY <1>7 DEF Fill, Finish
<1>8. CASE CustomSelect \/ (\E q \in Queries : CustomQuery(q)) \/ CustomPins \/ CustomDbver
  BY <1>8 DEF CustomSelect, CustomQuery, CustomPins, CustomDbver
<1>9. QED
  BY <1>1, <1>2, <1>3, <1>4, <1>5, <1>6, <1>7, <1>8 DEF Next, Step, InitTable, Structures, Custom

(* Giving a column of a table another definition leaves a table. *)
LEMMA ColumnType ==
  ASSUME TypeOK, NEW t \in Tables, Exists(t), NEW c \in Columns, NEW d \in Definitions \cup {Absent}
  PROVE  Redefined(t, c, d) \in TableState
<1>1. tables[t].columns \in Columnset /\ tables[t] \in TableState
  BY TableIsState
<1>2. [tables[t].columns EXCEPT ![c] = d] \in Columnset
  BY <1>1 DEF Columnset
<1>3. QED
  BY <1>1, <1>2 DEF Redefined, TableState

(* A column that has been altered fits, and altering it again changes nothing. *)
LEMMA AlteredFits ==
  ASSUME NEW d \in Definitions \cup {Absent}, NEW e \in Definitions \cup {Absent}
  PROVE  After(d, e) \in Definitions \cup {Absent} /\ Fits(After(d, e), e)
<1>1. CASE e = Absent
  BY <1>1 DEF After, Fits
<1>2. CASE e \in Definitions
  <2>1. e # Absent /\ Altered(d, e) \in Definitions /\ After(d, e) = Altered(d, e)
    BY <1>2, MigrationAssumption DEF After
  <2>2. CASE d = Absent
    BY <2>1, <2>2 DEF Fits
  <2>3. CASE d \in Definitions
    <3>1. Altered(Altered(d, e), e) = Altered(d, e)
      BY <1>2, <2>3, MigrationAssumption
    <3>2. After(After(d, e), e) = After(d, e)
      BY <2>1, <3>1 DEF After
    <3>3. QED
      BY <2>1, <3>2 DEF Fits
  <2>4. QED
    BY <2>2, <2>3
<1>3. QED
  BY <1>1, <1>2

(* A column that does not fit is one the updater sees a difference of. *)
LEMMA MisfitsDiffer == ASSUME NEW t PROVE Misfits(t) \subseteq Differing(t)
BY DEF Misfits, Differing, Fits

(* A table that was altered in one column has that column as After says, and the
   others as they were. *)
LEMMA AlteredColumn ==
  ASSUME TypeOK, NEW t \in Tables, Exists(t), NEW c \in Columns,
         NEW d \in Definitions \cup {Absent}
  PROVE  /\ Redefined(t, c, d).columns[c] = d
         /\ \A b \in Columns \ {c} : Redefined(t, c, d).columns[b] = tables[t].columns[b]
<1>1. tables[t] \in TableState /\ tables[t].columns \in Columnset
  BY TableIsState
<1>2. Redefined(t, c, d).columns = [tables[t].columns EXCEPT ![c] = d]
  BY <1>1 DEF Redefined, TableState
<1>3. QED
  BY <1>1, <1>2 DEF Columnset

(* What Alter makes of a column. *)
LEMMA ActualType ==
  ASSUME TypeOK, NEW t \in Tables, Wanted(t) \in 1..Latest[t], NEW c \in Columns
  PROVE  /\ Actual(t)[c] \in Definitions \cup {Absent}
         /\ Structure[t][Wanted(t)][c] \in Definitions \cup {Absent}
         /\ After(Actual(t)[c], Structure[t][Wanted(t)][c]) \in Definitions \cup {Absent}
<1>1. Structure[t][Wanted(t)][c] \in Definitions \cup {Absent}
  BY SchemeType DEF Columnset
<1>2. Actual(t)[c] \in Definitions \cup {Absent}
  BY TableIsState DEF Actual, Columnset
<1>3. QED
  BY <1>1, <1>2, AlteredFits

LEMMA StepTypes == TypeInv /\ [Next]_vars => TypeInv'
<1> SUFFICES ASSUME TypeInv, [Next]_vars PROVE TypeInv'
  OBVIOUS
<1>0. faults' \in 0..MaxFaults
  BY FaultsType DEF TypeInv
<1> USE DEF TypeInv, TypeOK, FrozenInv, Working, Creating, Updating, db, job, rest,
            Goto, Return, Executed, NotExecuted, NoVersion, Missing
<1>1. CASE Update
  BY <1>1, ConstantsType DEF Update, StartAuto
<1>2. CASE Reset
  BY <1>2, ConstantsType DEF Reset
<1>3. CASE Crash
  BY <1>0, <1>3, ConstantsType DEF Crash
<1>4. ASSUME NEW t \in Tables, Use(t) PROVE TypeInv'
  <2>1. [tables[t] EXCEPT !.rows = TRUE] \in TableState
    BY <1>4, TableIsState DEF Use, TableState
  <2>2. tables' \in [Tables -> TableState \cup {NoTable}]
    BY <1>4, <2>1 DEF Use
  <2>3. QED
    BY <1>4, <2>2 DEF Use
<1>5. CASE DropLook
  BY <1>0, <1>5, ConstantsType DEF DropLook
<1>6. CASE DropType
  <2>1. ASSUME NEW t \in Tables, Exists(t)
        PROVE  Redefined(t, EnumColumn, Absent) \in TableState
    BY <2>1, ColumnType, ConstantsType
  <2>2. tables' \in [Tables -> TableState \cup {NoTable}]
    BY <1>6, <2>1 DEF DropType
  <2>3. QED
    BY <1>0, <1>6, <2>2 DEF DropType
<1>7. CASE DropTable
  <2>1. tables' \in [Tables -> TableState \cup {NoTable}]
    BY <1>7 DEF DropTable
  <2>2. versions' \in [Tables -> Nat] /\ \A t \in Tables : versions'[t] <= Latest[t]
    <3>1. CASE versions' = versions
      BY <3>1
    <3>2. CASE versions' = [t \in Tables |-> 0]
      <4>1. \A t \in Tables : 0 <= Latest[t]
        BY ConstantsType
      <4>2. QED
        BY <3>2, <4>1
    <3>3. QED
      BY <1>7, <3>1, <3>2 DEF DropTable
  <2>3. QED
    BY <1>0, <1>7, <2>1, <2>2 DEF DropTable
<1>8. CASE CreateType
  BY <1>0, <1>8, ConstantsType DEF CreateType, Exists, InitFails
<1>9. CASE Create
  <2>1. New(tab, Wanted(tab)) \in TableState
    BY <1>9, WantedType, SchemeType DEF Create
  <2>2. tables' \in [Tables -> TableState \cup {NoTable}]
    BY <1>9, <2>1 DEF Create
  <2>3. pc' = "keys" => Exists(tab)'
    BY <1>9, <2>1, NewExists DEF Create, InitFails, Exists
  <2>4. QED
    BY <1>0, <1>9, <2>2, <2>3 DEF Create, InitFails
<1>10. CASE CreateKeys
  <2>1. Exists(tab) => [tables[tab] EXCEPT !.keyed = TRUE] \in TableState
    BY TableIsState DEF TableState
  <2>2. QED
    BY <1>0, <1>10, <2>1 DEF CreateKeys, InitFails, Exists
<1>11. CASE Record
  <2>1. Written \in Nat /\ Written <= Latest[tab]
    BY <1>11, WantedType, VersionType DEF Record, Written
  <2>2. versions' \in [Tables -> Nat] /\ \A t \in Tables : versions'[t] <= Latest[t]
    BY <1>11, <2>1 DEF Record
  <2>3. /\ pc = "record" /\ pc' \in {"idle", "custom", "next"} /\ result' \in {result, "error"}
        /\ pc' = "next" => phase # "custom"
    BY <1>11 DEF Record, InitFails, InitSucceeds
  <2>4. added' \subseteq Tables /\ UNCHANGED <<tables, types, migrated, applied, phase, todo, tab, found, scripts, rest>>
    BY <1>11 DEF Record, InitFails, InitSucceeds
  <2>5. QED
    BY <1>0, <2>2, <2>3, <2>4
<1>12. ASSUME NEW t \in Tables, NextScheme(t) PROVE TypeInv'
  BY <1>12, ConstantsType DEF NextScheme
<1>13. CASE LastScheme
  BY <1>13, ConstantsType DEF LastScheme
<1>14. CASE Look
  BY <1>0, <1>14, VersionType DEF Look, Decide
<1>15. CASE LookTable
  BY <1>0, <1>15 DEF LookTable, Decide
<1>16. CASE Load
  BY <1>0, <1>16 DEF Load, Differing
<1>17. ASSUME NEW c \in Columns, Alter(c) PROVE TypeInv'
  <2>1. Wanted(tab) \in 1..Latest[tab]
    BY <1>17, WantedType DEF Alter
  <2>2. Exists(tab) => Redefined(tab, c, After(Actual(tab)[c], Structure[tab][Wanted(tab)][c]))
                         \in TableState
    BY <2>1, ActualType, ColumnType
  <2>3. tables' \in [Tables -> TableState \cup {NoTable}]
    BY <1>17, <2>2 DEF Alter
  <2>4. types' \subseteq Enums
    BY <1>17, ConstantsType DEF Alter
  <2>5. QED
    BY <1>0, <1>17, <2>3, <2>4 DEF Alter
<1>18. ASSUME NEW t \in Tables, Fill(t) PROVE TypeInv'
  <2>1. Exists(t) => [tables[t] EXCEPT !.filled = TRUE] \in TableState
    BY TableIsState DEF TableState
  <2>2. QED
    BY <1>0, <1>18, <2>1 DEF Fill
<1>19. CASE Finish
  BY <1>19 DEF Finish
<1>20. CASE CustomSelect
  BY <1>0, <1>20, ConstantsType DEF CustomSelect, CustomFails, StartAuto
<1>21. ASSUME NEW q \in Queries, CustomQuery(q) PROVE TypeInv'
  BY <1>0, <1>21, ConstantsType DEF CustomQuery, CustomFails, StartAuto
<1>22. CASE CustomPins
  BY <1>0, <1>22, ConstantsType DEF CustomPins, CustomFails, StartAuto
<1>23. CASE CustomDbver
  BY <1>0, <1>23, ConstantsType, MigrationAssumption DEF CustomDbver, StartAuto
<1>24. CASE UNCHANGED vars
  <2>1. UNCHANGED <<tables, types, versions, migrated, applied, phase, todo, tab, found>>
    BY <1>24 DEF vars
  <2>2. UNCHANGED <<scripts, added, resets, misread, pc, result, faults>>
    BY <1>24 DEF vars
  <2>3. QED
    <3>1. TypeOK'
      BY <2>1, <2>2
    <3>2. FrozenInv'
      BY <2>1, <2>2 DEF Exists
    <3>3. QED
      BY <3>1, <3>2
<1>25. QED
  BY <1>1, <1>2, <1>3, <1>4, <1>5, <1>6, <1>7, <1>8, <1>9, <1>10, <1>11, <1>12, <1>13,
     <1>14, <1>15, <1>16, <1>17, <1>18, <1>19, <1>20, <1>21, <1>22, <1>23, <1>24
     DEF Next, Step, InitTable, Structures, Custom

(* Every variable has its type, whatever fails. *)
THEOREM TypeCorrect == Spec => []TypeOK
<1>1. TypeInv => TypeOK
  BY DEF TypeInv
<1>2. QED
  BY InitTypes, StepTypes, <1>1, PTL DEF Spec

-----------------------------------------------------------------------------
(* The inductive invariant: the types and MigrationInv. *)
IInv == TypeInv /\ MigrationInv

-----------------------------------------------------------------------------
(* About the operators. *)

LEMMA LatestPositive == \A t \in Tables : Latest[t] # 0
BY MigrationAssumption

(* The two outcomes that are no version are told from every version. *)
LEMMA NoVersionApart ==
  NoVersion # Missing /\ \A n \in Nat : n # Missing /\ n > NoVersion
BY DEF NoVersion, Missing

(* Replacing a table by one with the same columns changes no structure. *)
LEMMA SameColumns ==
  ASSUME TypeOK, NEW t \in Tables, Exists(t), NEW s \in TableState,
         s.columns = tables[t].columns, tables' = [tables EXCEPT ![t] = s]
  PROVE  \A u \in Tables : /\ tables'[u] # NoTable <=> tables[u] # NoTable
                           /\ tables'[u].columns = tables[u].columns
<1>1. s # NoTable /\ tables[t] # NoTable
  BY NewExists DEF Exists
<1>2. tables'[t] = s /\ \A u \in Tables \ {t} : tables'[u] = tables[u]
  BY DEF TypeOK
<1>3. QED
  BY <1>1, <1>2

(* A version that is wanted is not above the scheme's in entities/, and is that
   except in the frozen schemes. *)
LEMMA WantedBound ==
  ASSUME NEW t \in Tables
  PROVE  /\ Wanted(t) \in Nat /\ Latest[t] \in Nat /\ Wanted(t) <= Latest[t]
         /\ phase # "frozen" => Wanted(t) = Latest[t]
BY VersionType DEF Wanted

(* What is wanted is above the recorded version only if that is not the latest. *)
LEMMA WantedOrder ==
  ASSUME TypeOK, NEW t \in Tables
  PROVE  /\ Wanted(t) > versions[t] => versions[t] # Latest[t]
         /\ phase # "frozen" /\ ~(Wanted(t) > versions[t]) => versions[t] = Latest[t]
<1>1. /\ Wanted(t) \in Nat /\ Latest[t] \in Nat /\ Wanted(t) <= Latest[t]
      /\ phase # "frozen" => Wanted(t) = Latest[t]
  BY WantedBound
<1>2. versions[t] \in Nat /\ versions[t] <= Latest[t]
  BY DEF TypeOK
<1>3. QED
  BY <1>1, <1>2

(* A table without differences has the structure that is wanted. *)
LEMMA NoDifference ==
  ASSUME TypeOK, NEW t \in Tables, Wanted(t) \in 1..Latest[t], Differing(t) = {}
  PROVE  HasStructure(t, Wanted(t))
<1>1. Structure[t][Wanted(t)] \in Columnset
  BY SchemeType
<1>2. \A c \in Columns : After(Actual(t)[c], Structure[t][Wanted(t)][c]) = Actual(t)[c]
  BY DEF Differing
<1>3. Exists(t)
  <2>1. PICK c \in Columns : Structure[t][Wanted(t)][c] # Absent
    BY MigrationAssumption
  <2>2. Structure[t][Wanted(t)][c] \in Definitions
    BY <1>1, <2>1 DEF Columnset
  <2>3. Absent \in Definitions \cup {Absent}
    OBVIOUS
  <2>4. Actual(t)[c] # Absent
    BY <1>2, <2>1, <2>2, <2>3, MigrationAssumption DEF After
  <2>5. QED
    BY <2>4 DEF Actual
<1>4. \A c \in Columns : Fits(Actual(t)[c], Structure[t][Wanted(t)][c])
  BY <1>2 DEF Fits
<1>5. QED
  BY <1>3, <1>4 DEF HasStructure, Actual

-----------------------------------------------------------------------------
(* The calls, the crash and the users. *)

LEMMA UpdateKeeps ==
  ASSUME IInv, Update PROVE MigrationInv'
<1> USE ConstantsType
    DEF IInv, MigrationInv, TypeInv, TypeOK, Update, StartAuto, Goto,
        db, job, rest, HasStructure, Exists
<1>1. VersionIsTrue'
  BY DEF VersionIsTrue
<1>2. OkMeansCurrent' /\ OkMeansFilled'
  BY DEF OkMeansCurrent, OkMeansFilled
<1>3. PhaseInv'
  BY DEF PhaseInv, Creating, Updating, Working
<1>4. WorkInv'
  BY LatestPositive DEF WorkInv, Creating
<1>5. DoneInv'
  BY DEF DoneInv, Creating, Updating, Working
<1>6. QED
  BY <1>1, <1>2, <1>3, <1>4, <1>5

LEMMA ResetKeeps ==
  ASSUME IInv, Reset PROVE MigrationInv'
<1> USE ConstantsType
    DEF IInv, MigrationInv, TypeInv, TypeOK, Reset, Goto,
        db, job, rest, HasStructure, Exists
<1>1. VersionIsTrue'
  BY DEF VersionIsTrue
<1>2. OkMeansCurrent' /\ OkMeansFilled'
  BY DEF OkMeansCurrent, OkMeansFilled
<1>3. PhaseInv'
  BY DEF PhaseInv, Creating, Updating, Working
<1>4. WorkInv'
  BY LatestPositive DEF WorkInv, Creating
<1>5. DoneInv'
  BY DEF DoneInv, Creating, Updating, Working
<1>6. QED
  BY <1>1, <1>2, <1>3, <1>4, <1>5

LEMMA CrashKeeps ==
  ASSUME IInv, Crash PROVE MigrationInv'
<1> USE ConstantsType
    DEF IInv, MigrationInv, TypeInv, TypeOK, Crash,
        db, job, rest, HasStructure, Exists
<1>1. VersionIsTrue'
  BY DEF VersionIsTrue
<1>2. OkMeansCurrent' /\ OkMeansFilled'
  BY DEF OkMeansCurrent, OkMeansFilled
<1>3. PhaseInv'
  BY DEF PhaseInv, Creating, Updating, Working
<1>4. WorkInv'
  BY LatestPositive DEF WorkInv, Creating
<1>5. DoneInv'
  BY DEF DoneInv, Creating, Updating, Working
<1>6. QED
  BY <1>1, <1>2, <1>3, <1>4, <1>5

LEMMA UseKeeps ==
  ASSUME IInv, NEW t \in Tables, Use(t) PROVE MigrationInv'
<1> USE DEF IInv, MigrationInv, TypeInv, TypeOK, job, rest, HasStructure, Exists
<1>1. [tables[t] EXCEPT !.rows = TRUE] \in TableState
  BY TableIsState DEF Use, TableState
<1>2. /\ [tables[t] EXCEPT !.rows = TRUE].columns = tables[t].columns
      /\ [tables[t] EXCEPT !.rows = TRUE].filled = tables[t].filled
  BY TableIsState DEF Use, TableState
<1>3. \A u \in Tables : /\ tables'[u] # NoTable <=> tables[u] # NoTable
                        /\ tables'[u].columns = tables[u].columns
  BY <1>1, <1>2, SameColumns DEF Use
<1>4. \A u \in Tables : tables'[u].filled = tables[u].filled
  BY <1>2 DEF Use
<1>5. UNCHANGED <<versions, misread, pc, phase, todo, tab, found, scripts, added, result>> /\ pc = "idle"
  BY DEF Use
<1>6. VersionIsTrue' /\ OkMeansCurrent'
  BY <1>3, <1>5 DEF VersionIsTrue, OkMeansCurrent
<1>7. OkMeansFilled'
  BY <1>3, <1>4, <1>5 DEF OkMeansFilled
<1>8. PhaseInv'
  BY <1>5 DEF PhaseInv, Creating, Updating, Working
<1>9. WorkInv' /\ DoneInv'
  BY <1>3, <1>5, ConstantsType DEF WorkInv, DoneInv, Creating, Updating, Working
<1>10. QED
  BY <1>6, <1>7, <1>8, <1>9

-----------------------------------------------------------------------------
(* initTable. *)

LEMMA DropLookKeeps ==
  ASSUME IInv, DropLook PROVE MigrationInv'
<1> USE ConstantsType
    DEF IInv, MigrationInv, TypeInv, TypeOK, DropLook, Goto, Executed, NotExecuted,
        db, job, rest, HasStructure, Exists
<1>1. VersionIsTrue'
  BY DEF VersionIsTrue
<1>2. OkMeansCurrent' /\ OkMeansFilled'
  BY DEF OkMeansCurrent, OkMeansFilled
<1>3. PhaseInv'
  BY DEF PhaseInv, Creating, Updating, Working
<1>4. WorkInv'
  BY LatestPositive DEF WorkInv, Creating
<1>5. DoneInv'
  BY DEF DoneInv, Creating, Updating, Working
<1>6. QED
  BY <1>1, <1>2, <1>3, <1>4, <1>5

LEMMA DropTypeKeeps ==
  ASSUME IInv, NoSharedTypes, DropType PROVE MigrationInv'
<1> USE ConstantsType
    DEF IInv, MigrationInv, TypeInv, TypeOK, FrozenInv, job, rest, Goto, HasStructure, Exists
<1>1. EnumOf[tab] # NoEnum /\ tab # Versions /\ pc = "drop type"
  BY MigrationAssumption DEF DropType
<1>2. \A u \in Tables \ {tab} : tables'[u] = tables[u]
  BY <1>1 DEF DropType, NoSharedTypes, Executed, NotExecuted
<1>3. tables'[tab] # NoTable <=> tables[tab] # NoTable
  <2>1. CASE UNCHANGED tables
    BY <2>1
  <2>2. CASE ~Exists(tab)
    BY <2>2 DEF DropType
  <2>3. CASE Exists(tab) /\ tables'[tab] = Redefined(tab, EnumColumn, Absent)
    BY <2>3, ColumnType, NewExists
  <2>4. QED
    BY <2>1, <2>2, <2>3 DEF DropType
<1>4. /\ UNCHANGED <<versions, misread, phase, todo, tab, found, scripts, added>>
      /\ pc' \in {"drop table", "create type"}
  BY DEF DropType
<1>5. VersionIsTrue'
  BY <1>1, <1>2, <1>4 DEF VersionIsTrue, WorkInv, Creating
<1>6. OkMeansCurrent' /\ OkMeansFilled'
  BY <1>4 DEF OkMeansCurrent, OkMeansFilled
<1>7. PhaseInv'
  BY <1>1, <1>4 DEF PhaseInv, Creating, Updating, Working
<1>8. WorkInv'
  BY <1>1, <1>2, <1>3, <1>4 DEF WorkInv, Creating
<1>9. DoneInv'
  BY <1>1, <1>2, <1>4 DEF DoneInv, Creating, Updating, Working
<1>10. QED
  BY <1>5, <1>6, <1>7, <1>8, <1>9

LEMMA DropTableKeeps ==
  ASSUME IInv, DropTable PROVE MigrationInv'
<1> USE ConstantsType
    DEF IInv, MigrationInv, TypeInv, TypeOK, DropTable, job, rest, Goto, HasStructure, Exists,
        Executed, NotExecuted
<1>1. VersionIsTrue' /\ WorkInv'
  <2>1. CASE UNCHANGED <<tables, versions>>
    BY <2>1 DEF VersionIsTrue, WorkInv, Creating
  <2>2. CASE tables' = [tables EXCEPT ![tab] = NoTable] /\ tab # Versions /\ UNCHANGED versions
    BY <2>2 DEF VersionIsTrue, WorkInv, Creating
  <2>3. CASE /\ tables' = [tables EXCEPT ![tab] = NoTable] /\ tab = Versions
             /\ versions' = [t \in Tables |-> 0]
    BY <2>3, LatestPositive DEF VersionIsTrue, WorkInv, Creating
  <2>4. QED
    BY <2>1, <2>2, <2>3
<1>2. OkMeansCurrent' /\ OkMeansFilled'
  BY DEF OkMeansCurrent, OkMeansFilled
<1>3. PhaseInv'
  BY DEF PhaseInv, Creating, Updating, Working
<1>4. DoneInv'
  BY ZenonT(60) DEF DoneInv, Creating, Updating, Working
<1>5. QED
  BY <1>1, <1>2, <1>3, <1>4

LEMMA CreateTypeKeeps ==
  ASSUME IInv, CreateType PROVE MigrationInv'
<1> USE ConstantsType
    DEF IInv, MigrationInv, TypeInv, TypeOK, CreateType, InitFails, Goto, Return, Executed, NotExecuted,
        db, job, rest, HasStructure, Exists
<1>1. VersionIsTrue'
  BY DEF VersionIsTrue
<1>2. OkMeansCurrent' /\ OkMeansFilled'
  BY DEF OkMeansCurrent, OkMeansFilled
<1>3. PhaseInv'
  BY DEF PhaseInv, Creating, Updating, Working
<1>4. WorkInv'
  BY LatestPositive DEF WorkInv, Creating
<1>5. DoneInv'
  BY DEF DoneInv, Creating, Updating, Working
<1>6. QED
  BY <1>1, <1>2, <1>3, <1>4, <1>5

LEMMA CreateKeeps ==
  ASSUME IInv, Create PROVE MigrationInv'
<1> USE ConstantsType
    DEF IInv, MigrationInv, TypeInv, TypeOK, FrozenInv, InitFails, job, rest, Goto, Return, HasStructure, Exists,
        Executed, NotExecuted
<1>1. CASE UNCHANGED tables
  <2>1. UNCHANGED <<versions, misread, phase, todo, tab, found, scripts, added>> /\ pc = "create"
    BY DEF Create
  <2>2. (pc' = "custom" /\ phase = "custom") \/ (pc' = "idle" /\ result' = "error")
    BY <1>1, NewExists, SchemeType, WantedType DEF Create, Working, Creating
  <2>3. VersionIsTrue' /\ OkMeansCurrent' /\ OkMeansFilled'
    BY <1>1, <2>1, <2>2 DEF VersionIsTrue, OkMeansCurrent, OkMeansFilled
  <2>4. PhaseInv'
    BY <2>1, <2>2 DEF PhaseInv, Creating, Updating, Working
  <2>5. WorkInv' /\ DoneInv'
    BY <1>1, <2>1, <2>2 DEF WorkInv, DoneInv, Creating, Updating, Working
  <2>6. QED
    BY <2>3, <2>4, <2>5
<1>2. CASE ~Exists(tab) /\ tables' = [tables EXCEPT ![tab] = New(tab, Wanted(tab))] /\ pc' = "keys"
  <2>1. UNCHANGED <<versions, misread, phase, todo, tab, found, scripts, added>> /\ pc = "create"
    BY <1>2 DEF Create
  <2>2. Wanted(tab) \in 1..Latest[tab]
    BY <2>1, WantedType DEF Working, Creating
  <2>3. New(tab, Wanted(tab)) # NoTable /\ New(tab, Wanted(tab)).columns = Structure[tab][Wanted(tab)]
    BY <2>2, SchemeType, NewExists
  <2>4. /\ tables'[tab] # NoTable /\ tables'[tab].columns = Structure[tab][Wanted(tab)]
        /\ \A u \in Tables \ {tab} : tables'[u] = tables[u]
    BY <1>2, <2>3
  <2>5. tab = Versions => \A u \in Tables : versions[u] = 0
    BY <1>2 DEF WorkInv
  <2>6. tab \in misread \/ versions[tab] # Latest[tab]
    BY <2>1, <2>5, LatestPositive DEF WorkInv, Creating
  <2>7. VersionIsTrue'
    BY <2>1, <2>4, <2>6 DEF VersionIsTrue
  <2>8. OkMeansCurrent' /\ OkMeansFilled'
    BY <1>2 DEF OkMeansCurrent, OkMeansFilled
  <2>9. PhaseInv'
    BY <1>2, <2>1, <2>5 DEF PhaseInv, Creating, Updating, Working
  <2>10. WorkInv'
    <3>1. (HasStructure(tab, Wanted(tab)))'
      BY <2>1, <2>4 DEF Fits, Wanted
    <3>2. QED
      BY <1>2, <2>1, <2>4, <2>5, <2>6, <3>1 DEF WorkInv, Creating, Wanted
  <2>11. DoneInv'
    BY <1>2, <2>1, <2>4 DEF DoneInv, Creating, Updating, Working
  <2>12. QED
    BY <2>7, <2>8, <2>9, <2>10, <2>11
<1>3. QED
  BY <1>1, <1>2 DEF Create

LEMMA CreateKeysKeeps ==
  ASSUME IInv, CreateKeys PROVE MigrationInv'
<1> USE ConstantsType
    DEF IInv, MigrationInv, TypeInv, TypeOK, FrozenInv, CreateKeys, InitFails, job, rest, Goto, Return,
        HasStructure, Exists, Executed, NotExecuted
<1>1. \A u \in Tables : /\ tables'[u] # NoTable <=> tables[u] # NoTable
                        /\ tables'[u].columns = tables[u].columns
  <2>1. CASE UNCHANGED tables
    BY <2>1
  <2>2. CASE tables' = [tables EXCEPT ![tab].keyed = TRUE]
    <3>1. /\ [tables[tab] EXCEPT !.keyed = TRUE] \in TableState
          /\ [tables[tab] EXCEPT !.keyed = TRUE].columns = tables[tab].columns
      BY TableIsState DEF TableState
    <3>2. QED
      BY <2>2, <3>1, SameColumns
  <2>3. QED
    BY <2>1, <2>2
<1>2. /\ UNCHANGED <<versions, misread, phase, todo, tab, found, scripts, added>>
      /\ pc = "keys" /\ pc' \in {"record", "custom", "idle"}
      /\ pc' = "idle" => result' = "error"
      /\ pc' = "custom" => phase = "custom"
  OBVIOUS
<1> HIDE DEF CreateKeys
<1>3. VersionIsTrue'
  BY <1>1, <1>2 DEF VersionIsTrue
<1>4. OkMeansCurrent' /\ OkMeansFilled'
  BY <1>2 DEF OkMeansCurrent, OkMeansFilled
<1>5. PhaseInv'
  BY <1>2 DEF PhaseInv, Creating, Updating, Working
<1>6. WorkInv'
  BY <1>1, <1>2 DEF WorkInv, Creating, Wanted
<1>7. DoneInv'
  BY <1>1, <1>2 DEF DoneInv, Creating, Updating, Working
<1>8. QED
  BY <1>3, <1>4, <1>5, <1>6, <1>7

LEMMA RecordKeeps ==
  ASSUME IInv, Record PROVE MigrationInv'
<1> USE ConstantsType
    DEF IInv, MigrationInv, TypeInv, TypeOK, FrozenInv, job, rest, HasStructure, Exists
<1>1. /\ UNCHANGED <<tables, misread, phase, todo, tab, found, scripts>> /\ pc = "record"
      /\ \/ /\ Exists(Versions) /\ versions' = [versions EXCEPT ![tab] = Wanted(tab)]
            /\ (pc' = "custom" /\ phase = "custom") \/ (pc' = "next" /\ phase # "custom")
         \/ /\ UNCHANGED versions
            /\ (pc' = "custom" /\ phase = "custom") \/ (pc' = "idle" /\ result' = "error")
  <2>1. UNCHANGED <<tables, misread, phase, todo, tab, found, scripts>> /\ pc = "record"
    BY DEF Record
  <2>2. phase = "custom" => found = Missing
    BY <2>1 DEF PhaseInv, Creating
  <2>3. CASE /\ Executed(CanRecord) /\ versions' = [versions EXCEPT ![tab] = Written]
             /\ IF found = Missing THEN InitSucceeds ELSE Goto("next") /\ UNCHANGED added
    <3>1. (pc' = "custom" /\ phase = "custom") \/ (pc' = "next" /\ phase # "custom")
      BY <2>2, <2>3 DEF InitSucceeds, Goto
    <3>2. QED
      BY <2>1, <2>3, <3>1 DEF CanRecord, Executed, Written
  <2>4. CASE /\ NotExecuted(CanRecord) /\ UNCHANGED versions
             /\ IF found = Missing THEN InitFails ELSE Return("error") /\ UNCHANGED added
    <3>1. (pc' = "custom" /\ phase = "custom") \/ (pc' = "idle" /\ result' = "error")
      BY <2>2, <2>4 DEF InitFails, Goto, Return
    <3>2. QED
      BY <2>1, <2>4, <3>1
  <2>5. QED
    BY <2>3, <2>4 DEF Record
<1>2. HasStructure(tab, Wanted(tab))
  BY <1>1 DEF WorkInv
<1>3. \A u \in Tables \ {tab} : versions'[u] = versions[u]
  BY <1>1
<1>4. VersionIsTrue'
  BY <1>1, <1>2, <1>3 DEF VersionIsTrue
<1>5. OkMeansCurrent' /\ OkMeansFilled'
  BY <1>1 DEF OkMeansCurrent, OkMeansFilled
<1>6. PhaseInv'
  BY <1>1, <1>3 DEF PhaseInv, Creating, Updating, Working
<1>7. WorkInv'
  BY <1>1 DEF WorkInv, Creating
<1>8. DoneInv'
  BY <1>1, <1>2, WantedBound DEF DoneInv, Creating, Updating, Working
<1>9. QED
  BY <1>4, <1>5, <1>6, <1>7, <1>8

-----------------------------------------------------------------------------
(* The loop over the schemes, and the defaults. *)

LEMMA NextSchemeKeeps ==
  ASSUME IInv, NEW t \in Tables, NextScheme(t) PROVE MigrationInv'
<1> USE ConstantsType
    DEF IInv, MigrationInv, TypeInv, TypeOK, NextScheme, db, rest, Goto, HasStructure, Exists
<1>1. VersionIsTrue'
  BY DEF VersionIsTrue, WorkInv, Creating
<1>2. OkMeansCurrent' /\ OkMeansFilled'
  BY DEF OkMeansCurrent, OkMeansFilled
<1>3. PhaseInv'
  BY DEF PhaseInv, Creating, Updating, Working
<1>4. WorkInv'
  BY LatestPositive DEF WorkInv, PhaseInv, Creating, Updating, Working
<1>5. DoneInv'
  BY DEF DoneInv, Creating, Updating, Working
<1>6. QED
  BY <1>1, <1>2, <1>3, <1>4, <1>5

LEMMA LastSchemeKeeps ==
  ASSUME IInv, LastScheme PROVE MigrationInv'
<1> USE ConstantsType
    DEF IInv, MigrationInv, TypeInv, TypeOK, LastScheme, Goto,
        db, job, rest, HasStructure, Exists
<1>1. VersionIsTrue'
  BY DEF VersionIsTrue
<1>2. OkMeansCurrent' /\ OkMeansFilled'
  BY DEF OkMeansCurrent, OkMeansFilled
<1>3. PhaseInv'
  BY DEF PhaseInv, Creating, Updating, Working
<1>4. WorkInv'
  BY LatestPositive DEF WorkInv, Creating
<1>5. DoneInv'
  BY DEF DoneInv, Creating, Updating, Working
<1>6. QED
  BY <1>1, <1>2, <1>3, <1>4, <1>5

LEMMA LookKeeps ==
  ASSUME IInv, Look PROVE MigrationInv'
<1> USE ConstantsType
    DEF IInv, MigrationInv, TypeInv, TypeOK, FrozenInv, db, rest, Goto, HasStructure, Exists
<1>1. /\ UNCHANGED <<tables, versions, misread, phase, todo, tab, scripts, added>> /\ pc = "look"
      /\ \/ pc' = "look table"
         \/ pc' = "load" /\ Wanted(tab) > versions[tab]
         \/ pc' = "next" /\ ~(Wanted(tab) > versions[tab])
  <2>1. versions[tab] \in Nat
    OBVIOUS
  <2>2. versions[tab] # Missing
    BY <2>1, NoVersionApart
  <2>3. CASE Decide(versions[tab])
    BY <2>2, <2>3 DEF Look, Decide
  <2>4. CASE NotExecuted(Exists(Versions) /\ versions[tab] # 0) /\ Goto("look table") /\ UNCHANGED found
    BY <2>4 DEF Look
  <2>5. QED
    BY <2>3, <2>4 DEF Look
<1>2. phase # "custom"
  BY <1>1 DEF PhaseInv, Creating
<1>3. /\ Wanted(tab) > versions[tab] => versions[tab] # Latest[tab]
      /\ phase # "frozen" /\ ~(Wanted(tab) > versions[tab]) => versions[tab] = Latest[tab]
  BY WantedOrder
<1>5. VersionIsTrue'
  BY <1>1 DEF VersionIsTrue
<1>6. OkMeansCurrent' /\ OkMeansFilled'
  BY <1>1 DEF OkMeansCurrent, OkMeansFilled
<1>7. PhaseInv'
  BY <1>1, <1>2 DEF PhaseInv, Creating, Updating, Working
<1>8. WorkInv'
  BY <1>1, <1>3 DEF WorkInv, Creating
<1>9. DoneInv'
  BY <1>1, <1>3 DEF DoneInv, VersionIsTrue, Creating, Updating, Working
<1>10. QED
  BY <1>5, <1>6, <1>7, <1>8, <1>9

LEMMA LookTableKeeps ==
  ASSUME IInv, LookTable PROVE MigrationInv'
<1> USE ConstantsType
    DEF IInv, MigrationInv, TypeInv, TypeOK, FrozenInv, db, Goto, HasStructure, Exists
<1>1. Wanted(tab) > NoVersion /\ NoVersion # Missing
  BY WantedBound, NoVersionApart
<1>2. /\ UNCHANGED <<tables, versions, phase, todo, tab, scripts, added>> /\ pc = "look table"
      /\ \/ /\ misread' = (IF versions[tab] = 0 THEN misread ELSE misread \cup {tab})
            /\ pc' = "load"
         \/ /\ misread' = (IF Exists(tab) THEN misread \cup {tab} ELSE misread)
            /\ pc' = "drop" /\ found' = Missing
  <2>1. UNCHANGED <<tables, versions, phase, todo, tab, scripts, added>> /\ pc = "look table"
    BY DEF LookTable
  <2>2. CASE /\ Decide(NoVersion)
             /\ misread' = IF versions[tab] = 0 THEN misread ELSE misread \cup {tab}
    <3>1. pc' = "load"
      BY <1>1, <2>2 DEF Decide
    <3>2. QED
      BY <2>1, <2>2, <3>1
  <2>3. CASE /\ Decide(Missing)
             /\ misread' = IF Exists(tab) THEN misread \cup {tab} ELSE misread
    <3>1. pc' = "drop" /\ found' = Missing
      BY <2>3 DEF Decide
    <3>2. QED
      BY <2>1, <2>3, <3>1
  <2>4. QED
    BY <2>2, <2>3 DEF LookTable
<1>3. phase # "custom"
  BY <1>2 DEF PhaseInv, Creating
<1>4. misread \subseteq misread'
  BY <1>2
<1>5. VersionIsTrue'
  BY <1>2, <1>4 DEF VersionIsTrue
<1>6. OkMeansCurrent' /\ OkMeansFilled'
  BY <1>2 DEF OkMeansCurrent, OkMeansFilled
<1>7. PhaseInv'
  BY <1>2, <1>3 DEF PhaseInv, Creating, Updating, Working
<1>8. WorkInv'
  BY <1>2, <1>4, LatestPositive DEF WorkInv, VersionIsTrue, Creating
<1>9. DoneInv'
  BY <1>2, <1>4 DEF DoneInv, Creating, Updating, Working
<1>10. QED
  BY <1>5, <1>6, <1>7, <1>8, <1>9

LEMMA LoadKeeps ==
  ASSUME IInv, Load PROVE MigrationInv'
<1> USE ConstantsType
    DEF IInv, MigrationInv, TypeInv, TypeOK, FrozenInv, db, rest, Goto, Return, HasStructure, Exists
<1>1. /\ UNCHANGED <<tables, versions, misread, phase, todo, tab, found, added>> /\ pc = "load"
      /\ \/ pc' = "record" /\ Differing(tab) = {}
         \/ pc' = "alter" /\ scripts' = Differing(tab)
         \/ pc' = "idle" /\ result' = "error"
  BY DEF Load, Executed, NotExecuted
<1>2. phase # "custom"
  BY <1>1 DEF PhaseInv, Creating
<1>3. Differing(tab) = {} => HasStructure(tab, Wanted(tab))
  BY <1>1, WantedType, NoDifference DEF Working, Updating
<1>4. Misfits(tab)' \subseteq Differing(tab)
  BY <1>1, MisfitsDiffer DEF Misfits, Actual, Wanted
<1>5. VersionIsTrue'
  BY <1>1 DEF VersionIsTrue
<1>6. OkMeansCurrent' /\ OkMeansFilled'
  BY <1>1 DEF OkMeansCurrent, OkMeansFilled
<1>7. PhaseInv'
  BY <1>1, <1>2 DEF PhaseInv, Creating, Updating, Working
<1>8. WorkInv'
  BY <1>1, <1>3, <1>4 DEF WorkInv, Creating, Wanted
<1>9. DoneInv'
  BY <1>1 DEF DoneInv, Creating, Updating, Working
<1>10. QED
  BY <1>5, <1>6, <1>7, <1>8, <1>9

LEMMA AlterKeeps ==
  ASSUME IInv, NEW c \in Columns, Alter(c) PROVE MigrationInv'
<1> USE ConstantsType
    DEF IInv, MigrationInv, TypeInv, TypeOK, FrozenInv, job, rest, Goto, Return, HasStructure, Exists
<1> DEFINE new == Structure[tab][Wanted(tab)]
           now == After(Actual(tab)[c], new[c])
<1>1. CASE UNCHANGED tables /\ pc' = "idle" /\ result' = "error"
  <2>1. UNCHANGED <<versions, misread, phase, todo, tab, found, added>> /\ pc = "alter"
    BY DEF Alter
  <2>2. VersionIsTrue' /\ OkMeansCurrent' /\ OkMeansFilled'
    BY <1>1, <2>1 DEF VersionIsTrue, OkMeansCurrent, OkMeansFilled
  <2>3. PhaseInv'
    BY <1>1, <2>1 DEF PhaseInv, Creating, Updating, Working
  <2>4. WorkInv' /\ DoneInv'
    BY <1>1, <2>1 DEF WorkInv, DoneInv, Creating, Updating, Working
  <2>5. QED
    BY <2>2, <2>3, <2>4
<1>2. CASE /\ Exists(tab) /\ tables' = [tables EXCEPT ![tab] = Redefined(tab, c, now)]
           /\ scripts' = scripts \ {c} /\ pc' = (IF scripts' = {} THEN "record" ELSE "alter")
  <2>1. UNCHANGED <<versions, misread, phase, todo, tab, found, added>> /\ pc = "alter"
    BY DEF Alter
  <2>2. Wanted(tab) \in 1..Latest[tab]
    BY <2>1, WantedType DEF Working, Updating
  <2>3. now \in Definitions \cup {Absent} /\ Fits(now, new[c])
    BY <2>2, ActualType, AlteredFits
  <2>4. Redefined(tab, c, now) \in TableState
    BY <1>2, <2>3, ColumnType
  <2>5. /\ tables'[tab] = Redefined(tab, c, now) /\ tables'[tab] # NoTable
        /\ \A u \in Tables \ {tab} : tables'[u] = tables[u]
    BY <1>2, <2>4, NewExists
  <2>6. /\ tables'[tab].columns[c] = now
        /\ \A d \in Columns \ {c} : tables'[tab].columns[d] = tables[tab].columns[d]
    <3>1. TypeOK /\ tab \in Tables /\ Exists(tab)
      BY <1>2
    <3>2. \A d \in Definitions \cup {Absent} :
            /\ Redefined(tab, c, d).columns[c] = d
            /\ \A b \in Columns \ {c} : Redefined(tab, c, d).columns[b] = tables[tab].columns[b]
      BY ONLY <3>1, c \in Columns, AlteredColumn
    <3>3. QED
      BY ONLY <2>3, <2>5, <3>2
  <2>7. \A d \in Columns \ scripts' : Fits(tables'[tab].columns[d], new[d])
    <3>1. SUFFICES ASSUME NEW d \in Columns, d \notin scripts \ {c}
                   PROVE  Fits(tables'[tab].columns[d], new[d])
      BY <1>2
    <3>2. CASE d = c
      BY <2>3, <2>6, <3>2
    <3>3. CASE d # c
      <4>1. d \notin Misfits(tab)
        BY <2>1, <3>1, <3>3 DEF WorkInv
      <4>2. Fits(tables[tab].columns[d], new[d])
        BY <1>2, <4>1 DEF Misfits, Actual
      <4>3. QED
        BY <2>6, <3>3, <4>2
    <3>4. QED
      BY <3>2, <3>3
  <2>7a. Misfits(tab)' \subseteq scripts'
    BY <2>1, <2>5, <2>7 DEF Misfits, Actual, Wanted
  <2>8. scripts' = {} => HasStructure(tab, Wanted(tab))'
    BY <2>1, <2>5, <2>7 DEF Wanted
  <2>9. tab \in misread \/ versions[tab] # Latest[tab]
    BY <2>1 DEF WorkInv
  <2>10. VersionIsTrue'
    BY <2>1, <2>5, <2>9 DEF VersionIsTrue
  <2>11. OkMeansCurrent' /\ OkMeansFilled'
    BY <1>2 DEF OkMeansCurrent, OkMeansFilled
  <2>12. PhaseInv'
    BY <1>2, <2>1 DEF PhaseInv, Creating, Updating, Working
  <2>13. WorkInv'
    BY <1>2, <2>1, <2>5, <2>7a, <2>8, <2>9 DEF WorkInv, Creating
  <2>14. DoneInv'
    BY <1>2, <2>1, <2>5 DEF DoneInv, Creating, Updating, Working
  <2>15. QED
    BY <2>10, <2>11, <2>12, <2>13, <2>14
<1>3. QED
  BY <1>1, <1>2 DEF Alter, Executed, NotExecuted

LEMMA FillKeeps ==
  ASSUME IInv, NEW t \in Tables, Fill(t) PROVE MigrationInv'
<1> USE ConstantsType
    DEF IInv, MigrationInv, TypeInv, TypeOK, Fill, job, rest, Goto, Return,
        HasStructure, Exists, Executed, NotExecuted
<1>1. \A u \in Tables : /\ tables'[u] # NoTable <=> tables[u] # NoTable
                        /\ tables'[u].columns = tables[u].columns
                        /\ tables'[u] # NoTable /\ tables[u].filled => tables'[u].filled
  <2>1. CASE UNCHANGED tables
    BY <2>1
  <2>2. CASE Exists(t) /\ tables' = [tables EXCEPT ![t].filled = TRUE]
    <3>1. /\ [tables[t] EXCEPT !.filled = TRUE] \in TableState
          /\ [tables[t] EXCEPT !.filled = TRUE].columns = tables[t].columns
      BY <2>2, TableIsState DEF TableState
    <3>2. \A u \in Tables : /\ tables'[u] # NoTable <=> tables[u] # NoTable
                            /\ tables'[u].columns = tables[u].columns
      BY <2>2, <3>1, SameColumns
    <3>3. tables'[t].filled
      BY <2>2, TableIsState DEF TableState
    <3>4. \A u \in Tables \ {t} : tables'[u] = tables[u]
      BY <2>2
    <3>5. QED
      BY <3>2, <3>3, <3>4
  <2>3. QED
    BY <2>1, <2>2
<1>2. /\ UNCHANGED <<versions, misread, phase, tab, found, scripts, added>>
      /\ pc = "fill"
      /\ \/ pc' = "fill" /\ todo' = todo \ {t} /\ tables'[t].filled
         \/ pc' = "idle" /\ result' = "error" /\ todo' = todo
  <2>1. Exists(t) => [tables EXCEPT ![t].filled = TRUE][t].filled
    BY TableIsState DEF TableState
  <2>2. QED
    BY <2>1
<1> HIDE DEF Fill
<1>3. VersionIsTrue'
  BY <1>1, <1>2 DEF VersionIsTrue
<1>4. OkMeansCurrent' /\ OkMeansFilled'
  BY <1>2 DEF OkMeansCurrent, OkMeansFilled
<1>5. PhaseInv'
  BY <1>2 DEF PhaseInv, Creating, Updating, Working
<1>6. WorkInv'
  BY <1>1, <1>2 DEF WorkInv, Creating
<1>7. DoneInv'
  BY <1>1, <1>2 DEF DoneInv, Creating, Updating, Working
<1>8. QED
  BY <1>3, <1>4, <1>5, <1>6, <1>7

LEMMA FinishKeeps ==
  ASSUME IInv, Finish PROVE MigrationInv'
<1> USE DEF IInv, MigrationInv, Finish, db, job, rest, Return, HasStructure, Exists
<1>1. VersionIsTrue'
  BY DEF VersionIsTrue
<1>2. OkMeansCurrent' /\ OkMeansFilled'
  BY DEF OkMeansCurrent, OkMeansFilled, DoneInv
<1>3. PhaseInv'
  BY DEF PhaseInv, Creating, Updating, Working
<1>4. WorkInv'
  BY DEF WorkInv, Creating
<1>5. DoneInv'
  BY DEF DoneInv, Creating, Updating, Working
<1>6. QED
  BY <1>1, <1>2, <1>3, <1>4, <1>5

-----------------------------------------------------------------------------
(* CustomUpdate373. *)

LEMMA CustomSelectKeeps ==
  ASSUME IInv, CustomSelect PROVE MigrationInv'
<1> USE ConstantsType
    DEF IInv, MigrationInv, TypeInv, TypeOK, CustomSelect, CustomFails, StartAuto, Goto, Executed, NotExecuted,
        db, job, rest, HasStructure, Exists
<1>1. VersionIsTrue'
  BY DEF VersionIsTrue
<1>2. OkMeansCurrent' /\ OkMeansFilled'
  BY DEF OkMeansCurrent, OkMeansFilled
<1>3. PhaseInv'
  BY DEF PhaseInv, Creating, Updating, Working
<1>4. WorkInv'
  BY LatestPositive DEF WorkInv, Creating
<1>5. DoneInv'
  BY DEF DoneInv, Creating, Updating, Working
<1>6. QED
  BY <1>1, <1>2, <1>3, <1>4, <1>5

LEMMA CustomQueryKeeps ==
  ASSUME IInv, NEW q \in Queries, CustomQuery(q) PROVE MigrationInv'
<1> USE ConstantsType
    DEF IInv, MigrationInv, TypeInv, TypeOK, CustomQuery, CustomFails, StartAuto, Goto, Executed, NotExecuted,
        db, job, rest, HasStructure, Exists
<1>1. VersionIsTrue'
  BY DEF VersionIsTrue
<1>2. OkMeansCurrent' /\ OkMeansFilled'
  BY DEF OkMeansCurrent, OkMeansFilled
<1>3. PhaseInv'
  BY DEF PhaseInv, Creating, Updating, Working
<1>4. WorkInv'
  BY LatestPositive DEF WorkInv, Creating
<1>5. DoneInv'
  BY DEF DoneInv, Creating, Updating, Working
<1>6. QED
  BY <1>1, <1>2, <1>3, <1>4, <1>5

LEMMA CustomPinsKeeps ==
  ASSUME IInv, CustomPins PROVE MigrationInv'
<1> USE ConstantsType
    DEF IInv, MigrationInv, TypeInv, TypeOK, CustomPins, CustomFails, StartAuto, Goto, Executed, NotExecuted,
        db, job, rest, HasStructure, Exists
<1>1. VersionIsTrue'
  BY DEF VersionIsTrue
<1>2. OkMeansCurrent' /\ OkMeansFilled'
  BY DEF OkMeansCurrent, OkMeansFilled
<1>3. PhaseInv'
  BY DEF PhaseInv, Creating, Updating, Working
<1>4. WorkInv'
  BY LatestPositive DEF WorkInv, Creating
<1>5. DoneInv'
  BY DEF DoneInv, Creating, Updating, Working
<1>6. QED
  BY <1>1, <1>2, <1>3, <1>4, <1>5

LEMMA CustomDbverKeeps ==
  ASSUME IInv, CustomDbver PROVE MigrationInv'
<1> USE ConstantsType
    DEF IInv, MigrationInv, TypeInv, TypeOK, CustomDbver, StartAuto, Goto, Return, Executed, NotExecuted,
        db, job, rest, HasStructure, Exists
<1>1. VersionIsTrue'
  BY DEF VersionIsTrue
<1>2. OkMeansCurrent' /\ OkMeansFilled'
  BY DEF OkMeansCurrent, OkMeansFilled
<1>3. PhaseInv'
  BY DEF PhaseInv, Creating, Updating, Working
<1>4. WorkInv'
  BY LatestPositive DEF WorkInv, Creating
<1>5. DoneInv'
  BY DEF DoneInv, Creating, Updating, Working
<1>6. QED
  BY <1>1, <1>2, <1>3, <1>4, <1>5

-----------------------------------------------------------------------------
(* The invariant. *)

LEMMA StutterKeeps ==
  ASSUME IInv, UNCHANGED vars PROVE MigrationInv'
<1>1. UNCHANGED <<tables, versions, misread, pc, phase, todo, tab, found, scripts, added, result>>
  BY DEF vars, db, job, rest
<1>2. VersionIsTrue' /\ OkMeansCurrent' /\ OkMeansFilled'
  BY <1>1 DEF IInv, MigrationInv, VersionIsTrue, OkMeansCurrent, OkMeansFilled, HasStructure, Exists
<1>3. PhaseInv'
  BY <1>1 DEF IInv, MigrationInv, PhaseInv
<1>4. WorkInv' /\ DoneInv'
  BY <1>1 DEF IInv, MigrationInv, WorkInv, DoneInv, HasStructure, Exists, Misfits, Actual, Wanted
<1>5. QED
  BY <1>2, <1>3, <1>4 DEF MigrationInv

LEMMA InitKeeps == Init => MigrationInv
<1> SUFFICES ASSUME Init PROVE MigrationInv
  OBVIOUS
<1>1. /\ VersionIsTrue
      /\ ~Exists(Versions) => \A t \in Tables : versions[t] = 0
  <2>1. ASSUME NEW S \in SUBSET (Tables \ {Versions}), versions = [t \in Tables |-> 0]
        PROVE  <1>1
    BY <2>1, LatestPositive DEF VersionIsTrue
  <2>2. ASSUME NEW v \in [Tables -> 0..2], v[Versions] = Latest[Versions],
               \A t \in Tables : v[t] <= Latest[t],
               tables = [t \in Tables |-> IF v[t] = 0 THEN NoTable ELSE Old(t, v[t])],
               versions = v
        PROVE  <1>1
    <3>1. \A t \in Tables : v[t] # 0 => v[t] \in 1..Latest[t]
      <4> SUFFICES ASSUME NEW t \in Tables, v[t] # 0 PROVE v[t] \in 1..Latest[t]
        OBVIOUS
      <4>1. v[t] \in 0..2 /\ v[t] <= Latest[t] /\ Latest[t] \in Nat
        BY <2>2, VersionType
      <4>2. QED
        BY <4>1
    <3>2. \A t \in Tables : v[t] # 0 => Exists(t) /\ tables[t].columns = Structure[t][v[t]]
      <4> SUFFICES ASSUME NEW t \in Tables, v[t] # 0
                   PROVE  Exists(t) /\ tables[t].columns = Structure[t][v[t]]
        OBVIOUS
      <4>1. tables[t] = Old(t, v[t])
        BY <2>2
      <4>2. Old(t, v[t]) \in TableState
        BY <3>1, SchemeType
      <4>3. Old(t, v[t]).columns = Structure[t][v[t]]
        BY DEF Old
      <4>4. QED
        BY <4>1, <4>2, <4>3, NewExists DEF Exists
    <3>3. QED
      BY <2>2, <3>2, LatestPositive, MigrationAssumption DEF VersionIsTrue, HasStructure, Fits
  <2>3. QED
    BY <2>1, <2>2 DEF Init
<1>2. pc = "idle" /\ result = "none" /\ phase = "auto" /\ todo = {}
  BY DEF Init
<1>3. OkMeansCurrent /\ OkMeansFilled
  BY <1>2 DEF OkMeansCurrent, OkMeansFilled
<1>4. PhaseInv
  BY <1>2 DEF PhaseInv, Creating, Updating, Working
<1>5. WorkInv /\ DoneInv
  BY <1>1, <1>2 DEF WorkInv, DoneInv, Creating, Updating, Working
<1>6. QED
  BY <1>1, <1>3, <1>4, <1>5 DEF MigrationInv

LEMMA StepKeeps ==
  ASSUME NoSharedTypes, IInv, [Next]_vars PROVE IInv'
<1>1. SUFFICES MigrationInv'
  BY StepTypes DEF IInv
<1>2. CASE Update \/ Reset \/ Crash \/ (\E t \in Tables : Use(t))
  BY <1>2, UpdateKeeps, ResetKeeps, CrashKeeps, UseKeeps
<1>3. CASE InitTable
  BY <1>3, DropLookKeeps, DropTypeKeeps, DropTableKeeps, CreateTypeKeeps, CreateKeeps,
     CreateKeysKeeps, RecordKeeps DEF InitTable
<1>4. CASE Structures
  BY <1>4, NextSchemeKeeps, LastSchemeKeeps, LookKeeps, LookTableKeeps, LoadKeeps,
     AlterKeeps, FillKeeps, FinishKeeps DEF Structures
<1>5. CASE Custom
  BY <1>5, CustomSelectKeeps, CustomQueryKeeps, CustomPinsKeeps, CustomDbverKeeps DEF Custom
<1>6. CASE UNCHANGED vars
  BY <1>6, StutterKeeps
<1>7. QED
  BY <1>2, <1>3, <1>4, <1>5, <1>6 DEF Next, Step

-----------------------------------------------------------------------------
(* The rows of the users. *)

(* The rows of a table survive a step. *)
Survive(t) ==
  (Exists(t) /\ tables[t].rows /\ ~(tables'[t] # NoTable /\ tables'[t].rows))
    => phase = "reset" \/ t \in misread

LEMMA RowsKept ==
  ASSUME IInv, Next, NEW t \in Tables \ {Versions} PROVE Survive(t)
<1> USE DEF IInv, TypeInv
<1>0. CASE UNCHANGED tables
  BY <1>0 DEF Survive, Exists
<1> SUFFICES ASSUME Exists(t), tables[t].rows
             PROVE  (tables'[t] # NoTable /\ tables'[t].rows) \/ phase = "reset" \/ t \in misread
  BY DEF Survive
<1>1. tables[t] \in TableState /\ tables[t] # NoTable
  BY TableIsState DEF Exists
<1>2. ASSUME NEW u \in Tables, Use(u) PROVE tables'[t] # NoTable /\ tables'[t].rows
  BY <1>1, <1>2, NewExists DEF Use, TypeOK, TableState
<1>3. CASE DropType
  <2>1. Redefined(t, EnumColumn, Absent) \in TableState /\ Redefined(t, EnumColumn, Absent).rows
    BY <1>1, ColumnType, MigrationAssumption DEF Redefined, TableState
  <2>2. QED
    BY <1>1, <1>3, <2>1, NewExists DEF DropType
<1>4. CASE DropTable
  <2>1. tab = t => phase \in {"auto", "frozen", "reset"} /\ (phase # "reset" => t \in misread)
    BY <1>1, <1>4, ConstantsType DEF DropTable, MigrationInv, PhaseInv, WorkInv, Creating, Working, TypeOK, Exists
  <2>2. QED
    BY <1>1, <1>4, <2>1 DEF DropTable, TypeOK
<1>5. CASE Create
  BY <1>1, <1>5 DEF Create, TypeOK, Executed, Exists
<1>6. CASE CreateKeys
  <2>1. /\ [tables[t] EXCEPT !.keyed = TRUE] \in TableState
        /\ [tables[t] EXCEPT !.keyed = TRUE].rows = tables[t].rows
    BY <1>1 DEF TableState
  <2>2. QED
    BY <1>1, <1>6, <2>1, NewExists DEF CreateKeys, TypeOK
<1>7. ASSUME NEW c \in Columns, Alter(c) PROVE tables'[t] # NoTable /\ tables'[t].rows
  <2>1. Wanted(tab) \in 1..Latest[tab]
    BY <1>7, WantedType, ConstantsType DEF Alter, FrozenInv, TypeOK, Working, Updating
  <2> DEFINE now == After(Actual(tab)[c], Structure[tab][Wanted(tab)][c])
  <2>2. now \in Definitions \cup {Absent}
    BY <2>1, ActualType DEF TypeOK
  <2>3. tab = t => Redefined(t, c, now) \in TableState
    BY <2>2, ColumnType
  <2>4. Redefined(t, c, now).rows
    BY <1>1 DEF Redefined, TableState
  <2>5. QED
    BY <1>1, <1>7, <2>3, <2>4, NewExists DEF Alter, TypeOK
<1>8. ASSUME NEW u \in Tables, Fill(u) PROVE tables'[t] # NoTable /\ tables'[t].rows
  <2>1. /\ [tables[t] EXCEPT !.filled = TRUE] \in TableState
        /\ [tables[t] EXCEPT !.filled = TRUE].rows = tables[t].rows
    BY <1>1 DEF TableState
  <2>2. QED
    BY <1>1, <1>8, <2>1, NewExists DEF Fill, TypeOK
<1>9. CASE Update \/ Reset \/ Crash \/ DropLook \/ CreateType \/ Record
  BY <1>0, <1>9 DEF Update, Reset, Crash, DropLook, CreateType, Record, db, Survive
<1>10. CASE (\E u \in Tables : NextScheme(u)) \/ LastScheme \/ Look \/ LookTable \/ Load \/ Finish
  BY <1>0, <1>10 DEF NextScheme, LastScheme, Look, LookTable, Load, Finish, db, Survive
<1>11. CASE Custom
  BY <1>0, <1>11 DEF Custom, CustomSelect, CustomQuery, CustomPins, CustomDbver, db, Survive
<1>12. QED
  BY <1>2, <1>3, <1>4, <1>5, <1>6, <1>7, <1>8, <1>9, <1>10, <1>11
     DEF Next, Step, InitTable, Structures

-----------------------------------------------------------------------------
(* The inductive invariant holds throughout update and resetTables. *)
THEOREM MigrationInvariant ==
  ASSUME NoSharedTypes PROVE Spec => [](TypeInv /\ MigrationInv)
<1>1. Init => IInv
  BY InitTypes, InitKeeps DEF IInv
<1>2. IInv /\ [Next]_vars => IInv'
  BY StepKeeps
<1>3. QED
  BY <1>1, <1>2, PTL DEF Spec, IInv

(* A table recorded in TABLESVERSIONS at the version of its scheme has exactly
   the scheme's columns, whatever statements failed and wherever the process
   died. *)
THEOREM VersionsAreTrue ==
  ASSUME NoSharedTypes PROVE Spec => []VersionIsTrue
<1>1. MigrationInv => VersionIsTrue
  BY DEF MigrationInv
<1>2. QED
  BY <1>1, MigrationInvariant, PTL

(* When update or resetTables returns 0, every table is there as its scheme
   says. *)
THEOREM SuccessIsTrue ==
  ASSUME NoSharedTypes PROVE Spec => []OkMeansCurrent
<1>1. MigrationInv => OkMeansCurrent
  BY DEF MigrationInv
<1>2. QED
  BY <1>1, MigrationInvariant, PTL

(* ... and the default rows of the tables this process created are in them. *)
THEOREM SuccessIsFilled ==
  ASSUME NoSharedTypes PROVE Spec => []OkMeansFilled
<1>1. MigrationInv => OkMeansFilled
  BY DEF MigrationInv
<1>2. QED
  BY <1>1, MigrationInvariant, PTL

(* Only resetTables drops a table users have rows in, misread versions apart. *)
THEOREM RowsAlwaysSurvive ==
  ASSUME NoSharedTypes PROVE Spec => RowsSurvive
<1>1. IInv /\ [Next]_vars =>
        [\A t \in Tables \ {Versions} :
          (Exists(t) /\ tables[t].rows /\ ~(tables'[t] # NoTable /\ tables'[t].rows))
            => phase = "reset" \/ t \in misread]_vars
  BY RowsKept DEF Survive
<1>2. QED
  BY <1>1, MigrationInvariant, PTL DEF Spec, RowsSurvive, IInv

-----------------------------------------------------------------------------
(* That Migration implements TableUpdates. *)

Refines == [Updates!Next]_(Updates!vars)

(* The state of a call may go on, begin, fail or end with the process. *)
CallMoves ==
  \/ Call' = Call
  \/ Call' \in {"error", "none"}
  \/ Call # "working" /\ Call' = "working"

-----------------------------------------------------------------------------
(* The kinds of steps. *)

LEMMA SameStructure ==
  ASSUME \A t \in Others : StructureOf(t)' = StructureOf(t)
  PROVE  Structured' = Structured
BY DEF Structured

LEMMA OneStructure ==
  ASSUME NEW u \in Others, \A t \in Others \ {u} : StructureOf(t)' = StructureOf(t)
  PROVE  \E s \in {"none", "right", "wrong"} : Structured' = [Structured EXCEPT ![u] = s]
<1>1. StructureOf(u)' \in {"none", "right", "wrong"}
  BY DEF StructureOf
<1>2. Structured' = [Structured EXCEPT ![u] = StructureOf(u)']
  BY DEF Structured
<1>3. QED
  BY <1>1, <1>2

(* Nothing but the state of the call changes. *)
LEMMA QuietStep ==
  ASSUME Structured' = Structured, Recorded' = Recorded, Doubted' = Doubted, CallMoves
  PROVE  Refines
<1>1. CASE Call' = Call
  BY <1>1 DEF Refines, Updates!vars
<1>2. CASE Call' \in {"error", "none"}
  BY <1>2 DEF Refines, Updates!Next, Updates!Fail
<1>3. CASE Call # "working" /\ Call' = "working"
  BY <1>3 DEF Refines, Updates!Next, Updates!Begin
<1>4. QED
  BY <1>1, <1>2, <1>3 DEF CallMoves

(* One table changes, and was not recorded, or doubted. *)
LEMMA ChangeStep ==
  ASSUME NEW u \in Others, \A t \in Others \ {u} : StructureOf(t)' = StructureOf(t),
         u \in Recorded => u \in Doubted,
         Recorded' = Recorded, Doubted' = Doubted, Call = "working", Call' = "working"
  PROVE  Refines
<1>1. Updates!Change(u)
  BY OneStructure DEF Updates!Change
<1>2. QED
  BY <1>1 DEF Refines, Updates!Next

(* What the state of a call is. *)
LEMMA CallIs ==
  /\ pc # "idle" => Call = "working"
  /\ pc' # "idle" => Call' = "working"
BY DEF Call

LEMMA QuietReturn ==
  ASSUME pc' # "idle" \/ result' \in {"error", "none"}, pc # "idle" \/ result # "working"
  PROVE  CallMoves
BY DEF CallMoves, Call

(* What the tables are says what their structures are. *)
LEMMA SameTables == tables' = tables => Structured' = Structured
BY DEF Structured, StructureOf, Exists, HasStructure

LEMMA StructureKept ==
  ASSUME \A t \in Others : /\ tables'[t] # NoTable <=> tables[t] # NoTable
                           /\ tables'[t].columns = tables[t].columns
  PROVE  Structured' = Structured
<1>1. \A t \in Others : StructureOf(t)' = StructureOf(t)
  BY DEF StructureOf, Exists, HasStructure
<1>2. QED
  BY <1>1, SameStructure

LEMMA OtherTables ==
  ASSUME NEW u, \A t \in Others \ {u} : tables'[t] = tables[t]
  PROVE  \A t \in Others \ {u} : StructureOf(t)' = StructureOf(t)
BY DEF StructureOf, Exists, HasStructure

(* A step that leaves all tables but one alone, and the versions and doubts,
   and goes on. *)
LEMMA TableStep ==
  ASSUME NEW u \in Tables, \A t \in Others \ {u} : tables'[t] = tables[t],
         u = Versions \/ u \in misread \/ versions[u] # Latest[u],
         versions' = versions, misread' = misread, pc # "idle", pc' # "idle"
  PROVE  Refines
<1>1. Recorded' = Recorded /\ Doubted' = Doubted /\ Call = "working" /\ Call' = "working"
  BY CallIs DEF Recorded, Doubted
<1>2. \A t \in Others \ {u} : StructureOf(t)' = StructureOf(t)
  BY OtherTables
<1>3. CASE u = Versions
  <2>1. Structured' = Structured
    BY <1>2, <1>3, SameStructure DEF Others
  <2>2. QED
    BY <1>1, <2>1, QuietStep DEF CallMoves
<1>4. CASE u # Versions
  <2>1. u \in Others /\ (u \in Recorded => u \in Doubted)
    BY <1>4 DEF Others, Recorded, Doubted
  <2>2. QED
    BY <1>1, <1>2, <2>1, ChangeStep
<1>5. QED
  BY <1>3, <1>4

(* A step that leaves the structures, the versions and the doubts alone. *)
LEMMA OtherStep ==
  ASSUME Structured' = Structured, versions' = versions, misread' = misread,
         pc' # "idle" \/ result' \in {"error", "none"}, pc # "idle" \/ result # "working"
  PROVE  Refines
<1>1. Recorded' = Recorded /\ Doubted' = Doubted
  BY DEF Recorded, Doubted
<1>2. QED
  BY <1>1, QuietReturn, QuietStep

-----------------------------------------------------------------------------
(* The actions. *)

LEMMA CallsRefine ==
  ASSUME IInv, Update \/ Reset \/ Crash PROVE Refines
<1>1. tables' = tables /\ versions' = versions /\ misread' = misread
  BY DEF Update, Reset, Crash, db, job, rest
<1>2. (pc' # "idle" \/ result' \in {"error", "none"}) /\ result # "working"
  BY DEF Update, Reset, Crash, StartAuto, Goto, IInv, TypeInv, TypeOK
<1>3. QED
  BY <1>1, <1>2, SameTables, OtherStep

LEMMA UseRefines ==
  ASSUME IInv, NEW t \in Tables, Use(t) PROVE Refines
<1>1. TypeOK /\ Exists(t) /\ tables' = [tables EXCEPT ![t].rows = TRUE]
  BY DEF IInv, TypeInv, Use
<1>2. Structured' = Structured
  <2>1. [tables[t] EXCEPT !.rows = TRUE] \in TableState
        /\ [tables[t] EXCEPT !.rows = TRUE].columns = tables[t].columns
    BY <1>1, TableIsState DEF TableState
  <2>2. tables' = [tables EXCEPT ![t] = [tables[t] EXCEPT !.rows = TRUE]]
    BY <1>1 DEF TypeOK
  <2>3. QED
    BY <1>1, <2>1, <2>2, SameColumns, StructureKept DEF Others
<1>3. Recorded' = Recorded /\ Doubted' = Doubted /\ CallMoves
  BY DEF Use, rest, Recorded, Doubted, CallMoves, Call
<1>4. QED
  BY <1>2, <1>3, QuietStep

(* Actions that execute statements which change no table, version or doubt. *)
PlainStep ==
  \/ DropLook \/ CreateType \/ (\E t \in Tables : NextScheme(t)) \/ LastScheme \/ Look \/ Load
  \/ Custom

LEMMA PlainRefines ==
  ASSUME IInv, PlainStep PROVE Refines
<1>1. tables' = tables /\ versions' = versions /\ misread' = misread /\ pc # "idle"
      /\ (pc' # "idle" \/ result' \in {"error", "none"})
  <2>1. CASE DropLook \/ CreateType
    BY <2>1 DEF DropLook, CreateType, InitFails, Goto, Return, db, job, rest
  <2>2. CASE (\E t \in Tables : NextScheme(t)) \/ LastScheme
    BY <2>2 DEF NextScheme, LastScheme, Goto, db, rest
  <2>3. CASE Look \/ Load
    BY <2>3 DEF Look, Load, Decide, Goto, Return, db, rest
  <2>4. CASE Custom
    BY <2>4 DEF Custom, CustomSelect, CustomQuery, CustomPins, CustomDbver, CustomFails,
                StartAuto, Goto, Return, db, rest
  <2>5. QED
    BY <2>1, <2>2, <2>3, <2>4 DEF PlainStep
<1>2. QED
  BY <1>1, SameTables, OtherStep

(* DROP TYPE takes a column from one table only, since types are not shared. *)
LEMMA DropTypeRefines ==
  ASSUME NoSharedTypes, IInv, DropType PROVE Refines
<1>1. /\ tab \in Tables /\ pc = "drop type" /\ EnumOf[tab] # NoEnum
      /\ tab = Versions \/ tab \in misread \/ versions[tab] # Latest[tab]
      /\ versions' = versions /\ misread' = misread /\ pc' # "idle"
  BY DEF IInv, TypeInv, TypeOK, MigrationInv, PhaseInv, WorkInv, Creating, DropType, Goto, rest
<1>2. \A t \in Tables \ {tab} : EnumOf[t] # EnumOf[tab]
  BY <1>1 DEF NoSharedTypes
<1>3. \A t \in Others \ {tab} : tables'[t] = tables[t]
  BY <1>2 DEF DropType, Others
<1>4. QED
  BY <1>1, <1>3, TableStep

LEMMA DropTableRefines ==
  ASSUME IInv, DropTable PROVE Refines
<1>1. /\ tab \in Tables /\ pc = "drop table" /\ misread' = misread /\ pc' # "idle"
      /\ tab = Versions \/ tab \in misread \/ versions[tab] # Latest[tab]
      /\ \A t \in Others \ {tab} : tables'[t] = tables[t]
  BY DEF IInv, TypeInv, TypeOK, MigrationInv, WorkInv, Creating, DropTable, Goto, rest, Others
<1>2. CASE versions' = versions
  BY <1>1, <1>2, TableStep
<1>3. CASE versions' # versions
  <2>1. tab = Versions /\ versions' = [t \in Tables |-> 0]
    BY <1>3 DEF DropTable
  <2>2. Structured' = Structured
    BY <1>1, <2>1, OtherTables, SameStructure DEF Others
  <2>3. Recorded' = Recorded \ Others /\ Doubted' = Doubted
    BY <1>1, <2>1, LatestPositive DEF Recorded, Doubted, Others
  <2>4. Call = "working" /\ Call' = "working"
    BY <1>1, CallIs
  <2>5. Updates!Forget(Others)
    BY <2>2, <2>3, <2>4 DEF Updates!Forget
  <2>6. QED
    BY <2>5 DEF Refines, Updates!Next
<1>4. QED
  BY <1>2, <1>3

LEMMA CreateRefines ==
  ASSUME IInv, Create PROVE Refines
<1>1. /\ tab \in Tables /\ pc = "create" /\ misread' = misread /\ versions' = versions
      /\ tab = Versions \/ tab \in misread \/ versions[tab] # Latest[tab]
  BY DEF IInv, TypeInv, TypeOK, MigrationInv, WorkInv, Creating, Create, rest
<1>2. CASE pc' # "idle" /\ tables' = [tables EXCEPT ![tab] = New(tab, Wanted(tab))]
  <2>1. \A t \in Others \ {tab} : tables'[t] = tables[t]
    BY <1>2 DEF IInv, TypeInv, TypeOK, Others
  <2>2. QED
    BY <1>1, <1>2, <2>1, TableStep
<1>3. CASE tables' = tables /\ (pc' # "idle" \/ result' \in {"error", "none"})
  BY <1>1, <1>3, SameTables, OtherStep
<1>4. QED
  BY <1>2, <1>3 DEF Create, InitFails, Goto, Return

LEMMA CreateKeysRefines ==
  ASSUME IInv, CreateKeys PROVE Refines
<1>1. /\ TypeOK /\ tab \in Tables /\ pc = "keys" /\ misread' = misread /\ versions' = versions
      /\ Exists(tab) /\ (pc' # "idle" \/ result' \in {"error", "none"})
  BY DEF IInv, TypeInv, TypeOK, MigrationInv, WorkInv, HasStructure, CreateKeys, InitFails,
         Goto, Return, rest
<1>2. CASE tables' = [tables EXCEPT ![tab].keyed = TRUE]
  <2>1. [tables[tab] EXCEPT !.keyed = TRUE] \in TableState
        /\ [tables[tab] EXCEPT !.keyed = TRUE].columns = tables[tab].columns
    BY <1>1, TableIsState DEF TableState
  <2>2. tables' = [tables EXCEPT ![tab] = [tables[tab] EXCEPT !.keyed = TRUE]]
    BY <1>1, <1>2 DEF TypeOK
  <2>3. Structured' = Structured
    BY <1>1, <2>1, <2>2, SameColumns, StructureKept DEF Others
  <2>4. QED
    BY <1>1, <2>3, OtherStep
<1>3. CASE tables' = tables
  BY <1>1, <1>3, SameTables, OtherStep
<1>4. QED
  BY <1>2, <1>3 DEF CreateKeys

LEMMA FillRefines ==
  ASSUME IInv, NEW t \in Tables, Fill(t) PROVE Refines
<1>1. /\ TypeOK /\ pc = "fill" /\ misread' = misread /\ versions' = versions
      /\ pc' # "idle" \/ result' \in {"error", "none"}
  BY DEF IInv, TypeInv, Fill, Goto, Return, rest
<1>2. CASE Exists(t) /\ tables' = [tables EXCEPT ![t].filled = TRUE]
  <2>1. [tables[t] EXCEPT !.filled = TRUE] \in TableState
        /\ [tables[t] EXCEPT !.filled = TRUE].columns = tables[t].columns
    BY <1>1, <1>2, TableIsState DEF TableState
  <2>2. tables' = [tables EXCEPT ![t] = [tables[t] EXCEPT !.filled = TRUE]]
    BY <1>1, <1>2 DEF TypeOK
  <2>3. Structured' = Structured
    BY <1>1, <1>2, <2>1, <2>2, SameColumns, StructureKept DEF Others
  <2>4. QED
    BY <1>1, <2>3, OtherStep
<1>3. CASE tables' = tables
  BY <1>1, <1>3, SameTables, OtherStep
<1>4. QED
  BY <1>2, <1>3 DEF Fill, Executed

(* The version that is recorded is true if it is the latest; an older one is
   that of a frozen scheme. *)
LEMMA RecordRefines ==
  ASSUME IInv, Record PROVE Refines
<1>1. /\ TypeOK /\ tab \in Tables /\ pc = "record" /\ misread' = misread /\ tables' = tables
      /\ HasStructure(tab, Wanted(tab))
  BY DEF IInv, TypeInv, TypeOK, MigrationInv, WorkInv, Record, rest
<1>2. Structured' = Structured /\ Doubted' = Doubted /\ Call = "working"
  BY <1>1, SameTables, CallIs DEF Doubted
<1>3. CASE versions' = versions /\ (pc' # "idle" \/ result' \in {"error", "none"})
  BY <1>1, <1>2, <1>3, OtherStep
<1>4. CASE pc' # "idle" /\ versions' = [versions EXCEPT ![tab] = Wanted(tab)]
  <2>1. versions'[tab] = Wanted(tab) /\ \A t \in Tables \ {tab} : versions'[t] = versions[t]
    BY <1>1, <1>4 DEF TypeOK
  <2>2. Call' = "working"
    BY <1>4, CallIs
  <2>3. CASE tab = Versions
    <3>1. Recorded' = Recorded
      BY <2>1, <2>3 DEF Recorded, Others
    <3>2. QED
      BY <1>2, <2>2, <3>1, QuietStep DEF CallMoves
  <2>4. CASE tab # Versions /\ Wanted(tab) = Latest[tab]
    <3>1. tab \in Others /\ Recorded' = Recorded \cup {tab}
      BY <1>1, <2>1, <2>4 DEF Recorded, Others
    <3>2. Structured[tab] = "right"
      BY <1>1, <2>4, <3>1 DEF Structured, StructureOf, HasStructure
    <3>3. Updates!Record(tab)
      BY <1>2, <2>2, <3>1, <3>2 DEF Updates!Record
    <3>4. QED
      BY <3>1, <3>3 DEF Refines, Updates!Next
  <2>5. CASE tab # Versions /\ Wanted(tab) # Latest[tab]
    <3>1. tab \in Others /\ Recorded' = Recorded \ {tab}
      BY <1>1, <2>1, <2>5 DEF Recorded, Others
    <3>2. Updates!Forget({tab})
      BY <1>2, <2>2, <3>1 DEF Updates!Forget
    <3>3. QED
      BY <3>1, <3>2 DEF Refines, Updates!Next
  <2>6. QED
    BY <2>3, <2>4, <2>5
<1>5. QED
  BY <1>3, <1>4 DEF Record, Written, InitSucceeds, InitFails, Goto, Return

LEMMA LookTableRefines ==
  ASSUME IInv, LookTable PROVE Refines
<1>1. /\ tab \in Tables /\ pc = "look table" /\ pc' # "idle"
      /\ tables' = tables /\ versions' = versions
      /\ misread' = misread \/ misread' = misread \cup {tab}
  BY DEF IInv, TypeInv, TypeOK, LookTable, Decide, Goto, db
<1>2. Structured' = Structured /\ Recorded' = Recorded /\ Call = "working" /\ Call' = "working"
  BY <1>1, SameTables, CallIs DEF Recorded
<1>3. CASE misread' = misread \/ tab = Versions
  <2>1. Doubted' = Doubted
    BY <1>1, <1>3 DEF Doubted
  <2>2. QED
    BY <1>2, <2>1, QuietStep DEF CallMoves
<1>4. CASE misread' = misread \cup {tab} /\ tab # Versions
  <2>1. tab \in Others /\ Doubted' = Doubted \cup {tab}
    BY <1>1, <1>4 DEF Doubted, Others
  <2>2. Updates!Doubt(tab)
    BY <1>2, <2>1 DEF Updates!Doubt
  <2>3. QED
    BY <2>1, <2>2 DEF Refines, Updates!Next
<1>5. QED
  BY <1>1, <1>3, <1>4

LEMMA AlterRefines ==
  ASSUME IInv, NEW c \in Columns, Alter(c) PROVE Refines
<1>1. /\ TypeOK /\ tab \in Tables /\ pc = "alter" /\ misread' = misread /\ versions' = versions
      /\ tab \in misread \/ versions[tab] # Latest[tab]
  BY DEF IInv, TypeInv, TypeOK, MigrationInv, WorkInv, Alter, rest
<1>2. CASE pc' # "idle" /\ tables' = [tables EXCEPT ![tab] =
              Redefined(tab, c, After(Actual(tab)[c], Structure[tab][Wanted(tab)][c]))]
  <2>1. \A t \in Others \ {tab} : tables'[t] = tables[t]
    BY <1>1, <1>2 DEF TypeOK, Others
  <2>2. QED
    BY <1>1, <1>2, <2>1, TableStep
<1>3. CASE tables' = tables /\ (pc' # "idle" \/ result' \in {"error", "none"})
  BY <1>1, <1>3, SameTables, OtherStep
<1>4. QED
  BY <1>2, <1>3 DEF Alter, Goto, Return

(* A call succeeds when every table has been brought to its scheme. *)
LEMMA FinishRefines ==
  ASSUME IInv, Finish PROVE Refines
<1>1. /\ tables' = tables /\ misread' = misread /\ versions' = versions
      /\ pc = "fill" /\ pc' = "idle" /\ result' = "ok"
      /\ \A t \in Tables : t \in misread \/ HasStructure(t, Latest[t])
  BY DEF IInv, MigrationInv, DoneInv, Finish, Return, db, rest
<1>2. Structured' = Structured /\ Doubted' = Doubted /\ Recorded' = Recorded
      /\ Call = "working" /\ Call' = "ok"
  BY <1>1, SameTables DEF Doubted, Recorded, Call
<1>3. \A t \in Others : Structured[t] = "right" \/ t \in Doubted
  BY <1>1 DEF Structured, StructureOf, HasStructure, Doubted, Others
<1>4. Updates!Succeed
  BY <1>2, <1>3 DEF Updates!Succeed
<1>5. QED
  BY <1>4 DEF Refines, Updates!Next

-----------------------------------------------------------------------------
LEMMA InitRefines == Init => Updates!Init
<1> SUFFICES ASSUME Init PROVE Updates!Init
  OBVIOUS
<1>2. VersionIsTrue
  BY InitKeeps DEF MigrationInv
<1>3. Structured \in [Others -> {"none", "right", "wrong"}]
  BY DEF Structured, StructureOf
<1>4. Doubted = {} /\ Call = "none"
  BY DEF Init, Doubted, Call
<1>5. Recorded \in SUBSET {t \in Others : Structured[t] = "right"}
  <2>1. \A t \in Tables : versions[t] = Latest[t] => HasStructure(t, Latest[t])
    BY <1>2 DEF VersionIsTrue, Init
  <2>2. QED
    BY <2>1 DEF Recorded, Structured, StructureOf, HasStructure, Others
<1>6. QED
  BY <1>3, <1>4, <1>5 DEF Updates!Init

LEMMA StepRefines ==
  ASSUME NoSharedTypes, IInv, [Next]_vars PROVE Refines
<1>1. CASE UNCHANGED vars
  <2>1. tables' = tables /\ versions' = versions /\ misread' = misread /\ pc' = pc /\ result' = result
    BY <1>1 DEF vars, db, rest
  <2>2. Structured' = Structured /\ Recorded' = Recorded /\ Doubted' = Doubted /\ Call' = Call
    BY <2>1, SameTables DEF Recorded, Doubted, Call
  <2>3. QED
    BY <2>2, QuietStep DEF CallMoves
<1>2. CASE Update \/ Reset \/ Crash
  BY <1>2, CallsRefine
<1>3. CASE \E t \in Tables : Use(t)
  BY <1>3, UseRefines
<1>4. CASE PlainStep
  BY <1>4, PlainRefines
<1>5. CASE DropType \/ DropTable \/ Create \/ CreateKeys \/ Record
  BY <1>5, DropTypeRefines, DropTableRefines, CreateRefines, CreateKeysRefines, RecordRefines
<1>6. CASE LookTable \/ (\E c \in Columns : Alter(c)) \/ (\E t \in Tables : Fill(t)) \/ Finish
  BY <1>6, LookTableRefines, AlterRefines, FillRefines, FinishRefines
<1>7. QED
  BY <1>1, <1>2, <1>3, <1>4, <1>5, <1>6
     DEF Next, Step, InitTable, Structures, PlainStep

(* ImplementsTableUpdates: the update implements TableUpdates.  In every state
   IInv holds (MigrationInvariant), and from such a state every step is one of
   TableUpdates (StepRefines). *)
THEOREM MigrationImplements ==
  ASSUME NoSharedTypes PROVE Spec => ImplementsTableUpdates
<1>1. Init => Updates!Init
  BY InitRefines
<1>2. IInv /\ [Next]_vars => [Updates!Next]_(Updates!vars)
  BY StepRefines DEF Refines
<1>3. Spec => []IInv
  BY MigrationInvariant DEF IInv
<1>4. QED
  BY <1>1, <1>2, <1>3, PTL DEF Spec, ImplementsTableUpdates, Updates!Spec
=============================================================================
