-------------------------- MODULE MigrationRefinement --------------------------
(* Migration implements TableUpdates.  TABLESVERSIONS itself, which has its own
   version among its rows, is left aside. *)
EXTENDS Migration

Others == Tables \ {Versions}

(* What the columns of a table are to its scheme. *)
StructureOf(t) ==
  IF ~Exists(t) THEN "none" ELSE IF HasStructure(t, Latest[t]) THEN "right" ELSE "wrong"

Structured == [t \in Others |-> StructureOf(t)]
Recorded   == {t \in Others : versions[t] = Latest[t]}
Doubted    == misread \ {Versions}
Call       == IF pc = "idle" THEN result ELSE "working"

Updates == INSTANCE TableUpdates WITH
  Tables <- Others, structure <- Structured, recorded <- Recorded,
  doubted <- Doubted, call <- Call

(* Every step of an update is one of TableUpdates or leaves what it speaks of as
   it is: no statement, executed by whatever call and after whatever failures,
   creates, alters or drops a table that is recorded at its latest version
   before that record is gone, except a table whose version was read wrong. *)
ImplementsTableUpdates == Updates!Spec
================================================================================
