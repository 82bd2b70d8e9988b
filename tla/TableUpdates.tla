----------------------------- MODULE TableUpdates -----------------------------
(***************************************************************************)
(* What an update of the database promises of its tables, whatever the     *)
(* statements are that it consists of: a table is not touched while it is  *)
(* recorded at the version of its scheme, it is recorded only when it has  *)
(* the structure of the scheme, and an update succeeds only when all have. *)
(* What cannot be told from the recorded versions once one of them was     *)
(* read wrong is left open for that table.                                 *)
(*                                                                         *)
(* Migration implements this for all tables of a database, SchemeUpdate    *)
(* for one table down to the definitions of its columns.                   *)
(***************************************************************************)
CONSTANT Tables

VARIABLES
  structure, \* of each table: "none" (it is not there), "right", "wrong"
  recorded,  \* the tables recorded at the version of their scheme
  doubted,   \* those whose version was read wrong at some time
  call       \* "working", or how the last call ended: "ok", "error", "none"

vars == <<structure, recorded, doubted, call>>

Init ==
  /\ structure \in [Tables -> {"none", "right", "wrong"}]
  /\ recorded \in SUBSET {t \in Tables : structure[t] = "right"}
  /\ doubted = {}
  /\ call = "none"

Begin ==
  /\ call # "working" /\ call' = "working"
  /\ UNCHANGED <<structure, recorded, doubted>>

(* A version is read wrong, at the beginning of a call or later. *)
Doubt(t) ==
  /\ doubted' = doubted \cup {t} /\ call' = "working"
  /\ UNCHANGED <<structure, recorded>>

(* A statement creates, alters or drops a table. *)
Change(t) ==
  /\ call = "working"
  /\ t \in recorded => t \in doubted
  /\ \E s \in {"none", "right", "wrong"} : structure' = [structure EXCEPT ![t] = s]
  /\ UNCHANGED <<recorded, doubted, call>>

(* The version of the scheme is recorded, perhaps as the last step of a call. *)
Record(t) ==
  /\ call = "working"
  /\ structure[t] = "right" \/ t \in doubted
  /\ recorded' = recorded \cup {t}
  /\ call' \in {"working", "ok"} /\ (call' = "ok" => \A u \in Tables : structure[u] = "right" \/ u \in doubted)
  /\ UNCHANGED <<structure, doubted>>

(* Versions are dropped, or older ones recorded. *)
Forget(S) ==
  /\ call = "working"
  /\ recorded' = recorded \ S
  /\ UNCHANGED <<structure, doubted, call>>

Succeed ==
  /\ call = "working" /\ call' = "ok"
  /\ \A t \in Tables : structure[t] = "right" \/ t \in doubted
  /\ UNCHANGED <<structure, recorded, doubted>>

(* The call fails, or the process dies. *)
Fail ==
  /\ call' \in {"error", "none"}
  /\ UNCHANGED <<structure, recorded, doubted>>

Next ==
  \/ Begin \/ Succeed \/ Fail
  \/ \E t \in Tables : Doubt(t) \/ Change(t) \/ Record(t)
  \/ \E S \in SUBSET Tables : Forget(S)

Spec == Init /\ [][Next]_vars
===============================================================================
