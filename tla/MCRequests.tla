----------------------------- MODULE MCRequests -----------------------------
(* Instances of Requests for TLC. *)
EXTENDS Requests, TLC

(* "a" has a text that is required and limited, "b" one that is neither. *)
MCContents == [d \in Directories |-> IF d = "entities" THEN {"a", "b"} ELSE {"b"}]

J(of, key, text) == [of |-> of, key |-> key, text |-> text, allowed |-> TRUE]
Denied(j) == [j EXCEPT !.allowed = FALSE]
Q(op, objects) == [op |-> op, objects |-> objects]

MCRequests == {
  Q("create", <<J("a", -1, "fit"), J("a", -1, "fit")>>),
  Q("create", <<J("a", -1, "absent")>>),
  Q("create", <<J("a", 1, "wrong")>>),
  Q("create", <<J("a", 1, "fit"), J("a", 2, "fit")>>),
  Q("create", <<J("a", 0, "fit"), J("a", -1, "fit")>>),
  Q("create", <<J("b", 1, "absent"), J("b", 2, "fit")>>),
  Q("create", <<J("b", 0, "long")>>),
  Q("create", <<J("a", 2, "fit"), J("b", 3, "long")>>),
  Q("update", <<J("b", 1, "long")>>),
  Q("update", <<J("b", 1, "fit"), J("b", 1, "long")>>),
  Q("remove", <<J("a", 1, "absent"), Denied(J("b", 1, "absent"))>>)}

MCSymmetry == Permutations(Threads) \cup Permutations(Connections)
=============================================================================
