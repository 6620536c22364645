--------------------------- MODULE MCGuardedWrite ---------------------------
(* Instances of GuardedWrite for TLC: a budget of two rows, and counters of *)
(* what has been created.  A row is 0 unapproved, 1 approved, 2 deleted.    *)
EXTENDS GuardedWrite, TLC

MCState == [row : [{"a", "b"} -> 0..2], made : 0..MaxCalls]
MCStart == [row |-> [x \in {"a", "b"} |-> 0], made |-> 0]
Pending(s) == {x \in {"a", "b"} : s.row[x] = 0}

\* approve_transactions, the undo of two creations, create_transaction.
MCView(i, s) ==
    CASE i = "approve" -> [x \in {"a", "b"} |-> IF s.row[x] = 0 THEN 0 ELSE 2]
      [] i = "remove" -> s.row
      [] i = "create" -> [x \in {"a", "b"} |-> 2]
MCRequests(i, s) ==
    CASE i = "approve" -> IF Pending(s) = {} THEN <<>> ELSE << <<"approve", Pending(s)>> >>
      [] i = "remove" -> << <<"delete", {"a"}>>, <<"delete", {"b"}>> >>
      [] i = "create" -> << <<"create", {}>> >>
MCApply(r, s) ==
    CASE r[1] = "approve" -> [s EXCEPT !.row = [x \in {"a", "b"} |-> IF x \in r[2] /\ @[x] = 0 THEN 1 ELSE @[x]]]
      [] r[1] = "delete" -> [s EXCEPT !.row = [x \in {"a", "b"} |-> IF x \in r[2] THEN 2 ELSE @[x]]]
      [] r[1] = "create" -> [s EXCEPT !.made = @ + 1]

\* A user approves a row, or takes the approval back.
MCEdited(s) == {[s EXCEPT !.row["a"] = 1 - @] : x \in {y \in {1} : s.row["a"] < 2}}
=============================================================================
