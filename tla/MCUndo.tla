------------------------------- MODULE MCUndo -------------------------------
(* An instance of Undo for TLC.  Of the rows, 1 and 2 exist, 3 and 4 do not; a *)
(* payee is one of three.                                                      *)
EXTENDS Undo, TLC

MCValue(f) == IF f = "approved" THEN 0..1 ELSE 0..2
MCStart == [r \in Row |-> [life |-> IF r <= 2 THEN "live" ELSE "absent",
                           val |-> [f \in Field |-> IF r = 2 /\ f = "approved" THEN 1 ELSE 0]]]

MCKind(c) == CASE c \in {"approve", "assign"} -> "update" [] c = "create" -> c [] c = "delete" -> c

\* Both updates give row 1 a payee, one approves it and row 2 besides.
MCReq(c) ==
    CASE c = "approve" -> 1 :> ("approved" :> 1 @@ "payee" :> 1) @@ 2 :> ("approved" :> 1)
      [] c = "assign" -> 1 :> ("payee" :> 2)
      [] c = "create" -> [f \in Field |-> 1]
      [] c = "delete" -> 2

\* Two updates that meet, or one with a creation and a deletion.
MCTogether == {{"approve", "assign"}, {"approve", "create", "delete"}}

\* Sessions are interchangeable.
Symmetry == Permutations(Session)
=============================================================================
