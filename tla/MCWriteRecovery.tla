-------------------------- MODULE MCWriteRecovery --------------------------
(* An instance of WriteRecovery for TLC: move_category_budget by two         *)
(* sessions of one tenant.                                                   *)
EXTENDS WriteRecovery, TLC

CONSTANTS r1, r2, ta, o1, p1, src, dst

V(m) == [main |-> m, rest |-> "memo"]

\* Debit the source, credit the destination.
Move == <<[target |-> src, before |-> V(2), after |-> V(1)],
          [target |-> dst, before |-> V(0), after |-> V(1)]>>
MovePlan == p1 :> Move
MoveStart == src :> V(2) @@ dst :> V(0)

OneTenant == r1 :> ta @@ r2 :> ta
=============================================================================
