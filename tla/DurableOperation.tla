-------------------------- MODULE DurableOperation --------------------------
(***************************************************************************)
(* What the journal promises about an operation, without runners, saves,   *)
(* reads or failures: an approved plan is recorded once and never changes; *)
(* a step is attempted until a fresh read verifies it and never after;     *)
(* the operation completes when every step is verified, and then nothing   *)
(* about it changes any more.                                              *)
(***************************************************************************)
EXTENDS Naturals

CONSTANTS
    OpId,       \* operation ids
    Owner,      \* who may own an operation: a tenant and its session
    PlanId,     \* approved plans
    PlanSteps,    \* PlanSteps[p]: the steps of plan p
    Changing    \* Changing[p]: the steps of p that change something

VARIABLE op     \* op[o]: the state of operation o, or Absent

Absent == [phase |-> "absent"]

Init == op = [o \in OpId |-> Absent]

\* The plan is recorded before anything is attempted.
Prepare(o, w, p) ==
    /\ op[o] = Absent
    /\ op' = [op EXCEPT ![o] =
                 [phase |-> "open", owner |-> w, plan |-> p,
                  attempts |-> [j \in PlanSteps[p] |-> 0], verified |-> {}]]

Open(o) == op[o].phase = "open"

Attempt(o, j) ==
    /\ Open(o) /\ j \in PlanSteps[op[o].plan] \ op[o].verified
    /\ op' = [op EXCEPT ![o].attempts[j] = @ + 1]

\* A step is verified if it was attempted, or if it changes nothing.
Verify(o, j) ==
    /\ Open(o) /\ j \in PlanSteps[op[o].plan] \ op[o].verified
    /\ op[o].attempts[j] > 0 \/ j \notin Changing[op[o].plan]
    /\ op' = [op EXCEPT ![o].verified = @ \cup {j}]

Complete(o) ==
    /\ Open(o) /\ op[o].verified = PlanSteps[op[o].plan]
    /\ op' = [op EXCEPT ![o].phase = "completed"]

Next ==
    \E o \in OpId :
        \/ \E w \in Owner, p \in PlanId : Prepare(o, w, p)
        \/ op[o] # Absent
           /\ \/ \E j \in PlanSteps[op[o].plan] : Attempt(o, j) \/ Verify(o, j)
              \/ Complete(o)

Spec == Init /\ [][Next]_op

=============================================================================
